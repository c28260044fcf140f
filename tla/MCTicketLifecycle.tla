---------------------------- MODULE MCTicketLifecycle ----------------------------
(***************************************************************************)
(* Three tickets, one of them not made yet, in two departments that share  *)
(* one agent: two posts on the first ticket, one on the second and one     *)
(* still to be written.                                                    *)
(*                                                                         *)
(* Any three operations on posts, owners, watchers and departments meet,   *)
(* or changes of an agent's departments in their place; any other          *)
(* operation, a macro, a rule and an escalation among them, meets one that *)
(* changes its ticket or links, and such a change.                         *)
(***************************************************************************)
EXTENDS TicketLifecycle, TLC

CONSTANTS a1, a2, d1, d2, t1, t2, t3

VARIABLE mix    \* the operations each request may be, fixed at the start

TwoDesks == d1 :> {a1, a2} @@ d2 :> {a2}

Desks == t1 :> d1 @@ t2 :> d2 @@ t3 :> None

Threads == <<t1, t1, t2, None>>

\* The tag may fail, and the move and the assignment still follow.
OneMacro == {<<"reply", "tag", "move", "assign">>}

Moving == {"reply", "status", "assign", "move", "watch", "unwatch", "merge", "split"}

\* An assignment is here as the end of the macro, and a tag only within it.
Other == {"create", "spawn", "note", "field", "row", "link", "unlink", "macro", "rule",
          "escalate", "assign"}

Mixes == {[r \in Request |-> Moving],
          [r \in Request |-> CASE r = 1 -> Other [] r = 2 -> {"reply", "move", "merge", "unlink", "rule"}
                               [] OTHER -> {}]}

InTheMix == \A r \in Request :
    \/ req[r].op \in mix[r] \cup {"new", "done"}
    \/ rest[r] # << >> /\ "macro" \in mix[r]

MCInit == Init /\ mix \in Mixes

MCNext == Next /\ UNCHANGED mix /\ InTheMix'

MCSpec == MCInit /\ [][MCNext]_<<vars, mix>>

================================================================================
