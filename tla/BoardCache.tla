------------------------------ MODULE BoardCache ------------------------------
(***************************************************************************)
(* The ticket lists of one browser page (apps/web/lib/hooks/use-tickets.ts *)
(* over the query cache that providers.tsx makes): drags on the board,     *)
(* which show their result before the server has it and take it back when  *)
(* it fails, beside mutations that only ask for new lists when they have   *)
(* succeeded, and the fetches that all of them cancel and restart.         *)
(*                                                                         *)
(* The cache itself is a library: a fetch lands unless it was cancelled,   *)
(* data that is set by hand counts as fresh, and invalidated lists stay    *)
(* marked until a fetch has landed.  The lists are one query.              *)
(***************************************************************************)
EXTENDS Naturals

CONSTANTS
    Ticket,
    Status,
    Job,        \* mutations that may be under way at once
    MaxFaults   \* bound on refused or lost calls

VARIABLES
    server,     \* the status of each ticket in the database
    lists,      \* what the cached lists show
    marked,     \* whether they are invalidated
    fetch,      \* their fetch and what it has read
    job,        \* the mutations
    missed,     \* tickets that changed without a word to the lists
    faults

vars == <<server, lists, marked, fetch, job, missed, faults>>

Idle == [pc |-> "idle"]
NoFetch == [pc |-> "none"]

Init ==
    /\ server \in [Ticket -> Status]
    /\ lists = server
    /\ marked = FALSE
    /\ fetch = NoFetch
    /\ job = [j \in Job |-> Idle]
    /\ missed = {}
    /\ faults = 0

Faulty == faults < MaxFaults /\ faults' = faults + 1
--------------------------------------------------------------------------------
(* The query cache.                                                        *)

\* invalidateQueries: a running fetch is cancelled and started again.
Invalidate == marked' = TRUE /\ fetch' = [pc |-> "sent"]

\* The board is mounted, or the window comes back, after staleTime.
Refetch ==
    /\ fetch = NoFetch
    /\ fetch' = [pc |-> "sent"]
    /\ UNCHANGED <<server, lists, marked, job, missed, faults>>

FetchReads ==
    /\ fetch.pc = "sent"
    /\ fetch' = [pc |-> "read", data |-> server]
    /\ UNCHANGED <<server, lists, marked, job, missed, faults>>

FetchLands ==
    /\ fetch.pc = "read"
    /\ lists' = fetch.data
    /\ marked' = FALSE
    /\ fetch' = NoFetch
    /\ missed' = {t \in missed : fetch.data[t] # server[t]}
    /\ UNCHANGED <<server, job, faults>>

\* retry: 1 is used up.
FetchFails ==
    /\ fetch # NoFetch /\ Faulty
    /\ fetch' = NoFetch
    /\ UNCHANGED <<server, lists, marked, job, missed>>
--------------------------------------------------------------------------------
(* useChangeTicketStatus: a card is dragged.                               *)

Goes(j, step) == job' = [job EXCEPT ![j] = step]

Changed(t, s) == [server EXCEPT ![t] = s]

\* A drop on another column; onMutate awaits that the fetches of the lists are cancelled, ...
Drag(j) ==
    /\ job[j] = Idle
    /\ \E t \in Ticket, s \in Status :
         s # lists[t] /\ Goes(j, [pc |-> "show", ticket |-> t, to |-> s])
    /\ fetch' = NoFetch
    /\ UNCHANGED <<server, lists, marked, missed, faults>>

\* ... then keeps what they show and shows the new status.
Show(j) ==
    /\ job[j].pc = "show"
    /\ Goes(j, [pc |-> "patch", ticket |-> job[j].ticket, to |-> job[j].to, before |-> lists])
    /\ lists' = [lists EXCEPT ![job[j].ticket] = job[j].to]
    /\ marked' = FALSE
    /\ UNCHANGED <<server, fetch, missed, faults>>

\* The server takes the change, ...
PatchDrag(j) ==
    /\ job[j].pc = "patch"
    /\ server' = Changed(job[j].ticket, job[j].to)
    /\ Goes(j, [pc |-> "settle", ok |-> TRUE])
    /\ UNCHANGED <<lists, marked, fetch, missed, faults>>

\* ... refuses it, or takes it and its answer is lost.
PatchFails(j) ==
    /\ job[j].pc = "patch" /\ Faulty
    /\ server' \in {server, Changed(job[j].ticket, job[j].to)}
    /\ Goes(j, [job[j] EXCEPT !.pc = "rollback"])
    /\ UNCHANGED <<lists, marked, fetch, missed>>

\* onError
Rollback(j) ==
    /\ job[j].pc = "rollback"
    /\ lists' = job[j].before
    /\ marked' = FALSE
    /\ Goes(j, [pc |-> "settle", ok |-> FALSE])
    /\ UNCHANGED <<server, fetch, missed, faults>>

\* Mutant: onSuccess in the place of onSettled.
TellsOnSuccess(j) == job[j].ok

\* onSettled invalidates the lists whatever the outcome was.
TellsLists(j) == TRUE

Settle(j) ==
    /\ job[j].pc = "settle"
    /\ IF TellsLists(j) THEN Invalidate ELSE UNCHANGED <<marked, fetch>>
    /\ Goes(j, Idle)
    /\ UNCHANGED <<server, lists, missed, faults>>
--------------------------------------------------------------------------------
(* The mutations without onMutate: of a panel of the ticket, such as       *)
(* useUpdateTicket, which sends one PATCH after the other, and replies,    *)
(* which may reopen a ticket and refresh its detail only.                  *)

Mutate(j) ==
    /\ job[j] = Idle
    /\ \E t \in Ticket, tells \in BOOLEAN, n \in 1 .. 2 :
        /\ n = 2 => tells
        /\ Goes(j, [pc |-> "send", ticket |-> t, tells |-> tells, left |-> n, wrote |-> FALSE])
    /\ UNCHANGED <<server, lists, marked, fetch, missed, faults>>

Send(j) ==
    /\ job[j].pc = "send"
    /\ \E s \in Status : server' = Changed(job[j].ticket, s)
    /\ Goes(j, [job[j] EXCEPT !.left = @ - 1, !.wrote = TRUE,
                             !.pc = IF job[j].left = 1 THEN "sent" ELSE "send"])
    /\ UNCHANGED <<lists, marked, fetch, missed, faults>>

\* onSuccess
Succeed(j) ==
    /\ job[j].pc = "sent"
    /\ IF job[j].tells THEN Invalidate /\ UNCHANGED missed
       ELSE missed' = missed \cup {job[j].ticket} /\ UNCHANGED <<marked, fetch>>
    /\ Goes(j, Idle)
    /\ UNCHANGED <<server, lists, faults>>

\* A PATCH is refused, or an answer is lost: onSuccess is not called.
FailLate(j) ==
    /\ job[j].pc \in {"send", "sent"} /\ Faulty
    /\ missed' = IF job[j].wrote THEN missed \cup {job[j].ticket} ELSE missed
    /\ Goes(j, Idle)
    /\ UNCHANGED <<server, lists, marked, fetch>>

Next ==
    \/ Refetch \/ FetchReads \/ FetchLands \/ FetchFails
    \/ \E j \in Job : \/ Drag(j) \/ Show(j) \/ PatchDrag(j) \/ PatchFails(j) \/ Rollback(j) \/ Settle(j)
                      \/ Mutate(j) \/ Send(j) \/ Succeed(j) \/ FailLate(j)

Spec == Init /\ [][Next]_vars
--------------------------------------------------------------------------------
TypeOK ==
    /\ server \in [Ticket -> Status] /\ lists \in [Ticket -> Status]
    /\ marked \in BOOLEAN /\ missed \subseteq Ticket
    /\ fetch.pc \in {"none", "sent", "read"}
    /\ \A j \in Job : job[j].pc \in {"idle", "show", "patch", "rollback", "settle", "send", "sent"}

AtRest == fetch = NoFetch /\ ~marked /\ \A j \in Job : job[j] = Idle

\* use-tickets.ts: what the lists show when nothing is under way is what the server has,
\* although drags overlapped, one was taken back after another had settled, and fetches
\* that had read older data were running; but for tickets of mutations that the lists
\* were not told of.
RestingListsAreTrue == AtRest => \A t \in Ticket \ missed : lists[t] = server[t]

================================================================================
