--------------------------- MODULE MCImapAcceptance ---------------------------
(* Values for the runs of ImapAcceptance.                                  *)
EXTENDS ImapAcceptance, TLC

CONSTANTS home, away

\* The first mailbox may be renumbered once; both have the same UIDVALIDITY at first.
Shared == home :> {1, 3} @@ away :> {1}

Symmetric == Permutations(Pod) \cup Permutations(Operator)

\* Bound: once something has gone wrong one process is in a cycle at a time, and none is
\* while two reconciles are under way.
Polling == {p \in Pod : pod[p].pc # "idle"}
Reconciling == {o \in Operator : op[o].pc # "idle"}
FewAtOnce ==
    /\ faults > 0 => Cardinality(Polling) <= 1
    /\ Cardinality(Reconciling) > 1 => Polling = {}
================================================================================
