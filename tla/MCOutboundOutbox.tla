--------------------------- MODULE MCOutboundOutbox ---------------------------
(* Instances of OutboundOutbox for TLC.                                    *)
EXTENDS OutboundOutbox, TLC

\* Every staff reply of an instance belongs to one ticket.
MCTicketOf == [e \in StaffReply |-> CHOOSE t \in Ticket : TRUE]

\* Workers are interchangeable, and so are macros: no property names one.
Symmetric == Permutations(Worker) \cup Permutations(Macro)

\* A macro is at work, or was before any reply was delivered.
Macroed == macros # {} \/ \E t \in Ticket : firstResponse[t] \in Macro

(* Three stories, told apart by the second row and by the macros: with one *)
(* row queued there are faults, retries and overlapping claims; with two   *)
(* there are restarts into another configuration and first attempts only,  *)
(* or macros that read and reply in any order with the two replies, no     *)
(* scan being under way.                                                   *)
OneStory ==
    /\ IF row[2].state = "ABSENT" THEN restarts = 0 /\ ~Macroed
       ELSE faults = 0 /\ \A e \in Email : retries[e] = 0 /\ row[e].attempts <= 1
    /\ Macroed => restarts = 0 /\ scan.pc = "idle"
================================================================================
