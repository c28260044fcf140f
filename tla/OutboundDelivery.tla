--------------------------- MODULE OutboundDelivery ---------------------------
(***************************************************************************)
(* What the outbox promises about one e-mail, without workers, leases,     *)
(* queues or scans: every delivery is paid for by a consent (the request   *)
(* that created the row, then each retry of an operator), an attempt that  *)
(* may have delivered is never repeated by itself, and SENT is said only   *)
(* of a delivery. OutboundOutbox implements it.                            *)
(***************************************************************************)
EXTENDS Naturals

CONSTANTS Email, Post,      \* the e-mails, and those that show a ticket post
          MaxConsents       \* bound: further consents of one e-mail

VARIABLES status,           \* what is known of an e-mail
          consents,         \* further consents so far
          delivered,        \* deliveries by e-mail and consent
          shown             \* the post says that it was e-mailed

vars == <<status, consents, delivered, shown>>

Delivered(e) == delivered[e][consents[e]] > 0

Init == /\ status = [e \in Email |-> "absent"]
        /\ consents = [e \in Email |-> 0]
        /\ delivered = [e \in Email |-> [k \in 0 .. MaxConsents |-> 0]]
        /\ shown = [e \in Email |-> FALSE]

Commit(e) == /\ status[e] = "absent"
             /\ status' = [status EXCEPT ![e] = "waiting"]
             /\ UNCHANGED <<consents, delivered, shown>>

Try(e) == /\ status[e] = "waiting"
          /\ status' = [status EXCEPT ![e] = "trying"]
          /\ UNCHANGED <<consents, delivered, shown>>

(* A delivery uses up its consent. Under the current one it happens during *)
(* the attempt, or after the attempt was given up as unknown.              *)
Deliver(e, k) == /\ delivered[e][k] = 0 /\ k <= consents[e]
                 /\ k = consents[e] => status[e] \in {"trying", "unknown"}
                 /\ delivered' = [delivered EXCEPT ![e][k] = 1]
                 /\ UNCHANGED <<status, consents, shown>>

Confirm(e) == /\ status[e] = "trying" /\ Delivered(e)
              /\ status' = [status EXCEPT ![e] = "sent"]
              /\ shown' = [shown EXCEPT ![e] = e \in Post]
              /\ UNCHANGED <<consents, delivered>>

(* Only an attempt that did not deliver may be repeated, or called failed. *)
GiveUp(e, outcome) == /\ status[e] = "trying" /\ ~Delivered(e)
                      /\ status' = [status EXCEPT ![e] = outcome]
                      /\ UNCHANGED <<consents, delivered, shown>>

LoseTrack(S) == /\ S # {} /\ \A e \in S : status[e] = "trying"
                /\ status' = [e \in Email |-> IF e \in S THEN "unknown" ELSE status[e]]
                /\ UNCHANGED <<consents, delivered, shown>>

Consent(e) == /\ status[e] \in {"failed", "unknown", "waiting"}
              /\ consents[e] < MaxConsents
              /\ status' = [status EXCEPT ![e] = "waiting"]
              /\ consents' = [consents EXCEPT ![e] = @ + 1]
              /\ UNCHANGED <<delivered, shown>>

Next == \/ \E e \in Email : Commit(e) \/ Try(e) \/ Confirm(e) \/ Consent(e)
        \/ \E e \in Email, k \in 0 .. MaxConsents : Deliver(e, k)
        \/ \E e \in Email, outcome \in {"waiting", "failed"} : GiveUp(e, outcome)
        \/ \E S \in SUBSET Email : LoseTrack(S)

Spec == Init /\ [][Next]_vars
================================================================================
