---------------------------- MODULE MCInboundLedger ----------------------------
(* Instances of InboundLedger for TLC.                                     *)
EXTENDS InboundLedger

CONSTANTS k1, k2, s1, s2, f1, f2, f3, p1, p2

M(key, real, sem, content) == [key |-> key, real |-> real, sem |-> sem, content |-> content, pipe |-> FALSE]

\* Two processes with a drain loop each; the first also serves a PIPE request.
TwoPods == [f \in {f1, f2, f3} |-> IF f = f2 THEN p2 ELSE p1]

\* Two copies of a message to two queues.
Copies(content) == [d \in {1, 2} |-> M(k1, TRUE, s1, content)]

\* The second copy comes through the PIPE endpoint.
PipedCopy == [Copies("mail") EXCEPT ![2].pipe = TRUE]

\* A message, and a different one that reuses its Message-ID.
Conflict == [d \in {1, 2} |-> M(k1, TRUE, IF d = 1 THEN s1 ELSE s2, "mail")]

\* Equal bytes without a Message-ID: two messages.
Headerless == [d \in {1, 2} |-> M(IF d = 1 THEN k1 ELSE k2, FALSE, s1, "mail")]

\* A message and one the pipeline treats in another way.
Beside(content) == [d \in {1, 2} |-> IF d = 1 THEN M(k1, TRUE, s1, "mail")
                                     ELSE M(k2, TRUE, s2, content)]

CopyInboxes == {Copies("mail"), Copies("reply")}
MixedInboxes == {Conflict, Headerless}
                \cup {Beside(c) : c \in {"loop", "rule", "malformed", "truncated"}}
AllInboxes == CopyInboxes \cup {PipedCopy} \cup MixedInboxes
================================================================================
