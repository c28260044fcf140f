--------------------------- MODULE MCStaffSessions ---------------------------
(* Values for the runs of StaffSessions.                                   *)
EXTENDS StaffSessions, TLC

CONSTANTS t1, t2, t3, b1, b2, c1, c2

Tokens3 == {t1, t2, t3}
TwoTabs == {b1, b2}
TwoChanges == {c1, c2}

\* Bound: requests of the browser, or three mails with reset links, beside one change of
\* the account, or two mails beside two.
Sessions == \E t \in Token : token[t].state # "none"
Mails == {n \in Link : link[n].pc # "start"}
OneChange == \E c \in Change : change[c].kind = "logout" /\ change[c].pc = "start"
OneStory ==
    /\ ~(Mails # {} /\ (Sessions \/ \E b \in Tab : tab[b].pc # "idle"))
    /\ Sessions \/ Cardinality(Mails) = 3 => OneChange

Symmetric == Permutations(Token) \cup Permutations(Tab) \cup Permutations(Change)
================================================================================
