-------------------------- MODULE TicketClocksProofs --------------------------
(***************************************************************************)
(* Proofs about TicketClocks, for any finite set of tickets and any number *)
(* of scans and closing sweeps that run at once: one event, one run of the *)
(* rules and one level per breach, and no step of a job on a stale list.   *)
(***************************************************************************)
EXTENDS TicketClocks, FiniteSetTheorems, WellFoundedInduction, TLAPS

--------------------------------------------------------------------------------
(* What a scan takes.                                                      *)

LEMMA LeastOf ==
    ASSUME NEW S, S \subseteq Nat, S # {}
    PROVE  \E x \in S : \A y \in S : x <= y
<1> DEFINE R == {p \in Nat \X Nat : p[1] < p[2]}
<1>1. IsWellFoundedOn(R, Nat)
  BY NatLessThanWellFounded, Zenon DEF OpToRel
<1>2. \A x, y \in S : x \in Nat /\ y \in Nat /\ (<<y, x>> \notin R => x <= y)
  OBVIOUS
<1>3. \E x \in S : \A y \in S : <<y, x>> \notin R
  <2> HIDE DEF R
  <2> QED BY <1>1, WFMin
<1> HIDE DEF R
<1> QED BY <1>2, <1>3

\* The elements that fewer than k others precede are k at most.
LEMMA FirstOnes ==
    ASSUME NEW S, S \subseteq Nat, IsFiniteSet(S), NEW k \in Nat
    PROVE  Cardinality({t \in S : Cardinality({u \in S : u < t}) < k}) <= k
<1> DEFINE Below(t) == {u \in S : u < t}
           F == {t \in S : Cardinality(Below(t)) < k}
           D == {k - Cardinality(Below(t)) : t \in F}
<1>1. \A t : Cardinality(Below(t)) \in Nat /\ IsFiniteSet(Below(t))
  <2> SUFFICES ASSUME NEW t PROVE Cardinality(Below(t)) \in Nat /\ IsFiniteSet(Below(t))
    OBVIOUS
  <2>1. Below(t) \in SUBSET S
    OBVIOUS
  <2> HIDE DEF Below
  <2>2. IsFiniteSet(Below(t))
    BY <2>1, FS_Subset
  <2> QED BY <2>2, FS_CardinalityType
<1>2. CASE F = {}
  <2>1. Cardinality(F) = 0
    <3> HIDE DEF F
    <3> QED BY <1>2, FS_EmptySet
  <2> QED BY <2>1
<1>3. CASE F # {}
  <2>1. D \subseteq Nat /\ D # {}
    <3>1. \A t \in F : k - Cardinality(Below(t)) \in Nat
      <4>1. \A t \in F : Cardinality(Below(t)) < k
        OBVIOUS
      <4> HIDE DEF F, Below
      <4> QED BY <1>1, <4>1
    <3> HIDE DEF F, Below
    <3> QED BY <1>3, <3>1
  <2>2. PICK d \in D : \A y \in D : d <= y
    <3> HIDE DEF D
    <3> QED BY <2>1, LeastOf
  <2>3. PICK m \in F : d = k - Cardinality(Below(m))
    OBVIOUS
  <2>4. \A t \in F : Cardinality(Below(t)) <= Cardinality(Below(m))
    <3> SUFFICES ASSUME NEW t \in F PROVE Cardinality(Below(t)) <= Cardinality(Below(m))
      OBVIOUS
    <3>1. k - Cardinality(Below(t)) \in D
      OBVIOUS
    <3>2. k - Cardinality(Below(m)) <= k - Cardinality(Below(t))
      BY <2>2, <2>3, <3>1
    <3> HIDE DEF D, F, Below
    <3> QED BY <1>1, <3>2
  <2>5. m \in S /\ Cardinality(Below(m)) < k
    OBVIOUS
  <2>6. IsFiniteSet(Below(m) \cup {m}) /\ Cardinality(Below(m) \cup {m}) = Cardinality(Below(m)) + 1
    <3>1. m \notin Below(m)
      BY <2>5
    <3> HIDE DEF Below
    <3> QED BY <1>1, <3>1, FS_AddElement
  <2>7. \A u \in F : u <= m
    <3> SUFFICES ASSUME NEW u \in F, ~(u <= m) PROVE FALSE
      OBVIOUS
    <3>1. u \in S /\ u \in Nat /\ m \in Nat
      BY <2>5
    <3>2. Below(m) \cup {m} \in SUBSET Below(u)
      <4>1. \A x \in Below(m) \cup {m} : x \in S /\ x \in Nat /\ x <= m
        BY <2>5, <3>1
      <4>2. m < u
        BY <3>1
      <4>3. \A x \in Below(m) \cup {m} : x \in S /\ x < u
        <5> HIDE DEF Below
        <5> QED BY <3>1, <4>1, <4>2
      <4> QED BY <4>3
    <3>3. Cardinality(Below(m) \cup {m}) <= Cardinality(Below(u))
      <4> HIDE DEF Below
      <4> QED BY <1>1, <3>2, FS_Subset
    <3>4. Cardinality(Below(u)) <= Cardinality(Below(m))
      BY <2>4
    <3> HIDE DEF Below
    <3> QED BY <1>1, <2>6, <3>3, <3>4
  <2>8. F \in SUBSET (Below(m) \cup {m})
    <3>1. \A u \in F : u \in S /\ u \in Nat /\ (u = m \/ u < m)
      BY <2>5, <2>7
    <3> QED BY <3>1
  <2>9. Cardinality(F) <= Cardinality(Below(m)) + 1 /\ IsFiniteSet(F)
    <3> HIDE DEF F, Below
    <3> QED BY <2>6, <2>8, FS_Subset
  <2>10. Cardinality(F) \in Nat
    <3> HIDE DEF F
    <3> QED BY <2>9, FS_CardinalityType
  <2>11. Cardinality(F) <= k
    <3> HIDE DEF F, Below
    <3> QED BY <1>1, <2>5, <2>9, <2>10
  <2> QED BY <2>11
<1> QED BY <1>2, <1>3

\* A scan takes ScanCap tickets at most.
LEMMA TakenCapped == Taken \subseteq Ticket /\ IsFiniteSet(Taken) /\ Cardinality(Taken) <= ScanCap
<1>1. Listed \in SUBSET Ticket
  BY DEF Listed
<1>2. IsFiniteSet(Listed) /\ Listed \subseteq Nat /\ ScanCap \in Nat
  BY <1>1, ClocksAssumption, FS_Subset
<1>3. Cardinality(Taken) <= ScanCap
  BY <1>2, FirstOnes DEF Taken
<1>4. Taken \in SUBSET Listed
  BY DEF Taken
<1> QED BY <1>1, <1>2, <1>3, <1>4, FS_Subset

--------------------------------------------------------------------------------
(* Type correctness.                                                       *)

TicketRow == [status : {"open", "pending", "closed"}, merged : BOOLEAN, answered : BOOLEAN,
              idle : BOOLEAN, due : [Types -> {"absent", "running", "past"}],
              escalated : BOOLEAN, level : Nat]
SweepRow  == [list : SUBSET Ticket, old : SUBSET Ticket]

Rows == ticket \in [Ticket -> TicketRow]
Escalations == event \in [Ticket -> SUBSET Types] /\ runs \in [Ticket -> [Types -> Nat]]
Lists == /\ todo \in [Scan -> SUBSET [on : Ticket, type : Types]]
         /\ \A s \in Scan : Cardinality({b.on : b \in todo[s]}) <= ScanCap
Sweeps == /\ sweep \in [Sweep -> SweepRow] /\ heard \in [Sweep -> SUBSET Ticket]
          /\ \A c \in Sweep : sweep[c].old \cup heard[c] \subseteq sweep[c].list
Counters == work \in 0 .. MaxWork /\ faults \in 0 .. MaxFaults

LEMMA TypeParts == TypeOK <=> Rows /\ Escalations /\ Lists /\ Sweeps /\ Counters
BY DEF TypeOK, Rows, Escalations, Lists, Sweeps, Counters, TicketRow, SweepRow

LEMMA ClocksType == Clocks \in [Types -> {"absent", "running", "past"}]
BY DEF Clocks

LEMMA TypeInit == Init => TypeOK
<1> SUFFICES ASSUME Init PROVE TypeOK
  OBVIOUS
<1>1. Rows
  <2> DEFINE Fresh == [status : {"pending"}, merged : {FALSE}, answered : {FALSE}, idle : {FALSE},
                       due : {Clocks}, escalated : {FALSE}, level : {0}]
  <2>1. ASSUME NEW r \in Fresh PROVE r \in TicketRow
    <3>1. r = [status |-> "pending", merged |-> FALSE, answered |-> FALSE, idle |-> FALSE,
               due |-> Clocks, escalated |-> FALSE, level |-> 0]
      OBVIOUS
    <3> HIDE DEF Fresh
    <3> DEFINE Due == [Types -> {"absent", "running", "past"}]
    <3> HIDE DEF Due
    <3>2. Clocks \in Due
      BY ClocksType DEF Due
    <3>3. r \in [status : {"open", "pending", "closed"}, merged : BOOLEAN, answered : BOOLEAN,
                 idle : BOOLEAN, due : Due, escalated : BOOLEAN, level : Nat]
      BY <3>1, <3>2
    <3> QED BY <3>3 DEF TicketRow, Due
  <2>2. ticket \in [Ticket -> Fresh]
    BY DEF Init
  <2> HIDE DEF Fresh
  <2> QED BY <2>1, <2>2 DEF Rows
<1>2. Escalations
  BY DEF Init, Escalations
<1>3. Lists
  <2>1. ASSUME NEW s \in Scan PROVE Cardinality({b.on : b \in todo[s]}) <= ScanCap
    <3>1. {b.on : b \in todo[s]} = {}
      BY DEF Init
    <3>2. 0 <= ScanCap
      BY ClocksAssumption
    <3> QED BY <3>1, <3>2, FS_EmptySet, Zenon
  <2> QED BY <2>1 DEF Init, Lists
<1>4. Sweeps
  BY DEF Init, Sweeps, SweepRow
<1>5. Counters
  BY ClocksAssumption DEF Init, Counters
<1> QED BY <1>1, <1>2, <1>3, <1>4, <1>5, TypeParts

\* A part of what a scan has listed keeps to the cap.
LEMMA ListsShrink ==
    ASSUME Lists, NEW s \in Scan, NEW T \in SUBSET todo[s], todo' = [todo EXCEPT ![s] = T]
    PROVE  Lists'
<1>1. todo' \in [Scan -> SUBSET [on : Ticket, type : Types]]
  BY DEF Lists
<1>2. ASSUME NEW r \in Scan PROVE Cardinality({b.on : b \in todo'[r]}) <= ScanCap
  <2>1. CASE r # s
    BY <2>1 DEF Lists
  <2>2. CASE r = s
    <3> DEFINE A == {b.on : b \in todo[s]}
               B == {b.on : b \in T}
    <3>1. A \in SUBSET Ticket
      BY DEF Lists
    <3>2. B \in SUBSET A
      OBVIOUS
    <3>3. Cardinality(A) <= ScanCap
      BY DEF Lists
    <3>4. todo'[r] = T
      BY <2>2 DEF Lists
    <3> HIDE DEF A, B
    <3>5. IsFiniteSet(A) /\ Cardinality(B) <= Cardinality(A) /\ IsFiniteSet(B)
      BY <3>1, <3>2, ClocksAssumption, FS_Subset
    <3>6. Cardinality(B) <= ScanCap
      BY <3>3, <3>5, FS_CardinalityType, ClocksAssumption
    <3> QED BY <3>4, <3>6 DEF B
  <2> QED BY <2>1, <2>2
<1> QED BY <1>1, <1>2 DEF Lists

\* What one scan lists is of the tickets it takes.
LEMMA ListsStart ==
    ASSUME Lists, NEW s \in Scan, StartScan(s)
    PROVE  Lists'
<1> DEFINE T == UNION {Breaches(t) : t \in Taken}
<1>1. \A b \in T : b \in [on : Ticket, type : Types] /\ b.on \in Taken
  BY TakenCapped DEF Breaches
<1>2. todo' = [todo EXCEPT ![s] = T]
  BY DEF StartScan
<1> HIDE DEF T
<1>3. todo' \in [Scan -> SUBSET [on : Ticket, type : Types]]
  BY <1>1, <1>2 DEF Lists
<1>4. ASSUME NEW r \in Scan PROVE Cardinality({b.on : b \in todo'[r]}) <= ScanCap
  <2>1. CASE r # s
    BY <1>2, <2>1 DEF Lists
  <2>2. CASE r = s
    <3> DEFINE B == {b.on : b \in T}
    <3>1. B \in SUBSET Taken
      BY <1>1
    <3>2. todo'[r] = T
      BY <1>2, <2>2 DEF Lists
    <3> HIDE DEF B
    <3>3. Cardinality(B) <= Cardinality(Taken) /\ IsFiniteSet(B)
      BY <3>1, TakenCapped, FS_Subset
    <3>4. Cardinality(B) <= ScanCap
      BY <3>3, TakenCapped, FS_CardinalityType, ClocksAssumption
    <3> QED BY <3>2, <3>4 DEF B
  <2> QED BY <2>1, <2>2
<1> QED BY <1>3, <1>4 DEF Lists

\* Whoever writes a ticket without escalating it leaves its level alone.
LevelsStay == \A u \in Ticket : /\ ticket'[u].escalated = ticket[u].escalated
                                /\ ticket'[u].level = ticket[u].level

LEMMA RowWrite ==
    ASSUME Rows, NEW t \in Ticket, NEW r \in TicketRow, r.escalated = ticket[t].escalated,
           r.level = ticket[t].level, ticket' = [ticket EXCEPT ![t] = r]
    PROVE  Rows' /\ LevelsStay
BY DEF Rows, LevelsStay

LEMMA Touching ==
    ASSUME Rows, NEW t \in Ticket, NEW r \in TicketRow, r.escalated = ticket[t].escalated,
           r.level = ticket[t].level, Touches(t, r)
    PROVE  Rows' /\ LevelsStay
<1> DEFINE q == [r EXCEPT !.idle = FALSE]
<1>1. q \in TicketRow /\ q.escalated = r.escalated /\ q.level = r.level
  BY DEF TicketRow
<1>2. ticket' = [ticket EXCEPT ![t] = q]
  BY DEF Touches
<1> HIDE DEF q
<1> QED BY <1>1, <1>2, RowWrite

\* What people do to a ticket, and what time does.
LEMMA TicketsWritten ==
    ASSUME Rows, NEW t \in Ticket, People(t) \/ GoesIdle(t) \/ \E y \in Types : FallsDue(t, y)
    PROVE  Rows' /\ LevelsStay
<1>0. ticket[t] \in TicketRow
  BY DEF Rows
<1>1. CASE CustomerReplies(t)
  <2> DEFINE st == IF ticket[t].status = "closed" THEN "open" ELSE ticket[t].status
             r == [ticket[t] EXCEPT !.status = st]
  <2>1. st \in {"open", "pending", "closed"}
    BY <1>0 DEF TicketRow
  <2>2. Touches(t, r)
    BY <1>1 DEF CustomerReplies
  <2> HIDE DEF st
  <2>3. r \in TicketRow /\ r.escalated = ticket[t].escalated /\ r.level = ticket[t].level
    BY <1>0, <2>1 DEF TicketRow
  <2> HIDE DEF r
  <2> QED BY <2>2, <2>3, Touching
<1>2. CASE StaffReplies(t)
  BY <1>0, <1>2, Touching DEF StaffReplies
<1>3. CASE FirstReplyIsSent(t)
  <2> DEFINE r == [ticket[t] EXCEPT !.answered = TRUE]
  <2>1. ticket' = [ticket EXCEPT ![t] = r]
    BY <1>3 DEF FirstReplyIsSent
  <2>2. r \in TicketRow /\ r.escalated = ticket[t].escalated /\ r.level = ticket[t].level
    BY <1>0 DEF TicketRow
  <2> HIDE DEF r
  <2> QED BY <2>1, <2>2, RowWrite
<1>4. CASE ChangesStatus(t)
  <2>1. PICK status \in {"open", "pending", "closed"} :
          Touches(t, [ticket[t] EXCEPT !.status = status,
            !.due = IF status = "closed" THEN [y \in Types |-> "absent"]
                    ELSE IF ticket[t].status = "closed" THEN Clocks ELSE @])
    BY <1>4 DEF ChangesStatus
  <2> DEFINE d == IF status = "closed" THEN [y \in Types |-> "absent"]
                  ELSE IF ticket[t].status = "closed" THEN Clocks ELSE ticket[t].due
             r == [ticket[t] EXCEPT !.status = status, !.due = d]
  <2>2. d \in [Types -> {"absent", "running", "past"}]
    BY <1>0, ClocksType DEF TicketRow
  <2>3. Touches(t, r)
    BY <2>1
  <2> HIDE DEF d
  <2>4. r \in TicketRow /\ r.escalated = ticket[t].escalated /\ r.level = ticket[t].level
    BY <1>0, <2>2 DEF TicketRow
  <2> HIDE DEF r
  <2> QED BY <2>3, <2>4, Touching
<1>5. CASE MergesAway(t)
  <2> DEFINE r == [ticket[t] EXCEPT !.merged = TRUE]
  <2>1. Touches(t, r)
    BY <1>5 DEF MergesAway
  <2>2. r \in TicketRow /\ r.escalated = ticket[t].escalated /\ r.level = ticket[t].level
    BY <1>0 DEF TicketRow
  <2> HIDE DEF r
  <2> QED BY <2>1, <2>2, Touching
<1>6. CASE GoesIdle(t)
  <2> DEFINE r == [ticket[t] EXCEPT !.idle = TRUE]
  <2>1. ticket' = [ticket EXCEPT ![t] = r]
    BY <1>6 DEF GoesIdle
  <2>2. r \in TicketRow /\ r.escalated = ticket[t].escalated /\ r.level = ticket[t].level
    BY <1>0 DEF TicketRow
  <2> HIDE DEF r
  <2> QED BY <2>1, <2>2, RowWrite
<1>7. ASSUME NEW y \in Types, FallsDue(t, y) PROVE Rows' /\ LevelsStay
  <2> DEFINE d == [ticket[t].due EXCEPT ![y] = "past"]
             r == [ticket[t] EXCEPT !.due = d]
  <2>1. ticket' = [ticket EXCEPT ![t] = r]
    BY <1>7 DEF FallsDue
  <2>2. d \in [Types -> {"absent", "running", "past"}]
    BY <1>0 DEF TicketRow
  <2> HIDE DEF d
  <2>3. r \in TicketRow /\ r.escalated = ticket[t].escalated /\ r.level = ticket[t].level
    BY <1>0, <2>2 DEF TicketRow
  <2> HIDE DEF r
  <2> QED BY <2>1, <2>3, RowWrite
<1> QED BY <1>1, <1>2, <1>3, <1>4, <1>5, <1>6, <1>7 DEF People

--------------------------------------------------------------------------------
(* The sweeps.                                                             *)

\* A reply since the cutoff of a job puts the ticket beyond that cutoff.
HeardIsYoung == \A c \in Sweep : sweep[c].old \cap heard[c] = {}

SweepInv == Sweeps /\ HeardIsYoung

\* Every writer of a status takes the ticket beyond the cutoff.
PendingOld == \A c \in Sweep : \A t \in sweep[c].old : Closable(t)

LEMMA SweepsTouched ==
    ASSUME SweepInv, NEW t \in Ticket,
           sweep' = [c \in Sweep |-> [sweep[c] EXCEPT !.old = @ \ {t}]],
           heard' = heard \/ Heard(t)
    PROVE  SweepInv'
<1>1. ASSUME NEW c \in Sweep
      PROVE  /\ sweep[c] \in SweepRow
             /\ [sweep[c] EXCEPT !.old = @ \ {t}] \in SweepRow
             /\ [sweep[c] EXCEPT !.old = @ \ {t}].list = sweep[c].list
             /\ [sweep[c] EXCEPT !.old = @ \ {t}].old = sweep[c].old \ {t}
  BY DEF SweepInv, Sweeps, SweepRow
<1>3. ASSUME NEW c \in Sweep
      PROVE  /\ sweep'[c].list = sweep[c].list /\ sweep'[c].old = sweep[c].old \ {t}
             /\ sweep'[c] \in SweepRow
             /\ heard'[c] \in {heard[c], heard[c] \cup ({t} \cap sweep[c].list)}
  BY <1>1 DEF Heard
<1>4. sweep' \in [Sweep -> SweepRow]
  BY <1>1
<1>5. heard' \in [Sweep -> SUBSET Ticket]
  BY <1>1 DEF Heard, SweepInv, Sweeps, SweepRow
<1>6. ASSUME NEW c \in Sweep
      PROVE  sweep'[c].old \cup heard'[c] \subseteq sweep'[c].list /\ sweep'[c].old \cap heard'[c] = {}
  <2>1. sweep[c].old \cup heard[c] \subseteq sweep[c].list /\ sweep[c].old \cap heard[c] = {}
    BY DEF SweepInv, Sweeps, HeardIsYoung
  <2>2. sweep'[c].list = sweep[c].list /\ sweep'[c].old = sweep[c].old \ {t}
    BY <1>3
  <2> QED BY <1>3, <2>1, <2>2
<1> QED BY <1>4, <1>5, <1>6 DEF SweepInv, Sweeps, HeardIsYoung

LEMMA PeopleSweeps ==
    ASSUME SweepInv, NEW t \in Ticket, People(t)
    PROVE  SweepInv'
<1>1. CASE FirstReplyIsSent(t)
  BY <1>1 DEF FirstReplyIsSent, SweepInv, Sweeps, HeardIsYoung
<1>2. CASE ~FirstReplyIsSent(t)
  <2>1. sweep' = [c \in Sweep |-> [sweep[c] EXCEPT !.old = @ \ {t}]]
    BY <1>2 DEF People, CustomerReplies, StaffReplies, ChangesStatus, MergesAway, Touches
  <2>2. heard' = heard \/ Heard(t)
    BY <1>2 DEF People, CustomerReplies, StaffReplies, ChangesStatus, MergesAway
  <2> QED BY <2>1, <2>2, SweepsTouched
<1> QED BY <1>1, <1>2

LEMMA ClosingSweeps ==
    ASSUME SweepInv, PendingOld, NEW c \in Sweep, Closing(c) \/ SweepDies(c)
    PROVE  SweepInv'
<1>0. sweep \in [Sweep -> SweepRow] /\ heard \in [Sweep -> SUBSET Ticket]
  BY DEF SweepInv, Sweeps
<1>1. \A k \in Sweep : /\ sweep[k].list \subseteq Ticket /\ sweep[k].old \subseteq Ticket
                       /\ sweep[k].old \cup heard[k] \subseteq sweep[k].list
                       /\ sweep[k].old \cap heard[k] = {}
  BY <1>0 DEF SweepInv, Sweeps, HeardIsYoung, SweepRow
<1>2. CASE StartSweep(c)
  <2>0. PICK S \in SUBSET Candidates :
          sweep' = [sweep EXCEPT ![c] = [list |-> S, old |-> S]] /\ heard' = heard /\ sweep[c].list = {}
    BY <1>2 DEF StartSweep
  <2> DEFINE r == [list |-> S, old |-> S]
  <2>1. sweep' = [sweep EXCEPT ![c] = r] /\ heard' = heard /\ sweep[c].list = {}
    BY <2>0
  <2>2. r \in SweepRow /\ r.list = S /\ r.old = S
    BY DEF SweepRow, Candidates
  <2>3. heard[c] = {}
    BY <1>1, <2>1
  <2> HIDE DEF r
  <2> QED BY <1>0, <1>1, <2>1, <2>2, <2>3 DEF SweepInv, Sweeps, HeardIsYoung
<1>3. ASSUME NEW t \in Ticket, Close(c, t) PROVE SweepInv'
  <2> DEFINE r(k) == [list |-> IF k = c THEN sweep[k].list \ {t} ELSE sweep[k].list,
                      old |-> sweep[k].old \ {t}]
  <2>1. sweep' = [k \in Sweep |-> r(k)] /\ heard' = [heard EXCEPT ![c] = @ \ {t}]
    BY <1>3 DEF Close, Leaves
  <2>2. \A k \in Sweep : r(k) \in SweepRow
    BY <1>1 DEF SweepRow
  <2>3. \A k \in Sweep : /\ r(k).old = sweep[k].old \ {t}
                         /\ r(k).list = IF k = c THEN sweep[k].list \ {t} ELSE sweep[k].list
    OBVIOUS
  <2> HIDE DEF r
  <2>4. sweep' \in [Sweep -> SweepRow] /\ heard' \in [Sweep -> SUBSET Ticket]
    BY <1>0, <2>1, <2>2
  <2>5. ASSUME NEW k \in Sweep
        PROVE  sweep'[k].old \cup heard'[k] \subseteq sweep'[k].list /\ sweep'[k].old \cap heard'[k] = {}
    <3>1. sweep'[k] = r(k)
      BY <2>1
    <3>2. heard'[k] = IF k = c THEN heard[k] \ {t} ELSE heard[k]
      BY <1>0, <2>1
    <3> QED BY <1>1, <2>3, <3>1, <3>2
  <2> QED BY <2>4, <2>5 DEF SweepInv, Sweeps, HeardIsYoung
<1>4. ASSUME NEW t \in Ticket, Skip(c, t) PROVE SweepInv'
  <2> DEFINE r == [sweep[c] EXCEPT !.list = @ \ {t}]
  <2>1. sweep' = [sweep EXCEPT ![c] = r] /\ heard' = [heard EXCEPT ![c] = @ \ {t}]
    BY <1>4 DEF Skip, Leaves
  <2>2. r \in SweepRow /\ r.list = sweep[c].list \ {t} /\ r.old = sweep[c].old
    BY <1>0 DEF SweepRow
  <2>3. t \notin sweep[c].old
    BY <1>4 DEF Skip, StillIdle, PendingOld
  <2> HIDE DEF r
  <2>4. sweep'[c] = r /\ heard'[c] = heard[c] \ {t}
        /\ \A k \in Sweep : k # c => sweep'[k] = sweep[k] /\ heard'[k] = heard[k]
    BY <1>0, <2>1
  <2>5. sweep' \in [Sweep -> SweepRow] /\ heard' \in [Sweep -> SUBSET Ticket]
    BY <1>0, <2>1, <2>2
  <2> QED BY <1>1, <2>2, <2>3, <2>4, <2>5 DEF SweepInv, Sweeps, HeardIsYoung
<1>6. ASSUME NEW t \in Ticket, CloseFails(c, t) PROVE SweepInv'
  <2> DEFINE r == [list |-> sweep[c].list \ {t}, old |-> sweep[c].old \ {t}]
  <2>1. sweep' = [sweep EXCEPT ![c] = r] /\ heard' = [heard EXCEPT ![c] = @ \ {t}]
    BY <1>6 DEF CloseFails, Leaves
  <2>2. r \in SweepRow /\ r.list = sweep[c].list \ {t} /\ r.old = sweep[c].old \ {t}
    BY <1>1 DEF SweepRow
  <2> HIDE DEF r
  <2>3. sweep'[c] = r /\ heard'[c] = heard[c] \ {t}
        /\ \A k \in Sweep : k # c => sweep'[k] = sweep[k] /\ heard'[k] = heard[k]
    BY <1>0, <2>1
  <2>4. sweep' \in [Sweep -> SweepRow] /\ heard' \in [Sweep -> SUBSET Ticket]
    BY <1>0, <2>1, <2>2
  <2> QED BY <1>1, <2>2, <2>3, <2>4 DEF SweepInv, Sweeps, HeardIsYoung
<1>5. CASE SweepDies(c)
  <2> DEFINE r == [list |-> {}, old |-> {}]
  <2>1. sweep' = [sweep EXCEPT ![c] = r] /\ heard' = [heard EXCEPT ![c] = {}]
    BY <1>5 DEF SweepDies
  <2>2. r \in SweepRow /\ r.list = {} /\ r.old = {}
    BY DEF SweepRow
  <2> HIDE DEF r
  <2> QED BY <1>0, <1>1, <2>1, <2>2 DEF SweepInv, Sweeps, HeardIsYoung
<1> QED BY <1>2, <1>3, <1>4, <1>5, <1>6 DEF Closing

LEMMA PendingPeople ==
    ASSUME Rows, SweepInv, PendingOld, NEW t \in Ticket,
           People(t) \/ GoesIdle(t) \/ \E y \in Types : FallsDue(t, y)
    PROVE  PendingOld'
<1>0. ticket \in [Ticket -> TicketRow] /\ ticket[t] \in TicketRow /\ sweep \in [Sweep -> SweepRow]
  BY DEF Rows, SweepInv, Sweeps
<1>1. CASE CustomerReplies(t) \/ StaffReplies(t) \/ ChangesStatus(t) \/ MergesAway(t)
  <2>1. \A u \in Ticket : u # t => ticket'[u] = ticket[u]
    BY <1>0, <1>1 DEF CustomerReplies, StaffReplies, ChangesStatus, MergesAway, Touches
  <2>2. sweep' = [c \in Sweep |-> [sweep[c] EXCEPT !.old = @ \ {t}]]
    BY <1>1 DEF CustomerReplies, StaffReplies, ChangesStatus, MergesAway, Touches
  <2>3. ASSUME NEW c \in Sweep PROVE sweep'[c].old = sweep[c].old \ {t} /\ sweep[c].old \subseteq Ticket
    <3>1. sweep[c] \in SweepRow
      BY <1>0
    <3>2. [sweep[c] EXCEPT !.old = @ \ {t}].old = sweep[c].old \ {t}
      BY <3>1 DEF SweepRow
    <3> QED BY <2>2, <3>1, <3>2 DEF SweepRow
  <2> QED BY <2>1, <2>3 DEF PendingOld, Closable
<1>2. CASE FirstReplyIsSent(t) \/ GoesIdle(t) \/ \E y \in Types : FallsDue(t, y)
  <2>1. sweep' = sweep
    BY <1>2 DEF FirstReplyIsSent, GoesIdle, FallsDue
  <2>2. \A u \in Ticket : ticket'[u].status = ticket[u].status /\ ticket'[u].merged = ticket[u].merged
    <3>1. CASE FirstReplyIsSent(t)
      BY <1>0, <3>1 DEF FirstReplyIsSent, TicketRow
    <3>2. CASE GoesIdle(t)
      BY <1>0, <3>2 DEF GoesIdle, TicketRow
    <3>3. ASSUME NEW y \in Types, FallsDue(t, y)
          PROVE  \A u \in Ticket : ticket'[u].status = ticket[u].status /\ ticket'[u].merged = ticket[u].merged
      <4> DEFINE d == [ticket[t].due EXCEPT ![y] = "past"]
                 r == [ticket[t] EXCEPT !.due = d]
      <4>1. ticket' = [ticket EXCEPT ![t] = r]
        BY <3>3 DEF FallsDue
      <4> HIDE DEF d
      <4>2. r.status = ticket[t].status /\ r.merged = ticket[t].merged
        BY <1>0 DEF TicketRow
      <4> HIDE DEF r
      <4> QED BY <1>0, <4>1, <4>2
    <3> QED BY <1>2, <3>1, <3>2, <3>3
  <2>3. \A c \in Sweep : sweep[c].old \subseteq Ticket
    BY <1>0 DEF SweepRow
  <2> QED BY <2>1, <2>2, <2>3 DEF PendingOld, Closable
<1> QED BY <1>1, <1>2 DEF People

LEMMA PendingClosing ==
    ASSUME Rows, SweepInv, PendingOld, NEW c \in Sweep, Closing(c) \/ SweepDies(c)
    PROVE  PendingOld'
<1>0. ticket \in [Ticket -> TicketRow] /\ sweep \in [Sweep -> SweepRow]
  BY DEF Rows, SweepInv, Sweeps
<1>a. \A k \in Sweep : sweep[k].old \subseteq Ticket
  BY <1>0 DEF SweepRow
<1>1. CASE StartSweep(c)
  <2>1. PICK S \in SUBSET Candidates :
          sweep' = [sweep EXCEPT ![c] = [list |-> S, old |-> S]] /\ ticket' = ticket
    BY <1>1 DEF StartSweep
  <2>2. \A k \in Sweep : sweep'[k].old = IF k = c THEN S ELSE sweep[k].old
    BY <1>0, <2>1
  <2> QED BY <1>0, <2>1, <2>2 DEF Candidates, PendingOld, Closable
<1>2. ASSUME NEW t \in Ticket, Close(c, t) PROVE PendingOld'
  <2>1. \A k \in Sweep : sweep'[k].old = sweep[k].old \ {t}
    BY <1>2 DEF Close
  <2>2. \A u \in Ticket : u # t => ticket'[u] = ticket[u]
    BY <1>0, <1>2 DEF Close
  <2> QED BY <1>a, <2>1, <2>2 DEF PendingOld, Closable
<1>3. ASSUME NEW t \in Ticket, Skip(c, t) PROVE PendingOld'
  <2>1. [sweep[c] EXCEPT !.list = @ \ {t}].old = sweep[c].old
    BY <1>0 DEF SweepRow
  <2>2. \A k \in Sweep : sweep'[k].old = sweep[k].old
    BY <1>0, <1>3, <2>1 DEF Skip
  <2>3. ticket' = ticket
    BY <1>3 DEF Skip
  <2> QED BY <2>2, <2>3 DEF PendingOld, Closable
<1>5. ASSUME NEW t \in Ticket, CloseFails(c, t) PROVE PendingOld'
  <2>1. \A k \in Sweep : sweep'[k].old \subseteq sweep[k].old
    BY <1>0, <1>5 DEF CloseFails
  <2>2. ticket' = ticket
    BY <1>5 DEF CloseFails
  <2> QED BY <2>1, <2>2 DEF PendingOld, Closable
<1>4. CASE SweepDies(c)
  BY <1>0, <1>4 DEF SweepDies, PendingOld, Closable
<1> QED BY <1>1, <1>2, <1>3, <1>4, <1>5 DEF Closing

--------------------------------------------------------------------------------
(* The scans.                                                              *)

\* One escalation: the row of the ticket, the event and the rules, for one breach.
LEMMA EscalateGoes ==
    ASSUME Rows, Escalations, Lists, NEW s \in Scan, Escalate(s)
    PROVE  \E t \in Ticket, y \in Types :
              /\ Active(t, y) /\ y \notin event[t]
              /\ event' = [event EXCEPT ![t] = event[t] \cup {y}]
              /\ runs' = [runs EXCEPT ![t] = [runs[t] EXCEPT ![y] = runs[t][y] + 1]]
              /\ ticket' = [ticket EXCEPT ![t] = ticket'[t]]
              /\ ticket'[t] \in TicketRow
              /\ ticket'[t].escalated = TRUE
              /\ ticket'[t].level = IF ticket[t].escalated THEN ticket[t].level ELSE ticket[t].level + 1
              /\ ticket'[t].status = ticket[t].status /\ ticket'[t].merged = ticket[t].merged
<1>1. PICK b \in todo[s] :
        /\ Active(b.on, b.type) /\ b.type \notin event[b.on]
        /\ event' = [event EXCEPT ![b.on] = @ \cup {b.type}]
        /\ ticket' = [ticket EXCEPT ![b.on].escalated = TRUE,
                                    ![b.on].level = IF ticket[b.on].escalated THEN @ ELSE @ + 1]
        /\ runs' = [runs EXCEPT ![b.on][b.type] = @ + 1]
  BY DEF Escalate
<1>2. b \in [on : Ticket, type : Types]
  BY DEF Lists
<1> DEFINE t == b.on
           y == b.type
<1>3. t \in Ticket /\ y \in Types /\ ticket[t] \in TicketRow
  BY <1>2 DEF Rows
<1> DEFINE n == IF ticket[t].escalated THEN ticket[t].level ELSE ticket[t].level + 1
           r == [ticket[t] EXCEPT !.escalated = TRUE, !.level = n]
<1>4. ticket' = [ticket EXCEPT ![t] = r]
  BY <1>1, <1>3 DEF Rows, TicketRow
<1>5. n \in Nat
  BY <1>3 DEF TicketRow
<1>n. n = IF ticket[t].escalated THEN ticket[t].level ELSE ticket[t].level + 1
  OBVIOUS
<1> HIDE DEF n
<1>6. /\ r \in TicketRow /\ r.escalated = TRUE /\ r.level = n
      /\ r.status = ticket[t].status /\ r.merged = ticket[t].merged
  BY <1>3, <1>5 DEF TicketRow
<1>7. event' = [event EXCEPT ![t] = event[t] \cup {y}]
  BY <1>1
<1>8. runs' = [runs EXCEPT ![t] = [runs[t] EXCEPT ![y] = runs[t][y] + 1]]
  BY <1>1, <1>3 DEF Escalations
<1>9. Active(t, y) /\ y \notin event[t]
  BY <1>1
<1> HIDE DEF r, t, y
<1>10. ticket'[t] = r
  BY <1>3, <1>4 DEF Rows
<1> QED BY <1>3, <1>4, <1>6, <1>7, <1>8, <1>9, <1>10, <1>n

LEMMA EscalateKeeps ==
    ASSUME Rows, Escalations, Lists, OneEscalationPerTicket, NEW s \in Scan, Escalate(s)
    PROVE  Rows' /\ Escalations' /\ OneEscalationPerTicket'
<1>1. PICK t \in Ticket, y \in Types :
        /\ Active(t, y) /\ y \notin event[t]
        /\ event' = [event EXCEPT ![t] = event[t] \cup {y}]
        /\ runs' = [runs EXCEPT ![t] = [runs[t] EXCEPT ![y] = runs[t][y] + 1]]
        /\ ticket' = [ticket EXCEPT ![t] = ticket'[t]]
        /\ ticket'[t] \in TicketRow
        /\ ticket'[t].escalated = TRUE
        /\ ticket'[t].level = IF ticket[t].escalated THEN ticket[t].level ELSE ticket[t].level + 1
  BY EscalateGoes
<1>2. Rows'
  BY <1>1 DEF Rows
<1>3. event[t] \subseteq Types /\ runs[t] \in [Types -> Nat]
  BY DEF Escalations
<1>4. [runs[t] EXCEPT ![y] = runs[t][y] + 1] \in [Types -> Nat]
  BY <1>3
<1>5. Escalations'
  BY <1>1, <1>3, <1>4 DEF Escalations
<1>6. ASSUME NEW u \in Ticket
      PROVE  /\ \A x \in Types : runs'[u][x] = IF x \in event'[u] THEN 1 ELSE 0
             /\ ticket'[u].level = IF event'[u] = {} THEN 0 ELSE 1
             /\ ticket'[u].escalated <=> event'[u] # {}
  <2>0. /\ \A x \in Types : runs[u][x] = IF x \in event[u] THEN 1 ELSE 0
        /\ ticket[u].level = IF event[u] = {} THEN 0 ELSE 1
        /\ ticket[u].escalated <=> event[u] # {}
    BY DEF OneEscalationPerTicket
  <2>1. CASE u = t
    <3>1. event'[u] = event[u] \cup {y} /\ runs'[u] = [runs[u] EXCEPT ![y] = runs[u][y] + 1]
      BY <1>1, <2>1 DEF Escalations
    <3>2. \A x \in Types : runs'[u][x] = IF x \in event'[u] THEN 1 ELSE 0
      BY <1>1, <1>3, <2>0, <2>1, <3>1
    <3>3. ticket'[u].level = 1
      BY <1>1, <2>0, <2>1
    <3>4. event'[u] # {} /\ ticket'[u].escalated
      BY <1>1, <2>1, <3>1
    <3> QED BY <3>2, <3>3, <3>4
  <2>2. CASE u # t
    <3>1. event'[u] = event[u] /\ runs'[u] = runs[u] /\ ticket'[u] = ticket[u]
      BY <1>1, <2>2 DEF Escalations, Rows
    <3> QED BY <2>0, <3>1
  <2> QED BY <2>1, <2>2
<1> QED BY <1>2, <1>5, <1>6 DEF OneEscalationPerTicket

LEMMA PendingEscalate ==
    ASSUME Rows, Escalations, Lists, SweepInv, PendingOld, NEW s \in Scan, Escalate(s)
    PROVE  PendingOld'
<1>1. PICK t \in Ticket :
        /\ ticket' = [ticket EXCEPT ![t] = ticket'[t]]
        /\ ticket'[t].status = ticket[t].status /\ ticket'[t].merged = ticket[t].merged
  BY EscalateGoes
<1>2. \A u \in Ticket : ticket'[u].status = ticket[u].status /\ ticket'[u].merged = ticket[u].merged
  BY <1>1 DEF Rows
<1>3. sweep' = sweep /\ \A c \in Sweep : sweep[c].old \subseteq Ticket
  BY DEF Escalate, SweepInv, Sweeps, SweepRow
<1> QED BY <1>2, <1>3 DEF PendingOld, Closable

\* The lists of the scans: taken, come to one by one, or lost.
LEMMA ListsStep ==
    ASSUME Lists, NEW s \in Scan, Scanning(s) \/ EscalationAborts(s) \/ ScanDies(s)
    PROVE  Lists'
<1>1. CASE StartScan(s)
  BY <1>1, ListsStart
<1>2. ASSUME NEW b \in todo[s], Turns(s, b) PROVE Lists'
  <2>1. todo' = [todo EXCEPT ![s] = todo[s] \ {b}]
    BY <1>2 DEF Turns
  <2>2. todo[s] \ {b} \in SUBSET todo[s]
    OBVIOUS
  <2> QED BY <2>1, <2>2, ListsShrink
<1>3. CASE ScanDies(s)
  <2>1. todo' = [todo EXCEPT ![s] = {}] /\ {} \in SUBSET todo[s]
    BY <1>3 DEF ScanDies
  <2> QED BY <2>1, ListsShrink
<1> QED BY <1>1, <1>2, <1>3 DEF Scanning, BreachIsOver, Escalate, EscalationAborts

LEMMA CountersStep ==
    ASSUME Counters, [Next]_vars
    PROVE  Counters'
<1>1. work' = work \/ (work < MaxWork /\ work' = work + 1)
  BY DEF Next, People, CustomerReplies, StaffReplies, FirstReplyIsSent, ChangesStatus, MergesAway, Works,
         GoesIdle, FallsDue, Scanning, StartScan, BreachIsOver, Escalate, EscalationAborts, ScanDies,
         Closing, StartSweep, Close, Skip, CloseFails, SweepDies, vars
<1>2. faults' = faults \/ (faults < MaxFaults /\ faults' = faults + 1)
  BY DEF Next, People, CustomerReplies, StaffReplies, FirstReplyIsSent, ChangesStatus, MergesAway, Works,
         GoesIdle, FallsDue, Scanning, StartScan, BreachIsOver, Escalate, EscalationAborts, ScanDies,
         Closing, StartSweep, Close, Skip, CloseFails, SweepDies, vars
<1> QED BY <1>1, <1>2, ClocksAssumption DEF Counters

--------------------------------------------------------------------------------
(* The theorems.                                                           *)

\* The types, the events with what they did, and the cutoffs of the sweeps.
ScansInv == /\ Rows /\ Escalations /\ Lists /\ Counters
            /\ OneEscalationPerTicket
            /\ SweepInv /\ PendingOld

LEMMA ScansImply == ScansInv => TypeOK /\ ClocksInv
BY TypeParts DEF ScansInv, SweepInv, ClocksInv

LEMMA ScansInit == Init => ScansInv
<1> SUFFICES ASSUME Init PROVE ScansInv
  OBVIOUS
<1>1. Rows /\ Escalations /\ Lists /\ Sweeps /\ Counters
  BY TypeInit, TypeParts
<1>2. OneEscalationPerTicket
  <2>1. \A t \in Ticket : ticket[t].escalated = FALSE /\ ticket[t].level = 0
    BY DEF Init
  <2>2. \A t \in Ticket : event[t] = {} /\ \A y \in Types : runs[t][y] = 0
    BY DEF Init
  <2> QED BY <2>1, <2>2 DEF OneEscalationPerTicket
<1>3. HeardIsYoung /\ PendingOld
  BY DEF Init, HeardIsYoung, PendingOld
<1> QED BY <1>1, <1>2, <1>3 DEF ScansInv, SweepInv

\* The steps that neither escalate nor change a level leave the events alone.
LEMMA EventsStay ==
    ASSUME OneEscalationPerTicket, LevelsStay, event' = event, runs' = runs
    PROVE  OneEscalationPerTicket'
BY DEF OneEscalationPerTicket, LevelsStay

LEMMA SameLevels == ticket' = ticket => LevelsStay
BY DEF LevelsStay

LEMMA ScansStep == ScansInv /\ [Next]_vars => ScansInv'
<1> SUFFICES ASSUME ScansInv, [Next]_vars PROVE ScansInv'
  OBVIOUS
<1>0. Rows /\ Escalations /\ Lists /\ OneEscalationPerTicket /\ SweepInv /\ PendingOld /\ Counters'
  BY CountersStep DEF ScansInv
<1>1. ASSUME NEW t \in Ticket, People(t) \/ GoesIdle(t) \/ \E y \in Types : FallsDue(t, y) PROVE ScansInv'
  <2>1. Rows' /\ LevelsStay /\ PendingOld'
    BY <1>0, <1>1, TicketsWritten, PendingPeople
  <2>2. UNCHANGED <<event, runs, todo>>
    BY <1>1 DEF People, CustomerReplies, StaffReplies, FirstReplyIsSent, ChangesStatus, MergesAway, Works,
                GoesIdle, FallsDue
  <2>3. SweepInv'
    <3>1. CASE People(t)
      BY <1>0, <3>1, PeopleSweeps
    <3>2. CASE GoesIdle(t) \/ \E y \in Types : FallsDue(t, y)
      BY <1>0, <3>2 DEF GoesIdle, FallsDue, SweepInv, Sweeps, HeardIsYoung
    <3> QED BY <1>1, <3>1, <3>2
  <2>4. OneEscalationPerTicket'
    BY <1>0, <2>1, <2>2, EventsStay
  <2>5. Escalations' /\ Lists'
    BY <1>0, <2>2 DEF Escalations, Lists
  <2> QED BY <1>0, <2>1, <2>3, <2>4, <2>5 DEF ScansInv
<1>2. ASSUME NEW s \in Scan, Scanning(s) \/ EscalationAborts(s) \/ ScanDies(s) PROVE ScansInv'
  <2>1. Lists'
    BY <1>0, <1>2, ListsStep
  <2>2. UNCHANGED <<sweep, heard>>
    BY <1>2 DEF Scanning, StartScan, BreachIsOver, Escalate, EscalationAborts, ScanDies
  <2>3. SweepInv'
    BY <1>0, <2>2 DEF SweepInv, Sweeps, HeardIsYoung
  <2>4. CASE Escalate(s)
    BY <1>0, <2>1, <2>3, <2>4, EscalateKeeps, PendingEscalate DEF ScansInv
  <2>5. CASE ~Escalate(s)
    <3>1. UNCHANGED <<ticket, event, runs>>
      BY <1>2, <2>5 DEF Scanning, StartScan, BreachIsOver, EscalationAborts, ScanDies
    <3>2. OneEscalationPerTicket'
      BY <1>0, <3>1, SameLevels, EventsStay
    <3>3. Rows' /\ Escalations' /\ PendingOld'
      BY <1>0, <2>2, <3>1 DEF Rows, Escalations, PendingOld, Closable
    <3> QED BY <1>0, <2>1, <2>3, <3>2, <3>3 DEF ScansInv
  <2> QED BY <2>4, <2>5
<1>3. ASSUME NEW c \in Sweep, Closing(c) \/ SweepDies(c) PROVE ScansInv'
  <2>1. SweepInv' /\ PendingOld'
    BY <1>0, <1>3, ClosingSweeps, PendingClosing
  <2>2. UNCHANGED <<event, runs, todo>>
    BY <1>3 DEF Closing, StartSweep, Close, Skip, CloseFails, SweepDies
  <2>3. Rows' /\ LevelsStay
    <3>1. ASSUME NEW t \in Ticket, Close(c, t) PROVE Rows' /\ LevelsStay
      <4> DEFINE r == [ticket[t] EXCEPT !.status = "closed", !.idle = FALSE]
      <4>1. ticket' = [ticket EXCEPT ![t] = r]
        BY <1>0, <3>1 DEF Close, Rows, TicketRow
      <4>2. ticket[t] \in TicketRow
        BY <1>0 DEF Rows
      <4>3. r.escalated = ticket[t].escalated /\ r.level = ticket[t].level
        BY <4>2 DEF TicketRow
      <4>4. r \in TicketRow
        BY <4>2 DEF TicketRow
      <4> HIDE DEF r
      <4> QED BY <1>0, <4>1, <4>3, <4>4, RowWrite
    <3>2. CASE ~ \E t \in Ticket : Close(c, t)
      <4>1. ticket' = ticket
        BY <1>3, <3>2 DEF Closing, StartSweep, Skip, CloseFails, SweepDies
      <4> QED BY <1>0, <4>1, SameLevels DEF Rows
    <3> QED BY <3>1, <3>2
  <2>4. OneEscalationPerTicket'
    BY <1>0, <2>2, <2>3, EventsStay
  <2>5. Escalations' /\ Lists'
    BY <1>0, <2>2 DEF Escalations, Lists
  <2> QED BY <1>0, <2>1, <2>3, <2>4, <2>5 DEF ScansInv
<1>4. CASE UNCHANGED vars
  <2>1. UNCHANGED <<ticket, event, runs, todo, sweep, heard>>
    BY <1>4 DEF vars
  <2> QED BY <1>0, <2>1, SameLevels, EventsStay
       DEF ScansInv, Rows, Escalations, Lists, SweepInv, Sweeps, HeardIsYoung, PendingOld, Closable
<1> QED BY <1>1, <1>2, <1>3, <1>4 DEF Next

LEMMA ScansInvariant == Spec => []ScansInv
<1>1. Init => ScansInv
  BY ScansInit
<1>2. ScansInv /\ [Next]_vars => ScansInv'
  BY ScansStep
<1> QED BY <1>1, <1>2, PTL DEF Spec

\* sla.service.ts:180-222: tickets, events and lists keep their types, and no scan
\* lists breaches of more than SLA_BREACH_SCAN_CAP tickets.
THEOREM TypeCorrect == Spec => []TypeOK
<1>1. ScansInv => TypeOK
  BY ScansImply
<1> QED BY <1>1, ScansInvariant, PTL

\* sla.service.ts:246-311: for any tickets, scans and sweeps, the rules of a breach
\* run once with its event, and a ticket climbs one level once.
THEOREM ClocksInvariant == Spec => []ClocksInv
<1>1. ScansInv => ClocksInv
  BY ScansImply
<1> QED BY <1>1, ScansInvariant, PTL

LEMMA EventStep ==
    ASSUME ScansInv, [Next]_vars, NEW t \in Ticket, NEW y \in event'[t] \ event[t]
    PROVE  Active(t, y)
<1>1. event' # event
  OBVIOUS
<1>2. PICK s \in Scan : Escalate(s)
  BY <1>1 DEF Next, People, CustomerReplies, StaffReplies, FirstReplyIsSent, ChangesStatus, MergesAway, Works,
         GoesIdle, FallsDue, Scanning, StartScan, BreachIsOver, EscalationAborts, ScanDies,
         Closing, StartSweep, Close, Skip, CloseFails, SweepDies, vars
<1>3. PICK u \in Ticket, x \in Types : Active(u, x) /\ event' = [event EXCEPT ![u] = event[u] \cup {x}]
  BY <1>2, EscalateGoes DEF ScansInv
<1>4. t = u /\ y = x
  BY <1>3 DEF ScansInv, Escalations
<1> QED BY <1>3, <1>4

LEMMA CloseStep ==
    ASSUME ScansInv, [Next]_vars, NEW c \in Sweep, NEW t \in Ticket, ticket[t].status # "closed",
           ticket'[t].status = "closed", sweep'[c].list # sweep[c].list
    PROVE  t \notin heard[c]
<1>0. Rows /\ SweepInv /\ sweep \in [Sweep -> SweepRow] /\ ticket \in [Ticket -> TicketRow]
  BY DEF ScansInv, SweepInv, Sweeps, Rows
<1>1. PICK k \in Sweep, u \in Ticket : Close(k, u)
  <2>1. ASSUME NEW u \in Ticket, People(u) PROVE FALSE
    <3>1. CASE FirstReplyIsSent(u)
      BY <3>1 DEF FirstReplyIsSent
    <3>2. CASE ~FirstReplyIsSent(u)
      <4>1. sweep' = [d \in Sweep |-> [sweep[d] EXCEPT !.old = @ \ {u}]]
        BY <2>1, <3>2 DEF People, CustomerReplies, StaffReplies, ChangesStatus, MergesAway, Touches
      <4>2. [sweep[c] EXCEPT !.old = @ \ {u}].list = sweep[c].list
        BY <1>0 DEF SweepRow
      <4> QED BY <4>1, <4>2
    <3> QED BY <3>1, <3>2
  <2>2. ASSUME NEW u \in Ticket, GoesIdle(u) \/ \E y \in Types : FallsDue(u, y) PROVE FALSE
    BY <2>2 DEF GoesIdle, FallsDue
  <2>3. ASSUME NEW s \in Scan, Scanning(s) \/ EscalationAborts(s) \/ ScanDies(s) PROVE FALSE
    BY <2>3 DEF Scanning, StartScan, BreachIsOver, Escalate, EscalationAborts, ScanDies
  <2>4. ASSUME NEW k \in Sweep, StartSweep(k) \/ SweepDies(k) \/ \E u \in Ticket : Skip(k, u) \/ CloseFails(k, u)
        PROVE  FALSE
    BY <2>4 DEF StartSweep, SweepDies, Skip, CloseFails
  <2>5. CASE UNCHANGED vars
    BY <2>5 DEF vars
  <2> QED BY <2>1, <2>2, <2>3, <2>4, <2>5 DEF Next, Closing
<1>2. u = t
  BY <1>0, <1>1 DEF Close
<1>3. k = c
  BY <1>1 DEF Close
<1>4. t \in sweep[c].old
  BY <1>1, <1>2, <1>3 DEF Close, StillIdle
<1> QED BY <1>4 DEF ScansInv, SweepInv, HeardIsYoung

\* sla.service.ts:255-297, auto-close.processor.ts:79-91: no event for a ticket that
\* was answered, closed or merged away since it was listed, and no closing over a
\* reply that came after the cutoff, however stale the lists are.
THEOREM StaleListsHarmless == Spec => StaleListsAreHarmless
<1>1. ScansInv /\ [Next]_vars =>
        [\A t \in Ticket : \A y \in event'[t] \ event[t] : Active(t, y)]_vars
  BY EventStep
<1>2. ScansInv /\ [Next]_vars =>
        [\A c \in Sweep, t \in Ticket :
            ticket[t].status # "closed" /\ ticket'[t].status = "closed" /\ sweep'[c].list # sweep[c].list
                => t \notin heard[c]]_vars
  BY CloseStep
<1>3. Spec => OnlyActiveBreachesEscalate
  BY <1>1, ScansInvariant, PTL DEF Spec, OnlyActiveBreachesEscalate
<1>4. Spec => ClosingRespectsReplies
  BY <1>2, ScansInvariant, PTL DEF Spec, ClosingRespectsReplies
<1> QED BY <1>3, <1>4 DEF StaleListsAreHarmless
================================================================================
