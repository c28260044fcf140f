-------------------------- MODULE OutboundOutboxProofs --------------------------
(***************************************************************************)
(* Theorems about the outbound outbox, for every set of rows and workers   *)
(* and every bound: its types; that one consent of an operator buys at     *)
(* most one delivery; that no queued reply replaces a first response and   *)
(* that what is outside the selection stays; that SENT tells the truth; and that the outbox          *)
(* implements OutboundDelivery.                                            *)
(***************************************************************************)
EXTENDS OutboundOutbox, TLAPS

(* The records the actions build are well typed.                           *)
LEMMA SettleType ==
    ASSUME NEW r \in Row, NEW s \in States, NEW at \in {"none", "future", "due"}
    PROVE  Settle(r, s, at) \in Row
  BY DEF Settle, Row

LEMMA AfterFailureType ==
    ASSUME NEW r \in Row, NEW error \in Errors, NEW n \in Nat
    PROVE  AfterFailure(r, error, n) \in Row
  BY SettleType DEF AfterFailure, States

LEMMA LeasedType ==
    ASSUME NEW r \in Row, NEW owner \in Nat
    PROVE  Leased(r, owner) \in Row
  BY DEF Leased, Row, States

(* So are the single columns the other actions write.                      *)
LEMMA ColumnType ==
    ASSUME NEW r \in Row
    PROVE  /\ [r EXCEPT !.state = "QUEUED"] \in Row
           /\ [r EXCEPT !.lease = "live"] \in Row
           /\ [r EXCEPT !.lease = "expired"] \in Row
           /\ [r EXCEPT !.retryAt = "due"] \in Row
  BY DEF Row, States

LEMMA IdleType == Idle \in WorkerState
  BY BoundAssumption DEF Idle, WorkerState, Errors, Epoch

(* What TypeOK asks of the workers after one of them moves.                *)
WorkOK == /\ work \in [Worker -> WorkerState]
          /\ \A w \in Worker : work[w].pc # "idle" => work[w].email \in Email

LEMMA WorkType ==
    ASSUME TypeOK, NEW w \in Worker, NEW s \in WorkerState,
           s.pc # "idle" => s.email \in Email,
           work' = [work EXCEPT ![w] = s]
    PROVE  WorkOK'
  BY DEF TypeOK, WorkOK

LEMMA FinishType ==
    ASSUME TypeOK, NEW w \in Worker, Finish(w)
    PROVE  /\ WorkOK'
           /\ active' \in [Email -> Worker \cup {NoWorker}]
  <1>1. WorkOK'
    BY IdleType, WorkType DEF Finish, Idle
  <1>2. QED
    BY <1>1 DEF Finish, TypeOK

LEMMA InitType == Init => TypeOK
  <1> SUFFICES ASSUME Init PROVE TypeOK
    OBVIOUS
  <1>1. row \in [Email -> Row]
    BY DEF Init, Absent, Row, States
  <1>2. work \in [Worker -> WorkerState]
    BY IdleType DEF Init
  <1>3. \A w \in Worker : work[w].pc = "idle"
    BY DEF Init, Idle
  <1>4. 0 \in Epoch
    BY BoundAssumption DEF Epoch
  <1>5. accepts \in [Email -> [Epoch -> Nat]]
    BY DEF Init
  <1>6. QED
    BY <1>1, <1>2, <1>3, <1>4, <1>5 DEF Init, TypeOK

LEMMA EmailStepType ==
    ASSUME TypeOK, NEW e \in Email, EmailStep(e)
    PROVE  TypeOK'
  <1> USE DEF TypeOK
  <1>1. CASE Create(e)
    <2>1. [row[e] EXCEPT !.state = "QUEUED"] \in Row
      BY ColumnType
    <2>2. row' \in [Email -> Row]
      BY <1>1, <2>1 DEF Create
    <2>3. QED
      BY <1>1, <2>2 DEF Create
  <1>2. CASE Wake(e)
    BY <1>2 DEF Wake, AddJob
  <1>3. CASE WakeFails(e)
    BY <1>3 DEF WakeFails
  <1>4. CASE RetryOutboundEmail(e)
    <2>1. Settle(row[e], "QUEUED", "none") \in Row
      BY SettleType DEF States
    <2>2. retries[e] + 1 \in Epoch
      BY <1>4, BoundAssumption DEF RetryOutboundEmail, Epoch
    <2>3. QED
      BY <1>4, <2>1, <2>2 DEF RetryOutboundEmail
  <1>5. CASE JobStalls(e)
    BY <1>5 DEF JobStalls
  <1>6. CASE LeaseExpires(e)
    <2>1. [row[e] EXCEPT !.lease = "expired"] \in Row
      BY ColumnType
    <2>2. row' \in [Email -> Row]
      BY <1>6, <2>1 DEF LeaseExpires
    <2>3. QED
      BY <1>6, <2>2 DEF LeaseExpires
  <1>7. CASE RetryBecomesDue(e)
    <2>1. [row[e] EXCEPT !.retryAt = "due"] \in Row
      BY ColumnType
    <2>2. row' \in [Email -> Row]
      BY <1>7, <2>1 DEF RetryBecomesDue
    <2>3. QED
      BY <1>7, <2>2 DEF RetryBecomesDue
  <1>8. QED
    BY <1>1, <1>2, <1>3, <1>4, <1>5, <1>6, <1>7 DEF EmailStep

LEMMA ScanType ==
    ASSUME TypeOK, ScanStep \/ ScanFails \/ Restart
    PROVE  TypeOK'
  <1> USE DEF TypeOK
  <1>1. CASE ScanMarksStale
    <2>1. \A e \in Email : Settle(row[e], "AMBIGUOUS", "none") \in Row
      BY SettleType DEF States
    <2>2. row' \in [Email -> Row]
      BY <1>1, <2>1 DEF ScanMarksStale
    <2>3. QED
      BY <1>1, <2>2 DEF ScanMarksStale
  <1>2. CASE ScanFinds
    <2>1. mode.approved \subseteq Email
      BY DEF Modes
    <2>2. scan' \in [pc: {"idle", "find", "wake"}, due: SUBSET Email]
      BY <1>2, <2>1 DEF ScanFinds
    <2>3. QED
      BY <1>2, <2>2 DEF ScanFinds
  <1>3. CASE ScanEnds
    BY <1>3 DEF ScanEnds
  <1>4. ASSUME NEW e \in Email, ScanWakes(e) PROVE TypeOK'
    BY <1>4 DEF ScanWakes, AddJob
  <1>5. CASE ScanFails
    BY <1>5 DEF ScanFails
  <1>6. CASE Restart
    <2>1. WorkOK'
      BY <1>6, IdleType DEF Restart, WorkOK, Idle
    <2>2. QED
      BY <1>6, <2>1 DEF Restart, WorkOK
  <1>7. QED
    BY <1>1, <1>2, <1>3, <1>4, <1>5, <1>6 DEF ScanStep

(* A worker's own steps. Each changes the worker, and at most its row.     *)
LEMMA WorkerType ==
    ASSUME TypeOK, NEW w \in Worker, WorkerStep(w) \/ WorkerFault(w) \/ Heartbeat(w)
    PROVE  TypeOK'
  <1> USE DEF TypeOK
  <1> DEFINE e == work[w].email
  <1>a. work[w].pc # "idle" => e \in Email /\ row[e] \in Row
    OBVIOUS
  <1>b. /\ work[w] \in WorkerState
        /\ work[w].epoch \in Epoch /\ work[w].attempts \in Nat /\ work[w].error \in Errors
    BY DEF WorkerState
  <1>1. ASSUME NEW d \in Email, TakeJob(w, d) PROVE TypeOK'
    <2>1. [Idle EXCEPT !.pc = "stale", !.email = d] \in WorkerState
      BY IdleType DEF Idle, WorkerState
    <2>2. [Idle EXCEPT !.pc = "stale", !.email = d].email = d
      BY DEF Idle
    <2>3. CASE d \in mode.approved
      <3>1. work' = [work EXCEPT ![w] = [Idle EXCEPT !.pc = "stale", !.email = d]]
            /\ active' = [active EXCEPT ![d] = w] /\ jobs' = jobs \ {d}
        BY <1>1, <2>3 DEF TakeJob
      <3>2. work' \in [Worker -> WorkerState] /\ active' \in [Email -> Worker \cup {NoWorker}]
        BY <2>1, <3>1
      <3>3. \A v \in Worker : work'[v].pc # "idle" => work'[v].email \in Email
        BY <2>1, <2>2, <3>1
      <3>4. QED
        BY <1>1, <3>1, <3>2, <3>3 DEF TakeJob
    <2>4. CASE d \notin mode.approved
      BY <1>1, <2>4 DEF TakeJob
    <2>5. QED
      BY <2>3, <2>4
  <1>2. CASE MarkStale(w)
    <2>1. Settle(row[e], "AMBIGUOUS", "none") \in Row
      BY <1>2, <1>a, SettleType DEF MarkStale, States
    <2>2. CASE Stale(e)
      BY <1>2, <2>1, <2>2, FinishType DEF MarkStale, WorkOK
    <2>3. CASE ~Stale(e)
      <3> DEFINE s == [work[w] EXCEPT !.pc = "claim"]
      <3>1. s \in WorkerState /\ s.email = e
        BY <1>b DEF WorkerState
      <3>2. work' = [work EXCEPT ![w] = s]
        BY <1>2, <2>3 DEF MarkStale
      <3>3. WorkOK'
        BY <1>2, <1>a, <3>1, <3>2, WorkType DEF MarkStale
      <3>4. QED
        BY <1>2, <2>3, <3>3 DEF MarkStale, WorkOK
    <2>4. QED
      BY <2>2, <2>3
  <1>3. CASE Claim(w)
    <2>1. CASE Claimable(e)
      <3>1. retries[e] \in Epoch /\ Leased(row[e], nextOwner) \in Row
        BY <1>3, <1>a, LeasedType DEF Claim
      <3>2. row' \in [Email -> Row]
        BY <1>3, <2>1, <3>1 DEF Claim
      <3> DEFINE s == [work[w] EXCEPT !.pc = "read", !.owner = nextOwner, !.epoch = retries[e]]
      <3>3. s \in WorkerState /\ s.email = e
        BY <1>b, <3>1 DEF WorkerState
      <3>4. work' = [work EXCEPT ![w] = s]
        BY <1>3, <2>1 DEF Claim
      <3>5. WorkOK'
        BY <1>3, <1>a, <3>3, <3>4, WorkType DEF Claim
      <3>6. QED
        BY <1>3, <2>1, <3>2, <3>5 DEF Claim, WorkOK
    <2>2. CASE ~Claimable(e)
      BY <1>3, <2>2, FinishType DEF Claim, WorkOK
    <2>3. QED
      BY <2>1, <2>2
  <1>4. CASE ReadBack(w)
    <2>1. CASE row[e].state = "PROCESSING" /\ row[e].owner = work[w].owner
      <3>1. row[e].attempts \in Nat /\ row[e].version \in Nat
        BY <1>4, <1>a DEF ReadBack, Row
      <3> DEFINE s == [work[w] EXCEPT !.pc = "smtp", !.version = row[e].version,
                                      !.attempts = row[e].attempts]
      <3>2. s \in WorkerState /\ s.email = e
        BY <1>b, <3>1 DEF WorkerState, SmtpPhase
      <3>3. work' = [work EXCEPT ![w] = s]
        BY <1>4, <2>1 DEF ReadBack
      <3>4. WorkOK'
        BY <1>4, <1>a, <3>2, <3>3, WorkType DEF ReadBack
      <3>5. QED
        BY <1>4, <2>1, <3>4 DEF ReadBack, WorkOK
    <2>2. CASE ~(row[e].state = "PROCESSING" /\ row[e].owner = work[w].owner)
      BY <1>4, <2>2, FinishType DEF ReadBack, WorkOK
    <2>3. QED
      BY <2>1, <2>2
  <1>5. CASE Heartbeat(w)
    <2>1. [row[e] EXCEPT !.lease = "live"] \in Row /\ e \in Email
      BY <1>5, <1>a, ColumnType DEF Heartbeat, SmtpPhase
    <2>2. row' \in [Email -> Row]
      BY <1>5, <2>1 DEF Heartbeat
    <2>3. QED
      BY <1>5, <2>2 DEF Heartbeat
  <1>6. CASE RelayAccepts(w)
    <2>1. work' \in [Worker -> WorkerState]
      BY <1>6, <1>b DEF RelayAccepts, WorkerState, SmtpPhase
    <2>2. QED
      BY <1>6, <1>a, <1>b, <2>1 DEF RelayAccepts
  <1>7. CASE SmtpResolves(w)
    BY <1>7, <1>a, <1>b DEF SmtpResolves, WorkerState, SmtpPhase
  <1>8. ASSUME NEW error \in Errors \ {"none"}, SmtpThrows(w, error) PROVE TypeOK'
    BY <1>8, <1>a, <1>b DEF SmtpThrows, WorkerState, SmtpPhase
  <1>9. ASSUME work[w].pc = "sent", CommitSent(w) \/ UNCHANGED <<row, emailed, firstResponse>>
        PROVE  /\ row' \in [Email -> Row] /\ emailed' \in [Email -> BOOLEAN]
               /\ firstResponse' \in [Ticket -> {0} \cup Email \cup Macro]
    <2>1. Settle(row[e], "SENT", "none") \in Row /\ e \in Email
      BY <1>9, <1>a, SettleType DEF States
    <2>2. CASE CommitSent(w) /\ Fenced(w)
      <3>1. row' \in [Email -> Row]
        BY <2>1, <2>2 DEF CommitSent
      <3>2. firstResponse' \in [Ticket -> {0} \cup Email \cup Macro]
        BY <2>1, <2>2 DEF CommitSent
      <3>3. emailed' \in [Email -> BOOLEAN]
        BY <2>2, Zenon DEF CommitSent
      <3>4. QED
        BY <3>1, <3>2, <3>3
    <2>3. CASE UNCHANGED <<row, emailed, firstResponse>>
      BY <2>3
    <2>4. QED
      BY <1>9, <2>2, <2>3 DEF CommitSent
  <1>10. CASE MarkSent(w)
    BY <1>10, <1>9, FinishType DEF MarkSent, WorkOK
  <1>11. CASE MarkSentThrows(w)
    <2>1. work' \in [Worker -> WorkerState] /\ work'[w].email = e
      BY <1>11, <1>b DEF MarkSentThrows, WorkerState, SmtpPhase
    <2>2. QED
      BY <1>11, <1>9, <1>a, <2>1 DEF MarkSentThrows
  <1>12. CASE MarkAmbiguousAfterSmtpAcceptance(w)
    <2>1. Settle(row[e], "AMBIGUOUS", "none") \in Row
      BY <1>12, <1>a, SettleType DEF MarkAmbiguousAfterSmtpAcceptance, States
    <2>2. QED
      BY <1>12, <2>1, FinishType DEF MarkAmbiguousAfterSmtpAcceptance, WorkOK
  <1>13. CASE RecordDeliveryFailure(w)
    <2>1. AfterFailure(row[e], work[w].error, work[w].attempts) \in Row
      BY <1>13, <1>a, <1>b, AfterFailureType DEF RecordDeliveryFailure
    <2>2. QED
      BY <1>13, <2>1, FinishType DEF RecordDeliveryFailure, WorkOK
  <1>14. CASE DbFails(w)
    BY <1>14, FinishType DEF DbFails, WorkOK
  <1>15. CASE Crash(w)
    BY <1>15, IdleType DEF Crash, Idle
  <1>16. QED
    BY <1>1, <1>2, <1>3, <1>4, <1>5, <1>6, <1>7, <1>8, <1>10, <1>11, <1>12, <1>13,
       <1>14, <1>15 DEF WorkerStep, WorkerFault

(* A macro touches the stamp and what it has read, nothing of the outbox.  *)
OutboxVars == <<row, retries, emailed, jobs, active, wakes, scan, work, nextOwner, mode,
                accepts, restarts, faults>>

MacroActs == \E m \in Macro, t \in Ticket : MacroStep(m, t)

LEMMA MacroLeavesTheOutbox ==
    ASSUME MacroActs \/ UNCHANGED vars
    PROVE  UNCHANGED OutboxVars
  BY DEF MacroActs, MacroStep, MacroReads, MacroReplies, MacroIsRefused, OutboxVars, vars

LEMMA MacroType ==
    ASSUME TypeOK, MacroActs
    PROVE  TypeOK'
  <1>1. UNCHANGED OutboxVars
    BY MacroLeavesTheOutbox
  <1>2. PICK m \in Macro, t \in Ticket : MacroStep(m, t)
    BY DEF MacroActs
  <1>3. firstResponse' \in [Ticket -> {0} \cup Email \cup Macro]
    BY <1>2 DEF MacroStep, MacroReads, MacroReplies, MacroIsRefused, TypeOK
  <1>4. macros' \subseteq Macro \X Ticket
    BY <1>2 DEF MacroStep, MacroReads, MacroReplies, MacroIsRefused, TypeOK
  <1>5. QED
    BY <1>1, <1>3, <1>4 DEF OutboxVars, TypeOK

(* Type correctness: rows, leases, workers and queues always have the      *)
(* shapes the schema and the handlers give them.                           *)
LEMMA NextType == TypeOK /\ [Next]_vars => TypeOK'
  <1> SUFFICES ASSUME TypeOK, [Next]_vars PROVE TypeOK'
    OBVIOUS
  <1>1. CASE UNCHANGED vars
    BY <1>1 DEF vars, TypeOK
  <1>2. CASE Next
    BY <1>2, WorkerType, EmailStepType, ScanType, MacroType DEF Next, MacroActs
  <1>3. QED
    BY <1>1, <1>2

THEOREM TypeCorrect == Spec => []TypeOK
  <1>1. QED
    BY InitType, NextType, PTL DEF Spec
--------------------------------------------------------------------------------
(* One consent, one delivery.                                              *)

(* A row keeps its lease owner and its claimability, or is settled to a    *)
(* state nobody claims.                                                    *)
RowSteady(e) ==
    \/ row'[e].state = row[e].state /\ row'[e].owner = row[e].owner
    \/ Resendable(e) /\ Resendable(e)' /\ row'[e].owner = 0
    \/ row[e].state = "PROCESSING" /\ row'[e].state \in {"SENT", "AMBIGUOUS"}
         /\ row'[e].owner = 0

(* A worker keeps its claim and gets no closer to the relay, or drops it.  *)
WorkerSteady(w) ==
    Claimed(w)' => /\ Claimed(w)
                   /\ work'[w].email = work[w].email /\ work'[w].owner = work[w].owner
                   /\ work'[w].epoch = work[w].epoch
                   /\ work'[w].pc = "read" => work[w].pc = "read"
                   /\ Engaged(w)' /\ Engaged(w) => (Unsent(w)' => Unsent(w))
                   /\ work[w].pc = "read" /\ work'[w].pc # "read" => Engaged(w)

(* A claimed worker has a row of its own to look at.                       *)
LEMMA ClaimedType ==
    ASSUME TypeOK, NEW w \in Worker, Claimed(w)
    PROVE  /\ work[w].email \in Email /\ row[work[w].email] \in Row
           /\ work[w].epoch \in Epoch /\ work[w].owner \in Nat
  BY DEF TypeOK, Claimed, SmtpPhase, WorkerState

(* Most steps leave the invariant alone for the same reason.               *)
LEMMA SteadyStep ==
    ASSUME TypeOK, TypeOK', DeliveryInv, UNCHANGED <<retries, accepts, nextOwner>>,
           \A e \in Email : RowSteady(e), \A w \in Worker : WorkerSteady(w)
    PROVE  DeliveryInv'
  <1>a. \A w \in Worker : Claimed(w)' =>
           /\ Claimed(w) /\ work'[w].email = work[w].email /\ work'[w].owner = work[w].owner
           /\ work'[w].epoch = work[w].epoch /\ work[w].email \in Email
           /\ work[w].owner \in Nat /\ work[w].owner > 0
    BY ClaimedType DEF WorkerSteady, DeliveryInv, OwnersUnique
  <1>b. \A w \in Worker : Engaged(w) => Claimed(w)
    BY DEF Engaged, Claimed
  <1>c. \A w \in Worker : Engaged(w)' => Claimed(w)'
    BY DEF Engaged, Claimed
  <1>d. \A e \in Email : row'[e].owner # 0 =>
            row'[e].state = row[e].state /\ row'[e].owner = row[e].owner
    BY DEF RowSteady, DeliveryInv, OwnersUnique, Resendable
  <1>e. \A w \in Worker : Engaged(w)' => Engaged(w)
    <2> SUFFICES ASSUME NEW w \in Worker, Engaged(w)' PROVE Engaged(w)
      OBVIOUS
    <2>1. CASE work'[w].pc = "read"
      BY <2>1, <1>a, <1>c, <1>d DEF Engaged, WorkerSteady, SmtpPhase
    <2>2. CASE work'[w].pc \in SmtpPhase
      BY <2>2, <1>c DEF Engaged, WorkerSteady, SmtpPhase, Claimed
    <2>3. QED
      BY <2>1, <2>2 DEF Engaged
  <1>f. \A w \in Worker : Engaged(w)' /\ Unsent(w)' => Unsent(w)
    BY <1>c, <1>e DEF WorkerSteady
  <1>1. OwnersUnique'
    <2>1. \A e \in Email : row'[e].owner < nextOwner /\ (row'[e].state = "PROCESSING" <=> row'[e].owner # 0)
      <3> SUFFICES ASSUME NEW e \in Email
                   PROVE  row'[e].owner < nextOwner /\ (row'[e].state = "PROCESSING" <=> row'[e].owner # 0)
        OBVIOUS
      <3>1. nextOwner \in Nat \ {0}
        BY DEF TypeOK
      <3>2. QED
        BY <3>1 DEF RowSteady, DeliveryInv, OwnersUnique, Resendable
    <2>2. QED
      BY <2>1, <1>a DEF DeliveryInv, OwnersUnique
  <1>2. EpochOfClaim'
    BY <1>a, <1>d DEF DeliveryInv, EpochOfClaim
  <1>3. OneEngagedPerEpoch'
    BY <1>a, <1>b, <1>c, <1>e DEF DeliveryInv, OneEngagedPerEpoch
  <1>4. EngagedHoldsRow'
    <2> SUFFICES ASSUME NEW w \in Worker, Engaged(w)', work'[w].epoch = retries'[work'[w].email]
                 PROVE  \A e \in Email : e = work[w].email =>
                            /\ ~Resendable(e)'
                            /\ row'[e].state = "PROCESSING" => row'[e].owner = work[w].owner
      BY <1>a, <1>c DEF EngagedHoldsRow, Resendable
    <2>1. /\ ~Resendable(work[w].email) /\ work[w].email \in Email
          /\ row[work[w].email].state = "PROCESSING" => row[work[w].email].owner = work[w].owner
      BY <1>a, <1>c, <1>e DEF DeliveryInv, EngagedHoldsRow
    <2>2. QED
      BY <2>1 DEF RowSteady, Resendable
  <1>5. UnsentClaims'
    BY <1>a, <1>c, <1>e, <1>f DEF DeliveryInv, UnsentClaims
  <1>6. UnsentRows'
    BY DEF DeliveryInv, UnsentRows, RowSteady, Resendable
  <1>7. NoUnconsentedDuplicate'
    BY DEF DeliveryInv, NoUnconsentedDuplicate
  <1>8. QED
    BY <1>1, <1>2, <1>3, <1>4, <1>5, <1>6, <1>7 DEF DeliveryInv
(* The steps of producers, queue, clock and operator; an operator's retry  *)
(* opens an epoch in which nothing was accepted yet.                       *)
LEMMA EmailStepDelivery ==
    ASSUME TypeOK, TypeOK', DeliveryInv, NEW e \in Email, EmailStep(e)
    PROVE  DeliveryInv'
  <1>w. work' = work => \A w \in Worker : WorkerSteady(w)
    BY DEF WorkerSteady, Claimed, Unsent, Engaged, SmtpPhase
  <1>r. row' = row => \A d \in Email : RowSteady(d)
    BY DEF RowSteady
  <1>t. row \in [Email -> Row] /\ row[e] \in Row
    BY DEF TypeOK
  <1>1. CASE Create(e)
    <2>1. \A d \in Email : RowSteady(d)
      BY <1>1, <1>t DEF Create, RowSteady, Resendable, DeliveryInv, OwnersUnique, Row
    <2>2. QED
      BY <1>1, <1>w, <2>1, SteadyStep DEF Create
  <1>2. CASE Wake(e)
    BY <1>2, <1>w, <1>r, SteadyStep DEF Wake
  <1>3. CASE WakeFails(e)
    BY <1>3, <1>w, <1>r, SteadyStep DEF WakeFails
  <1>4. CASE RetryOutboundEmail(e)
    <2>1. row'[e].state = "QUEUED" /\ row'[e].owner = 0
      BY <1>4, <1>t DEF RetryOutboundEmail, Settle, Row
    <2>2. \A d \in Email : d # e => row'[d] = row[d] /\ retries'[d] = retries[d]
      BY <1>4 DEF RetryOutboundEmail, TypeOK
    <2>3. retries'[e] = retries[e] + 1 /\ retries'[e] \in Epoch /\ retries[e] \in Nat
      BY <1>4 DEF RetryOutboundEmail, TypeOK, Epoch
    <2>4. work' = work /\ accepts' = accepts /\ nextOwner' = nextOwner
      BY <1>4 DEF RetryOutboundEmail
    <2>5. row[e].owner = 0
      BY <1>4 DEF RetryOutboundEmail, DeliveryInv, OwnersUnique
    <2>6. \A w \in Worker : Claimed(w) =>
             work[w].email \in Email /\ work[w].epoch \in Nat /\ work[w].owner > 0
      BY ClaimedType DEF DeliveryInv, OwnersUnique, Epoch
    <2>7. \A w \in Worker : Claimed(w)' => Claimed(w)
      BY <2>4 DEF Claimed
    <2>u. \A w \in Worker : Unsent(w)' => Unsent(w)
      BY <2>4 DEF Unsent
    <2>c. \A w \in Worker : Engaged(w) => Claimed(w)
      BY DEF Engaged, Claimed
    <2>e. \A w \in Worker : Engaged(w)' => Engaged(w)
      <3> SUFFICES ASSUME NEW w \in Worker, Engaged(w)' PROVE Engaged(w)
        OBVIOUS
      <3>1. CASE work[w].pc = "read"
        BY <3>1, <2>1, <2>2, <2>4, <2>6 DEF Engaged, SmtpPhase, Claimed
      <3>2. CASE work[w].pc \in SmtpPhase
        BY <3>2 DEF Engaged
      <3>3. QED
        BY <3>1, <3>2, <2>4 DEF Engaged
    <2>8. OwnersUnique'
      <3>1. nextOwner \in Nat \ {0}
        BY DEF TypeOK
      <3>2. QED
        BY <2>1, <2>2, <2>4, <2>5, <2>7, <3>1 DEF DeliveryInv, OwnersUnique
    <2>9. EpochOfClaim'
      BY <2>1, <2>2, <2>3, <2>4, <2>6, <2>7 DEF DeliveryInv, EpochOfClaim
    <2>10. OneEngagedPerEpoch'
      BY <2>4, <2>e DEF DeliveryInv, OneEngagedPerEpoch
    <2>11. EngagedHoldsRow'
      <3>1. \A w \in Worker : Engaged(w)' =>
               work[w].epoch <= retries[work[w].email] /\ work[w].email \in Email
               /\ work[w].epoch \in Nat
        BY <2>6, <2>c, <2>e DEF DeliveryInv, EpochOfClaim
      <3>2. QED
        BY <2>2, <2>3, <2>4, <2>e, <3>1 DEF DeliveryInv, EngagedHoldsRow, Resendable
    <2>12. UnsentClaims'
      BY <2>4, <2>u, <2>e DEF DeliveryInv, UnsentClaims
    <2>13. UnsentRows'
      <3>1. \A d \in Email : Resendable(d)' => accepts[d][retries'[d]] = 0
        BY <2>2, <2>3 DEF DeliveryInv, UnsentRows, Resendable
      <3>2. \A d \in Email, k \in Epoch : k > retries'[d] => accepts[d][k] = 0
        BY <2>2, <2>3 DEF DeliveryInv, UnsentRows, Epoch
      <3>3. QED
        BY <2>4, <3>1, <3>2 DEF UnsentRows
    <2>14. NoUnconsentedDuplicate'
      BY <2>4 DEF DeliveryInv, NoUnconsentedDuplicate
    <2>15. QED
      BY <2>8, <2>9, <2>10, <2>11, <2>12, <2>13, <2>14 DEF DeliveryInv
  <1>5. CASE JobStalls(e)
    BY <1>5, <1>w, <1>r, SteadyStep DEF JobStalls
  <1>6. CASE LeaseExpires(e)
    <2>1. \A d \in Email : RowSteady(d)
      BY <1>6, <1>t DEF LeaseExpires, RowSteady, Row
    <2>2. QED
      BY <1>6, <1>w, <2>1, SteadyStep DEF LeaseExpires
  <1>7. CASE RetryBecomesDue(e)
    <2>1. \A d \in Email : RowSteady(d)
      BY <1>7, <1>t DEF RetryBecomesDue, RowSteady, Row
    <2>2. QED
      BY <1>7, <1>w, <2>1, SteadyStep DEF RetryBecomesDue
  <1>8. QED
    BY <1>1, <1>2, <1>3, <1>4, <1>5, <1>6, <1>7 DEF EmailStep

(* The recovery scan and a restart.                                        *)
LEMMA ScanDelivery ==
    ASSUME TypeOK, TypeOK', DeliveryInv, ScanStep \/ ScanFails \/ Restart
    PROVE  DeliveryInv'
  <1>w. work' = work => \A w \in Worker : WorkerSteady(w)
    BY DEF WorkerSteady, Claimed, Unsent, Engaged, SmtpPhase
  <1>r. row' = row => \A d \in Email : RowSteady(d)
    BY DEF RowSteady
  <1>1. CASE ScanMarksStale
    <2>1. \A e \in Email : RowSteady(e)
      <3> SUFFICES ASSUME NEW e \in Email PROVE RowSteady(e)
        OBVIOUS
      <3>1. row[e] \in Row
        BY DEF TypeOK
      <3>2. CASE Stale(e) /\ e \in mode.approved
        <4>1. row'[e] = Settle(row[e], "AMBIGUOUS", "none")
          BY <1>1, <3>2 DEF ScanMarksStale
        <4>2. QED
          BY <3>1, <3>2, <4>1 DEF RowSteady, Stale, Settle, Row
      <3>3. CASE ~(Stale(e) /\ e \in mode.approved)
        BY <1>1, <3>3 DEF ScanMarksStale, RowSteady
      <3>4. QED
        BY <3>2, <3>3
    <2>2. QED
      BY <1>1, <1>w, <2>1, SteadyStep DEF ScanMarksStale
  <1>2. CASE ScanFinds
    BY <1>2, <1>w, <1>r, SteadyStep DEF ScanFinds
  <1>3. CASE ScanEnds
    BY <1>3, <1>w, <1>r, SteadyStep DEF ScanEnds
  <1>4. ASSUME NEW e \in Email, ScanWakes(e) PROVE DeliveryInv'
    BY <1>4, <1>w, <1>r, SteadyStep DEF ScanWakes
  <1>5. CASE ScanFails
    BY <1>5, <1>w, <1>r, SteadyStep DEF ScanFails
  <1>6. CASE Restart
    <2>1. \A w \in Worker : WorkerSteady(w)
      BY <1>6 DEF Restart, WorkerSteady, Claimed, Idle, SmtpPhase
    <2>2. QED
      BY <1>6, <1>r, <2>1, SteadyStep DEF Restart
  <1>7. QED
    BY <1>1, <1>2, <1>3, <1>4, <1>5, <1>6 DEF ScanStep
(* A worker that goes idle, or moves on with its claim, is steady; the     *)
(* others do not move.                                                     *)
LEMMA OneWorkerSteady ==
    ASSUME TypeOK, NEW w \in Worker,
           \A v \in Worker : v # w => work'[v] = work[v],
           WorkerSteady(w)
    PROVE  \A v \in Worker : WorkerSteady(v)
  <1> SUFFICES ASSUME NEW v \in Worker, v # w PROVE WorkerSteady(v)
    OBVIOUS
  <1>1. QED
    BY DEF WorkerSteady, Claimed, Unsent

LEMMA FinishSteady ==
    ASSUME TypeOK, NEW w \in Worker, work' = [work EXCEPT ![w] = Idle]
    PROVE  \A v \in Worker : WorkerSteady(v)
  <1>1. work'[w] = Idle /\ \A v \in Worker : v # w => work'[v] = work[v]
    BY DEF TypeOK
  <1>2. WorkerSteady(w)
    BY <1>1 DEF WorkerSteady, Claimed, Idle, SmtpPhase
  <1>3. QED
    BY <1>1, <1>2, OneWorkerSteady

(* The claim: an unsent row, at which nobody else is engaged in this epoch, *)
(* goes to a fresh owner.                                                  *)
LEMMA ClaimDelivery ==
    ASSUME TypeOK, TypeOK', DeliveryInv, NEW w \in Worker, Claim(w), Claimable(work[w].email)
    PROVE  DeliveryInv'
  <1> DEFINE e == work[w].email
  <1>1. e \in Email /\ row[e] \in Row /\ retries[e] \in Epoch /\ work[w] \in WorkerState
    BY DEF Claim, TypeOK
  <1>2. /\ row'[e].state = "PROCESSING" /\ row'[e].owner = nextOwner
        /\ \A d \in Email : d # e => row'[d] = row[d]
    BY <1>1 DEF Claim, Leased, TypeOK
  <1>3. /\ work'[w].pc = "read" /\ work'[w].owner = nextOwner
        /\ work'[w].epoch = retries[e] /\ work'[w].email = e
        /\ \A v \in Worker : v # w => work'[v] = work[v]
    <2> DEFINE s == [work[w] EXCEPT !.pc = "read", !.owner = nextOwner, !.epoch = retries[e]]
    <2>1. work' = [work EXCEPT ![w] = s]
      BY DEF Claim
    <2>2. s.pc = "read" /\ s.owner = nextOwner /\ s.epoch = retries[e] /\ s.email = e
      BY <1>1 DEF WorkerState
    <2>3. QED
      BY <2>1, <2>2 DEF TypeOK
  <1>4. nextOwner' = nextOwner + 1 /\ retries' = retries /\ accepts' = accepts
    BY DEF Claim
  <1>5. nextOwner \in Nat \ {0}
    BY DEF TypeOK
  <1>6. Resendable(e) /\ row[e].state # "PROCESSING"
    BY DEF Claimable, Resendable
  <1>7. \A v \in Worker : v # w /\ Claimed(v)' =>
           /\ Claimed(v) /\ work[v].email \in Email /\ work[v].epoch \in Epoch
           /\ work[v].owner > 0 /\ work[v].owner < nextOwner /\ work[v].owner \in Nat
    BY <1>3, ClaimedType DEF DeliveryInv, OwnersUnique, Claimed
  <1>c. \A v \in Worker : Engaged(v)' => Claimed(v)'
    BY DEF Engaged, Claimed
  <1>8. \A v \in Worker : v # w /\ Engaged(v)' => Engaged(v)
    <2> SUFFICES ASSUME NEW v \in Worker, v # w, Engaged(v)' PROVE Engaged(v)
      OBVIOUS
    <2>1. CASE work[v].pc = "read"
      BY <2>1, <1>2, <1>3, <1>5, <1>7, <1>c DEF Engaged, SmtpPhase
    <2>2. CASE work[v].pc \in SmtpPhase
      BY <2>2 DEF Engaged
    <2>3. QED
      BY <2>1, <2>2, <1>3 DEF Engaged
  <1>9. \A v \in Worker : v # w /\ Engaged(v)' /\ work[v].email = e => work[v].epoch # retries[e]
    BY <1>6, <1>8 DEF DeliveryInv, EngagedHoldsRow
  <1>10. OwnersUnique'
    <2>0. \A d \in Email : row[d].owner \in Nat /\ row[d].owner < nextOwner
      BY DEF DeliveryInv, OwnersUnique, TypeOK, Row
    <2>1. \A d \in Email : row'[d].owner < nextOwner + 1
      BY <2>0, <1>1, <1>2, <1>5
    <2>2. \A d \in Email : row'[d].state = "PROCESSING" <=> row'[d].owner # 0
      BY <1>1, <1>2, <1>5 DEF DeliveryInv, OwnersUnique
    <2>3. \A v \in Worker : Claimed(v)' => 0 < work'[v].owner /\ work'[v].owner < nextOwner + 1
      BY <1>3, <1>5, <1>7
    <2>4. \A u, v \in Worker : u # v /\ Claimed(u)' /\ Claimed(v)'
                                 => work'[u].owner # work'[v].owner
      BY <1>3, <1>5, <1>7 DEF DeliveryInv, OwnersUnique
    <2>5. QED
      BY <2>1, <2>2, <2>3, <2>4, <1>4 DEF OwnersUnique
  <1>11. EpochOfClaim'
    <2> SUFFICES ASSUME NEW v \in Worker, Claimed(v)'
                 PROVE  /\ work'[v].epoch <= retries[work'[v].email]
                        /\ row'[work'[v].email].owner = work'[v].owner
                               => work'[v].epoch = retries[work'[v].email]
      BY <1>4 DEF EpochOfClaim
    <2>1. CASE v = w
      BY <2>1, <1>1, <1>3 DEF Epoch
    <2>2. CASE v # w
      BY <2>2, <1>2, <1>3, <1>5, <1>7 DEF DeliveryInv, EpochOfClaim
    <2>3. QED
      BY <2>1, <2>2
  <1>12. OneEngagedPerEpoch'
    BY <1>3, <1>8, <1>9 DEF DeliveryInv, OneEngagedPerEpoch
  <1>13. EngagedHoldsRow'
    <2> SUFFICES ASSUME NEW v \in Worker, Engaged(v)', work'[v].epoch = retries[work'[v].email]
                 PROVE  \A d \in Email : d = work'[v].email =>
                            /\ ~Resendable(d)'
                            /\ row'[d].state = "PROCESSING" => row'[d].owner = work'[v].owner
      BY <1>4, <1>7, <1>3, <1>1, <1>c DEF EngagedHoldsRow, Resendable
    <2>1. CASE v = w
      BY <2>1, <1>2, <1>3 DEF Resendable
    <2>2. CASE v # w
      BY <2>2, <1>2, <1>3, <1>8, <1>9 DEF DeliveryInv, EngagedHoldsRow, Resendable
    <2>3. QED
      BY <2>1, <2>2
  <1>14. UnsentClaims'
    <2>1. accepts[e][retries[e]] = 0
      BY <1>1, <1>6 DEF DeliveryInv, UnsentRows
    <2>2. \A v \in Worker : v # w /\ Engaged(v)' /\ Unsent(v)' => Engaged(v) /\ Unsent(v)
      BY <1>3, <1>8 DEF Unsent
    <2>3. QED
      BY <1>3, <1>4, <2>1, <2>2 DEF DeliveryInv, UnsentClaims
  <1>15. UnsentRows'
    BY <1>2, <1>4 DEF DeliveryInv, UnsentRows, Resendable
  <1>16. NoUnconsentedDuplicate'
    BY <1>4 DEF DeliveryInv, NoUnconsentedDuplicate
  <1>17. QED
    BY <1>10, <1>11, <1>12, <1>13, <1>14, <1>15, <1>16 DEF DeliveryInv
(* The relay's acceptance: the only one of the worker's epoch.             *)
LEMMA RelayDelivery ==
    ASSUME TypeOK, TypeOK', DeliveryInv, NEW w \in Worker, RelayAccepts(w)
    PROVE  DeliveryInv'
  <1> DEFINE e == work[w].email
             k == work[w].epoch
  <1>1. Claimed(w) /\ Engaged(w) /\ Unsent(w) /\ work[w] \in WorkerState
    BY DEF RelayAccepts, Claimed, Engaged, Unsent, SmtpPhase, TypeOK
  <1>2. e \in Email /\ k \in Epoch /\ k <= retries[e] /\ retries[e] \in Epoch
    BY <1>1, ClaimedType DEF DeliveryInv, EpochOfClaim, TypeOK
  <1>3. accepts[e][k] = 0
    BY <1>1 DEF DeliveryInv, UnsentClaims
  <1>4. /\ accepts'[e][k] = 1
        /\ \A d \in Email, j \in Epoch : d # e \/ j # k => accepts'[d][j] = accepts[d][j]
    BY <1>2, <1>3 DEF RelayAccepts, TypeOK
  <1>5. row' = row /\ retries' = retries /\ nextOwner' = nextOwner
    BY DEF RelayAccepts
  <1>6. /\ work'[w].pc = "inflight" /\ work'[w].email = e /\ work'[w].epoch = k
        /\ work'[w].owner = work[w].owner
        /\ \A v \in Worker : v # w => work'[v] = work[v]
    BY <1>1 DEF RelayAccepts, TypeOK, WorkerState
  <1>7. \A v \in Worker : Claimed(v)' => Claimed(v)
    BY <1>1, <1>6 DEF Claimed
  <1>8. \A v \in Worker : Engaged(v)' => Engaged(v)
    BY <1>1, <1>5, <1>6 DEF Engaged
  <1>9. \A v \in Worker : work'[v].email = work[v].email /\ work'[v].epoch = work[v].epoch
                           /\ work'[v].owner = work[v].owner
    BY <1>6
  <1>10. OwnersUnique'
    BY <1>5, <1>7, <1>9 DEF DeliveryInv, OwnersUnique
  <1>11. EpochOfClaim'
    BY <1>5, <1>7, <1>9 DEF DeliveryInv, EpochOfClaim
  <1>12. OneEngagedPerEpoch'
    BY <1>8, <1>9 DEF DeliveryInv, OneEngagedPerEpoch
  <1>13. EngagedHoldsRow'
    BY <1>5, <1>8, <1>9 DEF DeliveryInv, EngagedHoldsRow, Resendable
  <1>14. UnsentClaims'
    <2> SUFFICES ASSUME NEW v \in Worker, Engaged(v)', Unsent(v)'
                 PROVE  accepts'[work[v].email][work[v].epoch] = 0
      BY <1>9 DEF UnsentClaims
    <2>1. v # w
      BY <1>6 DEF Unsent
    <2>2. Engaged(v) /\ Unsent(v) /\ Claimed(v)
      BY <2>1, <1>6, <1>8 DEF Unsent, Engaged, Claimed
    <2>3. accepts[work[v].email][work[v].epoch] = 0
      BY <2>2 DEF DeliveryInv, UnsentClaims
    <2>4. work[v].email # e \/ work[v].epoch # k
      BY <1>1, <2>1, <2>2 DEF DeliveryInv, OneEngagedPerEpoch
    <2>5. work[v].email \in Email /\ work[v].epoch \in Epoch
      BY <2>2, ClaimedType
    <2>6. QED
      BY <1>4, <2>3, <2>4, <2>5
  <1>15. UnsentRows'
    <2>1. \A d \in Email : Resendable(d)' => accepts'[d][retries[d]] = 0
      <3> SUFFICES ASSUME NEW d \in Email, Resendable(d) PROVE accepts'[d][retries[d]] = 0
        BY <1>5 DEF Resendable
      <3>1. accepts[d][retries[d]] = 0 /\ retries[d] \in Epoch
        BY DEF DeliveryInv, UnsentRows, TypeOK
      <3>2. d # e \/ retries[d] # k
        BY <1>1 DEF DeliveryInv, EngagedHoldsRow
      <3>3. QED
        BY <1>4, <3>1, <3>2
    <2>2. \A d \in Email, j \in Epoch : j > retries[d] => accepts'[d][j] = 0
      BY <1>2, <1>4 DEF DeliveryInv, UnsentRows, Epoch
    <2>3. QED
      BY <1>5, <2>1, <2>2 DEF UnsentRows
  <1>16. NoUnconsentedDuplicate'
    BY <1>2, <1>4 DEF DeliveryInv, NoUnconsentedDuplicate
  <1>17. QED
    BY <1>10, <1>11, <1>12, <1>13, <1>14, <1>15, <1>16 DEF DeliveryInv

(* A definite failure returns the row to the sendable states, or fails it: *)
(* the worker that reports it had not been accepted, and was the only one  *)
(* engaged in its epoch.                                                   *)
LEMMA FailureDelivery ==
    ASSUME TypeOK, TypeOK', DeliveryInv, NEW w \in Worker, RecordDeliveryFailure(w)
    PROVE  DeliveryInv'
  <1> DEFINE e == work[w].email
  <1>1. Claimed(w) /\ Engaged(w) /\ work[w] \in WorkerState
    BY DEF RecordDeliveryFailure, Claimed, Engaged, SmtpPhase, TypeOK
  <1>2. e \in Email /\ row[e] \in Row /\ work[w].owner > 0
    BY <1>1, ClaimedType DEF DeliveryInv, OwnersUnique
  <1>3. work' = [work EXCEPT ![w] = Idle] /\ UNCHANGED <<retries, accepts, nextOwner>>
    BY DEF RecordDeliveryFailure, Finish
  <1>4. \A v \in Worker : WorkerSteady(v)
    BY <1>3, FinishSteady
  <1>5. CASE ~Fenced(w)
    <2>1. \A d \in Email : RowSteady(d)
      BY <1>5 DEF RecordDeliveryFailure, RowSteady
    <2>2. QED
      BY <1>3, <1>4, <2>1, SteadyStep
  <1>6. CASE Fenced(w) /\ work[w].error = "network"
    <2>1. row' = [row EXCEPT ![e] = Settle(row[e], "AMBIGUOUS", "none")]
      BY <1>6 DEF RecordDeliveryFailure, AfterFailure
    <2>a. row'[e] = Settle(row[e], "AMBIGUOUS", "none") /\ \A d \in Email : d # e => row'[d] = row[d]
      BY <1>2, <2>1 DEF TypeOK
    <2>b. row'[e].state = "AMBIGUOUS" /\ row'[e].owner = 0
      BY <1>2, <2>a DEF Settle, Row
    <2>c. row[e].state = "PROCESSING"
      BY <1>6 DEF Fenced
    <2>2. \A d \in Email : RowSteady(d)
      BY <2>a, <2>b, <2>c DEF RowSteady
    <2>3. QED
      BY <1>3, <1>4, <2>2, SteadyStep
  <1>7. CASE Fenced(w) /\ work[w].error # "network"
    <2>a. row' = [row EXCEPT ![e] = AfterFailure(row[e], work[w].error, work[w].attempts)]
      BY <1>7 DEF RecordDeliveryFailure
    <2>b. \E state \in {"RETRY", "FAILED"}, retryAt \in {"none", "future"} :
            AfterFailure(row[e], work[w].error, work[w].attempts) = Settle(row[e], state, retryAt)
      BY <1>7 DEF AfterFailure
    <2>s. \A state, retryAt : /\ Settle(row[e], state, retryAt).state = state
                              /\ Settle(row[e], state, retryAt).owner = 0
      BY <1>2 DEF Settle, Row
    <2>d. row'[e] = AfterFailure(row[e], work[w].error, work[w].attempts)
      BY <1>2, <2>a DEF TypeOK
    <2>1. /\ row'[e].state \in {"RETRY", "FAILED"} /\ row'[e].owner = 0
          /\ \A d \in Email : d # e => row'[d] = row[d]
      BY <1>2, <2>a, <2>b, <2>s, <2>d DEF TypeOK
    <2>2. work'[w] = Idle /\ \A v \in Worker : v # w => work'[v] = work[v]
      BY <1>3 DEF TypeOK
    <2>3. work[w].epoch = retries[e] /\ row[e].state = "PROCESSING" /\ row[e].owner = work[w].owner
      BY <1>1, <1>7 DEF Fenced, DeliveryInv, EpochOfClaim
    <2>4. accepts[e][retries[e]] = 0
      BY <1>1, <1>7, <2>3 DEF RecordDeliveryFailure, Unsent, DeliveryInv, UnsentClaims
    <2>5. \A v \in Worker : Claimed(v)' =>
             v # w /\ Claimed(v) /\ work'[v] = work[v] /\ work[v].email \in Email
             /\ work[v].owner > 0
      BY <2>2, ClaimedType DEF Claimed, Idle, SmtpPhase, DeliveryInv, OwnersUnique
    <2>c. \A v \in Worker : Engaged(v)' => Claimed(v)'
      BY DEF Engaged, Claimed
    <2>6. \A v \in Worker : Engaged(v)' => Engaged(v)
      <3> SUFFICES ASSUME NEW v \in Worker, Engaged(v)' PROVE Engaged(v)
        OBVIOUS
      <3>1. CASE work[v].pc = "read"
        BY <3>1, <2>1, <2>5, <2>c DEF Engaged, SmtpPhase
      <3>2. CASE work[v].pc \in SmtpPhase
        BY <3>2 DEF Engaged
      <3>3. QED
        BY <3>1, <3>2, <2>5, <2>c DEF Engaged
    <2>7. \A v \in Worker : Engaged(v)' /\ work[v].email = e => work[v].epoch # retries[e]
      BY <1>1, <2>3, <2>5, <2>6, <2>c DEF DeliveryInv, OneEngagedPerEpoch
    <2>8. OwnersUnique'
      <3>1. nextOwner \in Nat \ {0}
        BY DEF TypeOK
      <3>2. \A d \in Email : row'[d].owner < nextOwner
        BY <2>1, <3>1 DEF DeliveryInv, OwnersUnique
      <3>3. \A d \in Email : row'[d].state = "PROCESSING" <=> row'[d].owner # 0
        BY <2>1 DEF DeliveryInv, OwnersUnique
      <3>4. \A v \in Worker : Claimed(v)' => 0 < work'[v].owner /\ work'[v].owner < nextOwner
        BY <2>5 DEF DeliveryInv, OwnersUnique
      <3>5. \A u, v \in Worker : u # v /\ Claimed(u)' /\ Claimed(v)'
                                   => work'[u].owner # work'[v].owner
        BY <2>5 DEF DeliveryInv, OwnersUnique
      <3>6. QED
        BY <1>3, <3>2, <3>3, <3>4, <3>5 DEF OwnersUnique
    <2>9. EpochOfClaim'
      BY <1>3, <2>1, <2>5 DEF DeliveryInv, EpochOfClaim
    <2>10. OneEngagedPerEpoch'
      BY <2>5, <2>6, <2>c DEF DeliveryInv, OneEngagedPerEpoch
    <2>11. EngagedHoldsRow'
      BY <1>3, <2>1, <2>5, <2>6, <2>7, <2>c DEF DeliveryInv, EngagedHoldsRow, Resendable
    <2>12. UnsentClaims'
      <3>1. \A v \in Worker : Engaged(v)' /\ Unsent(v)' => Engaged(v) /\ Unsent(v)
        BY <2>5, <2>6, <2>c DEF Unsent
      <3>2. QED
        BY <1>3, <2>5, <2>c, <3>1 DEF DeliveryInv, UnsentClaims
    <2>13. UnsentRows'
      BY <1>3, <2>1, <2>4 DEF DeliveryInv, UnsentRows, Resendable
    <2>14. NoUnconsentedDuplicate'
      BY <1>3 DEF DeliveryInv, NoUnconsentedDuplicate
    <2>15. QED
      BY <2>8, <2>9, <2>10, <2>11, <2>12, <2>13, <2>14 DEF DeliveryInv
  <1>8. QED
    BY <1>5, <1>6, <1>7
LEMMA WorkerDelivery ==
    ASSUME TypeOK, TypeOK', DeliveryInv, NEW w \in Worker,
           WorkerStep(w) \/ WorkerFault(w) \/ Heartbeat(w)
    PROVE  DeliveryInv'
  <1> DEFINE e == work[w].email
  <1>r. row' = row => \A d \in Email : RowSteady(d)
    BY DEF RowSteady
  <1>w. work' = work => \A v \in Worker : WorkerSteady(v)
    BY DEF WorkerSteady, Claimed, Unsent, Engaged, SmtpPhase
  <1>t. work[w] \in WorkerState /\ (work[w].pc # "idle" => e \in Email /\ row[e] \in Row)
    BY DEF TypeOK
  <1>s. \A s \in WorkerState :
          /\ work' = [work EXCEPT ![w] = s]
          /\ \/ s.pc \in {"idle", "stale", "claim"}
             \/ /\ s.pc \in SmtpPhase /\ Engaged(w)
                /\ s.email = e /\ s.owner = work[w].owner /\ s.epoch = work[w].epoch
                /\ s.pc = "smtp" \/ (s.pc = "failed" /\ s.error # "network") => Unsent(w)
          => \A v \in Worker : WorkerSteady(v)
    <2> SUFFICES ASSUME NEW s \in WorkerState, work' = [work EXCEPT ![w] = s],
                        \/ s.pc \in {"idle", "stale", "claim"}
                        \/ /\ s.pc \in SmtpPhase /\ Engaged(w)
                           /\ s.email = e /\ s.owner = work[w].owner /\ s.epoch = work[w].epoch
                           /\ s.pc = "smtp" \/ (s.pc = "failed" /\ s.error # "network") => Unsent(w)
                 PROVE  \A v \in Worker : WorkerSteady(v)
      OBVIOUS
    <2>1. work'[w] = s /\ \A v \in Worker : v # w => work'[v] = work[v]
      BY DEF TypeOK
    <2>2. Engaged(w) => Claimed(w)
      BY DEF Engaged, Claimed
    <2>3. CASE s.pc \in {"idle", "stale", "claim"}
      BY <2>1, <2>3, OneWorkerSteady DEF WorkerSteady, Claimed, SmtpPhase
    <2>4. CASE s.pc \in SmtpPhase
      <3>1. work'[w].pc # "read" /\ Engaged(w) /\ (Unsent(w)' => Unsent(w))
        BY <2>1, <2>4 DEF SmtpPhase, Unsent
      <3>2. WorkerSteady(w)
        BY <2>1, <2>2, <2>4, <3>1 DEF WorkerSteady, SmtpPhase
      <3>3. QED
        BY <2>1, <3>2, OneWorkerSteady
    <2>5. QED
      BY <2>3, <2>4
  <1>a. ASSUME work[w].pc # "idle", row[e].state = "PROCESSING", NEW s \in {"SENT", "AMBIGUOUS"},
               row' = [row EXCEPT ![e] = Settle(row[e], s, "none")]
        PROVE  \A d \in Email : RowSteady(d)
    BY <1>a, <1>t DEF RowSteady, Settle, TypeOK, Row
  <1>f. Finish(w) => \A v \in Worker : WorkerSteady(v)
    BY FinishSteady DEF Finish
  <1>1. ASSUME NEW d \in Email, TakeJob(w, d) PROVE DeliveryInv'
    <2>1. CASE d \in mode.approved
      <3> DEFINE s == [Idle EXCEPT !.pc = "stale", !.email = d]
      <3>1. s \in WorkerState /\ s.pc = "stale"
        BY IdleType DEF Idle, WorkerState
      <3>2. work' = [work EXCEPT ![w] = s]
        BY <1>1, <2>1 DEF TakeJob
      <3>3. \A v \in Worker : WorkerSteady(v)
        BY <3>1, <3>2, <1>s
      <3>4. QED
        BY <1>1, <1>r, <3>3, SteadyStep DEF TakeJob
    <2>2. CASE d \notin mode.approved
      BY <1>1, <2>2, <1>r, <1>w, SteadyStep DEF TakeJob
    <2>3. QED
      BY <2>1, <2>2
  <1>2. CASE MarkStale(w)
    <2>1. CASE Stale(e)
      <3>1. \A d \in Email : RowSteady(d)
        BY <1>2, <2>1, <1>a DEF MarkStale, Stale
      <3>2. QED
        BY <1>2, <2>1, <1>f, <3>1, SteadyStep DEF MarkStale
    <2>2. CASE ~Stale(e)
      <3> DEFINE s == [work[w] EXCEPT !.pc = "claim"]
      <3>1. s \in WorkerState /\ s.pc = "claim"
        BY <1>t DEF WorkerState
      <3>2. work' = [work EXCEPT ![w] = s]
        BY <1>2, <2>2 DEF MarkStale
      <3>3. \A v \in Worker : WorkerSteady(v)
        BY <3>1, <3>2, <1>s
      <3>4. QED
        BY <1>2, <2>2, <1>r, <3>3, SteadyStep DEF MarkStale
    <2>3. QED
      BY <2>1, <2>2
  <1>3. CASE Claim(w)
    <2>1. CASE Claimable(e)
      BY <1>3, <2>1, ClaimDelivery
    <2>2. CASE ~Claimable(e)
      BY <1>3, <2>2, <1>r, <1>f, SteadyStep DEF Claim
    <2>3. QED
      BY <2>1, <2>2
  <1>4. CASE ReadBack(w)
    <2>1. CASE row[e].state = "PROCESSING" /\ row[e].owner = work[w].owner
      <3> DEFINE s == [work[w] EXCEPT !.pc = "smtp", !.version = row[e].version,
                                      !.attempts = row[e].attempts]
      <3>1. row[e].attempts \in Nat /\ row[e].version \in Nat
        BY <1>4, <1>t DEF ReadBack, Row
      <3>2. /\ s \in WorkerState /\ s.pc = "smtp" /\ s.email = e
            /\ s.owner = work[w].owner /\ s.epoch = work[w].epoch
        BY <1>t, <3>1 DEF WorkerState, SmtpPhase
      <3>3. work' = [work EXCEPT ![w] = s]
        BY <1>4, <2>1 DEF ReadBack
      <3>4. Engaged(w) /\ Unsent(w)
        BY <1>4, <2>1 DEF ReadBack, Engaged, Unsent
      <3>5. \A v \in Worker : WorkerSteady(v)
        BY <3>2, <3>3, <3>4, <1>s DEF SmtpPhase
      <3>6. QED
        BY <1>4, <2>1, <1>r, <3>5, SteadyStep DEF ReadBack
    <2>2. CASE ~(row[e].state = "PROCESSING" /\ row[e].owner = work[w].owner)
      BY <1>4, <2>2, <1>r, <1>f, SteadyStep DEF ReadBack
    <2>3. QED
      BY <2>1, <2>2
  <1>5. CASE Heartbeat(w)
    <2>1. \A d \in Email : RowSteady(d)
      BY <1>5, <1>t DEF Heartbeat, SmtpPhase, RowSteady, TypeOK, Row
    <2>2. QED
      BY <1>5, <1>w, <2>1, SteadyStep DEF Heartbeat
  <1>6. CASE RelayAccepts(w)
    BY <1>6, RelayDelivery
  <1>7. CASE SmtpResolves(w)
    <2> DEFINE s == [work[w] EXCEPT !.pc = "sent"]
    <2>1. /\ s \in WorkerState /\ s.pc = "sent" /\ s.email = e
          /\ s.owner = work[w].owner /\ s.epoch = work[w].epoch
      BY <1>t DEF WorkerState, SmtpPhase
    <2>2. work' = [work EXCEPT ![w] = s] /\ Engaged(w)
      BY <1>7 DEF SmtpResolves, Engaged, SmtpPhase
    <2>3. \A v \in Worker : WorkerSteady(v)
      BY <2>1, <2>2, <1>s DEF SmtpPhase
    <2>4. QED
      BY <1>7, <1>r, <2>3, SteadyStep DEF SmtpResolves
  <1>8. ASSUME NEW error \in Errors \ {"none"}, SmtpThrows(w, error) PROVE DeliveryInv'
    <2> DEFINE s == [work[w] EXCEPT !.pc = "failed", !.error = error]
    <2>1. /\ s \in WorkerState /\ s.pc = "failed" /\ s.email = e /\ s.error = error
          /\ s.owner = work[w].owner /\ s.epoch = work[w].epoch
      BY <1>t DEF WorkerState, SmtpPhase
    <2>2. work' = [work EXCEPT ![w] = s] /\ Engaged(w) /\ (error # "network" => Unsent(w))
      BY <1>8 DEF SmtpThrows, Engaged, Unsent, SmtpPhase
    <2>3. \A v \in Worker : WorkerSteady(v)
      BY <2>1, <2>2, <1>s DEF SmtpPhase
    <2>4. QED
      BY <1>8, <1>r, <2>3, SteadyStep DEF SmtpThrows
  <1>9. ASSUME work[w].pc = "sent", CommitSent(w) \/ UNCHANGED row
        PROVE  \A d \in Email : RowSteady(d)
    BY <1>9, <1>r, <1>a DEF CommitSent, Fenced
  <1>10. CASE MarkSent(w)
    BY <1>10, <1>9, <1>f, SteadyStep DEF MarkSent
  <1>11. CASE MarkSentThrows(w)
    <2> DEFINE s == [work[w] EXCEPT !.pc = "ambiguous"]
    <2>1. /\ s \in WorkerState /\ s.pc = "ambiguous" /\ s.email = e
          /\ s.owner = work[w].owner /\ s.epoch = work[w].epoch
      BY <1>t DEF WorkerState, SmtpPhase
    <2>2. work' = [work EXCEPT ![w] = s] /\ Engaged(w)
      BY <1>11 DEF MarkSentThrows, Engaged, SmtpPhase
    <2>3. \A v \in Worker : WorkerSteady(v)
      BY <2>1, <2>2, <1>s DEF SmtpPhase
    <2>4. QED
      BY <1>11, <1>9, <2>3, SteadyStep DEF MarkSentThrows
  <1>12. CASE MarkAmbiguousAfterSmtpAcceptance(w)
    <2>1. \A d \in Email : RowSteady(d)
      BY <1>12, <1>r, <1>a DEF MarkAmbiguousAfterSmtpAcceptance, Fenced
    <2>2. QED
      BY <1>12, <1>f, <2>1, SteadyStep DEF MarkAmbiguousAfterSmtpAcceptance
  <1>13. CASE RecordDeliveryFailure(w)
    BY <1>13, FailureDelivery
  <1>14. CASE DbFails(w)
    BY <1>14, <1>r, <1>f, SteadyStep DEF DbFails
  <1>15. CASE Crash(w)
    BY <1>15, <1>r, FinishSteady, SteadyStep DEF Crash
  <1>16. QED
    BY <1>1, <1>2, <1>3, <1>4, <1>5, <1>6, <1>7, <1>8, <1>10, <1>11, <1>12, <1>13,
       <1>14, <1>15 DEF WorkerStep, WorkerFault

LEMMA InitDelivery == Init => DeliveryInv
  <1> SUFFICES ASSUME Init PROVE DeliveryInv
    OBVIOUS
  <1>1. \A w \in Worker : ~Claimed(w) /\ ~Engaged(w)
    BY DEF Init, Idle, Claimed, Engaged, SmtpPhase
  <1>2. /\ \A e \in Email : row[e].owner = 0 /\ row[e].state = "ABSENT" /\ retries[e] = 0
        /\ \A e \in Email, k \in Epoch : accepts[e][k] = 0
    BY DEF Init, Absent
  <1>3. 0 \in Epoch /\ nextOwner = 1
    BY BoundAssumption DEF Init, Epoch
  <1>4. QED
    BY <1>1, <1>2, <1>3 DEF DeliveryInv, OwnersUnique, EpochOfClaim, OneEngagedPerEpoch,
       EngagedHoldsRow, UnsentClaims, UnsentRows, NoUnconsentedDuplicate

LEMMA NextDelivery == TypeOK /\ DeliveryInv /\ [Next]_vars => DeliveryInv'
  <1> SUFFICES ASSUME TypeOK, DeliveryInv, [Next]_vars PROVE DeliveryInv'
    OBVIOUS
  <1>1. TypeOK'
    BY NextType
  <1>2. CASE MacroActs \/ UNCHANGED vars
    <2>0. UNCHANGED OutboxVars
      BY <1>2, MacroLeavesTheOutbox
    <2>1. /\ \A d \in Email : RowSteady(d)
          /\ UNCHANGED <<retries, accepts, nextOwner>>
      BY <2>0 DEF OutboxVars, RowSteady
    <2>2. \A v \in Worker : WorkerSteady(v)
      BY <2>0 DEF OutboxVars, WorkerSteady, Claimed, Unsent, Engaged, SmtpPhase
    <2>3. QED
      BY <1>1, <2>1, <2>2, SteadyStep
  <1>3. CASE Next /\ ~MacroActs
    BY <1>1, <1>3, WorkerDelivery, EmailStepDelivery, ScanDelivery DEF Next, MacroActs
  <1>4. QED
    BY <1>2, <1>3

(* The inductive invariant of the claim protocol.                          *)
THEOREM DeliveryInvariant == Spec => []DeliveryInv
  <1>1. TypeOK /\ DeliveryInv /\ [Next]_vars => (TypeOK /\ DeliveryInv)'
    BY NextType, NextDelivery
  <1>2. QED
    BY <1>1, InitType, InitDelivery, PTL DEF Spec

(* One consent buys one delivery: processOutboundEmail, the recovery scan  *)
(* and retryOutboundEmail never deliver a row twice under one consent.     *)
THEOREM NoDuplicates == Spec => []NoUnconsentedDuplicate
  <1>1. DeliveryInv => NoUnconsentedDuplicate
    BY DEF DeliveryInv
  <1>2. QED
    BY <1>1, DeliveryInvariant, PTL

(* QUEUED, RETRY and FAILED mean not delivered since the last consent.     *)
THEOREM ResendsAreUnsent == Spec => []ResendableIsUnsent
  <1>1. DeliveryInv => ResendableIsUnsent
    BY DEF DeliveryInv, UnsentRows, Resendable, ResendableIsUnsent
  <1>2. QED
    BY <1>1, DeliveryInvariant, PTL
--------------------------------------------------------------------------------
(* The first response, and the rows outside the selection.                 *)

(* markSent writes the stamp only where there is none; other code of the   *)
(* outbox does not, and a restart forgets the macros.                      *)
LEMMA StampStays ==
    ASSUME [Next]_vars, ~MacroActs, NEW t \in Ticket, firstResponse[t] # 0
    PROVE  firstResponse'[t] = firstResponse[t] /\ macros' \subseteq macros
  <1> DEFINE Kept == firstResponse'[t] = firstResponse[t] /\ macros' \subseteq macros
  <1>s. ASSUME NEW w \in Worker, CommitSent(w) PROVE firstResponse'[t] = firstResponse[t]
    BY <1>s DEF CommitSent
  <1>1. ASSUME NEW w \in Worker, WorkerStep(w) PROVE Kept
    BY <1>1, <1>s DEF WorkerStep, TakeJob, MarkStale, Claim, ReadBack, RelayAccepts, SmtpResolves,
                      SmtpThrows, MarkSent, MarkAmbiguousAfterSmtpAcceptance, RecordDeliveryFailure
  <1>2. ASSUME NEW w \in Worker, WorkerFault(w) \/ Heartbeat(w) PROVE Kept
    BY <1>2, <1>s DEF WorkerFault, MarkSentThrows, DbFails, Crash, Heartbeat
  <1>3. ASSUME NEW e \in Email, EmailStep(e) PROVE Kept
    BY <1>3 DEF EmailStep, Create, Wake, WakeFails, RetryOutboundEmail, JobStalls, LeaseExpires,
                RetryBecomesDue
  <1>4. ASSUME ScanStep \/ ScanFails \/ Restart PROVE Kept
    BY <1>4 DEF ScanStep, ScanMarksStale, ScanFinds, ScanWakes, ScanEnds, ScanFails, Restart
  <1>5. QED
    BY <1>1, <1>2, <1>3, <1>4 DEF Next, MacroActs, vars

(* A macro that restamps is one that read the ticket without a stamp, and  *)
(* is done with it.                                                        *)
LEMMA MacroRestamps ==
    ASSUME TypeOK, MacroActs, NEW t \in Ticket, firstResponse[t] # 0
    PROVE  /\ Restamping(t)' \subseteq Restamping(t)
           /\ \/ firstResponse'[t] = firstResponse[t]
              \/ firstResponse'[t] \in Restamping(t) \ Restamping(t)'
  <1>1. PICK m \in Macro, u \in Ticket : MacroStep(m, u)
    BY DEF MacroActs
  <1>2. CASE MacroReads(m, u)
    <2>1. u # t /\ macros' = macros \cup {<<m, u>>} /\ firstResponse' = firstResponse
      BY <1>2 DEF MacroReads
    <2>2. \A n \in Macro : <<n, t>> \in macros' => <<n, t>> \in macros
      BY <2>1
    <2>3. QED
      BY <2>1, <2>2 DEF Restamping
  <1>3. CASE MacroReplies(m, u)
    <2>1. /\ <<m, u>> \in macros /\ macros' = macros \ {<<m, u>>}
          /\ firstResponse' = [firstResponse EXCEPT ![u] = m]
      BY <1>3 DEF MacroReplies
    <2>2. Restamping(t)' \subseteq Restamping(t)
      BY <2>1 DEF Restamping
    <2>3. CASE u # t
      BY <2>1, <2>2, <2>3 DEF TypeOK
    <2>4. CASE u = t
      <3>1. firstResponse'[t] = m
        BY <2>1, <2>4 DEF TypeOK
      <3>2. m \in Restamping(t) /\ m \notin Restamping(t)'
        BY <2>1, <2>4 DEF Restamping
      <3>3. QED
        BY <2>2, <3>1, <3>2
    <2>5. QED
      BY <2>3, <2>4
  <1>4. CASE MacroIsRefused(m, u)
    BY <1>4 DEF MacroIsRefused, Restamping
  <1>5. QED
    BY <1>1, <1>2, <1>3, <1>4 DEF MacroStep

(* No queued reply replaces a first response, in whatever order the queued *)
(* replies of the ticket complete: mail.service.ts:1222-1232. Only macros   *)
(* do that read the ticket before it had one (tickets.service.ts:2102), each *)
(* once.                                                                   *)
THEOREM FirstResponseStays == Spec => OnlyEarlierMacrosRestamp
  <1>1. TypeOK /\ [Next]_vars =>
          [\A t \in Ticket : firstResponse[t] # 0 =>
              /\ Restamping(t)' \subseteq Restamping(t)
              /\ \/ firstResponse'[t] = firstResponse[t]
                 \/ firstResponse'[t] \in Restamping(t) \ Restamping(t)']_vars
    <2> SUFFICES ASSUME TypeOK, [Next]_vars, NEW t \in Ticket, firstResponse[t] # 0
                 PROVE  /\ Restamping(t)' \subseteq Restamping(t)
                        /\ \/ firstResponse'[t] = firstResponse[t]
                           \/ firstResponse'[t] \in Restamping(t) \ Restamping(t)'
      OBVIOUS
    <2>1. CASE MacroActs
      BY <2>1, MacroRestamps
    <2>2. CASE ~MacroActs
      BY <2>2, StampStays DEF Restamping
    <2>3. QED
      BY <2>1, <2>2
  <1>2. QED
    BY <1>1, InitType, NextType, PTL DEF Spec, OnlyEarlierMacrosRestamp

(* A job of a row that is not selected is dropped when it is taken, and a  *)
(* restart, which alone changes the selection, ends the workers.           *)
WorkIsApproved == \A w \in Worker : work[w].pc # "idle" => work[w].email \in mode.approved

LEMMA WorkStaysApproved ==
    TypeOK /\ WorkIsApproved /\ [Next]_vars => WorkIsApproved'
  <1> SUFFICES ASSUME TypeOK, WorkIsApproved, [Next]_vars PROVE WorkIsApproved'
    OBVIOUS
  <1>k. ASSUME mode' = mode, \A v \in Worker : work'[v].pc # "idle" =>
                   \/ work[v].pc # "idle" /\ work'[v].email = work[v].email
                   \/ work'[v].email \in mode.approved
        PROVE  WorkIsApproved'
    BY <1>k DEF WorkIsApproved
  <1>f. ASSUME mode' = mode, NEW w \in Worker, Finish(w) \/ work' = [work EXCEPT ![w] = Idle]
        PROVE  WorkIsApproved'
    <2>1. work' = [work EXCEPT ![w] = Idle] /\ Idle.pc = "idle"
      BY <1>f DEF Finish, Idle
    <2>2. QED
      BY <2>1, <1>f, <1>k DEF TypeOK
  <1>o. ASSUME mode' = mode, NEW w \in Worker, work[w].pc # "idle", NEW s,
               work' = [work EXCEPT ![w] = s], s.email = work[w].email
        PROVE  WorkIsApproved'
    BY <1>o DEF WorkIsApproved, TypeOK
  <1>1. ASSUME NEW w \in Worker, NEW e \in Email, TakeJob(w, e) PROVE WorkIsApproved'
    <2>1. CASE e \in mode.approved
      <3> DEFINE s == [Idle EXCEPT !.pc = "stale", !.email = e]
      <3>1. work' = [work EXCEPT ![w] = s] /\ s.email = e /\ mode' = mode
        BY <1>1, <2>1 DEF TakeJob, Idle
      <3> HIDE DEF s
      <3>2. QED
        BY <3>1, <2>1, <1>k DEF TypeOK
    <2>2. CASE e \notin mode.approved
      BY <1>1, <2>2, <1>k DEF TakeJob
    <2>3. QED
      BY <2>1, <2>2
  <1>2. ASSUME NEW w \in Worker,
               \/ MarkStale(w) \/ Claim(w) \/ ReadBack(w) \/ RelayAccepts(w) \/ SmtpResolves(w)
               \/ \E error \in Errors \ {"none"} : SmtpThrows(w, error)
               \/ MarkSentThrows(w)
        PROVE  WorkIsApproved'
    <2>1. mode' = mode /\ work[w].pc # "idle"
      BY <1>2 DEF MarkStale, Claim, ReadBack, RelayAccepts, SmtpResolves, SmtpThrows, MarkSentThrows
    <2>2. CASE Finish(w)
      BY <2>1, <2>2, <1>f
    <2>3. ASSUME NEW s, work' = [work EXCEPT ![w] = s], s.email = work[w].email
          PROVE  WorkIsApproved'
      BY <2>1, <2>3, <1>o
    <2>t. work[w] \in WorkerState
      BY DEF TypeOK
    <2>4. CASE MarkStale(w)
      BY <2>4, <2>2, <2>3, <2>t DEF MarkStale, WorkerState
    <2>5. CASE Claim(w)
      BY <2>5, <2>2, <2>3, <2>t DEF Claim, WorkerState
    <2>6. CASE ReadBack(w)
      BY <2>6, <2>2, <2>3, <2>t DEF ReadBack, WorkerState
    <2>7. CASE RelayAccepts(w) \/ SmtpResolves(w) \/ MarkSentThrows(w)
      BY <2>7, <2>3, <2>t DEF RelayAccepts, SmtpResolves, MarkSentThrows, WorkerState
    <2>8. CASE \E error \in Errors \ {"none"} : SmtpThrows(w, error)
      BY <2>8, <2>3, <2>t DEF SmtpThrows, WorkerState
    <2>9. QED
      BY <1>2, <2>4, <2>5, <2>6, <2>7, <2>8
  <1>3. ASSUME NEW w \in Worker,
               \/ MarkSent(w) \/ MarkAmbiguousAfterSmtpAcceptance(w) \/ RecordDeliveryFailure(w)
               \/ DbFails(w) \/ Crash(w)
        PROVE  WorkIsApproved'
    <2>1. mode' = mode /\ (Finish(w) \/ work' = [work EXCEPT ![w] = Idle])
      BY <1>3 DEF MarkSent, MarkAmbiguousAfterSmtpAcceptance, RecordDeliveryFailure, DbFails, Crash
    <2>2. QED
      BY <2>1, <1>f
  <1>4. ASSUME UNCHANGED <<work, mode>> PROVE WorkIsApproved'
    BY <1>4 DEF WorkIsApproved
  <1>5. ASSUME NEW w \in Worker, Heartbeat(w) PROVE WorkIsApproved'
    BY <1>5, <1>4 DEF Heartbeat
  <1>6. ASSUME NEW e \in Email, EmailStep(e) PROVE WorkIsApproved'
    BY <1>6, <1>4 DEF EmailStep, Create, Wake, WakeFails, RetryOutboundEmail, JobStalls,
                      LeaseExpires, RetryBecomesDue
  <1>7. ASSUME ScanStep \/ ScanFails PROVE WorkIsApproved'
    BY <1>7, <1>4 DEF ScanStep, ScanMarksStale, ScanFinds, ScanWakes, ScanEnds, ScanFails
  <1>8. ASSUME Restart PROVE WorkIsApproved'
    BY <1>8 DEF Restart, WorkIsApproved, Idle
  <1>9. ASSUME MacroActs \/ UNCHANGED vars PROVE WorkIsApproved'
    BY <1>9, <1>4, MacroLeavesTheOutbox DEF OutboxVars
  <1>10. QED
    BY <1>1, <1>2, <1>3, <1>5, <1>6, <1>7, <1>8, <1>9
       DEF Next, MacroActs, WorkerStep, WorkerFault

(* What a step may do to a row that is there and not selected.             *)
Untouched(e) == /\ row'[e].state = row[e].state /\ row'[e].attempts = row[e].attempts
                /\ row'[e].owner = row[e].owner

LEMMA UnselectedRows ==
    ASSUME TypeOK, WorkIsApproved, [Next]_vars, NEW e \in Email \ mode.approved,
           row[e].state # "ABSENT"
    PROVE  Untouched(e)
  <1>t. row \in [Email -> Row] /\ row[e] \in Row
    BY DEF TypeOK
  <1>s. ASSUME row' = row PROVE Untouched(e)
    BY <1>s DEF Untouched
  <1>o. ASSUME NEW d \in Email, NEW r, row' = [row EXCEPT ![d] = r], d # e PROVE Untouched(e)
    BY <1>o, <1>t DEF Untouched
  <1>1. ASSUME NEW w \in Worker, WorkerStep(w) \/ WorkerFault(w) \/ Heartbeat(w)
        PROVE  Untouched(e)
    <2> DEFINE d == work[w].email
    <2>1. \/ row' = row
          \/ work[w].pc # "idle" /\ \E r : row' = [row EXCEPT ![d] = r]
      BY <1>1 DEF WorkerStep, WorkerFault, TakeJob, MarkStale, Claim, ReadBack, RelayAccepts,
                  SmtpResolves, SmtpThrows, MarkSent, MarkAmbiguousAfterSmtpAcceptance,
                  RecordDeliveryFailure, MarkSentThrows, DbFails, Crash, Heartbeat, CommitSent,
                  SmtpPhase
    <2>2. work[w].pc # "idle" => d \in Email /\ d \in mode.approved
      BY DEF TypeOK, WorkIsApproved
    <2>3. QED
      BY <2>1, <2>2, <1>s, <1>o
  <1>2. ASSUME NEW d \in Email, EmailStep(d) PROVE Untouched(e)
    <2>1. CASE Create(d)
      BY <2>1, <1>t DEF Create, Untouched
    <2>2. CASE RetryOutboundEmail(d)
      BY <2>2, <1>o DEF RetryOutboundEmail
    <2>3. CASE LeaseExpires(d)
      BY <2>3, <1>t DEF LeaseExpires, Untouched, Row
    <2>4. CASE RetryBecomesDue(d)
      BY <2>4, <1>t DEF RetryBecomesDue, Untouched, Row
    <2>5. CASE Wake(d) \/ WakeFails(d) \/ JobStalls(d)
      BY <2>5, <1>s DEF Wake, WakeFails, JobStalls
    <2>6. QED
      BY <1>2, <2>1, <2>2, <2>3, <2>4, <2>5 DEF EmailStep
  <1>3. ASSUME ScanMarksStale PROVE Untouched(e)
    BY <1>3 DEF ScanMarksStale, Untouched
  <1>4. ASSUME ScanStep \/ ScanFails \/ Restart PROVE Untouched(e)
    BY <1>4, <1>3, <1>s DEF ScanStep, ScanFinds, ScanWakes, ScanEnds, ScanFails, Restart
  <1>5. ASSUME MacroActs \/ UNCHANGED vars PROVE Untouched(e)
    BY <1>5, <1>s, MacroLeavesTheOutbox DEF OutboxVars
  <1>6. QED
    BY <1>1, <1>2, <1>4, <1>5 DEF Next, MacroActs

(* A closed or narrowed configuration leaves all other rows alone, although *)
(* their jobs and leases survive the restart that brought it.              *)
THEOREM ClosedDeliveryHolds == Spec => ClosedDeliveryTouchesNothing
  <1>1. Init => WorkIsApproved
    BY DEF Init, WorkIsApproved, Idle
  <1>2. TypeOK /\ WorkIsApproved /\ [Next]_vars => (TypeOK /\ WorkIsApproved)'
    BY NextType, WorkStaysApproved
  <1>3. TypeOK /\ WorkIsApproved /\ [Next]_vars =>
            [\A e \in Email \ mode.approved :
                row[e].state # "ABSENT" => /\ row'[e].state = row[e].state
                                           /\ row'[e].attempts = row[e].attempts
                                           /\ row'[e].owner = row[e].owner]_vars
    BY UnselectedRows DEF Untouched
  <1>4. QED
    BY <1>1, <1>2, <1>3, InitType, PTL DEF Spec, ClosedDeliveryTouchesNothing
--------------------------------------------------------------------------------
(* A step that reports no delivery: what is SENT stays SENT under its      *)
(* consent, nothing else becomes SENT, and no worker newly claims to have  *)
(* been accepted.                                                          *)
TruthfulRow(e) == /\ row'[e].state = "SENT" <=> row[e].state = "SENT"
                  /\ row[e].state = "SENT" => retries'[e] = retries[e]

TruthfulWork(w) == Accepted(w)' => /\ Accepted(w)
                                   /\ work'[w].email = work[w].email
                                   /\ work'[w].epoch = work[w].epoch

LEMMA TruthfulStep ==
    ASSUME TypeOK, TruthInv, UNCHANGED <<accepts, emailed>>,
           \A e \in Email : TruthfulRow(e), \A w \in Worker : TruthfulWork(w)
    PROVE  TruthInv'
  <1>1. AcceptedClaims'
    BY DEF TruthInv, AcceptedClaims, TruthfulWork
  <1>2. DeliveryTruth'
    BY DEF TruthInv, DeliveryTruth, TruthfulRow
  <1>3. QED
    BY <1>1, <1>2 DEF TruthInv

LEMMA EmailStepTruth ==
    ASSUME TypeOK, TruthInv, NEW e \in Email, EmailStep(e)
    PROVE  TruthInv'
  <1>w. work' = work => \A w \in Worker : TruthfulWork(w)
    BY DEF TruthfulWork, Accepted
  <1>r. row' = row /\ retries' = retries => \A d \in Email : TruthfulRow(d)
    BY DEF TruthfulRow
  <1>t. row \in [Email -> Row] /\ row[e] \in Row /\ retries \in [Email -> Epoch]
    BY DEF TypeOK
  <1>1. CASE Create(e)
    <2>1. \A d \in Email : TruthfulRow(d)
      BY <1>1, <1>t DEF Create, TruthfulRow, Row
    <2>2. QED
      BY <1>1, <1>w, <2>1, TruthfulStep DEF Create
  <1>2. CASE Wake(e)
    BY <1>2, <1>w, <1>r, TruthfulStep DEF Wake
  <1>3. CASE WakeFails(e)
    BY <1>3, <1>w, <1>r, TruthfulStep DEF WakeFails
  <1>4. CASE RetryOutboundEmail(e)
    <2>1. \A d \in Email : TruthfulRow(d)
      BY <1>4, <1>t DEF RetryOutboundEmail, TruthfulRow, Settle, Row
    <2>2. QED
      BY <1>4, <1>w, <2>1, TruthfulStep DEF RetryOutboundEmail
  <1>5. CASE JobStalls(e)
    BY <1>5, <1>w, <1>r, TruthfulStep DEF JobStalls
  <1>6. CASE LeaseExpires(e)
    <2>1. \A d \in Email : TruthfulRow(d)
      BY <1>6, <1>t DEF LeaseExpires, TruthfulRow, Row
    <2>2. QED
      BY <1>6, <1>w, <2>1, TruthfulStep DEF LeaseExpires
  <1>7. CASE RetryBecomesDue(e)
    <2>1. \A d \in Email : TruthfulRow(d)
      BY <1>7, <1>t DEF RetryBecomesDue, TruthfulRow, Row
    <2>2. QED
      BY <1>7, <1>w, <2>1, TruthfulStep DEF RetryBecomesDue
  <1>8. QED
    BY <1>1, <1>2, <1>3, <1>4, <1>5, <1>6, <1>7 DEF EmailStep

LEMMA ScanTruth ==
    ASSUME TypeOK, TruthInv, ScanStep \/ ScanFails \/ Restart
    PROVE  TruthInv'
  <1>w. work' = work => \A w \in Worker : TruthfulWork(w)
    BY DEF TruthfulWork, Accepted
  <1>r. row' = row /\ retries' = retries => \A d \in Email : TruthfulRow(d)
    BY DEF TruthfulRow
  <1>1. CASE ScanMarksStale
    <2>1. ASSUME NEW d \in Email PROVE TruthfulRow(d)
      <3>1. retries' = retries /\ row'[d] = IF d \in mode.approved /\ Stale(d)
                                           THEN Settle(row[d], "AMBIGUOUS", "none") ELSE row[d]
        BY <1>1 DEF ScanMarksStale
      <3>2. Settle(row[d], "AMBIGUOUS", "none").state = "AMBIGUOUS"
        BY DEF Settle, TypeOK, Row
      <3>3. QED
        BY <3>1, <3>2 DEF TruthfulRow, Stale
    <2>2. QED
      BY <1>1, <1>w, <2>1, TruthfulStep DEF ScanMarksStale
  <1>2. CASE ScanFinds
    BY <1>2, <1>w, <1>r, TruthfulStep DEF ScanFinds
  <1>3. CASE ScanEnds
    BY <1>3, <1>w, <1>r, TruthfulStep DEF ScanEnds
  <1>4. CASE \E e \in Email : ScanWakes(e)
    BY <1>4, <1>w, <1>r, TruthfulStep DEF ScanWakes
  <1>5. CASE ScanFails
    BY <1>5, <1>w, <1>r, TruthfulStep DEF ScanFails
  <1>6. CASE Restart
    <2>1. \A w \in Worker : TruthfulWork(w)
      BY <1>6 DEF Restart, TruthfulWork, Accepted, Idle
    <2>2. QED
      BY <1>6, <1>r, <2>1, TruthfulStep DEF Restart
  <1>7. QED
    BY <1>1, <1>2, <1>3, <1>4, <1>5, <1>6 DEF ScanStep

LEMMA FinishTruth ==
    ASSUME TypeOK, NEW w \in Worker, Finish(w) \/ work' = [work EXCEPT ![w] = Idle]
    PROVE  \A v \in Worker : TruthfulWork(v)
  BY DEF TypeOK, Finish, Idle, TruthfulWork, Accepted

LEMMA OneWorkerTruth ==
    ASSUME TypeOK, NEW w \in Worker, NEW s, work' = [work EXCEPT ![w] = s],
           s.pc \notin {"inflight", "sent", "ambiguous"}
    PROVE  \A v \in Worker : TruthfulWork(v)
  BY DEF TypeOK, TruthfulWork, Accepted

LEMMA SettledRowTruth ==
    ASSUME TypeOK, NEW e \in Email, NEW s \in {"AMBIGUOUS", "FAILED", "RETRY", "QUEUED"},
           NEW at, row' = [row EXCEPT ![e] = Settle(row[e], s, at)],
           row[e].state # "SENT", retries' = retries
    PROVE  \A d \in Email : TruthfulRow(d)
  <1>1. Settle(row[e], s, at).state = s /\ row \in [Email -> Row]
    BY DEF Settle, Row, TypeOK
  <1>2. QED
    BY <1>1 DEF TruthfulRow

(* The fence makes the commit speak for the current consent.               *)
LEMMA CommitSentTruth ==
    ASSUME TypeOK, DeliveryInv, TruthInv, NEW w \in Worker, work[w].pc = "sent",
           CommitSent(w), UNCHANGED <<retries, accepts>>,
           \A v \in Worker : TruthfulWork(v)
    PROVE  TruthInv'
  <1> DEFINE e == work[w].email
  <1>1. Claimed(w) /\ e \in Email /\ row[e] \in Row
    BY ClaimedType DEF Claimed, SmtpPhase
  <1>2. CASE ~Fenced(w)
    <2>1. \A d \in Email : TruthfulRow(d)
      BY <1>2 DEF CommitSent, TruthfulRow
    <2>2. QED
      BY <1>2, <2>1, TruthfulStep DEF CommitSent
  <1>3. CASE Fenced(w)
    <2>1. accepts[e][retries[e]] > 0
      BY <1>1, <1>3 DEF Fenced, DeliveryInv, EpochOfClaim, TruthInv, AcceptedClaims, Accepted
    <2>2. row'[e].state = "SENT" /\ \A d \in Email : d # e => row'[d] = row[d]
      <3>1. row' = [row EXCEPT ![e] = Settle(row[e], "SENT", "none")]
        BY <1>3 DEF CommitSent
      <3>2. Settle(row[e], "SENT", "none").state = "SENT" /\ row \in [Email -> Row]
        BY <1>1 DEF Settle, Row, TypeOK
      <3>3. QED
        BY <3>1, <3>2, <1>1
    <2>3. \A d \in Email : emailed'[d] <=> IF d = e THEN emailed[d] \/ d \in StaffReply
                                                  ELSE emailed[d]
      BY <1>1, <1>3 DEF CommitSent, TypeOK
    <2>4. emailed[e] => e \in StaffReply
      BY <1>1 DEF TruthInv, DeliveryTruth
    <2>5. DeliveryTruth'
      BY <2>1, <2>2, <2>3, <2>4 DEF TruthInv, DeliveryTruth
    <2>6. AcceptedClaims'
      BY DEF TruthInv, AcceptedClaims, TruthfulWork
    <2>7. QED
      BY <2>5, <2>6 DEF TruthInv
  <1>4. QED
    BY <1>2, <1>3

LEMMA RelayTruth ==
    ASSUME TypeOK, TruthInv, NEW w \in Worker, RelayAccepts(w)
    PROVE  TruthInv'
  <1> DEFINE e == work[w].email
             k == work[w].epoch
  <1>1. e \in Email /\ k \in Epoch
    BY ClaimedType DEF RelayAccepts, Claimed, SmtpPhase
  <1>2. /\ accepts'[e][k] = accepts[e][k] + 1
        /\ \A d \in Email, j \in Epoch : accepts[d][j] \in Nat
        /\ \A d \in Email, j \in Epoch : <<d, j>> # <<e, k>> => accepts'[d][j] = accepts[d][j]
    BY <1>1 DEF RelayAccepts, TypeOK
  <1>3. \A d \in Email, j \in Epoch : accepts[d][j] > 0 => accepts'[d][j] > 0
    <2>1. accepts'[e][k] > 0
      BY <1>1, <1>2
    <2>2. QED
      BY <1>2, <2>1
  <1>4. /\ \A v \in Worker : v # w => work'[v] = work[v]
        /\ work'[w].email = e /\ work'[w].epoch = k
        /\ row' = row /\ retries' = retries /\ emailed' = emailed
    BY DEF RelayAccepts, TypeOK, WorkerState
  <1>5. AcceptedClaims'
    <2> SUFFICES ASSUME NEW v \in Worker, Accepted(v)'
                 PROVE  accepts'[work'[v].email][work'[v].epoch] > 0
      BY DEF AcceptedClaims
    <2>1. CASE v = w
      BY <2>1, <1>1, <1>2, <1>4
    <2>2. CASE v # w
      <3>1. Accepted(v) /\ work'[v] = work[v]
        BY <2>2, <1>4 DEF Accepted
      <3>2. work[v].email \in Email /\ work[v].epoch \in Epoch
        BY <3>1, ClaimedType DEF Accepted, Claimed, SmtpPhase
      <3>3. QED
        BY <3>1, <3>2, <1>3 DEF TruthInv, AcceptedClaims
    <2>3. QED
      BY <2>1, <2>2
  <1>6. DeliveryTruth'
    BY <1>3, <1>4 DEF TruthInv, DeliveryTruth, TypeOK
  <1>7. QED
    BY <1>5, <1>6 DEF TruthInv

LEMMA WorkerTruth ==
    ASSUME TypeOK, DeliveryInv, TruthInv, NEW w \in Worker,
           WorkerStep(w) \/ WorkerFault(w) \/ Heartbeat(w)
    PROVE  TruthInv'
  <1> DEFINE e == work[w].email
  <1>r. row' = row /\ retries' = retries => \A d \in Email : TruthfulRow(d)
    BY DEF TruthfulRow
  <1>e. work[w].pc # "idle" => e \in Email /\ row[e] \in Row
    BY DEF TypeOK
  <1>1. CASE \E d \in Email : TakeJob(w, d)
    <2>1. \A v \in Worker : TruthfulWork(v)
      <3>1. PICK d \in Email : TakeJob(w, d)
        BY <1>1
      <3>2. QED
        <4>1. CASE work' = work
          BY <4>1 DEF TruthfulWork, Accepted
        <4>2. CASE work' = [work EXCEPT ![w] = [Idle EXCEPT !.pc = "stale", !.email = d]]
          <5>1. [Idle EXCEPT !.pc = "stale", !.email = d].pc = "stale"
            BY DEF Idle
          <5>2. QED
            BY <4>2, <5>1, OneWorkerTruth
        <4>3. QED
          BY <3>1, <4>1, <4>2 DEF TakeJob
    <2>2. QED
      BY <1>1, <1>r, <2>1, TruthfulStep DEF TakeJob
  <1>2. CASE MarkStale(w)
    <2>1. \A d \in Email : TruthfulRow(d)
      <3>1. CASE Stale(e)
        <4>1. /\ row' = [row EXCEPT ![e] = Settle(row[e], "AMBIGUOUS", "none")]
              /\ work[w].pc # "idle" /\ retries' = retries
          BY <1>2, <3>1 DEF MarkStale
        <4>2. QED
          BY <1>e, <3>1, <4>1, SettledRowTruth DEF Stale
      <3>2. CASE ~Stale(e)
        BY <1>2, <3>2 DEF MarkStale, TruthfulRow
      <3>3. QED
        BY <3>1, <3>2
    <2>2. \A v \in Worker : TruthfulWork(v)
      BY <1>2, FinishTruth DEF MarkStale, TruthfulWork, Accepted, TypeOK, WorkerState
    <2>3. QED
      BY <1>2, <2>1, <2>2, TruthfulStep DEF MarkStale
  <1>3. CASE Claim(w)
    <2>1. \A d \in Email : TruthfulRow(d)
      <3>1. CASE Claimable(e)
        <4>1. row' = [row EXCEPT ![e] = Leased(row[e], nextOwner)] /\ retries' = retries
          BY <1>3, <3>1 DEF Claim
        <4>2. row'[e].state = "PROCESSING" /\ row[e].state # "SENT"
          BY <1>3, <1>e, <3>1, <4>1 DEF Claim, Leased, Claimable, TypeOK
        <4>3. \A d \in Email : d # e => row'[d] = row[d]
          BY <4>1 DEF TypeOK
        <4>4. QED
          BY <4>1, <4>2, <4>3 DEF TruthfulRow
      <3>2. CASE ~Claimable(e)
        BY <1>3, <3>2 DEF Claim, TruthfulRow
      <3>3. QED
        BY <3>1, <3>2
    <2>2. \A v \in Worker : TruthfulWork(v)
      <3>1. CASE Claimable(e)
        <4> DEFINE s == [work[w] EXCEPT !.pc = "read", !.owner = nextOwner,
                                        !.epoch = retries[e]]
        <4>1. work' = [work EXCEPT ![w] = s]
          BY <1>3, <3>1 DEF Claim
        <4>2. s.pc = "read"
          BY DEF TypeOK, WorkerState
        <4>3. QED
          BY <4>1, <4>2, OneWorkerTruth
      <3>2. CASE ~Claimable(e)
        BY <1>3, <3>2, FinishTruth DEF Claim
      <3>3. QED
        BY <3>1, <3>2
    <2>3. QED
      BY <1>3, <2>1, <2>2, TruthfulStep DEF Claim
  <1>4. CASE ReadBack(w)
    <2>1. \A v \in Worker : TruthfulWork(v)
      <3>1. CASE row[e].state = "PROCESSING" /\ row[e].owner = work[w].owner
        <4> DEFINE s == [work[w] EXCEPT !.pc = "smtp", !.version = row[e].version,
                                        !.attempts = row[e].attempts]
        <4>1. work' = [work EXCEPT ![w] = s]
          BY <1>4, <3>1 DEF ReadBack
        <4>2. s.pc = "smtp"
          BY DEF TypeOK, WorkerState
        <4>3. QED
          BY <4>1, <4>2, OneWorkerTruth
      <3>2. CASE ~(row[e].state = "PROCESSING" /\ row[e].owner = work[w].owner)
        BY <1>4, <3>2, FinishTruth DEF ReadBack
      <3>3. QED
        BY <3>1, <3>2
    <2>2. QED
      BY <1>4, <1>r, <2>1, TruthfulStep DEF ReadBack
  <1>5. CASE RelayAccepts(w)
    BY <1>5, RelayTruth
  <1>6. CASE SmtpResolves(w)
    <2>1. \A v \in Worker : TruthfulWork(v)
      BY <1>6 DEF SmtpResolves, TruthfulWork, Accepted, TypeOK, WorkerState
    <2>2. QED
      BY <1>6, <1>r, <2>1, TruthfulStep DEF SmtpResolves
  <1>7. CASE \E error \in Errors \ {"none"} : SmtpThrows(w, error)
    <2>1. \A v \in Worker : TruthfulWork(v)
      BY <1>7 DEF SmtpThrows, TruthfulWork, Accepted, TypeOK, WorkerState
    <2>2. QED
      BY <1>7, <1>r, <2>1, TruthfulStep DEF SmtpThrows
  <1>8. CASE MarkSent(w)
    BY <1>8, FinishTruth, CommitSentTruth DEF MarkSent
  <1>9. CASE MarkSentThrows(w)
    <2>1. \A v \in Worker : TruthfulWork(v)
      BY <1>9 DEF MarkSentThrows, TruthfulWork, Accepted, TypeOK, WorkerState
    <2>2. QED
      BY <1>9, <1>r, <2>1, TruthfulStep, CommitSentTruth DEF MarkSentThrows
  <1>10. CASE MarkAmbiguousAfterSmtpAcceptance(w)
    <2>1. \A d \in Email : TruthfulRow(d)
      BY <1>10, <1>e DEF MarkAmbiguousAfterSmtpAcceptance, TruthfulRow, Fenced, Settle, TypeOK, Row
    <2>2. QED
      BY <1>10, <2>1, FinishTruth, TruthfulStep DEF MarkAmbiguousAfterSmtpAcceptance
  <1>11. CASE RecordDeliveryFailure(w)
    <2>1. \A d \in Email : TruthfulRow(d)
      BY <1>11, <1>e DEF RecordDeliveryFailure, TruthfulRow, Fenced, AfterFailure, Settle, TypeOK, Row
    <2>2. QED
      BY <1>11, <2>1, FinishTruth, TruthfulStep DEF RecordDeliveryFailure
  <1>12. CASE DbFails(w)
    BY <1>12, <1>r, FinishTruth, TruthfulStep DEF DbFails
  <1>13. CASE Crash(w)
    BY <1>13, <1>r, FinishTruth, TruthfulStep DEF Crash
  <1>14. CASE Heartbeat(w)
    <2>1. \A d \in Email : TruthfulRow(d)
      BY <1>14, <1>e DEF Heartbeat, TruthfulRow, SmtpPhase, TypeOK, Row
    <2>2. \A v \in Worker : TruthfulWork(v)
      BY <1>14 DEF Heartbeat, TruthfulWork, Accepted
    <2>3. QED
      BY <1>14, <2>1, <2>2, TruthfulStep DEF Heartbeat
  <1>15. QED
    BY <1>1, <1>2, <1>3, <1>4, <1>5, <1>6, <1>7, <1>8, <1>9, <1>10, <1>11, <1>12, <1>13,
       <1>14 DEF WorkerStep, WorkerFault

LEMMA InitTruth == Init => TruthInv
  BY DEF Init, TruthInv, AcceptedClaims, Accepted, DeliveryTruth, Idle, Absent

LEMMA NextTruth == TypeOK /\ DeliveryInv /\ TruthInv /\ [Next]_vars => TruthInv'
  <1> SUFFICES ASSUME TypeOK, DeliveryInv, TruthInv, [Next]_vars PROVE TruthInv'
    OBVIOUS
  <1>1. CASE MacroActs \/ UNCHANGED vars
    <2>0. UNCHANGED OutboxVars
      BY <1>1, MacroLeavesTheOutbox
    <2>1. /\ \A d \in Email : TruthfulRow(d)
          /\ \A v \in Worker : TruthfulWork(v)
          /\ UNCHANGED <<accepts, emailed>>
      BY <2>0 DEF OutboxVars, TruthfulRow, TruthfulWork, Accepted
    <2>2. QED
      BY <2>1, TruthfulStep
  <1>2. CASE Next /\ ~MacroActs
    BY <1>2, WorkerTruth, EmailStepTruth, ScanTruth DEF Next, MacroActs
  <1>3. QED
    BY <1>1, <1>2

(* markSent, its rollback and the late workers: SENT and the post speak of *)
(* a delivery under the current consent.                                   *)
THEOREM SentIsTrue == Spec => []DeliveryTruth
  <1>1. TypeOK /\ DeliveryInv /\ TruthInv /\ [Next]_vars => (TypeOK /\ DeliveryInv /\ TruthInv)'
    BY NextType, NextDelivery, NextTruth
  <1>2. TruthInv => DeliveryTruth
    BY DEF TruthInv
  <1>3. QED
    BY <1>1, <1>2, InitType, InitDelivery, InitTruth, PTL DEF Spec
--------------------------------------------------------------------------------
(* The refinement: every step of the outbox is a step of OutboundDelivery  *)
(* on the mapped state, or leaves the mapped state alone.                  *)
StatusMap == [e \in Email |-> Status(row[e].state)]

Promise == <<StatusMap, retries, accepts, emailed>>

LEMMA StatusOf ==
    /\ Status("ABSENT") = "absent" /\ Status("QUEUED") = "waiting"
    /\ Status("RETRY") = "waiting" /\ Status("PROCESSING") = "trying"
    /\ Status("SENT") = "sent" /\ Status("FAILED") = "failed"
    /\ Status("AMBIGUOUS") = "unknown"
  BY DEF Status

LEMMA Unpromised ==
    ASSUME UNCHANGED <<retries, accepts, emailed>>,
           \A e \in Email : row'[e].state = row[e].state
    PROVE  UNCHANGED Promise
  BY DEF Promise, StatusMap

LEMMA OneStatus ==
    ASSUME NEW e \in Email, row \in [Email -> Row], NEW r, row' = [row EXCEPT ![e] = r]
    PROVE  StatusMap' = [StatusMap EXCEPT ![e] = Status(r.state)]
  BY DEF StatusMap

LEMMA SettledStatus ==
    ASSUME TypeOK, NEW e \in Email, NEW s, NEW at,
           row' = [row EXCEPT ![e] = Settle(row[e], s, at)]
    PROVE  StatusMap' = [StatusMap EXCEPT ![e] = Status(s)]
  <1>1. row \in [Email -> Row] /\ Settle(row[e], s, at).state = s
    BY DEF TypeOK, Row, Settle
  <1>2. QED
    BY <1>1, OneStatus

(* Losing track of one e-mail, or of those a scan finds stale.             *)
LEMMA OneUnknown ==
    ASSUME TypeOK, NEW e \in Email, row[e].state = "PROCESSING",
           row' = [row EXCEPT ![e] = Settle(row[e], "AMBIGUOUS", "none")],
           UNCHANGED <<retries, accepts, emailed>>
    PROVE  Delivery!LoseTrack({e})
  <1>1. StatusMap' = [StatusMap EXCEPT ![e] = "unknown"]
    <2>1. StatusMap' = [StatusMap EXCEPT ![e] = Status("AMBIGUOUS")]
      BY SettledStatus
    <2>2. QED
      BY <2>1, StatusOf
  <1>2. StatusMap[e] = "trying"
    BY StatusOf DEF StatusMap
  <1>3. StatusMap' = [d \in Email |-> IF d \in {e} THEN "unknown" ELSE StatusMap[d]]
    BY <1>1 DEF StatusMap
  <1>4. QED
    BY <1>2, <1>3 DEF Delivery!LoseTrack, StatusMap

LEMMA EmailStepRefines ==
    ASSUME TypeOK, NEW e \in Email, EmailStep(e)
    PROVE  Delivery!Next \/ UNCHANGED Promise
  <1>t. row \in [Email -> Row] /\ row[e] \in Row
    BY DEF TypeOK
  <1>1. CASE Create(e)
    <2>1. StatusMap' = [StatusMap EXCEPT ![e] = "waiting"] /\ StatusMap[e] = "absent"
      BY <1>1, <1>t, StatusOf DEF Create, StatusMap, Row
    <2>2. Delivery!Commit(e)
      BY <1>1, <2>1 DEF Create, Delivery!Commit, StatusMap
    <2>3. QED
      BY <2>2 DEF Delivery!Next
  <1>2. CASE Wake(e) \/ WakeFails(e) \/ JobStalls(e)
    BY <1>2, Unpromised DEF Wake, WakeFails, JobStalls
  <1>3. CASE RetryOutboundEmail(e)
    <2>1. StatusMap' = [StatusMap EXCEPT ![e] = "waiting"]
      <3>1. row' = [row EXCEPT ![e] = Settle(row[e], "QUEUED", "none")]
        BY <1>3 DEF RetryOutboundEmail
      <3>2. StatusMap' = [StatusMap EXCEPT ![e] = Status("QUEUED")]
        BY <3>1, SettledStatus
      <3>3. QED
        BY <3>2, StatusOf
    <2>2. StatusMap[e] \in {"failed", "unknown", "waiting"}
      BY <1>3, StatusOf DEF RetryOutboundEmail, StatusMap
    <2>3. Delivery!Consent(e)
      BY <1>3, <2>1, <2>2 DEF RetryOutboundEmail, Delivery!Consent, StatusMap
    <2>4. QED
      BY <2>3 DEF Delivery!Next
  <1>4. CASE LeaseExpires(e)
    <2>1. \A d \in Email : row'[d].state = row[d].state
      BY <1>4, <1>t DEF LeaseExpires, Row
    <2>2. QED
      BY <1>4, <2>1, Unpromised DEF LeaseExpires
  <1>5. CASE RetryBecomesDue(e)
    <2>1. \A d \in Email : row'[d].state = row[d].state
      BY <1>5, <1>t DEF RetryBecomesDue, Row
    <2>2. QED
      BY <1>5, <2>1, Unpromised DEF RetryBecomesDue
  <1>6. QED
    BY <1>1, <1>2, <1>3, <1>4, <1>5 DEF EmailStep

LEMMA ScanRefines ==
    ASSUME TypeOK, ScanStep \/ ScanFails \/ Restart
    PROVE  Delivery!Next \/ UNCHANGED Promise
  <1>1. CASE ScanMarksStale
    <2> DEFINE S == {e \in Email : e \in mode.approved /\ Stale(e)}
    <2>a. \A e \in Email : row'[e] = IF e \in S THEN Settle(row[e], "AMBIGUOUS", "none") ELSE row[e]
      BY <1>1 DEF ScanMarksStale
    <2>b. \A e \in Email : Settle(row[e], "AMBIGUOUS", "none").state = "AMBIGUOUS"
      BY DEF Settle, TypeOK, Row
    <2>1. \A e \in Email : row'[e].state = IF e \in S THEN "AMBIGUOUS" ELSE row[e].state
      BY <2>a, <2>b
    <2>2. \A e \in S : StatusMap[e] = "trying"
      BY StatusOf DEF Stale, StatusMap
    <2>3. StatusMap' = [e \in Email |-> IF e \in S THEN "unknown" ELSE StatusMap[e]]
      BY <2>1, StatusOf DEF StatusMap
    <2>4. CASE S = {}
      BY <1>1, <2>1, <2>4, Unpromised DEF ScanMarksStale
    <2>5. CASE S # {}
      <3>1. Delivery!LoseTrack(S)
        BY <1>1, <2>2, <2>3, <2>5 DEF ScanMarksStale, Delivery!LoseTrack, StatusMap
      <3>2. QED
        BY <3>1 DEF Delivery!Next
    <2>6. QED
      BY <2>4, <2>5
  <1>2. CASE ScanFinds \/ ScanEnds \/ ScanFails \/ Restart
    BY <1>2, Unpromised DEF ScanFinds, ScanEnds, ScanFails, Restart
  <1>3. CASE \E e \in Email : ScanWakes(e)
    BY <1>3, Unpromised DEF ScanWakes
  <1>4. QED
    BY <1>1, <1>2, <1>3 DEF ScanStep

(* A worker that stands before the relay with a claim of its own: what it  *)
(* delivers uses up the consent of that claim.                             *)
LEMMA RelayRefines ==
    ASSUME TypeOK, DeliveryInv, TruthInv, NEW w \in Worker, RelayAccepts(w)
    PROVE  Delivery!Next
  <1> DEFINE e == work[w].email
             k == work[w].epoch
  <1>1. Claimed(w) /\ Engaged(w) /\ Unsent(w) /\ e \in Email /\ k \in 0 .. MaxRetries
    BY ClaimedType DEF RelayAccepts, Claimed, Engaged, Unsent, SmtpPhase, Epoch
  <1>2. accepts[e][k] = 0 /\ k <= retries[e]
    BY <1>1 DEF DeliveryInv, UnsentClaims, EpochOfClaim
  <1>3. k = retries[e] => StatusMap[e] \in {"trying", "unknown"}
    <2> SUFFICES ASSUME k = retries[e] PROVE StatusMap[e] \in {"trying", "unknown"}
      OBVIOUS
    <2>1. row[e].state \notin {"ABSENT", "QUEUED", "RETRY", "FAILED"}
      BY <1>1 DEF DeliveryInv, EngagedHoldsRow, Resendable
    <2>2. row[e].state # "SENT"
      BY <1>1, <1>2 DEF TruthInv, DeliveryTruth
    <2>3. row[e].state \in {"PROCESSING", "AMBIGUOUS"}
      BY <1>1, <2>1, <2>2 DEF TypeOK, Row, States
    <2>4. QED
      BY <1>1, <2>3, StatusOf DEF StatusMap
  <1>4. /\ accepts' = [accepts EXCEPT ![e][k] = 1] /\ UNCHANGED <<retries, emailed>>
        /\ StatusMap' = StatusMap
    BY <1>2 DEF RelayAccepts, StatusMap
  <1>5. Delivery!Deliver(e, k)
    BY <1>2, <1>3, <1>4 DEF Delivery!Deliver, StatusMap
  <1>6. QED
    BY <1>1, <1>5 DEF Delivery!Next

LEMMA ConfirmRefines ==
    ASSUME TypeOK, DeliveryInv, TruthInv, NEW w \in Worker, work[w].pc = "sent",
           CommitSent(w), UNCHANGED <<retries, accepts>>
    PROVE  Delivery!Next \/ UNCHANGED Promise
  <1> DEFINE e == work[w].email
  <1>1. Claimed(w) /\ e \in Email
    BY ClaimedType DEF Claimed, SmtpPhase
  <1>2. CASE ~Fenced(w)
    BY <1>2, Unpromised DEF CommitSent
  <1>3. CASE Fenced(w)
    <2>1. accepts[e][retries[e]] > 0 /\ StatusMap[e] = "trying"
      BY <1>1, <1>3, StatusOf DEF Fenced, DeliveryInv, EpochOfClaim, TruthInv, AcceptedClaims,
         Accepted, StatusMap
    <2>2. StatusMap' = [StatusMap EXCEPT ![e] = "sent"]
      <3>1. row' = [row EXCEPT ![e] = Settle(row[e], "SENT", "none")]
        BY <1>3 DEF CommitSent
      <3>2. StatusMap' = [StatusMap EXCEPT ![e] = Status("SENT")]
        BY <1>1, <3>1, SettledStatus
      <3>3. QED
        BY <3>2, StatusOf
    <2>3. emailed' = [emailed EXCEPT ![e] = e \in StaffReply]
      <3>1. emailed' = [emailed EXCEPT ![e] = emailed[e] \/ e \in StaffReply]
        BY <1>3 DEF CommitSent
      <3>2. emailed[e] \in BOOLEAN /\ (emailed[e] => e \in StaffReply)
        BY <1>1 DEF TruthInv, DeliveryTruth, TypeOK
      <3>3. (emailed[e] \/ e \in StaffReply) = (e \in StaffReply)
        BY <3>2
      <3>4. QED
        BY <3>1, <3>3
    <2>4. Delivery!Confirm(e)
      BY <2>1, <2>2, <2>3 DEF Delivery!Confirm, Delivery!Delivered, StatusMap
    <2>5. QED
      BY <1>1, <2>4 DEF Delivery!Next
  <1>4. QED
    BY <1>2, <1>3

(* A failure the fence lets through is of the current claim, and a status  *)
(* code or a local error says that nothing was delivered.                  *)
LEMMA FailureRefines ==
    ASSUME TypeOK, DeliveryInv, NEW w \in Worker, RecordDeliveryFailure(w)
    PROVE  Delivery!Next \/ UNCHANGED Promise
  <1> DEFINE e == work[w].email
  <1>1. Claimed(w) /\ Engaged(w) /\ e \in Email
    BY ClaimedType DEF RecordDeliveryFailure, Claimed, Engaged, SmtpPhase
  <1>2. CASE ~Fenced(w)
    BY <1>2, Unpromised DEF RecordDeliveryFailure
  <1>3. CASE Fenced(w) /\ work[w].error = "network"
    <2>1. row' = [row EXCEPT ![e] = Settle(row[e], "AMBIGUOUS", "none")]
      BY <1>3 DEF RecordDeliveryFailure, AfterFailure
    <2>2. Delivery!LoseTrack({e})
      BY <1>1, <1>3, <2>1, OneUnknown DEF RecordDeliveryFailure, Fenced
    <2>3. QED
      BY <1>1, <2>2 DEF Delivery!Next
  <1>4. CASE Fenced(w) /\ work[w].error # "network"
    <2>1. accepts[e][retries[e]] = 0 /\ StatusMap[e] = "trying"
      BY <1>1, <1>4, StatusOf DEF RecordDeliveryFailure, Fenced, Unsent, DeliveryInv,
         EpochOfClaim, UnsentClaims, StatusMap
    <2>2. PICK s \in {"FAILED", "RETRY"}, at \in {"none", "future"} :
             row' = [row EXCEPT ![e] = Settle(row[e], s, at)]
      BY <1>4 DEF RecordDeliveryFailure, AfterFailure
    <2>3. StatusMap' = [StatusMap EXCEPT ![e] = Status(s)]
      BY <1>1, <2>2, SettledStatus
    <2>4. Status(s) \in {"waiting", "failed"}
      BY StatusOf
    <2>5. Delivery!GiveUp(e, Status(s))
      BY <2>1, <2>3 DEF RecordDeliveryFailure, Delivery!GiveUp, Delivery!Delivered, StatusMap
    <2>6. QED
      BY <1>1, <2>4, <2>5 DEF Delivery!Next
  <1>5. QED
    BY <1>2, <1>3, <1>4

LEMMA WorkerRefines ==
    ASSUME TypeOK, DeliveryInv, TruthInv, NEW w \in Worker,
           WorkerStep(w) \/ WorkerFault(w) \/ Heartbeat(w)
    PROVE  Delivery!Next \/ UNCHANGED Promise
  <1> DEFINE e == work[w].email
  <1>e. work[w].pc # "idle" => e \in Email /\ row[e] \in Row
    BY DEF TypeOK
  <1>1. CASE \E d \in Email : TakeJob(w, d)
    BY <1>1, Unpromised DEF TakeJob
  <1>2. CASE MarkStale(w)
    <2>1. CASE Stale(e)
      <3>1. Delivery!LoseTrack({e})
        BY <1>2, <1>e, <2>1, OneUnknown DEF MarkStale, Stale
      <3>2. QED
        BY <1>2, <1>e, <3>1 DEF MarkStale, Delivery!Next
    <2>2. CASE ~Stale(e)
      BY <1>2, <2>2, Unpromised DEF MarkStale
    <2>3. QED
      BY <2>1, <2>2
  <1>3. CASE Claim(w)
    <2>1. CASE Claimable(e)
      <3>1. row' = [row EXCEPT ![e] = Leased(row[e], nextOwner)] /\ e \in Email
        BY <1>3, <1>e, <2>1 DEF Claim
      <3>2. StatusMap' = [StatusMap EXCEPT ![e] = "trying"]
        <4>1. Leased(row[e], nextOwner).state = "PROCESSING" /\ row \in [Email -> Row]
          BY DEF Leased, TypeOK
        <4>2. StatusMap' = [StatusMap EXCEPT ![e] = Status(Leased(row[e], nextOwner).state)]
          BY <3>1, <4>1, OneStatus
        <4>3. QED
          BY <4>1, <4>2, StatusOf
      <3>3. StatusMap[e] = "waiting"
        BY <3>1, <2>1, StatusOf DEF Claimable, StatusMap
      <3>4. Delivery!Try(e)
        BY <1>3, <3>2, <3>3 DEF Claim, Delivery!Try, StatusMap
      <3>5. QED
        BY <3>1, <3>4 DEF Delivery!Next
    <2>2. CASE ~Claimable(e)
      BY <1>3, <2>2, Unpromised DEF Claim
    <2>3. QED
      BY <2>1, <2>2
  <1>4. CASE ReadBack(w) \/ SmtpResolves(w) \/ DbFails(w) \/ Crash(w)
    BY <1>4, Unpromised DEF ReadBack, SmtpResolves, DbFails, Crash
  <1>5. CASE RelayAccepts(w)
    BY <1>5, RelayRefines
  <1>6. CASE \E error \in Errors \ {"none"} : SmtpThrows(w, error)
    BY <1>6, Unpromised DEF SmtpThrows
  <1>7. CASE MarkSent(w)
    BY <1>7, ConfirmRefines DEF MarkSent
  <1>8. CASE MarkSentThrows(w)
    BY <1>8, ConfirmRefines, Unpromised DEF MarkSentThrows
  <1>9. CASE MarkAmbiguousAfterSmtpAcceptance(w)
    <2>1. CASE Fenced(w)
      <3>1. Delivery!LoseTrack({e})
        BY <1>9, <1>e, <2>1, OneUnknown DEF MarkAmbiguousAfterSmtpAcceptance, Fenced
      <3>2. QED
        BY <1>9, <1>e, <3>1 DEF MarkAmbiguousAfterSmtpAcceptance, Delivery!Next
    <2>2. CASE ~Fenced(w)
      BY <1>9, <2>2, Unpromised DEF MarkAmbiguousAfterSmtpAcceptance
    <2>3. QED
      BY <2>1, <2>2
  <1>10. CASE RecordDeliveryFailure(w)
    BY <1>10, FailureRefines
  <1>11. CASE Heartbeat(w)
    <2>1. \A d \in Email : row'[d].state = row[d].state
      BY <1>11, <1>e DEF Heartbeat, SmtpPhase, TypeOK, Row
    <2>2. QED
      BY <1>11, <2>1, Unpromised DEF Heartbeat
  <1>12. QED
    BY <1>1, <1>2, <1>3, <1>4, <1>5, <1>6, <1>7, <1>8, <1>9, <1>10, <1>11
       DEF WorkerStep, WorkerFault

LEMMA InitRefines == Init => Delivery!Init
  BY StatusOf DEF Init, Absent, Delivery!Init, Epoch

LEMMA NextRefines ==
    TypeOK /\ DeliveryInv /\ TruthInv /\ [Next]_vars => [Delivery!Next]_(Delivery!vars)
  <1> SUFFICES ASSUME TypeOK, DeliveryInv, TruthInv, [Next]_vars
               PROVE  Delivery!Next \/ UNCHANGED Promise
    BY DEF Delivery!vars, Promise, StatusMap
  <1>1. CASE MacroActs \/ UNCHANGED vars
    BY <1>1, Unpromised, MacroLeavesTheOutbox DEF OutboxVars
  <1>2. CASE Next /\ ~MacroActs
    BY <1>2, WorkerRefines, EmailStepRefines, ScanRefines DEF Next, MacroActs
  <1>3. QED
    BY <1>1, <1>2

(* MailService's outbox keeps the promise of OutboundDelivery.             *)
THEOREM OutboxImplementsDelivery == Spec => DeliveryIsImplemented
  <1>1. TypeOK /\ DeliveryInv /\ TruthInv /\ [Next]_vars => (TypeOK /\ DeliveryInv /\ TruthInv)'
    BY NextType, NextDelivery, NextTruth
  <1>2. QED
    BY <1>1, InitType, InitDelivery, InitTruth, InitRefines, NextRefines, PTL
       DEF Spec, DeliveryIsImplemented, Delivery!Spec
================================================================================
