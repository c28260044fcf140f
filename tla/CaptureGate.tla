------------------------------ MODULE CaptureGate ------------------------------
(***************************************************************************)
(* The capture test of a mailbox (inbound.service.ts, email-queue.service  *)
(* .ts).  A process in capture-only mode retires a fresh queue for good,   *)
(* takes one message of it as evidence and disables it; the message enters *)
(* normal processing only when an operator promotes it in a process whose  *)
(* canary selects exactly that delivery.  Processes in other modes run     *)
(* beside it: they accept, drain, and serve the operators, each with what  *)
(* it has read of a queue that may be retired, edited or deleted since.    *)
(*                                                                         *)
(* Cursors, epochs and reconciles are in ImapAcceptance, the steps of a    *)
(* claim in InboundLedger, those of a stage in RawMimeStaging.             *)
(***************************************************************************)
EXTENDS Naturals, FiniteSets

CONSTANTS
    Queue,
    Pipe,           \* the queues that an MTA posts to; the others are IMAP folders
    Delivery,       \* rows that may be accepted
    Pod,
    None,
    MaxEdits,       \* bound on edits of queues by operators
    MaxRestarts     \* bound on processes that die or start with another configuration

VARIABLES
    queue,      \* the rows of EmailQueue
    row,        \* the rows of InboundDelivery
    stages,     \* the reservations of InboundRawMimeStaging
    mode,       \* the configuration of each process
    work,       \* what a process is doing, with what it has read
    ran,        \* history: the modes in which a delivery was processed
    origin,     \* history: the queue a delivery was captured from
    edits, restarts

vars == <<queue, row, stages, mode, work, ran, origin, edits, restarts>>

\* assertInboundCaptureMode, assertInboundNormalCanaryMode: a queue and a
\* delivery are selected together, and never beside capture-only.
Modes ==
    {[is |-> "closed"], [is |-> "normal"]}
        \cup [is : {"capture"}, queue : Queue]
        \cup [is : {"canary"}, queue : Queue, delivery : Delivery]

Idle == [at |-> "idle"]

NoRow == [state |-> "ABSENT", queue |-> None, promoted |-> FALSE, whole |-> TRUE, by |-> None]

\* Some of the queues have been created.
Init ==
    /\ \E qs \in SUBSET Queue :
            queue = [q \in Queue |-> [there |-> q \in qs, on |-> TRUE, retired |-> FALSE, gen |-> 0]]
    /\ row = [d \in Delivery |-> NoRow]
    /\ stages = {}
    /\ mode \in [Pod -> {[is |-> "closed"], [is |-> "normal"]}]
    /\ work = [p \in Pod |-> Idle]
    /\ ran = [d \in Delivery |-> {}]
    /\ origin = [d \in Delivery |-> None]
    /\ edits = 0
    /\ restarts = 0

Does(p, what) == work' = [work EXCEPT ![p] = what]

Captures(p) == mode[p].is = "capture"

\* acceptsQueue: a canary takes no new mail.
Accepts(p, q) == mode[p].is = "normal" \/ (Captures(p) /\ mode[p].queue = q)

On(q) == queue[q].there /\ queue[q].on

--------------------------------------------------------------------------------
(* Arming *)

\* armCaptureQueueForConnection
ArmReads(p) == \E q \in Queue \ Pipe :
    /\ work[p] = Idle /\ Captures(p) /\ Accepts(p, q) /\ On(q)
    /\ Does(p, [at |-> "arming", queue |-> q, gen |-> queue[q].gen])
    /\ UNCHANGED <<queue, row, stages, mode, ran, origin, edits, restarts>>

\* Mutant: only work that is still to be done stands in the way.
FreshOfWork(q) == \A d \in Delivery : row[d].queue = q => row[d].state \notin {"ACCEPTED", "PROCESSING"}

\* No delivery of any state, and no bytes that are being written.
Fresh(q) == (\A d \in Delivery : row[d].queue # q) /\ (\A s \in stages : s.queue # q)

\* armCaptureQueue; a stale snapshot or a used queue throws, a retired one is left.
Arm(p) ==
    /\ work[p].at = "arming"
    /\ LET q == work[p].queue IN
        queue' = IF On(q) /\ queue[q].gen = work[p].gen /\ ~queue[q].retired /\ Fresh(q)
                 THEN [queue EXCEPT ![q].retired = TRUE] ELSE queue
    /\ Does(p, Idle)
    /\ UNCHANGED <<row, stages, mode, ran, origin, edits, restarts>>

--------------------------------------------------------------------------------
(* Acceptance *)

\* pollQueueOnce and ingestRawMessage read the queue before they stage bytes.
Fetch(p) == \E q \in Queue, whole \in BOOLEAN :
    /\ work[p] = Idle /\ Accepts(p, q) /\ On(q)
    /\ queue[q].retired = Captures(p)
    /\ q \in Pipe => whole /\ ~Captures(p)
    /\ Does(p, [at |-> "fetched", queue |-> q, gen |-> queue[q].gen, whole |-> whole, staged |-> FALSE])
    /\ UNCHANGED <<queue, row, stages, mode, ran, origin, edits, restarts>>

Stage(p) == [queue |-> work[p].queue, of |-> p, capture |-> Captures(p)]

Gone(s) == stages' = stages \ {s}

\* reserveRawMimeStage, for a message that is not kept in the row.
Reserve(p) ==
    /\ work[p].at = "fetched" /\ ~work[p].staged
    /\ IF On(work[p].queue) /\ queue[work[p].queue].retired = Captures(p)
       THEN stages' = stages \cup {Stage(p)} /\ Does(p, [work[p] EXCEPT !.staged = TRUE])
       ELSE Does(p, Idle) /\ UNCHANGED stages
    /\ UNCHANGED <<queue, row, mode, ran, origin, edits, restarts>>

\* The locked queue of an acceptance; a PIPE request compares no generation.
Open(p) ==
    LET q == work[p].queue IN
    /\ On(q) /\ queue[q].retired = Captures(p)
    /\ q \notin Pipe => work[p].gen = queue[q].gen

\* assertCaptureCapacity
RoomToCapture(q) == \A d \in Delivery : ~(row[d].queue = q /\ row[d].state \in {"CAPTURED", "QUARANTINED"})

\* acceptImapMessage, or the transaction of ingestRawMessage, which goes on to
\* process its row.  The first message that a capture takes disables the queue.
Accept(p) == \E d \in Delivery :
    LET q == work[p].queue
        state == IF ~work[p].whole THEN "QUARANTINED" ELSE IF Captures(p) THEN "CAPTURED" ELSE "ACCEPTED"
    IN
    /\ work[p].at = "fetched" /\ Open(p)
    /\ row[d].state = "ABSENT" /\ \A e \in Delivery : e < d => row[e].state # "ABSENT"
    /\ Captures(p) => RoomToCapture(q)
    /\ work[p].staged => Stage(p) \in stages
    /\ row' = [row EXCEPT ![d] = [@ EXCEPT !.state = state, !.queue = q, !.whole = work[p].whole]]
    /\ queue' = IF Captures(p) THEN [queue EXCEPT ![q].on = FALSE] ELSE queue
    /\ origin' = IF Captures(p) THEN [origin EXCEPT ![d] = q] ELSE origin
    /\ Gone(Stage(p))
    /\ Does(p, IF q \in Pipe THEN [at |-> "due", delivery |-> d] ELSE Idle)
    /\ UNCHANGED <<mode, ran, edits, restarts>>

\* A fence refuses, the bytes were reaped, the capture is full, or the transport
\* key is known: the bytes are discarded.
GivesUp(p) ==
    /\ work[p].at = "fetched"
    /\ Gone(Stage(p)) /\ Does(p, Idle)
    /\ UNCHANGED <<queue, row, mode, ran, origin, edits, restarts>>

\* cleanupUncommittedRawStorage: hourly in normal mode, and whenever a queue is armed.
Reap(p) == \E s \in stages :
    /\ mode[p].is \in {"normal", "capture"}
    /\ Gone(s)
    /\ UNCHANGED <<queue, row, mode, work, ran, origin, edits, restarts>>

--------------------------------------------------------------------------------
(* Processing *)

Retired(q) == q # None /\ queue[q].retired

\* normalDeliveryLifecycleFence and the canary's selector.
Matches(p, d) ==
    \/ mode[p].is = "normal" /\ ~Retired(row[d].queue)
    \/ /\ mode[p].is = "canary" /\ mode[p].delivery = d /\ mode[p].queue = row[d].queue
       /\ row[d].promoted /\ Retired(row[d].queue)

\* A lease that has ended has no holder.
Due(d) == row[d].state = "ACCEPTED" \/ (row[d].state = "PROCESSING" /\ row[d].by = None)

\* runDrainDeliveries
Select(p) == \E d \in Delivery :
    /\ work[p] = Idle /\ Matches(p, d) /\ Due(d)
    /\ Does(p, [at |-> "due", delivery |-> d])
    /\ UNCHANGED <<queue, row, stages, mode, ran, origin, edits, restarts>>

\* processDeliveryClaimed: the row and its queue again, under the queue's lock.
Claim(p) ==
    /\ work[p].at = "due"
    /\ LET d == work[p].delivery IN
        IF Matches(p, d) /\ Due(d)
        THEN /\ row' = [row EXCEPT ![d].state = "PROCESSING", ![d].by = p]
             /\ ran' = [ran EXCEPT ![d] = @ \cup {mode[p]}]
             /\ Does(p, [work[p] EXCEPT !.at = "ran"])
        ELSE Does(p, Idle) /\ UNCHANGED <<row, ran>>
    /\ UNCHANGED <<queue, stages, mode, origin, edits, restarts>>

\* settle: done, to be tried again, or quarantined; nothing without the lease.
Settle(p) == \E state \in {"PROCESSED", "ACCEPTED", "QUARANTINED"} :
    /\ work[p].at = "ran"
    /\ LET d == work[p].delivery IN
        /\ row[d].whole \/ state = "QUARANTINED"
        /\ row' = IF row[d].by = p THEN [row EXCEPT ![d].state = state, ![d].by = None] ELSE row
    /\ Does(p, Idle)
    /\ UNCHANGED <<queue, stages, mode, ran, origin, edits, restarts>>

LeaseEnds(d) ==
    /\ row[d].by # None
    /\ row' = [row EXCEPT ![d].by = None]
    /\ UNCHANGED <<queue, stages, mode, work, ran, origin, edits, restarts>>

\* A process dies and starts with the same or another configuration; the
\* bytes it was writing stay reserved.
Restart(p) == \E m \in Modes :
    /\ restarts < MaxRestarts
    /\ restarts' = restarts + 1
    /\ mode' = [mode EXCEPT ![p] = m]
    /\ Does(p, Idle)
    /\ stages' = {[s EXCEPT !.of = IF @ = p THEN None ELSE @] : s \in stages}
    /\ UNCHANGED <<queue, row, ran, origin, edits>>

--------------------------------------------------------------------------------
(* Operators *)

\* update, a compare-and-set on all it has read: a retired queue can only be disabled.
Update(q) == \E on \in BOOLEAN :
    /\ edits < MaxEdits /\ queue[q].there
    /\ queue[q].retired => ~on
    /\ edits' = edits + 1
    /\ queue' = [queue EXCEPT ![q].on = on, ![q].gen = @ + 1]
    /\ UNCHANGED <<row, stages, mode, work, ran, origin, restarts>>

\* delete: its deliveries and reservations stay, without a queue.
Delete(q) ==
    /\ edits < MaxEdits /\ queue[q].there /\ ~queue[q].retired
    /\ edits' = edits + 1
    /\ queue' = [queue EXCEPT ![q].there = FALSE]
    /\ row' = [d \in Delivery |-> IF row[d].queue = q THEN [row[d] EXCEPT !.queue = None] ELSE row[d]]
    /\ stages' = {[s EXCEPT !.queue = IF @ = q THEN None ELSE @] : s \in stages}
    /\ UNCHANGED <<mode, work, ran, origin, restarts>>

\* replayQuarantined
Replay(p, d) ==
    /\ ~Captures(p)
    /\ row[d].state = "QUARANTINED" /\ row[d].whole /\ ~Retired(row[d].queue)
    /\ row' = [row EXCEPT ![d].state = "ACCEPTED"]
    /\ UNCHANGED <<queue, stages, mode, work, ran, origin, edits, restarts>>

\* promoteCaptured
Promote(p, d) ==
    /\ mode[p].is = "canary" /\ mode[p].delivery = d /\ mode[p].queue = row[d].queue
    /\ row[d].state = "CAPTURED" /\ row[d].whole /\ Retired(row[d].queue)
    /\ row' = [row EXCEPT ![d].state = "ACCEPTED", ![d].promoted = TRUE]
    /\ UNCHANGED <<queue, stages, mode, work, ran, origin, edits, restarts>>

Next ==
    \/ \E p \in Pod :
        \/ ArmReads(p) \/ Arm(p) \/ Fetch(p) \/ Reserve(p) \/ Accept(p) \/ GivesUp(p) \/ Reap(p)
        \/ Select(p) \/ Claim(p) \/ Settle(p) \/ Restart(p)
        \/ \E d \in Delivery : Replay(p, d) \/ Promote(p, d)
    \/ \E d \in Delivery : LeaseEnds(d)
    \/ \E q \in Queue : Update(q) \/ Delete(q)

Spec == Init /\ [][Next]_vars
--------------------------------------------------------------------------------
TypeOK ==
    /\ queue \in [Queue -> [there : BOOLEAN, on : BOOLEAN, retired : BOOLEAN, gen : 0 .. MaxEdits]]
    /\ row \in [Delivery -> [state : {"ABSENT", "ACCEPTED", "PROCESSING", "PROCESSED", "QUARANTINED", "CAPTURED"},
                             queue : Queue \cup {None}, promoted : BOOLEAN, whole : BOOLEAN,
                             by : Pod \cup {None}]]
    /\ stages \subseteq [queue : Queue \cup {None}, of : Pod \cup {None}, capture : BOOLEAN]
    /\ mode \in [Pod -> Modes]
    /\ ran \in [Delivery -> SUBSET Modes]

\* A retired queue stays, off once it has captured, and holds nothing else:
\* neither an older delivery nor bytes that a normal process is writing.
RetiredQueuesHoldEvidence ==
    \A q \in Queue : queue[q].retired =>
        /\ queue[q].there
        /\ \A s \in stages : s.queue = q => s.capture
        /\ \A d, e \in Delivery : row[d].queue = q /\ row[e].queue = q =>
               d = e /\ origin[d] = q /\ ~queue[q].on

\* A captured message is kept as it is until it is promoted, which incomplete
\* bytes never are, and then it runs in no process but one that selects it.
CapturedMailIsInert ==
    \A d \in Delivery : origin[d] # None =>
        /\ row[d].queue = origin[d]
        /\ ~row[d].promoted => ran[d] = {} /\ row[d].state = (IF row[d].whole THEN "CAPTURED" ELSE "QUARANTINED")
        /\ row[d].promoted => row[d].whole
        /\ ran[d] \subseteq {[is |-> "canary", queue |-> origin[d], delivery |-> d]}

\* inbound.service.ts:1280-1295, migration 20260723064000: "evidence-gathering
\* channel, never a reusable normal inbound channel"; and a canary touches
\* no other delivery, whatever processes in other modes have read meanwhile.
CaptureIsEvidence ==
    /\ RetiredQueuesHoldEvidence
    /\ CapturedMailIsInert
    /\ \A d \in Delivery : origin[d] = None => ~row[d].promoted /\ ran[d] \subseteq {[is |-> "normal"]}
================================================================================
