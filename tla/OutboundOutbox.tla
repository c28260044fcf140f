---------------------------- MODULE OutboundOutbox ----------------------------
(***************************************************************************)
(* The durable outbound mail outbox of MailService: OutboundEmail rows in  *)
(* PostgreSQL, the BullMQ 'mail' queue that only wakes workers up, the     *)
(* workers that claim a row under a lease, hand it to the SMTP relay and   *)
(* settle it, the recovery scan, and the operator's retry.                 *)
(*                                                                         *)
(* Time is abstracted to what the code compares it with: a lease is live   *)
(* or expired, a retry is in the future or due.                            *)
(***************************************************************************)
EXTENDS Naturals, FiniteSets

CONSTANTS
    Email,          \* ids of the rows, numbered in the order of createdAt
    StaffReply,     \* the rows of kind STAFF_REPLY: they have a post and a ticket
    TicketOf,       \* the ticket of a staff reply
    Ticket,
    CanaryMatch,    \* rows whose only recipient is the configured canary address
    Macro,          \* requests that apply a macro with a reply text
    Worker,         \* concurrent invocations of processOutboundEmail
    NoWorker,
    MaxAttempts,    \* OUTBOX_MAX_ATTEMPTS
    RecoveryBatch,  \* OUTBOX_RECOVERY_BATCH
    MaxRetries,     \* bound: operator retries of one row
    MaxRestarts,    \* bound: restarts of the API with another configuration
    MaxFaults       \* bound: crashes and failed calls to PostgreSQL or Redis

ASSUME EmailAssumption == Email \subseteq Nat \ {0} /\ StaffReply \subseteq Email
                          /\ CanaryMatch \subseteq Email
ASSUME TicketAssumption == TicketOf \in [StaffReply -> Ticket]
ASSUME MacroAssumption == Macro \cap (Email \cup {0}) = {}
ASSUME WorkerAssumption == NoWorker \notin Worker
ASSUME BoundAssumption == /\ MaxAttempts \in Nat /\ RecoveryBatch \in Nat
                          /\ MaxRetries \in Nat /\ MaxRestarts \in Nat
                          /\ MaxFaults \in Nat

VARIABLES
    row,            \* the OutboundEmail table
    retries,        \* OUTBOUND_RETRY audit entries of a row: the operator's consents
    emailed,        \* TicketPost.isEmailed of a staff reply
    firstResponse,  \* Ticket.firstResponseAt: 0, or the reply or macro that stamped it
    jobs,           \* BullMQ: waiting jobs, keyed by jobId mail:<id>
    active,         \* BullMQ: the worker that holds the row's active job
    wakes,          \* requests that committed a row and have yet to call enqueueOutbound
    scan,           \* recoverDurableOutbox: where it is and the ids it read
    work,           \* the workers
    nextOwner,      \* randomUUID(): every claim gets a fresh lease owner
    mode,           \* configuration: the ids delivery is enabled for
    accepts,        \* history: messages the relay accepted, by row and number of consents
    macros,         \* macro requests that have read a ticket without a first response
    restarts, faults

vars == <<row, retries, emailed, firstResponse, jobs, active, wakes, scan, work,
          nextOwner, mode, accepts, macros, restarts, faults>>

States    == {"ABSENT", "QUEUED", "PROCESSING", "SENT", "RETRY", "FAILED", "AMBIGUOUS"}
Sendable  == {"QUEUED", "RETRY"}
Settled   == {"SENT", "FAILED", "AMBIGUOUS"}
SmtpPhase == {"smtp", "inflight", "sent", "ambiguous", "failed"}
Errors    == {"none", "4xx", "5xx", "network", "local"}
Epoch     == 0 .. MaxRetries

Row == [state: States, attempts: Nat, retryAt: {"none", "future", "due"},
        owner: Nat, version: Nat, lease: {"none", "live", "expired"}]

Absent == [state |-> "ABSENT", attempts |-> 0, retryAt |-> "none",
           owner |-> 0, version |-> 0, lease |-> "none"]

(* A worker: its row, its lease token, what it read back of the row, the   *)
(* error sendMail threw, and (history) the consents when it claimed.       *)
Idle == [pc |-> "idle", email |-> 0, owner |-> 0, version |-> 0, attempts |-> 0,
         error |-> "none", epoch |-> 0]

WorkerState == [pc: {"idle", "stale", "claim", "read"} \cup SmtpPhase,
                email: Email \cup {0}, owner: Nat, version: Nat, attempts: Nat,
                error: Errors, epoch: Epoch]

(* TELECOM_HD_OUTBOUND_DELIVERY_ENABLED and the canary selectors: closed,  *)
(* open, or restricted to one id, approved only if its recipient matches.  *)
Modes == {[selected |-> {}, approved |-> {}], [selected |-> Email, approved |-> Email]}
         \cup {[selected |-> {e}, approved |-> {e} \cap CanaryMatch] : e \in Email}

TypeOK ==
    /\ row \in [Email -> Row]
    /\ retries \in [Email -> Epoch]
    /\ emailed \in [Email -> BOOLEAN]
    /\ firstResponse \in [Ticket -> {0} \cup Email \cup Macro]
    /\ jobs \subseteq Email
    /\ active \in [Email -> Worker \cup {NoWorker}]
    /\ wakes \subseteq Email
    /\ scan \in [pc: {"idle", "find", "wake"}, due: SUBSET Email]
    /\ work \in [Worker -> WorkerState]
    /\ \A w \in Worker : work[w].pc # "idle" => work[w].email \in Email
    /\ nextOwner \in Nat \ {0}
    /\ mode \in Modes
    /\ accepts \in [Email -> [Epoch -> Nat]]
    /\ macros \subseteq Macro \X Ticket
    /\ restarts \in Nat /\ faults \in Nat

Init ==
    /\ row = [e \in Email |-> Absent]
    /\ retries = [e \in Email |-> 0]
    /\ emailed = [e \in Email |-> FALSE]
    /\ firstResponse = [t \in Ticket |-> 0]
    /\ jobs = {} /\ wakes = {}
    /\ active = [e \in Email |-> NoWorker]
    /\ scan = [pc |-> "idle", due |-> {}]
    /\ work = [w \in Worker |-> Idle]
    /\ nextOwner = 1
    /\ mode \in Modes
    /\ accepts = [e \in Email |-> [k \in Epoch |-> 0]]
    /\ macros = {}
    /\ restarts = 0 /\ faults = 0

--------------------------------------------------------------------------------
(* Conditions of the WHERE clauses.                                        *)

\* Mutants: a claim that forgets the state it starts from, or the RETRY rows.
ClaimableUnlessBusy(e) == row[e].state \notin {"ABSENT", "PROCESSING"} /\ row[e].retryAt # "future"
ClaimableIfQueued(e)   == row[e].state = "QUEUED"

Claimable(e) == \/ row[e].state = "QUEUED"
                \/ row[e].state = "RETRY" /\ row[e].retryAt = "due"

Stale(e) == row[e].state = "PROCESSING" /\ row[e].lease = "expired"

\* Mutant: a fence on the state alone.
FencedByState(w) == row[work[w].email].state = "PROCESSING"

(* state PROCESSING and the worker's own leaseOwner and leaseVersion.      *)
Fenced(w) == LET r == row[work[w].email] IN
    /\ r.state = "PROCESSING"
    /\ r.owner = work[w].owner
    /\ r.version = work[w].version

(* Every write that leaves PROCESSING also clears the lease.               *)
Settle(r, state, retryAt) ==
    [r EXCEPT !.state = state, !.retryAt = retryAt, !.owner = 0, !.lease = "none"]

(* The claim: one more attempt under a new lease token and version.        *)
Leased(r, owner) ==
    [state |-> "PROCESSING", attempts |-> r.attempts + 1, retryAt |-> r.retryAt,
     owner |-> owner, version |-> r.version + 1, lease |-> "live"]

\* Mutant: a lost connection is retried like any other transient error.
AfterFailureRetriesNetwork(r, error, attempts) ==
    IF error = "5xx" \/ attempts >= MaxAttempts THEN Settle(r, "FAILED", "none")
    ELSE Settle(r, "RETRY", "future")

(* classifyFailure: the row a delivery error leaves behind.                *)
AfterFailure(r, error, attempts) ==
    IF error = "5xx" THEN Settle(r, "FAILED", "none")
    ELSE IF error = "network" THEN Settle(r, "AMBIGUOUS", "none")
    ELSE IF attempts >= MaxAttempts THEN Settle(r, "FAILED", "none")
    ELSE Settle(r, "RETRY", "future")

(* BullMQ ignores an add whose jobId is already waiting or active.         *)
AddJob(e) == jobs' = IF active[e] = NoWorker THEN jobs \cup {e} ELSE jobs

(* processOutboundEmail returns: the worker is free and BullMQ drops the   *)
(* job if this worker still holds it (removeOnComplete, removeOnFail).     *)
Finish(w) ==
    /\ work' = [work EXCEPT ![w] = Idle]
    /\ active' = [e \in Email |-> IF e = work[w].email /\ active[e] = w
                                  THEN NoWorker ELSE active[e]]

--------------------------------------------------------------------------------
(* Producers, the queue and the operator.                                  *)

(* A transaction commits the row, QUEUED, with the ticket change it belongs to. *)
Create(e) ==
    /\ row[e].state = "ABSENT"
    /\ \A d \in Email : d < e => row[d].state # "ABSENT"
    /\ row' = [row EXCEPT ![e].state = "QUEUED"]
    /\ wakes' = wakes \cup {e}
    /\ UNCHANGED <<retries, emailed, firstResponse, jobs, active, scan, work,
                   nextOwner, mode, accepts, macros, restarts, faults>>

(* enqueueOutbound after the commit; outside the selection it only logs.   *)
Wake(e) ==
    /\ e \in wakes
    /\ wakes' = wakes \ {e}
    /\ IF e \in mode.selected THEN AddJob(e) ELSE UNCHANGED jobs
    /\ UNCHANGED <<row, retries, emailed, firstResponse, active, scan, work,
                   nextOwner, mode, accepts, macros, restarts, faults>>

(* The same call when Redis is down: the failure is logged and swallowed.  *)
WakeFails(e) ==
    /\ e \in wakes /\ faults < MaxFaults
    /\ wakes' = wakes \ {e}
    /\ faults' = faults + 1
    /\ UNCHANGED <<row, retries, emailed, firstResponse, jobs, active, scan, work,
                   nextOwner, mode, accepts, macros, restarts>>

(* retryOutboundEmail: a CAS on the state and an audit entry, then a wake-up. *)
RetryOutboundEmail(e) ==
    /\ e \in mode.approved
    /\ row[e].state \in {"FAILED", "AMBIGUOUS", "RETRY"}
    /\ retries[e] < MaxRetries
    /\ row' = [row EXCEPT ![e] = Settle(@, "QUEUED", "none")]
    /\ retries' = [retries EXCEPT ![e] = @ + 1]
    /\ wakes' = wakes \cup {e}
    /\ UNCHANGED <<emailed, firstResponse, jobs, active, scan, work, nextOwner,
                   mode, accepts, macros, restarts, faults>>

(* BullMQ finds an active job without a heartbeat: its worker died, or is  *)
(* still running and lost its lock. The job runs again or is given up.     *)
JobStalls(e) ==
    /\ active[e] # NoWorker
    /\ work[active[e]].email = e => faults < MaxFaults
    /\ faults' = IF work[active[e]].email = e THEN faults + 1 ELSE faults
    /\ active' = [active EXCEPT ![e] = NoWorker]
    /\ \/ jobs' = jobs \cup {e}
       \/ UNCHANGED jobs
    /\ UNCHANGED <<row, retries, emailed, firstResponse, wakes, scan, work,
                   nextOwner, mode, accepts, macros, restarts>>

--------------------------------------------------------------------------------
(* applyMacro, the other writer of firstResponseAt: it decides by the ticket *)
(* it read before its transaction. A macro that found a first response       *)
(* leaves the field alone and is not followed any further.                   *)

MacroReads(m, t) ==
    /\ firstResponse[t] = 0
    /\ \A u \in Ticket : <<m, u>> \notin macros
    /\ macros' = macros \cup {<<m, t>>}
    /\ UNCHANGED <<row, retries, emailed, firstResponse, jobs, active, wakes, scan,
                   work, nextOwner, mode, accepts, restarts, faults>>

(* The transaction of the macro's reply: the stamp is not conditional. No  *)
(* e-mail comes of it.                                                     *)
MacroReplies(m, t) ==
    /\ <<m, t>> \in macros
    /\ firstResponse' = [firstResponse EXCEPT ![t] = m]
    /\ macros' = macros \ {<<m, t>>}
    /\ UNCHANGED <<row, retries, emailed, jobs, active, wakes, scan, work, nextOwner,
                   mode, accepts, restarts, faults>>

(* The ticket's fence refuses the staff member, or the transaction fails.  *)
MacroIsRefused(m, t) ==
    /\ <<m, t>> \in macros
    /\ macros' = macros \ {<<m, t>>}
    /\ UNCHANGED <<row, retries, emailed, firstResponse, jobs, active, wakes, scan,
                   work, nextOwner, mode, accepts, restarts, faults>>

--------------------------------------------------------------------------------
(* recoverDurableOutbox, single flight (recoveryRunning).                  *)

ScanMarksStale ==
    /\ scan.pc = "idle" /\ mode.approved # {}
    /\ row' = [e \in Email |-> IF e \in mode.approved /\ Stale(e)
                               THEN Settle(row[e], "AMBIGUOUS", "none") ELSE row[e]]
    /\ scan' = [scan EXCEPT !.pc = "find"]
    /\ UNCHANGED <<retries, emailed, firstResponse, jobs, active, wakes, work,
                   nextOwner, mode, accepts, macros, restarts, faults>>

(* The oldest RecoveryBatch rows that may be claimed.                      *)
ScanFinds ==
    LET due == {e \in mode.approved : Claimable(e)} IN
    /\ scan.pc = "find"
    /\ scan' = [pc |-> "wake",
                due |-> {e \in due : Cardinality({d \in due : d < e}) < RecoveryBatch}]
    /\ UNCHANGED <<row, retries, emailed, firstResponse, jobs, active, wakes, work,
                   nextOwner, mode, accepts, macros, restarts, faults>>

ScanWakes(e) ==
    /\ scan.pc = "wake" /\ e \in scan.due
    /\ scan' = [scan EXCEPT !.due = @ \ {e}]
    /\ AddJob(e)
    /\ UNCHANGED <<row, retries, emailed, firstResponse, active, wakes, work,
                   nextOwner, mode, accepts, macros, restarts, faults>>

ScanEnds ==
    /\ scan.pc = "wake" /\ scan.due = {}
    /\ scan' = [scan EXCEPT !.pc = "idle"]
    /\ UNCHANGED <<row, retries, emailed, firstResponse, jobs, active, wakes, work,
                   nextOwner, mode, accepts, macros, restarts, faults>>

(* PostgreSQL or Redis fails: the scan logs it and the timer runs it again. *)
ScanFails ==
    /\ scan.pc # "idle" /\ faults < MaxFaults
    /\ scan' = [pc |-> "idle", due |-> {}]
    /\ faults' = faults + 1
    /\ UNCHANGED <<row, retries, emailed, firstResponse, jobs, active, wakes, work,
                   nextOwner, mode, accepts, macros, restarts>>

--------------------------------------------------------------------------------
(* processOutboundEmail.                                                   *)

\* Mutant: the job is trusted, the configuration is not looked at again.
TakeJobUnchecked(w, e) ==
    /\ work[w].pc = "idle" /\ e \in jobs
    /\ jobs' = jobs \ {e}
    /\ work' = [work EXCEPT ![w] = [Idle EXCEPT !.pc = "stale", !.email = e]]
    /\ active' = [active EXCEPT ![e] = w]
    /\ UNCHANGED <<row, retries, emailed, firstResponse, wakes, scan, nextOwner,
                   mode, accepts, macros, restarts, faults>>

(* BullMQ hands a job to a worker; a row that is not approved is left alone. *)
TakeJob(w, e) ==
    /\ work[w].pc = "idle" /\ e \in jobs
    /\ jobs' = jobs \ {e}
    /\ IF e \in mode.approved
       THEN /\ work' = [work EXCEPT ![w] = [Idle EXCEPT !.pc = "stale", !.email = e]]
            /\ active' = [active EXCEPT ![e] = w]
       ELSE UNCHANGED <<work, active>>
    /\ UNCHANGED <<row, retries, emailed, firstResponse, wakes, scan, nextOwner,
                   mode, accepts, macros, restarts, faults>>

(* An expired lease is an unknown SMTP outcome: never reclaimed.           *)
MarkStale(w) == LET e == work[w].email IN
    /\ work[w].pc = "stale"
    /\ IF Stale(e)
       THEN /\ row' = [row EXCEPT ![e] = Settle(@, "AMBIGUOUS", "none")]
            /\ Finish(w)
       ELSE /\ work' = [work EXCEPT ![w].pc = "claim"]
            /\ UNCHANGED <<row, active>>
    /\ UNCHANGED <<retries, emailed, firstResponse, jobs, wakes, scan, nextOwner,
                   mode, accepts, macros, restarts, faults>>

Claim(w) == LET e == work[w].email IN
    /\ work[w].pc = "claim"
    /\ IF Claimable(e)
       THEN /\ row' = [row EXCEPT ![e] = Leased(row[e], nextOwner)]
            /\ work' = [work EXCEPT ![w] = [@ EXCEPT !.pc = "read",
                           !.owner = nextOwner, !.epoch = retries[e]]]
            /\ nextOwner' = nextOwner + 1
            /\ UNCHANGED active
       ELSE Finish(w) /\ UNCHANGED <<row, nextOwner>>
    /\ UNCHANGED <<retries, emailed, firstResponse, jobs, wakes, scan, mode,
                   accepts, macros, restarts, faults>>

(* The row is read back and must still carry this worker's lease.          *)
ReadBack(w) == LET r == row[work[w].email] IN
    /\ work[w].pc = "read"
    /\ IF r.state = "PROCESSING" /\ r.owner = work[w].owner
       THEN /\ work' = [work EXCEPT ![w] = [@ EXCEPT !.pc = "smtp",
                           !.version = r.version, !.attempts = r.attempts]]
            /\ UNCHANGED active
       ELSE Finish(w)
    /\ UNCHANGED <<row, retries, emailed, firstResponse, jobs, wakes, scan,
                   nextOwner, mode, accepts, macros, restarts, faults>>

(* extendLease, every OUTBOX_HEARTBEAT_MS while the SMTP call is out.      *)
Heartbeat(w) == LET e == work[w].email IN
    /\ work[w].pc \in SmtpPhase
    /\ Fenced(w)
    /\ row' = [row EXCEPT ![e].lease = "live"]
    /\ UNCHANGED <<retries, emailed, firstResponse, jobs, active, wakes, scan, work,
                   nextOwner, mode, accepts, macros, restarts, faults>>

(* The relay takes responsibility for the message (250 after DATA).        *)
RelayAccepts(w) ==
    /\ work[w].pc = "smtp"
    /\ work' = [work EXCEPT ![w].pc = "inflight"]
    /\ accepts' = [accepts EXCEPT ![work[w].email][work[w].epoch] = @ + 1]
    /\ UNCHANGED <<row, retries, emailed, firstResponse, jobs, active, wakes, scan,
                   nextOwner, mode, macros, restarts, faults>>

(* sendMail resolves: smtpAccepted is TRUE.                                *)
SmtpResolves(w) ==
    /\ work[w].pc = "inflight"
    /\ work' = [work EXCEPT ![w].pc = "sent"]
    /\ UNCHANGED <<row, retries, emailed, firstResponse, jobs, active, wakes, scan,
                   nextOwner, mode, accepts, macros, restarts, faults>>

(* sendMail rejects. A lost connection may follow an acceptance; a status  *)
(* code or a local error may not.                                          *)
SmtpThrows(w, error) ==
    /\ \/ work[w].pc = "smtp"
       \/ work[w].pc = "inflight" /\ error = "network"
    /\ work' = [work EXCEPT ![w] = [@ EXCEPT !.pc = "failed", !.error = error]]
    /\ UNCHANGED <<row, retries, emailed, firstResponse, jobs, active, wakes, scan,
                   nextOwner, mode, accepts, macros, restarts, faults>>

\* Mutant: the stamp is not conditional.
CommitSentOverwrites(w) == LET e == work[w].email IN
    IF Fenced(w)
    THEN /\ row' = [row EXCEPT ![e] = Settle(@, "SENT", "none")]
         /\ emailed' = [emailed EXCEPT ![e] = @ \/ e \in StaffReply]
         /\ firstResponse' = [t \in Ticket |->
                IF e \in StaffReply /\ TicketOf[e] = t THEN e ELSE firstResponse[t]]
    ELSE UNCHANGED <<row, emailed, firstResponse>>

(* markSent's transaction: the fenced SENT with its projections on the     *)
(* post and on the ticket, or nothing when the lease was lost.             *)
CommitSent(w) == LET e == work[w].email IN
    IF Fenced(w)
    THEN /\ row' = [row EXCEPT ![e] = Settle(@, "SENT", "none")]
         /\ emailed' = [emailed EXCEPT ![e] = @ \/ e \in StaffReply]
         /\ firstResponse' = [t \in Ticket |->
                IF e \in StaffReply /\ TicketOf[e] = t /\ firstResponse[t] = 0
                THEN e ELSE firstResponse[t]]
    ELSE UNCHANGED <<row, emailed, firstResponse>>

MarkSent(w) ==
    /\ work[w].pc = "sent"
    /\ CommitSent(w)
    /\ Finish(w)
    /\ UNCHANGED <<retries, jobs, wakes, scan, nextOwner, mode, accepts, macros, restarts, faults>>

(* markSent throws: the transaction rolled back, or its answer was lost.   *)
MarkSentThrows(w) ==
    /\ work[w].pc = "sent" /\ faults < MaxFaults
    /\ CommitSent(w) \/ UNCHANGED <<row, emailed, firstResponse>>
    /\ work' = [work EXCEPT ![w].pc = "ambiguous"]
    /\ faults' = faults + 1
    /\ UNCHANGED <<retries, jobs, active, wakes, scan, nextOwner, mode, accepts, macros, restarts>>

MarkAmbiguousAfterSmtpAcceptance(w) == LET e == work[w].email IN
    /\ work[w].pc = "ambiguous"
    /\ row' = IF Fenced(w) THEN [row EXCEPT ![e] = Settle(@, "AMBIGUOUS", "none")] ELSE row
    /\ Finish(w)
    /\ UNCHANGED <<retries, emailed, firstResponse, jobs, wakes, scan, nextOwner,
                   mode, accepts, macros, restarts, faults>>

\* Mutant: the failure is recorded whoever holds the lease.
RecordFailureUnfenced(w) == LET e == work[w].email IN
    /\ work[w].pc = "failed"
    /\ row' = [row EXCEPT ![e] = AfterFailure(@, work[w].error, work[w].attempts)]
    /\ Finish(w)
    /\ UNCHANGED <<retries, emailed, firstResponse, jobs, wakes, scan, nextOwner,
                   mode, accepts, macros, restarts, faults>>

RecordDeliveryFailure(w) == LET e == work[w].email IN
    /\ work[w].pc = "failed"
    /\ row' = IF Fenced(w)
              THEN [row EXCEPT ![e] = AfterFailure(@, work[w].error, work[w].attempts)]
              ELSE row
    /\ Finish(w)
    /\ UNCHANGED <<retries, emailed, firstResponse, jobs, wakes, scan, nextOwner,
                   mode, accepts, macros, restarts, faults>>

(* A database call throws out of the handler, or swallows the error: the   *)
(* invocation ends and leaves the row as it was.                           *)
DbFails(w) ==
    /\ work[w].pc \in {"stale", "claim", "read", "ambiguous", "failed"}
    /\ faults < MaxFaults
    /\ faults' = faults + 1
    /\ Finish(w)
    /\ UNCHANGED <<row, retries, emailed, firstResponse, jobs, wakes, scan,
                   nextOwner, mode, accepts, macros, restarts>>

--------------------------------------------------------------------------------
(* Time and process failures.                                              *)

LeaseExpires(e) ==
    /\ row[e].lease = "live"
    /\ row' = [row EXCEPT ![e].lease = "expired"]
    /\ UNCHANGED <<retries, emailed, firstResponse, jobs, active, wakes, scan, work,
                   nextOwner, mode, accepts, macros, restarts, faults>>

RetryBecomesDue(e) ==
    /\ row[e].retryAt = "future"
    /\ row' = [row EXCEPT ![e].retryAt = "due"]
    /\ UNCHANGED <<retries, emailed, firstResponse, jobs, active, wakes, scan, work,
                   nextOwner, mode, accepts, macros, restarts, faults>>

(* A worker dies anywhere; BullMQ still shows its job as active.           *)
Crash(w) ==
    /\ work[w].pc # "idle" /\ faults < MaxFaults
    /\ work' = [work EXCEPT ![w] = Idle]
    /\ faults' = faults + 1
    /\ UNCHANGED <<row, retries, emailed, firstResponse, jobs, active, wakes, scan,
                   nextOwner, mode, accepts, macros, restarts>>

(* The API restarts with a configuration; PostgreSQL and Redis survive.    *)
Restart ==
    /\ restarts < MaxRestarts
    /\ restarts' = restarts + 1
    /\ mode' \in Modes
    /\ work' = [w \in Worker |-> Idle]
    /\ wakes' = {} /\ macros' = {} /\ scan' = [pc |-> "idle", due |-> {}]
    /\ UNCHANGED <<row, retries, emailed, firstResponse, jobs, active, nextOwner,
                   accepts, faults>>

--------------------------------------------------------------------------------
WorkerStep(w) ==
    \/ \E e \in Email : TakeJob(w, e)
    \/ MarkStale(w) \/ Claim(w) \/ ReadBack(w)
    \/ RelayAccepts(w) \/ SmtpResolves(w)
    \/ \E error \in Errors \ {"none"} : SmtpThrows(w, error)
    \/ MarkSent(w) \/ MarkAmbiguousAfterSmtpAcceptance(w) \/ RecordDeliveryFailure(w)

WorkerFault(w) == MarkSentThrows(w) \/ DbFails(w) \/ Crash(w)

ScanStep == \/ ScanMarksStale \/ ScanFinds \/ ScanEnds
            \/ \E e \in Email : ScanWakes(e)

EmailStep(e) == \/ Create(e) \/ Wake(e) \/ WakeFails(e) \/ RetryOutboundEmail(e)
                \/ JobStalls(e) \/ LeaseExpires(e) \/ RetryBecomesDue(e)

MacroStep(m, t) == MacroReads(m, t) \/ MacroReplies(m, t) \/ MacroIsRefused(m, t)

Next ==
    \/ \E w \in Worker : WorkerStep(w) \/ WorkerFault(w) \/ Heartbeat(w)
    \/ \E e \in Email : EmailStep(e)
    \/ \E m \in Macro, t \in Ticket : MacroStep(m, t)
    \/ ScanStep \/ ScanFails \/ Restart

Spec == Init /\ [][Next]_vars

(* The timers fire, BullMQ runs its jobs, SMTP calls time out and clocks   *)
(* advance; nothing is assumed of producers, the operator or restarts.     *)
Fairness ==
    /\ \A w \in Worker : WF_vars(WorkerStep(w))
    /\ \A e \in Email : /\ WF_vars(Wake(e) \/ WakeFails(e)) /\ WF_vars(JobStalls(e))
                        /\ WF_vars(LeaseExpires(e)) /\ WF_vars(RetryBecomesDue(e))
    /\ WF_vars(ScanStep \/ ScanFails)

FairSpec == Spec /\ Fairness

--------------------------------------------------------------------------------
(* Properties.                                                             *)

(* One consent buys one delivery: however workers crash, stall, lose their *)
(* lease or overlap, the relay accepts at most one copy per claim epoch,   *)
(* the epoch being the operator retries (audit entries) so far.            *)
NoUnconsentedDuplicate == \A e \in Email, k \in Epoch : accepts[e][k] <= 1

(* What the runtime may send again by itself was not accepted since the    *)
(* last consent: recovery and retry never resend a delivered message, and  *)
(* FAILED never hides a delivery.                                          *)
ResendableIsUnsent ==
    \A e \in Email : row[e].state \in {"QUEUED", "RETRY", "FAILED"}
                        => accepts[e][retries[e]] = 0

(* Delivery truth: SENT is claimed only for an acceptance of the current    *)
(* consent, never one a late worker reports of an earlier claim, and the   *)
(* post shows emailed exactly when the row is SENT.                        *)
DeliveryTruth ==
    /\ \A e \in Email : row[e].state = "SENT" => accepts[e][retries[e]] > 0
    /\ \A e \in Email : emailed[e] <=> e \in StaffReply /\ row[e].state = "SENT"

(* The promise of the outbox, in terms of its rows.                        *)
Status(state) == CASE state = "ABSENT"              -> "absent"
                   [] state \in {"QUEUED", "RETRY"} -> "waiting"
                   [] state = "PROCESSING"          -> "trying"
                   [] state = "SENT"                -> "sent"
                   [] state = "FAILED"              -> "failed"
                   [] state = "AMBIGUOUS"           -> "unknown"

Delivery == INSTANCE OutboundDelivery WITH
                Post <- StaffReply, MaxConsents <- MaxRetries, consents <- retries,
                status <- [e \in Email |-> Status(row[e].state)],
                delivered <- accepts, shown <- emailed

(* Claims, leases, scans, crashes and late workers implement the promise:  *)
(* an attempt is repeated only when it delivered nothing, a settled row    *)
(* changes by consent alone, and SENT is final and tells the truth.        *)
DeliveryIsImplemented == Delivery!Spec

(* The macro requests that will stamp the ticket whatever it shows by then. *)
Restamping(t) == {m \in Macro : <<m, t>> \in macros}

(* No reply of the outbox replaces a first response, in whatever order the *)
(* queued replies of a ticket complete, also not that of a macro. Only a   *)
(* macro does that read the ticket when it had none (applyMacro's write is *)
(* not conditional), once, and after the first response there come no more *)
(* such macros.                                                            *)
OnlyEarlierMacrosRestamp ==
    [][\A t \in Ticket : firstResponse[t] # 0 =>
          /\ Restamping(t)' \subseteq Restamping(t)
          /\ \/ firstResponse'[t] = firstResponse[t]
             \/ firstResponse'[t] \in Restamping(t) \ Restamping(t)']_vars

(* Outside the configured selection no durable row changes, except by the  *)
(* clock: also for jobs and leases that survive a restart.                 *)
ClosedDeliveryTouchesNothing ==
    [][\A e \in Email \ mode.approved :
          row[e].state # "ABSENT" => /\ row'[e].state = row[e].state
                                     /\ row'[e].attempts = row[e].attempts
                                     /\ row'[e].owner = row[e].owner]_vars

(* No email is lost: while delivery stays open for it, a committed row     *)
(* reaches a settled state whatever finitely many faults happen.           *)
EventuallySettled ==
    \A e \in Email : <>[](e \in mode.approved)
                        => (row[e].state # "ABSENT" ~> row[e].state \in Settled)
--------------------------------------------------------------------------------
(* The inductive invariant behind NoUnconsentedDuplicate and               *)
(* ResendableIsUnsent: between two consents at most one worker may stand   *)
(* between a claim and its settlement, and only while the row cannot be    *)
(* claimed again.                                                          *)

Claimed(w) == work[w].pc \in {"read"} \cup SmtpPhase

(* w may yet reach the relay, or has and did not settle.                   *)
Engaged(w) == \/ work[w].pc \in SmtpPhase
              \/ work[w].pc = "read" /\ row[work[w].email].owner = work[w].owner

Unsent(w) == \/ work[w].pc \in {"read", "smtp"}
             \/ work[w].pc = "failed" /\ work[w].error # "network"

Resendable(e) == row[e].state \in {"ABSENT", "QUEUED", "RETRY", "FAILED"}

(* Lease owners are fresh: a token in use belongs to one claim.            *)
OwnersUnique ==
    /\ \A e \in Email : row[e].owner < nextOwner
    /\ \A e \in Email : row[e].state = "PROCESSING" <=> row[e].owner # 0
    /\ \A w \in Worker : Claimed(w) => 0 < work[w].owner /\ work[w].owner < nextOwner
    /\ \A v, w \in Worker : v # w /\ Claimed(v) /\ Claimed(w)
                              => work[v].owner # work[w].owner

EpochOfClaim ==
    \A w \in Worker : Claimed(w) =>
        /\ work[w].epoch <= retries[work[w].email]
        /\ row[work[w].email].owner = work[w].owner
               => work[w].epoch = retries[work[w].email]

OneEngagedPerEpoch ==
    \A v, w \in Worker :
        v # w /\ Engaged(v) /\ Engaged(w) /\ work[v].email = work[w].email
            => work[v].epoch # work[w].epoch

EngagedHoldsRow ==
    \A w \in Worker : Engaged(w) /\ work[w].epoch = retries[work[w].email] =>
        /\ ~Resendable(work[w].email)
        /\ row[work[w].email].state = "PROCESSING"
               => row[work[w].email].owner = work[w].owner

UnsentClaims ==
    \A w \in Worker : Engaged(w) /\ Unsent(w)
                         => accepts[work[w].email][work[w].epoch] = 0

UnsentRows ==
    /\ \A e \in Email : Resendable(e) => accepts[e][retries[e]] = 0
    /\ \A e \in Email, k \in Epoch : k > retries[e] => accepts[e][k] = 0

DeliveryInv == /\ OwnersUnique /\ EpochOfClaim /\ OneEngagedPerEpoch
               /\ EngagedHoldsRow /\ UnsentClaims /\ UnsentRows
               /\ NoUnconsentedDuplicate

(* The strengthening behind DeliveryTruth: a worker that says the relay    *)
(* accepted has a delivery of its own claim to show for it.                *)
Accepted(w) == work[w].pc \in {"inflight", "sent", "ambiguous"}

AcceptedClaims ==
    \A w \in Worker : Accepted(w) => accepts[work[w].email][work[w].epoch] > 0

TruthInv == AcceptedClaims /\ DeliveryTruth
================================================================================
