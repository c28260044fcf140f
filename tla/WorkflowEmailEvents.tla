--------------------------- MODULE WorkflowEmailEvents ---------------------------
(***************************************************************************)
(* The events of workflow-email-event.service.ts.  The transaction that    *)
(* changes a ticket leaves an event with the mails that the workflows ask  *)
(* for; a worker claims the event under a lease, compares the requester,   *)
(* and creates one outbox row per action (createWorkflowTicketEmail of     *)
(* mail.service.ts), each in a transaction of its own, before it settles   *)
(* the event.  Workers may be slow, lose their lease, fail or die at any   *)
(* point; an operator may have a quarantined event done again.             *)
(*                                                                         *)
(* The matching of workflows and the texts are left out, and so is what    *)
(* becomes of the rows in the outbox (OutboundOutbox).                     *)
(***************************************************************************)
EXTENDS Naturals, FiniteSets

CONSTANTS
    Event,          \* source keys, numbered in the order of createdAt, all of one ticket
    Actions,        \* the number of send_email actions in a valid event
    Poison,         \* the events whose mails the database always refuses
    Worker,         \* runs of processEvent that may be under way at once
    Address,        \* addresses of requesters
    None,
    MaxAttempts,    \* WORKFLOW_EVENT_MAX_ATTEMPTS
    Batch,          \* WORKFLOW_EVENT_RECOVERY_BATCH
    MaxFaults,      \* bound on failed calls, lost answers, dead workers and overlong runs
    MaxEdits        \* bound on changes of the requester and replays by an operator

VARIABLES
    event,      \* WorkflowEmailEvent rows
    requester,  \* requesterEmail of the ticket
    mail,       \* OutboundEmail rows of kind WORKFLOW
    work,       \* the runs of processEvent
    faults, edits

vars == <<event, requester, mail, work, faults, edits>>

NoRow == [state |-> "none", valid |-> TRUE, to |-> None, attempts |-> 0, owner |-> None, live |-> FALSE]

Idle == [pc |-> "idle", on |-> None, next |-> 0]

Init ==
    /\ event = [e \in Event |-> NoRow]
    /\ requester \in Address
    /\ mail = {}
    /\ work = [w \in Worker |-> Idle]
    /\ faults = 0
    /\ edits = 0

\* enqueueWorkflowEmailEvent, in the transaction of the ticket: a malformed
\* rule leaves a row that is quarantined from the start and has no actions.
Enqueue(e) ==
    /\ event[e].state = "none" /\ \A f \in Event : f < e => event[f].state # "none"
    /\ \E valid \in BOOLEAN :
        event' = [event EXCEPT ![e] = [NoRow EXCEPT !.valid = valid, !.to = requester,
                                           !.state = IF valid THEN "PENDING" ELSE "QUARANTINED"]]
    /\ UNCHANGED <<requester, mail, work, faults, edits>>

Edits == edits < MaxEdits /\ edits' = edits + 1

RequesterChanges ==
    /\ Edits
    /\ \E a \in Address \ {requester} : requester' = a
    /\ UNCHANGED <<event, mail, work, faults>>

\* Mutant: the state is the whole fence.
HoldsIfOpen(w, e) == event[e].state = "PROCESSING"

\* The fence of every write of a worker.
Holds(w, e) == event[e].state = "PROCESSING" /\ event[e].owner = w

Released(e, state) == [event[e] EXCEPT !.state = state, !.owner = None, !.live = FALSE]

\* replayEvent: the snapshot is sound and still for the requester.
Replay(e) ==
    /\ Edits
    /\ event[e].state = "QUARANTINED" /\ event[e].valid /\ event[e].to = requester
    /\ event' = [event EXCEPT ![e] = [Released(e, "PENDING") EXCEPT !.attempts = 0]]
    /\ UNCHANGED <<requester, mail, work, faults>>
--------------------------------------------------------------------------------
(* processEvent *)

\* "WAITING" is a RETRY whose nextAttemptAt has not come.
Claimable(e) ==
    \/ event[e].state \in {"PENDING", "RETRY"}
    \/ event[e].state = "PROCESSING" /\ ~event[e].live

Claim(w, e) ==
    /\ work[w] = Idle /\ Claimable(e)
    /\ event' = [event EXCEPT ![e].state = "PROCESSING", ![e].attempts = @ + 1,
                              ![e].owner = w, ![e].live = TRUE]
    /\ work' = [work EXCEPT ![w] = [pc |-> "load", on |-> e, next |-> 1]]
    /\ UNCHANGED <<requester, mail, faults, edits>>

Goes(w, pc) == work' = [work EXCEPT ![w].pc = pc]

Ends(w) == work' = [work EXCEPT ![w] = Idle]

\* The row is read back; whoever was overtaken has nothing to do.
Load(w) ==
    /\ work[w].pc = "load"
    /\ IF Holds(w, work[w].on) THEN Goes(w, "check") ELSE Ends(w)
    /\ UNCHANGED <<event, requester, mail, faults, edits>>

ForRequester(w) == event[work[w].on].to = requester

Check(w) ==
    /\ work[w].pc = "check"
    /\ Goes(w, IF event[work[w].on].valid /\ ForRequester(w) THEN "beat" ELSE "quarantine")
    /\ UNCHANGED <<event, requester, mail, faults, edits>>

\* heartbeat, or WorkflowEmailEventLeaseLost.  A lease that has run out and
\* that nobody has claimed is revived.
Heartbeat(w) ==
    /\ work[w].pc = "beat"
    /\ IF Holds(w, work[w].on)
       THEN event' = [event EXCEPT ![work[w].on].live = TRUE] /\ Goes(w, "reread")
       ELSE UNCHANGED event /\ Ends(w)
    /\ UNCHANGED <<requester, mail, faults, edits>>

\* createWorkflowTicketEmail reads the requester again in its transaction.
Reread(w) ==
    /\ work[w].pc = "reread"
    /\ Goes(w, IF ForRequester(w) /\ work[w].on \notin Poison THEN "insert" ELSE "fail")
    /\ UNCHANGED <<event, requester, mail, faults, edits>>

\* Mutant: the key of a mail tells attempts apart.
KeyOfAttempt(w) == <<work[w].on, work[w].next, event[work[w].on].attempts>>

\* idempotencyKey
Key(w) == <<work[w].on, work[w].next, 0>>

\* The row of this worker, or the row that a unique key (P2002) kept it from.
Inserted(w) ==
    mail' = IF \E m \in mail : m.key = Key(w) THEN mail
            ELSE mail \cup {[key |-> Key(w), of |-> work[w].on, action |-> work[w].next]}

Insert(w) ==
    /\ work[w].pc = "insert"
    /\ Inserted(w)
    /\ work' = [work EXCEPT ![w].pc = IF work[w].next = Actions THEN "settle" ELSE "beat",
                            ![w].next = @ + 1]
    /\ UNCHANGED <<event, requester, faults, edits>>

Settle(w) ==
    /\ work[w].pc = "settle"
    /\ event' = IF Holds(w, work[w].on) THEN [event EXCEPT ![work[w].on] = Released(work[w].on, "PROCESSED")]
                                        ELSE event
    /\ Ends(w)
    /\ UNCHANGED <<requester, mail, faults, edits>>

Quarantine(w) ==
    /\ work[w].pc = "quarantine"
    /\ event' = IF Holds(w, work[w].on) THEN [event EXCEPT ![work[w].on] = Released(work[w].on, "QUARANTINED")]
                                        ELSE event
    /\ Ends(w)
    /\ UNCHANGED <<requester, mail, faults, edits>>

Exhausted(e) == event[e].attempts >= MaxAttempts

\* retryOrQuarantine
Fail(w) ==
    /\ work[w].pc = "fail"
    /\ LET e == work[w].on IN
        event' = IF ~Holds(w, e) THEN event
                 ELSE [event EXCEPT ![e] = Released(e, IF Exhausted(e) THEN "QUARANTINED" ELSE "WAITING")]
    /\ Ends(w)
    /\ UNCHANGED <<requester, mail, faults, edits>>

BecomesDue(e) ==
    /\ event[e].state = "WAITING"
    /\ event' = [event EXCEPT ![e].state = "RETRY"]
    /\ UNCHANGED <<requester, mail, work, faults, edits>>
--------------------------------------------------------------------------------
(* Faults *)

Faulty == faults < MaxFaults /\ faults' = faults + 1

\* A call of the try block fails: nothing of it was committed.
Throws(w) ==
    /\ Faulty
    /\ work[w].pc \in {"check", "beat", "reread", "insert", "settle", "quarantine"}
    /\ Goes(w, "fail")
    /\ UNCHANGED <<event, requester, mail, edits>>

\* The mail is committed and the answer is lost.
InsertAnswerLost(w) ==
    /\ Faulty /\ work[w].pc = "insert"
    /\ Inserted(w)
    /\ Goes(w, "fail")
    /\ UNCHANGED <<event, requester, edits>>

\* PROCESSED is committed and the answer is lost.
SettleAnswerLost(w) ==
    /\ Faulty /\ work[w].pc = "settle" /\ Holds(w, work[w].on)
    /\ event' = [event EXCEPT ![work[w].on] = Released(work[w].on, "PROCESSED")]
    /\ Goes(w, "fail")
    /\ UNCHANGED <<requester, mail, edits>>

\* The process dies, or a call outside the try block or in its catch fails.
Dies(w) ==
    /\ Faulty /\ work[w] # Idle
    /\ Ends(w)
    /\ UNCHANGED <<event, requester, mail, edits>>

HeldByRun(e) == event[e].owner # None /\ work[event[e].owner].on = e

\* A run that takes longer than its lease counts as a fault; the lease of a
\* dead run ends by itself.
LeaseExpires(e) ==
    /\ event[e].state = "PROCESSING" /\ event[e].live
    /\ IF HeldByRun(e) THEN Faulty ELSE UNCHANGED faults
    /\ event' = [event EXCEPT ![e].live = FALSE]
    /\ UNCHANGED <<requester, mail, work, edits>>
--------------------------------------------------------------------------------
Run(w) ==
    \/ Load(w) \/ Check(w) \/ Heartbeat(w) \/ Reread(w) \/ Insert(w)
    \/ Settle(w) \/ Quarantine(w) \/ Fail(w)

Next ==
    \/ RequesterChanges
    \/ \E e \in Event : Enqueue(e) \/ Replay(e) \/ BecomesDue(e) \/ LeaseExpires(e)
    \/ \E w \in Worker :
        \/ Run(w) \/ \E e \in Event : Claim(w, e)
        \/ Throws(w) \/ InsertAnswerLost(w) \/ SettleAnswerLost(w) \/ Dies(w)

Spec == Init /\ [][Next]_vars

\* Mutant: the scan does not look for expired leases.
DueUnclaimed == {e \in Event : event[e].state \in {"PENDING", "RETRY"}}

Due == {e \in Event : Claimable(e)}

\* recoverDueEvents: the oldest Batch events that are due.
Listed == {e \in Due : Cardinality({f \in Due : f < e}) < Batch}

\* Every pod scans twice a minute, on its own clock, and a run that is not
\* dead goes on.
Fairness ==
    /\ WF_vars(\E w \in Worker, e \in Listed : Claim(w, e))
    /\ \A w \in Worker : WF_vars(Run(w))
    /\ \A e \in Event : WF_vars(BecomesDue(e)) /\ WF_vars(LeaseExpires(e) /\ ~HeldByRun(e))

FairSpec == Spec /\ Fairness
--------------------------------------------------------------------------------
States == {"none", "PENDING", "PROCESSING", "WAITING", "RETRY", "QUARANTINED", "PROCESSED"}

TypeOK ==
    /\ event \in [Event -> [state : States, valid : BOOLEAN, to : Address \cup {None}, attempts : Nat,
                            owner : Worker \cup {None}, live : BOOLEAN]]
    /\ requester \in Address
    /\ mail \subseteq [key : Event \X (1 .. Actions) \X Nat, of : Event, action : 1 .. Actions]
    /\ work \in [Worker -> [pc : {"idle", "load", "check", "beat", "reread", "insert", "settle", "quarantine", "fail"},
                            on : Event \cup {None}, next : 0 .. Actions + 1]]
    /\ faults \in 0 .. MaxFaults /\ edits \in 0 .. MaxEdits

\* One mail for an action: workers that lost their lease, retries after a lost
\* answer and replays find the row that is there.
OneMailPerAction ==
    \A m, n \in mail : m.of = n.of /\ m.action = n.action => m = n

\* An event that counts as processed has all its mails, whoever made them.
ProcessedIsComplete ==
    \A e \in Event : event[e].state = "PROCESSED" => \A i \in 1 .. Actions :
        \E m \in mail : m.of = e /\ m.action = i

\* What the workers of an event do to each other's work.
MailInv == TypeOK /\ OneMailPerAction /\ ProcessedIsComplete

\* While a lease runs only its holder, at work on the event, changes the row,
\* and what is settled stays: late workers come to nothing, and only an
\* operator takes an event out of quarantine, with all its attempts.
OnlyTheHolderSettles ==
    [][\A e \in Event : event'[e] # event[e] =>
        /\ event[e].state = "PROCESSING" /\ event[e].live =>
            \/ event'[e] = [event[e] EXCEPT !.live = FALSE]
            \/ work[event[e].owner].on = e /\ work'[event[e].owner] # work[event[e].owner]
        /\ event[e].state # "PROCESSED"
        /\ event[e].state = "QUARANTINED" => event'[e].state = "PENDING" /\ event'[e].attempts = 0]_vars

\* workflow-email-event.service.ts:57: an event is not left behind: it is
\* processed, or shown to an operator, although its mails are refused for good,
\* workers die and the scan takes the oldest Batch events only.
EventuallySettled ==
    \A e \in Event : event[e].state # "none" ~> event[e].state \in {"PROCESSED", "QUARANTINED"}

================================================================================
