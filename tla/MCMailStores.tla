----------------------------- MODULE MCMailStores -----------------------------
(* The outbox and the staging of raw MIME, which share no state, side by   *)
(* side with the fairness of each.  A behaviour tells the story of one of  *)
(* them, the other stays as it started.                                    *)
EXTENDS RawMimeStaging

CONSTANTS
    Email, StaffReply, Ticket, CanaryMatch, Worker, NoWorker,
    MaxAttempts, RecoveryBatch, MaxRetries, MaxRestarts, MaxMailFaults  \* of OutboundOutbox

VARIABLES
    story,
    row, retries, emailed, firstResponse, jobs, active, wakes, scan, work,
    nextOwner, mode, accepts, macros, restarts, mailFaults

mailVars == <<row, retries, emailed, firstResponse, jobs, active, wakes, scan, work,
              nextOwner, mode, accepts, macros, restarts, mailFaults>>

\* Every staff reply belongs to one ticket.
OneTicket == [e \in StaffReply |-> CHOOSE t \in Ticket : TRUE]

Outbox == INSTANCE OutboundOutbox WITH
    TicketOf <- OneTicket, Macro <- {}, MaxFaults <- MaxMailFaults, faults <- mailFaults

\* The part that has no story starts in one state.
StoresInit ==
    /\ story \in {"outbox", "staging"}
    /\ Init /\ Outbox!Init
    /\ story # "outbox" => mode.approved = Email

OutboxStory == story = "outbox" /\ Outbox!Next /\ UNCHANGED <<story, vars>>
StagingStory == story = "staging" /\ Next /\ UNCHANGED <<story, mailVars>>

StoresNext == OutboxStory \/ StagingStory

\* The fairness of each module, for its own story.
StoresSpec ==
    /\ StoresInit /\ [][StoresNext]_<<story, vars, mailVars>>
    /\ \A k \in Key : /\ WF_vars(story = "staging" /\ WriterStep(k))
                      /\ WF_vars(story = "staging" /\ LeaseExpires(k))
                      /\ WF_vars(story = "staging" /\ MarkerAges(k))
    /\ \A r \in Reaper : WF_vars(story = "staging" /\ ReaperStep(r))
    /\ \A w \in Worker : WF_mailVars(story = "outbox" /\ Outbox!WorkerStep(w))
    /\ \A e \in Email : /\ WF_mailVars(story = "outbox" /\ (Outbox!Wake(e) \/ Outbox!WakeFails(e)))
                        /\ WF_mailVars(story = "outbox" /\ Outbox!JobStalls(e))
                        /\ WF_mailVars(story = "outbox" /\ Outbox!LeaseExpires(e))
                        /\ WF_mailVars(story = "outbox" /\ Outbox!RetryBecomesDue(e))
    /\ WF_mailVars(story = "outbox" /\ (Outbox!ScanStep \/ Outbox!ScanFails))
--------------------------------------------------------------------------------
\* What the outbox promises of every e-mail: it is settled in the end.
EventuallySettled == Outbox!EventuallySettled
================================================================================
