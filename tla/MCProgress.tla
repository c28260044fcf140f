------------------------------ MODULE MCProgress ------------------------------
(* Three background jobs that share no state, side by side, with the       *)
(* fairness of each: the events of workflows, the polling of a mailbox and *)
(* the cleanup of attachments.  A behaviour tells the story of one of      *)
(* them, the others stay as they started.                                  *)
EXTENDS Naturals, FiniteSets

CONSTANTS
    Event, Actions, Poison, Worker, Address, None, MaxAttempts, Batch, MaxEdits,    \* of WorkflowEmailEvents
    EventFaults,
    Account, Home, Poller, Operator, OldMail, Backfill, MaxUid, MaxConfig, MaxGen,  \* of ImapAcceptance
    Att, Pod, MaxOrphans,                                                           \* of AttachmentFiles
    OtherFaults                                                                     \* in both

ASSUME ProgressAssumption ==
    /\ Event \subseteq Nat /\ {Actions, MaxAttempts, Batch} \subseteq Nat \ {0}
    /\ None \notin Address \cup Worker
    /\ {EventFaults, MaxEdits, OtherFaults, MaxOrphans} \subseteq Nat
    /\ IsFiniteSet(Att) /\ IsFiniteSet(Pod)

VARIABLES
    story, failures,
    event, requester, mail, work, edits,
    queue, legacy, ledger, stages, server, mode, conn, poller, op, excluded, crossed,
    row, old, snap, bytes, pending, moves, upload, deleting, pod

eventVars == <<event, requester, mail, work, edits>>
imapVars == <<queue, legacy, ledger, stages, server, mode, conn, poller, op, excluded, crossed>>
fileVars == <<row, old, snap, bytes, pending, moves, upload, deleting, pod>>
progressVars == <<story, failures, eventVars, imapVars, fileVars>>

\* The first mailbox may be renumbered once; no two mailboxes share a UIDVALIDITY.
Numbers == [a \in Account |-> IF a = Home THEN {1, 3} ELSE {2}]

Events == INSTANCE WorkflowEmailEvents WITH MaxFaults <- EventFaults, faults <- failures
Imap == INSTANCE ImapAcceptance WITH
    Validities <- Numbers, Pod <- Poller, pod <- poller, MaxFaults <- OtherFaults, faults <- failures
Files == INSTANCE AttachmentFiles WITH MaxFaults <- OtherFaults, file <- bytes, faults <- failures

\* The parts that have no story start in one state.
ProgressInit ==
    /\ story \in {"events", "imap", "files"}
    /\ Events!Init /\ Imap!Init /\ Files!Init
    /\ story # "events" => requester = CHOOSE a \in Address : TRUE
    /\ story # "imap" => queue.sync = "OK" /\ \A p \in Poller : mode[p] = "normal"

EventStory == story = "events" /\ Events!Next /\ UNCHANGED <<story, imapVars, fileVars>>
ImapStory == story = "imap" /\ Imap!Next /\ UNCHANGED <<story, eventVars, fileVars>>
FileStory == story = "files" /\ Files!Next /\ UNCHANGED <<story, eventVars, imapVars>>

ProgressNext == EventStory \/ ImapStory \/ FileStory

\* The fairness of each module, for its own story; that of the events asks for
\* nothing while there are none.
ProgressSpec ==
    /\ ProgressInit /\ [][ProgressNext]_progressVars
    /\ Events!Fairness
    /\ \A p \in Poller : /\ WF_<<imapVars, failures>>(story = "imap" /\ Imap!Step(p))
                         /\ WF_<<imapVars, failures>>(story = "imap" /\ Imap!Reap(p))
    /\ \A p \in Pod : WF_<<fileVars, failures>>(story = "files" /\ Files!CleanupStep(p))
--------------------------------------------------------------------------------
\* What the modules state; a mailbox nobody polls in this story keeps its mail.
MailIsTaken == story = "imap" => Imap!MailIsTaken
OnlyTheHolderSettles == Events!OnlyTheHolderSettles
EventuallySettled == Events!EventuallySettled
\* No mail of an event is lost or doubled, no answered upload is without its bytes.
NothingIsLost ==
    /\ story = "events" => Events!MailInv
    /\ story = "files" => Files!FilesInv
UsedAttachmentsStay == Files!UsedAttachmentsStay
StagedDeletesEnd == Files!StagedDeletesEnd
================================================================================
