----------------------------- MODULE AttachmentFiles -----------------------------
(***************************************************************************)
(* Attachment rows and their bytes: uploads under the orphan capacity      *)
(* (attachments.service.ts, attachment-capacity.service.ts), their         *)
(* adoption by posts, notes and outbound mails, the direct delete, and the *)
(* orphan cleanup of several processes, which moves bytes to a deletion    *)
(* queue before it deletes the row (orphan-cleanup.service.ts,             *)
(* storage.service.ts).                                                    *)
(*                                                                         *)
(* An upload is one file.  Row locks are held by open transactions; what a *)
(* transaction wrote shows when it commits; every call on the file system  *)
(* is a step of its own and survives a rollback.                           *)
(***************************************************************************)
EXTENDS Naturals, FiniteSets

CONSTANTS
    Att,        \* attachment ids, and the files of their uploads
    Pod,        \* processes that clean up
    MaxOrphans, \* TELECOM_HD_ORPHAN_ATTACHMENT_MAX_COUNT
    MaxFaults   \* bound on failed or lost calls, timeouts and crashes

VARIABLES
    row,        \* "none", "orphan" or "linked" (to a ticket, post or note)
    old,        \* rows past the retention of orphans
    snap,       \* rows with an OutboundEmailAttachment
    file,       \* ids whose bytes are at their storage key
    pending,    \* files of the deletion queue: <<id, number of the move>>
    moves,      \* times the bytes of an id were moved there: the random part of the names
    upload,     \* the step of each upload
    deleting,   \* rows that deleteAttachment deleted, their file is next
    pod,        \* the cleanup run of each process
    faults

vars == <<row, old, snap, file, pending, moves, upload, deleting, pod, faults>>

Idle == [pc |-> "idle", todo |-> {}, queue |-> {}, now |-> <<>>, back |-> "idle", open |-> FALSE]

Init ==
    /\ row = [a \in Att |-> "none"]
    /\ old = {} /\ snap = {} /\ file = {} /\ pending = {} /\ deleting = {}
    /\ moves = [a \in Att |-> 0]
    /\ upload = [a \in Att |-> "new"]
    /\ pod = [p \in Pod |-> Idle]
    /\ faults = 0

Faulty == faults < MaxFaults /\ faults' = faults + 1

\* SELECT ... FOR UPDATE of the cleanup; the other writers wait for it.
Locked(a) == \E p \in Pod : pod[p].open /\ pod[p].now[1] = a
--------------------------------------------------------------------------------
(* Uploads.                                                                *)

Orphans == {a \in Att : row[a] = "orphan"}

\* Mutant: the count is read before the advisory lock is taken.
HasRoomUnlocked == Cardinality(Orphans) < MaxOrphans

\* withOrphanCapacity: one upload at a time between the count and the commit.
HasRoom ==
    /\ Cardinality(Orphans) < MaxOrphans
    /\ \A b \in Att : upload[b] \notin {"adopt", "commit"}

\* The rows of an upload with a ticket are born linked and need no room.
StartUpload(a) ==
    /\ upload[a] = "new"
    /\ \/ HasRoom /\ upload' = [upload EXCEPT ![a] = "adopt"]
       \/ upload' = [upload EXCEPT ![a] = "adoptLinked"]
    /\ UNCHANGED <<row, old, snap, file, pending, moves, deleting, pod, faults>>

\* adoptQuarantined: the scanned bytes move to their key before the commit.
Adopt(a) ==
    /\ upload[a] \in {"adopt", "adoptLinked"}
    /\ file' = file \cup {a}
    /\ upload' = [upload EXCEPT ![a] = IF @ = "adopt" THEN "commit" ELSE "commitLinked"]
    /\ UNCHANGED <<row, old, snap, pending, moves, deleting, pod, faults>>

\* The commit, which answers the client, or whose answer is lost.
CommitUpload(a) ==
    /\ upload[a] \in {"commit", "commitLinked"}
    /\ row' = [row EXCEPT ![a] = IF upload[a] = "commit" THEN "orphan" ELSE "linked"]
    /\ \/ upload' = [upload EXCEPT ![a] = "done"] /\ UNCHANGED faults
       \/ upload' = [upload EXCEPT ![a] = "undo"] /\ Faulty
    /\ UNCHANGED <<old, snap, file, pending, moves, deleting, pod>>

UploadFails(a) ==
    /\ upload[a] \in {"commit", "commitLinked"} /\ Faulty
    /\ upload' = [upload EXCEPT ![a] = "undo"]
    /\ UNCHANGED <<row, old, snap, file, pending, moves, deleting, pod>>

\* The catch block removes what was adopted; its own failure is swallowed.
UndoUpload(a) ==
    /\ upload[a] = "undo"
    /\ \/ file' = file \ {a} /\ UNCHANGED faults
       \/ Faulty /\ UNCHANGED file
    /\ upload' = [upload EXCEPT ![a] = "failed"]
    /\ UNCHANGED <<row, old, snap, pending, moves, deleting, pod>>

--------------------------------------------------------------------------------
(* What rows are used for.  A client knows the id of a finished upload.    *)

\* linkToPost and linkToNote: an update that must find every orphan it names.
Link(a) ==
    /\ upload[a] = "done" /\ row[a] = "orphan" /\ ~Locked(a)
    /\ row' = [row EXCEPT ![a] = "linked"]
    /\ UNCHANGED <<old, snap, file, pending, moves, upload, deleting, pod, faults>>

\* A queued reply names the attachments of its post; the foreign key waits for the lock.
SnapshotForMail(a) ==
    /\ row[a] = "linked" /\ a \notin snap /\ ~Locked(a)
    /\ snap' = snap \cup {a}
    /\ UNCHANGED <<row, old, file, pending, moves, upload, deleting, pod, faults>>

\* Time passes; only the age of an orphan is ever read.
Age(a) ==
    /\ row[a] = "orphan" /\ a \notin old
    /\ old' = old \cup {a}
    /\ UNCHANGED <<row, snap, file, pending, moves, upload, deleting, pod, faults>>

\* Mutant: the snapshot is not looked for.
DeletableUnread(a) == row[a] # "none" /\ ~Locked(a)

Deletable(a) == row[a] # "none" /\ a \notin snap /\ ~Locked(a)

DeleteAttachment(a) ==
    /\ Deletable(a)
    /\ row' = [row EXCEPT ![a] = "none"]
    /\ deleting' = deleting \cup {a}
    /\ UNCHANGED <<old, snap, file, pending, moves, upload, pod, faults>>

DeleteFile(a) ==
    /\ a \in deleting
    /\ deleting' = deleting \ {a}
    /\ \/ file' = file \ {a} /\ UNCHANGED faults
       \/ Faulty /\ UNCHANGED file
    /\ UNCHANGED <<row, old, snap, pending, moves, upload, pod>>
--------------------------------------------------------------------------------
(* The cleanup: first what earlier runs have left in the deletion queue.   *)

Goes(p, s) == pod' = [pod EXCEPT ![p] = s]

\* Mutant: a run does not look for what was left.
LeftUnread == {}

\* listStagedDeletes.
Left == pending

ListStaged(p) ==
    /\ pod[p].pc = "idle"
    /\ Goes(p, [Idle EXCEPT !.pc = "recover", !.queue = Left])
    /\ UNCHANGED <<row, old, snap, file, pending, moves, upload, deleting, faults>>

\* Mutant: what is in the queue is taken for deleted.
RecoveryUnread(a) == "unlink"

\* A file whose row is there goes back, another one goes away.
Recovery(a) == IF row[a] = "none" THEN "unlink" ELSE "link"

RecoverNext(p) ==
    /\ pod[p].pc = "recover"
    /\ IF pod[p].queue = {} THEN Goes(p, [pod[p] EXCEPT !.pc = "list"])
       ELSE \E e \in pod[p].queue :
            Goes(p, [pod[p] EXCEPT !.pc = Recovery(e[1]), !.now = e, !.back = "recover",
                                   !.queue = @ \ {e}])
    /\ UNCHANGED <<row, old, snap, file, pending, moves, upload, deleting, faults>>

ListOrphans(p) ==
    /\ pod[p].pc = "list"
    /\ Goes(p, [pod[p] EXCEPT !.pc = "next", !.todo = Orphans \cap old])
    /\ UNCHANGED <<row, old, snap, file, pending, moves, upload, deleting, faults>>

\* Mutant: the row is not read again under its lock.
StillOrphanUnread(a) == row[a] # "none"

StillOrphan(a) == row[a] = "orphan" /\ a \in old

LockNext(p) ==
    /\ pod[p].pc = "next"
    /\ IF pod[p].todo = {} THEN Goes(p, Idle)
       ELSE \E a \in pod[p].todo :
            /\ ~Locked(a)
            /\ Goes(p, IF StillOrphan(a)
                       THEN [pod[p] EXCEPT !.pc = "stage", !.now = <<a, 0>>, !.open = TRUE,
                                           !.todo = @ \ {a}]
                       ELSE [pod[p] EXCEPT !.todo = @ \ {a}])
    /\ UNCHANGED <<row, old, snap, file, pending, moves, upload, deleting, faults>>

\* stageDelete: the bytes, if they are there, move under a name of this run.
Stage(p) ==
    /\ pod[p].pc = "stage"
    /\ LET a == pod[p].now[1]
           name == <<a, moves[a] + 1>>
       IN IF a \in file
          THEN /\ file' = file \ {a}
               /\ pending' = pending \cup {name}
               /\ moves' = [moves EXCEPT ![a] = @ + 1]
               /\ Goes(p, [pod[p] EXCEPT !.pc = "drop", !.now = name, !.back = "next"])
          ELSE /\ Goes(p, [pod[p] EXCEPT !.pc = "dropOnly"])
               /\ UNCHANGED <<file, pending, moves>>
    /\ UNCHANGED <<row, old, snap, upload, deleting, faults>>

\* The row is deleted; without a file of its own the run has nothing left to do.
CommitDelete(p) ==
    /\ pod[p].pc \in {"drop", "dropOnly"} /\ pod[p].open
    /\ row' = [row EXCEPT ![pod[p].now[1]] = "none"]
    /\ Goes(p, [pod[p] EXCEPT !.pc = IF @ = "drop" THEN "unlink" ELSE "next", !.open = FALSE])
    /\ UNCHANGED <<old, snap, file, pending, moves, upload, deleting, faults>>

\* Fifteen seconds: the transaction is gone, the callback goes on.
TimesOut(p) ==
    /\ pod[p].open /\ Faulty
    /\ Goes(p, [pod[p] EXCEPT !.open = FALSE])
    /\ UNCHANGED <<row, old, snap, file, pending, moves, upload, deleting>>

\* The catch block: the file goes back and the run ends.
DeleteThrows(p) ==
    /\ pod[p].pc \in {"drop", "dropOnly"} /\ ~pod[p].open
    /\ Goes(p, IF pod[p].pc = "drop" THEN [pod[p] EXCEPT !.pc = "link", !.back = "idle"] ELSE Idle)
    /\ UNCHANGED <<row, old, snap, file, pending, moves, upload, deleting, faults>>

CommitAnswerLost(p) ==
    /\ pod[p].pc \in {"drop", "dropOnly"} /\ pod[p].open /\ Faulty
    /\ row' = [row EXCEPT ![pod[p].now[1]] = "none"]
    /\ Goes(p, [pod[p] EXCEPT !.open = FALSE])
    /\ UNCHANGED <<old, snap, file, pending, moves, upload, deleting>>

Back(p) == Goes(p, IF pod[p].back = "idle" THEN Idle ELSE [pod[p] EXCEPT !.pc = pod[p].back])

\* restoreStagedDelete: link, which never overwrites, ...
RestoreLinks(p) ==
    /\ pod[p].pc = "link"
    /\ IF pod[p].now \in pending
       THEN file' = file \cup {pod[p].now[1]} /\ Goes(p, [pod[p] EXCEPT !.pc = "unlink"])
       ELSE Back(p) /\ UNCHANGED file
    /\ UNCHANGED <<row, old, snap, pending, moves, upload, deleting, faults>>

\* ... then unlink, which is all that finalizeStagedDelete does.
Unlinks(p) ==
    /\ pod[p].pc = "unlink"
    /\ pending' = pending \ {pod[p].now}
    /\ Back(p)
    /\ UNCHANGED <<row, old, snap, file, moves, upload, deleting, faults>>

FileCallFails(p) ==
    /\ pod[p].pc \in {"link", "unlink"} /\ Faulty
    /\ Back(p)
    /\ UNCHANGED <<row, old, snap, file, pending, moves, upload, deleting>>

PodDies(p) ==
    /\ pod[p].pc # "idle" /\ Faulty
    /\ Goes(p, Idle)
    /\ UNCHANGED <<row, old, snap, file, pending, moves, upload, deleting>>
--------------------------------------------------------------------------------
CleanupStep(p) ==
    \/ ListStaged(p) \/ RecoverNext(p) \/ ListOrphans(p) \/ LockNext(p) \/ Stage(p)
    \/ CommitDelete(p) \/ DeleteThrows(p) \/ RestoreLinks(p) \/ Unlinks(p)

Next ==
    \/ \E a \in Att : \/ StartUpload(a) \/ Adopt(a) \/ CommitUpload(a) \/ UploadFails(a)
                      \/ UndoUpload(a) \/ Link(a) \/ SnapshotForMail(a) \/ Age(a)
                      \/ DeleteAttachment(a) \/ DeleteFile(a)
    \/ \E p \in Pod : \/ CleanupStep(p) \/ TimesOut(p) \/ CommitAnswerLost(p)
                      \/ FileCallFails(p) \/ PodDies(p)

Spec == Init /\ [][Next]_vars

\* The timer of every process, of five minutes, fires again and again.
Fairness == \A p \in Pod : WF_vars(CleanupStep(p))

FairSpec == Spec /\ Fairness
--------------------------------------------------------------------------------
TypeOK ==
    /\ row \in [Att -> {"none", "orphan", "linked"}]
    /\ old \subseteq Att /\ snap \subseteq Att /\ file \subseteq Att /\ deleting \subseteq Att
    /\ pending \subseteq Att \X (1 .. MaxFaults + 1)
    /\ upload \in [Att -> {"new", "adopt", "adoptLinked", "commit", "commitLinked", "undo",
                           "done", "failed"}]
    /\ \A p \in Pod : /\ pod[p].todo \subseteq Att /\ pod[p].queue \subseteq Att \X (1 .. MaxFaults + 1)
                      /\ pod[p].open => pod[p].pc \in {"stage", "drop", "dropOnly"}

\* The bytes of an attachment whose upload was answered are at its key or in the
\* queue they can come back from while its row is there, whatever two cleanups,
\* their recoveries, aborted transactions and crashes do (orphan-cleanup.service.ts).
AnsweredUploadsKeepBytes ==
    \A a \in Att : upload[a] = "done" /\ row[a] # "none" =>
        a \in file \/ \E e \in pending : e[1] = a

\* attachment-capacity.service.ts: "making the configured outstanding row/byte caps
\* authoritative", across uploads that all passed the check before their bytes came.
OrphansWithinCapacity == Cardinality(Orphans) <= MaxOrphans

\* What uploads, deletes and cleanups do to each other's rows and files.
FilesInv == TypeOK /\ AnsweredUploadsKeepBytes /\ OrphansWithinCapacity

\* What a post, a note or a queued mail uses is never swept, also when it was adopted
\* after the sweep read it as an orphan; and what a mail uses is not deleted at all.
UsedAttachmentsStay ==
    [][\A a \in Att : row[a] = "linked" /\ row'[a] = "none" =>
          a \in deleting' \ deleting /\ a \notin snap]_vars

\* What is in the deletion queue goes back or away in the end: as many files as
\* there are, the queue is empty at last (recoverStagedDeletes of a later run).
StagedDeletesEnd == <>[](pending = {})

================================================================================
