---------------------------- MODULE RawMimeStaging ----------------------------
(***************************************************************************)
(* The staging of large raw MIME: a writer reserves a stage row, writes a  *)
(* private temporary file, publishes it by a rename under the row's lock,  *)
(* and accepts the delivery that points to it; writers that fail discard   *)
(* their stage; reapers clean up behind writers that died or were slow;    *)
(* retention removes the files of pruned deliveries.                       *)
(*                                                                         *)
(* PostgreSQL and the upload volume are two stores with no common          *)
(* transaction. Short transactions are single steps; the two that hold the *)
(* stage row's lock across other work (publish, acceptance) are not.       *)
(***************************************************************************)
EXTENDS Naturals, FiniteSets

CONSTANTS
    Key,        \* storage keys; every write allocates a fresh one
    Reaper,     \* retention cycles of the API processes
    MaxFaults   \* bound: crashes and failed calls

ASSUME FaultAssumption == MaxFaults \in Nat

VARIABLES
    stage,      \* InboundRawMimeStaging.state of a key
    expired,    \* its leaseExpiresAt has passed
    locked,     \* a writer's transaction holds its row lock
    temp, file, \* the temporary and the published file exist
    marker,     \* the pending marker: "none", "fresh", "old"
    pointer,    \* InboundDelivery.rawStorageKey: "none", "held", "pruned", "forgotten"
    writer,     \* the writers, by key
    reaper,     \* the reapers
    removed,    \* keys whose pruned file a retention cycle has just removed
    faults

vars == <<stage, expired, locked, temp, file, marker, pointer, writer, reaper, removed, faults>>

WriterPc == {"start", "marker", "temp", "publish", "rename", "refresh", "accept", "insert",
             "dropMarker", "dropStage", "cleanTemp", "discard", "unlink", "delete",
             "unmark", "done"}
ReaperPc == {"idle", "claim", "finalize", "unlink", "delete", "visible", "reference",
             "orphan", "unmark"}

TypeOK ==
    /\ stage \in [Key -> {"none", "ACTIVE", "COMMITTED", "REAPING"}]
    /\ expired \in [Key -> BOOLEAN] /\ locked \in [Key -> BOOLEAN]
    /\ temp \in [Key -> BOOLEAN] /\ file \in [Key -> BOOLEAN]
    /\ marker \in [Key -> {"none", "fresh", "old"}]
    /\ pointer \in [Key -> {"none", "held", "pruned", "forgotten"}]
    /\ writer \in [Key -> [pc: WriterPc, published: BOOLEAN]]
    /\ reaper \in [Reaper -> [pc: ReaperPc, todo: SUBSET Key, now: SUBSET Key]]
    /\ removed \subseteq Key
    /\ faults \in Nat

Start == [pc |-> "start", published |-> FALSE]
Idle  == [pc |-> "idle", todo |-> {}, now |-> {}]

Init ==
    /\ stage = [k \in Key |-> "none"]
    /\ expired = [k \in Key |-> FALSE] /\ locked = [k \in Key |-> FALSE]
    /\ temp = [k \in Key |-> FALSE] /\ file = [k \in Key |-> FALSE]
    /\ marker = [k \in Key |-> "none"]
    /\ pointer = [k \in Key |-> "none"]
    /\ writer = [k \in Key |-> Start]
    /\ reaper = [r \in Reaper |-> Idle]
    /\ removed = {}
    /\ faults = 0

Referenced(k) == pointer[k] \in {"held", "pruned"}

At(k, pc) == writer[k].pc = pc
Go(k, pc) == writer' = [writer EXCEPT ![k].pc = pc]

--------------------------------------------------------------------------------
(* The writer: persistRawMime and writeFenced.                             *)

\* reserveRawMimeStage commits before any file is touched.
Reserve(k) ==
    /\ At(k, "start")
    /\ stage' = [stage EXCEPT ![k] = "ACTIVE"]
    /\ Go(k, "marker")
    /\ UNCHANGED <<expired, locked, temp, file, marker, pointer, reaper, removed, faults>>

WriteMarker(k) ==
    /\ At(k, "marker")
    /\ marker' = [marker EXCEPT ![k] = "fresh"]
    /\ Go(k, "temp")
    /\ UNCHANGED <<stage, expired, locked, temp, file, pointer, reaper, removed, faults>>

WriteTemp(k) ==
    /\ At(k, "temp")
    /\ temp' = [temp EXCEPT ![k] = TRUE]
    /\ Go(k, "publish")
    /\ UNCHANGED <<stage, expired, locked, file, marker, pointer, reaper, removed, faults>>

\* Mutant: a stage that is being reaped can still be used.
LockableUnlessGone(k) == stage[k] \in {"ACTIVE", "REAPING"}

\* SELECT .. WHERE state = 'ACTIVE' FOR UPDATE, or the fence is lost.
Lockable(k) == stage[k] = "ACTIVE"

PublishLocks(k) ==
    /\ At(k, "publish")
    /\ IF Lockable(k) THEN locked' = [locked EXCEPT ![k] = TRUE] /\ Go(k, "rename")
                      ELSE Go(k, "cleanTemp") /\ UNCHANGED locked
    /\ UNCHANGED <<stage, expired, temp, file, marker, pointer, reaper, removed, faults>>

\* A temporary file that is gone makes the rename fail, and the fence roll back.
Rename(k) ==
    /\ At(k, "rename")
    /\ IF temp[k]
       THEN /\ temp' = [temp EXCEPT ![k] = FALSE] /\ file' = [file EXCEPT ![k] = TRUE]
            /\ writer' = [writer EXCEPT ![k] = [pc |-> "refresh", published |-> TRUE]]
            /\ UNCHANGED locked
       ELSE /\ locked' = [locked EXCEPT ![k] = FALSE]
            /\ Go(k, "cleanTemp")
            /\ UNCHANGED <<temp, file>>
    /\ UNCHANGED <<stage, expired, marker, pointer, reaper, removed, faults>>

\* The publish transaction renews the lease and commits.
Refresh(k) ==
    /\ At(k, "refresh")
    /\ expired' = [expired EXCEPT ![k] = FALSE]
    /\ locked' = [locked EXCEPT ![k] = FALSE]
    /\ Go(k, "accept")
    /\ UNCHANGED <<stage, temp, file, marker, pointer, reaper, removed, faults>>

\* The acceptance transaction locks the stage, or finds the fence gone.
AcceptLocks(k) ==
    /\ At(k, "accept")
    /\ IF Lockable(k) THEN locked' = [locked EXCEPT ![k] = TRUE] /\ Go(k, "insert")
                      ELSE Go(k, "discard") /\ UNCHANGED locked
    /\ UNCHANGED <<stage, expired, temp, file, marker, pointer, reaper, removed, faults>>

\* A duplicate, a changed queue or a collision: the delivery is not accepted.
Declines(k) ==
    /\ writer[k].pc \in {"accept", "insert"}
    /\ locked' = [locked EXCEPT ![k] = FALSE]
    /\ Go(k, "discard")
    /\ UNCHANGED <<stage, expired, temp, file, marker, pointer, reaper, removed, faults>>

\* One transaction inserts the pointer and marks the stage COMMITTED.
CommitPointer(k) ==
    /\ At(k, "insert")
    /\ pointer' = [pointer EXCEPT ![k] = "held"]
    /\ stage' = [stage EXCEPT ![k] = "COMMITTED"]
    /\ locked' = [locked EXCEPT ![k] = FALSE]

Accepts(k) ==
    /\ CommitPointer(k)
    /\ Go(k, "dropMarker")
    /\ UNCHANGED <<expired, temp, file, marker, reaper, removed, faults>>

\* It commits, but its answer is lost: the writer discards.
AcceptAnswerLost(k) ==
    /\ faults < MaxFaults
    /\ CommitPointer(k)
    /\ Go(k, "discard")
    /\ faults' = faults + 1
    /\ UNCHANGED <<expired, temp, file, marker, reaper, removed>>

\* finalizeAcceptedRawStage: the marker first, then the COMMITTED stage.
DropMarker(k) ==
    /\ At(k, "dropMarker")
    /\ marker' = [marker EXCEPT ![k] = "none"]
    /\ Go(k, "dropStage")
    /\ UNCHANGED <<stage, expired, locked, temp, file, pointer, reaper, removed, faults>>

\* Mutant: the finished stage is only marked.
DropStageSoftly(k) ==
    /\ At(k, "dropStage")
    /\ stage' = [stage EXCEPT ![k] = IF Referenced(k) /\ @ = "COMMITTED" THEN "DONE" ELSE @]
    /\ Go(k, "done")
    /\ UNCHANGED <<expired, locked, temp, file, marker, pointer, reaper, removed, faults>>

DropStage(k) ==
    /\ At(k, "dropStage")
    /\ stage' = [stage EXCEPT ![k] = IF Referenced(k) /\ @ = "COMMITTED" THEN "none" ELSE @]
    /\ Go(k, "done")
    /\ UNCHANGED <<expired, locked, temp, file, marker, pointer, reaper, removed, faults>>

--------------------------------------------------------------------------------
(* A write that fails: the catch blocks of writeFenced and persistRawMime. *)

CleanTemp(k) ==
    /\ At(k, "cleanTemp")
    /\ temp' = [temp EXCEPT ![k] = FALSE]
    /\ marker' = [marker EXCEPT ![k] = IF writer[k].published THEN @ ELSE "none"]
    /\ Go(k, "discard")
    /\ UNCHANGED <<stage, expired, locked, file, pointer, reaper, removed, faults>>

\* The two unlinks of the catch block swallow their errors one by one.
CleanTempFails(k) ==
    /\ At(k, "cleanTemp") /\ faults < MaxFaults
    /\ \/ marker' = [marker EXCEPT ![k] = IF writer[k].published THEN @ ELSE "none"]
          /\ UNCHANGED temp
       \/ temp' = [temp EXCEPT ![k] = FALSE] /\ UNCHANGED marker
    /\ Go(k, "discard")
    /\ faults' = faults + 1
    /\ UNCHANGED <<stage, expired, locked, file, pointer, reaper, removed>>

\* Mutant: the discard does not look at the state.
DiscardAnything(k) ==
    /\ At(k, "discard")
    /\ stage' = [stage EXCEPT ![k] = "REAPING"]
    /\ Go(k, "unlink")
    /\ UNCHANGED <<expired, locked, temp, file, marker, pointer, reaper, removed, faults>>

\* discardRawStage: REAPING is durable before the file is removed.
Discard(k) ==
    /\ At(k, "discard")
    /\ IF stage[k] = "ACTIVE"
       THEN stage' = [stage EXCEPT ![k] = "REAPING"] /\ Go(k, "unlink")
       ELSE Go(k, "done") /\ UNCHANGED stage
    /\ UNCHANGED <<expired, locked, temp, file, marker, pointer, reaper, removed, faults>>

DiscardUnlinks(k) ==
    /\ At(k, "unlink")
    /\ file' = [file EXCEPT ![k] = FALSE] /\ temp' = [temp EXCEPT ![k] = FALSE]
    /\ Go(k, "delete")
    /\ UNCHANGED <<stage, expired, locked, marker, pointer, reaper, removed, faults>>

DiscardDeletes(k) ==
    /\ At(k, "delete")
    /\ IF stage[k] = "REAPING"
       THEN stage' = [stage EXCEPT ![k] = "none"] /\ Go(k, "unmark")
       ELSE Go(k, "done") /\ UNCHANGED stage
    /\ UNCHANGED <<expired, locked, temp, file, marker, pointer, reaper, removed, faults>>

DiscardUnmarks(k) ==
    /\ At(k, "unmark")
    /\ marker' = [marker EXCEPT ![k] = "none"]
    /\ Go(k, "done")
    /\ UNCHANGED <<stage, expired, locked, temp, file, pointer, reaper, removed, faults>>

\* A failed call: while writing it is cleaned up, after the acceptance or in
\* a clean-up it is left to the reaper.
AfterFailure(pc) ==
    CASE pc \in {"marker", "temp", "publish", "rename", "refresh"} -> "cleanTemp"
      [] pc \in {"accept", "insert"} -> "discard"
      [] OTHER -> "done"

WriterFails(k) ==
    /\ faults < MaxFaults /\ writer[k].pc \notin {"start", "cleanTemp", "done"}
    /\ Go(k, AfterFailure(writer[k].pc))
    /\ locked' = [locked EXCEPT ![k] = FALSE]
    /\ faults' = faults + 1
    /\ UNCHANGED <<stage, expired, temp, file, marker, pointer, reaper, removed>>

\* The process dies: its transaction rolls back, its files stay.
WriterDies(k) ==
    /\ faults < MaxFaults /\ ~At(k, "done") /\ ~At(k, "start")
    /\ Go(k, "done")
    /\ locked' = [locked EXCEPT ![k] = FALSE]
    /\ faults' = faults + 1
    /\ UNCHANGED <<stage, expired, temp, file, marker, pointer, reaper, removed>>

--------------------------------------------------------------------------------
(* The reaper: cleanupUncommittedRawStorage.                               *)

Expired(k) == stage[k] = "ACTIVE" /\ expired[k]

\* Old markers, and the stages that are finished or have run out.
Candidates == {k \in Key : marker[k] = "old" \/ stage[k] \in {"COMMITTED", "REAPING"}
                           \/ Expired(k)}

ReaperGo(r, pc) == reaper' = [reaper EXCEPT ![r].pc = pc]
\* On to the next candidate.
NextKey(r) == reaper' = [reaper EXCEPT ![r].pc = "finalize", ![r].now = {}]

Scan(r) ==
    /\ reaper[r].pc = "idle" /\ Candidates # {}
    /\ reaper' = [reaper EXCEPT ![r] = [pc |-> "claim", todo |-> Candidates, now |-> {}]]
    /\ UNCHANGED <<stage, expired, locked, temp, file, marker, pointer, writer, removed, faults>>

\* Mutant: only stages that left a marker are claimed.
ClaimsMarked(k) == Expired(k) /\ ~locked[k] /\ marker[k] = "old"

\* claimExpiredRawMimeStages: FOR UPDATE SKIP LOCKED.
Claims(k) == Expired(k) /\ ~locked[k]

ClaimExpired(r) ==
    /\ reaper[r].pc = "claim"
    /\ stage' = [k \in Key |-> IF k \in reaper[r].todo /\ Claims(k) THEN "REAPING" ELSE stage[k]]
    /\ NextKey(r)
    /\ UNCHANGED <<expired, locked, temp, file, marker, pointer, writer, removed, faults>>

\* finalizeRawMimeStage, its transaction: what to do with a candidate.
FinalizePc(k) ==
    IF locked[k] \/ stage[k] = "none" THEN "visible"
    ELSE IF stage[k] = "COMMITTED" /\ Referenced(k) THEN "unmark"
    ELSE IF stage[k] = "REAPING" /\ ~Referenced(k) THEN "unlink"
    ELSE "finalize"

Finalize(r) ==
    /\ reaper[r].pc = "finalize"
    /\ \E k \in reaper[r].todo :
         /\ reaper' = [reaper EXCEPT ![r].pc = FinalizePc(k), ![r].todo = @ \ {k}, 
                                         ![r].now = IF FinalizePc(k) = "finalize" THEN {} ELSE {k}]
         /\ stage' = [stage EXCEPT ![k] = IF FinalizePc(k) = "unmark" THEN "none" ELSE @]
    /\ UNCHANGED <<expired, locked, temp, file, marker, pointer, writer, removed, faults>>

SweepEnds(r) ==
    /\ reaper[r].pc = "finalize" /\ reaper[r].todo = {}
    /\ reaper' = [reaper EXCEPT ![r] = Idle]
    /\ UNCHANGED <<stage, expired, locked, temp, file, marker, pointer, writer, removed, faults>>

\* Mutant: only the temporary file is removed.
UnlinkTempOnly(r) ==
    /\ reaper[r].pc \in {"unlink", "orphan"}
    /\ temp' = [k \in Key |-> temp[k] /\ k \notin reaper[r].now]
    /\ ReaperGo(r, IF reaper[r].pc = "unlink" THEN "delete" ELSE "unmark")
    /\ UNCHANGED <<stage, expired, locked, file, marker, pointer, writer, removed, faults>>

\* removeFile: the published and the temporary file.
Unlink(r) ==
    /\ reaper[r].pc \in {"unlink", "orphan"}
    /\ file' = [k \in Key |-> file[k] /\ k \notin reaper[r].now]
    /\ temp' = [k \in Key |-> temp[k] /\ k \notin reaper[r].now]
    /\ ReaperGo(r, IF reaper[r].pc = "unlink" THEN "delete" ELSE "unmark")
    /\ UNCHANGED <<stage, expired, locked, marker, pointer, writer, removed, faults>>

DeleteStage(r) ==
    /\ reaper[r].pc = "delete"
    /\ stage' = [k \in Key |-> IF k \in reaper[r].now /\ stage[k] = "REAPING" THEN "none"
                               ELSE stage[k]]
    /\ ReaperGo(r, "unmark")
    /\ UNCHANGED <<expired, locked, temp, file, marker, pointer, writer, removed, faults>>

\* Mutant: the stage is not looked for, a lock miss is taken for an orphan.
TrustsLockMiss(r) ==
    /\ reaper[r].pc = "visible"
    /\ ReaperGo(r, "reference")
    /\ UNCHANGED <<stage, expired, locked, temp, file, marker, pointer, writer, removed, faults>>

\* No stage could be locked: is there none? And no delivery either?
LooksForStage(r) ==
    /\ reaper[r].pc = "visible"
    /\ IF \E k \in reaper[r].now : stage[k] # "none" THEN NextKey(r) ELSE ReaperGo(r, "reference")
    /\ UNCHANGED <<stage, expired, locked, temp, file, marker, pointer, writer, removed, faults>>

LooksForDelivery(r) ==
    /\ reaper[r].pc = "reference"
    /\ ReaperGo(r, IF \E k \in reaper[r].now : Referenced(k) THEN "unmark" ELSE "orphan")
    /\ UNCHANGED <<stage, expired, locked, temp, file, marker, pointer, writer, removed, faults>>

Unmark(r) ==
    /\ reaper[r].pc = "unmark"
    /\ marker' = [k \in Key |-> IF k \in reaper[r].now THEN "none" ELSE marker[k]]
    /\ NextKey(r)
    /\ UNCHANGED <<stage, expired, locked, temp, file, pointer, writer, removed, faults>>

\* A failed call defers the candidate, or the whole sweep.
ReaperFails(r) ==
    /\ faults < MaxFaults /\ reaper[r].pc # "idle"
    /\ IF reaper[r].pc = "claim" THEN reaper' = [reaper EXCEPT ![r] = Idle] ELSE NextKey(r)
    /\ faults' = faults + 1
    /\ UNCHANGED <<stage, expired, locked, temp, file, marker, pointer, writer, removed>>

ReaperDies(r) ==
    /\ faults < MaxFaults /\ reaper[r].pc # "idle"
    /\ reaper' = [reaper EXCEPT ![r] = Idle]
    /\ faults' = faults + 1
    /\ UNCHANGED <<stage, expired, locked, temp, file, marker, pointer, writer, removed>>

--------------------------------------------------------------------------------
(* Retention of accepted deliveries, and time.                             *)

Prune(k) ==
    /\ pointer[k] = "held"
    /\ pointer' = [pointer EXCEPT ![k] = "pruned"]
    /\ UNCHANGED <<stage, expired, locked, temp, file, marker, writer, reaper, removed, faults>>

\* cleanupPrunedRawStorage: remove the file, then forget the key.
RemovePruned(k) ==
    /\ pointer[k] = "pruned" /\ k \notin removed
    /\ file' = [file EXCEPT ![k] = FALSE] /\ temp' = [temp EXCEPT ![k] = FALSE]
    /\ marker' = [marker EXCEPT ![k] = "none"]
    /\ removed' = removed \cup {k}
    /\ UNCHANGED <<stage, expired, locked, pointer, writer, reaper, faults>>

ForgetPruned(k) ==
    /\ k \in removed /\ pointer[k] = "pruned"
    /\ pointer' = [pointer EXCEPT ![k] = "forgotten"]
    /\ UNCHANGED <<stage, expired, locked, temp, file, marker, writer, reaper, removed, faults>>

\* A write may take longer than its reservation: nothing extends the lease.
LeaseExpires(k) ==
    /\ stage[k] = "ACTIVE" /\ ~expired[k]
    /\ expired' = [expired EXCEPT ![k] = TRUE]
    /\ UNCHANGED <<stage, locked, temp, file, marker, pointer, writer, reaper, removed, faults>>

MarkerAges(k) ==
    /\ marker[k] = "fresh"
    /\ marker' = [marker EXCEPT ![k] = "old"]
    /\ UNCHANGED <<stage, expired, locked, temp, file, pointer, writer, reaper, removed, faults>>

--------------------------------------------------------------------------------
WriterStep(k) ==
    \/ Reserve(k) \/ WriteMarker(k) \/ WriteTemp(k) \/ PublishLocks(k) \/ Rename(k)
    \/ Refresh(k) \/ AcceptLocks(k) \/ Accepts(k) \/ DropMarker(k) \/ DropStage(k)
    \/ CleanTemp(k) \/ Discard(k) \/ DiscardUnlinks(k) \/ DiscardDeletes(k) \/ DiscardUnmarks(k)

ReaperStep(r) ==
    \/ Scan(r) \/ ClaimExpired(r) \/ Finalize(r) \/ SweepEnds(r) \/ Unlink(r)
    \/ DeleteStage(r) \/ LooksForStage(r) \/ LooksForDelivery(r) \/ Unmark(r)

Next ==
    \/ \E k \in Key : \/ WriterStep(k) \/ Declines(k) \/ AcceptAnswerLost(k)
                      \/ CleanTempFails(k) \/ WriterFails(k) \/ WriterDies(k)
                      \/ Prune(k) \/ RemovePruned(k) \/ ForgetPruned(k)
                      \/ LeaseExpires(k) \/ MarkerAges(k)
    \/ \E r \in Reaper : ReaperStep(r) \/ ReaperFails(r) \/ ReaperDies(r)

Spec == Init /\ [][Next]_vars

(* Live flows go on, the retention interval fires, clocks advance.         *)
Fairness == /\ \A k \in Key : /\ WF_vars(WriterStep(k)) /\ WF_vars(LeaseExpires(k))
                              /\ WF_vars(MarkerAges(k))
            /\ \A r \in Reaper : WF_vars(ReaperStep(r))

FairSpec == Spec /\ Fairness
--------------------------------------------------------------------------------
(* Properties.                                                             *)

\* A delivery that was not pruned has its bytes: no discard and no reaper, of
\* whatever age its view of the stage is, unlinks a file that was accepted.
PointerHasBytes == \A k \in Key : pointer[k] = "held" => file[k]

\* The two tables agree: only a COMMITTED stage has a delivery, and a stage is
\* never reaped under one ("REAPING must never have a delivery pointer").
StageAgreesWithLedger ==
    \A k \in Key : /\ stage[k] \in {"ACTIVE", "REAPING"} => pointer[k] = "none"
                   /\ stage[k] = "COMMITTED" => pointer[k] # "none"

\* Published bytes are never orphaned: a delivery points to them or their stage
\* is still there to have them reaped, whoever died in between.
PublishedBytesTraceable ==
    \A k \in Key : file[k] => Referenced(k) \/ stage[k] \in {"ACTIVE", "REAPING"}

\* Once a stage is REAPING nothing publishes under it and nothing accepts it
\* ("a surviving stage could otherwise be accepted later").
ReapedStaysReaped ==
    [][\A k \in Key : stage[k] = "REAPING" =>
          /\ stage'[k] \in {"REAPING", "none"}
          /\ pointer'[k] = pointer[k]
          /\ file'[k] => file[k]]_vars

\* Every reservation ends, accepted or reaped, also when the writer dies before
\* it has left a marker ("before it can block a capture arm forever").
ReservationsEnd ==
    \A k \in Key : stage[k] \in {"ACTIVE", "REAPING"} ~> stage[k] \in {"COMMITTED", "none"}

\* The inductive invariant behind the safety properties: who holds the row lock,
\* what is still possible before the reservation, and what a reaper or a
\* discarding writer may rely on at each of its steps.
LockInv(k) ==
    /\ locked[k] <=> writer[k].pc \in {"rename", "refresh", "insert"}
    /\ locked[k] => stage[k] = "ACTIVE"
StartInv(k) ==
    At(k, "start") => /\ stage[k] = "none" /\ marker[k] = "none" /\ pointer[k] = "none"
                      /\ ~file[k]
                      /\ \A r \in Reaper : k \notin reaper[r].todo \cup reaper[r].now
WriterInv(k) ==
    /\ writer[k].pc \in {"refresh", "accept", "insert"} /\ stage[k] = "ACTIVE" => file[k]
    /\ pointer[k] # "none" => writer[k].pc \in {"dropMarker", "dropStage", "discard", "done"}
    /\ writer[k].pc \in {"unlink", "delete"} => stage[k] \in {"REAPING", "none"}
    /\ At(k, "delete") => ~file[k]
    /\ k \in removed => ~file[k] /\ pointer[k] \in {"pruned", "forgotten"}
    /\ pointer[k] = "forgotten" => k \in removed
ReaperInv(k, r) ==
    k \in reaper[r].now =>
       /\ reaper[r].pc \in {"unlink", "delete"} =>
             stage[k] \in {"REAPING", "none"} /\ ~Referenced(k)
       /\ reaper[r].pc = "delete" => ~file[k]
       /\ reaper[r].pc \in {"reference", "orphan"} => stage[k] = "none"
       /\ reaper[r].pc = "orphan" => ~Referenced(k)
StagingInv ==
    /\ TypeOK /\ PointerHasBytes /\ StageAgreesWithLedger /\ PublishedBytesTraceable
    /\ \A k \in Key : /\ LockInv(k) /\ StartInv(k) /\ WriterInv(k)
                      /\ \A r \in Reaper : ReaperInv(k, r)
================================================================================
