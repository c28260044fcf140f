--------------------------- MODULE BackgroundProofs ---------------------------
(***************************************************************************)
(* Theorems about what works behind the requests.  The staging of raw      *)
(* MIME: for every set of keys, every number of reapers and any number of  *)
(* faults.  The events of workflows and the cleanup of attachments as      *)
(* MCProgress tells them: for every set of events, workers, attachments    *)
(* and processes and every bound on faults.                                *)
(***************************************************************************)
EXTENDS RawMimeStaging, MCProgress, FiniteSetTheorems, TLAPS

LEMMA InitType == Init => TypeOK
  BY FaultAssumption DEF Init, TypeOK, Start, Idle, WriterPc, ReaperPc

(* The steps that move the writer of one key, then the others.             *)
WriterMoves(k) == WriterStep(k) \/ Declines(k) \/ AcceptAnswerLost(k)
                  \/ CleanTempFails(k) \/ WriterFails(k) \/ WriterDies(k)
RetentionMoves(k) == Prune(k) \/ RemovePruned(k) \/ ForgetPruned(k)
                     \/ LeaseExpires(k) \/ MarkerAges(k)
ReaperMoves(r) == ReaperStep(r) \/ ReaperFails(r) \/ ReaperDies(r)

LEMMA AfterFailureType == \A pc \in WriterPc : AfterFailure(pc) \in WriterPc
  BY DEF AfterFailure, WriterPc

(* Where a writer and a reaper may go.                                     *)
WritersOK == writer \in [Key -> [pc: WriterPc, published: BOOLEAN]]
ReapersOK == reaper \in [Reaper -> [pc: ReaperPc, todo: SUBSET Key, now: SUBSET Key]]

LEMMA GoType ==
    ASSUME WritersOK, NEW k \in Key, NEW pc \in WriterPc, Go(k, pc)
    PROVE  WritersOK'
  <1>1. [writer[k] EXCEPT !.pc = pc] \in [pc: WriterPc, published: BOOLEAN]
    BY DEF WritersOK
  <1>2. QED
    BY <1>1 DEF WritersOK, Go

LEMMA ReaperGoType ==
    ASSUME ReapersOK, NEW r \in Reaper, NEW pc \in ReaperPc, ReaperGo(r, pc)
    PROVE  ReapersOK'
  <1>1. [reaper[r] EXCEPT !.pc = pc] \in [pc: ReaperPc, todo: SUBSET Key, now: SUBSET Key]
    BY DEF ReapersOK
  <1>2. QED
    BY <1>1 DEF ReapersOK, ReaperGo

(* What TypeOK asks of the other variables.                                *)
TablesOK ==
    /\ stage \in [Key -> {"none", "ACTIVE", "COMMITTED", "REAPING"}]
    /\ expired \in [Key -> BOOLEAN] /\ locked \in [Key -> BOOLEAN]
    /\ temp \in [Key -> BOOLEAN] /\ file \in [Key -> BOOLEAN]
    /\ marker \in [Key -> {"none", "fresh", "old"}]
    /\ pointer \in [Key -> {"none", "held", "pruned", "forgotten"}]
    /\ removed \subseteq Key
    /\ faults \in Nat

LEMMA TypeParts == TypeOK <=> TablesOK /\ WritersOK /\ ReapersOK
  BY DEF TypeOK, TablesOK, WritersOK, ReapersOK

LEMMA WriterTables ==
    ASSUME TablesOK, NEW k \in Key, WriterMoves(k)
    PROVE  TablesOK'
  <1> USE DEF TablesOK
  <1>1. CASE Reserve(k)
    BY <1>1 DEF Reserve
  <1>2. CASE WriteMarker(k)
    BY <1>2 DEF WriteMarker
  <1>3. CASE WriteTemp(k)
    BY <1>3 DEF WriteTemp
  <1>4. CASE PublishLocks(k)
    BY <1>4 DEF PublishLocks
  <1>5. CASE Rename(k)
    BY <1>5 DEF Rename
  <1>6. CASE Refresh(k)
    BY <1>6 DEF Refresh
  <1>7. CASE AcceptLocks(k)
    BY <1>7 DEF AcceptLocks
  <1>8. CASE Accepts(k)
    BY <1>8 DEF Accepts, CommitPointer
  <1>9. CASE DropMarker(k)
    BY <1>9 DEF DropMarker
  <1>10. CASE DropStage(k)
    BY <1>10 DEF DropStage
  <1>11. CASE CleanTemp(k)
    BY <1>11 DEF CleanTemp
  <1>12. CASE Discard(k)
    BY <1>12 DEF Discard
  <1>13. CASE DiscardUnlinks(k)
    BY <1>13 DEF DiscardUnlinks
  <1>14. CASE DiscardDeletes(k)
    BY <1>14 DEF DiscardDeletes
  <1>15. CASE DiscardUnmarks(k)
    BY <1>15 DEF DiscardUnmarks
  <1>16. CASE Declines(k)
    BY <1>16 DEF Declines
  <1>17. CASE AcceptAnswerLost(k)
    BY <1>17 DEF AcceptAnswerLost, CommitPointer
  <1>18. CASE CleanTempFails(k)
    <2>1. temp' \in [Key -> BOOLEAN]
      BY <1>18 DEF CleanTempFails
    <2>2. marker' \in [Key -> {"none", "fresh", "old"}]
      BY <1>18 DEF CleanTempFails
    <2>3. QED
      BY <1>18, <2>1, <2>2 DEF CleanTempFails
  <1>19. CASE WriterFails(k)
    BY <1>19 DEF WriterFails
  <1>20. CASE WriterDies(k)
    BY <1>20 DEF WriterDies
  <1>21. QED
    BY <1>1, <1>2, <1>3, <1>4, <1>5, <1>6, <1>7, <1>8, <1>9, <1>10, <1>11, <1>12, <1>13, <1>14, <1>15, <1>16, <1>17, <1>18, <1>19, <1>20 DEF WriterMoves, WriterStep

LEMMA WriterWriters ==
    ASSUME WritersOK, NEW k \in Key, WriterMoves(k)
    PROVE  WritersOK'
  <1>1. CASE Reserve(k)
    BY <1>1, GoType DEF Reserve, WriterPc
  <1>2. CASE WriteMarker(k)
    BY <1>2, GoType DEF WriteMarker, WriterPc
  <1>3. CASE WriteTemp(k)
    BY <1>3, GoType DEF WriteTemp, WriterPc
  <1>4. CASE PublishLocks(k)
    BY <1>4, GoType DEF PublishLocks, WriterPc
  <1>5. CASE Rename(k)
    <2>1. CASE writer' = [writer EXCEPT ![k] = [pc |-> "refresh", published |-> TRUE]]
      BY <2>1 DEF WritersOK, WriterPc
    <2>2. CASE Go(k, "cleanTemp")
      BY <2>2, GoType DEF WriterPc
    <2>3. QED
      BY <1>5, <2>1, <2>2 DEF Rename
  <1>6. CASE Refresh(k)
    BY <1>6, GoType DEF Refresh, WriterPc
  <1>7. CASE AcceptLocks(k)
    BY <1>7, GoType DEF AcceptLocks, WriterPc
  <1>8. CASE Accepts(k)
    BY <1>8, GoType DEF Accepts, WriterPc
  <1>9. CASE DropMarker(k)
    BY <1>9, GoType DEF DropMarker, WriterPc
  <1>10. CASE DropStage(k)
    BY <1>10, GoType DEF DropStage, WriterPc
  <1>11. CASE CleanTemp(k)
    BY <1>11, GoType DEF CleanTemp, WriterPc
  <1>12. CASE Discard(k)
    BY <1>12, GoType DEF Discard, WriterPc
  <1>13. CASE DiscardUnlinks(k)
    BY <1>13, GoType DEF DiscardUnlinks, WriterPc
  <1>14. CASE DiscardDeletes(k)
    BY <1>14, GoType DEF DiscardDeletes, WriterPc
  <1>15. CASE DiscardUnmarks(k)
    BY <1>15, GoType DEF DiscardUnmarks, WriterPc
  <1>16. CASE Declines(k)
    BY <1>16, GoType DEF Declines, WriterPc
  <1>17. CASE AcceptAnswerLost(k)
    BY <1>17, GoType DEF AcceptAnswerLost, WriterPc
  <1>18. CASE CleanTempFails(k)
    BY <1>18, GoType DEF CleanTempFails, WriterPc
  <1>19. CASE WriterFails(k)
    <2>1. AfterFailure(writer[k].pc) \in WriterPc
      BY AfterFailureType DEF WritersOK
    <2>2. QED
      BY <1>19, <2>1, GoType DEF WriterFails
  <1>20. CASE WriterDies(k)
    BY <1>20, GoType DEF WriterDies, WriterPc
  <1>21. QED
    BY <1>1, <1>2, <1>3, <1>4, <1>5, <1>6, <1>7, <1>8, <1>9, <1>10, <1>11, <1>12, <1>13, <1>14, <1>15, <1>16, <1>17, <1>18, <1>19, <1>20 DEF WriterMoves, WriterStep

LEMMA WriterType ==
    ASSUME TypeOK, NEW k \in Key, WriterMoves(k)
    PROVE  TypeOK'
  <1>1. TablesOK' /\ WritersOK'
    BY TypeParts, WriterTables, WriterWriters
  <1>2. UNCHANGED reaper
    BY DEF WriterMoves, WriterStep, Reserve, WriteMarker, WriteTemp, PublishLocks, Rename, Refresh, AcceptLocks, Accepts, DropMarker, DropStage, CleanTemp, Discard, DiscardUnlinks, DiscardDeletes, DiscardUnmarks, Declines, AcceptAnswerLost, CleanTempFails, WriterFails, WriterDies
  <1>3. QED
    BY <1>1, <1>2, TypeParts DEF TypeOK, TablesOK, WritersOK

LEMMA RetentionType ==
    ASSUME TypeOK, NEW k \in Key, RetentionMoves(k)
    PROVE  TypeOK'
  <1> USE DEF TypeOK
  <1>1. CASE Prune(k)
    BY <1>1 DEF Prune
  <1>2. CASE RemovePruned(k)
    BY <1>2 DEF RemovePruned
  <1>3. CASE ForgetPruned(k)
    BY <1>3 DEF ForgetPruned
  <1>4. CASE LeaseExpires(k)
    BY <1>4 DEF LeaseExpires
  <1>5. CASE MarkerAges(k)
    BY <1>5 DEF MarkerAges
  <1>6. QED
    BY <1>1, <1>2, <1>3, <1>4, <1>5 DEF RetentionMoves

LEMMA ReaperTables ==
    ASSUME TablesOK, NEW r \in Reaper, ReaperMoves(r)
    PROVE  TablesOK'
  <1> USE DEF TablesOK
  <1>1. CASE Scan(r)
    BY <1>1 DEF Scan
  <1>2. CASE ClaimExpired(r)
    BY <1>2 DEF ClaimExpired
  <1>3. CASE Finalize(r)
    <2>1. PICK k \in reaper[r].todo :
            stage' = [stage EXCEPT ![k] = IF FinalizePc(k) = "unmark" THEN "none" ELSE @]
      BY <1>3, Zenon DEF Finalize
    <2>2. stage' \in [Key -> {"none", "ACTIVE", "COMMITTED", "REAPING"}]
      BY <2>1
    <2>3. QED
      BY <1>3, <2>2 DEF Finalize
  <1>4. CASE SweepEnds(r)
    BY <1>4 DEF SweepEnds
  <1>5. CASE Unlink(r)
    BY <1>5 DEF Unlink
  <1>6. CASE DeleteStage(r)
    BY <1>6 DEF DeleteStage
  <1>7. CASE LooksForStage(r)
    BY <1>7 DEF LooksForStage
  <1>8. CASE LooksForDelivery(r)
    BY <1>8 DEF LooksForDelivery
  <1>9. CASE Unmark(r)
    BY <1>9 DEF Unmark
  <1>10. CASE ReaperFails(r)
    BY <1>10 DEF ReaperFails
  <1>11. CASE ReaperDies(r)
    BY <1>11 DEF ReaperDies
  <1>12. QED
    BY <1>1, <1>2, <1>3, <1>4, <1>5, <1>6, <1>7, <1>8, <1>9, <1>10, <1>11 DEF ReaperMoves, ReaperStep

LEMMA NextKeyType ==
    ASSUME ReapersOK, NEW r \in Reaper, NextKey(r)
    PROVE  ReapersOK'
  <1>1. [reaper[r] EXCEPT !.pc = "finalize", !.now = {}]
          \in [pc: ReaperPc, todo: SUBSET Key, now: SUBSET Key]
    BY DEF ReapersOK, ReaperPc
  <1>2. QED
    BY <1>1 DEF ReapersOK, NextKey

LEMMA ReaperReapers ==
    ASSUME ReapersOK, NEW r \in Reaper, ReaperMoves(r)
    PROVE  ReapersOK'
  <1> USE ReaperGoType, NextKeyType DEF ReaperPc
  <1>1. CASE Scan(r)
    BY <1>1 DEF Scan, Candidates, ReapersOK
  <1>2. CASE ClaimExpired(r)
    BY <1>2 DEF ClaimExpired
  <1>3. CASE Finalize(r)
    <2>1. PICK k \in reaper[r].todo :
            reaper' = [reaper EXCEPT ![r].pc = FinalizePc(k), ![r].todo = @ \ {k},
                                     ![r].now = IF FinalizePc(k) = "finalize" THEN {} ELSE {k}]
      BY <1>3, Zenon DEF Finalize
    <2>2. FinalizePc(k) \in ReaperPc /\ k \in Key
      BY DEF FinalizePc, ReapersOK
    <2> DEFINE now == IF FinalizePc(k) = "finalize" THEN {} ELSE {k}
               x == [reaper[r] EXCEPT !.pc = FinalizePc(k), !.todo = @ \ {k}, !.now = now]
    <2>3. now \in SUBSET Key
      BY <2>2
    <2>4. reaper' = [reaper EXCEPT ![r] = x]
      BY <2>1 DEF ReapersOK
    <2> HIDE DEF now
    <2>5. x \in [pc: ReaperPc, todo: SUBSET Key, now: SUBSET Key]
      BY <2>2, <2>3 DEF ReapersOK
    <2> HIDE DEF x
    <2>6. QED
      BY <2>4, <2>5 DEF ReapersOK
  <1>4. CASE SweepEnds(r)
    BY <1>4 DEF SweepEnds, ReapersOK, Idle
  <1>5. CASE Unlink(r)
    BY <1>5 DEF Unlink
  <1>6. CASE DeleteStage(r)
    BY <1>6 DEF DeleteStage
  <1>7. CASE LooksForStage(r)
    BY <1>7 DEF LooksForStage
  <1>8. CASE LooksForDelivery(r)
    BY <1>8 DEF LooksForDelivery
  <1>9. CASE Unmark(r)
    BY <1>9 DEF Unmark
  <1>10. CASE ReaperFails(r)
    BY <1>10 DEF ReaperFails, ReapersOK, Idle
  <1>11. CASE ReaperDies(r)
    BY <1>11 DEF ReaperDies, ReapersOK, Idle
  <1>12. QED
    BY <1>1, <1>2, <1>3, <1>4, <1>5, <1>6, <1>7, <1>8, <1>9, <1>10, <1>11 DEF ReaperMoves, ReaperStep

LEMMA ReaperType ==
    ASSUME TypeOK, NEW r \in Reaper, ReaperMoves(r)
    PROVE  TypeOK'
  <1>1. TablesOK' /\ ReapersOK'
    BY TypeParts, ReaperTables, ReaperReapers
  <1>2. UNCHANGED writer
    BY DEF ReaperMoves, ReaperStep, Scan, ClaimExpired, Finalize, SweepEnds, Unlink, DeleteStage, LooksForStage, LooksForDelivery, Unmark, ReaperFails, ReaperDies
  <1>3. QED
    BY <1>1, <1>2, TypeParts DEF TypeOK, TablesOK, ReapersOK

LEMMA TypeStep == TypeOK /\ [Next]_vars => TypeOK'
  <1> SUFFICES ASSUME TypeOK, [Next]_vars PROVE TypeOK'
    OBVIOUS
  <1>1. CASE UNCHANGED vars
    BY <1>1 DEF TypeOK, vars
  <1>2. CASE \E k \in Key : WriterMoves(k) \/ RetentionMoves(k)
    BY <1>2, WriterType, RetentionType
  <1>3. CASE \E r \in Reaper : ReaperMoves(r)
    BY <1>3, ReaperType
  <1>4. QED
    BY <1>1, <1>2, <1>3 DEF Next, WriterMoves, RetentionMoves, ReaperMoves

(* Every value of the state is of the shape the code gives it: stages,     *)
(* pointers, markers and the steps of writers and reapers.                 *)
THEOREM TypeCorrect == Spec => []TypeOK
  BY InitType, TypeStep, PTL DEF Spec
--------------------------------------------------------------------------------
(* The inductive invariant, key by key.                                    *)
TableInv(k) ==
    /\ pointer[k] = "held" => file[k]
    /\ stage[k] \in {"ACTIVE", "REAPING"} => pointer[k] = "none"
    /\ stage[k] = "COMMITTED" => pointer[k] # "none"
    /\ file[k] => Referenced(k) \/ stage[k] \in {"ACTIVE", "REAPING"}
    /\ LockInv(k) /\ WriterInv(k)
ReapersInv(k) == StartInv(k) /\ \A r \in Reaper : ReaperInv(k, r)

LEMMA InvParts == StagingInv <=> TypeOK /\ \A k \in Key : TableInv(k) /\ ReapersInv(k)
  BY DEF StagingInv, PointerHasBytes, StageAgreesWithLedger, PublishedBytesTraceable,
         TableInv, ReapersInv

LEMMA InitInv == Init => StagingInv
  <1> SUFFICES ASSUME Init PROVE StagingInv
    OBVIOUS
  <1>1. \A k \in Key : TableInv(k)
    BY DEF Init, Start, TableInv, LockInv, WriterInv, Referenced, At
  <1>2. \A k \in Key : ReapersInv(k)
    BY DEF Init, Idle, ReapersInv, StartInv, ReaperInv, At
  <1>3. QED
    BY <1>1, <1>2, InitType, InvParts

(* A step at one key leaves the others as they are.                        *)
Untouched(k) ==
    /\ stage'[k] = stage[k] /\ locked'[k] = locked[k] /\ file'[k] = file[k]
    /\ marker'[k] = marker[k] /\ pointer'[k] = pointer[k] /\ writer'[k] = writer[k]
    /\ k \in removed' <=> k \in removed

LEMMA UntouchedInv ==
    ASSUME NEW k \in Key, Untouched(k), UNCHANGED reaper, TableInv(k), ReapersInv(k)
    PROVE  TableInv(k)' /\ ReapersInv(k)'
  <1>1. TableInv(k)'
    BY DEF Untouched, TableInv, LockInv, WriterInv, Referenced, At
  <1>2. ReapersInv(k)'
    BY DEF Untouched, ReapersInv, StartInv, ReaperInv, Referenced, At
  <1>3. QED
    BY <1>1, <1>2

LEMMA WriterFrame ==
    ASSUME TypeOK, NEW k \in Key, WriterMoves(k), NEW j \in Key, j # k
    PROVE  Untouched(j) /\ UNCHANGED reaper
  <1> USE DEF TypeOK, Untouched, Go
  <1>1. CASE Reserve(k)
    BY <1>1 DEF Reserve
  <1>2. CASE WriteMarker(k)
    BY <1>2 DEF WriteMarker
  <1>3. CASE WriteTemp(k)
    BY <1>3 DEF WriteTemp
  <1>4. CASE PublishLocks(k)
    BY <1>4 DEF PublishLocks
  <1>5. CASE Rename(k)
    BY <1>5 DEF Rename
  <1>6. CASE Refresh(k)
    BY <1>6 DEF Refresh
  <1>7. CASE AcceptLocks(k)
    BY <1>7 DEF AcceptLocks
  <1>8. CASE Accepts(k)
    BY <1>8 DEF Accepts, CommitPointer
  <1>9. CASE DropMarker(k)
    BY <1>9 DEF DropMarker
  <1>10. CASE DropStage(k)
    BY <1>10 DEF DropStage
  <1>11. CASE CleanTemp(k)
    BY <1>11 DEF CleanTemp
  <1>12. CASE Discard(k)
    BY <1>12 DEF Discard
  <1>13. CASE DiscardUnlinks(k)
    BY <1>13 DEF DiscardUnlinks
  <1>14. CASE DiscardDeletes(k)
    BY <1>14 DEF DiscardDeletes
  <1>15. CASE DiscardUnmarks(k)
    BY <1>15 DEF DiscardUnmarks
  <1>16. CASE Declines(k)
    BY <1>16 DEF Declines
  <1>17. CASE AcceptAnswerLost(k)
    BY <1>17 DEF AcceptAnswerLost, CommitPointer
  <1>18. CASE CleanTempFails(k)
    BY <1>18 DEF CleanTempFails
  <1>19. CASE WriterFails(k)
    BY <1>19 DEF WriterFails
  <1>20. CASE WriterDies(k)
    BY <1>20 DEF WriterDies
  <1>21. QED
    BY <1>1, <1>2, <1>3, <1>4, <1>5, <1>6, <1>7, <1>8, <1>9, <1>10, <1>11, <1>12, <1>13, <1>14, <1>15, <1>16, <1>17, <1>18, <1>19, <1>20 DEF WriterMoves, WriterStep

LEMMA WriterTableInv ==
    ASSUME StagingInv, NEW k \in Key, WriterMoves(k)
    PROVE  TableInv(k)'
  <1> TypeOK /\ TableInv(k) /\ ReapersInv(k)
    BY InvParts
  <1> USE DEF TypeOK, TableInv, ReapersInv, StartInv, LockInv, WriterInv, Referenced, At, Go,
              Lockable
  <1>1. CASE Reserve(k)
    BY <1>1 DEF Reserve
  <1>2. CASE WriteMarker(k)
    BY <1>2 DEF WriteMarker
  <1>3. CASE WriteTemp(k)
    BY <1>3 DEF WriteTemp
  <1>4. CASE PublishLocks(k)
    BY <1>4 DEF PublishLocks
  <1>5. CASE Rename(k)
    BY <1>5 DEF Rename
  <1>6. CASE Refresh(k)
    BY <1>6 DEF Refresh
  <1>7. CASE AcceptLocks(k)
    BY <1>7 DEF AcceptLocks
  <1>8. CASE Accepts(k)
    BY <1>8 DEF Accepts, CommitPointer
  <1>9. CASE DropMarker(k)
    BY <1>9 DEF DropMarker
  <1>10. CASE DropStage(k)
    BY <1>10 DEF DropStage
  <1>11. CASE CleanTemp(k)
    BY <1>11 DEF CleanTemp
  <1>12. CASE Discard(k)
    BY <1>12 DEF Discard
  <1>13. CASE DiscardUnlinks(k)
    BY <1>13 DEF DiscardUnlinks
  <1>14. CASE DiscardDeletes(k)
    BY <1>14 DEF DiscardDeletes
  <1>15. CASE DiscardUnmarks(k)
    BY <1>15 DEF DiscardUnmarks
  <1>16. CASE Declines(k)
    BY <1>16 DEF Declines
  <1>17. CASE AcceptAnswerLost(k)
    BY <1>17 DEF AcceptAnswerLost, CommitPointer
  <1>18. CASE CleanTempFails(k)
    BY <1>18 DEF CleanTempFails
  <1>19. CASE WriterFails(k)
    BY <1>19 DEF WriterFails, AfterFailure
  <1>20. CASE WriterDies(k)
    BY <1>20 DEF WriterDies
  <1>21. QED
    BY <1>1, <1>2, <1>3, <1>4, <1>5, <1>6, <1>7, <1>8, <1>9, <1>10, <1>11, <1>12, <1>13, <1>14, <1>15, <1>16, <1>17, <1>18, <1>19, <1>20 DEF WriterMoves, WriterStep

LEMMA WriterReapersInv ==
    ASSUME StagingInv, NEW k \in Key, WriterMoves(k)
    PROVE  ReapersInv(k)'
  <1> TypeOK /\ TableInv(k) /\ ReapersInv(k)
    BY InvParts
  <1> USE DEF TypeOK, TableInv, ReapersInv, StartInv, ReaperInv, LockInv, WriterInv, Referenced,
              At, Go, Lockable
  <1>1. CASE Reserve(k)
    BY <1>1 DEF Reserve
  <1>2. CASE WriteMarker(k)
    BY <1>2 DEF WriteMarker
  <1>3. CASE WriteTemp(k)
    BY <1>3 DEF WriteTemp
  <1>4. CASE PublishLocks(k)
    BY <1>4 DEF PublishLocks
  <1>5. CASE Rename(k)
    BY <1>5 DEF Rename
  <1>6. CASE Refresh(k)
    BY <1>6 DEF Refresh
  <1>7. CASE AcceptLocks(k)
    BY <1>7 DEF AcceptLocks
  <1>8. CASE Accepts(k)
    BY <1>8 DEF Accepts, CommitPointer
  <1>9. CASE DropMarker(k)
    BY <1>9 DEF DropMarker
  <1>10. CASE DropStage(k)
    BY <1>10 DEF DropStage
  <1>11. CASE CleanTemp(k)
    BY <1>11 DEF CleanTemp
  <1>12. CASE Discard(k)
    BY <1>12 DEF Discard
  <1>13. CASE DiscardUnlinks(k)
    BY <1>13 DEF DiscardUnlinks
  <1>14. CASE DiscardDeletes(k)
    BY <1>14 DEF DiscardDeletes
  <1>15. CASE DiscardUnmarks(k)
    BY <1>15 DEF DiscardUnmarks
  <1>16. CASE Declines(k)
    BY <1>16 DEF Declines
  <1>17. CASE AcceptAnswerLost(k)
    BY <1>17 DEF AcceptAnswerLost, CommitPointer
  <1>18. CASE CleanTempFails(k)
    BY <1>18 DEF CleanTempFails
  <1>19. CASE WriterFails(k)
    BY <1>19 DEF WriterFails, AfterFailure
  <1>20. CASE WriterDies(k)
    BY <1>20 DEF WriterDies
  <1>21. QED
    BY <1>1, <1>2, <1>3, <1>4, <1>5, <1>6, <1>7, <1>8, <1>9, <1>10, <1>11, <1>12, <1>13, <1>14, <1>15, <1>16, <1>17, <1>18, <1>19, <1>20 DEF WriterMoves, WriterStep

LEMMA RetentionFrame ==
    ASSUME TypeOK, NEW k \in Key, RetentionMoves(k), NEW j \in Key, j # k
    PROVE  Untouched(j) /\ UNCHANGED reaper
  <1> USE DEF TypeOK, Untouched
  <1>1. CASE Prune(k)
    BY <1>1 DEF Prune
  <1>2. CASE RemovePruned(k)
    BY <1>2 DEF RemovePruned
  <1>3. CASE ForgetPruned(k)
    BY <1>3 DEF ForgetPruned
  <1>4. CASE LeaseExpires(k)
    BY <1>4 DEF LeaseExpires
  <1>5. CASE MarkerAges(k)
    BY <1>5 DEF MarkerAges
  <1>6. QED
    BY <1>1, <1>2, <1>3, <1>4, <1>5 DEF RetentionMoves

LEMMA RetentionInv ==
    ASSUME StagingInv, NEW k \in Key, RetentionMoves(k)
    PROVE  TableInv(k)' /\ ReapersInv(k)'
  <1> TypeOK /\ TableInv(k) /\ ReapersInv(k)
    BY InvParts
  <1> USE DEF TypeOK, TableInv, ReapersInv, StartInv, ReaperInv, LockInv, WriterInv, Referenced, At
  <1>1. CASE Prune(k)
    BY <1>1 DEF Prune
  <1>2. CASE RemovePruned(k)
    BY <1>2 DEF RemovePruned
  <1>3. CASE ForgetPruned(k)
    BY <1>3 DEF ForgetPruned
  <1>4. CASE LeaseExpires(k)
    BY <1>4 DEF LeaseExpires
  <1>5. CASE MarkerAges(k)
    BY <1>5 DEF MarkerAges
  <1>6. QED
    BY <1>1, <1>2, <1>3, <1>4, <1>5 DEF RetentionMoves

(* A step of a reaper may touch every key.                                 *)
LEMMA ReaperTableInv ==
    ASSUME StagingInv, NEW r \in Reaper, ReaperMoves(r), NEW k \in Key
    PROVE  TableInv(k)'
  <1> TypeOK /\ TableInv(k) /\ ReapersInv(k)
    BY InvParts
  <1> USE DEF TypeOK, TableInv, ReapersInv, ReaperInv, LockInv, WriterInv, Referenced, At
  <1>1. CASE Scan(r)
    BY <1>1 DEF Scan
  <1>2. CASE ClaimExpired(r)
    BY <1>2 DEF ClaimExpired, Claims, Expired
  <1>3. CASE Finalize(r)
    <2>1. PICK j \in reaper[r].todo :
            stage' = [stage EXCEPT ![j] = IF FinalizePc(j) = "unmark" THEN "none" ELSE @]
      BY <1>3, Zenon DEF Finalize
    <2>2. UNCHANGED <<locked, file, marker, pointer, writer, removed>>
      BY <1>3 DEF Finalize
    <2>3. stage'[k] = stage[k] \/ (stage'[k] = "none" /\ ~locked[k] /\ stage[k] = "COMMITTED" /\ Referenced(k))
      BY <2>1 DEF FinalizePc
    <2>4. QED
      BY <2>2, <2>3
  <1>4. CASE SweepEnds(r)
    BY <1>4 DEF SweepEnds
  <1>5. CASE Unlink(r)
    BY <1>5 DEF Unlink
  <1>6. CASE DeleteStage(r)
    BY <1>6 DEF DeleteStage
  <1>7. CASE LooksForStage(r)
    BY <1>7 DEF LooksForStage
  <1>8. CASE LooksForDelivery(r)
    BY <1>8 DEF LooksForDelivery
  <1>9. CASE Unmark(r)
    BY <1>9 DEF Unmark
  <1>10. CASE ReaperFails(r)
    BY <1>10 DEF ReaperFails
  <1>11. CASE ReaperDies(r)
    BY <1>11 DEF ReaperDies
  <1>12. QED
    BY <1>1, <1>2, <1>3, <1>4, <1>5, <1>6, <1>7, <1>8, <1>9, <1>10, <1>11 DEF ReaperMoves, ReaperStep

LEMMA ReaperReapersInv ==
    ASSUME StagingInv, NEW r \in Reaper, ReaperMoves(r), NEW k \in Key
    PROVE  ReapersInv(k)'
  <1> TypeOK /\ TableInv(k) /\ ReapersInv(k)
    BY InvParts
  <1> USE DEF TypeOK, TableInv, ReapersInv, StartInv, ReaperInv, Referenced, At, ReaperGo, NextKey
  <1>1. CASE Scan(r)
    BY <1>1 DEF Scan, Candidates, Expired
  <1>2. CASE ClaimExpired(r)
    BY <1>2 DEF ClaimExpired, Claims, Expired
  <1>3. CASE Finalize(r)
    <2>1. PICK j \in reaper[r].todo :
            /\ reaper' = [reaper EXCEPT ![r].pc = FinalizePc(j), ![r].todo = @ \ {j},
                                        ![r].now = IF FinalizePc(j) = "finalize" THEN {} ELSE {j}]
            /\ stage' = [stage EXCEPT ![j] = IF FinalizePc(j) = "unmark" THEN "none" ELSE @]
      BY <1>3, Zenon DEF Finalize
    <2>2. UNCHANGED <<file, marker, pointer, writer>>
      BY <1>3 DEF Finalize
    <2>3. /\ stage'[k] = stage[k] \/ (stage[k] = "COMMITTED" /\ stage'[k] = "none")
          /\ stage'[k] = "COMMITTED" => stage[k] = "COMMITTED"
      BY <2>1 DEF FinalizePc
    <2>4. StartInv(k)'
      <3>1. \A q \in Reaper : q # r => reaper'[q] = reaper[q]
        BY <2>1
      <3>2. reaper'[r].todo \subseteq reaper[r].todo /\ reaper'[r].now \subseteq reaper[r].todo
        BY <2>1
      <3>3. QED
        BY <2>2, <2>3, <3>1, <3>2
    <2>5. ASSUME NEW q \in Reaper PROVE ReaperInv(k, q)'
      <3>1. CASE q # r
        BY <2>1, <2>2, <2>3, <3>1
      <3>2. CASE q = r
        <4>1. reaper'[r].pc = FinalizePc(j) /\ reaper'[r].now \subseteq {j}
          BY <2>1
        <4>2. CASE j # k
          BY <3>2, <4>1, <4>2
        <4>3. CASE j = k
          BY <2>2, <2>3, <3>2, <4>1, <4>3 DEF FinalizePc
        <4>4. QED
          BY <4>2, <4>3
      <3>3. QED
        BY <3>1, <3>2
    <2>6. QED
      BY <2>4, <2>5
  <1>4. CASE SweepEnds(r)
    BY <1>4 DEF SweepEnds, Idle
  <1>5. CASE Unlink(r)
    <2>1. \A q \in Reaper : reaper'[q].now = reaper[q].now /\ reaper'[q].todo = reaper[q].todo
      BY <1>5 DEF Unlink
    <2>2. UNCHANGED <<stage, marker, pointer, writer>> /\ (file'[k] => file[k])
      BY <1>5 DEF Unlink
    <2>3. \A q \in Reaper : q # r => reaper'[q].pc = reaper[q].pc
      BY <1>5 DEF Unlink
    <2>a. reaper'[r].pc = IF reaper[r].pc = "unlink" THEN "delete" ELSE "unmark"
      BY <1>5 DEF Unlink
    <2>b. k \in reaper[r].now => ~file'[k]
      BY <1>5 DEF Unlink
    <2>5. StartInv(k)'
      BY <2>1, <2>2
    <2>6. ASSUME NEW q \in Reaper PROVE ReaperInv(k, q)'
      <3>1. CASE q # r
        BY <2>1, <2>2, <2>3, <3>1
      <3>2. CASE q = r
        BY <2>1, <2>2, <2>a, <2>b, <3>2
      <3>3. QED
        BY <3>1, <3>2
    <2>7. QED
      BY <2>5, <2>6
  <1>6. CASE DeleteStage(r)
    BY <1>6 DEF DeleteStage
  <1>7. CASE LooksForStage(r)
    <2>1. CASE \E j \in reaper[r].now : stage[j] # "none"
      BY SMTT(30), <1>7, <2>1 DEF LooksForStage
    <2>2. CASE ~\E j \in reaper[r].now : stage[j] # "none"
      <3>1. reaper' = [reaper EXCEPT ![r].pc = "reference"]
        BY <1>7, <2>2 DEF LooksForStage
      <3>2. UNCHANGED <<stage, file, marker, pointer, writer>>
        BY <1>7 DEF LooksForStage
      <3>3. StartInv(k)'
        BY <3>1, <3>2
      <3>4. ASSUME NEW q \in Reaper PROVE ReaperInv(k, q)'
        BY <2>2, <3>1, <3>2
      <3>5. QED
        BY <3>3, <3>4
    <2>3. QED
      BY <2>1, <2>2
  <1>8. CASE LooksForDelivery(r)
    BY <1>8 DEF LooksForDelivery
  <1>9. CASE Unmark(r)
    BY <1>9 DEF Unmark
  <1>10. CASE ReaperFails(r)
    <2>1. CASE reaper' = [reaper EXCEPT ![r] = Idle]
      BY <1>10, <2>1 DEF ReaperFails, Idle
    <2>2. CASE NextKey(r)
      BY <1>10, <2>2 DEF ReaperFails
    <2>3. QED
      BY <1>10, <2>1, <2>2 DEF ReaperFails
  <1>11. CASE ReaperDies(r)
    BY <1>11 DEF ReaperDies, Idle
  <1>12. QED
    BY <1>1, <1>2, <1>3, <1>4, <1>5, <1>6, <1>7, <1>8, <1>9, <1>10, <1>11 DEF ReaperMoves, ReaperStep

LEMMA InvStep == StagingInv /\ [Next]_vars => StagingInv'
  <1> SUFFICES ASSUME StagingInv, [Next]_vars PROVE StagingInv'
    OBVIOUS
  <1>1. TypeOK'
    BY InvParts, TypeStep
  <1>2. \A k \in Key : TableInv(k)' /\ ReapersInv(k)'
    <2> TAKE j \in Key
    <2>1. TypeOK /\ TableInv(j) /\ ReapersInv(j)
      BY InvParts
    <2>2. CASE UNCHANGED vars
      <3>1. Untouched(j) /\ UNCHANGED reaper
        BY <2>2 DEF Untouched, vars
      <3>2. QED
        BY <2>1, <3>1, UntouchedInv
    <2>3. ASSUME NEW k \in Key, WriterMoves(k) PROVE TableInv(j)' /\ ReapersInv(j)'
      <3>1. CASE j = k
        BY <2>3, <3>1, WriterTableInv, WriterReapersInv
      <3>2. CASE j # k
        BY <2>1, <2>3, <3>2, WriterFrame, UntouchedInv
      <3>3. QED
        BY <3>1, <3>2
    <2>4. ASSUME NEW k \in Key, RetentionMoves(k) PROVE TableInv(j)' /\ ReapersInv(j)'
      <3>1. CASE j = k
        BY <2>4, <3>1, RetentionInv
      <3>2. CASE j # k
        BY <2>1, <2>4, <3>2, RetentionFrame, UntouchedInv
      <3>3. QED
        BY <3>1, <3>2
    <2>5. ASSUME NEW r \in Reaper, ReaperMoves(r) PROVE TableInv(j)' /\ ReapersInv(j)'
      BY <2>5, ReaperTableInv, ReaperReapersInv
    <2>6. QED
      BY <2>2, <2>3, <2>4, <2>5 DEF Next, WriterMoves, RetentionMoves, ReaperMoves
  <1>3. QED
    BY <1>1, <1>2 DEF StagingInv, PointerHasBytes, StageAgreesWithLedger,
                      PublishedBytesTraceable, TableInv, ReapersInv

(* The safety invariant of the staging protocol, with what makes it        *)
(* inductive: the row lock, and what each pending step may rely on.        *)
THEOREM StagingInvariant == Spec => []StagingInv
  BY InitInv, InvStep, PTL DEF Spec

(* No accepted delivery loses its bytes to a discard or a reaper.          *)
THEOREM AcceptedBytesStay == Spec => []PointerHasBytes
  <1>1. StagingInv => PointerHasBytes
    BY DEF StagingInv
  <1>2. QED
    BY <1>1, StagingInvariant, PTL

(* No published file is out of reach of both its delivery and its stage.   *)
THEOREM PublishedBytesFound == Spec => []PublishedBytesTraceable
  <1>1. StagingInv => PublishedBytesTraceable
    BY DEF StagingInv
  <1>2. QED
    BY <1>1, StagingInvariant, PTL

(* A stage that is still open has no delivery, a committed one has.        *)
THEOREM TablesAgree == Spec => []StageAgreesWithLedger
  <1>1. StagingInv => StageAgreesWithLedger
    BY DEF StagingInv
  <1>2. QED
    BY <1>1, StagingInvariant, PTL
(* What a step may do to a stage that is being reaped.                     *)
StaysReaped(k) ==
    stage[k] = "REAPING" => /\ stage'[k] \in {"REAPING", "none"}
                            /\ pointer'[k] = pointer[k]
                            /\ file'[k] => file[k]

LEMMA WriterReaped ==
    ASSUME StagingInv, NEW k \in Key, WriterMoves(k)
    PROVE  StaysReaped(k)
  <1> TypeOK /\ TableInv(k) /\ ReapersInv(k)
    BY InvParts
  <1> USE DEF TypeOK, StaysReaped, TableInv, ReapersInv, StartInv, LockInv, At
  <1>1. CASE Reserve(k)
    BY <1>1 DEF Reserve
  <1>2. CASE WriteMarker(k)
    BY <1>2 DEF WriteMarker
  <1>3. CASE WriteTemp(k)
    BY <1>3 DEF WriteTemp
  <1>4. CASE PublishLocks(k)
    BY <1>4 DEF PublishLocks
  <1>5. CASE Rename(k)
    BY <1>5 DEF Rename
  <1>6. CASE Refresh(k)
    BY <1>6 DEF Refresh
  <1>7. CASE AcceptLocks(k)
    BY <1>7 DEF AcceptLocks
  <1>8. CASE Accepts(k)
    BY <1>8 DEF Accepts, CommitPointer
  <1>9. CASE DropMarker(k)
    BY <1>9 DEF DropMarker
  <1>10. CASE DropStage(k)
    BY <1>10 DEF DropStage
  <1>11. CASE CleanTemp(k)
    BY <1>11 DEF CleanTemp
  <1>12. CASE Discard(k)
    BY <1>12 DEF Discard
  <1>13. CASE DiscardUnlinks(k)
    BY <1>13 DEF DiscardUnlinks
  <1>14. CASE DiscardDeletes(k)
    BY <1>14 DEF DiscardDeletes
  <1>15. CASE DiscardUnmarks(k)
    BY <1>15 DEF DiscardUnmarks
  <1>16. CASE Declines(k)
    BY <1>16 DEF Declines
  <1>17. CASE AcceptAnswerLost(k)
    BY <1>17 DEF AcceptAnswerLost, CommitPointer
  <1>18. CASE CleanTempFails(k)
    BY <1>18 DEF CleanTempFails
  <1>19. CASE WriterFails(k)
    BY <1>19 DEF WriterFails
  <1>20. CASE WriterDies(k)
    BY <1>20 DEF WriterDies
  <1>21. QED
    BY <1>1, <1>2, <1>3, <1>4, <1>5, <1>6, <1>7, <1>8, <1>9, <1>10, <1>11, <1>12, <1>13, <1>14, <1>15, <1>16, <1>17, <1>18, <1>19, <1>20 DEF WriterMoves, WriterStep

LEMMA RetentionReaped ==
    ASSUME StagingInv, NEW k \in Key, RetentionMoves(k)
    PROVE  StaysReaped(k)
  <1> TypeOK /\ TableInv(k)
    BY InvParts
  <1> USE DEF TypeOK, StaysReaped, TableInv
  <1>1. CASE Prune(k)
    BY <1>1 DEF Prune
  <1>2. CASE RemovePruned(k)
    BY <1>2 DEF RemovePruned
  <1>3. CASE ForgetPruned(k)
    BY <1>3 DEF ForgetPruned
  <1>4. CASE LeaseExpires(k)
    BY <1>4 DEF LeaseExpires
  <1>5. CASE MarkerAges(k)
    BY <1>5 DEF MarkerAges
  <1>6. QED
    BY <1>1, <1>2, <1>3, <1>4, <1>5 DEF RetentionMoves

LEMMA ReaperReaped ==
    ASSUME StagingInv, NEW r \in Reaper, ReaperMoves(r), NEW k \in Key
    PROVE  StaysReaped(k)
  <1> TypeOK /\ TableInv(k)
    BY InvParts
  <1> USE DEF TypeOK, StaysReaped, TableInv
  <1>1. CASE Scan(r)
    BY <1>1 DEF Scan
  <1>2. CASE ClaimExpired(r)
    BY <1>2 DEF ClaimExpired
  <1>3. CASE Finalize(r)
    BY <1>3 DEF Finalize, FinalizePc
  <1>4. CASE SweepEnds(r)
    BY <1>4 DEF SweepEnds
  <1>5. CASE Unlink(r)
    BY <1>5 DEF Unlink
  <1>6. CASE DeleteStage(r)
    BY <1>6 DEF DeleteStage
  <1>7. CASE LooksForStage(r)
    BY <1>7 DEF LooksForStage
  <1>8. CASE LooksForDelivery(r)
    BY <1>8 DEF LooksForDelivery
  <1>9. CASE Unmark(r)
    BY <1>9 DEF Unmark
  <1>10. CASE ReaperFails(r)
    BY <1>10 DEF ReaperFails
  <1>11. CASE ReaperDies(r)
    BY <1>11 DEF ReaperDies
  <1>12. QED
    BY <1>1, <1>2, <1>3, <1>4, <1>5, <1>6, <1>7, <1>8, <1>9, <1>10, <1>11 DEF ReaperMoves, ReaperStep

LEMMA ReapedStep == StagingInv /\ [Next]_vars => \A k \in Key : StaysReaped(k)
  <1> SUFFICES ASSUME StagingInv, [Next]_vars, NEW j \in Key PROVE StaysReaped(j)
    OBVIOUS
  <1>1. Untouched(j) => StaysReaped(j)
    BY DEF Untouched, StaysReaped
  <1>2. TypeOK
    BY InvParts
  <1>3. CASE UNCHANGED vars
    BY <1>1, <1>3 DEF vars, Untouched
  <1>4. ASSUME NEW k \in Key, WriterMoves(k) PROVE StaysReaped(j)
    BY <1>1, <1>2, <1>4, WriterReaped, WriterFrame
  <1>5. ASSUME NEW k \in Key, RetentionMoves(k) PROVE StaysReaped(j)
    BY <1>1, <1>2, <1>5, RetentionReaped, RetentionFrame
  <1>6. ASSUME NEW r \in Reaper, ReaperMoves(r) PROVE StaysReaped(j)
    BY <1>6, ReaperReaped
  <1>7. QED
    BY <1>3, <1>4, <1>5, <1>6 DEF Next, WriterMoves, RetentionMoves, ReaperMoves

(* Nothing publishes under a stage that is being reaped, and no delivery   *)
(* is accepted from it.                                                    *)
THEOREM ReapingIsFinal == Spec => ReapedStaysReaped
  <1>1. StagingInv /\ [Next]_vars
          => [\A k \in Key : stage[k] = "REAPING" =>
                /\ stage'[k] \in {"REAPING", "none"}
                /\ pointer'[k] = pointer[k]
                /\ file'[k] => file[k]]_vars
    BY ReapedStep DEF StaysReaped
  <1>2. QED
    BY <1>1, StagingInvariant, PTL DEF Spec, ReapedStaysReaped
--------------------------------------------------------------------------------
(***************************************************************************)
(* The events of workflows.  The inductive invariant knows where a run is  *)
(* in its list of mails, and that what it has passed is there: the unique  *)
(* keys make it true of runs that overtake each other.                     *)
(***************************************************************************)
EventRow == [state : Events!States, valid : BOOLEAN, to : Address \cup {None}, attempts : Nat,
             owner : Worker \cup {None}, live : BOOLEAN]
EventMail == [key : Event \X (1 .. Actions) \X Nat, of : Event, action : 1 .. Actions]
EventRun == [pc : {"idle", "load", "check", "beat", "reread", "insert", "settle", "quarantine", "fail"},
             on : Event \cup {None}, next : 0 .. Actions + 1]
EventTypes ==
    /\ event \in [Event -> EventRow] /\ requester \in Address /\ mail \subseteq EventMail
    /\ work \in [Worker -> EventRun] /\ failures \in 0 .. EventFaults /\ edits \in 0 .. MaxEdits

\* The key of a mail is its event and its action.
MailKeys == \A m \in mail : m.key = <<m.of, m.action, 0>>

\* A run is at an action of an event, and at the end when it settles.
RunFits(r) ==
    /\ r.pc # "idle" => r.on \in Event
    /\ r.pc \in {"load", "check"} => r.next = 1
    /\ r.pc \in {"beat", "reread", "insert"} => r.next \in 1 .. Actions
    /\ r.pc = "settle" => r.next = Actions + 1

Mailed(S, e, i) == \E m \in S : m.of = e /\ m.action = i

\* The mails that a run has passed are there, whoever made them.
RunMailed(S, r) ==
    r.pc \in {"beat", "reread", "insert", "settle"} => \A i \in 1 .. r.next - 1 : Mailed(S, r.on, i)

RunsMailed == \A w \in Worker : RunFits(work[w]) /\ RunMailed(mail, work[w])

EventsInv == EventTypes /\ MailKeys /\ RunsMailed /\ Events!ProcessedIsComplete

LEMMA EventsInit == Events!Init => EventsInv
  <1> SUFFICES ASSUME Events!Init PROVE EventsInv
    OBVIOUS
  <1>1. Events!NoRow \in EventRow /\ Events!NoRow.state = "none"
    BY DEF Events!NoRow, EventRow, Events!States
  <1>2. Events!Idle \in EventRun /\ RunFits(Events!Idle) /\ RunMailed(mail, Events!Idle)
    BY ProgressAssumption DEF Events!Idle, EventRun, RunFits, RunMailed
  <1>3. event \in [Event -> EventRow] /\ Events!ProcessedIsComplete
    BY <1>1 DEF Events!Init, Events!ProcessedIsComplete
  <1>4. work \in [Worker -> EventRun] /\ RunsMailed
    BY <1>2 DEF Events!Init, RunsMailed
  <1>5. mail = {} /\ requester \in Address /\ failures \in 0 .. EventFaults /\ edits \in 0 .. MaxEdits
    BY ProgressAssumption DEF Events!Init
  <1>6. QED
    BY <1>3, <1>4, <1>5 DEF EventsInv, EventTypes, MailKeys

\* A run goes on: its new state fits, and no mail goes away.
LEMMA RunGoesOn ==
    ASSUME EventsInv, NEW w \in Worker, NEW r \in EventRun, RunFits(r), RunMailed(mail', r),
           work' = [work EXCEPT ![w] = r], mail \subseteq mail'
    PROVE  work' \in [Worker -> EventRun] /\ RunsMailed'
  <1>1. work' \in [Worker -> EventRun] /\ work'[w] = r
    BY DEF EventsInv, EventTypes
  <1>2. ASSUME NEW v \in Worker PROVE RunFits(work'[v]) /\ RunMailed(mail', work'[v])
    <2>1. CASE v = w
      BY <1>1, <2>1
    <2>2. CASE v # w
      <3>1. work'[v] = work[v]
        BY <2>2 DEF EventsInv, EventTypes
      <3>2. RunFits(work[v]) /\ RunMailed(mail, work[v])
        BY DEF EventsInv, RunsMailed
      <3>3. \A e, i : Mailed(mail, e, i) => Mailed(mail', e, i)
        BY DEF Mailed
      <3>4. QED
        BY <3>1, <3>2, <3>3 DEF RunMailed
    <2>3. QED
      BY <2>1, <2>2
  <1>3. QED
    BY <1>1, <1>2 DEF RunsMailed

\* A row changes: if it is processed now, its mails are there.
LEMMA EventChanges ==
    ASSUME EventsInv, NEW e \in Event, NEW x \in EventRow, event' = [event EXCEPT ![e] = x],
           mail' = mail, x.state = "PROCESSED" => \A i \in 1 .. Actions : Mailed(mail, e, i)
    PROVE  event' \in [Event -> EventRow] /\ Events!ProcessedIsComplete'
  <1>1. event' \in [Event -> EventRow] /\ event'[e] = x
        /\ \A f \in Event : f # e => event'[f] = event[f]
    BY DEF EventsInv, EventTypes
  <1>2. ASSUME NEW f \in Event, event'[f].state = "PROCESSED", NEW i \in 1 .. Actions
        PROVE  Mailed(mail, f, i)
    <2>1. CASE f = e
      BY <1>1, <1>2, <2>1
    <2>2. CASE f # e
      BY <1>1, <1>2, <2>2 DEF EventsInv, Events!ProcessedIsComplete, Mailed
    <2>3. QED
      BY <2>1, <2>2
  <1>3. QED
    BY <1>1, <1>2 DEF Events!ProcessedIsComplete, Mailed

\* The states that a run may take without a word about its mails.
LEMMA RunKinds ==
    ASSUME EventsInv, NEW w \in Worker
    PROVE  /\ Events!Idle \in EventRun /\ RunFits(Events!Idle) /\ \A S : RunMailed(S, Events!Idle)
           /\ work[w] \in EventRun
           /\ work[w].pc # "idle" =>
                \A pc \in {"fail", "quarantine"} :
                    /\ [work[w] EXCEPT !.pc = pc] \in EventRun /\ RunFits([work[w] EXCEPT !.pc = pc])
                    /\ \A S : RunMailed(S, [work[w] EXCEPT !.pc = pc])
  <1>1. Events!Idle \in EventRun /\ RunFits(Events!Idle) /\ \A S : RunMailed(S, Events!Idle)
    BY ProgressAssumption DEF Events!Idle, EventRun, RunFits, RunMailed
  <1>2. work[w] \in EventRun /\ RunFits(work[w])
    BY DEF EventsInv, EventTypes, RunsMailed
  <1>3. ASSUME work[w].pc # "idle", NEW pc \in {"fail", "quarantine"}
        PROVE  /\ [work[w] EXCEPT !.pc = pc] \in EventRun /\ RunFits([work[w] EXCEPT !.pc = pc])
               /\ \A S : RunMailed(S, [work[w] EXCEPT !.pc = pc])
    BY <1>2, <1>3 DEF EventRun, RunFits, RunMailed
  <1>4. QED
    BY <1>1, <1>2, <1>3

LEMMA FaultCounts ==
    ASSUME EventsInv, Events!Faulty
    PROVE  failures' \in 0 .. EventFaults
  BY ProgressAssumption DEF EventsInv, EventTypes, Events!Faulty

\* The mail of a run's action is there after its insert: its own, or the one with its key.
LEMMA MailInserted ==
    ASSUME EventsInv, NEW w \in Worker, work[w].pc = "insert", Events!Inserted(w)
    PROVE  /\ mail' \subseteq EventMail /\ mail \subseteq mail' /\ MailKeys'
           /\ Mailed(mail', work[w].on, work[w].next)
  <1> DEFINE e == work[w].on
             i == work[w].next
             new == [key |-> Events!Key(w), of |-> e, action |-> i]
  <1>1. e \in Event /\ i \in 1 .. Actions
    BY DEF EventsInv, RunsMailed, RunFits
  <1>2. Events!Key(w) = <<e, i, 0>>
    BY DEF Events!Key
  <1>3. new \in EventMail
    BY <1>1, <1>2 DEF EventMail
  <1>4. CASE \E m \in mail : m.key = Events!Key(w)
    <2>1. mail' = mail
      BY <1>4 DEF Events!Inserted
    <2>2. PICK m \in mail : m.key = <<e, i, 0>>
      BY <1>2, <1>4
    <2>3. m.key = <<m.of, m.action, 0>>
      BY <2>2 DEF EventsInv, MailKeys
    <2>4. m.of = e /\ m.action = i
      BY <2>2, <2>3
    <2>5. QED
      BY <2>1, <2>2, <2>4 DEF EventsInv, EventTypes, MailKeys, Mailed
  <1>5. CASE ~\E m \in mail : m.key = Events!Key(w)
    <2>1. mail' = mail \cup {new}
      BY <1>5 DEF Events!Inserted
    <2>2. new.key = <<new.of, new.action, 0>> /\ new.of = e /\ new.action = i
      BY <1>2
    <2> HIDE DEF new
    <2>3. mail' \subseteq EventMail /\ mail \subseteq mail'
      BY <1>3, <2>1 DEF EventsInv, EventTypes
    <2>4. MailKeys'
      BY <2>1, <2>2 DEF EventsInv, MailKeys
    <2>5. Mailed(mail', e, i)
      BY <2>1, <2>2 DEF Mailed
    <2>6. QED
      BY <2>3, <2>4, <2>5
  <1>6. QED
    BY <1>4, <1>5

LEMMA ProcessedStay ==
    ASSUME EventsInv, event' = event, mail \subseteq mail'
    PROVE  Events!ProcessedIsComplete'
  BY DEF EventsInv, Events!ProcessedIsComplete

LEMMA RunsStay ==
    ASSUME EventsInv, work' = work, mail' = mail
    PROVE  RunsMailed'
  BY DEF EventsInv, RunsMailed

\* The steps that move no run.
LEMMA RowsMove ==
    ASSUME EventsInv, work' = work, mail' = mail, requester' \in Address,
           failures' \in 0 .. EventFaults, edits' \in 0 .. MaxEdits,
           event' \in [Event -> EventRow], Events!ProcessedIsComplete'
    PROVE  EventsInv'
  <1>1. EventTypes'
    BY DEF EventsInv, EventTypes
  <1>2. MailKeys'
    BY DEF EventsInv, MailKeys
  <1>3. QED
    BY <1>1, <1>2, RunsStay DEF EventsInv

\* The steps of a run that write no row.
LEMMA RunMoves ==
    ASSUME EventsInv, NEW w \in Worker, NEW r \in EventRun, RunFits(r), RunMailed(mail, r),
           work' = [work EXCEPT ![w] = r], mail' = mail, requester' = requester,
           failures' \in 0 .. EventFaults, edits' = edits,
           event' \in [Event -> EventRow], Events!ProcessedIsComplete'
    PROVE  EventsInv'
  <1>1. work' \in [Worker -> EventRun] /\ RunsMailed'
    BY RunGoesOn
  <1>2. EventTypes'
    BY <1>1 DEF EventsInv, EventTypes
  <1>3. MailKeys'
    BY DEF EventsInv, MailKeys
  <1>4. QED
    BY <1>1, <1>2, <1>3 DEF EventsInv

LEMMA EventsAsTheyAre ==
    ASSUME EventsInv
    PROVE  /\ failures \in 0 .. EventFaults /\ edits \in 0 .. MaxEdits
           /\ event \in [Event -> EventRow] /\ requester \in Address
  BY DEF EventsInv, EventTypes

\* A row is let go.
LEMMA RowReleased ==
    ASSUME EventsInv, NEW e \in Event, NEW s \in Events!States
    PROVE  Events!Released(e, s) \in EventRow /\ Events!Released(e, s).state = s
  <1>1. event[e] \in EventRow
    BY EventsAsTheyAre
  <1>2. QED
    BY <1>1 DEF Events!Released, EventRow

LEMMA ReplayStep == ASSUME EventsInv, NEW e \in Event, Events!Replay(e) PROVE EventsInv'
  <1> DEFINE x == [Events!Released(e, "PENDING") EXCEPT !.attempts = 0]
  <1>1. Events!Released(e, "PENDING") \in EventRow
    BY RowReleased DEF Events!States
  <1>2. x \in EventRow /\ x.state = "PENDING"
    BY <1>1, RowReleased DEF EventRow, Events!States
  <1>3. event' = [event EXCEPT ![e] = x] /\ mail' = mail
    BY DEF Events!Replay
  <1> HIDE DEF x
  <1>4. event' \in [Event -> EventRow] /\ Events!ProcessedIsComplete'
    BY <1>2, <1>3, EventChanges
  <1>5. edits' \in 0 .. MaxEdits
    BY EventsAsTheyAre, ProgressAssumption DEF Events!Replay, Events!Edits
  <1>6. QED
    BY <1>4, <1>5, RowsMove, EventsAsTheyAre DEF Events!Replay

LEMMA EnqueueStep == ASSUME EventsInv, NEW e \in Event, Events!Enqueue(e) PROVE EventsInv'
  <1>1. PICK valid \in BOOLEAN :
            event' = [event EXCEPT ![e] = [Events!NoRow EXCEPT !.valid = valid, !.to = requester,
                                               !.state = IF valid THEN "PENDING" ELSE "QUARANTINED"]]
    BY DEF Events!Enqueue
  <1> DEFINE s == IF valid THEN "PENDING" ELSE "QUARANTINED"
             x == [Events!NoRow EXCEPT !.valid = valid, !.to = requester, !.state = s]
  <1>2. s \in {"PENDING", "QUARANTINED"}
    OBVIOUS
  <1> HIDE DEF s
  <1>3. Events!NoRow \in EventRow /\ requester \in Address
    BY EventsAsTheyAre DEF Events!NoRow, EventRow, Events!States
  <1>4. x \in EventRow /\ x.state # "PROCESSED"
    BY <1>2, <1>3 DEF EventRow, Events!States
  <1>5. event' = [event EXCEPT ![e] = x] /\ mail' = mail
    BY <1>1 DEF Events!Enqueue, s
  <1> HIDE DEF x
  <1>6. event' \in [Event -> EventRow] /\ Events!ProcessedIsComplete'
    BY <1>4, <1>5, EventChanges
  <1>7. QED
    BY <1>6, RowsMove, EventsAsTheyAre DEF Events!Enqueue

LEMMA DueStep == ASSUME EventsInv, NEW e \in Event, Events!BecomesDue(e) PROVE EventsInv'
  <1> DEFINE x == [event[e] EXCEPT !.state = "RETRY"]
  <1>1. x \in EventRow /\ x.state = "RETRY"
    BY EventsAsTheyAre DEF EventRow, Events!States
  <1>2. event' = [event EXCEPT ![e] = x] /\ mail' = mail
    BY DEF Events!BecomesDue
  <1> HIDE DEF x
  <1>3. event' \in [Event -> EventRow] /\ Events!ProcessedIsComplete'
    BY <1>1, <1>2, EventChanges
  <1>4. QED
    BY <1>3, RowsMove, EventsAsTheyAre DEF Events!BecomesDue

LEMMA LeaseExpiresStep == ASSUME EventsInv, NEW e \in Event, Events!LeaseExpires(e) PROVE EventsInv'
  <1> DEFINE x == [event[e] EXCEPT !.live = FALSE]
  <1>1. x \in EventRow /\ x.state = event[e].state /\ event[e].state = "PROCESSING"
    BY EventsAsTheyAre DEF EventRow, Events!LeaseExpires
  <1>2. event' = [event EXCEPT ![e] = x] /\ mail' = mail
    BY DEF Events!LeaseExpires
  <1> HIDE DEF x
  <1>3. event' \in [Event -> EventRow] /\ Events!ProcessedIsComplete'
    BY <1>1, <1>2, EventChanges
  <1>4. failures' \in 0 .. EventFaults
    BY FaultCounts, EventsAsTheyAre DEF Events!LeaseExpires
  <1>5. QED
    BY <1>3, <1>4, RowsMove, EventsAsTheyAre DEF Events!LeaseExpires

LEMMA ClaimStep == ASSUME EventsInv, NEW w \in Worker, NEW e \in Event, Events!Claim(w, e) PROVE EventsInv'
  <1> DEFINE x == [event[e] EXCEPT !.state = "PROCESSING", !.attempts = @ + 1, !.owner = w, !.live = TRUE]
             r == [pc |-> "load", on |-> e, next |-> 1]
  <1>1. event[e] \in EventRow
    BY EventsAsTheyAre
  <1> DEFINE n == event[e].attempts + 1
             y == [event[e] EXCEPT !.state = "PROCESSING", !.attempts = n, !.owner = w, !.live = TRUE]
  <1>2. x = y /\ n \in Nat
    BY <1>1 DEF EventRow
  <1> HIDE DEF n
  <1>3. y \in EventRow /\ y.state # "PROCESSED"
    BY <1>1, <1>2 DEF EventRow, Events!States
  <1>4. event' = [event EXCEPT ![e] = x] /\ mail' = mail /\ work' = [work EXCEPT ![w] = r]
    BY EventsAsTheyAre DEF Events!Claim
  <1>5. r \in EventRun /\ RunFits(r) /\ RunMailed(mail, r)
    BY ProgressAssumption DEF EventRun, RunFits, RunMailed
  <1> HIDE DEF x, r, y
  <1>6. event' \in [Event -> EventRow] /\ Events!ProcessedIsComplete'
    BY <1>2, <1>3, <1>4, EventChanges
  <1>7. QED
    BY <1>4, <1>5, <1>6, RunMoves, EventsAsTheyAre DEF Events!Claim

\* The run ends.
LEMMA RunEnds ==
    ASSUME EventsInv, NEW w \in Worker, Events!Ends(w), mail' = mail, requester' = requester,
           failures' \in 0 .. EventFaults, edits' = edits,
           event' \in [Event -> EventRow], Events!ProcessedIsComplete'
    PROVE  EventsInv'
  <1>1. work' = [work EXCEPT ![w] = Events!Idle]
    BY DEF Events!Ends
  <1>2. QED
    BY <1>1, RunKinds, RunMoves

\* The run goes to the catch block or to the quarantine.
LEMMA RunTurns ==
    ASSUME EventsInv, NEW w \in Worker, work[w].pc # "idle", NEW pc \in {"fail", "quarantine"},
           Events!Goes(w, pc), mail' = mail, requester' = requester,
           failures' \in 0 .. EventFaults, edits' = edits,
           event' \in [Event -> EventRow], Events!ProcessedIsComplete'
    PROVE  EventsInv'
  <1>1. work' = [work EXCEPT ![w] = [work[w] EXCEPT !.pc = pc]]
    BY DEF Events!Goes
  <1>2. /\ [work[w] EXCEPT !.pc = pc] \in EventRun /\ RunFits([work[w] EXCEPT !.pc = pc])
        /\ RunMailed(mail, [work[w] EXCEPT !.pc = pc])
    BY RunKinds
  <1>3. QED
    BY <1>1, <1>2, RunMoves

\* The run goes on to another step of the same mail.
LEMMA RunGoes ==
    ASSUME EventsInv, NEW w \in Worker, NEW pc \in {"check", "beat", "reread", "insert"},
           \/ pc = "check" /\ work[w].pc = "load"
           \/ pc = "beat" /\ work[w].pc = "check"
           \/ pc = "reread" /\ work[w].pc = "beat"
           \/ pc = "insert" /\ work[w].pc = "reread",
           Events!Goes(w, pc), mail' = mail, requester' = requester,
           failures' = failures, edits' = edits,
           event' \in [Event -> EventRow], Events!ProcessedIsComplete'
    PROVE  EventsInv'
  <1> DEFINE r == [work[w] EXCEPT !.pc = pc]
  <1>1. work[w] \in EventRun /\ RunFits(work[w]) /\ RunMailed(mail, work[w])
    BY DEF EventsInv, EventTypes, RunsMailed
  <1>2. r \in EventRun /\ r.pc = pc /\ r.on = work[w].on /\ r.next = work[w].next
    BY <1>1 DEF EventRun
  <1>3. work' = [work EXCEPT ![w] = r]
    BY DEF Events!Goes
  <1> HIDE DEF r
  <1>4. RunFits(r)
    BY <1>1, <1>2, ProgressAssumption DEF RunFits
  <1>5. RunMailed(mail, r)
    <2>1. CASE pc \in {"reread", "insert"}
      BY <1>1, <1>2, <2>1 DEF RunMailed
    <2>2. CASE pc \in {"check", "beat"}
      <3>1. pc = "beat" => r.next = 1
        BY <1>1, <1>2, <2>2 DEF RunFits
      <3>2. QED
        BY <1>2, <2>2, <3>1 DEF RunMailed
    <2>3. QED
      BY <2>1, <2>2
  <1>6. QED
    BY <1>2, <1>3, <1>4, <1>5, RunMoves, EventsAsTheyAre

\* A row that the run holds is let go in state s.
LEMMA HeldRowReleased ==
    ASSUME EventsInv, NEW w \in Worker, NEW s \in Events!States,
           event' = [event EXCEPT ![work[w].on] = Events!Released(work[w].on, s)], work[w].pc # "idle",
           mail' = mail, s = "PROCESSED" => work[w].pc = "settle"
    PROVE  event' \in [Event -> EventRow] /\ Events!ProcessedIsComplete'
  <1> DEFINE e == work[w].on
             x == Events!Released(e, s)
  <1>1. e \in Event /\ RunFits(work[w]) /\ RunMailed(mail, work[w])
    BY DEF EventsInv, RunsMailed, RunFits
  <1>2. x \in EventRow /\ x.state = s
    BY <1>1, RowReleased
  <1>3. ASSUME s = "PROCESSED", NEW i \in 1 .. Actions PROVE Mailed(mail, e, i)
    <2>1. work[w].pc = "settle" /\ work[w].next = Actions + 1
      BY <1>1, <1>3 DEF RunFits
    <2>2. i \in 1 .. work[w].next - 1
      BY <2>1, ProgressAssumption
    <2>3. QED
      BY <1>1, <2>1, <2>2 DEF RunMailed
  <1> HIDE DEF x, e
  <1>4. event' = [event EXCEPT ![e] = x]
    BY DEF e, x
  <1>5. QED
    BY <1>1, <1>2, <1>3, <1>4, EventChanges DEF e

LEMMA LoadStep == ASSUME EventsInv, NEW w \in Worker, Events!Load(w) PROVE EventsInv'
  <1>1. event' \in [Event -> EventRow] /\ Events!ProcessedIsComplete'
    BY ProcessedStay, EventsAsTheyAre DEF Events!Load
  <1>2. CASE Events!Goes(w, "check")
    BY <1>1, <1>2, RunGoes DEF Events!Load
  <1>3. CASE Events!Ends(w)
    BY <1>1, <1>3, RunEnds, EventsAsTheyAre DEF Events!Load
  <1>4. QED
    BY <1>2, <1>3 DEF Events!Load

LEMMA CheckStep == ASSUME EventsInv, NEW w \in Worker, Events!Check(w) PROVE EventsInv'
  <1>1. event' \in [Event -> EventRow] /\ Events!ProcessedIsComplete'
    BY ProcessedStay, EventsAsTheyAre DEF Events!Check
  <1>2. CASE Events!Goes(w, "beat")
    BY <1>1, <1>2, RunGoes DEF Events!Check
  <1>3. CASE Events!Goes(w, "quarantine")
    BY <1>1, <1>3, RunTurns, EventsAsTheyAre DEF Events!Check
  <1>4. QED
    BY <1>2, <1>3 DEF Events!Check

LEMMA HeartbeatStep == ASSUME EventsInv, NEW w \in Worker, Events!Heartbeat(w) PROVE EventsInv'
  <1> DEFINE e == work[w].on
             x == [event[e] EXCEPT !.live = TRUE]
  <1>1. e \in Event
    BY DEF EventsInv, RunsMailed, RunFits, Events!Heartbeat
  <1>2. CASE Events!Holds(w, e)
    <2>1. x \in EventRow /\ x.state = "PROCESSING"
      <3>1. event[e] \in EventRow
        BY <1>1, EventsAsTheyAre
      <3>2. event[e].state = "PROCESSING"
        BY <1>2 DEF Events!Holds
      <3> DEFINE y == event[e]
      <3> HIDE DEF y
      <3>3. y \in EventRow => [y EXCEPT !.live = TRUE] \in EventRow /\ [y EXCEPT !.live = TRUE].state = y.state
        BY DEF EventRow
      <3>4. QED
        BY <3>1, <3>2, <3>3 DEF y
    <2>2. event' = [event EXCEPT ![e] = x] /\ mail' = mail
      BY <1>2 DEF Events!Heartbeat
    <2> HIDE DEF x, e
    <2>3. event' \in [Event -> EventRow] /\ Events!ProcessedIsComplete'
      BY <1>1, <2>1, <2>2, EventChanges
    <2>4. Events!Goes(w, "reread")
      BY <1>2 DEF Events!Heartbeat, e
    <2>5. QED
      BY <2>3, <2>4, RunGoes DEF Events!Heartbeat
  <1>3. CASE ~Events!Holds(w, e)
    <2>1. event' = event /\ Events!Ends(w)
      BY <1>3 DEF Events!Heartbeat
    <2>2. event' \in [Event -> EventRow] /\ Events!ProcessedIsComplete'
      BY <2>1, ProcessedStay, EventsAsTheyAre DEF Events!Heartbeat
    <2>3. QED
      BY <2>1, <2>2, RunEnds, EventsAsTheyAre DEF Events!Heartbeat
  <1>4. QED
    BY <1>2, <1>3

LEMMA RereadStep == ASSUME EventsInv, NEW w \in Worker, Events!Reread(w) PROVE EventsInv'
  <1>1. event' \in [Event -> EventRow] /\ Events!ProcessedIsComplete'
    BY ProcessedStay, EventsAsTheyAre DEF Events!Reread
  <1>2. CASE Events!Goes(w, "insert")
    BY <1>1, <1>2, RunGoes DEF Events!Reread
  <1>3. CASE Events!Goes(w, "fail")
    BY <1>1, <1>3, RunTurns, EventsAsTheyAre DEF Events!Reread
  <1>4. QED
    BY <1>2, <1>3 DEF Events!Reread

\* The row of the event stays, mails are added, and the run goes on.
LEMMA MailAdded ==
    ASSUME EventsInv, NEW w \in Worker, work[w].pc = "insert", Events!Inserted(w),
           NEW r \in EventRun, RunFits(r), RunMailed(mail', r), work' = [work EXCEPT ![w] = r],
           requester' = requester, event' = event, edits' = edits, failures' \in 0 .. EventFaults
    PROVE  EventsInv'
  <1>1. mail' \subseteq EventMail /\ mail \subseteq mail' /\ MailKeys'
    BY MailInserted
  <1>2. work' \in [Worker -> EventRun] /\ RunsMailed'
    BY <1>1, RunGoesOn
  <1>3. Events!ProcessedIsComplete'
    BY <1>1, ProcessedStay
  <1>4. EventTypes'
    BY <1>1, <1>2 DEF EventsInv, EventTypes
  <1>5. QED
    BY <1>1, <1>2, <1>3, <1>4 DEF EventsInv

LEMMA InsertStep == ASSUME EventsInv, NEW w \in Worker, Events!Insert(w) PROVE EventsInv'
  <1> DEFINE pc == IF work[w].next = Actions THEN "settle" ELSE "beat"
             n == work[w].next + 1
             r == [work[w] EXCEPT !.pc = pc, !.next = n]
  <1>1. work[w] \in EventRun /\ RunFits(work[w]) /\ RunMailed(mail, work[w]) /\ work[w].pc = "insert"
    BY DEF EventsInv, EventTypes, RunsMailed, Events!Insert
  <1>2. work[w].next \in 1 .. Actions /\ work[w].on \in Event
    BY <1>1 DEF RunFits
  <1>3. mail \subseteq mail' /\ Mailed(mail', work[w].on, work[w].next)
    BY <1>1, MailInserted DEF Events!Insert
  <1>4. n \in 0 .. Actions + 1 /\ pc \in {"settle", "beat"}
        /\ (pc = "settle" => n = Actions + 1) /\ (pc = "beat" => n \in 1 .. Actions)
    BY <1>2, ProgressAssumption
  <1>5. work' = [work EXCEPT ![w] = r]
    BY DEF Events!Insert
  <1>6. n - 1 = work[w].next /\ work[w].next \in Nat
    BY <1>2, ProgressAssumption
  <1> HIDE DEF pc, n
  <1>7. r \in EventRun /\ r.pc = pc /\ r.on = work[w].on /\ r.next = n
    BY <1>1, <1>4 DEF EventRun
  <1> HIDE DEF r
  <1>8. RunFits(r)
    BY <1>2, <1>4, <1>7 DEF RunFits
  <1>9. ASSUME NEW i \in 1 .. r.next - 1 PROVE Mailed(mail', r.on, i)
    <2>1. CASE i = work[w].next
      BY <1>3, <1>7, <2>1
    <2>2. CASE i # work[w].next
      <3>1. i \in 1 .. work[w].next - 1
        BY <1>6, <1>7, <1>9, <2>2
      <3>2. Mailed(mail, work[w].on, i)
        BY <1>1, <3>1 DEF RunMailed
      <3>3. QED
        BY <1>3, <1>7, <3>2 DEF Mailed
    <2>3. QED
      BY <2>1, <2>2
  <1>10. RunMailed(mail', r)
    BY <1>9 DEF RunMailed
  <1>11. QED
    BY <1>1, <1>5, <1>7, <1>8, <1>10, MailAdded, EventsAsTheyAre DEF Events!Insert

LEMMA SettleStep ==
    ASSUME EventsInv, NEW w \in Worker, Events!Settle(w) \/ Events!Quarantine(w) \/ Events!Fail(w)
    PROVE  EventsInv'
  <1>1. mail' = mail /\ work[w].pc # "idle" /\ Events!Ends(w)
        /\ requester' = requester /\ edits' = edits /\ failures' = failures
    BY DEF Events!Settle, Events!Quarantine, Events!Fail
  <1>2. \/ event' = event
        \/ \E s \in Events!States :
              /\ event' = [event EXCEPT ![work[w].on] = Events!Released(work[w].on, s)]
              /\ s = "PROCESSED" => work[w].pc = "settle"
    BY DEF Events!Settle, Events!Quarantine, Events!Fail, Events!States
  <1>3. event' \in [Event -> EventRow] /\ Events!ProcessedIsComplete'
    <2>1. CASE event' = event
      BY <1>1, <2>1, ProcessedStay, EventsAsTheyAre
    <2>2. ASSUME NEW s \in Events!States,
                 event' = [event EXCEPT ![work[w].on] = Events!Released(work[w].on, s)],
                 s = "PROCESSED" => work[w].pc = "settle"
          PROVE  event' \in [Event -> EventRow] /\ Events!ProcessedIsComplete'
      BY <1>1, <2>2, HeldRowReleased
    <2>3. QED
      BY <1>2, <2>1, <2>2
  <1>4. QED
    BY <1>1, <1>3, RunEnds, EventsAsTheyAre

LEMMA EventFaultStep ==
    ASSUME EventsInv, NEW w \in Worker,
           \/ Events!Throws(w) \/ Events!InsertAnswerLost(w) \/ Events!SettleAnswerLost(w) \/ Events!Dies(w)
    PROVE  EventsInv'
  <1>1. failures' \in 0 .. EventFaults
    BY FaultCounts DEF Events!Throws, Events!InsertAnswerLost, Events!SettleAnswerLost, Events!Dies
  <1>2. CASE Events!Throws(w)
    <2>1. event' \in [Event -> EventRow] /\ Events!ProcessedIsComplete'
      BY <1>2, ProcessedStay, EventsAsTheyAre DEF Events!Throws
    <2>2. QED
      BY <1>1, <1>2, <2>1, RunTurns DEF Events!Throws
  <1>3. CASE Events!Dies(w)
    <2>1. event' \in [Event -> EventRow] /\ Events!ProcessedIsComplete'
      BY <1>3, ProcessedStay, EventsAsTheyAre DEF Events!Dies
    <2>2. QED
      BY <1>1, <1>3, <2>1, RunEnds DEF Events!Dies
  <1>4. CASE Events!SettleAnswerLost(w)
    <2>1. "PROCESSED" \in Events!States
      BY DEF Events!States
    <2>2. event' \in [Event -> EventRow] /\ Events!ProcessedIsComplete'
      BY <1>4, <2>1, HeldRowReleased DEF Events!SettleAnswerLost
    <2>3. QED
      BY <1>1, <1>4, <2>2, RunTurns DEF Events!SettleAnswerLost
  <1>5. CASE Events!InsertAnswerLost(w)
    <2> DEFINE r == [work[w] EXCEPT !.pc = "fail"]
    <2>1. work[w].pc = "insert" /\ work' = [work EXCEPT ![w] = r]
      BY <1>5 DEF Events!InsertAnswerLost, Events!Goes
    <2>2. r \in EventRun /\ RunFits(r) /\ \A S : RunMailed(S, r)
      BY <2>1, RunKinds
    <2> HIDE DEF r
    <2>3. QED
      BY <1>1, <1>5, <2>1, <2>2, MailAdded DEF Events!InsertAnswerLost
  <1>6. QED
    BY <1>2, <1>3, <1>4, <1>5

LEMMA EventsStep == ASSUME EventsInv, Events!Next PROVE EventsInv'
  <1>1. CASE Events!RequesterChanges
    <2>1. event' \in [Event -> EventRow] /\ Events!ProcessedIsComplete'
      BY <1>1, ProcessedStay, EventsAsTheyAre DEF Events!RequesterChanges
    <2>2. requester' \in Address /\ edits' \in 0 .. MaxEdits
      BY <1>1, EventsAsTheyAre, ProgressAssumption DEF Events!RequesterChanges, Events!Edits
    <2>3. QED
      BY <1>1, <2>1, <2>2, RowsMove, EventsAsTheyAre DEF Events!RequesterChanges
  <1>2. ASSUME NEW e \in Event,
               Events!Enqueue(e) \/ Events!Replay(e) \/ Events!BecomesDue(e) \/ Events!LeaseExpires(e)
        PROVE  EventsInv'
    BY <1>2, EnqueueStep, ReplayStep, DueStep, LeaseExpiresStep
  <1>3. ASSUME NEW w \in Worker, Events!Run(w)
        PROVE  EventsInv'
    BY <1>3, LoadStep, CheckStep, HeartbeatStep, RereadStep, InsertStep, SettleStep DEF Events!Run
  <1>4. ASSUME NEW w \in Worker, NEW e \in Event, Events!Claim(w, e)
        PROVE  EventsInv'
    BY <1>4, ClaimStep
  <1>5. QED
    BY <1>1, <1>2, <1>3, <1>4, EventFaultStep DEF Events!Next

LEMMA EventsPromise == EventsInv => Events!MailInv
  <1> SUFFICES ASSUME EventsInv PROVE Events!MailInv
    OBVIOUS
  <1>1. Events!TypeOK
    BY DEF EventsInv, EventTypes, EventRow, EventMail, EventRun, Events!TypeOK
  <1>2. Events!OneMailPerAction
    <2> SUFFICES ASSUME NEW m \in mail, NEW n \in mail, m.of = n.of, m.action = n.action PROVE m = n
      BY DEF Events!OneMailPerAction
    <2>1. m \in EventMail /\ n \in EventMail
      BY DEF EventsInv, EventTypes
    <2>2. m.key = n.key
      BY DEF EventsInv, MailKeys
    <2>3. QED
      BY <2>1, <2>2 DEF EventMail
  <1>3. QED
    BY <1>1, <1>2 DEF EventsInv, Events!MailInv

\* What a step may do to the row of an event.
HolderOnly(e) ==
    event'[e] # event[e] =>
        /\ event[e].state = "PROCESSING" /\ event[e].live =>
            \/ event'[e] = [event[e] EXCEPT !.live = FALSE]
            \/ work[event[e].owner].on = e /\ work'[event[e].owner] # work[event[e].owner]
        /\ event[e].state # "PROCESSED"
        /\ event[e].state = "QUARANTINED" => event'[e].state = "PENDING" /\ event'[e].attempts = 0

\* A run writes the row it holds, and moves.
LEMMA HolderMoves ==
    ASSUME EventsInv, NEW w \in Worker, NEW e \in Event, event'[e] # event[e], Events!Run(w)
    PROVE  work[w].on = e /\ Events!Holds(w, e) /\ work'[w] # work[w]
  <1>1. work \in [Worker -> EventRun] /\ event \in [Event -> EventRow]
    BY DEF EventsInv, EventTypes
  <1>2. CASE Events!Heartbeat(w)
    <2>1. work[w].on = e /\ Events!Holds(w, e) /\ Events!Goes(w, "reread") /\ work[w].pc = "beat"
      BY <1>1, <1>2 DEF Events!Heartbeat
    <2>2. work'[w] = [work[w] EXCEPT !.pc = "reread"]
      BY <1>1, <2>1 DEF Events!Goes
    <2>3. work'[w].pc = "reread"
      BY <1>1, <2>2 DEF EventRun
    <2>4. QED
      BY <2>1, <2>3
  <1>3. CASE Events!Settle(w) \/ Events!Quarantine(w) \/ Events!Fail(w)
    <2>1. work[w].on = e /\ Events!Holds(w, e)
      BY <1>1, <1>3 DEF Events!Settle, Events!Quarantine, Events!Fail
    <2>2. work[w].pc # "idle" /\ work'[w] = Events!Idle
      BY <1>1, <1>3 DEF Events!Settle, Events!Quarantine, Events!Fail, Events!Ends
    <2>3. QED
      BY <2>1, <2>2 DEF Events!Idle
  <1>4. ~(Events!Load(w) \/ Events!Check(w) \/ Events!Reread(w) \/ Events!Insert(w))
    BY DEF Events!Load, Events!Check, Events!Reread, Events!Insert
  <1>5. QED
    BY <1>2, <1>3, <1>4 DEF Events!Run

LEMMA HolderStep ==
    ASSUME EventsInv, Events!Next, NEW e \in Event
    PROVE  HolderOnly(e)
  <1> SUFFICES ASSUME event'[e] # event[e] PROVE HolderOnly(e)
    BY DEF HolderOnly
  <1>0. work \in [Worker -> EventRun] /\ event \in [Event -> EventRow]
    BY DEF EventsInv, EventTypes
  <1>1. ASSUME NEW f \in Event, Events!Enqueue(f) PROVE HolderOnly(e)
    <2>1. f = e
      BY <1>0, <1>1 DEF Events!Enqueue
    <2>2. event[e].state = "none"
      BY <1>1, <2>1 DEF Events!Enqueue
    <2>3. QED
      BY <2>2 DEF HolderOnly
  <1>2. ASSUME NEW f \in Event, Events!Replay(f) PROVE HolderOnly(e)
    <2> DEFINE x == Events!Released(e, "PENDING")
    <2>1. f = e
      BY <1>0, <1>2 DEF Events!Replay
    <2>2. event[e].state = "QUARANTINED" /\ event'[e] = [x EXCEPT !.attempts = 0]
      BY <1>0, <1>2, <2>1 DEF Events!Replay
    <2>3. x \in EventRow /\ x.state = "PENDING"
      BY RowReleased DEF Events!States
    <2> HIDE DEF x
    <2>4. event'[e].state = "PENDING" /\ event'[e].attempts = 0
      BY <2>2, <2>3 DEF EventRow
    <2>5. QED
      BY <2>2, <2>4 DEF HolderOnly
  <1>3. ASSUME NEW f \in Event, Events!BecomesDue(f) PROVE HolderOnly(e)
    <2>1. f = e
      BY <1>0, <1>3 DEF Events!BecomesDue
    <2>2. event[e].state = "WAITING"
      BY <1>3, <2>1 DEF Events!BecomesDue
    <2>3. QED
      BY <2>2 DEF HolderOnly
  <1>4. ASSUME NEW f \in Event, Events!LeaseExpires(f) PROVE HolderOnly(e)
    <2>1. f = e
      BY <1>0, <1>4 DEF Events!LeaseExpires
    <2>2. event[e].state = "PROCESSING" /\ event'[e] = [event[e] EXCEPT !.live = FALSE]
      BY <1>0, <1>4, <2>1 DEF Events!LeaseExpires
    <2>3. QED
      BY <2>2 DEF HolderOnly
  <1>5. ASSUME NEW w \in Worker, NEW f \in Event, Events!Claim(w, f) PROVE HolderOnly(e)
    <2>1. f = e
      BY <1>0, <1>5 DEF Events!Claim
    <2>2. Events!Claimable(e)
      BY <1>5, <2>1 DEF Events!Claim
    <2>3. QED
      BY <2>2 DEF HolderOnly, Events!Claimable
  <1>6. ASSUME NEW w \in Worker, Events!Run(w) PROVE HolderOnly(e)
    <2>1. work[w].on = e /\ Events!Holds(w, e) /\ work'[w] # work[w]
      BY <1>6, HolderMoves
    <2>2. QED
      BY <2>1 DEF HolderOnly, Events!Holds
  <1>7. ASSUME NEW w \in Worker, Events!SettleAnswerLost(w) PROVE HolderOnly(e)
    <2>1. work[w].on = e /\ Events!Holds(w, e) /\ work[w].pc = "settle" /\ Events!Goes(w, "fail")
      BY <1>0, <1>7 DEF Events!SettleAnswerLost
    <2>2. work'[w] = [work[w] EXCEPT !.pc = "fail"]
      BY <1>0, <2>1 DEF Events!Goes
    <2>3. work'[w].pc = "fail"
      BY <1>0, <2>2 DEF EventRun
    <2>4. QED
      BY <2>1, <2>3 DEF HolderOnly, Events!Holds
  <1>8. ASSUME NEW w \in Worker, Events!Throws(w) \/ Events!InsertAnswerLost(w) \/ Events!Dies(w)
        PROVE  FALSE
    BY <1>8 DEF Events!Throws, Events!InsertAnswerLost, Events!Dies
  <1>9. ~Events!RequesterChanges
    BY DEF Events!RequesterChanges
  <1>10. QED
    BY <1>1, <1>2, <1>3, <1>4, <1>5, <1>6, <1>7, <1>8, <1>9 DEF Events!Next

--------------------------------------------------------------------------------
(***************************************************************************)
(* Attachments.  The inductive invariant counts the moves of a file to the *)
(* deletion queue: every move but the last was paid for by a fault, and a  *)
(* run whose transaction is gone but which is yet to move has paid before. *)
(***************************************************************************)
StagedNames == Att \X (1 .. OtherFaults + 1)
Cleanup ==
    [pc : {"idle", "recover", "list", "next", "stage", "drop", "dropOnly", "link", "unlink"},
     todo : SUBSET Att, queue : SUBSET StagedNames, now : {<< >>} \cup (Att \X Nat),
     back : {"idle", "recover", "next"}, open : BOOLEAN]
UploadPc == {"new", "adopt", "adoptLinked", "commit", "commitLinked", "undo", "done", "failed"}

FileTypes ==
    /\ row \in [Att -> {"none", "orphan", "linked"}]
    /\ old \subseteq Att /\ snap \subseteq Att /\ bytes \subseteq Att /\ deleting \subseteq Att
    /\ pending \subseteq StagedNames /\ moves \in [Att -> Nat]
    /\ upload \in [Att -> UploadPc] /\ pod \in [Pod -> Cleanup] /\ failures \in 0 .. OtherFaults

\* A name of the queue was given by a move.
Named(e) == e \in StagedNames /\ e[2] <= moves[e[1]]

\* An upload that has not committed: nobody else knows the id.
Fresh(a) == upload[a] \in {"new", "adopt", "adoptLinked", "commit", "commitLinked"}

\* An answered upload whose row is there.
Used(a) == row[a] # "none" /\ upload[a] = "done"

Handles(s) == s.pc \in {"stage", "drop", "dropOnly", "link", "unlink"}

\* What a cleanup holds is named, and no upload that has not committed.
CleanupFits(s) ==
    /\ Handles(s) => s.now \in Att \X Nat
    /\ s.open => s.pc \in {"stage", "drop", "dropOnly"}
    /\ \A e \in s.queue : Named(e)
    /\ s.pc \in {"drop", "link", "unlink"} => Named(s.now)
    /\ \A a \in Att : Fresh(a) => a \notin s.todo /\ (Handles(s) => s.now[1] # a)

\* Whoever unlinks the last name of a file in use has linked it back.
CleanupSafe(s) ==
    \A a \in Att : Used(a) /\ s.pc = "unlink" /\ s.now = <<a, moves[a]>> => a \in bytes

CleanupsFit ==
    /\ \A e \in pending : Named(e)
    /\ \A p \in Pod : CleanupFits(pod[p]) /\ CleanupSafe(pod[p])

FreshFit ==
    \A a \in Att : Fresh(a) =>
        /\ row[a] = "none" /\ moves[a] = 0 /\ a \notin deleting
        /\ upload[a] \in {"commit", "commitLinked"} => a \in bytes

\* A row under a lock of a cleanup is an orphan, and locked once.
LocksFit ==
    /\ \A a \in deleting : row[a] = "none"
    /\ \A p \in Pod : pod[p].open => row[pod[p].now[1]] = "orphan"
    /\ \A p, q \in Pod : pod[p].open /\ pod[q].open /\ p # q => pod[p].now[1] # pod[q].now[1]

BytesFit == \A a \in Att : Used(a) => a \in bytes \/ <<a, moves[a]>> \in pending

\* The upload that was let in.
Admitted == {a \in Att : upload[a] \in {"adopt", "commit"}}

RoomFits ==
    /\ \A a, b \in Admitted : a = b
    /\ Admitted # {} => Cardinality(Files!Orphans) < MaxOrphans
    /\ Cardinality(Files!Orphans) <= MaxOrphans

\* A run that moves a file although its transaction is gone, and one that has moved it.
IsLate(s, a) == s.pc = "stage" /\ ~s.open /\ s.now[1] = a
HasMoved(s, a) == s.open /\ s.pc = "drop" /\ s.now[1] = a

Late(a) == {p \in Pod : IsLate(pod[p], a)}

\* The move that no fault has paid for.
LastMove(a) == row[a] = "none" \/ \E p \in Pod : HasMoved(pod[p], a)

MovesFit ==
    \A a \in Att : /\ moves[a] + Cardinality(Late(a)) <= failures + 1
                   /\ ~LastMove(a) => moves[a] + Cardinality(Late(a)) <= failures

AttachmentsInv ==
    FileTypes /\ CleanupsFit /\ FreshFit /\ LocksFit /\ BytesFit /\ RoomFits /\ MovesFit

--------------------------------------------------------------------------------
LEMMA SameCountOfRows == \A S : Files!Cardinality(S) = Cardinality(S)
  BY DEF Files!Cardinality, Cardinality

LEMMA LateFinite ==
    \A a : IsFiniteSet(Late(a)) /\ Cardinality(Late(a)) \in Nat
  <1> TAKE a
  <1>1. IsFiniteSet(Late(a))
    BY ProgressAssumption, FS_Subset DEF Late
  <1>2. QED
    BY <1>1, FS_CardinalityType

LEMMA OrphansFinite ==
    IsFiniteSet(Files!Orphans) /\ Cardinality(Files!Orphans) \in Nat
  <1>1. IsFiniteSet(Files!Orphans)
    BY ProgressAssumption, FS_Subset DEF Files!Orphans
  <1>2. QED
    BY <1>1, FS_CardinalityType

LEMMA Fewer ==
    ASSUME NEW S, NEW T, IsFiniteSet(S), T \subseteq S
    PROVE  IsFiniteSet(T) /\ Cardinality(T) \in Nat /\ Cardinality(S) \in Nat /\ Cardinality(T) <= Cardinality(S)
  BY FS_Subset, FS_CardinalityType

LEMMA OneFewer ==
    ASSUME NEW S, NEW T, NEW x \in S, IsFiniteSet(S), T \subseteq S \ {x}
    PROVE  Cardinality(T) + 1 <= Cardinality(S)
  <1>1. Cardinality(S \ {x}) = Cardinality(S) - 1 /\ IsFiniteSet(S \ {x})
    BY FS_RemoveElement
  <1>2. Cardinality(T) <= Cardinality(S \ {x}) /\ Cardinality(T) \in Nat
    BY <1>1, Fewer
  <1>3. Cardinality(S) \in Nat
    BY FS_CardinalityType
  <1>4. QED
    BY <1>1, <1>2, <1>3

LEMMA OneMore ==
    ASSUME NEW S, NEW T, NEW x, IsFiniteSet(S), T \subseteq S \cup {x}
    PROVE  Cardinality(T) <= Cardinality(S) + 1
  <1>1. IsFiniteSet(S \cup {x}) /\ (Cardinality(S \cup {x}) = Cardinality(S) \/ Cardinality(S \cup {x}) = Cardinality(S) + 1)
    BY FS_AddElement
  <1>2. Cardinality(T) <= Cardinality(S \cup {x}) /\ Cardinality(T) \in Nat
    BY <1>1, Fewer
  <1>3. Cardinality(S) \in Nat
    BY FS_CardinalityType
  <1>4. QED
    BY <1>1, <1>2, <1>3

LEMMA FilesInit == Files!Init => AttachmentsInv
  <1> SUFFICES ASSUME Files!Init PROVE AttachmentsInv
    OBVIOUS
  <1>1. Files!Idle \in Cleanup
    BY DEF Files!Idle, Cleanup
  <1>2. \A p \in Pod : pod[p] = Files!Idle
    BY DEF Files!Init
  <1>3. FileTypes
    BY <1>1, ProgressAssumption DEF Files!Init, FileTypes, UploadPc
  <1>4. CleanupFits(Files!Idle) /\ CleanupSafe(Files!Idle)
    BY DEF Files!Idle, CleanupFits, CleanupSafe, Handles
  <1>5. CleanupsFit
    BY <1>2, <1>4 DEF CleanupsFit, Files!Init
  <1>6. FreshFit /\ BytesFit
    BY DEF Files!Init, FreshFit, BytesFit, Used
  <1>7. LocksFit
    BY <1>2 DEF Files!Init, LocksFit, Files!Idle
  <1>8. Admitted = {} /\ Files!Orphans = {}
    BY DEF Files!Init, Admitted, Files!Orphans
  <1>9. RoomFits
    BY <1>8, FS_EmptySet, ProgressAssumption DEF RoomFits
  <1>10. \A a \in Att : Late(a) = {}
    BY <1>2 DEF Late, IsLate, Files!Idle
  <1>11. MovesFit
    BY <1>10, FS_EmptySet DEF MovesFit, Files!Init, LastMove
  <1>12. QED
    BY <1>3, <1>5, <1>6, <1>7, <1>9, <1>11 DEF AttachmentsInv

LEMMA FileFaultCounts ==
    ASSUME AttachmentsInv, Files!Faulty
    PROVE  failures' \in 0 .. OtherFaults /\ failures' = failures + 1
  BY ProgressAssumption DEF AttachmentsInv, FileTypes, Files!Faulty

LEMMA FaultsAsTheyAre == AttachmentsInv => failures \in 0 .. OtherFaults
  BY DEF AttachmentsInv, FileTypes

--------------------------------------------------------------------------------
(* What people and uploads do to one attachment.                           *)

LEMMA RoomStays ==
    ASSUME AttachmentsInv, Files!Orphans' \subseteq Files!Orphans, Admitted' \subseteq Admitted
    PROVE  RoomFits'
  <1>1. Cardinality(Files!Orphans') \in Nat /\ Cardinality(Files!Orphans') <= Cardinality(Files!Orphans)
        /\ Cardinality(Files!Orphans) \in Nat
    BY OrphansFinite, Fewer
  <1>2. \A a, b \in Admitted' : a = b
    BY DEF AttachmentsInv, RoomFits
  <1>3. Admitted' # {} => Admitted # {}
    OBVIOUS
  <1>4. QED
    BY <1>1, <1>2, <1>3, ProgressAssumption DEF AttachmentsInv, RoomFits

\* What only the attachment a may do, when no cleanup moves.
OneMoves(a) ==
    /\ \A b \in Att : b # a => /\ row'[b] = row[b] /\ upload'[b] = upload[b]
                               /\ b \in bytes' <=> b \in bytes
                               /\ b \in deleting' <=> b \in deleting
    /\ Fresh(a)' => /\ Fresh(a) /\ row'[a] = "none" /\ a \notin deleting'
                    /\ upload'[a] \in {"commit", "commitLinked"} => a \in bytes'
    /\ a \in deleting' => row'[a] = "none"
    /\ Files!Locked(a) => row'[a] = "orphan"
    /\ Used(a)' => a \in bytes' \/ (Used(a) /\ (a \in bytes => a \in bytes'))
    /\ row[a] = "none" /\ row'[a] # "none" => Fresh(a)

\* No cleanup is at an id that nobody knows.
LEMMA NobodyIsLate ==
    ASSUME AttachmentsInv, NEW a \in Att, Fresh(a)
    PROVE  Late(a) = {} /\ Cardinality(Late(a)) = 0 /\ moves[a] = 0
  <1>1. \A p \in Pod : ~IsLate(pod[p], a)
    BY DEF AttachmentsInv, CleanupsFit, CleanupFits, IsLate, Handles
  <1>2. Late(a) = {}
    BY <1>1 DEF Late
  <1>3. QED
    BY <1>2, FS_EmptySet DEF AttachmentsInv, FreshFit

LEMMA OneMovesFits ==
    ASSUME AttachmentsInv, NEW a \in Att, OneMoves(a), FileTypes',
           pod' = pod, pending' = pending, moves' = moves,
           failures' \in {failures, failures + 1}, RoomFits'
    PROVE  AttachmentsInv'
  <1>0. /\ FileTypes /\ CleanupsFit /\ FreshFit /\ LocksFit /\ BytesFit /\ MovesFit
        /\ moves \in [Att -> Nat] /\ failures \in Nat
    BY ProgressAssumption DEF AttachmentsInv, FileTypes
  <1>1. \A b \in Att : Fresh(b)' => Fresh(b)
    BY DEF OneMoves, Fresh
  <1>2. CleanupsFit'
    <2>1. \A e : Named(e)' <=> Named(e)
      BY DEF Named
    <2>2. ASSUME NEW p \in Pod PROVE CleanupFits(pod[p])'
      <3>1. CleanupFits(pod[p]) /\ pod'[p] = pod[p]
        BY <1>0 DEF CleanupsFit
      <3>2. QED
        BY <1>1, <2>1, <3>1 DEF CleanupFits, Handles
    <2>3. ASSUME NEW p \in Pod, NEW b \in Att, Used(b)', pod[p].pc = "unlink", pod[p].now = <<b, moves[b]>>
          PROVE  b \in bytes'
      <3>1. CASE b = a
        <4>1. Used(b) => b \in bytes
          BY <1>0, <2>3 DEF CleanupsFit, CleanupSafe
        <4>2. QED
          BY <2>3, <3>1, <4>1 DEF OneMoves
      <3>2. CASE b # a
        <4>1. Used(b)
          BY <2>3, <3>2 DEF OneMoves, Used
        <4>2. b \in bytes
          BY <1>0, <2>3, <4>1 DEF CleanupsFit, CleanupSafe
        <4>3. QED
          BY <3>2, <4>2 DEF OneMoves
      <3>3. QED
        BY <3>1, <3>2
    <2>4. ASSUME NEW p \in Pod PROVE CleanupSafe(pod[p])'
      BY <2>3 DEF CleanupSafe
    <2>5. \A e \in pending' : Named(e)'
      BY <1>0, <2>1 DEF CleanupsFit
    <2>6. QED
      BY <2>2, <2>4, <2>5 DEF CleanupsFit
  <1>3. FreshFit'
    <2> SUFFICES ASSUME NEW b \in Att, Fresh(b)'
                 PROVE  /\ row'[b] = "none" /\ moves'[b] = 0 /\ b \notin deleting'
                        /\ upload'[b] \in {"commit", "commitLinked"} => b \in bytes'
      BY DEF FreshFit
    <2>1. Fresh(b) /\ moves[b] = 0
      BY <1>0, <1>1 DEF FreshFit
    <2>2. CASE b = a
      BY <2>1, <2>2 DEF OneMoves
    <2>3. CASE b # a
      BY <1>0, <2>1, <2>3 DEF OneMoves, FreshFit
    <2>4. QED
      BY <2>2, <2>3
  <1>4. LocksFit'
    <2>1. ASSUME NEW b \in deleting' PROVE row'[b] = "none"
      <3>1. b \in Att
        BY DEF FileTypes
      <3>2. CASE b = a
        BY <2>1, <3>2 DEF OneMoves
      <3>3. CASE b # a
        BY <1>0, <2>1, <3>1, <3>3 DEF OneMoves, LocksFit
      <3>4. QED
        BY <3>2, <3>3
    <2>2. ASSUME NEW p \in Pod, pod[p].open PROVE row'[pod[p].now[1]] = "orphan"
      <3> DEFINE b == pod[p].now[1]
      <3>1. row[b] = "orphan"
        BY <1>0, <2>2 DEF LocksFit
      <3>2. b \in Att
        BY <1>0, <2>2 DEF CleanupsFit, CleanupFits, Handles
      <3>3. CASE b = a
        BY <2>2, <3>3 DEF OneMoves, Files!Locked
      <3>4. CASE b # a
        BY <3>1, <3>2, <3>4 DEF OneMoves
      <3>5. QED
        BY <3>3, <3>4
    <2>3. QED
      BY <1>0, <2>1, <2>2 DEF LocksFit
  <1>5. BytesFit'
    <2> SUFFICES ASSUME NEW b \in Att, Used(b)' PROVE b \in bytes' \/ <<b, moves[b]>> \in pending
      BY DEF BytesFit
    <2>1. CASE b = a
      BY <1>0, <2>1 DEF OneMoves, BytesFit
    <2>2. CASE b # a
      BY <1>0, <2>2 DEF OneMoves, BytesFit, Used
    <2>3. QED
      BY <2>1, <2>2
  <1>6. MovesFit'
    <2> SUFFICES ASSUME NEW b \in Att
                 PROVE  /\ moves[b] + Cardinality(Late(b)) <= failures' + 1
                        /\ ~LastMove(b)' => moves[b] + Cardinality(Late(b)) <= failures'
      BY DEF MovesFit, Late
    <2>1. Cardinality(Late(b)) \in Nat
      BY LateFinite
    <2>2. CASE LastMove(b) => LastMove(b)'
      BY <1>0, <2>1, <2>2 DEF MovesFit
    <2>3. CASE LastMove(b) /\ ~LastMove(b)'
      <3>1. row[b] = "none" /\ row'[b] # "none"
        BY <2>3 DEF LastMove
      <3>2. Fresh(b)
        BY <3>1 DEF OneMoves
      <3>3. QED
        BY <1>0, <3>2, NobodyIsLate
    <2>4. QED
      BY <2>2, <2>3
  <1>7. QED
    BY <1>2, <1>3, <1>4, <1>5, <1>6 DEF AttachmentsInv

LEMMA StartUploadStep == ASSUME AttachmentsInv, NEW a \in Att, Files!StartUpload(a) PROVE AttachmentsInv'
  <1>0. FileTypes /\ FreshFit /\ LocksFit /\ upload[a] = "new" /\ Fresh(a)
    BY DEF AttachmentsInv, Files!StartUpload, Fresh
  <1>1. PICK pc \in {"adopt", "adoptLinked"} :
            /\ upload' = [upload EXCEPT ![a] = pc]
            /\ pc = "adopt" => Files!HasRoom
    BY DEF Files!StartUpload
  <1>2. UNCHANGED <<row, old, snap, bytes, pending, moves, deleting, pod, failures>>
    BY DEF Files!StartUpload
  <1>3. upload' \in [Att -> UploadPc] /\ upload'[a] = pc /\ \A b \in Att : b # a => upload'[b] = upload[b]
    BY <1>0, <1>1 DEF FileTypes, UploadPc
  <1>4. FileTypes'
    BY <1>0, <1>2, <1>3 DEF FileTypes
  <1>5. Files!Locked(a) => row[a] = "orphan"
    BY <1>0 DEF Files!Locked, LocksFit
  <1>6. row[a] = "none" /\ a \notin deleting
    BY <1>0 DEF FreshFit
  <1>7. OneMoves(a)
    BY <1>0, <1>1, <1>2, <1>3, <1>5, <1>6 DEF OneMoves, Used
  <1>8. Files!Orphans' = Files!Orphans
    BY <1>2 DEF Files!Orphans
  <1>9. RoomFits'
    <2>1. CASE pc = "adoptLinked"
      <3>1. Admitted' \subseteq Admitted
        BY <1>3, <2>1 DEF Admitted
      <3>2. QED
        BY <1>8, <3>1, RoomStays
    <2>2. CASE pc = "adopt"
      <3>1. Cardinality(Files!Orphans) < MaxOrphans /\ \A b \in Att : upload[b] \notin {"adopt", "commit"}
        BY <1>1, <2>2, SameCountOfRows DEF Files!HasRoom
      <3>2. Admitted' = {a}
        BY <1>3, <2>2, <3>1 DEF Admitted
      <3>3. QED
        BY <1>8, <3>1, <3>2, OrphansFinite, ProgressAssumption DEF RoomFits
    <2>3. QED
      BY <2>1, <2>2
  <1>10. QED
    BY <1>2, <1>4, <1>7, <1>9, OneMovesFits

LEMMA AdoptStep == ASSUME AttachmentsInv, NEW a \in Att, Files!Adopt(a) PROVE AttachmentsInv'
  <1>0. FileTypes /\ FreshFit /\ LocksFit /\ upload[a] \in {"adopt", "adoptLinked"} /\ Fresh(a)
    BY DEF AttachmentsInv, Files!Adopt, Fresh
  <1> DEFINE pc == IF upload[a] = "adopt" THEN "commit" ELSE "commitLinked"
  <1>1. upload' = [upload EXCEPT ![a] = pc] /\ bytes' = bytes \cup {a}
    BY DEF Files!Adopt
  <1>2. UNCHANGED <<row, old, snap, pending, moves, deleting, pod, failures>>
    BY DEF Files!Adopt
  <1>3. pc \in {"commit", "commitLinked"} /\ (pc = "commit" => upload[a] = "adopt")
    OBVIOUS
  <1> HIDE DEF pc
  <1>4. upload' \in [Att -> UploadPc] /\ upload'[a] = pc /\ \A b \in Att : b # a => upload'[b] = upload[b]
    BY <1>0, <1>1, <1>3 DEF FileTypes, UploadPc
  <1>5. FileTypes'
    BY <1>0, <1>1, <1>2, <1>4 DEF FileTypes
  <1>6. Files!Locked(a) => row[a] = "orphan"
    BY <1>0 DEF Files!Locked, LocksFit
  <1>7. row[a] = "none" /\ a \notin deleting
    BY <1>0 DEF FreshFit
  <1>8. OneMoves(a)
    BY <1>0, <1>1, <1>2, <1>3, <1>4, <1>6, <1>7 DEF OneMoves, Used
  <1>9. Files!Orphans' = Files!Orphans /\ Admitted' \subseteq Admitted
    BY <1>2, <1>3, <1>4 DEF Files!Orphans, Admitted
  <1>10. QED
    BY <1>2, <1>5, <1>8, <1>9, RoomStays, OneMovesFits

LEMMA CommitUploadStep == ASSUME AttachmentsInv, NEW a \in Att, Files!CommitUpload(a) PROVE AttachmentsInv'
  <1>0. /\ FileTypes /\ FreshFit /\ LocksFit /\ RoomFits
        /\ upload[a] \in {"commit", "commitLinked"} /\ Fresh(a) /\ failures \in Nat
    BY ProgressAssumption DEF AttachmentsInv, Files!CommitUpload, Fresh, FileTypes
  <1> DEFINE r == IF upload[a] = "commit" THEN "orphan" ELSE "linked"
  <1>1. PICK pc \in {"done", "undo"} : upload' = [upload EXCEPT ![a] = pc]
    BY DEF Files!CommitUpload
  <1>2. row' = [row EXCEPT ![a] = r] /\ UNCHANGED <<old, snap, bytes, pending, moves, deleting, pod>>
    BY DEF Files!CommitUpload
  <1>3. failures' \in {failures, failures + 1} /\ failures' \in 0 .. OtherFaults
    BY FileFaultCounts, FaultsAsTheyAre DEF Files!CommitUpload
  <1>4. r \in {"orphan", "linked"} /\ (r = "orphan" => upload[a] = "commit")
    OBVIOUS
  <1> HIDE DEF r
  <1>5. upload' \in [Att -> UploadPc] /\ upload'[a] = pc /\ \A b \in Att : b # a => upload'[b] = upload[b]
    BY <1>0, <1>1 DEF FileTypes, UploadPc
  <1>6. /\ row' \in [Att -> {"none", "orphan", "linked"}] /\ row'[a] = r
        /\ \A b \in Att : b # a => row'[b] = row[b]
    BY <1>0, <1>2, <1>4 DEF FileTypes
  <1>7. FileTypes'
    BY <1>0, <1>2, <1>3, <1>5, <1>6 DEF FileTypes
  <1>8. row[a] = "none" /\ a \notin deleting /\ a \in bytes
    BY <1>0 DEF FreshFit
  <1>9. ~Files!Locked(a)
    BY <1>0, <1>8 DEF Files!Locked, LocksFit
  <1>10. ~Fresh(a)'
    BY <1>5 DEF Fresh
  <1>11. OneMoves(a)
    BY <1>0, <1>2, <1>5, <1>6, <1>8, <1>9, <1>10 DEF OneMoves
  <1>12. Admitted' \subseteq Admitted \ {a}
    BY <1>5 DEF Admitted
  <1>13. RoomFits'
    <2>1. CASE r = "linked"
      <3>1. Files!Orphans' \subseteq Files!Orphans
        BY <1>6, <2>1 DEF Files!Orphans
      <3>2. QED
        BY <1>12, <3>1, RoomStays
    <2>2. CASE r = "orphan"
      <3>1. a \in Admitted
        BY <1>4, <2>2 DEF Admitted
      <3>2. Admitted' = {} /\ Cardinality(Files!Orphans) < MaxOrphans
        BY <1>0, <1>12, <3>1 DEF RoomFits
      <3>3. Files!Orphans' \subseteq Files!Orphans \cup {a}
        BY <1>6 DEF Files!Orphans
      <3>4. Cardinality(Files!Orphans') <= Cardinality(Files!Orphans) + 1
        BY <3>3, OrphansFinite, OneMore
      <3>5. IsFiniteSet(Files!Orphans \cup {a})
        BY OrphansFinite, FS_AddElement
      <3>6. Cardinality(Files!Orphans') \in Nat
        BY <3>3, <3>5, Fewer
      <3>7. QED
        BY <3>2, <3>4, <3>6, OrphansFinite, ProgressAssumption DEF RoomFits
    <2>3. QED
      BY <1>4, <2>1, <2>2
  <1>14. QED
    BY <1>2, <1>3, <1>7, <1>11, <1>13, OneMovesFits

\* The two ways in which an upload fails.
LEMMA UploadFailsStep ==
    ASSUME AttachmentsInv, NEW a \in Att, Files!UploadFails(a) \/ Files!UndoUpload(a)
    PROVE  AttachmentsInv'
  <1>0. FileTypes /\ FreshFit /\ LocksFit /\ failures \in Nat
    BY ProgressAssumption DEF AttachmentsInv, FileTypes
  <1>1. PICK pc \in {"undo", "failed"} : upload' = [upload EXCEPT ![a] = pc]
    BY DEF Files!UploadFails, Files!UndoUpload
  <1>2. /\ UNCHANGED <<row, old, snap, pending, moves, deleting, pod>>
        /\ bytes' \in {bytes, bytes \ {a}} /\ upload[a] \in {"commit", "commitLinked", "undo"}
    BY DEF Files!UploadFails, Files!UndoUpload
  <1>3. failures' \in {failures, failures + 1} /\ failures' \in 0 .. OtherFaults
    BY FileFaultCounts, FaultsAsTheyAre DEF Files!UploadFails, Files!UndoUpload
  <1>4. upload' \in [Att -> UploadPc] /\ upload'[a] = pc /\ \A b \in Att : b # a => upload'[b] = upload[b]
    BY <1>0, <1>1 DEF FileTypes, UploadPc
  <1>5. FileTypes'
    BY <1>0, <1>2, <1>3, <1>4 DEF FileTypes
  <1>6. Files!Locked(a) => row[a] = "orphan"
    BY <1>0 DEF Files!Locked, LocksFit
  <1>7. a \in deleting => row[a] = "none"
    BY <1>0 DEF LocksFit
  <1>8. ~Fresh(a)' /\ ~Used(a)'
    BY <1>4 DEF Fresh, Used
  <1>9. OneMoves(a)
    BY <1>2, <1>4, <1>6, <1>7, <1>8 DEF OneMoves
  <1>10. Files!Orphans' = Files!Orphans /\ Admitted' \subseteq Admitted
    BY <1>2, <1>4 DEF Files!Orphans, Admitted
  <1>11. QED
    BY <1>2, <1>3, <1>5, <1>9, <1>10, RoomStays, OneMovesFits

\* Adoption by a post, a mail's snapshot and the passing of time.
LEMMA UseStep ==
    ASSUME AttachmentsInv, NEW a \in Att, Files!Link(a) \/ Files!SnapshotForMail(a) \/ Files!Age(a)
    PROVE  AttachmentsInv'
  <1>0. FileTypes /\ FreshFit /\ LocksFit
    BY DEF AttachmentsInv
  <1>1. /\ UNCHANGED <<bytes, pending, moves, upload, deleting, pod, failures>>
        /\ row[a] # "none" /\ row' = [row EXCEPT ![a] = row'[a]] /\ row'[a] \in {row[a], "linked"}
        /\ row'[a] # row[a] => ~Files!Locked(a)
        /\ old' \subseteq Att /\ snap' \subseteq Att
    BY <1>0 DEF FileTypes, Files!Link, Files!SnapshotForMail, Files!Age
  <1>2. row' \in [Att -> {"none", "orphan", "linked"}] /\ \A b \in Att : b # a => row'[b] = row[b]
    BY <1>0, <1>1 DEF FileTypes
  <1>3. FileTypes'
    BY <1>0, <1>1, <1>2 DEF FileTypes
  <1>4. Files!Locked(a) => row'[a] = "orphan"
    BY <1>0, <1>1 DEF Files!Locked, LocksFit
  <1>5. a \notin deleting /\ ~Fresh(a)
    BY <1>0, <1>1 DEF LocksFit, FreshFit
  <1>6. OneMoves(a)
    BY <1>1, <1>2, <1>4, <1>5 DEF OneMoves, Fresh, Used
  <1>7. Files!Orphans' \subseteq Files!Orphans /\ Admitted' = Admitted
    BY <1>1, <1>2 DEF Files!Orphans, Admitted
  <1>8. QED
    BY <1>1, <1>3, <1>6, <1>7, RoomStays, OneMovesFits

LEMMA DeleteAttachmentStep == ASSUME AttachmentsInv, NEW a \in Att, Files!DeleteAttachment(a) PROVE AttachmentsInv'
  <1>0. FileTypes /\ FreshFit /\ LocksFit
    BY DEF AttachmentsInv
  <1>1. /\ UNCHANGED <<old, snap, bytes, pending, moves, upload, pod, failures>>
        /\ row' = [row EXCEPT ![a] = "none"] /\ deleting' = deleting \cup {a}
        /\ row[a] # "none" /\ ~Files!Locked(a)
    BY DEF Files!DeleteAttachment, Files!Deletable
  <1>2. /\ row' \in [Att -> {"none", "orphan", "linked"}] /\ row'[a] = "none"
        /\ \A b \in Att : b # a => row'[b] = row[b]
    BY <1>0, <1>1 DEF FileTypes
  <1>3. FileTypes'
    BY <1>0, <1>1, <1>2 DEF FileTypes
  <1>4. ~Fresh(a) /\ ~Fresh(a)' /\ ~Used(a)'
    BY <1>0, <1>1, <1>2 DEF FreshFit, Fresh, Used
  <1>5. OneMoves(a)
    BY <1>1, <1>2, <1>4 DEF OneMoves
  <1>6. Files!Orphans' \subseteq Files!Orphans /\ Admitted' = Admitted
    BY <1>1, <1>2 DEF Files!Orphans, Admitted
  <1>7. QED
    BY <1>1, <1>3, <1>5, <1>6, RoomStays, OneMovesFits

LEMMA DeleteFileStep == ASSUME AttachmentsInv, NEW a \in Att, Files!DeleteFile(a) PROVE AttachmentsInv'
  <1>0. FileTypes /\ FreshFit /\ LocksFit /\ failures \in Nat
    BY ProgressAssumption DEF AttachmentsInv, FileTypes
  <1>1. /\ UNCHANGED <<row, old, snap, pending, moves, upload, pod>>
        /\ a \in deleting /\ deleting' = deleting \ {a} /\ bytes' \in {bytes, bytes \ {a}}
    BY DEF Files!DeleteFile
  <1>2. failures' \in {failures, failures + 1} /\ failures' \in 0 .. OtherFaults
    BY FileFaultCounts, FaultsAsTheyAre DEF Files!DeleteFile
  <1>3. FileTypes'
    BY <1>0, <1>1, <1>2 DEF FileTypes
  <1>4. row[a] = "none" /\ ~Files!Locked(a)
    BY <1>0, <1>1 DEF LocksFit, Files!Locked
  <1>5. ~Fresh(a)' /\ ~Used(a)'
    BY <1>0, <1>1, <1>4 DEF FreshFit, Fresh, Used
  <1>6. OneMoves(a)
    BY <1>1, <1>4, <1>5 DEF OneMoves
  <1>7. Files!Orphans' = Files!Orphans /\ Admitted' = Admitted
    BY <1>1 DEF Files!Orphans, Admitted
  <1>8. QED
    BY <1>1, <1>2, <1>3, <1>6, <1>7, RoomStays, OneMovesFits

--------------------------------------------------------------------------------
(* The cleanup of one process.                                             *)

\* The lock of s, beside the others'.
LocksAlone(p, s) ==
    s.open => /\ row[s.now[1]] = "orphan"
              /\ \A q \in Pod : q # p /\ pod[q].open => pod[q].now[1] # s.now[1]

\* A run that keeps its lock.
LEMMA LockKept ==
    ASSUME AttachmentsInv, NEW p \in Pod, NEW s, s.now[1] = pod[p].now[1], s.open = pod[p].open
    PROVE  LocksAlone(p, s)
  <1>1. ASSUME s.open PROVE row[s.now[1]] = "orphan"
    BY <1>1 DEF AttachmentsInv, LocksFit
  <1>2. ASSUME s.open, NEW q \in Pod, q # p, pod[q].open PROVE pod[q].now[1] # s.now[1]
    BY <1>2 DEF AttachmentsInv, LocksFit
  <1>3. QED
    BY <1>1, <1>2 DEF LocksAlone

\* A run comes late or gives up what it has moved only by a fault.
Pays(p, s) ==
    \/ /\ failures' = failures
       /\ \A a \in Att : /\ IsLate(s, a) => IsLate(pod[p], a)
                         /\ HasMoved(pod[p], a) => HasMoved(s, a)
    \/ /\ failures' = failures + 1 /\ failures' <= OtherFaults
       /\ \A a \in Att : IsLate(s, a) /\ ~IsLate(pod[p], a) => ~HasMoved(pod[p], a)

LEMMA CleanupWritten ==
    ASSUME FileTypes, NEW p \in Pod, NEW s \in Cleanup, pod' = [pod EXCEPT ![p] = s]
    PROVE  /\ pod' \in [Pod -> Cleanup] /\ pod'[p] = s
           /\ \A q \in Pod : q # p => pod'[q] = pod[q]
  BY DEF FileTypes

LEMMA LatePays ==
    ASSUME AttachmentsInv, NEW p \in Pod, NEW s \in Cleanup, pod' = [pod EXCEPT ![p] = s],
           UNCHANGED <<row, moves>>, Pays(p, s)
    PROVE  MovesFit'
  <1>0. FileTypes /\ MovesFit /\ failures \in Nat /\ moves \in [Att -> Nat]
    BY ProgressAssumption DEF AttachmentsInv, FileTypes
  <1>1. pod'[p] = s /\ \A q \in Pod : q # p => pod'[q] = pod[q]
    BY <1>0, CleanupWritten
  <1> SUFFICES ASSUME NEW a \in Att
               PROVE  /\ moves[a] + Cardinality(Late(a)') <= failures' + 1
                      /\ ~LastMove(a)' => moves[a] + Cardinality(Late(a)') <= failures'
    BY DEF MovesFit
  <1>2. IsFiniteSet(Late(a)) /\ Cardinality(Late(a)) \in Nat
    BY LateFinite
  <1>3. Late(a)' \subseteq Late(a) \cup {p}
    BY <1>1 DEF Late
  <1>4. Cardinality(Late(a)') \in Nat
    <2>1. IsFiniteSet(Late(a) \cup {p})
      BY <1>2, FS_AddElement
    <2>2. QED
      BY <1>3, <2>1, Fewer
  <1>5. CASE IsLate(s, a) => IsLate(pod[p], a)
    <2>1. Late(a)' \subseteq Late(a)
      BY <1>1, <1>5 DEF Late
    <2>2. Cardinality(Late(a)') <= Cardinality(Late(a))
      BY <1>2, <2>1, Fewer
    <2>3. CASE failures' = failures + 1
      BY <1>0, <1>2, <1>4, <2>2, <2>3 DEF MovesFit
    <2>4. CASE failures' # failures + 1
      <3>1. failures' = failures /\ (HasMoved(pod[p], a) => HasMoved(s, a))
        BY <2>4 DEF Pays
      <3>2. LastMove(a) => LastMove(a)'
        <4>1. ASSUME NEW q \in Pod, HasMoved(pod[q], a) PROVE HasMoved(pod'[q], a)
          BY <1>1, <3>1, <4>1
        <4>2. QED
          BY <4>1 DEF LastMove
      <3>3. QED
        BY <1>0, <1>2, <1>4, <2>2, <3>1, <3>2 DEF MovesFit
    <2>5. QED
      BY <2>3, <2>4
  <1>6. CASE IsLate(s, a) /\ ~IsLate(pod[p], a)
    <2>1. failures' = failures + 1 /\ ~HasMoved(pod[p], a)
      BY <1>0, <1>6 DEF Pays
    <2>2. Cardinality(Late(a)') <= Cardinality(Late(a)) + 1
      BY <1>2, <1>3, OneMore
    <2>3. LastMove(a) => LastMove(a)'
      <3>1. ASSUME NEW q \in Pod, HasMoved(pod[q], a) PROVE HasMoved(pod'[q], a)
        BY <1>1, <2>1, <3>1
      <3>2. QED
        BY <3>1 DEF LastMove
    <2>4. QED
      BY <1>0, <1>2, <1>4, <2>1, <2>2, <2>3 DEF MovesFit
  <1>7. QED
    BY <1>5, <1>6

\* The parts that follow from what the other variables keep.
LEMMA LocksMove ==
    ASSUME AttachmentsInv, NEW p \in Pod, NEW s \in Cleanup, pod' = [pod EXCEPT ![p] = s],
           UNCHANGED <<row, deleting>>, LocksAlone(p, s)
    PROVE  LocksFit'
  <1>0. LocksFit /\ FileTypes
    BY DEF AttachmentsInv
  <1>1. pod'[p] = s /\ \A q \in Pod : q # p => pod'[q] = pod[q]
    BY <1>0, CleanupWritten
  <1>2. ASSUME NEW q \in Pod, pod'[q].open PROVE row[pod'[q].now[1]] = "orphan"
    BY <1>0, <1>1, <1>2 DEF LocksFit, LocksAlone
  <1>3. ASSUME NEW q \in Pod, NEW r \in Pod, pod'[q].open, pod'[r].open, q # r
        PROVE  pod'[q].now[1] # pod'[r].now[1]
    <2>1. CASE q = p
      BY <1>1, <1>3, <2>1 DEF LocksAlone
    <2>2. CASE r = p
      BY <1>1, <1>3, <2>2 DEF LocksAlone
    <2>3. CASE q # p /\ r # p
      BY <1>0, <1>1, <1>3, <2>3 DEF LocksFit
    <2>4. QED
      BY <2>1, <2>2, <2>3
  <1>4. QED
    BY <1>0, <1>2, <1>3 DEF LocksFit

\* A step that moves only one cleanup.
LEMMA CleanupGoes ==
    ASSUME AttachmentsInv, NEW p \in Pod, NEW s \in Cleanup, pod' = [pod EXCEPT ![p] = s],
           UNCHANGED <<row, old, snap, bytes, pending, moves, upload, deleting>>,
           CleanupFits(s), CleanupSafe(s), LocksAlone(p, s), Pays(p, s)
    PROVE  AttachmentsInv'
  <1>0. /\ FileTypes /\ CleanupsFit /\ FreshFit /\ LocksFit /\ BytesFit /\ RoomFits
        /\ failures \in 0 .. OtherFaults
    BY DEF AttachmentsInv, FileTypes
  <1>1. /\ pod' \in [Pod -> Cleanup] /\ pod'[p] = s
        /\ \A q \in Pod : q # p => pod'[q] = pod[q]
    BY <1>0, CleanupWritten
  <1>2. FileTypes'
    <2>1. failures' \in 0 .. OtherFaults
      BY <1>0, ProgressAssumption DEF Pays
    <2>2. QED
      BY <1>0, <1>1, <2>1 DEF FileTypes
  <1>3. CleanupsFit'
    <2>1. ASSUME NEW q \in Pod PROVE CleanupFits(pod'[q]) /\ CleanupSafe(pod'[q])
      BY <1>0, <1>1 DEF CleanupsFit
    <2>2. QED
      BY <1>0, <2>1 DEF CleanupsFit, CleanupFits, CleanupSafe, Named, Fresh, Used, Handles
  <1>4. FreshFit' /\ BytesFit'
    BY <1>0 DEF FreshFit, BytesFit, Fresh, Used
  <1>5. LocksFit'
    BY LocksMove
  <1>6. RoomFits'
    BY <1>0 DEF RoomFits, Admitted, Files!Orphans
  <1>7. MovesFit'
    BY LatePays
  <1>8. QED
    BY <1>2, <1>3, <1>4, <1>5, <1>6, <1>7 DEF AttachmentsInv

LEMMA CleanupKnown ==
    ASSUME AttachmentsInv, NEW p \in Pod
    PROVE  pod[p] \in Cleanup /\ CleanupFits(pod[p]) /\ CleanupSafe(pod[p])
  BY DEF AttachmentsInv, FileTypes, CleanupsFit

\* A run between two files.
LEMMA Rests ==
    ASSUME NEW p \in Pod, NEW s \in Cleanup, ~Handles(s), ~s.open,
           \A e \in s.queue : Named(e), \A a \in Att : Fresh(a) => a \notin s.todo
    PROVE  /\ CleanupFits(s) /\ CleanupSafe(s) /\ LocksAlone(p, s)
           /\ \A a \in Att : ~IsLate(s, a) /\ ~HasMoved(s, a)
  BY DEF CleanupFits, CleanupSafe, LocksAlone, IsLate, HasMoved, Handles

LEMMA IdleRests ==
    ASSUME NEW p \in Pod
    PROVE  /\ Files!Idle \in Cleanup /\ CleanupFits(Files!Idle) /\ CleanupSafe(Files!Idle)
           /\ LocksAlone(p, Files!Idle)
           /\ \A a \in Att : ~IsLate(Files!Idle, a) /\ ~HasMoved(Files!Idle, a)
  <1>1. Files!Idle \in Cleanup /\ ~Handles(Files!Idle) /\ ~Files!Idle.open
        /\ Files!Idle.queue = {} /\ Files!Idle.todo = {}
    BY DEF Files!Idle, Cleanup, Handles
  <1>2. QED
    BY <1>1, Rests

\* The end of a step that moved no lock, by a fault or not.
LEMMA RestPays ==
    ASSUME AttachmentsInv, NEW p \in Pod, NEW s \in Cleanup,
           \A a \in Att : ~IsLate(s, a) /\ ~HasMoved(s, a),
           \/ failures' = failures /\ (~pod[p].open \/ pod[p].pc # "drop")
           \/ Files!Faulty
    PROVE  Pays(p, s)
  <1>1. CASE Files!Faulty
    BY <1>1, FileFaultCounts, ProgressAssumption DEF Pays
  <1>2. CASE failures' = failures /\ (~pod[p].open \/ pod[p].pc # "drop")
    BY <1>2 DEF Pays, HasMoved
  <1>3. QED
    BY <1>1, <1>2

LEMMA ListStagedStep == ASSUME AttachmentsInv, NEW p \in Pod, Files!ListStaged(p) PROVE AttachmentsInv'
  <1> DEFINE s == [Files!Idle EXCEPT !.pc = "recover", !.queue = pending]
  <1>1. /\ pod' = [pod EXCEPT ![p] = s] /\ pod[p].pc = "idle" /\ failures' = failures
        /\ UNCHANGED <<row, old, snap, bytes, pending, moves, upload, deleting>>
    BY DEF Files!ListStaged, Files!Goes, Files!Left
  <1>2. pending \subseteq StagedNames /\ \A e \in pending : Named(e)
    BY DEF AttachmentsInv, FileTypes, CleanupsFit
  <1>3. s \in Cleanup /\ s.pc = "recover" /\ s.queue = pending /\ s.todo = {} /\ s.open = FALSE
    BY <1>2, IdleRests DEF Cleanup, Files!Idle
  <1> HIDE DEF s
  <1>4. /\ CleanupFits(s) /\ CleanupSafe(s) /\ LocksAlone(p, s)
        /\ \A a \in Att : ~IsLate(s, a) /\ ~HasMoved(s, a)
    BY <1>2, <1>3, Rests DEF Handles
  <1>5. QED
    BY <1>1, <1>3, <1>4, RestPays, CleanupGoes

LEMMA ListOrphansStep == ASSUME AttachmentsInv, NEW p \in Pod, Files!ListOrphans(p) PROVE AttachmentsInv'
  <1> DEFINE t == Files!Orphans \cap old
             s == [pod[p] EXCEPT !.pc = "next", !.todo = t]
  <1>1. /\ pod' = [pod EXCEPT ![p] = s] /\ pod[p].pc = "list" /\ failures' = failures
        /\ UNCHANGED <<row, old, snap, bytes, pending, moves, upload, deleting>>
    BY DEF Files!ListOrphans, Files!Goes
  <1>2. pod[p] \in Cleanup /\ CleanupFits(pod[p])
    BY CleanupKnown
  <1>3. ~pod[p].open
    BY <1>1, <1>2 DEF CleanupFits, Cleanup
  <1>4. t \subseteq Att /\ \A a \in t : row[a] # "none"
    BY DEF Files!Orphans
  <1>5. \A a \in Att : Fresh(a) => a \notin t
    BY <1>4 DEF AttachmentsInv, FreshFit
  <1> HIDE DEF t
  <1>6. s \in Cleanup /\ s.pc = "next" /\ s.queue = pod[p].queue /\ s.todo = t /\ s.open = pod[p].open
    BY <1>2, <1>4 DEF Cleanup
  <1> HIDE DEF s
  <1>7. \A e \in s.queue : Named(e)
    BY <1>2, <1>6 DEF CleanupFits
  <1>8. ~Handles(s) /\ ~s.open
    BY <1>3, <1>6 DEF Handles
  <1>9. /\ CleanupFits(s) /\ CleanupSafe(s) /\ LocksAlone(p, s)
        /\ \A a \in Att : ~IsLate(s, a) /\ ~HasMoved(s, a)
    BY <1>5, <1>6, <1>7, <1>8, Rests
  <1>10. QED
    BY <1>1, <1>6, <1>9, RestPays, CleanupGoes

LEMMA RecoverNextStep == ASSUME AttachmentsInv, NEW p \in Pod, Files!RecoverNext(p) PROVE AttachmentsInv'
  <1>1. /\ pod[p].pc = "recover" /\ failures' = failures
        /\ UNCHANGED <<row, old, snap, bytes, pending, moves, upload, deleting>>
    BY DEF Files!RecoverNext
  <1>2. pod[p] \in Cleanup /\ CleanupFits(pod[p])
    BY CleanupKnown
  <1>3. ~pod[p].open
    BY <1>1, <1>2 DEF CleanupFits, Cleanup
  <1>4. CASE pod[p].queue = {}
    <2> DEFINE s == [pod[p] EXCEPT !.pc = "list"]
    <2>1. pod' = [pod EXCEPT ![p] = s]
      BY <1>4 DEF Files!RecoverNext, Files!Goes
    <2>2. s \in Cleanup /\ s.pc = "list" /\ s.queue = pod[p].queue /\ s.todo = pod[p].todo /\ s.open = pod[p].open
      BY <1>2 DEF Cleanup
    <2> HIDE DEF s
    <2>3. (\A e \in s.queue : Named(e)) /\ \A a \in Att : Fresh(a) => a \notin s.todo
      BY <1>2, <2>2 DEF CleanupFits
    <2>4. ~Handles(s) /\ ~s.open
      BY <1>3, <2>2 DEF Handles
    <2>5. /\ CleanupFits(s) /\ CleanupSafe(s) /\ LocksAlone(p, s)
          /\ \A a \in Att : ~IsLate(s, a) /\ ~HasMoved(s, a)
      BY <2>2, <2>3, <2>4, Rests
    <2>6. QED
      BY <1>1, <2>1, <2>2, <2>5, RestPays, CleanupGoes
  <1>5. CASE pod[p].queue # {}
    <2>1. PICK e \in pod[p].queue :
              pod' = [pod EXCEPT ![p] = [pod[p] EXCEPT !.pc = Files!Recovery(e[1]), !.now = e,
                                             !.back = "recover", !.queue = @ \ {e}]]
      BY <1>5 DEF Files!RecoverNext, Files!Goes
    <2>2. Named(e) /\ e \in StagedNames
      BY <1>2 DEF CleanupFits, Named
    <2>3. e \in Att \X Nat /\ e[1] \in Att /\ e[2] \in 1 .. OtherFaults + 1 /\ e[2] <= moves[e[1]]
      BY <2>2, ProgressAssumption DEF StagedNames, Named
    <2> DEFINE pc == Files!Recovery(e[1])
               s == [pod[p] EXCEPT !.pc = pc, !.now = e, !.back = "recover", !.queue = @ \ {e}]
    <2>4. pc \in {"link", "unlink"} /\ (pc = "unlink" => row[e[1]] = "none")
      BY DEF Files!Recovery
    <2>5. pod' = [pod EXCEPT ![p] = s]
      BY <2>1
    <2> HIDE DEF pc
    <2>6. /\ s \in Cleanup /\ s.pc = pc /\ s.now = e /\ s.open = pod[p].open
          /\ s.queue \subseteq pod[p].queue /\ s.todo = pod[p].todo
      BY <1>2, <2>3, <2>4 DEF Cleanup
    <2> HIDE DEF s
    <2>7. ~Fresh(e[1])
      <3>1. moves[e[1]] \in Nat /\ moves[e[1]] # 0
        BY <2>3 DEF AttachmentsInv, FileTypes
      <3>2. QED
        BY <2>3, <3>1 DEF AttachmentsInv, FreshFit
    <2>8. CleanupFits(s)
      <3>1. Handles(s) /\ ~s.open /\ s.now = e /\ (\A x \in s.queue : Named(x))
        BY <1>2, <1>3, <2>4, <2>6 DEF Handles, CleanupFits
      <3>2. \A a \in Att : Fresh(a) => a \notin s.todo /\ s.now[1] # a
        BY <1>2, <2>6, <2>7 DEF CleanupFits
      <3>3. QED
        BY <2>2, <2>3, <3>1, <3>2 DEF CleanupFits
    <2>9. CleanupSafe(s)
      <3> SUFFICES ASSUME NEW a \in Att, Used(a), s.pc = "unlink", s.now = <<a, moves[a]>> PROVE FALSE
        BY DEF CleanupSafe
      <3>1. e[1] = a
        BY <2>6
      <3>2. QED
        BY <2>4, <2>6, <3>1 DEF Used
    <2>10. LocksAlone(p, s) /\ \A a \in Att : ~IsLate(s, a) /\ ~HasMoved(s, a)
      BY <1>3, <2>4, <2>6 DEF LocksAlone, IsLate, HasMoved
    <2>11. QED
      BY <1>1, <2>5, <2>6, <2>8, <2>9, <2>10, RestPays, CleanupGoes
  <1>6. QED
    BY <1>4, <1>5

LEMMA LockNextStep == ASSUME AttachmentsInv, NEW p \in Pod, Files!LockNext(p) PROVE AttachmentsInv'
  <1>1. /\ pod[p].pc = "next" /\ failures' = failures
        /\ UNCHANGED <<row, old, snap, bytes, pending, moves, upload, deleting>>
    BY DEF Files!LockNext
  <1>2. pod[p] \in Cleanup /\ CleanupFits(pod[p])
    BY CleanupKnown
  <1>3. ~pod[p].open
    BY <1>1, <1>2 DEF CleanupFits, Cleanup
  <1>4. CASE pod[p].todo = {}
    <2>1. pod' = [pod EXCEPT ![p] = Files!Idle]
      BY <1>4 DEF Files!LockNext, Files!Goes
    <2>2. QED
      BY <1>1, <2>1, IdleRests, RestPays, CleanupGoes
  <1>5. CASE pod[p].todo # {}
    <2>1. PICK a \in pod[p].todo :
              /\ ~Files!Locked(a)
              /\ Files!Goes(p, IF Files!StillOrphan(a)
                               THEN [pod[p] EXCEPT !.pc = "stage", !.now = <<a, 0>>, !.open = TRUE, !.todo = @ \ {a}]
                               ELSE [pod[p] EXCEPT !.todo = @ \ {a}])
      BY <1>5 DEF Files!LockNext
    <2>2. a \in Att
      BY <1>2 DEF Cleanup
    <2>3. CASE Files!StillOrphan(a)
      <3> DEFINE s == [pod[p] EXCEPT !.pc = "stage", !.now = <<a, 0>>, !.open = TRUE, !.todo = @ \ {a}]
      <3>1. pod' = [pod EXCEPT ![p] = s]
        BY <2>1, <2>3 DEF Files!Goes
      <3>2. /\ s \in Cleanup /\ s.pc = "stage" /\ s.now = <<a, 0>> /\ s.open = TRUE
            /\ s.queue = pod[p].queue /\ s.todo \subseteq pod[p].todo
        BY <1>2, <2>2 DEF Cleanup
      <3> HIDE DEF s
      <3>3. row[a] = "orphan" /\ ~Fresh(a)
        BY <2>2, <2>3 DEF Files!StillOrphan, AttachmentsInv, FreshFit
      <3>4. s.now[1] = a /\ s.now \in Att \X Nat
        BY <2>2, <3>2
      <3>5. \A x \in Att : Fresh(x) => x \notin s.todo /\ s.now[1] # x
        BY <1>2, <3>2, <3>3, <3>4 DEF CleanupFits
      <3>6. \A x \in s.queue : Named(x)
        BY <1>2, <3>2 DEF CleanupFits
      <3>7. CleanupFits(s) /\ CleanupSafe(s)
        BY <3>2, <3>4, <3>5, <3>6 DEF CleanupFits, CleanupSafe
      <3>8. LocksAlone(p, s)
        BY <2>1, <3>3, <3>4 DEF LocksAlone, Files!Locked
      <3>9. Pays(p, s)
        BY <1>1, <1>3, <3>2 DEF Pays, IsLate, HasMoved
      <3>10. QED
        BY <1>1, <3>1, <3>2, <3>7, <3>8, <3>9, CleanupGoes
    <2>4. CASE ~Files!StillOrphan(a)
      <3> DEFINE s == [pod[p] EXCEPT !.todo = @ \ {a}]
      <3>1. pod' = [pod EXCEPT ![p] = s]
        BY <2>1, <2>4 DEF Files!Goes
      <3>2. s \in Cleanup /\ s.pc = "next" /\ s.open = pod[p].open /\ s.queue = pod[p].queue /\ s.todo \subseteq pod[p].todo
        BY <1>1, <1>2 DEF Cleanup
      <3> HIDE DEF s
      <3>3. (\A x \in s.queue : Named(x)) /\ \A x \in Att : Fresh(x) => x \notin s.todo
        BY <1>2, <3>2 DEF CleanupFits
      <3>4. ~Handles(s) /\ ~s.open
        BY <1>3, <3>2 DEF Handles
      <3>5. /\ CleanupFits(s) /\ CleanupSafe(s) /\ LocksAlone(p, s)
            /\ \A x \in Att : ~IsLate(s, x) /\ ~HasMoved(s, x)
        BY <3>2, <3>3, <3>4, Rests
      <3>6. QED
        BY <1>1, <1>3, <3>1, <3>2, <3>5, RestPays, CleanupGoes
    <2>5. QED
      BY <2>3, <2>4
  <1>6. QED
    BY <1>4, <1>5

\* After a call on a file: the run goes on with its list, or ends.
LEMMA BackRests ==
    ASSUME AttachmentsInv, NEW p \in Pod, Files!Back(p), pod[p].pc \in {"link", "unlink"}
    PROVE  \E s \in Cleanup :
              /\ pod' = [pod EXCEPT ![p] = s] /\ ~Handles(s) /\ ~s.open
              /\ \A e \in s.queue : Named(e)
              /\ \A a \in Att : Fresh(a) => a \notin s.todo
  <1>1. pod[p] \in Cleanup /\ CleanupFits(pod[p])
    BY CleanupKnown
  <1>2. CASE pod[p].back = "idle"
    <2>1. pod' = [pod EXCEPT ![p] = Files!Idle]
      BY <1>2 DEF Files!Back, Files!Goes
    <2>2. Files!Idle \in Cleanup /\ CleanupFits(Files!Idle) /\ ~Handles(Files!Idle) /\ ~Files!Idle.open
      BY IdleRests DEF Files!Idle, Handles
    <2>3. QED
      BY <2>1, <2>2 DEF CleanupFits
  <1>3. CASE pod[p].back # "idle"
    <2> DEFINE pc == pod[p].back
               s == [pod[p] EXCEPT !.pc = pc]
    <2>1. pod' = [pod EXCEPT ![p] = s]
      BY <1>3 DEF Files!Back, Files!Goes
    <2>2. pc \in {"recover", "next"}
      BY <1>1, <1>3 DEF Cleanup
    <2> HIDE DEF pc
    <2>3. s \in Cleanup /\ s.pc = pc /\ s.open = pod[p].open /\ s.queue = pod[p].queue /\ s.todo = pod[p].todo
      BY <1>1, <2>2 DEF Cleanup
    <2> HIDE DEF s
    <2>4. ~Handles(s) /\ ~s.open
      BY <1>1, <2>2, <2>3 DEF Handles, CleanupFits
    <2>5. QED
      BY <1>1, <2>1, <2>3, <2>4 DEF CleanupFits
  <1>4. QED
    BY <1>2, <1>3

LEMMA FileCallFailsStep ==
    ASSUME AttachmentsInv, NEW p \in Pod, pod[p].pc \in {"link", "unlink"}, Files!Back(p),
           failures' = failures \/ Files!Faulty,
           UNCHANGED <<row, old, snap, bytes, pending, moves, upload, deleting>>
    PROVE  AttachmentsInv'
  <1>1. PICK s \in Cleanup :
              /\ pod' = [pod EXCEPT ![p] = s] /\ ~Handles(s) /\ ~s.open
              /\ \A e \in s.queue : Named(e)
              /\ \A a \in Att : Fresh(a) => a \notin s.todo
    BY BackRests
  <1>2. /\ CleanupFits(s) /\ CleanupSafe(s) /\ LocksAlone(p, s)
        /\ \A a \in Att : ~IsLate(s, a) /\ ~HasMoved(s, a)
    BY <1>1, Rests
  <1>3. QED
    BY <1>1, <1>2, RestPays, CleanupGoes

LEMMA TimesOutStep == ASSUME AttachmentsInv, NEW p \in Pod, Files!TimesOut(p) PROVE AttachmentsInv'
  <1> DEFINE s == [pod[p] EXCEPT !.open = FALSE]
  <1>1. /\ pod' = [pod EXCEPT ![p] = s] /\ Files!Faulty
        /\ UNCHANGED <<row, old, snap, bytes, pending, moves, upload, deleting>>
    BY DEF Files!TimesOut, Files!Goes
  <1>2. pod[p] \in Cleanup /\ CleanupFits(pod[p]) /\ CleanupSafe(pod[p])
    BY CleanupKnown
  <1>3. /\ s \in Cleanup /\ s.pc = pod[p].pc /\ s.now = pod[p].now /\ s.open = FALSE
        /\ s.queue = pod[p].queue /\ s.todo = pod[p].todo
    BY <1>2 DEF Cleanup
  <1> HIDE DEF s
  <1>4. CleanupFits(s) /\ CleanupSafe(s)
    BY <1>2, <1>3 DEF CleanupFits, CleanupSafe, Handles
  <1>5. LocksAlone(p, s)
    BY <1>3 DEF LocksAlone
  <1>6. Pays(p, s)
    <2>1. failures' = failures + 1 /\ failures' <= OtherFaults
      BY <1>1, FileFaultCounts, ProgressAssumption
    <2>2. \A a \in Att : IsLate(s, a) => ~HasMoved(pod[p], a)
      BY <1>3 DEF IsLate, HasMoved
    <2>3. QED
      BY <2>1, <2>2 DEF Pays
  <1>7. QED
    BY <1>1, <1>3, <1>4, <1>5, <1>6, CleanupGoes

LEMMA PodDiesStep == ASSUME AttachmentsInv, NEW p \in Pod, Files!PodDies(p) PROVE AttachmentsInv'
  <1>1. /\ pod' = [pod EXCEPT ![p] = Files!Idle] /\ Files!Faulty
        /\ UNCHANGED <<row, old, snap, bytes, pending, moves, upload, deleting>>
    BY DEF Files!PodDies, Files!Goes
  <1>2. Pays(p, Files!Idle)
    BY <1>1, IdleRests, RestPays
  <1>3. QED
    BY <1>1, <1>2, IdleRests, CleanupGoes

LEMMA DeleteThrowsStep == ASSUME AttachmentsInv, NEW p \in Pod, Files!DeleteThrows(p) PROVE AttachmentsInv'
  <1>1. /\ ~pod[p].open /\ pod[p].pc \in {"drop", "dropOnly"} /\ failures' = failures
        /\ UNCHANGED <<row, old, snap, bytes, pending, moves, upload, deleting>>
    BY DEF Files!DeleteThrows
  <1>2. pod[p] \in Cleanup /\ CleanupFits(pod[p])
    BY CleanupKnown
  <1>3. CASE pod[p].pc = "dropOnly"
    <2>1. pod' = [pod EXCEPT ![p] = Files!Idle]
      BY <1>3 DEF Files!DeleteThrows, Files!Goes
    <2>2. QED
      BY <1>1, <2>1, IdleRests, RestPays, CleanupGoes
  <1>4. CASE pod[p].pc = "drop"
    <2> DEFINE s == [pod[p] EXCEPT !.pc = "link", !.back = "idle"]
    <2>1. pod' = [pod EXCEPT ![p] = s]
      BY <1>4 DEF Files!DeleteThrows, Files!Goes
    <2>2. /\ s \in Cleanup /\ s.pc = "link" /\ s.now = pod[p].now /\ s.open = pod[p].open
          /\ s.queue = pod[p].queue /\ s.todo = pod[p].todo
      BY <1>2 DEF Cleanup
    <2> HIDE DEF s
    <2>3. CleanupFits(s)
      BY <1>1, <1>2, <1>4, <2>2 DEF CleanupFits, Handles
    <2>4. CleanupSafe(s) /\ LocksAlone(p, s) /\ \A a \in Att : ~IsLate(s, a) /\ ~HasMoved(s, a)
      BY <1>1, <2>2 DEF CleanupSafe, LocksAlone, IsLate, HasMoved
    <2>5. QED
      BY <1>1, <2>1, <2>2, <2>3, <2>4, RestPays, CleanupGoes
  <1>5. QED
    BY <1>1, <1>3, <1>4

\* What a run does to the files while the rows stay: the parts that do not depend on files.
LEMMA FilesMove ==
    ASSUME AttachmentsInv, NEW p \in Pod, NEW s \in Cleanup, pod' = [pod EXCEPT ![p] = s],
           UNCHANGED <<row, old, snap, upload, deleting, failures>>, LocksAlone(p, s),
           bytes' \subseteq Att, pending' \subseteq StagedNames, moves' \in [Att -> Nat],
           CleanupsFit', FreshFit', BytesFit', MovesFit'
    PROVE  AttachmentsInv'
  <1>0. FileTypes /\ RoomFits
    BY DEF AttachmentsInv
  <1>1. FileTypes'
    BY <1>0, CleanupWritten DEF FileTypes
  <1>2. LocksFit'
    BY LocksMove
  <1>3. RoomFits'
    BY <1>0 DEF RoomFits, Admitted, Files!Orphans
  <1>4. QED
    BY <1>1, <1>2, <1>3 DEF AttachmentsInv

LEMMA RestoreLinksStep == ASSUME AttachmentsInv, NEW p \in Pod, Files!RestoreLinks(p) PROVE AttachmentsInv'
  <1>0. /\ FileTypes /\ CleanupsFit /\ FreshFit /\ BytesFit /\ pod[p].pc = "link"
        /\ UNCHANGED <<row, old, snap, pending, moves, upload, deleting, failures>>
    BY DEF AttachmentsInv, Files!RestoreLinks
  <1>1. pod[p] \in Cleanup /\ CleanupFits(pod[p])
    BY CleanupKnown
  <1>2. CASE pod[p].now \notin pending
    <2>1. Files!Back(p) /\ bytes' = bytes
      BY <1>2 DEF Files!RestoreLinks
    <2>2. QED
      BY <1>0, <2>1, FileCallFailsStep
  <1>3. CASE pod[p].now \in pending
    <2> DEFINE s == [pod[p] EXCEPT !.pc = "unlink"]
    <2>1. pod' = [pod EXCEPT ![p] = s] /\ bytes' = bytes \cup {pod[p].now[1]}
      BY <1>3 DEF Files!RestoreLinks, Files!Goes
    <2>2. /\ s \in Cleanup /\ s.pc = "unlink" /\ s.now = pod[p].now /\ s.open = pod[p].open
          /\ s.queue = pod[p].queue /\ s.todo = pod[p].todo
      BY <1>1 DEF Cleanup
    <2>3. /\ pod'[p] = s
          /\ \A q \in Pod : q # p => pod'[q] = pod[q]
      BY <1>0, <2>1, <2>2, CleanupWritten
    <2> HIDE DEF s
    <2>4. pod[p].now[1] \in Att /\ ~pod[p].open
      BY <1>0, <1>1 DEF CleanupFits, Handles
    <2>5. CleanupFits(s)
      BY <1>0, <1>1, <2>2 DEF CleanupFits, Handles
    <2>6. CleanupsFit'
      <3>1. ASSUME NEW q \in Pod PROVE CleanupFits(pod'[q])
        BY <1>0, <2>3, <2>5 DEF CleanupsFit
      <3>2. ASSUME NEW q \in Pod, NEW a \in Att, Used(a), pod'[q].pc = "unlink", pod'[q].now = <<a, moves[a]>>
            PROVE  a \in bytes'
        <4>1. CASE q = p
          BY <2>1, <2>2, <2>3, <3>2, <4>1
        <4>2. CASE q # p
          BY <1>0, <2>1, <2>3, <3>2, <4>2 DEF CleanupsFit, CleanupSafe
        <4>3. QED
          BY <4>1, <4>2
      <3>3. QED
        BY <1>0, <3>1, <3>2 DEF CleanupsFit, CleanupFits, CleanupSafe, Named, Fresh, Used, Handles
    <2>7. FreshFit' /\ BytesFit'
      BY <1>0, <2>1 DEF FreshFit, BytesFit, Fresh, Used
    <2>8. LocksAlone(p, s)
      BY <2>2, <2>4 DEF LocksAlone
    <2>9. Pays(p, s)
      BY <1>0, <2>2 DEF Pays, IsLate, HasMoved
    <2>10. MovesFit'
      BY <1>0, <2>1, <2>2, <2>9, LatePays
    <2>11. bytes' \subseteq Att /\ pending' \subseteq StagedNames /\ moves' \in [Att -> Nat]
      BY <1>0, <2>1, <2>4 DEF FileTypes
    <2>12. QED
      BY <1>0, <2>1, <2>2, <2>6, <2>7, <2>8, <2>10, <2>11, FilesMove
  <1>4. QED
    BY <1>2, <1>3

LEMMA UnlinksStep == ASSUME AttachmentsInv, NEW p \in Pod, Files!Unlinks(p) PROVE AttachmentsInv'
  <1>0. /\ FileTypes /\ CleanupsFit /\ FreshFit /\ BytesFit /\ pod[p].pc = "unlink" /\ Files!Back(p)
        /\ pending' = pending \ {pod[p].now}
        /\ UNCHANGED <<row, old, snap, bytes, moves, upload, deleting, failures>>
    BY DEF AttachmentsInv, Files!Unlinks
  <1>1. CleanupSafe(pod[p])
    BY CleanupKnown
  <1>2. PICK s \in Cleanup :
              /\ pod' = [pod EXCEPT ![p] = s] /\ ~Handles(s) /\ ~s.open
              /\ \A e \in s.queue : Named(e)
              /\ \A a \in Att : Fresh(a) => a \notin s.todo
    BY <1>0, BackRests
  <1>3. /\ CleanupFits(s) /\ CleanupSafe(s) /\ LocksAlone(p, s)
        /\ \A a \in Att : ~IsLate(s, a) /\ ~HasMoved(s, a)
    BY <1>2, Rests
  <1>4. pod'[p] = s /\ \A q \in Pod : q # p => pod'[q] = pod[q]
    BY <1>0, <1>2, CleanupWritten
  <1>5. CleanupsFit'
    <2>1. ASSUME NEW q \in Pod PROVE CleanupFits(pod'[q]) /\ CleanupSafe(pod'[q])
      BY <1>0, <1>3, <1>4 DEF CleanupsFit
    <2>2. QED
      BY <1>0, <2>1 DEF CleanupsFit, CleanupFits, CleanupSafe, Named, Fresh, Used, Handles
  <1>6. FreshFit'
    BY <1>0 DEF FreshFit, Fresh
  <1>7. BytesFit'
    <2> SUFFICES ASSUME NEW a \in Att, Used(a)' PROVE a \in bytes \/ <<a, moves[a]>> \in pending'
      BY <1>0 DEF BytesFit
    <2>1. Used(a)
      BY <1>0 DEF Used
    <2>2. CASE pod[p].now = <<a, moves[a]>>
      BY <1>0, <1>1, <2>1, <2>2 DEF CleanupSafe
    <2>3. CASE pod[p].now # <<a, moves[a]>>
      BY <1>0, <2>1, <2>3 DEF BytesFit
    <2>4. QED
      BY <2>2, <2>3
  <1>8. Pays(p, s)
    BY <1>0, <1>3, RestPays
  <1>9. MovesFit'
    BY <1>0, <1>2, <1>8, LatePays
  <1>10. bytes' \subseteq Att /\ pending' \subseteq StagedNames /\ moves' \in [Att -> Nat]
    BY <1>0 DEF FileTypes
  <1>11. QED
    BY <1>0, <1>2, <1>3, <1>5, <1>6, <1>7, <1>9, <1>10, FilesMove

\* The bytes move under a name that was never given: by the run that holds the
\* lock, or by one whose lost transaction a fault has paid for.
LEMMA StageStep == ASSUME AttachmentsInv, NEW p \in Pod, Files!Stage(p) PROVE AttachmentsInv'
  <1>0. /\ FileTypes /\ CleanupsFit /\ FreshFit /\ LocksFit /\ BytesFit /\ MovesFit
        /\ failures \in 0 .. OtherFaults /\ moves \in [Att -> Nat] /\ pod[p].pc = "stage"
        /\ UNCHANGED <<row, old, snap, upload, deleting, failures>>
    BY DEF AttachmentsInv, FileTypes, Files!Stage
  <1>1. pod[p] \in Cleanup /\ CleanupFits(pod[p])
    BY CleanupKnown
  <1>2. PICK a \in Att : a = pod[p].now[1] /\ ~Fresh(a)
    BY <1>0, <1>1 DEF CleanupFits, Handles
  <1>3. CASE a \notin bytes
    <2> DEFINE s == [pod[p] EXCEPT !.pc = "dropOnly"]
    <2>1. pod' = [pod EXCEPT ![p] = s] /\ UNCHANGED <<bytes, pending, moves>>
      BY <1>2, <1>3 DEF Files!Stage, Files!Goes
    <2>2. /\ s \in Cleanup /\ s.pc = "dropOnly" /\ s.now = pod[p].now /\ s.open = pod[p].open
          /\ s.queue = pod[p].queue /\ s.todo = pod[p].todo
      BY <1>1 DEF Cleanup
    <2> HIDE DEF s
    <2>3. CleanupFits(s) /\ CleanupSafe(s)
      BY <1>0, <1>1, <2>2 DEF CleanupFits, CleanupSafe, Handles
    <2>4. LocksAlone(p, s)
      BY <2>2, LockKept
    <2>5. Pays(p, s)
      BY <1>0, <2>2 DEF Pays, IsLate, HasMoved
    <2>6. QED
      BY <1>0, <2>1, <2>2, <2>3, <2>4, <2>5, CleanupGoes
  <1>4. CASE a \in bytes
    <2>0. PICK n \in Nat, name \in Att \X Nat : n = moves[a] + 1 /\ name = <<a, n>> /\ moves[a] \in Nat
      <3>1. moves[a] \in Nat /\ moves[a] + 1 \in Nat
        BY <1>0
      <3> DEFINE m == moves[a] + 1
      <3>2. m \in Nat /\ m = moves[a] + 1
        BY <3>1
      <3> HIDE DEF m
      <3>3. <<a, m>> \in Att \X Nat
        BY <3>2
      <3>4. QED
        BY <3>1, <3>2, <3>3
    <2> DEFINE s0 == [pod[p] EXCEPT !.pc = "drop", !.now = name, !.back = "next"]
    <2>00. PICK s \in Cleanup : s = s0
      BY <1>1, <2>0 DEF Cleanup
    <2>1. /\ pod' = [pod EXCEPT ![p] = s] /\ bytes' = bytes \ {a}
          /\ pending' = pending \cup {name} /\ moves' = [moves EXCEPT ![a] = @ + 1]
      BY <1>2, <1>4, <2>0, <2>00 DEF Files!Stage, Files!Goes
    <2>2. moves' \in [Att -> Nat] /\ moves'[a] = n /\ \A b \in Att : b # a => moves'[b] = moves[b]
      BY <1>0, <2>0, <2>1
    <2>3. name[1] = a /\ name[2] = n
      BY <2>0
    <2>4. /\ s.pc = "drop" /\ s.now = name /\ s.open = pod[p].open
          /\ s.queue = pod[p].queue /\ s.todo = pod[p].todo
      BY <1>1, <2>00 DEF Cleanup
    <2>5. pod'[p] = s /\ \A q \in Pod : q # p => pod'[q] = pod[q]
      BY <1>0, <2>1, CleanupWritten
    <2>6. IsFiniteSet(Late(a)) /\ Cardinality(Late(a)) \in Nat
      BY LateFinite
    <2>7. pod[p].open => ~LastMove(a)
      BY <1>0, <1>2 DEF LastMove, HasMoved, LocksFit
    <2>8. ~pod[p].open => p \in Late(a)
      BY <1>0, <1>2 DEF Late, IsLate
    <2>9. Late(a)' \subseteq Late(a) \ {p}
      BY <2>4, <2>5 DEF Late, IsLate
    <2>10. Cardinality(Late(a)') \in Nat /\ Cardinality(Late(a)') <= Cardinality(Late(a))
      BY <2>6, <2>9, Fewer
    <2>11. ~pod[p].open => Cardinality(Late(a)') + 1 <= Cardinality(Late(a))
      BY <2>6, <2>8, <2>9, OneFewer
    <2>12. /\ n + Cardinality(Late(a)') <= failures + 1
           /\ ~pod[p].open /\ ~LastMove(a) => n + Cardinality(Late(a)') <= failures
      <3>1. CASE pod[p].open
        <4>1. moves[a] + Cardinality(Late(a)) <= failures
          BY <1>0, <2>7, <3>1 DEF MovesFit
        <4>2. QED
          BY <1>0, <2>0, <2>6, <2>10, <3>1, <4>1
      <3>2. CASE ~pod[p].open
        <4>1. /\ moves[a] + Cardinality(Late(a)) <= failures + 1
              /\ ~LastMove(a) => moves[a] + Cardinality(Late(a)) <= failures
          BY <1>0, <1>2 DEF MovesFit
        <4>2. QED
          BY <1>0, <2>0, <2>6, <2>10, <2>11, <3>2, <4>1
      <3>3. QED
        BY <3>1, <3>2
    <2>13. name \in StagedNames
      <3>1. n \in 1 .. OtherFaults + 1
        BY <1>0, <2>0, <2>10, <2>12, ProgressAssumption
      <3>2. QED
        BY <2>0, <3>1 DEF StagedNames
    <2>14. MovesFit'
      <3> SUFFICES ASSUME NEW b \in Att
                   PROVE  /\ moves'[b] + Cardinality(Late(b)') <= failures + 1
                          /\ ~LastMove(b)' => moves'[b] + Cardinality(Late(b)') <= failures
        BY <1>0 DEF MovesFit
      <3>1. CASE b = a
        <4>1. pod[p].open => LastMove(a)'
          BY <2>3, <2>4, <2>5 DEF LastMove, HasMoved
        <4>2. ~pod[p].open => (LastMove(a) => LastMove(a)')
          <5>1. ASSUME ~pod[p].open, NEW q \in Pod, HasMoved(pod[q], a) PROVE HasMoved(pod'[q], a)
            BY <2>5, <5>1 DEF HasMoved
          <5>2. QED
            BY <1>0, <5>1 DEF LastMove
        <4>3. QED
          BY <2>2, <2>12, <3>1, <4>1, <4>2
      <3>2. CASE b # a
        <4>1. ~IsLate(pod[p], b) /\ ~IsLate(s, b) /\ ~HasMoved(pod[p], b) /\ ~HasMoved(s, b)
          BY <1>2, <2>3, <2>4, <3>2 DEF IsLate, HasMoved
        <4>2. Late(b)' = Late(b)
          BY <2>5, <4>1 DEF Late
        <4>3. LastMove(b) => LastMove(b)'
          <5>1. ASSUME NEW q \in Pod, HasMoved(pod[q], b) PROVE HasMoved(pod'[q], b)
            BY <2>5, <4>1, <5>1
          <5>2. QED
            BY <1>0, <5>1 DEF LastMove
        <4>4. QED
          BY <1>0, <2>2, <3>2, <4>2, <4>3 DEF MovesFit
      <3>3. QED
        BY <3>1, <3>2
    <2>15. (\A e : Named(e) => Named(e)') /\ Named(name)'
      <3>1. ASSUME NEW e, Named(e) PROVE Named(e)'
        <4>1. e[1] \in Att /\ e[2] \in Nat /\ e[2] <= moves[e[1]]
          BY <3>1, ProgressAssumption DEF Named, StagedNames
        <4>2. moves[e[1]] \in Nat /\ moves'[e[1]] \in Nat /\ moves[e[1]] <= moves'[e[1]]
          BY <1>0, <2>0, <2>2, <4>1
        <4>3. QED
          BY <3>1, <4>1, <4>2 DEF Named
      <3>2. Named(name)'
        BY <2>0, <2>2, <2>3, <2>13 DEF Named
      <3>3. QED
        BY <3>1, <3>2
    <2>16. ASSUME NEW q \in Pod PROVE CleanupFits(pod[q])'
      <3>1. CASE q = p
        <4>1. s.open => s.pc \in {"stage", "drop", "dropOnly"}
          BY <2>4
        <4>2. \A e \in s.queue : Named(e)'
          BY <1>1, <2>4, <2>15 DEF CleanupFits
        <4>3. \A b \in Att : Fresh(b)' => b \notin s.todo /\ s.now[1] # b
          BY <1>0, <1>1, <1>2, <2>3, <2>4 DEF CleanupFits, Fresh
        <4>4. CleanupFits(s)'
          BY <1>0, <2>3, <2>4, <2>15, <4>1, <4>2, <4>3, <2>5 DEF CleanupFits
        <4>5. QED
          BY <2>5, <3>1, <4>4
      <3>2. CASE q # p
        <4>1. CleanupFits(pod[q]) /\ pod'[q] = pod[q]
          BY <1>0, <2>5, <3>2 DEF CleanupsFit
        <4>2. QED
          BY <1>0, <2>15, <4>1 DEF CleanupFits, Fresh
      <3>3. QED
        BY <3>1, <3>2
    <2>17. ASSUME NEW q \in Pod, NEW b \in Att, Used(b), pod'[q].pc = "unlink", pod'[q].now = <<b, moves'[b]>>
           PROVE  b \in bytes'
      <3>1. q # p /\ pod'[q] = pod[q]
        BY <2>4, <2>5, <2>17
      <3>2. Named(pod[q].now)
        BY <1>0, <2>17, <3>1 DEF CleanupsFit, CleanupFits
      <3>3. CASE b = a
        BY <2>0, <2>2, <2>17, <3>1, <3>2, <3>3 DEF Named
      <3>4. CASE b # a
        <4>1. pod[q].pc = "unlink" /\ pod[q].now = <<b, moves[b]>>
          BY <2>2, <2>17, <3>1, <3>4
        <4>2. b \in bytes
          BY <1>0, <2>17, <4>1 DEF CleanupsFit, CleanupSafe
        <4>3. QED
          BY <2>1, <3>4, <4>2
      <3>5. QED
        BY <3>3, <3>4
    <2>18. CleanupsFit'
      <3>1. ASSUME NEW q \in Pod PROVE CleanupSafe(pod[q])'
        BY <1>0, <2>17 DEF CleanupSafe, Used
      <3>2. \A e \in pending' : Named(e)'
        BY <1>0, <2>1, <2>15 DEF CleanupsFit
      <3>3. QED
        BY <2>16, <3>1, <3>2 DEF CleanupsFit
    <2>19. FreshFit'
      BY <1>0, <1>2, <2>1, <2>2 DEF FreshFit, Fresh
    <2>20. BytesFit'
      <3> SUFFICES ASSUME NEW b \in Att, Used(b) PROVE b \in bytes' \/ <<b, moves'[b]>> \in pending'
        BY <1>0 DEF BytesFit, Used
      <3>1. CASE b = a
        BY <2>0, <2>1, <2>2, <3>1
      <3>2. CASE b # a
        BY <1>0, <2>1, <2>2, <3>2 DEF BytesFit
      <3>3. QED
        BY <3>1, <3>2
    <2>21. LocksAlone(p, s)
      <3>1. s.now[1] = pod[p].now[1] /\ s.open = pod[p].open
        BY <1>2, <2>3, <2>4
      <3>2. QED
        BY <3>1, LockKept
    <2>22. bytes' \subseteq Att /\ pending' \subseteq StagedNames
      BY <1>0, <2>1, <2>13 DEF FileTypes
    <2>23. QED
      BY <1>0, <2>1, <2>2, <2>14, <2>18, <2>19, <2>20, <2>21, <2>22, FilesMove
  <1>5. QED
    BY <1>3, <1>4

\* The commit of a cleanup, whether its answer comes or not: the row goes.
LEMMA RowGoes ==
    ASSUME AttachmentsInv, NEW p \in Pod, pod[p].open, pod[p].pc \in {"drop", "dropOnly"},
           NEW s \in Cleanup, pod' = [pod EXCEPT ![p] = s],
           ~s.open, s.pc # "stage", s.now = pod[p].now, CleanupFits(s),
           row' = [row EXCEPT ![pod[p].now[1]] = "none"],
           failures' \in {failures, failures + 1}, failures' \in 0 .. OtherFaults,
           UNCHANGED <<old, snap, bytes, pending, moves, upload, deleting>>
    PROVE  AttachmentsInv'
  <1>0. /\ FileTypes /\ CleanupsFit /\ FreshFit /\ LocksFit /\ BytesFit /\ MovesFit
        /\ failures \in Nat /\ moves \in [Att -> Nat]
    BY ProgressAssumption DEF AttachmentsInv, FileTypes
  <1>1. pod[p] \in Cleanup /\ CleanupFits(pod[p])
    BY CleanupKnown
  <1>2. PICK a \in Att : a = pod[p].now[1] /\ row[a] = "orphan"
    BY <1>0, <1>1 DEF CleanupFits, Handles, LocksFit
  <1>3. row' \in [Att -> {"none", "orphan", "linked"}] /\ row'[a] = "none" /\ \A b \in Att : b # a => row'[b] = row[b]
    BY <1>0, <1>2 DEF FileTypes
  <1>4. pod'[p] = s /\ pod' \in [Pod -> Cleanup] /\ \A q \in Pod : q # p => pod'[q] = pod[q]
    BY <1>0, CleanupWritten
  <1>5. FileTypes'
    BY <1>0, <1>3, <1>4 DEF FileTypes
  <1>6. \A b \in Att : (Used(b)' => Used(b) /\ b # a) /\ (Fresh(b)' <=> Fresh(b))
    BY <1>3 DEF Used, Fresh
  <1>7. CleanupsFit'
    <2>1. ASSUME NEW q \in Pod PROVE CleanupFits(pod[q])'
      <3>1. CleanupFits(pod'[q])
        BY <1>0, <1>4 DEF CleanupsFit
      <3>2. QED
        BY <3>1 DEF CleanupFits, Named, Fresh, Handles
    <2>2. ASSUME NEW q \in Pod, NEW b \in Att, Used(b)', pod'[q].pc = "unlink", pod'[q].now = <<b, moves[b]>>
          PROVE  b \in bytes
      <3>1. Used(b) /\ b # a
        BY <1>6, <2>2
      <3>2. q # p /\ pod'[q] = pod[q]
        BY <1>2, <1>4, <2>2, <3>1
      <3>3. QED
        BY <1>0, <2>2, <3>1, <3>2 DEF CleanupsFit, CleanupSafe
    <2>3. ASSUME NEW q \in Pod PROVE CleanupSafe(pod[q])'
      BY <2>2 DEF CleanupSafe
    <2>4. \A e \in pending' : Named(e)'
      BY <1>0 DEF CleanupsFit, Named
    <2>5. QED
      BY <2>1, <2>3, <2>4 DEF CleanupsFit
  <1>8. FreshFit'
    BY <1>0, <1>3, <1>6 DEF FreshFit
  <1>9. LocksFit'
    <2>1. \A b \in deleting' : row'[b] = "none"
      BY <1>0, <1>3 DEF LocksFit, FileTypes
    <2>2. ASSUME NEW q \in Pod, pod'[q].open
          PROVE  pod'[q] = pod[q] /\ q # p /\ pod[q].now[1] \in Att /\ pod[q].now[1] # a
      <3>1. q # p /\ pod'[q] = pod[q]
        BY <1>4, <2>2
      <3>2. pod[q].now[1] \in Att /\ pod[q].now[1] # a
        BY <1>0, <1>2, <2>2, <3>1 DEF LocksFit, CleanupsFit, CleanupFits, Handles
      <3>3. QED
        BY <3>1, <3>2
    <2>3. \A q \in Pod : pod'[q].open => row'[pod'[q].now[1]] = "orphan"
      BY <1>0, <1>3, <2>2 DEF LocksFit
    <2>4. \A q, r \in Pod : pod'[q].open /\ pod'[r].open /\ q # r => pod'[q].now[1] # pod'[r].now[1]
      BY <1>0, <2>2 DEF LocksFit
    <2>5. QED
      BY <2>1, <2>3, <2>4 DEF LocksFit
  <1>10. BytesFit'
    BY <1>0, <1>6 DEF BytesFit
  <1>11. RoomFits'
    <2>1. Files!Orphans' \subseteq Files!Orphans /\ Admitted' \subseteq Admitted
      BY <1>3 DEF Files!Orphans, Admitted
    <2>2. QED
      BY <2>1, RoomStays
  <1>12. MovesFit'
    <2> SUFFICES ASSUME NEW b \in Att
                 PROVE  /\ moves[b] + Cardinality(Late(b)') <= failures' + 1
                        /\ ~LastMove(b)' => moves[b] + Cardinality(Late(b)') <= failures'
      BY DEF MovesFit
    <2>1. IsFiniteSet(Late(b)) /\ Cardinality(Late(b)) \in Nat
      BY LateFinite
    <2>2. Late(b)' \subseteq Late(b)
      BY <1>4 DEF Late, IsLate
    <2>3. Cardinality(Late(b)') \in Nat /\ Cardinality(Late(b)') <= Cardinality(Late(b))
      BY <2>1, <2>2, Fewer
    <2>4. LastMove(b) => LastMove(b)'
      <3>1. CASE b = a
        BY <1>3, <3>1 DEF LastMove
      <3>2. CASE b # a
        <4>1. ASSUME NEW q \in Pod, HasMoved(pod[q], b) PROVE HasMoved(pod'[q], b)
          <5>1. q # p
            BY <1>2, <3>2, <4>1 DEF HasMoved
          <5>2. QED
            BY <1>4, <4>1, <5>1
        <4>2. QED
          BY <1>3, <3>2, <4>1 DEF LastMove
      <3>3. QED
        BY <3>1, <3>2
    <2>5. /\ moves[b] + Cardinality(Late(b)) <= failures + 1
          /\ ~LastMove(b) => moves[b] + Cardinality(Late(b)) <= failures
      BY <1>0 DEF MovesFit
    <2>6. moves[b] \in Nat
      BY <1>0
    <2>7. failures <= failures' /\ failures' \in Nat
      BY <1>0, ProgressAssumption
    <2>8. QED
      BY <1>0, <2>1, <2>3, <2>4, <2>5, <2>6, <2>7
  <1>13. QED
    BY <1>5, <1>7, <1>8, <1>9, <1>10, <1>11, <1>12 DEF AttachmentsInv

LEMMA CommitDeleteStep == ASSUME AttachmentsInv, NEW p \in Pod, Files!CommitDelete(p) PROVE AttachmentsInv'
  <1> DEFINE pc == IF pod[p].pc = "drop" THEN "unlink" ELSE "next"
             s == [pod[p] EXCEPT !.pc = pc, !.open = FALSE]
  <1>1. /\ pod[p].pc \in {"drop", "dropOnly"} /\ pod[p].open /\ pod' = [pod EXCEPT ![p] = s]
        /\ row' = [row EXCEPT ![pod[p].now[1]] = "none"]
        /\ UNCHANGED <<old, snap, bytes, pending, moves, upload, deleting, failures>>
    BY DEF Files!CommitDelete, Files!Goes
  <1>2. pod[p] \in Cleanup /\ CleanupFits(pod[p])
    BY CleanupKnown
  <1>3. pc \in {"unlink", "next"} /\ (pc = "unlink" => pod[p].pc = "drop")
    OBVIOUS
  <1> HIDE DEF pc
  <1>4. /\ s \in Cleanup /\ s.pc = pc /\ s.now = pod[p].now /\ s.open = FALSE
        /\ s.queue = pod[p].queue /\ s.todo = pod[p].todo
    BY <1>2, <1>3 DEF Cleanup
  <1> HIDE DEF s
  <1>5. CleanupFits(s)
    BY <1>1, <1>2, <1>3, <1>4 DEF CleanupFits, Handles
  <1>6. failures' \in {failures, failures + 1} /\ failures' \in 0 .. OtherFaults
    BY <1>1, FaultsAsTheyAre
  <1>7. QED
    BY <1>1, <1>3, <1>4, <1>5, <1>6, RowGoes

LEMMA CommitAnswerLostStep == ASSUME AttachmentsInv, NEW p \in Pod, Files!CommitAnswerLost(p) PROVE AttachmentsInv'
  <1> DEFINE s == [pod[p] EXCEPT !.open = FALSE]
  <1>1. /\ pod[p].pc \in {"drop", "dropOnly"} /\ pod[p].open /\ Files!Faulty /\ pod' = [pod EXCEPT ![p] = s]
        /\ row' = [row EXCEPT ![pod[p].now[1]] = "none"]
        /\ UNCHANGED <<old, snap, bytes, pending, moves, upload, deleting>>
    BY DEF Files!CommitAnswerLost, Files!Goes
  <1>2. pod[p] \in Cleanup /\ CleanupFits(pod[p])
    BY CleanupKnown
  <1>3. /\ s \in Cleanup /\ s.pc = pod[p].pc /\ s.now = pod[p].now /\ s.open = FALSE
        /\ s.queue = pod[p].queue /\ s.todo = pod[p].todo
    BY <1>2 DEF Cleanup
  <1> HIDE DEF s
  <1>4. CleanupFits(s)
    BY <1>2, <1>3 DEF CleanupFits, Handles
  <1>5. failures' \in {failures, failures + 1} /\ failures' \in 0 .. OtherFaults
    BY <1>1, FileFaultCounts
  <1>6. QED
    BY <1>1, <1>3, <1>4, <1>5, RowGoes
--------------------------------------------------------------------------------
LEMMA FilesStep == ASSUME AttachmentsInv, Files!Next PROVE AttachmentsInv'
  <1>1. ASSUME NEW a \in Att,
               \/ Files!StartUpload(a) \/ Files!Adopt(a) \/ Files!CommitUpload(a)
               \/ Files!UploadFails(a) \/ Files!UndoUpload(a)
        PROVE  AttachmentsInv'
    BY <1>1, StartUploadStep, AdoptStep, CommitUploadStep, UploadFailsStep
  <1>2. ASSUME NEW a \in Att,
               \/ Files!Link(a) \/ Files!SnapshotForMail(a) \/ Files!Age(a)
               \/ Files!DeleteAttachment(a) \/ Files!DeleteFile(a)
        PROVE  AttachmentsInv'
    BY <1>2, UseStep, DeleteAttachmentStep, DeleteFileStep
  <1>3. ASSUME NEW p \in Pod, Files!FileCallFails(p) PROVE AttachmentsInv'
    <2>1. /\ pod[p].pc \in {"link", "unlink"} /\ Files!Faulty /\ Files!Back(p)
          /\ UNCHANGED <<row, old, snap, bytes, pending, moves, upload, deleting>>
      BY <1>3 DEF Files!FileCallFails
    <2>2. QED
      BY <2>1, FileCallFailsStep
  <1>4. ASSUME NEW p \in Pod, Files!TimesOut(p) \/ Files!CommitAnswerLost(p) \/ Files!PodDies(p)
        PROVE  AttachmentsInv'
    BY <1>4, TimesOutStep, CommitAnswerLostStep, PodDiesStep
  <1>5. ASSUME NEW p \in Pod, Files!CleanupStep(p) PROVE AttachmentsInv'
    BY <1>5, ListStagedStep, RecoverNextStep, ListOrphansStep, LockNextStep, StageStep,
       CommitDeleteStep, DeleteThrowsStep, RestoreLinksStep, UnlinksStep DEF Files!CleanupStep
  <1>6. QED
    BY <1>1, <1>2, <1>3, <1>4, <1>5 DEF Files!Next

LEMMA FilesPromise == AttachmentsInv => Files!FilesInv
  <1> SUFFICES ASSUME AttachmentsInv PROVE Files!FilesInv
    OBVIOUS
  <1>0. FileTypes /\ CleanupsFit /\ BytesFit /\ RoomFits
    BY DEF AttachmentsInv
  <1>1. ASSUME NEW p \in Pod
        PROVE  /\ pod[p].todo \subseteq Att /\ pod[p].queue \subseteq StagedNames
               /\ pod[p].open => pod[p].pc \in {"stage", "drop", "dropOnly"}
    <2>1. pod[p] \in Cleanup /\ CleanupFits(pod[p])
      BY CleanupKnown
    <2>2. QED
      BY <2>1 DEF Cleanup, CleanupFits
  <1>2. Files!TypeOK
    BY <1>0, <1>1 DEF Files!TypeOK, FileTypes, StagedNames, UploadPc
  <1>3. Files!AnsweredUploadsKeepBytes
    <2> SUFFICES ASSUME NEW a \in Att, upload[a] = "done" /\ row[a] # "none"
                 PROVE  a \in bytes \/ \E e \in pending : e[1] = a
      BY DEF Files!AnsweredUploadsKeepBytes
    <2>1. a \in bytes \/ <<a, moves[a]>> \in pending
      BY <1>0 DEF BytesFit, Used
    <2>2. QED
      BY <2>1
  <1>4. Files!OrphansWithinCapacity
    BY <1>0, SameCountOfRows DEF Files!OrphansWithinCapacity, RoomFits
  <1>5. QED
    BY <1>2, <1>3, <1>4 DEF Files!FilesInv

\* Only a direct delete takes a row that is in use.
LEMMA UsedStep ==
    ASSUME AttachmentsInv, Files!Next, NEW a \in Att, row[a] = "linked", row'[a] = "none"
    PROVE  a \in deleting' \ deleting /\ a \notin snap
  <1>0. row \in [Att -> {"none", "orphan", "linked"}] /\ LocksFit
    BY DEF AttachmentsInv, FileTypes
  <1>1. row' # row
    OBVIOUS
  <1>2. ASSUME NEW b \in Att, Files!CommitUpload(b) PROVE FALSE
    <2>1. row' = [row EXCEPT ![b] = IF upload[b] = "commit" THEN "orphan" ELSE "linked"]
      BY <1>2 DEF Files!CommitUpload
    <2>2. QED
      BY <1>0, <2>1
  <1>3. ASSUME NEW b \in Att, Files!Link(b) PROVE FALSE
    <2>1. row' = [row EXCEPT ![b] = "linked"]
      BY <1>3 DEF Files!Link
    <2>2. QED
      BY <1>0, <2>1
  <1>4. ASSUME NEW p \in Pod, Files!CommitDelete(p) \/ Files!CommitAnswerLost(p) PROVE FALSE
    <2>1. row' = [row EXCEPT ![pod[p].now[1]] = "none"] /\ row[pod[p].now[1]] = "orphan"
      BY <1>0, <1>4 DEF Files!CommitDelete, Files!CommitAnswerLost, LocksFit
    <2>2. QED
      BY <1>0, <2>1
  <1>5. ASSUME NEW b \in Att, Files!DeleteAttachment(b) PROVE a \in deleting' \ deleting /\ a \notin snap
    <2>1. row' = [row EXCEPT ![b] = "none"] /\ deleting' = deleting \cup {b} /\ b \notin snap
      BY <1>5 DEF Files!DeleteAttachment, Files!Deletable
    <2>2. b = a
      BY <1>0, <2>1
    <2>3. a \notin deleting
      BY <1>0 DEF LocksFit
    <2>4. QED
      BY <2>1, <2>2, <2>3
  <1>6. ASSUME NEW b \in Att,
               \/ Files!StartUpload(b) \/ Files!Adopt(b) \/ Files!UploadFails(b) \/ Files!UndoUpload(b)
               \/ Files!SnapshotForMail(b) \/ Files!Age(b) \/ Files!DeleteFile(b)
        PROVE  FALSE
    BY <1>1, <1>6 DEF Files!StartUpload, Files!Adopt, Files!UploadFails, Files!UndoUpload,
                      Files!SnapshotForMail, Files!Age, Files!DeleteFile
  <1>7. ASSUME NEW p \in Pod,
               \/ Files!ListStaged(p) \/ Files!RecoverNext(p) \/ Files!ListOrphans(p) \/ Files!LockNext(p)
               \/ Files!Stage(p) \/ Files!DeleteThrows(p) \/ Files!RestoreLinks(p) \/ Files!Unlinks(p)
               \/ Files!TimesOut(p) \/ Files!FileCallFails(p) \/ Files!PodDies(p)
        PROVE  FALSE
    BY <1>1, <1>7 DEF Files!ListStaged, Files!RecoverNext, Files!ListOrphans, Files!LockNext, Files!Stage,
                      Files!DeleteThrows, Files!RestoreLinks, Files!Unlinks, Files!TimesOut,
                      Files!FileCallFails, Files!PodDies
  <1>8. QED
    BY <1>2, <1>3, <1>4, <1>5, <1>6, <1>7 DEF Files!Next, Files!CleanupStep

--------------------------------------------------------------------------------
(***************************************************************************)
(* The stories side by side: while one is told the parts of the others are *)
(* as they started, and none of them can fail what it does not touch.      *)
(***************************************************************************)
BackgroundInv ==
    /\ story \in {"events", "imap", "files"}
    /\ story = "events" => EventsInv
    /\ story = "files" => AttachmentsInv

LEMMA BackgroundSteps == ProgressSpec => ProgressInit /\ [][ProgressNext]_progressVars
  BY PTL DEF ProgressSpec

LEMMA BackgroundInit == ProgressInit => BackgroundInv
  BY EventsInit, FilesInit DEF ProgressInit, BackgroundInv

LEMMA BackgroundIdle == ASSUME BackgroundInv, UNCHANGED progressVars PROVE BackgroundInv'
  <1>1. UNCHANGED <<story, failures, event, requester, mail, work, edits>>
        /\ UNCHANGED <<row, old, snap, bytes, pending, moves, upload, deleting, pod>>
    BY DEF progressVars, eventVars, fileVars
  <1>2. story = "events" => EventsInv'
    BY <1>1 DEF BackgroundInv, EventsInv, EventTypes, MailKeys, RunsMailed, RunFits, RunMailed, Mailed,
                Events!ProcessedIsComplete
  <1>3. ASSUME AttachmentsInv PROVE AttachmentsInv'
    <2>1. FileTypes' /\ CleanupsFit' /\ FreshFit'
      BY <1>1, <1>3 DEF AttachmentsInv, FileTypes, CleanupsFit, CleanupFits, CleanupSafe, FreshFit, Named, Fresh, Used, Handles
    <2>2. LocksFit' /\ BytesFit'
      BY <1>1, <1>3 DEF AttachmentsInv, LocksFit, BytesFit, Used
    <2>3. RoomFits'
      BY <1>1, <1>3 DEF AttachmentsInv, RoomFits, Admitted, Files!Orphans
    <2>4. MovesFit'
      BY <1>1, <1>3 DEF AttachmentsInv, MovesFit, Late, IsLate, LastMove, HasMoved
    <2>5. QED
      BY <2>1, <2>2, <2>3, <2>4 DEF AttachmentsInv
  <1>4. QED
    BY <1>1, <1>2, <1>3 DEF BackgroundInv

LEMMA BackgroundStep == BackgroundInv /\ [ProgressNext]_progressVars => BackgroundInv'
  <1>1. ASSUME BackgroundInv, EventStory PROVE BackgroundInv'
    BY <1>1, EventsStep DEF EventStory, BackgroundInv
  <1>2. ASSUME BackgroundInv, ImapStory PROVE BackgroundInv'
    BY <1>2 DEF ImapStory, BackgroundInv
  <1>3. ASSUME BackgroundInv, FileStory PROVE BackgroundInv'
    BY <1>3, FilesStep DEF FileStory, BackgroundInv
  <1>4. QED
    BY <1>1, <1>2, <1>3, BackgroundIdle DEF ProgressNext

LEMMA BackgroundAlways == ProgressSpec => []BackgroundInv
  BY BackgroundSteps, BackgroundInit, BackgroundStep, PTL

\* Each action of an event has one mail whatever workers, lost leases, lost answers
\* and replays do, and an event that counts as processed has them all
\* (workflow-email-event.service.ts); the bytes of an answered upload stay where its
\* row can find them, and orphans fit their capacity (orphan-cleanup.service.ts,
\* attachment-capacity.service.ts).
THEOREM BackgroundLosesNothing == ProgressSpec => []NothingIsLost
  <1>1. BackgroundInv => NothingIsLost
    BY EventsPromise, FilesPromise DEF BackgroundInv, NothingIsLost
  <1>2. QED
    BY <1>1, BackgroundAlways, PTL

\* While a lease runs only its holder settles the event, a processed event stays,
\* and only an operator's replay takes one out of quarantine
\* (workflow-email-event.service.ts).
THEOREM OnlyHoldersSettle == ProgressSpec => OnlyTheHolderSettles
  <1>1. ASSUME BackgroundInv, [ProgressNext]_progressVars, NEW e \in Event PROVE HolderOnly(e)
    <2>1. CASE EventStory
      BY <1>1, <2>1, HolderStep DEF EventStory, BackgroundInv
    <2>2. CASE ~EventStory
      <3>1. event' = event
        BY <1>1, <2>2 DEF ProgressNext, ImapStory, FileStory, progressVars, eventVars
      <3>2. QED
        BY <3>1 DEF HolderOnly
    <2>3. QED
      BY <2>1, <2>2
  <1>2. BackgroundInv /\ [ProgressNext]_progressVars => [\A e \in Event : HolderOnly(e)]_Events!vars
    BY <1>1
  <1>3. QED
    BY <1>2, BackgroundSteps, BackgroundAlways, PTL DEF OnlyTheHolderSettles, Events!OnlyTheHolderSettles, HolderOnly

\* An attachment that a ticket, a post or a note uses goes only by a direct delete,
\* and not while a mail has a snapshot of it: a cleanup reads the row again under its
\* lock (orphan-cleanup.service.ts, attachments.service.ts).
THEOREM UsedAttachmentsAreKept == ProgressSpec => UsedAttachmentsStay
  <1> DEFINE Kept == \A a \in Att : row[a] = "linked" /\ row'[a] = "none" =>
                        a \in deleting' \ deleting /\ a \notin snap
  <1>1. ASSUME BackgroundInv, [ProgressNext]_progressVars PROVE Kept
    <2>1. CASE FileStory
      BY <1>1, <2>1, UsedStep DEF FileStory, BackgroundInv
    <2>2. CASE ~FileStory
      <3>1. row' = row
        BY <1>1, <2>2 DEF ProgressNext, ImapStory, EventStory, progressVars, fileVars
      <3>2. QED
        BY <3>1
    <2>3. QED
      BY <2>1, <2>2
  <1>2. BackgroundInv /\ [ProgressNext]_progressVars => [Kept]_Files!vars
    BY <1>1
  <1>3. QED
    BY <1>2, BackgroundSteps, BackgroundAlways, PTL DEF UsedAttachmentsStay, Files!UsedAttachmentsStay
================================================================================
