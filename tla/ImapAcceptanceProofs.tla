-------------------------- MODULE ImapAcceptanceProofs --------------------------
(***************************************************************************)
(* Proofs about ImapAcceptance, for any number of processes, operators,    *)
(* mailboxes, messages and faults.                                         *)
(*                                                                         *)
(* Every copy of the row (a process has one across its awaits, a reconcile *)
(* another) stays true of the mailbox it names: its numbers are of that    *)
(* mailbox, and of the configuration of the row while the epochs agree.    *)
(* With that the fences decide: who writes numbers into the row has them   *)
(* from the mailbox the row names. That a batch works on that mailbox too  *)
(* the code knows only from its UIDVALIDITY, which two mailboxes may share:*)
(* the last part follows the mail of every generation but those in which a *)
(* poll has crossed, and shows that what a crossing poll did ends there.   *)
(***************************************************************************)
EXTENDS ImapAcceptance, FiniteSetTheorems, WellFoundedInduction, TLAPS

\* What a step may use of its process or reconcile, beyond the types.
Working ==
    /\ \A p \in Pod :
         /\ pod[p].pc \in {"reserve", "accept"} => pod[p].now \in Uid /\ pod[p].from \in Account
         /\ pod[p].pc = "store" => pod[p].base.from \in Account
    /\ \A o \in Operator : op[o].pc = "complete" => op[o].base.from = op[o].row.account
    /\ queue.epoch <= queue.config

TypeInv == TypeOK /\ Working

\* A mailbox has a UIDVALIDITY of its own and messages below its UIDNEXT.
BoxesFit(s) ==
    \A a \in Account : /\ s[a].validity \in Validities[a]
                       /\ \A u \in s[a].mail : u < s[a].next

\* The validity of a row or of a copy of it is one of its mailbox, present or past.
RowFits(q, s, r) ==
    /\ r.validity \in {0} \cup Validities[r.account]
    /\ r.validity <= s[r.account].validity
    /\ r.epoch <= q.epoch
    /\ r.epoch = q.epoch => r.account = q.account
    /\ r.epoch = 0 => r.account = Home

\* A baseline lists the messages it puts behind the cursor.
BaseFits(s, b) ==
    b.from # None =>
        /\ b.validity \in Validities[b.from] /\ b.validity <= s[b.from].validity
        /\ b.validity = s[b.from].validity =>
              /\ b.cursor < s[b.from].next
              /\ \A u \in s[b.from].mail : u <= b.cursor => u \in b.skipped

LegacyFits(s, l) ==
    /\ l.validity \in Validities[Home] /\ l.validity <= s[Home].validity
    /\ l.validity = s[Home].validity => l.watermark < s[Home].next

\* A row without numbers is polled only before its mailbox is first changed, and the old
\* program's cursor taken up only then; a reconcile begins without numbers.
QueueFits(q) ==
    /\ q.sync = "OK" /\ q.validity = 0 => q.epoch = 0
    /\ q.cause = "LEGACY_MIGRATION" => q.epoch = 0
    /\ q.sync = "BOOTSTRAPPING" => q.validity = 0

NumbersInv ==
    /\ BoxesFit(server) /\ LegacyFits(server, legacy)
    /\ QueueFits(queue) /\ RowFits(queue, server, queue)
    /\ \A p \in Pod : /\ RowFits(queue, server, pod[p].row) /\ BaseFits(server, pod[p].base)
                      /\ queue.epoch = 0 => /\ conn[p] \in {None, Home}
                                            /\ pod[p].base.from \in {None, Home}
    /\ \A o \in Operator : RowFits(queue, server, op[o].row) /\ BaseFits(server, op[o].base)

\* A process at work in a batch.
Batch == {"fetch", "reserve", "accept", "advance"}

\* A process that is not for capturing and has staged bytes has no batch of a retired queue.
CaptureInv ==
    /\ CaptureIsClosed
    /\ \A p \in stages : queue.retired /\ pod[p].pc \in Batch \cup {"open", "halt"} => Capture(p)

\* No cursor is beyond the messages of the mailbox it counts in.
CursorFits(s, r) ==
    r.validity = s[r.account].validity => r.cursor < s[r.account].next

\* The message of a UID is in the ledger, or was put behind the cursor.
Kept(s, l, e, a, u) ==
    \/ \E d \in l : /\ d.from = a /\ d.validity = s[a].validity /\ d.uid = u
                    /\ d.replaced = (u \in s[a].replaced)
    \/ <<a, s[a].validity, u>> \in e

\* No poll has listed another mailbox in the generation of a row.
Clean(c, r) == <<r.epoch, r.gen>> \notin c

\* A batch of a mailbox that still has its UIDVALIDITY has kept what it is done with, and
\* lists what it is not.
BatchKeeps(s, l, e, b) ==
    LET a == b.row.account
    IN /\ b.done < s[a].next
       /\ \A u \in b.todo : b.done < u /\ u < s[a].next
       /\ \A u \in s[a].mail : b.row.cursor < u /\ u <= b.done => Kept(s, l, e, a, u)
       /\ \A u \in s[a].mail : b.done < u => \A w \in b.todo : u <= w => u \in b.todo
       /\ b.pc \in {"reserve", "accept"} => b.replaced = (b.now \in s[a].replaced)

BatchFits(c, s, l, e, b) ==
    b.pc \in Batch =>
        /\ b.todo # {} => c \in {None, b.row.account}
        /\ b.pc \in {"reserve", "accept"} =>
              /\ b.from = b.row.account /\ b.now \in b.todo
              /\ \A u \in b.todo : b.now <= u
        /\ b.row.validity = s[b.row.account].validity => BatchKeeps(s, l, e, b)

\* What the ledger holds of the present epoch came from the present mailbox, or a poll
\* of the epoch has crossed.
CrossedAt(c, e) == \E g \in 0..MaxGen : <<e, g>> \in c
LedgerFits(q, l, c) ==
    \A d \in l : /\ d.epoch <= q.epoch
                 /\ d.epoch = q.epoch => d.from = q.account \/ CrossedAt(c, d.epoch)

\* Whatever the cursor has passed is kept.
QueueKeeps(q, s, l, e) ==
    q.validity = s[q.account].validity =>
        \A u \in s[q.account].mail : u <= q.cursor => Kept(s, l, e, q.account, u)

MailInv ==
    /\ EpochIsOneMailbox /\ LedgerFits(queue, ledger, crossed)
    /\ Clean(crossed, queue) => /\ CursorFits(server, queue)
                               /\ QueueKeeps(queue, server, ledger, excluded)
    /\ \A p \in Pod : Clean(crossed, pod[p].row) =>
          CursorFits(server, pod[p].row) /\ BatchFits(conn[p], server, ledger, excluded, pod[p])

--------------------------------------------------------------------------------
\* A set of numbers has a smallest one.
LEMMA SmallestIsLeast ==
    ASSUME NEW S \in SUBSET Nat, S # {}
    PROVE  Smallest(S) \in S /\ \A y \in S : Smallest(S) <= y
<1> DEFINE R == {ss \in Nat \X Nat : ss[1] < ss[2]}
<1>1. IsWellFoundedOn(R, Nat)
  BY NatLessThanWellFounded, Zenon DEF OpToRel
<1>2. \E x \in S : \A y \in S : <<y, x>> \notin R
  <2> HIDE DEF R
  <2> QED BY <1>1, WFMin
<1>3. \A x, y \in S : x \in Nat /\ y \in Nat /\ (<<y, x>> \notin R => x <= y)
  OBVIOUS
<1>4. \E x \in S : \A y \in S : x <= y
  <2> HIDE DEF R
  <2> QED BY <1>2, <1>3
<1> QED BY <1>4 DEF Smallest

LEMMA ValidityFacts ==
    /\ Validity \subseteq Nat /\ 0 \in Validity
    /\ \A a \in Account : /\ Validities[a] \subseteq Validity
                          /\ Validities[a] \subseteq Nat \ {0} /\ Validities[a] # {}
BY ValidityAssumption DEF Validity

LEMMA FirstValidity ==
    ASSUME NEW a \in Account, NEW S \in SUBSET Validities[a], S # {}
    PROVE  Smallest(S) \in S /\ Smallest(S) \in Validity /\ Smallest(S) \in Nat
BY ValidityFacts, SmallestIsLeast

LEMMA FirstUid ==
    ASSUME NEW S \in SUBSET Uid, S # {}
    PROVE  /\ Smallest(S) \in S /\ Smallest(S) \in Uid /\ Smallest(S) - 1 \in 0..MaxUid
           /\ \A y \in S : Smallest(S) <= y
<1>1. S \in SUBSET Nat
  BY BoundAssumption DEF Uid
<1>2. Smallest(S) \in S /\ \A y \in S : Smallest(S) <= y
  BY <1>1, SmallestIsLeast
<1>3. \A u \in Uid : u - 1 \in 0..MaxUid
  BY BoundAssumption DEF Uid
<1> QED BY <1>2, <1>3

Mailbox == [validity: Validity, next: 1..(MaxUid + 1), mail: SUBSET Uid, replaced: SUBSET Uid]

LEMMA BaselineFacts ==
    ASSUME NEW a \in Account, server[a] \in Mailbox, NEW n
    PROVE  /\ BaselineOf(a, n) \in Baseline /\ BaselineOf(a, n).from = a
           /\ BaselineOf(a, n).validity = server[a].validity
           /\ BaselineOf(a, n).cursor < server[a].next
              \/ \E u \in server[a].mail : BaselineOf(a, n).cursor < u
           /\ BaselineOf(a, n).skipped =
                {u \in server[a].mail : u <= BaselineOf(a, n).cursor}
<1> DEFINE box == server[a]
           last == {u \in box.mail : Cardinality({v \in box.mail : v > u}) < n}
           cursor == IF last = {} THEN box.next - 1 ELSE Smallest(last) - 1
<1>1. last \in SUBSET Uid /\ box.validity \in Validity /\ box.next \in 1..(MaxUid + 1)
      /\ box.mail \in SUBSET Uid /\ last \subseteq box.mail
  BY DEF Mailbox
<1>2. BaselineOf(a, n) = [from |-> a, validity |-> box.validity, cursor |-> cursor,
                          skipped |-> {u \in box.mail : u <= cursor}]
  BY DEF BaselineOf
<1> HIDE DEF last
<1>3. cursor \in 0..MaxUid /\ (cursor < box.next \/ \E u \in box.mail : cursor < u)
  <2>1. CASE last = {}
    BY <2>1, <1>1, BoundAssumption
  <2>2. CASE last # {}
    <3>1. Smallest(last) \in last /\ Smallest(last) \in Uid /\ Smallest(last) - 1 \in 0..MaxUid
      BY <2>2, <1>1, FirstUid
    <3>2. Smallest(last) - 1 < Smallest(last)
      BY <3>1, BoundAssumption DEF Uid
    <3> QED BY <2>2, <3>1, <3>2, <1>1
  <2> QED BY <2>1, <2>2
<1> HIDE DEF cursor, box
<1>4. {u \in box.mail : u <= cursor} \in SUBSET Uid
  BY <1>1
<1> QED BY <1>1, <1>2, <1>3, <1>4, HomeAssumption DEF Baseline, box

--------------------------------------------------------------------------------
\* Types.

PodRecord == [pc: PodPc, connecting: BOOLEAN, row: Row, armed: BOOLEAN,
              base: Baseline, todo: SUBSET Uid, done: 0..MaxUid, now: 0..MaxUid,
              failed: 0..MaxUid, from: Account \cup {None},
              replaced: BOOLEAN, large: BOOLEAN]
OpRecord == [pc: {"idle", "baseline", "complete", "fail"}, row: Row, base: Baseline]

LEMMA TypeParts ==
    TypeOK <=> /\ queue \in Row
               /\ legacy \in [validity: Validity, watermark: 0..MaxUid, pending: SUBSET Uid]
               /\ ledger \subseteq Delivery
               /\ stages \subseteq Pod
               /\ server \in [Account -> Mailbox]
               /\ mode \in [Pod -> {"normal", "capture"}]
               /\ conn \in [Pod -> Account \cup {None}]
               /\ pod \in [Pod -> PodRecord]
               /\ op \in [Operator -> OpRecord]
               /\ excluded \subseteq Account \X Validity \X Uid
               /\ crossed \subseteq (0..MaxConfig) \X (0..MaxGen)
               /\ faults \in 0..MaxFaults
BY DEF TypeOK, PodRecord, OpRecord, Mailbox

\* A process is well typed and has what its step works with.
PodWorks(b) ==
    /\ b \in PodRecord
    /\ b.pc \in {"reserve", "accept"} => b.now \in Uid /\ b.from \in Account
    /\ b.pc = "store" => b.base.from \in Account
OpWorks(o) == o \in OpRecord /\ (o.pc = "complete" => o.base.from = o.row.account)

\* The type invariant with one conjunct for each variable, and that of the history.
Typed ==
    /\ queue \in Row /\ queue.epoch <= queue.config
    /\ legacy \in [validity: Validity, watermark: 0..MaxUid, pending: SUBSET Uid]
    /\ ledger \subseteq Delivery
    /\ stages \subseteq Pod
    /\ server \in [Account -> Mailbox]
    /\ mode \in [Pod -> {"normal", "capture"}]
    /\ conn \in [Pod -> Account \cup {None}]
    /\ pod \in [Pod -> PodRecord] /\ \A p \in Pod : PodWorks(pod[p])
    /\ op \in [Operator -> OpRecord] /\ \A o \in Operator : OpWorks(op[o])
    /\ excluded \subseteq Account \X Validity \X Uid
    /\ faults \in 0..MaxFaults
Crossings == crossed \subseteq (0..MaxConfig) \X (0..MaxGen)

LEMMA TypeInvIsTyped == TypeInv <=> Typed /\ Crossings
<1>1. ASSUME pod \in [Pod -> PodRecord], op \in [Operator -> OpRecord]
      PROVE  Working <=> /\ \A p \in Pod : PodWorks(pod[p])
                         /\ \A o \in Operator : OpWorks(op[o])
                         /\ queue.epoch <= queue.config
  BY <1>1 DEF Working, PodWorks, OpWorks
<1> QED BY <1>1, TypeParts DEF TypeInv, Typed, Crossings

LEMMA PcNames ==
    /\ "idle" \in PodPc /\ "arm" \in PodPc /\ "connect" \in PodPc /\ "bootstrap" \in PodPc
    /\ "baseline" \in PodPc /\ "store" \in PodPc /\ "poll" \in PodPc /\ "open" \in PodPc
    /\ "halt" \in PodPc /\ "fetch" \in PodPc /\ "reserve" \in PodPc /\ "accept" \in PodPc
    /\ "advance" \in PodPc
BY DEF PodPc

LEMMA FreshRowType ==
    /\ FreshRow \in Row /\ MigratedRow \in Row /\ NoBaseline \in Baseline
    /\ FreshRow.epoch = 0 /\ FreshRow.config = 0
    /\ MigratedRow.epoch = 0 /\ MigratedRow.config = 0
<1>1. 0 \in 0..MaxUid /\ 0 \in 0..MaxConfig /\ 0 \in 0..MaxGen /\ 0 \in Validity
  BY BoundAssumption, ValidityFacts
<1> QED BY <1>1, HomeAssumption DEF FreshRow, MigratedRow, Row, NoBaseline, Baseline, Cause

LEMMA IdleWorks == PodWorks(IdlePod) /\ OpWorks(IdleOp) /\ IdlePod.pc = "idle" /\ IdlePod.row = FreshRow
<1>1. 0 \in 0..MaxUid
  BY BoundAssumption
<1> QED BY <1>1, FreshRowType DEF IdlePod, IdleOp, PodWorks, OpWorks, PodRecord, OpRecord, PodPc

\* One process changes.
LEMMA PodChanges ==
    ASSUME pod \in [Pod -> PodRecord], \A q \in Pod : PodWorks(pod[q]),
           NEW p \in Pod, NEW b, PodWorks(b), NEW f, f = [pod EXCEPT ![p] = b]
    PROVE  f \in [Pod -> PodRecord] /\ \A q \in Pod : PodWorks(f[q])
BY DEF PodWorks

LEMMA OpChanges ==
    ASSUME op \in [Operator -> OpRecord], \A q \in Operator : OpWorks(op[q]),
           NEW o \in Operator, NEW b, OpWorks(b), NEW f, f = [op EXCEPT ![o] = b]
    PROVE  f \in [Operator -> OpRecord] /\ \A q \in Operator : OpWorks(f[q])
BY DEF OpWorks

LEMMA RowFacts ==
    ASSUME NEW r \in Row
    PROVE  /\ r.account \in Account /\ r.validity \in Validity /\ r.validity \in Nat
           /\ r.cursor \in 0..MaxUid /\ r.cursor \in Nat
           /\ r.epoch \in 0..MaxConfig /\ r.epoch \in Nat /\ r.config \in 0..MaxConfig
           /\ r.gen \in 0..MaxGen
<1>1. /\ r.account \in Account /\ r.validity \in Validity /\ r.cursor \in 0..MaxUid
      /\ r.epoch \in 0..MaxConfig /\ r.config \in 0..MaxConfig /\ r.gen \in 0..MaxGen
  BY DEF Row
<1>2. r.validity \in Nat
  BY <1>1, ValidityFacts
<1>3. \A n \in Nat : \A i \in 0..n : i \in Nat
  OBVIOUS
<1> QED BY <1>1, <1>2, <1>3, BoundAssumption

\* The fields of a process and of its mailbox.
LEMMA PodFacts ==
    ASSUME Typed, NEW p \in Pod
    PROVE  /\ pod[p] \in PodRecord /\ PodWorks(pod[p]) /\ pod[p].row \in Row
           /\ pod[p].base \in Baseline /\ pod[p].todo \in SUBSET Uid
           /\ pod[p].done \in 0..MaxUid /\ pod[p].now \in 0..MaxUid
           /\ pod[p].failed \in 0..MaxUid /\ pod[p].from \in Account \cup {None}
           /\ pod[p].replaced \in BOOLEAN /\ pod[p].large \in BOOLEAN /\ pod[p].armed \in BOOLEAN
           /\ pod[p].row.account \in Account /\ queue.account \in Account
           /\ conn[p] \in Account \cup {None}
           /\ conn[p] # None => conn[p] \in Account /\ server[conn[p]] \in Mailbox
BY RowFacts DEF Typed, PodRecord

\* What one process becomes.
LEMMA PodBecomes ==
    ASSUME Typed, NEW p \in Pod, NEW b, PodWorks(b), pod' = [pod EXCEPT ![p] = b]
    PROVE  PodWorks(pod'[p]) /\ pod' = [pod EXCEPT ![p] = pod'[p]]
<1>1. pod'[p] = b
  BY DEF Typed
<1> QED BY <1>1

\* Some fields of the row change, within their sets.
LEMMA RowChanges ==
    ASSUME Typed
    PROVE  /\ \A b \in BOOLEAN : [queue EXCEPT !.retired = b] \in Row
           /\ \A b \in BOOLEAN : [queue EXCEPT !.enabled = b] \in Row
           /\ \A c \in 0..MaxUid : [queue EXCEPT !.cursor = c] \in Row
           /\ \A v \in Validity, c \in 0..MaxUid :
                [queue EXCEPT !.validity = v, !.cursor = c] \in Row
           /\ \A c \in Cause : Halted(queue, c) \in Row
BY DEF Typed, Row, Halted

\* A step of a process that is well typed again and of one that writes the row.
LEMMA PodStep ==
    ASSUME Typed, NEW p \in Pod, pod' = [pod EXCEPT ![p] = pod'[p]], PodWorks(pod'[p]),
           conn' = [conn EXCEPT ![p] = conn'[p]], conn'[p] \in Account \cup {None},
           queue' \in Row, queue'.epoch <= queue'.config,
           ledger' \subseteq Delivery, stages' \subseteq Pod, server' = server,
           mode' = mode, legacy' = legacy, op' = op,
           excluded' \subseteq Account \X Validity \X Uid, faults' \in 0..MaxFaults
    PROVE  Typed'
<1>1. pod' \in [Pod -> PodRecord] /\ \A q \in Pod : PodWorks(pod'[q])
  BY PodChanges DEF Typed
<1>2. \A q \in Pod : PodWorks(pod[q])'
  BY <1>1 DEF PodWorks
<1>3. conn' \in [Pod -> Account \cup {None}]
  BY DEF Typed
<1> QED BY <1>1, <1>2, <1>3 DEF Typed, OpWorks

LEMMA FaultType == ASSUME Typed, Fault PROVE faults' \in 0..MaxFaults
BY BoundAssumption DEF Typed, Fault

\* A process reads the row.
LEMMA IdleReads ==
    ASSUME Typed, NEW pc \in {"poll", "arm", "connect", "bootstrap", "open"}
    PROVE  PodWorks([IdlePod EXCEPT !.row = queue, !.pc = pc])
<1> DEFINE b == [IdlePod EXCEPT !.row = queue, !.pc = pc]
<1>1. b \in PodRecord /\ b.pc = pc
  BY PcNames, IdleWorks DEF Typed, PodWorks, PodRecord
<1> HIDE DEF b
<1>2. PodWorks(b)
  BY <1>1 DEF PodWorks
<1> QED BY <1>2 DEF b

LEMMA SuperviseTypes == ASSUME Typed, NEW p \in Pod, Supervise(p) PROVE Typed'
<1>1. PodWorks(pod'[p]) /\ pod' = [pod EXCEPT ![p] = pod'[p]]
  <2>1. CASE Rest(p)
    BY <2>1, IdleWorks, PodBecomes DEF Rest
  <2>2. ASSUME NEW pc \in {"poll", "arm", "connect"},
               pod' = [pod EXCEPT ![p] = [IdlePod EXCEPT !.row = queue, !.pc = pc]]
        PROVE  PodWorks(pod'[p]) /\ pod' = [pod EXCEPT ![p] = pod'[p]]
    BY <2>2, IdleReads, PodBecomes
  <2> QED BY <2>1, <2>2 DEF Supervise, Rest
<1>2. conn' = [conn EXCEPT ![p] = conn'[p]] /\ conn'[p] \in Account \cup {None}
  BY PodFacts DEF Supervise, Typed
<1> QED BY <1>1, <1>2, PodStep DEF Supervise, Typed

LEMMA ArmTypes == ASSUME Typed, NEW p \in Pod, Arm(p) PROVE Typed'
<1>1. PodWorks(pod'[p]) /\ pod' = [pod EXCEPT ![p] = pod'[p]]
  <2>1. CASE Rest(p)
    BY <2>1, IdleWorks, PodBecomes DEF Rest
  <2>2. CASE pod' = [pod EXCEPT ![p].pc = "connect", ![p].armed = ~queue.retired]
    <3> DEFINE armed == ~queue.retired
               b == [pod[p] EXCEPT !.pc = "connect", !.armed = armed]
    <3>1. pod' = [pod EXCEPT ![p] = b]
      BY <2>2 DEF Typed
    <3>2. armed \in BOOLEAN /\ pod[p] \in PodRecord
      BY PodFacts
    <3> HIDE DEF armed
    <3>3. b \in PodRecord /\ b.pc = "connect"
      BY <3>2, PcNames DEF PodRecord
    <3> HIDE DEF b
    <3> QED BY <3>1, <3>3, PodBecomes DEF PodWorks
  <2> QED BY <2>1, <2>2 DEF Arm
<1>2. queue' \in Row /\ queue'.epoch <= queue'.config
  <2>1. CASE queue' = [queue EXCEPT !.retired = TRUE]
    <3>1. queue'.epoch = queue.epoch /\ queue'.config = queue.config
      BY <2>1 DEF Typed, Row
    <3> QED BY <2>1, <3>1, RowChanges DEF Typed
  <2>2. CASE queue' = queue
    BY <2>2 DEF Typed
  <2> QED BY <2>1, <2>2 DEF Arm
<1>3. conn' = [conn EXCEPT ![p] = conn'[p]] /\ conn'[p] \in Account \cup {None}
  BY PodFacts DEF Arm, Typed
<1> QED BY <1>1, <1>2, <1>3, PodStep DEF Arm, Typed

LEMMA ConnectTypes == ASSUME Typed, NEW p \in Pod, Connect(p) PROVE Typed'
<1> DEFINE b == [pod[p] EXCEPT !.pc = "bootstrap", !.connecting = TRUE]
<1>1. pod' = [pod EXCEPT ![p] = b]
  BY DEF Connect, Typed
<1>a. pod[p] \in PodRecord
  BY PodFacts
<1>3. b \in PodRecord /\ b.pc = "bootstrap"
  BY PcNames, <1>a DEF PodRecord
<1> HIDE DEF b
<1>5. PodWorks(pod'[p]) /\ pod' = [pod EXCEPT ![p] = pod'[p]]
  BY <1>1, <1>3, PodBecomes DEF PodWorks
<1>2. conn' = [conn EXCEPT ![p] = conn'[p]] /\ conn'[p] \in Account \cup {None}
  BY PodFacts DEF Connect, Typed
<1> QED BY <1>5, <1>2, PodStep DEF Connect, Typed

LEMMA BootstrapReadsTypes == ASSUME Typed, NEW p \in Pod, BootstrapReads(p) PROVE Typed'
<1>1. PodWorks(pod'[p]) /\ pod' = [pod EXCEPT ![p] = pod'[p]]
  <2>1. CASE Rest(p)
    BY <2>1, IdleWorks, PodBecomes DEF Rest
  <2>2. CASE Bootstrapped(p)
    <3> DEFINE idle == [IdlePod EXCEPT !.pc = "poll"]
    <3>1. PodWorks(idle)
      BY IdleWorks, PcNames DEF PodWorks, PodRecord
    <3>2. pod' = [pod EXCEPT ![p] = IF pod[p].connecting THEN idle ELSE IdlePod]
      BY <2>2 DEF Bootstrapped
    <3> HIDE DEF idle
    <3> QED BY <3>1, <3>2, IdleWorks, PodBecomes
  <2>3. CASE pod' = [pod EXCEPT ![p].pc = "baseline", ![p].row = queue]
    <3> DEFINE b == [pod[p] EXCEPT !.pc = "baseline", !.row = queue]
    <3>1. pod' = [pod EXCEPT ![p] = b]
      BY <2>3 DEF Typed
    <3>2. pod[p] \in PodRecord /\ queue \in Row
      BY PodFacts DEF Typed
    <3>3. b \in PodRecord /\ b.pc = "baseline"
      BY <3>2, PcNames DEF PodRecord
    <3> HIDE DEF b
    <3> QED BY <3>1, <3>3, PodBecomes DEF PodWorks
  <2> QED BY <2>1, <2>2, <2>3 DEF BootstrapReads, BootstrapThrows
<1>2. conn' = [conn EXCEPT ![p] = conn'[p]] /\ conn'[p] \in Account \cup {None}
  BY PodFacts DEF BootstrapReads, BootstrapThrows, Drop, Typed
<1> QED BY <1>1, <1>2, PodStep DEF BootstrapReads, Typed

LEMMA TakeBaselineTypes == ASSUME Typed, NEW p \in Pod, TakeBaseline(p) PROVE Typed'
<1>1. PodWorks(pod'[p]) /\ pod' = [pod EXCEPT ![p] = pod'[p]]
  <2>1. CASE BootstrapThrows(p)
    BY <2>1, IdleWorks, PodFacts DEF BootstrapThrows, Rest, Typed
  <2>2. CASE Bootstrapped(p)
    BY PcNames, <2>2, IdleWorks, PodFacts DEF Bootstrapped, Typed, PodWorks, PodRecord
  <2>3. ASSUME NEW n \in Backfill, conn[p] # None,
               pod' = [pod EXCEPT ![p].pc = "store", ![p].base = BaselineOf(conn[p], n)]
        PROVE  PodWorks(pod'[p]) /\ pod' = [pod EXCEPT ![p] = pod'[p]]
    <3>1. BaselineOf(conn[p], n) \in Baseline /\ BaselineOf(conn[p], n).from \in Account
      BY <2>3, PodFacts, BaselineFacts
    <3> DEFINE b == [pod[p] EXCEPT !.pc = "store", !.base = BaselineOf(conn[p], n)]
    <3>2. pod' = [pod EXCEPT ![p] = b]
      BY <2>3 DEF Typed
    <3>a. pod[p] \in PodRecord
      BY PodFacts
    <3>3. b \in PodRecord /\ b.pc = "store" /\ b.base = BaselineOf(conn[p], n)
      BY PcNames, <3>1, <3>a DEF PodRecord
    <3> HIDE DEF b
    <3>4. PodWorks(b)
      BY <3>1, <3>3 DEF PodWorks
    <3> QED BY <3>2, <3>4, PodBecomes
  <2> QED BY <2>1, <2>2, <2>3 DEF TakeBaseline
<1>2. conn' = [conn EXCEPT ![p] = conn'[p]] /\ conn'[p] \in Account \cup {None}
  BY PodFacts DEF TakeBaseline, BootstrapThrows, Drop, Typed
<1>3. faults' \in 0..MaxFaults
  BY FaultType DEF TakeBaseline, Typed
<1> QED BY <1>1, <1>2, <1>3, PodStep DEF TakeBaseline, Typed

\* What a baseline puts behind the cursor.
LEMMA SkippedType ==
    ASSUME NEW b \in Baseline, b.from \in Account
    PROVE  /\ Skipped(b) \subseteq Account \X Validity \X Uid
           /\ b.validity \in Validity /\ b.cursor \in 0..MaxUid
BY DEF Skipped, Baseline

LEMMA StoreBaselineTypes == ASSUME Typed, NEW p \in Pod, StoreBaseline(p) PROVE Typed'
<1>1. PodWorks(pod'[p]) /\ pod' = [pod EXCEPT ![p] = pod'[p]]
  BY PcNames, IdleWorks, PodFacts DEF StoreBaseline, Bootstrapped, Typed, PodWorks, PodRecord
<1>2. conn' = [conn EXCEPT ![p] = conn'[p]] /\ conn'[p] \in Account \cup {None}
  BY PodFacts DEF StoreBaseline, Typed
<1>3. pod[p].base \in Baseline /\ pod[p].base.from \in Account
  BY PodFacts DEF StoreBaseline, At, PodWorks
<1>4. /\ Skipped(pod[p].base) \subseteq Account \X Validity \X Uid
      /\ pod[p].base.validity \in Validity /\ pod[p].base.cursor \in 0..MaxUid
  BY <1>3, SkippedType
<1>5. queue' \in Row /\ queue'.epoch <= queue'.config
  <2> DEFINE base == pod[p].base
  <2>1. CASE queue' = [queue EXCEPT !.validity = base.validity, !.cursor = base.cursor]
    <3>1. queue'.epoch = queue.epoch /\ queue'.config = queue.config
      BY <2>1 DEF Typed, Row
    <3> QED BY <2>1, <3>1, <1>4, RowChanges DEF Typed
  <2>2. CASE queue' = queue
    BY <2>2 DEF Typed
  <2> QED BY <2>1, <2>2 DEF StoreBaseline
<1>6. excluded' \subseteq Account \X Validity \X Uid
  BY <1>4 DEF StoreBaseline, Typed
<1> QED BY <1>1, <1>2, <1>5, <1>6, PodStep DEF StoreBaseline, Typed

LEMMA HaltTypes == ASSUME Typed, NEW p \in Pod, Halt(p) PROVE Typed'
<1>1. PodWorks(pod'[p]) /\ pod' = [pod EXCEPT ![p] = pod'[p]]
  BY IdleWorks, PodFacts DEF Halt, Rest, Typed
<1>2. queue' \in Row /\ queue'.epoch <= queue'.config
  BY RowChanges DEF Halt, Halted, Typed, Row, Cause
<1>3. conn' = [conn EXCEPT ![p] = conn'[p]] /\ conn'[p] \in Account \cup {None}
  BY PodFacts DEF Halt, Typed
<1> QED BY <1>1, <1>2, <1>3, PodStep DEF Halt, Typed

\* A UID ends the batch, or is done with.
LEMMA FailedWorks ==
    ASSUME Typed, NEW p \in Pod, NEW u \in 0..MaxUid, Failed(p, u)
    PROVE  PodWorks(pod'[p]) /\ pod' = [pod EXCEPT ![p] = pod'[p]]
<1> DEFINE b == [pod[p] EXCEPT !.pc = "advance", !.failed = u]
<1>1. pod' = [pod EXCEPT ![p] = b]
  BY DEF Failed, Typed
<1>a. pod[p] \in PodRecord
  BY PodFacts
<1>2. b \in PodRecord /\ b.pc = "advance"
  BY PcNames, <1>a DEF PodRecord
<1> HIDE DEF b
<1> QED BY <1>1, <1>2, PodBecomes DEF PodWorks

LEMMA TakenWorks ==
    ASSUME Typed, NEW p \in Pod, NEW u \in 0..MaxUid, Taken(p, u)
    PROVE  PodWorks(pod'[p]) /\ pod' = [pod EXCEPT ![p] = pod'[p]]
<1> DEFINE b == [pod[p] EXCEPT !.pc = "fetch", !.done = u, !.todo = @ \ {u}]
<1>1. pod' = [pod EXCEPT ![p] = b]
  BY DEF Taken, Typed
<1>a. pod[p] \in PodRecord
  BY PodFacts
<1>2. b \in PodRecord /\ b.pc = "fetch"
  BY PcNames, <1>a DEF PodRecord
<1> HIDE DEF b
<1> QED BY <1>1, <1>2, PodBecomes DEF PodWorks

LEMMA FetchedWorks ==
    ASSUME Typed, NEW p \in Pod, NEW u \in Uid, NEW l \in BOOLEAN, Fetched(p, u, l),
           conn[p] # None
    PROVE  PodWorks(pod'[p]) /\ pod' = [pod EXCEPT ![p] = pod'[p]]
<1> DEFINE r == u \in Box(p).replaced
           b == [pod[p] EXCEPT !.pc = IF l THEN "reserve" ELSE "accept", !.now = u,
                               !.from = conn[p], !.large = l, !.replaced = r]
<1>1. r \in BOOLEAN
  OBVIOUS
<1>2. pod' = [pod EXCEPT ![p].pc = IF l THEN "reserve" ELSE "accept", ![p].now = u,
                         ![p].from = conn[p], ![p].large = l, ![p].replaced = r]
  BY DEF Fetched
<1> HIDE DEF r
<1>3. pod' = [pod EXCEPT ![p] = b] /\ r \in BOOLEAN
  BY <1>1, <1>2 DEF Typed
<1>4. conn[p] \in Account /\ u \in 0..MaxUid
  BY PodFacts, BoundAssumption DEF Uid
<1> DEFINE pc == IF l THEN "reserve" ELSE "accept"
<1>a. pod[p] \in PodRecord /\ pc \in PodPc /\ pc \in {"reserve", "accept"}
  BY PodFacts, PcNames
<1> HIDE DEF pc
<1>b. [pod[p] EXCEPT !.pc = pc, !.now = u, !.from = conn[p], !.large = l, !.replaced = r] \in PodRecord
  BY <1>a, <1>3, <1>4 DEF PodRecord
<1>c. b = [pod[p] EXCEPT !.pc = pc, !.now = u, !.from = conn[p], !.large = l, !.replaced = r]
  BY DEF pc
<1>5. b \in PodRecord /\ b.pc \in {"reserve", "accept"} /\ b.now = u /\ b.from = conn[p]
  BY <1>a, <1>b, <1>c DEF PodRecord
<1> HIDE DEF b
<1>6. PodWorks(b)
  BY <1>4, <1>5 DEF PodWorks
<1> QED BY <1>3, <1>6, PodBecomes

LEMMA FetchTypes == ASSUME Typed, NEW p \in Pod, Fetch(p) PROVE Typed'
<1>1. PodWorks(pod'[p]) /\ pod' = [pod EXCEPT ![p] = pod'[p]]
  <2>1. CASE pod[p].todo = {} /\ Go(p, "advance")
    <3> DEFINE b == [pod[p] EXCEPT !.pc = "advance"]
    <3>1. pod' = [pod EXCEPT ![p] = b]
      BY <2>1 DEF Go, Typed
    <3>a. pod[p] \in PodRecord
      BY PodFacts
    <3>2. b \in PodRecord /\ b.pc = "advance"
      BY PcNames, <3>a DEF PodRecord
    <3> HIDE DEF b
    <3> QED BY <3>1, <3>2, PodBecomes DEF PodWorks
  <2>2. CASE pod[p].todo # {}
    <3> DEFINE u == Smallest(pod[p].todo)
    <3>1. u \in Uid /\ u \in 0..MaxUid
      BY <2>2, PodFacts, FirstUid, BoundAssumption DEF Uid
    <3> HIDE DEF u
    <3>2. CASE Failed(p, u)
      BY <3>1, <3>2, FailedWorks
    <3>3. CASE Taken(p, u)
      BY <3>1, <3>3, TakenWorks
    <3>4. ASSUME NEW l \in BOOLEAN, Fetched(p, u, l)
          PROVE  PodWorks(pod'[p]) /\ pod' = [pod EXCEPT ![p] = pod'[p]]
      BY <3>1, <3>4, FetchedWorks DEF Fetch
    <3> QED BY <2>2, <3>2, <3>3, <3>4 DEF Fetch, u
  <2> QED BY <2>1, <2>2 DEF Fetch
<1>2. conn' = [conn EXCEPT ![p] = conn'[p]] /\ conn'[p] \in Account \cup {None}
  BY PodFacts DEF Fetch, Typed
<1> QED BY PcNames, <1>1, <1>2, PodStep DEF Fetch, Typed

LEMMA ConnectFailsTypes == ASSUME Typed, NEW p \in Pod, ConnectFails(p) PROVE Typed'
BY IdleWorks, BoundAssumption
DEF Typed, ConnectFails, At, Go, Rest, Drop, Fault, PodWorks, PodRecord

LEMMA PollTypes == ASSUME Typed, NEW p \in Pod, Poll(p) PROVE Typed'
<1>1. PodWorks(pod'[p]) /\ pod' = [pod EXCEPT ![p] = pod'[p]]
  <2>1. CASE Rest(p)
    BY <2>1, IdleWorks, PodBecomes DEF Rest
  <2>2. ASSUME NEW pc \in {"bootstrap", "open"},
               pod' = [pod EXCEPT ![p] = [IdlePod EXCEPT !.pc = pc, !.row = queue]]
        PROVE  PodWorks(pod'[p]) /\ pod' = [pod EXCEPT ![p] = pod'[p]]
    <3>1. [IdlePod EXCEPT !.pc = pc, !.row = queue] = [IdlePod EXCEPT !.row = queue, !.pc = pc]
      BY DEF IdlePod
    <3> QED BY <2>2, <3>1, IdleReads, PodBecomes
  <2> QED BY <2>1, <2>2 DEF Poll, Rest
<1>2. conn' = [conn EXCEPT ![p] = conn'[p]] /\ conn'[p] \in Account \cup {None}
  BY PodFacts DEF Poll, Typed
<1> QED BY <1>1, <1>2, PodStep DEF Poll, Typed

LEMMA DiscoverTypes == ASSUME Typed, NEW p \in Pod, Discover(p) PROVE Typed'
<1>1. PodWorks(pod'[p]) /\ pod' = [pod EXCEPT ![p] = pod'[p]]
  <2>1. CASE Go(p, "halt")
    <3> DEFINE b == [pod[p] EXCEPT !.pc = "halt"]
    <3>1. pod' = [pod EXCEPT ![p] = b]
      BY <2>1 DEF Go, Typed
    <3>a. pod[p] \in PodRecord
      BY PodFacts
    <3>2. b \in PodRecord /\ b.pc = "halt"
      BY PcNames, <3>a DEF PodRecord
    <3> HIDE DEF b
    <3> QED BY <3>1, <3>2, PodBecomes DEF PodWorks
  <2>2. CASE ~Go(p, "halt")
    <3> DEFINE last == pod[p].row.cursor
               todo == {u \in Box(p).mail : u > last}
               b == [pod[p] EXCEPT !.pc = "fetch", !.done = last, !.todo = todo]
    <3>1. pod' = [pod EXCEPT ![p].pc = "fetch", ![p].done = last, ![p].todo = todo]
      BY <2>2 DEF Discover, Listed
    <3>2. Box(p).mail \subseteq Uid
      BY PodFacts DEF Discover, Box, Mailbox
    <3>3. last \in 0..MaxUid /\ todo \in SUBSET Uid
      BY <3>2, PodFacts, RowFacts
    <3> HIDE DEF last, todo
    <3>4. pod' = [pod EXCEPT ![p] = b]
      BY <3>1 DEF Typed
    <3>a. pod[p] \in PodRecord
      BY PodFacts
    <3>5. b \in PodRecord /\ b.pc = "fetch"
      BY <3>3, <3>a, PcNames DEF PodRecord
    <3> HIDE DEF b
    <3> QED BY <3>4, <3>5, PodBecomes DEF PodWorks
  <2> QED BY <2>1, <2>2
<1>2. conn' = [conn EXCEPT ![p] = conn'[p]] /\ conn'[p] \in Account \cup {None}
  BY PodFacts DEF Discover, Typed
<1> QED BY <1>1, <1>2, PodStep DEF Discover, Typed

LEMMA GoWorks ==
    ASSUME Typed, NEW p \in Pod, NEW pc \in {"advance", "accept"}, Go(p, pc),
           pc = "accept" => pod[p].pc = "reserve"
    PROVE  PodWorks(pod'[p]) /\ pod' = [pod EXCEPT ![p] = pod'[p]]
<1> DEFINE b == [pod[p] EXCEPT !.pc = pc]
<1>1. pod' = [pod EXCEPT ![p] = b]
  BY DEF Go, Typed
<1>a. pod[p] \in PodRecord
  BY PodFacts
<1>2. b \in PodRecord /\ b.pc = pc /\ b.now = pod[p].now /\ b.from = pod[p].from
  BY PcNames, <1>a DEF PodRecord
<1>3. pc = "accept" => pod[p].now \in Uid /\ pod[p].from \in Account
  BY PodFacts DEF PodWorks
<1> HIDE DEF b
<1> QED BY <1>1, <1>2, <1>3, PodBecomes DEF PodWorks

LEMMA ReserveTypes == ASSUME Typed, NEW p \in Pod, Reserve(p) PROVE Typed'
<1>1. PodWorks(pod'[p]) /\ pod' = [pod EXCEPT ![p] = pod'[p]]
  <2>1. pod[p].now \in 0..MaxUid
    BY PodFacts
  <2> QED BY <2>1, GoWorks, FailedWorks DEF Reserve, At
<1>2. conn' = [conn EXCEPT ![p] = conn'[p]] /\ conn'[p] \in Account \cup {None}
  BY PodFacts DEF Reserve, Typed
<1>3. stages' \subseteq Pod
  BY DEF Reserve, Typed
<1> QED BY PcNames, <1>1, <1>2, <1>3, PodStep DEF Reserve, Typed

LEMMA LinkFailsTypes == ASSUME Typed, NEW p \in Pod, LinkFails(p) PROVE Typed'
BY IdleWorks, BoundAssumption
DEF Typed, LinkFails, At, Go, Rest, Drop, Fault, PodWorks, PodRecord

LEMMA LinkIsGoneTypes == ASSUME Typed, NEW p \in Pod, LinkIsGone(p) PROVE Typed'
<1>1. PodWorks(pod'[p]) /\ pod' = [pod EXCEPT ![p] = pod'[p]]
  <2>1. CASE Rest(p)
    BY <2>1, IdleWorks, PodBecomes DEF Rest
  <2>2. CASE Go(p, "advance")
    BY <2>2, GoWorks
  <2>3. CASE pod[p].todo # {} /\ Failed(p, Smallest(pod[p].todo))
    <3>1. Smallest(pod[p].todo) \in 0..MaxUid
      BY <2>3, PodFacts, FirstUid, BoundAssumption DEF Uid
    <3> QED BY <2>3, <3>1, FailedWorks
  <2> QED BY <2>1, <2>2, <2>3 DEF LinkIsGone
<1>2. conn' = [conn EXCEPT ![p] = conn'[p]] /\ conn'[p] \in Account \cup {None}
  BY PodFacts DEF LinkIsGone, Typed
<1> QED BY <1>1, <1>2, PodStep DEF LinkIsGone, Typed

LEMMA CrashTypes == ASSUME Typed, NEW p \in Pod, Crash(p) PROVE Typed'
<1>1. pod' \in [Pod -> PodRecord] /\ \A q \in Pod : PodWorks(pod'[q])
  BY IdleWorks, PodChanges DEF Crash, Rest, Typed
<1>2. \A q \in Pod : PodWorks(pod[q])'
  BY <1>1 DEF PodWorks
<1>3. conn' \in [Pod -> Account \cup {None}] /\ mode' \in [Pod -> {"normal", "capture"}]
      /\ faults' \in 0..MaxFaults
  BY FaultType DEF Crash, Drop, Typed
<1> QED BY PcNames, <1>1, <1>2, <1>3 DEF Crash, Typed, OpWorks

LEMMA ReapTypes == ASSUME Typed, NEW p \in Pod, Reap(p) PROVE Typed'
BY IdleWorks, BoundAssumption
DEF Typed, Reap, At, Go, Rest, Drop, Fault, PodWorks, PodRecord

LEMMA AcceptTypes == ASSUME Typed, NEW p \in Pod, Accept(p) PROVE Typed'
<1> DEFINE u == pod[p].now
           delivery == [epoch |-> pod[p].row.epoch, validity |-> pod[p].row.validity, uid |-> u,
                        from |-> pod[p].from, replaced |-> pod[p].replaced,
                        state |-> IF Capture(p) THEN "CAPTURED" ELSE "ACCEPTED"]
<1>1. PodWorks(pod'[p]) /\ pod' = [pod EXCEPT ![p] = pod'[p]]
  <2>1. u \in 0..MaxUid
    BY PodFacts
  <2>2. Failed(p, u) \/ Taken(p, u)
    BY DEF Accept
  <2> QED BY <2>1, <2>2, FailedWorks, TakenWorks
<1>2. conn' = [conn EXCEPT ![p] = conn'[p]] /\ conn'[p] \in Account \cup {None}
  BY PodFacts DEF Accept, Typed
<1>3. delivery \in Delivery
  <2>1. u \in Uid /\ pod[p].from \in Account
    BY PodFacts DEF Accept, At, PodWorks
  <2>2. /\ pod[p].row.epoch \in 0..MaxConfig /\ pod[p].row.validity \in Validity
        /\ pod[p].replaced \in BOOLEAN
    BY PodFacts, RowFacts
  <2> QED BY <2>1, <2>2 DEF Delivery
<1> HIDE DEF delivery
<1>4. queue' \in {queue, [queue EXCEPT !.enabled = ~Capture(p)], Halted(queue, "TRANSPORT_COLLISION")}
  BY DEF Accept
<1>5. queue' \in Row /\ queue'.epoch <= queue'.config
  <2>1. queue' \in Row
    BY <1>4, RowChanges DEF Typed, Cause, Capture
  <2>2. queue'.epoch = queue.epoch /\ queue'.config = queue.config
    BY <1>4 DEF Typed, Row, Halted
  <2> QED BY <2>1, <2>2 DEF Typed
<1>6. ledger' \subseteq Delivery /\ stages' \subseteq Pod
  <2>1. ledger' \in {ledger, ledger \cup {delivery}}
    BY DEF Accept, delivery
  <2> QED BY <2>1, <1>3 DEF Accept, Typed
<1>7. faults' \in 0..MaxFaults
  BY FaultType DEF Accept, Typed
<1> QED BY <1>1, <1>2, <1>5, <1>6, <1>7, PodStep DEF Accept, Typed

LEMMA FrontierType == ASSUME Typed, NEW p \in Pod PROVE Frontier(p) \in 0..MaxUid /\ Frontier(p) <= pod[p].done
<1>1. pod[p].done \in 0..MaxUid /\ pod[p].failed \in 0..MaxUid
  BY PodFacts
<1> QED BY <1>1, BoundAssumption DEF Frontier, Least

LEMMA AdvanceTypes == ASSUME Typed, NEW p \in Pod, Advance(p) PROVE Typed'
<1>1. PodWorks(pod'[p]) /\ pod' = [pod EXCEPT ![p] = pod'[p]]
  BY IdleWorks, PodBecomes DEF Advance, Rest
<1>2. queue' \in {queue, [queue EXCEPT !.cursor = Frontier(p)]}
  BY DEF Advance
<1>3. queue' \in Row /\ queue'.epoch <= queue'.config
  <2>1. queue'.epoch = queue.epoch /\ queue'.config = queue.config
    BY <1>2 DEF Typed, Row
  <2>2. Frontier(p) \in 0..MaxUid
    BY FrontierType
  <2>3. [queue EXCEPT !.cursor = Frontier(p)] \in Row
    BY <2>2, RowChanges
  <2> QED BY <1>2, <2>1, <2>3 DEF Typed
<1>4. conn' = [conn EXCEPT ![p] = conn'[p]] /\ conn'[p] \in Account \cup {None}
  BY PodFacts DEF Advance, Typed
<1> QED BY <1>1, <1>3, <1>4, PodStep DEF Advance, Typed

\* The mailboxes: what a step that is not of a process leaves typed.
LEMMA BoxChanges ==
    ASSUME Typed, NEW a \in Account, NEW b \in Mailbox, server' = [server EXCEPT ![a] = b],
           UNCHANGED <<queue, legacy, ledger, stages, mode, pod, op, excluded>>,
           conn' \in [Pod -> Account \cup {None}], faults' \in 0..MaxFaults
    PROVE  Typed'
BY DEF Typed, PodWorks, OpWorks

LEMMA DeliverTypes == ASSUME Typed, NEW a \in Account, Deliver(a) PROVE Typed'
<1>1. server[a] \in Mailbox
  BY DEF Typed
<1>2. /\ server[a].next \in 1..(MaxUid + 1) /\ server[a].next <= MaxUid
      /\ server[a].mail \in SUBSET Uid
  BY <1>1 DEF Mailbox, Deliver
<1>3. server[a].next \in Uid /\ server[a].next + 1 \in 1..(MaxUid + 1)
  BY <1>2, BoundAssumption DEF Uid
<1> DEFINE b == [server[a] EXCEPT !.mail = @ \cup {server[a].next}, !.next = @ + 1]
<1>4. b \in Mailbox
  BY <1>1, <1>2, <1>3 DEF Mailbox
<1>5. server' = [server EXCEPT ![a] = b]
  BY DEF Deliver, Typed
<1> QED BY <1>4, <1>5, BoxChanges DEF Deliver, Typed

LEMMA ExpungeTypes == ASSUME Typed, NEW a \in Account, NEW u \in Uid, Expunge(a, u) PROVE Typed'
<1> DEFINE b == [server[a] EXCEPT !.mail = @ \ {u}]
<1>1. b \in Mailbox
  BY DEF Typed, Mailbox
<1>2. server' = [server EXCEPT ![a] = b]
  BY DEF Expunge, Typed
<1>3. faults' \in 0..MaxFaults
  BY FaultType DEF Expunge
<1> QED BY <1>1, <1>2, <1>3, BoxChanges DEF Expunge, Typed

LEMMA ReplaceTypes == ASSUME Typed, NEW a \in Account, NEW u \in Uid, Replace(a, u) PROVE Typed'
<1> DEFINE b == [server[a] EXCEPT !.replaced = @ \cup {u}]
<1>1. b \in Mailbox
  BY DEF Typed, Mailbox
<1>2. server' = [server EXCEPT ![a] = b]
  BY DEF Replace, Typed
<1> QED BY <1>1, <1>2, BoxChanges DEF Replace, Typed

LEMMA RenumberTypes == ASSUME Typed, NEW a \in Account, Renumber(a) PROVE Typed'
<1> DEFINE n == Cardinality(server[a].mail)
           later == {v \in Validities[a] : v > server[a].validity}
           b == [validity |-> Smallest(later), next |-> n + 1, mail |-> 1..n, replaced |-> {}]
<1>1. n \in 0..MaxUid
  <2>1. server[a].mail \subseteq 1..MaxUid
    BY DEF Typed, Mailbox, Uid
  <2>2. IsFiniteSet(1..MaxUid) /\ Cardinality(1..MaxUid) = MaxUid
    <3>1. IsFiniteSet(1..MaxUid) /\ Cardinality(1..MaxUid) = IF 1 > MaxUid THEN 0 ELSE MaxUid - 1 + 1
      BY BoundAssumption, FS_Interval
    <3> QED BY <3>1, BoundAssumption
  <2>3. IsFiniteSet(server[a].mail) /\ n <= MaxUid
    BY <2>1, <2>2, FS_Subset
  <2> QED BY <2>3, FS_CardinalityType, BoundAssumption
<1>2. Smallest(later) \in Validity
  BY FirstValidity DEF Renumber
<1> HIDE DEF n, later
<1>3. b \in Mailbox
  <2>1. 1..n \in SUBSET Uid /\ n + 1 \in 1..(MaxUid + 1)
    BY <1>1, BoundAssumption DEF Uid
  <2> QED BY <1>2, <2>1 DEF Mailbox
<1>4. server' = [server EXCEPT ![a] = b]
  BY DEF Renumber, n, later
<1>5. faults' \in 0..MaxFaults
  BY FaultType DEF Renumber
<1>6. conn' \in [Pod -> Account \cup {None}]
  BY DEF Renumber, Typed
<1> QED BY <1>3, <1>4, <1>5, <1>6, BoxChanges DEF Renumber, Typed

\* The operators' steps: of the row and of one reconcile.
LEMMA QueueStep ==
    ASSUME Typed, queue' \in Row, queue'.epoch <= queue'.config,
           op' \in [Operator -> OpRecord], \A o \in Operator : OpWorks(op'[o]),
           excluded' \subseteq Account \X Validity \X Uid, faults' \in 0..MaxFaults,
           UNCHANGED <<legacy, ledger, stages, server, mode, conn, pod>>
    PROVE  Typed'
<1>1. \A o \in Operator : OpWorks(op[o])'
  BY DEF OpWorks
<1> QED BY <1>1 DEF Typed, PodWorks

LEMMA OpsStay ==
    ASSUME Typed, op' = op
    PROVE  op' \in [Operator -> OpRecord] /\ \A o \in Operator : OpWorks(op'[o])
BY DEF Typed

LEMMA ChangeMailboxTypes == ASSUME Typed, NEW a \in Account, ChangeMailbox(a) PROVE Typed'
<1>1. /\ queue.config \in Nat /\ queue.config + 1 <= MaxConfig /\ queue.gen + 1 \in 0..MaxGen
      /\ queue.epoch \in Nat /\ queue.epoch <= queue.config
  BY BoundAssumption DEF ChangeMailbox, Editable, Typed, Row
<1>2. /\ queue.epoch + 1 \in 0..MaxConfig /\ queue.config + 1 \in 0..MaxConfig
      /\ 0 \in Validity /\ 0 \in 0..MaxUid
  BY <1>1, ValidityFacts, BoundAssumption
<1>3. queue' = [queue EXCEPT !.sync = "NEEDS", !.cause = "MAILBOX_IDENTITY_CHANGED",
                             !.account = a, !.validity = 0, !.cursor = 0,
                             !.epoch = @ + 1, !.gen = @ + 1, !.config = @ + 1]
  BY DEF ChangeMailbox, Halted, Typed, Row
<1>4. queue' \in Row
  BY <1>1, <1>2, <1>3 DEF Typed, Row, Cause
<1>5. queue'.epoch <= queue'.config
  BY <1>1, <1>3 DEF Typed, Row
<1> QED BY <1>4, <1>5, OpsStay, QueueStep DEF ChangeMailbox, Typed

LEMMA SwitchTypes == ASSUME Typed, Switch PROVE Typed'
<1>1. queue.config + 1 \in 0..MaxConfig
  BY BoundAssumption DEF Switch, Editable, Typed, Row
<1>2. queue' = [queue EXCEPT !.enabled = ~queue.enabled, !.config = queue.config + 1]
  BY DEF Switch
<1>3. queue' \in Row /\ queue'.epoch = queue.epoch /\ queue'.config = queue.config + 1
  BY <1>1, <1>2 DEF Typed, Row
<1>4. queue'.epoch <= queue'.config
  BY <1>3, RowFacts, BoundAssumption DEF Typed
<1> QED BY <1>3, <1>4, OpsStay, QueueStep DEF Switch, Typed

LEMMA BeginReconcileTypes == ASSUME Typed, NEW o \in Operator, BeginReconcile(o) PROVE Typed'
<1> DEFINE row == [queue EXCEPT !.sync = "BOOTSTRAPPING", !.gen = @ + 1, !.validity = 0, !.cursor = 0]
<1>1. queue.gen + 1 \in 0..MaxGen /\ 0 \in Validity /\ 0 \in 0..MaxUid
  BY ValidityFacts, BoundAssumption DEF BeginReconcile, Reconcilable, Typed, Row
<1>2. row \in Row /\ row.epoch = queue.epoch /\ row.config = queue.config
  BY <1>1 DEF Typed, Row
<1>3. queue' = row /\ op' = [op EXCEPT ![o] = [IdleOp EXCEPT !.pc = "baseline", !.row = row]]
  BY DEF BeginReconcile
<1> HIDE DEF row
<1> DEFINE b == [IdleOp EXCEPT !.pc = "baseline", !.row = row]
<1>4. b \in OpRecord /\ b.pc = "baseline"
  BY <1>2, FreshRowType DEF OpRecord, IdleOp
<1> HIDE DEF b
<1>5. op' = [op EXCEPT ![o] = b]
  BY <1>3 DEF b
<1>6. op' \in [Operator -> OpRecord] /\ \A x \in Operator : OpWorks(op'[x])
  BY <1>4, <1>5, OpChanges DEF Typed, OpWorks
<1> QED BY <1>2, <1>3, <1>6, QueueStep DEF BeginReconcile, Typed

\* The fields of a reconcile.
LEMMA OpFacts ==
    ASSUME Typed, NEW o \in Operator
    PROVE  /\ op[o] \in OpRecord /\ op[o].row \in Row /\ op[o].base \in Baseline
           /\ op[o].row.account \in Account /\ server[op[o].row.account] \in Mailbox
BY RowFacts DEF Typed, OpRecord

LEMMA ReconcileBaselineTypes == ASSUME Typed, NEW o \in Operator, ReconcileBaseline(o) PROVE Typed'
<1>1. op' \in [Operator -> OpRecord] /\ \A x \in Operator : OpWorks(op'[x])
  <2>1. ASSUME NEW n \in Backfill,
               op' = [op EXCEPT ![o].pc = "complete", ![o].base = BaselineOf(op[o].row.account, n)]
        PROVE  op' \in [Operator -> OpRecord] /\ \A x \in Operator : OpWorks(op'[x])
    <3> DEFINE base == BaselineOf(op[o].row.account, n)
               b == [op[o] EXCEPT !.pc = "complete", !.base = base]
    <3>1. base \in Baseline /\ base.from = op[o].row.account
      BY OpFacts, BaselineFacts
    <3> HIDE DEF base
    <3>2. op' = [op EXCEPT ![o] = b]
      BY <2>1 DEF Typed, base
    <3>3. b \in OpRecord /\ b.base = base /\ b.row = op[o].row
      BY <3>1, OpFacts DEF OpRecord
    <3> HIDE DEF b
    <3> QED BY <3>1, <3>2, <3>3, OpChanges DEF Typed, OpWorks
  <2>2. CASE op' = [op EXCEPT ![o].pc = "fail"]
    <3> DEFINE b == [op[o] EXCEPT !.pc = "fail"]
    <3>1. op' = [op EXCEPT ![o] = b]
      BY <2>2 DEF Typed
    <3>2. b \in OpRecord /\ b.pc = "fail"
      BY OpFacts DEF OpRecord
    <3> HIDE DEF b
    <3> QED BY <3>1, <3>2, OpChanges DEF Typed, OpWorks
  <2> QED BY <2>1, <2>2 DEF ReconcileBaseline
<1> QED BY <1>1, QueueStep DEF ReconcileBaseline, Typed

LEMMA OpRests ==
    ASSUME Typed, NEW o \in Operator, op' = [op EXCEPT ![o] = IdleOp]
    PROVE  op' \in [Operator -> OpRecord] /\ \A x \in Operator : OpWorks(op'[x])
BY IdleWorks, OpChanges DEF Typed

LEMMA CompleteReconcileTypes == ASSUME Typed, NEW o \in Operator, CompleteReconcile(o) PROVE Typed'
<1> DEFINE base == op[o].base
<1>1. base \in Baseline /\ base.from \in Account
  BY OpFacts DEF CompleteReconcile, Typed, OpWorks
<1>2. /\ Skipped(base) \subseteq Account \X Validity \X Uid
      /\ base.validity \in Validity /\ base.cursor \in 0..MaxUid
  BY <1>1, SkippedType
<1>3. queue' \in Row /\ queue'.epoch <= queue'.config
  <2>1. CASE queue' = [queue EXCEPT !.validity = base.validity, !.cursor = base.cursor,
                                    !.sync = "OK", !.cause = "none"]
    BY <2>1, <1>2 DEF Typed, Row, Cause
  <2>2. CASE queue' = queue
    BY <2>2 DEF Typed
  <2> QED BY <2>1, <2>2 DEF CompleteReconcile
<1>4. excluded' \subseteq Account \X Validity \X Uid
  BY <1>2 DEF CompleteReconcile, Typed
<1>5. op' \in [Operator -> OpRecord] /\ \A x \in Operator : OpWorks(op'[x])
  BY OpRests DEF CompleteReconcile
<1> QED BY <1>3, <1>4, <1>5, QueueStep DEF CompleteReconcile, Typed

LEMMA FailReconcileTypes == ASSUME Typed, NEW o \in Operator, FailReconcile(o) PROVE Typed'
<1>1. queue' \in Row /\ queue'.epoch <= queue'.config
  BY DEF FailReconcile, Typed, Row
<1>2. op' \in [Operator -> OpRecord] /\ \A x \in Operator : OpWorks(op'[x])
  BY OpRests DEF FailReconcile
<1> QED BY <1>1, <1>2, QueueStep DEF FailReconcile, Typed

LEMMA AbandonReconcileTypes == ASSUME Typed, NEW o \in Operator, AbandonReconcile(o) PROVE Typed'
<1>1. op' \in [Operator -> OpRecord] /\ \A x \in Operator : OpWorks(op'[x])
  BY OpRests DEF AbandonReconcile
<1>2. faults' \in 0..MaxFaults
  BY FaultType DEF AbandonReconcile
<1> QED BY <1>1, <1>2, QueueStep DEF AbandonReconcile, Typed

\* The old program's cursor: behind its watermark, and before what it left pending.
LEMMA ResumeCursorFacts ==
    ASSUME Typed
    PROVE  /\ ResumeCursor \in 0..MaxUid /\ ResumeCursor <= legacy.watermark
           /\ \A u \in legacy.pending : ResumeCursor < u
<1>1. legacy.watermark \in 0..MaxUid /\ legacy.pending \in SUBSET Uid
  BY DEF Typed
<1>2. CASE legacy.pending = {}
  BY <1>1, <1>2, BoundAssumption DEF ResumeCursor
<1>3. CASE legacy.pending # {}
  <2> DEFINE first == Smallest(legacy.pending)
  <2>1. first \in Uid /\ first - 1 \in 0..MaxUid /\ \A u \in legacy.pending : first <= u
    BY <1>1, <1>3, FirstUid
  <2>2. ResumeCursor = Least(legacy.watermark, first - 1)
    BY <1>3 DEF ResumeCursor
  <2> HIDE DEF first
  <2> QED BY <1>1, <2>1, <2>2, BoundAssumption DEF Least, Uid
<1> QED BY <1>2, <1>3

LEMMA ResumeMigratedTypes == ASSUME Typed, ResumeMigrated PROVE Typed'
<1>1. /\ legacy.validity \in Validity /\ legacy.watermark \in 0..MaxUid
      /\ queue.gen + 1 \in 0..MaxGen /\ queue.account \in Account
  BY BoundAssumption DEF ResumeMigrated, Reconcilable, Typed, Row
<1>2. queue' \in Row /\ queue'.epoch <= queue'.config
  BY <1>1, ResumeCursorFacts DEF ResumeMigrated, Typed, Row, Cause
<1>3. excluded' \subseteq Account \X Validity \X Uid
  <2>1. \A u \in 1..legacy.watermark : u \in Uid
    BY <1>1, BoundAssumption DEF Uid
  <2> QED BY <1>1, <2>1 DEF ResumeMigrated, Typed
<1> QED BY <1>2, <1>3, OpsStay, QueueStep DEF ResumeMigrated, Typed

LEMMA TypeInit == Init => Typed
<1> SUFFICES ASSUME Init PROVE Typed
  OBVIOUS
<1>1. queue \in Row /\ queue.epoch <= queue.config
  BY FreshRowType DEF Init
<1>2. \A a \in Account : Smallest(Validities[a]) \in Validity
  BY ValidityFacts, FirstValidity
<1>3. OldMail \in 0..MaxUid /\ OldMail + 1 \in 1..(MaxUid + 1) /\ 1..OldMail \in SUBSET Uid
  BY BoundAssumption DEF Uid
<1>4. legacy \in [validity: Validity, watermark: 0..MaxUid, pending: SUBSET Uid]
  <2>1. PICK m \in SUBSET (1..OldMail) :
          legacy = [validity |-> Smallest(Validities[Home]), watermark |-> OldMail, pending |-> m]
    BY DEF Init
  <2> QED BY <2>1, <1>2, <1>3, HomeAssumption
<1>5. server \in [Account -> Mailbox]
  BY <1>2, <1>3 DEF Init, Mailbox
<1>6. pod \in [Pod -> PodRecord] /\ \A p \in Pod : PodWorks(pod[p])
  BY IdleWorks DEF Init, PodWorks
<1>7. op \in [Operator -> OpRecord] /\ \A o \in Operator : OpWorks(op[o])
  BY IdleWorks DEF Init, OpWorks
<1> QED BY <1>1, <1>4, <1>5, <1>6, <1>7, BoundAssumption DEF Init, Typed

LEMMA TypeNext == Typed /\ [Next]_vars => Typed'
<1> SUFFICES ASSUME Typed, [Next]_vars PROVE Typed'
  OBVIOUS
<1>1. ASSUME NEW p \in Pod, Supervise(p) PROVE Typed'
  BY <1>1, SuperviseTypes
<1>2. ASSUME NEW p \in Pod, Arm(p) PROVE Typed'
  BY <1>2, ArmTypes
<1>3. ASSUME NEW p \in Pod, Connect(p) PROVE Typed'
  BY <1>3, ConnectTypes
<1>4. ASSUME NEW p \in Pod, BootstrapReads(p) PROVE Typed'
  BY <1>4, BootstrapReadsTypes
<1>5. ASSUME NEW p \in Pod, TakeBaseline(p) PROVE Typed'
  BY <1>5, TakeBaselineTypes
<1>6. ASSUME NEW p \in Pod, StoreBaseline(p) PROVE Typed'
  BY <1>6, StoreBaselineTypes
<1>7. ASSUME NEW p \in Pod, Poll(p) PROVE Typed'
  BY <1>7, PollTypes
<1>8. ASSUME NEW p \in Pod, Discover(p) PROVE Typed'
  BY <1>8, DiscoverTypes
<1>9. ASSUME NEW p \in Pod, Halt(p) PROVE Typed'
  BY <1>9, HaltTypes
<1>10. ASSUME NEW p \in Pod, Fetch(p) PROVE Typed'
  BY <1>10, FetchTypes
<1>11. ASSUME NEW p \in Pod, Reserve(p) PROVE Typed'
  BY <1>11, ReserveTypes
<1>12. ASSUME NEW p \in Pod, Accept(p) PROVE Typed'
  BY <1>12, AcceptTypes
<1>13. ASSUME NEW p \in Pod, Advance(p) PROVE Typed'
  BY <1>13, AdvanceTypes
<1>14. ASSUME NEW p \in Pod, LinkIsGone(p) PROVE Typed'
  BY <1>14, LinkIsGoneTypes
<1>15. ASSUME NEW p \in Pod, ConnectFails(p) PROVE Typed'
  BY <1>15, ConnectFailsTypes
<1>16. ASSUME NEW p \in Pod, LinkFails(p) PROVE Typed'
  BY <1>16, LinkFailsTypes
<1>17. ASSUME NEW p \in Pod, Crash(p) PROVE Typed'
  BY <1>17, CrashTypes
<1>18. ASSUME NEW p \in Pod, Reap(p) PROVE Typed'
  BY <1>18, ReapTypes
<1>19. ASSUME NEW a \in Account, Deliver(a) PROVE Typed'
  BY <1>19, DeliverTypes
<1>20. ASSUME NEW a \in Account, Renumber(a) PROVE Typed'
  BY <1>20, RenumberTypes
<1>21. ASSUME NEW a \in Account, ChangeMailbox(a) PROVE Typed'
  BY <1>21, ChangeMailboxTypes
<1>22. ASSUME NEW a \in Account, NEW u \in Uid, Expunge(a, u) PROVE Typed'
  BY <1>22, ExpungeTypes
<1>23. ASSUME NEW a \in Account, NEW u \in Uid, Replace(a, u) PROVE Typed'
  BY <1>23, ReplaceTypes
<1>24. CASE Switch
  BY <1>24, SwitchTypes
<1>25. CASE ResumeMigrated
  BY <1>25, ResumeMigratedTypes
<1>26. ASSUME NEW o \in Operator, BeginReconcile(o) PROVE Typed'
  BY <1>26, BeginReconcileTypes
<1>27. ASSUME NEW o \in Operator, ReconcileBaseline(o) PROVE Typed'
  BY <1>27, ReconcileBaselineTypes
<1>28. ASSUME NEW o \in Operator, CompleteReconcile(o) PROVE Typed'
  BY <1>28, CompleteReconcileTypes
<1>29. ASSUME NEW o \in Operator, FailReconcile(o) PROVE Typed'
  BY <1>29, FailReconcileTypes
<1>30. ASSUME NEW o \in Operator, AbandonReconcile(o) PROVE Typed'
  BY <1>30, AbandonReconcileTypes
<1>31. CASE UNCHANGED vars
  BY <1>31 DEF vars, Typed, PodWorks, OpWorks
<1> QED BY <1>1, <1>2, <1>3, <1>4, <1>5, <1>6, <1>7, <1>8, <1>9, <1>10, <1>11,
           <1>12, <1>13, <1>14, <1>15, <1>16, <1>17, <1>18, <1>19, <1>20, <1>21,
           <1>22, <1>23, <1>24, <1>25, <1>26, <1>27, <1>28, <1>29, <1>30, <1>31 DEF Next, Step

\* The actions by whose they are; only a poll that lists a mailbox adds to the history.
PodAction(p) == Step(p) \/ ConnectFails(p) \/ LinkFails(p) \/ Crash(p)
OpAction(o) ==
    \/ BeginReconcile(o) \/ ReconcileBaseline(o) \/ CompleteReconcile(o)
    \/ FailReconcile(o) \/ AbandonReconcile(o)
RowAction == Switch \/ ResumeMigrated \/ \E a \in Account : ChangeMailbox(a)
BoxAction ==
    \/ \E a \in Account : Deliver(a) \/ Renumber(a)
    \/ \E a \in Account, u \in Uid : Expunge(a, u) \/ Replace(a, u)

LEMMA Actions ==
    ASSUME [Next]_vars
    PROVE  \/ \E p \in Pod : PodAction(p) \/ Reap(p)
           \/ \E o \in Operator : OpAction(o)
           \/ RowAction \/ BoxAction \/ UNCHANGED vars
BY DEF Next, PodAction, OpAction, RowAction, BoxAction

LEMMA OnlyPollsCross ==
    ASSUME [Next]_vars, crossed' # crossed PROVE \E p \in Pod : Discover(p)
<1>1. ASSUME NEW p \in Pod, PodAction(p) \/ Reap(p), ~Discover(p) PROVE crossed' = crossed
  BY <1>1 DEF PodAction, Step, Supervise, Arm, Connect, BootstrapReads, TakeBaseline,
     StoreBaseline, Poll, Halt, Fetch, Reserve, Accept, Advance, LinkIsGone, ConnectFails,
     LinkFails, Crash, Reap
<1>2. ASSUME NEW o \in Operator, OpAction(o) PROVE crossed' = crossed
  BY <1>2 DEF OpAction, BeginReconcile, ReconcileBaseline, CompleteReconcile, FailReconcile,
     AbandonReconcile
<1>3. RowAction => crossed' = crossed
  BY DEF RowAction, Switch, ResumeMigrated, ChangeMailbox
<1>4. BoxAction => crossed' = crossed
  BY DEF BoxAction, Deliver, Renumber, Expunge, Replace
<1> QED BY <1>1, <1>2, <1>3, <1>4, Actions DEF vars

LEMMA CrossingsNext == Typed /\ Crossings /\ [Next]_vars => Crossings'
<1> SUFFICES ASSUME Typed, Crossings, [Next]_vars PROVE Crossings'
  OBVIOUS
<1>1. ASSUME NEW p \in Pod, Discover(p) PROVE Crossings'
  <2>1. pod[p].row.epoch \in 0..MaxConfig /\ pod[p].row.gen \in 0..MaxGen
    BY PodFacts, RowFacts
  <2> QED BY <1>1, <2>1 DEF Discover, Crossings
<1> QED BY <1>1, OnlyPollsCross DEF Crossings

\* Type correctness, with what the steps of a process and of a reconcile work with
\* (acceptImapMessage is given a UID, a baseline names its mailbox).
THEOREM TypeCorrect == Spec => []TypeInv
<1>1. Init => Typed /\ Crossings
  BY TypeInit DEF Init, Crossings
<1>2. Typed /\ Crossings /\ [Next]_vars => Typed' /\ Crossings'
  BY TypeNext, CrossingsNext
<1> QED BY <1>1, <1>2, TypeInvIsTyped, PTL DEF Spec

--------------------------------------------------------------------------------
\* Numbers.

\* Time passes for the mailboxes: messages come above the UIDs that are taken, and a
\* new UIDVALIDITY is above the old one.
ServerStep(s, t) ==
    \A a \in Account :
        \/ t[a].validity > s[a].validity
        \/ /\ t[a].validity = s[a].validity /\ t[a].next >= s[a].next
           /\ \A u \in t[a].mail : u \in s[a].mail \/ u >= s[a].next

LEMMA MailboxFacts ==
    ASSUME NEW b \in Mailbox
    PROVE  /\ b.validity \in Validity /\ b.validity \in Nat /\ b.next \in Nat
           /\ b.mail \subseteq Nat /\ b.mail \subseteq Uid /\ IsFiniteSet(b.mail)
<1>1. b.validity \in Validity /\ b.next \in 1..(MaxUid + 1) /\ b.mail \subseteq 1..MaxUid
  BY DEF Mailbox, Uid
<1>2. b.validity \in Nat
  BY <1>1, ValidityFacts
<1>3. \A i, j \in Nat : \A k \in i..j : k \in Nat
  OBVIOUS
<1>4. b.next \in Nat /\ b.mail \subseteq Nat
  BY <1>1, <1>3, BoundAssumption
<1>5. IsFiniteSet(1..MaxUid)
  BY BoundAssumption, FS_Interval
<1>6. IsFiniteSet(b.mail)
  BY <1>1, <1>5, FS_Subset
<1> QED BY <1>1, <1>2, <1>4, <1>6 DEF Uid

LEMMA BaselineNumbers ==
    ASSUME NEW b \in Baseline
    PROVE  /\ b.validity \in Nat /\ b.cursor \in Nat
           /\ b.from # None => b.from \in Account
<1>1. b.validity \in Validity /\ b.cursor \in 0..MaxUid /\ b.from \in Account \cup {None}
  BY DEF Baseline
<1>2. \A i \in 0..MaxUid : i \in Nat
  BY BoundAssumption
<1> QED BY <1>1, <1>2, ValidityFacts

LEMMA RowTime ==
    ASSUME NEW s \in [Account -> Mailbox], NEW t \in [Account -> Mailbox], ServerStep(s, t),
           NEW q \in Row, NEW r \in Row, RowFits(q, s, r)
    PROVE  RowFits(q, t, r)
<1>1. r.account \in Account /\ r.validity \in Nat
  BY RowFacts
<1>2. s[r.account].validity \in Nat /\ t[r.account].validity \in Nat
  BY <1>1, MailboxFacts
<1>3. s[r.account].validity <= t[r.account].validity
  BY <1>1, <1>2 DEF ServerStep
<1> QED BY <1>1, <1>2, <1>3 DEF RowFits

LEMMA BaseTime ==
    ASSUME NEW s \in [Account -> Mailbox], NEW t \in [Account -> Mailbox], ServerStep(s, t),
           NEW b \in Baseline, BaseFits(s, b)
    PROVE  BaseFits(t, b)
<1> SUFFICES ASSUME b.from # None PROVE BaseFits(t, b)
  BY DEF BaseFits
<1>1. b.from \in Account /\ b.validity \in Nat /\ b.cursor \in Nat
  BY BaselineNumbers
<1>2. /\ s[b.from].validity \in Nat /\ t[b.from].validity \in Nat
      /\ s[b.from].next \in Nat /\ t[b.from].next \in Nat /\ t[b.from].mail \subseteq Nat
  BY <1>1, MailboxFacts
<1>3. CASE t[b.from].validity > s[b.from].validity
  BY <1>1, <1>2, <1>3 DEF BaseFits
<1>4. CASE /\ t[b.from].validity = s[b.from].validity /\ t[b.from].next >= s[b.from].next
           /\ \A u \in t[b.from].mail : u \in s[b.from].mail \/ u >= s[b.from].next
  BY <1>1, <1>2, <1>4 DEF BaseFits
<1> QED BY <1>1, <1>3, <1>4 DEF ServerStep

LEMMA LegacyTime ==
    ASSUME NEW s \in [Account -> Mailbox], NEW t \in [Account -> Mailbox], ServerStep(s, t),
           LegacyFits(s, legacy), legacy.validity \in Validity, legacy.watermark \in 0..MaxUid
    PROVE  LegacyFits(t, legacy)
<1>1. /\ s[Home].validity \in Nat /\ t[Home].validity \in Nat /\ legacy.validity \in Nat
      /\ s[Home].next \in Nat /\ t[Home].next \in Nat /\ legacy.watermark \in Nat
  <2>1. \A i \in 0..MaxUid : i \in Nat
    BY BoundAssumption
  <2> QED BY <2>1, HomeAssumption, ValidityFacts, MailboxFacts
<1>2. \/ t[Home].validity > s[Home].validity
      \/ t[Home].validity = s[Home].validity /\ t[Home].next >= s[Home].next
  BY HomeAssumption DEF ServerStep
<1> QED BY <1>1, <1>2 DEF LegacyFits

\* The row goes on in its epoch, or to the next.
LEMMA RowStays ==
    ASSUME NEW q, NEW t, NEW s, NEW r, RowFits(q, s, r),
           t.epoch = q.epoch, t.account = q.account
    PROVE  RowFits(t, s, r)
BY DEF RowFits

LEMMA RowIsPast ==
    ASSUME NEW q \in Row, NEW t \in Row, NEW s, NEW r \in Row, RowFits(q, s, r), t.epoch = q.epoch + 1
    PROVE  RowFits(t, s, r)
<1>1. q.epoch \in Nat /\ r.epoch \in Nat
  BY RowFacts
<1> QED BY <1>1 DEF RowFits

\* What a step of the server does.
MailboxStep ==
    /\ ServerStep(server, server') /\ BoxesFit(server')
    /\ UNCHANGED <<queue, legacy, ledger, stages, mode, pod, op, excluded>>
    /\ \A p \in Pod : conn'[p] \in {conn[p], None}

LEMMA DeliverSteps ==
    ASSUME Typed, BoxesFit(server), NEW a \in Account, Deliver(a) PROVE MailboxStep
<1> DEFINE n == server[a].next
           b == [server[a] EXCEPT !.mail = @ \cup {n}, !.next = @ + 1]
<1>1. server[a] \in Mailbox /\ n \in Nat /\ server[a].mail \subseteq Nat /\ server[a].validity \in Nat
  BY MailboxFacts DEF Typed
<1>2. server' = [server EXCEPT ![a] = b]
  BY DEF Deliver, Typed
<1>3. /\ b.mail = server[a].mail \cup {n} /\ b.next = n + 1 /\ b.validity = server[a].validity
  BY <1>1 DEF Mailbox
<1> HIDE DEF b
<1>4. server'[a] = b /\ \A c \in Account : c # a => server'[c] = server[c]
  BY <1>2 DEF Typed
<1>5. ASSUME NEW c \in Account
      PROVE  /\ server'[c].validity = server[c].validity /\ server'[c].next >= server[c].next
             /\ \A u \in server'[c].mail : u \in server[c].mail \/ u >= server[c].next
             /\ server'[c].validity \in Validities[c]
             /\ \A u \in server'[c].mail : u < server'[c].next
  <2>1. server[c].next \in Nat /\ server[c].mail \subseteq Nat
    BY BoundAssumption DEF Typed, Mailbox, Uid
  <2>2. CASE c = a
    BY <2>2, <1>1, <1>3, <1>4 DEF BoxesFit
  <2>3. CASE c # a
    BY <2>1, <2>3, <1>4 DEF BoxesFit
  <2> QED BY <2>2, <2>3
<1> QED BY <1>5 DEF Deliver, MailboxStep, ServerStep, BoxesFit

LEMMA ExpungeSteps ==
    ASSUME Typed, BoxesFit(server), NEW a \in Account, NEW u \in Uid, Expunge(a, u)
    PROVE  MailboxStep
<1> DEFINE b == [server[a] EXCEPT !.mail = @ \ {u}]
<1>1. server' = [server EXCEPT ![a] = b]
  BY DEF Expunge, Typed
<1>2. /\ b.mail = server[a].mail \ {u} /\ b.next = server[a].next
      /\ b.validity = server[a].validity
  BY DEF Typed, Mailbox
<1> HIDE DEF b
<1>3. server'[a] = b /\ \A c \in Account : c # a => server'[c] = server[c]
  BY <1>1 DEF Typed
<1>4. \A c \in Account : /\ server'[c].validity = server[c].validity
                         /\ server'[c].next = server[c].next
                         /\ server'[c].mail \subseteq server[c].mail
                         /\ server[c].next \in Nat
  BY <1>2, <1>3, BoundAssumption DEF Typed, Mailbox
<1> QED BY <1>4 DEF Expunge, MailboxStep, ServerStep, BoxesFit

LEMMA ReplaceSteps ==
    ASSUME Typed, BoxesFit(server), NEW a \in Account, NEW u \in Uid, Replace(a, u)
    PROVE  MailboxStep
<1> DEFINE b == [server[a] EXCEPT !.replaced = @ \cup {u}]
<1>1. server' = [server EXCEPT ![a] = b]
  BY DEF Replace, Typed
<1>2. b.mail = server[a].mail /\ b.next = server[a].next /\ b.validity = server[a].validity
  BY DEF Typed, Mailbox
<1> HIDE DEF b
<1>3. server'[a] = b /\ \A c \in Account : c # a => server'[c] = server[c]
  BY <1>1 DEF Typed
<1>4. \A c \in Account : /\ server'[c].validity = server[c].validity
                         /\ server'[c].next = server[c].next
                         /\ server'[c].mail \subseteq server[c].mail
                         /\ server[c].next \in Nat
  BY <1>2, <1>3, BoundAssumption DEF Typed, Mailbox
<1> QED BY <1>4 DEF Replace, MailboxStep, ServerStep, BoxesFit

LEMMA RenumberSteps ==
    ASSUME Typed, BoxesFit(server), NEW a \in Account, Renumber(a) PROVE MailboxStep
<1> DEFINE n == Cardinality(server[a].mail)
           later == {v \in Validities[a] : v > server[a].validity}
           b == [validity |-> Smallest(later), next |-> n + 1, mail |-> 1..n, replaced |-> {}]
<1>1. Smallest(later) \in later
  BY FirstValidity DEF Renumber
<1>2. n \in Nat
  <2>1. IsFiniteSet(server[a].mail)
    BY MailboxFacts DEF Typed
  <2> QED BY <2>1, FS_CardinalityType
<1>3. Smallest(later) \in Validities[a] /\ Smallest(later) > server[a].validity
  BY <1>1
<1>4. server' = [server EXCEPT ![a] = b]
  BY DEF Renumber
<1> HIDE DEF n, later
<1>5. b.validity = Smallest(later) /\ b.mail = 1..n /\ b.next = n + 1
  OBVIOUS
<1> HIDE DEF b
<1>6. server'[a] = b /\ \A c \in Account : c # a => server'[c] = server[c]
  BY <1>4 DEF Typed
<1>7. ASSUME NEW c \in Account
      PROVE  /\ \/ server'[c].validity > server[c].validity
                \/ server'[c] = server[c] /\ server[c].next \in Nat
             /\ server'[c].validity \in Validities[c]
             /\ \A u \in server'[c].mail : u < server'[c].next
  <2>1. CASE c = a
    BY <2>1, <1>2, <1>3, <1>5, <1>6
  <2>2. CASE c # a
    BY <2>2, <1>6, BoundAssumption DEF BoxesFit, Typed, Mailbox
  <2> QED BY <2>1, <2>2
<1>8. ServerStep(server, server') /\ BoxesFit(server')
  BY <1>7 DEF ServerStep, BoxesFit
<1>9. \A p \in Pod : conn'[p] \in {conn[p], None}
  BY DEF Renumber
<1> QED BY <1>8, <1>9 DEF Renumber, MailboxStep

\* How the row goes on: in its epoch, or with another mailbox in the next one.
QueueKeepsOn == queue'.epoch = queue.epoch /\ queue'.account = queue.account
QueueStepFits ==
    /\ QueueKeepsOn \/ queue'.epoch = queue.epoch + 1
    /\ QueueFits(queue') /\ RowFits(queue', server, queue')

\* The row keeps its numbers, and is polled after the step only if before.
LEMMA NumbersStay ==
    ASSUME Typed, NumbersInv, QueueKeepsOn, queue'.validity = queue.validity,
           queue'.sync = "OK" => queue.sync = "OK",
           queue'.cause = "LEGACY_MIGRATION" => queue.cause = "LEGACY_MIGRATION",
           queue'.sync = "BOOTSTRAPPING" => queue.sync = "BOOTSTRAPPING"
    PROVE  QueueStepFits
BY DEF NumbersInv, QueueStepFits, QueueKeepsOn, QueueFits, RowFits

\* It gets numbers of its mailbox.
LEMMA NumbersCome ==
    ASSUME Typed, NumbersInv, QueueKeepsOn, queue'.sync = "OK",
           queue'.cause = "LEGACY_MIGRATION" => queue.cause = "LEGACY_MIGRATION",
           queue'.validity \in Validities[queue.account],
           queue'.validity <= server[queue.account].validity
    PROVE  QueueStepFits
<1>1. queue.account \in Account
  BY RowFacts DEF Typed
<1>2. queue'.validity # 0
  BY <1>1, ValidityFacts
<1> QED BY <1>2 DEF NumbersInv, QueueStepFits, QueueKeepsOn, QueueFits, RowFits

LEMMA ArmNumbers == ASSUME Typed, NumbersInv, NEW p \in Pod, Arm(p) PROVE QueueStepFits
<1>1. queue' \in {queue, [queue EXCEPT !.retired = TRUE]}
  BY DEF Arm
<1>2. /\ QueueKeepsOn /\ queue'.validity = queue.validity
      /\ queue'.sync = queue.sync /\ queue'.cause = queue.cause
  BY <1>1 DEF Typed, Row, QueueKeepsOn
<1> QED BY <1>2, NumbersStay

LEMMA HaltNumbers == ASSUME Typed, NumbersInv, NEW p \in Pod, Halt(p) PROVE QueueStepFits
<1>1. queue' \in {queue, [queue EXCEPT !.sync = "NEEDS", !.cause = "UIDVALIDITY_CHANGED"]}
  BY DEF Halt, Halted
<1>2. /\ QueueKeepsOn /\ queue'.validity = queue.validity
      /\ queue'.sync \in {queue.sync, "NEEDS"}
      /\ queue'.cause \in {queue.cause, "UIDVALIDITY_CHANGED"}
  BY <1>1 DEF Typed, Row, QueueKeepsOn
<1> QED BY <1>2, NumbersStay

LEMMA AcceptNumbers == ASSUME Typed, NumbersInv, NEW p \in Pod, Accept(p) PROVE QueueStepFits
<1>1. queue' \in {queue, [queue EXCEPT !.enabled = ~Capture(p)],
                  [queue EXCEPT !.sync = "NEEDS", !.cause = "TRANSPORT_COLLISION"]}
  BY DEF Accept, Halted
<1>2. /\ QueueKeepsOn /\ queue'.validity = queue.validity
      /\ queue'.sync \in {queue.sync, "NEEDS"}
      /\ queue'.cause \in {queue.cause, "TRANSPORT_COLLISION"}
  BY <1>1 DEF Typed, Row, QueueKeepsOn
<1> QED BY <1>2, NumbersStay

LEMMA AdvanceNumbers == ASSUME Typed, NumbersInv, NEW p \in Pod, Advance(p) PROVE QueueStepFits
<1>1. queue' \in {queue, [queue EXCEPT !.cursor = Frontier(p)]}
  BY DEF Advance
<1>2. /\ QueueKeepsOn /\ queue'.validity = queue.validity
      /\ queue'.sync = queue.sync /\ queue'.cause = queue.cause
  BY <1>1 DEF Typed, Row, QueueKeepsOn
<1> QED BY <1>2, NumbersStay

LEMMA SwitchNumbers == ASSUME Typed, NumbersInv, Switch PROVE QueueStepFits
<1>1. queue' = [queue EXCEPT !.enabled = ~queue.enabled, !.config = queue.config + 1]
  BY DEF Switch
<1>2. /\ QueueKeepsOn /\ queue'.validity = queue.validity
      /\ queue'.sync = queue.sync /\ queue'.cause = queue.cause
  BY <1>1 DEF Typed, Row, QueueKeepsOn
<1> QED BY <1>2, NumbersStay

LEMMA FailReconcileNumbers ==
    ASSUME Typed, NumbersInv, NEW o \in Operator, FailReconcile(o) PROVE QueueStepFits
<1>1. queue' \in {queue, [queue EXCEPT !.sync = "NEEDS"]}
  BY DEF FailReconcile
<1>2. /\ QueueKeepsOn /\ queue'.validity = queue.validity
      /\ queue'.sync \in {queue.sync, "NEEDS"} /\ queue'.cause = queue.cause
  BY <1>1 DEF Typed, Row, QueueKeepsOn
<1> QED BY <1>2, NumbersStay

LEMMA StoreBaselineNumbers ==
    ASSUME Typed, NumbersInv, NEW p \in Pod, StoreBaseline(p)
    PROVE  /\ QueueStepFits
           /\ queue' # queue =>
                /\ queue' = [queue EXCEPT !.validity = pod[p].base.validity,
                                          !.cursor = pod[p].base.cursor]
                /\ pod[p].base.from = queue.account /\ queue.validity = 0
                /\ excluded' = excluded \cup Skipped(pod[p].base)
<1> DEFINE base == pod[p].base
<1>1. CASE queue' = queue
  <2>1. QueueStepFits
    BY <1>1, NumbersStay DEF QueueKeepsOn
  <2> QED BY <1>1, <2>1
<1>2. CASE /\ Fence(p) /\ queue.validity = 0
           /\ queue' = [queue EXCEPT !.validity = base.validity, !.cursor = base.cursor]
           /\ excluded' = excluded \cup Skipped(base)
  <2>1. queue.epoch = 0 /\ queue.account = Home
    BY <1>2 DEF Fence, NumbersInv, QueueFits, RowFits
  <2>2. base.from \in Account
    BY PodFacts DEF StoreBaseline, At, PodWorks
  <2>3. base.from = queue.account
    BY <2>1, <2>2, HomeAssumption DEF NumbersInv
  <2>4. base.validity \in Validities[queue.account] /\ base.validity <= server[queue.account].validity
    BY <2>2, <2>3, HomeAssumption DEF NumbersInv, BaseFits
  <2>5. /\ QueueKeepsOn /\ queue'.validity = base.validity
        /\ queue'.sync = "OK" /\ queue'.cause = queue.cause
    BY <1>2 DEF Fence, Typed, Row, QueueKeepsOn
  <2>6. QueueStepFits
    BY <2>4, <2>5, NumbersCome
  <2> QED BY <1>2, <2>3, <2>6
<1> QED BY <1>1, <1>2 DEF StoreBaseline

LEMMA CompleteReconcileNumbers ==
    ASSUME Typed, NumbersInv, NEW o \in Operator, CompleteReconcile(o)
    PROVE  /\ QueueStepFits
           /\ queue' # queue =>
                /\ queue' = [queue EXCEPT !.validity = op[o].base.validity,
                                          !.cursor = op[o].base.cursor,
                                          !.sync = "OK", !.cause = "none"]
                /\ op[o].row.account = queue.account /\ op[o].base.from = queue.account
                /\ op[o].row.gen = queue.gen
                /\ queue.sync = "BOOTSTRAPPING" /\ queue.validity = 0
                /\ excluded' = excluded \cup Skipped(op[o].base)
<1> DEFINE base == op[o].base
<1>1. CASE queue' = queue
  <2>1. QueueStepFits
    BY <1>1, NumbersStay DEF QueueKeepsOn
  <2> QED BY <1>1, <2>1
<1>2. CASE /\ Own(o)
           /\ queue' = [queue EXCEPT !.validity = base.validity, !.cursor = base.cursor,
                                     !.sync = "OK", !.cause = "none"]
           /\ excluded' = excluded \cup Skipped(base)
  <2>1. op[o].row.account = queue.account /\ op[o].row.gen = queue.gen
    BY <1>2 DEF Own, SameVersion, NumbersInv, RowFits
  <2>2. base.from = op[o].row.account /\ queue.account \in Account
    BY RowFacts DEF CompleteReconcile, Typed, OpWorks
  <2>3. base.validity \in Validities[queue.account] /\ base.validity <= server[queue.account].validity
    BY <2>1, <2>2, HomeAssumption DEF NumbersInv, BaseFits
  <2>4. /\ QueueKeepsOn /\ queue'.validity = base.validity
        /\ queue'.sync = "OK" /\ queue'.cause = "none"
    BY <1>2 DEF Typed, Row, QueueKeepsOn
  <2>5. QueueStepFits
    BY <2>3, <2>4, NumbersCome
  <2>6. queue.sync = "BOOTSTRAPPING" /\ queue.validity = 0
    BY <1>2 DEF Own, NumbersInv, QueueFits
  <2> QED BY <1>2, <2>1, <2>2, <2>5, <2>6
<1> QED BY <1>1, <1>2 DEF CompleteReconcile

LEMMA ResumeMigratedNumbers ==
    ASSUME Typed, NumbersInv, ResumeMigrated
    PROVE  /\ QueueStepFits /\ queue.account = Home
           /\ queue'.validity = legacy.validity /\ queue'.cursor = ResumeCursor
           /\ queue'.account = Home /\ queue'.gen = queue.gen + 1
           /\ queue.cause = "LEGACY_MIGRATION"
<1>1. queue.epoch = 0 /\ queue.account = Home
  BY DEF ResumeMigrated, NumbersInv, QueueFits, RowFits
<1>2. queue' = [queue EXCEPT !.validity = legacy.validity, !.cursor = ResumeCursor,
                             !.sync = "OK", !.cause = "none", !.gen = queue.gen + 1]
  BY DEF ResumeMigrated
<1>3. /\ QueueKeepsOn /\ queue'.validity = legacy.validity /\ queue'.cursor = ResumeCursor
      /\ queue'.sync = "OK" /\ queue'.cause = "none" /\ queue'.gen = queue.gen + 1
  BY <1>2 DEF Typed, Row, QueueKeepsOn
<1>4. QueueStepFits
  BY <1>1, <1>3, NumbersCome DEF NumbersInv, LegacyFits
<1> QED BY <1>1, <1>3, <1>4 DEF ResumeMigrated, QueueKeepsOn

LEMMA BeginReconcileNumbers ==
    ASSUME Typed, NumbersInv, NEW o \in Operator, BeginReconcile(o)
    PROVE  /\ QueueStepFits /\ QueueKeepsOn
           /\ queue'.validity = 0 /\ queue'.gen = queue.gen + 1 /\ queue'.sync = "BOOTSTRAPPING"
<1>1. queue' = [queue EXCEPT !.sync = "BOOTSTRAPPING", !.gen = queue.gen + 1,
                             !.validity = 0, !.cursor = 0]
  BY DEF BeginReconcile
<1>2. /\ QueueKeepsOn /\ queue'.validity = 0 /\ queue'.gen = queue.gen + 1
      /\ queue'.sync = "BOOTSTRAPPING" /\ queue'.cause = queue.cause
  BY <1>1 DEF Typed, Row, QueueKeepsOn
<1>3. server[queue.account].validity \in Nat
  BY RowFacts, MailboxFacts DEF Typed
<1> QED BY <1>2, <1>3 DEF NumbersInv, QueueStepFits, QueueKeepsOn, QueueFits, RowFits

LEMMA ChangeMailboxNumbers ==
    ASSUME Typed, NumbersInv, NEW a \in Account, ChangeMailbox(a)
    PROVE  /\ QueueStepFits /\ queue'.account = a /\ queue'.epoch = queue.epoch + 1
           /\ queue'.validity = 0 /\ queue'.gen = queue.gen + 1 /\ queue'.sync = "NEEDS"
<1>1. queue' = [queue EXCEPT !.sync = "NEEDS", !.cause = "MAILBOX_IDENTITY_CHANGED",
                             !.account = a, !.validity = 0, !.cursor = 0,
                             !.epoch = queue.epoch + 1, !.gen = queue.gen + 1,
                             !.config = queue.config + 1]
  BY DEF ChangeMailbox, Halted, Typed, Row
<1>2. /\ queue'.account = a /\ queue'.epoch = queue.epoch + 1
      /\ queue'.validity = 0 /\ queue'.gen = queue.gen + 1
      /\ queue'.sync = "NEEDS" /\ queue'.cause = "MAILBOX_IDENTITY_CHANGED"
  BY <1>1 DEF Typed, Row
<1>3. server[a].validity \in Nat /\ queue.epoch \in Nat
  BY RowFacts, MailboxFacts DEF Typed
<1> QED BY <1>2, <1>3 DEF QueueStepFits, QueueFits, RowFits

\* A process keeps its copy of the row or reads the row, and its baseline or takes one.
PodMove(q) ==
    /\ pod'[q].row \in {pod[q].row, queue, FreshRow}
    /\ \/ pod'[q].base \in {pod[q].base, NoBaseline}
       \/ conn[q] # None /\ \E n \in Backfill : pod'[q].base = BaselineOf(conn[q], n)
    /\ conn'[q] \in {conn[q], None, pod[q].row.account}

LEMMA PodMoves ==
    ASSUME Typed, NEW p \in Pod, Step(p) \/ ConnectFails(p) \/ LinkFails(p) \/ Crash(p),
           NEW q \in Pod
    PROVE  PodMove(q)
<1>1. CASE Supervise(p)
  BY <1>1, PodFacts DEF Supervise, IdlePod, PodMove, Typed, PodRecord
<1>2. CASE Arm(p)
  <2>1. CASE Rest(p)
    BY <1>2, <2>1, PodFacts DEF Arm, Rest, IdlePod, PodMove, Typed, PodRecord
  <2>2. CASE pod' = [pod EXCEPT ![p].pc = "connect", ![p].armed = ~queue.retired]
    <3>1. pod'[q].row = pod[q].row /\ pod'[q].base = pod[q].base
      BY <2>2, PodFacts DEF Typed, PodRecord
    <3> QED BY <1>2, <3>1 DEF Arm, PodMove
  <2> QED BY <1>2, <2>1, <2>2 DEF Arm
<1>3. CASE Connect(p)
  BY <1>3, PodFacts DEF Connect, IdlePod, PodMove, Typed, PodRecord
<1>4. CASE BootstrapReads(p)
  BY <1>4, PodFacts DEF BootstrapReads, BootstrapThrows, Bootstrapped, Rest, Drop, IdlePod, PodMove, Typed, PodRecord
<1>5. CASE TakeBaseline(p)
  <2>1. CASE BootstrapThrows(p)
    BY <1>5, <2>1, PodFacts
    DEF TakeBaseline, BootstrapThrows, Rest, Drop, IdlePod, PodMove, Typed, PodRecord
  <2>2. CASE Bootstrapped(p) /\ UNCHANGED conn
    BY <2>2, PodFacts DEF Bootstrapped, IdlePod, PodMove, Typed, PodRecord
  <2>3. ASSUME NEW n \in Backfill, UNCHANGED conn, conn[p] # None,
               pod' = [pod EXCEPT ![p].pc = "store", ![p].base = BaselineOf(conn[p], n)]
        PROVE  PodMove(q)
    <3>1. CASE q = p
      <4>1. pod'[q].row = pod[q].row /\ pod'[q].base = BaselineOf(conn[p], n)
        BY <2>3, <3>1, PodFacts DEF Typed, PodRecord
      <4> QED BY <2>3, <3>1, <4>1 DEF PodMove
    <3>2. CASE q # p
      <4>1. pod'[q] = pod[q]
        BY <2>3, <3>2 DEF Typed
      <4> QED BY <2>3, <4>1 DEF PodMove
    <3> QED BY <3>1, <3>2
  <2> QED BY <1>5, <2>1, <2>2, <2>3 DEF TakeBaseline
<1>6. CASE StoreBaseline(p)
  BY <1>6, PodFacts DEF StoreBaseline, Bootstrapped, IdlePod, PodMove, Typed, PodRecord
<1>7. CASE Poll(p)
  BY <1>7, PodFacts DEF Poll, IdlePod, PodMove, Typed, PodRecord
<1>8. CASE Discover(p)
  BY <1>8, PodFacts DEF Discover, Go, IdlePod, PodMove, Typed, PodRecord
<1>9. CASE Halt(p)
  BY <1>9, PodFacts DEF Halt, Rest, IdlePod, PodMove, Typed, PodRecord
<1>10. CASE Fetch(p)
  <2>1. pod'[q].row = pod[q].row /\ pod'[q].base = pod[q].base
    <3>1. CASE Go(p, "advance")
      BY <3>1, PodFacts DEF Go, Typed, PodRecord
    <3>2. ASSUME NEW u, Failed(p, u) \/ Taken(p, u)
          PROVE  pod'[q].row = pod[q].row /\ pod'[q].base = pod[q].base
      <4>1. CASE Failed(p, u)
        BY <4>1, PodFacts DEF Failed, Typed, PodRecord
      <4>2. CASE Taken(p, u)
        BY <4>2, PodFacts DEF Taken, Typed, PodRecord
      <4> QED BY <3>2, <4>1, <4>2
    <3>3. ASSUME NEW u, NEW l \in BOOLEAN, Fetched(p, u, l)
          PROVE  pod'[q].row = pod[q].row /\ pod'[q].base = pod[q].base
      BY <3>3, PodFacts DEF Fetched, Typed, PodRecord
    <3> QED BY <1>10, <3>1, <3>2, <3>3 DEF Fetch
  <2> QED BY <1>10, <2>1 DEF Fetch, PodMove
<1>11. CASE Reserve(p)
  <2>1. pod'[q].row = pod[q].row /\ pod'[q].base = pod[q].base
    <3>1. CASE Go(p, "accept")
      BY <3>1, PodFacts DEF Go, Typed, PodRecord
    <3>2. CASE Failed(p, pod[p].now)
      BY <3>2, PodFacts DEF Failed, Typed, PodRecord
    <3> QED BY <1>11, <3>1, <3>2 DEF Reserve
  <2> QED BY <1>11, <2>1 DEF Reserve, PodMove
<1>12. CASE Accept(p)
  <2>1. pod'[q].row = pod[q].row /\ pod'[q].base = pod[q].base
    <3>1. CASE Failed(p, pod[p].now)
      BY <3>1, PodFacts DEF Failed, Typed, PodRecord
    <3>2. CASE Taken(p, pod[p].now)
      BY <3>2, PodFacts DEF Taken, Typed, PodRecord
    <3> QED BY <1>12, <3>1, <3>2 DEF Accept
  <2> QED BY <1>12, <2>1 DEF Accept, PodMove
<1>13. CASE Advance(p)
  BY <1>13, PodFacts DEF Advance, Rest, IdlePod, PodMove, Typed, PodRecord
<1>14. CASE LinkIsGone(p)
  <2>1. CASE Rest(p)
    BY <1>14, <2>1, PodFacts DEF LinkIsGone, Rest, IdlePod, PodMove, Typed, PodRecord
  <2>2. CASE Go(p, "advance")
    BY <1>14, <2>2, PodFacts DEF LinkIsGone, Go, PodMove, Typed, PodRecord
  <2>3. CASE Failed(p, Smallest(pod[p].todo))
    BY <1>14, <2>3, PodFacts DEF LinkIsGone, Failed, PodMove, Typed, PodRecord
  <2> QED BY <1>14, <2>1, <2>2, <2>3 DEF LinkIsGone
<1>15. CASE ConnectFails(p)
  BY <1>15, PodFacts DEF ConnectFails, Rest, IdlePod, PodMove, Typed, PodRecord
<1>16. CASE LinkFails(p)
  BY <1>16, PodFacts DEF LinkFails, Drop, IdlePod, PodMove, Typed, PodRecord
<1>17. CASE Crash(p)
  BY <1>17, PodFacts DEF Crash, Rest, Drop, IdlePod, PodMove, Typed, PodRecord
<1> QED BY <1>1, <1>2, <1>3, <1>4, <1>5, <1>6, <1>7, <1>8, <1>9, <1>10, <1>11, <1>12, <1>13, <1>14, <1>15, <1>16, <1>17 DEF Step

OpMove(o) ==
    /\ op'[o].row \in {op[o].row, FreshRow, queue'}
    /\ \/ op'[o].base \in {op[o].base, NoBaseline}
       \/ \E n \in Backfill : op'[o].base = BaselineOf(op[o].row.account, n)

LEMMA OpMoves ==
    ASSUME Typed, NEW o \in Operator,
           \/ BeginReconcile(o) \/ ReconcileBaseline(o) \/ CompleteReconcile(o)
           \/ FailReconcile(o) \/ AbandonReconcile(o),
           NEW x \in Operator
    PROVE  OpMove(x)
<1>1. CASE BeginReconcile(o)
  <2> DEFINE row == [queue EXCEPT !.sync = "BOOTSTRAPPING", !.gen = @ + 1, !.validity = 0, !.cursor = 0]
  <2>1. queue' = row /\ op' = [op EXCEPT ![o] = [IdleOp EXCEPT !.pc = "baseline", !.row = row]]
    BY <1>1 DEF BeginReconcile
  <2> HIDE DEF row
  <2> QED BY <2>1 DEF OpMove, IdleOp, Typed
<1>2. CASE ReconcileBaseline(o)
  <2>1. ASSUME NEW n \in Backfill,
               op' = [op EXCEPT ![o].pc = "complete", ![o].base = BaselineOf(op[o].row.account, n)]
        PROVE  OpMove(x)
    <3>1. CASE x = o
      <4>1. op'[x].row = op[x].row /\ op'[x].base = BaselineOf(op[x].row.account, n)
        BY <2>1, <3>1, OpFacts DEF Typed, OpRecord
      <4> QED BY <4>1 DEF OpMove
    <3>2. CASE x # o
      <4>1. op'[x] = op[x]
        BY <2>1, <3>2 DEF Typed
      <4> QED BY <4>1 DEF OpMove
    <3> QED BY <3>1, <3>2
  <2>2. CASE op' = [op EXCEPT ![o].pc = "fail"]
    BY <2>2, OpFacts DEF OpMove, Typed, OpRecord
  <2> QED BY <1>2, <2>1, <2>2 DEF ReconcileBaseline
<1>3. CASE op' = [op EXCEPT ![o] = IdleOp]
  BY <1>3 DEF OpMove, IdleOp, Typed
<1> QED BY <1>1, <1>2, <1>3 DEF CompleteReconcile, FailReconcile, AbandonReconcile

\* A baseline fits the mailbox it is taken from.
LEMMA BaselineNow ==
    ASSUME Typed, BoxesFit(server), NEW a \in Account, NEW n
    PROVE  BaseFits(server, BaselineOf(a, n)) /\ BaselineOf(a, n).from = a
<1> DEFINE b == BaselineOf(a, n)
<1>1. server[a] \in Mailbox /\ server[a].next \in Nat /\ server[a].mail \subseteq Nat
      /\ server[a].validity \in Nat
  BY MailboxFacts DEF Typed
<1>2. /\ b \in Baseline /\ b.from = a /\ b.validity = server[a].validity
      /\ b.cursor < server[a].next \/ \E u \in server[a].mail : b.cursor < u
      /\ b.skipped = {u \in server[a].mail : u <= b.cursor}
  BY <1>1, BaselineFacts
<1> HIDE DEF b
<1>3. b.cursor \in Nat
  BY <1>2, BaselineNumbers
<1>4. server[a].validity \in Validities[a] /\ \A u \in server[a].mail : u < server[a].next
  BY DEF BoxesFit
<1>5. b.cursor < server[a].next
  BY <1>1, <1>2, <1>3, <1>4
<1>6. BaseFits(server, b)
  BY <1>1, <1>2, <1>4, <1>5 DEF BaseFits
<1> QED BY <1>2, <1>6 DEF b

LEMMA FreshRowFits == ASSUME Typed, NumbersInv PROVE RowFits(queue, server, FreshRow)
<1>1. server[Home].validity \in Nat /\ queue.epoch \in Nat
  BY HomeAssumption, RowFacts, MailboxFacts DEF Typed
<1> QED BY <1>1 DEF NumbersInv, RowFits, FreshRow

LEMMA NumbersOfServer ==
    ASSUME Typed, Typed', NumbersInv, MailboxStep
    PROVE  NumbersInv'
<1>1. server \in [Account -> Mailbox] /\ server' \in [Account -> Mailbox] /\ queue \in Row
  BY DEF Typed
<1>2. LegacyFits(server', legacy)
  BY <1>1, LegacyTime DEF NumbersInv, MailboxStep, Typed
<1>3. \A r \in Row : RowFits(queue, server, r) => RowFits(queue, server', r)
  BY <1>1, RowTime DEF MailboxStep
<1>4. \A b \in Baseline : BaseFits(server, b) => BaseFits(server', b)
  BY <1>1, BaseTime DEF MailboxStep
<1>5. ASSUME NEW p \in Pod
      PROVE  /\ RowFits(queue, server', pod[p].row) /\ BaseFits(server', pod[p].base)
             /\ queue.epoch = 0 => conn'[p] \in {None, Home} /\ pod[p].base.from \in {None, Home}
  BY <1>3, <1>4, PodFacts DEF NumbersInv, MailboxStep
<1>6. ASSUME NEW o \in Operator
      PROVE  RowFits(queue, server', op[o].row) /\ BaseFits(server', op[o].base)
  BY <1>3, <1>4, OpFacts DEF NumbersInv
<1> QED BY <1>1, <1>2, <1>3, <1>5, <1>6 DEF NumbersInv, MailboxStep

LEMMA NumbersOfRows ==
    ASSUME Typed, Typed', NumbersInv, QueueStepFits, server' = server, legacy' = legacy,
           \A p \in Pod : PodMove(p), \A o \in Operator : OpMove(o)
    PROVE  NumbersInv'
<1>1. queue \in Row /\ queue' \in Row /\ queue.epoch \in Nat /\ queue'.epoch \in Nat
  BY RowFacts DEF Typed
<1>2. \A r \in Row : RowFits(queue, server, r) => RowFits(queue', server, r)
  BY <1>1, RowStays, RowIsPast DEF QueueStepFits, QueueKeepsOn
<1>3. RowFits(queue', server, queue) /\ RowFits(queue', server, FreshRow)
      /\ RowFits(queue', server, queue')
  BY <1>1, <1>2, FreshRowFits, FreshRowType DEF NumbersInv, QueueStepFits
<1>4. BaseFits(server, NoBaseline) /\ NoBaseline.from = None
  BY DEF BaseFits, NoBaseline
<1>5. queue'.epoch = 0 => queue.epoch = 0 /\ queue.account = Home
  BY <1>1 DEF QueueStepFits, QueueKeepsOn, NumbersInv, RowFits
<1>6. ASSUME NEW p \in Pod
      PROVE  /\ RowFits(queue', server, pod'[p].row) /\ BaseFits(server, pod'[p].base)
             /\ queue'.epoch = 0 => conn'[p] \in {None, Home} /\ pod'[p].base.from \in {None, Home}
  <2>1. RowFits(queue', server, pod'[p].row)
    BY <1>2, <1>3, PodFacts DEF PodMove, NumbersInv
  <2>2. conn[p] # None => conn[p] \in Account
    BY PodFacts
  <2>3. /\ BaseFits(server, pod'[p].base)
        /\ pod'[p].base.from \in {pod[p].base.from, None, conn[p]}
    <3>1. CASE pod'[p].base \in {pod[p].base, NoBaseline}
      BY <3>1, <1>4 DEF NumbersInv
    <3>2. CASE conn[p] # None /\ \E n \in Backfill : pod'[p].base = BaselineOf(conn[p], n)
      <4>1. PICK n \in Backfill : pod'[p].base = BaselineOf(conn[p], n)
        BY <3>2
      <4>2. BaseFits(server, BaselineOf(conn[p], n)) /\ BaselineOf(conn[p], n).from = conn[p]
        BY <3>2, <2>2, BaselineNow DEF NumbersInv
      <4> QED BY <4>1, <4>2
    <3> QED BY <3>1, <3>2 DEF PodMove
  <2>4. queue.epoch = 0 => pod[p].row.account = Home
    BY <1>5, PodFacts, RowFacts DEF NumbersInv, RowFits
  <2> QED BY <1>5, <2>1, <2>3, <2>4 DEF NumbersInv, PodMove
<1>7. ASSUME NEW o \in Operator
      PROVE  RowFits(queue', server, op'[o].row) /\ BaseFits(server, op'[o].base)
  <2>1. RowFits(queue', server, op'[o].row)
    BY <1>2, <1>3, OpFacts DEF OpMove, NumbersInv
  <2>2. BaseFits(server, op'[o].base)
    <3>1. CASE op'[o].base \in {op[o].base, NoBaseline}
      BY <3>1, <1>4 DEF NumbersInv
    <3>2. CASE \E n \in Backfill : op'[o].base = BaselineOf(op[o].row.account, n)
      <4>1. PICK n \in Backfill : op'[o].base = BaselineOf(op[o].row.account, n)
        BY <3>2
      <4>2. BaseFits(server, BaselineOf(op[o].row.account, n))
        BY OpFacts, BaselineNow DEF NumbersInv
      <4> QED BY <4>1, <4>2
    <3> QED BY <3>1, <3>2 DEF OpMove
  <2> QED BY <2>1, <2>2
<1> QED BY <1>3, <1>6, <1>7 DEF NumbersInv, QueueStepFits

LEMMA RowAsIs == ASSUME Typed, NumbersInv, queue' = queue PROVE QueueStepFits
BY NumbersStay DEF QueueKeepsOn

LEMMA StepNumbers ==
    ASSUME Typed, NumbersInv, NEW p \in Pod, Step(p)
    PROVE  QueueStepFits /\ server' = server /\ legacy' = legacy /\ op' = op
<1>1. CASE queue' = queue
  <2>1. QueueStepFits
    BY <1>1, RowAsIs
  <2> QED BY <2>1 DEF Step, Supervise, Arm, Connect, BootstrapReads, TakeBaseline, StoreBaseline,
      Poll, Discover, Halt, Fetch, Reserve, Accept, Advance, LinkIsGone
<1>2. CASE Arm(p)
  BY <1>2, ArmNumbers DEF Arm
<1>3. CASE StoreBaseline(p)
  BY <1>3, StoreBaselineNumbers DEF StoreBaseline
<1>4. CASE Halt(p)
  BY <1>4, HaltNumbers DEF Halt
<1>5. CASE Accept(p)
  BY <1>5, AcceptNumbers DEF Accept
<1>6. CASE Advance(p)
  BY <1>6, AdvanceNumbers DEF Advance
<1>7. \/ queue' = queue \/ Arm(p) \/ StoreBaseline(p) \/ Halt(p) \/ Accept(p) \/ Advance(p)
  BY DEF Step, Supervise, Connect, BootstrapReads, TakeBaseline, Poll, Discover, Fetch,
     Reserve, LinkIsGone
<1> QED BY <1>1, <1>2, <1>3, <1>4, <1>5, <1>6, <1>7

LEMMA BoxActionSteps == ASSUME Typed, BoxesFit(server), BoxAction PROVE MailboxStep
BY DeliverSteps, RenumberSteps, ExpungeSteps, ReplaceSteps DEF BoxAction

LEMMA NumbersInit == Init => NumbersInv
<1> SUFFICES ASSUME Init PROVE NumbersInv
  OBVIOUS
<1>1. \A a \in Account : Smallest(Validities[a]) \in Validities[a] /\ Smallest(Validities[a]) \in Nat
  BY ValidityFacts, FirstValidity
<1>2. /\ \A a \in Account : /\ server[a].validity = Smallest(Validities[a])
                            /\ server[a].next = OldMail + 1 /\ server[a].mail = 1..OldMail
      /\ legacy.validity = Smallest(Validities[Home]) /\ legacy.watermark = OldMail
  BY DEF Init
<1>3. OldMail \in Nat
  BY BoundAssumption
<1>4. /\ queue.account = Home /\ queue.validity = 0 /\ queue.epoch = 0
      /\ queue.sync # "BOOTSTRAPPING"
  <2>1. CASE queue = FreshRow
    BY <2>1 DEF FreshRow
  <2>2. CASE queue = MigratedRow
    BY <2>2 DEF FreshRow, MigratedRow
  <2> QED BY <2>1, <2>2 DEF Init
<1>5. \A p \in Pod : /\ pod[p].row = FreshRow /\ pod[p].base = NoBaseline /\ conn[p] = None
  BY DEF Init, IdlePod
<1>6. \A o \in Operator : op[o].row = FreshRow /\ op[o].base = NoBaseline
  BY DEF Init, IdleOp
<1>7. BoxesFit(server) /\ LegacyFits(server, legacy)
  BY <1>1, <1>2, <1>3, HomeAssumption DEF BoxesFit, LegacyFits
<1>8. QueueFits(queue) /\ RowFits(queue, server, queue) /\ RowFits(queue, server, FreshRow)
  BY <1>1, <1>2, <1>4, HomeAssumption DEF QueueFits, RowFits, FreshRow
<1>9. BaseFits(server, NoBaseline) /\ NoBaseline.from = None
  BY DEF BaseFits, NoBaseline
<1> QED BY <1>5, <1>6, <1>7, <1>8, <1>9 DEF NumbersInv

LEMMA NumbersNext == Typed /\ Typed' /\ NumbersInv /\ [Next]_vars => NumbersInv'
<1> SUFFICES ASSUME Typed, Typed', NumbersInv, [Next]_vars PROVE NumbersInv'
  OBVIOUS
<1>0. /\ pod' = pod /\ conn' = conn => \A q \in Pod : PodMove(q)
      /\ op' = op => \A x \in Operator : OpMove(x)
  BY DEF PodMove, OpMove
<1>1. ASSUME NEW p \in Pod, PodAction(p) PROVE NumbersInv'
  <2>1. \A q \in Pod : PodMove(q)
    BY <1>1, PodMoves DEF PodAction
  <2>2. QueueStepFits /\ server' = server /\ legacy' = legacy /\ op' = op
    <3>1. CASE Step(p)
      BY <3>1, StepNumbers
    <3>2. CASE ConnectFails(p) \/ LinkFails(p) \/ Crash(p)
      BY <3>2, RowAsIs DEF ConnectFails, LinkFails, Crash
    <3> QED BY <1>1, <3>1, <3>2 DEF PodAction
  <2> QED BY <1>0, <2>1, <2>2, NumbersOfRows
<1>2. ASSUME NEW p \in Pod, Reap(p) PROVE NumbersInv'
  BY <1>0, <1>2, RowAsIs, NumbersOfRows DEF Reap
<1>3. ASSUME NEW o \in Operator, OpAction(o) PROVE NumbersInv'
  <2>1. \A x \in Operator : OpMove(x)
    BY <1>3, OpMoves DEF OpAction
  <2>2. server' = server /\ legacy' = legacy /\ pod' = pod /\ conn' = conn
    BY <1>3 DEF OpAction, BeginReconcile, ReconcileBaseline, CompleteReconcile, FailReconcile,
       AbandonReconcile
  <2>3. QueueStepFits
    <3>1. CASE ReconcileBaseline(o) \/ AbandonReconcile(o)
      BY <3>1, RowAsIs DEF ReconcileBaseline, AbandonReconcile
    <3> QED BY <1>3, <3>1, BeginReconcileNumbers, CompleteReconcileNumbers, FailReconcileNumbers
        DEF OpAction
  <2> QED BY <1>0, <2>1, <2>2, <2>3, NumbersOfRows
<1>4. CASE RowAction
  <2>1. QueueStepFits
    BY <1>4, SwitchNumbers, ResumeMigratedNumbers, ChangeMailboxNumbers DEF RowAction
  <2>2. server' = server /\ legacy' = legacy /\ pod' = pod /\ conn' = conn /\ op' = op
    BY <1>4 DEF RowAction, Switch, ResumeMigrated, ChangeMailbox
  <2> QED BY <1>0, <2>1, <2>2, NumbersOfRows
<1>5. CASE BoxAction
  BY <1>5, BoxActionSteps, NumbersOfServer DEF NumbersInv
<1>6. CASE UNCHANGED vars
  BY <1>0, <1>6, RowAsIs, NumbersOfRows DEF vars
<1> QED BY <1>1, <1>2, <1>3, <1>4, <1>5, <1>6, Actions

\* The numbers of every copy of the row are of the mailbox the copy names, and those of
\* the row of the one it is configured for (update's reset, the fences of the baselines).
THEOREM NumbersInvariant == Spec => [](TypeInv /\ NumbersInv)
<1>1. Init => NumbersInv
  BY TypeInit, NumbersInit
<1>2. Typed /\ NumbersInv /\ [Next]_vars => NumbersInv'
  BY TypeNext, NumbersNext
<1> QED BY <1>1, <1>2, TypeCorrect, TypeInvIsTyped, PTL DEF Spec

\* A queue that is polled counts by the UIDVALIDITY of the mailbox it is configured for,
\* whoever wrote the numbers (the CAS of a baseline and of a reconcile).
THEOREM NumbersAreOfTheMailbox == Spec => []CursorIsOfTheMailbox
<1>1. NumbersInv => CursorIsOfTheMailbox
  BY DEF NumbersInv, RowFits, CursorIsOfTheMailbox
<1> QED BY <1>1, NumbersInvariant, PTL

--------------------------------------------------------------------------------
\* The capture.

\* Only a poll that may take mail of the queue begins a batch.
PcMove(q) ==
    pod'[q].pc \in Batch \cup {"open", "halt"} =>
        /\ mode'[q] = mode[q]
        /\ pod[q].pc \in Batch \cup {"open", "halt"} \/ (queue.retired => Capture(q))

\* A step is that of one process.
LEMMA OthersStay ==
    ASSUME Typed, NEW p \in Pod, PodAction(p), NEW q \in Pod, q # p
    PROVE  pod'[q] = pod[q] /\ conn'[q] = conn[q] /\ mode'[q] = mode[q]
<1>1. CASE Step(p)
  <2>1. pod'[q] = pod[q]
    <3>1. CASE Supervise(p) \/ Arm(p) \/ Connect(p) \/ Poll(p) \/ Halt(p) \/ Advance(p)
      BY <3>1 DEF Supervise, Arm, Connect, Poll, Halt, Advance, Rest, Typed
    <3>2. CASE BootstrapReads(p) \/ TakeBaseline(p) \/ StoreBaseline(p)
      BY <3>2 DEF BootstrapReads, TakeBaseline, StoreBaseline, Rest, Bootstrapped,
         BootstrapThrows, Typed
    <3>3. CASE Discover(p) \/ Reserve(p) \/ LinkIsGone(p)
      BY <3>3 DEF Discover, Reserve, LinkIsGone, Rest, Go, Failed, Typed
    <3>4. CASE Fetch(p) \/ Accept(p)
      <4>1. ASSUME NEW u, Failed(p, u) \/ Taken(p, u) \/ Go(p, "advance") PROVE pod'[q] = pod[q]
        BY <4>1 DEF Failed, Taken, Go, Typed
      <4>2. ASSUME NEW u, NEW l \in BOOLEAN, Fetched(p, u, l) PROVE pod'[q] = pod[q]
        BY <4>2 DEF Fetched, Typed
      <4>3. CASE Fetch(p)
        BY <4>1, <4>2, <4>3 DEF Fetch
      <4>4. CASE Accept(p)
        <5>1. Failed(p, pod[p].now) \/ Taken(p, pod[p].now)
          BY <4>4 DEF Accept
        <5> QED BY <4>1, <5>1
      <4> QED BY <3>4, <4>3, <4>4
    <3> QED BY <1>1, <3>1, <3>2, <3>3, <3>4 DEF Step
  <2>2. conn'[q] = conn[q] /\ mode' = mode
    BY <1>1 DEF Step, Supervise, Arm, Connect, BootstrapReads, TakeBaseline, StoreBaseline,
       Poll, Discover, Halt, Fetch, Reserve, Accept, Advance, LinkIsGone,
       BootstrapThrows, Drop, Typed
  <2> QED BY <2>1, <2>2
<1>2. CASE ConnectFails(p) \/ LinkFails(p) \/ Crash(p)
  BY <1>2 DEF ConnectFails, LinkFails, Crash, Rest, Drop, Typed
<1> QED BY <1>1, <1>2 DEF PodAction

\* Outside a batch a process stays outside.
LEMMA PcOutside ==
    ASSUME Typed, NEW p \in Pod,
           \/ Supervise(p) \/ Arm(p) \/ Connect(p) \/ BootstrapReads(p) \/ TakeBaseline(p)
           \/ StoreBaseline(p) \/ Halt(p) \/ Advance(p) \/ ConnectFails(p) \/ Crash(p)
    PROVE  pod'[p].pc \notin Batch \cup {"open", "halt"}
<1>0. ASSUME NEW b, pod' = [pod EXCEPT ![p] = b],
             b.pc \in {"idle", "arm", "connect", "bootstrap", "baseline", "store", "poll"}
      PROVE  pod'[p].pc \notin Batch \cup {"open", "halt"}
  BY <1>0 DEF Typed, Batch
<1>1. CASE Rest(p)
  BY <1>0, <1>1, IdleWorks DEF Rest
<1>2. CASE Bootstrapped(p)
  <2> DEFINE b == IF pod[p].connecting THEN [IdlePod EXCEPT !.pc = "poll"] ELSE IdlePod
  <2>1. pod' = [pod EXCEPT ![p] = b]
    BY <1>2 DEF Bootstrapped
  <2>2. b.pc \in {"poll", "idle"}
    BY DEF IdlePod
  <2> HIDE DEF b
  <2> QED BY <1>0, <2>1, <2>2
<1>3. CASE Supervise(p)
  BY <1>3, IdleWorks DEF Supervise, Batch, IdlePod, Typed
<1>4. CASE Arm(p)
  <2>1. CASE pod' = [pod EXCEPT ![p].pc = "connect", ![p].armed = ~queue.retired]
    <3> DEFINE b == [pod[p] EXCEPT !.pc = "connect", !.armed = ~queue.retired]
    <3>1. pod' = [pod EXCEPT ![p] = b]
      BY <2>1 DEF Typed
    <3>2. b.pc = "connect"
      BY PodFacts DEF PodRecord
    <3> HIDE DEF b
    <3> QED BY <1>0, <3>1, <3>2
  <2> QED BY <1>1, <1>4, <2>1 DEF Arm
<1>5. CASE Connect(p)
  <2> DEFINE b == [pod[p] EXCEPT !.pc = "bootstrap", !.connecting = TRUE]
  <2>1. pod' = [pod EXCEPT ![p] = b]
    BY <1>5 DEF Connect, Typed
  <2>2. b.pc = "bootstrap"
    BY PodFacts DEF PodRecord
  <2> HIDE DEF b
  <2> QED BY <1>0, <2>1, <2>2
<1>6. CASE BootstrapReads(p)
  <2>1. CASE pod' = [pod EXCEPT ![p].pc = "baseline", ![p].row = queue]
    <3> DEFINE b == [pod[p] EXCEPT !.pc = "baseline", !.row = queue]
    <3>1. pod' = [pod EXCEPT ![p] = b]
      BY <2>1 DEF Typed
    <3>2. b.pc = "baseline"
      BY PodFacts DEF PodRecord
    <3> HIDE DEF b
    <3> QED BY <1>0, <3>1, <3>2
  <2> QED BY <1>1, <1>2, <1>6, <2>1 DEF BootstrapReads, BootstrapThrows
<1>7. CASE TakeBaseline(p)
  <2>1. ASSUME NEW n \in Backfill,
               pod' = [pod EXCEPT ![p].pc = "store", ![p].base = BaselineOf(conn[p], n)]
        PROVE  pod'[p].pc \notin Batch \cup {"open", "halt"}
    <3> DEFINE base == BaselineOf(conn[p], n)
               b == [pod[p] EXCEPT !.pc = "store", !.base = base]
    <3> HIDE DEF base
    <3>1. pod' = [pod EXCEPT ![p] = b]
      BY <2>1 DEF Typed, base
    <3>2. b.pc = "store"
      BY PodFacts DEF PodRecord
    <3> HIDE DEF b
    <3> QED BY <1>0, <3>1, <3>2
  <2> QED BY <1>1, <1>2, <1>7, <2>1 DEF TakeBaseline, BootstrapThrows
<1>8. CASE StoreBaseline(p) \/ Halt(p) \/ Advance(p) \/ ConnectFails(p) \/ Crash(p)
  BY <1>1, <1>2, <1>8 DEF StoreBaseline, Halt, Advance, ConnectFails, Crash
<1> QED BY <1>3, <1>4, <1>5, <1>6, <1>7, <1>8

LEMMA PcMoves ==
    ASSUME Typed, NEW p \in Pod, PodAction(p), NEW q \in Pod
    PROVE  PcMove(q)
<1>1. CASE q # p
  BY <1>1, OthersStay DEF PcMove
<1>2. CASE q = p /\ pod'[p].pc \notin Batch \cup {"open", "halt"}
  BY <1>2 DEF PcMove
<1>3. CASE q = p /\ Poll(p)
  BY <1>3, IdleWorks DEF Poll, PcMove, Batch, IdlePod, Typed
<1>4. CASE q = p /\ (Discover(p) \/ Fetch(p) \/ Reserve(p) \/ Accept(p))
  <2>1. pod[p].pc \in Batch \cup {"open", "halt"} /\ mode' = mode
    BY <1>4 DEF Discover, Fetch, Reserve, Accept, At, Batch
  <2> QED BY <1>4, <2>1 DEF PcMove
<1>5. CASE q = p /\ LinkIsGone(p)
  <2>1. CASE At(p, "fetch")
    BY <1>5, <2>1 DEF LinkIsGone, At, Batch, PcMove
  <2>2. CASE Rest(p)
    BY <1>5, <2>2, IdleWorks DEF Rest, Batch, PcMove, Typed
  <2> QED BY <1>5, <2>1, <2>2 DEF LinkIsGone
<1>6. CASE LinkFails(p)
  BY <1>6 DEF LinkFails, PcMove
<1> QED BY <1>1, <1>2, <1>3, <1>4, <1>5, <1>6, PcOutside DEF PodAction, Step

\* The queue is not retired by the step, and nothing comes to the ledger.
LEMMA CaptureStays ==
    ASSUME Typed, CaptureInv, queue'.retired => queue.retired, ledger' = ledger,
           stages' \subseteq stages, \A q \in Pod : PcMove(q)
    PROVE  CaptureInv'
<1>1. ASSUME queue'.retired, NEW q \in stages', pod'[q].pc \in Batch \cup {"open", "halt"}
      PROVE  mode'[q] = "capture"
  BY <1>1 DEF PcMove, CaptureInv, Capture, Typed
<1>2. "accept" \in Batch
  BY DEF Batch
<1> QED BY <1>1, <1>2 DEF CaptureInv, CaptureIsClosed, At, Capture

LEMMA CaptureNext == Typed /\ CaptureInv /\ [Next]_vars => CaptureInv'
<1> SUFFICES ASSUME Typed, CaptureInv, [Next]_vars PROVE CaptureInv'
  OBVIOUS
<1>0. pod' = pod /\ mode' = mode => \A q \in Pod : PcMove(q)
  BY DEF PcMove
<1>1. ASSUME NEW p \in Pod, PodAction(p) PROVE CaptureInv'
  <2>0. \A q \in Pod : PcMove(q)
    BY <1>1, PcMoves
  <2>1. CASE Arm(p)
    <3>1. CASE queue' = [queue EXCEPT !.retired = TRUE] /\ ~queue.retired
      <4>1. ledger' = {} /\ stages' = {}
        BY <2>1, <3>1 DEF Arm, Virgin, Typed, Row
      <4>2. Cardinality({}) = 0
        BY FS_EmptySet
      <4> QED BY <4>1, <4>2 DEF CaptureInv, CaptureIsClosed
    <3>2. CASE queue' = [queue EXCEPT !.retired = TRUE] /\ queue.retired
      BY <2>0, <2>1, <3>2, CaptureStays DEF Arm
    <3>3. CASE queue' = queue
      BY <2>0, <2>1, <3>3, CaptureStays DEF Arm
    <3> QED BY <2>1, <3>1, <3>2, <3>3 DEF Arm
  <2>2. CASE Reserve(p)
    <3>1. queue' = queue /\ ledger' = ledger /\ mode' = mode
      BY <2>2 DEF Reserve
    <3>2. CASE stages' = stages
      BY <2>0, <3>1, <3>2, CaptureStays
    <3>3. CASE stages' = stages \cup {p} /\ queue.retired = Capture(p)
      <4>1. ASSUME queue.retired, NEW q \in stages', pod'[q].pc \in Batch \cup {"open", "halt"}
            PROVE  mode'[q] = "capture"
        BY <2>0, <3>1, <3>3, <4>1 DEF PcMove, CaptureInv, Capture, Typed
      <4>2. "accept" \in Batch
        BY DEF Batch
      <4> QED BY <3>1, <4>1, <4>2 DEF CaptureInv, CaptureIsClosed, At, Capture
    <3> QED BY <2>2, <3>2, <3>3 DEF Reserve
  <2>3. CASE Accept(p)
    <3>1. queue'.retired = queue.retired /\ stages' \subseteq stages /\ mode' = mode
      BY <2>3 DEF Accept, Halted, Typed, Row
    <3>2. CASE ledger' = ledger
      BY <2>0, <3>1, <3>2, CaptureStays
    <3>3. ASSUME NEW d, ledger' = ledger \cup {d}, queue.retired = Capture(p),
                 Capture(p) => ledger = {} /\ d.state = "CAPTURED"
          PROVE  CaptureInv'
      <4>1. ASSUME queue'.retired
            PROVE  Cardinality(ledger') <= 1 /\ \A e \in ledger' : e.state = "CAPTURED"
        <5>1. ledger' = {d} /\ d.state = "CAPTURED"
          BY <3>1, <3>3, <4>1
        <5>2. Cardinality({d}) = 1
          BY FS_Singleton
        <5> QED BY <5>1, <5>2
      <4>2. ASSUME queue'.retired, NEW q \in stages', pod'[q].pc \in Batch \cup {"open", "halt"}
            PROVE  mode'[q] = "capture"
        BY <2>0, <3>1, <4>2 DEF PcMove, CaptureInv, Capture, Typed
      <4>3. "accept" \in Batch
        BY DEF Batch
      <4> QED BY <4>1, <4>2, <4>3 DEF CaptureInv, CaptureIsClosed, At, Capture
    <3>4. \/ ledger' = ledger
          \/ \E d : /\ ledger' = ledger \cup {d} /\ queue.retired = Capture(p)
                    /\ Capture(p) => ledger = {} /\ d.state = "CAPTURED"
      <4> DEFINE delivery == [epoch |-> pod[p].row.epoch, validity |-> pod[p].row.validity,
                              uid |-> pod[p].now, from |-> pod[p].from,
                              replaced |-> pod[p].replaced,
                              state |-> IF Capture(p) THEN "CAPTURED" ELSE "ACCEPTED"]
      <4>1. Capture(p) => delivery.state = "CAPTURED"
        OBVIOUS
      <4>2. \/ ledger' = ledger
            \/ /\ ledger' = ledger \cup {delivery} /\ Fence(p)
               /\ ~(Capture(p) /\ ledger # {})
        BY <2>3 DEF Accept
      <4> HIDE DEF delivery
      <4> QED BY <4>1, <4>2 DEF Fence
    <3> QED BY <3>2, <3>3, <3>4
  <2>4. CASE ~Arm(p) /\ ~Reserve(p) /\ ~Accept(p)
    <3>1. stages' = stages /\ ledger' = ledger
      BY <1>1, <2>4 DEF PodAction, Step, Supervise, Connect, BootstrapReads, TakeBaseline,
         StoreBaseline, Poll, Discover, Halt, Fetch, Advance, LinkIsGone, ConnectFails,
         LinkFails, Crash
    <3>2. \/ queue' = queue \/ queue' = [queue EXCEPT !.cursor = Frontier(p)]
          \/ queue' = [queue EXCEPT !.validity = pod[p].base.validity,
                                    !.cursor = pod[p].base.cursor]
          \/ queue' = [queue EXCEPT !.sync = "NEEDS", !.cause = "UIDVALIDITY_CHANGED"]
      BY <1>1, <2>4 DEF PodAction, Step, Supervise, Connect, BootstrapReads, TakeBaseline,
         StoreBaseline, Poll, Discover, Halt, Halted, Fetch, Advance, LinkIsGone, ConnectFails,
         LinkFails, Crash
    <3>3. queue'.retired = queue.retired
      <4>1. DOMAIN queue = DOMAIN [queue EXCEPT !.cursor = Frontier(p)] /\ "retired" \in DOMAIN queue
        BY DEF Typed, Row
      <4>2. CASE queue' = queue
        BY <4>2
      <4>3. CASE queue' = [queue EXCEPT !.cursor = Frontier(p)]
        BY <4>1, <4>3
      <4>4. CASE queue' = [queue EXCEPT !.validity = pod[p].base.validity,
                                        !.cursor = pod[p].base.cursor]
        BY <4>1, <4>4
      <4>5. CASE queue' = [queue EXCEPT !.sync = "NEEDS", !.cause = "UIDVALIDITY_CHANGED"]
        BY <4>1, <4>5
      <4> QED BY <3>2, <4>2, <4>3, <4>4, <4>5
    <3> QED BY <2>0, <3>1, <3>3, CaptureStays
  <2> QED BY <2>1, <2>2, <2>3, <2>4
<1>2. ASSUME NEW p \in Pod, Reap(p) PROVE CaptureInv'
  BY <1>0, <1>2, CaptureStays DEF Reap
<1>3. ASSUME NEW o \in Operator, OpAction(o) PROVE CaptureInv'
  <2>1. queue'.retired = queue.retired
    <3>1. CASE BeginReconcile(o) \/ FailReconcile(o)
      BY <3>1 DEF BeginReconcile, FailReconcile, Typed, Row
    <3>2. CASE CompleteReconcile(o)
      BY <3>2 DEF CompleteReconcile, Typed, Row
    <3> QED BY <1>3, <3>1, <3>2 DEF OpAction, ReconcileBaseline, AbandonReconcile
  <2>2. pod' = pod /\ mode' = mode /\ ledger' = ledger /\ stages' = stages
    BY <1>3 DEF OpAction, BeginReconcile, ReconcileBaseline, CompleteReconcile, FailReconcile,
       AbandonReconcile
  <2> QED BY <1>0, <2>1, <2>2, CaptureStays
<1>4. CASE RowAction
  <2>1. queue'.retired = queue.retired
    <3>1. CASE Switch
      BY <3>1 DEF Switch, Typed, Row
    <3>2. CASE ResumeMigrated
      BY <3>2 DEF ResumeMigrated, Typed, Row
    <3>3. ASSUME NEW a \in Account, ChangeMailbox(a) PROVE queue'.retired = queue.retired
      BY <3>3 DEF ChangeMailbox, Halted, Typed, Row
    <3> QED BY <1>4, <3>1, <3>2, <3>3 DEF RowAction
  <2> QED BY <1>0, <1>4, <2>1, CaptureStays DEF RowAction, Switch, ResumeMigrated, ChangeMailbox
<1>5. CASE BoxAction
  BY <1>0, <1>5, CaptureStays DEF BoxAction, Deliver, Renumber, Expunge, Replace
<1>6. CASE UNCHANGED vars
  BY <1>0, <1>6, CaptureStays DEF vars
<1> QED BY <1>1, <1>2, <1>3, <1>4, <1>5, <1>6, Actions

LEMMA CaptureInit == Init => CaptureInv
<1>1. FreshRow.retired = FALSE
  BY DEF FreshRow
<1>2. MigratedRow.retired = FALSE
  BY DEF MigratedRow, FreshRow
<1>3. ASSUME Init PROVE ~queue.retired
  <2>1. CASE queue = FreshRow
    BY <1>1, <2>1
  <2>2. CASE queue = MigratedRow
    BY <1>2, <2>2
  <2> QED BY <1>3, <2>1, <2>2 DEF Init
<1> QED BY <1>3 DEF CaptureInv, CaptureIsClosed

\* A queue that was armed holds at most the one message that was captured, and no normal
\* process has staged bytes for it (armImapCapture, acceptImapMessage's retired fence).
THEOREM CaptureStaysClosed == Spec => []CaptureIsClosed
<1>1. Init => Typed /\ CaptureInv
  BY TypeInit, CaptureInit
<1>2. Typed /\ CaptureInv /\ [Next]_vars => Typed' /\ CaptureInv'
  BY TypeNext, CaptureNext
<1>3. CaptureInv => CaptureIsClosed
  BY DEF CaptureInv
<1> QED BY <1>1, <1>2, <1>3, PTL DEF Spec

--------------------------------------------------------------------------------
\* How the row moves.

Rewinds ==
    queue'.gen = queue.gen /\ queue.validity # 0 =>
        queue'.cursor >= queue.cursor /\ queue'.validity = queue.validity
Resumes ==
    queue.sync # "OK" /\ queue'.sync = "OK" =>
        \/ queue'.gen = queue.gen + 1 /\ queue.cause = "LEGACY_MIGRATION"
        \/ \E o \in Operator : op[o].pc = "complete" /\ op[o].row.gen = queue.gen
                               /\ op[o].row.account = queue.account

LEMMA RowForward == Typed /\ NumbersInv /\ [Next]_vars => Rewinds /\ Resumes
<1> SUFFICES ASSUME Typed, NumbersInv, [Next]_vars PROVE Rewinds /\ Resumes
  OBVIOUS
<1>0. queue.cursor \in Nat /\ queue.gen \in Nat
  <2>1. queue.gen \in 0..MaxGen
    BY RowFacts DEF Typed
  <2> QED BY <2>1, RowFacts, BoundAssumption DEF Typed
<1>1. ASSUME queue'.cursor = queue.cursor, queue'.validity = queue.validity,
             queue'.sync = "OK" => queue.sync = "OK"
      PROVE  Rewinds /\ Resumes
  BY <1>0, <1>1 DEF Rewinds, Resumes
<1>2. CASE queue' = queue
  BY <1>1, <1>2
<1>3. ASSUME NEW p \in Pod, PodAction(p) PROVE Rewinds /\ Resumes
  <2>1. CASE Arm(p)
    <3>1. queue' \in {queue, [queue EXCEPT !.retired = TRUE]}
      BY <2>1 DEF Arm
    <3> QED BY <1>1, <3>1 DEF Typed, Row
  <2>2. CASE StoreBaseline(p)
    <3>1. CASE queue' # queue
      <4>1. queue' = [queue EXCEPT !.validity = pod[p].base.validity,
                                   !.cursor = pod[p].base.cursor] /\ queue.validity = 0
        BY <2>2, <3>1, StoreBaselineNumbers
      <4>2. queue'.sync = queue.sync
        BY <4>1 DEF Typed, Row
      <4> QED BY <4>1, <4>2 DEF Rewinds, Resumes
    <3> QED BY <1>2, <3>1
  <2>3. CASE Halt(p)
    <3>1. queue' \in {queue, [queue EXCEPT !.sync = "NEEDS", !.cause = "UIDVALIDITY_CHANGED"]}
      BY <2>3 DEF Halt, Halted
    <3> QED BY <1>1, <3>1 DEF Typed, Row
  <2>4. CASE Accept(p)
    <3>1. queue' \in {queue, [queue EXCEPT !.enabled = ~Capture(p)],
                      [queue EXCEPT !.sync = "NEEDS", !.cause = "TRANSPORT_COLLISION"]}
      BY <2>4 DEF Accept, Halted
    <3> QED BY <1>1, <3>1 DEF Typed, Row
  <2>5. CASE Advance(p)
    <3>1. CASE queue' # queue
      <4>1. /\ queue' = [queue EXCEPT !.cursor = Frontier(p)]
            /\ Frontier(p) > pod[p].row.cursor /\ queue.cursor = pod[p].row.cursor
        BY <2>5, <3>1 DEF Advance
      <4>2. queue'.cursor = Frontier(p) /\ queue'.validity = queue.validity /\ queue'.sync = queue.sync
        BY <4>1 DEF Typed, Row
      <4>3. Frontier(p) \in Nat
        BY FrontierType, BoundAssumption
      <4> QED BY <1>0, <4>1, <4>2, <4>3 DEF Rewinds, Resumes
    <3> QED BY <1>2, <3>1
  <2>6. \/ queue' = queue \/ Arm(p) \/ StoreBaseline(p) \/ Halt(p) \/ Accept(p) \/ Advance(p)
    BY <1>3 DEF PodAction, Step, Supervise, Connect, BootstrapReads, TakeBaseline, Poll, Discover,
       Fetch, Reserve, LinkIsGone, ConnectFails, LinkFails, Crash
  <2> QED BY <1>2, <2>1, <2>2, <2>3, <2>4, <2>5, <2>6
<1>4. ASSUME NEW o \in Operator, OpAction(o) PROVE Rewinds /\ Resumes
  <2>1. CASE BeginReconcile(o)
    BY <1>0, <2>1, BeginReconcileNumbers DEF Rewinds, Resumes
  <2>2. CASE CompleteReconcile(o)
    <3>1. CASE queue' # queue
      BY <2>2, <3>1, CompleteReconcileNumbers DEF CompleteReconcile, Rewinds, Resumes
    <3> QED BY <1>2, <3>1
  <2>3. CASE FailReconcile(o)
    <3>1. queue' \in {queue, [queue EXCEPT !.sync = "NEEDS"]}
      BY <2>3 DEF FailReconcile
    <3> QED BY <1>1, <3>1 DEF Typed, Row
  <2>4. CASE ReconcileBaseline(o) \/ AbandonReconcile(o)
    BY <1>2, <2>4 DEF ReconcileBaseline, AbandonReconcile
  <2> QED BY <1>4, <2>1, <2>2, <2>3, <2>4 DEF OpAction
<1>5. CASE RowAction
  <2>1. CASE Switch
    <3>1. queue' = [queue EXCEPT !.enabled = ~queue.enabled, !.config = queue.config + 1]
      BY <2>1 DEF Switch
    <3> QED BY <1>1, <3>1 DEF Typed, Row
  <2>2. CASE ResumeMigrated
    BY <1>0, <2>2, ResumeMigratedNumbers DEF Rewinds, Resumes
  <2>3. ASSUME NEW a \in Account, ChangeMailbox(a) PROVE Rewinds /\ Resumes
    BY <1>0, <2>3, ChangeMailboxNumbers DEF Rewinds, Resumes
  <2> QED BY <1>5, <2>1, <2>2, <2>3 DEF RowAction
<1>6. CASE (\E p \in Pod : Reap(p)) \/ BoxAction \/ UNCHANGED vars
  BY <1>2, <1>6 DEF Reap, BoxAction, Deliver, Renumber, Expunge, Replace, vars
<1> QED BY <1>3, <1>4, <1>5, <1>6, Actions

\* Within a cursor generation the numbers stay and the cursor goes up only, and a halted
\* queue is polled again only through a reconcile (pollQueueOnce's and haltImapSnapshot's
\* fences, the CAS of the reconciles), whatever stale copy of the row anyone holds.
THEOREM RowForwardOnly == Spec => RowMovesForward
<1>1. Typed /\ NumbersInv /\ [Next]_vars =>
        [queue'.gen = queue.gen /\ queue.validity # 0 =>
           queue'.cursor >= queue.cursor /\ queue'.validity = queue.validity]_vars
  BY RowForward DEF Rewinds
<1>2. Typed /\ NumbersInv /\ [Next]_vars =>
        [queue.sync # "OK" /\ queue'.sync = "OK" =>
           \/ queue'.gen = queue.gen + 1 /\ queue.cause = "LEGACY_MIGRATION"
           \/ \E o \in Operator : op[o].pc = "complete" /\ op[o].row.gen = queue.gen
                                  /\ op[o].row.account = queue.account]_vars
  BY RowForward DEF Resumes
<1>3. Spec => [](Typed /\ NumbersInv)
  BY NumbersInvariant, TypeInvIsTyped, PTL
<1> QED BY <1>1, <1>2, <1>3, PTL
    DEF Spec, RowMovesForward, CursorNeverRewinds, OnlyAReconcileResumes

--------------------------------------------------------------------------------
\* The mail.

LEMMA KeptGrows ==
    ASSUME NEW s, NEW l, NEW m, NEW e, NEW f, NEW a, NEW u, l \subseteq m, e \subseteq f,
           Kept(s, l, e, a, u)
    PROVE  Kept(s, m, f, a, u)
BY DEF Kept

\* What is kept stays so while its mailbox has the UID with these bytes.
LEMMA KeptTime ==
    ASSUME NEW s, NEW t, NEW l, NEW e, NEW a, NEW u, t[a].validity = s[a].validity,
           (u \in t[a].replaced) = (u \in s[a].replaced), Kept(s, l, e, a, u)
    PROVE  Kept(t, l, e, a, u)
BY DEF Kept

LEMMA BatchGrows ==
    ASSUME NEW c, NEW d, NEW s, NEW l, NEW m, NEW e, NEW f, NEW b,
           l \subseteq m, e \subseteq f, d \in {c, None}, BatchFits(c, s, l, e, b)
    PROVE  BatchFits(d, s, m, f, b)
<1>1. \A a, u : Kept(s, l, e, a, u) => Kept(s, m, f, a, u)
  BY KeptGrows
<1> QED BY <1>1 DEF BatchFits, BatchKeeps

\* A row without numbers says nothing of a mailbox.
LEMMA Unnumbered ==
    ASSUME Typed, BoxesFit(server), NEW r \in Row, r.validity = 0
    PROVE  CursorFits(server, r) /\ \A l, e : QueueKeeps(r, server, l, e)
<1>1. server[r.account].validity # 0
  BY RowFacts, ValidityFacts DEF BoxesFit
<1> QED BY <1>1 DEF CursorFits, QueueKeeps

LEMMA PodRowsFit ==
    ASSUME Typed, NumbersInv, MailInv, NEW q \in Pod, PodMove(q)
    PROVE  Clean(crossed, pod'[q].row) => CursorFits(server, pod'[q].row)
<1>1. FreshRow.validity = 0
  BY DEF FreshRow
<1>2. CursorFits(server, FreshRow)
  BY <1>1, FreshRowType, Unnumbered DEF NumbersInv
<1> QED BY <1>2 DEF PodMove, MailInv

\* What a step without the mailboxes has to show.
RowKeeps ==
    /\ EpochIsOneMailbox' /\ LedgerFits(queue', ledger', crossed')
    /\ Clean(crossed', queue') => /\ CursorFits(server, queue')
                                 /\ QueueKeeps(queue', server, ledger', excluded')

LEMMA CrossedStays ==
    ASSUME NEW c, NEW d, c \subseteq d
    PROVE  /\ \A e : CrossedAt(c, e) => CrossedAt(d, e)
           /\ \A r : Clean(d, r) => Clean(c, r)
BY DEF CrossedAt, Clean

\* The ledger stays, for a row of the same epoch.
LEMMA EpochsStay ==
    ASSUME MailInv, queue'.account = queue.account, queue'.epoch = queue.epoch,
           ledger' = ledger, crossed \subseteq crossed'
    PROVE  EpochIsOneMailbox' /\ LedgerFits(queue', ledger', crossed')
<1>1. \A e : CrossedAt(crossed, e) => CrossedAt(crossed', e)
  BY CrossedStays
<1>2. EpochIsOneMailbox'
  BY <1>1 DEF MailInv, EpochIsOneMailbox, CrossedIn, CrossedAt
<1> QED BY <1>1, <1>2 DEF MailInv, LedgerFits

LEMMA MailOfRows ==
    ASSUME Typed, NumbersInv, MailInv, server' = server, ledger \subseteq ledger',
           excluded \subseteq excluded', crossed \subseteq crossed', RowKeeps, NEW p,
           \A q \in Pod : PodMove(q),
           \A q \in Pod : q # p => pod'[q] = pod[q] /\ conn'[q] \in {conn[q], None},
           p \in Pod /\ Clean(crossed', pod'[p].row) =>
             BatchFits(conn'[p], server, ledger', excluded', pod'[p])
    PROVE  MailInv'
<1>0. \A r : Clean(crossed', r) => Clean(crossed, r)
  BY CrossedStays
<1>1. \A q \in Pod : Clean(crossed', pod'[q].row) => CursorFits(server, pod'[q].row)
  BY <1>0, PodRowsFit
<1>2. ASSUME NEW q \in Pod, Clean(crossed', pod'[q].row)
      PROVE  BatchFits(conn'[q], server, ledger', excluded', pod'[q])
  <2>1. CASE q # p
    BY <1>0, <1>2, <2>1, BatchGrows DEF MailInv
  <2> QED BY <1>2, <2>1
<1> QED BY <1>1, <1>2 DEF MailInv, RowKeeps

\* The row goes on with its numbers, and nothing comes to the ledger.
LEMMA RowKeepsNumbers ==
    ASSUME Typed, MailInv, queue'.account = queue.account, queue'.epoch = queue.epoch,
           queue'.gen = queue.gen,
           queue'.validity = queue.validity, queue'.cursor = queue.cursor,
           ledger' = ledger, excluded' = excluded, crossed \subseteq crossed'
    PROVE  RowKeeps
<1>1. Clean(crossed', queue') => Clean(crossed, queue)
  BY DEF Clean
<1> QED BY <1>1, EpochsStay DEF MailInv, RowKeeps, CursorFits, QueueKeeps

LEMMA RowKeepsItself ==
    ASSUME Typed, MailInv, queue' = queue, ledger' = ledger, excluded' = excluded,
           crossed \subseteq crossed'
    PROVE  RowKeeps
BY RowKeepsNumbers

\* Numbers of a baseline of its mailbox, whose messages are put behind the cursor.
LEMMA BaselineKeeps ==
    ASSUME Typed, NumbersInv, MailInv, NEW b \in Baseline, BaseFits(server, b), b.from \in Account,
           queue'.account = b.from, queue.account = b.from, queue'.epoch = queue.epoch,
           queue'.validity = b.validity, queue'.cursor = b.cursor,
           ledger' = ledger, excluded' = excluded \cup Skipped(b), crossed' = crossed
    PROVE  RowKeeps
<1>1. b.from # None
  BY HomeAssumption
<1>2. ASSUME b.validity = server[b.from].validity
      PROVE  /\ b.cursor < server[b.from].next
             /\ \A u \in server[b.from].mail : u <= b.cursor =>
                  <<b.from, server[b.from].validity, u>> \in excluded'
  BY <1>1, <1>2 DEF BaseFits, Skipped
<1> QED BY <1>2, EpochsStay DEF RowKeeps, CursorFits, QueueKeeps, Kept

LEMMA StoreBaselineKeeps ==
    ASSUME Typed, NumbersInv, MailInv, NEW p \in Pod, StoreBaseline(p)
    PROVE  RowKeeps
<1>1. CASE queue' = queue
  <2>1. excluded' = excluded
    <3>1. CASE excluded' # excluded
      <4>1. /\ queue' = [queue EXCEPT !.validity = pod[p].base.validity, !.cursor = pod[p].base.cursor]
            /\ Fence(p) /\ queue.validity = 0
        BY <3>1 DEF StoreBaseline
      <4>2. queue'.validity = pod[p].base.validity
        BY <4>1 DEF Typed, Row
      <4>3. pod[p].base.from \in Account
        BY PodFacts DEF StoreBaseline, At, PodWorks
      <4>4. pod[p].base.validity # 0
        BY <4>3, HomeAssumption, ValidityFacts DEF NumbersInv, BaseFits
      <4> QED BY <1>1, <4>1, <4>2, <4>4
    <3> QED BY <3>1
  <2> QED BY <1>1, <2>1, RowKeepsItself DEF StoreBaseline
<1>2. CASE queue' # queue
  <2> DEFINE b == pod[p].base
  <2>1. /\ queue' = [queue EXCEPT !.validity = b.validity, !.cursor = b.cursor]
        /\ b.from = queue.account /\ excluded' = excluded \cup Skipped(b)
    BY <1>2, StoreBaselineNumbers
  <2>2. /\ queue'.account = queue.account /\ queue'.epoch = queue.epoch
        /\ queue'.validity = b.validity /\ queue'.cursor = b.cursor
    BY <2>1 DEF Typed, Row
  <2>3. b \in Baseline /\ BaseFits(server, b) /\ queue.account \in Account
    BY PodFacts DEF NumbersInv
  <2>4. ledger' = ledger /\ crossed' = crossed
    BY DEF StoreBaseline
  <2> HIDE DEF b
  <2> QED BY <2>1, <2>2, <2>3, <2>4, BaselineKeeps
<1> QED BY <1>1, <1>2

LEMMA CompleteReconcileKeeps ==
    ASSUME Typed, NumbersInv, MailInv, NEW o \in Operator, CompleteReconcile(o)
    PROVE  RowKeeps
<1> DEFINE b == op[o].base
<1>1. CASE queue' = queue /\ excluded' = excluded
  BY <1>1, RowKeepsItself DEF CompleteReconcile
<1>2. CASE /\ Own(o)
           /\ queue' = [queue EXCEPT !.validity = b.validity, !.cursor = b.cursor,
                                     !.sync = "OK", !.cause = "none"]
           /\ excluded' = excluded \cup Skipped(b)
  <2>1. queue'.sync = "OK" /\ queue.sync = "BOOTSTRAPPING"
    BY <1>2 DEF Own, Typed, Row
  <2>2. queue' # queue
    BY <2>1
  <2>3. b.from = queue.account
    BY <2>2, CompleteReconcileNumbers
  <2>4. /\ queue'.account = queue.account /\ queue'.epoch = queue.epoch /\ queue'.gen = queue.gen
        /\ queue'.validity = b.validity /\ queue'.cursor = b.cursor
    BY <1>2 DEF Typed, Row
  <2>5. b \in Baseline /\ BaseFits(server, b) /\ queue.account \in Account
    BY OpFacts, RowFacts DEF NumbersInv, Typed
  <2>6. ledger' = ledger /\ crossed' = crossed
    BY DEF CompleteReconcile
  <2> HIDE DEF b
  <2> QED BY <1>2, <2>3, <2>4, <2>5, <2>6, BaselineKeeps
<1> QED BY <1>1, <1>2 DEF CompleteReconcile

LEMMA ResumeMigratedKeeps ==
    ASSUME Typed, NumbersInv, MailInv, ResumeMigrated PROVE RowKeeps
<1>1. /\ queue.account = Home /\ queue'.account = Home
      /\ queue'.validity = legacy.validity /\ queue'.cursor = ResumeCursor
  BY ResumeMigratedNumbers
<1>2. queue'.epoch = queue.epoch
  BY DEF ResumeMigrated, Typed, Row
<1>3. /\ ResumeCursor \in 0..MaxUid /\ ResumeCursor <= legacy.watermark
      /\ \A u \in legacy.pending : ResumeCursor < u
  BY ResumeCursorFacts
<1>4. /\ legacy.watermark \in Nat /\ ResumeCursor \in Nat /\ legacy.pending \subseteq Nat
      /\ server[Home].next \in Nat /\ server[Home].mail \subseteq Uid
  <2>1. legacy.watermark \in 0..MaxUid /\ legacy.pending \subseteq Uid
    BY DEF Typed
  <2>2. \A i \in 0..MaxUid : i \in Nat
    BY BoundAssumption
  <2>3. Uid \subseteq Nat
    BY BoundAssumption DEF Uid
  <2> QED BY <1>3, <2>1, <2>2, <2>3, HomeAssumption, MailboxFacts DEF Typed
<1>5. ASSUME legacy.validity = server[Home].validity
      PROVE  /\ ResumeCursor < server[Home].next
             /\ \A u \in server[Home].mail : u <= ResumeCursor =>
                  <<Home, server[Home].validity, u>> \in excluded'
  <2>1. ResumeCursor < server[Home].next
    BY <1>3, <1>4, <1>5 DEF NumbersInv, LegacyFits
  <2>2. ASSUME NEW u \in server[Home].mail, u <= ResumeCursor
        PROVE  <<Home, server[Home].validity, u>> \in excluded'
    <3>1. u \in Nat /\ u >= 1
      BY <1>4, BoundAssumption DEF Uid
    <3>2. u \in 1..legacy.watermark /\ u \notin legacy.pending
      BY <1>3, <1>4, <2>2, <3>1
    <3> QED BY <1>1, <1>5, <3>2 DEF ResumeMigrated
  <2> QED BY <2>1, <2>2
<1>6. ledger' = ledger /\ crossed' = crossed
  BY DEF ResumeMigrated
<1> QED BY <1>1, <1>2, <1>5, <1>6, EpochsStay DEF RowKeeps, CursorFits, QueueKeeps, Kept

\* Without numbers nothing is behind a cursor; the ledger is of this epoch or of earlier ones.
LEMMA ResetKeeps ==
    ASSUME Typed, Typed', NumbersInv, MailInv, queue'.validity = 0,
           QueueKeepsOn \/ queue'.epoch = queue.epoch + 1,
           ledger' = ledger, excluded' = excluded, crossed' = crossed
    PROVE  RowKeeps
<1>1. CursorFits(server, queue') /\ QueueKeeps(queue', server, ledger', excluded')
  BY Unnumbered DEF NumbersInv, Typed
<1>2. LedgerFits(queue', ledger', crossed')
  <2>1. queue.epoch \in Nat
    BY RowFacts DEF Typed
  <2>2. \A d \in ledger : d.epoch \in Nat
    <3>1. \A d \in ledger : d.epoch \in 0..MaxConfig
      BY DEF Typed, Delivery
    <3>2. \A i \in 0..MaxConfig : i \in Nat
      BY BoundAssumption
    <3> QED BY <3>1, <3>2
  <2> QED BY <2>1, <2>2 DEF MailInv, LedgerFits, QueueKeepsOn
<1> QED BY <1>1, <1>2 DEF MailInv, RowKeeps, EpochIsOneMailbox, CrossedIn

\* A batch goes on with what it has.
SameBatch(b, c) ==
    /\ c.row = b.row /\ c.done = b.done /\ c.todo = b.todo
    /\ c.pc \in Batch => b.pc \in Batch
    /\ c.pc \in {"reserve", "accept"} =>
         /\ b.pc \in {"reserve", "accept"}
         /\ c.now = b.now /\ c.from = b.from /\ c.replaced = b.replaced

LEMMA BatchGoesOn ==
    ASSUME NEW x, NEW y, y \in {x, None}, NEW s, NEW l, NEW m, l \subseteq m, NEW e,
           NEW b, NEW c, SameBatch(b, c), BatchFits(x, s, l, e, b)
    PROVE  BatchFits(y, s, m, e, c)
<1>1. BatchFits(y, s, m, e, b)
  BY BatchGrows
<1>2. \A t, k, f : BatchKeeps(t, k, f, b) => BatchKeeps(t, k, f, c)
  BY DEF SameBatch, BatchKeeps
<1> QED BY <1>1, <1>2 DEF SameBatch, BatchFits

\* The fields of a process when a UID ends its batch, and when it is done with one.
LEMMA FailedFields ==
    ASSUME Typed, NEW p \in Pod, NEW u, Failed(p, u)
    PROVE  SameBatch(pod[p], pod'[p]) \/ pod[p].pc \notin Batch
<1> DEFINE b == [pod[p] EXCEPT !.pc = "advance", !.failed = u]
<1>1. pod'[p] = b
  BY DEF Failed, Typed
<1>2. /\ b.row = pod[p].row /\ b.done = pod[p].done /\ b.todo = pod[p].todo /\ b.pc = "advance"
  BY PodFacts DEF PodRecord
<1> HIDE DEF b
<1> QED BY <1>1, <1>2 DEF SameBatch

LEMMA GoFields ==
    ASSUME Typed, NEW p \in Pod, NEW pc \in {"advance", "accept"}, Go(p, pc),
           pod[p].pc \in Batch, pc = "accept" => pod[p].pc = "reserve"
    PROVE  SameBatch(pod[p], pod'[p])
<1> DEFINE b == [pod[p] EXCEPT !.pc = pc]
<1>1. pod'[p] = b
  BY DEF Go, Typed
<1>2. /\ b.row = pod[p].row /\ b.done = pod[p].done /\ b.todo = pod[p].todo /\ b.pc = pc
      /\ b.now = pod[p].now /\ b.from = pod[p].from /\ b.replaced = pod[p].replaced
  BY PodFacts DEF PodRecord
<1> HIDE DEF b
<1> QED BY <1>1, <1>2 DEF SameBatch

LEMMA TakenFields ==
    ASSUME Typed, NEW p \in Pod, NEW u, Taken(p, u)
    PROVE  /\ pod'[p].row = pod[p].row /\ pod'[p].done = u /\ pod'[p].todo = pod[p].todo \ {u}
           /\ pod'[p].pc = "fetch"
<1> DEFINE b == [pod[p] EXCEPT !.pc = "fetch", !.done = u, !.todo = pod[p].todo \ {u}]
<1>1. pod'[p] = b
  BY DEF Taken, Typed
<1>2. b.row = pod[p].row /\ b.done = u /\ b.todo = pod[p].todo \ {u} /\ b.pc = "fetch"
  BY PodFacts DEF PodRecord
<1> HIDE DEF b
<1> QED BY <1>1, <1>2

LEMMA FetchedFields ==
    ASSUME Typed, NEW p \in Pod, NEW u, NEW l \in BOOLEAN, Fetched(p, u, l)
    PROVE  /\ pod'[p].row = pod[p].row /\ pod'[p].done = pod[p].done
           /\ pod'[p].todo = pod[p].todo /\ pod'[p].now = u /\ pod'[p].from = conn[p]
           /\ pod'[p].replaced = (u \in Box(p).replaced) /\ pod'[p].pc \in {"reserve", "accept"}
<1> DEFINE r == u \in Box(p).replaced
           b == [pod[p] EXCEPT !.pc = IF l THEN "reserve" ELSE "accept", !.now = u,
                               !.from = conn[p], !.large = l, !.replaced = r]
<1> HIDE DEF r
<1>1. pod'[p] = b
  BY DEF Fetched, Typed, r
<1>2. /\ b.row = pod[p].row /\ b.done = pod[p].done /\ b.todo = pod[p].todo /\ b.now = u
      /\ b.from = conn[p] /\ b.replaced = r /\ b.pc \in {"reserve", "accept"}
  BY PodFacts DEF PodRecord
<1> HIDE DEF b
<1> QED BY <1>1, <1>2 DEF r

\* A batch keeps its row.
LEMMA BatchRow ==
    ASSUME Typed, NEW p \in Pod, Fetch(p) \/ Reserve(p) \/ Accept(p) \/ LinkIsGone(p)
    PROVE  pod'[p].pc \in Batch => pod'[p].row = pod[p].row
<1>1. ASSUME NEW u, NEW l \in BOOLEAN, Failed(p, u) \/ Taken(p, u) \/ Fetched(p, u, l),
             pod[p].pc \in Batch
      PROVE  pod'[p].row = pod[p].row
  BY <1>1, FailedFields, TakenFields, FetchedFields DEF SameBatch
<1>2. CASE Fetch(p) \/ Reserve(p) \/ Accept(p)
  <2>1. pod[p].pc \in Batch /\ (pod[p].pc = "reserve" \/ pod[p].pc # "reserve")
    BY <1>2 DEF Fetch, Reserve, Accept, At, Batch
  <2>2. CASE Fetch(p)
    <3>1. ASSUME Go(p, "advance") PROVE pod'[p].row = pod[p].row
      BY <2>1, <3>1, GoFields DEF SameBatch
    <3>2. \/ Go(p, "advance")
          \/ \E u : Failed(p, u) \/ Taken(p, u) \/ \E l \in BOOLEAN : Fetched(p, u, l)
      BY <2>2 DEF Fetch
    <3> QED BY <1>1, <2>1, <3>1, <3>2
  <2>3. CASE Reserve(p)
    <3>1. ASSUME Go(p, "accept") PROVE pod'[p].row = pod[p].row
      <4>1. pod[p].pc = "reserve"
        BY <2>3 DEF Reserve, At
      <4> QED BY <2>1, <3>1, <4>1, GoFields DEF SameBatch
    <3>2. Go(p, "accept") \/ Failed(p, pod[p].now)
      BY <2>3 DEF Reserve
    <3> QED BY <1>1, <2>1, <3>1, <3>2
  <2>4. CASE Accept(p)
    <3>1. Failed(p, pod[p].now) \/ Taken(p, pod[p].now)
      BY <2>4 DEF Accept
    <3> QED BY <1>1, <2>1, <3>1
  <2> QED BY <1>2, <2>2, <2>3, <2>4
<1>3. CASE LinkIsGone(p)
  <2>1. CASE Rest(p)
    BY <2>1, IdleWorks DEF Rest, Batch, Typed
  <2>2. CASE At(p, "fetch") /\ Go(p, "advance")
    <3>1. pod[p].pc \in Batch
      BY <2>2 DEF At, Batch
    <3> QED BY <2>2, <3>1, GoFields DEF SameBatch
  <2>3. CASE At(p, "fetch") /\ Failed(p, Smallest(pod[p].todo))
    <3>1. pod[p].pc \in Batch
      BY <2>3 DEF At, Batch
    <3> QED BY <1>1, <2>3, <3>1
  <2> QED BY <1>3, <2>1, <2>2, <2>3 DEF LinkIsGone
<1> QED BY <1>2, <1>3

\* The next UID of a batch is done with: it is in the ledger, or gone from the mailbox.
LEMMA TakenKeeps ==
    ASSUME Typed, NEW p \in Pod, NEW l, NEW e, pod[p].pc \in Batch,
           ledger \subseteq l, excluded \subseteq e,
           BatchFits(conn[p], server, ledger, excluded, pod[p]),
           NEW u \in pod[p].todo, \A w \in pod[p].todo : u <= w,
           pod[p].row.validity = server[pod[p].row.account].validity
             /\ u \in server[pod[p].row.account].mail =>
               Kept(server, l, e, pod[p].row.account, u),
           Taken(p, u)
    PROVE  BatchFits(conn[p], server, l, e, pod'[p])
<1> DEFINE a == pod[p].row.account
<1>1. /\ pod'[p].row = pod[p].row /\ pod'[p].done = u /\ pod'[p].todo = pod[p].todo \ {u}
      /\ pod'[p].pc = "fetch"
  BY TakenFields
<1>2. /\ pod[p].todo \subseteq Nat /\ pod[p].done \in Nat /\ server[a].mail \subseteq Nat
      /\ pod[p].row.cursor \in Nat
  <2>1. pod[p].todo \subseteq Uid /\ pod[p].done \in 0..MaxUid /\ server[a] \in Mailbox
    BY PodFacts DEF Typed
  <2>2. \A i \in 0..MaxUid : i \in Nat
    BY BoundAssumption
  <2>3. Uid \subseteq Nat
    BY BoundAssumption DEF Uid
  <2> QED BY <2>1, <2>2, <2>3, MailboxFacts, PodFacts, RowFacts
<1>3. ASSUME pod[p].row.validity = server[a].validity
      PROVE  BatchKeeps(server, l, e, pod'[p])
  <2>0. BatchFits(conn[p], server, l, e, pod[p])
    BY BatchGrows
  <2>1. BatchKeeps(server, l, e, pod[p])
    BY <1>3, <2>0 DEF BatchFits
  <2>2. u < server[a].next /\ \A w \in pod[p].todo : pod[p].done < w /\ w < server[a].next
    BY <2>1 DEF BatchKeeps
  <2>3. \A w \in pod[p].todo \ {u} : u < w
    BY <1>2
  <2>4. ASSUME NEW v \in server[a].mail, pod[p].row.cursor < v, v <= u
        PROVE  Kept(server, l, e, a, v)
    <3>1. CASE v <= pod[p].done
      BY <2>1, <2>4, <3>1 DEF BatchKeeps
    <3>2. CASE pod[p].done < v
      <4>1. v \in pod[p].todo
        BY <2>1, <2>4, <3>2 DEF BatchKeeps
      <4>2. v = u
        BY <1>2, <2>4, <4>1
      <4> QED BY <1>3, <2>4, <4>2
    <3> QED BY <1>2, <3>1, <3>2
  <2>5. ASSUME NEW v \in server[a].mail, u < v, NEW w \in pod[p].todo \ {u}, v <= w
        PROVE  v \in pod[p].todo \ {u}
    <3>1. pod[p].done < v
      BY <1>2, <2>2, <2>5
    <3>2. v \in pod[p].todo
      BY <2>1, <2>5, <3>1 DEF BatchKeeps
    <3> QED BY <1>2, <2>5, <3>2
  <2> QED BY <1>1, <2>2, <2>3, <2>4, <2>5 DEF BatchKeeps
<1> QED BY <1>1, <1>3 DEF BatchFits

\* A poll that lists the row's own mailbox, or nothing; the others leave their generation.
LEMMA DiscoverKeeps ==
    ASSUME Typed, NumbersInv, MailInv, NEW p \in Pod, Discover(p),
           Clean(crossed', pod'[p].row)
    PROVE  BatchFits(conn'[p], server, ledger, excluded, pod'[p])
<1> DEFINE row == pod[p].row
           todo == Listed(p)
           b == [pod[p] EXCEPT !.pc = "fetch", !.done = row.cursor, !.todo = todo]
<1>1. CASE Box(p).validity # row.validity
  <2>1. pod'[p].pc = "halt"
    BY <1>1, PodFacts DEF Discover, Go, Typed, PodRecord
  <2> QED BY <2>1 DEF BatchFits, Batch
<1>2. CASE Box(p).validity = row.validity
  <2>1. row \in Row /\ row.account \in Account /\ row.cursor \in Nat
    BY PodFacts, RowFacts
  <2>2. /\ pod' = [pod EXCEPT ![p].pc = "fetch", ![p].done = row.cursor, ![p].todo = todo]
        /\ Crosses(p) => <<row.epoch, row.gen>> \in crossed'
    BY <1>2 DEF Discover
  <2>3. todo # {} => conn[p] = row.account /\ todo = {u \in server[row.account].mail : u > row.cursor}
    <3>1. CASE Crosses(p)
      <4>1. <<row.epoch, row.gen>> \in crossed'
        BY <2>2, <3>1
      <4>2. pod'[p].row = row
        <5> HIDE DEF todo
        <5>1. pod'[p] = b
          BY <2>2 DEF Typed
        <5>2. b.row = row
          BY PodFacts DEF PodRecord
        <5> QED BY <5>1, <5>2
      <4> QED BY <4>1, <4>2 DEF Clean
    <3>2. CASE ~Crosses(p)
      BY <3>2 DEF Crosses, Listed, Box
    <3> QED BY <3>1, <3>2
  <2>4. server[row.account].mail \subseteq Nat /\ server[row.account].next \in Nat
    BY <2>1, MailboxFacts DEF Typed
  <2>5. todo # {} => conn[p] = row.account /\ \A u : u \in todo <=> u \in server[row.account].mail /\ row.cursor < u
    BY <2>1, <2>3, <2>4
  <2> HIDE DEF todo
  <2>6. pod'[p] = b
    BY <2>2 DEF Typed
  <2>7. b.row = row /\ b.done = row.cursor /\ b.todo = todo /\ b.pc = "fetch"
    BY PodFacts DEF PodRecord
  <2>8. row.validity = server[row.account].validity => row.cursor < server[row.account].next
    <3>1. Clean(crossed, row)
      BY <2>6, <2>7 DEF Clean, Discover
    <3> QED BY <3>1 DEF MailInv, CursorFits
  <2>9. \A u \in server[row.account].mail : u < server[row.account].next
    BY <2>1 DEF NumbersInv, BoxesFit
  <2> HIDE DEF b, row
  <2>10. row.validity = server[row.account].validity => BatchKeeps(server, ledger, excluded, b)
    BY <2>1, <2>4, <2>5, <2>7, <2>8, <2>9 DEF BatchKeeps
  <2>11. todo # {} => conn'[p] = row.account
    BY <2>5 DEF Discover
  <2> QED BY <2>6, <2>7, <2>10, <2>11 DEF BatchFits
<1> QED BY <1>1, <1>2

LEMMA FetchKeeps ==
    ASSUME Typed, NumbersInv, MailInv, NEW p \in Pod, Fetch(p), Clean(crossed, pod[p].row)
    PROVE  BatchFits(conn'[p], server, ledger, excluded, pod'[p])
<1> DEFINE u == Smallest(pod[p].todo)
           row == pod[p].row
<1>1. /\ pod[p].pc \in Batch /\ conn'[p] = conn[p]
      /\ BatchFits(conn[p], server, ledger, excluded, pod[p])
  BY DEF Fetch, At, Batch, MailInv
<1>2. pod[p].todo # {} => conn[p] = row.account
  BY <1>1 DEF Fetch, BatchFits
<1>3. CASE pod[p].todo = {} /\ Go(p, "advance")
  BY <1>1, <1>3, GoFields, BatchGoesOn
<1>4. CASE Failed(p, u)
  BY <1>1, <1>4, FailedFields, BatchGoesOn
<1>5. CASE pod[p].todo # {} /\ u \notin Box(p).mail /\ Taken(p, u)
  <2>1. u \in pod[p].todo /\ \A w \in pod[p].todo : u <= w
    BY <1>5, PodFacts, FirstUid
  <2>2. u \notin server[row.account].mail
    BY <1>2, <1>5 DEF Box
  <2> HIDE DEF u
  <2> QED BY <1>1, <1>5, <2>1, <2>2, TakenKeeps
<1>6. ASSUME pod[p].todo # {}, NEW l \in BOOLEAN, Fetched(p, u, l)
      PROVE  BatchFits(conn'[p], server, ledger, excluded, pod'[p])
  <2>1. u \in pod[p].todo /\ \A w \in pod[p].todo : u <= w
    BY <1>6, PodFacts, FirstUid
  <2> HIDE DEF u
  <2>2. /\ pod'[p].row = row /\ pod'[p].done = pod[p].done
        /\ pod'[p].todo = pod[p].todo /\ pod'[p].now = u /\ pod'[p].from = conn[p]
        /\ pod'[p].replaced = (u \in Box(p).replaced) /\ pod'[p].pc \in {"reserve", "accept"}
    BY <1>6, FetchedFields
  <2>3. pod'[p].replaced = (pod'[p].now \in server[row.account].replaced)
    BY <1>2, <1>6, <2>2 DEF Box
  <2>4. ASSUME row.validity = server[row.account].validity
        PROVE  BatchKeeps(server, ledger, excluded, pod'[p])
    <3>1. BatchKeeps(server, ledger, excluded, pod[p])
      BY <1>1, <2>4 DEF BatchFits
    <3> QED BY <2>2, <2>3, <3>1 DEF BatchKeeps
  <2> QED BY <1>1, <1>2, <1>6, <2>1, <2>2, <2>4 DEF BatchFits
<1> QED BY <1>3, <1>4, <1>5, <1>6 DEF Fetch

LEMMA ReserveKeeps ==
    ASSUME Typed, MailInv, NEW p \in Pod, Reserve(p), Clean(crossed, pod[p].row)
    PROVE  BatchFits(conn'[p], server, ledger, excluded, pod'[p])
<1>1. /\ pod[p].pc \in Batch /\ pod[p].pc = "reserve" /\ conn'[p] = conn[p]
      /\ BatchFits(conn[p], server, ledger, excluded, pod[p])
  BY DEF Reserve, At, Batch, MailInv
<1>2. CASE Go(p, "accept")
  BY <1>1, <1>2, GoFields, BatchGoesOn
<1>3. CASE Failed(p, pod[p].now)
  BY <1>1, <1>3, FailedFields, BatchGoesOn
<1> QED BY <1>2, <1>3 DEF Reserve

LEMMA LinkIsGoneKeeps ==
    ASSUME Typed, MailInv, NEW p \in Pod, LinkIsGone(p), Clean(crossed, pod[p].row)
    PROVE  BatchFits(conn'[p], server, ledger, excluded, pod'[p])
<1>1. conn'[p] = conn[p] /\ BatchFits(conn[p], server, ledger, excluded, pod[p])
  BY DEF LinkIsGone, MailInv
<1>2. CASE Rest(p)
  BY <1>2, IdleWorks DEF Rest, BatchFits, Batch, Typed
<1>3. CASE At(p, "fetch") /\ Go(p, "advance")
  <2>1. pod[p].pc \in Batch
    BY <1>3 DEF At, Batch
  <2> QED BY <1>1, <1>3, <2>1, GoFields, BatchGoesOn
<1>4. CASE At(p, "fetch") /\ Failed(p, Smallest(pod[p].todo))
  <2>1. pod[p].pc \in Batch
    BY <1>4 DEF At, Batch
  <2> QED BY <1>1, <1>4, <2>1, FailedFields, BatchGoesOn
<1> QED BY <1>2, <1>3, <1>4 DEF LinkIsGone

\* The row keeps what it counts by; a delivery comes from the mailbox of the row, unless
\* the poll has crossed.
LEMMA AcceptRow ==
    ASSUME Typed, NumbersInv, MailInv, NEW p \in Pod, Accept(p), NEW l,
           \/ ledger' = ledger
           \/ /\ Fence(p) /\ ledger' = ledger \cup {l}
              /\ l.from = pod[p].from /\ l.epoch = pod[p].row.epoch
    PROVE  RowKeeps
<1>1. /\ queue'.account = queue.account /\ queue'.epoch = queue.epoch /\ queue'.gen = queue.gen
      /\ queue'.validity = queue.validity /\ queue'.cursor = queue.cursor
  <2>1. queue' \in {queue, [queue EXCEPT !.enabled = ~Capture(p)],
                    [queue EXCEPT !.sync = "NEEDS", !.cause = "TRANSPORT_COLLISION"]}
    BY DEF Accept, Halted
  <2> QED BY <2>1 DEF Typed, Row
<1>2. excluded' = excluded /\ crossed' = crossed
  BY DEF Accept
<1>3. CASE ledger' = ledger
  BY <1>1, <1>2, <1>3, RowKeepsNumbers
<1>4. CASE Fence(p) /\ ledger' = ledger \cup {l} /\ l.from = pod[p].from /\ l.epoch = pod[p].row.epoch
  <2> DEFINE row == pod[p].row
  <2>1. row.epoch = queue.epoch /\ row.account = queue.account
    BY <1>4 DEF Fence, SameVersion, NumbersInv, RowFits
  <2>2. l.from = queue.account \/ CrossedAt(crossed, l.epoch)
    <3>1. CASE Clean(crossed, row)
      <4>1. pod[p].from = row.account
        BY <3>1 DEF Accept, At, Batch, MailInv, BatchFits
      <4> QED BY <1>4, <2>1, <4>1
    <3>2. CASE ~Clean(crossed, row)
      <4>1. row.gen \in 0..MaxGen
        BY PodFacts, RowFacts
      <4> QED BY <1>4, <3>2, <4>1 DEF Clean, CrossedAt
    <3> QED BY <3>1, <3>2
  <2>3. LedgerFits(queue', ledger', crossed')
    <3>1. queue.epoch \in Nat /\ l.epoch = queue.epoch
      BY <1>4, <2>1, RowFacts DEF Typed
    <3> QED BY <1>1, <1>2, <1>4, <2>2, <3>1 DEF MailInv, LedgerFits
  <2>4. EpochIsOneMailbox'
    <3>1. ASSUME NEW d \in ledger', NEW f \in ledger', d.epoch = f.epoch
          PROVE  d.from = f.from \/ CrossedAt(crossed, d.epoch)
      <4>1. CASE d \in ledger /\ f \in ledger
        BY <3>1, <4>1 DEF MailInv, EpochIsOneMailbox, CrossedIn, CrossedAt
      <4>2. CASE d = l \/ f = l
        <5>1. d.epoch = queue.epoch /\ f.epoch = queue.epoch
          BY <1>4, <2>1, <3>1, <4>2
        <5>2. /\ d.from = queue.account \/ CrossedAt(crossed, d.epoch)
              /\ f.from = queue.account \/ CrossedAt(crossed, f.epoch)
          BY <1>1, <1>2, <2>3, <5>1 DEF LedgerFits
        <5> QED BY <3>1, <5>2
      <4> QED BY <1>4, <4>1, <4>2
    <3> QED BY <1>2, <3>1 DEF EpochIsOneMailbox, CrossedIn, CrossedAt
  <2>5. ASSUME Clean(crossed', queue')
        PROVE  CursorFits(server, queue') /\ QueueKeeps(queue', server, ledger', excluded')
    <3>1. CursorFits(server, queue) /\ QueueKeeps(queue, server, ledger, excluded)
      BY <1>1, <1>2, <2>5 DEF MailInv, Clean
    <3>2. \A a, v : Kept(server, ledger, excluded, a, v) => Kept(server, ledger', excluded', a, v)
      BY <1>2, <1>4, KeptGrows
    <3> QED BY <1>1, <3>1, <3>2 DEF QueueKeeps, CursorFits
  <2> QED BY <2>3, <2>4, <2>5 DEF RowKeeps
<1> QED BY <1>3, <1>4

\* What the transaction did to the ledger and to its process.
LEMMA AcceptCases ==
    ASSUME Typed, NEW p \in Pod, Accept(p)
    PROVE  \E l : /\ l.epoch = pod[p].row.epoch /\ l.validity = pod[p].row.validity
                  /\ l.uid = pod[p].now /\ l.from = pod[p].from /\ l.replaced = pod[p].replaced
                  /\ \/ ledger' = ledger /\ Failed(p, pod[p].now)
                     \/ l \in ledger /\ ledger' = ledger /\ Taken(p, pod[p].now)
                     \/ /\ Fence(p) /\ ledger' = ledger \cup {l}
                        /\ Taken(p, pod[p].now) \/ Failed(p, pod[p].now)
<1> DEFINE row == pod[p].row
           u == pod[p].now
           delivery == [epoch |-> row.epoch, validity |-> row.validity, uid |-> u,
                        from |-> pod[p].from, replaced |-> pod[p].replaced,
                        state |-> IF Capture(p) THEN "CAPTURED" ELSE "ACCEPTED"]
<1>1. /\ delivery.epoch = row.epoch /\ delivery.validity = row.validity /\ delivery.uid = u
      /\ delivery.from = pod[p].from /\ delivery.replaced = pod[p].replaced
  OBVIOUS
<1>2. \/ ledger' = ledger /\ Failed(p, u)
      \/ /\ ledger' = ledger /\ Taken(p, u)
         /\ \E d \in SameKey(row, u) : d.from = pod[p].from /\ d.replaced = pod[p].replaced
      \/ Fence(p) /\ ledger' = ledger \cup {delivery} /\ (Taken(p, u) \/ Failed(p, u))
  <2> HIDE DEF delivery
  <2> QED BY DEF Accept, delivery
<1> HIDE DEF delivery
<1>3. CASE \E d \in SameKey(row, u) : d.from = pod[p].from /\ d.replaced = pod[p].replaced
  <2>1. PICK d \in ledger : /\ d.epoch = row.epoch /\ d.validity = row.validity /\ d.uid = u
                            /\ d.from = pod[p].from /\ d.replaced = pod[p].replaced
    BY <1>3 DEF SameKey
  <2> QED BY <1>1, <1>2, <2>1
<1> QED BY <1>1, <1>2, <1>3

LEMMA AcceptKeeps ==
    ASSUME Typed, NumbersInv, MailInv, NEW p \in Pod, Accept(p)
    PROVE  /\ RowKeeps /\ ledger \subseteq ledger' /\ excluded' = excluded
           /\ Clean(crossed, pod[p].row) =>
                BatchFits(conn'[p], server, ledger', excluded', pod'[p])
<1> DEFINE row == pod[p].row
           u == pod[p].now
<1>1. PICK l : /\ l.epoch = row.epoch /\ l.validity = row.validity
               /\ l.uid = u /\ l.from = pod[p].from /\ l.replaced = pod[p].replaced
               /\ \/ ledger' = ledger /\ Failed(p, u)
                  \/ l \in ledger /\ ledger' = ledger /\ Taken(p, u)
                  \/ /\ Fence(p) /\ ledger' = ledger \cup {l}
                     /\ Taken(p, u) \/ Failed(p, u)
  BY AcceptCases
<1>2. RowKeeps
  BY <1>1, AcceptRow
<1>3. ledger \subseteq ledger' /\ excluded' = excluded /\ conn' = conn
  BY <1>1 DEF Accept
<1>4. ASSUME Clean(crossed, row) PROVE BatchFits(conn'[p], server, ledger', excluded', pod'[p])
  <2>1. /\ pod[p].pc \in Batch /\ pod[p].pc = "accept"
        /\ BatchFits(conn[p], server, ledger, excluded, pod[p])
    BY <1>4 DEF Accept, At, Batch, MailInv
  <2>2. /\ pod[p].from = row.account /\ u \in pod[p].todo /\ \A w \in pod[p].todo : u <= w
        /\ row.validity = server[row.account].validity =>
             pod[p].replaced = (u \in server[row.account].replaced)
    BY <2>1 DEF BatchFits, BatchKeeps
  <2>3. CASE Failed(p, u)
    <3>1. SameBatch(pod[p], pod'[p])
      BY <2>1, <2>3, FailedFields
    <3> QED BY <1>3, <2>1, <3>1, BatchGoesOn
  <2>4. CASE Taken(p, u) /\ l \in ledger'
    <3>1. row.validity = server[row.account].validity =>
            Kept(server, ledger', excluded', row.account, u)
      BY <1>1, <2>2, <2>4 DEF Kept
    <3> QED BY <1>3, <2>1, <2>2, <2>4, <3>1, TakenKeeps
  <2> QED BY <1>1, <2>3, <2>4
<1> QED BY <1>2, <1>3, <1>4

LEMMA AdvanceKeeps ==
    ASSUME Typed, NumbersInv, MailInv, NEW p \in Pod, Advance(p)
    PROVE  RowKeeps
<1>1. CASE queue' = queue
  BY <1>1, RowKeepsItself DEF Advance
<1>2. CASE /\ Frontier(p) > pod[p].row.cursor
           /\ Fence(p) /\ queue.cursor = pod[p].row.cursor
           /\ queue' = [queue EXCEPT !.cursor = Frontier(p)]
  <2> DEFINE row == pod[p].row
             a == queue.account
  <2>1. /\ queue'.account = a /\ queue'.epoch = queue.epoch /\ queue'.gen = queue.gen
        /\ queue'.validity = queue.validity /\ queue'.cursor = Frontier(p)
    BY <1>2 DEF Typed, Row
  <2>2. /\ row.account = a /\ row.validity = queue.validity /\ row.cursor = queue.cursor
        /\ row.epoch = queue.epoch /\ row.gen = queue.gen
    BY <1>2 DEF Fence, SameVersion, NumbersInv, RowFits
  <2>3. /\ Frontier(p) \in Nat /\ Frontier(p) <= pod[p].done /\ pod[p].done \in Nat
        /\ row.cursor \in Nat /\ a \in Account
        /\ server[a].mail \subseteq Nat /\ server[a].next \in Nat
    <3>1. Frontier(p) \in 0..MaxUid /\ Frontier(p) <= pod[p].done /\ pod[p].done \in 0..MaxUid
      BY FrontierType, PodFacts
    <3>2. \A i \in 0..MaxUid : i \in Nat
      BY BoundAssumption
    <3>3. row.cursor \in Nat /\ a \in Account /\ server[a] \in Mailbox
      BY PodFacts, RowFacts DEF Typed
    <3> QED BY <3>1, <3>2, <3>3, MailboxFacts
  <2>4. ASSUME Clean(crossed, queue)
        PROVE  pod[p].pc \in Batch /\ BatchFits(conn[p], server, ledger, excluded, pod[p])
    BY <2>2, <2>4 DEF Advance, At, Batch, MailInv, Clean
  <2>5. ASSUME Clean(crossed, queue), queue.validity = server[a].validity
        PROVE  /\ Frontier(p) < server[a].next
               /\ \A u \in server[a].mail : u <= Frontier(p) => Kept(server, ledger, excluded, a, u)
    <3>1. BatchKeeps(server, ledger, excluded, pod[p])
      BY <2>2, <2>4, <2>5 DEF BatchFits
    <3>2. Frontier(p) < server[a].next
      BY <2>2, <2>3, <3>1 DEF BatchKeeps
    <3>3. ASSUME NEW u \in server[a].mail, u <= Frontier(p)
          PROVE  Kept(server, ledger, excluded, a, u)
      <4>1. CASE u <= queue.cursor
        BY <2>5, <4>1 DEF MailInv, QueueKeeps
      <4>2. CASE ~(u <= queue.cursor)
        <5>1. row.cursor < u /\ u <= pod[p].done
          BY <2>2, <2>3, <3>3, <4>2
        <5> QED BY <2>2, <3>1, <5>1 DEF BatchKeeps
      <4> QED BY <4>1, <4>2
    <3> QED BY <3>2, <3>3
  <2>6. ledger' = ledger /\ excluded' = excluded /\ crossed' = crossed
    BY DEF Advance
  <2>7. EpochIsOneMailbox' /\ LedgerFits(queue', ledger', crossed')
    BY <2>1, <2>6, EpochsStay
  <2>8. Clean(crossed', queue') => Clean(crossed, queue)
    BY <2>1, <2>6 DEF Clean
  <2> HIDE DEF a
  <2> QED BY <2>1, <2>5, <2>6, <2>7, <2>8 DEF RowKeeps, CursorFits, QueueKeeps, a
<1> QED BY <1>1, <1>2 DEF Advance

\* A UID keeps its bytes, or has others while nobody is taking it or has taken it.
BytesStay(a, u) ==
    server'[a].validity = server[a].validity =>
        \/ (u \in server'[a].replaced) = (u \in server[a].replaced)
        \/ /\ \A p \in Pod : pod[p].pc \notin Batch
           /\ a = queue.account /\ queue.validity = server[a].validity => u > queue.cursor

\* The mailboxes go on under the row, and what is behind the cursor keeps its bytes.
LEMMA MailOfServer ==
    ASSUME Typed, Typed', NumbersInv, MailInv, MailboxStep, crossed' = crossed,
           \A a \in Account, u \in Uid : BytesStay(a, u)
    PROVE  MailInv'
<1>0. \A a \in Account : /\ server[a].validity \in Nat /\ server'[a].validity \in Nat
                         /\ server[a].next \in Nat /\ server'[a].next \in Nat
                         /\ server[a].mail \subseteq Nat /\ server'[a].mail \subseteq Nat
                         /\ server[a].mail \subseteq Uid
  BY MailboxFacts DEF Typed
<1>1. ASSUME NEW r \in Row, RowFits(queue, server, r),
             r.validity = server'[r.account].validity
      PROVE  /\ server[r.account].validity = r.validity /\ r.account \in Account
             /\ server'[r.account].next >= server[r.account].next
             /\ \A u \in server'[r.account].mail :
                  u \in server[r.account].mail \/ u >= server[r.account].next
  <2>1. r.account \in Account /\ r.validity \in Nat
    BY RowFacts
  <2>2. r.validity <= server[r.account].validity
    BY <1>1 DEF RowFits
  <2>3. ~(server'[r.account].validity > server[r.account].validity)
    BY <1>0, <1>1, <2>1, <2>2
  <2> QED BY <1>0, <1>1, <2>1, <2>3 DEF MailboxStep, ServerStep
<1>2. ASSUME NEW r \in Row, RowFits(queue, server, r), CursorFits(server, r)
      PROVE  CursorFits(server', r)
  <2>1. ASSUME r.validity = server'[r.account].validity PROVE r.cursor < server'[r.account].next
    <3>1. /\ r.account \in Account /\ r.cursor < server[r.account].next
          /\ server'[r.account].next >= server[r.account].next
      BY <1>1, <1>2, <2>1 DEF CursorFits
    <3> QED BY <1>0, <3>1, RowFacts
  <2> QED BY <2>1 DEF CursorFits
<1>3. queue \in Row /\ queue.account \in Account /\ queue.cursor \in Nat /\ RowFits(queue, server, queue)
  BY RowFacts DEF Typed, NumbersInv
<1>4. Clean(crossed, queue) => QueueKeeps(queue, server', ledger, excluded)
  <2> DEFINE a == queue.account
  <2> SUFFICES ASSUME Clean(crossed, queue), queue.validity = server'[a].validity,
                      NEW u \in server'[a].mail, u <= queue.cursor
               PROVE  Kept(server', ledger, excluded, a, u)
    BY DEF QueueKeeps
  <2>1. /\ server[a].validity = queue.validity
        /\ u \in server[a].mail \/ u >= server[a].next
    BY <1>1, <1>3
  <2>2. queue.cursor < server[a].next
    BY <2>1 DEF MailInv, CursorFits
  <2>3. u \in server[a].mail /\ ~(u > queue.cursor)
    BY <1>0, <1>3, <2>1, <2>2
  <2>4. Kept(server, ledger, excluded, a, u)
    BY <2>1, <2>3 DEF MailInv, QueueKeeps
  <2>5. (u \in server'[a].replaced) = (u \in server[a].replaced)
    BY <1>0, <1>3, <2>1, <2>3 DEF BytesStay
  <2> QED BY <2>1, <2>4, <2>5, KeptTime
<1>5. ASSUME NEW p \in Pod, Clean(crossed, pod[p].row)
      PROVE  BatchFits(conn'[p], server', ledger, excluded, pod[p])
  <2> DEFINE b == pod[p]
             a == b.row.account
  <2> SUFFICES ASSUME b.pc \in Batch PROVE BatchFits(conn'[p], server', ledger, excluded, b)
    BY DEF BatchFits
  <2>0. BatchFits(conn[p], server, ledger, excluded, b) /\ conn'[p] \in {conn[p], None}
    BY <1>5 DEF MailInv, MailboxStep
  <2>1. ASSUME b.row.validity = server'[a].validity
        PROVE  BatchKeeps(server', ledger, excluded, b)
    <3>1. /\ server[a].validity = b.row.validity /\ a \in Account
          /\ server'[a].next >= server[a].next
          /\ \A u \in server'[a].mail : u \in server[a].mail \/ u >= server[a].next
      BY <1>1, <2>1, PodFacts DEF NumbersInv
    <3>2. BatchKeeps(server, ledger, excluded, b)
      BY <2>0, <3>1 DEF BatchFits
    <3>3. /\ b.done \in Nat /\ b.row.cursor \in Nat /\ b.todo \subseteq Nat
      <4>1. b.done \in 0..MaxUid /\ b.todo \subseteq Uid /\ b.row \in Row
        BY PodFacts
      <4>2. \A i \in 0..MaxUid : i \in Nat
        BY BoundAssumption
      <4>3. Uid \subseteq Nat
        BY BoundAssumption DEF Uid
      <4> QED BY <4>1, <4>2, <4>3, RowFacts
    <3>4. \A u \in Uid : (u \in server'[a].replaced) = (u \in server[a].replaced)
      BY <2>1, <3>1 DEF BytesStay
    <3>5. b.done < server'[a].next /\ \A u \in b.todo : b.done < u /\ u < server'[a].next
      <4>1. b.done < server[a].next /\ \A u \in b.todo : b.done < u /\ u < server[a].next
        BY <3>2 DEF BatchKeeps
      <4>2. server[a].next \in Nat /\ server'[a].next \in Nat /\ server'[a].next >= server[a].next
        BY <1>0, <3>1
      <4>3. \A u \in b.todo : u \in Nat
        BY <3>3
      <4> HIDE DEF a, b
      <4> QED BY <3>3, <4>1, <4>2, <4>3
    <3>6. ASSUME NEW u \in server'[a].mail, b.row.cursor < u, u <= b.done
          PROVE  Kept(server', ledger, excluded, a, u)
      <4>1. u \in server[a].mail
        <5>1. b.done < server[a].next /\ u \in Nat /\ server[a].next \in Nat
          BY <1>0, <3>1, <3>2, <3>6 DEF BatchKeeps
        <5>2. ~(u >= server[a].next)
          BY <3>3, <3>6, <5>1
        <5> QED BY <3>1, <3>6, <5>2
      <4>2. Kept(server, ledger, excluded, a, u)
        BY <3>2, <3>6, <4>1 DEF BatchKeeps
      <4> QED BY <2>1, <3>1, <3>4, <4>1, <4>2, KeptTime, <1>0
    <3>7. ASSUME NEW u \in server'[a].mail, b.done < u, NEW w \in b.todo, u <= w
          PROVE  u \in b.todo
      <4>1. w < server[a].next
        BY <3>2 DEF BatchKeeps
      <4>2. u \in server[a].mail
        BY <1>0, <3>1, <3>3, <3>7, <4>1
      <4> QED BY <3>2, <3>7, <4>2 DEF BatchKeeps
    <3>8. b.pc \in {"reserve", "accept"} => b.replaced = (b.now \in server'[a].replaced)
      BY <3>2, <3>4, PodFacts DEF BatchKeeps, PodWorks
    <3> HIDE DEF b
    <3> QED BY <3>5, <3>6, <3>7, <3>8 DEF BatchKeeps
  <2> QED BY <2>0, <2>1 DEF BatchFits
<1>6. \A p \in Pod : Clean(crossed, pod[p].row) => CursorFits(server', pod[p].row)
  BY <1>2, PodFacts DEF MailInv, NumbersInv
<1>7. Clean(crossed, queue) => CursorFits(server', queue)
  BY <1>2, <1>3 DEF MailInv
<1>8. EpochIsOneMailbox' /\ LedgerFits(queue', ledger', crossed')
  BY EpochsStay DEF MailboxStep
<1> QED BY <1>4, <1>5, <1>6, <1>7, <1>8 DEF MailInv, MailboxStep

LEMMA BoxActionKeeps ==
    ASSUME Typed, Typed', NumbersInv, MailInv, BoxAction PROVE MailInv'
<1>1. MailboxStep
  BY BoxActionSteps DEF NumbersInv
<1>2. ASSUME NEW a \in Account, Deliver(a) PROVE \A c \in Account, u \in Uid : BytesStay(c, u)
  <2> DEFINE b == [server[a] EXCEPT !.mail = @ \cup {server[a].next}, !.next = @ + 1]
  <2>1. server' = [server EXCEPT ![a] = b]
    BY <1>2 DEF Deliver, Typed
  <2>2. b.replaced = server[a].replaced
    BY DEF Typed, Mailbox
  <2> HIDE DEF b
  <2> QED BY <2>1, <2>2 DEF Typed, BytesStay
<1>3. ASSUME NEW a \in Account, NEW w \in Uid, Expunge(a, w)
      PROVE  \A c \in Account, u \in Uid : BytesStay(c, u)
  <2> DEFINE b == [server[a] EXCEPT !.mail = @ \ {w}]
  <2>1. server' = [server EXCEPT ![a] = b]
    BY <1>3 DEF Expunge, Typed
  <2>2. b.replaced = server[a].replaced
    BY DEF Typed, Mailbox
  <2> HIDE DEF b
  <2> QED BY <2>1, <2>2 DEF Typed, BytesStay
<1>4. ASSUME NEW a \in Account, NEW w \in Uid, Replace(a, w),
             NEW c \in Account, NEW u \in Uid
      PROVE  BytesStay(c, u)
  <2> DEFINE b == [server[a] EXCEPT !.replaced = @ \cup {w}]
  <2>1. server' = [server EXCEPT ![a] = b]
    BY <1>4 DEF Replace, Typed
  <2>2. b.replaced = server[a].replaced \cup {w}
    BY DEF Typed, Mailbox
  <2> HIDE DEF b
  <2>3. CASE c = a /\ u = w
    BY <1>4, <2>3 DEF Replace, Batch, BytesStay
  <2>4. CASE ~(c = a /\ u = w)
    BY <2>1, <2>2, <2>4 DEF Typed, BytesStay
  <2> QED BY <2>3, <2>4
<1>5. ASSUME NEW a \in Account, Renumber(a) PROVE \A c \in Account, u \in Uid : BytesStay(c, u)
  <2> DEFINE later == {v \in Validities[a] : v > server[a].validity}
             n == Cardinality(server[a].mail)
             b == [validity |-> Smallest(later), next |-> n + 1, mail |-> 1..n, replaced |-> {}]
  <2>1. Smallest(later) \in later /\ Smallest(later) \in Nat
    BY <1>5, FirstValidity DEF Renumber
  <2>2. Smallest(later) > server[a].validity /\ server[a].validity \in Nat
    BY <2>1, MailboxFacts DEF Typed
  <2>3. server' = [server EXCEPT ![a] = b]
    BY <1>5 DEF Renumber
  <2> HIDE DEF later, n
  <2>4. b.validity = Smallest(later)
    OBVIOUS
  <2> HIDE DEF b
  <2> QED BY <2>1, <2>2, <2>3, <2>4 DEF Typed, BytesStay
<1>6. \A c \in Account, u \in Uid : BytesStay(c, u)
  BY <1>2, <1>3, <1>4, <1>5 DEF BoxAction
<1>7. crossed' = crossed
  BY DEF BoxAction, Deliver, Renumber, Expunge, Replace
<1> QED BY <1>1, <1>6, <1>7, MailOfServer

\* The steps of a process.
LEMMA PodActionKeeps ==
    ASSUME Typed, NumbersInv, MailInv, NEW p \in Pod, PodAction(p)
    PROVE  MailInv'
<1>0. ~Discover(p) => crossed' = crossed
  BY DEF PodAction, Step, Supervise, Arm, Connect, BootstrapReads, TakeBaseline, StoreBaseline,
     Poll, Halt, Fetch, Reserve, Accept, Advance, LinkIsGone, ConnectFails, LinkFails, Crash
<1>a. crossed \subseteq crossed'
  BY <1>0 DEF Discover
<1>1. \A q \in Pod : PodMove(q)
  BY PodMoves DEF PodAction
<1>2. \A q \in Pod : q # p => pod'[q] = pod[q] /\ conn'[q] \in {conn[q], None}
  BY OthersStay
<1>3. server' = server
  BY DEF PodAction, Step, Supervise, Arm, Connect, BootstrapReads, TakeBaseline, StoreBaseline,
     Poll, Discover, Halt, Fetch, Reserve, Accept, Advance, LinkIsGone, ConnectFails, LinkFails,
     Crash
<1>4. ASSUME pod'[p].pc \notin Batch
      PROVE  \A l, e : BatchFits(conn'[p], server, l, e, pod'[p])
  BY <1>4 DEF BatchFits
<1>b. ASSUME Fetch(p) \/ Reserve(p) \/ Accept(p) \/ LinkIsGone(p), pod'[p].pc \in Batch,
             Clean(crossed', pod'[p].row)
      PROVE  Clean(crossed, pod[p].row)
  BY <1>a, <1>b, BatchRow DEF Clean
<1>5. CASE Discover(p) \/ Fetch(p) \/ Reserve(p) \/ LinkIsGone(p)
  <2>1. queue' = queue /\ ledger' = ledger /\ excluded' = excluded
    BY <1>5 DEF Discover, Fetch, Reserve, LinkIsGone
  <2>2. Clean(crossed', pod'[p].row) => BatchFits(conn'[p], server, ledger, excluded, pod'[p])
    <3>1. CASE Discover(p)
      BY <3>1, DiscoverKeeps
    <3>2. CASE Fetch(p) \/ Reserve(p) \/ LinkIsGone(p)
      BY <1>4, <1>b, <3>2, FetchKeeps, ReserveKeeps, LinkIsGoneKeeps
    <3> QED BY <1>5, <3>1, <3>2
  <2> QED BY <1>a, <1>1, <1>2, <1>3, <2>1, <2>2, RowKeepsItself, MailOfRows
<1>6. CASE LinkFails(p)
  <2>1. queue' = queue /\ ledger' = ledger /\ excluded' = excluded /\ pod' = pod
        /\ crossed' = crossed
    BY <1>6 DEF LinkFails
  <2>2. conn'[p] = None
    BY <1>6 DEF LinkFails, Drop, Typed
  <2>3. Clean(crossed', pod'[p].row) => BatchFits(conn'[p], server, ledger, excluded, pod'[p])
    BY <2>1, <2>2, BatchGrows DEF MailInv
  <2> QED BY <1>1, <1>2, <1>3, <2>1, <2>3, RowKeepsItself, MailOfRows
<1>7. CASE Accept(p)
  <2>1. RowKeeps /\ ledger \subseteq ledger' /\ excluded' = excluded
    BY <1>7, AcceptKeeps
  <2>2. Clean(crossed', pod'[p].row) => BatchFits(conn'[p], server, ledger', excluded', pod'[p])
    BY <1>4, <1>7, <1>b, AcceptKeeps
  <2> QED BY <1>a, <1>1, <1>2, <1>3, <2>1, <2>2, MailOfRows
<1>8. CASE StoreBaseline(p)
  <2>1. ledger' = ledger /\ excluded \subseteq excluded'
    BY <1>8 DEF StoreBaseline
  <2>2. pod'[p].pc \notin Batch
    BY <1>8, PcOutside
  <2> QED BY <1>a, <1>1, <1>2, <1>3, <1>4, <1>8, <2>1, <2>2, StoreBaselineKeeps, MailOfRows
<1>9. CASE Advance(p)
  <2>1. ledger' = ledger /\ excluded' = excluded
    BY <1>9 DEF Advance
  <2>2. pod'[p].pc \notin Batch
    BY <1>9, PcOutside
  <2> QED BY <1>a, <1>1, <1>2, <1>3, <1>4, <1>9, <2>1, <2>2, AdvanceKeeps, MailOfRows
<1>10. CASE Arm(p) \/ Halt(p)
  <2>1. ledger' = ledger /\ excluded' = excluded
    BY <1>10 DEF Arm, Halt
  <2>2. pod'[p].pc \notin Batch
    BY <1>10, PcOutside
  <2>3. queue' \in {queue, [queue EXCEPT !.retired = TRUE],
                    [queue EXCEPT !.sync = "NEEDS", !.cause = "UIDVALIDITY_CHANGED"]}
    BY <1>10 DEF Arm, Halt, Halted
  <2>4. /\ queue'.account = queue.account /\ queue'.epoch = queue.epoch /\ queue'.gen = queue.gen
        /\ queue'.validity = queue.validity /\ queue'.cursor = queue.cursor
    BY <2>3 DEF Typed, Row
  <2> QED BY <1>a, <1>1, <1>2, <1>3, <1>4, <2>1, <2>2, <2>4, RowKeepsNumbers, MailOfRows
<1>11. CASE \/ Supervise(p) \/ Connect(p) \/ BootstrapReads(p) \/ TakeBaseline(p) \/ Poll(p)
            \/ ConnectFails(p) \/ Crash(p)
  <2>1. queue' = queue /\ ledger' = ledger /\ excluded' = excluded
    BY <1>11 DEF Supervise, Connect, BootstrapReads, TakeBaseline, Poll, ConnectFails, Crash
  <2>2. pod'[p].pc \notin Batch
    <3>1. CASE Poll(p)
      BY <3>1, IdleWorks DEF Poll, Batch, IdlePod, Typed
    <3> QED BY <1>11, <3>1, PcOutside
  <2> QED BY <1>a, <1>1, <1>2, <1>3, <1>4, <2>1, <2>2, RowKeepsItself, MailOfRows
<1> QED BY <1>5, <1>6, <1>7, <1>8, <1>9, <1>10, <1>11 DEF PodAction, Step

LEMMA MailNext ==
    Typed /\ Typed' /\ NumbersInv /\ MailInv /\ [Next]_vars => MailInv'
<1> SUFFICES ASSUME Typed, Typed', NumbersInv, MailInv, [Next]_vars PROVE MailInv'
  OBVIOUS
<1>1. ASSUME pod' = pod, conn' = conn, server' = server, ledger' = ledger,
             excluded \subseteq excluded', crossed' = crossed, RowKeeps
      PROVE  MailInv'
  <2>1. \A q \in Pod : PodMove(q)
    BY <1>1 DEF PodMove
  <2>2. PICK p : p \notin Pod
    BY NoSetContainsEverything
  <2> QED BY <1>1, <2>1, <2>2, MailOfRows
<1>2. ASSUME NEW p \in Pod, PodAction(p) PROVE MailInv'
  BY <1>2, PodActionKeeps
<1>3. ASSUME NEW p \in Pod, Reap(p) PROVE MailInv'
  BY <1>1, <1>3, RowKeepsItself DEF Reap
<1>4. ASSUME NEW o \in Operator, OpAction(o) PROVE MailInv'
  <2>1. pod' = pod /\ conn' = conn /\ server' = server /\ ledger' = ledger
        /\ excluded \subseteq excluded' /\ crossed' = crossed
    BY <1>4 DEF OpAction, BeginReconcile, ReconcileBaseline, CompleteReconcile, FailReconcile,
       AbandonReconcile
  <2>2. CASE BeginReconcile(o)
    <3>1. excluded' = excluded
      BY <2>2 DEF BeginReconcile
    <3> QED BY <1>1, <2>1, <2>2, <3>1, BeginReconcileNumbers, ResetKeeps
  <2>3. CASE CompleteReconcile(o)
    BY <1>1, <2>1, <2>3, CompleteReconcileKeeps
  <2>4. CASE FailReconcile(o)
    <3>1. queue' \in {queue, [queue EXCEPT !.sync = "NEEDS"]} /\ excluded' = excluded
      BY <2>4 DEF FailReconcile
    <3>2. /\ queue'.account = queue.account /\ queue'.epoch = queue.epoch /\ queue'.gen = queue.gen
          /\ queue'.validity = queue.validity /\ queue'.cursor = queue.cursor
      BY <3>1 DEF Typed, Row
    <3> QED BY <1>1, <2>1, <3>1, <3>2, RowKeepsNumbers
  <2>5. CASE ReconcileBaseline(o) \/ AbandonReconcile(o)
    BY <1>1, <2>5, RowKeepsItself DEF ReconcileBaseline, AbandonReconcile
  <2> QED BY <1>4, <2>2, <2>3, <2>4, <2>5 DEF OpAction
<1>5. CASE RowAction
  <2>1. pod' = pod /\ conn' = conn /\ server' = server /\ ledger' = ledger
        /\ excluded \subseteq excluded' /\ crossed' = crossed
    BY <1>5 DEF RowAction, Switch, ResumeMigrated, ChangeMailbox
  <2>2. CASE Switch
    <3>1. queue' = [queue EXCEPT !.enabled = ~queue.enabled, !.config = queue.config + 1]
          /\ excluded' = excluded
      BY <2>2 DEF Switch
    <3>2. /\ queue'.account = queue.account /\ queue'.epoch = queue.epoch /\ queue'.gen = queue.gen
          /\ queue'.validity = queue.validity /\ queue'.cursor = queue.cursor
      BY <3>1 DEF Typed, Row
    <3> QED BY <1>1, <2>1, <3>1, <3>2, RowKeepsNumbers
  <2>3. CASE ResumeMigrated
    BY <1>1, <2>1, <2>3, ResumeMigratedKeeps
  <2>4. ASSUME NEW a \in Account, ChangeMailbox(a) PROVE MailInv'
    <3>1. excluded' = excluded
      BY <2>4 DEF ChangeMailbox
    <3> QED BY <1>1, <2>1, <2>4, <3>1, ChangeMailboxNumbers, ResetKeeps
  <2> QED BY <1>5, <2>2, <2>3, <2>4 DEF RowAction
<1>6. CASE BoxAction
  BY <1>6, BoxActionKeeps
<1>7. CASE UNCHANGED vars
  BY <1>1, <1>7, RowKeepsItself DEF vars
<1> QED BY <1>2, <1>3, <1>4, <1>5, <1>6, <1>7, Actions

LEMMA MailInit == Init => MailInv
<1> SUFFICES ASSUME Init PROVE MailInv
  OBVIOUS
<1>1. Typed /\ NumbersInv
  BY TypeInit, NumbersInit
<1>2. queue.validity = 0 /\ ledger = {}
  <2>1. CASE queue = FreshRow
    BY <2>1 DEF Init, FreshRow
  <2>2. CASE queue = MigratedRow
    BY <2>2 DEF Init, FreshRow, MigratedRow
  <2> QED BY <2>1, <2>2 DEF Init
<1>3. queue \in Row
  BY <1>1 DEF Typed
<1>4. CursorFits(server, queue) /\ QueueKeeps(queue, server, ledger, excluded)
  BY <1>1, <1>2, <1>3, Unnumbered DEF NumbersInv
<1>5. FreshRow.validity = 0
  BY DEF FreshRow
<1>6. CursorFits(server, FreshRow)
  BY <1>1, <1>5, FreshRowType, Unnumbered DEF NumbersInv
<1>7. \A p \in Pod : pod[p].row = FreshRow /\ pod[p].pc = "idle"
  BY IdleWorks DEF Init
<1>8. \A p \in Pod : BatchFits(conn[p], server, ledger, excluded, pod[p])
  BY <1>7 DEF BatchFits, Batch
<1> QED BY <1>2, <1>4, <1>6, <1>7, <1>8 DEF MailInv, EpochIsOneMailbox, LedgerFits

\* All of it together.
THEOREM MailInvariant == Spec => [](TypeInv /\ NumbersInv /\ CaptureInv /\ MailInv)
<1>1. Init => NumbersInv /\ CaptureInv /\ MailInv
  BY TypeInit, NumbersInit, CaptureInit, MailInit
<1>2. /\ Typed /\ NumbersInv /\ CaptureInv /\ MailInv /\ [Next]_vars
      => NumbersInv' /\ CaptureInv' /\ MailInv'
  BY TypeNext, NumbersNext, CaptureNext, MailNext
<1> QED BY <1>1, <1>2, TypeCorrect, TypeInvIsTyped, PTL DEF Spec

\* The row's numbers are of its mailbox, an epoch of the ledger in which no poll has crossed
\* is one mailbox, a capture is closed (update's reset, acceptImapMessage's fences,
\* armImapCapture), whatever UIDVALIDITY the mailboxes share.
THEOREM ImapInvariant == Spec => []ImapInv
<1>1. TypeInv /\ NumbersInv /\ CaptureInv /\ MailInv => ImapInv
  <2> SUFFICES ASSUME TypeInv, NumbersInv, CaptureInv, MailInv PROVE ImapInv
    OBVIOUS
  <2>1. CursorIsOfTheMailbox
    BY DEF NumbersInv, RowFits, CursorIsOfTheMailbox
  <2> QED BY <2>1 DEF TypeInv, CaptureInv, MailInv, ImapInv
<1> QED BY <1>1, MailInvariant, PTL

\* No message the cursor has passed is missing from the ledger, unless a baseline or the
\* old program put it behind (pollQueueOnce's frontier, the fence of its last write). Only
\* of a generation in which a poll has crossed nothing is said; the next one is right
\* again, whatever that poll left in the ledger.
THEOREM NothingSkipped == Spec => []NoMailSkipped
<1>1. MailInv => NoMailSkipped
  <2> SUFFICES ASSUME MailInv, Numbered, <<queue.epoch, queue.gen>> \notin crossed,
                      NEW u \in server[queue.account].mail, u <= queue.cursor
               PROVE  \/ Held(queue.account, u)
                      \/ <<queue.account, queue.validity, u>> \in excluded
    BY DEF NoMailSkipped
  <2>1. Kept(server, ledger, excluded, queue.account, u)
    BY DEF MailInv, QueueKeeps, Numbered, Clean
  <2> QED BY <2>1 DEF Kept, Held, Numbered
<1> QED BY <1>1, MailInvariant, PTL

\* A poll lists another mailbox than the row's only where the two share a UIDVALIDITY (all
\* that pollQueueOnce compares): while none do, nothing is left out of the above.
THEOREM OnlySharedValiditiesCross ==
    ASSUME \A a, b \in Account : Validities[a] \cap Validities[b] # {} => a = b
    PROVE  Spec => [](crossed = {})
<1>1. Init => crossed = {}
  BY DEF Init
<1>2. Typed /\ NumbersInv /\ crossed = {} /\ [Next]_vars => (crossed = {})'
  <2> SUFFICES ASSUME Typed, NumbersInv, crossed = {}, NEW p \in Pod, Discover(p)
               PROVE  crossed' = {}
    BY OnlyPollsCross
  <2> DEFINE row == pod[p].row
  <2>1. ASSUME Box(p).validity = row.validity, Crosses(p) PROVE FALSE
    <3>1. conn[p] \in Account /\ row \in Row /\ row.account \in Account
      BY PodFacts DEF Discover
    <3>2. row.validity \in Validities[conn[p]] /\ row.validity # 0
      BY <2>1, <3>1, ValidityFacts DEF NumbersInv, BoxesFit, Box
    <3>3. row.validity \in Validities[row.account]
      BY <3>2 DEF NumbersInv, RowFits
    <3> QED BY <2>1, <3>1, <3>2, <3>3 DEF Crosses
  <2> QED BY <2>1 DEF Discover
<1> QED BY <1>1, <1>2, NumbersInvariant, TypeInvIsTyped, PTL DEF Spec
================================================================================
