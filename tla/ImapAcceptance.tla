---------------------------- MODULE ImapAcceptance ----------------------------
(***************************************************************************)
(* One IMAP queue: API processes poll its mailbox and write what they find *)
(* into the ledger before the cursor passes it; operators move the queue   *)
(* to another mailbox and choose a new baseline; a capture-only process    *)
(* arms the queue and takes one message from it.                           *)
(*                                                                         *)
(* A mailbox (Account) is what the connection fingerprint identifies: host,*)
(* user and folder. A UID counts within a UIDVALIDITY, 0 stands for NULL.  *)
(* A process keeps a copy of the row (pod.row) and an open socket (conn)   *)
(* across awaits; every write is fenced by a version of the row.           *)
(***************************************************************************)
EXTENDS Naturals, FiniteSets

CONSTANTS
    Pod,            \* API processes
    Operator,       \* reconcile requests
    Account,        \* mailboxes
    Home,           \* the one the queue is configured for at first
    None,
    Validities,     \* the UIDVALIDITY values a mailbox has in turn, in ascending order
    OldMail,        \* messages in each mailbox at first
    Backfill,       \* numbers of old messages a baseline may take, 0 is FROM_NOW
    MaxUid,         \* bound: messages of a mailbox under one UIDVALIDITY
    MaxConfig,      \* bound: edits of the queue
    MaxGen,         \* bound: cursor generations
    MaxFaults       \* bound: crashes, lost links, lost answers, changes of a mailbox

ASSUME HomeAssumption == Home \in Account /\ None \notin Account
ASSUME ValidityAssumption ==
    /\ Validities \in [Account -> SUBSET (Nat \ {0})]
    /\ \A a \in Account : Validities[a] # {}
ASSUME BoundAssumption ==
    /\ MaxUid \in Nat /\ MaxConfig \in Nat /\ MaxGen \in Nat /\ MaxFaults \in Nat
    /\ OldMail \in 0..MaxUid /\ Backfill \subseteq Nat

VARIABLES
    queue,      \* the EmailQueue row
    legacy,     \* the cursor of the program this one replaces (a Setting row)
    ledger,     \* InboundDelivery rows of the queue
    stages,     \* processes with a row in InboundRawMimeStaging
    server,     \* the mailboxes
    mode,       \* TELECOM_HD_INBOUND_CAPTURE_ONLY_ENABLED of a process
    conn,       \* the mailbox a process has a socket to
    pod, op,    \* polling processes, reconcile requests
    excluded,   \* history: mail a baseline or the old program put behind the cursor
    crossed,    \* history: epochs and generations in which a poll listed another mailbox
    faults

vars == <<queue, legacy, ledger, stages, server, mode, conn, pod, op, excluded, crossed, faults>>

Smallest(S) == CHOOSE x \in S : \A y \in S : x <= y
Least(x, y) == IF x <= y THEN x ELSE y

Uid == 1..MaxUid
Validity == {0} \cup UNION {Validities[a] : a \in Account}
Cause == {"none", "UIDVALIDITY_CHANGED", "MAILBOX_IDENTITY_CHANGED",
          "TRANSPORT_COLLISION", "LEGACY_MIGRATION"}
Row == [enabled: BOOLEAN, account: Account, sync: {"OK", "BOOTSTRAPPING", "NEEDS"},
        cause: Cause, validity: Validity, cursor: 0..MaxUid, epoch: 0..MaxConfig,
        gen: 0..MaxGen, config: 0..MaxConfig, retired: BOOLEAN]
Baseline == [from: Account \cup {None}, validity: Validity, cursor: 0..MaxUid,
             skipped: SUBSET Uid]
\* replaced: whether the bytes are the second ones the server has under the UID.
Delivery == [epoch: 0..MaxConfig, validity: Validity, uid: Uid, from: Account,
             replaced: BOOLEAN, state: {"ACCEPTED", "CAPTURED"}]
PodPc == {"idle", "arm", "connect", "bootstrap", "baseline", "store", "poll", "open",
          "halt", "fetch", "reserve", "accept", "advance"}

FreshRow == [enabled |-> TRUE, account |-> Home, sync |-> "OK", cause |-> "none",
             validity |-> 0, cursor |-> 0, epoch |-> 0, gen |-> 0, config |-> 0,
             retired |-> FALSE]
MigratedRow == [FreshRow EXCEPT !.sync = "NEEDS", !.cause = "LEGACY_MIGRATION"]
NoBaseline == [from |-> None, validity |-> 0, cursor |-> 0, skipped |-> {}]

\* connecting: a bootstrap inside connectQueue. now: the UID being worked on.
IdlePod == [pc |-> "idle", connecting |-> FALSE, row |-> FreshRow, armed |-> FALSE,
            base |-> NoBaseline, todo |-> {}, done |-> 0, now |-> 0, failed |-> 0,
            from |-> None, replaced |-> FALSE, large |-> FALSE]
IdleOp == [pc |-> "idle", row |-> FreshRow, base |-> NoBaseline]

TypeOK ==
    /\ queue \in Row
    /\ legacy \in [validity: Validity, watermark: 0..MaxUid, pending: SUBSET Uid]
    /\ ledger \subseteq Delivery
    /\ stages \subseteq Pod
    /\ server \in [Account -> [validity: Validity, next: 1..(MaxUid + 1),
                               mail: SUBSET Uid, replaced: SUBSET Uid]]
    /\ mode \in [Pod -> {"normal", "capture"}]
    /\ conn \in [Pod -> Account \cup {None}]
    /\ pod \in [Pod -> [pc: PodPc, connecting: BOOLEAN, row: Row, armed: BOOLEAN,
                        base: Baseline, todo: SUBSET Uid, done: 0..MaxUid, now: 0..MaxUid,
                        failed: 0..MaxUid, from: Account \cup {None},
                        replaced: BOOLEAN, large: BOOLEAN]]
    /\ op \in [Operator -> [pc: {"idle", "baseline", "complete", "fail"},
                            row: Row, base: Baseline]]
    /\ excluded \subseteq Account \X Validity \X Uid
    /\ crossed \subseteq (0..MaxConfig) \X (0..MaxGen)
    /\ faults \in 0..MaxFaults

\* A new queue, or one the migration has halted with the old program's cursor unread.
Init ==
    /\ queue \in {FreshRow, MigratedRow}
    /\ legacy \in [validity: {Smallest(Validities[Home])}, watermark: {OldMail},
                   pending: SUBSET (1..OldMail)]
    /\ queue = FreshRow => legacy.pending = {}
    /\ ledger = {} /\ stages = {} /\ excluded = {} /\ crossed = {} /\ faults = 0
    /\ server = [a \in Account |-> [validity |-> Smallest(Validities[a]), next |-> OldMail + 1,
                                    mail |-> 1..OldMail, replaced |-> {}]]
    /\ mode \in [Pod -> {"normal", "capture"}]
    /\ conn = [p \in Pod |-> None]
    /\ pod = [p \in Pod |-> IdlePod] /\ op = [o \in Operator |-> IdleOp]

Capture(p) == mode[p] = "capture"
At(p, pc) == pod[p].pc = pc
Go(p, pc) == pod' = [pod EXCEPT ![p].pc = pc]
Rest(p) == pod' = [pod EXCEPT ![p] = IdlePod]
Drop(p) == conn' = [conn EXCEPT ![p] = None]
Box(p) == server[conn[p]]
Fault == faults < MaxFaults /\ faults' = faults + 1
Skipped(b) == {<<b.from, b.validity, u>> : u \in b.skipped}

\* The row is the one the process has read: no edit, reconcile or arming since.
SameVersion(row) ==
    queue.epoch = row.epoch /\ queue.gen = row.gen /\ queue.config = row.config

\* Mutant: a poll does not ask whether the queue was armed.
FenceUnmarked(p) ==
    /\ queue.enabled /\ queue.sync = "OK"
    /\ SameVersion(pod[p].row) /\ queue.validity = pod[p].row.validity

\* What every write of a poll requires of the row.
Fence(p) ==
    /\ queue.enabled /\ queue.sync = "OK" /\ queue.retired = Capture(p)
    /\ SameVersion(pod[p].row) /\ queue.validity = pod[p].row.validity

(***************************************************************************)
(* A polling cycle begins: the supervisor compares the socket with the row *)
(* it reads. Other queues are connected and polled before this one is.     *)
(***************************************************************************)
Supervise(p) ==
    /\ At(p, "idle")
    /\ LET wanted == queue.enabled /\ (queue.retired => Capture(p))
           open == wanted /\ conn[p] = queue.account
       IN /\ conn' = [conn EXCEPT ![p] = IF open THEN @ ELSE None]
          /\ pod' = [pod EXCEPT ![p] = IF ~wanted THEN IdlePod ELSE
                [IdlePod EXCEPT !.row = queue,
                                !.pc = IF open THEN "poll"
                                       ELSE IF Capture(p) THEN "arm" ELSE "connect"]]
    /\ UNCHANGED <<queue, legacy, ledger, stages, server, mode, op, excluded, crossed, faults>>

\* A queue becomes capture-only for good, before the socket is opened and only if it
\* has no history. The caller's row stays the one the supervisor read.
Virgin == ledger = {} /\ stages = {}
Arm(p) ==
    /\ At(p, "arm")
    /\ IF queue.enabled /\ queue.sync = "OK" /\ (queue.retired \/ Virgin)
       THEN /\ queue' = [queue EXCEPT !.retired = TRUE]
            /\ pod' = [pod EXCEPT ![p].pc = "connect", ![p].armed = ~queue.retired]
       ELSE Rest(p) /\ UNCHANGED queue
    /\ UNCHANGED <<legacy, ledger, stages, server, mode, conn, op, excluded, crossed, faults>>

Connect(p) ==
    /\ At(p, "connect")
    /\ conn' = [conn EXCEPT ![p] = pod[p].row.account]
    /\ pod' = [pod EXCEPT ![p].pc = "bootstrap", ![p].connecting = TRUE]
    /\ UNCHANGED <<queue, legacy, ledger, stages, server, mode, op, excluded, crossed, faults>>

ConnectFails(p) ==
    /\ At(p, "connect") /\ Fault /\ Rest(p)
    /\ UNCHANGED <<queue, legacy, ledger, stages, server, mode, conn, op, excluded, crossed>>

\* What bootstrapQueue does once it returns: a connecting process polls next.
Bootstrapped(p) ==
    pod' = [pod EXCEPT ![p] = IF @.connecting THEN [IdlePod EXCEPT !.pc = "poll"] ELSE IdlePod]

\* It throws: a connecting process gives the socket up.
BootstrapThrows(p) ==
    /\ Rest(p)
    /\ IF pod[p].connecting THEN Drop(p) ELSE UNCHANGED conn

\* bootstrapQueue reads the row. The empty folder is proved on the arming connect only.
BootstrapReads(p) ==
    /\ At(p, "bootstrap") /\ conn[p] # None
    /\ LET mustBeEmpty == Capture(p) /\ pod[p].armed /\ queue.enabled
           fresh == /\ queue.enabled /\ queue.retired = Capture(p)
                    /\ queue.validity = 0 /\ queue.sync = "OK" /\ queue.cause = "none"
       IN IF mustBeEmpty /\ Box(p).mail # {}
          THEN BootstrapThrows(p)
          ELSE /\ UNCHANGED conn
               /\ IF fresh THEN pod' = [pod EXCEPT ![p].pc = "baseline", ![p].row = queue]
                           ELSE Bootstrapped(p)
    /\ UNCHANGED <<queue, legacy, ledger, stages, server, mode, op, excluded, crossed, faults>>

\* Mutant: UIDNEXT itself is taken for the boundary.
BaselineAtUidnext(a, n) ==
    LET box == server[a]
        last == {u \in box.mail : Cardinality({v \in box.mail : v > u}) < n}
        cursor == IF last = {} THEN box.next ELSE Smallest(last) - 1
    IN [from |-> a, validity |-> box.validity, cursor |-> cursor,
        skipped |-> {u \in box.mail : u <= cursor}]

\* The mailbox as it is under its lock: take the last n messages, 0 for FROM_NOW.
BaselineOf(a, n) ==
    LET box == server[a]
        last == {u \in box.mail : Cardinality({v \in box.mail : v > u}) < n}
        cursor == IF last = {} THEN box.next - 1 ELSE Smallest(last) - 1
    IN [from |-> a, validity |-> box.validity, cursor |-> cursor,
        skipped |-> {u \in box.mail : u <= cursor}]

TakeBaseline(p) ==
    /\ At(p, "baseline") /\ conn[p] # None
    /\ \/ /\ Capture(p) /\ Box(p).mail # {}
          /\ BootstrapThrows(p) /\ UNCHANGED faults
       \/ /\ Capture(p) => Box(p).mail = {}
          /\ \E n \in Backfill :
               pod' = [pod EXCEPT ![p].pc = "store", ![p].base = BaselineOf(conn[p], n)]
          /\ UNCHANGED <<conn, faults>>
       \/ Bootstrapped(p) /\ Fault /\ UNCHANGED conn     \* no UIDVALIDITY: deferred
    /\ UNCHANGED <<queue, legacy, ledger, stages, server, mode, op, excluded, crossed>>

StoreBaseline(p) ==
    /\ At(p, "store") /\ Bootstrapped(p)
    /\ LET base == pod[p].base
       IN IF Fence(p) /\ queue.validity = 0 /\ queue.cause = "none"
          THEN /\ queue' = [queue EXCEPT !.validity = base.validity, !.cursor = base.cursor]
               /\ excluded' = excluded \cup Skipped(base)
          ELSE UNCHANGED <<queue, excluded>>
    /\ UNCHANGED <<legacy, ledger, stages, server, mode, conn, op, crossed, faults>>

\* Mutant: a queue without numbers is left to the next connect.
PollNumberedOnly(p) ==
    /\ At(p, "poll") /\ conn[p] # None
    /\ LET banned == queue.enabled /\ queue.retired /\ ~Capture(p)
           polled == queue.enabled /\ ~banned /\ queue.sync = "OK" /\ queue.validity # 0
       IN /\ conn' = [conn EXCEPT ![p] = IF banned THEN None ELSE @]
          /\ pod' = [pod EXCEPT ![p] = IF ~polled THEN IdlePod
                                       ELSE [IdlePod EXCEPT !.pc = "open", !.row = queue]]
    /\ UNCHANGED <<queue, legacy, ledger, stages, server, mode, op, excluded, crossed, faults>>

(***************************************************************************)
(* pollQueueOnce: the row is read again, the socket is the one of before.  *)
(***************************************************************************)
Poll(p) ==
    /\ At(p, "poll") /\ conn[p] # None
    /\ LET banned == queue.enabled /\ queue.retired /\ ~Capture(p)
           polled == queue.enabled /\ ~banned /\ queue.sync = "OK"
           next == IF queue.validity = 0 THEN "bootstrap" ELSE "open"
       IN /\ conn' = [conn EXCEPT ![p] = IF banned THEN None ELSE @]
          /\ pod' = [pod EXCEPT ![p] = IF ~polled THEN IdlePod
                                       ELSE [IdlePod EXCEPT !.pc = next, !.row = queue]]
    /\ UNCHANGED <<queue, legacy, ledger, stages, server, mode, op, excluded, crossed, faults>>

\* The mailbox of the socket is locked and its UIDs above the cursor are listed: all that
\* is compared with the row is the UIDVALIDITY.
Listed(p) == {u \in Box(p).mail : u > pod[p].row.cursor}
Crosses(p) == conn[p] # pod[p].row.account /\ Listed(p) # {}
Discover(p) ==
    /\ At(p, "open") /\ conn[p] # None
    /\ LET row == pod[p].row
       IN IF Box(p).validity = row.validity
          THEN /\ pod' = [pod EXCEPT ![p].pc = "fetch", ![p].done = row.cursor,
                                     ![p].todo = Listed(p)]
               /\ crossed' = crossed \cup (IF Crosses(p) THEN {<<row.epoch, row.gen>>} ELSE {})
          ELSE Go(p, "halt") /\ UNCHANGED crossed
    /\ UNCHANGED <<queue, legacy, ledger, stages, server, mode, conn, op, excluded, faults>>

\* Mutant: the cause that is recorded already stays.
HaltedOnce(row, cause) ==
    [row EXCEPT !.sync = "NEEDS", !.cause = IF @ = "none" THEN cause ELSE @]

Halted(row, cause) == [row EXCEPT !.sync = "NEEDS", !.cause = cause]

\* haltImapSnapshot.
Halt(p) ==
    /\ At(p, "halt") /\ Rest(p)
    /\ queue' = IF Fence(p) THEN Halted(queue, "UIDVALIDITY_CHANGED") ELSE queue
    /\ UNCHANGED <<legacy, ledger, stages, server, mode, conn, op, excluded, crossed, faults>>

\* A UID that could not be taken ends the batch; the bytes of one that can are read.
Failed(p, u) == pod' = [pod EXCEPT ![p].pc = "advance", ![p].failed = u]
Fetched(p, u, l) ==
    pod' = [pod EXCEPT ![p].pc = IF l THEN "reserve" ELSE "accept", ![p].now = u,
                       ![p].from = conn[p], ![p].large = l,
                       ![p].replaced = u \in Box(p).replaced]
Taken(p, u) == pod' = [pod EXCEPT ![p].pc = "fetch", ![p].done = u, ![p].todo = @ \ {u}]

\* The unique transport key of a UID.
SameKey(row, u) ==
    {d \in ledger : d.epoch = row.epoch /\ d.validity = row.validity /\ d.uid = u}

\* A full capture test reads no body but that of the message it has.
Full(p, u) == Capture(p) /\ ledger # {} /\ SameKey(pod[p].row, u) = {}

Fetch(p) ==
    /\ At(p, "fetch") /\ conn[p] # None
    /\ \/ pod[p].todo = {} /\ Go(p, "advance")
       \/ /\ pod[p].todo # {}
          /\ LET u == Smallest(pod[p].todo)
             IN \/ Full(p, u) /\ Failed(p, u)
                \/ ~Full(p, u) /\ u \notin Box(p).mail /\ Taken(p, u)
                \/ /\ ~Full(p, u) /\ u \in Box(p).mail
                   /\ \E l \in BOOLEAN : Fetched(p, u, l)
    /\ UNCHANGED <<queue, legacy, ledger, stages, server, mode, conn, op, excluded, crossed, faults>>

\* A large body gets a row in InboundRawMimeStaging before it is written.
Reserve(p) ==
    /\ At(p, "reserve") /\ p \notin stages
    /\ IF queue.enabled /\ queue.retired = Capture(p)
       THEN Go(p, "accept") /\ stages' = stages \cup {p}
       ELSE Failed(p, pod[p].now) /\ UNCHANGED stages
    /\ UNCHANGED <<queue, legacy, ledger, server, mode, conn, op, excluded, crossed, faults>>

\* acceptImapMessage's transaction, with the row locked: the message is new, the one
\* already held, or other bytes under its key; a stale poll gets nothing.
Accept(p) ==
    LET row == pod[p].row
        u == pod[p].now
        found == SameKey(row, u)
        exact == \E d \in found : d.from = pod[p].from /\ d.replaced = pod[p].replaced
        staged == pod[p].large => p \in stages
        full == Capture(p) /\ ledger # {}
        delivery == [epoch |-> row.epoch, validity |-> row.validity, uid |-> u,
                     from |-> pod[p].from, replaced |-> pod[p].replaced,
                     state |-> IF Capture(p) THEN "CAPTURED" ELSE "ACCEPTED"]
    IN /\ At(p, "accept") /\ stages' = stages \ {p}
       /\ \/ /\ Fence(p) /\ found = {} /\ ~full /\ staged
             /\ ledger' = ledger \cup {delivery}
             /\ queue' = [queue EXCEPT !.enabled = ~Capture(p)]
             /\ \/ Taken(p, u) /\ UNCHANGED faults
                \/ Failed(p, u) /\ Fault            \* the answer to the commit is lost
          \/ /\ Fence(p) /\ exact
             /\ Taken(p, u) /\ UNCHANGED <<queue, ledger, faults>>
          \/ /\ Fence(p) /\ found # {} /\ ~exact /\ staged
             /\ queue' = Halted(queue, "TRANSPORT_COLLISION")
             /\ Failed(p, u) /\ UNCHANGED <<ledger, faults>>
          \/ /\ ~Fence(p) \/ (~exact /\ ~staged) \/ (found = {} /\ full)
             /\ Failed(p, u) /\ UNCHANGED <<queue, ledger, faults>>
    /\ UNCHANGED <<legacy, server, mode, conn, op, excluded, crossed>>

\* Mutant: the cursor goes up to the UID that failed.
FrontierOverFailure(p) == IF pod[p].failed = 0 THEN pod[p].done ELSE pod[p].failed

\* Up to where everything is durable.
Frontier(p) ==
    IF pod[p].failed = 0 THEN pod[p].done ELSE Least(pod[p].done, pod[p].failed - 1)

\* Mutant: the cursor is set whatever it is by now.
AdvanceBlindly(p) ==
    /\ At(p, "advance") /\ Rest(p)
    /\ queue' = IF Frontier(p) > pod[p].row.cursor /\ Fence(p)
                THEN [queue EXCEPT !.cursor = Frontier(p)] ELSE queue
    /\ UNCHANGED <<legacy, ledger, stages, server, mode, conn, op, excluded, crossed, faults>>

Advance(p) ==
    /\ At(p, "advance") /\ Rest(p)
    /\ queue' = IF /\ Frontier(p) > pod[p].row.cursor
                   /\ Fence(p) /\ queue.cursor = pod[p].row.cursor
                THEN [queue EXCEPT !.cursor = Frontier(p)] ELSE queue
    /\ UNCHANGED <<legacy, ledger, stages, server, mode, conn, op, excluded, crossed, faults>>

(***************************************************************************)
(* What goes wrong: links, processes, staged bytes whose lease has passed. *)
(***************************************************************************)
LinkFails(p) ==
    /\ conn[p] # None /\ Fault /\ Drop(p)
    /\ UNCHANGED <<queue, legacy, ledger, stages, server, mode, pod, op, excluded, crossed>>

\* A step that needs the socket fails; a batch keeps what it has.
LinkIsGone(p) ==
    /\ conn[p] = None
    /\ \/ pod[p].pc \in {"bootstrap", "baseline", "poll", "open"} /\ Rest(p)
       \/ At(p, "fetch") /\ pod[p].todo = {} /\ Go(p, "advance")
       \/ At(p, "fetch") /\ pod[p].todo # {} /\ Failed(p, Smallest(pod[p].todo))
    /\ UNCHANGED <<queue, legacy, ledger, stages, server, mode, conn, op, excluded, crossed, faults>>

\* A process restarts, perhaps with the other setting.
Crash(p) ==
    /\ Fault /\ Rest(p) /\ Drop(p)
    /\ \E m \in {"normal", "capture"} : mode' = [mode EXCEPT ![p] = m]
    /\ UNCHANGED <<queue, legacy, ledger, stages, server, op, excluded, crossed>>

\* The lease of a staging row has expired, as a rule because its process is gone: the
\* sweep takes the bytes and the row.
Reap(p) ==
    /\ p \in stages /\ stages' = stages \ {p}
    /\ IF At(p, "accept") THEN Fault ELSE UNCHANGED faults
    /\ UNCHANGED <<queue, legacy, ledger, server, mode, conn, pod, op, excluded, crossed>>

(***************************************************************************)
(* The mail server.                                                        *)
(***************************************************************************)
Deliver(a) ==
    /\ server[a].next <= MaxUid
    /\ server' = [server EXCEPT ![a].mail = @ \cup {server[a].next}, ![a].next = @ + 1]
    /\ UNCHANGED <<queue, legacy, ledger, stages, mode, conn, pod, op, excluded, crossed, faults>>

Expunge(a, u) ==
    /\ u \in server[a].mail /\ Fault
    /\ server' = [server EXCEPT ![a].mail = @ \ {u}]
    /\ UNCHANGED <<queue, legacy, ledger, stages, mode, conn, pod, op, excluded, crossed>>

\* Other bytes under a UID the ledger holds, that nobody is taking and the cursor has
\* not passed (before and after that nothing could tell).
Replace(a, u) ==
    /\ u \in server[a].mail \ server[a].replaced
    /\ \E d \in ledger : d.from = a /\ d.validity = server[a].validity /\ d.uid = u
    /\ \A p \in Pod : pod[p].pc \notin {"fetch", "reserve", "accept", "advance"}
    /\ <<a, server[a].validity, u>> \notin excluded
    /\ a = queue.account /\ queue.validity = server[a].validity => u > queue.cursor
    /\ server' = [server EXCEPT ![a].replaced = @ \cup {u}]
    /\ UNCHANGED <<queue, legacy, ledger, stages, mode, conn, pod, op, excluded, crossed, faults>>

\* The mailbox gets a new UIDVALIDITY; its UIDs start again and sockets to it close.
Renumber(a) ==
    /\ \E v \in Validities[a] : v > server[a].validity
    /\ Fault
    /\ LET n == Cardinality(server[a].mail)
       IN server' = [server EXCEPT ![a] =
            [validity |-> Smallest({v \in Validities[a] : v > server[a].validity}),
             next |-> n + 1, mail |-> 1..n, replaced |-> {}]]
    /\ conn' = [p \in Pod |-> IF conn[p] = a THEN None ELSE conn[p]]
    /\ UNCHANGED <<queue, legacy, ledger, stages, mode, pod, op, excluded, crossed>>

(***************************************************************************)
(* Operators. An edit reads the row and writes it under a CAS on all it    *)
(* has read; so does the beginning of a reconcile.                         *)
(***************************************************************************)
Editable == queue.sync # "BOOTSTRAPPING" /\ queue.config < MaxConfig

\* Mutant: the epoch stays.
ChangeMailboxInEpoch(a) ==
    /\ Editable /\ ~queue.retired /\ a # queue.account /\ queue.gen < MaxGen
    /\ queue' = [Halted(queue, "MAILBOX_IDENTITY_CHANGED") EXCEPT
                    !.account = a, !.validity = 0, !.cursor = 0,
                    !.gen = @ + 1, !.config = @ + 1]
    /\ UNCHANGED <<legacy, ledger, stages, server, mode, conn, pod, op, excluded, crossed, faults>>

ChangeMailbox(a) ==
    /\ Editable /\ ~queue.retired /\ a # queue.account /\ queue.gen < MaxGen
    /\ queue' = [Halted(queue, "MAILBOX_IDENTITY_CHANGED") EXCEPT
                    !.account = a, !.validity = 0, !.cursor = 0,
                    !.epoch = @ + 1, !.gen = @ + 1, !.config = @ + 1]
    /\ UNCHANGED <<legacy, ledger, stages, server, mode, conn, pod, op, excluded, crossed, faults>>

\* A retired queue may only be disabled.
Switch ==
    /\ Editable /\ (queue.retired => queue.enabled)
    /\ queue' = [queue EXCEPT !.enabled = ~@, !.config = @ + 1]
    /\ UNCHANGED <<legacy, ledger, stages, server, mode, conn, pod, op, excluded, crossed, faults>>

Reconcilable ==
    /\ queue.sync # "OK" /\ queue.cause # "none" /\ ~queue.retired /\ queue.gen < MaxGen
    /\ \E p \in Pod : ~Capture(p)

\* FROM_NOW or BACKFILL, also over a reconcile that never ended.
BeginReconcile(o) ==
    /\ op[o].pc = "idle" /\ Reconcilable
    /\ LET row == [queue EXCEPT !.sync = "BOOTSTRAPPING", !.gen = @ + 1,
                                !.validity = 0, !.cursor = 0]
       IN /\ queue' = row
          /\ op' = [op EXCEPT ![o] = [IdleOp EXCEPT !.pc = "baseline", !.row = row]]
    /\ UNCHANGED <<legacy, ledger, stages, server, mode, conn, pod, excluded, crossed, faults>>

\* captureReconcileBaseline, with a socket to the mailbox of the row it began with.
ReconcileBaseline(o) ==
    /\ op[o].pc = "baseline"
    /\ \/ \E n \in Backfill :
            op' = [op EXCEPT ![o].pc = "complete", ![o].base = BaselineOf(op[o].row.account, n)]
       \/ op' = [op EXCEPT ![o].pc = "fail"]
    /\ UNCHANGED <<queue, legacy, ledger, stages, server, mode, conn, pod, excluded, crossed, faults>>

\* Mutant: any reconcile's baseline will do.
OwnCause(o) == queue.sync = "BOOTSTRAPPING" /\ queue.cause = op[o].row.cause

\* The row is the reconcile's own: no other began, no edit.
Own(o) ==
    /\ queue.sync = "BOOTSTRAPPING" /\ queue.cause = op[o].row.cause
    /\ SameVersion(op[o].row) /\ queue.retired = op[o].row.retired

CompleteReconcile(o) ==
    /\ op[o].pc = "complete"
    /\ LET base == op[o].base
       IN IF Own(o)
          THEN /\ queue' = [queue EXCEPT !.validity = base.validity, !.cursor = base.cursor,
                                         !.sync = "OK", !.cause = "none"]
               /\ excluded' = excluded \cup Skipped(base)
          ELSE UNCHANGED <<queue, excluded>>
    /\ op' = [op EXCEPT ![o] = IdleOp]
    /\ UNCHANGED <<legacy, ledger, stages, server, mode, conn, pod, crossed, faults>>

FailReconcile(o) ==
    /\ op[o].pc = "fail"
    /\ queue' = IF Own(o) THEN [queue EXCEPT !.sync = "NEEDS"] ELSE queue
    /\ op' = [op EXCEPT ![o] = IdleOp]
    /\ UNCHANGED <<legacy, ledger, stages, server, mode, conn, pod, excluded, crossed, faults>>

\* The process of the request dies: the row stays BOOTSTRAPPING.
AbandonReconcile(o) ==
    /\ op[o].pc # "idle" /\ Fault
    /\ op' = [op EXCEPT ![o] = IdleOp]
    /\ UNCHANGED <<queue, legacy, ledger, stages, server, mode, conn, pod, excluded, crossed>>

\* RESUME_MIGRATED: behind the old watermark, but before what the old program left pending.
ResumeCursor ==
    IF legacy.pending = {} THEN legacy.watermark
    ELSE Least(legacy.watermark, Smallest(legacy.pending) - 1)

ResumeMigrated ==
    /\ Reconcilable /\ queue.cause = "LEGACY_MIGRATION"
    /\ queue' = [queue EXCEPT !.validity = legacy.validity, !.cursor = ResumeCursor,
                              !.sync = "OK", !.cause = "none", !.gen = @ + 1]
    /\ excluded' = excluded \cup
            {<<queue.account, legacy.validity, u>> : u \in (1..legacy.watermark) \ legacy.pending}
    /\ UNCHANGED <<legacy, ledger, stages, server, mode, conn, pod, op, crossed, faults>>

Step(p) ==
    \/ Supervise(p) \/ Arm(p) \/ Connect(p)
    \/ BootstrapReads(p) \/ TakeBaseline(p) \/ StoreBaseline(p)
    \/ Poll(p) \/ Discover(p) \/ Halt(p) \/ Fetch(p) \/ Reserve(p) \/ Accept(p)
    \/ Advance(p) \/ LinkIsGone(p)

Next ==
    \/ \E p \in Pod : Step(p) \/ ConnectFails(p) \/ LinkFails(p) \/ Crash(p) \/ Reap(p)
    \/ \E a \in Account : Deliver(a) \/ Renumber(a) \/ ChangeMailbox(a)
    \/ \E a \in Account, u \in Uid : Expunge(a, u) \/ Replace(a, u)
    \/ Switch \/ ResumeMigrated
    \/ \E o \in Operator : \/ BeginReconcile(o) \/ ReconcileBaseline(o)
                           \/ CompleteReconcile(o) \/ FailReconcile(o) \/ AbandonReconcile(o)

Spec == Init /\ [][Next]_vars

\* A process polls every minute; a staging row is swept once its lease has passed.
Fairness == \A p \in Pod : WF_vars(Step(p)) /\ WF_vars(Reap(p))
FairSpec == Spec /\ Fairness

(***************************************************************************)
(* Properties.                                                             *)
(***************************************************************************)
Numbered == queue.sync = "OK" /\ queue.validity = server[queue.account].validity
Held(a, u) ==
    \E d \in ledger : /\ d.from = a /\ d.validity = server[a].validity /\ d.uid = u
                      /\ d.replaced = (u \in server[a].replaced)

\* Every message of the mailbox that the cursor has passed is in the ledger with its
\* bytes, unless a baseline an operator or the first connect took, or the old program,
\* put it behind (pollQueueOnce's frontier, the fences, the reconcile's CAS). Mailboxes
\* may share a UIDVALIDITY, which update calls dangerous: its reset and its halt keep the
\* promise, but for the generation in which a poll has listed, over a socket of before
\* the edit, a mailbox with the UIDVALIDITY of the row.
NoMailSkipped ==
    Numbered /\ <<queue.epoch, queue.gen>> \notin crossed => \A u \in server[queue.account].mail :
        u <= queue.cursor => \/ Held(queue.account, u)
                             \/ <<queue.account, queue.validity, u>> \in excluded

\* The numbers of a queue that is polled are those of the mailbox it is configured for
\* (update resets them, the baseline CAS refuses those of an earlier configuration).
CursorIsOfTheMailbox ==
    queue.sync = "OK" => queue.validity \in {0} \cup Validities[queue.account]

\* Within a mailbox epoch all deliveries come from one mailbox (the transport key's epoch),
\* unless a poll of that epoch listed another one.
CrossedIn(epoch) == \E g \in 0..MaxGen : <<epoch, g>> \in crossed
EpochIsOneMailbox ==
    \A d, e \in ledger : d.epoch = e.epoch => d.from = e.from \/ CrossedIn(d.epoch)

\* A retired queue holds at most the one captured message, never a delivery that a
\* normal process would have turned into a ticket, and no normal process has staged
\* bytes for it ("do not retire the queue underneath those bytes").
CaptureIsClosed ==
    queue.retired =>
        /\ Cardinality(ledger) <= 1
        /\ \A d \in ledger : d.state = "CAPTURED"
        /\ \A p \in stages : At(p, "accept") => Capture(p)

\* What the numbers of the row, the rows of the ledger and a capture rest on.
ImapInv == TypeOK /\ CursorIsOfTheMailbox /\ EpochIsOneMailbox /\ CaptureIsClosed

\* Within a cursor generation the cursor never moves back nor changes its numbers.
CursorNeverRewinds ==
    [][queue'.gen = queue.gen /\ queue.validity # 0 =>
         queue'.cursor >= queue.cursor /\ queue'.validity = queue.validity]_vars

\* A halted queue is polled again only by a reconcile: a new generation, or the end of
\* the reconcile that the present generation belongs to.
OnlyAReconcileResumes ==
    [][queue.sync # "OK" /\ queue'.sync = "OK" =>
         \/ queue'.gen = queue.gen + 1 /\ queue.cause = "LEGACY_MIGRATION"
         \/ \E o \in Operator : op[o].pc = "complete" /\ op[o].row.gen = queue.gen
                                /\ op[o].row.account = queue.account]_vars

\* How the row moves, whatever stale copies of it processes and reconciles work from.
RowMovesForward == CursorNeverRewinds /\ OnlyAReconcileResumes

Healthy ==
    /\ queue.enabled /\ queue.sync = "OK" /\ ~queue.retired
    /\ queue.validity \in {0, server[queue.account].validity}
AllTaken ==
    /\ queue.validity # 0
    /\ \A u \in server[queue.account].mail : u <= queue.cursor

\* Mail of a queue that stays healthy is taken while a normal process runs, whatever
\* crashed, was lost or was refused before.
MailIsTaken ==
    <>[](Healthy /\ \A p \in Pod : ~Capture(p)) => <>[]AllTaken
================================================================================
