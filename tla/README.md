# A TLA+ model of the TELECOM help desk

The repository is a ticketing system: a NestJS API (`apps/api`), a Next.js web
client (`apps/web`), PostgreSQL, Redis/BullMQ, an SMTP relay, IMAP mailboxes and a
volume for attachments and raw mail. The behaviour that is hard to get right is
where these stores meet and no transaction spans two of them, and where a request
reads outside the transaction it writes in. Mail in both directions runs on durable
tables with leases, fences and recovery sweeps; sessions run on token rows that
several requests rotate and revoke at once; tickets are read by one statement and
changed by a later one; the web client keeps copies of all of it.

This directory models those protocols, checks them with TLC on small instances and
proves the central invariants with TLAPS for all instances. `PROJECT.json` names,
for every definition, the lines of the source it stands for.

Contents: [1 Inventory](#1-inventory), [2 Plan](#2-plan), [3 Modules](#3-modules),
[4 Runs](#4-runs), [5 Proofs](#5-proofs), [6 Disagreements and
limits](#6-disagreements-and-limits), [7 Not modelled](#7-not-modelled).

## 1. Inventory

Paths are under `src/apps/api/src/` unless they begin with another directory.

### 1.1 Mail out: the outbox (`modules/mail/mail.service.ts`, `mail.processor.ts`)

*State.* `OutboundEmail` rows (state, attempts, next attempt, lease owner, version
and expiry), `TicketPost.isEmailed`, `Ticket.firstResponseAt`, BullMQ jobs keyed by
the row, audit entries of the operator's retries, the delivery switches read at
start.

*Operations.* A request commits a row with its post and wakes a worker
(`enqueueOutbound`); the worker claims the row under a fresh lease, reads it back,
hands it to the relay while a heartbeat extends the lease, and settles it as SENT,
RETRY, FAILED or AMBIGUOUS under a fence on its own lease; a 30 s scan marks expired
leases AMBIGUOUS and wakes due rows in batches; an operator retries a FAILED or
AMBIGUOUS row, which is a consent to a possible duplicate.

*Hard.* The relay's acceptance and the SENT transaction are two stores. Jobs are lost,
duplicated, or held by a worker that stalled. Two replies of a ticket race for the first
response, with each other and with a macro that has a reply of its own. Configuration
changes under rows and jobs that survive it.

*Correct when* one consent buys at most one delivery, what the system resends by
itself was not delivered, row, post and ticket agree with the relay, SENT is final, no
queued reply replaces a first response, nothing is sent outside the configured selection,
and every row is settled while delivery is open.

### 1.2 Mail in: acceptance (`modules/mail/inbound.service.ts`)

*State.* One `EmailQueue` row per mailbox: what it connects to, whether it is enabled,
retired by a capture test, halted, and the cursor with its UIDVALIDITY, mailbox epoch
and generations; one `InboundDelivery` row per transport identity; sockets and copies of
the row in each process. *Operations.* The supervisor connects and drops sockets; a
connect or a poll takes the first baseline; a poll lists the UIDs behind the cursor,
accepts each into the ledger and then moves the cursor; a capture-only process arms the
queue and takes one message, which an operator may later promote; an operator edits the
queue, reconciles it from now, with a backfill, or from the old program's cursor
(`modules/mail/email-queue.service.ts`).
*Hard.* Every write follows awaits on a mail server, two pods poll at once, the mailbox
changes between fetches or renumbers itself, and the operator replaces it, perhaps by one
of the same UIDVALIDITY. *Correct
when* the cursor passes no message that is not in the ledger, an epoch holds one
mailbox, only a reconcile resumes a halted queue, a capture test stays closed and its
message inert until it is promoted, and the mail of a healthy queue is taken.

### 1.3 Mail in: the ledger and the route (`modules/mail/inbound.service.ts`)

*State.* `InboundDelivery` (state, attempts, retry time, processing lease, identity,
effective owner, ticket, raw bytes) and `InboundMessageClaim`, one per Message-ID; the
permits of the MIME parser.
*Operations.* A drain reads due rows and processes them one by one: claim, load and
parse, record the identity and the logical claim in one transaction, route, filter,
find the thread or apply the rules, insert the post, write the owner, finalize the claim
(which promotes its copies), settle. A PIPE request accepts a message and processes it
in its own call. An operator replays a quarantined row; retention drops the bytes of
finished ones.
*Hard.* Copies of one message in two mailboxes drained by two pods; ticket creation is
not fenced by the lease; crashes and lost answers at every write; poison messages;
queues and rules edited between acceptance and routing.
*Correct when* a message makes one post, made by the winner of its claim; no wanted
message is settled away; a live lease excludes other flows; finished rows stay
finished; attempts are bounded; every accepted delivery is settled; and a message goes
where the configuration of its acceptance sends it.

### 1.4 Raw MIME staging (`inbound.service.ts`, `inbound-raw-storage.service.ts`)

*State.* `InboundRawMimeStaging` rows, temporary, published and marker files, the
pointer in `InboundDelivery`. *Operations.* Reserve, mark, write, publish by a rename
under the row's lock, accept, discard; reap what a dead or slow writer left; retention.
*Hard.* A database and a file system with no common transaction, and a reaper that
cannot tell a dead writer from a slow one. *Correct when* accepted bytes stay,
published bytes stay traceable, a stage that is being reaped is never used again, and
every reservation ends.

### 1.5 Tickets (`modules/tickets/`, `modules/sla/`, `modules/workflow/`)

*State.* Tickets with department, owner, watchers, links and status; posts, notes,
alerts; due dates, escalation marks and events; the events of workflows with their
leases. *Operations.* Replies, edits, moves, assignments, merges, splits, macros and
supplier tickets, each of which authorizes on rows read before its transaction and
fences the rows at its start; the rules of workflows and plans; the scan for breaches;
the automatic closing; the mails of workflows. *Hard.* What was read is stale when it is
used; sweeps run twice and over lists that have aged; a macro is refused midway; workers
of events lose their lease. *Correct when* no agent's transaction changes a ticket
outside the agent's departments, alerts stay in the department, merges and splits keep
every post, a breach is escalated once at most and not after its end,
a ticket's first one for certain, a ticket with a new reply
is not closed, a due date is the first instant at which the target was worked, and a
workflow's action makes one mail.

### 1.6 People (`auth/`, `modules/staff/`, `modules/users/`)

*State.* `RefreshToken` rows in families, `Staff.authVersion` and `isEnabled`,
`PasswordReset` rows, staff groups, `ClientLoginToken` and `ClientSession` rows, the
addresses of customers, counters in Redis, cookies. *Operations.* Login, rotation with a
grace for a concurrent tab, replay detection, logout; reset links requested, mailed,
activated and used; an administrator's edits of staff and groups under an advisory lock;
login links of customers and the changes of their addresses. *Hard.* Tabs share a cookie
and rotate it at once; revoking UPDATEs see a snapshot; mails are delivered out of
order; answers are lost; a lock ends before the operation that took it. *Correct when* a
family has one live token, no session crosses a change of the account, a replay ends its
family, tabs do not log each other out, at most one reset link, the newest mailed, works
once, an administrator remains, and a customer's session belongs to who has the address.

### 1.7 Files (`modules/attachments/`, `security/upload-admission.service.ts`)

*State.* Attachment rows, their bytes, the quarantine of uploads and the queue of staged
deletes; quotas, challenges and the slots of the virus scanner. *Operations.* Admission,
scan, storing, adoption by a post, direct delete, orphan cleanup with its recovery.
*Hard.* Rows and bytes in two stores, two cleanups at once, adoption against a sweep.
*Correct when* a used attachment is never swept, an answered upload keeps its bytes,
slots and quotas are held exactly, and every staged delete ends.

### 1.8 Web client (`src/apps/web`)

*State.* The query cache, the fields of open forms, drafts and files of messages, the
CSRF token and the cookies. *Operations.* Drags on the board, the mutations of every
screen and what they name to be fetched again, dialogs, message forms, retries of calls.
*Hard.* A fetch lands after a write it did not see; a dialog is reopened on another row
while the answer for the last is on its way; a call is repeated after its answer was
lost. *Correct when* a screen shows what its browser was told of, what was not typed is
saved as it was shown, a file is in one message, and a call runs once.

### 1.9 Operation (`src/scripts/deploy-prod.sh`, `modules/reports/report-schedule.processor.ts`)

A deployment stops, copies, migrates and converts with a boundary before which every
failure brings the old release back and behind which none does; a report schedule fires
on several pods at once while it is edited. *Correct when* the old release never runs on
migrated data, the copies are of one moment, and one fire makes one mail of the
configuration as it is.

The remaining parts (knowledge base, news, reference data, helpers, configuration, seeds,
proxies) have no state that two actors share beyond a row's constraints.

Mail in creates tickets and posts; posts create mail out; mail out writes the ticket's
first response back; workflows and SLA read tickets and create mail out. Account
changes made by 'staff' end sessions kept by 'auth'. Components share rows, not calls:
what one reads may have been changed by another when it writes.

## 2. Plan

The order was: the paths on which a customer's mail can be lost, duplicated or misfiled;
the paths on which a person keeps an access they should have lost; the tickets and the
sweeps over them; files; the web client; operation. Every module takes its sets and
bounds as CONSTANTS, has one action per statement or transaction of the code, no
RECURSIVE operator, and states its invariant as named conjuncts, so that it can be
proved about as well as checked.

Written: all modules of 3, the runs of 4 and the proofs of 5.

Left: an abstract specification of routing (a message becomes one post, is skipped, or
waits) that `InboundLedger` would implement.

## 3. Modules

A component is one module. `MC...` modules give constants their values, or put several
modules that share no state side by side: a behaviour tells the story of one of them
and the others stay as they started, so that one run checks them all without their
product. `...Proofs` modules hold theorems.

### 3.1 OutboundOutbox, OutboundDelivery

| Model | Code |
|---|---|
| `row`, `retries`, `emailed`, `firstResponse` | `OutboundEmail`, its OUTBOUND_RETRY audit entries, `TicketPost.isEmailed`, `Ticket.firstResponseAt` |
| `jobs`, `active`, `AddJob`, `JobStalls` | BullMQ with one job id per row: a job that is active again swallows an add (external) |
| `Create`, `Wake`, `WakeFails` | the commit of a row and the request's `enqueueOutbound` |
| `TakeJob` ... `ReadBack` | `processOutboundEmail` up to the SMTP call |
| `RelayAccepts`, `SmtpResolves`, `SmtpThrows` | `sendMail`: the acceptance and its answer are two events, and an error may follow an acceptance |
| `MarkSent`, `MarkSentThrows`, `MarkAmbiguousAfterSmtpAcceptance`, `RecordDeliveryFailure` | the settlements, each under `Fenced` |
| `ScanMarksStale` ... `ScanEnds` | `recoverDurableOutbox`, one statement a step |
| `RetryOutboundEmail` | the operator |
| `macros`, `MacroReads`, `MacroReplies`, `MacroIsRefused` | `TicketsService.applyMacro`, the other writer of `firstResponseAt`: the read before its transaction, and the transaction of its reply |
| `Restart`, `Crash` | a new process with another configuration; a worker that dies |

Time is what the code compares it with: a lease is live or expired, a retry is in the
future or due. The recheck of the canary selection after the claim cannot fail, since
recipients never change, and has no step. `accepts` is history: the relay's
acceptances by row and by the number of consents before the claim. A macro that found a
first response leaves the field alone and is not followed; no e-mail comes of its reply.

`OutboundDelivery` is the abstract specification: e-mails with consents, deliveries and
what is shown of them, without workers, leases or scans. The refinement mapping is at the
end of `OutboundOutbox` (`DeliveryIsImplemented`).

### 3.2 InboundLedger

A flow is one asynchronous call chain of a process: its drain loop or a PIPE request.
Its `pc` names the statement it is about to run; what it has read before an `await` is
kept in `work` and used after it, as in the code. `RecordIdentity`, `RecordLogicalClaim`
and `RecordHeaderlessDelivery` are the identity transaction. It is the one transaction
that is not atomic in the model, since its INSERT into the claim table blocks the
copies of the message until it commits (`claim[k].open`), and each of its statements
reads what is committed when it runs. `Settle` is the terminal write with its retry,
quarantine and lost-lease branches. `PruneSelects` and `PruneWrites` are the two
statements of retention. A mail is its Message-ID, its semantic hash and one of six
contents, the cases the pipeline tells apart; parser rules and ticket fields are data.
Truncated IMAP messages are quarantined at acceptance, so the branches for them after
`Load` are not reached.

### 3.3 MailRouting

What `InboundLedger` leaves to data: the snapshot of the queues that acceptance freezes
(`Snapshot`, a set, since the code sorts what it reads of it; `Accept`), the permits of
the parser with their waiters (`AcquireParserSlot`, `Parse`), the route and its claim by
Message-ID (`Route`, `Identify`, `Owner`), loops (`Filter`), threads (`Thread`, `Reply`),
the rules in their order (`ApplyParserRules`) and the new ticket (`Create`); operators
edit the queues, rules and people meanwhile. `RefreshOwnAddresses` is the cache of the own
addresses.

### 3.4 RawMimeStaging

One writer per storage key, since every write allocates a fresh key. The publish and the
acceptance hold the stage row's lock across a file operation or another insert, so each
is two steps with `locked` between them; other transactions are one step. The lease is
set at the reservation and not renewed while the bytes are written: `LeaseExpires`
may come at any time, which is how the model gets a slow writer. A reaper's sweep is one
candidate list and one file operation or statement a step. The two unlinks of
`removeFile` are one step, and its errors, which it swallows, are `CleanTempFails`.

### 3.5 ImapAcceptance, CaptureGate

`ImapAcceptance` is one queue and the mailboxes it may be moved to; a mailbox is what the
connection fingerprint tells apart (host, user, folder).

| Model | Code |
|---|---|
| `queue`, `ledger`, `stages`, `legacy` | the `EmailQueue` row, `InboundDelivery`, `InboundRawMimeStaging`, the old program's cursor in `Setting` |
| `conn`, `pod` | `connections` and the locals of `connectQueue`, `bootstrapQueue` and `pollQueueOnce`: the row as read (`row`), the batch (`todo`), `processedMax` (`done`), `lowestFailureUid` (`failed`) |
| `Supervise`, `Arm`, `Connect` | `reconcileConnections`, `armCaptureQueue`, `connectQueue` |
| `BootstrapReads`, `TakeBaseline`, `StoreBaseline` | `bootstrapQueue`: the read, the mailbox under its lock, the CAS |
| `Poll` ... `Advance` | `pollQueueOnce`: the row read again, the batch, `acceptImapMessage`'s transaction per message, the cursor CAS |
| `Fence`, `SameVersion`, `Own` | the WHERE clauses: epoch, both generations, state, capture mark |
| `ChangeMailbox`, `Switch`, `BeginReconcile` ... `ResumeMigrated` | `update` and `reconcile` |
| `Deliver`, `Expunge`, `Replace`, `Renumber` | the mail server (external) |

`excluded` is history: the mail that a baseline, or the old program, put behind the cursor
on purpose. So is `crossed`: the epochs and generations of the row for which a poll, over
a socket of before an edit, has listed another mailbox than the row's (`Crosses`);
`Validities` may give two mailboxes one UIDVALIDITY, which is all that a poll compares.
The folder is part of the fingerprint, so the `mailbox` conjunct of the fences is implied
by the configuration generation. A poll of a capture-only process arms the queue too when
it was called without a connect; the program has no such call, so `Poll` has no such
branch. A transient acceptance error is a failed UID with nothing written, as for a stale
fence. `Replace` is restricted to bytes the ledger holds and the cursor has not passed:
elsewhere nothing compares the bytes. The two writers of `RawMimeStaging` are here one row
per process, enough for the arming to see it.

`CaptureGate` follows the capture test through its whole life, over several queues and
processes in any of the three modes: `ArmReads`, `Arm`, `Fetch`, `Stage`, `Accept` take
the one message; `Select`, `Claim`, `Settle` are the drain with its canary selection;
`Update`, `Delete`, `Replay`, `Promote` are the operators'.

### 3.6 TicketLifecycle

A request has two halves. A `Read...` action is everything before the transaction: the
rows that are found, the rights and the target's owner that are checked on them. A
`Commit...` action is the transaction, which begins with the fence of
`ticket-access-policy.service.ts` (`Fenced`: the rows are locked and the department of
the actor is checked again) and then does what the first half decided. Between the two,
any number of other requests commit. `req` keeps what a request has read.

`applyMacro`, supplier tickets and bulk changes are several operations in a row: `rest`
is the sequence still to come, each with its own halves and its own fence; `MacroRefused`
and `Refuses` end an operation, and of a macro the steps whose failures the code swallows
are passed over. `ReadRule`/`CommitRule` is the workflow executor, which acts as the
system and has no department test; `ReadBreach`/`CommitEscalation` are the rules of a
plan. `SetDepartments` is an administrator's change of an agent's departments.

### 3.7 TicketClocks, WorkingTime

`TicketClocks` has the two sweeps over tickets. A scan lists the breached tickets that
are not yet escalated, in the order of their ids and up to the cap (`Taken`), and then
takes one breach a transaction, in the order of the list (`Turns`): it reads the ticket
again, inserts the event with its unique key, and runs the rules (`Escalate`), or finds
that the breach is over (`BreachIsOver`). A closing sweep lists idle pending tickets and
closes each under a compare-and-set on the status and on the last reply (`Close`,
`Skip`); what one of these transactions throws is caught, and the job goes on (`CloseFails`),
and with the process the rest of its list is gone (`SweepDies`). Lists are cut at `ScanCap`
and `SweepCap`. An instant is what the code compares it with: a due date is absent, running or
past, a ticket is idle or not.

`WorkingTime` is the arithmetic: the walk of `addWorkingSeconds`, one day or one slot a
step (`UseSlot`, `NextDay`), over every start, target, week and holiday within its
bounds, against the reference definition `Worked`.

### 3.8 WorkflowEmailEvents, ReportSchedules

`WorkflowEmailEvents` is the event outbox: `Enqueue` in the ticket's transaction; a
worker claims under a lease (`Claim`), checks the requester (`Load`, `Check`), beats
(`Heartbeat`), rereads and inserts one outbox row per action under a key of its own
(`Reread`, `Insert`), settles (`Settle`) or fails into RETRY or QUARANTINED. Every call
may throw, lose its answer or be the last of the process.

`ReportSchedules` is one schedule on several pods: `Read`, `Resolve`, `Compile` outside
a transaction, `Commit` in a serializable one that compares schedule, report and owner
with what was read. `Compile` reads the owner's departments again; `moved` is history, of an
owner that was edited between these two reads.

### 3.9 StaffSessions, StaffAdmins, ClientLinks, AbuseLimits

`StaffSessions` is one account and one browser; a tab is one request of it. A login reads
the account and stores its token in two steps, a rotation reads the token, reads the
account, and rotates in one transaction, and an answer may be lost. A change is the
transaction that changes the account, then the snapshot and the write of the UPDATE that
revokes the tokens, then the update of the reset links. The snapshot is a step of its own
because at READ COMMITTED a row inserted after it is missed. Tokens do not expire within
a behaviour, and the Redis cutoff and the access-token blocklist, which fail open, are
left out: what is checked holds without them.

`StaffAdmins` is the advisory lock of `withRbacMutationLock`: the lock lives in one
transaction while disabling and the deletion of a group write through other connections,
so a transaction that times out (`TimesOut`) leaves an operation that goes on unlocked.
`late` remembers one that wrote so.

`ClientLinks` has login links and sessions of customers while addresses move between
them; `AbuseLimits` the login throttle, which reads before the hash and counts after it,
and the counters of resets, which count and decide in one script.

### 3.10 AttachmentFiles, UploadAdmission

`UploadAdmission` is the way of an upload to its row: challenge, quotas, capacity, the
quarantine, the signatures and the slots of the scanner. `AttachmentFiles` is what happens
to row and bytes then: the three steps of an upload, adoption, snapshot for a mail, direct
delete, and two cleanups that move bytes to a deletion queue, delete the row, and recover
what an earlier one left (the ceilings of one cleanup, of items, bytes and time, and the
limit of its listing of staged deletes are left out). Row locks are held by open
transactions, and a call on the file system survives a rollback.

### 3.11 The web client

`BoardCache` is the board under drags, with the fetches they cancel. `QueryCache` has
every screen with its key and every mutation with the keys it names, as two tables
(`Screens`, `Hooks`); one screen is followed. `Overlooked` lists the pairs in which a
mutation writes what a screen shows and does not name it (6). `WebForms` has every form
as a record of what guards it has (`held`, `frozen`, `shut`, `guarded`, `versioned`,
`mounted`, or, of deletions, none: `repeats`); a
`Promise` is what those guards are for, and is checked of every form. `ReplyComposer` has
the forms of messages with their files, drafts and challenges, `ApiRequests` the calls of
`lib/api.ts` with the CSRF token, the refresh and what the guards of the API decide.

### 3.12 Deployment

`scripts/deploy-prod.sh` in the order of its commands, with its handler and its
repetition. Database, uploads and Redis are counters of their writes, so that a copy says
of which moment it is.

## 4. Runs

Each configuration is `<run>.cfg`. `CHECK_DEADLOCK FALSE` is used everywhere because
the work of these models ends: rows settle, delivery may be closed, a browser may stop.
"Faults" counts failed calls, lost answers, lost leases and processes that die.

| Run | Module | Bounds | Shows |
|---|---|---|---|
| OutboxSafety | MCOutboundOutbox | 2 workers; 1 reply with 2 attempts, 2 operator retries, 2 faults; or 2 replies of a ticket, first attempts and 1 restart, or the first attempts beside 2 macros with a reply | no duplicate without a consent; rows and posts implement `OutboundDelivery`; no queued reply replaces a first response in any order of completion, only macros that read before it do, once each; a closed or narrowed configuration touches no other row |
| MailStores | MCMailStores | outbox: 2 rows, 1 worker, batch of 1, 2 attempts, 1 fault; staging: 1 writer, 2 reapers, 3 faults | every row settles while delivery is open; accepted bytes stay, published ones are traceable, reaping is final, reservations end |
| Ledger | MCInboundLedger | 2 deliveries, 2 processes, 2 drains and a PIPE request, 2 attempts, batch of 1, 1 replay, 1 fault | `LedgerInv`; one post a message, by the winner of its claim; no wanted mail is settled away or loses the bytes it needs; only the holder of a lease moves a row; every delivery settles |
| ImapPolling | MCImapAcceptance | 2 processes of either mode, 2 reconciles, 2 mailboxes that share a validity, 1 old and 1 new message, 1 renumbering, 1 edit, 2 generations, 1 fault | no message is passed over, but in a generation in which a poll crossed to the other mailbox; epochs, generations and the capture test stay apart; the cursor never goes back, only a reconcile resumes |
| Sessions | MCStaffSessions | 2 tabs, 3 tokens, 1 change of any kind, 1 fault; or 3 reset requests, 2 changes, 1 fault | one live token a family; no session crosses a change; replay ends the family; tabs keep the session; one usable link, mailed, newest first, used once |
| Tickets | MCTicketLifecycle | 2 agents, 2 departments, 2 tickets and one to be made, 3 posts and one to be written, 3 requests | agents' transactions stay in their departments; alerts stay in the department; a split is whole |
| Clocks | TicketClocks | 2 tickets, 2 scans with a cap of 1, 1 sweep with a cap of 1, 1 deed of people on top of the passing of time, 1 fault | one event, one run of the rules and one level a breach; neither sweep acts on a ticket as it was listed; the first breach of a ticket is escalated or ends |
| Progress | MCProgress | 2 events of 2 actions, one poisoned, 2 workers, 2 attempts, batch of 1, 2 faults, 1 edit; 1 poller, 1 reconcile, 2 mailboxes, 1 fault; 2 attachments, 2 cleanups, room for 1 orphan, 1 fault | one mail an action, every event settles; mail of a healthy queue is taken; answered uploads keep their bytes, used ones are not swept, every staged delete ends |
| Services | MCServices | see below | what `ReportSchedules`, `ClientLinks`, `StaffAdmins`, `CaptureGate`, `WorkingTime`, `Deployment`, `UploadAdmission`, `AbuseLimits` and `MailRouting` state |
| Browser | MCBrowser | board: 2 tickets, 2 statuses, 2 jobs; screens: 2 mutations, 2 writes; forms: 2 rows, 2 requests, 2 openings, 1 typed value, 1 foreign write; messages: 2 files, 2 submissions, 2 challenges; calls: 2 of one page, 1 change; 1 fault | what the lists and screens show at rest is what the browser was told of; forms, composers and calls keep what their guards are for |
| GhostMerge | MCTicketLifecycle | 2 requests | a disagreement, see 6 |
| SlaSecondBreach | TicketClocks | 1 ticket, 1 scan | a disagreement, see 6 |

*Services* has, in turn: 2 pods, 2 fires and 2 edits of a report schedule; 2 customers, 3
addresses, 1 asker and 2 links with a limit of 2; 2 staff, 2 groups and 2 operations; 3
uploads against a scanner of one slot and one waiter and limits of 1 request, 2 units of
bytes, 1 orphan; 2 logins at a threshold of 2 and three limits of resets; 2 mails, 2 queues,
2 rules, 1 person, 1 permit and 1 waiter with 1 edit or failure; an IMAP and a PIPE queue with
2 processes, 2 deliveries, 1 edit, 2 restarts; every due date in weeks of two days of three
units, up to a target of 5; 2 deployments with 2 breaks over 2 writes of each kind.

Why the bounds are enough. The hazards are races of two actors over one row, so the
runs have one row with two of every actor, and two rows only where a property relates
them (two replies of a ticket, two copies of a message, a batch or a cap smaller than the
backlog, a merge of two tickets into a third). Two attempts give a first claim and one
under a lost lease; two operator retries give a settlement that is late by two consents.
Two faults allow a crash in the recovery from a crash. Three tokens are a login, its
rotation and the rotation or login that races with it; three links are two that race and
one that is newer than both. An old and a new message make a batch with a frontier in its
middle; two generations are an edit and its reconcile, or a reconcile over one that was
abandoned. Three requests on tickets are one that has read, and two that overtake it.
The stores hold no state that couples more keys than that. Symmetry is used for workers,
tokens, tabs and changes, in runs without liveness properties only. What is proved (5)
holds without any of these bounds.

Constraints, each in its MC module, separate stories that do not meet in one row.
`OneStory` of `MCOutboundOutbox` keeps faults, retries and second attempts to behaviours
with one row, and restarts, or macros, to those with two; `OneStory` of `MCStaffSessions` runs the
tabs with one change or the links with two; `FewAtOnce` of `MCImapAcceptance` lets one
process poll at a time after a fault, and none beside two reconciles; `FewDeliveries` of
`MCServices` bounds the deliveries, restarts and edits of the capture test by three; the
mixes of `MCTicketLifecycle` let any three moves of posts, owners and watchers meet, and
any other operation one that changes its ticket; `OneDisturbance` of `MCBrowser` opens a
form twice, or once under a fault or a foreign write. What lies outside a constraint is
not searched.

### Fairness

Outbox: workers run on (BullMQ runs jobs and finds stalled ones, SMTP has
timeouts), the recovery interval fires, requests that committed a row go on to wake it,
clocks advance. Nothing is assumed of producers, the operator, restarts or faults.

Ledger: the event loop runs every flow on, the drain interval fires, clocks
advance. A live flow is not assumed to lose its lease: only a row that no flow holds
expires for certain.

Staging: writers and retention cycles go on, leases end, markers age. The
reapers do not run in capture-only and canary modes (`inbound.service.ts:499-518`), so
`ReservationsEnd` is about a system in which inbound processing is on.

IMAP: a process polls every minute (60 s timer and supervisor), its IMAP calls
return or fail, and the sweep takes a staging row whose lease has passed (also in
capture-only mode, where arming sweeps, `inbound.service.ts:1302`). Nothing is assumed of
the server, the operator or faults; the property is about queues that stay healthy.

Events: the scan of each pod claims one of the oldest due events again and again, a run
that is not dead goes on, clocks advance. Cleanup: the timer of
five minutes fires. SLA: the
repeatable job starts a scan every minute and scans go on; one of them may stand still for
as long as another works.

Sessions, tickets, services and the browser have no liveness property: a user may stop at
any time.

## 5. Proofs

All theorems hold for all sets of actors and rows and for all bounds; the assumptions are
those of the constants, named in the modules, and one hypothesis on the forms of the
browser, stated below. Induction is over steps only: each proof has one case per action. TLC
checks every inductive invariant, or its visible conjuncts, on the run of the component.

| Module | Theorems |
|---|---|
| `OutboundOutboxProofs` | `TypeCorrect`, `DeliveryInvariant`, `NoDuplicates` (NoUnconsentedDuplicate), `ResendsAreUnsent`, `FirstResponseStays` (OnlyEarlierMacrosRestamp), `ClosedDeliveryHolds` (ClosedDeliveryTouchesNothing), `SentIsTrue`, `OutboxImplementsDelivery` (DeliveryIsImplemented) |
| `BackgroundProofs` | `TypeCorrect`, `StagingInvariant`, `AcceptedBytesStay` (PointerHasBytes), `PublishedBytesFound` (PublishedBytesTraceable), `TablesAgree`, `ReapingIsFinal` (ReapedStaysReaped), `BackgroundLosesNothing` (NothingIsLost of MCProgress), `OnlyHoldersSettle` (OnlyTheHolderSettles), `UsedAttachmentsAreKept` (UsedAttachmentsStay) |
| `InboundLedgerProofs` | `TypeCorrect`, `LedgerInvariant` (LedgerInv), `OneTicket` (OneTicketPerMessage), `NothingLost` (NothingIsLost), `OnlyHoldersMove` (OnlyTheHolderMoves) |
| `ImapAcceptanceProofs` | `TypeCorrect`, `NumbersAreOfTheMailbox`, `CaptureStaysClosed`, `RowForwardOnly` (RowMovesForward), `ImapInvariant` (ImapInv), `NothingSkipped` (NoMailSkipped), `OnlySharedValiditiesCross` |
| `BrowserProofs` | of `StaffSessions`: `TypeCorrect`, `AccountInvariant` (AccountInv), `NewerWins` (NewerLinkWins), `EndsForCause` (SessionsEndForCause); of `MCBrowser`: `ScreensAreKeptUp` (ScreensKeepUp) and, with `FieldsOnly = FALSE`, `PagesKeepTheirPromises` (PagesKeepTheirWord) |
| `TicketClocksProofs` | `TypeCorrect`, `ClocksInvariant` (ClocksInv), `StaleListsHarmless` (StaleListsAreHarmless) |
| `TicketLifecycleProofs` | `TypeCorrect`, `StaffStayInScope` (StaffWritesStayInScope), `AlertsStay` (AlertsStayInDepartment), `SplitsAreWhole` (SplitIsWhole) |
| `ServicesProofs` | `DoorsAreHeld` (DoorsHold), `CaptureIsOnlyEvidence` (CaptureIsEvidence), `ReportsFireOnce` (FiresOnceAsConfigured), `DeploymentIsSafe` (DeploymentInv), `MailIsRoutedHome` (MailGoesHome) |

**Outbox.** That the relay accepts at most one copy per consent is not inductive: a worker
between its claim and its settlement can still reach the relay, perhaps long after its
lease ended. `DeliveryInv` says who can. Lease owners are fresh, so a token belongs to one
claim (OwnersUnique); a claim knows the number of consents before it (EpochOfClaim); of
the workers of one row and one number of consents at most one is *engaged*, that is
may reach the relay or has without settling (OneEngagedPerEpoch); while it is, the row
cannot be claimed again (EngagedHoldsRow), because the only ways out of PROCESSING that
do not pass through it lead to AMBIGUOUS, and only a consent leads out of that; before it
reaches the relay nothing was accepted under that number (UnsentClaims), nor for a row
that can be claimed (UnsentRows). `ClosedDeliveryHolds` needs one fact more, `WorkIsApproved`:
only a restart changes the selection, it ends every worker, and the job of a row outside
the selection is dropped when it is taken, so that a worker beyond that test is of a row
inside it.

`FirstResponseStays` is a fact about the writers: the outbox fills the field only where it
is empty, a macro is among `Restamping` since it found it empty and leaves that set with its
one write, and none joins it once there is a first response.

**Refinement.** What is shown as SENT was delivered under the current consent
(`SentIsTrue`): a worker that says the relay accepted has a delivery of its own claim
(AcceptedClaims). Then every step of the outbox maps to a step or a stutter of
`OutboundDelivery`. A claim is an attempt (`Try`), an acceptance by the relay a delivery,
a settlement a confirmation or an outcome, the scan's mark the loss of a track; steps of
jobs, leases and timers stutter. `DeliveryInv` is what makes the mapping total: a worker
that could deliver is of the current number of consents, or of an older one whose account
is closed.

**Staging.** `StagingInv` adds to the properties what each party may rely on between two
of its steps: only a writer in its two locked sections holds the lock and only of an ACTIVE
stage (LockInv); a key nobody has reserved has no traces and no reaper has listed it
(StartInv); a writer past its rename whose stage is still ACTIVE has its file, and
one that discards works on a stage that is REAPING or gone (WriterInv); a reaper
unlinks and deletes only under REAPING with no pointer, and removes an orphan only when
both the stage and the pointer are gone, neither of which comes back (ReaperInv).

**Events.** `EventsInv` knows what a worker may rely on although its lease may be gone and
another worker at the same event: where it is in the list of mails (RunFits), and that
every mail it has passed is there, whoever made it (RunMailed). The unique key of a mail is
its event and action (MailKeys), so that a second insert finds the row; mails are never
unmade, so that what a worker has passed stays true while others move. Hence one that
settles does so when all mails are there. `OnlyHoldersSettle` follows from the guards of the
single updates, each of which names the owner and asks for a lease that runs.

**Attachments.** That the bytes of an answered upload can be found is not inductive: of two
cleanups one may unlink a name of the deletion queue while the other links it back.
`AttachmentsInv` says that it is enough to look at the *last* name of each file: it is in
the queue or the bytes are at their key (BytesFit), and whoever unlinks the last name of a
file in use has linked it back (CleanupSafe). A cleanup that holds a lock has an orphan
under it, and no other has the same (LocksFit); this is also why what is linked to a post
is never swept. The moves of a file are bounded by the faults: each but the last was paid
for by a fault, and a run whose transaction is gone but which has yet to move has paid
before (MovesFit, which counts the late runs of a file). The room for orphans holds because at
most one upload is between its count and its commit (RoomFits). The assumption
`ProgressAssumption` says that events are numbers, that an absent owner is no worker or
address, that the bounds are natural numbers and that attachments and processes are finite.

**Ledger.** A flow may act on a row long after another flow took it over, so nothing
about a row alone is inductive. Lease tokens are fresh and each is used by one flow
(TokensUnique); an attempt is paid for before a row can be claimed again (AttemptsPaid); a
claim is taken by one delivery and its winner does not change (KeyInv); what a flow has
read in earlier steps still holds as far as it relies on it: the identity it saw, whether
it won, what the ticket creation answered (FlowInv = Seen, Knows, Answers); a row that
counts as done is accounted for: by its post, by the post of the winner, or by a content
that asks for none (RowInv). Two lemmas, `KeyMove` and `PostMove`, say what the rest of
the world may change while a flow sleeps, and are used for the steps of every other flow.

**IMAP.** The fences compare numbers (epoch, two generations), not mailboxes.
`NumbersInv` says that this is sound: every copy of the row, in a connection, a poll or an
operator's hands, has a validity of the mailbox it names, and epochs order the copies.
`CaptureInv`: once a queue is retired only capture processes stage. `MailInv`: the ledger
of an epoch is of one mailbox, the cursor is below UIDNEXT, a batch keeps and lists
everything between the cursor and its end, and everything behind the cursor is kept.
Between the supervisor's comparison and the poll an operator may move the queue, and then
only UIDVALIDITY tells the mailboxes apart (`inbound.service.ts:1490`), which `update` calls
dangerous where two share it. Nothing is assumed of that: `MailInv` speaks of every
generation for which no poll has crossed to another mailbox (`Clean`), whatever the
validities are, and a generation once crossed stays out of it (`crossed` only grows, and
with a generation the row takes a new baseline, OnlyPollsCross, CrossedStays, EpochsStay).
What the edit itself does, the reset and the halt with its new generation, is therefore
shown to keep the promise for mailboxes of one UIDVALIDITY; what is left out is the
crossing poll (see 6). `OnlySharedValiditiesCross` says that there is none while no two
mailboxes share a UIDVALIDITY.

**Sessions.** `SessionsInv` = TypeOK, ChainInv, LinksFit, CausesFit. In a family every
token was rotated from one other; a used token bears the version of its family's root, and
an unused one what `NewToken` gave it (TokensFit); a tab about to rotate has the
version of its token (TabsFit). Since a change raises the version of the account first and
revokes second, a token that the revoking UPDATE misses has an old version, and cannot be
refreshed. An active link is mailed, unused and done with its delivery, and a change that
uses it is the only one in its transaction (LinksFit); this is what keeps a link to one
use although another request's mail may switch it off meanwhile. A refusal or an ended
family has a cause, and causes do not go away (CausesFit).

**Browser.** Each part of a page has an invariant of its own (BoardInv, ScreenInv,
FormInv, ComposerInv, CallInv), and a step of one story leaves the others alone. The
assumption `BrowserAssumption` says that rows and requests are numbered, that None is no
number, that no call has the name of a page and that the bounds are natural numbers.

* *Board.* What a list shows of a ticket is so, or is still awaited: a drag under way
  will mark the lists, a mutation that has written has yet to speak of the ticket
  (Awaited, Fits). The same holds of what a fetch has read, which is why a fetch that
  has read before a write does no harm: whoever wrote will still mark the lists or be missed.
* *Screens.* What counts as fresh, and what a fetch has read that no invalidation has
  passed, is as new as `owed` (ScreenInv). That a mutation owes a screen nothing it does
  not tell it of is a fact about the two tables: `HooksAreTidy` goes through them by groups
  of areas that share rows, and shows that of two areas of different groups none writes
  what the other shows, and that within a group each hook names the key of the screen, or
  a prefix of it, or the pair is in `Overlooked`.
* *Forms.* `FormsAreSound` says of every form of the table what its guards must have in
  common (SoundForm): one that keeps what was typed never opens on a row; one that is held
  or shut is guarded at every way in. With that, a part nobody typed is as it was shown
  in the dialog and in every request of it (AsShown), a guarded form has one creation under way
  (OneAtATime), a held one a single request (Alone), which is of the dialog that is open
  (SameDialog), and an opening that has made a row without its answer being lost makes
  no other (MadeOnce). `FormInv` has the hypothesis `FieldsOnly = FALSE`: the dialog of
  a custom field keeps what was typed for another row (6), and is not among them.
* *Messages.* A file has the tab it was chosen for wherever it is listed, kept or sent,
  and is at rest in a message or not yet in one (Placed, Shelved); a ticket bears a
  challenge that is spent.
* *Calls.* A call that ran once has an answer that neither the retry of a refused token
  nor that of a refused session takes up, or is done; between the guard and the handler its
  rights are at least those it arrived under; who waits for a refresh waits for the
  request of its page, which is not idle, since its end moves all who wait (CallKept).

**Clocks.** `ScansInv`: an event of a type has one run of its rules, a level has one event
(Rows, Escalations); what a scan still has to do is of tickets that were breached, at most
`ScanCap` of them (Lists). The cap needs `FirstOnes`: of a finite set of numbers, those
with fewer than k before them are at most k. `SweepInv`: a ticket that a sweep may still close has
not been heard of since the sweep listed it (HeardIsYoung), and one that has not moved
since the cutoff is still closable (PendingOld).

**Tickets.** The invariant is the type invariant, with what a first half leaves for the
second (RequestFits): a request is of tickets that exist, a rule and an escalation have no
actor, a merge names its target and one other ticket, a link has two ends. It stays true
because tickets are never unmade. Everything else in a request may be stale, and the
theorems show that the fence is enough. Each `...Holds` lemma takes one transaction and
shows that it touches only tickets of its fence (`ScopeOfFence`, `WriteHolds`) or a new one
in a department tested in the transaction (`CreationHolds`, `SplitHolds`), and that its
alerts are drawn from the department the ticket is in after it (`Alerted`). A step changes
the request of one actor only, so the request that is served is the one that acts (`Acts`).

**Services.** Each service has an invariant over its own variables, and a step of one
leaves the others alone. The assumption `ServicesAssumption` says what the constants are:
None is no value of theirs, the sets that are counted (staff, logins, uploads, mails,
mailboxes) are finite, the ids of mails and mailboxes are numbers, the groups of
administrators are groups and there is one, the bounds of the code are natural numbers.
`AdminsInv`: whoever holds the advisory lock has counted the administrators as they are
now, because every other edit that changes them waits for it; once an operation has
written after its transaction had expired (`late`), nothing is promised. `LinksInv`: an
unused link and an unrevoked session name the owner their address has now, since a change
of owner spends both in its transaction; the comparison at acceptance is therefore a
second line. `UploadsInv`: `busy` is the number of uploads that scan and `waiters` are
those that wait, each once (ScanSlots); what a quota has let through in its window is at
most what Redis counts and at most the limit (QuotasKept). `LimitsInv`: the guesses that
the count does not show are of the logins that hash at the moment or of calls on Redis
that failed. `CaptureInv`: the row of a delivery agrees with the mode of whoever works on
it, a captured row is inert or promoted by the one canary, and a retired queue is off and
has its one delivery and only stages of a capture; since the capture switches the queue
off in the transaction that accepts, the test of its capacity never finds a second.
`ReportsInv`: what a process has locked it may compare with an old row only to find it
changed, and every fire that ran lies before the next one of the schedule, so that an
unchanged row means a new fire; what it compiles is of the departments it resolved, or the
owner has moved since (Fresh). `ScriptInv`: the script is an automaton, and its place
decides which release is on the host and which schema is under it (Places), when the
queues are frozen (Quiet), which copies are complete and of one moment (Copies) and what
its handler undoes (Handlers). `RoutesInv`: the row of a mail carries what its acceptance
froze, the first addressed queue of that snapshot exists and is the one that `Due` names
(the order by priority and id is well founded, which is what `RouteIsDue` shows), a claim
has been taken by a winner whose route it carries, and the permits of the parser are those
of the mails it parses (Permits).

What the proofs brought to light about the models: `TicketClocks` numbers its tickets, for
a scan goes by id and the cap is about the order; and what the IMAP invariant says of an
epoch is false of one in which a poll has crossed to a mailbox of the same UIDVALIDITY.

### Only model-checked

* Liveness (`EventuallySettled`, `ReservationsEnd`, `MailIsTaken`, `FirstBreachEscalates`,
  `StagedDeletesEnd`): fairness and ENABLED are beyond the proof system.
* `DueIsEarliest`: the reference definition counts the elements of an interval, and the walk
  is an induction over days; the library's induction theorems take operators, which the
  provers cannot instantiate.

No theorem is stated of the dialog of a custom field (`FieldsOnly = TRUE`): it breaks the
promise of the forms (6).
## 6. Disagreements and limits

### 6.1 Runs that find one

| Run | Property | What happens |
|---|---|---|
| GhostMerge | PostsNeverMoveToAGhost | `merge` checks `mergedIntoId` of both tickets on rows it read before its transaction; the fence repeats the department test only. Of two merges, a into b and b into c, that both read before either commits, the second to commit moves the posts of a onto b, which is merged away. The comment at `tickets.service.ts:1600` says of the check that it prevents this. |
| SlaSecondBreach | EveryBreachTypeEscalates | `checkBreaches` lists tickets with `isEscalated = false` only (`sla.service.ts:189`) and nothing clears the flag. A resolution target that passes after the first-response breach was escalated gets no event, and its rules never run. The comment at `sla.service.ts:280` says that the second breach type still runs its own rules. |

### 6.2 Met while modelling, without a run

Mail in.

* `docs/api/internal.md:444` says that mail without a match falls back to the receiving queue or
  the default department. A ledger row whose route has no department makes
  `persistEffectiveOwner` throw at every attempt (`inbound.service.ts:3605-3612`), and ends
  quarantined; the default department is not reached for ledger rows.
* Copies of one Message-ID resolve to the same winner in any order of the drains (comment at
  `inbound.service.ts:3655`), but the envelope and the snapshot are those of each copy, so
  copies with different envelopes may be routed by the order of the drains.
* A copy that reads its claim before the winner's finalize commits, and records its identity
  after the bulk promotion, settles as SKIPPED and stays unresolved (`:3815`, `:3378`), against
  the comment at `:3304`.
* A writer stalled before it opens its temporary file until its reservation was reaped leaves,
  if it dies then, bytes without a stage or a marker (`inbound-raw-storage.service.ts:82`,
  comment at `:151`).
* Two mailboxes with equal UIDVALIDITY: sockets are compared with the row once a cycle, and the
  poll reads the row again (`inbound.service.ts:1413`). If an edit and its reconcile end in
  between, the poll lists the old mailbox over the old socket, its mail enters the new epoch,
  and the cursor of the new mailbox goes past mail of it that nobody has seen, which the reset
  of `update` is there to prevent (comment at `email-queue.service.ts:345`). Without the
  exception of `crossed`, `ImapPolling` finds both `NoMailSkipped` and `EpochIsOneMailbox`
  violated.
* A promoted capture that ends quarantined can be neither replayed nor promoted again.

Tickets, SLA, workflows.

* `applyMacro` decides on `firstResponseAt` by the ticket it read before its transaction
  (`tickets.service.ts:2070`, `:2102`), so a later time may overwrite that of a delivered
  reply, and its stamp stands for a reply that is mailed to nobody, against the comments at
  `mail.service.ts:1222` and `:1223`. `OnlyEarlierMacrosRestamp` says what is left of them:
  this is the only way, once for each such macro. A macro that is refused midway stays
  partly applied.
* `merge` moves posts, notes, attachments and watchers; links, recipients, tags, time entries,
  follow-ups and the ticket of queued mails stay with the merged one. It adds a reply count
  it read before the transaction, and writes its audit rows after it. A reply to a ticket that was
  merged since it was read lands on the merged ticket.
* A customer's reply, and a bulk change of the status, reopen by what they read before.
* `spawnSupplierTicket` creates and links in two transactions.
* An escalation rule whose threshold is past the first scan never runs (`sla.service.ts:348`,
  `docs/database.md:116`). A rule that always fails keeps its ticket listed, and as many of these
  as the cap starve the rest, against the comment at `sla.service.ts:197`. Slots of working hours
  are neither validated nor ordered (`sla/dto.ts:7`); `DueIsEarliest` is about ordered ones.
* The executor's `change_status` leaves `isResolved`, its `change_department` neither prunes
  watchers nor checks the owner, its guard against depth counts concurrent evaluations
  (`workflow.executor.ts:15`, `:74`), and its rule cache may keep a stale list until its 10 s end.
* A report definition that cannot be parsed does not disable its schedule. An owner whose
  departments change after the fingerprint and back before the commit gets the report of the
  departments in between, which the comment on that comparison rules out
  (`report-schedule.processor.ts:188`); `FiresOnceAsConfigured` excepts this one case (`moved`).

People.

* The advisory lock lives in one transaction while the work of disabling and of deleting a group
  runs on other connections: after a timeout of the transaction it goes on unlocked (`late` in
  `StaffAdmins`, where the promise of an administrator ends). The permissions of a group and the
  versions of its members are written separately.
* The limit of login links per window counts rows that the hourly cleanup may have deleted.
* Concurrent failed logins exceed the threshold by their number (`LimitsHold`). A refused reset
  still consumes the global counter.
* The Redis cutoff, set after the change of the account, may take a login that slipped in between.
  Any failure of `/auth/refresh` clears the cookies, also a transient one.

Files.

* A recovery may restore a file under another pod's uncommitted delete; the file then has no row
  and is never swept. An upload whose commit's answer is lost leaves a row without bytes. A crash,
  and a file refused for its size before storing, leave files in the quarantine.

Web.

* `Overlooked` in `QueryCache`: deleted schedules and the plans; deleted categories and the macros,
  and macros filtered by category; the detail of a workflow event after its replay; replies and
  supplier tickets and the lists; a change of the department and the watchers; merges and the
  replies; splits and the replies of the source; a customer's reply and the list. The
  pickers and the statistics of the dashboard are named by no mutation.
* The custom-field dialog is never reset: with `FieldsOnly = TRUE` `FormsKeepTheirWord` does not
  hold (comment at `custom-fields-content.tsx:95`).
* Editing a status blanks two of its fields; an empty work week opens as Monday to Friday; forms
  without a version write over what was changed elsewhere; some forms can be sent twice by the
  Enter key, and schedules, fields and their groups deleted twice; text typed while a message is
  sent is wiped with its draft.
* The staff composer shows files that were already sent, and hides, on a change of the tab, files that
  will be; an upload that ends while a message is sent is lost to the form.

Deployment.

* A second signal in the handler, or SIGKILL, leaves the old release stopped and its queues
  paused, and the next run refuses; so it does after a failure between the copy to the named
  Redis volume and the boundary, and after a first installation that fails once its services
  started. `audit-redis-cutover` counts a resumption as clean when one queue is resumed.

## 7. Not modelled

* The components marked `not_modelled` in `PROJECT.json`: pages of text, reference data,
  configuration, helpers and types, which have no state that two actors share beyond a row's
  constraints.
* PostgreSQL beyond READ COMMITTED, row locks and unique indexes; a short transaction is
  one step. BullMQ, the relay, Redis and the file system are external and modelled by the
  behaviours the code allows for: lost and repeated jobs, answers lost after their
  effect, unlinks that fail, counters that expire.
* Time as a quantity, but for `WorkingTime`: backoff, jitter, retention periods, leases.
* Content: templates, parsing, sanitizing, addresses.
* In `StaffSessions`: expiry and clean-up of rows, the Redis cutoff and blocklist, several
  browsers (their families do not interact) and several accounts.
* In `ImapAcceptance`: several queues (they share a process, not rows), IDLE, connect
  back-off, health stamps, the sweep that disables retired queues, creation and deletion.
* In `TicketLifecycle`: texts, counters, audit rows, custom fields, lists and views, the
  matching of workflow criteria and the chain of rules.
* In the web client: what pages draw, the pickers, validation beyond required fields.
