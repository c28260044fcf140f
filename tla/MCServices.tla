------------------------------ MODULE MCServices ------------------------------
(* Small services that share no state, side by side: a behaviour       *)
(* tells the story of one of them, the others stay as they started.        *)
EXTENDS Integers, FiniteSets, Sequences

CONSTANTS
    None, Pod, Dept, MaxFires, MaxEdits, MaxFaults,     \* of ReportSchedules
    User, Address, Asker, PerWindow, MaxLinks,          \* of ClientLinks
    Staff, Group, AdminGroup, Request,                  \* of StaffAdmins
    Queue, Pipe, Delivery, MaxQueueEdits, MaxRestarts,  \* of CaptureGate
    DayLength, WeekLength, DayCap, MaxTarget,           \* of WorkingTime
    MaxWrites, MaxBreaks, MaxDeployments,               \* of Deployment
    Upload, Challenge, MaxScans, MaxQueued,             \* of UploadAdmission
    RequestLimit, ByteLimit, OrphanLimit,
    Login, Threshold, Key,                              \* of AbuseLimits
    Mailbox, Person, Delivered, Rule,                  \* of MailRouting
    MaxParsers, MaxWaiting, MaxTurns

ASSUME ServicesAssumption ==
    /\ None \notin Request \cup Staff \cup Group \cup BOOLEAN
    /\ IsFiniteSet(Staff) /\ AdminGroup \subseteq Group /\ Staff # {} /\ AdminGroup # {}
    /\ IsFiniteSet(Login) /\ Threshold \in Nat \ {0}
    /\ None \notin User \cup Queue \cup Pod \cup [able : BOOLEAN, scope : SUBSET Dept]
    /\ IsFiniteSet(Delivered) /\ Delivered \subseteq Nat \ {0} /\ {MaxParsers, MaxWaiting} \subseteq Nat
    /\ IsFiniteSet(Mailbox) /\ Mailbox \subseteq Nat
    /\ IsFiniteSet(Upload) /\ {MaxScans, MaxQueued, RequestLimit, ByteLimit, OrphanLimit} \subseteq Nat

VARIABLES
    story, edits, faults,
    clock, schedule, report, owner, scan, runs, mail,
    user, address, link, session, asker,
    staff, group, lock, request, late,
    queue, row, stages, mode, work, ran, origin, restarts,
    week, holidays, start, target, day, slot, left, due,
    up, release, schema, cipher, data, paused, active, named, moved, script, breaks, deployments,
    upload, spent, used, granted, busy, waiters, fresh, quarantine, orphans, lapses,
    login, failures, guesses, asked, resets, slips,
    config, own, rules, letter, state, claim, people, known, seen, parsers, queued, turns

reportVars == <<clock, schedule, report, owner, scan, runs, mail>>
loginVars == <<user, address, link, session, asker>>
adminVars == <<staff, group, lock, request, late>>
captureVars == <<queue, row, stages, mode, work, ran, origin, restarts>>
dueVars == <<week, holidays, start, target, day, slot, left, due>>
deployVars == <<up, release, schema, cipher, data, paused, active, named, moved, script, breaks, deployments>>
uploadVars == <<upload, spent, used, granted, busy, waiters, fresh, quarantine, orphans, lapses>>
limitVars == <<login, failures, guesses, asked, resets, slips>>
routeVars == <<config, own, rules, letter, state, claim, people, known, seen, parsers, queued, turns>>
serviceVars == <<edits, faults, reportVars, loginVars, adminVars, captureVars, dueVars, deployVars>>
gateVars == <<uploadVars, limitVars, routeVars>>
vars == <<story, serviceVars, gateVars>>

\* No work, two slots, one slot, two in the wrong order, a void one and another.
WorkHours ==
    {<< >>, << <<0, 1>>, <<2, 3>> >>, << <<1, 3>> >>, << <<2, 3>>, <<0, 1>> >>, << <<2, 1>>, <<0, 2>> >>}

\* Queues with and without a department; rules that route, that may not match, that ignore.
Configs == {[on |-> TRUE, dept |-> d, priority |-> 2 - d] : d \in 0..2}
           \cup {[on |-> FALSE, dept |-> 2, priority |-> 0]}
RuleKinds == {[on |-> TRUE, ignore |-> FALSE, dept |-> d, stop |-> TRUE, safe |-> d = 3] : d \in {3, 4}}
             \cup {[on |-> TRUE, ignore |-> TRUE, dept |-> 0, stop |-> FALSE, safe |-> TRUE]}

Reports == INSTANCE ReportSchedules
Logins == INSTANCE ClientLinks WITH owner <- address, request <- asker, Request <- Asker
Admins == INSTANCE StaffAdmins
Capture == INSTANCE CaptureGate WITH MaxEdits <- MaxQueueEdits
Dues == INSTANCE WorkingTime WITH Hours <- WorkHours
Deploy == INSTANCE Deployment WITH runs <- deployments, MaxRuns <- MaxDeployments
Uploads == INSTANCE UploadAdmission WITH faults <- lapses
Limits == INSTANCE AbuseLimits WITH lapses <- slips,
            Limit <- [k \in Key |-> CASE k = "global" -> 3 [] k = "ip" -> 2 [] OTHER -> 1]
Routing == INSTANCE MailRouting WITH Mail <- Delivered, Config <- Configs, RuleKind <- RuleKinds

\* Requests of staff compete for the scanner; two others for the quotas of a channel,
\* of which the third request has no part.
Uploaded(u) ==
    [pc: {"new"}, channel: CASE story = "quotas" /\ u = 1 -> {"public"}
                              [] story = "quotas" /\ u = 2 -> {"public", "client"}
                              [] OTHER -> {"staff"},
     bytes: IF story = "scans" \/ (story = "quotas" /\ u = 2) THEN 1..2 ELSE {1},
     files: IF story = "scans" /\ u # 1 THEN 1..2 ELSE {1},
     bad: IF story = "scans" /\ u = 2 THEN 0..2 ELSE {0}, scanned: {0}, token: {{}}]

UploadInit ==
    /\ upload \in {[u \in Upload |-> <<a, b, c>>[u]] : a \in Uploaded(1), b \in Uploaded(2), c \in Uploaded(3)}
    /\ story = "scans" => \A u \in Upload : upload[u].bytes = upload[u].files

\* The first letter goes to both mailboxes; the second is another one, a copy, another
\* text under the same Message-ID, or comes from a mailbox.
Letter(m) ==
    [from: IF m = 1 THEN Person ELSE IF story = "routes" THEN Person \cup {2} ELSE {2},
     to: IF m = 1 THEN {Mailbox} ELSE {{}}, via: {m},
     id: IF m = 1 THEN {1} ELSE IF story = "routes" THEN {0, 1} ELSE {0},
     text: IF m = 2 /\ story = "routes" THEN 1..2 ELSE {1}, machine: {FALSE},
     cites: IF m = 1 /\ story = "routes" THEN {"nothing", "mask"} ELSE {"nothing"}, hits: {Rule}]

RouteInit ==
    /\ config \in [Mailbox -> {c \in Configs : c.on}]
    /\ rules \in {f \in [Rule -> RuleKinds] :
                    /\ f[1].dept \in {0, 3} /\ f[1].dept # f[2].dept
                    /\ story # "routes" => f[1].dept = 0 /\ f[2].dept = 3}
    /\ config[1] # config[2]
    /\ story # "routes" => config[1].dept = 1 /\ config[2].dept = 2
    /\ letter \in {<<a, b>> : a \in Letter(1), b \in Letter(2)} /\ letter[2].text <= letter[2].id + 1
    /\ people = {}

\* The parts that have no story start in one state.
Init ==
    /\ story \in {"reports", "logins", "admins", "mailbox", "mailboxes", "dues", "deploy",
                 "scans", "quotas", "limits", "routes"}
    /\ Reports!Init /\ Logins!Init /\ Admins!Init /\ Capture!Init
    /\ story # "logins" => \E a \in Address : address[a] = None
    /\ story = "mailbox" => Cardinality({q \in Queue : queue[q].there}) = 1
    /\ story = "mailboxes" => \A q \in Queue : queue[q].there
    /\ story \notin {"mailbox", "mailboxes"} =>
           /\ \A q \in Queue : ~queue[q].there
           /\ \A p \in Pod : mode[p] = [is |-> "closed"]
    /\ Dues!Init
    /\ story # "dues" => week = None /\ holidays = {} /\ start = 0 /\ target = 1
    /\ Deploy!Init
    /\ story # "deploy" => release = "none"
    /\ UploadInit /\ Uploads!Init
    /\ Limits!Init
    /\ RouteInit /\ Routing!Init

ReportStory ==
    /\ story = "reports" /\ Reports!Next
    /\ UNCHANGED <<story, loginVars, adminVars, captureVars, dueVars, deployVars, gateVars>>
LoginStory ==
    /\ story = "logins" /\ Logins!Next
    /\ UNCHANGED <<story, faults, reportVars, adminVars, captureVars, dueVars, deployVars, gateVars>>
AdminStory ==
    /\ story = "admins" /\ Admins!Next
    /\ UNCHANGED <<story, edits, reportVars, loginVars, captureVars, dueVars, deployVars, gateVars>>
CaptureStory ==
    /\ story \in {"mailbox", "mailboxes"} /\ Capture!Next
    /\ UNCHANGED <<story, faults, reportVars, loginVars, adminVars, dueVars, deployVars, gateVars>>
DueStory ==
    /\ story = "dues" /\ Dues!Next
    /\ UNCHANGED <<story, edits, faults, reportVars, loginVars, adminVars, captureVars,
                 deployVars, gateVars>>
DeployStory ==
    /\ story = "deploy" /\ Deploy!Next
    /\ UNCHANGED <<story, edits, faults, reportVars, loginVars, adminVars, captureVars, dueVars, gateVars>>
UploadStory ==
    /\ story \in {"scans", "quotas"} /\ Uploads!Next
    /\ UNCHANGED <<story, serviceVars, limitVars, routeVars>>
LimitStory ==
    /\ story = "limits" /\ Limits!Next
    /\ UNCHANGED <<story, serviceVars, uploadVars, routeVars>>
RouteStory ==
    /\ story = "routes" /\ Routing!Next
    /\ UNCHANGED <<story, serviceVars, uploadVars, limitVars>>

Next == ReportStory \/ LoginStory \/ AdminStory \/ CaptureStory \/ DueStory \/ DeployStory
        \/ UploadStory \/ LimitStory \/ RouteStory

\* Of deliveries, restarts and edits of the queue at most three of one queue, or one delivery
\* and one of the others among several queues; two requests for the quotas, up to the handler.
Present == {d \in Delivery : row[d].state # "ABSENT"}
FewDeliveries ==
    /\ story = "mailbox" => Cardinality(Present) + restarts + edits <= 3
    /\ story = "mailboxes" => Cardinality(Present) <= 1 /\ restarts + edits <= 1
    /\ story = "quotas" => upload[3].pc = "new" /\ quarantine = {}

Spec == Init /\ [][Next]_vars
--------------------------------------------------------------------------------
\* The type invariants.
ServicesTypeOK == Reports!TypeOK /\ Logins!TypeOK /\ Admins!TypeOK /\ Capture!TypeOK

\* What each service promises, as its module states it.
FiresOnceAsConfigured == Reports!FiresOnceAsConfigured
\* Who may come in, what they may do and how much: the links of customers, the
\* administrators, uploads, guesses and resets.
DoorsHold ==
    /\ Logins!LoginsFollowOwners /\ Admins!AnAdminRemains
    /\ Uploads!UploadsAreHeld /\ Limits!LimitsHold
MailGoesHome == Routing!MailGoesHome
CaptureIsEvidence == Capture!CaptureIsEvidence
DueIsEarliest == Dues!DueIsEarliest
DeploymentInv == Deploy!DeploymentInv
================================================================================
