----------------------------- MODULE ReportSchedules -----------------------------
(***************************************************************************)
(* One report schedule of report-schedule.processor.ts.  A pod reads the   *)
(* due schedule, resolves its owner, compiles the report with the rights   *)
(* the owner has, all outside a transaction, and then commits the advanced *)
(* schedule, the run and the mail in one serializable transaction.  Other  *)
(* pods do the same fire at the same time, and the schedule, the report    *)
(* and the owner are edited meanwhile.                                     *)
(*                                                                         *)
(* The n-th fire is the number n; a cron expression, recipients and a      *)
(* definition are the generations they were written with.                  *)
(***************************************************************************)
EXTENDS Naturals

CONSTANTS
    Pod,        \* processes that scan
    Dept,       \* departments of the owner
    None,
    MaxFires,   \* bound on the time that passes
    MaxEdits,   \* bound on edits of the schedule, the report and the owner
    MaxFaults   \* bound on failed commits and pods that die

VARIABLES
    clock,      \* the last fire that is due by now
    schedule,   \* ReportSchedule: isEnabled, nextRunAt, configGeneration
    report,     \* configGeneration of the Report
    owner,      \* whether the owner may run reports, and DepartmentStaff
    scan,       \* what each pod is doing, with what it has read
    runs,       \* ReportRun rows
    mail,       \* OutboundEmail rows of kind REPORT
    edits, faults

vars == <<clock, schedule, report, owner, scan, runs, mail, edits, faults>>

Owner == [able : BOOLEAN, scope : SUBSET Dept]

Idle == [pc |-> "idle"]

Init ==
    /\ clock = 0
    /\ schedule = [on |-> TRUE, next |-> 1, gen |-> 0]
    /\ report = 0
    /\ owner = [able |-> TRUE, scope |-> Dept]
    /\ scan = [p \in Pod |-> Idle]
    /\ runs = {}
    /\ mail = {}
    /\ edits = 0
    /\ faults = 0

FireComes ==
    /\ clock < MaxFires
    /\ clock' = clock + 1
    /\ UNCHANGED <<schedule, report, owner, scan, runs, mail, edits, faults>>

Edits == edits < MaxEdits /\ edits' = edits + 1

\* updateSchedule: a new cron expression starts from now.
EditSchedule ==
    /\ Edits
    /\ \E on \in BOOLEAN, next \in {schedule.next, clock + 1} :
        schedule' = [on |-> on, next |-> next, gen |-> schedule.gen + 1]
    /\ UNCHANGED <<clock, report, owner, scan, runs, mail, faults>>

EditReport ==
    /\ Edits
    /\ report' = report + 1
    /\ UNCHANGED <<clock, schedule, owner, scan, runs, mail, faults>>

\* staff.service: disabled, enabled, another group, other departments. History: the pods
\* that have resolved the owner and not compiled yet have it moved.
EditOwner ==
    /\ Edits
    /\ \E o \in Owner \ {owner} : owner' = o
    /\ scan' = [p \in Pod |-> IF scan[p].pc = "compile" THEN [scan[p] EXCEPT !.moved = TRUE] ELSE scan[p]]
    /\ UNCHANGED <<clock, schedule, report, runs, mail, faults>>
--------------------------------------------------------------------------------
Takes(p, step) == scan' = [scan EXCEPT ![p] = step]

\* process: the schedules that are due, with their reports.
Read(p) ==
    /\ scan[p].pc = "idle" /\ schedule.on /\ schedule.next <= clock
    /\ Takes(p, [pc |-> "resolve", row |-> schedule, report |-> report, now |-> clock])
    /\ UNCHANGED <<clock, schedule, report, owner, runs, mail, edits, faults>>

\* The stored definition is parsed and resolveScheduleOwner reads the owner;
\* without an owner who may run it the schedule will be disabled.
Resolve(p) ==
    /\ scan[p].pc = "resolve"
    /\ \E parsed \in BOOLEAN :
        Takes(p, [pc     |-> IF parsed /\ owner.able THEN "compile" ELSE "commit",
                  row    |-> scan[p].row, report |-> scan[p].report, now |-> scan[p].now,
                  rights |-> IF parsed /\ owner.able THEN owner ELSE None,
                  off    |-> parsed /\ ~owner.able,
                  scope  |-> None, ok |-> FALSE, moved |-> FALSE])
    /\ UNCHANGED <<clock, schedule, report, owner, runs, mail, edits, faults>>

\* compile reads the departments again, and the rows of the report are of these; it may
\* fail for reasons of its own.
Compile(p) ==
    /\ scan[p].pc = "compile"
    /\ \E ok \in BOOLEAN : Takes(p, [scan[p] EXCEPT !.pc = "commit", !.scope = owner.scope, !.ok = ok])
    /\ UNCHANGED <<clock, schedule, report, owner, runs, mail, edits, faults>>

\* ownerFingerprintMatchesInTransaction
SameRights(s) == s.rights \in {None, owner}

\* Mutant: the due predicate is not part of the update.
UnchangedIfOn(s) == schedule.on /\ schedule.gen = s.row.gen /\ report = s.report

\* The compare-and-set on the schedule and its report.
Unchanged(s) == schedule = s.row /\ report = s.report

Commit(p) ==
    /\ scan[p].pc = "commit"
    /\ LET s == scan[p]
           run == [fire |-> s.row.next, by |-> p, config |-> <<s.row.gen, s.report>>,
                  rights |-> s.rights, scope |-> s.scope, moved |-> s.moved]
       IN IF SameRights(s) /\ Unchanged(s)
          THEN /\ schedule' = [schedule EXCEPT !.next = s.now + 1, !.on = ~s.off]
               /\ runs' = runs \cup {run}
               /\ mail' = IF s.ok THEN mail \cup {run} ELSE mail
          ELSE UNCHANGED <<schedule, runs, mail>>
    /\ Takes(p, Idle)
    /\ UNCHANGED <<clock, report, owner, edits, faults>>

Faulty == faults < MaxFaults /\ faults' = faults + 1

\* The transaction is rolled back, its answer or the job is lost, or the pod dies.
GivesUp(p) ==
    /\ Faulty /\ scan[p].pc # "idle"
    /\ Takes(p, Idle)
    /\ UNCHANGED <<clock, schedule, report, owner, runs, mail, edits>>

Next ==
    \/ FireComes \/ EditSchedule \/ EditReport \/ EditOwner
    \/ \E p \in Pod : Read(p) \/ Resolve(p) \/ Compile(p) \/ Commit(p) \/ GivesUp(p)

Spec == Init /\ [][Next]_vars
--------------------------------------------------------------------------------
TypeOK ==
    /\ clock \in 0 .. MaxFires
    /\ schedule.on \in BOOLEAN /\ schedule.next \in 1 .. MaxFires + 1 /\ schedule.gen \in 0 .. MaxEdits
    /\ owner \in Owner
    /\ \A p \in Pod : scan[p].pc \in {"idle", "resolve", "compile", "commit"}
    /\ mail \subseteq runs

\* One fire makes one run and at most one mail, however many pods compile it;
\* and a mail leaves only for the schedule and the report as they are at that
\* moment, with an owner who has the rights that were resolved. What it says is of the
\* owner's departments, unless they were changed between the two reads of them and changed
\* back before the commit, of which the fingerprint shows nothing.
FiresOnceAsConfigured ==
    [][/\ \A r \in runs' \ runs : \A q \in runs : q.fire # r.fire
       /\ \A m \in mail' \ mail :
            /\ m.config = <<schedule.gen, report>> /\ schedule.on
            /\ owner.able /\ m.rights = owner
            /\ m.scope = owner.scope \/ m.moved]_vars

================================================================================
