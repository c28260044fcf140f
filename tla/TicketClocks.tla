------------------------------ MODULE TicketClocks ------------------------------
(***************************************************************************)
(* The two sweeps over the tickets, against the people who work on them:   *)
(* the SLA scan (sla.service.ts), which lists breached tickets and then    *)
(* claims each breach in a serializable transaction, and the automatic     *)
(* closing of idle pending tickets (auto-close.processor.ts), which lists  *)
(* its candidates and then closes each under a compare-and-set.  Both      *)
(* lists are stale when they are used, and both sweeps may run twice.      *)
(*                                                                         *)
(* An instant is what the code compares it with: a due date is absent,     *)
(* running or past, a ticket is idle or not.  Business hours, thresholds   *)
(* of the rules, priorities and texts are left out.                        *)
(***************************************************************************)
EXTENDS Naturals, FiniteSets

CONSTANTS
    Ticket,     \* a finite set of ticket ids, numbers: a scan goes by id
    Scan,       \* SLA scan jobs that may be running at once
    Plan,       \* the breach types that the SLA plan of the tickets has a target for
    Sweep,      \* auto-close jobs that may be running at once
    ScanCap,    \* SLA_BREACH_SCAN_CAP
    SweepCap,   \* the candidates an auto-close job takes at most
    MaxWork,    \* bound on what people do
    MaxFaults   \* bound on transactions that fail and jobs that die

ASSUME ClocksAssumption == Ticket \subseteq Nat /\ IsFiniteSet(Ticket) /\ ScanCap \in Nat
                           /\ SweepCap \in Nat \ {0} /\ MaxWork \in Nat /\ MaxFaults \in Nat

VARIABLES
    ticket,     \* the rows of Ticket
    event,      \* SlaEscalationEvent: the breach types with a row, of each ticket
    runs,       \* how often the rules of a breach type were run on a ticket
    todo,       \* the breaches a scan has listed and not come to yet
    sweep,      \* of an auto-close job: its candidates left, and those whose
                \* lastActivityAt is still before its cutoff
    heard,      \* ghost: its candidates with a reply since it took its cutoff
    work, faults

vars == <<ticket, event, runs, todo, sweep, heard, work, faults>>

Types == {"FIRST_RESPONSE", "RESOLUTION"}

\* computeDueDates
Clocks == [y \in Types |-> IF y \in Plan THEN "running" ELSE "absent"]

Init ==
    /\ ticket \in [Ticket -> [status : {"pending"}, merged : {FALSE}, answered : {FALSE}, idle : {FALSE},
                              due : {Clocks}, escalated : {FALSE}, level : {0}]]
    /\ event = [t \in Ticket |-> {}]
    /\ runs = [t \in Ticket |-> [y \in Types |-> 0]]
    /\ todo = [s \in Scan |-> {}]
    /\ sweep = [c \in Sweep |-> [list |-> {}, old |-> {}]]
    /\ heard = [c \in Sweep |-> {}]
    /\ work = 0
    /\ faults = 0

Closable(t) == ticket[t].status = "pending" /\ ~ticket[t].merged

\* activeBreachWhere
Active(t, y) ==
    /\ ticket[t].status # "closed" /\ ~ticket[t].merged
    /\ ticket[t].due[y] = "past"
    /\ y = "FIRST_RESPONSE" => ~ticket[t].answered
--------------------------------------------------------------------------------
(* People and time *)

\* Every writer moves lastActivityAt beyond the cutoff of the jobs that run.
Touches(t, row) ==
    /\ ticket' = [ticket EXCEPT ![t] = [row EXCEPT !.idle = FALSE]]
    /\ sweep' = [c \in Sweep |-> [sweep[c] EXCEPT !.old = @ \ {t}]]

Works ==
    /\ work < MaxWork
    /\ work' = work + 1
    /\ UNCHANGED <<event, runs, todo, faults>>

Heard(t) == heard' = [c \in Sweep |-> heard[c] \cup ({t} \cap sweep[c].list)]

\* A customer's reply reopens a closed ticket and leaves its clocks alone.
CustomerReplies(t) ==
    /\ Works
    /\ Touches(t, [ticket[t] EXCEPT !.status = IF @ = "closed" THEN "open" ELSE @])
    /\ Heard(t)

\* A staff reply, and later the delivery that makes it the first response.
StaffReplies(t) ==
    /\ Works
    /\ Touches(t, ticket[t])
    /\ Heard(t)

FirstReplyIsSent(t) ==
    /\ Works /\ ~ticket[t].answered
    /\ ticket' = [ticket EXCEPT ![t].answered = TRUE]
    /\ UNCHANGED <<sweep, heard>>

\* changeStatus: closing stops the clocks, reopening starts those of the plan.
ChangesStatus(t) == \E status \in {"open", "pending", "closed"} :
    /\ Works
    /\ Touches(t, [ticket[t] EXCEPT !.status = status,
          !.due = IF status = "closed" THEN [y \in Types |-> "absent"]
                  ELSE IF ticket[t].status = "closed" THEN Clocks ELSE @])
    /\ UNCHANGED heard

MergesAway(t) ==
    /\ Works /\ ~ticket[t].merged
    /\ Touches(t, [ticket[t] EXCEPT !.merged = TRUE])
    /\ UNCHANGED heard

FallsDue(t, y) ==
    /\ ticket[t].due[y] = "running"
    /\ ticket' = [ticket EXCEPT ![t].due[y] = "past"]
    /\ UNCHANGED <<event, runs, todo, sweep, heard, work, faults>>

\* idleDays pass without activity; it matters to a ticket that can be closed.
GoesIdle(t) ==
    /\ ~ticket[t].idle /\ Closable(t)
    /\ ticket' = [ticket EXCEPT ![t].idle = TRUE]
    /\ UNCHANGED <<event, runs, todo, sweep, heard, work, faults>>
--------------------------------------------------------------------------------
(* The SLA scan *)

Breaches(t) == {[on |-> t, type |-> y] : y \in {y \in Types : Active(t, y)}}

\* Mutant: an escalated ticket is listed again, and takes the place of others.
ListedWhileBreached == {t \in Ticket : Breaches(t) # {}}

Listed == {t \in Ticket : Breaches(t) # {} /\ ~ticket[t].escalated}

\* orderBy id, take ScanCap
Taken == {t \in Listed : Cardinality({u \in Listed : u < t}) < ScanCap}

\* checkBreaches: by id, at most ScanCap tickets, those escalated before left out.
StartScan(s) ==
    /\ todo[s] = {} /\ Listed # {}
    /\ todo' = [todo EXCEPT ![s] = UNION {Breaches(t) : t \in Taken}]
    /\ UNCHANGED <<ticket, event, runs, sweep, heard, work, faults>>

\* runPeriodicCheck goes by ticket, and has its first response before its resolution.
Before(b, d) == b.on < d.on \/ (b.on = d.on /\ b.type = "FIRST_RESPONSE")

Turns(s, b) ==
    /\ b \in todo[s] /\ \A d \in todo[s] \ {b} : Before(b, d)
    /\ todo' = [todo EXCEPT ![s] = @ \ {b}]

\* No longer active, or P2002: another scan has the event.
BreachIsOver(s) ==
    /\ \E b \in todo[s] : Turns(s, b) /\ (~Active(b.on, b.type) \/ b.type \in event[b.on])
    /\ UNCHANGED <<ticket, event, runs, sweep, heard, work, faults>>

\* Mutant: every event raises the level.
EscalateByType(s) ==
    /\ \E b \in todo[s] :
        /\ Turns(s, b)
        /\ Active(b.on, b.type) /\ b.type \notin event[b.on]
        /\ event' = [event EXCEPT ![b.on] = @ \cup {b.type}]
        /\ ticket' = [ticket EXCEPT ![b.on].escalated = TRUE, ![b.on].level = @ + 1]
        /\ runs' = [runs EXCEPT ![b.on][b.type] = @ + 1]
    /\ UNCHANGED <<sweep, heard, work, faults>>

\* The event, the one level bump and the effects of the rules, all together.
Escalate(s) ==
    /\ \E b \in todo[s] :
        /\ Turns(s, b)
        /\ Active(b.on, b.type) /\ b.type \notin event[b.on]
        /\ event' = [event EXCEPT ![b.on] = @ \cup {b.type}]
        /\ ticket' = [ticket EXCEPT ![b.on].escalated = TRUE,
                                    ![b.on].level = IF ticket[b.on].escalated THEN @ ELSE @ + 1]
        /\ runs' = [runs EXCEPT ![b.on][b.type] = @ + 1]
    /\ UNCHANGED <<sweep, heard, work, faults>>

\* A serialization conflict or a failing rule: nothing of the event remains.
EscalationAborts(s) ==
    /\ \E b \in todo[s] : Turns(s, b)
    /\ faults < MaxFaults
    /\ faults' = faults + 1
    /\ UNCHANGED <<ticket, event, runs, sweep, heard, work>>

ScanDies(s) ==
    /\ todo[s] # {} /\ faults < MaxFaults
    /\ faults' = faults + 1
    /\ todo' = [todo EXCEPT ![s] = {}]
    /\ UNCHANGED <<ticket, event, runs, sweep, heard, work>>
--------------------------------------------------------------------------------
(* Automatic closing *)

Candidates == {t \in Ticket : ticket[t].idle /\ Closable(t)}

\* The candidates, or as many of them as a job takes, in no order.
StartSweep(c) == \E S \in SUBSET Candidates :
    /\ sweep[c].list = {} /\ S # {}
    /\ Cardinality(S) <= SweepCap
    /\ S = Candidates \/ Cardinality(S) = SweepCap
    /\ sweep' = [sweep EXCEPT ![c] = [list |-> S, old |-> S]]
    /\ UNCHANGED <<ticket, event, runs, todo, heard, work, faults>>

Leaves(c, t) == heard' = [heard EXCEPT ![c] = @ \ {t}]

\* Mutant: without the cutoff in the compare-and-set.
StillPending(c, t) == Closable(t)

\* The closing compare-and-set, with the cutoff the job started with.
StillIdle(c, t) == Closable(t) /\ t \in sweep[c].old

\* The due dates stay as they are: only isResolved hides them from the scan.
Close(c, t) ==
    /\ t \in sweep[c].list /\ StillIdle(c, t)
    /\ ticket' = [ticket EXCEPT ![t].status = "closed", ![t].idle = FALSE]
    /\ sweep' = [k \in Sweep |-> [list |-> IF k = c THEN sweep[k].list \ {t} ELSE sweep[k].list,
                                  old |-> sweep[k].old \ {t}]]
    /\ Leaves(c, t)
    /\ UNCHANGED <<event, runs, todo, work, faults>>

Skip(c, t) ==
    /\ t \in sweep[c].list /\ ~StillIdle(c, t)
    /\ sweep' = [sweep EXCEPT ![c].list = @ \ {t}]
    /\ Leaves(c, t)
    /\ UNCHANGED <<ticket, event, runs, todo, work, faults>>

\* Whatever the closing transaction throws is caught: the job goes on with the next one.
CloseFails(c, t) ==
    /\ t \in sweep[c].list /\ faults < MaxFaults
    /\ faults' = faults + 1
    /\ sweep' = [sweep EXCEPT ![c] = [list |-> @.list \ {t}, old |-> @.old \ {t}]]
    /\ Leaves(c, t)
    /\ UNCHANGED <<ticket, event, runs, todo, work>>

\* The process of the job dies; the tickets it had not come to are left to the next job.
SweepDies(c) ==
    /\ sweep[c].list # {} /\ faults < MaxFaults
    /\ faults' = faults + 1
    /\ sweep' = [sweep EXCEPT ![c] = [list |-> {}, old |-> {}]]
    /\ heard' = [heard EXCEPT ![c] = {}]
    /\ UNCHANGED <<ticket, event, runs, todo, work>>
--------------------------------------------------------------------------------
People(t) ==
    \/ CustomerReplies(t) \/ StaffReplies(t) \/ FirstReplyIsSent(t) \/ ChangesStatus(t) \/ MergesAway(t)

Scanning(s) == StartScan(s) \/ BreachIsOver(s) \/ Escalate(s)

Closing(c) == StartSweep(c) \/ \E t \in Ticket : Close(c, t) \/ Skip(c, t) \/ CloseFails(c, t)

Next ==
    \/ \E t \in Ticket : People(t) \/ GoesIdle(t) \/ \E y \in Types : FallsDue(t, y)
    \/ \E s \in Scan : Scanning(s) \/ EscalationAborts(s) \/ ScanDies(s)
    \/ \E c \in Sweep : Closing(c) \/ SweepDies(c)

Spec == Init /\ [][Next]_vars

\* The repeatable job starts a scan every minute while there is a worker for
\* it; one scan may stand still for as long as another goes on.
FairSpec == Spec /\ WF_vars(\E s \in Scan : Scanning(s))
--------------------------------------------------------------------------------
TypeOK ==
    /\ ticket \in [Ticket -> [status : {"open", "pending", "closed"}, merged : BOOLEAN, answered : BOOLEAN,
                              idle : BOOLEAN, due : [Types -> {"absent", "running", "past"}],
                              escalated : BOOLEAN, level : Nat]]
    /\ event \in [Ticket -> SUBSET Types]
    /\ runs \in [Ticket -> [Types -> Nat]]
    /\ todo \in [Scan -> SUBSET [on : Ticket, type : Types]]
    /\ \A s \in Scan : Cardinality({b.on : b \in todo[s]}) <= ScanCap
    /\ sweep \in [Sweep -> [list : SUBSET Ticket, old : SUBSET Ticket]]
    /\ heard \in [Sweep -> SUBSET Ticket]
    /\ \A c \in Sweep : sweep[c].old \cup heard[c] \subseteq sweep[c].list
    /\ work \in 0 .. MaxWork /\ faults \in 0 .. MaxFaults

\* sla.service.ts:246-311, the unique sourceKey: however many scans list a
\* breach, and whether their transactions abort or die, the rules of a breach
\* type run once with its event, and a ticket climbs one level once.
OneEscalationPerTicket ==
    \A t \in Ticket :
        /\ \A y \in Types : runs[t][y] = IF y \in event[t] THEN 1 ELSE 0
        /\ ticket[t].level = IF event[t] = {} THEN 0 ELSE 1
        /\ ticket[t].escalated <=> event[t] # {}

\* What the events, the rules that ran and the level of a ticket say of each other.
ClocksInv == TypeOK /\ OneEscalationPerTicket

\* sla.service.ts:255-260: no event is written for a ticket that was answered,
\* closed or merged away after the scan had listed it.
OnlyActiveBreachesEscalate ==
    [][\A t \in Ticket : \A y \in event'[t] \ event[t] : Active(t, y)]_vars

\* auto-close.processor.ts:79-91: a ticket is never closed by a job over a reply
\* that came after the cutoff of that job.
ClosingRespectsReplies ==
    [][\A c \in Sweep, t \in Ticket :
          ticket[t].status # "closed" /\ ticket'[t].status = "closed" /\ sweep'[c].list # sweep[c].list
              => t \notin heard[c]]_vars

\* Neither job acts on a ticket as it was listed: both read it again in the
\* transaction that changes it.
StaleListsAreHarmless == OnlyActiveBreachesEscalate /\ ClosingRespectsReplies

Overdue(t) == \E y \in Types : Active(t, y)

\* sla.service.ts:180-222, 326-331: the first breach of a ticket is escalated. A ticket that
\* is overdue and has no event gets one, with one run of its rules and the ticket's level, or
\* is not overdue any more, although transactions abort, jobs die and a scan takes only the
\* first ScanCap tickets. Of a breach after the first it says nothing: that one may stay
\* without an event for ever (EveryBreachTypeEscalates).
FirstBreachEscalates ==
    \A t \in Ticket :
        Overdue(t) /\ event[t] = {} ~>
            \/ ~Overdue(t)
            \/ \E y \in event[t] : runs[t][y] = 1 /\ ticket[t].level = 1

\* sla.service.ts:280-283: "A ticket may breach both target types ... the second
\* ... still runs its own target-specific rules exactly once."
EveryBreachTypeEscalates ==
    \A t \in Ticket, y \in Types : Active(t, y) ~> (y \in event[t] \/ ~Active(t, y))

================================================================================
