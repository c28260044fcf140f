---------------------------- MODULE TicketLifecycle ----------------------------
(***************************************************************************)
(* The operations of staff, customers, macros and rules on the tickets     *)
(* (tickets.service.ts and its neighbours).  An operation has two halves:  *)
(* it reads and authorizes the ticket outside a transaction, and later     *)
(* commits one transaction that first fences the ticket rows               *)
(* (ticket-access-policy.service.ts).  What the first half read may be     *)
(* stale in the second: a request here keeps what it read, and any number  *)
(* of other requests commit in between.  A macro and the opening of a      *)
(* supplier ticket are several operations in a row.                        *)
(*                                                                         *)
(* Texts, masks, counters, audit rows and the SLA clocks are left out; the *)
(* clocks are in TicketClocks, the mail of a reply in OutboundOutbox.  Of  *)
(* a tag, priority, type, time entry, follow-up or recipient only the      *)
(* ticket it is written on matters.                                        *)
(***************************************************************************)
EXTENDS Naturals, FiniteSets, Sequences

CONSTANTS
    Ticket,     \* tickets, those that a split may still create included
    Post,       \* post ids, those not given out yet included: numbers
    Agent,      \* staff without the administrator flag
    Dept,       \* departments
    Request,    \* requests, each served once, numbered as they arrive
    None,
    Macros,     \* macros: the operations each performs, in the order of applyMacro
    Crew,       \* the departments' agents at the start
    Desk,       \* the department each ticket has at the start, None for one not made yet
    Thread      \* the ticket of each post at the start, None for one not written yet

ASSUME NoneAssumption == None \notin Agent \cup Dept \cup Ticket

ASSUME StartAssumption ==
    /\ Crew \in [Dept -> SUBSET Agent]
    /\ Desk \in [Ticket -> Dept \cup {None}]
    /\ Thread \in [Post -> {t \in Ticket : Desk[t] # None} \cup {None}]

VARIABLES
    ticket,     \* the rows of Ticket
    link,       \* TicketLink: pairs of tickets
    home,       \* TicketPost.ticketId, None while the post is not written
    member,     \* DepartmentStaff: the agents of each department
    mail,       \* the staff notifications committed so far
    req,        \* what each request is about to do, with what it has read
    rest        \* the operations of its macro that each request has still to perform

vars == <<ticket, link, home, member, mail, req, rest>>

Made == {t \in Ticket : ticket[t].made}

Blank(d) ==
    [made |-> d # None, into |-> None, dept |-> d, owner |-> None, resolved |-> FALSE, watchers |-> {},
     notes |-> {}, marks |-> {}]

\* Everyone of the department watches.
Init ==
    /\ member = Crew
    /\ ticket = [t \in Ticket |-> IF Desk[t] = None THEN Blank(None)
                                  ELSE [Blank(Desk[t]) EXCEPT !.watchers = Crew[Desk[t]]]]
    /\ home = Thread
    /\ link = {}
    /\ mail = {}
    /\ req = [r \in Request |-> [op |-> "new"]]
    /\ rest = [r \in Request |-> << >>]

\* findAccessibleOrThrow and the fence: a trusted caller passes no actor.
MaySee(a, t) == t \in Made /\ (a = None \/ a \in member[ticket[t].dept])

\* assertAssigneeCanHandleDepartments: the owner, if any, belongs to all of ds.
CanHandle(owner, ds) == owner # None => \A d \in ds : owner \in member[d]

\* Preflight: what the request will need of the state it has read.
Arrives(r) == req[r].op = "new" /\ \A q \in Request : q < r => req[q].op # "new"

\* A request that has just arrived, or a macro whose next operation this is.
Begins(r, op, a, ts) ==
    \/ Arrives(r)
    \/ req[r].op = "macro" /\ Head(rest[r]) = op /\ a = req[r].by /\ ts = req[r].on

Receives(r, request) ==
    /\ req' = [req EXCEPT ![r] = request]
    /\ rest' = [rest EXCEPT ![r] = IF @ = << >> THEN @ ELSE Tail(@)]
    /\ UNCHANGED <<ticket, link, home, member, mail>>

ReadReply(r) == Arrives(r) /\ \E a \in Agent \cup {None}, t \in Made :
    /\ MaySee(a, t)
    /\ Receives(r, [op |-> "reply", by |-> a, on |-> {t}, reopen |-> a = None /\ ticket[t].resolved])

\* The first half of createTicket: of staff, or of a trusted caller.
ReadCreate(r) == Arrives(r) /\ \E a \in Agent \cup {None}, owner \in Agent \cup {None}, d \in Dept :
    /\ IF a = None THEN owner = None ELSE a \in member[d]
    /\ CanHandle(owner, {d})
    /\ Receives(r, [op |-> "create", by |-> a, on |-> {}, dept |-> d, owner |-> owner])

\* spawnSupplierTicket, up to the transaction of its createTicket.
ReadSpawn(r) == Arrives(r) /\ \E a \in Agent, t \in Made :
    /\ MaySee(a, t)
    /\ Receives(r, [op |-> "spawn", by |-> a, on |-> {}, dept |-> ticket[t].dept, owner |-> None, client |-> t])

\* A bulk reopening leaves out what it has read as open.
ReadStatus(r) == \E a \in Agent, ts \in SUBSET Made, close, bulk \in BOOLEAN :
    /\ Begins(r, "status", a, ts)
    /\ ts # {} /\ \A t \in ts : MaySee(a, t)
    /\ IF bulk THEN \A t \in ts : ticket[t].into = None ELSE Cardinality(ts) = 1
    /\ Receives(r, [op |-> "status", by |-> a, on |-> ts, close |-> close,
                    opens |-> IF bulk THEN {t \in ts : ticket[t].resolved} ELSE ts])

ReadAssign(r) == \E a \in Agent, ts \in SUBSET Made, owner \in Agent \cup {None} :
    /\ Begins(r, "assign", a, ts)
    /\ ts # {} /\ \A t \in ts : MaySee(a, t)
    /\ Cardinality(ts) = 1 \/ \A t \in ts : ticket[t].into = None
    /\ CanHandle(owner, {ticket[t].dept : t \in ts})
    /\ Receives(r, [op |-> "assign", by |-> a, on |-> ts, owner |-> owner])

ReadMove(r) == \E a \in Agent, t \in Made, d \in Dept :
    /\ Begins(r, "move", a, {t})
    /\ MaySee(a, t) /\ a \in member[d]
    /\ CanHandle(ticket[t].owner, {d})
    /\ Receives(r, [op |-> "move", by |-> a, on |-> {t}, dept |-> d])

\* addNote, addTag, removeTag, changePriority and changeType.
ReadEdit(r) == \E a \in Agent, t \in Made, op \in {"note", "tag", "field"} :
    /\ Begins(r, op, a, {t})
    /\ MaySee(a, t)
    /\ Receives(r, [op |-> op, by |-> a, on |-> {t}])

\* Recipients, time entries and follow-ups: all in one transaction.
ReadRow(r) == Arrives(r) /\ \E a \in Agent, t \in Made :
    Receives(r, [op |-> "row", by |-> a, on |-> {t}])

ReadWatch(r) == Arrives(r) /\ \E a, w \in Agent, t \in Made :
    /\ MaySee(a, t)
    /\ \/ /\ CanHandle(w, {ticket[t].dept})
          /\ Receives(r, [op |-> "watch", by |-> a, on |-> {t}, who |-> w])
       \/ Receives(r, [op |-> "unwatch", by |-> a, on |-> {t}, who |-> w])

\* addLink, also as the second operation of spawnSupplierTicket.
ReadLink(r) == \E a \in Agent, pair \in SUBSET Made :
    /\ Begins(r, "link", a, pair)
    /\ Cardinality(pair) = 2 /\ \A t \in pair : MaySee(a, t)
    /\ Receives(r, [op |-> "link", by |-> a, on |-> pair])

\* removeLink, whose link is read in the transaction.
ReadUnlink(r) == Arrives(r) /\ \E a \in Agent, pair \in link :
    Receives(r, [op |-> "unlink", by |-> a, on |-> pair])

ReadMerge(r) == Arrives(r) /\ \E a \in Agent, source, target \in Made :
    /\ source # target /\ MaySee(a, source) /\ MaySee(a, target)
    /\ ticket[source].into = None /\ ticket[target].into = None
    /\ Receives(r, [op |-> "merge", by |-> a, on |-> {source, target}, target |-> target,
                    dept |-> ticket[target].dept])

ReadSplit(r) == Arrives(r) /\ \E a \in Agent, t \in Made, d \in Dept :
    \E ps \in SUBSET {p \in Post : home[p] = t} :
        /\ ps # {} /\ MaySee(a, t) /\ a \in member[d]
        /\ CanHandle(ticket[t].owner, {d})
        /\ Receives(r, [op |-> "split", by |-> a, on |-> {t}, posts |-> ps, dept |-> d,
                        owner |-> ticket[t].owner])

\* applyMacro reads the ticket once for its reply; its helpers read it again.
ReadMacro(r) == Arrives(r) /\ \E a \in Agent, t \in Made, m \in Macros :
    /\ MaySee(a, t)
    /\ rest' = [rest EXCEPT ![r] = m]
    /\ req' = [req EXCEPT ![r] = [op |-> "macro", by |-> a, on |-> {t}]]
    /\ UNCHANGED <<ticket, link, home, member, mail>>

\* The reply of a macro has no first half of its own.
MacroReplies(r) ==
    /\ req[r].op = "macro" /\ Head(rest[r]) = "reply"
    /\ Receives(r, [op |-> "reply", by |-> req[r].by, on |-> req[r].on, reopen |-> FALSE])

Breached(t) == ~ticket[t].resolved /\ ticket[t].into = None

\* evaluate: a rule that matches is planned on the ticket as it was read.
ReadRule(r) == Arrives(r) /\ \E t \in Made, d \in Dept \cup {None}, owner \in Agent \cup {None} :
    /\ <<d, owner>> # <<None, None>>
    /\ Receives(r, [op |-> "rule", by |-> None, on |-> {t}, dept |-> d, owner |-> owner])

\* checkBreaches lists an open ticket; TicketClocks has its clocks.
ReadBreach(r) == Arrives(r) /\ \E t \in Made :
    /\ Breached(t)
    /\ Receives(r, [op |-> "escalate", by |-> None, on |-> {t}])

Reads(r) ==
    \/ ReadReply(r) \/ ReadCreate(r) \/ ReadSpawn(r) \/ ReadStatus(r) \/ ReadAssign(r) \/ ReadMove(r)
    \/ ReadEdit(r) \/ ReadRow(r) \/ ReadWatch(r) \/ ReadLink(r) \/ ReadUnlink(r) \/ ReadMerge(r)
    \/ ReadSplit(r) \/ ReadMacro(r) \/ MacroReplies(r) \/ ReadRule(r) \/ ReadBreach(r)

\* Mutant: the fence locks the rows and trusts the preflight.
FencedRowsOnly(q) == q.on \subseteq Made

\* fenceTicketMutation on every ticket of the request, inside the transaction.
Fenced(q) == \A t \in q.on : MaySee(q.by, t)

\* assertCanAccessDepartmentInTransaction, of the department moved into.
StillIn(q) == q.by = None \/ q.by \in member[q.dept]

\* A macro goes on, another request is done.
Done == [op |-> "done"]

Goes(r, more) ==
    /\ req' = [req EXCEPT ![r] = IF more = << >> THEN Done ELSE [op |-> "macro", by |-> @.by, on |-> @.on]]
    /\ rest' = [rest EXCEPT ![r] = more]

\* The transaction of an operation: the fence, then its writes.
Commits(r, op) ==
    /\ req[r].op = op /\ Fenced(req[r])
    /\ Goes(r, rest[r])
    /\ UNCHANGED member

Alerts(r, whom, t) == {[to |-> a, on |-> t, of |-> r] : a \in whom}

\* Mutant: whoever is on the ticket.
InformedAll(whom, d) == whom \ {None}

\* notification.service: the alert repeats the department test at commit.
Informed(whom, d) == whom \cap member[d]

\* pruneWatchersOutsideDepartment.
Pruned(watchers, d) == watchers \cap member[d]

\* The next id of the sequence.
Fresh(p) == home[p] = None /\ \A o \in Post : o < p => home[o] # None

CommitReply(r) ==
    /\ Commits(r, "reply")
    /\ \E t \in req[r].on, p \in Post :
        /\ Fresh(p)
        /\ home' = [home EXCEPT ![p] = t]
        /\ ticket' = [ticket EXCEPT ![t].resolved = @ /\ ~req[r].reopen]
        /\ mail' = mail \cup IF req[r].by = None THEN Alerts(r, Informed(ticket[t].watchers, ticket[t].dept), t) ELSE {}
    /\ UNCHANGED link

\* The ticket with its first post.
Creates(r, t) ==
    /\ StillIn(req[r])
    /\ ticket' = [ticket EXCEPT ![t] = [Blank(req[r].dept) EXCEPT !.owner = req[r].owner]]
    /\ \E p \in Post : Fresh(p) /\ home' = [home EXCEPT ![p] = t]
    /\ UNCHANGED <<link, mail>>

CommitCreate(r) == Commits(r, "create") /\ \E t \in Ticket \ Made : Creates(r, t)

\* The link is another operation: the new ticket stays when it is refused.
CommitSpawn(r) ==
    /\ req[r].op = "spawn" /\ UNCHANGED member
    /\ \E t \in Ticket \ Made :
        /\ Creates(r, t)
        /\ rest' = [rest EXCEPT ![r] = <<"link">>]
        /\ req' = [req EXCEPT ![r] = [op |-> "macro", by |-> @.by, on |-> {@.client, t}]]

CommitStatus(r) ==
    /\ Commits(r, "status")
    /\ LET on == req[r].on IN
        ticket' = [t \in Ticket |->
            IF req[r].close /\ t \in on THEN [ticket[t] EXCEPT !.resolved = TRUE]
            ELSE IF t \in req[r].opens THEN [ticket[t] EXCEPT !.resolved = FALSE] ELSE ticket[t]]
    /\ UNCHANGED <<link, home, mail>>

CommitAssign(r) ==
    /\ Commits(r, "assign")
    /\ ticket' = [t \in Ticket |-> IF t \in req[r].on THEN [ticket[t] EXCEPT !.owner = req[r].owner]
                                                      ELSE ticket[t]]
    /\ mail' = mail \cup UNION {Alerts(r, Informed({req[r].owner}, ticket[t].dept), t) : t \in req[r].on}
    /\ UNCHANGED <<link, home>>

CommitMove(r) ==
    /\ Commits(r, "move") /\ StillIn(req[r])
    /\ \E t \in req[r].on :
        ticket' = [ticket EXCEPT ![t].dept = req[r].dept,
                                 ![t].watchers = Pruned(@, req[r].dept)]
    /\ UNCHANGED <<link, home, mail>>

CommitNote(r) ==
    /\ Commits(r, "note")
    /\ \E t \in req[r].on : ticket' = [ticket EXCEPT ![t].notes = @ \cup {r}]
    /\ UNCHANGED <<link, home, mail>>

\* A mark is written, or one that is there is taken away.
CommitMark(r) ==
    /\ \E op \in {"tag", "field", "row"} : Commits(r, op)
    /\ \E t \in req[r].on, m \in SUBSET Request :
        /\ m = ticket[t].marks \cup {r} \/ \E q \in ticket[t].marks : m = ticket[t].marks \ {q}
        /\ ticket' = [ticket EXCEPT ![t].marks = m]
    /\ UNCHANGED <<link, home, mail>>

CommitLink(r) ==
    /\ Commits(r, "link") /\ req[r].on \notin link
    /\ link' = link \cup {req[r].on}
    /\ UNCHANGED <<ticket, home, mail>>

CommitUnlink(r) ==
    /\ Commits(r, "unlink") /\ req[r].on \in link
    /\ link' = link \ {req[r].on}
    /\ UNCHANGED <<ticket, home, mail>>

\* applyActions: the tags and notes of a rule, each a statement of its own.
RuleMarks(r) ==
    /\ req[r].op = "rule"
    /\ \E t \in req[r].on :
        /\ r \notin ticket[t].marks
        /\ ticket' = [ticket EXCEPT ![t].marks = @ \cup {r}]
    /\ UNCHANGED <<link, home, member, mail, req, rest>>

\* The scalar actions in one update or transaction: no fence, the owner is not asked and no watcher is pruned.
CommitRule(r) ==
    /\ Commits(r, "rule")
    /\ LET q == req[r]
           moved(d) == IF q.dept = None THEN d ELSE q.dept
       IN  \E t \in q.on :
            /\ ticket' = [ticket EXCEPT ![t].dept = moved(@),
                                        ![t].owner = IF q.owner = None THEN @ ELSE q.owner]
            /\ mail' = mail \cup Alerts(r, Informed({q.owner}, moved(ticket[t].dept)), t)
    /\ UNCHANGED <<link, home>>

\* The actions of the rules, read in the transaction of the breach: they may
\* assign across departments, and alert whom they name.
CommitEscalation(r) ==
    /\ Commits(r, "escalate")
    /\ \E t \in req[r].on : \E owner \in Agent \cup {ticket[t].owner}, told \in Agent \cup {None} :
        /\ Breached(t)
        /\ ticket' = [ticket EXCEPT ![t].owner = owner, ![t].marks = @ \cup {r}]
        /\ mail' = mail \cup Alerts(r, Informed({told}, ticket[t].dept), t)
    /\ UNCHANGED <<link, home>>

CommitWatch(r) ==
    /\ Commits(r, "watch")
    /\ \E t \in req[r].on : ticket' = [ticket EXCEPT ![t].watchers = @ \cup {req[r].who}]
    /\ UNCHANGED <<link, home, mail>>

CommitUnwatch(r) ==
    /\ Commits(r, "unwatch")
    /\ \E t \in req[r].on : ticket' = [ticket EXCEPT ![t].watchers = @ \ {req[r].who}]
    /\ UNCHANGED <<link, home, mail>>

\* Posts, notes and watchers go over, marks and links do not.  Both rows are locked, but mergedIntoId is not looked at again, and the
\* watchers are pruned by the department the target had when it was read.
CommitMerge(r) ==
    /\ Commits(r, "merge")
    /\ LET target == req[r].target
           source == CHOOSE t \in req[r].on : t # target
           stay   == Pruned(ticket[source].watchers \cup ticket[target].watchers, req[r].dept)
       IN /\ home' = [p \in Post |-> IF home[p] = source THEN target ELSE home[p]]
          /\ ticket' = [ticket EXCEPT ![source].into = target, ![source].watchers = {},
                                      ![target].watchers = stay, ![source].notes = {},
                                      ![target].notes = @ \cup ticket[source].notes]
    /\ UNCHANGED <<link, mail>>

\* Mutant: the count of the move is not compared.
AnyStillThere(q) == TRUE

\* The move is scoped to the source, and its count must match.
AllStillThere(q) == \A p \in q.posts : home[p] \in q.on

CommitSplit(r) ==
    /\ Commits(r, "split") /\ StillIn(req[r]) /\ AllStillThere(req[r])
    /\ \E t \in Ticket \ Made :
        /\ ticket' = [ticket EXCEPT ![t] = [Blank(req[r].dept) EXCEPT !.owner = req[r].owner]]
        /\ home' = [p \in Post |-> IF p \in req[r].posts /\ home[p] \in req[r].on THEN t ELSE home[p]]
    /\ UNCHANGED <<link, mail>>

\* NotFound or BadRequest, and the transaction is rolled back.  A macro ends
\* with it, unless it is the failure of a tag or a note.
Refuses(r) ==
    /\ req[r].op \notin {"new", "done", "macro"}
    /\ \/ ~Fenced(req[r])
       \/ req[r].op \in {"move", "split", "create", "spawn"} /\ ~StillIn(req[r])
       \/ req[r].op = "split" /\ ~AllStillThere(req[r])
       \/ req[r].op = "link" /\ req[r].on \in link
       \/ req[r].op = "unlink" /\ req[r].on \notin link
       \/ req[r].op = "escalate" /\ \E t \in req[r].on : ~Breached(t)
    /\ Goes(r, IF req[r].op \in {"tag", "note"} THEN rest[r] ELSE << >>)
    /\ UNCHANGED <<ticket, link, home, member, mail>>

\* The same in the first half of one of its operations.
MacroRefused(r) ==
    /\ req[r].op = "macro"
    /\ \/ Head(rest[r]) # "reply" /\ \E t \in req[r].on : ~MaySee(req[r].by, t)
       \/ \E t \in req[r].on, d \in Dept :
            Head(rest[r]) = "move" /\ ~(req[r].by \in member[d] /\ CanHandle(ticket[t].owner, {d}))
       \/ \E t \in req[r].on, a \in Agent : Head(rest[r]) = "assign" /\ ~CanHandle(a, {ticket[t].dept})
    /\ Goes(r, IF Head(rest[r]) \in {"tag", "note"} THEN Tail(rest[r]) ELSE << >>)
    /\ UNCHANGED <<ticket, link, home, member, mail>>

Writes(r) ==
    \/ CommitReply(r) \/ CommitCreate(r) \/ CommitSpawn(r) \/ CommitStatus(r) \/ CommitAssign(r)
    \/ CommitMove(r) \/ CommitNote(r) \/ CommitMark(r) \/ CommitLink(r) \/ CommitUnlink(r)
    \/ RuleMarks(r) \/ CommitRule(r) \/ CommitEscalation(r) \/ CommitWatch(r) \/ CommitUnwatch(r)
    \/ CommitMerge(r) \/ CommitSplit(r) \/ Refuses(r) \/ MacroRefused(r)

\* An administrator replaces the departments of an agent (staff.service.ts);
\* it is one of the requests, without a first half.
SetDepartments(r) == Arrives(r) /\ \E a \in Agent, ds \in SUBSET Dept :
    /\ req' = [req EXCEPT ![r] = Done]
    /\ member' = [d \in Dept |-> IF d \in ds THEN member[d] \cup {a} ELSE member[d] \ {a}]
    /\ UNCHANGED <<ticket, link, home, mail, rest>>

Next == \E r \in Request : Reads(r) \/ Writes(r) \/ SetDepartments(r)

Spec == Init /\ [][Next]_vars
--------------------------------------------------------------------------------
Rows ==
    [made : BOOLEAN, into : Ticket \cup {None}, dept : Dept \cup {None}, owner : Agent \cup {None},
     resolved : BOOLEAN, watchers : SUBSET Agent, notes : SUBSET Request, marks : SUBSET Request]

\* What is known of a request between its halves.
RequestFits(q) ==
    /\ q.op \notin {"new", "done"} => q.by \in Agent \cup {None} /\ q.on \subseteq Made
    /\ q.op \in {"rule", "escalate"} => q.by = None
    /\ q.op \in {"create", "spawn", "move", "merge", "split"} => q.dept \in Dept
    /\ q.op = "rule" => q.dept \in Dept \cup {None}
    /\ q.op \in {"create", "spawn", "assign", "split", "rule"} => q.owner \in Agent \cup {None}
    /\ q.op = "spawn" => q.client \in Made
    /\ q.op = "status" => q.opens \subseteq q.on
    /\ q.op \in {"watch", "unwatch"} => q.who \in Agent
    /\ q.op = "link" => Cardinality(q.on) = 2
    /\ q.op = "merge" => q.target \in q.on /\ \E t \in q.on : t # q.target /\ q.on = {t, q.target}
    /\ q.op = "split" => q.posts \subseteq Post

TypeOK ==
    /\ ticket \in [Ticket -> Rows]
    /\ \A t \in Ticket : IF t \in Made THEN ticket[t].dept # None /\ ticket[t].into \in (Made \cup {None}) \ {t}
                       ELSE ticket[t].dept = None
    /\ \A pair \in link : pair \subseteq Made /\ Cardinality(pair) = 2
    /\ home \in [Post -> Made \cup {None}]
    /\ member \in [Dept -> SUBSET Agent]
    /\ mail \subseteq [to : Agent, on : Made, of : Request]
    /\ DOMAIN req = Request /\ \A r \in Request : RequestFits(req[r])

\* Which request a step serves, when it commits the work of one.  A macro is
\* the sum of its operations, each under its own fence.
Serves(r, q) == req[r] = q /\ q.op \notin {"new", "done", "macro"} /\ req'[r].op \in {"done", "macro"}

\* A ticket, or the posts on it, differ before and after a step.
Touched(t) ==
    \/ ticket'[t] # ticket[t]
    \/ \E p \in Post : home'[p] # home[p] /\ t \in {home[p], home'[p]}
    \/ \E pair \in (link \ link') \cup (link' \ link) : t \in pair

\* The fence of ticket-access-policy.service.ts: whatever an agent was allowed
\* when the request was read, its transaction changes only tickets of
\* departments the agent belongs to at the commit, where they were before and
\* where they are afterwards; a move, a merge and a split name two.
StaffWritesStayInScope ==
    [][\A r \in Request : Serves(r, req[r]) /\ req[r].by # None =>
          \A t \in Ticket : Touched(t) =>
              \A d \in {ticket[t].dept, ticket'[t].dept} \ {None} : req[r].by \in member[d]]_vars

\* notification.service.ts: watchers and assignees may be stale, for a move, a
\* merge or a revocation can overtake addWatcher and assign; an alert still
\* goes only to staff of the department the ticket is in when it is queued.
AlertsStayInDepartment ==
    [][\A m \in mail' \ mail : m.to \in member[ticket'[m.on].dept]]_vars

\* tickets.service.ts:1741, the count of the moved posts: a split that commits
\* has taken every post it was asked for from its source and from nowhere else,
\* whatever merges and splits overtook it.
SplitIsWhole ==
    [][\A r \in Request : Serves(r, req[r]) /\ req[r].op = "split" =>
          \A t \in Made' \ Made :
              /\ {p \in Post : home'[p] = t} = req[r].posts
              /\ \A p \in req[r].posts : home[p] \in req[r].on]_vars

\* tickets.service.ts:1600-1605, the guard of merge: posts are never re-parented
\* onto a ticket that is itself merged away.
PostsNeverMoveToAGhost ==
    [][\A p \in Post : home[p] \notin {None, home'[p]} => ticket[home'[p]].into = None]_vars

================================================================================
