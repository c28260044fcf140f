------------------------- MODULE TicketLifecycleProofs -------------------------
(***************************************************************************)
(* Theorems about the operations on tickets, for any tickets, agents,      *)
(* departments, macros and numbers of requests: the types, with what the   *)
(* first half of a request leaves for the second; that agents write within *)
(* their departments; that alerts stay in theirs; that a split is whole.   *)
(***************************************************************************)
EXTENDS TicketLifecycle, TLAPS

(* The parts of TypeOK.                                                    *)
TicketFits(t) ==
    IF t \in Made THEN ticket[t].dept # None /\ ticket[t].into \in (Made \cup {None}) \ {t}
    ELSE ticket[t].dept = None

TicketsFit == ticket \in [Ticket -> Rows] /\ \A t \in Ticket : TicketFits(t)

LinksFit == \A pair \in link : pair \subseteq Made /\ Cardinality(pair) = 2

MailFits == mail \subseteq [to : Agent, on : Made, of : Request]

RequestsFit == DOMAIN req = Request /\ \A r \in Request : RequestFits(req[r])

LEMMA Parts ==
    TypeOK <=> /\ TicketsFit /\ LinksFit /\ home \in [Post -> Made \cup {None}]
               /\ member \in [Dept -> SUBSET Agent] /\ MailFits /\ RequestsFit
  BY DEF TypeOK, TicketsFit, TicketFits, LinksFit, MailFits, RequestsFit

LEMMA PartsNext ==
    TypeOK' <=> /\ TicketsFit' /\ LinksFit' /\ home' \in [Post -> Made' \cup {None}]
                /\ member' \in [Dept -> SUBSET Agent] /\ MailFits' /\ RequestsFit'
  BY DEF TypeOK, TicketsFit, TicketFits, LinksFit, MailFits, RequestsFit

(* What is known of an existing ticket.                                    *)
LEMMA OfMade ==
    ASSUME TicketsFit, NEW t \in Made
    PROVE  /\ t \in Ticket /\ t # None /\ ticket[t] \in Rows /\ ticket[t].made
           /\ ticket[t].dept \in Dept /\ ticket[t].into \in (Made \cup {None}) \ {t}
           /\ ticket[t].owner \in Agent \cup {None} /\ ticket[t].watchers \subseteq Agent
           /\ ticket[t].notes \subseteq Request /\ ticket[t].marks \subseteq Request
           /\ ticket[t].resolved \in BOOLEAN
  BY NoneAssumption DEF TicketsFit, TicketFits, Made, Rows

LEMMA InitFits == Init => TypeOK
  <1> SUFFICES ASSUME Init PROVE TypeOK
    OBVIOUS
  <1>1. \A t \in Ticket :
            /\ ticket[t] \in Rows /\ ticket[t].dept = Desk[t] /\ ticket[t].into = None
            /\ ticket[t].made <=> Desk[t] # None
    <2> SUFFICES ASSUME NEW t \in Ticket
                 PROVE  /\ ticket[t] \in Rows /\ ticket[t].dept = Desk[t] /\ ticket[t].into = None
                        /\ ticket[t].made <=> Desk[t] # None
      OBVIOUS
    <2>1. CASE Desk[t] = None
      BY <2>1, StartAssumption DEF Init, Blank, Rows
    <2>2. CASE Desk[t] # None
      <3>1. Crew[Desk[t]] \subseteq Agent /\ Desk[t] \in Dept
        BY <2>2, StartAssumption
      <3>2. ticket[t] = [Blank(Desk[t]) EXCEPT !.watchers = Crew[Desk[t]]]
        BY <2>2 DEF Init
      <3>3. QED
        BY <3>1, <3>2, <2>2 DEF Blank, Rows
    <2>3. QED
      BY <2>1, <2>2
  <1>2. ticket \in [Ticket -> Rows]
    BY <1>1 DEF Init
  <1>3. Made = {t \in Ticket : Desk[t] # None}
    BY <1>1 DEF Made
  <1>4. TicketsFit
    BY <1>1, <1>2, <1>3, NoneAssumption DEF TicketsFit, TicketFits
  <1>5. RequestsFit
    BY DEF Init, RequestsFit, RequestFits
  <1>6. home \in [Post -> Made \cup {None}] /\ member \in [Dept -> SUBSET Agent]
    BY <1>3, StartAssumption DEF Init
  <1>7. LinksFit /\ MailFits
    BY DEF Init, LinksFit, MailFits
  <1>8. QED
    BY <1>4, <1>5, <1>6, <1>7, Parts
--------------------------------------------------------------------------------
(* The first halves, which write nothing but the request.                  *)

LEMMA Received ==
    ASSUME TypeOK, NEW r \in Request, NEW q, Receives(r, q), RequestFits(q)
    PROVE  TypeOK'
  <1>1. UNCHANGED <<ticket, link, home, member, mail>> /\ req' = [req EXCEPT ![r] = q]
    BY DEF Receives
  <1>2. Made' = Made
    BY <1>1 DEF Made
  <1>3. DOMAIN req' = Request /\ \A s \in Request : req'[s] = IF s = r THEN q ELSE req[s]
    BY <1>1, Parts DEF RequestsFit
  <1>4. \A s \in Request : RequestFits(req'[s])
    BY <1>3, Parts DEF RequestsFit
  <1>5. RequestsFit'
    BY <1>2, <1>3, <1>4 DEF RequestsFit, RequestFits
  <1>6. QED
    BY <1>1, <1>2, <1>5, Parts, PartsNext DEF TicketsFit, TicketFits, LinksFit, MailFits

LEMMA ReadsFit ==
    ASSUME TypeOK, NEW r \in Request, Reads(r)
    PROVE  TypeOK'
  <1>r. RequestFits(req[r]) /\ TicketsFit
    BY Parts DEF RequestsFit
  <1>m. \A q : q \in Made => q \in Ticket /\ ticket[q].dept \in Dept /\ ticket[q].owner \in Agent \cup {None}
    BY <1>r, OfMade
  <1>1. CASE ReadReply(r)
    <2>1. PICK a \in Agent \cup {None}, t \in Made :
              Receives(r, [op |-> "reply", by |-> a, on |-> {t}, reopen |-> a = None /\ ticket[t].resolved])
      BY <1>1 DEF ReadReply
    <2>2. RequestFits([op |-> "reply", by |-> a, on |-> {t}, reopen |-> a = None /\ ticket[t].resolved])
      BY DEF RequestFits
    <2>3. QED
      BY <2>1, <2>2, Received
  <1>2. CASE ReadCreate(r)
    <2>1. PICK a \in Agent \cup {None}, owner \in Agent \cup {None}, d \in Dept :
              Receives(r, [op |-> "create", by |-> a, on |-> {}, dept |-> d, owner |-> owner])
      BY <1>2 DEF ReadCreate
    <2>2. RequestFits([op |-> "create", by |-> a, on |-> {}, dept |-> d, owner |-> owner])
      BY DEF RequestFits
    <2>3. QED
      BY <2>1, <2>2, Received
  <1>3. CASE ReadSpawn(r)
    <2>1. PICK a \in Agent, t \in Made :
              Receives(r, [op |-> "spawn", by |-> a, on |-> {}, dept |-> ticket[t].dept, owner |-> None, client |-> t])
      BY <1>3 DEF ReadSpawn
    <2>2. RequestFits([op |-> "spawn", by |-> a, on |-> {}, dept |-> ticket[t].dept, owner |-> None, client |-> t])
      BY <1>m DEF RequestFits
    <2>3. QED
      BY <2>1, <2>2, Received
  <1>4. CASE ReadStatus(r)
    <2>1. PICK a \in Agent, ts \in SUBSET Made, close \in BOOLEAN, bulk \in BOOLEAN :
              Receives(r, [op |-> "status", by |-> a, on |-> ts, close |-> close,
                           opens |-> IF bulk THEN {t \in ts : ticket[t].resolved} ELSE ts])
      BY <1>4 DEF ReadStatus
    <2>2. RequestFits([op |-> "status", by |-> a, on |-> ts, close |-> close,
                       opens |-> IF bulk THEN {t \in ts : ticket[t].resolved} ELSE ts])
      BY DEF RequestFits
    <2>3. QED
      BY <2>1, <2>2, Received
  <1>5. CASE ReadAssign(r)
    <2>1. PICK a \in Agent, ts \in SUBSET Made, owner \in Agent \cup {None} :
              Receives(r, [op |-> "assign", by |-> a, on |-> ts, owner |-> owner])
      BY <1>5 DEF ReadAssign
    <2>2. RequestFits([op |-> "assign", by |-> a, on |-> ts, owner |-> owner])
      BY DEF RequestFits
    <2>3. QED
      BY <2>1, <2>2, Received
  <1>6. CASE ReadMove(r)
    <2>1. PICK a \in Agent, t \in Made, d \in Dept :
              Receives(r, [op |-> "move", by |-> a, on |-> {t}, dept |-> d])
      BY <1>6 DEF ReadMove
    <2>2. RequestFits([op |-> "move", by |-> a, on |-> {t}, dept |-> d])
      BY DEF RequestFits
    <2>3. QED
      BY <2>1, <2>2, Received
  <1>7. CASE ReadEdit(r)
    <2>1. PICK a \in Agent, t \in Made, op \in {"note", "tag", "field"} :
              Receives(r, [op |-> op, by |-> a, on |-> {t}])
      BY <1>7 DEF ReadEdit
    <2>2. RequestFits([op |-> op, by |-> a, on |-> {t}])
      BY DEF RequestFits
    <2>3. QED
      BY <2>1, <2>2, Received
  <1>8. CASE ReadRow(r)
    <2>1. PICK a \in Agent, t \in Made : Receives(r, [op |-> "row", by |-> a, on |-> {t}])
      BY <1>8 DEF ReadRow
    <2>2. RequestFits([op |-> "row", by |-> a, on |-> {t}])
      BY DEF RequestFits
    <2>3. QED
      BY <2>1, <2>2, Received
  <1>9. CASE ReadWatch(r)
    <2>1. PICK a \in Agent, w \in Agent, t \in Made :
              \E op \in {"watch", "unwatch"} : Receives(r, [op |-> op, by |-> a, on |-> {t}, who |-> w])
      BY <1>9 DEF ReadWatch
    <2>2. \A op \in {"watch", "unwatch"} : RequestFits([op |-> op, by |-> a, on |-> {t}, who |-> w])
      BY DEF RequestFits
    <2>3. QED
      BY <2>1, <2>2, Received
  <1>10. CASE ReadLink(r)
    <2>1. PICK a \in Agent, pair \in SUBSET Made :
              Cardinality(pair) = 2 /\ Receives(r, [op |-> "link", by |-> a, on |-> pair])
      BY <1>10 DEF ReadLink
    <2>2. RequestFits([op |-> "link", by |-> a, on |-> pair])
      BY <2>1 DEF RequestFits
    <2>3. QED
      BY <2>1, <2>2, Received
  <1>11. CASE ReadUnlink(r)
    <2>1. PICK a \in Agent, pair \in link : Receives(r, [op |-> "unlink", by |-> a, on |-> pair])
      BY <1>11 DEF ReadUnlink
    <2>2. pair \subseteq Made
      BY Parts DEF LinksFit
    <2>3. RequestFits([op |-> "unlink", by |-> a, on |-> pair])
      BY <2>2 DEF RequestFits
    <2>4. QED
      BY <2>1, <2>3, Received
  <1>12. CASE ReadMerge(r)
    <2>1. PICK a \in Agent, source \in Made, target \in Made :
              /\ source # target
              /\ Receives(r, [op |-> "merge", by |-> a, on |-> {source, target}, target |-> target,
                              dept |-> ticket[target].dept])
      BY <1>12 DEF ReadMerge
    <2>2. RequestFits([op |-> "merge", by |-> a, on |-> {source, target}, target |-> target,
                       dept |-> ticket[target].dept])
      BY <2>1, <1>m DEF RequestFits
    <2>3. QED
      BY <2>1, <2>2, Received
  <1>13. CASE ReadSplit(r)
    <2>1. PICK a \in Agent, t \in Made, d \in Dept, ps \in SUBSET Post :
              Receives(r, [op |-> "split", by |-> a, on |-> {t}, posts |-> ps, dept |-> d,
                           owner |-> ticket[t].owner])
      BY <1>13 DEF ReadSplit
    <2>2. RequestFits([op |-> "split", by |-> a, on |-> {t}, posts |-> ps, dept |-> d,
                       owner |-> ticket[t].owner])
      BY <1>m DEF RequestFits
    <2>3. QED
      BY <2>1, <2>2, Received
  <1>14. CASE ReadMacro(r)
    <2>1. PICK a \in Agent, t \in Made :
              /\ req' = [req EXCEPT ![r] = [op |-> "macro", by |-> a, on |-> {t}]]
              /\ UNCHANGED <<ticket, link, home, member, mail>>
      BY <1>14 DEF ReadMacro
    <2> DEFINE q == [op |-> "macro", by |-> a, on |-> {t}]
    <2>2. RequestFits(q)
      BY DEF RequestFits
    <2>3. Made' = Made
      BY <2>1 DEF Made
    <2>4. DOMAIN req' = Request /\ \A s \in Request : req'[s] = IF s = r THEN q ELSE req[s]
      BY <2>1, Parts DEF RequestsFit
    <2> HIDE DEF q
    <2>5. \A s \in Request : RequestFits(req'[s])
      BY <2>2, <2>4, Parts DEF RequestsFit
    <2>6. RequestsFit'
      BY <2>3, <2>4, <2>5 DEF RequestsFit, RequestFits
    <2>7. QED
      BY <2>1, <2>3, <2>6, Parts, PartsNext DEF TicketsFit, TicketFits, LinksFit, MailFits
  <1>15. CASE MacroReplies(r)
    <2> DEFINE q == [op |-> "reply", by |-> req[r].by, on |-> req[r].on, reopen |-> FALSE]
    <2>1. Receives(r, q) /\ req[r].op = "macro"
      BY <1>15 DEF MacroReplies
    <2>2. RequestFits(q)
      BY <2>1, <1>r DEF RequestFits
    <2>3. QED
      BY <2>1, <2>2, Received
  <1>16. CASE ReadRule(r)
    <2>1. PICK t \in Made, d \in Dept \cup {None}, owner \in Agent \cup {None} :
              Receives(r, [op |-> "rule", by |-> None, on |-> {t}, dept |-> d, owner |-> owner])
      BY <1>16 DEF ReadRule
    <2>2. RequestFits([op |-> "rule", by |-> None, on |-> {t}, dept |-> d, owner |-> owner])
      BY DEF RequestFits
    <2>3. QED
      BY <2>1, <2>2, Received
  <1>17. CASE ReadBreach(r)
    <2>1. PICK t \in Made : Receives(r, [op |-> "escalate", by |-> None, on |-> {t}])
      BY <1>17 DEF ReadBreach
    <2>2. RequestFits([op |-> "escalate", by |-> None, on |-> {t}])
      BY DEF RequestFits
    <2>3. QED
      BY <2>1, <2>2, Received
  <1>18. QED
    BY <1>1, <1>2, <1>3, <1>4, <1>5, <1>6, <1>7, <1>8, <1>9, <1>10, <1>11, <1>12, <1>13, <1>14,
       <1>15, <1>16, <1>17 DEF Reads
--------------------------------------------------------------------------------
(* The second halves.                                                      *)

(* What the two action properties ask of one step.                         *)
InScope(q) ==
    q.by # None =>
        \A t \in Ticket : Touched(t) =>
            \A d \in {ticket[t].dept, ticket'[t].dept} \ {None} : q.by \in member[d]

InDepartment == \A m \in mail' \ mail : m.to \in member[ticket'[m.on].dept]

(* What a request leaves when its transaction has committed or failed.     *)
LEMMA Went ==
    ASSUME TypeOK, NEW r \in Request, NEW more, Goes(r, more), req[r].op \notin {"new", "done"},
           Made \subseteq Made'
    PROVE  RequestsFit'
  <1> DEFINE q == [op |-> "macro", by |-> req[r].by, on |-> req[r].on]
  <1>1. RequestsFit /\ RequestFits(req[r])
    BY Parts DEF RequestsFit
  <1>2. DOMAIN req' = Request /\ \A s \in Request : s # r => req'[s] = req[s]
    BY <1>1 DEF Goes, RequestsFit
  <1>3. req'[r] \in {Done, q}
    BY <1>1 DEF Goes, RequestsFit
  <1>4. q.op = "macro" /\ q.by \in Agent \cup {None} /\ q.on \subseteq Made
    BY <1>1 DEF RequestFits
  <1> HIDE DEF q
  <1>5. \A s \in Request : RequestFits(req'[s])
    <2>1. RequestFits(Done) /\ RequestFits(q)
      BY <1>4 DEF RequestFits, Done
    <2>2. QED
      BY <1>1, <1>2, <1>3, <2>1 DEF RequestsFit
  <1>6. \A s \in Request : RequestFits(req'[s]) => RequestFits(req[s])'
    BY DEF RequestFits
  <1>7. QED
    BY <1>2, <1>5, <1>6 DEF RequestsFit

(* One ticket is written, and stays where it is or was moved.              *)
LEMMA OneTicket ==
    ASSUME TypeOK, NEW t \in Made, NEW x, ticket' = [ticket EXCEPT ![t] = x],
           x \in Rows, x.made, x.dept \in Dept, x.into \in (Made \cup {None}) \ {t}
    PROVE  /\ TicketsFit' /\ Made' = Made /\ ticket'[t] = x
           /\ \A u \in Ticket : u # t => ticket'[u] = ticket[u]
  <1>1. TicketsFit /\ t \in Ticket /\ ticket \in [Ticket -> Rows]
    BY Parts DEF TicketsFit, Made
  <1>2. ticket'[t] = x /\ \A u \in Ticket : u # t => ticket'[u] = ticket[u]
    BY <1>1
  <1>3. Made' = Made
    BY <1>1, <1>2 DEF Made
  <1>4. ticket' \in [Ticket -> Rows]
    BY <1>1
  <1>5. \A u \in Ticket : TicketFits(u)'
    BY <1>1, <1>2, <1>3, NoneAssumption DEF TicketsFit, TicketFits
  <1>6. QED
    BY <1>2, <1>3, <1>4, <1>5 DEF TicketsFit

(* One ticket is made.                                                     *)
LEMMA NewTicket ==
    ASSUME TypeOK, NEW t \in Ticket \ Made, NEW d \in Dept, NEW owner \in Agent \cup {None},
           ticket' = [ticket EXCEPT ![t] = [Blank(d) EXCEPT !.owner = owner]]
    PROVE  /\ TicketsFit' /\ Made' = Made \cup {t} /\ ticket'[t].dept = d /\ ticket[t].dept = None
           /\ \A u \in Ticket : u # t => ticket'[u] = ticket[u]
  <1> DEFINE x == [Blank(d) EXCEPT !.owner = owner]
  <1>1. TicketsFit /\ t \in Ticket /\ ticket \in [Ticket -> Rows]
    BY Parts DEF TicketsFit
  <1>2. d # None
    BY NoneAssumption
  <1>3. x \in Rows /\ x.made /\ x.dept = d /\ x.into = None
    BY <1>2 DEF Blank, Rows
  <1> HIDE DEF x
  <1>4. ticket'[t] = x /\ \A u \in Ticket : u # t => ticket'[u] = ticket[u]
    BY <1>1 DEF x
  <1>5. Made' = Made \cup {t}
    BY <1>1, <1>3, <1>4 DEF Made
  <1>6. ticket' \in [Ticket -> Rows]
    BY <1>1, <1>3 DEF x
  <1>7. ASSUME NEW u \in Ticket PROVE TicketFits(u)'
    <2>1. TicketFits(u) /\ (u \in Made' <=> u \in Made \/ u = t)
      BY <1>1, <1>5 DEF TicketsFit
    <2>2. CASE u = t
      BY <1>2, <1>3, <1>4, <1>5, <2>1, <2>2, NoneAssumption DEF TicketFits
    <2>3. CASE u # t
      <3>1. ticket'[u] = ticket[u]
        BY <1>4, <2>3
      <3>2. QED
        BY <1>5, <2>1, <2>3, <3>1 DEF TicketFits
    <2>4. QED
      BY <2>2, <2>3
  <1>8. ticket[t].dept = None
    BY <1>1 DEF TicketsFit, TicketFits
  <1>9. QED
    BY <1>3, <1>4, <1>5, <1>6, <1>7, <1>8 DEF TicketsFit

(* What changes is on tickets of the fence, and they stay where they are.  *)
LEMMA ScopeOfFence ==
    ASSUME NEW q, Fenced(q),
           \A t \in Ticket : Touched(t) => t \in q.on /\ ticket'[t].dept = ticket[t].dept
    PROVE  InScope(q)
  BY DEF Fenced, MaySee, InScope

(* A post for ticket t.                                                    *)
LEMMA NewPost ==
    ASSUME TypeOK, NEW t, NEW p \in Post, Fresh(p), home' = [home EXCEPT ![p] = t]
    PROVE  \A u \in Ticket : (\E o \in Post : home'[o] # home[o] /\ u \in {home[o], home'[o]}) => u = t
  BY Parts, NoneAssumption DEF Fresh

(* Alerts of one ticket to agents of its department.                       *)
LEMMA Alerted ==
    ASSUME TypeOK, NEW r \in Request, NEW t \in Made, NEW whom \in SUBSET (Agent \cup {None}),
           mail' = mail \cup Alerts(r, Informed(whom, ticket'[t].dept), t), ticket'[t].dept \in Dept,
           Made \subseteq Made'
    PROVE  MailFits' /\ InDepartment
  <1> DEFINE d == ticket'[t].dept
  <1>1. Informed(whom, d) \subseteq Agent /\ Informed(whom, d) \subseteq member[d]
    BY Parts DEF Informed
  <1> HIDE DEF d
  <1>2. \A m \in mail' \ mail : m.to \in Informed(whom, d) /\ m.on = t /\ m \in [to : Agent, on : Made, of : Request]
    BY <1>1 DEF Alerts, d
  <1>3. InDepartment
    BY <1>1, <1>2 DEF InDepartment, d
  <1>4. mail' \subseteq [to : Agent, on : Made', of : Request]
    <2> SUFFICES ASSUME NEW m \in mail' PROVE m \in [to : Agent, on : Made', of : Request]
      OBVIOUS
    <2>1. m \in [to : Agent, on : Made, of : Request]
      BY <1>2, Parts DEF MailFits
    <2>2. QED
      BY <2>1
  <1>5. QED
    BY <1>3, <1>4 DEF MailFits

(* The same without alerts.                                                *)
LEMMA NotAlerted ==
    ASSUME TypeOK, mail' = mail, Made \subseteq Made'
    PROVE  MailFits' /\ InDepartment
  <1>1. mail' \subseteq [to : Agent, on : Made', of : Request]
    <2> SUFFICES ASSUME NEW m \in mail PROVE m \in [to : Agent, on : Made', of : Request]
      OBVIOUS
    <2>1. m \in [to : Agent, on : Made, of : Request]
      BY Parts DEF MailFits
    <2>2. QED
      BY <2>1
  <1>2. QED
    BY <1>1 DEF MailFits, InDepartment

LEMMA LinksStay ==
    ASSUME TypeOK, link' = link, Made \subseteq Made'
    PROVE  LinksFit'
  BY Parts DEF LinksFit

LEMMA ReplyHolds ==
    ASSUME TypeOK, NEW r \in Request, CommitReply(r)
    PROVE  TypeOK' /\ InScope(req[r]) /\ InDepartment
  <1> DEFINE q == req[r]
  <1>1. PICK t \in q.on, p \in Post :
            /\ Fresh(p) /\ home' = [home EXCEPT ![p] = t]
            /\ ticket' = [ticket EXCEPT ![t].resolved = @ /\ ~q.reopen]
            /\ mail' = mail \cup IF q.by = None THEN Alerts(r, Informed(ticket[t].watchers, ticket[t].dept), t)
                                 ELSE {}
    BY DEF CommitReply
  <1>2. q.op = "reply" /\ Fenced(q) /\ Goes(r, rest[r]) /\ member' = member /\ link' = link
    BY DEF CommitReply, Commits
  <1>3. TicketsFit /\ RequestFits(q) /\ home \in [Post -> Made \cup {None}]
    BY Parts DEF RequestsFit
  <1>4. t \in Made /\ q.by \in Agent \cup {None}
    BY <1>2, <1>3 DEF RequestFits
  <1>5. /\ t \in Ticket /\ t # None /\ ticket[t] \in Rows /\ ticket[t].made /\ ticket[t].dept \in Dept
        /\ ticket[t].into \in (Made \cup {None}) \ {t} /\ ticket[t].watchers \subseteq Agent
    BY <1>3, <1>4, OfMade
  <1> DEFINE x == [ticket[t] EXCEPT !.resolved = @ /\ ~q.reopen]
  <1>6. x \in Rows /\ x.made = ticket[t].made /\ x.dept = ticket[t].dept /\ x.into = ticket[t].into
    BY <1>5 DEF Rows
  <1>7. ticket' = [ticket EXCEPT ![t] = x]
    BY <1>1
  <1> HIDE DEF x
  <1>8. /\ TicketsFit' /\ Made' = Made /\ ticket'[t] = x
        /\ \A u \in Ticket : u # t => ticket'[u] = ticket[u]
    BY <1>4, <1>5, <1>6, <1>7, OneTicket
  <1>9. RequestsFit' /\ LinksFit'
    BY <1>2, <1>8, Went, LinksStay
  <1>10. home' \in [Post -> Made \cup {None}]
    BY <1>1, <1>3, <1>4
  <1>11. MailFits' /\ InDepartment
    <2>1. CASE q.by = None
      <3>1. mail' = mail \cup Alerts(r, Informed(ticket[t].watchers, ticket'[t].dept), t)
        BY <1>1, <1>6, <1>8, <2>1
      <3>2. QED
        BY <3>1, <1>4, <1>5, <1>6, <1>8, Alerted
    <2>2. CASE q.by # None
      BY <2>2, <1>1, <1>8, NotAlerted
    <2>3. QED
      BY <2>1, <2>2
  <1>12. InScope(q)
    <2>1. \A u \in Ticket : Touched(u) => u = t
      BY <1>1, <1>2, <1>8, NewPost DEF Touched
    <2>2. QED
      BY <2>1, <1>2, <1>6, <1>8, ScopeOfFence
  <1>13. QED
    BY <1>2, <1>8, <1>9, <1>10, <1>11, <1>12, Parts, PartsNext

(* A step that makes a ticket with its first post.                         *)
LEMMA CreationHolds ==
    ASSUME TypeOK, NEW r \in Request, NEW t \in Ticket \ Made, Creates(r, t), member' = member,
           req[r].op \in {"create", "spawn"}
    PROVE  /\ TicketsFit' /\ Made' = Made \cup {t} /\ home' \in [Post -> Made' \cup {None}]
           /\ LinksFit' /\ MailFits' /\ InScope(req[r]) /\ InDepartment
  <1> DEFINE q == req[r]
  <1>1. RequestFits(q) /\ home \in [Post -> Made \cup {None}]
    BY Parts DEF RequestsFit
  <1>2. q.dept \in Dept /\ q.owner \in Agent \cup {None}
    BY <1>1 DEF RequestFits
  <1>3. /\ StillIn(q) /\ link' = link /\ mail' = mail
        /\ ticket' = [ticket EXCEPT ![t] = [Blank(q.dept) EXCEPT !.owner = q.owner]]
    BY DEF Creates
  <1>4. PICK p \in Post : Fresh(p) /\ home' = [home EXCEPT ![p] = t]
    BY DEF Creates
  <1>5. /\ TicketsFit' /\ Made' = Made \cup {t} /\ ticket'[t].dept = q.dept /\ ticket[t].dept = None
        /\ \A u \in Ticket : u # t => ticket'[u] = ticket[u]
    BY <1>2, <1>3, NewTicket
  <1>6. home' \in [Post -> Made' \cup {None}]
    BY <1>1, <1>4, <1>5
  <1>7. InScope(q)
    <2>1. \A u \in Ticket : Touched(u) => u = t
      BY <1>3, <1>4, <1>5, NewPost DEF Touched
    <2>2. QED
      BY <2>1, <1>3, <1>5 DEF InScope, StillIn
  <1>8. QED
    BY <1>3, <1>5, <1>6, <1>7, NotAlerted, LinksStay

LEMMA CreateHolds ==
    ASSUME TypeOK, NEW r \in Request, CommitCreate(r)
    PROVE  TypeOK' /\ InScope(req[r]) /\ InDepartment
  <1>1. PICK t \in Ticket \ Made : Creates(r, t)
    BY DEF CommitCreate
  <1>2. req[r].op = "create" /\ Goes(r, rest[r]) /\ member' = member
    BY DEF CommitCreate, Commits
  <1>3. /\ TicketsFit' /\ Made' = Made \cup {t} /\ home' \in [Post -> Made' \cup {None}]
        /\ LinksFit' /\ MailFits' /\ InScope(req[r]) /\ InDepartment
    BY <1>1, <1>2, CreationHolds
  <1>4. RequestsFit'
    BY <1>2, <1>3, Went
  <1>5. QED
    BY <1>2, <1>3, <1>4, Parts, PartsNext

LEMMA SpawnHolds ==
    ASSUME TypeOK, NEW r \in Request, CommitSpawn(r)
    PROVE  TypeOK' /\ InScope(req[r]) /\ InDepartment
  <1>1. PICK t \in Ticket \ Made :
            /\ Creates(r, t)
            /\ req' = [req EXCEPT ![r] = [op |-> "macro", by |-> @.by, on |-> {@.client, t}]]
    BY DEF CommitSpawn
  <1>2. req[r].op = "spawn" /\ member' = member
    BY DEF CommitSpawn
  <1>3. /\ TicketsFit' /\ Made' = Made \cup {t} /\ home' \in [Post -> Made' \cup {None}]
        /\ LinksFit' /\ MailFits' /\ InScope(req[r]) /\ InDepartment
    BY <1>1, <1>2, CreationHolds
  <1> DEFINE q == [op |-> "macro", by |-> req[r].by, on |-> {req[r].client, t}]
  <1>4. RequestsFit /\ RequestFits(req[r])
    BY Parts DEF RequestsFit
  <1>5. DOMAIN req' = Request /\ \A s \in Request : req'[s] = IF s = r THEN q ELSE req[s]
    BY <1>1, <1>4 DEF RequestsFit
  <1>6. q.op = "macro" /\ q.by \in Agent \cup {None} /\ q.on \subseteq Made'
    BY <1>2, <1>3, <1>4 DEF RequestFits
  <1> HIDE DEF q
  <1>7. \A s \in Request : RequestFits(req[s])'
    BY <1>3, <1>4, <1>5, <1>6 DEF RequestsFit, RequestFits
  <1>8. QED
    BY <1>2, <1>3, <1>5, <1>7, Parts, PartsNext DEF RequestsFit

(* A transaction that writes one ticket of its fence, which stays in its   *)
(* department or goes to another one of the agent's.                       *)
LEMMA WriteHolds ==
    ASSUME TypeOK, NEW r \in Request, NEW t \in Made, NEW x, ticket' = [ticket EXCEPT ![t] = x],
           x \in Rows, x.made, x.dept \in Dept, x.into \in (Made \cup {None}) \ {t},
           NEW op, Commits(r, op), op \notin {"new", "done"}, t \in req[r].on,
           UNCHANGED <<link, home>>,
           \/ x.dept = ticket[t].dept
           \/ req[r].by = None
           \/ req[r].by \in member[x.dept]
    PROVE  /\ TicketsFit' /\ LinksFit' /\ home' \in [Post -> Made' \cup {None}]
           /\ member' \in [Dept -> SUBSET Agent] /\ RequestsFit' /\ InScope(req[r])
           /\ Made' = Made /\ ticket'[t] = x
  <1>1. /\ TicketsFit' /\ Made' = Made /\ ticket'[t] = x
        /\ \A u \in Ticket : u # t => ticket'[u] = ticket[u]
    BY OneTicket
  <1>2. req[r].op = op /\ Fenced(req[r]) /\ Goes(r, rest[r]) /\ member' = member
    BY DEF Commits
  <1>3. RequestsFit' /\ LinksFit'
    BY <1>1, <1>2, Went, LinksStay
  <1>4. home' \in [Post -> Made' \cup {None}] /\ member' \in [Dept -> SUBSET Agent]
    BY <1>1, <1>2, Parts
  <1>5. InScope(req[r])
    <2>1. \A u \in Ticket : Touched(u) => u = t
      BY <1>1 DEF Touched
    <2>2. req[r].by = None \/ req[r].by \in member[ticket[t].dept]
      BY <1>2 DEF Fenced, MaySee
    <2>3. QED
      BY <1>1, <2>1, <2>2 DEF InScope
  <1>6. QED
    BY <1>1, <1>3, <1>4, <1>5

(* A transaction that leaves every ticket in its department.               *)
LEMMA KeepsDepartments ==
    ASSUME TypeOK, ticket' \in [Ticket -> Rows],
           \A t \in Ticket : /\ ticket'[t].made = ticket[t].made /\ ticket'[t].dept = ticket[t].dept
                             /\ ticket'[t].into = ticket[t].into
    PROVE  TicketsFit' /\ Made' = Made
  <1>1. Made' = Made
    BY DEF Made
  <1>2. QED
    BY <1>1, Parts DEF TicketsFit, TicketFits

LEMMA StatusHolds ==
    ASSUME TypeOK, NEW r \in Request, CommitStatus(r)
    PROVE  TypeOK' /\ InScope(req[r]) /\ InDepartment
  <1> DEFINE q == req[r]
  <1>1. q.op = "status" /\ Fenced(q) /\ Goes(r, rest[r]) /\ member' = member
    BY DEF CommitStatus, Commits
  <1>2. /\ UNCHANGED <<link, home, mail>>
        /\ ticket' = [t \in Ticket |->
               IF q.close /\ t \in q.on THEN [ticket[t] EXCEPT !.resolved = TRUE]
               ELSE IF t \in q.opens THEN [ticket[t] EXCEPT !.resolved = FALSE] ELSE ticket[t]]
    BY DEF CommitStatus
  <1>3. TicketsFit /\ RequestFits(q) /\ ticket \in [Ticket -> Rows]
    BY Parts DEF RequestsFit, TicketsFit
  <1>4. q.opens \subseteq q.on
    BY <1>1, <1>3 DEF RequestFits
  <1>5. \A t \in Ticket :
            /\ ticket'[t] \in Rows /\ ticket'[t].made = ticket[t].made
            /\ ticket'[t].dept = ticket[t].dept /\ ticket'[t].into = ticket[t].into
            /\ t \notin q.on => ticket'[t] = ticket[t]
    <2> SUFFICES ASSUME NEW t \in Ticket
                 PROVE  /\ ticket'[t] \in Rows /\ ticket'[t].made = ticket[t].made
                        /\ ticket'[t].dept = ticket[t].dept /\ ticket'[t].into = ticket[t].into
                        /\ t \notin q.on => ticket'[t] = ticket[t]
      OBVIOUS
    <2>1. ticket[t] \in Rows
      BY <1>3
    <2>2. \/ t \in q.on /\ ticket'[t] = [ticket[t] EXCEPT !.resolved = TRUE]
          \/ t \in q.on /\ ticket'[t] = [ticket[t] EXCEPT !.resolved = FALSE]
          \/ ticket'[t] = ticket[t]
      BY <1>2, <1>4
    <2>3. QED
      BY <2>1, <2>2 DEF Rows
  <1>6. ticket' \in [Ticket -> Rows]
    BY <1>2, <1>5
  <1>7. TicketsFit' /\ Made' = Made
    BY <1>5, <1>6, KeepsDepartments
  <1>8. RequestsFit' /\ LinksFit' /\ MailFits' /\ InDepartment
    BY <1>1, <1>2, <1>7, Went, LinksStay, NotAlerted
  <1>9. InScope(q)
    <2>1. \A u \in Ticket : Touched(u) => u \in q.on /\ ticket'[u].dept = ticket[u].dept
      BY <1>2, <1>5 DEF Touched
    <2>2. QED
      BY <2>1, <1>1, ScopeOfFence
  <1>10. QED
    BY <1>1, <1>2, <1>7, <1>8, <1>9, Parts, PartsNext

LEMMA AssignHolds ==
    ASSUME TypeOK, NEW r \in Request, CommitAssign(r)
    PROVE  TypeOK' /\ InScope(req[r]) /\ InDepartment
  <1> DEFINE q == req[r]
             told(t) == Alerts(r, Informed({q.owner}, ticket[t].dept), t)
  <1>1. q.op = "assign" /\ Fenced(q) /\ Goes(r, rest[r]) /\ member' = member
    BY DEF CommitAssign, Commits
  <1>2. /\ link' = link /\ home' = home
        /\ ticket' = [t \in Ticket |-> IF t \in q.on THEN [ticket[t] EXCEPT !.owner = q.owner] ELSE ticket[t]]
        /\ mail' = mail \cup UNION {told(t) : t \in q.on}
    BY DEF CommitAssign
  <1>3. /\ TicketsFit /\ RequestFits(q) /\ ticket \in [Ticket -> Rows] /\ MailFits
        /\ member \in [Dept -> SUBSET Agent]
    BY Parts DEF RequestsFit, TicketsFit
  <1>4. q.owner \in Agent \cup {None} /\ q.on \subseteq Made
    BY <1>1, <1>3 DEF RequestFits
  <1>5. \A t \in Ticket :
            /\ ticket'[t] \in Rows /\ ticket'[t].made = ticket[t].made
            /\ ticket'[t].dept = ticket[t].dept /\ ticket'[t].into = ticket[t].into
            /\ t \notin q.on => ticket'[t] = ticket[t]
    <2> SUFFICES ASSUME NEW t \in Ticket
                 PROVE  /\ ticket'[t] \in Rows /\ ticket'[t].made = ticket[t].made
                        /\ ticket'[t].dept = ticket[t].dept /\ ticket'[t].into = ticket[t].into
                        /\ t \notin q.on => ticket'[t] = ticket[t]
      OBVIOUS
    <2>1. ticket[t] \in Rows
      BY <1>3
    <2>2. QED
      BY <2>1, <1>2, <1>4 DEF Rows
  <1>6. ticket' \in [Ticket -> Rows]
    BY <1>2, <1>5
  <1>7. TicketsFit' /\ Made' = Made
    BY <1>5, <1>6, KeepsDepartments
  <1>8. RequestsFit' /\ LinksFit'
    BY <1>1, <1>2, <1>7, Went, LinksStay
  <1>9. MailFits' /\ InDepartment
    <2>1. \A m \in mail' \ mail : /\ m \in [to : Agent, on : Made, of : Request]
                                  /\ m.to \in member[ticket[m.on].dept]
      <3> SUFFICES ASSUME NEW m \in mail', m \notin mail
                   PROVE  /\ m \in [to : Agent, on : Made, of : Request]
                          /\ m.to \in member[ticket[m.on].dept]
        OBVIOUS
      <3>1. PICK t \in q.on : m \in told(t)
        BY <1>2
      <3>2. t \in Made /\ ticket[t].dept \in Dept
        BY <3>1, <1>3, <1>4, OfMade
      <3>3. PICK a \in Informed({q.owner}, ticket[t].dept) : m = [to |-> a, on |-> t, of |-> r]
        BY <3>1 DEF Alerts
      <3>4. a \in member[ticket[t].dept] /\ a \in Agent
        BY <3>2, <3>3, <1>3 DEF Informed
      <3>5. QED
        BY <3>2, <3>3, <3>4
    <2>2. \A m \in mail' \ mail : m.on \in Ticket
      BY <2>1 DEF Made
    <2> HIDE DEF told
    <2>3. InDepartment
      BY <2>1, <2>2, <1>5 DEF InDepartment
    <2>4. MailFits'
      BY <2>1, <1>3, <1>7 DEF MailFits
    <2>5. QED
      BY <2>3, <2>4
  <1>10. InScope(q)
    <2>1. \A u \in Ticket : Touched(u) => u \in q.on /\ ticket'[u].dept = ticket[u].dept
      BY <1>2, <1>5 DEF Touched
    <2>2. QED
      BY <2>1, <1>1, ScopeOfFence
  <1>11. QED
    BY <1>1, <1>2, <1>3, <1>7, <1>8, <1>9, <1>10, Parts, PartsNext

LEMMA MoveHolds ==
    ASSUME TypeOK, NEW r \in Request, CommitMove(r)
    PROVE  TypeOK' /\ InScope(req[r]) /\ InDepartment
  <1> DEFINE q == req[r]
  <1>1. Commits(r, "move") /\ q.op = "move" /\ StillIn(q) /\ UNCHANGED <<link, home, mail>>
    BY DEF CommitMove, Commits
  <1>2. PICK t \in q.on :
            ticket' = [ticket EXCEPT ![t].dept = q.dept, ![t].watchers = Pruned(@, q.dept)]
    BY DEF CommitMove
  <1>3. TicketsFit /\ RequestFits(q) /\ member \in [Dept -> SUBSET Agent] /\ ticket \in [Ticket -> Rows]
    BY Parts DEF RequestsFit, TicketsFit
  <1>4. t \in Made /\ q.dept \in Dept
    BY <1>1, <1>3 DEF RequestFits
  <1>5. /\ t \in Ticket /\ ticket[t] \in Rows /\ ticket[t].made /\ ticket[t].dept \in Dept
        /\ ticket[t].into \in (Made \cup {None}) \ {t}
    BY <1>3, <1>4, OfMade
  <1>6. Pruned(ticket[t].watchers, q.dept) \subseteq Agent
    BY <1>3, <1>4 DEF Pruned
  <1> DEFINE x == [ticket[t] EXCEPT !.dept = q.dept, !.watchers = Pruned(@, q.dept)]
  <1>7. x \in Rows /\ x.made /\ x.dept = q.dept /\ x.into = ticket[t].into
    BY <1>4, <1>5, <1>6 DEF Rows
  <1>8. ticket' = [ticket EXCEPT ![t] = x]
    BY <1>2, <1>3, <1>5
  <1> HIDE DEF x
  <1>9. q.by = None \/ q.by \in member[x.dept]
    BY <1>1, <1>7 DEF StillIn
  <1>10. /\ TicketsFit' /\ LinksFit' /\ home' \in [Post -> Made' \cup {None}]
         /\ member' \in [Dept -> SUBSET Agent] /\ RequestsFit' /\ InScope(q) /\ Made' = Made
    BY <1>1, <1>4, <1>5, <1>7, <1>8, <1>9, WriteHolds
  <1>11. QED
    BY <1>1, <1>10, NotAlerted, PartsNext

LEMMA NoteHolds ==
    ASSUME TypeOK, NEW r \in Request, CommitNote(r)
    PROVE  TypeOK' /\ InScope(req[r]) /\ InDepartment
  <1> DEFINE q == req[r]
  <1>1. Commits(r, "note") /\ q.op = "note" /\ UNCHANGED <<link, home, mail>>
    BY DEF CommitNote, Commits
  <1>2. PICK t \in q.on : ticket' = [ticket EXCEPT ![t].notes = @ \cup {r}]
    BY DEF CommitNote
  <1>3. TicketsFit /\ RequestFits(q) /\ ticket \in [Ticket -> Rows]
    BY Parts DEF RequestsFit, TicketsFit
  <1>4. t \in Made
    BY <1>1, <1>3 DEF RequestFits
  <1>5. /\ t \in Ticket /\ ticket[t] \in Rows /\ ticket[t].made /\ ticket[t].dept \in Dept
        /\ ticket[t].into \in (Made \cup {None}) \ {t}
    BY <1>3, <1>4, OfMade
  <1> DEFINE x == [ticket[t] EXCEPT !.notes = @ \cup {r}]
  <1>6. x \in Rows /\ x.made /\ x.dept = ticket[t].dept /\ x.into = ticket[t].into
    BY <1>4, <1>5 DEF Rows
  <1>7. ticket' = [ticket EXCEPT ![t] = x]
    BY <1>2
  <1> HIDE DEF x
  <1>8. /\ TicketsFit' /\ LinksFit' /\ home' \in [Post -> Made' \cup {None}]
        /\ member' \in [Dept -> SUBSET Agent] /\ RequestsFit' /\ InScope(q) /\ Made' = Made
    BY <1>1, <1>4, <1>5, <1>6, <1>7, WriteHolds
  <1>9. QED
    BY <1>1, <1>8, NotAlerted, PartsNext

LEMMA WatchHolds ==
    ASSUME TypeOK, NEW r \in Request, CommitWatch(r)
    PROVE  TypeOK' /\ InScope(req[r]) /\ InDepartment
  <1> DEFINE q == req[r]
  <1>1. Commits(r, "watch") /\ q.op = "watch" /\ UNCHANGED <<link, home, mail>>
    BY DEF CommitWatch, Commits
  <1>2. PICK t \in q.on : ticket' = [ticket EXCEPT ![t].watchers = @ \cup {q.who}]
    BY DEF CommitWatch
  <1>3. TicketsFit /\ RequestFits(q) /\ ticket \in [Ticket -> Rows]
    BY Parts DEF RequestsFit, TicketsFit
  <1>4. t \in Made /\ q.who \in Agent
    BY <1>1, <1>3 DEF RequestFits
  <1>5. /\ t \in Ticket /\ ticket[t] \in Rows /\ ticket[t].made /\ ticket[t].dept \in Dept
        /\ ticket[t].into \in (Made \cup {None}) \ {t}
    BY <1>3, <1>4, OfMade
  <1> DEFINE x == [ticket[t] EXCEPT !.watchers = @ \cup {q.who}]
  <1>6. x \in Rows /\ x.made /\ x.dept = ticket[t].dept /\ x.into = ticket[t].into
    BY <1>4, <1>5 DEF Rows
  <1>7. ticket' = [ticket EXCEPT ![t] = x]
    BY <1>2
  <1> HIDE DEF x
  <1>8. /\ TicketsFit' /\ LinksFit' /\ home' \in [Post -> Made' \cup {None}]
        /\ member' \in [Dept -> SUBSET Agent] /\ RequestsFit' /\ InScope(q) /\ Made' = Made
    BY <1>1, <1>4, <1>5, <1>6, <1>7, WriteHolds
  <1>9. QED
    BY <1>1, <1>8, NotAlerted, PartsNext

LEMMA UnwatchHolds ==
    ASSUME TypeOK, NEW r \in Request, CommitUnwatch(r)
    PROVE  TypeOK' /\ InScope(req[r]) /\ InDepartment
  <1> DEFINE q == req[r]
  <1>1. Commits(r, "unwatch") /\ q.op = "unwatch" /\ UNCHANGED <<link, home, mail>>
    BY DEF CommitUnwatch, Commits
  <1>2. PICK t \in q.on : ticket' = [ticket EXCEPT ![t].watchers = @ \ {q.who}]
    BY DEF CommitUnwatch
  <1>3. TicketsFit /\ RequestFits(q) /\ ticket \in [Ticket -> Rows]
    BY Parts DEF RequestsFit, TicketsFit
  <1>4. t \in Made /\ q.who \in Agent
    BY <1>1, <1>3 DEF RequestFits
  <1>5. /\ t \in Ticket /\ ticket[t] \in Rows /\ ticket[t].made /\ ticket[t].dept \in Dept
        /\ ticket[t].into \in (Made \cup {None}) \ {t}
    BY <1>3, <1>4, OfMade
  <1> DEFINE x == [ticket[t] EXCEPT !.watchers = @ \ {q.who}]
  <1>6. x \in Rows /\ x.made /\ x.dept = ticket[t].dept /\ x.into = ticket[t].into
    BY <1>4, <1>5 DEF Rows
  <1>7. ticket' = [ticket EXCEPT ![t] = x]
    BY <1>2
  <1> HIDE DEF x
  <1>8. /\ TicketsFit' /\ LinksFit' /\ home' \in [Post -> Made' \cup {None}]
        /\ member' \in [Dept -> SUBSET Agent] /\ RequestsFit' /\ InScope(q) /\ Made' = Made
    BY <1>1, <1>4, <1>5, <1>6, <1>7, WriteHolds
  <1>9. QED
    BY <1>1, <1>8, NotAlerted, PartsNext

LEMMA MarkHolds ==
    ASSUME TypeOK, NEW r \in Request, CommitMark(r)
    PROVE  TypeOK' /\ InScope(req[r]) /\ InDepartment
  <1> DEFINE q == req[r]
  <1>1. PICK op \in {"tag", "field", "row"} : Commits(r, op)
    BY DEF CommitMark
  <1>2. UNCHANGED <<link, home, mail>> /\ q.op = op
    BY <1>1 DEF CommitMark, Commits
  <1>3. PICK t \in q.on, m \in SUBSET Request : ticket' = [ticket EXCEPT ![t].marks = m]
    BY DEF CommitMark
  <1>4. TicketsFit /\ RequestFits(q)
    BY Parts DEF RequestsFit
  <1>5. t \in Made
    BY <1>2, <1>4 DEF RequestFits
  <1>6. /\ t \in Ticket /\ ticket[t] \in Rows /\ ticket[t].made /\ ticket[t].dept \in Dept
        /\ ticket[t].into \in (Made \cup {None}) \ {t}
    BY <1>4, <1>5, OfMade
  <1> DEFINE x == [ticket[t] EXCEPT !.marks = m]
  <1>7. x \in Rows /\ x.made /\ x.dept = ticket[t].dept /\ x.into = ticket[t].into
    BY <1>6 DEF Rows
  <1>8. ticket' = [ticket EXCEPT ![t] = x]
    BY <1>3
  <1> HIDE DEF x
  <1>9. /\ TicketsFit' /\ LinksFit' /\ home' \in [Post -> Made' \cup {None}]
        /\ member' \in [Dept -> SUBSET Agent] /\ RequestsFit' /\ InScope(q) /\ Made' = Made
    BY <1>1, <1>2, <1>5, <1>6, <1>7, <1>8, WriteHolds
  <1>10. QED
    BY <1>2, <1>9, NotAlerted, PartsNext

LEMMA RuleHolds ==
    ASSUME TypeOK, NEW r \in Request, CommitRule(r)
    PROVE  TypeOK' /\ InScope(req[r]) /\ InDepartment
  <1> DEFINE q == req[r]
             moved(d) == IF q.dept = None THEN d ELSE q.dept
  <1>1. Commits(r, "rule") /\ q.op = "rule" /\ UNCHANGED <<link, home>>
    BY DEF CommitRule, Commits
  <1>2. PICK t \in q.on :
            /\ ticket' = [ticket EXCEPT ![t].dept = moved(@),
                                        ![t].owner = IF q.owner = None THEN @ ELSE q.owner]
            /\ mail' = mail \cup Alerts(r, Informed({q.owner}, moved(ticket[t].dept)), t)
    BY DEF CommitRule
  <1>3. TicketsFit /\ RequestFits(q) /\ ticket \in [Ticket -> Rows]
    BY Parts DEF RequestsFit, TicketsFit
  <1>4. t \in Made /\ q.dept \in Dept \cup {None} /\ q.owner \in Agent \cup {None} /\ q.by = None
    BY <1>1, <1>3 DEF RequestFits
  <1>5. /\ t \in Ticket /\ ticket[t] \in Rows /\ ticket[t].made /\ ticket[t].dept \in Dept
        /\ ticket[t].into \in (Made \cup {None}) \ {t} /\ ticket[t].owner \in Agent \cup {None}
    BY <1>3, <1>4, OfMade
  <1> DEFINE x == [ticket[t] EXCEPT !.dept = moved(@), !.owner = IF q.owner = None THEN @ ELSE q.owner]
  <1>6. moved(ticket[t].dept) \in Dept
    BY <1>4, <1>5
  <1>7. /\ x \in Rows /\ x.made /\ x.dept = moved(ticket[t].dept) /\ x.dept \in Dept
        /\ x.into \in (Made \cup {None}) \ {t}
    BY <1>4, <1>5, <1>6 DEF Rows
  <1>8. ticket' = [ticket EXCEPT ![t] = x]
    BY <1>2, <1>3, <1>5
  <1> HIDE DEF x, moved
  <1>9. /\ TicketsFit' /\ LinksFit' /\ home' \in [Post -> Made' \cup {None}]
        /\ member' \in [Dept -> SUBSET Agent] /\ RequestsFit' /\ InScope(q)
        /\ Made' = Made /\ ticket'[t] = x
    BY <1>1, <1>4, <1>5, <1>6, <1>7, <1>8, WriteHolds
  <1>10. MailFits' /\ InDepartment
    <2>1. mail' = mail \cup Alerts(r, Informed({q.owner}, ticket'[t].dept), t)
      BY <1>2, <1>7, <1>9
    <2>2. {q.owner} \in SUBSET (Agent \cup {None}) /\ ticket'[t].dept \in Dept
      BY <1>4, <1>6, <1>7, <1>9
    <2>3. QED
      BY <2>1, <2>2, <1>4, <1>9, Alerted
  <1>11. QED
    BY <1>9, <1>10, PartsNext

LEMMA EscalationHolds ==
    ASSUME TypeOK, NEW r \in Request, CommitEscalation(r)
    PROVE  TypeOK' /\ InScope(req[r]) /\ InDepartment
  <1> DEFINE q == req[r]
  <1>1. Commits(r, "escalate") /\ q.op = "escalate" /\ UNCHANGED <<link, home>>
    BY DEF CommitEscalation, Commits
  <1>2. PICK t \in q.on : \E owner \in Agent \cup {ticket[t].owner}, told \in Agent \cup {None} :
            /\ ticket' = [ticket EXCEPT ![t].owner = owner, ![t].marks = @ \cup {r}]
            /\ mail' = mail \cup Alerts(r, Informed({told}, ticket[t].dept), t)
    BY DEF CommitEscalation
  <1>3. PICK owner \in Agent \cup {ticket[t].owner}, told \in Agent \cup {None} :
            /\ ticket' = [ticket EXCEPT ![t].owner = owner, ![t].marks = @ \cup {r}]
            /\ mail' = mail \cup Alerts(r, Informed({told}, ticket[t].dept), t)
    BY <1>2
  <1>4. TicketsFit /\ RequestFits(q) /\ ticket \in [Ticket -> Rows]
    BY Parts DEF RequestsFit, TicketsFit
  <1>5. t \in Made
    BY <1>1, <1>4 DEF RequestFits
  <1>6. /\ t \in Ticket /\ ticket[t] \in Rows /\ ticket[t].made /\ ticket[t].dept \in Dept
        /\ ticket[t].into \in (Made \cup {None}) \ {t} /\ ticket[t].owner \in Agent \cup {None}
    BY <1>4, <1>5, OfMade
  <1> DEFINE x == [ticket[t] EXCEPT !.owner = owner, !.marks = @ \cup {r}]
  <1>7. x \in Rows /\ x.made /\ x.dept = ticket[t].dept /\ x.into = ticket[t].into
    BY <1>6 DEF Rows
  <1>8. ticket' = [ticket EXCEPT ![t] = x]
    BY <1>3, <1>4, <1>6
  <1> HIDE DEF x
  <1>9. /\ TicketsFit' /\ LinksFit' /\ home' \in [Post -> Made' \cup {None}]
        /\ member' \in [Dept -> SUBSET Agent] /\ RequestsFit' /\ InScope(q)
        /\ Made' = Made /\ ticket'[t] = x
    BY <1>1, <1>5, <1>6, <1>7, <1>8, WriteHolds
  <1>10. MailFits' /\ InDepartment
    <2>1. mail' = mail \cup Alerts(r, Informed({told}, ticket'[t].dept), t)
      BY <1>3, <1>7, <1>9
    <2>2. {told} \in SUBSET (Agent \cup {None}) /\ ticket'[t].dept \in Dept
      BY <1>6, <1>7, <1>9
    <2>3. QED
      BY <2>1, <2>2, <1>5, <1>9, Alerted
  <1>11. QED
    BY <1>9, <1>10, PartsNext

(* A link is written or taken away, and no ticket is.                      *)
LEMMA LinkHolds ==
    ASSUME TypeOK, NEW r \in Request, CommitLink(r) \/ CommitUnlink(r)
    PROVE  TypeOK' /\ InScope(req[r]) /\ InDepartment
  <1> DEFINE q == req[r]
  <1>1. /\ q.op \in {"link", "unlink"} /\ Fenced(q) /\ Goes(r, rest[r]) /\ member' = member
        /\ UNCHANGED <<ticket, home, mail>>
        /\ (link' = link \cup {q.on} /\ q.op = "link") \/ link' = link \ {q.on}
    BY DEF CommitLink, CommitUnlink, Commits
  <1>2. Made' = Made /\ TicketsFit'
    BY <1>1, Parts DEF Made, TicketsFit, TicketFits
  <1>3. RequestFits(q) /\ LinksFit
    BY Parts DEF RequestsFit
  <1>4. q.on \subseteq Made /\ (q.op = "link" => Cardinality(q.on) = 2)
    BY <1>1, <1>3 DEF RequestFits
  <1>5. LinksFit'
    <2> SUFFICES ASSUME NEW pair \in link' PROVE pair \subseteq Made' /\ Cardinality(pair) = 2
      BY DEF LinksFit
    <2>1. CASE pair \in link
      BY <2>1, <1>2, <1>3 DEF LinksFit
    <2>2. CASE pair \notin link
      BY <2>2, <1>1, <1>2, <1>4
    <2>3. QED
      BY <2>1, <2>2
  <1>6. RequestsFit' /\ MailFits' /\ InDepartment
    BY <1>1, <1>2, Went, NotAlerted
  <1>7. InScope(q)
    <2>1. \A u \in Ticket : Touched(u) => u \in q.on /\ ticket'[u].dept = ticket[u].dept
      BY <1>1 DEF Touched
    <2>2. QED
      BY <2>1, <1>1, ScopeOfFence
  <1>8. QED
    BY <1>1, <1>2, <1>5, <1>6, <1>7, Parts, PartsNext

(* The tags of a rule: the request goes on, and no agent writes.           *)
LEMMA MarksHold ==
    ASSUME TypeOK, NEW r \in Request, RuleMarks(r)
    PROVE  TypeOK' /\ InScope(req[r]) /\ InDepartment
  <1>1. req[r].op = "rule" /\ UNCHANGED <<link, home, member, mail, req, rest>>
    BY DEF RuleMarks
  <1>2. PICK t \in req[r].on : ticket' = [ticket EXCEPT ![t].marks = @ \cup {r}]
    BY DEF RuleMarks
  <1>3. TicketsFit /\ RequestsFit /\ RequestFits(req[r])
    BY Parts DEF RequestsFit
  <1>4. t \in Made /\ req[r].by = None
    BY <1>1, <1>3 DEF RequestFits
  <1>5. /\ t \in Ticket /\ ticket[t] \in Rows /\ ticket[t].made /\ ticket[t].dept \in Dept
        /\ ticket[t].into \in (Made \cup {None}) \ {t}
    BY <1>3, <1>4, OfMade
  <1> DEFINE x == [ticket[t] EXCEPT !.marks = @ \cup {r}]
  <1>6. x \in Rows /\ x.made /\ x.dept = ticket[t].dept /\ x.into = ticket[t].into
    BY <1>5 DEF Rows
  <1>7. ticket' = [ticket EXCEPT ![t] = x]
    BY <1>2
  <1> HIDE DEF x
  <1>8. TicketsFit' /\ Made' = Made
    BY <1>4, <1>5, <1>6, <1>7, OneTicket
  <1>9. RequestsFit'
    BY <1>1, <1>3, <1>8 DEF RequestsFit, RequestFits
  <1>10. LinksFit' /\ MailFits' /\ InDepartment
    BY <1>1, <1>8, LinksStay, NotAlerted
  <1>11. InScope(req[r])
    BY <1>4 DEF InScope
  <1>12. QED
    BY <1>1, <1>8, <1>9, <1>10, <1>11, Parts, PartsNext

(* A merge writes its two tickets, which are both of the fence.            *)
LEMMA MergeHolds ==
    ASSUME TypeOK, NEW r \in Request, CommitMerge(r)
    PROVE  TypeOK' /\ InScope(req[r]) /\ InDepartment
  <1> DEFINE q == req[r]
             target == q.target
             source == CHOOSE t \in q.on : t # target
             stay   == Pruned(ticket[source].watchers \cup ticket[target].watchers, q.dept)
  <1>1. q.op = "merge" /\ Fenced(q) /\ Goes(r, rest[r]) /\ member' = member
    BY DEF CommitMerge, Commits
  <1>2. /\ link' = link /\ mail' = mail
        /\ home' = [p \in Post |-> IF home[p] = source THEN target ELSE home[p]]
        /\ ticket' = [ticket EXCEPT ![source].into = target, ![source].watchers = {},
                                    ![target].watchers = stay, ![source].notes = {},
                                    ![target].notes = @ \cup ticket[source].notes]
    BY DEF CommitMerge
  <1>3. /\ TicketsFit /\ RequestFits(q) /\ ticket \in [Ticket -> Rows]
        /\ home \in [Post -> Made \cup {None}] /\ member \in [Dept -> SUBSET Agent]
    BY Parts DEF RequestsFit, TicketsFit
  <1>4. /\ q.on \subseteq Made /\ q.dept \in Dept /\ target \in q.on
        /\ \E t \in q.on : t # target
    BY <1>1, <1>3 DEF RequestFits
  <1>5. source \in q.on /\ source # target
    BY <1>4
  <1> HIDE DEF source, target
  <1>6. source \in Made /\ target \in Made
    BY <1>4, <1>5
  <1>7. /\ source \in Ticket /\ ticket[source] \in Rows /\ ticket[source].watchers \subseteq Agent
        /\ ticket[source].notes \subseteq Request /\ source # None
    BY <1>3, <1>6, OfMade
  <1>8. /\ target \in Ticket /\ ticket[target] \in Rows /\ ticket[target].watchers \subseteq Agent
        /\ ticket[target].notes \subseteq Request
    BY <1>3, <1>6, OfMade
  <1>9. stay \subseteq Agent
    BY <1>7, <1>8 DEF Pruned
  <1> HIDE DEF stay
  <1> DEFINE x == [ticket[source] EXCEPT !.into = target, !.watchers = {}, !.notes = {}]
             y == [ticket[target] EXCEPT !.watchers = stay, !.notes = @ \cup ticket[source].notes]
  <1>10. x \in Rows /\ x.made = ticket[source].made /\ x.dept = ticket[source].dept /\ x.into = target
    BY <1>7, <1>8 DEF Rows
  <1>11. /\ y \in Rows /\ y.made = ticket[target].made /\ y.dept = ticket[target].dept
         /\ y.into = ticket[target].into
    BY <1>7, <1>8, <1>9 DEF Rows
  <1>12. /\ ticket'[source] = x /\ ticket'[target] = y /\ DOMAIN ticket' = Ticket
         /\ \A u \in Ticket \ {source, target} : ticket'[u] = ticket[u]
    BY <1>2, <1>3, <1>5, <1>7, <1>8
  <1> HIDE DEF x, y
  <1>13. ticket' \in [Ticket -> Rows]
    <2>1. ticket' = [u \in Ticket |-> ticket'[u]]
      BY <1>2, <1>3
    <2>2. \A u \in Ticket : ticket'[u] \in Rows
      BY <1>3, <1>10, <1>11, <1>12
    <2>3. QED
      BY <2>1, <2>2
  <1>14. Made' = Made
    BY <1>10, <1>11, <1>12 DEF Made
  <1>15. TicketsFit'
    <2> SUFFICES ASSUME NEW u \in Ticket PROVE TicketFits(u)'
      BY <1>13 DEF TicketsFit
    <2>1. CASE u = source
      BY <2>1, <1>3, <1>5, <1>6, <1>10, <1>12, <1>14 DEF TicketsFit, TicketFits
    <2>2. CASE u = target
      BY <2>2, <1>3, <1>11, <1>12, <1>14 DEF TicketsFit, TicketFits
    <2>3. CASE u \notin {source, target}
      BY <2>3, <1>3, <1>12, <1>14 DEF TicketsFit, TicketFits
    <2>4. QED
      BY <2>1, <2>2, <2>3
  <1>16. RequestsFit' /\ LinksFit' /\ MailFits' /\ InDepartment
    BY <1>1, <1>2, <1>14, Went, LinksStay, NotAlerted
  <1>17. home' \in [Post -> Made \cup {None}]
    BY <1>2, <1>3, <1>6
  <1>18. InScope(q)
    <2>1. \A u \in Ticket : Touched(u) => u \in {source, target}
      BY <1>2, <1>3, <1>7, <1>12 DEF Touched
    <2>2. \A u \in {source, target} : u \in q.on /\ ticket'[u].dept = ticket[u].dept
      BY <1>4, <1>5, <1>10, <1>11, <1>12
    <2>3. QED
      BY <2>1, <2>2, <1>1, ScopeOfFence
  <1>19. QED
    BY <1>1, <1>3, <1>14, <1>15, <1>16, <1>17, <1>18, Parts, PartsNext

(* A split: the ticket it makes has exactly the posts it was asked for.    *)
IsWhole(q) ==
    \A t \in Made' \ Made : /\ {p \in Post : home'[p] = t} = q.posts
                            /\ \A p \in q.posts : home[p] \in q.on

LEMMA SplitHolds ==
    ASSUME TypeOK, NEW r \in Request, CommitSplit(r)
    PROVE  TypeOK' /\ InScope(req[r]) /\ InDepartment /\ IsWhole(req[r])
  <1> DEFINE q == req[r]
  <1>1. q.op = "split" /\ Fenced(q) /\ Goes(r, rest[r]) /\ member' = member
    BY DEF CommitSplit, Commits
  <1>2. StillIn(q) /\ AllStillThere(q) /\ link' = link /\ mail' = mail
    BY DEF CommitSplit
  <1>3. PICK t \in Ticket \ Made :
            /\ ticket' = [ticket EXCEPT ![t] = [Blank(q.dept) EXCEPT !.owner = q.owner]]
            /\ home' = [p \in Post |-> IF p \in q.posts /\ home[p] \in q.on THEN t ELSE home[p]]
    BY DEF CommitSplit
  <1>4. RequestFits(q) /\ home \in [Post -> Made \cup {None}]
    BY Parts DEF RequestsFit
  <1>5. /\ q.dept \in Dept /\ q.owner \in Agent \cup {None} /\ q.on \subseteq Made
        /\ q.posts \subseteq Post
    BY <1>1, <1>4 DEF RequestFits
  <1>6. /\ TicketsFit' /\ Made' = Made \cup {t} /\ ticket'[t].dept = q.dept /\ ticket[t].dept = None
        /\ \A u \in Ticket : u # t => ticket'[u] = ticket[u]
    BY <1>3, <1>5, NewTicket
  <1>7. home' \in [Post -> Made' \cup {None}]
    BY <1>3, <1>4, <1>6
  <1>8. RequestsFit' /\ LinksFit' /\ MailFits' /\ InDepartment
    BY <1>1, <1>2, <1>6, Went, LinksStay, NotAlerted
  <1>9. InScope(q)
    <2>1. \A u \in Ticket : Touched(u) => u = t \/ u \in q.on
      BY <1>2, <1>3, <1>6 DEF Touched
    <2>2. \A u \in q.on : u # t /\ u \in Ticket /\ ticket'[u].dept = ticket[u].dept
      BY <1>5, <1>6 DEF Made
    <2>3. \A u \in q.on : q.by = None \/ q.by \in member[ticket[u].dept]
      BY <1>1 DEF Fenced, MaySee
    <2>4. QED
      BY <2>1, <2>2, <2>3, <1>2, <1>6 DEF InScope, StillIn
  <1>10. IsWhole(q)
    <2>1. \A p \in q.posts : home[p] \in q.on
      BY <1>2 DEF AllStillThere
    <2>2. t # None
      BY NoneAssumption
    <2>3. \A p \in Post : home'[p] = t <=> p \in q.posts
      BY <1>3, <1>4, <2>1, <2>2
    <2>4. QED
      BY <2>1, <2>3, <1>5, <1>6 DEF IsWhole
  <1>11. QED
    BY <1>1, <1>6, <1>7, <1>8, <1>9, <1>10, Parts, PartsNext

(* A refusal writes nothing but the request.                               *)
LEMMA RefusalHolds ==
    ASSUME TypeOK, NEW r \in Request, Refuses(r) \/ MacroRefused(r)
    PROVE  TypeOK' /\ InScope(req[r]) /\ InDepartment /\ Made' = Made
  <1>1. UNCHANGED <<ticket, link, home, member, mail>> /\ req[r].op \notin {"new", "done"}
    BY DEF Refuses, MacroRefused
  <1>2. PICK more : Goes(r, more)
    BY DEF Refuses, MacroRefused
  <1>3. Made' = Made /\ TicketsFit'
    BY <1>1, Parts DEF Made, TicketsFit, TicketFits
  <1>4. RequestsFit' /\ LinksFit' /\ MailFits' /\ InDepartment
    BY <1>1, <1>2, <1>3, Went, LinksStay, NotAlerted
  <1>5. InScope(req[r])
    BY <1>1 DEF InScope, Touched
  <1>6. QED
    BY <1>1, <1>3, <1>4, <1>5, Parts, PartsNext

(* Departments are replaced: no ticket is written and no alert queued.     *)
LEMMA DepartmentsHold ==
    ASSUME TypeOK, NEW r \in Request, SetDepartments(r)
    PROVE  TypeOK' /\ InDepartment
  <1>1. /\ UNCHANGED <<ticket, link, home, mail>> /\ req' = [req EXCEPT ![r] = Done]
        /\ \E a \in Agent, ds \in SUBSET Dept :
              member' = [d \in Dept |-> IF d \in ds THEN member[d] \cup {a} ELSE member[d] \ {a}]
    BY DEF SetDepartments
  <1>2. Made' = Made /\ TicketsFit'
    BY <1>1, Parts DEF Made, TicketsFit, TicketFits
  <1>3. member' \in [Dept -> SUBSET Agent]
    BY <1>1, Parts
  <1>4. DOMAIN req' = Request /\ \A s \in Request : RequestFits(req'[s])
    BY <1>1, Parts DEF RequestsFit, RequestFits, Done
  <1>5. RequestsFit'
    BY <1>2, <1>4 DEF RequestsFit, RequestFits
  <1>6. LinksFit' /\ MailFits' /\ InDepartment
    BY <1>1, <1>2, LinksStay, NotAlerted
  <1>7. QED
    BY <1>1, <1>2, <1>3, <1>5, <1>6, Parts, PartsNext

LEMMA WritesHold ==
    ASSUME TypeOK, NEW r \in Request, Writes(r)
    PROVE  TypeOK' /\ InScope(req[r]) /\ InDepartment
  <1>1. CASE CommitReply(r) \/ CommitCreate(r) \/ CommitSpawn(r) \/ CommitStatus(r) \/ CommitAssign(r)
    BY <1>1, ReplyHolds, CreateHolds, SpawnHolds, StatusHolds, AssignHolds
  <1>2. CASE CommitMove(r) \/ CommitNote(r) \/ CommitMark(r) \/ CommitLink(r) \/ CommitUnlink(r)
    BY <1>2, MoveHolds, NoteHolds, MarkHolds, LinkHolds
  <1>3. CASE RuleMarks(r) \/ CommitRule(r) \/ CommitEscalation(r) \/ CommitWatch(r) \/ CommitUnwatch(r)
    BY <1>3, MarksHold, RuleHolds, EscalationHolds, WatchHolds, UnwatchHolds
  <1>4. CASE CommitMerge(r) \/ CommitSplit(r) \/ Refuses(r) \/ MacroRefused(r)
    BY <1>4, MergeHolds, SplitHolds, RefusalHolds
  <1>5. QED
    BY <1>1, <1>2, <1>3, <1>4 DEF Writes

LEMMA ReadsWriteNothing ==
    ASSUME NEW r \in Request, Reads(r)
    PROVE  mail' = mail /\ req[r].op \in {"new", "macro"} /\ \E q : req' = [req EXCEPT ![r] = q]
  <1>1. Arrives(r) => req[r].op = "new"
    BY DEF Arrives
  <1>2. \A op, a, ts : Begins(r, op, a, ts) => req[r].op \in {"new", "macro"}
    BY <1>1 DEF Begins
  <1>3. \A request : Receives(r, request) => mail' = mail /\ \E q : req' = [req EXCEPT ![r] = q]
    BY DEF Receives
  <1>4. CASE ReadReply(r) \/ ReadCreate(r) \/ ReadSpawn(r) \/ ReadRule(r) \/ ReadBreach(r)
    BY <1>1, <1>3, <1>4 DEF ReadReply, ReadCreate, ReadSpawn, ReadRule, ReadBreach
  <1>5. CASE ReadStatus(r) \/ ReadAssign(r) \/ ReadMove(r) \/ ReadEdit(r) \/ ReadRow(r) \/ ReadWatch(r)
    BY <1>1, <1>2, <1>3, <1>5 DEF ReadStatus, ReadAssign, ReadMove, ReadEdit, ReadRow, ReadWatch
  <1>6. CASE ReadLink(r) \/ ReadUnlink(r) \/ ReadMerge(r) \/ ReadSplit(r)
    BY <1>1, <1>2, <1>3, <1>6 DEF ReadLink, ReadUnlink, ReadMerge, ReadSplit
  <1>7. CASE ReadMacro(r)
    BY <1>1, <1>7 DEF ReadMacro
  <1>8. CASE MacroReplies(r)
    BY <1>3, <1>8 DEF MacroReplies
  <1>9. QED
    BY <1>4, <1>5, <1>6, <1>7, <1>8 DEF Reads

LEMMA WritesOneRequest ==
    ASSUME NEW r \in Request, Writes(r)
    PROVE  req' = req \/ \E q : req' = [req EXCEPT ![r] = q]
  <1>1. \A op : Commits(r, op) => Goes(r, rest[r])
    BY DEF Commits
  <1>2. \A more : Goes(r, more) => \E q : req' = [req EXCEPT ![r] = q]
    BY DEF Goes
  <1>3. QED
    BY <1>1, <1>2
    DEF Writes, CommitReply, CommitCreate, CommitSpawn, CommitStatus, CommitAssign, CommitMove, CommitNote,
        CommitMark, CommitLink, CommitUnlink, RuleMarks, CommitRule, CommitEscalation, CommitWatch,
        CommitUnwatch, CommitMerge, CommitSplit, Refuses, MacroRefused

(* The request a step serves is the one that acts, and it writes.          *)
LEMMA Acts ==
    ASSUME TypeOK, NEW r \in Request, Reads(r) \/ Writes(r) \/ SetDepartments(r),
           NEW s \in Request, Serves(s, req[s])
    PROVE  s = r /\ Writes(r)
  <1>1. req' = req \/ \E q : req' = [req EXCEPT ![r] = q]
    BY ReadsWriteNothing, WritesOneRequest DEF SetDepartments
  <1>2. DOMAIN req = Request
    BY Parts DEF RequestsFit
  <1>3. s = r
    BY <1>1, <1>2 DEF Serves
  <1>4. ~(Reads(r) \/ SetDepartments(r))
    BY <1>3, ReadsWriteNothing DEF Serves, SetDepartments, Arrives
  <1>5. QED
    BY <1>3, <1>4

LEMMA NextFits == TypeOK /\ [Next]_vars => TypeOK'
  <1> SUFFICES ASSUME TypeOK, [Next]_vars PROVE TypeOK'
    OBVIOUS
  <1>1. CASE UNCHANGED vars
    BY <1>1 DEF vars, TypeOK, Made, RequestFits
  <1>2. CASE Next
    <2>1. PICK r \in Request : Reads(r) \/ Writes(r) \/ SetDepartments(r)
      BY <1>2 DEF Next
    <2>2. QED
      BY <2>1, ReadsFit, WritesHold, DepartmentsHold
  <1>3. QED
    BY <1>1, <1>2

(* Rows keep their types: a ticket in a department is one that exists, it  *)
(* is merged into another that exists, posts and links are of tickets that *)
(* exist, and what a first half has read fits its second half              *)
(* (tickets.service.ts, ticket-access-policy.service.ts).                  *)
THEOREM TypeCorrect == Spec => []TypeOK
  <1>1. QED
    BY InitFits, NextFits, PTL DEF Spec

(* The fence of ticket-access-policy.service.ts: the transaction of an     *)
(* agent changes only tickets of departments the agent belongs to when it  *)
(* commits, before and after the change, whatever was revoked, moved or    *)
(* merged since the request was authorized.                                *)
THEOREM StaffStayInScope == Spec => StaffWritesStayInScope
  <1>1. TypeOK /\ [Next]_vars =>
            [\A r \in Request : Serves(r, req[r]) /\ req[r].by # None =>
                \A t \in Ticket : Touched(t) =>
                    \A d \in {ticket[t].dept, ticket'[t].dept} \ {None} : req[r].by \in member[d]]_vars
    <2> SUFFICES ASSUME TypeOK, Next, NEW s \in Request, Serves(s, req[s]) PROVE InScope(req[s])
      BY DEF InScope
    <2>1. PICK r \in Request : Reads(r) \/ Writes(r) \/ SetDepartments(r)
      BY DEF Next
    <2>2. s = r /\ Writes(r)
      BY <2>1, Acts
    <2>3. QED
      BY <2>2, WritesHold
  <1>2. QED
    BY <1>1, TypeCorrect, PTL DEF Spec, StaffWritesStayInScope

(* notification.service.ts: an alert goes only to staff of the department  *)
(* the ticket is in when it is queued, though the watcher or assignee was  *)
(* recorded when it was in another.                                        *)
THEOREM AlertsStay == Spec => AlertsStayInDepartment
  <1>1. TypeOK /\ [Next]_vars =>
            [\A m \in mail' \ mail : m.to \in member[ticket'[m.on].dept]]_vars
    <2> SUFFICES ASSUME TypeOK, Next PROVE InDepartment
      BY DEF InDepartment
    <2>1. PICK r \in Request : Reads(r) \/ Writes(r) \/ SetDepartments(r)
      BY DEF Next
    <2>2. CASE Reads(r)
      BY <2>2, ReadsWriteNothing DEF InDepartment
    <2>3. QED
      BY <2>1, <2>2, WritesHold, DepartmentsHold
  <1>2. QED
    BY <1>1, TypeCorrect, PTL DEF Spec, AlertsStayInDepartment

(* tickets.service.ts:1741: the count of the moved posts.  A split that    *)
(* commits has taken every post it was asked for, all from its source,     *)
(* whatever merges and splits overtook it.                                 *)
THEOREM SplitsAreWhole == Spec => SplitIsWhole
  <1>1. TypeOK /\ [Next]_vars =>
            [\A r \in Request : Serves(r, req[r]) /\ req[r].op = "split" =>
                \A t \in Made' \ Made :
                    /\ {p \in Post : home'[p] = t} = req[r].posts
                    /\ \A p \in req[r].posts : home[p] \in req[r].on]_vars
    <2> SUFFICES ASSUME TypeOK, Next, NEW s \in Request, Serves(s, req[s]), req[s].op = "split"
                 PROVE  IsWhole(req[s])
      BY DEF IsWhole
    <2>1. PICK r \in Request : Reads(r) \/ Writes(r) \/ SetDepartments(r)
      BY DEF Next
    <2>2. s = r /\ Writes(r) /\ req[r].op = "split"
      BY <2>1, Acts
    <2>3. \A op : Commits(r, op) => op = "split"
      BY <2>2 DEF Commits
    <2>4. CommitSplit(r) \/ Refuses(r)
      BY <2>2, <2>3
      DEF Writes, CommitReply, CommitCreate, CommitSpawn, CommitStatus, CommitAssign, CommitMove,
          CommitNote, CommitMark, CommitLink, CommitUnlink, RuleMarks, CommitRule, CommitEscalation,
          CommitWatch, CommitUnwatch, CommitMerge, MacroRefused
    <2>5. CASE CommitSplit(r)
      BY <2>2, <2>5, SplitHolds
    <2>6. CASE Refuses(r)
      BY <2>2, <2>6, RefusalHolds DEF IsWhole
    <2>7. QED
      BY <2>4, <2>5, <2>6
  <1>2. QED
    BY <1>1, TypeCorrect, PTL DEF Spec, SplitIsWhole
================================================================================
