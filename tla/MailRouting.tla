------------------------------- MODULE MailRouting -------------------------------
(***************************************************************************)
(* Where an accepted mail goes (inbound.service.ts): the snapshot of the   *)
(* queues that acceptance freezes, the permits of the parser, the route    *)
(* and its claim by Message-ID, the filter of loops, the threads of a      *)
(* ticket, the parser rules and the new ticket, while operators edit the   *)
(* queues, the rules and the people of a ticket.                           *)
(*                                                                         *)
(* The leases and the attempts of a row are InboundLedger; here one        *)
(* process drains, and a failed step is retried.  The address of a queue   *)
(* is the queue.                                                           *)
(***************************************************************************)
EXTENDS Integers, FiniteSets, Sequences, SequencesExt

CONSTANTS
    Mailbox,     \* ids of the mail queues
    Person,      \* other addresses
    Mail,        \* rows of the ledger
    Rule,        \* parser rules by sortOrder, 1..n
    RuleKind,    \* [on, ignore, dept, stop, safe]: what a rule may say
    Config,      \* [on, dept, priority]: what a queue may be configured to
    MaxParsers,  \* MAX_CONCURRENT_PARSERS
    MaxWaiting,  \* MAX_QUEUED_PARSERS
    MaxTurns     \* bound: edits and failed steps

VARIABLES
    config,  \* the queues; dept 0 is none
    own,     \* ownAddresses of the process
    rules,   \* the parser rules; dept 0 is none
    letter,  \* what the mails say
    state,   \* of each row: its step, the snapshot, the route, the ticket
    claim,   \* by Message-ID: the row that won and its route
    people,  \* who takes part in the ticket that was there before
    known,   \* history: whoever took part in it
    seen,    \* history: the queues when the row was accepted
    parsers, \* activeParsers
    queued,  \* parserWaiters
    turns

vars == <<config, own, rules, letter, state, claim, people, known, seen, parsers, queued, turns>>

Ids == 1..2      \* Message-IDs; 0 is mail without one
OldTicket == 0   \* the ticket that was there before; a new one has the name of its mail

\* hits: the rules whose criteria match; cites: whether it references the old ticket,
\* by its Message-ID or by the mask in the subject.
Letters == [from: Person \cup Mailbox, to: SUBSET Mailbox, via: Mailbox, id: 0..2, text: 1..2,
            machine: BOOLEAN, cites: {"nothing", "thread", "mask"}, hits: SUBSET Rule]

Fresh == [pc |-> "absent", snapshot |-> {}, home |-> 0, dept |-> 0, ticket |-> -1]

Init ==
    /\ config \in [Mailbox -> Config]
    /\ own = {q \in Mailbox : config[q].on}
    /\ rules \in [Rule -> RuleKind]
    /\ letter \in [Mail -> Letters]
    /\ state = [m \in Mail |-> Fresh]
    /\ claim = [i \in Ids |-> [winner |-> -1, text |-> 0, dept |-> 0]]
    /\ people \in SUBSET Person /\ known = people
    /\ seen = [m \in Mail |-> config]
    /\ parsers = 0 /\ queued = << >> /\ turns = 0

At(m, pc) == state[m].pc = pc
To(m, pc) == state' = [state EXCEPT ![m].pc = pc]
Turn == turns < MaxTurns /\ turns' = turns + 1
Routing == <<claim, seen>>
Permits == <<parsers, queued>>
Edited == <<config, own, rules, people, known>>
--------------------------------------------------------------------------------
(* Acceptance and parsing.                                                 *)

\* Mutant: the priority is forgotten.
BeforeById(a, b) == a.id < b.id

Before(a, b) == a.priority < b.priority \/ (a.priority = b.priority /\ a.id < b.id)

\* captureRoutingSnapshot: the queues that are enabled now.
Snapshot ==
    {[id |-> q, dept |-> config[q].dept, priority |-> config[q].priority] :
       q \in {r \in Mailbox : config[r].on}}

\* One transaction that holds the row of the receiving queue.
Accept(m) ==
    LET q == letter[m].via
    IN  /\ At(m, "absent") /\ config[q].on
        /\ state' = [state EXCEPT ![m].pc = "parse", ![m].snapshot = Snapshot,
                                  ![m].home = config[q].dept]
        /\ seen' = [seen EXCEPT ![m] = config]
        /\ UNCHANGED <<letter, claim, Permits, Edited, turns>>

\* acquireParserSlot; a full queue of waiters is a failure to be retried.
AcquireParserSlot(m) ==
    /\ At(m, "parse")
    /\ IF parsers < MaxParsers
       THEN parsers' = parsers + 1 /\ To(m, "parsing") /\ UNCHANGED queued
       ELSE IF Len(queued) < MaxWaiting
            THEN queued' = Append(queued, m) /\ To(m, "waiting") /\ UNCHANGED parsers
            ELSE UNCHANGED <<parsers, queued, state>>
    /\ UNCHANGED <<letter, Routing, Edited, turns>>

\* releaseParserSlot hands the permit to the oldest waiter; then the limits on the
\* fields and the Message-ID, of which a mail has at most one.
Parse(m) ==
    /\ At(m, "parsing")
    /\ \E pc \in {"route", "quarantined"} :
         IF queued = << >>
         THEN parsers' = parsers - 1 /\ To(m, pc) /\ UNCHANGED queued
         ELSE /\ queued' = Tail(queued) /\ UNCHANGED parsers
              /\ state' = [state EXCEPT ![m].pc = pc, ![Head(queued)].pc = "parsing"]
    /\ UNCHANGED <<letter, Routing, Edited, turns>>
--------------------------------------------------------------------------------
(* The route.                                                              *)

Recipients(m) == letter[m].to \cup {letter[m].via}

\* resolveInboundRoute: the first addressed queue of the snapshot, else the queue
\* that received the mail; never the queues of today.
Route(m) ==
    LET addressed == {e \in state[m].snapshot : e.id \in Recipients(m)}
        first == CHOOSE e \in addressed : \A f \in addressed : e = f \/ Before(e, f)
    IN  IF addressed # {} /\ first.dept # 0 THEN first.dept ELSE state[m].home

\* claimRealMessage: the first row with a Message-ID settles the route of them all.
Claimed(m) ==
    LET i == letter[m].id
    IN  IF claim[i].winner = -1 THEN [winner |-> m, text |-> letter[m].text, dept |-> Route(m)]
        ELSE claim[i]

Identify(m) ==
    LET i == letter[m].id
        c == IF i = 0 THEN [winner |-> m, text |-> letter[m].text, dept |-> Route(m)] ELSE Claimed(m)
    IN  /\ At(m, "route")
        /\ claim' = IF i = 0 THEN claim ELSE [claim EXCEPT ![i] = c]
        /\ state' = [state EXCEPT ![m].dept = c.dept,
                                  ![m].pc = CASE c.text # letter[m].text -> "quarantined"
                                              [] c.winner # m -> "skipped"
                                              [] OTHER -> "owner"]
        /\ UNCHANGED <<letter, seen, Permits, Edited, turns>>

\* persistEffectiveOwner refuses a route without a department, at every attempt.
Owner(m) ==
    /\ At(m, "owner")
    /\ To(m, IF state[m].dept = 0 THEN "parse" ELSE "filter")
    /\ UNCHANGED <<letter, Routing, Permits, Edited, turns>>

\* isLoopMessage
Filter(m) ==
    /\ At(m, "filter")
    /\ To(m, IF letter[m].machine \/ letter[m].from \in own THEN "skipped" ELSE "thread")
    /\ UNCHANGED <<letter, Routing, Permits, Edited, turns>>

\* The ticket that the mail cites, by reference and then by mask, if senderCanReply.
Thread(m) ==
    /\ At(m, "thread")
    /\ To(m, IF letter[m].cites # "nothing" /\ letter[m].from \in people THEN "reply" ELSE "rules")
    /\ UNCHANGED <<letter, Routing, Permits, Edited, turns>>

\* persistEffectiveOwner, then the reply: who takes part may have changed.
Reply(m) ==
    /\ At(m, "reply")
    /\ state' = [state EXCEPT ![m].pc = "processed", ![m].ticket = OldTicket]
    /\ UNCHANGED <<letter, Routing, Permits, Edited, turns>>

\* matchCriterion: a pattern outside the safe subset never matches.
Matches(m, r) == rules[r].on /\ rules[r].safe /\ r \in letter[m].hits

\* The matching rules in their order, up to one that stops.
Applied(m) == {r \in Rule : Matches(m, r) /\ ~\E s \in Rule : s < r /\ Matches(m, s) /\ rules[s].stop}

\* applyParserRules: a later rule overrides the department.
ApplyParserRules(m) ==
    LET routes == {r \in Applied(m) : rules[r].dept # 0}
    IN  /\ At(m, "rules")
        /\ IF \E r \in Applied(m) : rules[r].ignore
           THEN To(m, "skipped")
           ELSE state' = [state EXCEPT
                  ![m].pc = "create",
                  ![m].dept = IF routes = {} THEN @
                              ELSE rules[CHOOSE r \in routes : \A s \in routes : s <= r].dept]
        /\ UNCHANGED <<letter, Routing, Permits, Edited, turns>>

\* createTicket in the department, as its own ticket.
Create(m) ==
    /\ At(m, "create")
    /\ state' = [state EXCEPT ![m].pc = "processed", ![m].ticket = m]
    /\ UNCHANGED <<letter, Routing, Permits, Edited, turns>>

\* A failed call: the row is drained again from its bytes.
Retry(m) ==
    /\ state[m].pc \in {"route", "owner", "filter", "thread", "reply", "rules", "create"}
    /\ Turn /\ To(m, "parse")
    /\ UNCHANGED <<letter, Routing, Permits, Edited>>
--------------------------------------------------------------------------------
(* The operators, and the timer of the process.                            *)

EditQueue ==
    /\ Turn
    /\ \E q \in Mailbox, c \in Config : config' = [config EXCEPT ![q] = c]
    /\ UNCHANGED <<own, rules, letter, state, Routing, people, known, Permits>>

\* refreshOwnAddresses; a failed read keeps the addresses.
RefreshOwnAddresses ==
    /\ own' = {q \in Mailbox : config[q].on}
    /\ UNCHANGED <<config, rules, letter, state, Routing, people, known, Permits, turns>>

SwitchRule ==
    /\ Turn
    /\ \E r \in Rule : rules' = [rules EXCEPT ![r].on = ~@]
    /\ UNCHANGED <<config, own, letter, state, Routing, people, known, Permits>>

EditPeople ==
    /\ Turn
    /\ \E p \in Person : people' = (people \cup {p}) \ (people \cap {p})
    /\ known' = known \cup people'
    /\ UNCHANGED <<config, own, rules, letter, state, Routing, Permits>>

Next ==
    \/ EditQueue \/ RefreshOwnAddresses \/ SwitchRule \/ EditPeople
    \/ \E m \in Mail :
         \/ Accept(m) \/ AcquireParserSlot(m) \/ Parse(m) \/ Identify(m) \/ Owner(m) \/ Filter(m)
         \/ Thread(m) \/ Reply(m) \/ ApplyParserRules(m) \/ Create(m) \/ Retry(m)

Spec == Init /\ [][Next]_vars
--------------------------------------------------------------------------------
\* The department that the queues of the acceptance give a mail, whatever is edited
\* since: that of the first addressed queue by priority and id, else of the receiver.
Due(m) ==
    LET addressed == {q \in Recipients(m) : seen[m][q].on}
        first == CHOOSE q \in addressed : \A r \in addressed :
                   \/ q = r \/ seen[m][q].priority < seen[m][r].priority
                   \/ seen[m][q].priority = seen[m][r].priority /\ q < r
    IN  IF seen[m][first].dept # 0 THEN seen[m][first].dept ELSE seen[m][letter[m].via].dept

Winner(m) == IF letter[m].id = 0 THEN m ELSE claim[letter[m].id].winner

\* Until a rule says otherwise a mail has the route that the winner of its Message-ID
\* was due at its acceptance, over edits, retries and copies.
RoutesAreKept ==
    \A m \in Mail : state[m].pc \in {"owner", "filter", "thread", "rules"} =>
        state[m].dept = Due(Winner(m))

\* A mail without its own claim makes no ticket, and only who took part in a ticket
\* at some time writes to it.
StrangersStartAnew ==
    \A m \in Mail : state[m].ticket # -1 =>
        /\ letter[m].id # 0 => claim[letter[m].id].winner = m
        /\ state[m].ticket = OldTicket => letter[m].from \in known

\* A permit for every mail that is parsed, and none is free while a mail waits.
PermitsHold ==
    /\ parsers = Cardinality({m \in Mail : At(m, "parsing")}) /\ parsers <= MaxParsers
    /\ queued # << >> => parsers = MaxParsers
    /\ ToSet(queued) = {m \in Mail : At(m, "waiting")}

\* An accepted mail goes where the configuration of its acceptance sends it.
MailGoesHome == RoutesAreKept /\ StrangersStartAnew /\ PermitsHold
================================================================================
