---------------------------- MODULE InboundLedger ----------------------------
(***************************************************************************)
(* The inbound delivery ledger of InboundMailService: deliveries accepted  *)
(* from IMAP or from the PIPE webhook, the flows of several API processes  *)
(* that claim a delivery under a lease and run the routing pipeline, the   *)
(* logical Message-ID claim that lets one copy of a message through, the   *)
(* operator's replay of a quarantined delivery and the raw-MIME retention. *)
(*                                                                         *)
(* Database transactions are single steps, except the logical claim: its   *)
(* INSERT is held uncommitted while other copies wait for it. Statements   *)
(* read what is committed when they run (READ COMMITTED).                  *)
(***************************************************************************)
EXTENDS Naturals, FiniteSets, Sequences

CONSTANTS
    Delivery,    \* ids of the ledger rows
    Key,         \* idempotency keys of ticket posts: the Message-ID, or one
                 \* derived from the transport identity when there is none
    Thread,      \* the ticket that replies are threaded to
    NoTicket,
    Sem,         \* semantic hashes
    Inboxes,     \* what may arrive: functions from deliveries to mails
    Process,     \* API processes
    Flow,        \* their asynchronous flows: drain loops and PIPE requests
    ProcessOf,
    Drainer,     \* the flows that are drain loops (one of a process)
    NoFlow,
    MaxAttempts, \* TELECOM_HD_INBOUND_MAX_ATTEMPTS
    DrainBatch,  \* rows a drain cycle reads
    MaxReplays,  \* bound: replays of one delivery
    MaxFaults    \* bound: crashes, failed calls, leases lost by a live flow

(* A mail: its key, whether that is a real Message-ID, its semantic hash,  *)
(* and what the pipeline tells apart.                                      *)
Contents == {"mail", "reply", "loop", "rule", "malformed", "truncated"}
Mail == [key: Key, real: BOOLEAN, sem: Sem, content: Contents, pipe: BOOLEAN]

ASSUME DeliveryAssumption == Delivery \subseteq Nat \ {0}
ASSUME TicketAssumption == Thread \notin Key /\ NoTicket \notin Key \cup {Thread}
ASSUME FlowAssumption == /\ ProcessOf \in [Flow -> Process] /\ Drainer \subseteq Flow
                         /\ NoFlow \notin Flow
\* A key of headerless mail is the delivery's own; equal content, equal fate.
ASSUME InboxAssumption ==
    /\ Inboxes \subseteq [Delivery -> Mail]
    /\ \A mail \in Inboxes : \A d, e \in Delivery :
         /\ d # e /\ mail[d].key = mail[e].key => mail[d].real /\ mail[e].real
         /\ mail[d].key = mail[e].key /\ mail[d].sem = mail[e].sem
              => mail[d].content = mail[e].content
ASSUME BoundAssumption == /\ MaxAttempts \in Nat \ {0} /\ DrainBatch \in Nat
                          /\ MaxReplays \in Nat /\ MaxFaults \in Nat

VARIABLES
    mail,      \* the inbox of this behaviour
    ledger,    \* the InboundDelivery table
    claim,     \* the InboundMessageClaim table, by Message-ID
    posts,     \* the deliveries that inserted a ticket post under a key
    work,      \* the flows
    due,       \* the rows a flow has read (or accepted) and not yet processed
    doomed,    \* candidates pruneRawMime has read and not yet written
    nextToken, \* randomUUID(): every claim gets a fresh lease token
    runs,      \* history: times the pipeline identified a delivery since it was
               \* last accepted or replayed
    replays, faults

vars == <<mail, ledger, claim, posts, work, due, doomed, nextToken, runs, replays, faults>>

Ticket   == Key \cup {Thread, NoTicket}
Terminal == {"PROCESSED", "SKIPPED"}
Final    == Terminal \cup {"QUARANTINED"}
States   == Final \cup {"ABSENT", "ACCEPTED", "PROCESSING", "RETRY"}

Row == [state: States, attempts: Nat, retryAt: {"none", "future", "due"},
        token: Nat, lease: {"none", "live", "expired"}, identified: BOOLEAN,
        owner: {"UNRESOLVED", "RECEIVING", "ROUTED"} \cup Ticket, ticket: Ticket, raw: BOOLEAN]

Absent == [state |-> "ABSENT", attempts |-> 0, retryAt |-> "none", token |-> 0,
           lease |-> "none", identified |-> FALSE, owner |-> "UNRESOLVED",
           ticket |-> NoTicket, raw |-> FALSE]

(* open: the flow whose transaction inserted the claim and has not ended.  *)
Claim   == [winner: Delivery \cup {0}, sem: Sem \cup {0}, ticket: Ticket, open: Flow \cup {NoFlow}]
NoClaim == [winner |-> 0, sem |-> 0, ticket |-> NoTicket, open |-> NoFlow]

(* A flow: its delivery and lease token, the attempts it read, the ticket  *)
(* it found or made, the state it will settle, whether its error closes    *)
(* the owner, and the logical claim's winner and ticket as it read them.   *)
Idle == [pc |-> "idle", d |-> 0, token |-> 0, attempts |-> 0, ticket |-> NoTicket,
         target |-> "PROCESSED", unowned |-> FALSE, seen |-> NoClaim]
Pc == {"idle", "claim", "load", "early", "logical", "identify", "headerless", "own",
       "dedup", "address", "post", "ownTicket", "finalize", "settle", "fail"}
FlowState == [pc: Pc, d: Delivery \cup {0}, token: Nat, attempts: Nat, ticket: Ticket,
              target: Final \cup {"RETRY"}, unowned: BOOLEAN, seen: Claim]

TypeOK ==
    /\ mail \in Inboxes
    /\ ledger \in [Delivery -> Row]
    /\ claim \in [Key -> Claim]
    /\ posts \in [Key -> Seq(Delivery)]
    /\ work \in [Flow -> FlowState]
    /\ \A f \in Flow : work[f].pc # "idle" => work[f].d \in Delivery
    /\ due \in [Flow -> SUBSET Delivery]
    /\ doomed \subseteq Delivery
    /\ nextToken \in Nat \ {0}
    /\ runs \in [Delivery -> Nat]
    /\ replays \in [Delivery -> Nat]
    /\ faults \in Nat

Init ==
    /\ mail \in Inboxes
    /\ ledger = [d \in Delivery |-> Absent]
    /\ claim = [k \in Key |-> NoClaim]
    /\ posts = [k \in Key |-> << >>]
    /\ work = [f \in Flow |-> Idle]
    /\ due = [f \in Flow |-> {}]
    /\ doomed = {}
    /\ nextToken = 1
    /\ runs = [d \in Delivery |-> 0]
    /\ replays = [d \in Delivery |-> 0]
    /\ faults = 0

--------------------------------------------------------------------------------
(* Conditions of the WHERE clauses and the shared writes.                  *)

\* Mutant: no reclaim of an expired lease.
ClaimableIfReleased(d) == \/ ledger[d].state = "ACCEPTED"
                          \/ ledger[d].state = "RETRY" /\ ledger[d].retryAt # "future"

Claimable(d) == \/ ledger[d].state = "ACCEPTED"
                \/ ledger[d].state = "RETRY" /\ ledger[d].retryAt # "future"
                \/ ledger[d].state = "PROCESSING" /\ ledger[d].lease = "expired"

\* Mutant: a fence that forgets the token.
FencedByState(f) == ledger[work[f].d].state = "PROCESSING"

\* WHERE state = 'PROCESSING' AND leaseOwner = our token.
Fenced(f) == LET r == ledger[work[f].d]
             IN r.state = "PROCESSING" /\ r.token = work[f].token

InFlight(p, d) == \E f \in Flow : ProcessOf[f] = p /\ work[f].pc # "idle" /\ work[f].d = d

My(f) == mail[work[f].d]

\* The ticket a mail ends in: a reply joins its thread, another opens its own.
TicketFor(d) == IF mail[d].content = "reply" THEN Thread ELSE mail[d].key

Goto(f, pc) == work' = [work EXCEPT ![f].pc = pc]

\* The pipeline throws; the catch block decides between RETRY and QUARANTINED.
Fail(f, permanent, unowned) ==
    work' = [work EXCEPT ![f].pc = "fail", ![f].unowned = unowned,
                         ![f].target = IF permanent \/ work[f].attempts >= MaxAttempts
                                       THEN "QUARANTINED" ELSE "RETRY"]

Outcome(f, state, ticket, pc) ==
    work' = [work EXCEPT ![f].pc = pc, ![f].target = state, ![f].ticket = ticket]

\* persistEffectiveOwner: a write fenced by the lease, or an error.
PersistEffectiveOwner(f, owner, preserveTicket) ==
    ledger' = [ledger EXCEPT ![work[f].d].owner =
                 IF preserveTicket /\ @ \in Ticket THEN @ ELSE owner]

--------------------------------------------------------------------------------
(* Acceptance.                                                             *)

Accepted == [Absent EXCEPT !.state = "ACCEPTED", !.raw = TRUE]

\* A fetch cut off at the size ceiling is quarantined at once.
AcceptedTruncated == [Accepted EXCEPT !.state = "QUARANTINED", !.owner = "RECEIVING"]

\* The IMAP poller accepts a delivery.
Accept(d) ==
    /\ ledger[d].state = "ABSENT" /\ ~mail[d].pipe
    /\ ledger' = [ledger EXCEPT ![d] = IF mail[d].content = "truncated"
                                        THEN AcceptedTruncated ELSE Accepted]
    /\ UNCHANGED <<mail, claim, posts, work, due, doomed, nextToken, runs, replays, faults>>

\* A PIPE request accepts a delivery that it will process in line.
IngestRawMessage(f, d) ==
    /\ f \notin Drainer /\ work[f].pc = "idle" /\ due[f] = {}
    /\ ledger[d].state = "ABSENT" /\ mail[d].pipe
    /\ ledger' = [ledger EXCEPT ![d] = Accepted]
    /\ due' = [due EXCEPT ![f] = {d}]
    /\ UNCHANGED <<mail, claim, posts, work, doomed, nextToken, runs, replays, faults>>

--------------------------------------------------------------------------------
(* The drain.                                                              *)

\* The DrainBatch lowest ids of a set of rows.
Lowest(S) == {d \in S : Cardinality({e \in S : e < d}) < DrainBatch}

DrainReads(f) ==
    /\ f \in Drainer /\ work[f].pc = "idle" /\ due[f] = {}
    /\ \E d \in Delivery : Claimable(d)
    /\ due' = [due EXCEPT ![f] = Lowest({d \in Delivery : Claimable(d)})]
    /\ UNCHANGED <<mail, ledger, claim, posts, work, doomed, nextToken, runs, replays, faults>>

\* The next row of the flow, unless this process is already at it.
ProcessDelivery(f) ==
    /\ work[f].pc = "idle"
    /\ \E d \in due[f] :
         /\ \A e \in due[f] : d <= e
         /\ due' = [due EXCEPT ![f] = @ \ {d}]
         /\ work' = IF InFlight(ProcessOf[f], d) THEN work
                    ELSE [work EXCEPT ![f] = [Idle EXCEPT !.pc = "claim", !.d = d]]
    /\ UNCHANGED <<mail, ledger, claim, posts, doomed, nextToken, runs, replays, faults>>

\* Mutant: the attempt is not counted by the claim.
LeasedUncounted(r) == [r EXCEPT !.state = "PROCESSING", !.token = nextToken, !.lease = "live"]

\* The claim: a compare-and-set that also spends an attempt.
Leased(r) == [r EXCEPT !.state = "PROCESSING", !.token = nextToken, !.lease = "live",
                       !.attempts = r.attempts + 1]

ClaimDelivery(f) ==
    /\ work[f].pc = "claim"
    /\ LET d == work[f].d IN
         IF Claimable(d)
         THEN /\ ledger' = [ledger EXCEPT ![d] = Leased(ledger[d])]
              /\ nextToken' = nextToken + 1
              /\ work' = [work EXCEPT ![f].pc = "load", ![f].token = nextToken]
         ELSE /\ work' = [work EXCEPT ![f] = Idle]
              /\ UNCHANGED <<ledger, nextToken>>
    /\ UNCHANGED <<mail, claim, posts, due, doomed, runs, replays, faults>>

\* Reads the row (whoever holds it by now), applies the budget, parses.
Load(f) ==
    /\ work[f].pc = "load"
    /\ LET r == ledger[work[f].d]
           early == My(f).content = "truncated" \/ r.attempts > MaxAttempts \/ ~r.raw
           broken == My(f).content = "malformed"
       IN work' = [work EXCEPT
             ![f].attempts = r.attempts,
             ![f].pc = IF early THEN "early" ELSE IF broken THEN "fail"
                       ELSE IF My(f).real THEN "logical" ELSE "headerless",
             ![f].target = IF early \/ broken THEN "QUARANTINED" ELSE @]
    /\ UNCHANGED <<mail, ledger, claim, posts, due, doomed, nextToken, runs, replays, faults>>

\* The raw storage is unavailable.
RawReadFails(f) ==
    /\ work[f].pc = "load" /\ faults < MaxFaults
    /\ LET r == ledger[work[f].d] IN
         /\ My(f).content # "truncated" /\ r.attempts <= MaxAttempts /\ r.raw
         /\ work' = [work EXCEPT ![f].pc = "early", ![f].attempts = r.attempts,
                       ![f].target = IF r.attempts >= MaxAttempts THEN "QUARANTINED" ELSE "RETRY"]
    /\ faults' = faults + 1
    /\ UNCHANGED <<mail, ledger, claim, posts, due, doomed, nextToken, runs, replays>>

--------------------------------------------------------------------------------
(* The logical claim. INSERT .. ON CONFLICT DO NOTHING waits for an        *)
(* uncommitted insert of the same key; the SELECT that follows reads what  *)
(* is committed by then, or the transaction's own row.                     *)

ReadClaim(f) ==
    LET k == My(f).key
        c == IF claim[k].winner = 0
             THEN [winner |-> work[f].d, sem |-> My(f).sem, ticket |-> NoTicket, open |-> f]
             ELSE claim[k]
    IN /\ work[f].pc = "logical"
       /\ claim[k].open = NoFlow
       /\ claim' = [claim EXCEPT ![k] = c]
       /\ work' = [work EXCEPT ![f].pc = "identify", ![f].seen = c]
       /\ UNCHANGED <<mail, ledger, posts, due, doomed, nextToken, runs, replays, faults>>

\* recordDeliveryIdentity, fenced by the lease; counts a run of the pipeline.
RecordIdentity(f) ==
    /\ ledger' = [ledger EXCEPT ![work[f].d].identified = TRUE]
    /\ runs' = [runs EXCEPT ![work[f].d] = @ + 1]

\* The claims once the transaction of flow f has ended.
Committed(f)  == [k \in Key |-> IF claim[k].open = f THEN [claim[k] EXCEPT !.open = NoFlow]
                                ELSE claim[k]]
RolledBack(f) == [k \in Key |-> IF claim[k].open = f THEN NoClaim ELSE claim[k]]

\* Mutant: the content of the earlier message does not matter.
AnyContent(f) == work[f].seen.winner # 0

SameMessage(f) == work[f].seen.sem = My(f).sem

\* The rest of claimRealMessage and what processRawMessage makes of its result.
RecordLogicalClaim(f) ==
    LET c == work[f].seen
        duplicate == c.winner # work[f].d
    IN /\ work[f].pc = "identify" /\ Fenced(f)
       /\ RecordIdentity(f)
       /\ claim' = Committed(f)
       /\ IF ~SameMessage(f)
          THEN Fail(f, TRUE, FALSE)
          ELSE IF ~duplicate THEN Goto(f, "own")
          ELSE Outcome(f, "SKIPPED", c.ticket,
                       IF c.ticket = NoTicket THEN "settle" ELSE "ownTicket")
       /\ UNCHANGED <<mail, posts, due, doomed, nextToken, replays, faults>>

RecordHeaderlessDelivery(f) ==
    /\ work[f].pc = "headerless" /\ Fenced(f)
    /\ RecordIdentity(f)
    /\ Goto(f, "own")
    /\ UNCHANGED <<mail, claim, posts, due, doomed, nextToken, replays, faults>>

\* A fenced write finds the lease gone: the transaction rolls back.
IdentityLost(f) ==
    /\ work[f].pc \in {"identify", "headerless"} /\ ~Fenced(f)
    /\ claim' = RolledBack(f)
    /\ Fail(f, FALSE, TRUE)
    /\ UNCHANGED <<mail, ledger, posts, due, doomed, nextToken, runs, replays, faults>>

--------------------------------------------------------------------------------
(* Routing.                                                                *)

\* The deterministic route owns the delivery; machine mail stops here.
OwnRoute(f) ==
    /\ work[f].pc = "own" /\ Fenced(f)
    /\ PersistEffectiveOwner(f, "ROUTED", TRUE)
    /\ IF My(f).content = "loop" THEN Outcome(f, "SKIPPED", NoTicket, "settle")
                                 ELSE Goto(f, "dedup")
    /\ UNCHANGED <<mail, claim, posts, due, doomed, nextToken, runs, replays, faults>>

\* A post under the key proves that the message was ingested before.
Dedup(f) ==
    LET p == posts[My(f).key]
    IN /\ work[f].pc = "dedup"
       /\ IF p # << >> THEN Outcome(f, "SKIPPED", TicketFor(p[1]), "ownTicket")
          ELSE IF My(f).content = "rule" THEN Outcome(f, "SKIPPED", NoTicket, "settle")
          ELSE Goto(f, "address")
       /\ UNCHANGED <<mail, ledger, claim, posts, due, doomed, nextToken, runs, replays, faults>>

\* Before the ticket is touched: the thread's ticket, or the final department.
Address(f) ==
    /\ work[f].pc = "address" /\ Fenced(f)
    /\ PersistEffectiveOwner(f, IF My(f).content = "reply" THEN Thread ELSE "ROUTED", FALSE)
    /\ Goto(f, "post")
    /\ UNCHANGED <<mail, claim, posts, due, doomed, nextToken, runs, replays, faults>>

\* Mutant: no unique index, only the earlier look for a post.
InsertPostUnchecked(f) == posts' = [posts EXCEPT ![My(f).key] = Append(@, work[f].d)]

\* TicketsService.reply or createTicket: not fenced by the lease; the unique
\* index on inboundMessageId decides, and a loser returns the winner's ticket.
InsertPost(f) ==
    LET k == My(f).key
    IN posts' = IF posts[k] = << >> THEN [posts EXCEPT ![k] = <<work[f].d>>] ELSE posts

Post(f) ==
    /\ work[f].pc = "post"
    /\ InsertPost(f)
    /\ Outcome(f, "PROCESSED", TicketFor(posts'[My(f).key][1]),
               IF My(f).content = "reply" THEN "finalize" ELSE "ownTicket")
    /\ UNCHANGED <<mail, ledger, claim, due, doomed, nextToken, runs, replays, faults>>

\* The ticket commits, the answer is lost.
PostAnswerLost(f) ==
    /\ work[f].pc = "post" /\ faults < MaxFaults
    /\ InsertPost(f)
    /\ Fail(f, FALSE, FALSE)
    /\ faults' = faults + 1
    /\ UNCHANGED <<mail, ledger, claim, due, doomed, nextToken, runs, replays>>

OwnTicket(f) ==
    /\ work[f].pc = "ownTicket" /\ Fenced(f)
    /\ PersistEffectiveOwner(f, work[f].ticket, FALSE)
    /\ Goto(f, IF work[f].seen.winner \in {0, work[f].d} THEN "finalize" ELSE "settle")
    /\ UNCHANGED <<mail, claim, posts, due, doomed, nextToken, runs, replays, faults>>

\* A fenced owner write finds the lease gone.
OwnerLost(f) ==
    /\ work[f].pc \in {"own", "address", "ownTicket"} /\ ~Fenced(f)
    /\ Fail(f, FALSE, TRUE)
    /\ UNCHANGED <<mail, ledger, claim, posts, due, doomed, nextToken, runs, replays, faults>>

\* Mutant: the claim is left without its ticket.
FinalizeForgotten(f) ==
    /\ work[f].pc = "finalize"
    /\ Goto(f, "settle")
    /\ UNCHANGED <<mail, ledger, claim, posts, due, doomed, nextToken, runs, replays, faults>>

\* finalize: the winner's claim gets the ticket, and so do all the deliveries
\* identified as the same message. Headerless mail has no claim.
Finalize(f) ==
    LET d == work[f].d
        k == My(f).key
        t == work[f].ticket
    IN /\ work[f].pc = "finalize"
       /\ IF My(f).real
          THEN /\ claim' = [claim EXCEPT ![k].ticket = t]
               /\ ledger' = [e \in Delivery |->
                    IF ledger[e].identified /\ mail[e].key = k /\ mail[e].sem = My(f).sem
                    THEN [ledger[e] EXCEPT !.owner = t] ELSE ledger[e]]
          ELSE UNCHANGED <<claim, ledger>>
       /\ Goto(f, "settle")
       /\ UNCHANGED <<mail, posts, due, doomed, nextToken, runs, replays, faults>>

--------------------------------------------------------------------------------
(* Settling.                                                               *)

SettledRow(f, r) ==
    LET s == work[f].target
        closed == [r EXCEPT !.state = s, !.token = 0, !.lease = "none"]
    IN IF s \in Terminal
       THEN [closed EXCEPT !.ticket = work[f].ticket,
                           !.owner = IF work[f].ticket = NoTicket THEN r.owner ELSE work[f].ticket]
       ELSE [closed EXCEPT !.retryAt = IF s = "RETRY" THEN "future" ELSE r.retryAt,
                           !.owner = IF work[f].unowned THEN "UNRESOLVED" ELSE r.owner]

\* Mutant: the terminal write is not fenced.
SettleRowUnfenced(f) == ledger' = [ledger EXCEPT ![work[f].d] = SettledRow(f, ledger[work[f].d])]

SettleRow(f) ==
    ledger' = IF Fenced(f) THEN [ledger EXCEPT ![work[f].d] = SettledRow(f, ledger[work[f].d])] ELSE ledger

\* Mutant: the flow forgets its delivery but goes on.
SettleKeepingPc(f) ==
    /\ work[f].pc \in {"early", "settle", "fail"}
    /\ SettleRow(f)
    /\ work' = [work EXCEPT ![f] = [Idle EXCEPT !.pc = "fail"]]
    /\ UNCHANGED <<mail, claim, posts, due, doomed, nextToken, runs, replays, faults>>

Settle(f) ==
    /\ work[f].pc \in {"early", "settle", "fail"}
    /\ SettleRow(f)
    /\ work' = [work EXCEPT ![f] = Idle]
    /\ UNCHANGED <<mail, claim, posts, due, doomed, nextToken, runs, replays, faults>>

\* The terminal write commits, its answer is lost: the catch block runs.
SettleAnswerLost(f) ==
    /\ work[f].pc = "settle" /\ faults < MaxFaults
    /\ SettleRow(f)
    /\ Fail(f, FALSE, FALSE)
    /\ faults' = faults + 1
    /\ UNCHANGED <<mail, claim, posts, due, doomed, nextToken, runs, replays>>

\* Inside the try block a failed call is caught ...
Throws(f) ==
    /\ work[f].pc \in Pc \ {"idle", "claim", "load", "early", "fail"} /\ faults < MaxFaults
    /\ claim' = RolledBack(f)
    /\ \E permanent \in IF work[f].pc = "post" THEN BOOLEAN ELSE {FALSE} :
         Fail(f, permanent, FALSE)
    /\ faults' = faults + 1
    /\ UNCHANGED <<mail, ledger, posts, due, doomed, nextToken, runs, replays>>

\* ... outside it ends the flow, and with it the rest of the drain cycle.
FlowDies(f) ==
    /\ work[f].pc \in {"claim", "load", "early", "fail"} /\ faults < MaxFaults
    /\ work' = [work EXCEPT ![f] = Idle]
    /\ due' = [due EXCEPT ![f] = {}]
    /\ faults' = faults + 1
    /\ UNCHANGED <<mail, ledger, claim, posts, doomed, nextToken, runs, replays>>

--------------------------------------------------------------------------------
(* Time, crashes, the operator and retention.                              *)

HeldByFlow(d) == \E f \in Flow : work[f].pc # "idle" /\ work[f].d = d
                                 /\ work[f].token = ledger[d].token

\* The lease of a dead flow runs out; a live one loses it only by a fault
\* (its heartbeats fail or its event loop stalls).
LeaseExpires(d) ==
    /\ ledger[d].lease = "live"
    /\ HeldByFlow(d) => faults < MaxFaults
    /\ faults' = IF HeldByFlow(d) THEN faults + 1 ELSE faults
    /\ ledger' = [ledger EXCEPT ![d].lease = "expired"]
    /\ UNCHANGED <<mail, claim, posts, work, due, doomed, nextToken, runs, replays>>

Heartbeat(f) ==
    /\ work[f].pc \notin {"idle", "claim", "load", "early"} /\ Fenced(f)
    /\ ledger[work[f].d].lease = "expired"
    /\ ledger' = [ledger EXCEPT ![work[f].d].lease = "live"]
    /\ UNCHANGED <<mail, claim, posts, work, due, doomed, nextToken, runs, replays, faults>>

RetryBecomesDue(d) ==
    /\ ledger[d].state = "RETRY" /\ ledger[d].retryAt = "future"
    /\ ledger' = [ledger EXCEPT ![d].retryAt = "due"]
    /\ UNCHANGED <<mail, claim, posts, work, due, doomed, nextToken, runs, replays, faults>>

Crash(p) ==
    LET dead == {f \in Flow : ProcessOf[f] = p}
    IN /\ faults < MaxFaults
       /\ \E f \in dead : work[f].pc # "idle"
       /\ work' = [f \in Flow |-> IF f \in dead THEN Idle ELSE work[f]]
       /\ due' = [f \in Flow |-> IF f \in dead THEN {} ELSE due[f]]
       /\ claim' = [k \in Key |-> IF claim[k].open \in dead THEN NoClaim ELSE claim[k]]
       /\ faults' = faults + 1
       /\ UNCHANGED <<mail, ledger, posts, doomed, nextToken, runs, replays>>

ReplayQuarantined(d) ==
    /\ ledger[d].state = "QUARANTINED" /\ mail[d].content # "truncated"
    /\ replays[d] < MaxReplays
    /\ ledger' = [ledger EXCEPT ![d] = [@ EXCEPT
                    !.state = "ACCEPTED", !.attempts = 0, !.retryAt = "none",
                    !.token = 0, !.lease = "none"]]
    /\ replays' = [replays EXCEPT ![d] = @ + 1]
    /\ runs' = [runs EXCEPT ![d] = 0]
    /\ UNCHANGED <<mail, claim, posts, work, due, doomed, nextToken, faults>>

\* pruneRawMime: select the candidates, then clear them by id.
\* Mutant: quarantined deliveries count as finished.
PrunableIfFinal(d) == ledger[d].state \in Final /\ ledger[d].raw

Prunable(d) == ledger[d].state \in Terminal /\ ledger[d].raw

PruneSelects ==
    /\ doomed = {}
    /\ \E S \in SUBSET {d \in Delivery : Prunable(d)} : S # {} /\ doomed' = S
    /\ UNCHANGED <<mail, ledger, claim, posts, work, due, nextToken, runs, replays, faults>>

PruneWrites ==
    /\ doomed # {}
    /\ ledger' = [d \in Delivery |-> IF d \in doomed THEN [ledger[d] EXCEPT !.raw = FALSE]
                                     ELSE ledger[d]]
    /\ doomed' = {}
    /\ UNCHANGED <<mail, claim, posts, work, due, nextToken, runs, replays, faults>>

--------------------------------------------------------------------------------
\* What a flow does without a fault once it has a delivery.
FlowStep(f) ==
    \/ ClaimDelivery(f) \/ Load(f) \/ ReadClaim(f) \/ RecordLogicalClaim(f)
    \/ RecordHeaderlessDelivery(f) \/ IdentityLost(f) \/ OwnRoute(f) \/ Dedup(f)
    \/ Address(f) \/ Post(f) \/ OwnTicket(f) \/ OwnerLost(f) \/ Finalize(f) \/ Settle(f)

Next ==
    \/ \E f \in Flow : \/ FlowStep(f) \/ DrainReads(f) \/ ProcessDelivery(f)
                       \/ RawReadFails(f) \/ PostAnswerLost(f) \/ SettleAnswerLost(f)
                       \/ Throws(f) \/ FlowDies(f) \/ Heartbeat(f)
                       \/ \E d \in Delivery : IngestRawMessage(f, d)
    \/ \E d \in Delivery : \/ Accept(d) \/ LeaseExpires(d) \/ RetryBecomesDue(d)
                           \/ ReplayQuarantined(d)
    \/ \E p \in Process : Crash(p)
    \/ PruneSelects \/ PruneWrites

Spec == Init /\ [][Next]_vars

(* The event loop runs every flow on; the drain interval of every process  *)
(* fires again and again; clocks advance.                                  *)
Fairness ==
    /\ \A f \in Flow : WF_vars(FlowStep(f)) /\ WF_vars(DrainReads(f)) /\ WF_vars(ProcessDelivery(f))
    /\ \A d \in Delivery : /\ WF_vars(LeaseExpires(d) /\ faults' = faults)
                           /\ WF_vars(RetryBecomesDue(d))

FairSpec == Spec /\ Fairness
--------------------------------------------------------------------------------
(* Properties.                                                             *)

Wanted(d) == mail[d].content \in {"mail", "reply"}

\* One message makes one post, whatever copies, retries, stalled and late flows
\* there are, and only the delivery that won its logical claim makes it
\* (claimRealMessage, the unique index on TicketPost.inboundMessageId).
OneTicketPerMessage ==
    \A k \in Key :
        /\ Len(posts[k]) <= 1
        /\ \A i \in DOMAIN posts[k] : LET d == posts[k][i]
             IN mail[d].real => claim[k].winner = d /\ claim[k].sem = mail[d].sem

\* A wanted message is never settled away: it has a post of the same content,
\* or the delivery that answers for it is still in the ledger, unfinished or
\* quarantined with its raw MIME ("a message is never lost, discarded").
NoSilentLoss ==
    \A d \in Delivery : Wanted(d) /\ ledger[d].state \in Terminal =>
        LET w == claim[mail[d].key].winner
        IN \/ \E i \in DOMAIN posts[mail[d].key] :
                mail[posts[mail[d].key][i]].sem = mail[d].sem
           \/ /\ mail[d].real /\ w # 0 /\ mail[w].sem = mail[d].sem
              /\ ledger[w].state \notin Terminal /\ ledger[w].raw

\* What is settled with a ticket belongs to it, and so does its claim: no flow
\* settles before its winner's claim is finalized.
LedgerAgreesWithClaim ==
    \A d \in Delivery : ledger[d].state \in Terminal /\ ledger[d].ticket # NoTicket =>
        /\ ledger[d].owner = ledger[d].ticket
        /\ mail[d].real => claim[mail[d].key].ticket = ledger[d].ticket

\* Retention takes the raw MIME of finished deliveries only: what can still be
\* processed or replayed keeps its bytes, though the candidates are written by
\* id long after they were read.
ReplayableKeepsRaw ==
    \A d \in Delivery : ledger[d].state \notin Terminal \cup {"ABSENT"} => ledger[d].raw

\* However its flows die or stall, a delivery runs through the pipeline at most
\* MaxAttempts times before an operator has to look at it.
PoisonBudget == \A d \in Delivery : runs[d] <= MaxAttempts

\* The ledger as the record of what was received: a wanted message has its post or
\* an unfinished row that answers for it, and that row has the bytes to work from.
NothingIsLost == NoSilentLoss /\ ReplayableKeepsRaw

\* A row under a live lease is moved only by the claim that holds it: a flow
\* that lost its lease never settles, retries or identifies the delivery of
\* the flow that took over.
HolderMoves(d) == \E f \in Flow : /\ work[f].d = d /\ work[f].token = ledger[d].token
                                  /\ work'[f] # work[f]
LiveLeaseIsExclusive ==
    [][\A d \in Delivery :
          ledger[d].lease = "live" /\ ~HolderMoves(d) =>
             \A c \in {"state", "attempts", "token", "identified", "ticket", "retryAt"} :
                ledger'[d][c] = ledger[d][c]]_vars

\* PROCESSED and SKIPPED are final.
SettledIsFinal ==
    [][\A d \in Delivery : ledger[d].state \in Terminal =>
          ledger'[d].state = ledger[d].state /\ ledger'[d].ticket = ledger[d].ticket]_vars

\* Who moves a row: the holder of its lease while that lives, and nobody once the row
\* is settled, however late the flows are that still work on it.
OnlyTheHolderMoves == LiveLeaseIsExclusive /\ SettledIsFinal

\* Every accepted delivery is processed, skipped or quarantined, also when its
\* flow crashes or stalls ("never stranded in PROCESSING").
EventuallySettled ==
    \A d \in Delivery : ledger[d].state = "ACCEPTED" ~> ledger[d].state \in Final
--------------------------------------------------------------------------------
(* What holds between any two steps: why the properties above hold.        *)

\* A token is given out once, and a row under a lease has the token of the one
\* flow that holds it, if that flow still lives.
TokensUnique ==
    /\ \A d \in Delivery : /\ ledger[d].token < nextToken
                           /\ (ledger[d].state = "PROCESSING") = (ledger[d].token # 0)
                           /\ (ledger[d].state = "PROCESSING") = (ledger[d].lease # "none")
    /\ \A f \in Flow : /\ work[f].token < nextToken
                       /\ (work[f].token = 0) = (work[f].pc \in {"idle", "claim"})
                       /\ \A g \in Flow : work[f].token # 0 /\ work[f].token = work[g].token => f = g
                       /\ \A d \in Delivery : work[f].token # 0 /\ work[f].token = ledger[d].token
                                                => work[f].d = d

\* A claim pays for the run of the pipeline that follows it, and no run starts
\* on a delivery that has spent its attempts.
AttemptsPaid ==
    /\ \A d \in Delivery : /\ runs[d] <= ledger[d].attempts
                           /\ ledger[d].state = "ABSENT" => runs[d] = 0
    /\ \A f \in Flow : /\ work[f].pc \in {"load", "logical", "identify", "headerless"}
                       /\ Fenced(f)
                       => /\ runs[work[f].d] < ledger[work[f].d].attempts
                          /\ work[f].pc # "load" => ledger[work[f].d].attempts <= MaxAttempts

\* Flows work on rows that exist, retention on rows that are finished.
RowsExist ==
    /\ \A f \in Flow : /\ work[f].pc # "idle" => ledger[work[f].d].state # "ABSENT"
                       /\ \A d \in due[f] : ledger[d].state # "ABSENT"
    /\ \A d \in doomed : ledger[d].state \in Terminal

\* A claim belongs to a message of its key that was received; until its
\* transaction ends only one flow, which is about to identify it, has it.
Claims ==
    \A k \in Key :
        LET c == claim[k] IN
        /\ c.winner = 0 => c = NoClaim
        /\ c.winner # 0 => /\ mail[c.winner].key = k /\ mail[c.winner].real
                           /\ c.sem = mail[c.winner].sem
                           /\ ledger[c.winner].state # "ABSENT"
        /\ c.open # NoFlow => /\ work[c.open].pc = "identify" /\ work[c.open].d = c.winner
                              /\ c.ticket = NoTicket

\* What a flow has seen of its message's claim is still so, and nobody but the
\* winner is on its way to a ticket.
Routing == {"own", "dedup", "address", "post"}
Ending  == {"ownTicket", "finalize", "settle"}
SeenHolds ==
    \A f \in Flow :
        LET c == claim[My(f).key]
            s == work[f].seen
        IN /\ work[f].pc \in {"logical", "identify"} => My(f).real
           /\ work[f].pc = "headerless" => ~My(f).real
           /\ work[f].pc \in {"identify"} \cup Routing \cup Ending /\ My(f).real
                => /\ s.winner # 0 /\ c.winner = s.winner /\ c.sem = s.sem
                   /\ s.ticket # NoTicket => c.ticket # NoTicket
           /\ work[f].pc = "identify" => c.open \in {NoFlow, f}
           /\ work[f].pc \in Routing \cup Ending /\ My(f).real
                => c.open = NoFlow /\ s.sem = My(f).sem
           /\ work[f].pc \in Routing /\ My(f).real => s.winner = work[f].d

\* The post under a key is its claim winner's, whose claim is committed.
PostsOfWinners ==
    \A k \in Key : posts[k] # << >> =>
        \E d \in Delivery : /\ posts[k] = <<d>> /\ mail[d].key = k
                            /\ mail[d].real => claim[k].winner = d /\ claim[k].open = NoFlow

\* Every ticket that a row, a claim or a flow knows for a message is the one
\* that its post is in.
Agreed(t, k) == t # NoTicket => posts[k] # << >> /\ t = TicketFor(posts[k][1])
TicketsAgree ==
    /\ \A k \in Key : Agreed(claim[k].ticket, k)
    /\ \A d \in Delivery : Agreed(ledger[d].ticket, mail[d].key)
    /\ \A f \in Flow : work[f].pc # "idle" =>
         /\ Agreed(work[f].ticket, My(f).key) /\ Agreed(work[f].seen.ticket, My(f).key)
         /\ work[f].pc \in {"ownTicket", "finalize"} => work[f].ticket # NoTicket
         /\ work[f].pc \in {"ownTicket", "settle"} /\ work[f].ticket # NoTicket /\ My(f).real
              => \/ claim[My(f).key].ticket # NoTicket
                 \/ work[f].pc = "ownTicket" /\ work[f].seen.winner = work[f].d
    /\ LedgerAgreesWithClaim

\* A flow ends a wanted message when it has its post, or another delivery of the
\* same message answers for it; every settled message stays accounted for.
HasPost(d) == /\ posts[mail[d].key] # << >>
              /\ mail[posts[mail[d].key][1]].sem = mail[d].sem
AnsweredBy(d, w) == /\ mail[d].real /\ w # 0 /\ mail[w].sem = mail[d].sem
                    /\ ledger[w].state \notin Terminal
Accounted ==
    /\ \A f \in Flow :
         /\ work[f].pc \in Ending =>
              /\ work[f].target \in Terminal
              /\ Wanted(work[f].d) => \/ HasPost(work[f].d)
                                      \/ My(f).real /\ work[f].seen.winner # work[f].d
         /\ work[f].pc \in {"early", "fail"} => work[f].target \notin Terminal
    /\ \A d \in Delivery : Wanted(d) /\ ledger[d].state \in Terminal =>
         \/ HasPost(d)
         \/ /\ claim[mail[d].key].open = NoFlow
            /\ AnsweredBy(d, claim[mail[d].key].winner)

\* What rows, leases, claims, posts and flows say of each other at any time.
LedgerInv ==
    /\ TypeOK /\ PoisonBudget
    /\ TokensUnique /\ AttemptsPaid /\ RowsExist /\ ReplayableKeepsRaw
    /\ Claims /\ SeenHolds /\ PostsOfWinners /\ TicketsAgree /\ Accounted

================================================================================
