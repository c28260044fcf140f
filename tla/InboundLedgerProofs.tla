-------------------------- MODULE InboundLedgerProofs --------------------------
(***************************************************************************)
(* Theorems about the inbound delivery ledger, for every set of            *)
(* deliveries, processes and flows and every bound: its invariant, one     *)
(* ticket per message, no silent loss, and who moves a row.                *)
(***************************************************************************)
EXTENDS InboundLedger, TLAPS

(* The tables and the flows, each with its part of TypeOK.                 *)
LedgerOK == ledger \in [Delivery -> Row]
ClaimOK  == claim \in [Key -> Claim]
PostsOK  == posts \in [Key -> Seq(Delivery)]
WorkOK   == /\ work \in [Flow -> FlowState]
            /\ \A f \in Flow : work[f].pc # "idle" => work[f].d \in Delivery
CountsOK == /\ mail \in Inboxes /\ due \in [Flow -> SUBSET Delivery] /\ doomed \subseteq Delivery
            /\ nextToken \in Nat \ {0} /\ runs \in [Delivery -> Nat]
            /\ replays \in [Delivery -> Nat] /\ faults \in Nat

LEMMA TypeParts ==
    /\ TypeOK <=> LedgerOK /\ ClaimOK /\ PostsOK /\ WorkOK /\ CountsOK
    /\ TypeOK' <=> LedgerOK' /\ ClaimOK' /\ PostsOK' /\ WorkOK' /\ CountsOK'
  BY DEF TypeOK, LedgerOK, ClaimOK, PostsOK, WorkOK, CountsOK

(* Zero is no delivery, and a mail has a key and a ticket.                 *)
LEMMA MailType ==
    ASSUME TypeOK, NEW d \in Delivery
    PROVE  /\ d \in Nat /\ d # 0 /\ mail[d] \in Mail /\ mail[d].key \in Key
           /\ mail[d].real \in BOOLEAN /\ mail[d].sem \in Sem /\ mail[d].content \in Contents
           /\ TicketFor(d) \in Ticket /\ TicketFor(d) # NoTicket
  <1>1. mail \in [Delivery -> Mail]
    BY InboxAssumption DEF TypeOK
  <1>2. mail[d] \in Mail
    BY <1>1
  <1>3. d \in Nat /\ d # 0
    BY DeliveryAssumption
  <1>4. QED
    BY <1>2, <1>3, TicketAssumption DEF Mail, TicketFor, Ticket

LEMMA IdleType == Idle \in FlowState /\ NoClaim \in Claim /\ Absent \in Row
  BY DEF Idle, FlowState, NoClaim, Claim, Absent, Row, Pc, Final, Terminal, Ticket, States

(* What a step of one flow does to the flows.                              *)
LEMMA FlowMoves ==
    ASSUME TypeOK, NEW f \in Flow, NEW s \in FlowState, s.pc # "idle" => s.d \in Delivery,
           work' = [work EXCEPT ![f] = s]
    PROVE  WorkOK' /\ work'[f] = s /\ \A g \in Flow \ {f} : work'[g] = work[g]
  BY DEF TypeOK, WorkOK

(* The record a flow becomes, whatever it did.                             *)
Others(f) == \A g \in Flow \ {f} : work'[g] = work[g]

LEMMA GotoMoves ==
    ASSUME TypeOK, NEW f \in Flow, work[f].pc # "idle", NEW pc \in Pc, Goto(f, pc)
    PROVE  /\ WorkOK' /\ Others(f) /\ work'[f].pc = pc
           /\ work'[f].d = work[f].d /\ work'[f].token = work[f].token
           /\ work'[f].seen = work[f].seen /\ work'[f].ticket = work[f].ticket
           /\ work'[f].target = work[f].target
  <1> DEFINE s == [work[f] EXCEPT !.pc = pc]
  <1>1. work[f] \in FlowState /\ work[f].d \in Delivery
    BY DEF TypeOK
  <1>2. s \in FlowState /\ s.d = work[f].d
    BY <1>1 DEF FlowState
  <1>3. work' = [work EXCEPT ![f] = s]
    BY DEF Goto
  <1>4. work'[f] = s /\ WorkOK' /\ Others(f)
    BY <1>1, <1>2, <1>3, FlowMoves DEF Others
  <1>5. QED
    BY <1>1, <1>4 DEF FlowState

LEMMA OutcomeMoves ==
    ASSUME TypeOK, NEW f \in Flow, work[f].pc # "idle", NEW pc \in Pc,
           NEW state \in Final, NEW ticket \in Ticket, Outcome(f, state, ticket, pc)
    PROVE  /\ WorkOK' /\ Others(f) /\ work'[f].pc = pc
           /\ work'[f].d = work[f].d /\ work'[f].token = work[f].token
           /\ work'[f].seen = work[f].seen /\ work'[f].ticket = ticket
           /\ work'[f].target = state
  <1> DEFINE s == [work[f] EXCEPT !.pc = pc, !.target = state, !.ticket = ticket]
  <1>1. work[f] \in FlowState /\ work[f].d \in Delivery
    BY DEF TypeOK
  <1>2. s \in FlowState /\ s.d = work[f].d
    BY <1>1 DEF FlowState
  <1>3. work' = [work EXCEPT ![f] = s]
    BY DEF Outcome
  <1>4. work'[f] = s /\ WorkOK' /\ Others(f)
    BY <1>1, <1>2, <1>3, FlowMoves DEF Others
  <1>5. QED
    BY <1>1, <1>4 DEF FlowState

LEMMA FailMoves ==
    ASSUME TypeOK, NEW f \in Flow, work[f].pc # "idle",
           NEW permanent \in BOOLEAN, NEW unowned \in BOOLEAN, Fail(f, permanent, unowned)
    PROVE  /\ WorkOK' /\ Others(f) /\ work'[f].pc = "fail"
           /\ work'[f].d = work[f].d /\ work'[f].token = work[f].token
           /\ work'[f].seen = work[f].seen /\ work'[f].ticket = work[f].ticket
           /\ work'[f].target \notin Terminal
  <1> DEFINE target == IF permanent \/ work[f].attempts >= MaxAttempts
                       THEN "QUARANTINED" ELSE "RETRY"
             s == [work[f] EXCEPT !.pc = "fail", !.unowned = unowned, !.target = target]
  <1>1. work[f] \in FlowState /\ work[f].d \in Delivery
    BY DEF TypeOK
  <1>2. target \in {"QUARANTINED", "RETRY"}
    OBVIOUS
  <1> HIDE DEF target
  <1>3. s \in FlowState /\ s.d = work[f].d
    BY <1>1, <1>2 DEF FlowState, Pc, Final
  <1>4. work' = [work EXCEPT ![f] = s]
    BY DEF Fail, target
  <1>5. work'[f] = s /\ WorkOK' /\ Others(f)
    BY <1>1, <1>3, <1>4, FlowMoves DEF Others
  <1>6. QED
    BY <1>1, <1>2, <1>5 DEF FlowState, Terminal

(* The records that are written to the ledger.                             *)
LEMMA RowType ==
    ASSUME NEW r \in Row
    PROVE  /\ \A owner \in {"UNRESOLVED", "RECEIVING", "ROUTED"} \cup Ticket :
                [r EXCEPT !.owner = owner] \in Row
           /\ [r EXCEPT !.identified = TRUE] \in Row
           /\ \A lease \in {"none", "live", "expired"} : [r EXCEPT !.lease = lease] \in Row
           /\ \A at \in {"none", "future", "due"} : [r EXCEPT !.retryAt = at] \in Row
           /\ [r EXCEPT !.raw = FALSE] \in Row
           /\ nextToken \in Nat => Leased(r) \in Row
  <1>1. \A owner \in {"UNRESOLVED", "RECEIVING", "ROUTED"} \cup Ticket :
           [r EXCEPT !.owner = owner] \in Row
    BY DEF Row
  <1>2. [r EXCEPT !.identified = TRUE] \in Row /\ [r EXCEPT !.raw = FALSE] \in Row
    BY DEF Row
  <1>3. /\ \A lease \in {"none", "live", "expired"} : [r EXCEPT !.lease = lease] \in Row
        /\ \A at \in {"none", "future", "due"} : [r EXCEPT !.retryAt = at] \in Row
    BY DEF Row
  <1>4. nextToken \in Nat => Leased(r) \in Row
    <2>1. r.attempts + 1 \in Nat /\ "PROCESSING" \in States
      BY DEF Row, States
    <2>2. \A n, t \in Nat : [r EXCEPT !.state = "PROCESSING", !.token = t, !.lease = "live",
                                      !.attempts = n] \in Row
      BY <2>1 DEF Row
    <2>3. QED
      BY <2>1, <2>2 DEF Leased
  <1>5. QED
    BY <1>1, <1>2, <1>3, <1>4

LEMMA SettledType ==
    ASSUME TypeOK, NEW f \in Flow, NEW r \in Row
    PROVE  SettledRow(f, r) \in Row
  <1>1. /\ work[f].target \in Final \cup {"RETRY"} /\ work[f].ticket \in Ticket
    BY DEF TypeOK, FlowState
  <1> DEFINE closed == [r EXCEPT !.state = work[f].target, !.token = 0, !.lease = "none"]
  <1>2. closed \in Row
    BY <1>1 DEF Row, States
  <1>3. r.owner \in {"UNRESOLVED", "RECEIVING", "ROUTED"} \cup Ticket
        /\ r.retryAt \in {"none", "future", "due"}
    BY DEF Row
  <1> HIDE DEF closed
  <1>4. \A t \in Ticket, o \in {"UNRESOLVED", "RECEIVING", "ROUTED"} \cup Ticket :
           [closed EXCEPT !.ticket = t, !.owner = o] \in Row
    BY <1>2 DEF Row
  <1>5. \A a \in {"none", "future", "due"}, o \in {"UNRESOLVED", "RECEIVING", "ROUTED"} \cup Ticket :
           [closed EXCEPT !.retryAt = a, !.owner = o] \in Row
    BY <1>2 DEF Row
  <1>6. CASE work[f].target \in Terminal
    BY <1>1, <1>3, <1>4, <1>6 DEF SettledRow, closed
  <1>7. CASE work[f].target \notin Terminal
    BY <1>1, <1>3, <1>5, <1>7 DEF SettledRow, closed
  <1>8. QED
    BY <1>6, <1>7
(* Columns that a flow writes to the row of its delivery.                  *)
LEMMA OwnerType ==
    ASSUME TypeOK, NEW f \in Flow, work[f].pc # "idle",
           NEW owner \in {"UNRESOLVED", "RECEIVING", "ROUTED"} \cup Ticket,
           NEW keep \in BOOLEAN, PersistEffectiveOwner(f, owner, keep)
    PROVE  LedgerOK'
  <1> DEFINE d == work[f].d
             o == IF keep /\ ledger[d].owner \in Ticket THEN ledger[d].owner ELSE owner
  <1>1. d \in Delivery /\ ledger \in [Delivery -> Row]
    BY DEF TypeOK
  <1>2. [ledger[d] EXCEPT !.owner = o] \in Row
    BY <1>1, RowType
  <1>3. ledger' = [ledger EXCEPT ![d] = [ledger[d] EXCEPT !.owner = o]]
    BY DEF PersistEffectiveOwner
  <1>4. QED
    BY <1>1, <1>2, <1>3 DEF LedgerOK

LEMMA IdentityType ==
    ASSUME TypeOK, NEW f \in Flow, work[f].pc # "idle", RecordIdentity(f)
    PROVE  LedgerOK' /\ runs' \in [Delivery -> Nat]
  <1>1. work[f].d \in Delivery /\ ledger[work[f].d] \in Row
    BY DEF TypeOK
  <1>2. [ledger[work[f].d] EXCEPT !.identified = TRUE] \in Row
    BY <1>1, RowType
  <1>3. QED
    BY <1>1, <1>2 DEF RecordIdentity, TypeOK, LedgerOK

LEMMA SettleType ==
    ASSUME TypeOK, NEW f \in Flow, work[f].pc # "idle", SettleRow(f)
    PROVE  LedgerOK'
  <1>1. work[f].d \in Delivery /\ ledger[work[f].d] \in Row
    BY DEF TypeOK
  <1>2. SettledRow(f, ledger[work[f].d]) \in Row
    BY <1>1, SettledType
  <1>3. QED
    BY <1>1, <1>2 DEF SettleRow, TypeOK, LedgerOK

(* What happens to the claims when a transaction ends.                     *)
LEMMA ClaimEndType ==
    ASSUME TypeOK, NEW f \in Flow
    PROVE  Committed(f) \in [Key -> Claim] /\ RolledBack(f) \in [Key -> Claim]
  <1>1. \A k \in Key : claim[k] \in Claim /\ [claim[k] EXCEPT !.open = NoFlow] \in Claim
    BY DEF TypeOK, Claim
  <1>2. QED
    BY <1>1, IdleType DEF Committed, RolledBack

LEMMA PostType ==
    ASSUME TypeOK, NEW f \in Flow, work[f].pc # "idle", InsertPost(f)
    PROVE  /\ PostsOK' /\ posts'[My(f).key] # << >>
           /\ TicketFor(posts'[My(f).key][1]) \in Ticket
  <1> DEFINE d == work[f].d
             k == mail[d].key
  <1>1. d \in Delivery /\ posts \in [Key -> Seq(Delivery)]
    BY DEF TypeOK
  <1>2. k \in Key /\ <<d>> \in Seq(Delivery) /\ <<d>> # << >>
    BY <1>1, MailType
  <1>3. PostsOK' /\ posts'[k] # << >>
    BY <1>1, <1>2 DEF InsertPost, PostsOK, My
  <1>4. posts'[k] \in Seq(Delivery)
    BY <1>2, <1>3 DEF PostsOK
  <1>5. posts'[k][1] \in Delivery
    BY <1>3, <1>4
  <1>6. QED
    BY <1>3, <1>5, MailType DEF My

LEMMA InitType == Init => TypeOK
  <1> SUFFICES ASSUME Init PROVE TypeOK
    OBVIOUS
  <1>1. ledger \in [Delivery -> Row] /\ claim \in [Key -> Claim]
    BY IdleType DEF Init
  <1>2. /\ work \in [Flow -> FlowState]
        /\ \A f \in Flow : work[f].pc # "idle" => work[f].d \in Delivery
    BY IdleType DEF Init, Idle
  <1>3. posts \in [Key -> Seq(Delivery)] /\ due \in [Flow -> SUBSET Delivery]
    BY DEF Init
  <1>4. QED
    BY <1>1, <1>2, <1>3 DEF Init, TypeOK

(* The steps that take a flow from its claim to its end.                   *)
LEMMA FlowStepType ==
    ASSUME TypeOK, NEW f \in Flow, FlowStep(f)
    PROVE  TypeOK'
  <1> USE DEF CountsOK, ClaimOK, PostsOK, LedgerOK
  <1>a. /\ LedgerOK /\ ClaimOK /\ PostsOK /\ WorkOK /\ CountsOK
        /\ work[f] \in FlowState /\ work[f].ticket \in Ticket
        /\ work[f].pc # "idle" => work[f].d \in Delivery /\ ledger[work[f].d] \in Row
    BY TypeParts DEF TypeOK, FlowState
  <1>1. CASE ClaimDelivery(f)
    <2>1. CASE Claimable(work[f].d)
      <3>1. Leased(ledger[work[f].d]) \in Row /\ work[f].d \in Delivery
        BY <1>1, <1>a, RowType DEF ClaimDelivery
      <3> DEFINE s == [work[f] EXCEPT !.pc = "load", !.token = nextToken]
      <3>2. s \in FlowState /\ s.d = work[f].d
        BY <1>a DEF FlowState, Pc
      <3>3. work' = [work EXCEPT ![f] = s]
        BY <1>1, <2>1 DEF ClaimDelivery
      <3>4. WorkOK'
        BY <3>1, <3>2, <3>3, FlowMoves
      <3>5. ledger' = [ledger EXCEPT ![work[f].d] = Leased(ledger[work[f].d])]
            /\ nextToken' = nextToken + 1
        BY <1>1, <2>1 DEF ClaimDelivery
      <3>6. LedgerOK' /\ nextToken' \in Nat \ {0}
        BY <1>a, <3>1, <3>5
      <3>7. QED
        BY <1>1, <1>a, <3>4, <3>6, TypeParts DEF ClaimDelivery
    <2>2. CASE ~Claimable(work[f].d)
      <3>1. WorkOK'
        BY <1>1, <2>2, IdleType, FlowMoves DEF ClaimDelivery, Idle
      <3>2. QED
        BY <1>1, <1>a, <2>2, <3>1, TypeParts DEF ClaimDelivery
    <2>3. QED
      BY <2>1, <2>2
  <1>2. CASE Load(f)
    <2>1. work'[f] \in FlowState /\ work'[f].d = work[f].d /\ Others(f)
          /\ work' = [work EXCEPT ![f] = work'[f]]
      <3> DEFINE r == ledger[work[f].d]
      <3>1. r.attempts \in Nat
        BY <1>2, <1>a DEF Load, Row
      <3>2. PICK pc \in Pc, target \in Final \cup {"RETRY"} :
               work' = [work EXCEPT ![f].attempts = r.attempts, ![f].pc = pc, ![f].target = target]
        <4> DEFINE early == My(f).content = "truncated" \/ r.attempts > MaxAttempts \/ ~r.raw
                   broken == My(f).content = "malformed"
                   pc == IF early THEN "early" ELSE IF broken THEN "fail"
                         ELSE IF My(f).real THEN "logical" ELSE "headerless"
                   target == IF early \/ broken THEN "QUARANTINED" ELSE work[f].target
        <4>1. pc \in Pc
          BY DEF Pc
        <4>2. target \in Final \cup {"RETRY"}
          BY <1>a DEF FlowState, Final
        <4>3. work' = [work EXCEPT ![f].attempts = r.attempts, ![f].pc = pc, ![f].target = target]
          BY <1>2, <1>a DEF Load
        <4>4. QED
          BY <4>1, <4>2, <4>3
      <3> DEFINE s == [work[f] EXCEPT !.attempts = r.attempts, !.pc = pc, !.target = target]
      <3>3. s \in FlowState /\ s.d = work[f].d
        BY <1>a, <3>1 DEF FlowState
      <3>4. work' = [work EXCEPT ![f] = s]
        BY <3>2
      <3>5. work'[f] = s /\ Others(f)
        BY <1>2, <1>a, <3>3, <3>4, FlowMoves DEF Others, Load
      <3>6. QED
        BY <3>3, <3>4, <3>5
    <2>2. WorkOK'
      BY <1>2, <1>a, <2>1, FlowMoves DEF Load
    <2>3. QED
      BY <1>2, <1>a, <2>2, TypeParts DEF Load
  <1>3. CASE ReadClaim(f)
    <2> DEFINE k == My(f).key
               c == IF claim[k].winner = 0
                    THEN [winner |-> work[f].d, sem |-> My(f).sem, ticket |-> NoTicket, open |-> f]
                    ELSE claim[k]
    <2>1. k \in Key /\ c \in Claim
      <3>1. k \in Key /\ My(f).sem \in Sem /\ work[f].d \in Delivery
        BY <1>3, <1>a, MailType DEF ReadClaim, My
      <3>2. CASE claim[k].winner = 0
        BY <3>1, <3>2 DEF Claim, Ticket
      <3>3. CASE claim[k].winner # 0
        BY <1>a, <3>1, <3>3
      <3>4. QED
        BY <3>1, <3>2, <3>3
    <2> DEFINE s == [work[f] EXCEPT !.pc = "identify", !.seen = c]
    <2>2. claim' = [claim EXCEPT ![k] = c] /\ work' = [work EXCEPT ![f] = s]
      BY <1>3, <1>a DEF ReadClaim
    <2> HIDE DEF c
    <2>3. s \in FlowState /\ s.d = work[f].d
      BY <1>a, <2>1 DEF FlowState, Pc
    <2>4. ClaimOK'
      BY <1>a, <2>1, <2>2
    <2>5. WorkOK'
      <3>1. work[f].d \in Delivery
        BY <1>3, <1>a DEF ReadClaim
      <3> HIDE DEF s
      <3>2. work' = [work EXCEPT ![f] = s]
        BY <2>2 DEF s
      <3>3. QED
        BY <2>3, <3>1, <3>2, FlowMoves DEF s
    <2>6. QED
      BY <1>3, <1>a, <2>4, <2>5, TypeParts DEF ReadClaim
  <1>4. CASE RecordLogicalClaim(f)
    <2>1. LedgerOK' /\ runs' \in [Delivery -> Nat] /\ ClaimOK'
      BY <1>4, IdentityType, ClaimEndType DEF RecordLogicalClaim
    <2>2. WorkOK'
      <3>1. work[f].seen.ticket \in Ticket
        BY <1>a DEF FlowState, Claim
      <3>2. CASE ~SameMessage(f)
        BY <1>4, <3>2, FailMoves DEF RecordLogicalClaim
      <3>3. CASE SameMessage(f) /\ work[f].seen.winner = work[f].d
        BY <1>4, <3>3, GotoMoves DEF RecordLogicalClaim, Pc
      <3>4. CASE SameMessage(f) /\ work[f].seen.winner # work[f].d
        BY <1>4, <3>1, <3>4, OutcomeMoves DEF RecordLogicalClaim, Pc, Final, Terminal
      <3>5. QED
        BY <3>2, <3>3, <3>4
    <2>3. QED
      BY <1>4, <1>a, <2>1, <2>2, TypeParts DEF RecordLogicalClaim
  <1>5. CASE RecordHeaderlessDelivery(f)
    <2>1. LedgerOK' /\ runs' \in [Delivery -> Nat] /\ WorkOK'
      BY <1>5, IdentityType, GotoMoves DEF RecordHeaderlessDelivery, Pc
    <2>2. QED
      BY <1>5, <1>a, <2>1, TypeParts DEF RecordHeaderlessDelivery
  <1>6. CASE IdentityLost(f)
    BY <1>6, <1>a, FailMoves, ClaimEndType, TypeParts DEF IdentityLost
  <1>7. CASE OwnRoute(f)
    <2>1. WorkOK'
      BY <1>7, GotoMoves, OutcomeMoves DEF OwnRoute, Pc, Final, Terminal, Ticket
    <2>2. LedgerOK'
      BY <1>7, OwnerType DEF OwnRoute
    <2>3. QED
      BY <1>7, <1>a, <2>1, <2>2, TypeParts DEF OwnRoute
  <1>8. CASE Dedup(f)
    <2>1. posts[My(f).key] # << >> => TicketFor(posts[My(f).key][1]) \in Ticket
      <3>1. posts[My(f).key] \in Seq(Delivery)
        BY <1>8, <1>a, MailType DEF Dedup, My
      <3>2. posts[My(f).key] # << >> => posts[My(f).key][1] \in Delivery
        BY <3>1
      <3>3. QED
        BY <3>2, MailType
    <2>2. NoTicket \in Ticket /\ "SKIPPED" \in Final /\ {"ownTicket", "settle", "address"} \subseteq Pc
      BY DEF Ticket, Final, Terminal, Pc
    <2>3. WorkOK'
      BY <1>8, <2>1, <2>2, GotoMoves, OutcomeMoves DEF Dedup
    <2>4. QED
      BY <1>8, <1>a, <2>3, TypeParts DEF Dedup
  <1>9. CASE Address(f)
    <2>1. WorkOK'
      BY <1>9, GotoMoves DEF Address, Pc
    <2>2. LedgerOK'
      BY <1>9, OwnerType DEF Address, Ticket
    <2>3. QED
      BY <1>9, <1>a, <2>1, <2>2, TypeParts DEF Address
  <1>10. CASE Post(f)
    <2>1. PostsOK' /\ TicketFor(posts'[My(f).key][1]) \in Ticket
      BY <1>10, PostType DEF Post
    <2>2. WorkOK'
      <3>1. "PROCESSED" \in Final /\ {"ownTicket", "finalize"} \subseteq Pc
        BY DEF Final, Terminal, Pc
      <3>2. QED
        BY <1>10, <2>1, <3>1, OutcomeMoves DEF Post
    <2>3. QED
      BY <1>10, <1>a, <2>1, <2>2, TypeParts DEF Post
  <1>11. CASE OwnTicket(f)
    <2>1. WorkOK'
      BY <1>11, GotoMoves DEF OwnTicket, Pc
    <2>2. LedgerOK'
      BY <1>11, <1>a, OwnerType DEF OwnTicket
    <2>3. QED
      BY <1>11, <1>a, <2>1, <2>2, TypeParts DEF OwnTicket
  <1>12. CASE OwnerLost(f)
    BY <1>12, <1>a, FailMoves, TypeParts DEF OwnerLost
  <1>13. CASE Finalize(f)
    <2>1. WorkOK'
      BY <1>13, GotoMoves DEF Finalize, Pc
    <2>2. LedgerOK' /\ ClaimOK'
      <3>1. CASE My(f).real
        <4>1. My(f).key \in Key
          BY <1>13, <1>a, MailType DEF Finalize, My
        <4>2. [claim[My(f).key] EXCEPT !.ticket = work[f].ticket] \in Claim
          <5>1. claim[My(f).key] \in Claim /\ work[f].ticket \in Ticket
            BY <1>a, <4>1 DEF FlowState
          <5>2. QED
            BY <5>1 DEF Claim
        <4>3. ClaimOK'
          BY <1>13, <1>a, <3>1, <4>1, <4>2 DEF Finalize
        <4>4. \A e \in Delivery : [ledger[e] EXCEPT !.owner = work[f].ticket] \in Row
          BY <1>a, RowType
        <4>5. LedgerOK'
          <5> DEFINE same(e) == /\ ledger[e].identified /\ mail[e].key = My(f).key
                                /\ mail[e].sem = My(f).sem
                     o(e) == IF same(e) THEN [ledger[e] EXCEPT !.owner = work[f].ticket]
                             ELSE ledger[e]
          <5>1. ledger' = [e \in Delivery |-> o(e)]
            BY <1>13, <3>1 DEF Finalize
          <5>2. \A e \in Delivery : o(e) \in Row
            BY <1>a, <4>4
          <5> HIDE DEF o
          <5>3. QED
            BY <5>1, <5>2
        <4>6. QED
          BY <4>3, <4>5
      <3>2. CASE ~My(f).real
        BY <1>13, <1>a, <3>2 DEF Finalize
      <3>3. QED
        BY <3>1, <3>2
    <2>3. QED
      BY <1>13, <1>a, <2>1, <2>2, TypeParts DEF Finalize
  <1>14. CASE Settle(f)
    <2>1. WorkOK'
      BY <1>14, IdleType, FlowMoves DEF Settle, Idle
    <2>2. LedgerOK'
      BY <1>14, SettleType DEF Settle
    <2>3. QED
      BY <1>14, <1>a, <2>1, <2>2, TypeParts DEF Settle
  <1>15. QED
    BY <1>1, <1>2, <1>3, <1>4, <1>5, <1>6, <1>7, <1>8, <1>9, <1>10, <1>11, <1>12,
       <1>13, <1>14 DEF FlowStep

(* The other steps of one flow: its drain, its faults, its heartbeats.     *)
FlowOther(f) ==
    \/ DrainReads(f) \/ ProcessDelivery(f) \/ RawReadFails(f) \/ PostAnswerLost(f)
    \/ SettleAnswerLost(f) \/ Throws(f) \/ FlowDies(f) \/ Heartbeat(f)
    \/ \E d \in Delivery : IngestRawMessage(f, d)

LEMMA FlowOtherType ==
    ASSUME TypeOK, NEW f \in Flow, FlowOther(f)
    PROVE  TypeOK'
  <1> USE DEF CountsOK, ClaimOK, PostsOK, LedgerOK
  <1>a. /\ LedgerOK /\ ClaimOK /\ PostsOK /\ WorkOK /\ CountsOK /\ work[f] \in FlowState
        /\ work[f].pc # "idle" => work[f].d \in Delivery /\ ledger[work[f].d] \in Row
    BY TypeParts DEF TypeOK
  <1>1. CASE DrainReads(f)
    <2>1. Lowest({d \in Delivery : Claimable(d)}) \in SUBSET Delivery
      BY DEF Lowest
    <2>2. QED
      BY <1>1, <1>a, <2>1, TypeParts DEF DrainReads, WorkOK
  <1>2. CASE ProcessDelivery(f)
    <2>1. PICK d \in due[f] :
            /\ due' = [due EXCEPT ![f] = due[f] \ {d}]
            /\ work' = IF InFlight(ProcessOf[f], d) THEN work
                       ELSE [work EXCEPT ![f] = [Idle EXCEPT !.pc = "claim", !.d = d]]
      BY <1>2 DEF ProcessDelivery
    <2>2. d \in Delivery /\ CountsOK'
      BY <1>2, <1>a, <2>1 DEF ProcessDelivery
    <2> DEFINE s == [Idle EXCEPT !.pc = "claim", !.d = d]
    <2>3. s \in FlowState /\ s.d = d
      BY <2>2, IdleType DEF FlowState, Idle, Pc
    <2>4. WorkOK'
      BY <1>a, <2>1, <2>2, <2>3, FlowMoves DEF WorkOK
    <2>5. QED
      BY <1>2, <1>a, <2>2, <2>4, TypeParts DEF ProcessDelivery
  <1>3. CASE RawReadFails(f)
    <2> DEFINE r == ledger[work[f].d]
               t == IF r.attempts >= MaxAttempts THEN "QUARANTINED" ELSE "RETRY"
               s == [work[f] EXCEPT !.pc = "early", !.attempts = r.attempts, !.target = t]
    <2>1. r.attempts \in Nat /\ t \in Final \cup {"RETRY"}
      BY <1>3, <1>a DEF RawReadFails, Row, Final
    <2>2. work' = [work EXCEPT ![f] = s]
      BY <1>3 DEF RawReadFails
    <2> HIDE DEF t
    <2>3. s \in FlowState /\ s.d = work[f].d
      BY <1>a, <2>1 DEF FlowState, Pc
    <2>4. WorkOK'
      BY <1>3, <1>a, <2>2, <2>3, FlowMoves DEF RawReadFails
    <2>5. QED
      BY <1>3, <1>a, <2>4, TypeParts DEF RawReadFails
  <1>4. CASE PostAnswerLost(f)
    <2>1. WorkOK' /\ PostsOK'
      BY <1>4, PostType, FailMoves DEF PostAnswerLost
    <2>2. QED
      BY <1>4, <1>a, <2>1, TypeParts DEF PostAnswerLost
  <1>5. CASE SettleAnswerLost(f)
    <2>1. WorkOK' /\ LedgerOK'
      BY <1>5, SettleType, FailMoves DEF SettleAnswerLost
    <2>2. QED
      BY <1>5, <1>a, <2>1, TypeParts DEF SettleAnswerLost
  <1>6. CASE Throws(f)
    <2>1. PICK permanent \in BOOLEAN : Fail(f, permanent, FALSE)
      BY <1>6 DEF Throws
    <2>2. WorkOK' /\ ClaimOK'
      BY <1>6, <2>1, FailMoves, ClaimEndType DEF Throws
    <2>3. QED
      BY <1>6, <1>a, <2>2, TypeParts DEF Throws
  <1>7. CASE FlowDies(f)
    <2>1. WorkOK'
      BY <1>7, IdleType, FlowMoves DEF FlowDies, Idle
    <2>2. QED
      BY <1>7, <1>a, <2>1, TypeParts DEF FlowDies
  <1>8. CASE Heartbeat(f)
    <2>1. work[f].d \in Delivery /\ [ledger[work[f].d] EXCEPT !.lease = "live"] \in Row
      BY <1>8, <1>a, RowType DEF Heartbeat
    <2>2. LedgerOK'
      BY <1>8, <1>a, <2>1 DEF Heartbeat
    <2>3. QED
      BY <1>8, <1>a, <2>2, TypeParts DEF Heartbeat, WorkOK
  <1>9. ASSUME NEW d \in Delivery, IngestRawMessage(f, d) PROVE TypeOK'
    <2>1. Accepted \in Row
      BY IdleType DEF Accepted, Row, States
    <2>2. LedgerOK' /\ CountsOK'
      BY <1>9, <1>a, <2>1 DEF IngestRawMessage
    <2>3. QED
      BY <1>9, <1>a, <2>2, TypeParts DEF IngestRawMessage, WorkOK
  <1>10. QED
    BY <1>1, <1>2, <1>3, <1>4, <1>5, <1>6, <1>7, <1>8, <1>9 DEF FlowOther

(* What happens to a row of itself, to a whole process, to old raw MIME.   *)
RowEvent(d) == Accept(d) \/ LeaseExpires(d) \/ RetryBecomesDue(d) \/ ReplayQuarantined(d)

LEMMA EventType ==
    ASSUME TypeOK,
           \/ \E d \in Delivery : RowEvent(d)
           \/ \E p \in Process : Crash(p)
           \/ PruneSelects \/ PruneWrites
    PROVE  TypeOK'
  <1> USE DEF CountsOK, ClaimOK, PostsOK, LedgerOK
  <1>a. LedgerOK /\ ClaimOK /\ PostsOK /\ WorkOK /\ CountsOK
    BY TypeParts
  <1>1. ASSUME NEW d \in Delivery, Accept(d) PROVE TypeOK'
    <2>1. Accepted \in Row /\ AcceptedTruncated \in Row
      BY IdleType DEF Accepted, AcceptedTruncated, Row, States, Final
    <2>2. LedgerOK'
      BY <1>1, <1>a, <2>1 DEF Accept
    <2>3. QED
      BY <1>1, <1>a, <2>2, TypeParts DEF Accept, WorkOK
  <1>2. ASSUME NEW d \in Delivery, LeaseExpires(d) PROVE TypeOK'
    <2>1. [ledger[d] EXCEPT !.lease = "expired"] \in Row
      BY <1>a, RowType
    <2>2. LedgerOK' /\ CountsOK'
      BY <1>2, <1>a, <2>1 DEF LeaseExpires
    <2>3. QED
      BY <1>2, <1>a, <2>2, TypeParts DEF LeaseExpires, WorkOK
  <1>3. ASSUME NEW d \in Delivery, RetryBecomesDue(d) PROVE TypeOK'
    <2>1. [ledger[d] EXCEPT !.retryAt = "due"] \in Row
      BY <1>a, RowType
    <2>2. LedgerOK'
      BY <1>3, <1>a, <2>1 DEF RetryBecomesDue
    <2>3. QED
      BY <1>3, <1>a, <2>2, TypeParts DEF RetryBecomesDue, WorkOK
  <1>4. ASSUME NEW d \in Delivery, ReplayQuarantined(d) PROVE TypeOK'
    <2>1. [ledger[d] EXCEPT !.state = "ACCEPTED", !.attempts = 0, !.retryAt = "none",
                            !.token = 0, !.lease = "none"] \in Row
      <3>1. ledger[d] \in Row /\ "ACCEPTED" \in States
        BY <1>a DEF States
      <3>2. \A r \in Row, n, t \in Nat, s \in States :
              [r EXCEPT !.state = s, !.attempts = n, !.retryAt = "none",
                        !.token = t, !.lease = "none"] \in Row
        BY DEF Row
      <3>3. QED
        BY <3>1, <3>2
    <2>2. LedgerOK' /\ CountsOK'
      BY <1>4, <1>a, <2>1 DEF ReplayQuarantined
    <2>3. QED
      BY <1>4, <1>a, <2>2, TypeParts DEF ReplayQuarantined, WorkOK
  <1>5. ASSUME NEW p \in Process, Crash(p) PROVE TypeOK'
    <2> DEFINE dead == {f \in Flow : ProcessOf[f] = p}
    <2>1. WorkOK'
      <3>1. work' = [f \in Flow |-> IF f \in dead THEN Idle ELSE work[f]]
        BY <1>5 DEF Crash
      <3>2. QED
        BY <1>a, <3>1, IdleType DEF WorkOK, Idle
    <2>2. ClaimOK'
      <3>1. claim' = [k \in Key |-> IF claim[k].open \in dead THEN NoClaim ELSE claim[k]]
        BY <1>5 DEF Crash
      <3>2. QED
        BY <1>a, <3>1, IdleType
    <2>3. CountsOK'
      BY <1>5, <1>a DEF Crash
    <2>4. QED
      BY <1>5, <1>a, <2>1, <2>2, <2>3, TypeParts DEF Crash
  <1>6. CASE PruneSelects
    BY <1>6, <1>a, TypeParts DEF PruneSelects, WorkOK
  <1>7. CASE PruneWrites
    <2>1. \A d \in Delivery : [ledger[d] EXCEPT !.raw = FALSE] \in Row
      BY <1>a, RowType
    <2>2. LedgerOK'
      BY <1>7, <1>a, <2>1 DEF PruneWrites
    <2>3. QED
      BY <1>7, <1>a, <2>2, TypeParts DEF PruneWrites, WorkOK
  <1>8. QED
    BY <1>1, <1>2, <1>3, <1>4, <1>5, <1>6, <1>7 DEF RowEvent

(* Every step is one of these.                                             *)
LEMMA Steps ==
    ASSUME Next
    PROVE  \/ \E f \in Flow : FlowStep(f) \/ FlowOther(f)
           \/ \E d \in Delivery : RowEvent(d)
           \/ \E p \in Process : Crash(p)
           \/ PruneSelects \/ PruneWrites
  BY DEF Next, FlowOther, RowEvent

(* Type correctness: rows, claims, posts and flows always have the shapes  *)
(* the schema and the handlers give them.                                  *)
LEMMA NextType == TypeOK /\ [Next]_vars => TypeOK'
  <1> SUFFICES ASSUME TypeOK, [Next]_vars PROVE TypeOK'
    OBVIOUS
  <1>1. CASE UNCHANGED vars
    BY <1>1 DEF vars, TypeOK
  <1>2. CASE Next
    BY <1>2, Steps, FlowStepType, FlowOtherType, EventType
  <1>3. QED
    BY <1>1, <1>2

THEOREM TypeCorrect == Spec => []TypeOK
  <1>1. QED
    BY InitType, NextType, PTL DEF Spec
--------------------------------------------------------------------------------
(* What the actions do, column by column.                                  *)

(* The columns the invariant reads, left as they are.                      *)
KeepsRow(d) ==
    /\ ledger'[d].state = ledger[d].state /\ ledger'[d].attempts = ledger[d].attempts
    /\ ledger'[d].token = ledger[d].token /\ ledger'[d].lease = ledger[d].lease
    /\ ledger'[d].ticket = ledger[d].ticket /\ ledger'[d].raw = ledger[d].raw
KeepsRows == \A d \in Delivery : KeepsRow(d)

(* A flow goes on with its delivery and its lease.                         *)
GoesOn(f) ==
    /\ Others(f) /\ work'[f].d = work[f].d /\ work'[f].token = work[f].token
    /\ work'[f].ticket = work[f].ticket /\ work'[f].seen = work[f].seen

LEMMA IdleFacts ==
    ASSUME NEW f \in Flow, TypeOK, work' = [work EXCEPT ![f] = Idle]
    PROVE  /\ Others(f) /\ work'[f] = Idle /\ work'[f].pc = "idle" /\ work'[f].token = 0
           /\ Idle.pc = "idle" /\ Idle.token = 0
  BY DEF TypeOK, Others, Idle

LEMMA ClaimFacts ==
    ASSUME TypeOK, NEW f \in Flow, ClaimDelivery(f), Claimable(work[f].d)
    PROVE  /\ Others(f) /\ work'[f].d = work[f].d /\ work'[f].ticket = work[f].ticket
           /\ work'[f].seen = work[f].seen
           /\ work'[f].pc = "load" /\ work'[f].token = nextToken /\ nextToken' = nextToken + 1
           /\ \A e \in Delivery \ {work[f].d} : ledger'[e] = ledger[e]
           /\ LET r == ledger[work[f].d]
                  q == ledger'[work[f].d]
              IN /\ q.state = "PROCESSING" /\ q.token = nextToken /\ q.lease = "live"
                 /\ q.attempts = r.attempts + 1 /\ q.ticket = r.ticket /\ q.raw = r.raw
  <1> DEFINE s == [work[f] EXCEPT !.pc = "load", !.token = nextToken]
             q == Leased(ledger[work[f].d])
  <1>1. /\ work[f] \in FlowState /\ work[f].d \in Delivery /\ ledger[work[f].d] \in Row
        /\ nextToken \in Nat
    BY DEF TypeOK, ClaimDelivery
  <1>2. work' = [work EXCEPT ![f] = s] /\ ledger' = [ledger EXCEPT ![work[f].d] = q]
        /\ nextToken' = nextToken + 1
    BY DEF ClaimDelivery
  <1>3. work'[f] = s /\ Others(f)
    BY <1>2 DEF TypeOK, Others
  <1>4. /\ s.pc = "load" /\ s.token = nextToken /\ s.d = work[f].d
        /\ s.ticket = work[f].ticket /\ s.seen = work[f].seen
    BY <1>1 DEF FlowState
  <1>5. /\ q.state = "PROCESSING" /\ q.token = nextToken /\ q.lease = "live"
        /\ q.attempts = ledger[work[f].d].attempts + 1
        /\ q.ticket = ledger[work[f].d].ticket /\ q.raw = ledger[work[f].d].raw
    BY <1>1 DEF Leased, Row
  <1>6. ledger'[work[f].d] = q /\ \A e \in Delivery \ {work[f].d} : ledger'[e] = ledger[e]
    BY <1>1, <1>2 DEF TypeOK
  <1> HIDE DEF s, q
  <1>7. QED
    BY <1>2, <1>3, <1>4, <1>5, <1>6

LEMMA LoadFacts ==
    ASSUME TypeOK, NEW f \in Flow, Load(f)
    PROVE  /\ GoesOn(f) /\ work'[f].pc \in {"early", "fail", "logical", "headerless"}
           /\ work'[f].pc \in {"early", "fail"} => work'[f].target \notin Terminal
           /\ work'[f].pc = "logical" => My(f).real
           /\ work'[f].pc = "headerless" => ~My(f).real
           /\ work'[f].pc \notin {"early", "fail"} => ledger[work[f].d].attempts <= MaxAttempts
  <1> DEFINE r == ledger[work[f].d]
             early == My(f).content = "truncated" \/ r.attempts > MaxAttempts \/ ~r.raw
             broken == My(f).content = "malformed"
             pc == IF early THEN "early" ELSE IF broken THEN "fail"
                   ELSE IF My(f).real THEN "logical" ELSE "headerless"
             target == IF early \/ broken THEN "QUARANTINED" ELSE work[f].target
             s == [work[f] EXCEPT !.attempts = r.attempts, !.pc = pc, !.target = target]
  <1>1. work[f] \in FlowState /\ r \in Row /\ r.attempts \in Nat /\ MaxAttempts \in Nat
    BY BoundAssumption DEF TypeOK, Load, Row
  <1>2. work' = [work EXCEPT ![f] = s]
    BY DEF Load
  <1>3. /\ pc \in {"early", "fail", "logical", "headerless"}
        /\ pc \in {"early", "fail"} => target = "QUARANTINED"
        /\ pc = "logical" => My(f).real
        /\ pc = "headerless" => ~My(f).real
        /\ pc \notin {"early", "fail"} => r.attempts <= MaxAttempts
    BY <1>1
  <1> HIDE DEF pc, target
  <1>4. work'[f] = s /\ Others(f)
    BY <1>2 DEF TypeOK, Others
  <1>5. /\ s.pc = pc /\ s.target = target /\ s.d = work[f].d /\ s.token = work[f].token
        /\ s.ticket = work[f].ticket /\ s.seen = work[f].seen
    BY <1>1 DEF FlowState
  <1> HIDE DEF s
  <1>6. QED
    BY <1>3, <1>4, <1>5 DEF GoesOn, Terminal

LEMMA RawFailsFacts ==
    ASSUME TypeOK, NEW f \in Flow, RawReadFails(f)
    PROVE  GoesOn(f) /\ work'[f].pc = "early" /\ work'[f].target \notin Terminal
  <1> DEFINE r == ledger[work[f].d]
             target == IF r.attempts >= MaxAttempts THEN "QUARANTINED" ELSE "RETRY"
             s == [work[f] EXCEPT !.pc = "early", !.attempts = r.attempts, !.target = target]
  <1>1. work[f] \in FlowState
    BY DEF TypeOK
  <1>2. work' = [work EXCEPT ![f] = s]
    BY DEF RawReadFails
  <1>3. target \notin Terminal
    BY DEF Terminal
  <1> HIDE DEF target
  <1>4. work'[f] = s /\ Others(f)
    BY <1>2 DEF TypeOK, Others
  <1>5. /\ s.pc = "early" /\ s.target = target /\ s.d = work[f].d /\ s.token = work[f].token
        /\ s.ticket = work[f].ticket /\ s.seen = work[f].seen
    BY <1>1 DEF FlowState
  <1> HIDE DEF s
  <1>6. QED
    BY <1>3, <1>4, <1>5 DEF GoesOn

(* The claim as ReadClaim reads it or makes it.                            *)
ClaimRead(f) == IF claim[My(f).key].winner = 0
                THEN [winner |-> work[f].d, sem |-> My(f).sem, ticket |-> NoTicket, open |-> f]
                ELSE claim[My(f).key]

LEMMA ReadFacts ==
    ASSUME TypeOK, NEW f \in Flow, ReadClaim(f)
    PROVE  /\ My(f).key \in Key /\ claim[My(f).key].open = NoFlow
           /\ claim'[My(f).key] = ClaimRead(f)
           /\ \A k \in Key \ {My(f).key} : claim'[k] = claim[k]
           /\ Others(f) /\ work'[f].pc = "identify" /\ work'[f].d = work[f].d
           /\ work'[f].token = work[f].token /\ work'[f].ticket = work[f].ticket
           /\ work'[f].seen = ClaimRead(f)
  <1>1. work[f] \in FlowState /\ My(f).key \in Key
    BY MailType DEF TypeOK, ReadClaim, My
  <1> DEFINE s == [work[f] EXCEPT !.pc = "identify", !.seen = ClaimRead(f)]
  <1>2. /\ work' = [work EXCEPT ![f] = s] /\ claim' = [claim EXCEPT ![My(f).key] = ClaimRead(f)]
        /\ claim[My(f).key].open = NoFlow
    BY DEF ReadClaim, ClaimRead
  <1>3. work'[f] = s /\ Others(f)
    BY <1>2 DEF TypeOK, Others
  <1>4. /\ s.pc = "identify" /\ s.seen = ClaimRead(f) /\ s.d = work[f].d
        /\ s.token = work[f].token /\ s.ticket = work[f].ticket
    BY <1>1 DEF FlowState
  <1> HIDE DEF s
  <1>5. QED
    BY <1>1, <1>2, <1>3, <1>4 DEF TypeOK

LEMMA OwnerFacts ==
    ASSUME TypeOK, NEW f \in Flow, work[f].pc # "idle", NEW owner, NEW keep,
           PersistEffectiveOwner(f, owner, keep)
    PROVE  /\ KeepsRows /\ \A e \in Delivery \ {work[f].d} : ledger'[e] = ledger[e]
           /\ \A c \in {"state", "attempts", "token", "identified", "ticket", "retryAt"} :
                ledger'[work[f].d][c] = ledger[work[f].d][c]
  <1>1. work[f].d \in Delivery /\ \A d \in Delivery : ledger[d] \in Row
    BY DEF TypeOK
  <1> DEFINE o == IF keep /\ ledger[work[f].d].owner \in Ticket THEN ledger[work[f].d].owner
                  ELSE owner
             q == [ledger[work[f].d] EXCEPT !.owner = o]
  <1>2. ledger' = [ledger EXCEPT ![work[f].d] = q]
    BY DEF PersistEffectiveOwner
  <1> HIDE DEF o
  <1>3. /\ q.state = ledger[work[f].d].state /\ q.attempts = ledger[work[f].d].attempts
        /\ q.token = ledger[work[f].d].token /\ q.lease = ledger[work[f].d].lease
        /\ q.ticket = ledger[work[f].d].ticket /\ q.raw = ledger[work[f].d].raw
        /\ q.identified = ledger[work[f].d].identified /\ q.retryAt = ledger[work[f].d].retryAt
    BY <1>1 DEF Row
  <1>4. ledger'[work[f].d] = q /\ \A e \in Delivery \ {work[f].d} : ledger'[e] = ledger[e]
    BY <1>1, <1>2 DEF TypeOK
  <1> HIDE DEF q
  <1>5. QED
    BY <1>3, <1>4 DEF KeepsRows, KeepsRow

LEMMA IdentityFacts ==
    ASSUME TypeOK, NEW f \in Flow, work[f].pc # "idle", RecordIdentity(f)
    PROVE  /\ KeepsRows /\ \A e \in Delivery \ {work[f].d} : ledger'[e] = ledger[e]
           /\ \A e \in Delivery : ledger'[e].owner = ledger[e].owner
           /\ runs'[work[f].d] = runs[work[f].d] + 1
           /\ \A e \in Delivery \ {work[f].d} : runs'[e] = runs[e]
  <1>1. work[f].d \in Delivery /\ \A d \in Delivery : ledger[d] \in Row
    BY DEF TypeOK
  <1> DEFINE q == [ledger[work[f].d] EXCEPT !.identified = TRUE]
  <1>2. ledger' = [ledger EXCEPT ![work[f].d] = q]
    BY DEF RecordIdentity
  <1>3. /\ q.state = ledger[work[f].d].state /\ q.attempts = ledger[work[f].d].attempts
        /\ q.token = ledger[work[f].d].token /\ q.lease = ledger[work[f].d].lease
        /\ q.ticket = ledger[work[f].d].ticket /\ q.raw = ledger[work[f].d].raw
        /\ q.owner = ledger[work[f].d].owner
    BY <1>1 DEF Row
  <1>4. ledger'[work[f].d] = q /\ \A e \in Delivery \ {work[f].d} : ledger'[e] = ledger[e]
    BY <1>1, <1>2 DEF TypeOK
  <1>5. /\ runs'[work[f].d] = runs[work[f].d] + 1
        /\ \A e \in Delivery \ {work[f].d} : runs'[e] = runs[e]
    BY <1>1 DEF TypeOK, RecordIdentity
  <1> HIDE DEF q
  <1>6. QED
    BY <1>3, <1>4, <1>5 DEF KeepsRows, KeepsRow

(* Settling: nothing without the lease; with it, the row's state is the    *)
(* one the flow decided, and a finished row belongs to its ticket.         *)
LEMMA SettleFacts ==
    ASSUME TypeOK, NEW f \in Flow, work[f].pc # "idle", SettleRow(f)
    PROVE  /\ ~Fenced(f) => ledger' = ledger
           /\ \A e \in Delivery \ {work[f].d} : ledger'[e] = ledger[e]
           /\ Fenced(f) =>
                LET r == ledger[work[f].d]
                    q == ledger'[work[f].d]
                IN /\ q.state = work[f].target /\ q.token = 0 /\ q.lease = "none"
                   /\ q.attempts = r.attempts /\ q.raw = r.raw
                   /\ work[f].target \in Terminal =>
                        /\ q.ticket = work[f].ticket
                        /\ work[f].ticket # NoTicket => q.owner = work[f].ticket
                   /\ work[f].target \notin Terminal => q.ticket = r.ticket
  <1>1. work[f].d \in Delivery /\ ledger[work[f].d] \in Row
    BY DEF TypeOK
  <1> DEFINE r == ledger[work[f].d]
             q == SettledRow(f, r)
  <1>2. CASE Fenced(f)
    <2>1. ledger' = [ledger EXCEPT ![work[f].d] = q]
      BY <1>2 DEF SettleRow
    <2>2. ledger'[work[f].d] = q /\ \A e \in Delivery \ {work[f].d} : ledger'[e] = ledger[e]
      BY <1>1, <2>1 DEF TypeOK
    <2>3. /\ q.state = work[f].target /\ q.token = 0 /\ q.lease = "none"
          /\ q.attempts = r.attempts /\ q.raw = r.raw
          /\ work[f].target \in Terminal =>
               /\ q.ticket = work[f].ticket
               /\ work[f].ticket # NoTicket => q.owner = work[f].ticket
          /\ work[f].target \notin Terminal => q.ticket = r.ticket
      BY <1>1 DEF Row, SettledRow
    <2> HIDE DEF q
    <2>4. QED
      BY <1>2, <2>2, <2>3
  <1>3. CASE ~Fenced(f)
    BY <1>3 DEF SettleRow
  <1>4. QED
    BY <1>2, <1>3

LEMMA FinalizeFacts ==
    ASSUME TypeOK, NEW f \in Flow, Finalize(f)
    PROVE  /\ KeepsRows
           /\ ~My(f).real => UNCHANGED <<ledger, claim>>
           /\ My(f).real =>
                /\ \A k \in Key : /\ claim'[k].winner = claim[k].winner /\ claim'[k].sem = claim[k].sem
                                  /\ claim'[k].open = claim[k].open
                                  /\ claim'[k].ticket = IF k = My(f).key THEN work[f].ticket
                                                        ELSE claim[k].ticket
                /\ \A k \in Key \ {My(f).key} : claim'[k] = claim[k]
                /\ \A e \in Delivery : \/ ledger'[e] = ledger[e]
                                       \/ mail[e].key = My(f).key /\ ledger'[e].owner = work[f].ticket
           /\ \A e \in Delivery : /\ ledger'[e].identified = ledger[e].identified
                                  /\ ledger'[e].retryAt = ledger[e].retryAt
  <1>1. My(f).key \in Key /\ \A e \in Delivery : ledger[e] \in Row
    BY MailType DEF TypeOK, Finalize, My
  <1>2. CASE My(f).real
    <2> DEFINE o(e) == [ledger[e] EXCEPT !.owner = work[f].ticket]
               same(e) == ledger[e].identified /\ mail[e].key = My(f).key /\ mail[e].sem = My(f).sem
    <2>1. /\ claim' = [claim EXCEPT ![My(f).key].ticket = work[f].ticket]
          /\ ledger' = [e \in Delivery |-> IF same(e) THEN o(e) ELSE ledger[e]]
      BY <1>2 DEF Finalize
    <2>2. \A k \in Key : /\ claim'[k].winner = claim[k].winner /\ claim'[k].sem = claim[k].sem
                         /\ claim'[k].open = claim[k].open
                         /\ claim'[k].ticket = IF k = My(f).key THEN work[f].ticket
                                               ELSE claim[k].ticket
      BY <1>1, <2>1 DEF TypeOK, Claim
    <2>3. \A k \in Key \ {My(f).key} : claim'[k] = claim[k]
      BY <1>1, <2>1 DEF TypeOK
    <2>4. \A e \in Delivery :
             /\ o(e).state = ledger[e].state /\ o(e).attempts = ledger[e].attempts
             /\ o(e).token = ledger[e].token /\ o(e).lease = ledger[e].lease
             /\ o(e).ticket = ledger[e].ticket /\ o(e).raw = ledger[e].raw
             /\ o(e).owner = work[f].ticket
             /\ o(e).identified = ledger[e].identified /\ o(e).retryAt = ledger[e].retryAt
      BY <1>1 DEF Row
    <2> HIDE DEF o
    <2>5. KeepsRows /\ \A e \in Delivery : /\ ledger'[e].identified = ledger[e].identified
                                           /\ ledger'[e].retryAt = ledger[e].retryAt
      BY <2>1, <2>4 DEF KeepsRows, KeepsRow
    <2>6. \A e \in Delivery : \/ ledger'[e] = ledger[e]
                              \/ mail[e].key = My(f).key /\ ledger'[e].owner = work[f].ticket
      BY <2>1, <2>4
    <2>7. QED
      BY <1>2, <2>2, <2>3, <2>5, <2>6
  <1>3. CASE ~My(f).real
    BY <1>3 DEF Finalize, KeepsRows, KeepsRow
  <1>4. QED
    BY <1>2, <1>3

(* Claims after a transaction has ended.                                   *)
LEMMA EndFacts ==
    ASSUME TypeOK, NEW f \in Flow
    PROVE  /\ \A k \in Key : /\ claim[k].open # f => Committed(f)[k] = claim[k] /\ RolledBack(f)[k] = claim[k]
                             /\ claim[k].open = f => /\ RolledBack(f)[k] = NoClaim
                                                     /\ Committed(f)[k].open = NoFlow
                             /\ Committed(f)[k].winner = claim[k].winner
                             /\ Committed(f)[k].sem = claim[k].sem
                             /\ Committed(f)[k].ticket = claim[k].ticket
  <1>1. \A k \in Key : claim[k] \in Claim
    BY DEF TypeOK
  <1>2. \A k \in Key : LET c == [claim[k] EXCEPT !.open = NoFlow]
                       IN /\ c.winner = claim[k].winner /\ c.sem = claim[k].sem
                          /\ c.ticket = claim[k].ticket /\ c.open = NoFlow
    BY <1>1 DEF Claim
  <1>3. QED
    BY <1>2 DEF Committed, RolledBack
LEMMA DedupMoves ==
    ASSUME TypeOK, NEW f \in Flow, Dedup(f)
    PROVE  LET p == posts[My(f).key] IN
           /\ Others(f) /\ work'[f].d = work[f].d /\ work'[f].token = work[f].token
           /\ work'[f].seen = work[f].seen
           /\ p # << >> => /\ work'[f].pc = "ownTicket" /\ work'[f].target = "SKIPPED"
                           /\ work'[f].ticket = TicketFor(p[1]) /\ p[1] \in Delivery
           /\ p = << >> /\ My(f).content = "rule" =>
                /\ work'[f].pc = "settle" /\ work'[f].target = "SKIPPED"
                /\ work'[f].ticket = NoTicket
           /\ p = << >> /\ My(f).content # "rule" =>
                work'[f].pc = "address" /\ work'[f].ticket = work[f].ticket
  <1>1. posts[My(f).key] \in Seq(Delivery)
    BY MailType DEF Dedup, My, TypeOK
  <1>2. posts[My(f).key] # << >> =>
           posts[My(f).key][1] \in Delivery /\ TicketFor(posts[My(f).key][1]) \in Ticket
    BY <1>1, MailType
  <1>3. NoTicket \in Ticket /\ "SKIPPED" \in Final /\ {"ownTicket", "settle", "address"} \subseteq Pc
    BY DEF Ticket, Final, Terminal, Pc
  <1>4. QED
    BY <1>2, <1>3, GotoMoves, OutcomeMoves DEF Dedup

(* After an insert the key has a post: the one it had, or the flow's own.  *)
LEMMA InsertFacts ==
    ASSUME TypeOK, NEW f \in Flow, work[f].pc # "idle", InsertPost(f)
    PROVE  LET k == My(f).key IN
           /\ k \in Key /\ \A j \in Key \ {k} : posts'[j] = posts[j]
           /\ posts[k] # << >> => posts'[k] = posts[k]
           /\ posts[k] = << >> => posts'[k] = <<work[f].d>>
  <1>1. My(f).key \in Key
    BY MailType DEF My, TypeOK
  <1>2. QED
    BY <1>1 DEF InsertPost, TypeOK

LEMMA PostMoves ==
    ASSUME TypeOK, NEW f \in Flow, Post(f)
    PROVE  /\ Others(f) /\ work'[f].d = work[f].d /\ work'[f].token = work[f].token
           /\ work'[f].seen = work[f].seen /\ work'[f].pc \in {"ownTicket", "finalize"}
           /\ work'[f].target = "PROCESSED"
           /\ work'[f].ticket = TicketFor(posts'[My(f).key][1])
  <1>1. TicketFor(posts'[My(f).key][1]) \in Ticket
    BY PostType DEF Post
  <1>2. "PROCESSED" \in Final /\ {"ownTicket", "finalize"} \subseteq Pc
    BY DEF Final, Terminal, Pc
  <1>3. QED
    BY <1>1, <1>2, OutcomeMoves DEF Post

(* A delivery is taken up, or is in hand already.                          *)
LEMMA ProcessFacts ==
    ASSUME TypeOK, NEW f \in Flow, ProcessDelivery(f)
    PROVE  /\ due'[f] \subseteq due[f] /\ \A g \in Flow \ {f} : due'[g] = due[g]
           /\ \/ work' = work
              \/ /\ Others(f) /\ work'[f].pc = "claim" /\ work'[f].d \in due[f]
                 /\ work'[f].token = 0 /\ work'[f].ticket = NoTicket
                 /\ work'[f].seen = NoClaim
  <1>1. PICK d \in due[f] :
          /\ due' = [due EXCEPT ![f] = due[f] \ {d}]
          /\ work' = IF InFlight(ProcessOf[f], d) THEN work
                     ELSE [work EXCEPT ![f] = [Idle EXCEPT !.pc = "claim", !.d = d]]
    BY DEF ProcessDelivery
  <1>2. due'[f] \subseteq due[f] /\ \A g \in Flow \ {f} : due'[g] = due[g]
    BY <1>1 DEF TypeOK
  <1> DEFINE s == [Idle EXCEPT !.pc = "claim", !.d = d]
  <1>3. s.pc = "claim" /\ s.d = d /\ s.token = 0 /\ s.ticket = NoTicket /\ s.seen = NoClaim
    BY DEF Idle
  <1> HIDE DEF s
  <1>4. CASE work' = [work EXCEPT ![f] = s]
    <2>1. work'[f] = s /\ Others(f)
      BY <1>4 DEF TypeOK, Others
    <2>2. QED
      BY <1>2, <1>3, <2>1
  <1>5. QED
    BY <1>1, <1>2, <1>4 DEF s

LEMMA ThrowsFacts ==
    ASSUME TypeOK, NEW f \in Flow, Throws(f)
    PROVE  /\ work[f].pc \notin {"idle", "claim", "load", "early", "fail"}
           /\ GoesOn(f) /\ work'[f].pc = "fail" /\ work'[f].target \notin Terminal
  <1>1. PICK permanent \in BOOLEAN : Fail(f, permanent, FALSE)
    BY DEF Throws
  <1>2. QED
    BY <1>1, FailMoves DEF Throws, GoesOn

LEMMA HeartbeatFacts ==
    ASSUME TypeOK, NEW f \in Flow, Heartbeat(f)
    PROVE  \A e \in Delivery :
             /\ ledger'[e].state = ledger[e].state /\ ledger'[e].attempts = ledger[e].attempts
             /\ ledger'[e].token = ledger[e].token /\ ledger'[e].ticket = ledger[e].ticket
             /\ ledger'[e].raw = ledger[e].raw /\ ledger'[e].owner = ledger[e].owner
             /\ ledger'[e].identified = ledger[e].identified
             /\ ledger'[e].retryAt = ledger[e].retryAt
             /\ ledger'[e].lease = IF e = work[f].d THEN "live" ELSE ledger[e].lease
  <1>1. work[f].d \in Delivery /\ ledger[work[f].d] \in Row
    BY DEF TypeOK, Heartbeat
  <1>2. QED
    BY <1>1 DEF Heartbeat, TypeOK, Row

(* A row that appears: it is new, and everything else stays.               *)
LEMMA AcceptFacts ==
    ASSUME TypeOK, NEW d \in Delivery,
           Accept(d) \/ \E f \in Flow : IngestRawMessage(f, d)
    PROVE  /\ ledger[d].state = "ABSENT"
           /\ \A e \in Delivery \ {d} : ledger'[e] = ledger[e]
           /\ ledger'[d].state \in {"ACCEPTED", "QUARANTINED"} /\ ledger'[d].attempts = 0
           /\ ledger'[d].token = 0 /\ ledger'[d].lease = "none"
           /\ ledger'[d].ticket = NoTicket /\ ledger'[d].raw
  <1>1. ledger' = [ledger EXCEPT ![d] = Accepted] \/ ledger' = [ledger EXCEPT ![d] = AcceptedTruncated]
    BY DEF Accept, IngestRawMessage
  <1>2. \A q \in {Accepted, AcceptedTruncated} :
           /\ q.state \in {"ACCEPTED", "QUARANTINED"} /\ q.attempts = 0 /\ q.token = 0
           /\ q.lease = "none" /\ q.ticket = NoTicket /\ q.raw
    BY DEF Accepted, AcceptedTruncated, Absent
  <1>3. ledger'[d] \in {Accepted, AcceptedTruncated} /\ \A e \in Delivery \ {d} : ledger'[e] = ledger[e]
    BY <1>1 DEF TypeOK
  <1>4. ledger[d].state = "ABSENT"
    BY DEF Accept, IngestRawMessage
  <1>5. QED
    BY <1>2, <1>3, <1>4

LEMMA ExpiryFacts ==
    ASSUME TypeOK, NEW d \in Delivery, LeaseExpires(d)
    PROVE  /\ ledger[d].lease = "live"
           /\ \A e \in Delivery :
                /\ ledger'[e].state = ledger[e].state /\ ledger'[e].attempts = ledger[e].attempts
                /\ ledger'[e].token = ledger[e].token /\ ledger'[e].ticket = ledger[e].ticket
                /\ ledger'[e].raw = ledger[e].raw /\ ledger'[e].owner = ledger[e].owner
                /\ ledger'[e].identified = ledger[e].identified
                /\ ledger'[e].retryAt = ledger[e].retryAt
                /\ ledger'[e].lease = IF e = d THEN "expired" ELSE ledger[e].lease
  <1>1. ledger[d] \in Row
    BY DEF TypeOK
  <1>2. QED
    BY <1>1 DEF LeaseExpires, TypeOK, Row

LEMMA DueFacts ==
    ASSUME TypeOK, NEW d \in Delivery, RetryBecomesDue(d)
    PROVE  /\ KeepsRows /\ ledger[d].state = "RETRY"
           /\ \A e \in Delivery : ledger'[e].owner = ledger[e].owner
           /\ \A e \in Delivery \ {d} : ledger'[e] = ledger[e]
  <1>1. ledger[d] \in Row
    BY DEF TypeOK
  <1>2. QED
    BY <1>1 DEF RetryBecomesDue, TypeOK, Row, KeepsRows, KeepsRow

LEMMA ReplayFacts ==
    ASSUME TypeOK, NEW d \in Delivery, ReplayQuarantined(d)
    PROVE  /\ ledger[d].state = "QUARANTINED"
           /\ \A e \in Delivery \ {d} : ledger'[e] = ledger[e]
           /\ ledger'[d].state = "ACCEPTED" /\ ledger'[d].attempts = 0 /\ ledger'[d].token = 0
           /\ ledger'[d].lease = "none" /\ ledger'[d].ticket = ledger[d].ticket
           /\ ledger'[d].raw = ledger[d].raw
           /\ runs'[d] = 0 /\ \A e \in Delivery \ {d} : runs'[e] = runs[e]
  <1> DEFINE q == [ledger[d] EXCEPT !.state = "ACCEPTED", !.attempts = 0, !.retryAt = "none",
                                    !.token = 0, !.lease = "none"]
  <1>1. ledger[d] \in Row
    BY DEF TypeOK
  <1>2. ledger' = [ledger EXCEPT ![d] = q] /\ runs' = [runs EXCEPT ![d] = 0]
    BY DEF ReplayQuarantined
  <1>3. /\ q.state = "ACCEPTED" /\ q.attempts = 0 /\ q.token = 0 /\ q.lease = "none"
        /\ q.ticket = ledger[d].ticket /\ q.raw = ledger[d].raw
    BY <1>1 DEF Row
  <1> HIDE DEF q
  <1>4. QED
    BY <1>2, <1>3 DEF TypeOK, ReplayQuarantined

LEMMA CrashFacts ==
    ASSUME TypeOK, NEW p \in Process, Crash(p)
    PROVE  /\ \A f \in Flow : \/ /\ ProcessOf[f] # p /\ work'[f] = work[f] /\ due'[f] = due[f]
                              \/ /\ ProcessOf[f] = p /\ due'[f] = {} /\ work'[f] = Idle
                                 /\ work'[f].pc = "idle" /\ work'[f].token = 0
           /\ \A k \in Key : \/ claim'[k] = claim[k] /\ (claim[k].open \in Flow => ProcessOf[claim[k].open] # p)
                             \/ claim'[k] = NoClaim /\ claim[k].open \in Flow /\ ProcessOf[claim[k].open] = p
  BY FlowAssumption DEF Crash, TypeOK, Idle

LEMMA PruneFacts ==
    ASSUME TypeOK, PruneWrites
    PROVE  \A e \in Delivery :
             /\ ledger'[e].state = ledger[e].state /\ ledger'[e].attempts = ledger[e].attempts
             /\ ledger'[e].token = ledger[e].token /\ ledger'[e].ticket = ledger[e].ticket
             /\ ledger'[e].lease = ledger[e].lease /\ ledger'[e].owner = ledger[e].owner
             /\ ledger'[e].identified = ledger[e].identified
             /\ ledger'[e].retryAt = ledger[e].retryAt
             /\ ledger'[e].raw = IF e \in doomed THEN FALSE ELSE ledger[e].raw
  <1>1. \A e \in Delivery : ledger[e] \in Row
    BY DEF TypeOK
  <1>2. QED
    BY <1>1 DEF PruneWrites, Row

--------------------------------------------------------------------------------
(* Leases: a token has one flow and one row.                               *)

LeaseSteady(d) ==
    /\ ledger'[d].token \in {0, ledger[d].token}
    /\ (ledger'[d].state = "PROCESSING") = (ledger'[d].token # 0)
    /\ (ledger'[d].state = "PROCESSING") = (ledger'[d].lease # "none")
TokenSteady(f) ==
    /\ work'[f].token \in {0, work[f].token}
    /\ (work'[f].token = 0) = (work'[f].pc \in {"idle", "claim"})
    /\ work'[f].token # 0 => work'[f].d = work[f].d

LEMMA TokenTypes ==
    ASSUME TypeOK
    PROVE  /\ nextToken \in Nat \ {0}
           /\ \A d \in Delivery : ledger[d] \in Row /\ ledger[d].token \in Nat
           /\ \A f \in Flow : work[f] \in FlowState /\ work[f].token \in Nat
  BY DEF TypeOK, Row, FlowState

LEMMA TokensSteady ==
    ASSUME TypeOK, TokensUnique, UNCHANGED nextToken,
           \A d \in Delivery : LeaseSteady(d), \A f \in Flow : TokenSteady(f)
    PROVE  TokensUnique'
  <1>1. \A d \in Delivery : /\ ledger'[d].token < nextToken'
                            /\ (ledger'[d].state = "PROCESSING") = (ledger'[d].token # 0)
                            /\ (ledger'[d].state = "PROCESSING") = (ledger'[d].lease # "none")
    BY TokenTypes DEF TokensUnique, LeaseSteady
  <1>2. \A f \in Flow : /\ work'[f].token < nextToken'
                        /\ (work'[f].token = 0) = (work'[f].pc \in {"idle", "claim"})
    BY TokenTypes DEF TokensUnique, TokenSteady
  <1>3. \A f, g \in Flow : work'[f].token # 0 /\ work'[f].token = work'[g].token => f = g
    BY DEF TokensUnique, TokenSteady
  <1>4. \A f \in Flow, d \in Delivery :
           work'[f].token # 0 /\ work'[f].token = ledger'[d].token => work'[f].d = d
    BY DEF TokensUnique, TokenSteady, LeaseSteady
  <1>5. QED
    BY <1>1, <1>2, <1>3, <1>4 DEF TokensUnique

LEMMA RowsSteady ==
    ASSUME TokensUnique, KeepsRows
    PROVE  \A d \in Delivery : LeaseSteady(d)
  BY DEF TokensUnique, KeepsRows, KeepsRow, LeaseSteady

LEMMA LedgerSteady ==
    ASSUME TokensUnique, ledger' = ledger
    PROVE  KeepsRows /\ \A d \in Delivery : LeaseSteady(d)
  BY DEF TokensUnique, KeepsRows, KeepsRow, LeaseSteady

LEMMA OthersSteady ==
    ASSUME TokensUnique, NEW f \in Flow, Others(f), TokenSteady(f)
    PROVE  \A g \in Flow : TokenSteady(g)
  BY DEF TokensUnique, Others, TokenSteady

LEMMA WorkSteady ==
    ASSUME TokensUnique, work' = work
    PROVE  \A g \in Flow : TokenSteady(g)
  BY DEF TokensUnique, TokenSteady

(* A flow that has its lease token and goes on.                            *)
LEMMA HeldSteady ==
    ASSUME TokensUnique, NEW f \in Flow, Others(f), work[f].pc \notin {"idle", "claim"},
           work'[f].pc \notin {"idle", "claim"},
           work'[f].d = work[f].d, work'[f].token = work[f].token
    PROVE  \A g \in Flow : TokenSteady(g)
  BY OthersSteady DEF TokensUnique, TokenSteady

LEMMA QuitSteady ==
    ASSUME TypeOK, TokensUnique, NEW f \in Flow, work' = [work EXCEPT ![f] = Idle]
    PROVE  \A g \in Flow : TokenSteady(g)
  BY IdleFacts, OthersSteady DEF TokensUnique, TokenSteady

LEMMA SettleSteady ==
    ASSUME TypeOK, TokensUnique, NEW f \in Flow, work[f].pc # "idle", SettleRow(f)
    PROVE  \A d \in Delivery : LeaseSteady(d)
  <1>1. work[f].target # "PROCESSING" /\ work[f].d \in Delivery
    BY DEF TypeOK, FlowState, Final, Terminal
  <1>2. QED
    BY <1>1, SettleFacts DEF TokensUnique, LeaseSteady

LEMMA FlowStepTokens ==
    ASSUME TypeOK, TokensUnique, NEW f \in Flow, FlowStep(f)
    PROVE  TokensUnique'
  <1>1. CASE ClaimDelivery(f)
    <2>1. CASE Claimable(work[f].d)
      <3> DEFINE d == work[f].d
      <3>1. d \in Delivery
        BY <1>1 DEF ClaimDelivery, TypeOK
      <3>2. \A e \in Delivery : /\ ledger'[e].token < nextToken'
                                /\ (ledger'[e].state = "PROCESSING") = (ledger'[e].token # 0)
                                /\ (ledger'[e].state = "PROCESSING") = (ledger'[e].lease # "none")
        BY <1>1, <2>1, <3>1, ClaimFacts, TokenTypes DEF TokensUnique
      <3>3. \A g \in Flow : /\ work'[g].token < nextToken'
                            /\ (work'[g].token = 0) = (work'[g].pc \in {"idle", "claim"})
        BY <1>1, <2>1, <3>1, ClaimFacts, TokenTypes DEF TokensUnique, Others
      <3>4. \A g, h \in Flow : work'[g].token # 0 /\ work'[g].token = work'[h].token => g = h
        BY <1>1, <2>1, ClaimFacts, TokenTypes DEF TokensUnique, Others
      <3>5. \A g \in Flow, e \in Delivery :
               work'[g].token # 0 /\ work'[g].token = ledger'[e].token => work'[g].d = e
        BY <1>1, <2>1, <3>1, ClaimFacts, TokenTypes DEF TokensUnique, Others
      <3>6. QED
        BY <3>2, <3>3, <3>4, <3>5 DEF TokensUnique
    <2>2. CASE ~Claimable(work[f].d)
      BY <1>1, <2>2, LedgerSteady, QuitSteady, TokensSteady DEF ClaimDelivery
    <2>3. QED
      BY <2>1, <2>2
  <1>2. CASE Load(f)
    <2>1. \A g \in Flow : TokenSteady(g)
      BY <1>2, LoadFacts, HeldSteady DEF Load, GoesOn
    <2>2. QED
      BY <1>2, <2>1, LedgerSteady, TokensSteady DEF Load
  <1>3. CASE ReadClaim(f)
    <2>1. \A g \in Flow : TokenSteady(g)
      BY <1>3, ReadFacts, HeldSteady DEF ReadClaim
    <2>2. QED
      BY <1>3, <2>1, LedgerSteady, TokensSteady DEF ReadClaim
  <1>4. CASE RecordLogicalClaim(f)
    <2>1. \A g \in Flow : TokenSteady(g)
      <3>1. work[f].seen.ticket \in Ticket
        BY DEF TypeOK, FlowState, Claim
      <3>2. CASE ~SameMessage(f)
        BY <1>4, <3>2, FailMoves, HeldSteady DEF RecordLogicalClaim
      <3>3. CASE SameMessage(f) /\ work[f].seen.winner = work[f].d
        BY <1>4, <3>3, GotoMoves, HeldSteady DEF RecordLogicalClaim, Pc
      <3>4. CASE SameMessage(f) /\ work[f].seen.winner # work[f].d
        <4> DEFINE pc == IF work[f].seen.ticket = NoTicket THEN "settle" ELSE "ownTicket"
        <4>1. Outcome(f, "SKIPPED", work[f].seen.ticket, pc) /\ work[f].pc = "identify"
          BY <1>4, <3>4 DEF RecordLogicalClaim
        <4>2. pc \in Pc /\ "SKIPPED" \in Final /\ pc \notin {"idle", "claim"}
          BY DEF Pc, Final, Terminal
        <4> HIDE DEF pc
        <4>3. /\ Others(f) /\ work'[f].pc = pc
              /\ work'[f].d = work[f].d /\ work'[f].token = work[f].token
          BY <3>1, <4>1, <4>2, OutcomeMoves
        <4>4. QED
          BY <4>1, <4>2, <4>3, HeldSteady
      <3>5. QED
        BY <3>2, <3>3, <3>4
    <2>2. QED
      BY <1>4, <2>1, IdentityFacts, RowsSteady, TokensSteady DEF RecordLogicalClaim
  <1>5. CASE RecordHeaderlessDelivery(f)
    <2>1. \A g \in Flow : TokenSteady(g)
      BY <1>5, GotoMoves, HeldSteady DEF RecordHeaderlessDelivery, Pc
    <2>2. QED
      BY <1>5, <2>1, IdentityFacts, RowsSteady, TokensSteady DEF RecordHeaderlessDelivery
  <1>6. CASE IdentityLost(f)
    <2>1. \A g \in Flow : TokenSteady(g)
      BY <1>6, FailMoves, HeldSteady DEF IdentityLost
    <2>2. QED
      BY <1>6, <2>1, LedgerSteady, TokensSteady DEF IdentityLost
  <1>7. CASE OwnRoute(f)
    <2>1. \A g \in Flow : TokenSteady(g)
      BY <1>7, GotoMoves, OutcomeMoves, HeldSteady DEF OwnRoute, Pc, Final, Terminal, Ticket
    <2>2. QED
      BY <1>7, <2>1, OwnerFacts, RowsSteady, TokensSteady DEF OwnRoute
  <1>8. CASE Dedup(f)
    <2>1. \A g \in Flow : TokenSteady(g)
      BY <1>8, DedupMoves, HeldSteady DEF Dedup
    <2>2. QED
      BY <1>8, <2>1, LedgerSteady, TokensSteady DEF Dedup
  <1>9. CASE Address(f)
    <2>1. \A g \in Flow : TokenSteady(g)
      BY <1>9, GotoMoves, HeldSteady DEF Address, Pc
    <2>2. QED
      BY <1>9, <2>1, OwnerFacts, RowsSteady, TokensSteady DEF Address
  <1>10. CASE Post(f)
    <2>1. \A g \in Flow : TokenSteady(g)
      BY <1>10, PostMoves, HeldSteady DEF Post
    <2>2. QED
      BY <1>10, <2>1, LedgerSteady, TokensSteady DEF Post
  <1>11. CASE OwnTicket(f)
    <2>1. \A g \in Flow : TokenSteady(g)
      BY <1>11, GotoMoves, HeldSteady DEF OwnTicket, Pc
    <2>2. QED
      BY <1>11, <2>1, OwnerFacts, RowsSteady, TokensSteady DEF OwnTicket
  <1>12. CASE OwnerLost(f)
    <2>1. \A g \in Flow : TokenSteady(g)
      BY <1>12, FailMoves, HeldSteady DEF OwnerLost
    <2>2. QED
      BY <1>12, <2>1, LedgerSteady, TokensSteady DEF OwnerLost
  <1>13. CASE Finalize(f)
    <2>1. \A g \in Flow : TokenSteady(g)
      BY <1>13, GotoMoves, HeldSteady DEF Finalize, Pc
    <2>2. QED
      BY <1>13, <2>1, FinalizeFacts, RowsSteady, TokensSteady DEF Finalize
  <1>14. CASE Settle(f)
    BY <1>14, QuitSteady, SettleSteady, TokensSteady DEF Settle
  <1>15. QED
    BY <1>1, <1>2, <1>3, <1>4, <1>5, <1>6, <1>7, <1>8, <1>9, <1>10, <1>11, <1>12,
       <1>13, <1>14 DEF FlowStep

LEMMA FlowOtherTokens ==
    ASSUME TypeOK, TokensUnique, NEW f \in Flow, FlowOther(f)
    PROVE  TokensUnique'
  <1>1. CASE DrainReads(f)
    BY <1>1, LedgerSteady, WorkSteady, TokensSteady DEF DrainReads
  <1>2. CASE ProcessDelivery(f)
    <2>1. \A g \in Flow : TokenSteady(g)
      BY <1>2, ProcessFacts, OthersSteady, WorkSteady DEF TokenSteady
    <2>2. QED
      BY <1>2, <2>1, LedgerSteady, TokensSteady DEF ProcessDelivery
  <1>3. CASE RawReadFails(f)
    <2>1. \A g \in Flow : TokenSteady(g)
      BY <1>3, RawFailsFacts, HeldSteady DEF RawReadFails, GoesOn
    <2>2. QED
      BY <1>3, <2>1, LedgerSteady, TokensSteady DEF RawReadFails
  <1>4. CASE PostAnswerLost(f)
    <2>1. \A g \in Flow : TokenSteady(g)
      BY <1>4, FailMoves, HeldSteady DEF PostAnswerLost
    <2>2. QED
      BY <1>4, <2>1, LedgerSteady, TokensSteady DEF PostAnswerLost
  <1>5. CASE SettleAnswerLost(f)
    <2>1. \A g \in Flow : TokenSteady(g)
      BY <1>5, FailMoves, HeldSteady DEF SettleAnswerLost
    <2>2. QED
      BY <1>5, <2>1, SettleSteady, TokensSteady DEF SettleAnswerLost
  <1>6. CASE Throws(f)
    <2>1. \A g \in Flow : TokenSteady(g)
      BY <1>6, ThrowsFacts, HeldSteady DEF GoesOn
    <2>2. QED
      BY <1>6, <2>1, LedgerSteady, TokensSteady DEF Throws
  <1>7. CASE FlowDies(f)
    BY <1>7, LedgerSteady, QuitSteady, TokensSteady DEF FlowDies
  <1>8. CASE Heartbeat(f)
    <2>1. ASSUME NEW d \in Delivery PROVE LeaseSteady(d)
      <3>1. ledger[work[f].d].state = "PROCESSING" /\ ledger[work[f].d].lease = "expired"
        BY <1>8 DEF Heartbeat, Fenced
      <3>2. /\ ledger'[d].state = ledger[d].state /\ ledger'[d].token = ledger[d].token
            /\ ledger'[d].lease = IF d = work[f].d THEN "live" ELSE ledger[d].lease
        BY <1>8, HeartbeatFacts
      <3>3. /\ (ledger[d].state = "PROCESSING") = (ledger[d].token # 0)
            /\ (ledger[d].state = "PROCESSING") = (ledger[d].lease # "none")
        BY DEF TokensUnique
      <3>4. QED
        BY <3>1, <3>2, <3>3 DEF LeaseSteady
    <2>2. QED
      BY <1>8, <2>1, WorkSteady, TokensSteady DEF Heartbeat
  <1>9. ASSUME NEW d \in Delivery, IngestRawMessage(f, d) PROVE TokensUnique'
    <2>1. \A e \in Delivery : LeaseSteady(e)
      BY <1>9, AcceptFacts DEF TokensUnique, LeaseSteady
    <2>2. QED
      BY <1>9, <2>1, WorkSteady, TokensSteady DEF IngestRawMessage
  <1>10. QED
    BY <1>1, <1>2, <1>3, <1>4, <1>5, <1>6, <1>7, <1>8, <1>9 DEF FlowOther

LEMMA EventTokens ==
    ASSUME TypeOK, TokensUnique,
           \/ \E d \in Delivery : RowEvent(d)
           \/ \E p \in Process : Crash(p)
           \/ PruneSelects \/ PruneWrites
    PROVE  TokensUnique'
  <1>1. ASSUME NEW d \in Delivery, Accept(d) PROVE TokensUnique'
    <2>1. \A e \in Delivery : LeaseSteady(e)
      BY <1>1, AcceptFacts DEF TokensUnique, LeaseSteady
    <2>2. QED
      BY <1>1, <2>1, WorkSteady, TokensSteady DEF Accept
  <1>2. ASSUME NEW d \in Delivery, LeaseExpires(d) PROVE TokensUnique'
    <2>1. \A e \in Delivery : LeaseSteady(e)
      BY <1>2, ExpiryFacts DEF TokensUnique, LeaseSteady
    <2>2. QED
      BY <1>2, <2>1, WorkSteady, TokensSteady DEF LeaseExpires
  <1>3. ASSUME NEW d \in Delivery, RetryBecomesDue(d) PROVE TokensUnique'
    BY <1>3, DueFacts, RowsSteady, WorkSteady, TokensSteady DEF RetryBecomesDue
  <1>4. ASSUME NEW d \in Delivery, ReplayQuarantined(d) PROVE TokensUnique'
    <2>1. \A e \in Delivery : LeaseSteady(e)
      BY <1>4, ReplayFacts DEF TokensUnique, LeaseSteady
    <2>2. QED
      BY <1>4, <2>1, WorkSteady, TokensSteady DEF ReplayQuarantined
  <1>5. ASSUME NEW p \in Process, Crash(p) PROVE TokensUnique'
    <2>1. \A f \in Flow : TokenSteady(f)
      BY <1>5, CrashFacts DEF TokensUnique, TokenSteady
    <2>2. QED
      BY <1>5, <2>1, LedgerSteady, TokensSteady DEF Crash
  <1>6. CASE PruneSelects
    BY <1>6, LedgerSteady, WorkSteady, TokensSteady DEF PruneSelects
  <1>7. CASE PruneWrites
    <2>1. \A e \in Delivery : LeaseSteady(e)
      BY <1>7, PruneFacts DEF TokensUnique, LeaseSteady
    <2>2. QED
      BY <1>7, <2>1, WorkSteady, TokensSteady DEF PruneWrites
  <1>8. QED
    BY <1>1, <1>2, <1>3, <1>4, <1>5, <1>6, <1>7 DEF RowEvent
--------------------------------------------------------------------------------
(* Who writes a row: the holder of its lease; somebody when there is no    *)
(* lease or it has expired; and nobody once the row is settled.            *)

RowFrozen(d) ==
    \A c \in {"state", "attempts", "token", "identified", "ticket", "retryAt"} :
       ledger'[d][c] = ledger[d][c]
HolderWrites(d) == \E f \in Flow : work[f].d = d /\ Fenced(f) /\ work'[f] # work[f]
Open(d) == \/ ledger[d].state \in {"ABSENT", "ACCEPTED", "RETRY", "QUARANTINED"}
           \/ ledger[d].state = "PROCESSING" /\ ledger[d].lease = "expired"
Written(d) == RowFrozen(d) \/ HolderWrites(d) \/ Open(d)

LEMMA SameRowFrozen ==
    ASSUME NEW d \in Delivery, ledger'[d] = ledger[d]
    PROVE  RowFrozen(d)
  BY DEF RowFrozen

LEMMA ColumnsFrozen ==
    ASSUME NEW d \in Delivery, KeepsRow(d), ledger'[d].identified = ledger[d].identified,
           ledger'[d].retryAt = ledger[d].retryAt
    PROVE  RowFrozen(d)
  BY DEF RowFrozen, KeepsRow

LEMMA FlowWrites ==
    ASSUME TypeOK, NEW f \in Flow, FlowStep(f) \/ FlowOther(f), NEW d \in Delivery
    PROVE  Written(d)
  <1> USE DEF Written
  <1>a. UNCHANGED ledger => RowFrozen(d)
    BY DEF RowFrozen
  <1>1. CASE ClaimDelivery(f)
    <2>1. CASE Claimable(work[f].d) /\ work[f].d = d
      BY <2>1 DEF Claimable, Open
    <2>2. CASE Claimable(work[f].d) /\ work[f].d # d
      BY <1>1, <2>2, ClaimFacts, SameRowFrozen
    <2>3. CASE ~Claimable(work[f].d)
      BY <1>1, <1>a, <2>3 DEF ClaimDelivery
    <2>4. QED
      BY <2>1, <2>2, <2>3
  <1>2. CASE RecordLogicalClaim(f) \/ RecordHeaderlessDelivery(f)
    <2>1. RecordIdentity(f) /\ Fenced(f) /\ work[f].pc \in {"identify", "headerless"}
      BY <1>2 DEF RecordLogicalClaim, RecordHeaderlessDelivery
    <2>2. work'[f].pc \in {"fail", "own", "settle", "ownTicket"}
      <3>1. work[f].seen.ticket \in Ticket
        BY DEF TypeOK, FlowState, Claim
      <3>2. CASE RecordHeaderlessDelivery(f)
        BY <3>2, GotoMoves DEF RecordHeaderlessDelivery, Pc
      <3>3. CASE RecordLogicalClaim(f)
        <4>1. CASE ~SameMessage(f)
          BY <3>3, <4>1, FailMoves DEF RecordLogicalClaim
        <4>2. CASE SameMessage(f) /\ work[f].seen.winner = work[f].d
          BY <3>3, <4>2, GotoMoves DEF RecordLogicalClaim, Pc
        <4>3. CASE SameMessage(f) /\ work[f].seen.winner # work[f].d
          <5> DEFINE pc == IF work[f].seen.ticket = NoTicket THEN "settle" ELSE "ownTicket"
          <5>1. Outcome(f, "SKIPPED", work[f].seen.ticket, pc) /\ work[f].pc = "identify"
            BY <3>3, <4>3 DEF RecordLogicalClaim
          <5>2. pc \in Pc /\ "SKIPPED" \in Final /\ pc \in {"settle", "ownTicket"}
            BY DEF Pc, Final, Terminal
          <5> HIDE DEF pc
          <5>3. work'[f].pc = pc
            BY <3>1, <5>1, <5>2, OutcomeMoves
          <5>4. QED
            BY <5>2, <5>3
        <4>4. QED
          BY <4>1, <4>2, <4>3
      <3>4. QED
        BY <1>2, <3>2, <3>3
    <2>3. CASE work[f].d = d
      BY <2>1, <2>2, <2>3 DEF HolderWrites
    <2>4. CASE work[f].d # d
      BY <2>1, <2>4, IdentityFacts, SameRowFrozen
    <2>5. QED
      BY <2>3, <2>4
  <1>3. CASE OwnRoute(f) \/ Address(f) \/ OwnTicket(f)
    <2>1. PICK owner, keep : PersistEffectiveOwner(f, owner, keep)
      BY <1>3 DEF OwnRoute, Address, OwnTicket
    <2>2. work[f].pc # "idle"
      BY <1>3 DEF OwnRoute, Address, OwnTicket
    <2>3. CASE work[f].d = d
      BY <2>1, <2>2, <2>3, OwnerFacts DEF RowFrozen
    <2>4. CASE work[f].d # d
      BY <2>1, <2>2, <2>4, OwnerFacts, SameRowFrozen
    <2>5. QED
      BY <2>3, <2>4
  <1>4. CASE Finalize(f)
    BY <1>4, FinalizeFacts, ColumnsFrozen DEF KeepsRows
  <1>5. CASE Settle(f) \/ SettleAnswerLost(f)
    <2>1. SettleRow(f) /\ work[f].pc # "idle"
      BY <1>5 DEF Settle, SettleAnswerLost
    <2>2. work'[f].pc # work[f].pc
      BY <1>5, IdleFacts, FailMoves DEF Settle, SettleAnswerLost
    <2>3. CASE work[f].d = d /\ Fenced(f)
      BY <2>2, <2>3 DEF HolderWrites
    <2>4. CASE work[f].d # d \/ ~Fenced(f)
      BY <2>1, <2>4, SettleFacts, SameRowFrozen
    <2>5. QED
      BY <2>3, <2>4
  <1>6. CASE Heartbeat(f)
    BY <1>6, HeartbeatFacts DEF RowFrozen
  <1>7. ASSUME NEW e \in Delivery, IngestRawMessage(f, e) PROVE Written(d)
    <2>1. CASE e = d
      BY <1>7, <2>1, AcceptFacts DEF Open
    <2>2. CASE e # d
      BY <1>7, <2>2, AcceptFacts, SameRowFrozen
    <2>3. QED
      BY <2>1, <2>2
  <1>8. CASE UNCHANGED ledger
    BY <1>a, <1>8
  <1>9. \/ UNCHANGED ledger
        \/ ClaimDelivery(f) \/ RecordLogicalClaim(f) \/ RecordHeaderlessDelivery(f)
        \/ OwnRoute(f) \/ Address(f) \/ OwnTicket(f) \/ Finalize(f) \/ Settle(f)
        \/ SettleAnswerLost(f) \/ Heartbeat(f) \/ \E e \in Delivery : IngestRawMessage(f, e)
    BY DEF FlowStep, FlowOther, Load, ReadClaim, IdentityLost, Dedup, Post, OwnerLost,
           DrainReads, ProcessDelivery, RawReadFails, PostAnswerLost, Throws, FlowDies
  <1>10. QED
    BY <1>1, <1>2, <1>3, <1>4, <1>5, <1>6, <1>7, <1>8, <1>9

LEMMA EventWrites ==
    ASSUME TypeOK, NEW d \in Delivery,
           \/ \E e \in Delivery : RowEvent(e)
           \/ \E p \in Process : Crash(p)
           \/ PruneSelects \/ PruneWrites
    PROVE  Written(d)
  <1> USE DEF Written
  <1>1. ASSUME NEW e \in Delivery, Accept(e) PROVE Written(d)
    BY <1>1, AcceptFacts, SameRowFrozen DEF Open
  <1>2. ASSUME NEW e \in Delivery, LeaseExpires(e) PROVE Written(d)
    BY <1>2, ExpiryFacts DEF RowFrozen
  <1>3. ASSUME NEW e \in Delivery, RetryBecomesDue(e) PROVE Written(d)
    BY <1>3, DueFacts, SameRowFrozen DEF Open
  <1>4. ASSUME NEW e \in Delivery, ReplayQuarantined(e) PROVE Written(d)
    BY <1>4, ReplayFacts, SameRowFrozen DEF Open
  <1>5. CASE PruneWrites
    BY <1>5, PruneFacts DEF RowFrozen
  <1>6. CASE UNCHANGED ledger
    BY <1>6 DEF RowFrozen
  <1>7. ASSUME NEW p \in Process, Crash(p) PROVE UNCHANGED ledger
    BY <1>7 DEF Crash
  <1>8. PruneSelects => UNCHANGED ledger
    BY DEF PruneSelects
  <1>9. QED
    BY <1>1, <1>2, <1>3, <1>4, <1>5, <1>6, <1>7, <1>8 DEF RowEvent

(* A row under a live lease is moved by the flow that holds the lease and  *)
(* by nobody else, and what is settled stays as it was settled.            *)
LEMMA WritersMove ==
    ASSUME TypeOK, TokensUnique, [Next]_vars, NEW d \in Delivery
    PROVE  /\ ledger[d].lease = "live" /\ ~HolderMoves(d) => RowFrozen(d)
           /\ ledger[d].state \in Terminal =>
                ledger'[d].state = ledger[d].state /\ ledger'[d].ticket = ledger[d].ticket
  <1>1. CASE UNCHANGED vars
    BY <1>1 DEF vars, RowFrozen
  <1>2. CASE Next
    <2>1. Written(d)
      BY <1>2, Steps, FlowWrites, EventWrites
    <2>2. HolderWrites(d) => HolderMoves(d) /\ ledger[d].state = "PROCESSING"
      BY DEF HolderWrites, HolderMoves, Fenced
    <2>3. Open(d) => ledger[d].lease # "live" /\ ledger[d].state \notin Terminal
      BY DEF Open, TokensUnique, Terminal
    <2>4. RowFrozen(d) => ledger'[d].state = ledger[d].state /\ ledger'[d].ticket = ledger[d].ticket
      BY DEF RowFrozen
    <2>5. QED
      BY <2>1, <2>2, <2>3, <2>4 DEF Written, Terminal
  <1>3. QED
    BY <1>1, <1>2

LEMMA TokensInit == Init => TokensUnique
  BY DEF Init, TokensUnique, Absent, Idle

LEMMA TokensNext == TypeOK /\ TokensUnique /\ [Next]_vars => TokensUnique'
  <1> SUFFICES ASSUME TypeOK, TokensUnique, [Next]_vars PROVE TokensUnique'
    OBVIOUS
  <1>1. CASE UNCHANGED vars
    BY <1>1, LedgerSteady, WorkSteady, TokensSteady DEF vars
  <1>2. CASE Next
    BY <1>2, Steps, FlowStepTokens, FlowOtherTokens, EventTokens
  <1>3. QED
    BY <1>1, <1>2

(* The lease as a lock, for any number of flows, crashes and stalls: a row *)
(* is moved under a live lease only by its holder, and a PROCESSED or      *)
(* SKIPPED row by nobody (deliverySettle, deliveryClaim and their fences). *)
THEOREM OnlyHoldersMove == Spec => OnlyTheHolderMoves
  <1>1. Spec => [](TypeOK /\ TokensUnique)
    <2>1. Init => TypeOK /\ TokensUnique
      BY InitType, TokensInit
    <2>2. TypeOK /\ TokensUnique /\ [Next]_vars => (TypeOK /\ TokensUnique)'
      BY NextType, TokensNext
    <2>3. QED
      BY <2>1, <2>2, PTL DEF Spec
  <1>2. TypeOK /\ TokensUnique /\ [Next]_vars =>
          [\A d \in Delivery :
             ledger[d].lease = "live" /\ ~HolderMoves(d) =>
                \A c \in {"state", "attempts", "token", "identified", "ticket", "retryAt"} :
                   ledger'[d][c] = ledger[d][c]]_vars
    BY WritersMove DEF RowFrozen
  <1>3. TypeOK /\ TokensUnique /\ [Next]_vars =>
          [\A d \in Delivery : ledger[d].state \in Terminal =>
             ledger'[d].state = ledger[d].state /\ ledger'[d].ticket = ledger[d].ticket]_vars
    BY WritersMove
  <1>4. QED
    BY <1>1, <1>2, <1>3, PTL DEF Spec, OnlyTheHolderMoves, LiveLeaseIsExclusive, SettledIsFinal
--------------------------------------------------------------------------------
(* The life of a row: what its attempts pay for, that flows and retention  *)
(* meet only rows that exist, and that unfinished rows keep their bytes.   *)

LifeInv == PoisonBudget /\ AttemptsPaid /\ RowsExist /\ ReplayableKeepsRaw

Gone   == Terminal \cup {"ABSENT"}
Paying == {"load", "logical", "identify", "headerless"}

RowQuiet(d) ==
    /\ ledger'[d].state = "ABSENT" => ledger[d].state = "ABSENT"
    /\ ledger[d].state \in Terminal => ledger'[d].state \in Terminal
    /\ ledger'[d].state \notin Gone =>
         \/ ledger'[d].raw
         \/ ledger'[d].raw = ledger[d].raw /\ ledger[d].state \notin Gone
    /\ \/ /\ ledger'[d].attempts = ledger[d].attempts /\ runs'[d] = runs[d]
          /\ ledger'[d].state = "PROCESSING" =>
               ledger[d].state = "PROCESSING" /\ ledger'[d].token = ledger[d].token
       \/ runs'[d] = 0 /\ ledger'[d].state # "PROCESSING"
FlowQuiet(f) ==
    /\ work'[f].pc # "idle" => \/ work[f].pc # "idle" /\ work'[f].d = work[f].d
                               \/ ledger[work'[f].d].state # "ABSENT"
    /\ work'[f].pc \in Paying =>
         /\ work[f].pc \in Paying /\ work'[f].d = work[f].d /\ work'[f].token = work[f].token
         /\ work'[f].pc # "load" /\ work[f].pc = "load" => ledger[work[f].d].attempts <= MaxAttempts
    /\ \A d \in due'[f] : d \in due[f] \/ ledger'[d].state # "ABSENT"

LEMMA LifeTypes ==
    ASSUME TypeOK
    PROVE  /\ MaxAttempts \in Nat \ {0}
           /\ \A d \in Delivery : runs[d] \in Nat /\ ledger[d].attempts \in Nat
           /\ \A f \in Flow : work[f].pc # "idle" => work[f].d \in Delivery
           /\ \A f \in Flow : due[f] \subseteq Delivery
           /\ doomed \subseteq Delivery
  BY BoundAssumption DEF TypeOK, Row

LEMMA LifeSteady ==
    ASSUME TypeOK, TypeOK', LifeInv, \A d \in Delivery : RowQuiet(d), \A f \in Flow : FlowQuiet(f),
           \A d \in doomed' : d \in doomed \/ ledger'[d].state \in Terminal
    PROVE  LifeInv'
  <1> USE DEF LifeInv
  <1>a. /\ \A d \in Delivery : runs'[d] \in Nat /\ ledger'[d].attempts \in Nat
        /\ \A f \in Flow : work'[f].pc # "idle" => work'[f].d \in Delivery
        /\ \A f \in Flow : due'[f] \subseteq Delivery
        /\ doomed' \subseteq Delivery
    BY DEF TypeOK, Row
  <1>1. PoisonBudget'
    BY LifeTypes DEF PoisonBudget, RowQuiet
  <1>2. AttemptsPaid'
    <2>1. \A d \in Delivery : /\ runs'[d] <= ledger'[d].attempts
                              /\ ledger'[d].state = "ABSENT" => runs'[d] = 0
      BY <1>a, LifeTypes DEF AttemptsPaid, RowQuiet
    <2>2. ASSUME NEW f \in Flow, work'[f].pc \in Paying, Fenced(f)'
          PROVE  /\ runs'[work'[f].d] < ledger'[work'[f].d].attempts
                 /\ work'[f].pc # "load" => ledger'[work'[f].d].attempts <= MaxAttempts
      <3>1. /\ work'[f].d = work[f].d /\ work[f].d \in Delivery /\ work'[f].token = work[f].token
            /\ work[f].pc \in Paying
        BY <1>a, <2>2 DEF FlowQuiet, Paying
      <3>2. /\ ledger'[work[f].d].attempts = ledger[work[f].d].attempts
            /\ runs'[work[f].d] = runs[work[f].d] /\ Fenced(f)
        BY <2>2, <3>1 DEF RowQuiet, Fenced
      <3>3. /\ runs[work[f].d] < ledger[work[f].d].attempts
            /\ work[f].pc # "load" => ledger[work[f].d].attempts <= MaxAttempts
        BY <3>1, <3>2 DEF AttemptsPaid, Paying
      <3>4. QED
        BY <2>2, <3>1, <3>2, <3>3 DEF FlowQuiet
    <2>3. QED
      BY <2>1, <2>2 DEF AttemptsPaid, Paying
  <1>3. RowsExist'
    BY <1>a, LifeTypes DEF RowsExist, RowQuiet, FlowQuiet
  <1>4. ReplayableKeepsRaw'
    BY DEF ReplayableKeepsRaw, RowQuiet, Gone
  <1>5. QED
    BY <1>1, <1>2, <1>3, <1>4

LEMMA RowsQuiet ==
    ASSUME KeepsRows, UNCHANGED runs
    PROVE  \A d \in Delivery : RowQuiet(d)
  BY DEF KeepsRows, KeepsRow, RowQuiet

LEMMA LedgerQuiet ==
    ASSUME UNCHANGED <<ledger, runs>>
    PROVE  \A d \in Delivery : RowQuiet(d)
  BY DEF RowQuiet

LEMMA SettleQuiet ==
    ASSUME TypeOK, NEW f \in Flow, work[f].pc # "idle", SettleRow(f), UNCHANGED runs
    PROVE  \A d \in Delivery : RowQuiet(d)
  <1>1. work[f].target \notin {"PROCESSING", "ABSENT"} /\ work[f].d \in Delivery
    BY DEF TypeOK, FlowState, Final, Terminal
  <1>2. QED
    BY <1>1, SettleFacts DEF RowQuiet, Fenced, Gone, Terminal

LEMMA AcceptQuiet ==
    ASSUME TypeOK, NEW d \in Delivery, Accept(d) \/ \E f \in Flow : IngestRawMessage(f, d),
           UNCHANGED runs, runs[d] = 0
    PROVE  \A e \in Delivery : RowQuiet(e)
  <1>1. ASSUME NEW e \in Delivery, e # d PROVE RowQuiet(e)
    <2>1. ledger'[e] = ledger[e]
      BY <1>1, AcceptFacts
    <2>2. QED
      BY <2>1 DEF RowQuiet
  <1>2. /\ ledger[d].state = "ABSENT" /\ ledger'[d].state \in {"ACCEPTED", "QUARANTINED"}
        /\ ledger'[d].raw
    BY AcceptFacts
  <1>3. runs'[d] = 0 /\ ledger'[d].state # "ABSENT" /\ ledger'[d].state # "PROCESSING"
        /\ ledger[d].state \notin Terminal
    BY <1>2 DEF Terminal
  <1>4. RowQuiet(d)
    BY <1>2, <1>3, Zenon DEF RowQuiet
  <1>5. QED
    BY <1>1, <1>4

LEMMA OthersQuiet ==
    ASSUME NEW f \in Flow, Others(f), UNCHANGED due, FlowQuiet(f)
    PROVE  \A g \in Flow : FlowQuiet(g)
  BY DEF Others, FlowQuiet

LEMMA WorkQuiet ==
    ASSUME UNCHANGED <<work, due>>
    PROVE  \A g \in Flow : FlowQuiet(g)
  BY DEF FlowQuiet

(* A flow past its identification, or about to give up.                    *)
LEMMA PastQuiet ==
    ASSUME NEW f \in Flow, Others(f), UNCHANGED due, work[f].pc # "idle",
           work'[f].d = work[f].d, work'[f].pc \notin Paying
    PROVE  \A g \in Flow : FlowQuiet(g)
  BY OthersQuiet DEF FlowQuiet

LEMMA QuitQuiet ==
    ASSUME TypeOK, NEW f \in Flow, work' = [work EXCEPT ![f] = Idle], \A g \in Flow : due'[g] \subseteq due[g]
    PROVE  \A g \in Flow : FlowQuiet(g)
  BY IdleFacts DEF Others, FlowQuiet, Paying

(* A run of the pipeline is paid by the attempt of the claim before it.    *)
LEMMA RunIsPaid ==
    ASSUME TypeOK, TypeOK', TokensUnique, LifeInv, NEW f \in Flow, RecordIdentity(f), Fenced(f),
           work[f].pc \in {"identify", "headerless"}, work'[f].pc \notin Paying \cup {"idle"},
           Others(f), work'[f].d = work[f].d, UNCHANGED <<due, doomed>>
    PROVE  LifeInv'
  <1> DEFINE d == work[f].d
  <1>1. /\ d \in Delivery /\ work[f].pc # "idle" /\ work[f].token # 0
        /\ runs[d] < ledger[d].attempts /\ ledger[d].attempts <= MaxAttempts
    BY DEF LifeInv, AttemptsPaid, TypeOK, TokensUnique
  <1>2. /\ KeepsRows /\ runs'[d] = runs[d] + 1 /\ \A e \in Delivery \ {d} : runs'[e] = runs[e]
    BY <1>1, IdentityFacts
  <1>3. PoisonBudget'
    BY <1>1, <1>2, LifeTypes DEF PoisonBudget, LifeInv
  <1>4. \A e \in Delivery : /\ runs'[e] <= ledger'[e].attempts
                            /\ ledger'[e].state = "ABSENT" => runs'[e] = 0
    BY <1>1, <1>2, LifeTypes DEF LifeInv, AttemptsPaid, KeepsRows, KeepsRow, Fenced
  <1>5. ASSUME NEW g \in Flow, work'[g].pc \in Paying, Fenced(g)'
        PROVE  /\ runs'[work'[g].d] < ledger'[work'[g].d].attempts
               /\ work'[g].pc # "load" => ledger'[work'[g].d].attempts <= MaxAttempts
    <2>1. g # f /\ work'[g] = work[g]
      BY <1>5 DEF Others
    <2>2. work[g].d \in Delivery
      BY <1>5, <2>1 DEF TypeOK, Paying
    <2>3. Fenced(g)
      BY <1>2, <1>5, <2>1, <2>2 DEF Fenced, KeepsRows, KeepsRow
    <2>4. work[g].d # d
      BY <1>1, <2>1, <2>3 DEF Fenced, TokensUnique
    <2>5. QED
      BY <1>2, <1>5, <2>1, <2>2, <2>3, <2>4 DEF LifeInv, AttemptsPaid, Paying, KeepsRows, KeepsRow
  <1>6. AttemptsPaid'
    BY <1>4, <1>5 DEF AttemptsPaid, Paying
  <1>7. RowsExist'
    BY <1>1, <1>2, LifeTypes DEF LifeInv, RowsExist, KeepsRows, KeepsRow, Others
  <1>8. ReplayableKeepsRaw'
    BY <1>2 DEF LifeInv, ReplayableKeepsRaw, KeepsRows, KeepsRow
  <1>9. QED
    BY <1>3, <1>6, <1>7, <1>8 DEF LifeInv

LEMMA ClaimLife ==
    ASSUME TypeOK, TypeOK', TokensUnique, LifeInv, NEW f \in Flow, ClaimDelivery(f), Claimable(work[f].d)
    PROVE  LifeInv'
  <1> DEFINE d == work[f].d
  <1>1. d \in Delivery /\ UNCHANGED <<runs, due, doomed>> /\ work[f].pc # "idle"
    BY DEF ClaimDelivery, TypeOK
  <1>2. ledger[d].state \notin Gone /\ ledger'[d].state = "PROCESSING"
    BY ClaimFacts DEF Claimable, Gone, Terminal
  <1>3. PoisonBudget'
    BY <1>1 DEF LifeInv, PoisonBudget
  <1>4. \A e \in Delivery : /\ runs'[e] <= ledger'[e].attempts
                            /\ ledger'[e].state = "ABSENT" => runs'[e] = 0
    BY <1>1, <1>2, ClaimFacts, LifeTypes DEF LifeInv, AttemptsPaid
  <1>5. ASSUME NEW g \in Flow, work'[g].pc \in Paying, Fenced(g)'
        PROVE  /\ runs'[work'[g].d] < ledger'[work'[g].d].attempts
               /\ work'[g].pc # "load" => ledger'[work'[g].d].attempts <= MaxAttempts
    <2>1. CASE g = f
      <3>1. runs[d] <= ledger[d].attempts
        BY <1>1 DEF LifeInv, AttemptsPaid
      <3>2. QED
        BY <1>1, <2>1, <3>1, ClaimFacts, LifeTypes
    <2>2. CASE g # f
      <3>1. work'[g] = work[g] /\ work[g].d \in Delivery
        BY <1>5, <2>2, ClaimFacts DEF Others, TypeOK, Paying
      <3>2. work[g].d # d
        BY <1>5, <2>2, <3>1, ClaimFacts, TokenTypes DEF Fenced, TokensUnique
      <3>3. QED
        BY <1>1, <1>5, <3>1, <3>2, ClaimFacts DEF Fenced, LifeInv, AttemptsPaid, Paying
    <2>3. QED
      BY <2>1, <2>2
  <1>6. AttemptsPaid'
    BY <1>4, <1>5 DEF AttemptsPaid, Paying
  <1>7. RowsExist'
    BY <1>1, <1>2, ClaimFacts, LifeTypes DEF LifeInv, RowsExist, Others, Gone
  <1>8. ReplayableKeepsRaw'
    BY <1>1, <1>2, ClaimFacts DEF LifeInv, ReplayableKeepsRaw, Gone
  <1>9. QED
    BY <1>3, <1>6, <1>7, <1>8 DEF LifeInv

LEMMA FlowStepLife ==
    ASSUME TypeOK, TypeOK', TokensUnique, LifeInv, NEW f \in Flow, FlowStep(f)
    PROVE  LifeInv'
  <1> USE DEF Paying
  <1>1. CASE ClaimDelivery(f)
    <2>1. CASE Claimable(work[f].d)
      BY <1>1, <2>1, ClaimLife
    <2>2. CASE ~Claimable(work[f].d)
      BY <1>1, <2>2, LedgerQuiet, QuitQuiet, LifeSteady DEF ClaimDelivery
    <2>3. QED
      BY <2>1, <2>2
  <1>2. CASE Load(f)
    <2>1. FlowQuiet(f)
      BY <1>2, LoadFacts DEF Load, GoesOn, FlowQuiet
    <2>2. QED
      BY <1>2, <2>1, LoadFacts, OthersQuiet, LedgerQuiet, LifeSteady DEF Load, GoesOn
  <1>3. CASE ReadClaim(f)
    <2>1. FlowQuiet(f)
      BY <1>3, ReadFacts DEF ReadClaim, FlowQuiet
    <2>2. QED
      BY <1>3, <2>1, ReadFacts, OthersQuiet, LedgerQuiet, LifeSteady DEF ReadClaim
  <1>4. CASE RecordLogicalClaim(f)
    <2>1. /\ Others(f) /\ work'[f].d = work[f].d /\ work'[f].pc \notin Paying \cup {"idle"}
      <3>1. work[f].seen.ticket \in Ticket
        BY DEF TypeOK, FlowState, Claim
      <3>2. CASE ~SameMessage(f)
        BY <1>4, <3>2, FailMoves DEF RecordLogicalClaim
      <3>3. CASE SameMessage(f) /\ work[f].seen.winner = work[f].d
        BY <1>4, <3>3, GotoMoves DEF RecordLogicalClaim, Pc
      <3>4. CASE SameMessage(f) /\ work[f].seen.winner # work[f].d
        BY <1>4, <3>1, <3>4, OutcomeMoves DEF RecordLogicalClaim, Pc, Final, Terminal
      <3>5. QED
        BY <3>2, <3>3, <3>4
    <2>2. QED
      BY <1>4, <2>1, RunIsPaid DEF RecordLogicalClaim
  <1>5. CASE RecordHeaderlessDelivery(f)
    <2>1. Others(f) /\ work'[f].d = work[f].d /\ work'[f].pc \notin Paying \cup {"idle"}
      BY <1>5, GotoMoves DEF RecordHeaderlessDelivery, Pc
    <2>2. QED
      BY <1>5, <2>1, RunIsPaid DEF RecordHeaderlessDelivery
  <1>6. CASE IdentityLost(f)
    BY <1>6, FailMoves, PastQuiet, LedgerQuiet, LifeSteady DEF IdentityLost
  <1>7. CASE OwnRoute(f)
    <2>1. \A g \in Flow : FlowQuiet(g)
      BY <1>7, GotoMoves, OutcomeMoves, PastQuiet DEF OwnRoute, Pc, Final, Terminal, Ticket
    <2>2. QED
      BY <1>7, <2>1, OwnerFacts, RowsQuiet, LifeSteady DEF OwnRoute
  <1>8. CASE Dedup(f)
    <2>1. \A g \in Flow : FlowQuiet(g)
      BY <1>8, DedupMoves, PastQuiet DEF Dedup
    <2>2. QED
      BY <1>8, <2>1, LedgerQuiet, LifeSteady DEF Dedup
  <1>9. CASE Address(f)
    <2>1. \A g \in Flow : FlowQuiet(g)
      BY <1>9, GotoMoves, PastQuiet DEF Address, Pc
    <2>2. QED
      BY <1>9, <2>1, OwnerFacts, RowsQuiet, LifeSteady DEF Address
  <1>10. CASE Post(f)
    <2>1. \A g \in Flow : FlowQuiet(g)
      BY <1>10, PostMoves, PastQuiet DEF Post
    <2>2. QED
      BY <1>10, <2>1, LedgerQuiet, LifeSteady DEF Post
  <1>11. CASE OwnTicket(f)
    <2>1. \A g \in Flow : FlowQuiet(g)
      BY <1>11, GotoMoves, PastQuiet DEF OwnTicket, Pc
    <2>2. QED
      BY <1>11, <2>1, OwnerFacts, RowsQuiet, LifeSteady DEF OwnTicket
  <1>12. CASE OwnerLost(f)
    BY <1>12, FailMoves, PastQuiet, LedgerQuiet, LifeSteady DEF OwnerLost
  <1>13. CASE Finalize(f)
    <2>1. \A g \in Flow : FlowQuiet(g)
      BY <1>13, GotoMoves, PastQuiet DEF Finalize, Pc
    <2>2. QED
      BY <1>13, <2>1, FinalizeFacts, RowsQuiet, LifeSteady DEF Finalize
  <1>14. CASE Settle(f)
    BY <1>14, QuitQuiet, SettleQuiet, LifeSteady DEF Settle
  <1>15. QED
    BY <1>1, <1>2, <1>3, <1>4, <1>5, <1>6, <1>7, <1>8, <1>9, <1>10, <1>11, <1>12,
       <1>13, <1>14 DEF FlowStep

LEMMA FlowOtherLife ==
    ASSUME TypeOK, TypeOK', LifeInv, NEW f \in Flow, FlowOther(f)
    PROVE  LifeInv'
  <1> USE DEF Paying
  <1>1. CASE DrainReads(f)
    <2>1. due'[f] = Lowest({d \in Delivery : Claimable(d)}) /\ \A g \in Flow \ {f} : due'[g] = due[g]
      BY <1>1 DEF DrainReads, TypeOK
    <2>2. \A d \in due'[f] : ledger[d].state # "ABSENT"
      BY <2>1 DEF Lowest, Claimable
    <2>3. \A g \in Flow : FlowQuiet(g)
      BY <1>1, <2>1, <2>2 DEF DrainReads, FlowQuiet
    <2>4. QED
      BY <1>1, <2>3, LedgerQuiet, LifeSteady DEF DrainReads
  <1>2. CASE ProcessDelivery(f)
    <2>1. \A d \in due[f] : ledger[d].state # "ABSENT"
      BY DEF LifeInv, RowsExist
    <2>2. \A g \in Flow : FlowQuiet(g)
      BY <1>2, <2>1, ProcessFacts DEF ProcessDelivery, FlowQuiet, Others
    <2>3. QED
      BY <1>2, <2>2, LedgerQuiet, LifeSteady DEF ProcessDelivery
  <1>3. CASE RawReadFails(f)
    <2>1. \A g \in Flow : FlowQuiet(g)
      BY <1>3, RawFailsFacts, PastQuiet DEF RawReadFails, GoesOn
    <2>2. QED
      BY <1>3, <2>1, LedgerQuiet, LifeSteady DEF RawReadFails
  <1>4. CASE PostAnswerLost(f)
    BY <1>4, FailMoves, PastQuiet, LedgerQuiet, LifeSteady DEF PostAnswerLost
  <1>5. CASE SettleAnswerLost(f)
    <2>1. \A g \in Flow : FlowQuiet(g)
      BY <1>5, FailMoves, PastQuiet DEF SettleAnswerLost
    <2>2. QED
      BY <1>5, <2>1, SettleQuiet, LifeSteady DEF SettleAnswerLost
  <1>6. CASE Throws(f)
    <2>1. \A g \in Flow : FlowQuiet(g)
      BY <1>6, ThrowsFacts, PastQuiet DEF Throws, GoesOn
    <2>2. QED
      BY <1>6, <2>1, LedgerQuiet, LifeSteady DEF Throws
  <1>7. CASE FlowDies(f)
    <2>1. \A g \in Flow : due'[g] \subseteq due[g]
      BY <1>7 DEF FlowDies, TypeOK
    <2>2. QED
      BY <1>7, <2>1, QuitQuiet, LedgerQuiet, LifeSteady DEF FlowDies
  <1>8. CASE Heartbeat(f)
    <2>1. \A d \in Delivery : RowQuiet(d)
      BY <1>8, HeartbeatFacts DEF Heartbeat, RowQuiet
    <2>2. QED
      BY <1>8, <2>1, WorkQuiet, LifeSteady DEF Heartbeat
  <1>9. ASSUME NEW d \in Delivery, IngestRawMessage(f, d) PROVE LifeInv'
    <2>1. UNCHANGED <<runs, work>> /\ runs[d] = 0
      BY <1>9 DEF IngestRawMessage, LifeInv, AttemptsPaid
    <2>2. due'[f] = {d} /\ \A g \in Flow \ {f} : due'[g] = due[g]
      BY <1>9 DEF IngestRawMessage, TypeOK
    <2>3. \A e \in Delivery : RowQuiet(e)
      BY <1>9, <2>1, AcceptQuiet
    <2>4. ledger'[d].state # "ABSENT"
      BY <1>9, AcceptFacts
    <2>5. \A g \in Flow : FlowQuiet(g)
      BY <2>1, <2>2, <2>4 DEF FlowQuiet
    <2>6. QED
      BY <1>9, <2>3, <2>5, LifeSteady DEF IngestRawMessage
  <1>10. QED
    BY <1>1, <1>2, <1>3, <1>4, <1>5, <1>6, <1>7, <1>8, <1>9 DEF FlowOther

LEMMA EventLife ==
    ASSUME TypeOK, TypeOK', LifeInv,
           \/ \E d \in Delivery : RowEvent(d)
           \/ \E p \in Process : Crash(p)
           \/ PruneSelects \/ PruneWrites
    PROVE  LifeInv'
  <1>1. ASSUME NEW d \in Delivery, Accept(d) PROVE LifeInv'
    <2>1. UNCHANGED runs /\ runs[d] = 0
      BY <1>1 DEF Accept, LifeInv, AttemptsPaid
    <2>2. \A e \in Delivery : RowQuiet(e)
      BY <1>1, <2>1, AcceptQuiet
    <2>3. QED
      BY <1>1, <2>2, WorkQuiet, LifeSteady DEF Accept
  <1>2. ASSUME NEW d \in Delivery, LeaseExpires(d) PROVE LifeInv'
    <2>1. \A e \in Delivery : RowQuiet(e)
      BY <1>2, ExpiryFacts DEF LeaseExpires, RowQuiet
    <2>2. QED
      BY <1>2, <2>1, WorkQuiet, LifeSteady DEF LeaseExpires
  <1>3. ASSUME NEW d \in Delivery, RetryBecomesDue(d) PROVE LifeInv'
    BY <1>3, DueFacts, RowsQuiet, WorkQuiet, LifeSteady DEF RetryBecomesDue
  <1>4. ASSUME NEW d \in Delivery, ReplayQuarantined(d) PROVE LifeInv'
    <2>1. \A e \in Delivery : RowQuiet(e)
      BY <1>4, ReplayFacts DEF RowQuiet, Terminal, Gone
    <2>2. QED
      BY <1>4, <2>1, WorkQuiet, LifeSteady DEF ReplayQuarantined
  <1>5. ASSUME NEW p \in Process, Crash(p) PROVE LifeInv'
    <2>1. \A f \in Flow : FlowQuiet(f)
      BY <1>5, CrashFacts DEF FlowQuiet, Paying
    <2>2. QED
      BY <1>5, <2>1, LedgerQuiet, LifeSteady DEF Crash
  <1>6. CASE PruneSelects
    <2>1. \A d \in doomed' : ledger'[d].state \in Terminal
      BY <1>6 DEF PruneSelects, Prunable
    <2>2. QED
      BY <1>6, <2>1, LedgerQuiet, WorkQuiet, LifeSteady DEF PruneSelects
  <1>7. CASE PruneWrites
    <2>1. \A e \in Delivery : RowQuiet(e)
      BY <1>7, PruneFacts DEF PruneWrites, RowQuiet, Gone, LifeInv, RowsExist
    <2>2. QED
      BY <1>7, <2>1, WorkQuiet, LifeSteady DEF PruneWrites
  <1>8. QED
    BY <1>1, <1>2, <1>3, <1>4, <1>5, <1>6, <1>7 DEF RowEvent
--------------------------------------------------------------------------------
(* Claims, posts and tickets: what each key, flow and row says of them.    *)

KeyInv(k) ==
    LET c == claim[k] IN
    /\ c.winner = 0 => c = NoClaim
    /\ c.winner # 0 => /\ mail[c.winner].key = k /\ mail[c.winner].real
                       /\ c.sem = mail[c.winner].sem
                       /\ ledger[c.winner].state # "ABSENT"
    /\ c.open # NoFlow => /\ work[c.open].pc = "identify" /\ work[c.open].d = c.winner
                          /\ c.ticket = NoTicket
    /\ posts[k] # << >> =>
         \E d \in Delivery : /\ posts[k] = <<d>> /\ mail[d].key = k
                             /\ mail[d].real => c.winner = d /\ c.open = NoFlow
    /\ Agreed(c.ticket, k)

Seen(f) ==
    LET c == claim[My(f).key]
        s == work[f].seen
    IN /\ work[f].pc \in {"logical", "identify"} => My(f).real
       /\ work[f].pc = "headerless" => ~My(f).real
       /\ work[f].pc \in {"identify"} \cup Routing \cup Ending /\ My(f).real
            => /\ s.winner # 0 /\ c.winner = s.winner /\ c.sem = s.sem
               /\ s.ticket # NoTicket => c.ticket # NoTicket
       /\ work[f].pc = "identify" => c.open \in {NoFlow, f}
       /\ work[f].pc \in Routing \cup Ending /\ My(f).real
            => c.open = NoFlow /\ s.sem = My(f).sem
       /\ work[f].pc \in Routing /\ My(f).real => s.winner = work[f].d

Knows(f) ==
    work[f].pc # "idle" =>
         /\ Agreed(work[f].ticket, My(f).key) /\ Agreed(work[f].seen.ticket, My(f).key)
         /\ work[f].pc \in {"ownTicket", "finalize"} => work[f].ticket # NoTicket
         /\ work[f].pc \in {"ownTicket", "settle"} /\ work[f].ticket # NoTicket /\ My(f).real
              => \/ claim[My(f).key].ticket # NoTicket
                 \/ work[f].pc = "ownTicket" /\ work[f].seen.winner = work[f].d

Answers(f) ==
    /\ work[f].pc \in Ending =>
         /\ work[f].target \in Terminal
         /\ Wanted(work[f].d) => \/ HasPost(work[f].d)
                                 \/ My(f).real /\ work[f].seen.winner # work[f].d
    /\ work[f].pc \in {"early", "fail"} => work[f].target \notin Terminal

FlowInv(f) == Seen(f) /\ Knows(f) /\ Answers(f)

RowInv(d) ==
    /\ Agreed(ledger[d].ticket, mail[d].key)
    /\ ledger[d].state \in Terminal /\ ledger[d].ticket # NoTicket =>
         /\ ledger[d].owner = ledger[d].ticket
         /\ mail[d].real => claim[mail[d].key].ticket = ledger[d].ticket
    /\ Wanted(d) /\ ledger[d].state \in Terminal =>
         \/ HasPost(d)
         \/ /\ claim[mail[d].key].open = NoFlow
            /\ AnsweredBy(d, claim[mail[d].key].winner)

MessageInv == Claims /\ SeenHolds /\ PostsOfWinners /\ TicketsAgree /\ Accounted

LEMMA MessageParts ==
    MessageInv <=> /\ \A k \in Key : KeyInv(k)
                   /\ \A f \in Flow : FlowInv(f)
                   /\ \A d \in Delivery : RowInv(d)
  <1>1. (\A k \in Key : KeyInv(k)) <=>
          Claims /\ PostsOfWinners /\ \A k \in Key : Agreed(claim[k].ticket, k)
    BY DEF KeyInv, Claims, PostsOfWinners
  <1>2. (\A f \in Flow : FlowInv(f)) <=>
          SeenHolds /\ (\A f \in Flow : Knows(f)) /\ (\A f \in Flow : Answers(f))
    BY DEF FlowInv, SeenHolds, Seen
  <1>3. TicketsAgree <=> /\ \A k \in Key : Agreed(claim[k].ticket, k)
                         /\ \A d \in Delivery : Agreed(ledger[d].ticket, mail[d].key)
                         /\ \A f \in Flow : Knows(f)
                         /\ LedgerAgreesWithClaim
    BY DEF TicketsAgree, Knows
  <1>4. Accounted <=> /\ \A f \in Flow : Answers(f)
                      /\ \A d \in Delivery : Wanted(d) /\ ledger[d].state \in Terminal =>
                           \/ HasPost(d)
                           \/ /\ claim[mail[d].key].open = NoFlow
                              /\ AnsweredBy(d, claim[mail[d].key].winner)
    BY DEF Accounted, Answers
  <1>5. (\A d \in Delivery : RowInv(d)) <=>
          /\ \A d \in Delivery : Agreed(ledger[d].ticket, mail[d].key)
          /\ LedgerAgreesWithClaim
          /\ \A d \in Delivery : Wanted(d) /\ ledger[d].state \in Terminal =>
               \/ HasPost(d)
               \/ /\ claim[mail[d].key].open = NoFlow
                  /\ AnsweredBy(d, claim[mail[d].key].winner)
    BY DEF RowInv, LedgerAgreesWithClaim
  <1>6. QED
    BY <1>1, <1>2, <1>3, <1>4, <1>5 DEF MessageInv

LEMMA MessagePartsNext ==
    (\A k \in Key : KeyInv(k)') /\ (\A f \in Flow : FlowInv(f)') /\ (\A d \in Delivery : RowInv(d)')
       => MessageInv'
  <1> DEFINE parts == /\ \A k \in Key : KeyInv(k)
                      /\ \A f \in Flow : FlowInv(f)
                      /\ \A d \in Delivery : RowInv(d)
  <1>1. MessageInv <=> parts
    BY MessageParts
  <1>2. parts' => MessageInv'
    BY <1>1, PTL
  <1>3. QED
    BY <1>2

(* How a claim may change: an open one is dropped or committed, a          *)
(* committed one gets its ticket, an absent one is opened.                 *)
KeyMove(k) ==
    LET c == claim[k]
        n == claim'[k]
    IN \/ n = c
       \/ c.open # NoFlow /\ n = NoClaim
       \/ /\ c.open # NoFlow /\ n.open = NoFlow
          /\ n.winner = c.winner /\ n.sem = c.sem /\ n.ticket = c.ticket
       \/ /\ c.open = NoFlow /\ c.winner # 0 /\ n.open = NoFlow /\ n.ticket # NoTicket
          /\ n.winner = c.winner /\ n.sem = c.sem
       \/ c.winner = 0

(* How posts change: an empty key gets the post of its claim's winner.     *)
PostMove(k) ==
    \/ posts'[k] = posts[k]
    \/ /\ posts[k] = << >>
       /\ \E d \in Delivery : /\ posts'[k] = <<d>> /\ mail[d].key = k
                              /\ mail[d].real => claim[k].winner = d /\ claim[k].open = NoFlow

World == UNCHANGED mail /\ \A k \in Key : KeyMove(k) /\ PostMove(k)

(* A flow's own transaction is ended by nobody else.                       *)
OwnKept(f) == \A k \in Key : claim[k].open = f => claim'[k] = claim[k]

(* What the predicates say after the step, of values from before it.       *)
AgreedNext(t, k) == t # NoTicket => posts'[k] # << >> /\ t = TicketFor(posts'[k][1])
HasPostNext(d) == /\ posts'[mail[d].key] # << >>
                  /\ mail[posts'[mail[d].key][1]].sem = mail[d].sem
AnsweredNext(d, w) == /\ mail[d].real /\ w # 0 /\ mail[w].sem = mail[d].sem
                      /\ ledger'[w].state \notin Terminal

LEMMA AgreedGrows ==
    ASSUME NEW k \in Key, World, NEW t, Agreed(t, k)
    PROVE  AgreedNext(t, k)
  BY DEF Agreed, AgreedNext, World, PostMove

LEMMA HasPostGrows ==
    ASSUME TypeOK, NEW d \in Delivery, World, HasPost(d)
    PROVE  HasPostNext(d)
  <1>1. mail[d].key \in Key
    BY MailType
  <1>2. posts'[mail[d].key] = posts[mail[d].key]
    BY <1>1 DEF HasPost, World, PostMove
  <1>3. QED
    BY <1>2 DEF HasPost, HasPostNext

LEMMA KeyTypes ==
    ASSUME TypeOK, NEW k \in Key
    PROVE  /\ claim[k] \in Claim /\ claim[k].winner \in Delivery \cup {0}
           /\ claim[k].open \in Flow \cup {NoFlow} /\ claim[k].ticket \in Ticket
           /\ NoClaim.winner = 0 /\ NoClaim.open = NoFlow /\ NoClaim.ticket = NoTicket
  BY DEF TypeOK, Claim, NoClaim

(* A key whose claim is not opened by this step stays in order, provided   *)
(* the flow of an open claim goes on and a new ticket is that of the post. *)
LEMMA KeySteady ==
    ASSUME TypeOK, TypeOK', World, NEW k \in Key, KeyInv(k),
           \A d \in Delivery : ledger'[d].state = "ABSENT" => ledger[d].state = "ABSENT",
           claim[k].winner = 0 => claim'[k] = claim[k],
           claim'[k].open # NoFlow =>
             claim'[k] = claim[k] /\ work'[claim[k].open] = work[claim[k].open],
           posts'[k] = posts[k] \/ claim'[k] = claim[k],
           claim'[k].ticket = claim[k].ticket \/ Agreed(claim'[k].ticket, k)
    PROVE  KeyInv(k)'
  <1> DEFINE c == claim[k]
             n == claim'[k]
  <1>1. KeyMove(k) /\ PostMove(k) /\ mail' = mail
    BY DEF World
  <1>2. n.winner = 0 => n = NoClaim
    BY <1>1, KeyTypes DEF KeyInv, KeyMove
  <1>3. n.winner # 0 => n.winner = c.winner /\ n.sem = c.sem
    BY <1>1, KeyTypes DEF KeyInv, KeyMove
  <1>4. n.winner # 0 => /\ mail'[n.winner].key = k /\ mail'[n.winner].real
                        /\ n.sem = mail'[n.winner].sem
                        /\ ledger'[n.winner].state # "ABSENT"
    BY <1>1, <1>3, KeyTypes DEF KeyInv
  <1>5. n.open # NoFlow => /\ work'[n.open].pc = "identify" /\ work'[n.open].d = n.winner
                           /\ n.ticket = NoTicket
    BY DEF KeyInv
  <1>6. posts'[k] # << >> =>
          \E d \in Delivery : /\ posts'[k] = <<d>> /\ mail'[d].key = k
                              /\ mail'[d].real => n.winner = d /\ n.open = NoFlow
    <2>1. CASE posts'[k] = posts[k]
      <3>1. SUFFICES ASSUME posts[k] # << >>
                     PROVE  \E d \in Delivery :
                               /\ posts[k] = <<d>> /\ mail[d].key = k
                               /\ mail[d].real => n.winner = d /\ n.open = NoFlow
        BY <1>1, <2>1
      <3>2. PICK d \in Delivery : /\ posts[k] = <<d>> /\ mail[d].key = k
                                  /\ mail[d].real => c.winner = d /\ c.open = NoFlow
        BY <3>1 DEF KeyInv
      <3>3. mail[d].real => n.winner = d /\ n.open = NoFlow
        <4>1. d # 0
          BY MailType
        <4>2. QED
          BY <1>1, <3>2, <4>1, KeyTypes DEF KeyMove
      <3>4. QED
        BY <3>2, <3>3
    <2>2. CASE claim'[k] = claim[k] /\ posts'[k] # posts[k]
      BY <1>1, <2>2 DEF PostMove
    <2>3. QED
      BY <2>1, <2>2
  <1>7. AgreedNext(n.ticket, k)
    BY AgreedGrows DEF KeyInv
  <1>8. QED
    BY <1>1, <1>2, <1>4, <1>5, <1>6, <1>7 DEF KeyInv, Agreed, AgreedNext, TicketFor

(* A flow that stands still, while others end or open their transactions,  *)
(* post and finalize.                                                      *)
LEMMA FlowSteady ==
    ASSUME TypeOK, World, NEW f \in Flow, FlowInv(f), work'[f] = work[f], OwnKept(f)
    PROVE  FlowInv(f)'
  <1> DEFINE k == My(f).key
  <1>1. mail' = mail /\ My(f)' = My(f)
    BY DEF World, My
  <1>2. CASE work[f].pc = "idle"
    <2>1. work'[f].pc = "idle"
      BY <1>2
    <2>2. QED
      BY <2>1 DEF FlowInv, Seen, Knows, Answers, Routing, Ending
  <1>3. CASE work[f].pc # "idle"
    <2>1. work[f].d \in Delivery /\ k \in Key /\ KeyMove(k) /\ PostMove(k)
      BY <1>3, MailType DEF TypeOK, My, World
    <2>2. /\ work[f].pc = "identify" /\ My(f).real
             => /\ claim'[k].winner = claim[k].winner /\ claim'[k].sem = claim[k].sem
                /\ claim[k].ticket # NoTicket => claim'[k].ticket # NoTicket
                /\ claim'[k].open \in {NoFlow, f}
          /\ work[f].pc \in Routing \cup Ending /\ My(f).real
             => /\ claim'[k].winner = claim[k].winner /\ claim'[k].sem = claim[k].sem
                /\ claim[k].ticket # NoTicket => claim'[k].ticket # NoTicket
                /\ claim'[k].open = NoFlow
      BY <2>1 DEF FlowInv, Seen, KeyMove, OwnKept
    <2>3. Seen(f)'
      BY <1>1, <2>2 DEF FlowInv, Seen
    <2>4. Knows(f)'
      <3>1. AgreedNext(work[f].ticket, k) /\ AgreedNext(work[f].seen.ticket, k)
        BY <1>3, <2>1, AgreedGrows DEF FlowInv, Knows
      <3>2. work[f].pc \in {"ownTicket", "settle"} => work[f].pc \in Ending
        BY DEF Ending
      <3>3. QED
        BY <1>1, <1>3, <2>2, <3>1, <3>2 DEF FlowInv, Knows, Agreed, AgreedNext, TicketFor, My
    <2>5. Answers(f)'
      <3>1. HasPost(work[f].d) => HasPostNext(work[f].d)
        BY <2>1, HasPostGrows
      <3>2. QED
        BY <1>1, <3>1 DEF FlowInv, Answers, Wanted, HasPost, HasPostNext, My
    <2>6. QED
      BY <2>3, <2>4, <2>5 DEF FlowInv
  <1>4. QED
    BY <1>2, <1>3

(* A row that is not finished, keeps or has no ticket, and its owner with it. *)
RowFine(d) ==
    /\ ledger'[d].state = "ABSENT" => ledger[d].state = "ABSENT"
    /\ ledger'[d].state \in Terminal => ledger[d].state \in Terminal
    /\ ledger'[d].ticket \in {NoTicket, ledger[d].ticket}
    /\ \/ ledger'[d].owner = ledger[d].owner \/ ledger[d].state \notin Terminal
       \/ ledger'[d].owner = ledger[d].ticket \/ ledger[d].ticket = NoTicket

LEMMA RowSteady ==
    ASSUME TypeOK, World, NEW d \in Delivery, RowInv(d), KeyInv(mail[d].key), KeyInv(mail[d].key)',
           \A e \in Delivery : RowFine(e)
    PROVE  RowInv(d)'
  <1> DEFINE k == mail[d].key
  <1>1. mail' = mail /\ k \in Key /\ KeyMove(k) /\ PostMove(k)
    BY MailType DEF World
  <1>2. AgreedNext(ledger'[d].ticket, k)
    <2>1. AgreedNext(ledger[d].ticket, k)
      BY <1>1, AgreedGrows DEF RowInv
    <2>2. QED
      BY <2>1 DEF RowFine, AgreedNext
  <1>3. ASSUME ledger[d].state \in Terminal, ledger'[d].ticket # NoTicket
        PROVE  /\ ledger'[d].owner = ledger'[d].ticket
               /\ mail[d].real => claim'[k].ticket = ledger'[d].ticket
    <2>1. ledger'[d].ticket = ledger[d].ticket /\ ledger'[d].owner = ledger[d].ticket
      BY <1>3 DEF RowInv, RowFine
    <2>2. ASSUME mail[d].real PROVE claim'[k].ticket = ledger'[d].ticket
      <3>1. claim[k].ticket = ledger[d].ticket
        BY <1>3, <2>1, <2>2 DEF RowInv
      <3>2. claim'[k].ticket # NoTicket
        BY <1>1, <1>3, <2>1, <3>1, KeyTypes DEF KeyInv, KeyMove
      <3>3. claim'[k].ticket = TicketFor(posts'[k][1])
        BY <1>1, <3>2 DEF KeyInv, Agreed, TicketFor
      <3>4. ledger'[d].ticket = TicketFor(posts'[k][1])
        BY <1>2, <1>3 DEF AgreedNext
      <3>5. QED
        BY <3>3, <3>4
    <2>3. QED
      BY <2>1, <2>2
  <1>4. ASSUME Wanted(d), ledger[d].state \in Terminal
        PROVE  \/ HasPostNext(d)
               \/ claim'[k].open = NoFlow /\ AnsweredNext(d, claim'[k].winner)
    <2>1. CASE HasPost(d)
      BY <2>1, HasPostGrows
    <2>2. CASE claim[k].open = NoFlow /\ AnsweredBy(d, claim[k].winner)
      <3>1. claim[k].winner \in Delivery /\ claim[k].winner # 0
        BY <1>1, <2>2, KeyTypes DEF AnsweredBy
      <3>2. claim'[k].open = NoFlow /\ claim'[k].winner = claim[k].winner
        BY <1>1, <2>2, <3>1 DEF KeyMove
      <3>3. AnsweredNext(d, claim'[k].winner)
        BY <1>1, <2>2, <3>1, <3>2 DEF AnsweredBy, AnsweredNext, RowFine
      <3>4. QED
        BY <3>2, <3>3
    <2>3. QED
      BY <1>4, <2>1, <2>2 DEF RowInv
  <1>5. QED
    BY <1>1, <1>2, <1>3, <1>4
       DEF RowInv, RowFine, Wanted, HasPost, HasPostNext, AnsweredBy, AnsweredNext, Agreed,
           AgreedNext, TicketFor

LEMMA SameLedgerFine ==
    ASSUME UNCHANGED ledger
    PROVE  \A d \in Delivery : RowFine(d)
  BY DEF RowFine

LEMMA KeepsFine ==
    ASSUME KeepsRows, NEW d \in Delivery,
           \/ ledger'[d].owner = ledger[d].owner \/ ledger[d].state \notin Terminal
           \/ ledger'[d].owner = ledger[d].ticket \/ ledger[d].ticket = NoTicket
    PROVE  RowFine(d)
  BY DEF KeepsRows, KeepsRow, RowFine

LEMMA OwnerFine ==
    ASSUME TypeOK, NEW f \in Flow, work[f].pc # "idle", Fenced(f), NEW owner, NEW keep,
           PersistEffectiveOwner(f, owner, keep)
    PROVE  \A d \in Delivery : RowFine(d)
  BY OwnerFacts, KeepsFine DEF Fenced, Terminal

LEMMA IdentityFine ==
    ASSUME TypeOK, NEW f \in Flow, work[f].pc # "idle", RecordIdentity(f)
    PROVE  \A d \in Delivery : RowFine(d)
  BY IdentityFacts, KeepsFine

(* A flow that has nothing in hand, and one that is about to settle an     *)
(* unfinished row.                                                         *)
LEMMA IdleFlow ==
    ASSUME NEW f \in Flow, work'[f].pc = "idle"
    PROVE  FlowInv(f)'
  BY DEF FlowInv, Seen, Knows, Answers, Routing, Ending

LEMMA StoppedFlow ==
    ASSUME TypeOK, World, NEW f \in Flow, FlowInv(f), work[f].pc # "idle",
           work'[f].pc \in {"early", "fail"}, work'[f].target \notin Terminal,
           work'[f].d = work[f].d, work'[f].ticket = work[f].ticket, work'[f].seen = work[f].seen
    PROVE  FlowInv(f)'
  <1>1. mail' = mail /\ My(f)' = My(f) /\ work[f].d \in Delivery /\ My(f).key \in Key
    BY MailType DEF World, My, TypeOK
  <1>2. AgreedNext(work[f].ticket, My(f).key) /\ AgreedNext(work[f].seen.ticket, My(f).key)
    BY <1>1, AgreedGrows DEF FlowInv, Knows
  <1>3. Knows(f)'
    BY <1>1, <1>2 DEF Knows, Agreed, AgreedNext, TicketFor, My
  <1>4. Seen(f)' /\ Answers(f)'
    BY DEF Seen, Answers, Routing, Ending
  <1>5. QED
    BY <1>3, <1>4 DEF FlowInv

(* One flow moves without touching claims or posts.                        *)
LEMMA QuietStep ==
    ASSUME TypeOK, TypeOK', MessageInv, NEW f \in Flow, work[f].pc # "identify", Others(f),
           UNCHANGED <<mail, claim, posts>>, FlowInv(f)', \A d \in Delivery : RowFine(d)
    PROVE  MessageInv'
  <1>1. /\ \A k \in Key : KeyInv(k)
        /\ \A g \in Flow : FlowInv(g)
        /\ \A d \in Delivery : RowInv(d)
    BY MessageParts
  <1>2. World /\ \A g \in Flow : OwnKept(g)
    BY DEF World, KeyMove, PostMove, OwnKept
  <1>3. \A k \in Key : KeyInv(k)'
    <2>1. ASSUME NEW k \in Key PROVE KeyInv(k)'
      <3>1. claim[k].open # NoFlow => claim[k].open \in Flow \ {f}
        BY <1>1, KeyTypes DEF KeyInv
      <3>2. claim[k].open # NoFlow => work'[claim[k].open] = work[claim[k].open]
        BY <3>1 DEF Others
      <3>3. QED
        BY <1>1, <1>2, <3>2, KeySteady DEF RowFine
    <2>2. QED
      BY <2>1
  <1>4. \A g \in Flow : FlowInv(g)'
    BY <1>1, <1>2, FlowSteady DEF Others
  <1>5. \A d \in Delivery : RowInv(d)'
    BY <1>1, <1>2, <1>3, RowSteady, MailType
  <1>6. QED
    BY <1>3, <1>4, <1>5, MessagePartsNext

(* One flow ends its transaction.                                          *)
LEMMA EndStep ==
    ASSUME TypeOK, TypeOK', MessageInv, NEW f \in Flow, Others(f),
           claim' \in {Committed(f), RolledBack(f)},
           UNCHANGED <<mail, posts>>, FlowInv(f)', \A d \in Delivery : RowFine(d)
    PROVE  MessageInv'
  <1>1. /\ \A k \in Key : KeyInv(k)
        /\ \A g \in Flow : FlowInv(g)
        /\ \A d \in Delivery : RowInv(d)
    BY MessageParts
  <1>2. f # NoFlow
    BY FlowAssumption
  <1>3. World /\ \A g \in Flow \ {f} : OwnKept(g)
    BY <1>2, EndFacts DEF World, KeyMove, PostMove, OwnKept
  <1>4. \A k \in Key : KeyInv(k)'
    <2>1. ASSUME NEW k \in Key PROVE KeyInv(k)'
      <3>1. /\ claim[k].winner = 0 => claim'[k] = claim[k]
            /\ claim'[k].open # NoFlow => claim'[k] = claim[k] /\ claim[k].open # f
            /\ claim'[k].ticket = claim[k].ticket \/ Agreed(claim'[k].ticket, k)
        BY <1>1, <1>2, EndFacts, KeyTypes DEF KeyInv, Agreed
      <3>2. claim'[k].open # NoFlow => work'[claim[k].open] = work[claim[k].open]
        BY <3>1, KeyTypes DEF Others
      <3>3. QED
        BY <1>1, <1>3, <3>1, <3>2, KeySteady DEF RowFine
    <2>2. QED
      BY <2>1
  <1>5. \A g \in Flow : FlowInv(g)'
    BY <1>1, <1>3, FlowSteady DEF Others
  <1>6. \A d \in Delivery : RowInv(d)'
    BY <1>1, <1>3, <1>4, RowSteady, MailType
  <1>7. QED
    BY <1>4, <1>5, <1>6, MessagePartsNext

(* No flow moves: rows are accepted, fall due, expire, are replayed, pruned. *)
LEMMA StillStep ==
    ASSUME TypeOK, TypeOK', MessageInv, UNCHANGED <<mail, claim, posts, work>>,
           \A d \in Delivery : RowFine(d)
    PROVE  MessageInv'
  <1>1. /\ \A k \in Key : KeyInv(k)
        /\ \A g \in Flow : FlowInv(g)
        /\ \A d \in Delivery : RowInv(d)
    BY MessageParts
  <1>2. World /\ \A g \in Flow : OwnKept(g)
    BY DEF World, KeyMove, PostMove, OwnKept
  <1>3. \A k \in Key : KeyInv(k)'
    BY <1>1, <1>2, KeySteady DEF RowFine
  <1>4. \A g \in Flow : FlowInv(g)'
    BY <1>1, <1>2, FlowSteady
  <1>5. \A d \in Delivery : RowInv(d)'
    BY <1>1, <1>2, <1>3, RowSteady, MailType
  <1>6. QED
    BY <1>3, <1>4, <1>5, MessagePartsNext

(* What a flow brings along when it goes on within the pipeline.           *)
LEMMA FlowCarries ==
    ASSUME TypeOK, MessageInv, NEW f \in Flow, work[f].pc # "idle",
           UNCHANGED <<mail, claim, posts>>,
           work'[f].d = work[f].d, work'[f].seen = work[f].seen
    PROVE  /\ My(f)' = My(f) /\ My(f) = mail[work[f].d] /\ work[f].d \in Delivery
           /\ My(f).key \in Key /\ FlowInv(f) /\ KeyInv(My(f).key)
           /\ Agreed(work[f].ticket, My(f).key) /\ Agreed(work[f].seen.ticket, My(f).key)
           /\ Wanted(work[f].d)' = Wanted(work[f].d) /\ HasPost(work[f].d)' = HasPost(work[f].d)
  <1>1. work[f].d \in Delivery
    BY DEF TypeOK
  <1>2. My(f).key \in Key
    BY <1>1, MailType DEF My
  <1>3. FlowInv(f) /\ KeyInv(My(f).key)
    BY <1>2, MessageParts
  <1>4. QED
    BY <1>1, <1>2, <1>3 DEF FlowInv, Knows, My, Wanted, HasPost, Agreed, TicketFor

(* A flow in the pipeline goes on to another place of it.                  *)
LEMMA RouteFlows ==
    ASSUME TypeOK, MessageInv, NEW f \in Flow, UNCHANGED <<mail, claim, posts>>,
           work'[f].d = work[f].d, work'[f].seen = work[f].seen,
           work'[f].ticket = work[f].ticket,
           \/ work[f].pc \in {"own", "dedup", "address"} /\ work'[f].pc \in Routing
           \/ work[f].pc = "headerless" /\ work'[f].pc = "own"
           \/ work[f].pc = "claim" /\ work'[f].pc = "load"
           \/ /\ work[f].pc = "load"
              /\ \/ work'[f].pc = "logical" /\ My(f).real
                 \/ work'[f].pc = "headerless" /\ ~My(f).real
    PROVE  FlowInv(f)'
  <1>1. work[f].pc # "idle"
    OBVIOUS
  <1> DEFINE k == My(f).key
  <1>2. /\ My(f)' = My(f) /\ FlowInv(f) /\ Agreed(work[f].ticket, k)
        /\ Agreed(work[f].seen.ticket, k)
    BY <1>1, FlowCarries
  <1>3. Knows(f)'
    BY <1>2 DEF Knows, Agreed, TicketFor, Routing
  <1>4. Seen(f)'
    BY <1>2 DEF FlowInv, Seen, Routing, Ending
  <1>5. Answers(f)'
    BY DEF Answers, Routing, Ending
  <1>6. QED
    BY <1>3, <1>4, <1>5 DEF FlowInv

(* The post under the key of a message in routing is that delivery's own.   *)
LEMMA OwnPost ==
    ASSUME TypeOK, MessageInv, NEW f \in Flow, work[f].pc \in Routing,
           posts[My(f).key] # << >>
    PROVE  posts[My(f).key] = <<work[f].d>>
  <1> DEFINE k == My(f).key
             d == work[f].d
  <1>1. d \in Delivery /\ My(f) = mail[d]
    BY DEF TypeOK, Routing, My
  <1>2. k \in Key /\ KeyInv(k) /\ FlowInv(f)
    BY <1>1, MailType, MessageParts
  <1>3. PICK e \in Delivery : /\ posts[k] = <<e>> /\ mail[e].key = k
                              /\ mail[e].real => claim[k].winner = e
    BY <1>2 DEF KeyInv
  <1>4. CASE mail[d].real /\ mail[e].real
    BY <1>1, <1>2, <1>3, <1>4 DEF FlowInv, Seen
  <1>5. CASE ~(mail[d].real /\ mail[e].real)
    <2>1. mail \in Inboxes
      BY DEF TypeOK
    <2>2. d = e
      BY <1>1, <1>3, <1>5, <2>1, InboxAssumption
    <2>3. QED
      BY <1>3, <2>2
  <1>6. QED
    BY <1>4, <1>5

(* A flow of a routed message leaves routing with a ticket, or unwanted.   *)
LEMMA LeavesRouting ==
    ASSUME TypeOK, MessageInv, NEW f \in Flow, UNCHANGED <<mail, claim, posts>>,
           work[f].pc \in Routing, work'[f].pc \in {"ownTicket", "settle"},
           work'[f].d = work[f].d, work'[f].seen = work[f].seen,
           work'[f].target \in Terminal,
           \/ work'[f].ticket = NoTicket /\ work'[f].pc = "settle" /\ ~Wanted(work[f].d)
           \/ /\ work'[f].pc = "ownTicket" /\ posts[My(f).key] # << >>
              /\ work'[f].ticket = TicketFor(posts[My(f).key][1])
    PROVE  FlowInv(f)'
  <1>1. work[f].pc # "idle"
    BY DEF Routing
  <1> DEFINE k == My(f).key
             d == work[f].d
  <1>2. /\ My(f)' = My(f) /\ My(f) = mail[d] /\ d \in Delivery /\ k \in Key
        /\ FlowInv(f) /\ KeyInv(k)
        /\ Agreed(work[f].seen.ticket, k)
        /\ Wanted(d)' = Wanted(d) /\ HasPost(d)' = HasPost(d)
    BY <1>1, FlowCarries
  <1>3. work[f].pc \notin {"logical", "identify", "headerless"} \cup Ending
    BY DEF Routing, Ending
  <1>4. posts[k] # << >> => posts[k] = <<d>>
    BY OwnPost
  <1>5. posts[k] # << >> => TicketFor(posts[k][1]) # NoTicket
    <2>1. posts[k] # << >> => posts[k][1] = d
      BY <1>4
    <2>2. TicketFor(d) # NoTicket
      BY <1>2, MailType
    <2>3. QED
      BY <2>1, <2>2
  <1>6. Knows(f)'
    BY <1>2, <1>5 DEF Knows, Agreed, TicketFor, FlowInv, Seen
  <1>7. Seen(f)'
    BY <1>2 DEF FlowInv, Seen, Routing, Ending
  <1>8. Answers(f)'
    <2>1. posts[k] # << >> => HasPost(d)
      <3>1. posts[k] # << >> => posts[k][1] = d
        BY <1>4
      <3>2. QED
        BY <1>2, <3>1 DEF HasPost
    <2>2. Wanted(d) => HasPost(d)
      BY <2>1
    <2>3. QED
      BY <1>2, <2>2 DEF Answers, Ending, Wanted, HasPost
  <1>9. QED
    BY <1>6, <1>7, <1>8 DEF FlowInv

(* The steps of a flow before and within routing.                          *)
LEMMA ClaimMessage ==
    ASSUME TypeOK, TypeOK', MessageInv, NEW f \in Flow, ClaimDelivery(f)
    PROVE  MessageInv'
  <1>1. CASE Claimable(work[f].d)
    <2>1. UNCHANGED <<mail, claim, posts>> /\ work[f].pc = "claim"
      BY <1>1 DEF ClaimDelivery
    <2>2. FlowInv(f)'
      BY <1>1, <2>1, ClaimFacts, RouteFlows
    <2>3. \A d \in Delivery : RowFine(d)
      BY <1>1, ClaimFacts DEF RowFine, Claimable, Terminal
    <2>4. QED
      BY <1>1, <2>1, <2>2, <2>3, ClaimFacts, QuietStep
  <1>2. CASE ~Claimable(work[f].d)
    BY <1>2, IdleFacts, IdleFlow, SameLedgerFine, QuietStep DEF ClaimDelivery
  <1>3. QED
    BY <1>1, <1>2

LEMMA LoadMessage ==
    ASSUME TypeOK, TypeOK', MessageInv, NEW f \in Flow, Load(f)
    PROVE  MessageInv'
  <1>1. UNCHANGED <<mail, ledger, claim, posts>> /\ work[f].pc = "load"
    BY DEF Load
  <1>2. World /\ FlowInv(f)
    BY <1>1, MessageParts DEF World, KeyMove, PostMove
  <1>3. FlowInv(f)'
    <2>1. CASE work'[f].pc \in {"early", "fail"}
      BY <1>1, <1>2, <2>1, LoadFacts, StoppedFlow DEF GoesOn
    <2>2. CASE work'[f].pc \notin {"early", "fail"}
      BY <1>1, <2>2, LoadFacts, RouteFlows DEF GoesOn
    <2>3. QED
      BY <2>1, <2>2
  <1>4. QED
    BY <1>1, <1>3, LoadFacts, SameLedgerFine, QuietStep DEF GoesOn

LEMMA HeaderlessMessage ==
    ASSUME TypeOK, TypeOK', MessageInv, NEW f \in Flow, RecordHeaderlessDelivery(f)
    PROVE  MessageInv'
  <1>1. /\ UNCHANGED <<mail, claim, posts>> /\ work[f].pc = "headerless" /\ "own" \in Pc
        /\ Goto(f, "own") /\ RecordIdentity(f)
    BY DEF RecordHeaderlessDelivery, Pc
  <1>2. FlowInv(f)' /\ Others(f)
    BY <1>1, GotoMoves, RouteFlows
  <1>3. \A d \in Delivery : RowFine(d)
    BY <1>1, IdentityFine
  <1>4. QED
    BY <1>1, <1>2, <1>3, QuietStep

LEMMA OwnRouteMessage ==
    ASSUME TypeOK, TypeOK', MessageInv, NEW f \in Flow, OwnRoute(f)
    PROVE  MessageInv'
  <1>1. /\ UNCHANGED <<mail, claim, posts>> /\ work[f].pc = "own" /\ Fenced(f)
        /\ PersistEffectiveOwner(f, "ROUTED", TRUE)
    BY DEF OwnRoute
  <1>2. FlowInv(f)' /\ Others(f)
    <2>1. CASE My(f).content = "loop"
      <3>1. ~Wanted(work[f].d)
        BY <2>1 DEF Wanted, My
      <3>2. Outcome(f, "SKIPPED", NoTicket, "settle")
        BY <2>1 DEF OwnRoute
      <3>3. /\ Others(f) /\ work'[f].pc = "settle" /\ work'[f].ticket = NoTicket
            /\ work'[f].target = "SKIPPED" /\ work'[f].d = work[f].d /\ work'[f].seen = work[f].seen
        BY <1>1, <3>2, OutcomeMoves DEF Pc, Final, Terminal, Ticket
      <3>4. QED
        BY <1>1, <3>1, <3>3, LeavesRouting DEF Routing, Terminal
    <2>2. CASE My(f).content # "loop"
      <3>1. Goto(f, "dedup") /\ "dedup" \in Pc /\ "dedup" \in Routing
        BY <2>2 DEF OwnRoute, Pc, Routing
      <3>2. QED
        BY <1>1, <3>1, GotoMoves, RouteFlows
    <2>3. QED
      BY <2>1, <2>2
  <1>3. \A d \in Delivery : RowFine(d)
    BY <1>1, OwnerFine
  <1>4. QED
    BY <1>1, <1>2, <1>3, QuietStep

LEMMA DedupMessage ==
    ASSUME TypeOK, TypeOK', MessageInv, NEW f \in Flow, Dedup(f)
    PROVE  MessageInv'
  <1>1. UNCHANGED <<mail, ledger, claim, posts>> /\ work[f].pc = "dedup"
    BY DEF Dedup
  <1>2. FlowInv(f)'
    <2>1. CASE posts[My(f).key] # << >> \/ My(f).content = "rule"
      <3>1. My(f).content = "rule" => ~Wanted(work[f].d)
        BY DEF Wanted, My
      <3>2. QED
        BY <1>1, <2>1, <3>1, DedupMoves, LeavesRouting DEF Routing, Terminal
    <2>2. CASE posts[My(f).key] = << >> /\ My(f).content # "rule"
      BY <1>1, <2>2, DedupMoves, RouteFlows DEF Routing
    <2>3. QED
      BY <2>1, <2>2
  <1>3. QED
    BY <1>1, <1>2, DedupMoves, SameLedgerFine, QuietStep

LEMMA AddressMessage ==
    ASSUME TypeOK, TypeOK', MessageInv, NEW f \in Flow, Address(f)
    PROVE  MessageInv'
  <1>1. /\ UNCHANGED <<mail, claim, posts>> /\ work[f].pc = "address" /\ Fenced(f)
        /\ Goto(f, "post") /\ "post" \in Pc /\ "post" \in Routing
    BY DEF Address, Pc, Routing
  <1>2. FlowInv(f)' /\ Others(f)
    BY <1>1, GotoMoves, RouteFlows
  <1>3. \A d \in Delivery : RowFine(d)
    BY <1>1, OwnerFine DEF Address
  <1>4. QED
    BY <1>1, <1>2, <1>3, QuietStep

LEMMA OwnTicketMessage ==
    ASSUME TypeOK, TypeOK', MessageInv, NEW f \in Flow, OwnTicket(f)
    PROVE  MessageInv'
  <1> DEFINE pc == IF work[f].seen.winner \in {0, work[f].d} THEN "finalize" ELSE "settle"
  <1>1. /\ UNCHANGED <<mail, claim, posts>> /\ work[f].pc = "ownTicket" /\ Fenced(f)
        /\ Goto(f, pc) /\ pc \in Pc
    BY DEF OwnTicket, Pc
  <1>2. /\ Others(f) /\ work'[f].pc = pc /\ work'[f].d = work[f].d
        /\ work'[f].seen = work[f].seen /\ work'[f].ticket = work[f].ticket
        /\ work'[f].target = work[f].target
    BY <1>1, GotoMoves
  <1>3. /\ My(f)' = My(f) /\ FlowInv(f) /\ Agreed(work[f].ticket, My(f).key)
        /\ Agreed(work[f].seen.ticket, My(f).key)
        /\ Wanted(work[f].d)' = Wanted(work[f].d) /\ HasPost(work[f].d)' = HasPost(work[f].d)
    BY <1>1, <1>2, FlowCarries
  <1>4. Knows(f)'
    BY <1>1, <1>2, <1>3 DEF FlowInv, Knows, Agreed, TicketFor
  <1>5. Seen(f)'
    BY <1>1, <1>2, <1>3 DEF FlowInv, Seen, Routing, Ending
  <1>6. Answers(f)'
    BY <1>1, <1>2, <1>3 DEF FlowInv, Answers, Ending, Wanted, HasPost
  <1>7. FlowInv(f)'
    BY <1>4, <1>5, <1>6 DEF FlowInv
  <1>8. \A d \in Delivery : RowFine(d)
    BY <1>1, OwnerFine DEF OwnTicket
  <1>9. QED
    BY <1>1, <1>2, <1>7, <1>8, QuietStep

(* The pipeline fails without a transaction to end.                        *)
LEMMA StopMessage ==
    ASSUME TypeOK, TypeOK', MessageInv, NEW f \in Flow, OwnerLost(f) \/ RawReadFails(f)
    PROVE  MessageInv'
  <1>1. /\ UNCHANGED <<mail, ledger, claim, posts>> /\ work[f].pc \notin {"idle", "identify"}
        /\ Others(f) /\ work'[f].pc \in {"early", "fail"} /\ work'[f].target \notin Terminal
        /\ work'[f].d = work[f].d /\ work'[f].ticket = work[f].ticket
        /\ work'[f].seen = work[f].seen
    <2>1. CASE OwnerLost(f)
      BY <2>1, FailMoves DEF OwnerLost
    <2>2. CASE RawReadFails(f)
      BY <2>2, RawFailsFacts DEF RawReadFails, GoesOn
    <2>3. QED
      BY <2>1, <2>2
  <1>2. World /\ FlowInv(f)
    BY <1>1, MessageParts DEF World, KeyMove, PostMove
  <1>3. QED
    BY <1>1, <1>2, StoppedFlow, SameLedgerFine, QuietStep

(* The steps that end the transaction of the logical claim.                *)
LEMMA EndWorld ==
    ASSUME TypeOK, NEW f \in Flow, claim' \in {Committed(f), RolledBack(f)},
           UNCHANGED <<mail, posts>>
    PROVE  World
  BY FlowAssumption, EndFacts DEF World, KeyMove, PostMove

LEMMA LogicalMessage ==
    ASSUME TypeOK, TypeOK', MessageInv, NEW f \in Flow, RecordLogicalClaim(f)
    PROVE  MessageInv'
  <1> DEFINE k == My(f).key
             d == work[f].d
             c == work[f].seen
             pc == IF c.ticket = NoTicket THEN "settle" ELSE "ownTicket"
  <1>1. /\ UNCHANGED <<mail, posts>> /\ claim' = Committed(f) /\ work[f].pc = "identify"
        /\ RecordIdentity(f) /\ d \in Delivery /\ FlowInv(f) /\ c.ticket \in Ticket
    BY MessageParts DEF RecordLogicalClaim, TypeOK, FlowState, Claim
  <1>2. k \in Key /\ My(f) = mail[d] /\ World
    BY <1>1, MailType, EndWorld DEF My
  <1>3. /\ claim'[k].winner = claim[k].winner /\ claim'[k].sem = claim[k].sem
        /\ claim'[k].ticket = claim[k].ticket /\ claim'[k].open = NoFlow
        /\ claim[k].winner = c.winner /\ claim[k].sem = c.sem /\ c.winner # 0
        /\ My(f).real /\ (c.ticket # NoTicket => claim[k].ticket # NoTicket)
    BY <1>1, <1>2, EndFacts DEF FlowInv, Seen
  <1>4. Agreed(work[f].ticket, k) /\ Agreed(c.ticket, k)
    BY <1>1 DEF FlowInv, Knows
  <1>5. FlowInv(f)' /\ Others(f)
    <2>1. CASE ~SameMessage(f)
      <3>1. Fail(f, TRUE, FALSE)
        BY <2>1 DEF RecordLogicalClaim
      <3>2. QED
        BY <1>1, <1>2, <3>1, FailMoves, StoppedFlow
    <2>2. CASE SameMessage(f) /\ c.winner = d
      <3>1. Goto(f, "own") /\ "own" \in Pc
        BY <2>2 DEF RecordLogicalClaim, Pc
      <3>2. /\ Others(f) /\ work'[f].pc = "own" /\ work'[f].d = d /\ work'[f].seen = c
            /\ work'[f].ticket = work[f].ticket
        BY <1>1, <3>1, GotoMoves
      <3>3. My(f)' = My(f)
        BY <1>1, <3>2 DEF My
      <3>4. Seen(f)'
        BY <1>3, <2>2, <3>2, <3>3 DEF Seen, SameMessage, Routing, Ending
      <3>5. Knows(f)' /\ Answers(f)'
        BY <1>1, <1>4, <3>2, <3>3 DEF Knows, Answers, Ending, Agreed, TicketFor
      <3>6. QED
        BY <3>2, <3>4, <3>5 DEF FlowInv
    <2>3. CASE SameMessage(f) /\ c.winner # d
      <3>1. Outcome(f, "SKIPPED", c.ticket, pc) /\ pc \in Pc /\ "SKIPPED" \in Final
        BY <2>3 DEF RecordLogicalClaim, Pc, Final, Terminal
      <3>2. /\ Others(f) /\ work'[f].pc = pc /\ work'[f].d = d /\ work'[f].seen = c
            /\ work'[f].ticket = c.ticket /\ work'[f].target = "SKIPPED"
        BY <1>1, <3>1, OutcomeMoves
      <3>3. My(f)' = My(f)
        BY <1>1, <3>2 DEF My
      <3>4. Seen(f)'
        BY <1>3, <2>3, <3>2, <3>3 DEF Seen, SameMessage, Routing, Ending
      <3>5. Knows(f)'
        BY <1>1, <1>3, <1>4, <3>2, <3>3 DEF Knows, Agreed, TicketFor
      <3>6. Answers(f)'
        BY <1>3, <2>3, <3>2, <3>3 DEF Answers, Ending, Terminal
      <3>7. QED
        BY <3>2, <3>4, <3>5, <3>6 DEF FlowInv
    <2>4. QED
      BY <2>1, <2>2, <2>3
  <1>6. \A e \in Delivery : RowFine(e)
    BY <1>1, IdentityFine
  <1>7. QED
    BY <1>1, <1>5, <1>6, EndStep

LEMMA RollbackMessage ==
    ASSUME TypeOK, TypeOK', MessageInv, NEW f \in Flow, IdentityLost(f) \/ Throws(f)
    PROVE  MessageInv'
  <1>1. /\ UNCHANGED <<mail, ledger, posts>> /\ claim' = RolledBack(f) /\ work[f].pc # "idle"
        /\ Others(f) /\ work'[f].pc = "fail" /\ work'[f].target \notin Terminal
        /\ work'[f].d = work[f].d /\ work'[f].ticket = work[f].ticket
        /\ work'[f].seen = work[f].seen
    <2>1. CASE IdentityLost(f)
      BY <2>1, FailMoves DEF IdentityLost
    <2>2. CASE Throws(f)
      BY <2>2, ThrowsFacts DEF Throws, GoesOn
    <2>3. QED
      BY <2>1, <2>2
  <1>2. World /\ FlowInv(f)
    BY <1>1, MessageParts, EndWorld
  <1>3. QED
    BY <1>1, <1>2, StoppedFlow, SameLedgerFine, EndStep

(* A delivery's transaction opens the claim of its message, or reads it.   *)
LEMMA ReadMessage ==
    ASSUME TypeOK, TypeOK', LifeInv, MessageInv, NEW f \in Flow, ReadClaim(f)
    PROVE  MessageInv'
  <1> DEFINE k == My(f).key
             d == work[f].d
             c == ClaimRead(f)
  <1>1. /\ UNCHANGED <<mail, ledger, posts>> /\ work[f].pc = "logical" /\ d \in Delivery
        /\ FlowInv(f) /\ (\A j \in Key : KeyInv(j)) /\ (\A g \in Flow : FlowInv(g))
        /\ \A e \in Delivery : RowInv(e)
    BY MessageParts DEF ReadClaim, TypeOK
  <1>2. /\ k \in Key /\ claim[k].open = NoFlow /\ claim'[k] = c
        /\ (\A j \in Key \ {k} : claim'[j] = claim[j])
        /\ Others(f) /\ work'[f].pc = "identify" /\ work'[f].d = d
        /\ work'[f].ticket = work[f].ticket /\ work'[f].seen = c
    BY ReadFacts
  <1>3. My(f) = mail[d] /\ mail[d].real /\ My(f)' = My(f) /\ d # 0 /\ f # NoFlow
    BY <1>1, <1>2, MailType, FlowAssumption DEF FlowInv, Seen, My
  <1>4. /\ claim[k].winner # 0 => c = claim[k]
        /\ claim[k].winner = 0 => /\ c.winner = d /\ c.sem = My(f).sem
                                  /\ c.ticket = NoTicket /\ c.open = f
    BY DEF ClaimRead
  <1>5. World /\ \A g \in Flow : OwnKept(g)
    BY <1>1, <1>2, <1>4, FlowAssumption DEF World, KeyMove, PostMove, OwnKept
  <1>6. FlowInv(f)'
    <2>1. Agreed(work[f].ticket, k) /\ Agreed(c.ticket, k)
      BY <1>1, <1>2, <1>4 DEF FlowInv, Knows, KeyInv, Agreed
    <2>2. Knows(f)'
      BY <1>1, <1>2, <1>3, <2>1 DEF Knows, Agreed, TicketFor
    <2>3. Seen(f)'
      BY <1>2, <1>3, <1>4 DEF Seen, Routing, Ending
    <2>4. Answers(f)'
      BY <1>2 DEF Answers, Ending
    <2>5. QED
      BY <2>2, <2>3, <2>4 DEF FlowInv
  <1>7. \A j \in Key : KeyInv(j)'
    <2>1. ASSUME NEW j \in Key, claim'[j] = claim[j] PROVE KeyInv(j)'
      <3>1. claim[j].open # NoFlow => claim[j].open \in Flow \ {f}
        BY <1>1, <2>1, KeyTypes DEF KeyInv
      <3>2. claim[j].open # NoFlow => work'[claim[j].open] = work[claim[j].open]
        BY <1>2, <3>1 DEF Others
      <3>3. QED
        BY <1>1, <1>5, <2>1, <3>2, KeySteady
    <2>2. ASSUME NEW j \in Key, j = k, claim'[j] # claim[j] PROVE KeyInv(j)'
      <3>1. claim[k].winner = 0 /\ claim[k] = NoClaim
        BY <1>1, <1>2, <1>4, <2>2 DEF KeyInv
      <3>2. ledger[d].state # "ABSENT"
        BY <1>1 DEF LifeInv, RowsExist
      <3>3. posts[k] # << >> =>
              \E e \in Delivery : posts[k] = <<e>> /\ mail[e].key = k /\ ~mail[e].real
        BY <1>1, <1>2, <3>1, MailType DEF KeyInv
      <3>4. posts[k] = << >>
        <4>1. SUFFICES ASSUME NEW e \in Delivery, mail[e].key = k, ~mail[e].real PROVE FALSE
          BY <3>3
        <4>2. mail \in Inboxes /\ d # e
          BY <1>3, <4>1 DEF TypeOK
        <4>3. QED
          BY <1>1, <1>3, <4>1, <4>2, InboxAssumption
      <3>5. /\ claim'[j] = c /\ c.winner = d /\ c.sem = mail[d].sem /\ c.open = f
            /\ c.ticket = NoTicket /\ posts'[j] = << >> /\ mail' = mail /\ mail[d].key = j
            /\ work'[f].pc = "identify" /\ work'[f].d = d /\ ledger'[d].state # "ABSENT"
        BY <1>1, <1>2, <1>3, <1>4, <2>2, <3>1, <3>2, <3>4
      <3>6. QED
        BY <1>3, <3>5 DEF KeyInv, Agreed
    <2>3. QED
      BY <1>2, <2>1, <2>2
  <1>8. \A g \in Flow : FlowInv(g)'
    BY <1>1, <1>2, <1>5, <1>6, FlowSteady DEF Others
  <1>9. \A e \in Delivery : RowInv(e)'
    BY <1>1, <1>5, <1>7, RowSteady, MailType, SameLedgerFine
  <1>10. QED
    BY <1>7, <1>8, <1>9, MessagePartsNext

(* The ticket commits, whether or not the flow learns of it.               *)
LEMMA PostMessage ==
    ASSUME TypeOK, TypeOK', MessageInv, NEW f \in Flow, Post(f) \/ PostAnswerLost(f)
    PROVE  MessageInv'
  <1> DEFINE k == My(f).key
             d == work[f].d
  <1>1. /\ UNCHANGED <<mail, ledger, claim>> /\ work[f].pc = "post" /\ InsertPost(f)
        /\ work[f].pc \in Routing /\ d \in Delivery /\ My(f) = mail[d]
    BY DEF Post, PostAnswerLost, Routing, TypeOK, My
  <1>2. /\ FlowInv(f) /\ (\A j \in Key : KeyInv(j)) /\ (\A g \in Flow : FlowInv(g))
        /\ \A e \in Delivery : RowInv(e)
    BY MessageParts
  <1>3. /\ k \in Key /\ (\A j \in Key \ {k} : posts'[j] = posts[j])
        /\ posts'[k] = <<d>> /\ (posts[k] # << >> => posts'[k] = posts[k])
    BY <1>1, InsertFacts, OwnPost
  <1>4. mail[d].real => /\ claim[k].winner = d /\ claim[k].open = NoFlow
                        /\ work[f].seen.winner = d
    BY <1>1, <1>2 DEF FlowInv, Seen
  <1>5. World /\ \A g \in Flow : OwnKept(g)
    BY <1>1, <1>3, <1>4 DEF World, KeyMove, PostMove, OwnKept
  <1>6. FlowInv(f)' /\ Others(f)
    <2>1. CASE PostAnswerLost(f)
      BY <1>1, <1>2, <1>5, <2>1, FailMoves, StoppedFlow DEF PostAnswerLost
    <2>2. CASE Post(f)
      <3>1. /\ Others(f) /\ work'[f].d = d /\ work'[f].seen = work[f].seen
            /\ work'[f].pc \in {"ownTicket", "finalize"} /\ work'[f].target = "PROCESSED"
            /\ work'[f].ticket = TicketFor(d)
        BY <1>3, <2>2, PostMoves
      <3>2. My(f)' = My(f) /\ TicketFor(d) # NoTicket /\ TicketFor(d)' = TicketFor(d)
        BY <1>1, <3>1, MailType DEF My, TicketFor
      <3>3. AgreedNext(work[f].seen.ticket, k) /\ AgreedNext(TicketFor(d), k)
        BY <1>1, <1>2, <1>3, <1>5, AgreedGrows DEF FlowInv, Knows, AgreedNext
      <3>4. Knows(f)'
        BY <1>1, <1>3, <1>4, <3>1, <3>2, <3>3 DEF Knows, Agreed, AgreedNext, TicketFor
      <3>5. Seen(f)'
        BY <1>1, <1>2, <1>4, <3>1, <3>2 DEF FlowInv, Seen, Routing, Ending
      <3>6. Answers(f)'
        <4>1. HasPostNext(d)
          BY <1>1, <1>3 DEF HasPostNext
        <4>2. QED
          BY <1>1, <3>1, <4>1 DEF Answers, Ending, Terminal, HasPost, HasPostNext
      <3>7. QED
        BY <3>1, <3>4, <3>5, <3>6 DEF FlowInv
    <2>3. QED
      BY <1>1, <2>1, <2>2 DEF Post
  <1>7. \A j \in Key : KeyInv(j)'
    <2>1. ASSUME NEW j \in Key PROVE KeyInv(j)'
      <3>1. claim[j].open # NoFlow => claim[j].open \in Flow \ {f}
        BY <1>1, <1>2, KeyTypes DEF KeyInv
      <3>2. claim[j].open # NoFlow => work'[claim[j].open] = work[claim[j].open]
        BY <1>6, <3>1 DEF Others
      <3>3. QED
        BY <1>1, <1>2, <1>5, <3>2, KeySteady
    <2>2. QED
      BY <2>1
  <1>8. \A g \in Flow : FlowInv(g)'
    BY <1>2, <1>5, <1>6, FlowSteady DEF Others
  <1>9. \A e \in Delivery : RowInv(e)'
    BY <1>1, <1>2, <1>5, <1>7, RowSteady, MailType, SameLedgerFine
  <1>10. QED
    BY <1>7, <1>8, <1>9, MessagePartsNext

(* The winner's claim, and its copies' rows, get the ticket of the post.   *)
LEMMA FinalizeMessage ==
    ASSUME TypeOK, TypeOK', MessageInv, NEW f \in Flow, Finalize(f)
    PROVE  MessageInv'
  <1> DEFINE k == My(f).key
             t == work[f].ticket
  <1>1. /\ UNCHANGED <<mail, posts>> /\ work[f].pc = "finalize" /\ Goto(f, "settle")
        /\ "settle" \in Pc /\ My(f) = mail[work[f].d] /\ work[f].d \in Delivery
    BY DEF Finalize, Pc, My, TypeOK
  <1>2. /\ FlowInv(f) /\ (\A j \in Key : KeyInv(j)) /\ (\A g \in Flow : FlowInv(g))
        /\ \A e \in Delivery : RowInv(e)
    BY MessageParts
  <1>3. /\ Others(f) /\ work'[f].pc = "settle" /\ work'[f].d = work[f].d
        /\ work'[f].seen = work[f].seen /\ work'[f].ticket = t
        /\ work'[f].target = work[f].target
    BY <1>1, GotoMoves
  <1>4. k \in Key /\ t # NoTicket /\ Agreed(t, k) /\ My(f)' = My(f)
    BY <1>1, <1>2, <1>3, MailType DEF FlowInv, Knows, My
  <1>5. My(f).real => claim[k].winner # 0 /\ claim[k].open = NoFlow
    BY <1>1, <1>2 DEF FlowInv, Seen, Ending
  <1>6. /\ KeepsRows
        /\ ~My(f).real => UNCHANGED <<ledger, claim>>
        /\ My(f).real =>
             /\ \A j \in Key : /\ claim'[j].winner = claim[j].winner /\ claim'[j].sem = claim[j].sem
                               /\ claim'[j].open = claim[j].open
                               /\ claim'[j].ticket = IF j = k THEN t ELSE claim[j].ticket
             /\ \A j \in Key \ {k} : claim'[j] = claim[j]
             /\ \A e \in Delivery : \/ ledger'[e] = ledger[e]
                                    \/ mail[e].key = k /\ ledger'[e].owner = t
    BY FinalizeFacts
  <1>7. World /\ \A g \in Flow : OwnKept(g)
    BY <1>1, <1>4, <1>5, <1>6, FlowAssumption DEF World, KeyMove, PostMove, OwnKept
  <1>8. FlowInv(f)'
    <2>1. AgreedNext(work[f].seen.ticket, k) /\ AgreedNext(t, k)
      BY <1>1, <1>2, <1>4, <1>7, AgreedGrows DEF FlowInv, Knows
    <2>2. Knows(f)'
      <3>1. \A e \in Delivery : TicketFor(e)' = TicketFor(e)
        BY <1>1 DEF TicketFor
      <3>2. My(f).key' = k /\ My(f).real' = My(f).real
        BY <1>4
      <3>3. Agreed(work[f].ticket, My(f).key)'
        BY <1>1, <1>3, <2>1, <3>2 DEF Agreed, AgreedNext, TicketFor
      <3>4. Agreed(work[f].seen.ticket, My(f).key)'
        BY <1>1, <1>3, <2>1, <3>2 DEF Agreed, AgreedNext, TicketFor
      <3>5. My(f).real => claim'[k].ticket = t
        BY <1>4, <1>6
      <3>6. QED
        BY <1>3, <1>4, <3>2, <3>3, <3>4, <3>5 DEF Knows
    <2>3. Seen(f)'
      <3>1. claim'[k].winner = claim[k].winner /\ claim'[k].open = claim[k].open /\ claim'[k].sem = claim[k].sem
        BY <1>4, <1>6
      <3>2. Seen(f)
        BY <1>2 DEF FlowInv
      <3>3. My(f).key' = k /\ My(f).real' = My(f).real /\ My(f).sem' = My(f).sem
        BY <1>4
      <3>4. /\ work[f].pc = "finalize" /\ work'[f].pc = "settle"
            /\ work'[f].d = work[f].d /\ work'[f].seen = work[f].seen
        BY <1>1, <1>3
      <3>5. My(f).real => claim'[k].ticket # NoTicket
        BY <1>4, <1>6
      <3>6. QED
        BY <3>1, <3>2, <3>3, <3>4, <3>5 DEF Seen, Routing, Ending
    <2>4. Answers(f)'
      BY <1>1, <1>2, <1>3, <1>4 DEF FlowInv, Answers, Ending, Wanted, HasPost
    <2>5. QED
      BY <2>2, <2>3, <2>4 DEF FlowInv
  <1>9. \A e \in Delivery : RowFine(e)
    <2>1. ASSUME NEW e \in Delivery PROVE RowFine(e)
      <3>1. CASE ledger'[e] = ledger[e]
        BY <3>1 DEF RowFine
      <3>2. CASE mail[e].key = k /\ ledger'[e].owner = t
        <4>1. ledger[e].ticket \in {NoTicket, t}
          BY <1>2, <1>4, <3>2 DEF RowInv, Agreed
        <4>2. QED
          BY <1>6, <3>2, <4>1, KeepsFine
      <3>3. QED
        BY <1>6, <3>1, <3>2
    <2>2. QED
      BY <2>1
  <1>10. \A j \in Key : KeyInv(j)'
    <2>1. ASSUME NEW j \in Key PROVE KeyInv(j)'
      <3>1. /\ claim[j].winner = 0 => claim'[j] = claim[j]
            /\ claim'[j].open # NoFlow => claim'[j] = claim[j]
            /\ claim'[j].ticket = claim[j].ticket \/ Agreed(claim'[j].ticket, j)
        BY <1>4, <1>5, <1>6
      <3>2. claim[j].open # NoFlow => claim[j].open \in Flow \ {f}
        BY <1>1, <1>2, KeyTypes DEF KeyInv
      <3>3. claim'[j].open # NoFlow => work'[claim[j].open] = work[claim[j].open]
        BY <1>3, <3>1, <3>2 DEF Others
      <3>4. QED
        BY <1>1, <1>2, <1>7, <1>9, <3>1, <3>3, KeySteady DEF RowFine
    <2>2. QED
      BY <2>1
  <1>11. \A g \in Flow : FlowInv(g)'
    BY <1>2, <1>3, <1>7, <1>8, FlowSteady DEF Others
  <1>12. \A e \in Delivery : RowInv(e)'
    BY <1>1, <1>2, <1>7, <1>9, <1>10, RowSteady, MailType
  <1>13. QED
    BY <1>10, <1>11, <1>12, MessagePartsNext

(* A flow settles: the message has its post, or the copy that answers for  *)
(* it is unfinished or has its post.                                       *)
LEMMA SettledAccount ==
    ASSUME TypeOK, MessageInv, NEW f \in Flow, work[f].pc = "settle", Wanted(work[f].d)
    PROVE  LET k == My(f).key
           IN \/ HasPost(work[f].d)
              \/ /\ claim[k].open = NoFlow /\ claim[k].winner # work[f].d
                 /\ AnsweredBy(work[f].d, claim[k].winner)
  <1> DEFINE k == My(f).key
             d == work[f].d
             w == claim[k].winner
  <1>1. /\ d \in Delivery /\ My(f) = mail[d] /\ FlowInv(f) /\ mail \in Inboxes
    BY MessageParts DEF TypeOK, My
  <1>2. k \in Key /\ KeyInv(k)
    BY <1>1, MailType, MessageParts
  <1>3. SUFFICES ASSUME mail[d].real, work[f].seen.winner # d
                 PROVE  HasPost(d) \/ (claim[k].open = NoFlow /\ w # d /\ AnsweredBy(d, w))
    BY <1>1 DEF FlowInv, Answers, Ending
  <1>4. /\ w = work[f].seen.winner /\ w # 0 /\ claim[k].open = NoFlow
        /\ claim[k].sem = mail[d].sem
    BY <1>1, <1>3 DEF FlowInv, Seen, Ending
  <1>5. w \in Delivery /\ mail[w].key = k /\ mail[w].sem = mail[d].sem /\ mail[w].real
    BY <1>2, <1>4, KeyTypes DEF KeyInv
  <1>6. Wanted(w)
    <2>1. mail[w].content = mail[d].content
      <3>1. \A m \in Inboxes : \A x, y \in Delivery :
               m[x].key = m[y].key /\ m[x].sem = m[y].sem => m[x].content = m[y].content
        BY InboxAssumption
      <3>2. mail[w].key = mail[d].key /\ mail[w].sem = mail[d].sem
        BY <1>1, <1>5
      <3>3. QED
        BY <1>1, <1>5, <3>1, <3>2
    <2>2. QED
      BY <2>1 DEF Wanted
  <1>7. CASE ledger[w].state \in Terminal
    <2>1. HasPost(w)
      BY <1>5, <1>6, <1>7, MessageParts DEF RowInv, AnsweredBy
    <2>2. QED
      BY <1>1, <1>5, <2>1 DEF HasPost
  <1>8. CASE ledger[w].state \notin Terminal
    BY <1>1, <1>3, <1>4, <1>5, <1>8 DEF AnsweredBy
  <1>9. QED
    BY <1>7, <1>8

(* A row is finished by the flow that holds it.                            *)
LEMMA FinishMessage ==
    ASSUME TypeOK, TypeOK', MessageInv, NEW f \in Flow, work[f].pc = "settle",
           SettleRow(f), Fenced(f), Others(f), UNCHANGED <<mail, claim, posts>>, FlowInv(f)'
    PROVE  MessageInv'
  <1> DEFINE k == My(f).key
             d == work[f].d
             w == claim[k].winner
  <1>1. /\ d \in Delivery /\ My(f) = mail[d] /\ FlowInv(f) /\ mail \in Inboxes
        /\ \A j \in Key : KeyInv(j)
        /\ \A g \in Flow : FlowInv(g)
        /\ \A e \in Delivery : RowInv(e)
    BY MessageParts DEF TypeOK, My
  <1>2. k \in Key /\ k = mail[d].key
    BY <1>1, MailType
  <1>3. World /\ \A g \in Flow : OwnKept(g)
    BY DEF World, KeyMove, PostMove, OwnKept
  <1>4. work[f].target \in Terminal
    BY <1>1 DEF FlowInv, Answers, Ending
  <1>5. /\ \A e \in Delivery \ {d} : ledger'[e] = ledger[e]
        /\ ledger'[d].state = work[f].target /\ ledger'[d].ticket = work[f].ticket
        /\ work[f].ticket # NoTicket => ledger'[d].owner = work[f].ticket
    BY <1>4, SettleFacts
  <1>6. \A j \in Key : KeyInv(j)'
    <2>1. ASSUME NEW j \in Key PROVE KeyInv(j)'
      <3>1. claim[j].open # NoFlow => claim[j].open \in Flow \ {f}
        BY <1>1, KeyTypes DEF KeyInv
      <3>2. claim[j].open # NoFlow => work'[claim[j].open] = work[claim[j].open]
        BY <3>1 DEF Others
      <3>3. \A e \in Delivery : ledger'[e].state = "ABSENT" => ledger[e].state = "ABSENT"
        BY <1>4, <1>5 DEF Terminal
      <3>4. QED
        BY <1>1, <1>3, <3>2, <3>3, KeySteady
    <2>2. QED
      BY <2>1
  <1>7. \A g \in Flow : FlowInv(g)'
    BY <1>1, <1>3, FlowSteady DEF Others
  <1>8. ASSUME NEW e \in Delivery, e = d PROVE RowInv(e)'
    <2>1. Agreed(work[f].ticket, mail[e].key)
      BY <1>1, <1>8 DEF FlowInv, Knows
    <2>2. ASSUME work[f].ticket # NoTicket, mail[e].real
          PROVE  claim[mail[e].key].ticket = work[f].ticket
      BY <1>1, <1>2, <1>8, <2>1, <2>2 DEF FlowInv, Knows, KeyInv, Agreed
    <2>3. Wanted(e) => \/ HasPost(e)
                       \/ /\ claim[mail[e].key].open = NoFlow /\ claim[mail[e].key].winner # e
                          /\ AnsweredBy(e, claim[mail[e].key].winner)
      BY <1>1, <1>8, SettledAccount
    <2>4. mail[e].key \in Key
      BY MailType
    <2>5. AnsweredBy(e, claim[mail[e].key].winner) /\ claim[mail[e].key].winner # e
            => AnsweredNext(e, claim[mail[e].key].winner)
      BY <1>5, <1>8, <2>4, KeyTypes DEF AnsweredBy, AnsweredNext
    <2>6. QED
      BY <1>5, <1>8, <2>1, <2>2, <2>3, <2>5
         DEF RowInv, Agreed, Wanted, HasPost, AnsweredBy, AnsweredNext, TicketFor
  <1>9. ASSUME NEW e \in Delivery, e # d PROVE RowInv(e)'
    <2> DEFINE j == mail[e].key
    <2>1. RowInv(e) /\ j \in Key /\ ledger'[e] = ledger[e]
      BY <1>1, <1>5, <1>9, MailType
    <2>2. ASSUME Wanted(e), claim[j].open = NoFlow, AnsweredBy(e, claim[j].winner)
          PROVE  HasPost(e) \/ AnsweredNext(e, claim[j].winner)
      <3>1. CASE claim[j].winner = d
        <4>1. mail[d].key = j /\ mail[d].real /\ mail[d].sem = mail[e].sem /\ d # 0
          BY <1>1, <2>1, <2>2, <3>1, MailType DEF KeyInv, AnsweredBy
        <4>2. Wanted(d)
          BY <1>1, <1>9, <2>2, <4>1, InboxAssumption DEF Wanted
        <4>3. HasPost(d)
          BY <1>1, <1>2, <3>1, <4>1, <4>2, SettledAccount
        <4>4. QED
          BY <4>1, <4>3 DEF HasPost
      <3>2. CASE claim[j].winner # d
        <4>1. claim[j].winner \in Delivery \ {d}
          BY <2>1, <2>2, <3>2, KeyTypes DEF AnsweredBy
        <4>2. QED
          BY <1>5, <2>2, <4>1 DEF AnsweredBy, AnsweredNext
      <3>3. QED
        BY <3>1, <3>2
    <2>3. QED
      BY <2>1, <2>2 DEF RowInv, Agreed, Wanted, HasPost, AnsweredBy, AnsweredNext, TicketFor
  <1>10. \A e \in Delivery : RowInv(e)'
    BY <1>8, <1>9
  <1>11. QED
    BY <1>6, <1>7, <1>10, MessagePartsNext

LEMMA SettleMessage ==
    ASSUME TypeOK, TypeOK', MessageInv, NEW f \in Flow, Settle(f) \/ SettleAnswerLost(f)
    PROVE  MessageInv'
  <1>1. /\ UNCHANGED <<mail, claim, posts>> /\ SettleRow(f)
        /\ work[f].pc \in {"early", "settle", "fail"} /\ FlowInv(f)
    BY MessageParts DEF Settle, SettleAnswerLost
  <1>2. World
    BY <1>1 DEF World, KeyMove, PostMove
  <1>3. FlowInv(f)' /\ Others(f)
    <2>1. CASE Settle(f)
      BY <2>1, IdleFacts, IdleFlow DEF Settle
    <2>2. CASE SettleAnswerLost(f)
      BY <1>1, <1>2, <2>2, FailMoves, StoppedFlow DEF SettleAnswerLost
    <2>3. QED
      BY <2>1, <2>2
  <1>4. CASE ~Fenced(f)
    <2>1. UNCHANGED ledger
      BY <1>1, <1>4, SettleFacts
    <2>2. QED
      BY <1>1, <1>3, <2>1, SameLedgerFine, QuietStep
  <1>5. CASE Fenced(f) /\ work[f].target \notin Terminal
    <2>1. \A e \in Delivery : RowFine(e)
      <3>1. work[f].target # "ABSENT"
        BY DEF TypeOK, FlowState, Final, Terminal
      <3>2. QED
        BY <1>1, <1>5, <3>1, SettleFacts DEF RowFine, Fenced, Terminal
    <2>2. QED
      BY <1>1, <1>3, <2>1, QuietStep
  <1>6. CASE Fenced(f) /\ work[f].target \in Terminal
    <2>1. work[f].pc = "settle"
      BY <1>1, <1>6 DEF FlowInv, Answers
    <2>2. QED
      BY <1>1, <1>3, <1>6, <2>1, FinishMessage
  <1>7. QED
    BY <1>4, <1>5, <1>6

LEMMA FlowStepMessage ==
    ASSUME TypeOK, TypeOK', LifeInv, MessageInv, NEW f \in Flow, FlowStep(f)
    PROVE  MessageInv'
  <1>1. CASE OwnerLost(f)
    BY <1>1, StopMessage
  <1>2. CASE IdentityLost(f)
    BY <1>2, RollbackMessage
  <1>3. CASE Post(f)
    BY <1>3, PostMessage
  <1>4. CASE Settle(f)
    BY <1>4, SettleMessage
  <1>5. QED
    BY <1>1, <1>2, <1>3, <1>4, ClaimMessage, LoadMessage, ReadMessage, LogicalMessage,
       HeaderlessMessage, OwnRouteMessage, DedupMessage, AddressMessage, OwnTicketMessage,
       FinalizeMessage DEF FlowStep

LEMMA FlowOtherMessage ==
    ASSUME TypeOK, TypeOK', MessageInv, NEW f \in Flow, FlowOther(f)
    PROVE  MessageInv'
  <1>1. CASE DrainReads(f)
    BY <1>1, SameLedgerFine, StillStep DEF DrainReads
  <1>2. CASE ProcessDelivery(f)
    <2>1. UNCHANGED <<mail, ledger, claim, posts>> /\ work[f].pc = "idle"
      BY <1>2 DEF ProcessDelivery
    <2>2. CASE work' = work
      BY <2>1, <2>2, SameLedgerFine, StillStep
    <2>3. CASE work' # work
      <3>1. /\ Others(f) /\ work'[f].pc = "claim" /\ work'[f].ticket = NoTicket
            /\ work'[f].seen.ticket = NoTicket
        BY <1>2, <2>3, ProcessFacts DEF NoClaim
      <3>2. FlowInv(f)'
        BY <3>1 DEF FlowInv, Seen, Knows, Answers, Agreed, Routing, Ending
      <3>3. QED
        BY <2>1, <3>1, <3>2, SameLedgerFine, QuietStep
    <2>4. QED
      BY <2>2, <2>3
  <1>3. CASE RawReadFails(f)
    BY <1>3, StopMessage
  <1>4. CASE PostAnswerLost(f)
    BY <1>4, PostMessage
  <1>5. CASE SettleAnswerLost(f)
    BY <1>5, SettleMessage
  <1>6. CASE Throws(f)
    BY <1>6, RollbackMessage
  <1>7. CASE FlowDies(f)
    BY <1>7, IdleFacts, IdleFlow, SameLedgerFine, QuietStep DEF FlowDies
  <1>8. CASE Heartbeat(f)
    <2>1. \A d \in Delivery : RowFine(d)
      BY <1>8, HeartbeatFacts DEF RowFine
    <2>2. QED
      BY <1>8, <2>1, StillStep DEF Heartbeat
  <1>9. ASSUME NEW d \in Delivery, IngestRawMessage(f, d) PROVE MessageInv'
    <2>1. \A e \in Delivery : RowFine(e)
      BY <1>9, AcceptFacts DEF RowFine, Terminal
    <2>2. QED
      BY <1>9, <2>1, StillStep DEF IngestRawMessage
  <1>10. QED
    BY <1>1, <1>2, <1>3, <1>4, <1>5, <1>6, <1>7, <1>8, <1>9 DEF FlowOther

(* A crash drops the open claims of the process with its flows.            *)
LEMMA CrashMessage ==
    ASSUME TypeOK, TypeOK', MessageInv, NEW p \in Process, Crash(p)
    PROVE  MessageInv'
  <1>1. /\ \A k \in Key : KeyInv(k)
        /\ \A g \in Flow : FlowInv(g)
        /\ \A d \in Delivery : RowInv(d)
    BY MessageParts
  <1>2. UNCHANGED <<mail, ledger, posts>>
    BY DEF Crash
  <1>3. World /\ \A g \in Flow : ProcessOf[g] # p => OwnKept(g)
    BY <1>2, CrashFacts, FlowAssumption DEF World, KeyMove, PostMove, OwnKept
  <1>4. \A k \in Key : KeyInv(k)'
    <2>1. ASSUME NEW k \in Key PROVE KeyInv(k)'
      <3>1. /\ claim[k].winner = 0 => claim'[k] = claim[k]
            /\ claim'[k].open # NoFlow =>
                 claim'[k] = claim[k] /\ work'[claim[k].open] = work[claim[k].open]
            /\ claim'[k].ticket = claim[k].ticket \/ Agreed(claim'[k].ticket, k)
        BY <1>1, CrashFacts, KeyTypes DEF KeyInv, Agreed
      <3>2. QED
        BY <1>1, <1>2, <1>3, <3>1, KeySteady
    <2>2. QED
      BY <2>1
  <1>5. \A g \in Flow : FlowInv(g)'
    <2>1. ASSUME NEW g \in Flow, ProcessOf[g] = p PROVE FlowInv(g)'
      BY <2>1, CrashFacts, IdleFlow
    <2>2. ASSUME NEW g \in Flow, ProcessOf[g] # p PROVE FlowInv(g)'
      BY <1>1, <1>3, <2>2, CrashFacts, FlowSteady
    <2>3. QED
      BY <2>1, <2>2
  <1>6. \A d \in Delivery : RowInv(d)'
    BY <1>1, <1>2, <1>3, <1>4, RowSteady, MailType, SameLedgerFine
  <1>7. QED
    BY <1>4, <1>5, <1>6, MessagePartsNext

LEMMA EventMessage ==
    ASSUME TypeOK, TypeOK', MessageInv,
           \/ \E d \in Delivery : RowEvent(d)
           \/ \E p \in Process : Crash(p)
           \/ PruneSelects \/ PruneWrites
    PROVE  MessageInv'
  <1>1. ASSUME NEW d \in Delivery, Accept(d) PROVE MessageInv'
    <2>1. \A e \in Delivery : RowFine(e)
      BY <1>1, AcceptFacts DEF RowFine, Terminal
    <2>2. QED
      BY <1>1, <2>1, StillStep DEF Accept
  <1>2. ASSUME NEW d \in Delivery, LeaseExpires(d) PROVE MessageInv'
    <2>1. \A e \in Delivery : RowFine(e)
      BY <1>2, ExpiryFacts DEF RowFine
    <2>2. QED
      BY <1>2, <2>1, StillStep DEF LeaseExpires
  <1>3. ASSUME NEW d \in Delivery, RetryBecomesDue(d) PROVE MessageInv'
    BY <1>3, DueFacts, KeepsFine, StillStep DEF RetryBecomesDue
  <1>4. ASSUME NEW d \in Delivery, ReplayQuarantined(d) PROVE MessageInv'
    <2>1. \A e \in Delivery : RowFine(e)
      BY <1>4, ReplayFacts DEF RowFine, Terminal
    <2>2. QED
      BY <1>4, <2>1, StillStep DEF ReplayQuarantined
  <1>5. CASE PruneSelects
    BY <1>5, SameLedgerFine, StillStep DEF PruneSelects
  <1>6. CASE PruneWrites
    <2>1. \A e \in Delivery : RowFine(e)
      BY <1>6, PruneFacts DEF RowFine
    <2>2. QED
      BY <1>6, <2>1, StillStep DEF PruneWrites
  <1>7. QED
    BY <1>1, <1>2, <1>3, <1>4, <1>5, <1>6, CrashMessage DEF RowEvent
--------------------------------------------------------------------------------
(* The invariant.                                                          *)

LEMMA InvInit == Init => LedgerInv
  <1> SUFFICES ASSUME Init PROVE LedgerInv
    OBVIOUS
  <1>1. TypeOK /\ TokensUnique
    BY InitType, TokensInit
  <1>2. /\ \A d \in Delivery : /\ ledger[d].state = "ABSENT" /\ ledger[d].attempts = 0
                               /\ ledger[d].ticket = NoTicket /\ runs[d] = 0
        /\ \A f \in Flow : work[f].pc = "idle" /\ due[f] = {}
        /\ \A k \in Key : claim[k] = NoClaim /\ posts[k] = << >>
        /\ doomed = {} /\ MaxAttempts \in Nat
        /\ NoClaim.winner = 0 /\ NoClaim.open = NoFlow /\ NoClaim.ticket = NoTicket
    BY BoundAssumption DEF Init, Absent, Idle, NoClaim
  <1>3. PoisonBudget /\ AttemptsPaid /\ RowsExist /\ ReplayableKeepsRaw
    BY <1>2 DEF PoisonBudget, AttemptsPaid, RowsExist, ReplayableKeepsRaw
  <1>4. MessageInv
    <2>1. \A k \in Key : KeyInv(k)
      BY <1>2 DEF KeyInv, Agreed
    <2>2. \A f \in Flow : FlowInv(f)
      BY <1>2 DEF FlowInv, Seen, Knows, Answers, Routing, Ending
    <2>3. \A d \in Delivery : RowInv(d)
      BY <1>2 DEF RowInv, Agreed, Terminal
    <2>4. QED
      BY <2>1, <2>2, <2>3, MessageParts
  <1>5. QED
    BY <1>1, <1>3, <1>4 DEF LedgerInv, MessageInv

LEMMA StutterInv ==
    ASSUME LedgerInv, UNCHANGED vars
    PROVE  LedgerInv'
  <1> USE DEF vars
  <1>1. TypeOK'
    BY DEF LedgerInv, TypeOK
  <1>2. (PoisonBudget /\ AttemptsPaid /\ RowsExist /\ ReplayableKeepsRaw)'
    BY DEF LedgerInv, PoisonBudget, AttemptsPaid, RowsExist, ReplayableKeepsRaw, Fenced
  <1>3. TokensUnique'
    BY DEF LedgerInv, TokensUnique
  <1>4. MessageInv'
    <2>1. MessageInv /\ TypeOK
      BY DEF LedgerInv, MessageInv
    <2>2. QED
      BY <1>1, <2>1, SameLedgerFine, StillStep
  <1>5. QED
    BY <1>1, <1>2, <1>3, <1>4 DEF LedgerInv, MessageInv

LEMMA InvNext == LedgerInv /\ [Next]_vars => LedgerInv'
  <1> SUFFICES ASSUME LedgerInv, [Next]_vars PROVE LedgerInv'
    OBVIOUS
  <1>1. TypeOK /\ TokensUnique /\ LifeInv /\ MessageInv
    BY DEF LedgerInv, LifeInv, MessageInv
  <1>2. TypeOK' /\ TokensUnique'
    BY <1>1, NextType, TokensNext
  <1>3. CASE Next
    <2>1. LifeInv'
      BY <1>1, <1>2, <1>3, Steps, FlowStepLife, FlowOtherLife, EventLife
    <2>2. MessageInv'
      BY <1>1, <1>2, <1>3, Steps, FlowStepMessage, FlowOtherMessage, EventMessage
    <2>3. QED
      BY <1>2, <2>1, <2>2 DEF LedgerInv, LifeInv, MessageInv
  <1>4. CASE UNCHANGED vars
    BY <1>4, StutterInv
  <1>5. QED
    BY <1>3, <1>4

(* The ledger's invariant: leases and tokens, paid attempts, claims and    *)
(* their winners, tickets that agree, and every wanted message accounted   *)
(* for (processDelivery, claimRealMessage, finalize and markDelivery).     *)
THEOREM LedgerInvariant == Spec => []LedgerInv
  <1>1. QED
    BY InvInit, InvNext, PTL DEF Spec

(* One message makes one ticket post, however many copies, retries and     *)
(* late flows there are (claimRealMessage, TicketPost.inboundMessageId).   *)
THEOREM OneTicket == Spec => []OneTicketPerMessage
  <1>1. LedgerInv => OneTicketPerMessage
    <2> SUFFICES ASSUME LedgerInv, NEW k \in Key
                 PROVE  /\ Len(posts[k]) <= 1
                        /\ \A i \in DOMAIN posts[k] : LET d == posts[k][i]
                             IN mail[d].real => claim[k].winner = d /\ claim[k].sem = mail[d].sem
      BY DEF OneTicketPerMessage
    <2>1. TypeOK /\ KeyInv(k)
      BY MessageParts DEF LedgerInv, MessageInv
    <2>2. CASE posts[k] = << >>
      BY <2>2
    <2>3. CASE posts[k] # << >>
      <3>1. PICK d \in Delivery : posts[k] = <<d>> /\ (mail[d].real => claim[k].winner = d)
        BY <2>1, <2>3 DEF KeyInv
      <3>2. mail[d].real => claim[k].sem = mail[d].sem
        BY <2>1, <3>1, MailType DEF KeyInv
      <3>3. QED
        BY <3>1, <3>2
    <2>4. QED
      BY <2>2, <2>3
  <1>2. QED
    BY <1>1, LedgerInvariant, PTL

(* No wanted message is settled away: it has its post, or an unfinished    *)
(* delivery with its raw MIME answers for it (settle, pruneRawMime).       *)
THEOREM NothingLost == Spec => []NothingIsLost
  <1>1. LedgerInv => NothingIsLost
    <2> SUFFICES ASSUME LedgerInv PROVE NothingIsLost
      OBVIOUS
    <2>1. TypeOK /\ MessageInv /\ ReplayableKeepsRaw
      BY DEF LedgerInv, MessageInv
    <2>2. ASSUME NEW d \in Delivery, Wanted(d), ledger[d].state \in Terminal
          PROVE  LET w == claim[mail[d].key].winner
                 IN \/ \E i \in DOMAIN posts[mail[d].key] :
                         mail[posts[mail[d].key][i]].sem = mail[d].sem
                    \/ /\ mail[d].real /\ w # 0 /\ mail[w].sem = mail[d].sem
                       /\ ledger[w].state \notin Terminal /\ ledger[w].raw
      <3> DEFINE k == mail[d].key
                 w == claim[k].winner
      <3>1. k \in Key /\ posts[k] \in Seq(Delivery) /\ KeyInv(k) /\ RowInv(d)
        BY <2>1, MailType, MessageParts DEF TypeOK
      <3>2. CASE HasPost(d)
        <4>1. 1 \in DOMAIN posts[k]
          BY <3>1, <3>2 DEF HasPost
        <4>2. QED
          BY <3>2, <4>1 DEF HasPost
      <3>3. CASE AnsweredBy(d, w)
        <4>1. w \in Delivery /\ ledger[w].state # "ABSENT"
          BY <2>1, <3>1, <3>3, KeyTypes DEF AnsweredBy, KeyInv
        <4>2. ledger[w].raw
          BY <2>1, <3>3, <4>1 DEF AnsweredBy, ReplayableKeepsRaw
        <4>3. QED
          BY <3>3, <4>2 DEF AnsweredBy
      <3>4. QED
        BY <2>2, <3>1, <3>2, <3>3 DEF RowInv
    <2>3. QED
      BY <2>1, <2>2 DEF NothingIsLost, NoSilentLoss
  <1>2. QED
    BY <1>1, LedgerInvariant, PTL
================================================================================
