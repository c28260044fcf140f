---------------------------- MODULE BrowserProofs ----------------------------
(***************************************************************************)
(* Proofs about the browser and the sessions behind it.  First             *)
(* StaffSessions, for any number of tokens, tabs, links and changes: the   *)
(* chains of refresh tokens, the reset links, and the causes for which a   *)
(* session ends.  Then MCBrowser, for any tickets, screens, forms, files   *)
(* and calls: its pages, part by part.                                     *)
(***************************************************************************)
EXTENDS StaffSessions, MCBrowser, TLAPS

TokenRow  == [state: TokenState, aged: BOOLEAN, version: Nat,
              family: Token \cup {NoToken}, parent: Token \cup {NoToken}]
LinkRow   == [state: LinkState, pc: {"start", "mail", "activate", "done"},
              version: Nat, mailed: BOOLEAN, expired: BOOLEAN, uses: Nat]
TabRow    == [pc: TabPc, token: Token \cup {NoToken}, seen: TokenState, version: Nat]
ChangeRow == [kind: Kind, pc: ChangePc, snapshot: SUBSET Token, link: Link \cup {0}]

\* A tab that waits for an answer about a token has one.
Asking == \A b \in Tab : tab[b].pc \in {"read", "staff", "rotate", "replay"} => tab[b].token \in Token

--------------------------------------------------------------------------------
(* Type correctness.                                                       *)

\* The type invariant, by the sort of its rows.
LEMMA Types ==
    TypeOK <=> /\ version \in Nat /\ enabled \in BOOLEAN /\ faults \in Nat
               /\ token \in [Token -> TokenRow]
               /\ link \in [Link -> LinkRow]
               /\ tab \in [Tab -> TabRow]
               /\ jar \in Token \cup {NoToken}
               /\ change \in [Change -> ChangeRow]
BY Zenon DEF TypeOK, TokenRow, LinkRow, TabRow, ChangeRow

\* The rows that a login, a request for a link and an idle tab start from.
LEMMA NewRows == NewToken \in TokenRow /\ NewLink \in LinkRow /\ IdleTab \in TabRow
BY DEF NewToken, NewLink, IdleTab, TokenRow, LinkRow, TabRow, TokenState, LinkState, TabPc

\* The tokens that a change ends keep everything but their state.
LEMMA RevokedRows ==
    ASSUME token \in [Token -> TokenRow], NEW S
    PROVE  Revoked(S) \in [Token -> TokenRow]
<1>1. \A t \in Token : [token[t] EXCEPT !.state = "changed"] \in TokenRow
  BY DEF TokenRow, TokenState
<1> QED BY <1>1 DEF Revoked

\* The links that a change burns keep everything but their state.
LEMMA BurntRows ==
    ASSUME link \in [Link -> LinkRow]
    PROVE  Burnt \in [Link -> LinkRow]
<1>1. \A n \in Link : [link[n] EXCEPT !.state = "inactive"] \in LinkRow
  BY DEF LinkRow, LinkState
<1> QED BY <1>1 DEF Burnt

LEMMA TypeInit == Init => TypeOK
<1> SUFFICES ASSUME Init PROVE TypeOK
  OBVIOUS
<1>1. change \in [Change -> ChangeRow]
  <2>1. [kind: Kind, pc: {"start"}, snapshot: {{}}, link: {0}] \subseteq ChangeRow
    BY DEF ChangeRow, ChangePc
  <2> QED BY <2>1 DEF Init
<1> QED BY <1>1, NewRows, Types DEF Init

\* The browser keeps the types.
LEMMA TypeTab ==
    ASSUME TypeOK, Asking, NEW b \in Tab,
           \/ Login(b) \/ PersistRefreshToken(b) \/ SendRefresh(b) \/ ReadToken(b)
           \/ ReadStaff(b) \/ Rotate(b) \/ RevokeFamily(b) \/ Answer(b) \/ Refused(b)
           \/ TabFails(b) \/ AnswerLost(b)
    PROVE  TypeOK'
<1> USE NewRows
<1>0. /\ version \in Nat /\ enabled \in BOOLEAN /\ faults \in Nat
      /\ token \in [Token -> TokenRow] /\ link \in [Link -> LinkRow] /\ tab \in [Tab -> TabRow]
      /\ jar \in Token \cup {NoToken} /\ change \in [Change -> ChangeRow]
  BY Types
<1> SUFFICES /\ version' \in Nat /\ enabled' \in BOOLEAN /\ faults' \in Nat
             /\ token' \in [Token -> TokenRow] /\ link' \in [Link -> LinkRow]
             /\ tab' \in [Tab -> TabRow]
             /\ jar' \in Token \cup {NoToken} /\ change' \in [Change -> ChangeRow]
  BY DEF TypeOK, TokenRow, LinkRow, TabRow, ChangeRow
<1>1. CASE Login(b)
  <2>1. [IdleTab EXCEPT !.pc = "persist", !.version = version] \in TabRow
    BY <1>0 DEF IdleTab, TabRow, TabPc, TokenState
  <2> QED BY <1>0, <1>1, <2>1 DEF Login
<1>2. CASE PersistRefreshToken(b)
  <2>1. PICK t \in Unused :
          /\ token' = [token EXCEPT ![t] = [NewToken EXCEPT !.state = "live", !.family = t,
                                                            !.version = tab[b].version]]
          /\ tab' = [tab EXCEPT ![b].pc = "answer", ![b].token = t]
    BY <1>2 DEF PersistRefreshToken
  <2>2. [NewToken EXCEPT !.state = "live", !.family = t, !.version = tab[b].version] \in TokenRow
    BY <1>0, <2>1 DEF NewToken, TokenRow, TokenState, TabRow, Unused
  <2> DEFINE r == [tab[b] EXCEPT !.pc = "answer", !.token = t]
  <2>3. tab' = [tab EXCEPT ![b] = r]
    BY <1>0, <2>1
  <2>4. r \in TabRow
    BY <1>0, <2>1 DEF TabRow, TabPc, Unused
  <2> HIDE DEF r
  <2>5. token' \in [Token -> TokenRow]
    BY <1>0, <2>1, <2>2 DEF Unused
  <2>6. tab' \in [Tab -> TabRow]
    BY <1>0, <2>3, <2>4
  <2>7. UNCHANGED <<version, enabled, link, jar, change, faults>>
    BY <1>2 DEF PersistRefreshToken
  <2> QED BY <1>0, <2>5, <2>6, <2>7
<1>3. CASE SendRefresh(b)
  <2>1. [IdleTab EXCEPT !.pc = "read", !.token = jar] \in TabRow
    BY <1>0 DEF IdleTab, TabRow, TabPc, TokenState
  <2> QED BY <1>0, <1>3, <2>1 DEF SendRefresh
<1>4. CASE ReadToken(b)
  <2> DEFINE r == [tab[b] EXCEPT !.pc = "staff", !.seen = token[tab[b].token].state]
  <2>1. tab' = [tab EXCEPT ![b] = r]
    BY <1>0, <1>4 DEF ReadToken
  <2>2. token[tab[b].token].state \in TokenState
    BY <1>0, <1>4 DEF Asking, ReadToken, TokenRow
  <2>3. r \in TabRow
    BY <1>0, <2>2 DEF TabRow, TabPc
  <2> HIDE DEF r
  <2> QED BY <1>0, <1>4, <2>1, <2>3 DEF ReadToken
<1>5. CASE ReadStaff(b)
  <2> DEFINE r == [tab[b] EXCEPT !.pc = IF MayRefresh(tab[b].token) THEN "rotate" ELSE "refused",
                                 !.version = version]
  <2>1. tab' = [tab EXCEPT ![b] = r]
    BY <1>0, <1>5 DEF ReadStaff
  <2>2. r \in TabRow
    BY <1>0 DEF TabRow, TabPc
  <2> HIDE DEF r
  <2>3. tab' \in [Tab -> TabRow]
    BY <1>0, <2>1, <2>2
  <2>4. UNCHANGED <<version, enabled, token, link, jar, change, faults>>
    BY <1>5 DEF ReadStaff
  <2> QED BY <1>0, <2>3, <2>4
<1>6. CASE Rotate(b)
  <2> DEFINE t == tab[b].token
  <2>1. t \in Token /\ token[t] \in TokenRow /\ tab[b] \in TabRow
    BY <1>0, <1>6 DEF Asking, Rotate
  <2>2. CASE Consumable(t)
    <3>1. PICK u \in Unused :
            /\ token' = [token EXCEPT ![t].state = "rotated",
                           ![u] = [NewToken EXCEPT !.state = "live", !.family = token[t].family,
                                                   !.parent = t, !.version = tab[b].version]]
            /\ tab' = [tab EXCEPT ![b].pc = "answer", ![b].token = u]
      BY <1>6, <2>2 DEF Rotate, Consume
    <3> DEFINE p == [token[t] EXCEPT !.state = "rotated"]
               n == [NewToken EXCEPT !.state = "live", !.family = token[t].family,
                                     !.parent = t, !.version = tab[b].version]
               r == [tab[b] EXCEPT !.pc = "answer", !.token = u]
    <3>2. u \in Token
      BY DEF Unused
    <3>3. p \in TokenRow
      BY <2>1 DEF TokenRow, TokenState
    <3>4. n \in TokenRow
      BY <2>1 DEF NewToken, TokenRow, TokenState, TabRow
    <3>5. r \in TabRow
      BY <2>1, <3>2 DEF TabRow, TabPc
    <3>6. token' = [token EXCEPT ![t] = p, ![u] = n]
      BY <3>1
    <3>7. tab' = [tab EXCEPT ![b] = r]
      BY <3>1
    <3> HIDE DEF p, n, r
    <3>8. token' \in [Token -> TokenRow]
      BY <1>0, <2>1, <3>2, <3>3, <3>4, <3>6
    <3> QED BY <1>0, <1>6, <3>5, <3>7, <3>8 DEF Rotate
  <2>3. CASE ~Consumable(t)
    <3> DEFINE r == [tab[b] EXCEPT !.pc = IF Benign(b) THEN "answer" ELSE "replay",
                                   !.token = IF Benign(b) THEN NoToken ELSE t]
    <3>1. tab' = [tab EXCEPT ![b] = r] /\ token' = token
      BY <1>6, <2>3 DEF Rotate
    <3>2. r \in TabRow
      BY <2>1 DEF TabRow, TabPc
    <3> HIDE DEF r
    <3> QED BY <1>0, <1>6, <3>1, <3>2 DEF Rotate
  <2> QED BY <2>2, <2>3
<1>7. CASE RevokeFamily(b)
  <2>1. \A t \in Token : [token[t] EXCEPT !.state = "replayed"] \in TokenRow
    BY <1>0 DEF TokenRow, TokenState
  <2>2. [tab[b] EXCEPT !.pc = "refused"] \in TabRow
    BY <1>0 DEF TabRow, TabPc
  <2>3. token' \in [Token -> TokenRow]
    BY <1>0, <1>7, <2>1 DEF RevokeFamily
  <2>4. tab' \in [Tab -> TabRow]
    BY <1>0, <1>7, <2>2 DEF RevokeFamily, TabGo
  <2> QED BY <1>0, <1>7, <2>3, <2>4 DEF RevokeFamily
<1>8. CASE Answer(b)
  BY <1>0, <1>8 DEF Answer, TabRow
<1>9. CASE Refused(b)
  BY <1>0, <1>9 DEF Refused
<1>10. CASE TabFails(b)
  <2>1. [IdleTab EXCEPT !.pc = "refused"] \in TabRow
    BY DEF IdleTab, TabRow, TabPc, TokenState
  <2>2. tab' \in [Tab -> TabRow]
    BY <1>0, <1>10, <2>1 DEF TabFails
  <2> QED BY <1>0, <1>10, <2>2 DEF TabFails
<1>11. CASE AnswerLost(b)
  BY <1>0, <1>11 DEF AnswerLost
<1> QED BY <1>1, <1>2, <1>3, <1>4, <1>5, <1>6, <1>7, <1>8, <1>9, <1>10, <1>11

\* The links keep the types.
LEMMA TypeLink ==
    ASSUME TypeOK, NEW n \in Link,
           Forgot(n) \/ Mailed(n) \/ MailFails(n) \/ Activate(n) \/ LinkExpires(n)
    PROVE  TypeOK'
<1>0. /\ version \in Nat /\ enabled \in BOOLEAN /\ faults \in Nat
      /\ token \in [Token -> TokenRow] /\ link \in [Link -> LinkRow] /\ tab \in [Tab -> TabRow]
      /\ jar \in Token \cup {NoToken} /\ change \in [Change -> ChangeRow]
  BY Types
<1>1. SUFFICES link' \in [Link -> LinkRow] /\ faults' \in Nat
  <2>1. UNCHANGED <<version, enabled, token, tab, jar, change>>
    BY DEF Forgot, Mailed, MailFails, Activate, LinkExpires
  <2> QED BY <1>0, <2>1 DEF TypeOK, TokenRow, LinkRow, TabRow, ChangeRow
<1>2. faults' \in Nat
  BY <1>0 DEF Forgot, Mailed, MailFails, Activate, LinkExpires
<1>3. link' \in [Link -> LinkRow]
  <2>1. CASE Forgot(n)
    <3>1. [NewLink EXCEPT !.state = "inactive", !.pc = "mail", !.version = version] \in LinkRow
      BY <1>0 DEF NewLink, LinkRow, LinkState
    <3> QED BY <1>0, <2>1, <3>1 DEF Forgot
  <2>2. CASE Mailed(n)
    <3> DEFINE r == [link[n] EXCEPT !.pc = "activate", !.mailed = TRUE]
    <3>1. link' = [link EXCEPT ![n] = r]
      BY <1>0, <2>2 DEF Mailed
    <3>2. r \in LinkRow
      BY <1>0 DEF LinkRow
    <3> HIDE DEF r
    <3> QED BY <1>0, <3>1, <3>2
  <2>3. CASE MailFails(n)
    <3>1. [link[n] EXCEPT !.pc = "done"] \in LinkRow
      BY <1>0 DEF LinkRow
    <3> QED BY <1>0, <2>3, <3>1 DEF MailFails
  <2>4. CASE Activate(n)
    <3>1. /\ [link[n] EXCEPT !.pc = "done"] \in LinkRow
          /\ [link[n] EXCEPT !.state = "active", !.pc = "done"] \in LinkRow
          /\ \A m \in Link : [link[m] EXCEPT !.state = "inactive"] \in LinkRow
      BY <1>0 DEF LinkRow, LinkState
    <3>2. ActivatesOnly(n) \in [Link -> LinkRow]
      BY <1>0, <3>1 DEF ActivatesOnly
    <3> QED BY <1>0, <2>4, <3>1, <3>2 DEF Activate
  <2>5. CASE LinkExpires(n)
    <3>1. [link[n] EXCEPT !.expired = TRUE] \in LinkRow
      BY <1>0 DEF LinkRow
    <3> QED BY <1>0, <2>5, <3>1 DEF LinkExpires
  <2> QED BY <2>1, <2>2, <2>3, <2>4, <2>5
<1> QED BY <1>1, <1>2, <1>3

\* The steps of a change.
Changes(c) ==
    \/ LogoutBegins(c) \/ LogoutCommits(c) \/ ResetLocks(c) \/ ResetCommits(c)
    \/ UpdateBegins(c) \/ UpdateCommits(c) \/ Disable(c) \/ Regroup(c)
    \/ RevokeSnapshot(c) \/ RevokeTokens(c) \/ BurnLinks(c) \/ ChangeFails(c)
    \/ \E n \in Link : ResetPrechecks(c, n)

\* Where a change goes, and what its row keeps: a change writes its own row,
\* goes forward, and keeps its kind.
LEMMA ChangeGoes ==
    ASSUME TypeOK, NEW c \in Change, Changes(c)
    PROVE  /\ change' \in [Change -> ChangeRow]
           /\ \A d \in Change : d # c => change'[d] = change[d]
           /\ change'[c].kind = change[c].kind
           /\ change'[c].pc = "start" => change[c].pc = "start"
           /\ change'[c].pc = "tx" => LogoutBegins(c) \/ ResetLocks(c)
           /\ change[c].pc = "tx" => change'[c].pc # "tx"
           /\ change'[c].link # change[c].link => \E n \in Link : ResetPrechecks(c, n)
<1> DEFINE Ended(r) == r \in ChangeRow /\ change' = [change EXCEPT ![c] = r]
<1>0. change \in [Change -> ChangeRow] /\ change[c] \in ChangeRow /\ token \in [Token -> TokenRow]
  BY Types
<1>a. Live \subseteq Token
  BY DEF Live
<1>1. ASSUME NEW pc \in ChangePc PROVE [change[c] EXCEPT !.pc = pc] \in ChangeRow
  BY <1>0 DEF ChangeRow
<1>2. ASSUME NEW pc \in ChangePc, NEW S \in SUBSET Token
      PROVE  [change[c] EXCEPT !.pc = pc, !.snapshot = S] \in ChangeRow
  BY <1>0 DEF ChangeRow
<1>3. CASE LogoutBegins(c)
  <2> DEFINE r == [change[c] EXCEPT !.pc = "tx", !.snapshot = Live]
  <2>1. change' = [change EXCEPT ![c] = r]
    BY <1>0, <1>3 DEF LogoutBegins
  <2>2. r \in ChangeRow
    BY <1>0, <1>a DEF ChangeRow, ChangePc
  <2>3. r.kind = change[c].kind /\ r.pc = "tx" /\ r.link = change[c].link
    BY <1>0 DEF ChangeRow
  <2> HIDE DEF r
  <2> QED BY <1>0, <1>3, <2>1, <2>2, <2>3 DEF LogoutBegins
<1>4. CASE ResetLocks(c)
  <2> DEFINE pc == IF StillValid(change[c].link) THEN "tx" ELSE "done"
             S == IF StillValid(change[c].link) THEN Live ELSE {}
             r == [change[c] EXCEPT !.pc = pc, !.snapshot = S]
  <2>1. change' = [change EXCEPT ![c] = r]
    BY <1>0, <1>4 DEF ResetLocks
  <2>a. pc \in {"tx", "done"} /\ S \subseteq Token
    BY <1>a
  <2> HIDE DEF pc, S
  <2>2. r \in ChangeRow
    BY <1>0, <2>a DEF ChangeRow, ChangePc
  <2>3. r.kind = change[c].kind /\ r.pc \in {"tx", "done"} /\ r.link = change[c].link
    BY <1>0, <2>a DEF ChangeRow
  <2> HIDE DEF r
  <2>4. UNCHANGED <<version, enabled, token, link, tab, jar, faults>>
    BY <1>4 DEF ResetLocks
  <2>5. change' \in [Change -> ChangeRow]
    BY <1>0, <2>1, <2>2
  <2>6. change[c].kind = "reset" /\ change[c].pc = "start"
    BY <1>4 DEF ResetLocks
  <2> QED BY <1>0, <1>4, <2>1, <2>3, <2>4, <2>5, <2>6
<1>5. CASE RevokeSnapshot(c)
  <2> DEFINE r == [change[c] EXCEPT !.pc = "revoke", !.snapshot = Live]
  <2>1. change' = [change EXCEPT ![c] = r]
    BY <1>0, <1>5 DEF RevokeSnapshot
  <2>2. r \in ChangeRow
    BY <1>0, <1>a DEF ChangeRow, ChangePc
  <2>3. r.kind = change[c].kind /\ r.pc = "revoke" /\ r.link = change[c].link
    BY <1>0 DEF ChangeRow
  <2> HIDE DEF r
  <2> QED BY <1>0, <1>5, <2>1, <2>2, <2>3 DEF RevokeSnapshot
<1>6. CASE RevokeTokens(c)
  <2> DEFINE pc == IF change[c].kind = "group" THEN "done" ELSE "burn"
             r == [change[c] EXCEPT !.pc = pc, !.snapshot = {}]
  <2>1. change' = [change EXCEPT ![c] = r]
    BY <1>0, <1>6 DEF RevokeTokens
  <2>a. pc \in {"burn", "done"}
    OBVIOUS
  <2> HIDE DEF pc
  <2>2. r \in ChangeRow
    BY <1>0, <2>a DEF ChangeRow, ChangePc
  <2>3. r.kind = change[c].kind /\ r.pc \in {"burn", "done"} /\ r.link = change[c].link
    BY <1>0, <2>a DEF ChangeRow
  <2> HIDE DEF r
  <2> QED BY <1>0, <1>6, <2>1, <2>2, <2>3 DEF RevokeTokens
<1>7. ASSUME NEW n \in Link, ResetPrechecks(c, n)
      PROVE  /\ change' \in [Change -> ChangeRow]
             /\ \A d \in Change : d # c => change'[d] = change[d]
             /\ change'[c].kind = change[c].kind
             /\ change'[c].pc = "start" /\ change[c].pc = "start"
  <2> DEFINE r == [change[c] EXCEPT !.link = n]
  <2>1. change' = [change EXCEPT ![c] = r]
    BY <1>0, <1>7 DEF ResetPrechecks
  <2>2. r \in ChangeRow /\ r.kind = change[c].kind /\ r.pc = change[c].pc
    BY <1>0 DEF ChangeRow
  <2> HIDE DEF r
  <2> QED BY <1>0, <1>7, <2>1, <2>2 DEF ResetPrechecks
<1>8. CASE \/ LogoutCommits(c) \/ ResetCommits(c) \/ UpdateBegins(c) \/ UpdateCommits(c)
           \/ Disable(c) \/ Regroup(c) \/ BurnLinks(c) \/ ChangeFails(c)
  <2>1. PICK pc \in {"snapshot", "commit", "done"} : change' = [change EXCEPT ![c].pc = pc]
    BY <1>8 DEF LogoutCommits, ResetCommits, UpdateBegins, UpdateCommits, Disable, Regroup, BurnLinks,
                ChangeFails
  <2> DEFINE r == [change[c] EXCEPT !.pc = pc]
  <2>2. change' = [change EXCEPT ![c] = r]
    BY <1>0, <2>1
  <2>3. r \in ChangeRow /\ r.kind = change[c].kind /\ r.pc = pc /\ r.link = change[c].link
    BY <1>0 DEF ChangeRow, ChangePc
  <2> HIDE DEF r
  <2> QED BY <1>0, <2>1, <2>2, <2>3
<1> QED BY <1>3, <1>4, <1>5, <1>6, <1>7, <1>8 DEF Changes

\* The changes keep the types.
LEMMA TypeChange ==
    ASSUME TypeOK, NEW c \in Change, Changes(c)
    PROVE  TypeOK'
<1>0. /\ version \in Nat /\ enabled \in BOOLEAN /\ faults \in Nat
      /\ token \in [Token -> TokenRow] /\ link \in [Link -> LinkRow] /\ tab \in [Tab -> TabRow]
      /\ jar \in Token \cup {NoToken} /\ change \in [Change -> ChangeRow]
  BY Types
<1>1. change' \in [Change -> ChangeRow]
  BY ChangeGoes
<1>2. token' \in [Token -> TokenRow]
  <2>1. token' = token \/ token' = Revoked(change[c].snapshot)
    BY DEF Changes, LogoutBegins, LogoutCommits, ResetLocks, ResetCommits, UpdateBegins, UpdateCommits,
           Disable, Regroup, RevokeSnapshot, RevokeTokens, BurnLinks, ChangeFails, ResetPrechecks
  <2> QED BY <1>0, <2>1, RevokedRows
<1>3. link' \in [Link -> LinkRow]
  <2>1. \/ link' = link \/ link' = Burnt
        \/ link' = [Burnt EXCEPT ![change[c].link].uses = @ + 1]
    BY DEF Changes, LogoutBegins, LogoutCommits, ResetLocks, ResetCommits, UpdateBegins, UpdateCommits,
           Disable, Regroup, RevokeSnapshot, RevokeTokens, BurnLinks, ChangeFails, ResetPrechecks
  <2>2. Burnt \in [Link -> LinkRow]
    BY <1>0, BurntRows
  <2>3. ASSUME NEW f \in [Link -> LinkRow], NEW n
        PROVE  [f EXCEPT ![n].uses = @ + 1] \in [Link -> LinkRow]
    <3>1. n \in Link => [f[n] EXCEPT !.uses = @ + 1] \in LinkRow
      BY DEF LinkRow
    <3> QED BY <3>1
  <2> QED BY <1>0, <2>1, <2>2, <2>3
<1>4. version' \in Nat /\ faults' \in Nat
  <2>1. version' \in {version, version + 1} /\ faults' \in {faults, faults + 1}
    BY DEF Changes, LogoutBegins, LogoutCommits, ResetLocks, ResetCommits, UpdateBegins, UpdateCommits,
           Disable, Regroup, RevokeSnapshot, RevokeTokens, BurnLinks, ChangeFails, ResetPrechecks
  <2> QED BY <1>0, <2>1
<1>5. enabled' \in {enabled, FALSE}
  BY DEF Changes, LogoutBegins, LogoutCommits, ResetLocks, ResetCommits, UpdateBegins, UpdateCommits,
         Disable, Regroup, RevokeSnapshot, RevokeTokens, BurnLinks, ChangeFails, ResetPrechecks
<1>6. tab' = tab /\ jar' \in {jar, NoToken}
  BY DEF Changes, LogoutBegins, LogoutCommits, ResetLocks, ResetCommits, UpdateBegins, UpdateCommits,
         Disable, Regroup, RevokeSnapshot, RevokeTokens, BurnLinks, ChangeFails, ResetPrechecks
<1> QED BY <1>0, <1>1, <1>2, <1>3, <1>4, <1>5, <1>6 DEF TypeOK, TokenRow, LinkRow, TabRow, ChangeRow

\* The steps of a tab and of a link.
Browses(b) ==
    \/ Login(b) \/ PersistRefreshToken(b) \/ SendRefresh(b) \/ ReadToken(b)
    \/ ReadStaff(b) \/ Rotate(b) \/ RevokeFamily(b) \/ Answer(b) \/ Refused(b)
    \/ TabFails(b) \/ AnswerLost(b)
Mailing(n) == Forgot(n) \/ Mailed(n) \/ MailFails(n) \/ Activate(n) \/ LinkExpires(n)

LEMMA NextIs ==
    Next <=> \/ \E b \in Tab : Browses(b)
             \/ \E t \in Token : GraceEnds(t)
             \/ \E n \in Link : Mailing(n)
             \/ \E c \in Change : Changes(c)
             \/ Enable
BY DEF Next, Browses, Mailing, Changes

LEMMA TypeGrace ==
    ASSUME TypeOK, NEW t \in Token, GraceEnds(t)
    PROVE  TypeOK'
<1>1. token \in [Token -> TokenRow]
  BY Types
<1>2. [token[t] EXCEPT !.aged = TRUE] \in TokenRow
  BY <1>1 DEF TokenRow
<1>3. token' \in [Token -> TokenRow]
  BY <1>1, <1>2 DEF GraceEnds
<1> QED BY <1>3 DEF GraceEnds, TypeOK, TokenRow

LEMMA TypeStep ==
    ASSUME TypeOK, Asking, [Next]_vars
    PROVE  TypeOK'
<1>1. CASE Next
  <2>1. ASSUME NEW b \in Tab, Browses(b) PROVE TypeOK'
    BY <2>1, TypeTab DEF Browses
  <2>2. ASSUME NEW n \in Link, Mailing(n) PROVE TypeOK'
    BY <2>2, TypeLink DEF Mailing
  <2>3. CASE Enable
    BY <2>3 DEF Enable, TypeOK
  <2> QED BY <1>1, <2>1, <2>2, <2>3, TypeGrace, TypeChange, NextIs
<1>2. CASE UNCHANGED vars
  BY <1>2 DEF vars, TypeOK
<1> QED BY <1>1, <1>2

--------------------------------------------------------------------------------
(* The chains of tokens.                                                   *)

Used(t) == token[t].state # "none"

\* A token belongs to the family of a login, and bears the version of that login.
TokensFit ==
    \A t \in Token :
        IF Used(t)
        THEN /\ token[t].family \in Token /\ Used(token[t].family)
             /\ token[t].version = token[token[t].family].version
             /\ token[t].version <= version
        ELSE token[t] = NewToken

\* What a tab holds is a token that exists; one about to rotate has compared its version.
TabsFit ==
    /\ \A b \in Tab :
          /\ tab[b].version <= version
          /\ tab[b].pc \in {"read", "staff", "rotate", "replay"} =>
                 tab[b].token \in Token /\ Used(tab[b].token)
          /\ tab[b].pc = "rotate" => tab[b].version = token[tab[b].token].version
          /\ tab[b].pc = "answer" => tab[b].token = NoToken \/ Used(tab[b].token)
    /\ jar = NoToken \/ Used(jar)

ChainInv == TokensFit /\ TabsFit /\ FamilyIsAChain

LEMMA ChainsImply == TypeOK /\ ChainInv => Asking /\ RefreshableIsCurrent
BY DEF ChainInv, TokensFit, TabsFit, Asking, RefreshableIsCurrent, Live, Used

\* Tokens that keep their place: they may be ended or grow old, never begin or return.
Ends ==
    /\ version' >= version
    /\ \A t \in Token :
          /\ token'[t].version = token[t].version
          /\ token'[t].family = token[t].family
          /\ token'[t].parent = token[t].parent
          /\ token[t].state = "none" => token'[t] = token[t]
          /\ token[t].state # "none" => token'[t].state # "none"
          /\ token'[t].state = "live" => token[t].state = "live"
          /\ token'[t].state = "rotated" <=> token[t].state = "rotated"

LEMMA EndsKeepChains ==
    ASSUME TypeOK, TokensFit, FamilyIsAChain, Ends, version' \in Nat
    PROVE  TokensFit' /\ FamilyIsAChain' /\ \A t \in Token : Used(t) => Used(t)'
<1>1. \A t \in Token : Used(t) <=> Used(t)'
  BY DEF Ends, Used
<1>2. TokensFit'
  <2> SUFFICES ASSUME NEW t \in Token
               PROVE  IF Used(t)'
                      THEN /\ token'[t].family \in Token /\ Used(token[t].family)'
                           /\ token'[t].version = token'[token'[t].family].version
                           /\ token'[t].version <= version'
                      ELSE token'[t] = NewToken
    BY DEF TokensFit
  <2>1. CASE Used(t)
    <3>1. /\ token[t].family \in Token /\ Used(token[t].family)
          /\ token[t].version = token[token[t].family].version
          /\ token[t].version <= version
      BY <2>1 DEF TokensFit
    <3>2. token[t].version \in Nat /\ version \in Nat
      BY DEF TypeOK
    <3> QED BY <1>1, <2>1, <3>1, <3>2 DEF Ends, Used
  <2>2. CASE ~Used(t)
    BY <1>1, <2>2 DEF TokensFit, Ends, Used
  <2> QED BY <2>1, <2>2
<1>3. FamilyIsAChain'
  BY DEF FamilyIsAChain, Ends, Live
<1> QED BY <1>1, <1>2, <1>3

\* Ending the live tokens of a set leaves the rest of them alone.
LEMMA EndingEnds ==
    ASSUME TypeOK, NEW S, NEW e \in {"changed", "replayed"}, version' \in Nat, version' >= version,
           token' = [t \in Token |-> IF t \in S \cap Live THEN [token[t] EXCEPT !.state = e] ELSE token[t]]
    PROVE  Ends
<1> DEFINE Ended(t) == [token[t] EXCEPT !.state = e]
<1>1. \A t \in Token : /\ Ended(t).state = e /\ Ended(t).version = token[t].version
                        /\ Ended(t).family = token[t].family /\ Ended(t).parent = token[t].parent
  BY Types DEF TokenRow
<1>2. \A t \in Token : token'[t] = IF t \in S \cap Live THEN Ended(t) ELSE token[t]
  OBVIOUS
<1> HIDE DEF Ended
<1> QED BY <1>1, <1>2 DEF Ends, Live

LEMMA ChainInit == Init => ChainInv
<1> SUFFICES ASSUME Init PROVE ChainInv
  OBVIOUS
<1>1. token = [t \in Token |-> NewToken] /\ jar = NoToken /\ version = 0 /\ tab = [b \in Tab |-> IdleTab]
  BY DEF Init
<1>2. \A t \in Token : token[t] = NewToken /\ token[t].state = "none"
  BY <1>1 DEF NewToken
<1>3. TokensFit
  BY <1>2 DEF TokensFit, Used
<1>4. TabsFit
  BY <1>1 DEF TabsFit, IdleTab
<1>5. FamilyIsAChain
  BY <1>2 DEF FamilyIsAChain, Live
<1> QED BY <1>3, <1>4, <1>5 DEF ChainInv

\* What a tab holds stays, when tokens stay: the tab itself is looked at apart.
LEMMA OthersFit ==
    ASSUME TypeOK, TabsFit, TypeOK', NEW b \in Tab, version' >= version,
           \A t \in Token : Used(t) => Used(t)' /\ token'[t].version = token[t].version,
           \A a \in Tab : a # b => tab'[a] = tab[a],
           tab'[b].version <= version',
           tab'[b].pc \in {"read", "staff", "rotate", "replay"} =>
               tab'[b].token \in Token /\ token'[tab'[b].token].state # "none",
           tab'[b].pc = "rotate" => tab'[b].version = token'[tab'[b].token].version,
           tab'[b].pc = "answer" => tab'[b].token = NoToken \/ token'[tab'[b].token].state # "none",
           jar' = NoToken \/ (jar' \in Token /\ token'[jar'].state # "none")
    PROVE  TabsFit'
<1>1. ASSUME NEW a \in Tab, a # b
      PROVE  /\ tab'[a].version <= version'
             /\ tab'[a].pc \in {"read", "staff", "rotate", "replay"} =>
                    tab'[a].token \in Token /\ token'[tab'[a].token].state # "none"
             /\ tab'[a].pc = "rotate" => tab'[a].version = token'[tab'[a].token].version
             /\ tab'[a].pc = "answer" => tab'[a].token = NoToken \/ token'[tab'[a].token].state # "none"
  <2>1. tab'[a] = tab[a] /\ tab[a] \in TabRow /\ version \in Nat /\ version' \in Nat
    BY <1>1, Types DEF TypeOK
  <2>2. tab[a].version \in Nat /\ tab[a].token \in Token \cup {NoToken}
    BY <2>1 DEF TabRow
  <2>3. tab'[a].version <= version'
    BY <2>1, <2>2 DEF TabsFit
  <2>4. tab[a].pc \in {"read", "staff", "rotate", "replay"} => tab[a].token \in Token /\ Used(tab[a].token)
    BY DEF TabsFit
  <2>5. tab[a].pc = "answer" => tab[a].token = NoToken \/ Used(tab[a].token)
    BY DEF TabsFit
  <2>6. tab[a].pc = "rotate" => tab[a].version = token[tab[a].token].version
    BY DEF TabsFit
  <2> QED BY <2>1, <2>2, <2>3, <2>4, <2>5, <2>6 DEF Used
<1> QED BY <1>1 DEF TabsFit, Used

LEMMA SameEnds ==
    ASSUME token' = token, version' = version \/ version' = version + 1, TypeOK
    PROVE  Ends /\ version' >= version /\ version' \in Nat
BY DEF Ends, TypeOK

\* A new token, of a login or in the place of the one a tab consumed.
LEMMA NewEnds ==
    ASSUME TypeOK, TokensFit, FamilyIsAChain, NEW u \in Unused, version' = version,
           NEW r, r = token'[u], r.state = "live", r.family \in Token, r.family = u \/ Used(r.family),
           r.family # u => r.version = token[r.family].version, r.version <= version,
           r.parent = NoToken \/ r.parent \in Token,
           \A t \in Token : t # u /\ t # r.parent => token'[t] = token[t],
           r.parent \in Token =>
               /\ token[r.parent].state = "live" /\ token[r.parent].family = r.family
               /\ token'[r.parent] = [token[r.parent] EXCEPT !.state = "rotated"],
           r.family = u <=> r.parent = NoToken
    PROVE  TokensFit' /\ FamilyIsAChain'
           /\ \A t \in Token : Used(t) => Used(t)' /\ token'[t].version = token[t].version
<1> DEFINE p == r.parent
           q == [token[p] EXCEPT !.state = "rotated"]
<1>0. u \in Token /\ token[u].state = "none" /\ token \in [Token -> TokenRow]
  BY Types DEF Unused
<1>1. p \in Token => /\ p # u /\ token[p].state = "live" /\ token[p].family = r.family
                     /\ token'[p] = q
                     /\ q.state = "rotated" /\ q.version = token[p].version
                     /\ q.family = token[p].family /\ q.parent = token[p].parent
  BY <1>0 DEF TokenRow
<1> HIDE DEF p, q
<1>a. \A t \in Token : t # u /\ t # p => token'[t] = token[t]
  BY DEF p
<1>b. p = NoToken \/ p \in Token
  BY DEF p
<1>2. ASSUME NEW t \in Token, t # u
      PROVE  /\ token'[t].version = token[t].version /\ token'[t].family = token[t].family
             /\ token'[t].parent = token[t].parent
             /\ token[t].state = "none" => token'[t] = token[t]
             /\ token'[t].state # "none" <=> token[t].state # "none"
             /\ token'[t].state = "live" <=> token[t].state = "live" /\ t # p
             /\ token'[t].state = "rotated" <=> token[t].state = "rotated" \/ t = p
  <2>1. CASE t = p
    BY <1>1, <1>2, <2>1
  <2>2. CASE t # p
    BY <1>a, <1>2, <2>2
  <2> QED BY <2>1, <2>2
<1>3. token'[u].state = "live" /\ token'[u].version = r.version /\ token'[u].family = r.family
      /\ token'[u].parent = p
  BY DEF p
<1>4. \A t \in Token : Used(t) => token'[t].state # "none" /\ token'[t].version = token[t].version
  BY <1>0, <1>2 DEF Used
<1>5. TokensFit'
  <2> SUFFICES ASSUME NEW t \in Token
               PROVE  IF token'[t].state # "none"
                      THEN /\ token'[t].family \in Token /\ token'[token'[t].family].state # "none"
                           /\ token'[t].version = token'[token'[t].family].version
                           /\ token'[t].version <= version'
                      ELSE token'[t] = NewToken
    BY DEF TokensFit, Used
  <2>1. CASE t = u
    <3>1. CASE r.family = u
      BY <1>3, <2>1, <3>1
    <3>2. CASE r.family # u
      BY <1>2, <1>3, <2>1, <3>2 DEF Used
    <3> QED BY <3>1, <3>2
  <2>2. CASE t # u /\ Used(t)
    <3>1. /\ token[t].family \in Token /\ Used(token[t].family)
          /\ token[t].version = token[token[t].family].version
          /\ token[t].version <= version
      BY <2>2 DEF TokensFit
    <3>2. token[t].family # u
      BY <1>0, <3>1 DEF Used
    <3> QED BY <1>2, <2>2, <3>1, <3>2 DEF Used
  <2>3. CASE t # u /\ ~Used(t)
    BY <1>2, <2>3 DEF TokensFit, Used
  <2> QED BY <2>1, <2>2, <2>3
<1>6. \A t \in Token : token'[t].state = "live" /\ t # u => token[t].family # r.family
  <2> SUFFICES ASSUME NEW t \in Token, token'[t].state = "live", t # u, token[t].family = r.family
               PROVE  FALSE
    OBVIOUS
  <2>1. token[t].state = "live" /\ t # p
    BY <1>2
  <2>2. token[t].family # u
    BY <1>0, <2>1 DEF TokensFit, Used
  <2>3. p \in Token
    BY <2>2, <1>b DEF p
  <2> QED BY <1>1, <2>1, <2>3 DEF FamilyIsAChain, Live
<1>7. FamilyIsAChain'
  <2>1. ASSUME NEW t \in Token, NEW w \in Token, token'[t].state = "live", token'[w].state = "live",
               token'[t].family = token'[w].family
        PROVE  t = w
    <3>1. CASE t = u \/ w = u
      BY <1>2, <1>3, <1>6, <2>1, <3>1
    <3>2. CASE t # u /\ w # u
      BY <1>2, <2>1, <3>2 DEF FamilyIsAChain, Live
    <3> QED BY <3>1, <3>2
  <2>2. ASSUME NEW t \in Token, token'[t].state = "rotated"
        PROVE  \E w \in Token : token'[w].parent = t
    <3>1. CASE t = p
      BY <1>0, <1>3, <3>1
    <3>2. CASE t # p
      <4>1. token[t].state = "rotated"
        BY <1>2, <1>3, <2>2, <3>2
      <4>2. PICK w \in Token : token[w].parent = t
        BY <4>1 DEF FamilyIsAChain
      <4>3. w # u
        BY <1>0, <4>2, SessionAssumption DEF TokensFit, Used, NewToken
      <4> QED BY <1>2, <4>2, <4>3
    <3> QED BY <3>1, <3>2
  <2> QED BY <2>1, <2>2 DEF FamilyIsAChain, Live
<1> QED BY <1>4, <1>5, <1>7 DEF Used

\* The tabs keep the chains.
LEMMA ChainTab ==
    ASSUME TypeOK, TypeOK', ChainInv, NEW b \in Tab, Browses(b)
    PROVE  ChainInv'
<1> USE DEF ChainInv
<1>0. /\ version \in Nat /\ token \in [Token -> TokenRow] /\ tab \in [Tab -> TabRow]
      /\ jar \in Token \cup {NoToken} /\ tab[b] \in TabRow /\ tab[b].version \in Nat
  BY Types DEF TabRow
<1>v. version' = version
  BY DEF Browses, Login, PersistRefreshToken, SendRefresh, ReadToken, ReadStaff, Rotate, RevokeFamily,
         Answer, Refused, TabFails, AnswerLost
<1>i. IdleTab.pc = "idle" /\ IdleTab.version = 0 /\ IdleTab.token = NoToken
  BY DEF IdleTab
<1>j. jar = NoToken \/ (jar \in Token /\ Used(jar))
  BY <1>0 DEF TabsFit
<1>s. ASSUME token' = token, jar' = jar \/ jar' = NoToken \/ (jar' \in Token /\ Used(jar')),
             \A a \in Tab : a # b => tab'[a] = tab[a],
             tab'[b].version <= version,
             tab'[b].pc \in {"read", "staff", "rotate", "replay"} => tab'[b].token \in Token /\ Used(tab'[b].token),
             tab'[b].pc = "rotate" => tab'[b].version = token[tab'[b].token].version,
             tab'[b].pc = "answer" => tab'[b].token = NoToken \/ Used(tab'[b].token)
      PROVE  ChainInv'
  <2>1. Ends /\ version' >= version
    BY <1>v, <1>s, SameEnds
  <2>2. TokensFit' /\ FamilyIsAChain'
    BY <1>0, <1>v, <2>1, EndsKeepChains
  <2>3. TabsFit'
    BY <1>v, <1>s, <1>j, <2>1, OthersFit DEF Used
  <2> QED BY <2>2, <2>3
<1>1. CASE Login(b)
  <2> DEFINE r == [IdleTab EXCEPT !.pc = "persist", !.version = version]
  <2>1. r.pc = "persist" /\ r.version = version
    BY DEF IdleTab
  <2>2. tab' = [tab EXCEPT ![b] = r] /\ token' = token /\ jar' = jar
    BY <1>1 DEF Login
  <2> HIDE DEF r
  <2> QED BY <1>0, <1>s, <2>1, <2>2
<1>2. CASE PersistRefreshToken(b)
  <2>1. PICK t \in Unused :
          /\ token' = [token EXCEPT ![t] = [NewToken EXCEPT !.state = "live", !.family = t,
                                                            !.version = tab[b].version]]
          /\ tab' = [tab EXCEPT ![b].pc = "answer", ![b].token = t]
    BY <1>2 DEF PersistRefreshToken
  <2> DEFINE r == [NewToken EXCEPT !.state = "live", !.family = t, !.version = tab[b].version]
             w == [tab[b] EXCEPT !.pc = "answer", !.token = t]
  <2>2. t \in Token /\ token[t].state = "none"
    BY DEF Unused
  <2>3. r.state = "live" /\ r.family = t /\ r.version = tab[b].version /\ r.parent = NoToken
    BY DEF NewToken
  <2>4. w.pc = "answer" /\ w.token = t /\ w.version = tab[b].version
    BY <1>0 DEF TabRow
  <2>5. tab' = [tab EXCEPT ![b] = w]
    BY <1>0, <2>1
  <2>6. token' = [token EXCEPT ![t] = r]
    BY <2>1
  <2> HIDE DEF r, w
  <2>7. token'[t] = r /\ \A x \in Token : x # t => token'[x] = token[x]
    BY <1>0, <2>2, <2>6
  <2>8. r.version <= version
    BY <2>3 DEF TabsFit
  <2>9. TokensFit' /\ FamilyIsAChain'
        /\ \A x \in Token : Used(x) => Used(x)' /\ token'[x].version = token[x].version
    BY <1>v, <2>2, <2>3, <2>7, <2>8, NewEnds, SessionAssumption
  <2>10. jar' = jar
    BY <1>2 DEF PersistRefreshToken
  <2>11. TabsFit'
    BY <1>0, <1>j, <1>v, <2>3, <2>4, <2>5, <2>7, <2>8, <2>9, <2>10, OthersFit DEF Used
  <2> QED BY <2>9, <2>11
<1>3. CASE SendRefresh(b)
  <2> DEFINE r == [IdleTab EXCEPT !.pc = "read", !.token = jar]
  <2>1. r.pc = "read" /\ r.version = 0 /\ r.token = jar
    BY DEF IdleTab
  <2>2. tab' = [tab EXCEPT ![b] = r] /\ token' = token /\ jar' = jar /\ jar # NoToken
    BY <1>3 DEF SendRefresh
  <2> HIDE DEF r
  <2> QED BY <1>0, <1>j, <1>s, <2>1, <2>2
<1>4. CASE ReadToken(b)
  <2> DEFINE r == [tab[b] EXCEPT !.pc = "staff", !.seen = token[tab[b].token].state]
  <2>1. tab' = [tab EXCEPT ![b] = r] /\ token' = token /\ jar' = jar /\ tab[b].pc = "read"
    BY <1>0, <1>4 DEF ReadToken
  <2>2. r.pc = "staff" /\ r.version = tab[b].version /\ r.token = tab[b].token
    BY <1>0 DEF TabRow
  <2> HIDE DEF r
  <2>3. tab[b].token \in Token /\ Used(tab[b].token) /\ tab[b].version <= version
    BY <2>1 DEF TabsFit
  <2> QED BY <1>0, <1>s, <2>1, <2>2, <2>3
<1>5. CASE ReadStaff(b)
  <2> DEFINE pc == IF MayRefresh(tab[b].token) THEN "rotate" ELSE "refused"
             r == [tab[b] EXCEPT !.pc = pc, !.version = version]
  <2>1. tab' = [tab EXCEPT ![b] = r] /\ token' = token /\ jar' = jar /\ tab[b].pc = "staff"
    BY <1>0, <1>5 DEF ReadStaff
  <2>2. (pc = "rotate" /\ token[tab[b].token].version = version) \/ pc = "refused"
    BY DEF MayRefresh
  <2> HIDE DEF pc
  <2>3. r.pc = pc /\ r.version = version /\ r.token = tab[b].token
    BY <1>0 DEF TabRow
  <2> HIDE DEF r
  <2>4. tab[b].token \in Token /\ Used(tab[b].token)
    BY <2>1 DEF TabsFit
  <2> QED BY <1>0, <1>s, <2>1, <2>2, <2>3, <2>4
<1>6. CASE Rotate(b)
  <2> DEFINE t == tab[b].token
  <2>1. /\ tab[b].pc = "rotate" /\ jar' = jar /\ t \in Token /\ Used(t)
        /\ tab[b].version = token[t].version /\ tab[b].version <= version
        /\ token[t] \in TokenRow
    BY <1>0, <1>6 DEF Rotate, TabsFit
  <2>2. CASE Consumable(t)
    <3>1. PICK u \in Unused :
            /\ token' = [token EXCEPT ![t].state = "rotated",
                           ![u] = [NewToken EXCEPT !.state = "live", !.family = token[t].family,
                                                   !.parent = t, !.version = tab[b].version]]
            /\ tab' = [tab EXCEPT ![b].pc = "answer", ![b].token = u]
      BY <1>6, <2>2 DEF Rotate, Consume
    <3> DEFINE p == [token[t] EXCEPT !.state = "rotated"]
               n == [NewToken EXCEPT !.state = "live", !.family = token[t].family,
                                     !.parent = t, !.version = tab[b].version]
               r == [tab[b] EXCEPT !.pc = "answer", !.token = u]
    <3>2. u \in Token /\ token[u].state = "none" /\ token[t].state = "live" /\ u # t
      BY <2>2 DEF Unused, Consumable
    <3>3. n.state = "live" /\ n.family = token[t].family /\ n.version = token[t].version /\ n.parent = t
      BY <2>1 DEF NewToken
    <3>4. r.pc = "answer" /\ r.token = u /\ r.version = tab[b].version
      BY <1>0 DEF TabRow
    <3>5. token' = [token EXCEPT ![t] = p, ![u] = n]
      BY <3>1
    <3>6. tab' = [tab EXCEPT ![b] = r]
      BY <1>0, <3>1
    <3>p. p = [token[t] EXCEPT !.state = "rotated"]
      OBVIOUS
    <3> HIDE DEF p, n, r, t
    <3>7. token'[u] = n /\ token'[t] = p /\ \A x \in Token : x # u /\ x # t => token'[x] = token[x]
      BY <1>0, <2>1, <3>2, <3>5
    <3>8. /\ token[t].family \in Token /\ Used(token[t].family)
          /\ token[t].version = token[token[t].family].version /\ token[t].version <= version
          /\ token[t].family # u
      BY <2>1, <3>2 DEF TokensFit, Used
    <3>a. t # NoToken
      BY <2>1, SessionAssumption
    <3>9. TokensFit' /\ FamilyIsAChain'
          /\ \A x \in Token : Used(x) => Used(x)' /\ token'[x].version = token[x].version
      <4> HIDE DEF Used
      <4> QED BY <1>v, <2>1, <3>2, <3>3, <3>p, <3>7, <3>8, <3>a, NewEnds
    <3>10. TabsFit'
      BY <1>0, <1>j, <1>v, <2>1, <3>2, <3>3, <3>4, <3>6, <3>7, <3>9, OthersFit DEF Used
    <3> QED BY <3>9, <3>10
  <2>3. CASE ~Consumable(t)
    <3> DEFINE pc == IF Benign(b) THEN "answer" ELSE "replay"
               x == IF Benign(b) THEN NoToken ELSE t
               r == [tab[b] EXCEPT !.pc = pc, !.token = x]
    <3>1. tab' = [tab EXCEPT ![b] = r] /\ token' = token
      BY <1>0, <1>6, <2>3 DEF Rotate
    <3>2. (pc = "answer" /\ x = NoToken) \/ (pc = "replay" /\ x = t)
      OBVIOUS
    <3> HIDE DEF pc, x
    <3>3. r.pc = pc /\ r.token = x /\ r.version = tab[b].version
      BY <1>0 DEF TabRow
    <3> HIDE DEF r
    <3> QED BY <1>0, <1>s, <2>1, <3>1, <3>2, <3>3
  <2> QED BY <2>2, <2>3
<1>7. CASE RevokeFamily(b)
  <2> DEFINE r == [tab[b] EXCEPT !.pc = "refused"]
  <2>1. r.pc = "refused" /\ r.version = tab[b].version
    BY <1>0 DEF TabRow
  <2>2. tab' = [tab EXCEPT ![b] = r] /\ jar' = jar
    BY <1>7 DEF RevokeFamily, TabGo
  <2> HIDE DEF r
  <2>3. Ends
    <3>1. token' = [t \in Token |-> IF t \in Family(tab[b].token) \cap Live
                                    THEN [token[t] EXCEPT !.state = "replayed"] ELSE token[t]]
      BY <1>7 DEF RevokeFamily
    <3>2. version' \in Nat /\ version' >= version
      BY <1>0, <1>v
    <3> QED BY <3>1, <3>2, EndingEnds
  <2>4. TokensFit' /\ FamilyIsAChain' /\ \A t \in Token : Used(t) => Used(t)'
    BY <1>0, <1>v, <2>3, EndsKeepChains
  <2>5. TabsFit'
    <3>1. /\ version' >= version
          /\ \A t \in Token : Used(t) => Used(t)' /\ token'[t].version = token[t].version
      BY <2>3, <2>4 DEF Ends
    <3>2. /\ \A a \in Tab : a # b => tab'[a] = tab[a]
          /\ tab'[b].pc = "refused" /\ tab'[b].version = tab[b].version
      BY <1>0, <2>1, <2>2
    <3>3. tab'[b].version <= version'
      BY <1>0, <1>v, <3>1, <3>2 DEF TabsFit, TabRow
    <3>4. jar' = NoToken \/ (jar' \in Token /\ token'[jar'].state # "none")
      BY <1>0, <1>j, <2>2, <3>1 DEF Used, TabsFit
    <3> QED BY <1>0, <3>1, <3>2, <3>3, <3>4, OthersFit
  <2> QED BY <2>4, <2>5
<1>8. CASE Answer(b)
  <2>1. jar' = (IF tab[b].token = NoToken THEN jar ELSE tab[b].token) /\ tab[b].pc = "answer"
        /\ tab' = [tab EXCEPT ![b] = IdleTab] /\ token' = token
    BY <1>8 DEF Answer
  <2>2. tab[b].token = NoToken \/ (tab[b].token \in Token /\ Used(tab[b].token))
    BY <1>0, <2>1 DEF TabsFit, TabRow
  <2> QED BY <1>0, <1>i, <1>s, <2>1, <2>2
<1>9. CASE Refused(b)
  BY <1>0, <1>i, <1>s, <1>9 DEF Refused
<1>10. CASE TabFails(b)
  <2> DEFINE r == [IdleTab EXCEPT !.pc = "refused"]
  <2>1. r.pc = "refused" /\ r.version = 0
    BY DEF IdleTab
  <2>2. (tab' = [tab EXCEPT ![b] = r] \/ tab' = [tab EXCEPT ![b] = IdleTab]) /\ jar' = jar /\ token' = token
    BY <1>10 DEF TabFails
  <2> HIDE DEF r
  <2> QED BY <1>0, <1>i, <1>s, <2>1, <2>2
<1>11. CASE AnswerLost(b)
  BY <1>0, <1>i, <1>s, <1>11 DEF AnswerLost
<1> QED BY <1>1, <1>2, <1>3, <1>4, <1>5, <1>6, <1>7, <1>8, <1>9, <1>10, <1>11 DEF Browses

\* Steps that leave the tabs alone keep the chains, when they only end tokens.
LEMMA ChainEnds ==
    ASSUME TypeOK, TypeOK', ChainInv, Ends, tab' = tab, jar' = jar \/ jar' = NoToken
    PROVE  ChainInv'
<1>1. version \in Nat /\ version' \in Nat /\ version' >= version /\ jar \in Token \cup {NoToken}
      /\ tab \in [Tab -> TabRow]
  BY Types DEF Ends, TypeOK
<1>2. TokensFit' /\ FamilyIsAChain' /\ \A t \in Token : Used(t) => Used(t)'
  BY <1>1, EndsKeepChains DEF ChainInv
<1>3. \A t \in Token : token'[t].version = token[t].version
  BY DEF Ends
<1>4. ASSUME NEW a \in Tab
      PROVE  /\ tab[a].version <= version'
             /\ tab[a].pc \in {"read", "staff", "rotate", "replay"} =>
                    tab[a].token \in Token /\ token'[tab[a].token].state # "none"
             /\ tab[a].pc = "rotate" => tab[a].version = token'[tab[a].token].version
             /\ tab[a].pc = "answer" => tab[a].token = NoToken \/ token'[tab[a].token].state # "none"
  <2>1. tab[a].version \in Nat /\ tab[a].token \in Token \cup {NoToken}
    BY <1>1 DEF TabRow
  <2>2. /\ tab[a].version <= version
        /\ tab[a].pc \in {"read", "staff", "rotate", "replay"} =>
               tab[a].token \in Token /\ Used(tab[a].token)
        /\ tab[a].pc = "rotate" => tab[a].version = token[tab[a].token].version
        /\ tab[a].pc = "answer" => tab[a].token = NoToken \/ Used(tab[a].token)
    BY DEF ChainInv, TabsFit
  <2>3. tab[a].version <= version'
    BY <1>1, <2>1, <2>2
  <2> QED BY <1>2, <1>3, <2>1, <2>2, <2>3 DEF Used
<1>5. jar' = NoToken \/ token'[jar'].state # "none"
  BY <1>1, <1>2 DEF ChainInv, TabsFit, Used
<1> QED BY <1>2, <1>4, <1>5 DEF ChainInv, TabsFit, Used

LEMMA ChainChange ==
    ASSUME TypeOK, TypeOK', ChainInv, NEW c \in Change, Changes(c)
    PROVE  ChainInv'
<1>1. token' = token \/ token' = Revoked(change[c].snapshot)
  BY DEF Changes, LogoutBegins, LogoutCommits, ResetLocks, ResetCommits, UpdateBegins, UpdateCommits,
         Disable, Regroup, RevokeSnapshot, RevokeTokens, BurnLinks, ChangeFails, ResetPrechecks
<1>2. version' = version \/ version' = version + 1
  BY DEF Changes, LogoutBegins, LogoutCommits, ResetLocks, ResetCommits, UpdateBegins, UpdateCommits,
         Disable, Regroup, RevokeSnapshot, RevokeTokens, BurnLinks, ChangeFails, ResetPrechecks
<1>3. tab' = tab /\ (jar' = jar \/ jar' = NoToken)
  BY DEF Changes, LogoutBegins, LogoutCommits, ResetLocks, ResetCommits, UpdateBegins, UpdateCommits,
         Disable, Regroup, RevokeSnapshot, RevokeTokens, BurnLinks, ChangeFails, ResetPrechecks
<1>4. version' \in Nat /\ version' >= version
  BY <1>2 DEF TypeOK
<1>5. Ends
  BY <1>1, <1>2, <1>4, SameEnds, EndingEnds DEF Revoked
<1> QED BY <1>3, <1>5, ChainEnds

LEMMA ChainStep ==
    ASSUME TypeOK, TypeOK', ChainInv, [Next]_vars
    PROVE  ChainInv'
<1>1. ASSUME NEW t \in Token, GraceEnds(t) PROVE ChainInv'
  <2> DEFINE r == [token[t] EXCEPT !.aged = TRUE]
  <2>1. token[t] \in TokenRow /\ token \in [Token -> TokenRow] /\ version \in Nat
    BY Types
  <2>2. r.state = token[t].state /\ r.version = token[t].version /\ r.family = token[t].family
        /\ r.parent = token[t].parent /\ token[t].state # "none"
    BY <1>1, <2>1 DEF TokenRow, GraceEnds
  <2>3. token' = [token EXCEPT ![t] = r] /\ version' = version /\ tab' = tab /\ jar' = jar
    BY <1>1, <2>1 DEF GraceEnds
  <2> HIDE DEF r
  <2>4. Ends
    BY <2>1, <2>2, <2>3 DEF Ends
  <2> QED BY <2>3, <2>4, ChainEnds
<1>2. ASSUME NEW n \in Link, Mailing(n) PROVE ChainInv'
  <2>1. UNCHANGED <<version, token, tab, jar>>
    BY <1>2 DEF Mailing, Forgot, Mailed, MailFails, Activate, LinkExpires
  <2> QED BY <2>1, ChainEnds, SameEnds
<1>3. CASE Enable \/ UNCHANGED vars
  <2>1. UNCHANGED <<version, token, tab, jar>>
    BY <1>3 DEF Enable, vars
  <2> QED BY <2>1, ChainEnds, SameEnds
<1> QED BY <1>1, <1>2, <1>3, ChainTab, ChainChange, NextIs

--------------------------------------------------------------------------------
(* The links.                                                              *)

\* A link that can be used was mailed, was never used, and is done with its delivery:
\* it cannot become active again.  A reset that holds the row holds it alone.
LinksFit ==
    /\ \A n \in Link :
          /\ link[n].pc = "activate" => link[n].mailed
          /\ link[n].state = "active" => link[n].pc = "done" /\ link[n].mailed /\ link[n].uses = 0
          /\ link[n].uses # 0 => link[n].pc = "done"
          /\ link[n].uses <= 1
    /\ \A m, n \in Link : link[m].state = "active" /\ link[n].state = "active" => m = n
    /\ \A c, d \in Change : change[c].pc = "tx" /\ change[d].pc = "tx" => c = d
    /\ \A c \in Change : change[c].kind = "reset" /\ change[c].pc = "tx" =>
          /\ change[c].link \in Link
          /\ link[change[c].link].pc = "done" /\ link[change[c].link].uses = 0

LEMMA LinksImply == LinksFit => LinksInv
BY DEF LinksFit, LinksInv, OneUsableLink, LinkUsedOnce

LEMMA LinksInit == Init => LinksFit
<1> SUFFICES ASSUME Init PROVE LinksFit
  OBVIOUS
<1>1. \A n \in Link : link[n] = NewLink
  BY DEF Init
<1>2. \A n \in Link : link[n].pc = "start" /\ link[n].state = "none" /\ link[n].uses = 0
  BY <1>1 DEF NewLink
<1>3. \A c \in Change : change[c].pc = "start"
  BY DEF Init
<1> QED BY <1>2, <1>3 DEF LinksFit

\* The rows of a step of the mails: the other links are left alone, or switched off.
LEMMA LinkGoes ==
    ASSUME TypeOK, LinksFit, NEW n \in Link, Mailing(n)
    PROVE  /\ \A m \in Link : m # n =>
                /\ link'[m].pc = link[m].pc /\ link'[m].mailed = link[m].mailed
                /\ link'[m].uses = link[m].uses
                /\ link'[m].state = "active" => link[m].state = "active" /\ link'[n].state # "active"
           /\ link'[n].pc = "activate" => link'[n].mailed
           /\ link'[n].state = "active" => link'[n].pc = "done" /\ link'[n].mailed /\ link'[n].uses = 0
           /\ link[n].pc = "done" => link'[n].pc = "done" /\ link'[n].uses = link[n].uses
           /\ link[n].pc # "done" => link'[n].uses = 0
<1>0. link \in [Link -> LinkRow] /\ link[n] \in LinkRow
  BY Types
<1>a. link[n].pc # "done" => link[n].uses = 0
  BY DEF LinksFit
<1>1. CASE Forgot(n)
  <2> DEFINE r == [NewLink EXCEPT !.state = "inactive", !.pc = "mail", !.version = version]
  <2>1. r.state = "inactive" /\ r.pc = "mail" /\ r.uses = 0
    BY DEF NewLink
  <2>2. link' = [link EXCEPT ![n] = r] /\ link[n].pc = "start"
    BY <1>1 DEF Forgot
  <2> HIDE DEF r
  <2> QED BY <1>0, <2>1, <2>2
<1>2. CASE Mailed(n)
  <2> DEFINE r == [link[n] EXCEPT !.pc = "activate", !.mailed = TRUE]
  <2>1. r.state = link[n].state /\ r.pc = "activate" /\ r.mailed /\ r.uses = link[n].uses
    BY <1>0 DEF LinkRow
  <2>2. link' = [link EXCEPT ![n] = r] /\ link[n].pc = "mail"
    BY <1>0, <1>2 DEF Mailed
  <2>3. link[n].state # "active"
    BY <2>2 DEF LinksFit
  <2> HIDE DEF r
  <2> QED BY <1>0, <1>a, <2>1, <2>2, <2>3
<1>3. CASE MailFails(n)
  <2> DEFINE r == [link[n] EXCEPT !.pc = "done"]
  <2>1. r.state = link[n].state /\ r.pc = "done" /\ r.mailed = link[n].mailed /\ r.uses = link[n].uses
    BY <1>0 DEF LinkRow
  <2>2. link' = [link EXCEPT ![n] = r] /\ link[n].pc # "done"
    BY <1>3 DEF MailFails
  <2>3. link[n].state # "active"
    BY <2>2 DEF LinksFit
  <2> HIDE DEF r
  <2> QED BY <1>0, <1>a, <2>1, <2>2, <2>3
<1>4. CASE Activate(n)
  <2>1. link[n].pc = "activate" /\ link[n].mailed /\ link[n].uses = 0 /\ link[n].state # "active"
    BY <1>4 DEF Activate, LinksFit
  <2>2. CASE Activatable(n)
    <3> DEFINE r == [link[n] EXCEPT !.state = "active", !.pc = "done"]
               Off(m) == [link[m] EXCEPT !.state = "inactive"]
    <3>1. r.state = "active" /\ r.pc = "done" /\ r.mailed = link[n].mailed /\ r.uses = link[n].uses
      BY <1>0 DEF LinkRow
    <3>2. \A m \in Link : /\ Off(m).state = "inactive" /\ Off(m).pc = link[m].pc
                          /\ Off(m).mailed = link[m].mailed /\ Off(m).uses = link[m].uses
      BY <1>0 DEF LinkRow
    <3>3. \A m \in Link : link'[m] = IF m = n THEN r ELSE IF link[m].state = "active" THEN Off(m) ELSE link[m]
      BY <1>4, <2>2 DEF Activate, ActivatesOnly
    <3> HIDE DEF r, Off
    <3>4. link'[n] = r
      BY <3>3
    <3>5. ASSUME NEW m \in Link, m # n
          PROVE  /\ link'[m].pc = link[m].pc /\ link'[m].mailed = link[m].mailed
                 /\ link'[m].uses = link[m].uses /\ link'[m].state # "active"
      BY <3>2, <3>3, <3>5
    <3> QED BY <2>1, <3>1, <3>4, <3>5
  <2>3. CASE ~Activatable(n)
    <3> DEFINE r == [link[n] EXCEPT !.pc = "done"]
    <3>1. r.state = link[n].state /\ r.pc = "done" /\ r.uses = link[n].uses
      BY <1>0 DEF LinkRow
    <3>2. link' = [link EXCEPT ![n] = r]
      BY <1>4, <2>3 DEF Activate
    <3> HIDE DEF r
    <3> QED BY <1>0, <2>1, <3>1, <3>2
  <2> QED BY <2>2, <2>3
<1>5. CASE LinkExpires(n)
  <2> DEFINE r == [link[n] EXCEPT !.expired = TRUE]
  <2>1. r.state = link[n].state /\ r.pc = link[n].pc /\ r.mailed = link[n].mailed /\ r.uses = link[n].uses
    BY <1>0 DEF LinkRow
  <2>2. link' = [link EXCEPT ![n] = r]
    BY <1>5 DEF LinkExpires
  <2> HIDE DEF r
  <2>3. link[n].state = "active" => \A m \in Link : link[m].state = "active" => m = n
    BY DEF LinksFit
  <2>4. /\ link[n].pc = "activate" => link[n].mailed
        /\ link[n].state = "active" => link[n].pc = "done" /\ link[n].mailed /\ link[n].uses = 0
    BY DEF LinksFit
  <2>5. link'[n] = r /\ \A m \in Link : m # n => link'[m] = link[m]
    BY <1>0, <2>2
  <2> QED BY <1>a, <2>1, <2>3, <2>4, <2>5
<1> QED BY <1>1, <1>2, <1>3, <1>4, <1>5 DEF Mailing

LEMMA LinksMail ==
    ASSUME TypeOK, LinksFit, NEW n \in Link, Mailing(n)
    PROVE  LinksFit'
<1>0. change' = change /\ link[n].uses <= 1
  BY DEF Mailing, Forgot, Mailed, MailFails, Activate, LinkExpires, LinksFit
<1>1. ASSUME NEW m \in Link
      PROVE  /\ link'[m].pc = "activate" => link'[m].mailed
             /\ link'[m].state = "active" => link'[m].pc = "done" /\ link'[m].mailed /\ link'[m].uses = 0
             /\ link'[m].uses # 0 => link'[m].pc = "done"
             /\ link'[m].uses <= 1
             /\ link[m].pc = "done" => link'[m].pc = "done" /\ link'[m].uses = link[m].uses
  <2>1. CASE m = n
    BY <1>0, <2>1, LinkGoes
  <2>2. CASE m # n
    <3>1. /\ link'[m].pc = link[m].pc /\ link'[m].mailed = link[m].mailed
          /\ link'[m].uses = link[m].uses
          /\ link'[m].state = "active" => link[m].state = "active"
      BY <2>2, LinkGoes
    <3>2. /\ link[m].pc = "activate" => link[m].mailed
          /\ link[m].state = "active" => link[m].pc = "done" /\ link[m].mailed /\ link[m].uses = 0
          /\ link[m].uses # 0 => link[m].pc = "done"
          /\ link[m].uses <= 1
      BY DEF LinksFit
    <3> QED BY <3>1, <3>2
  <2> QED BY <2>1, <2>2
<1>2. ASSUME NEW m \in Link, NEW k \in Link, link'[m].state = "active", link'[k].state = "active"
      PROVE  m = k
  <2>1. \A x \in Link : x # n /\ link'[x].state = "active" => link[x].state = "active" /\ link'[n].state # "active"
    BY LinkGoes
  <2>2. CASE m = n \/ k = n
    BY <1>2, <2>1, <2>2
  <2>3. CASE m # n /\ k # n
    BY <1>2, <2>1, <2>3 DEF LinksFit
  <2> QED BY <2>2, <2>3
<1>3. ASSUME NEW c \in Change, change'[c].kind = "reset", change'[c].pc = "tx"
      PROVE  change'[c].link \in Link /\ link'[change'[c].link].pc = "done" /\ link'[change'[c].link].uses = 0
  BY <1>0, <1>1, <1>3 DEF LinksFit
<1>4. \A c, d \in Change : change'[c].pc = "tx" /\ change'[d].pc = "tx" => c = d
  BY <1>0 DEF LinksFit
<1> QED BY <1>1, <1>2, <1>3, <1>4 DEF LinksFit

\* The burnt links: nothing is active, and nothing else is different.
LEMMA BurntLinks ==
    ASSUME TypeOK
    PROVE  \A n \in Link : /\ Burnt[n].state # "active" /\ Burnt[n].pc = link[n].pc
                           /\ Burnt[n].mailed = link[n].mailed /\ Burnt[n].uses = link[n].uses
<1>1. \A n \in Link : /\ [link[n] EXCEPT !.state = "inactive"].state = "inactive"
                      /\ [link[n] EXCEPT !.state = "inactive"].pc = link[n].pc
                      /\ [link[n] EXCEPT !.state = "inactive"].mailed = link[n].mailed
                      /\ [link[n] EXCEPT !.state = "inactive"].uses = link[n].uses
  BY Types DEF LinkRow
<1> QED BY <1>1 DEF Burnt

LEMMA LinksChange ==
    ASSUME TypeOK, LinksFit, NEW c \in Change, Changes(c)
    PROVE  LinksFit'
<1>0. link \in [Link -> LinkRow] /\ change \in [Change -> ChangeRow] /\ change' \in [Change -> ChangeRow]
  BY Types, ChangeGoes
<1>1. \A n \in Link : /\ link[n].pc = "activate" => link[n].mailed
                      /\ link[n].state = "active" => link[n].pc = "done" /\ link[n].mailed /\ link[n].uses = 0
                      /\ link[n].uses # 0 => link[n].pc = "done"
                      /\ link[n].uses <= 1
  BY DEF LinksFit
<1>2. \A a, d \in Change : change'[a].pc = "tx" /\ change'[d].pc = "tx" => a = d
  <2>1. \A a \in Change : a # c => change'[a] = change[a]
    BY ChangeGoes
  <2>2. change'[c].pc = "tx" => \A a \in Change : a # c => change[a].pc # "tx"
    <3>1. LogoutBegins(c) \/ ResetLocks(c) => ~RowLocked
      BY DEF LogoutBegins, ResetLocks
    <3> QED BY <3>1, ChangeGoes DEF RowLocked
  <2> QED BY <2>1, <2>2 DEF LinksFit
<1>3. CASE ResetCommits(c)
  <2> DEFINE n == change[c].link
             r == [Burnt[n] EXCEPT !.uses = @ + 1]
  <2>1. change[c].kind = "reset" /\ change[c].pc = "tx"
    BY <1>3 DEF ResetCommits
  <2>2. n \in Link /\ link[n].pc = "done" /\ link[n].uses = 0
    BY <2>1 DEF LinksFit
  <2>3. Burnt \in [Link -> LinkRow]
    BY <1>0, BurntRows
  <2>4. link' = [Burnt EXCEPT ![n] = r]
    BY <1>3, <2>2, <2>3 DEF ResetCommits
  <2>5. r.pc = "done" /\ r.uses = 1 /\ r.state # "active"
    BY <2>2, <2>3, BurntLinks DEF LinkRow
  <2> HIDE DEF r
  <2>6. link'[n] = r /\ \A m \in Link : m # n => link'[m] = Burnt[m]
    BY <2>2, <2>3, <2>4
  <2>7. ASSUME NEW m \in Link
        PROVE  /\ link'[m].pc = "activate" => link'[m].mailed
               /\ link'[m].state # "active"
               /\ link'[m].uses # 0 => link'[m].pc = "done"
               /\ link'[m].uses <= 1
    <3>1. CASE m = n
      BY <2>5, <2>6, <3>1
    <3>2. CASE m # n
      BY <1>1, <2>6, <3>2, BurntLinks
    <3> QED BY <3>1, <3>2
  <2>8. \A d \in Change : change'[d].pc # "tx"
    BY <2>1, ChangeGoes DEF LinksFit
  <2> QED BY <1>2, <2>7, <2>8 DEF LinksFit
<1>4. CASE BurnLinks(c)
  <2>1. link' = Burnt /\ change'[c].pc # "tx"
    BY <1>0, <1>4 DEF BurnLinks
  <2>2. \A d \in Change : change'[d].pc = "tx" => change'[d] = change[d]
    BY <2>1, ChangeGoes
  <2>3. ASSUME NEW d \in Change, change'[d].kind = "reset", change'[d].pc = "tx"
        PROVE  change'[d].link \in Link /\ link'[change'[d].link].pc = "done" /\ link'[change'[d].link].uses = 0
    BY <2>1, <2>2, <2>3, BurntLinks DEF LinksFit
  <2>4. \A n \in Link : /\ link'[n].pc = "activate" => link'[n].mailed
                        /\ link'[n].state # "active"
                        /\ link'[n].uses # 0 => link'[n].pc = "done"
                        /\ link'[n].uses <= 1
    BY <1>1, <2>1, BurntLinks
  <2> QED BY <1>2, <2>3, <2>4 DEF LinksFit
<1>5. CASE ~ResetCommits(c) /\ ~BurnLinks(c)
  <2>1. link' = link
    BY <1>5 DEF Changes, LogoutBegins, LogoutCommits, ResetLocks, UpdateBegins, UpdateCommits,
                Disable, Regroup, RevokeSnapshot, RevokeTokens, ChangeFails, ResetPrechecks
  <2>2. ASSUME NEW d \in Change, change'[d].kind = "reset", change'[d].pc = "tx"
        PROVE  change'[d].link \in Link /\ link[change'[d].link].pc = "done" /\ link[change'[d].link].uses = 0
    <3>1. CASE d = c
      <4>1. ResetLocks(c)
        <5>1. change'[c].kind = change[c].kind
          BY ChangeGoes
        <5>2. ~LogoutBegins(c)
          BY <2>2, <3>1, <5>1 DEF LogoutBegins
        <5> QED BY <2>2, <3>1, <5>2, ChangeGoes
      <4>2. change'[c].link = change[c].link
        <5>1. \A n \in Link : ~ResetPrechecks(c, n)
          BY <4>1 DEF ResetPrechecks, ResetLocks
        <5> QED BY <5>1, ChangeGoes
      <4>3. change[c].link \in Link
        BY <1>0, <4>1 DEF ChangeRow, ResetLocks
      <4>4. StillValid(change[c].link)
        BY <1>0, <2>2, <3>1, <4>1 DEF ResetLocks
      <4> QED BY <1>1, <3>1, <4>2, <4>3, <4>4 DEF StillValid, Usable
    <3>2. CASE d # c
      BY <2>2, <3>2, ChangeGoes DEF LinksFit
    <3> QED BY <3>1, <3>2
  <2>3. \A m, n \in Link : link[m].state = "active" /\ link[n].state = "active" => m = n
    BY DEF LinksFit
  <2> QED BY <1>1, <1>2, <2>1, <2>2, <2>3 DEF LinksFit
<1> QED BY <1>3, <1>4, <1>5

LEMMA LinksStep ==
    ASSUME TypeOK, LinksFit, [Next]_vars
    PROVE  LinksFit'
<1>1. CASE (\E b \in Tab : Browses(b)) \/ (\E t \in Token : GraceEnds(t)) \/ Enable \/ UNCHANGED vars
  <2>1. UNCHANGED <<link, change>>
    BY <1>1 DEF Browses, Login, PersistRefreshToken, SendRefresh, ReadToken, ReadStaff, Rotate, RevokeFamily,
                Answer, Refused, TabFails, AnswerLost, GraceEnds, Enable, vars
  <2> QED BY <2>1 DEF LinksFit
<1> QED BY <1>1, LinksMail, LinksChange, NextIs

--------------------------------------------------------------------------------
(* The causes.                                                             *)

\* What may end a session of the browser: it never goes away again.
Cause == \/ version > 0 \/ faults > 0
         \/ \E c \in Change : change[c].pc # "start"
         \/ \E t \in Token : token[t].aged

\* A refusal has a cause; a replay was recognised by a token past its grace.
CausesFit ==
    /\ ~enabled => version > 0
    /\ \A b \in Tab : tab[b].pc \in {"refused", "replay"} => Cause

LEMMA CauseInit == Init => CausesFit
<1> SUFFICES ASSUME Init PROVE CausesFit
  OBVIOUS
<1>1. enabled = TRUE /\ \A b \in Tab : tab[b].pc = "idle"
  BY DEF Init, IdleTab
<1> QED BY <1>1 DEF CausesFit

\* The parts of a cause stay.
LEMMA CauseStays ==
    ASSUME TypeOK, TypeOK', ChainInv, [Next]_vars, Cause
    PROVE  Cause'
<1>0. version \in Nat /\ faults \in Nat /\ token \in [Token -> TokenRow]
  BY Types
<1>1. version' \in {version, version + 1} /\ faults' \in {faults, faults + 1}
  <2>1. ASSUME NEW b \in Tab, Browses(b) PROVE version' = version /\ faults' \in {faults, faults + 1}
    BY <2>1 DEF Browses, Login, PersistRefreshToken, SendRefresh, ReadToken, ReadStaff, Rotate, RevokeFamily,
                Answer, Refused, TabFails, AnswerLost
  <2>2. ASSUME NEW n \in Link, Mailing(n) PROVE version' = version /\ faults' \in {faults, faults + 1}
    BY <2>2 DEF Mailing, Forgot, Mailed, MailFails, Activate, LinkExpires
  <2>3. ASSUME NEW c \in Change, Changes(c)
        PROVE  version' \in {version, version + 1} /\ faults' \in {faults, faults + 1}
    BY <2>3 DEF Changes, LogoutBegins, LogoutCommits, ResetLocks, ResetCommits, UpdateBegins, UpdateCommits,
                Disable, Regroup, RevokeSnapshot, RevokeTokens, BurnLinks, ChangeFails, ResetPrechecks
  <2> QED BY <2>1, <2>2, <2>3, NextIs DEF GraceEnds, Enable, vars
<1>2. CASE version > 0 \/ faults > 0
  BY <1>0, <1>1, <1>2 DEF Cause
<1>3. ASSUME NEW c \in Change, change[c].pc # "start"
      PROVE  change'[c].pc # "start"
  <2>1. ASSUME NEW d \in Change, Changes(d) PROVE change'[c].pc # "start"
    <3>1. CASE d = c
      BY <1>3, <2>1, <3>1, ChangeGoes
    <3>2. CASE d # c
      BY <1>3, <2>1, <3>2, ChangeGoes
    <3> QED BY <3>1, <3>2
  <2>2. ASSUME ~ \E d \in Change : Changes(d) PROVE change' = change
    BY <2>2, NextIs DEF Browses, Login, PersistRefreshToken, SendRefresh, ReadToken, ReadStaff, Rotate,
       RevokeFamily, Answer, Refused, TabFails, AnswerLost, GraceEnds, Mailing, Forgot, Mailed, MailFails,
       Activate, LinkExpires, Enable, vars
  <2> QED BY <1>3, <2>1, <2>2
<1>4. ASSUME NEW t \in Token, token[t].aged
      PROVE  token'[t].aged
  <2>1. token[t].state # "none"
    BY <1>4 DEF ChainInv, TokensFit, Used, NewToken
  <2>a. token[t] \in TokenRow
    BY <1>0
  <2>k. ASSUME NEW e \in TokenState, token'[t] = [token[t] EXCEPT !.state = e]
        PROVE  token'[t].aged
    <3>1. [token[t] EXCEPT !.state = e].aged = token[t].aged
      BY <2>a DEF TokenRow
    <3> QED BY <1>4, <2>k, <3>1
  <2>2. ASSUME NEW b \in Tab, Browses(b) PROVE token'[t].aged
    <3>1. CASE PersistRefreshToken(b)
      <4>1. token'[t] = token[t]
        BY <1>0, <2>1, <3>1 DEF PersistRefreshToken, Unused
      <4> QED BY <1>4, <4>1
    <3>2. CASE Rotate(b)
      <4>1. CASE Consumable(tab[b].token)
        <5> DEFINE q == tab[b].token
        <5>1. PICK u \in Unused :
                token' = [token EXCEPT ![q].state = "rotated",
                            ![u] = [NewToken EXCEPT !.state = "live", !.family = token[q].family,
                                                    !.parent = q, !.version = tab[b].version]]
          BY <3>2, <4>1 DEF Rotate, Consume
        <5> DEFINE n == [NewToken EXCEPT !.state = "live", !.family = token[q].family,
                                         !.parent = q, !.version = tab[b].version]
        <5>2. token' = [token EXCEPT ![q].state = "rotated", ![u] = n]
          BY <5>1
        <5>3. t # u
          BY <2>1 DEF Unused
        <5> HIDE DEF n, q
        <5>4. token'[t] = token[t] \/ token'[t] = [token[t] EXCEPT !.state = "rotated"]
          BY <1>0, <5>2, <5>3
        <5>5. "rotated" \in TokenState
          BY DEF TokenState
        <5> QED BY <1>4, <2>k, <5>4, <5>5
      <4>2. CASE ~Consumable(tab[b].token)
        BY <1>4, <3>2, <4>2 DEF Rotate
      <4> QED BY <4>1, <4>2
    <3>3. CASE RevokeFamily(b)
      <4>1. token'[t] = token[t] \/ token'[t] = [token[t] EXCEPT !.state = "replayed"]
        BY <3>3 DEF RevokeFamily
      <4>2. "replayed" \in TokenState
        BY DEF TokenState
      <4> QED BY <1>4, <2>k, <4>1, <4>2
    <3>4. CASE ~PersistRefreshToken(b) /\ ~Rotate(b) /\ ~RevokeFamily(b)
      <4>1. token' = token
        BY <2>2, <3>4 DEF Browses, Login, SendRefresh, ReadToken, ReadStaff, Answer, Refused, TabFails,
                          AnswerLost
      <4> QED BY <1>4, <4>1
    <3> QED BY <3>1, <3>2, <3>3, <3>4
  <2>3. ASSUME NEW u \in Token, GraceEnds(u) PROVE token'[t].aged
    <3>1. CASE t = u
      <4> DEFINE r == [token[t] EXCEPT !.aged = TRUE]
      <4>1. r.aged
        BY <2>a DEF TokenRow
      <4>2. token'[t] = r
        BY <1>0, <2>3, <3>1 DEF GraceEnds
      <4> HIDE DEF r
      <4> QED BY <4>1, <4>2
    <3>2. CASE t # u
      <4>1. token'[t] = token[t]
        BY <1>0, <2>3, <3>2 DEF GraceEnds
      <4> QED BY <1>4, <4>1
    <3> QED BY <3>1, <3>2
  <2>4. ASSUME NEW c \in Change, Changes(c) PROVE token'[t].aged
    <3>1. token' = token \/ token' = Revoked(change[c].snapshot)
      BY <2>4 DEF Changes, LogoutBegins, LogoutCommits, ResetLocks, ResetCommits, UpdateBegins, UpdateCommits,
         Disable, Regroup, RevokeSnapshot, RevokeTokens, BurnLinks, ChangeFails, ResetPrechecks
    <3>2. token'[t] = token[t] \/ token'[t] = [token[t] EXCEPT !.state = "changed"]
      BY <3>1 DEF Revoked
    <3>3. "changed" \in TokenState
      BY DEF TokenState
    <3> QED BY <1>4, <2>k, <3>2, <3>3
  <2>5. CASE (\E n \in Link : Mailing(n)) \/ Enable \/ UNCHANGED vars
    BY <1>4, <2>5 DEF Mailing, Forgot, Mailed, MailFails, Activate, LinkExpires, Enable, vars
  <2> QED BY <2>2, <2>3, <2>4, <2>5, NextIs
<1> QED BY <1>2, <1>3, <1>4 DEF Cause

LEMMA CauseStep ==
    ASSUME TypeOK, TypeOK', ChainInv, CausesFit, [Next]_vars
    PROVE  CausesFit'
<1>0. /\ version \in Nat /\ faults \in Nat /\ token \in [Token -> TokenRow] /\ tab \in [Tab -> TabRow]
      /\ version' \in Nat
  BY Types DEF TypeOK
<1>1. ~enabled' => version' > 0
  <2>1. ASSUME NEW c \in Change, Changes(c) PROVE ~enabled' => version' > 0
    <3>1. CASE UpdateCommits(c) \/ Disable(c)
      <4>1. version' = version + 1
        BY <3>1 DEF UpdateCommits, Disable
      <4> QED BY <1>0, <4>1
    <3>2. CASE ~UpdateCommits(c) /\ ~Disable(c)
      <4>1. enabled' = enabled
        BY <2>1, <3>2 DEF Changes, LogoutBegins, LogoutCommits, ResetLocks, ResetCommits, UpdateBegins,
           Regroup, RevokeSnapshot, RevokeTokens, BurnLinks, ChangeFails, ResetPrechecks
      <4>2. version' = version \/ version' = version + 1
        BY <2>1, <3>2 DEF Changes, LogoutBegins, LogoutCommits, ResetLocks, ResetCommits, UpdateBegins,
           Regroup, RevokeSnapshot, RevokeTokens, BurnLinks, ChangeFails, ResetPrechecks
      <4> QED BY <1>0, <4>1, <4>2 DEF CausesFit
    <3> QED BY <3>1, <3>2
  <2>2. CASE Enable
    BY <2>2 DEF Enable
  <2>3. CASE ~Enable /\ ~ \E c \in Change : Changes(c)
    <3>1. enabled' = enabled /\ version' = version
      BY <2>3, NextIs DEF Browses, Login, PersistRefreshToken, SendRefresh, ReadToken, ReadStaff, Rotate,
         RevokeFamily, Answer, Refused, TabFails, AnswerLost, GraceEnds, Mailing, Forgot, Mailed, MailFails,
         Activate, LinkExpires, vars
    <3> QED BY <3>1 DEF CausesFit
  <2> QED BY <2>1, <2>2, <2>3
<1>2. ASSUME NEW b \in Tab, tab'[b].pc \in {"refused", "replay"}
      PROVE  Cause'
  <2>1. CASE tab[b].pc \in {"refused", "replay"}
    BY <2>1, CauseStays DEF CausesFit
  <2>2. CASE tab[b].pc \notin {"refused", "replay"}
    <3>1. PICK a \in Tab : Browses(a)
      <4>1. tab' # tab
        BY <1>2, <2>2
      <4> QED BY <4>1, NextIs DEF GraceEnds, Mailing, Forgot, Mailed, MailFails, Activate, LinkExpires,
           Changes, LogoutBegins, LogoutCommits, ResetLocks, ResetCommits, UpdateBegins, UpdateCommits,
           Disable, Regroup, RevokeSnapshot, RevokeTokens, BurnLinks, ChangeFails, ResetPrechecks, Enable, vars
    <3>2. \A x \in Tab : x # a => tab'[x] = tab[x]
      BY <1>0, <3>1 DEF Browses, Login, PersistRefreshToken, SendRefresh, ReadToken, ReadStaff, Rotate, Consume,
           RevokeFamily, Answer, Refused, TabFails, AnswerLost, TabGo
    <3>3. a = b
      BY <1>2, <2>2, <3>2
    <3>4. tab[b] \in TabRow /\ tab[b].token \in Token \cup {NoToken}
      BY <1>0 DEF TabRow
    <3>5. CASE ReadStaff(b)
      <4>1. tab[b].pc = "staff" /\ ~MayRefresh(tab[b].token)
        BY <1>0, <1>2, <3>4, <3>5 DEF ReadStaff, TabRow
      <4>2. tab[b].token \in Token /\ Used(tab[b].token)
        BY <4>1 DEF ChainInv, TabsFit
      <4>3. token[tab[b].token].version \in Nat /\ token[tab[b].token].version <= version
        BY <1>0, <4>2 DEF ChainInv, TokensFit, TokenRow
      <4>4. version > 0
        BY <1>0, <4>1, <4>3 DEF MayRefresh, CausesFit
      <4> QED BY <4>4, CauseStays DEF Cause
    <3>6. CASE Rotate(b)
      <4>1. tab[b].token \in Token
        BY <3>6 DEF Rotate, ChainInv, TabsFit
      <4>2. CASE Consumable(tab[b].token)
        <5>1. PICK u : tab' = [tab EXCEPT ![b].pc = "answer", ![b].token = u]
          BY <3>6, <4>2 DEF Rotate, Consume
        <5>2. tab'[b].pc = "answer"
          BY <1>0, <3>4, <5>1 DEF TabRow
        <5> QED BY <1>2, <5>2
      <4>3. CASE ~Consumable(tab[b].token)
        <5> DEFINE pc == IF Benign(b) THEN "answer" ELSE "replay"
                   x == IF Benign(b) THEN NoToken ELSE tab[b].token
        <5>1. tab' = [tab EXCEPT ![b].pc = pc, ![b].token = x]
          BY <3>6, <4>3 DEF Rotate
        <5> HIDE DEF pc, x
        <5>2. tab'[b].pc = pc
          BY <1>0, <3>4, <5>1 DEF TabRow
        <5>3. ~Benign(b)
          BY <1>2, <5>2 DEF pc
        <5>4. token[tab[b].token].aged
          BY <5>3 DEF Benign
        <5> QED BY <4>1, <5>4, CauseStays DEF Cause
      <4> QED BY <4>2, <4>3
    <3>7. CASE TabFails(b)
      BY <1>0, <3>7 DEF TabFails, Cause
    <3>8. CASE ~ReadStaff(b) /\ ~Rotate(b) /\ ~TabFails(b)
      <4>1. CASE RevokeFamily(b)
        BY <2>2, <4>1 DEF RevokeFamily
      <4>2. CASE Answer(b) \/ Refused(b) \/ AnswerLost(b)
        BY <1>0, <1>2, <4>2 DEF Answer, Refused, AnswerLost, IdleTab
      <4>3. CASE Login(b) \/ SendRefresh(b)
        BY <1>0, <1>2, <4>3 DEF Login, SendRefresh, IdleTab
      <4>4. CASE ReadToken(b)
        BY <1>0, <1>2, <3>4, <4>4 DEF ReadToken, TabRow
      <4>5. CASE PersistRefreshToken(b)
        BY <1>0, <1>2, <3>4, <4>5 DEF PersistRefreshToken, TabRow
      <4> QED BY <3>1, <3>3, <3>8, <4>1, <4>2, <4>3, <4>4, <4>5 DEF Browses
    <3> QED BY <3>5, <3>6, <3>7, <3>8
  <2> QED BY <2>1, <2>2
<1> QED BY <1>1, <1>2 DEF CausesFit

--------------------------------------------------------------------------------
(* The theorems.                                                           *)

\* What the account, its tabs, its links and its changes say of each other at any time.
SessionsInv == TypeOK /\ ChainInv /\ LinksFit /\ CausesFit

LEMMA SessionsInit == Init => SessionsInv
BY TypeInit, ChainInit, LinksInit, CauseInit DEF SessionsInv

LEMMA SessionsStep == SessionsInv /\ [Next]_vars => SessionsInv'
<1> SUFFICES ASSUME SessionsInv, [Next]_vars PROVE SessionsInv'
  OBVIOUS
<1>1. TypeOK /\ ChainInv /\ LinksFit /\ CausesFit /\ Asking
  BY ChainsImply DEF SessionsInv
<1>2. TypeOK'
  BY <1>1, TypeStep
<1>3. ChainInv'
  BY <1>1, <1>2, ChainStep
<1>4. LinksFit'
  BY <1>1, LinksStep
<1>5. CausesFit'
  BY <1>1, <1>2, CauseStep
<1> QED BY <1>2, <1>3, <1>4, <1>5 DEF SessionsInv

LEMMA SessionsInvariant == Spec => []SessionsInv
<1>1. Init => SessionsInv
  BY SessionsInit
<1>2. SessionsInv /\ [Next]_vars => SessionsInv'
  BY SessionsStep
<1> QED BY <1>1, <1>2, PTL DEF Spec

\* auth.service.ts: the rows of an account keep their types, whatever overlaps.
THEOREM TypeCorrect == Spec => []TypeOK
<1>1. SessionsInv => TypeOK
  BY DEF SessionsInv
<1> QED BY <1>1, SessionsInvariant, PTL

\* auth.service.ts:186-245, 396-500: for any number of tabs, links and changes, a
\* family of refresh tokens is a chain with one live end, a token that a refresh
\* accepts goes back to a login under the present version, one mailed link at most
\* can be used, and none is used twice.
THEOREM AccountInvariant == Spec => []AccountInv
<1>1. SessionsInv => AccountInv
  BY ChainsImply, LinksImply DEF SessionsInv, AccountInv, SessionInv, ChainInv
<1> QED BY <1>1, SessionsInvariant, PTL

\* auth.service.ts:396-433: a slower older delivery never takes the place of a link
\* that is already usable.
THEOREM NewerWins == Spec => NewerLinkWins
<1>1. SessionsInv /\ [Next]_vars =>
        [\A m, n \in Link : m > n /\ Usable(m) /\ link[n].state = "inactive"
            => link'[n].state = "inactive"]_vars
  <2> SUFFICES ASSUME SessionsInv, Next, NEW m \in Link, NEW n \in Link, m > n, Usable(m),
                      link[n].state = "inactive"
               PROVE  link'[n].state = "inactive"
    OBVIOUS
  <2>0. link \in [Link -> LinkRow]
    BY Types DEF SessionsInv
  <2>1. CASE \E k \in Link : Mailing(k)
    <3>1. PICK k \in Link : Mailing(k)
      BY <2>1
    <3>2. CASE Forgot(k)
      <4>1. [NewLink EXCEPT !.state = "inactive", !.pc = "mail", !.version = version].state = "inactive"
        BY DEF NewLink
      <4> QED BY <2>0, <3>2, <4>1 DEF Forgot
    <3>3. CASE Activate(k)
      <4>1. CASE Activatable(k)
        <5>1. k # n
          BY <4>1 DEF Activatable
        <5> QED BY <3>3, <4>1, <5>1 DEF Activate, ActivatesOnly
      <4>2. CASE ~Activatable(k)
        BY <2>0, <3>3, <4>2 DEF Activate, LinkRow
      <4> QED BY <4>1, <4>2
    <3>4. CASE Mailed(k) \/ MailFails(k) \/ LinkExpires(k)
      BY <2>0, <3>4 DEF Mailed, MailFails, LinkExpires, LinkRow
    <3> QED BY <3>1, <3>2, <3>3, <3>4 DEF Mailing
  <2>2. CASE \E c \in Change : Changes(c)
    <3>1. PICK c \in Change : Changes(c)
      BY <2>2
    <3>2. link' = link \/ link' = Burnt \/ link' = [Burnt EXCEPT ![change[c].link].uses = @ + 1]
      BY <3>1 DEF Changes, LogoutBegins, LogoutCommits, ResetLocks, ResetCommits, UpdateBegins, UpdateCommits,
         Disable, Regroup, RevokeSnapshot, RevokeTokens, BurnLinks, ChangeFails, ResetPrechecks
    <3>3. Burnt \in [Link -> LinkRow]
      BY <2>0, BurntRows
    <3>4. Burnt[n].state = "inactive"
      BY DEF Burnt
    <3> QED BY <3>2, <3>3, <3>4 DEF LinkRow
  <2>3. CASE ~(\E k \in Link : Mailing(k)) /\ ~(\E c \in Change : Changes(c))
    <3>1. link' = link
      BY <2>3, NextIs DEF Browses, Login, PersistRefreshToken, SendRefresh, ReadToken, ReadStaff, Rotate,
         RevokeFamily, Answer, Refused, TabFails, AnswerLost, GraceEnds, Enable
    <3> QED BY <3>1
  <2> QED BY <2>1, <2>2, <2>3
<1> QED BY <1>1, SessionsInvariant, PTL DEF Spec, NewerLinkWins

LEMMA ReplayStep ==
    ASSUME SessionsInv, [Next]_vars, NEW b \in Tab, tab[b].pc = "replay", tab'[b].pc = "refused",
           faults' = faults, NEW u \in Token, token'[u].state = "live"
    PROVE  token[u].family # token[tab[b].token].family
<1>0. /\ faults \in Nat /\ token \in [Token -> TokenRow] /\ tab \in [Tab -> TabRow]
  BY Types DEF SessionsInv
<1>1. PICK a \in Tab : Browses(a)
  <2>1. tab' # tab
    OBVIOUS
  <2> QED BY <2>1, NextIs DEF GraceEnds, Mailing, Forgot, Mailed, MailFails, Activate, LinkExpires,
       Changes, LogoutBegins, LogoutCommits, ResetLocks, ResetCommits, UpdateBegins, UpdateCommits,
       Disable, Regroup, RevokeSnapshot, RevokeTokens, BurnLinks, ChangeFails, ResetPrechecks, Enable, vars
<1>2. \A x \in Tab : x # a => tab'[x] = tab[x]
  BY <1>0, <1>1 DEF Browses, Login, PersistRefreshToken, SendRefresh, ReadToken, ReadStaff, Rotate, Consume,
       RevokeFamily, Answer, Refused, TabFails, AnswerLost, TabGo
<1>3. a = b
  BY <1>2
<1>4. ~TabFails(b)
  BY <1>0 DEF TabFails
<1>5. ~AnswerLost(b)
  BY <1>0 DEF AnswerLost
<1>6. RevokeFamily(b)
  BY <1>1, <1>3, <1>4, <1>5 DEF Browses, Login, PersistRefreshToken, SendRefresh, ReadToken, ReadStaff, Rotate,
     Answer, Refused
<1>7. u \notin Live \cap Family(tab[b].token)
  <2>1. [token[u] EXCEPT !.state = "replayed"].state = "replayed"
    BY <1>0 DEF TokenRow
  <2> QED BY <1>6, <2>1 DEF RevokeFamily
<1>8. token'[u] = token[u]
  BY <1>6, <1>7 DEF RevokeFamily
<1> QED BY <1>7, <1>8 DEF Live, Family

LEMMA JarStep ==
    ASSUME SessionsInv, [Next]_vars, jar # NoToken, jar' = NoToken
    PROVE  Cause
<1>1. CASE \E b \in Tab : Browses(b)
  <2>1. PICK b \in Tab : Browses(b)
    BY <1>1
  <2>2. CASE Answer(b)
    BY <2>2 DEF Answer
  <2>3. CASE Refused(b)
    BY <2>3 DEF Refused, SessionsInv, CausesFit
  <2> QED BY <2>1, <2>2, <2>3 DEF Browses, Login, PersistRefreshToken, SendRefresh, ReadToken, ReadStaff, Rotate,
       RevokeFamily, TabFails, AnswerLost
<1>2. CASE \E c \in Change : Changes(c)
  <2>1. PICK c \in Change : Changes(c)
    BY <1>2
  <2>2. BurnLinks(c)
    BY <2>1 DEF Changes, LogoutBegins, LogoutCommits, ResetLocks, ResetCommits, UpdateBegins, UpdateCommits,
       Disable, Regroup, RevokeSnapshot, RevokeTokens, ChangeFails, ResetPrechecks
  <2> QED BY <2>2 DEF BurnLinks, Cause
<1> QED BY <1>1, <1>2, NextIs DEF GraceEnds, Mailing, Forgot, Mailed, MailFails, Activate, LinkExpires, Enable, vars

\* auth.service.ts:229-245, auth.controller.ts:124: a replay recognised after the
\* grace ends its whole family, and no tab empties the cookie of the browser unless
\* the account changed, a call failed, or a token was presented past its grace.
THEOREM EndsForCause == Spec => SessionsEndForCause
<1>1. SessionsInv /\ [Next]_vars =>
        [\A b \in Tab : tab[b].pc = "replay" /\ tab'[b].pc = "refused" /\ faults' = faults =>
            \A u \in Token : token'[u].state = "live" =>
                token[u].family # token[tab[b].token].family]_vars
  BY ReplayStep
<1>2. SessionsInv /\ [Next]_vars =>
        [jar # NoToken /\ jar' = NoToken =>
            version > 0 \/ ~enabled \/ faults > 0
            \/ (\E c \in Change : change[c].pc # "start")
            \/ \E t \in Token : token[t].aged]_vars
  BY JarStep DEF Cause
<1>3. Spec => ReplayEndsFamily
  BY <1>1, SessionsInvariant, PTL DEF Spec, ReplayEndsFamily
<1>4. Spec => TabsKeepTheSession
  BY <1>2, SessionsInvariant, PTL DEF Spec, TabsKeepTheSession
<1> QED BY <1>3, <1>4 DEF SessionsEndForCause

--------------------------------------------------------------------------------
(***************************************************************************)
(* The board.  A list may be wrong while it is marked, while a drag is     *)
(* under way, which will mark it, or for a ticket that a mutation has      *)
(* written and not yet told of; so may what a fetch has read.              *)
(***************************************************************************)
BoardJob ==
    [pc : {"idle"}]
    \cup [pc : {"show"}, ticket : Ticket, to : Status]
    \cup [pc : {"patch", "rollback"}, ticket : Ticket, to : Status, before : [Ticket -> Status]]
    \cup [pc : {"settle"}, ok : BOOLEAN]
    \cup [pc : {"send"}, ticket : Ticket, tells : BOOLEAN, left : {1, 2}, wrote : BOOLEAN]
    \cup [pc : {"sent"}, ticket : Ticket, tells : BOOLEAN, left : {0}, wrote : BOOLEAN]

BoardFetch == [pc : {"none", "sent"}] \cup [pc : {"read"}, data : [Ticket -> Status]]

BoardTypes ==
    /\ server \in [Ticket -> Status] /\ lists \in [Ticket -> Status]
    /\ marked \in BOOLEAN /\ missed \subseteq Ticket
    /\ fetch \in BoardFetch /\ job \in [Job -> BoardJob]

Drags(x) == x.pc \in {"show", "patch", "rollback", "settle"}
HasWritten(x, t) == x.pc \in {"send", "sent"} /\ x.wrote /\ x.ticket = t

\* Somebody will still speak of the ticket.
Awaited(t) == \E j \in Job : Drags(job[j]) \/ HasWritten(job[j], t)

\* What the data says of a ticket is so, or will be corrected.
Fits(d) == \A t \in Ticket \ missed : d[t] = server[t] \/ Awaited(t)

BoardInv ==
    /\ BoardTypes
    /\ marked \/ Fits(lists)
    /\ fetch.pc = "read" => Fits(fetch.data)

LEMMA BoardInit == Board!Init => BoardInv
  <1> SUFFICES ASSUME Board!Init PROVE BoardInv
    OBVIOUS
  <1>1. job \in [Job -> BoardJob]
    BY DEF Board!Init, Board!Idle, BoardJob
  <1>2. fetch \in BoardFetch /\ fetch.pc # "read"
    BY DEF Board!Init, Board!NoFetch, BoardFetch
  <1>3. Fits(lists)
    BY DEF Board!Init, Fits
  <1>4. QED
    BY <1>1, <1>2, <1>3 DEF Board!Init, BoardInv, BoardTypes

\* A job goes on: whoever was awaited is, but perhaps this one.
LEMMA JobGoes ==
    ASSUME BoardTypes, NEW j \in Job, NEW x \in BoardJob, job' = [job EXCEPT ![j] = x]
    PROVE  /\ job' \in [Job -> BoardJob] /\ job'[j] = x
           /\ \A t \in Ticket : Drags(x) \/ HasWritten(x, t) => Awaited(t)'
           /\ \A t \in Ticket : Awaited(t) /\ (Drags(job[j]) \/ HasWritten(job[j], t) => Drags(x) \/ HasWritten(x, t))
                                => Awaited(t)'
  <1>1. job' \in [Job -> BoardJob] /\ job'[j] = x /\ \A i \in Job : i # j => job'[i] = job[i]
    BY DEF BoardTypes
  <1>2. ASSUME NEW t \in Ticket, Drags(x) \/ HasWritten(x, t) PROVE Awaited(t)'
    BY <1>1, <1>2 DEF Awaited
  <1>3. ASSUME NEW t \in Ticket, Awaited(t),
               Drags(job[j]) \/ HasWritten(job[j], t) => Drags(x) \/ HasWritten(x, t)
        PROVE  Awaited(t)'
    <2>1. PICK i \in Job : Drags(job[i]) \/ HasWritten(job[i], t)
      BY <1>3 DEF Awaited
    <2>2. CASE i = j
      BY <1>2, <1>3, <2>1, <2>2
    <2>3. CASE i # j
      BY <1>1, <2>1, <2>3 DEF Awaited
    <2>4. QED
      BY <2>2, <2>3
  <1>4. QED
    BY <1>1, <1>2, <1>3

\* A drag under way excuses everything.
LEMMA DragFits ==
    ASSUME BoardTypes, NEW j \in Job, NEW x \in BoardJob, job' = [job EXCEPT ![j] = x], Drags(x)
    PROVE  job' \in [Job -> BoardJob] /\ \A d : Fits(d)'
  <1>1. job' \in [Job -> BoardJob] /\ \A t \in Ticket : Awaited(t)'
    BY JobGoes
  <1>2. QED
    BY <1>1 DEF Fits

LEMMA BoardFetchStep ==
    ASSUME BoardInv, Board!Refetch \/ Board!FetchReads \/ Board!FetchLands \/ Board!FetchFails
    PROVE  BoardInv'
  <1>0. BoardTypes /\ (marked \/ Fits(lists)) /\ (fetch.pc = "read" => Fits(fetch.data))
    BY DEF BoardInv
  <1>1. CASE Board!Refetch
    <2>1. fetch' \in BoardFetch /\ fetch'.pc = "sent" /\ UNCHANGED <<server, lists, marked, job, missed>>
      BY <1>1 DEF Board!Refetch, BoardFetch
    <2>2. QED
      BY <1>0, <2>1 DEF BoardInv, BoardTypes, Fits, Awaited
  <1>2. CASE Board!FetchReads
    <2>1. fetch' = [pc |-> "read", data |-> server] /\ UNCHANGED <<server, lists, marked, job, missed>>
      BY <1>2 DEF Board!FetchReads
    <2>2. fetch' \in BoardFetch /\ fetch'.data = server
      BY <1>0, <2>1 DEF BoardFetch, BoardTypes
    <2>3. BoardTypes'
      BY <1>0, <2>1, <2>2 DEF BoardTypes
    <2>4. (marked \/ Fits(lists))' /\ Fits(fetch.data)'
      BY <1>0, <2>1, <2>2 DEF Fits, Awaited
    <2>5. QED
      BY <2>3, <2>4 DEF BoardInv
  <1>3. CASE Board!FetchLands
    <2>1. /\ fetch.pc = "read" /\ lists' = fetch.data /\ marked' = FALSE /\ fetch' = [pc |-> "none"]
          /\ missed' = {t \in missed : fetch.data[t] # server[t]} /\ UNCHANGED <<server, job>>
      BY <1>3 DEF Board!FetchLands, Board!NoFetch
    <2>2. fetch' \in BoardFetch /\ fetch'.pc # "read"
      BY <2>1 DEF BoardFetch
    <2>3. fetch.data \in [Ticket -> Status]
      BY <1>0, <2>1 DEF BoardTypes, BoardFetch
    <2>4. BoardTypes'
      BY <1>0, <2>1, <2>2, <2>3 DEF BoardTypes
    <2>5. Fits(lists)'
      BY <1>0, <2>1 DEF Fits, Awaited
    <2>6. QED
      BY <2>2, <2>4, <2>5 DEF BoardInv
  <1>4. CASE Board!FetchFails
    <2>1. fetch' = [pc |-> "none"] /\ UNCHANGED <<server, lists, marked, job, missed>>
      BY <1>4 DEF Board!FetchFails, Board!NoFetch
    <2>2. fetch' \in BoardFetch /\ fetch'.pc # "read"
      BY <2>1 DEF BoardFetch
    <2>3. QED
      BY <1>0, <2>1, <2>2 DEF BoardInv, BoardTypes, Fits, Awaited
  <1>5. QED
    BY <1>1, <1>2, <1>3, <1>4

LEMMA DragStep ==
    ASSUME BoardInv, NEW j \in Job,
           \/ Board!Drag(j) \/ Board!Show(j) \/ Board!PatchDrag(j) \/ Board!PatchFails(j) \/ Board!Rollback(j)
    PROVE  BoardInv'
  <1>0. BoardTypes /\ job[j] \in BoardJob
    BY DEF BoardInv, BoardTypes
  <1> SUFFICES ASSUME TRUE
               PROVE  \E x \in BoardJob :
                        /\ job' = [job EXCEPT ![j] = x] /\ Drags(x)
                        /\ server' \in [Ticket -> Status] /\ lists' \in [Ticket -> Status]
                        /\ marked' \in BOOLEAN /\ missed' = missed /\ fetch' \in BoardFetch
    <2>1. PICK x \in BoardJob :
              /\ job' = [job EXCEPT ![j] = x] /\ Drags(x)
              /\ server' \in [Ticket -> Status] /\ lists' \in [Ticket -> Status]
              /\ marked' \in BOOLEAN /\ missed' = missed /\ fetch' \in BoardFetch
      OBVIOUS
    <2>2. job' \in [Job -> BoardJob] /\ \A d : Fits(d)'
      BY <1>0, <2>1, DragFits
    <2>3. BoardTypes'
      BY <1>0, <2>1, <2>2 DEF BoardTypes
    <2>4. QED
      BY <2>2, <2>3 DEF BoardInv
  <1>1. CASE Board!Drag(j)
    <2>1. PICK t \in Ticket, s \in Status : job' = [job EXCEPT ![j] = [pc |-> "show", ticket |-> t, to |-> s]]
      BY <1>1 DEF Board!Drag, Board!Goes
    <2>2. [pc |-> "show", ticket |-> t, to |-> s] \in BoardJob /\ Drags([pc |-> "show", ticket |-> t, to |-> s])
      BY DEF BoardJob, Drags
    <2>3. fetch' \in BoardFetch /\ UNCHANGED <<server, lists, marked, missed>>
      BY <1>1 DEF Board!Drag, Board!NoFetch, BoardFetch
    <2>4. QED
      BY <1>0, <2>1, <2>2, <2>3 DEF BoardTypes
  <1>2. CASE Board!Show(j)
    <2>1. job[j].pc = "show" /\ job[j].ticket \in Ticket /\ job[j].to \in Status
      BY <1>0, <1>2 DEF Board!Show, BoardJob
    <2> DEFINE x == [pc |-> "patch", ticket |-> job[j].ticket, to |-> job[j].to, before |-> lists]
    <2>2. x \in BoardJob /\ Drags(x)
      BY <1>0, <2>1 DEF BoardJob, BoardTypes, Drags
    <2>3. /\ job' = [job EXCEPT ![j] = x] /\ lists' = [lists EXCEPT ![job[j].ticket] = job[j].to]
          /\ marked' = FALSE /\ UNCHANGED <<server, fetch, missed>>
      BY <1>2 DEF Board!Show, Board!Goes
    <2>4. lists' \in [Ticket -> Status]
      BY <1>0, <2>1, <2>3 DEF BoardTypes
    <2>5. QED
      BY <1>0, <2>2, <2>3, <2>4 DEF BoardTypes
  <1>3. CASE Board!PatchDrag(j)
    <2>1. job[j].pc = "patch" /\ job[j].ticket \in Ticket /\ job[j].to \in Status
      BY <1>0, <1>3 DEF Board!PatchDrag, BoardJob
    <2>2. [pc |-> "settle", ok |-> TRUE] \in BoardJob /\ Drags([pc |-> "settle", ok |-> TRUE])
      BY DEF BoardJob, Drags
    <2>3. /\ job' = [job EXCEPT ![j] = [pc |-> "settle", ok |-> TRUE]]
          /\ server' = [server EXCEPT ![job[j].ticket] = job[j].to]
          /\ UNCHANGED <<lists, marked, fetch, missed>>
      BY <1>3 DEF Board!PatchDrag, Board!Goes, Board!Changed
    <2>4. server' \in [Ticket -> Status]
      BY <1>0, <2>1, <2>3 DEF BoardTypes
    <2>5. QED
      BY <1>0, <2>2, <2>3, <2>4 DEF BoardTypes
  <1>4. CASE Board!PatchFails(j)
    <2>1. job[j].pc = "patch" /\ job[j].ticket \in Ticket /\ job[j].to \in Status /\ job[j].before \in [Ticket -> Status]
          /\ job[j] = [pc |-> "patch", ticket |-> job[j].ticket, to |-> job[j].to, before |-> job[j].before]
      BY <1>0, <1>4 DEF Board!PatchFails, BoardJob
    <2> DEFINE x == [pc |-> "rollback", ticket |-> job[j].ticket, to |-> job[j].to, before |-> job[j].before]
    <2>2. x \in BoardJob /\ Drags(x)
      BY <2>1 DEF BoardJob, Drags
    <2>3. [job[j] EXCEPT !.pc = "rollback"] = x
      BY <2>1
    <2>4. /\ job' = [job EXCEPT ![j] = x]
          /\ server' \in {server, [server EXCEPT ![job[j].ticket] = job[j].to]}
          /\ UNCHANGED <<lists, marked, fetch, missed>>
      BY <1>4, <2>3 DEF Board!PatchFails, Board!Goes, Board!Changed
    <2>5. server' \in [Ticket -> Status]
      BY <1>0, <2>1, <2>4 DEF BoardTypes
    <2>6. QED
      BY <1>0, <2>2, <2>4, <2>5 DEF BoardTypes
  <1>5. CASE Board!Rollback(j)
    <2>1. job[j].pc = "rollback" /\ job[j].before \in [Ticket -> Status]
      BY <1>0, <1>5 DEF Board!Rollback, BoardJob
    <2>2. [pc |-> "settle", ok |-> FALSE] \in BoardJob /\ Drags([pc |-> "settle", ok |-> FALSE])
      BY DEF BoardJob, Drags
    <2>3. /\ job' = [job EXCEPT ![j] = [pc |-> "settle", ok |-> FALSE]]
          /\ lists' = job[j].before /\ marked' = FALSE /\ UNCHANGED <<server, fetch, missed>>
      BY <1>5 DEF Board!Rollback, Board!Goes
    <2>4. QED
      BY <1>0, <2>1, <2>2, <2>3 DEF BoardTypes
  <1>6. QED
    BY <1>1, <1>2, <1>3, <1>4, <1>5

\* Whoever invalidates the lists owes them nothing any more.
LEMMA InvalidateFits ==
    ASSUME BoardInv, NEW j \in Job, NEW x \in BoardJob, job' = [job EXCEPT ![j] = x],
           marked' = TRUE, fetch' = [pc |-> "sent"], UNCHANGED <<server, lists, missed>>
    PROVE  BoardInv'
  <1>1. BoardTypes /\ job' \in [Job -> BoardJob]
    BY JobGoes DEF BoardInv
  <1>2. fetch' \in BoardFetch /\ fetch'.pc # "read"
    BY DEF BoardFetch
  <1>3. QED
    BY <1>1, <1>2 DEF BoardInv, BoardTypes

\* A mutation goes on, or its ticket is missed.
LEMMA MutationGoes ==
    ASSUME BoardInv, NEW j \in Job, NEW x \in BoardJob, job' = [job EXCEPT ![j] = x],
           ~Drags(job[j]), missed \subseteq missed', missed' \subseteq Ticket,
           \A t \in Ticket \ missed' : HasWritten(job[j], t) \/ server'[t] # server[t] => HasWritten(x, t),
           server' \in [Ticket -> Status], UNCHANGED <<lists, marked, fetch>>
    PROVE  BoardInv'
  <1>0. BoardTypes
    BY DEF BoardInv
  <1>1. /\ job' \in [Job -> BoardJob]
        /\ \A t \in Ticket : Drags(x) \/ HasWritten(x, t) => Awaited(t)'
        /\ \A t \in Ticket : Awaited(t) /\ (Drags(job[j]) \/ HasWritten(job[j], t) => Drags(x) \/ HasWritten(x, t))
                             => Awaited(t)'
    BY <1>0, JobGoes
  <1>2. ASSUME NEW d, Fits(d) PROVE Fits(d)'
    <2> SUFFICES ASSUME NEW t \in Ticket \ missed' PROVE d[t] = server'[t] \/ Awaited(t)'
      BY DEF Fits
    <2>1. d[t] = server[t] \/ Awaited(t)
      BY <1>2 DEF Fits
    <2>2. CASE server'[t] # server[t]
      BY <1>1, <2>2
    <2>3. CASE server'[t] = server[t]
      BY <1>1, <2>1, <2>3
    <2>4. QED
      BY <2>2, <2>3
  <1>3. BoardTypes'
    BY <1>0, <1>1 DEF BoardTypes
  <1>4. (marked \/ Fits(lists))'
    BY <1>2 DEF BoardInv
  <1>5. fetch'.pc = "read" => Fits(fetch.data)'
    BY <1>2 DEF BoardInv
  <1>6. QED
    BY <1>3, <1>4, <1>5 DEF BoardInv

LEMMA MutationStep ==
    ASSUME BoardInv, NEW j \in Job,
           \/ Board!Settle(j) \/ Board!Mutate(j) \/ Board!Send(j) \/ Board!Succeed(j) \/ Board!FailLate(j)
    PROVE  BoardInv'
  <1>0. BoardTypes /\ job[j] \in BoardJob
    BY DEF BoardInv, BoardTypes
  <1>1. Board!Idle \in BoardJob /\ ~Drags(Board!Idle) /\ \A t : ~HasWritten(Board!Idle, t)
    BY DEF Board!Idle, BoardJob, Drags, HasWritten
  <1>2. CASE Board!Settle(j)
    <2>1. /\ job' = [job EXCEPT ![j] = Board!Idle] /\ marked' = TRUE /\ fetch' = [pc |-> "sent"]
          /\ UNCHANGED <<server, lists, missed>>
      BY <1>2 DEF Board!Settle, Board!TellsLists, Board!Invalidate, Board!Goes
    <2>2. QED
      BY <1>1, <2>1, InvalidateFits
  <1>3. CASE Board!Mutate(j)
    <2>1. PICK t \in Ticket, tells \in BOOLEAN, n \in 1 .. 2 :
              job' = [job EXCEPT ![j] = [pc |-> "send", ticket |-> t, tells |-> tells, left |-> n, wrote |-> FALSE]]
      BY <1>3 DEF Board!Mutate, Board!Goes
    <2> DEFINE x == [pc |-> "send", ticket |-> t, tells |-> tells, left |-> n, wrote |-> FALSE]
    <2>2. x \in BoardJob
      BY DEF BoardJob
    <2>3. ~Drags(job[j]) /\ \A u : ~HasWritten(job[j], u)
      BY <1>1, <1>3 DEF Board!Mutate
    <2>4. UNCHANGED <<server, lists, marked, fetch, missed>>
      BY <1>3 DEF Board!Mutate
    <2>5. job' = [job EXCEPT ![j] = x]
      BY <2>1
    <2> HIDE DEF x
    <2>6. QED
      BY <1>0, <2>2, <2>3, <2>4, <2>5, MutationGoes DEF BoardTypes
  <1>4. ASSUME job[j].pc \in {"send", "sent"}
        PROVE  ~Drags(job[j]) /\ job[j].ticket \in Ticket /\ job[j].tells \in BOOLEAN
    BY <1>0, <1>4 DEF BoardJob, Drags
  <1>5. CASE Board!Send(j)
    <2> DEFINE x == [job[j] EXCEPT !.left = @ - 1, !.wrote = TRUE,
                                   !.pc = IF job[j].left = 1 THEN "sent" ELSE "send"]
    <2>1. PICK s \in Status : server' = [server EXCEPT ![job[j].ticket] = s]
      BY <1>5 DEF Board!Send, Board!Changed
    <2>2. job[j].pc = "send" /\ job' = [job EXCEPT ![j] = x] /\ UNCHANGED <<lists, marked, fetch, missed>>
      BY <1>5 DEF Board!Send, Board!Goes
    <2>3. job[j] \in [pc : {"send"}, ticket : Ticket, tells : BOOLEAN, left : {1, 2}, wrote : BOOLEAN]
      BY <1>0, <2>2 DEF BoardJob
    <2>4. server' \in [Ticket -> Status] /\ \A t \in Ticket : server'[t] # server[t] => t = job[j].ticket
      BY <1>0, <1>4, <2>1, <2>2 DEF BoardTypes
    <2>5. x \in BoardJob /\ x.pc \in {"send", "sent"} /\ x.wrote = TRUE /\ x.ticket = job[j].ticket
      <3>1. CASE job[j].left = 1
        <4>1. x = [job[j] EXCEPT !.left = 0, !.wrote = TRUE, !.pc = "sent"]
          BY <3>1
        <4>2. x \in [pc : {"sent"}, ticket : Ticket, tells : BOOLEAN, left : {0}, wrote : BOOLEAN]
          BY <2>3, <4>1
        <4> HIDE DEF x
        <4>3. QED
          BY <2>3, <4>1, <4>2 DEF BoardJob
      <3>2. CASE job[j].left # 1
        <4>0. job[j].left = 2
          BY <2>3, <3>2
        <4>1. x = [job[j] EXCEPT !.left = 1, !.wrote = TRUE, !.pc = "send"]
          BY <4>0
        <4>2. x \in [pc : {"send"}, ticket : Ticket, tells : BOOLEAN, left : {1, 2}, wrote : BOOLEAN]
          BY <2>3, <4>1
        <4> HIDE DEF x
        <4>3. QED
          BY <2>3, <4>1, <4>2 DEF BoardJob
      <3>3. QED
        BY <3>1, <3>2
    <2> HIDE DEF x
    <2>6. ~Drags(job[j])
      BY <1>4, <2>2
    <2>7. \A t \in Ticket : HasWritten(job[j], t) \/ server'[t] # server[t] => HasWritten(x, t)
      BY <2>4, <2>5 DEF HasWritten
    <2>8. QED
      BY <1>0, <2>2, <2>4, <2>5, <2>6, <2>7, MutationGoes DEF BoardTypes
  <1>6. CASE Board!Succeed(j)
    <2>1. job[j].pc = "sent" /\ job' = [job EXCEPT ![j] = Board!Idle] /\ UNCHANGED <<server, lists>>
      BY <1>6 DEF Board!Succeed, Board!Goes
    <2>2. CASE job[j].tells
      <3>1. marked' = TRUE /\ fetch' = [pc |-> "sent"] /\ missed' = missed
        BY <1>6, <2>2 DEF Board!Succeed, Board!Invalidate
      <3>2. QED
        BY <1>1, <2>1, <3>1, InvalidateFits
    <2>3. CASE ~job[j].tells
      <3>1. missed' = missed \cup {job[j].ticket} /\ UNCHANGED <<marked, fetch>>
        BY <1>6, <2>3 DEF Board!Succeed
      <3>2. \A t \in Ticket \ missed' : ~HasWritten(job[j], t)
        BY <3>1 DEF HasWritten
      <3>3. missed' \subseteq Ticket /\ missed \subseteq missed' /\ server' \in [Ticket -> Status]
        BY <1>0, <1>4, <2>1, <3>1 DEF BoardTypes
      <3>4. QED
        BY <1>1, <1>4, <2>1, <3>1, <3>2, <3>3, MutationGoes
    <2>4. QED
      BY <2>2, <2>3
  <1>7. CASE Board!FailLate(j)
    <2>1. /\ job[j].pc \in {"send", "sent"} /\ job' = [job EXCEPT ![j] = Board!Idle]
          /\ missed' = IF job[j].wrote THEN missed \cup {job[j].ticket} ELSE missed
          /\ UNCHANGED <<server, lists, marked, fetch>>
      BY <1>7 DEF Board!FailLate, Board!Goes
    <2>2. \A t \in Ticket \ missed' : ~HasWritten(job[j], t)
      BY <2>1 DEF HasWritten
    <2>3. missed' \subseteq Ticket /\ missed \subseteq missed' /\ server' \in [Ticket -> Status]
      BY <1>0, <1>4, <2>1 DEF BoardTypes
    <2>4. QED
      BY <1>1, <1>4, <2>1, <2>2, <2>3, MutationGoes
  <1>8. QED
    BY <1>2, <1>3, <1>5, <1>6, <1>7

LEMMA BoardStep == ASSUME BoardInv, Board!Next PROVE BoardInv'
  BY BoardFetchStep, DragStep, MutationStep DEF Board!Next

LEMMA BoardPromise == BoardInv => Board!RestingListsAreTrue
  <1> SUFFICES ASSUME BoardInv, Board!AtRest, NEW t \in Ticket \ missed PROVE lists[t] = server[t]
    BY DEF Board!RestingListsAreTrue
  <1>1. \A j \in Job : job[j].pc = "idle"
    BY DEF Board!AtRest, Board!Idle
  <1>2. ~Awaited(t)
    BY <1>1 DEF Awaited, Drags, HasWritten
  <1>3. QED
    BY <1>2 DEF BoardInv, Board!AtRest, Fits
(***************************************************************************)
(* The screens.  What a hook writes and does not name is what it           *)
(* overlooks, by group of areas that share rows or keys.                   *)
(***************************************************************************)
Kept(h, s) == Screens!Names(h, s.key) \/ <<h.name, s.key>> \in Screens!Overlooked

\* The group of a row.
Home(r) ==
    CASE r \in {"plans", "rules", "schedules"} -> "sla"
      [] r \in {"audit", "groups", "staff"} -> "staff"
      [] r \in {"categories", "macros"} -> "macro"
      [] r \in {"captured", "quarantine", "queues"} -> "mail"
      [] r \in {"events"} -> "events"
      [] r \in {"links", "mails", "posts", "tags", "ticket", "tickets", "watchers"} -> "ticket"
      [] r \in {"own", "own-posts"} -> "portal"
      [] r \in {"departments", "priorities", "statuses", "types"} -> "kinds"
      [] r \in {"fields", "holidays", "workflows"} -> "setup"
      [] r \in {"entries", "follow-ups", "recipients", "views"} -> "work"

\* A group of areas is at home, and its hooks name what they write.
Tidy(areas, home) ==
    /\ \A a \in areas : /\ \A h \in a.does : \A r \in h.writes : Home(r) = home
                       /\ \A s \in a.shows : \A r \in s.reads : Home(r) = home
    /\ \A a, b \in areas : \A h \in a.does, s \in b.shows : h.writes \cap s.reads # {} => Kept(h, s)

\* A key is one of its prefixes.
LEMMA KeyCovers ==
    \A a, b, c, d, e :
        /\ Screens!Covers(<<a>>, <<a>>) /\ Screens!Covers(<<a>>, <<a, b, c>>)
        /\ Screens!Covers(<<a, b>>, <<a, b>>) /\ Screens!Covers(<<a, b>>, <<a, b, c>>)
        /\ Screens!Covers(<<a, b, c>>, <<a, b, c>>) /\ Screens!Covers(<<a, b, c>>, <<a, b, c, d, e>>)
        /\ Screens!Covers(<<a, b, c, d>>, <<a, b, c, d>>)
  BY DEF Screens!Covers

LEMMA SlaTidy == Tidy({Screens!SlaPlans, Screens!EscalationRules}, "sla")
  <1> DEFINE plans == <<"admin", "sla", "plans">>
             schedules == <<"admin", "sla", "schedules">>
             rules == <<"admin", "sla", "escalation-rules", "id">>
             gaps == {<<"useDeleteSlaSchedule", plans>>}
  <1> DEFINE areas == {Screens!SlaPlans, Screens!EscalationRules}
             Shows(s) == \/ s.key = plans /\ s.reads = {"plans", "rules"}
                         \/ s.key = schedules /\ s.reads = {"schedules"}
                         \/ s.key = rules /\ s.reads = {"rules"}
             Does(h) == \/ h.name = "plan" /\ h.writes = {"plans"} /\ h.names = {plans}
                        \/ h.name = "schedule" /\ h.writes = {"schedules"} /\ h.names = {schedules}
                        \/ h.name = "useDeleteSlaSchedule" /\ h.writes = {"schedules", "plans"} /\ h.names = {schedules}
                        \/ h.name = "rule" /\ h.writes = {"rules"} /\ h.names = {rules, plans}
  <1>1. ASSUME NEW b \in areas, NEW s \in b.shows PROVE Shows(s)
    BY <1>1 DEF Screens!SlaPlans, Screens!EscalationRules, Screens!SlaKey, Screens!Screen, Screens!Hook
  <1>2. ASSUME NEW a \in areas, NEW h \in a.does PROVE Does(h)
    BY <1>2 DEF Screens!SlaPlans, Screens!EscalationRules, Screens!SlaKey, Screens!Screen, Screens!Hook
  <1>3. Screens!Covers(plans, plans) /\ Screens!Covers(schedules, schedules) /\ Screens!Covers(rules, rules)
    BY KeyCovers
  <1>4. gaps \subseteq Screens!Overlooked
    BY DEF Screens!Overlooked, Screens!SlaKey
  <1> HIDE DEF plans, schedules, rules, areas
  <1>5. ASSUME NEW a \in areas, NEW h \in a.does, NEW r \in h.writes PROVE Home(r) = "sla"
    BY <1>2, <1>5 DEF Home
  <1>6. ASSUME NEW b \in areas, NEW s \in b.shows, NEW r \in s.reads PROVE Home(r) = "sla"
    BY <1>1, <1>6 DEF Home
  <1>7. ASSUME NEW a \in areas, NEW b \in areas, NEW h \in a.does, NEW s \in b.shows, h.writes \cap s.reads # {}
        PROVE  Kept(h, s)
    <2>1. Shows(s) /\ Does(h)
      BY <1>1, <1>2, <1>7
    <2>2. (\E key \in h.names : Screens!Covers(key, s.key)) \/ <<h.name, s.key>> \in gaps
      BY <1>3, <1>7, <2>1
    <2>3. QED
      BY <1>4, <2>2 DEF Kept, Screens!Names
  <1>8. Tidy(areas, "sla")
    BY Zenon, <1>5, <1>6, <1>7 DEF Tidy
  <1>9. QED
    BY <1>8 DEF areas

LEMMA StaffTidy == Tidy({Screens!StaffMembers, Screens!StaffGroups}, "staff")
  <1> DEFINE staff == <<"admin", "staff">>
             audit == <<"admin", "rbac", "audit">>
             filtered == <<"admin", "staff", "filter">>
             paged == <<"admin", "rbac", "audit", "page", "limit">>
             groups == <<"admin", "staff", "groups">>
  <1> DEFINE areas == {Screens!StaffMembers, Screens!StaffGroups}
             Shows(s) == \/ s.key = filtered /\ s.reads = {"staff"}
                         \/ s.key = paged /\ s.reads = {"audit"}
                         \/ s.key = groups /\ s.reads = {"groups"}
             Does(h) == \/ h.name = "staff" /\ h.writes = {"staff", "audit"} /\ h.names = {staff, audit}
                        \/ h.name = "group" /\ h.writes = {"groups", "audit"} /\ h.names = {groups, audit}
  <1>1. ASSUME NEW b \in areas, NEW s \in b.shows PROVE Shows(s)
    BY <1>1 DEF Screens!StaffMembers, Screens!StaffGroups, Screens!StaffKey, Screens!AuditKey, Screens!Screen,
               Screens!Hook
  <1>2. ASSUME NEW a \in areas, NEW h \in a.does PROVE Does(h)
    BY <1>2 DEF Screens!StaffMembers, Screens!StaffGroups, Screens!StaffKey, Screens!AuditKey, Screens!Screen,
               Screens!Hook
  <1>3. Screens!Covers(staff, filtered) /\ Screens!Covers(audit, paged) /\ Screens!Covers(groups, groups)
    BY KeyCovers
  <1> HIDE DEF staff, audit, filtered, paged, groups, areas
  <1>5. ASSUME NEW a \in areas, NEW h \in a.does, NEW r \in h.writes PROVE Home(r) = "staff"
    BY <1>2, <1>5 DEF Home
  <1>6. ASSUME NEW b \in areas, NEW s \in b.shows, NEW r \in s.reads PROVE Home(r) = "staff"
    BY <1>1, <1>6 DEF Home
  <1>7. ASSUME NEW a \in areas, NEW b \in areas, NEW h \in a.does, NEW s \in b.shows, h.writes \cap s.reads # {}
        PROVE  Kept(h, s)
    <2>1. Shows(s) /\ Does(h)
      BY <1>1, <1>2, <1>7
    <2>2. \E key \in h.names : Screens!Covers(key, s.key)
      BY <1>3, <1>7, <2>1
    <2>3. QED
      BY <2>2 DEF Kept, Screens!Names
  <1>8. Tidy(areas, "staff")
    BY Zenon, <1>5, <1>6, <1>7 DEF Tidy
  <1>9. QED
    BY <1>8 DEF areas

LEMMA MacrosTidy == Tidy({Screens!MacroCategories, Screens!Macros}, "macro")
  <1> DEFINE categories == <<"admin", "macro-categories">>
             undefined == <<"admin", "macros", "undefined">>
             filtered == <<"admin", "macros", "id">>
             gaps == {<<"useDeleteMacroCategory", undefined>>, <<"useDeleteMacroCategory", filtered>>, <<"macro", filtered>>}
  <1> DEFINE areas == {Screens!MacroCategories, Screens!Macros}
             Shows(s) == \/ s.key = categories /\ s.reads = {"categories"}
                         \/ s.key = undefined /\ s.reads = {"macros"}
                         \/ s.key = filtered /\ s.reads = {"macros"}
             Does(h) == \/ h.name = "category" /\ h.writes = {"categories"} /\ h.names = {categories}
                        \/ h.name = "useDeleteMacroCategory" /\ h.writes = {"categories", "macros"} /\ h.names = {categories}
                        \/ h.name = "macro" /\ h.writes = {"macros"} /\ h.names = {undefined}
  <1>1. ASSUME NEW b \in areas, NEW s \in b.shows PROVE Shows(s)
    BY <1>1 DEF Screens!MacroCategories, Screens!Macros, Screens!MacroKey, Screens!Screen, Screens!Hook
  <1>2. ASSUME NEW a \in areas, NEW h \in a.does PROVE Does(h)
    BY <1>2 DEF Screens!MacroCategories, Screens!Macros, Screens!MacroKey, Screens!Screen, Screens!Hook
  <1>3. Screens!Covers(categories, categories) /\ Screens!Covers(undefined, undefined)
    BY KeyCovers
  <1>4. gaps \subseteq Screens!Overlooked
    BY DEF Screens!Overlooked, Screens!MacroKey
  <1> HIDE DEF categories, undefined, filtered, areas
  <1>5. ASSUME NEW a \in areas, NEW h \in a.does, NEW r \in h.writes PROVE Home(r) = "macro"
    BY <1>2, <1>5 DEF Home
  <1>6. ASSUME NEW b \in areas, NEW s \in b.shows, NEW r \in s.reads PROVE Home(r) = "macro"
    BY <1>1, <1>6 DEF Home
  <1>7. ASSUME NEW a \in areas, NEW b \in areas, NEW h \in a.does, NEW s \in b.shows, h.writes \cap s.reads # {}
        PROVE  Kept(h, s)
    <2>1. Shows(s) /\ Does(h)
      BY <1>1, <1>2, <1>7
    <2>2. (\E key \in h.names : Screens!Covers(key, s.key)) \/ <<h.name, s.key>> \in gaps
      BY <1>3, <1>7, <2>1
    <2>3. QED
      BY <1>4, <2>2 DEF Kept, Screens!Names
  <1>8. Tidy(areas, "macro")
    BY Zenon, <1>5, <1>6, <1>7 DEF Tidy
  <1>9. QED
    BY <1>8 DEF areas

LEMMA MailTidy == Tidy({Screens!Mailboxes, Screens!Quarantine, Screens!Captured}, "mail")
  <1> DEFINE queues == <<"admin", "email-queues">>
             health == <<"admin", "inbound-health">>
             quarantine == <<"admin", "inbound-quarantine">>
             waiting == <<"admin", "inbound-quarantine", "filters">>
             delivery == <<"admin", "inbound-quarantine", "id">>
             captured == <<"admin", "inbound-captured">>
             raw == <<"admin", "inbound-captured", "filters">>
             mime == <<"admin", "inbound-captured", "id">>
  <1> DEFINE areas == {Screens!Mailboxes, Screens!Quarantine, Screens!Captured}
             Shows(s) == \/ s.key = queues /\ s.reads = {"queues"}
                         \/ s.key = health /\ s.reads = {"queues", "quarantine", "captured"}
                         \/ s.key = waiting /\ s.reads = {"quarantine"}
                         \/ s.key = delivery /\ s.reads = {"quarantine"}
                         \/ s.key = raw /\ s.reads = {"captured"}
                         \/ s.key = mime /\ s.reads = {"captured"}
             Does(h) == \/ h.name = "queue" /\ h.writes = {"queues"} /\ h.names = {queues, health}
                        \/ h.name = "quarantine" /\ h.writes = {"quarantine"} /\ h.names = {quarantine, health}
                        \/ h.name = "captured" /\ h.writes = {"captured"} /\ h.names = {captured, health}
  <1>1. ASSUME NEW b \in areas, NEW s \in b.shows PROVE Shows(s)
    BY <1>1 DEF Screens!Mailboxes, Screens!Quarantine, Screens!Captured, Screens!MailKey, Screens!WaitingMail,
               Screens!Screen, Screens!Hook
  <1>2. ASSUME NEW a \in areas, NEW h \in a.does PROVE Does(h)
    BY <1>2 DEF Screens!Mailboxes, Screens!Quarantine, Screens!Captured, Screens!MailKey, Screens!WaitingMail,
               Screens!Screen, Screens!Hook
  <1>3. Screens!Covers(queues, queues) /\ Screens!Covers(health, health) /\ Screens!Covers(quarantine, waiting) /\
        Screens!Covers(quarantine, delivery) /\ Screens!Covers(captured, raw) /\ Screens!Covers(captured, mime)
    BY KeyCovers
  <1> HIDE DEF queues, health, quarantine, waiting, delivery, captured, raw, mime, areas
  <1>5. ASSUME NEW a \in areas, NEW h \in a.does, NEW r \in h.writes PROVE Home(r) = "mail"
    BY <1>2, <1>5 DEF Home
  <1>6. ASSUME NEW b \in areas, NEW s \in b.shows, NEW r \in s.reads PROVE Home(r) = "mail"
    BY <1>1, <1>6 DEF Home
  <1>7. ASSUME NEW a \in areas, NEW b \in areas, NEW h \in a.does, NEW s \in b.shows, h.writes \cap s.reads # {}
        PROVE  Kept(h, s)
    <2>1. Shows(s) /\ Does(h)
      BY <1>1, <1>2, <1>7
    <2>2. \E key \in h.names : Screens!Covers(key, s.key)
      BY <1>3, <1>7, <2>1
    <2>3. QED
      BY <2>2 DEF Kept, Screens!Names
  <1>8. Tidy(areas, "mail")
    BY Zenon, <1>5, <1>6, <1>7 DEF Tidy
  <1>9. QED
    BY <1>8 DEF areas

LEMMA EventsTidy == Tidy({Screens!WorkflowEvents}, "events")
  <1> DEFINE events == <<"admin", "workflow-email-events">>
             filtered == <<"admin", "workflow-email-events", "filters">>
             health == <<"admin", "workflow-email-health">>
             event == <<"admin", "workflow-email-event", "id">>
             gaps == {<<"useReplayWorkflowEmailEvent", event>>}
  <1> DEFINE areas == {Screens!WorkflowEvents}
             Shows(s) == \/ s.key = filtered /\ s.reads = {"events"}
                         \/ s.key = health /\ s.reads = {"events"}
                         \/ s.key = event /\ s.reads = {"events"}
             Does(h) == \/ h.name = "useReplayWorkflowEmailEvent" /\ h.writes = {"events"} /\ h.names = {events, health}
  <1>1. ASSUME NEW b \in areas, NEW s \in b.shows PROVE Shows(s)
    BY <1>1 DEF Screens!WorkflowEvents, Screens!MailKey, Screens!Screen, Screens!Hook
  <1>2. ASSUME NEW a \in areas, NEW h \in a.does PROVE Does(h)
    BY <1>2 DEF Screens!WorkflowEvents, Screens!MailKey, Screens!Screen, Screens!Hook
  <1>3. Screens!Covers(events, filtered) /\ Screens!Covers(health, health)
    BY KeyCovers
  <1>4. gaps \subseteq Screens!Overlooked
    BY DEF Screens!Overlooked, Screens!MailKey
  <1> HIDE DEF events, filtered, health, event, areas
  <1>5. ASSUME NEW a \in areas, NEW h \in a.does, NEW r \in h.writes PROVE Home(r) = "events"
    BY <1>2, <1>5 DEF Home
  <1>6. ASSUME NEW b \in areas, NEW s \in b.shows, NEW r \in s.reads PROVE Home(r) = "events"
    BY <1>1, <1>6 DEF Home
  <1>7. ASSUME NEW a \in areas, NEW b \in areas, NEW h \in a.does, NEW s \in b.shows, h.writes \cap s.reads # {}
        PROVE  Kept(h, s)
    <2>1. Shows(s) /\ Does(h)
      BY <1>1, <1>2, <1>7
    <2>2. (\E key \in h.names : Screens!Covers(key, s.key)) \/ <<h.name, s.key>> \in gaps
      BY <1>3, <1>7, <2>1
    <2>3. QED
      BY <1>4, <2>2 DEF Kept, Screens!Names
  <1>8. Tidy(areas, "events")
    BY Zenon, <1>5, <1>6, <1>7 DEF Tidy
  <1>9. QED
    BY <1>8 DEF areas

LEMMA TicketsTidy == Tidy({Screens!Tickets, Screens!TicketLinks, Screens!Watchers}, "ticket")
  <1> DEFINE all == <<"tickets">>
             ofLists == <<"tickets", "list">>
             ofList == <<"tickets", "list", "params">>
             detail == <<"tickets", "detail", "id">>
             replies == <<"tickets", "id", "replies">>
             links == <<"tickets", "id", "links">>
             watchers == <<"tickets", "id", "watchers">>
             gaps == {<<"useReply", ofList>>, <<"spawnSupplier", ofList>>, <<"useChangeTicketDepartment", watchers>>,
                      <<"useMergeTicket", replies>>, <<"useSplitTicket", detail>>, <<"useSplitTicket", replies>>}
  <1> DEFINE areas == {Screens!Tickets, Screens!TicketLinks, Screens!Watchers}
             Shows(s) == \/ s.key = ofList /\ s.reads = {"tickets", "ticket", "tags"}
                         \/ s.key = detail /\ s.reads = {"ticket", "posts", "tags", "mails"}
                         \/ s.key = replies /\ s.reads = {"posts"}
                         \/ s.key = links /\ s.reads = {"links"}
                         \/ s.key = watchers /\ s.reads = {"watchers"}
             Does(h) == \/ h.name = "useCreateTicket" /\ h.writes = {"tickets"} /\ h.names = {ofLists}
                        \/ h.name = "useBulkTicketAction" /\ h.writes = {"ticket"} /\ h.names = {all}
                        \/ h.name = "useReply" /\ h.writes = {"ticket", "posts", "mails"} /\ h.names = {replies, detail}
                        \/ h.name = "useRetryOutboundEmail" /\ h.writes = {"mails"} /\ h.names = {detail, replies}
                        \/ h.name = "useUpdateTicket" /\ h.writes = {"ticket"} /\ h.names = {detail, ofLists}
                        \/ h.name = "useChangeTicketDepartment" /\ h.writes = {"ticket", "watchers"} /\ h.names = {detail, ofLists}
                        \/ h.name = "useApplyMacro" /\ h.writes = {"ticket", "posts", "mails"} /\ h.names = {replies, detail, ofLists}
                        \/ h.name = "useTicketTags" /\ h.writes = {"tags"} /\ h.names = {detail, ofLists}
                        \/ h.name = "useMergeTicket" /\ h.writes = {"ticket", "posts"} /\ h.names = {detail, ofLists}
                        \/ h.name = "useSplitTicket" /\ h.writes = {"tickets", "ticket", "posts"} /\ h.names = {ofLists}
                        \/ h.name = "link" /\ h.writes = {"links"} /\ h.names = {links}
                        \/ h.name = "spawnSupplier" /\ h.writes = {"links", "tickets"} /\ h.names = {links}
                        \/ h.name = "watchers" /\ h.writes = {"watchers"} /\ h.names = {watchers}
  <1>1. ASSUME NEW b \in areas, NEW s \in b.shows PROVE Shows(s)
    BY <1>1 DEF Screens!Tickets, Screens!TicketLinks, Screens!Watchers, Screens!Plain, Screens!TicketLists,
               Screens!Listed, Screens!Detail, Screens!PartKey, Screens!Screen, Screens!Hook
  <1>2. ASSUME NEW a \in areas, NEW h \in a.does PROVE Does(h)
    BY <1>2 DEF Screens!Tickets, Screens!TicketLinks, Screens!Watchers, Screens!Plain, Screens!TicketLists,
               Screens!Listed, Screens!Detail, Screens!PartKey, Screens!Screen, Screens!Hook
  <1>3. Screens!Covers(ofLists, ofList) /\ Screens!Covers(all, ofList) /\ Screens!Covers(all, detail) /\
        Screens!Covers(replies, replies) /\ Screens!Covers(detail, detail) /\ Screens!Covers(links, links) /\
        Screens!Covers(watchers, watchers)
    BY KeyCovers
  <1>4. gaps \subseteq Screens!Overlooked
    BY DEF Screens!Overlooked, Screens!Listed, Screens!Detail, Screens!PartKey
  <1> HIDE DEF all, ofLists, ofList, detail, replies, links, watchers, areas
  <1>5. ASSUME NEW a \in areas, NEW h \in a.does, NEW r \in h.writes PROVE Home(r) = "ticket"
    BY <1>2, <1>5 DEF Home
  <1>6. ASSUME NEW b \in areas, NEW s \in b.shows, NEW r \in s.reads PROVE Home(r) = "ticket"
    BY <1>1, <1>6 DEF Home
  <1>7. ASSUME NEW a \in areas, NEW b \in areas, NEW h \in a.does, NEW s \in b.shows, h.writes \cap s.reads # {}
        PROVE  Kept(h, s)
    <2>1. Shows(s) /\ Does(h)
      BY <1>1, <1>2, <1>7
    <2>2. (\E key \in h.names : Screens!Covers(key, s.key)) \/ <<h.name, s.key>> \in gaps
      BY <1>3, <1>7, <2>1
    <2>3. QED
      BY <1>4, <2>2 DEF Kept, Screens!Names
  <1>8. Tidy(areas, "ticket")
    BY Zenon, <1>5, <1>6, <1>7 DEF Tidy
  <1>9. QED
    BY <1>8 DEF areas

LEMMA PortalTidy == Tidy({Screens!Portal}, "portal")
  <1> DEFINE mine == <<"client-tickets", "list">>
             one == <<"client-tickets", "detail", "id">>
             gaps == {<<"useClientReply", mine>>}
  <1> DEFINE areas == {Screens!Portal}
             Shows(s) == \/ s.key = mine /\ s.reads = {"own"}
                         \/ s.key = one /\ s.reads = {"own", "own-posts"}
             Does(h) == \/ h.name = "useClientReply" /\ h.writes = {"own", "own-posts"} /\ h.names = {one}
  <1>1. ASSUME NEW b \in areas, NEW s \in b.shows PROVE Shows(s)
    BY <1>1 DEF Screens!Portal, Screens!Screen, Screens!Hook
  <1>2. ASSUME NEW a \in areas, NEW h \in a.does PROVE Does(h)
    BY <1>2 DEF Screens!Portal, Screens!Screen, Screens!Hook
  <1>3. Screens!Covers(one, one)
    BY KeyCovers
  <1>4. gaps \subseteq Screens!Overlooked
    BY DEF Screens!Overlooked
  <1> HIDE DEF mine, one, areas
  <1>5. ASSUME NEW a \in areas, NEW h \in a.does, NEW r \in h.writes PROVE Home(r) = "portal"
    BY <1>2, <1>5 DEF Home
  <1>6. ASSUME NEW b \in areas, NEW s \in b.shows, NEW r \in s.reads PROVE Home(r) = "portal"
    BY <1>1, <1>6 DEF Home
  <1>7. ASSUME NEW a \in areas, NEW b \in areas, NEW h \in a.does, NEW s \in b.shows, h.writes \cap s.reads # {}
        PROVE  Kept(h, s)
    <2>1. Shows(s) /\ Does(h)
      BY <1>1, <1>2, <1>7
    <2>2. (\E key \in h.names : Screens!Covers(key, s.key)) \/ <<h.name, s.key>> \in gaps
      BY <1>3, <1>7, <2>1
    <2>3. QED
      BY <1>4, <2>2 DEF Kept, Screens!Names
  <1>8. Tidy(areas, "portal")
    BY Zenon, <1>5, <1>6, <1>7 DEF Tidy
  <1>9. QED
    BY <1>8 DEF areas

LEMMA KindsTidy == Tidy({Screens!Departments, Screens!Statuses, Screens!Priorities, Screens!TicketTypes}, "kinds")
  <1> DEFINE departments == <<"admin", "departments">>
             statuses == <<"admin", "statuses">>
             priorities == <<"admin", "priorities">>
             types == <<"admin", "ticket-types">>
  <1> DEFINE areas == {Screens!Departments, Screens!Statuses, Screens!Priorities, Screens!TicketTypes}
             Shows(s) == \/ s.key = departments /\ s.reads = {"departments"}
                         \/ s.key = statuses /\ s.reads = {"statuses"}
                         \/ s.key = priorities /\ s.reads = {"priorities"}
                         \/ s.key = types /\ s.reads = {"types"}
             Does(h) == \/ h.name = "departments" /\ h.writes = {"departments"} /\ h.names = {departments}
                        \/ h.name = "statuses" /\ h.writes = {"statuses"} /\ h.names = {statuses}
                        \/ h.name = "priorities" /\ h.writes = {"priorities"} /\ h.names = {priorities}
                        \/ h.name = "types" /\ h.writes = {"types"} /\ h.names = {types}
  <1>1. ASSUME NEW b \in areas, NEW s \in b.shows PROVE Shows(s)
    BY <1>1 DEF Screens!Departments, Screens!Statuses, Screens!Priorities, Screens!TicketTypes, Screens!Plain,
               Screens!Screen, Screens!Hook
  <1>2. ASSUME NEW a \in areas, NEW h \in a.does PROVE Does(h)
    BY <1>2 DEF Screens!Departments, Screens!Statuses, Screens!Priorities, Screens!TicketTypes, Screens!Plain,
               Screens!Screen, Screens!Hook
  <1>3. Screens!Covers(departments, departments) /\ Screens!Covers(statuses, statuses) /\
        Screens!Covers(priorities, priorities) /\ Screens!Covers(types, types)
    BY KeyCovers
  <1> HIDE DEF departments, statuses, priorities, types, areas
  <1>5. ASSUME NEW a \in areas, NEW h \in a.does, NEW r \in h.writes PROVE Home(r) = "kinds"
    BY <1>2, <1>5 DEF Home
  <1>6. ASSUME NEW b \in areas, NEW s \in b.shows, NEW r \in s.reads PROVE Home(r) = "kinds"
    BY <1>1, <1>6 DEF Home
  <1>7. ASSUME NEW a \in areas, NEW b \in areas, NEW h \in a.does, NEW s \in b.shows, h.writes \cap s.reads # {}
        PROVE  Kept(h, s)
    <2>1. Shows(s) /\ Does(h)
      BY <1>1, <1>2, <1>7
    <2>2. \E key \in h.names : Screens!Covers(key, s.key)
      BY <1>3, <1>7, <2>1
    <2>3. QED
      BY <2>2 DEF Kept, Screens!Names
  <1>8. Tidy(areas, "kinds")
    BY Zenon, <1>5, <1>6, <1>7 DEF Tidy
  <1>9. QED
    BY <1>8 DEF areas

LEMMA SetupTidy == Tidy({Screens!Workflows, Screens!CustomFields, Screens!Holidays}, "setup")
  <1> DEFINE workflows == <<"admin", "workflows">>
             fields == <<"admin", "custom-field-groups">>
             holidays == <<"admin", "sla", "holidays", "id">>
  <1> DEFINE areas == {Screens!Workflows, Screens!CustomFields, Screens!Holidays}
             Shows(s) == \/ s.key = workflows /\ s.reads = {"workflows"}
                         \/ s.key = fields /\ s.reads = {"fields"}
                         \/ s.key = holidays /\ s.reads = {"holidays"}
             Does(h) == \/ h.name = "workflows" /\ h.writes = {"workflows"} /\ h.names = {workflows}
                        \/ h.name = "fields" /\ h.writes = {"fields"} /\ h.names = {fields}
                        \/ h.name = "holidays" /\ h.writes = {"holidays"} /\ h.names = {holidays}
  <1>1. ASSUME NEW b \in areas, NEW s \in b.shows PROVE Shows(s)
    BY <1>1 DEF Screens!Workflows, Screens!CustomFields, Screens!Holidays, Screens!Plain, Screens!Screen,
               Screens!Hook
  <1>2. ASSUME NEW a \in areas, NEW h \in a.does PROVE Does(h)
    BY <1>2 DEF Screens!Workflows, Screens!CustomFields, Screens!Holidays, Screens!Plain, Screens!Screen,
               Screens!Hook
  <1>3. Screens!Covers(workflows, workflows) /\ Screens!Covers(fields, fields) /\ Screens!Covers(holidays, holidays)
    BY KeyCovers
  <1> HIDE DEF workflows, fields, holidays, areas
  <1>5. ASSUME NEW a \in areas, NEW h \in a.does, NEW r \in h.writes PROVE Home(r) = "setup"
    BY <1>2, <1>5 DEF Home
  <1>6. ASSUME NEW b \in areas, NEW s \in b.shows, NEW r \in s.reads PROVE Home(r) = "setup"
    BY <1>1, <1>6 DEF Home
  <1>7. ASSUME NEW a \in areas, NEW b \in areas, NEW h \in a.does, NEW s \in b.shows, h.writes \cap s.reads # {}
        PROVE  Kept(h, s)
    <2>1. Shows(s) /\ Does(h)
      BY <1>1, <1>2, <1>7
    <2>2. \E key \in h.names : Screens!Covers(key, s.key)
      BY <1>3, <1>7, <2>1
    <2>3. QED
      BY <2>2 DEF Kept, Screens!Names
  <1>8. Tidy(areas, "setup")
    BY Zenon, <1>5, <1>6, <1>7 DEF Tidy
  <1>9. QED
    BY <1>8 DEF areas

LEMMA WorkTidy == Tidy({Screens!FollowUps, Screens!TimeEntries, Screens!SavedViews, Screens!Recipients}, "work")
  <1> DEFINE followups == <<"follow-ups", "list", "id">>
             entries == <<"time-entries", "id">>
             views == <<"saved-views">>
             recipients == <<"tickets", "id", "recipients">>
  <1> DEFINE areas == {Screens!FollowUps, Screens!TimeEntries, Screens!SavedViews, Screens!Recipients}
             Shows(s) == \/ s.key = followups /\ s.reads = {"follow-ups"}
                         \/ s.key = entries /\ s.reads = {"entries"}
                         \/ s.key = views /\ s.reads = {"views"}
                         \/ s.key = recipients /\ s.reads = {"recipients"}
             Does(h) == \/ h.name = "follow-ups" /\ h.writes = {"follow-ups"} /\ h.names = {followups}
                        \/ h.name = "entries" /\ h.writes = {"entries"} /\ h.names = {entries}
                        \/ h.name = "views" /\ h.writes = {"views"} /\ h.names = {views}
                        \/ h.name = "recipients" /\ h.writes = {"recipients"} /\ h.names = {recipients}
  <1>1. ASSUME NEW b \in areas, NEW s \in b.shows PROVE Shows(s)
    BY <1>1 DEF Screens!FollowUps, Screens!TimeEntries, Screens!SavedViews, Screens!Recipients, Screens!Plain,
               Screens!PartKey, Screens!Screen, Screens!Hook
  <1>2. ASSUME NEW a \in areas, NEW h \in a.does PROVE Does(h)
    BY <1>2 DEF Screens!FollowUps, Screens!TimeEntries, Screens!SavedViews, Screens!Recipients, Screens!Plain,
               Screens!PartKey, Screens!Screen, Screens!Hook
  <1>3. Screens!Covers(followups, followups) /\ Screens!Covers(entries, entries) /\ Screens!Covers(views, views) /\
        Screens!Covers(recipients, recipients)
    BY KeyCovers
  <1> HIDE DEF followups, entries, views, recipients, areas
  <1>5. ASSUME NEW a \in areas, NEW h \in a.does, NEW r \in h.writes PROVE Home(r) = "work"
    BY <1>2, <1>5 DEF Home
  <1>6. ASSUME NEW b \in areas, NEW s \in b.shows, NEW r \in s.reads PROVE Home(r) = "work"
    BY <1>1, <1>6 DEF Home
  <1>7. ASSUME NEW a \in areas, NEW b \in areas, NEW h \in a.does, NEW s \in b.shows, h.writes \cap s.reads # {}
        PROVE  Kept(h, s)
    <2>1. Shows(s) /\ Does(h)
      BY <1>1, <1>2, <1>7
    <2>2. \E key \in h.names : Screens!Covers(key, s.key)
      BY <1>3, <1>7, <2>1
    <2>3. QED
      BY <2>2 DEF Kept, Screens!Names
  <1>8. Tidy(areas, "work")
    BY Zenon, <1>5, <1>6, <1>7 DEF Tidy
  <1>9. QED
    BY <1>8 DEF areas

Group(home) ==
    CASE home = "sla" -> {Screens!SlaPlans, Screens!EscalationRules}
      [] home = "staff" -> {Screens!StaffMembers, Screens!StaffGroups}
      [] home = "macro" -> {Screens!MacroCategories, Screens!Macros}
      [] home = "mail" -> {Screens!Mailboxes, Screens!Quarantine, Screens!Captured}
      [] home = "events" -> {Screens!WorkflowEvents}
      [] home = "ticket" -> {Screens!Tickets, Screens!TicketLinks, Screens!Watchers}
      [] home = "portal" -> {Screens!Portal}
      [] home = "kinds" -> {Screens!Departments, Screens!Statuses, Screens!Priorities, Screens!TicketTypes}
      [] home = "setup" -> {Screens!Workflows, Screens!CustomFields, Screens!Holidays}
      [] home = "work" -> {Screens!FollowUps, Screens!TimeEntries, Screens!SavedViews, Screens!Recipients}

\* Every mutation names what it changes, but for what is overlooked.
LEMMA HooksAreTidy ==
    \A h \in Screens!Hooks, s \in Screens!Screens : h.writes \cap s.reads # {} => Kept(h, s)
  <1> DEFINE homes == {"sla", "staff", "macro", "mail", "events", "ticket", "portal", "kinds", "setup", "work"}
  <1> SUFFICES ASSUME NEW h \in Screens!Hooks, NEW s \in Screens!Screens, h.writes \cap s.reads # {} PROVE Kept(h, s)
    OBVIOUS
  <1>1. \A a \in Screens!Areas : \E home \in homes : a \in Group(home)
    BY DEF Screens!Areas, Group
  <1>2. \A home \in homes : Tidy(Group(home), home)
    BY SlaTidy, StaffTidy, MacrosTidy, MailTidy, EventsTidy, TicketsTidy, PortalTidy, KindsTidy, SetupTidy, WorkTidy DEF Group
  <1> HIDE DEF homes
  <1>3. PICK a \in Screens!Areas : h \in a.does
    BY DEF Screens!Hooks
  <1>4. PICK b \in Screens!Areas : s \in b.shows
    BY DEF Screens!Screens
  <1>5. PICK r \in h.writes : r \in s.reads
    OBVIOUS
  <1>6. PICK x \in homes : a \in Group(x)
    BY <1>1
  <1>7. PICK y \in homes : b \in Group(y)
    BY <1>1
  <1>8. Home(r) = x
    BY <1>2, <1>3, <1>5, <1>6 DEF Tidy
  <1>9. Home(r) = y
    BY <1>2, <1>4, <1>5, <1>7 DEF Tidy
  <1>10. QED
    BY <1>2, <1>3, <1>4, <1>6, <1>7, <1>8, <1>9 DEF Tidy

ScreenPull ==
    [pc : {"none"}] \cup [pc : {"sent"}, passed : BOOLEAN] \cup [pc : {"read"}, passed : BOOLEAN, data : Nat]
ScreenCall ==
    [pc : {"idle"}] \cup [pc : {"sent"}, hook : Screens!Hooks] \cup [pc : {"done"}, hook : Screens!Hooks, at : Nat]

ScreenTypes ==
    /\ screen \in Screens!Screens /\ writes \in Nat /\ owed \in Nat
    /\ shown \in Nat \cup {None} /\ stale \in BOOLEAN /\ watched \in BOOLEAN
    /\ pull \in ScreenPull /\ call \in [Caller -> ScreenCall]

\* A mutation writes what the screen shows, and its write is one of those so far.
Concerns(x) ==
    /\ x.pc \in {"sent", "done"} => x.hook.writes \cap screen.reads # {}
    /\ x.pc = "done" => x.at <= writes

\* What counts as fresh, and what a fetch has read that no invalidation has passed, is
\* as new as what is owed.
ScreenInv ==
    /\ ScreenTypes
    /\ owed <= writes
    /\ \A c \in Caller : Concerns(call[c])
    /\ shown # None /\ ~stale => owed <= shown
    /\ pull.pc = "read" /\ ~pull.passed => owed <= pull.data

LEMMA ScreenInit == Screens!Init => ScreenInv
  <1> SUFFICES ASSUME Screens!Init PROVE ScreenInv
    OBVIOUS
  <1>1. call \in [Caller -> ScreenCall] /\ \A c \in Caller : Concerns(call[c])
    BY DEF Screens!Init, Screens!Idle, ScreenCall, Concerns
  <1>2. pull \in ScreenPull /\ pull.pc # "read"
    BY DEF Screens!Init, Screens!NoPull, ScreenPull
  <1>3. screen \in Screens!Screens /\ writes = 0 /\ owed = 0 /\ shown = None /\ stale = FALSE /\ watched = FALSE
    BY DEF Screens!Init
  <1>4. ScreenTypes /\ owed <= writes
    <2>1. writes \in Nat /\ owed \in Nat /\ owed <= writes
      BY <1>3
    <2>2. stale \in BOOLEAN /\ watched \in BOOLEAN /\ shown \in Nat \cup {None}
      BY <1>3
    <2>3. QED
      BY <1>1, <1>2, <1>3, <2>1, <2>2 DEF ScreenTypes
  <1>5. QED
    BY <1>1, <1>2, <1>3, <1>4 DEF ScreenInv

\* A call goes on, its fetches and data untouched.
LEMMA ScreenCallGoes ==
    ASSUME ScreenInv, NEW c \in Caller, NEW x \in ScreenCall, call' = [call EXCEPT ![c] = x],
           writes' \in Nat, writes <= writes', x.pc = "done" => x.at <= writes',
           x.pc \in {"sent", "done"} => x.hook.writes \cap screen.reads # {},
           UNCHANGED <<screen, shown, stale, watched, pull, owed>>
    PROVE  ScreenInv'
  <1>1. ScreenTypes
    BY DEF ScreenInv
  <1>2. call' \in [Caller -> ScreenCall] /\ call'[c] = x /\ \A d \in Caller : d # c => call'[d] = call[d]
    BY <1>1 DEF ScreenTypes
  <1>3. ScreenTypes'
    BY <1>1, <1>2 DEF ScreenTypes
  <1>4. ASSUME NEW d \in Caller PROVE Concerns(call[d])'
    <2>1. CASE d = c
      BY <1>2, <2>1 DEF Concerns
    <2>2. CASE d # c
      <3>1. Concerns(call[d]) /\ call[d] \in ScreenCall
        BY <1>1 DEF ScreenInv, ScreenTypes
      <3>2. call[d].pc = "done" => call[d].at \in Nat
        BY <3>1 DEF ScreenCall
      <3>3. QED
        BY <1>1, <1>2, <2>2, <3>1, <3>2 DEF Concerns, ScreenTypes
    <2>3. QED
      BY <2>1, <2>2
  <1>5. owed' <= writes'
    BY <1>1 DEF ScreenInv, ScreenTypes
  <1>6. QED
    BY <1>3, <1>4, <1>5 DEF ScreenInv

\* The rest of a step, when no call and no write is made.
LEMMA ScreenShows ==
    ASSUME ScreenInv, UNCHANGED <<screen, writes, call>>,
           shown' \in Nat \cup {None}, stale' \in BOOLEAN, watched' \in BOOLEAN, pull' \in ScreenPull,
           owed' \in {owed, 0},
           shown' # None /\ ~stale' => owed' <= shown',
           pull'.pc = "read" /\ ~pull'.passed => owed' <= pull'.data
    PROVE  ScreenInv'
  <1>1. ScreenTypes' /\ owed' <= writes'
    BY DEF ScreenInv, ScreenTypes
  <1>2. \A c \in Caller : Concerns(call[c])'
    BY DEF ScreenInv, Concerns
  <1>3. QED
    BY <1>1, <1>2 DEF ScreenInv

LEMMA ScreenPageStep ==
    ASSUME ScreenInv, Screens!Watch \/ Screens!Leave \/ Screens!Forget \/ Screens!Refresh \/ Screens!PullFails
    PROVE  ScreenInv'
  <1>0. ScreenTypes
    BY DEF ScreenInv
  <1>1. Screens!NoPull \in ScreenPull /\ Screens!NoPull.pc = "none"
    BY DEF Screens!NoPull, ScreenPull
  <1>2. Screens!Sent \in ScreenPull /\ Screens!Sent.pc = "sent"
    BY DEF Screens!Sent, ScreenPull
  <1>3. UNCHANGED <<screen, writes, call, owed>> /\ watched' \in BOOLEAN
    BY <1>0 DEF Screens!Watch, Screens!Leave, Screens!Forget, Screens!Refresh, Screens!PullFails, ScreenTypes
  <1>4. CASE Screens!Forget
    <2>1. shown' = None /\ stale' = FALSE /\ pull' = pull
      BY <1>4 DEF Screens!Forget
    <2>2. QED
      BY <1>0, <1>3, <2>1, ScreenShows DEF ScreenInv, ScreenTypes
  <1>5. CASE ~Screens!Forget
    <2>1. UNCHANGED <<shown, stale>>
      BY <1>5 DEF Screens!Watch, Screens!Leave, Screens!Refresh, Screens!PullFails
    <2>2. pull' \in {pull, Screens!NoPull, Screens!Sent}
      BY <1>5 DEF Screens!Watch, Screens!Leave, Screens!Refresh, Screens!PullFails
    <2>3. pull' \in ScreenPull /\ (pull'.pc = "read" => pull' = pull)
      BY <1>0, <1>1, <1>2, <2>2 DEF ScreenTypes
    <2>4. QED
      BY <1>0, <1>3, <2>1, <2>3, ScreenShows DEF ScreenInv, ScreenTypes
  <1>6. QED
    BY <1>4, <1>5

LEMMA ScreenPullStep ==
    ASSUME ScreenInv, Screens!PullReads \/ Screens!PullLands
    PROVE  ScreenInv'
  <1>0. ScreenTypes
    BY DEF ScreenInv
  <1>1. CASE Screens!PullReads
    <2>1. pull.pc = "sent" /\ pull.passed \in BOOLEAN
      BY <1>0, <1>1 DEF Screens!PullReads, ScreenTypes, ScreenPull
    <2>2. pull' = [pc |-> "read", passed |-> pull.passed, data |-> writes]
          /\ UNCHANGED <<screen, writes, shown, stale, watched, call, owed>>
      BY <1>1 DEF Screens!PullReads
    <2>3. pull' \in ScreenPull /\ pull'.data = writes
      BY <1>0, <2>1, <2>2 DEF ScreenPull, ScreenTypes
    <2>4. QED
      BY <1>0, <2>2, <2>3, ScreenShows DEF ScreenInv, ScreenTypes
  <1>2. CASE Screens!PullLands
    <2>1. pull.pc = "read" /\ pull.passed \in BOOLEAN /\ pull.data \in Nat
      BY <1>0, <1>2 DEF Screens!PullLands, ScreenTypes, ScreenPull
    <2>2. shown' = pull.data /\ stale' = FALSE /\ pull' = [pc |-> "none"]
          /\ owed' = (IF pull.passed THEN 0 ELSE owed) /\ UNCHANGED <<screen, writes, watched, call>>
      BY <1>2 DEF Screens!PullLands, Screens!NoPull
    <2>3. pull' \in ScreenPull /\ pull'.pc # "read"
      BY <2>2 DEF ScreenPull
    <2>4. owed' \in {owed, 0} /\ owed' <= shown'
      BY <1>0, <2>1, <2>2 DEF ScreenInv, ScreenTypes
    <2>5. QED
      BY <1>0, <2>1, <2>2, <2>3, <2>4, ScreenShows DEF ScreenTypes
  <1>3. QED
    BY <1>1, <1>2

LEMMA ScreenAnswer ==
    ASSUME ScreenInv, NEW c \in Caller, Screens!Answer(c)
    PROVE  ScreenInv'
  <1> DEFINE h == call[c].hook
  <1>0. ScreenTypes /\ call[c] \in ScreenCall
    BY DEF ScreenInv, ScreenTypes
  <1>1. call[c].pc = "done" /\ h \in Screens!Hooks /\ call[c].at \in Nat
    BY <1>0 DEF Screens!Answer, ScreenCall
  <1>2. Kept(h, screen) /\ call[c].at <= writes
    BY <1>0, <1>1, HooksAreTidy DEF ScreenInv, ScreenTypes, Concerns
  <1>3. /\ call' = [call EXCEPT ![c] = Screens!Idle] /\ UNCHANGED <<screen, writes, shown, watched>>
        /\ owed' = IF <<h.name, screen.key>> \in Screens!Overlooked \/ call[c].at < owed THEN owed ELSE call[c].at
        /\ IF Screens!Names(h, screen.key) THEN Screens!Invalidate ELSE UNCHANGED <<stale, pull>>
    BY DEF Screens!Answer, Screens!Goes
  <1>4. Screens!Idle \in ScreenCall /\ Concerns(Screens!Idle)'
    BY DEF Screens!Idle, ScreenCall, Concerns
  <1>5. owed' \in Nat /\ owed' <= writes' /\ (owed' # owed => Screens!Names(h, screen.key))
    BY <1>0, <1>1, <1>2, <1>3 DEF Kept, ScreenInv, ScreenTypes
  <1>6. call' \in [Caller -> ScreenCall] /\ \A d \in Caller : Concerns(call[d])'
    <2>1. call'[c] = Screens!Idle /\ \A d \in Caller : d # c => call'[d] = call[d]
      BY <1>0, <1>3 DEF ScreenTypes
    <2>2. call' \in [Caller -> ScreenCall]
      BY <1>0, <1>3, <1>4 DEF ScreenTypes
    <2>3. QED
      BY <1>3, <1>4, <2>1, <2>2 DEF ScreenInv, Concerns
  <1>7. CASE Screens!Names(h, screen.key)
    <2>1. /\ stale' = TRUE
          /\ \/ pull' = Screens!Sent \/ pull' = [pull EXCEPT !.passed = TRUE]
             \/ pull' = pull /\ pull = Screens!NoPull
      BY <1>3, <1>7 DEF Screens!Invalidate
    <2>2. pull' \in ScreenPull /\ (pull'.pc = "read" => pull'.passed)
      <3>1. CASE pull' = Screens!Sent
        BY <3>1 DEF Screens!Sent, ScreenPull
      <3>2. CASE pull' = pull /\ pull = Screens!NoPull
        BY <1>0, <3>2 DEF Screens!NoPull, ScreenTypes, ScreenPull
      <3>3. CASE pull' = [pull EXCEPT !.passed = TRUE]
        BY <1>0, <3>3 DEF ScreenTypes, ScreenPull
      <3>4. QED
        BY <2>1, <3>1, <3>2, <3>3
    <2>3. QED
      BY <1>0, <1>3, <1>5, <1>6, <2>1, <2>2 DEF ScreenInv, ScreenTypes
  <1>8. CASE ~Screens!Names(h, screen.key)
    <2>1. UNCHANGED <<stale, pull, owed>>
      BY <1>3, <1>5, <1>8
    <2>2. QED
      BY <1>0, <1>3, <1>5, <1>6, <2>1 DEF ScreenInv, ScreenTypes
  <1>9. QED
    BY <1>7, <1>8

LEMMA ScreenCallStep ==
    ASSUME ScreenInv, NEW c \in Caller, Screens!Mutate(c) \/ Screens!Write(c) \/ Screens!Fail(c)
    PROVE  ScreenInv'
  <1>0. ScreenTypes /\ call[c] \in ScreenCall /\ Concerns(call[c])
    BY DEF ScreenInv, ScreenTypes
  <1>1. CASE Screens!Mutate(c)
    <2>1. PICK h \in Screens!Hooks :
              h.writes \cap screen.reads # {} /\ call' = [call EXCEPT ![c] = [pc |-> "sent", hook |-> h]]
      BY <1>1 DEF Screens!Mutate, Screens!Goes
    <2>2. UNCHANGED <<screen, writes, shown, stale, watched, pull, owed>>
      BY <1>1 DEF Screens!Mutate
    <2> DEFINE x == [pc |-> "sent", hook |-> h]
    <2>3. x \in ScreenCall /\ x.pc = "sent" /\ x.hook = h
      BY DEF ScreenCall
    <2>4. call' = [call EXCEPT ![c] = x]
      BY <2>1
    <2> HIDE DEF x
    <2>5. writes' \in Nat /\ writes <= writes'
      BY <1>0, <2>2 DEF ScreenTypes
    <2>6. QED
      BY <2>1, <2>2, <2>3, <2>4, <2>5, ScreenCallGoes
  <1>2. CASE Screens!Write(c)
    <2>1. call[c].pc = "sent" /\ call[c].hook \in Screens!Hooks
      BY <1>0, <1>2 DEF Screens!Write, ScreenCall
    <2> DEFINE x == [pc |-> "done", hook |-> call[c].hook, at |-> writes + 1]
    <2>2. call' = [call EXCEPT ![c] = x] /\ writes' = writes + 1 /\ UNCHANGED <<screen, shown, stale, watched, pull, owed>>
      BY <1>2 DEF Screens!Write, Screens!Goes
    <2>3. writes \in Nat /\ writes + 1 \in Nat
      BY <1>0 DEF ScreenTypes
    <2>4. x \in ScreenCall /\ x.pc = "done" /\ x.hook = call[c].hook /\ x.at = writes + 1
      BY <2>1, <2>3 DEF ScreenCall
    <2> HIDE DEF x
    <2>5. call[c].hook.writes \cap screen.reads # {} /\ writes <= writes' /\ x.at <= writes'
      BY <1>0, <2>1, <2>2, <2>3, <2>4 DEF Concerns
    <2>6. QED
      BY <2>2, <2>3, <2>4, <2>5, ScreenCallGoes
  <1>3. CASE Screens!Fail(c)
    <2>1. call' = [call EXCEPT ![c] = Screens!Idle] /\ UNCHANGED <<screen, writes, shown, stale, watched, pull, owed>>
      BY <1>3 DEF Screens!Fail, Screens!Goes
    <2>2. Screens!Idle \in ScreenCall /\ Screens!Idle.pc = "idle"
      BY DEF Screens!Idle, ScreenCall
    <2>3. writes' \in Nat /\ writes <= writes'
      BY <1>0, <2>1 DEF ScreenTypes
    <2>4. QED
      BY <2>1, <2>2, <2>3, ScreenCallGoes
  <1>4. QED
    BY <1>1, <1>2, <1>3

LEMMA ScreenElsewhere == ASSUME ScreenInv, Screens!Elsewhere PROVE ScreenInv'
  <1>1. ScreenTypes /\ writes' = writes + 1 /\ UNCHANGED <<screen, shown, stale, watched, pull, call, owed>>
    BY DEF ScreenInv, Screens!Elsewhere
  <1>2. ASSUME NEW c \in Caller PROVE Concerns(call[c])'
    <2>1. Concerns(call[c]) /\ call[c] \in ScreenCall
      BY <1>1 DEF ScreenInv, ScreenTypes
    <2>2. call[c].pc = "done" => call[c].at \in Nat
      BY <2>1 DEF ScreenCall
    <2>3. QED
      BY <1>1, <2>1, <2>2 DEF Concerns, ScreenTypes
  <1>3. QED
    BY <1>1, <1>2 DEF ScreenInv, ScreenTypes

LEMMA ScreenStep == ASSUME ScreenInv, Screens!Next PROVE ScreenInv'
  BY ScreenPageStep, ScreenPullStep, ScreenAnswer, ScreenCallStep, ScreenElsewhere DEF Screens!Next

LEMMA ScreenPromise == ScreenInv => Screens!ScreensKeepUp
  BY DEF ScreenInv, ScreenTypes, Screens!ScreensKeepUp

(***************************************************************************)
(* The forms.  The promises of a form depend on its ways; what they rest   *)
(* on is stated of the requests that are under way and of the dialog.      *)
(***************************************************************************)

\* A form keeps what was typed only where it is never opened on a row.
\* One that is held or shut is guarded, and every way into it is.
SoundWays(does, ways) ==
    /\ "held" \in ways \/ "shut" \in ways =>
         /\ "guarded" \in ways /\ "inline" \notin ways
         /\ "held" \notin ways => "toggle" \notin does /\ "delete" \notin does
    /\ "frozen" \in ways => "held" \in ways /\ "shut" \in ways

SoundForm(f) ==
    /\ f.sends \subseteq Forms!Part /\ f.toggles \subseteq Forms!Part
    /\ f.keeps # {} => f.loads = {} /\ "edit" \notin f.does
    /\ SoundWays(f.does, f.ways)

FormRow == [there : BOOLEAN, at : Nat, val : [Forms!Part -> Nat]]
FormDialog ==
    [open : BOOLEAN, on : Row \cup {None}, seen : FormRow \cup {None}, val : [Forms!Part -> Nat],
     touched : SUBSET Forms!Part, id : Nat]
FormRequest ==
    [pc : {"sent", "done"}, op : {"create", "edit", "toggle", "delete"}, on : Row \cup {None},
     seen : FormRow \cup {None}, val : [Forms!Part -> Nat], parts : SUBSET Forms!Part,
     touched : SUBSET Forms!Part, version : Nat, id : Nat]
FormCall == [pc : {"idle", "over"}] \cup FormRequest

FormTypes ==
    /\ SoundForm(form)
    /\ row \in [Row -> FormRow] /\ list \in [Row -> FormRow]
    /\ dialog \in FormDialog
    /\ request \in [Request -> FormCall]
    /\ latest \in [Forms!Hook -> Request \cup {None}]
    /\ count \in [openings : Nat, typed : Nat, writes : Nat]
    /\ made \subseteq Nat /\ blind \subseteq Nat

Flying(c) == request[c].pc \in {"sent", "done"}

\* What a dialog, or a request of it, has of a part that was not typed.
AsShown(x) ==
    /\ x.on # None => x.seen \in FormRow
    /\ \A p \in form.sends \ x.touched :
         x.val[p] = IF x.on = None \/ p \notin form.loads \/ x.seen.val[p] = Forms!Odd THEN Forms!Blank
                    ELSE x.seen.val[p]

SavedAsShown(c) ==
    Flying(c) => /\ request[c].op \in {"create", "edit"} => AsShown(request[c])
                 /\ request[c].on # None => request[c].seen \in FormRow /\ request[c].version = request[c].seen.at
                 /\ request[c].op \in {"toggle", "delete"} => request[c].op \in form.does

\* The requests of one form: one that makes a row at a time, or one at all.
Makes(c) == Flying(c) /\ request[c].op = "create"
OneAtATime(c) ==
    /\ Forms!Is("guarded") /\ Makes(c) => latest["create"] = c
    /\ (Forms!Is("held") \/ Forms!Is("shut")) /\ Flying(c) => latest[Forms!HookOf(request[c].op)] = c

Alone(c) == (Forms!Is("held") \/ Forms!Is("shut")) /\ Flying(c) => \A d \in Request : Flying(d) => d = c

\* Openings: those so far, and those that have made a row.
Numbered ==
    /\ dialog.open => dialog.id <= count.openings
    /\ \A i \in made : i <= count.openings
    /\ \A c \in Request : Flying(c) => request[c].id <= count.openings

MadeOnce ==
    Forms!Is("guarded") =>
        /\ \A c \in Request : request[c].pc = "sent" /\ request[c].op = "create" => request[c].id \notin made \ blind
        /\ dialog.open /\ dialog.id \in made \ blind =>
             \E c \in Request : request[c].pc = "done" /\ request[c].op = "create" /\ request[c].id = dialog.id

\* The dialog that a request of a held or shut form will close is the one it came from.
SameDialog(c) ==
    /\ (Forms!Is("held") \/ Forms!Is("shut")) /\ Flying(c) /\ dialog.open =>
         request[c].op \in {"create", "edit"} /\ dialog.id = request[c].id
    /\ Forms!Is("shut") /\ Flying(c) /\ request[c].op \in {"create", "edit"} => dialog.open
    /\ Forms!Is("frozen") /\ Flying(c) /\ dialog.open => dialog.val = request[c].val

FormInv ==
    /\ FormTypes
    /\ AsShown(dialog)
    /\ \A c \in Request : SavedAsShown(c) /\ OneAtATime(c) /\ Alone(c) /\ SameDialog(c)
    /\ Numbered /\ MadeOnce
    /\ harm = {}

LEMMA DialogIsSound ==
    ASSUME NEW does, NEW sends \in SUBSET Forms!Part, NEW ways, SoundWays(does, ways)
    PROVE  SoundForm(Forms!Dialog(does, sends, ways))
  BY DEF SoundForm, Forms!Dialog

\* What a form is made of says that it is sound.
LEMMA PanelIsSound ==
    ASSUME NEW sends \in SUBSET Forms!Part, NEW ways, SoundWays({"create"}, ways)
    PROVE  SoundForm(Forms!Panel(sends, ways))
  BY DEF SoundForm, Forms!Dialog, Forms!Panel

LEMMA ActIsSound ==
    ASSUME NEW ways, SoundWays({"edit"}, ways)
    PROVE  SoundForm(Forms!Act(ways))
  BY DEF SoundForm, Forms!Dialog, Forms!Act, Forms!Part

LEMMA FormsAreSound == \A f \in Forms!Forms : SoundForm(f)
  <1>1. {"fields"} \in SUBSET Forms!Part /\ {"beside"} \in SUBSET Forms!Part /\ {} \in SUBSET Forms!Part
        /\ Forms!Part \in SUBSET Forms!Part /\ {"fields"} \cup {"beside"} = Forms!Part
    BY DEF Forms!Part
  <1>2. \A does : SoundWays(does, {"guarded"}) /\ SoundWays(does, {"guarded", "shut", "frozen", "versioned"} \cup {"held"})
    BY DEF SoundWays
  <1>3. SoundWays({"create"}, {"guarded", "inline"}) /\ SoundWays({"create"}, {"guarded", "inline", "latest"})
        /\ SoundWays({"create"}, {"inline", "latest"}) /\ SoundWays({"create"}, {"guarded", "latest"})
        /\ SoundWays({"create"}, {"latest"})
    BY DEF SoundWays
  <1>4. SoundWays({"edit"}, {"guarded", "held", "versioned", "latest"}) /\ SoundWays({"edit"}, {"guarded", "shut"})
        /\ SoundWays({"edit"}, {"guarded", "held", "shut", "versioned", "latest"})
    BY DEF SoundWays
  <1> DEFINE again == {"guarded"} \cup {"repeats"}
  <1>13. \A does : SoundWays(does, again) /\ SoundWays(does, {"mounted"})
    BY DEF SoundWays
  <1> HIDE DEF again
  <1>5. \A does : /\ SoundForm(Forms!Dialog(does, {"fields"}, {"guarded"}))
                  /\ SoundForm(Forms!Dialog(does, {"fields"}, again))
                  /\ SoundForm(Forms!Dialog(does, {"fields"}, {"mounted"}))
                  /\ SoundForm(Forms!Dialog(does, {"beside"}, {"guarded"}))
                  /\ SoundForm(Forms!Dialog(does, Forms!Part, {"guarded"}))
                  /\ SoundForm(Forms!Dialog(does, {"fields"} \cup {"beside"}, {"guarded"}))
    BY <1>1, <1>2, <1>13, DialogIsSound
  <1>6. /\ SoundForm(Forms!Plans) /\ SoundForm(Forms!Rules) /\ SoundForm(Forms!Holidays)
        /\ SoundForm(Forms!RenameCategory) /\ SoundForm(Forms!Priorities) /\ SoundForm(Forms!TicketTypes)
        /\ SoundForm(Forms!Departments) /\ SoundForm(Forms!NewGroup) /\ SoundForm(Forms!RenameGroup)
        /\ SoundForm(Forms!GroupRights) /\ SoundForm(Forms!StaffMembers) /\ SoundForm(Forms!FieldGroups)
    BY <1>1, <1>5
       DEF Forms!Plans, Forms!Rules, Forms!Holidays, Forms!RenameCategory, Forms!Priorities, Forms!TicketTypes,
           Forms!Departments, Forms!NewGroup, Forms!RenameGroup, Forms!GroupRights, Forms!StaffMembers,
           Forms!FieldGroups, Forms!PlanDialog, Forms!RuleDialog, Forms!HolidayDialog, Forms!PriorityDialog,
           Forms!TicketTypeDialog, Forms!DepartmentDialog, Forms!GroupDialog, Forms!StaffDialog,
           Forms!GuardedDialog, Forms!DeletesAgain, Forms!Fields, Forms!ActionsBuilder, again
  <1>7. /\ SoundForm(Forms!Schedules) /\ SoundForm(Forms!Workflows) /\ SoundForm(Forms!Macros) /\ SoundForm(Forms!Statuses)
    BY <1>1, <1>2, <1>13
       DEF SoundForm, Forms!Dialog, Forms!Schedules, Forms!Workflows, Forms!Macros, Forms!Statuses,
           Forms!ScheduleDialog, Forms!WorkflowDialog, Forms!MacroDialog, Forms!StatusDialog, Forms!GuardedDialog,
           Forms!DeletesAgain, again, Forms!Fields, Forms!WorkHours, Forms!WorkHoursEditor, Forms!ActionPickers, Forms!WorkflowList
  <1>8. SoundForm(Forms!Queues) /\ SoundForm(Forms!RetryMail)
    BY <1>1, <1>2, <1>4, DialogIsSound
       DEF Forms!Queues, Forms!RetryMail, Forms!QueueDialog, Forms!QueueList, Forms!Fields
  <1>9. SoundForm(Forms!Reconcile) /\ SoundForm(Forms!Replay) /\ SoundForm(Forms!Promotion) /\ SoundForm(Forms!WorkflowReplay)
    BY <1>4, ActIsSound
       DEF Forms!Reconcile, Forms!Replay, Forms!Promotion, Forms!WorkflowReplay, Forms!ReconcileDialog,
           Forms!ReplayDialog, Forms!PromotionDialog, Forms!WorkflowReplayDialog
  <1>10. /\ SoundForm(Forms!NewCategory) /\ SoundForm(Forms!Reply) /\ SoundForm(Forms!Note) /\ SoundForm(Forms!FollowUps)
         /\ SoundForm(Forms!TimeEntries) /\ SoundForm(Forms!Links) /\ SoundForm(Forms!SupplierTicket)
         /\ SoundForm(Forms!Merge) /\ SoundForm(Forms!Recipients) /\ SoundForm(Forms!Watchers)
         /\ SoundForm(Forms!ClientReply)
    BY <1>1, <1>3, PanelIsSound
       DEF Forms!NewCategory, Forms!Reply, Forms!Note, Forms!FollowUps, Forms!TimeEntries, Forms!Links,
           Forms!SupplierTicket, Forms!Merge, Forms!Recipients, Forms!Watchers, Forms!ClientReply, Forms!Fields
  <1>11. SoundForm(Forms!Split) /\ SoundForm(Forms!SavedViews)
    BY <1>1, <1>3 DEF SoundForm, Forms!Dialog, Forms!Panel, Forms!Split, Forms!SavedViews, Forms!Fields
  <1>12. QED
    BY <1>6, <1>7, <1>8, <1>9, <1>10, <1>11 DEF Forms!Forms

LEMMA FormInit == ASSUME FieldsOnly = FALSE, Forms!Init PROVE FormInv
  <1>1. form \in Forms!Forms /\ SoundForm(form)
    BY FormsAreSound DEF Forms!Init
  <1>2. request = [c \in Request |-> [pc |-> "idle"]] /\ dialog = Forms!Cleared(Forms!Is("inline"), 0)
        /\ latest = [h \in Forms!Hook |-> None] /\ count = [openings |-> 0, typed |-> 0, writes |-> 0]
        /\ made = {} /\ blind = {} /\ harm = {} /\ list = row
    BY DEF Forms!Init, Forms!Idle
  <1>3. row \in [Row -> FormRow]
    <2>1. PICK odd \in SUBSET form.odd :
              row = [r \in Row |-> [there |-> TRUE, at |-> 0,
                                    val |-> [p \in Forms!Part |-> IF p \in odd THEN Forms!Odd ELSE r]]]
      BY DEF Forms!Init
    <2>2. ASSUME NEW r \in Row
          PROVE  [there |-> TRUE, at |-> 0, val |-> [p \in Forms!Part |-> IF p \in odd THEN Forms!Odd ELSE r]] \in FormRow
      <3>1. [p \in Forms!Part |-> IF p \in odd THEN Forms!Odd ELSE r] \in [Forms!Part -> Nat]
        BY BrowserAssumption DEF Forms!Odd
      <3>2. QED
        BY <3>1 DEF FormRow
    <2>3. QED
      BY <2>1, <2>2
  <1>4. Forms!Nothing \in [Forms!Part -> Nat] /\ \A p \in Forms!Part : Forms!Nothing[p] = Forms!Blank
    BY DEF Forms!Nothing, Forms!Blank
  <1>5. dialog \in FormDialog /\ dialog.on = None /\ dialog.id = 0 /\ dialog.val = Forms!Nothing
    BY <1>2, <1>4 DEF Forms!Cleared, FormDialog, Forms!Is
  <1>6. request \in [Request -> FormCall] /\ \A c \in Request : ~Flying(c)
    BY <1>2 DEF FormCall, Flying
  <1>7. count \in [openings : Nat, typed : Nat, writes : Nat] /\ count.openings = 0
    BY <1>2
  <1>8. FormTypes
    BY <1>1, <1>2, <1>3, <1>5, <1>6, <1>7 DEF FormTypes
  <1>9. AsShown(dialog)
    BY <1>1, <1>4, <1>5 DEF AsShown, SoundForm
  <1>10. Numbered /\ MadeOnce
    <2>1. Numbered
      BY <1>2, <1>5, <1>6, <1>7 DEF Numbered
    <2>2. MadeOnce
      BY <1>2, <1>6 DEF MadeOnce, Flying
    <2>3. QED
      BY <2>1, <2>2
  <1>11. QED
    BY <1>2, <1>6, <1>8, <1>9, <1>10 DEF FormInv, SavedAsShown, OneAtATime, Makes, Alone, SameDialog

\* Of what is not pending, nothing is under way.
LEMMA NothingPends ==
    ASSUME FormInv, ~Forms!Pending
    PROVE  /\ Forms!Is("guarded") => \A c \in Request : ~Makes(c)
           /\ Forms!Is("held") \/ Forms!Is("shut") => \A c \in Request : ~Flying(c)
  <1>0. SoundWays(form.does, form.ways)
    BY DEF FormInv, FormTypes, SoundForm
  <1>1. \A h \in Forms!Hook : latest[h] # None => h = "delete" /\ ~Forms!Is("held")
    BY DEF Forms!Pending
  <1>2. ASSUME NEW c \in Request, Forms!Is("guarded"), Makes(c) PROVE FALSE
    <2>1. latest["create"] = c /\ c # None
      BY <1>2, BrowserAssumption DEF FormInv, OneAtATime
    <2>2. QED
      BY <1>1, <2>1 DEF Forms!Hook
  <1>3. ASSUME NEW c \in Request, Forms!Is("held") \/ Forms!Is("shut"), Flying(c) PROVE FALSE
    <2>1. latest[Forms!HookOf(request[c].op)] = c /\ c # None
      BY <1>3, BrowserAssumption DEF FormInv, OneAtATime
    <2>2. Forms!HookOf(request[c].op) \in Forms!Hook
      BY DEF Forms!HookOf, Forms!Hook
    <2>3. Forms!HookOf(request[c].op) = "delete" /\ ~Forms!Is("held")
      BY <1>1, <2>1, <2>2
    <2>4. request[c].op = "delete"
      BY <2>3 DEF Forms!HookOf
    <2>5. "delete" \in form.does
      BY <1>3, <2>4 DEF FormInv, SavedAsShown
    <2>6. QED
      BY <1>0, <1>3, <2>3, <2>5 DEF SoundWays, Forms!Is
  <1>4. QED
    BY <1>2, <1>3

\* The dialog changes, and no request.
LEMMA DialogMoves ==
    ASSUME FormInv, UNCHANGED <<form, row, list, request, latest, made, blind, harm>>,
           dialog' \in FormDialog, count' \in [openings : Nat, typed : Nat, writes : Nat],
           count.openings <= count'.openings, AsShown(dialog)',
           dialog'.open => dialog'.id <= count'.openings,
           dialog'.open => (dialog.open /\ dialog'.id = dialog.id) \/ dialog'.id > count.openings,
           \A c \in Request : SameDialog(c)'
    PROVE  FormInv'
  <1>0. FormTypes /\ Numbered /\ MadeOnce
    BY DEF FormInv
  <1>1. FormTypes'
    BY <1>0 DEF FormTypes
  <1>2. \A c \in Request : SavedAsShown(c)' /\ OneAtATime(c)' /\ Alone(c)'
    BY DEF FormInv, SavedAsShown, AsShown, OneAtATime, Makes, Alone, Flying, Forms!Is
  <1>3. Numbered'
    <2>1. \A i \in made : i \in Nat
      BY <1>0 DEF FormTypes
    <2>2. \A c \in Request : Flying(c) => request[c].id \in Nat
      BY <1>0 DEF FormTypes, FormCall, FormRequest, Flying
    <2>3. count.openings \in Nat /\ count'.openings \in Nat
      BY <1>0 DEF FormTypes
    <2>4. QED
      BY <1>0, <2>1, <2>2, <2>3 DEF Numbered, Flying
  <1>4. MadeOnce'
    <2>1. ASSUME dialog'.open, dialog'.id \in made' PROVE dialog.open /\ dialog'.id = dialog.id
      <3>1. dialog'.id \in made /\ dialog'.id \in Nat /\ count.openings \in Nat
        BY <1>0, <2>1 DEF FormTypes
      <3>2. dialog'.id <= count.openings
        BY <1>0, <3>1 DEF Numbered
      <3>3. QED
        BY <2>1, <3>1, <3>2
    <2>2. QED
      BY <1>0, <2>1 DEF MadeOnce, Forms!Is
  <1>5. QED
    BY <1>1, <1>2, <1>3, <1>4 DEF FormInv

LEMMA OpenStep == ASSUME FormInv, NEW r \in Row \cup {None}, Forms!Open(r) PROVE FormInv'
  <1>0. FormTypes /\ SoundForm(form) /\ dialog \in FormDialog /\ AsShown(dialog) /\ count \in [openings : Nat, typed : Nat, writes : Nat]
    BY DEF FormInv, FormTypes
  <1> DEFINE val == [p \in Forms!Part |-> Forms!Value(p, r)]
             seen == IF r = None THEN None ELSE list[r]
             touched == IF "edit" \in form.does THEN {} ELSE dialog.touched \cap form.keeps
             id == count.openings + 1
  <1>1. /\ ~dialog.open /\ (Forms!Is("held") => ~Forms!Pending)
        /\ dialog' = [open |-> TRUE, on |-> r, seen |-> seen, val |-> val, touched |-> touched, id |-> id]
        /\ count' = [count EXCEPT !.openings = id]
        /\ UNCHANGED <<form, row, list, request, latest, made, blind, harm>>
    BY DEF Forms!Open
  <1>2. id \in Nat /\ id > count.openings /\ count.openings <= id
    BY <1>0
  <1>3. seen \in FormRow \cup {None} /\ (r # None => seen = list[r] /\ list[r] \in FormRow)
    BY <1>0 DEF FormTypes
  <1>4. val \in [Forms!Part -> Nat]
    <2>1. \A p \in Forms!Part : dialog.val[p] \in Nat
      BY <1>0 DEF FormDialog
    <2>2. ASSUME NEW p \in Forms!Part, r # None PROVE list[r].val[p] \in Nat
      BY <1>3, <2>2 DEF FormRow
    <2>3. ASSUME NEW p \in Forms!Part PROVE Forms!Value(p, r) \in Nat
      BY <2>1, <2>2 DEF Forms!Value, Forms!Loaded, Forms!Blank
    <2>4. QED
      BY <2>3
  <1>5. touched \in SUBSET Forms!Part
    BY <1>0 DEF FormDialog
  <1>6. ASSUME NEW p \in form.sends \ touched
        PROVE  val[p] = IF r = None \/ p \notin form.loads \/ seen.val[p] = Forms!Odd THEN Forms!Blank ELSE seen.val[p]
    <2>0. p \in Forms!Part /\ val[p] = Forms!Value(p, r)
      BY <1>0 DEF SoundForm
    <2>1. CASE p \in form.keeps
      <3>1. form.loads = {} /\ "edit" \notin form.does
        BY <1>0, <2>1 DEF SoundForm
      <3>2. p \notin dialog.touched
        BY <1>6, <2>1, <3>1
      <3>3. dialog.val[p] = Forms!Blank
        BY <1>0, <3>1, <3>2 DEF AsShown
      <3>4. QED
        BY <2>0, <2>1, <3>1, <3>3 DEF Forms!Value
    <2>2. CASE p \notin form.keeps
      BY <1>3, <2>0, <2>2 DEF Forms!Value, Forms!Loaded
    <2>3. QED
      BY <2>1, <2>2
  <1> HIDE DEF val, seen, touched, id
  <1>7. dialog' \in FormDialog
    BY <1>1, <1>2, <1>3, <1>4, <1>5 DEF FormDialog
  <1>8. AsShown(dialog)'
    <2>1. dialog'.on = r /\ dialog'.seen = seen /\ dialog'.val = val /\ dialog'.touched = touched
      BY <1>1
    <2>2. QED
      BY <1>1, <1>3, <1>6, <2>1 DEF AsShown
  <1>9. count' \in [openings : Nat, typed : Nat, writes : Nat] /\ count'.openings = id /\ dialog'.id = id
    BY <1>0, <1>1, <1>2
  <1>10. ASSUME NEW c \in Request PROVE SameDialog(c)'
    <2>1. ASSUME Forms!Is("held") \/ Forms!Is("shut"), Flying(c) PROVE Forms!Is("shut") /\ ~Forms!Is("held")
      BY <1>1, <2>1, NothingPends
    <2>2. ASSUME Forms!Is("shut"), ~Forms!Is("held"), Flying(c) PROVE FALSE
      <3>1. request[c].op \in {"create", "edit"}
        <4>1. request[c].op \in {"create", "edit", "toggle", "delete"}
          BY <1>0, <2>2 DEF FormTypes, FormCall, FormRequest, Flying
        <4>2. request[c].op \in {"toggle", "delete"} => request[c].op \in form.does
          BY <2>2 DEF FormInv, SavedAsShown
        <4>3. QED
          BY <1>0, <2>2, <4>1, <4>2 DEF SoundForm, SoundWays, Forms!Is
      <3>2. QED
        BY <1>1, <2>2, <3>1 DEF FormInv, SameDialog
    <2>3. Forms!Is("frozen") => Forms!Is("held")
      BY <1>0 DEF SoundForm, SoundWays, Forms!Is
    <2>4. ~(Flying(c) /\ (Forms!Is("held") \/ Forms!Is("shut")))
      BY <2>1, <2>2
    <2>5. QED
      BY <1>1, <2>3, <2>4 DEF SameDialog, Flying, Forms!Is
  <1>11. QED
    BY <1>1, <1>2, <1>7, <1>8, <1>9, <1>10, DialogMoves

LEMMA TypingStep == ASSUME FormInv, NEW p \in Forms!Part, Forms!Type(p) PROVE FormInv'
  <1>0. /\ FormTypes /\ SoundForm(form) /\ dialog \in FormDialog /\ AsShown(dialog) /\ Numbered
        /\ count \in [openings : Nat, typed : Nat, writes : Nat]
    BY DEF FormInv, FormTypes
  <1> DEFINE typed == 10 + count.typed
             val == [dialog.val EXCEPT ![p] = typed]
             touched == dialog.touched \cup {p}
             n == count.typed + 1
  <1>1. /\ dialog.open /\ (Forms!Is("frozen") => ~Forms!Pending)
        /\ dialog' = [dialog EXCEPT !.val = val, !.touched = touched]
        /\ count' = [count EXCEPT !.typed = n]
        /\ UNCHANGED <<form, row, list, request, latest, made, blind, harm>>
    BY <1>0 DEF Forms!Type, Forms!Typed, FormDialog
  <1>2. typed \in Nat /\ n \in Nat
    BY <1>0
  <1> HIDE DEF typed, n
  <1>3. val \in [Forms!Part -> Nat] /\ touched \in SUBSET Forms!Part /\ \A o \in Forms!Part \ {p} : val[o] = dialog.val[o]
    BY <1>0, <1>2 DEF FormDialog
  <1> HIDE DEF val
  <1>4. AsShown(dialog)'
    <2>1. /\ dialog'.on = dialog.on /\ dialog'.seen = dialog.seen /\ dialog'.val = val
          /\ dialog'.touched = dialog.touched \cup {p}
      BY <1>0, <1>1 DEF FormDialog
    <2>2. \A o \in form.sends \ dialog'.touched : o \in Forms!Part \ {p} /\ o \in form.sends \ dialog.touched
      BY <1>0, <2>1 DEF SoundForm
    <2>3. QED
      BY <1>0, <1>1, <1>3, <2>1, <2>2 DEF AsShown
  <1> HIDE DEF touched
  <1>5. dialog' \in FormDialog /\ dialog'.open = dialog.open /\ dialog'.id = dialog.id
    BY <1>0, <1>1, <1>3 DEF FormDialog
  <1>6. count' \in [openings : Nat, typed : Nat, writes : Nat] /\ count'.openings = count.openings
    BY <1>0, <1>1, <1>2
  <1>7. ASSUME NEW c \in Request PROVE SameDialog(c)'
    <2>1. ASSUME Forms!Is("frozen") PROVE ~Flying(c)
      <3>1. Forms!Is("held")
        BY <1>0, <2>1 DEF SoundForm, SoundWays, Forms!Is
      <3>2. QED
        BY <1>1, <2>1, <3>1, NothingPends
    <2>2. SameDialog(c)
      BY DEF FormInv
    <2>3. QED
      BY <1>1, <1>5, <2>1, <2>2 DEF SameDialog, Flying, Forms!Is
  <1>8. dialog.open => dialog.id <= count.openings
    BY <1>0 DEF Numbered
  <1>9. count.openings <= count'.openings
    BY <1>0, <1>6
  <1>10. QED
    BY <1>1, <1>4, <1>5, <1>6, <1>7, <1>8, <1>9, DialogMoves

LEMMA CloseStep == ASSUME FormInv, Forms!Close PROVE FormInv'
  <1>0. /\ FormTypes /\ SoundForm(form) /\ dialog \in FormDialog /\ AsShown(dialog)
        /\ count \in [openings : Nat, typed : Nat, writes : Nat]
    BY DEF FormInv, FormTypes
  <1>1. /\ dialog' = [dialog EXCEPT !.open = FALSE] /\ (Forms!Is("shut") => ~Forms!Pending)
        /\ UNCHANGED <<form, row, list, request, latest, made, blind, harm, count>>
    BY DEF Forms!Close
  <1>2. /\ dialog' \in FormDialog /\ ~dialog'.open /\ dialog'.on = dialog.on /\ dialog'.seen = dialog.seen
        /\ dialog'.val = dialog.val /\ dialog'.touched = dialog.touched
    BY <1>0, <1>1 DEF FormDialog
  <1>3. AsShown(dialog)'
    BY <1>0, <1>1, <1>2 DEF AsShown
  <1>4. ASSUME NEW c \in Request PROVE SameDialog(c)'
    <2>1. Forms!Is("shut") => ~Flying(c)
      BY <1>1, NothingPends
    <2>2. QED
      BY <1>1, <1>2, <2>1 DEF SameDialog, Flying, Forms!Is
  <1>5. count.openings <= count'.openings
    BY <1>0, <1>1
  <1>6. QED
    BY <1>0, <1>1, <1>2, <1>3, <1>4, <1>5, DialogMoves

\* A request is sent.
LEMMA RequestSent ==
    ASSUME FormInv, NEW c \in Request, NEW x \in FormRequest, Forms!Sends(c, x), x.pc = "sent",
           x.op \in {"create", "edit"} => AsShown(x) /\ dialog.open /\ x.id = dialog.id /\ x.val = dialog.val,
           x.op \in {"toggle", "delete"} => x.op \in form.does /\ ~dialog.open /\ x.id = 0,
           x.on # None => x.seen \in FormRow /\ x.version = x.seen.at,
           Forms!Is("guarded") /\ x.op = "create" => ~Forms!Pending,
           Forms!Is("held") \/ Forms!Is("shut") => ~Forms!Pending
    PROVE  FormInv'
  <1>0. FormTypes /\ Numbered /\ MadeOnce /\ SoundForm(form)
    BY DEF FormInv, FormTypes
  <1>1. /\ request' = [request EXCEPT ![c] = x] /\ latest' = [latest EXCEPT ![Forms!HookOf(x.op)] = c]
        /\ ~Flying(c) /\ UNCHANGED <<form, row, list, dialog, count, made, blind, harm>>
    BY DEF Forms!Sends, Forms!Idle, Flying
  <1>2. /\ request' \in [Request -> FormCall] /\ request'[c] = x /\ \A d \in Request : d # c => request'[d] = request[d]
    BY <1>0, <1>1 DEF FormTypes, FormCall
  <1>3. /\ latest' \in [Forms!Hook -> Request \cup {None}] /\ latest'[Forms!HookOf(x.op)] = c
        /\ \A h \in Forms!Hook : h # Forms!HookOf(x.op) => latest'[h] = latest[h]
    <2>1. Forms!HookOf(x.op) \in Forms!Hook
      BY DEF Forms!HookOf, Forms!Hook
    <2>2. QED
      BY <1>0, <1>1, <2>1 DEF FormTypes
  <1>4. FormTypes'
    BY <1>0, <1>1, <1>2, <1>3 DEF FormTypes
  <1>5. ASSUME NEW d \in Request, d # c
        PROVE  SavedAsShown(d)' /\ OneAtATime(d)' /\ Alone(d)' /\ SameDialog(d)'
    <2>1. SavedAsShown(d)'
      BY <1>1, <1>2, <1>5 DEF FormInv, SavedAsShown, AsShown, Flying
    <2>2. OneAtATime(d)'
      <3>1. ASSUME Forms!Is("guarded"), Makes(d) PROVE latest'["create"] = d
        <4>1. x.op # "create" /\ latest["create"] = d
          BY <3>1, NothingPends DEF FormInv, OneAtATime
        <4>2. Forms!HookOf(x.op) # "create" /\ "create" \in Forms!Hook
          BY <4>1 DEF Forms!HookOf, Forms!Hook
        <4>3. QED
          BY <1>3, <4>1, <4>2
      <3>2. ASSUME Forms!Is("held") \/ Forms!Is("shut") PROVE ~Flying(d)
        BY <3>2, NothingPends
      <3>3. QED
        BY <1>1, <1>2, <1>5, <3>1, <3>2 DEF OneAtATime, Makes, Flying, Forms!Is
    <2>3. ASSUME Forms!Is("held") \/ Forms!Is("shut") PROVE ~Flying(d)
      BY <2>3, NothingPends
    <2>4. Forms!Is("frozen") => Forms!Is("held")
      BY <1>0 DEF SoundForm, SoundWays, Forms!Is
    <2>5. QED
      BY <1>1, <1>2, <1>5, <2>1, <2>2, <2>3, <2>4 DEF Alone, SameDialog, Flying, Forms!Is
  <1>6. x.op \in {"create", "edit", "toggle", "delete"} /\ x.id \in Nat
    BY DEF FormRequest
  <1>7. SavedAsShown(c)'
    BY <1>1, <1>2, <1>6 DEF SavedAsShown, AsShown
  <1>8. OneAtATime(c)'
    BY <1>2, <1>3 DEF OneAtATime, Makes, Forms!HookOf
  <1>9. Alone(c)'
    <2>1. ASSUME Forms!Is("held") \/ Forms!Is("shut"), NEW d \in Request, d # c PROVE ~Flying(d)
      BY <2>1, NothingPends
    <2>2. QED
      BY <1>1, <1>2, <2>1 DEF Alone, Flying, Forms!Is
  <1>10. SameDialog(c)'
    BY <1>1, <1>2, <1>6 DEF SameDialog, Forms!Is
  <1>11. Numbered'
    <2>1. x.id <= count.openings
      BY <1>0, <1>6 DEF Numbered, FormTypes
    <2>2. \A d \in Request : Flying(d)' => request'[d].id <= count.openings
      BY <1>0, <1>2, <2>1 DEF Numbered, Flying
    <2>3. QED
      BY <1>0, <1>1, <2>2 DEF Numbered
  <1>12. MadeOnce'
    <2> SUFFICES ASSUME Forms!Is("guarded")
                 PROVE  /\ \A d \in Request : request'[d].pc = "sent" /\ request'[d].op = "create"
                                              => request'[d].id \notin made \ blind
                        /\ dialog.open /\ dialog.id \in made \ blind =>
                             \E d \in Request : /\ request'[d].pc = "done" /\ request'[d].op = "create"
                                                /\ request'[d].id = dialog.id
      BY <1>1 DEF MadeOnce, Forms!Is
    <2>1. ASSUME x.op = "create" PROVE x.id \notin made \ blind
      <3>1. \A d \in Request : ~Makes(d)
        BY <2>1, NothingPends
      <3>2. ~(dialog.open /\ dialog.id \in made \ blind)
        BY <1>0, <3>1 DEF MadeOnce, Makes, Flying
      <3>3. QED
        BY <2>1, <3>2
    <2>2. ASSUME NEW d \in Request, request'[d].pc = "sent", request'[d].op = "create"
          PROVE  request'[d].id \notin made \ blind
      BY <1>0, <1>2, <2>1, <2>2 DEF MadeOnce
    <2>3. ASSUME dialog.open, dialog.id \in made \ blind
          PROVE  \E d \in Request : /\ request'[d].pc = "done" /\ request'[d].op = "create"
                                    /\ request'[d].id = dialog.id
      <3>1. PICK d \in Request : request[d].pc = "done" /\ request[d].op = "create" /\ request[d].id = dialog.id
        BY <1>0, <2>3 DEF MadeOnce
      <3>2. d # c
        BY <1>1, <3>1 DEF Flying
      <3>3. QED
        BY <1>2, <3>1, <3>2
    <2>4. QED
      BY <2>2, <2>3
  <1>13. AsShown(dialog)'
    BY <1>1 DEF FormInv, AsShown
  <1>14. harm' = {}
    BY <1>1 DEF FormInv
  <1>15. QED
    BY <1>4, <1>5, <1>7, <1>8, <1>9, <1>10, <1>11, <1>12, <1>13, <1>14 DEF FormInv

LEMMA SubmitStep == ASSUME FormInv, NEW c \in Request, Forms!Submit(c) PROVE FormInv'
  <1>0. FormTypes /\ SoundForm(form) /\ dialog \in FormDialog /\ AsShown(dialog)
    BY DEF FormInv, FormTypes
  <1> DEFINE op == IF dialog.on = None THEN "create" ELSE "edit"
             known == IF dialog.on = None THEN 0 ELSE dialog.seen.at
             x == [pc |-> "sent", op |-> op, on |-> dialog.on, seen |-> dialog.seen,
                   val |-> dialog.val, parts |-> form.sends, touched |-> dialog.touched,
                   version |-> known, id |-> dialog.id]
  <1>1. /\ dialog.open /\ (Forms!Is("guarded") => ~Forms!Pending)
        /\ Forms!Sends(c, x)
    BY DEF Forms!Submit, Forms!Version
  <1>2. known \in Nat /\ (dialog.on # None => dialog.seen \in FormRow /\ known = dialog.seen.at)
    BY <1>0 DEF AsShown, FormRow
  <1>3. op \in {"create", "edit"}
    OBVIOUS
  <1> HIDE DEF op, known
  <1>4. x \in FormRequest
    BY <1>0, <1>2, <1>3 DEF FormRequest, FormDialog, SoundForm
  <1>5. /\ x.pc = "sent" /\ x.op = op /\ x.on = dialog.on /\ x.seen = dialog.seen /\ x.val = dialog.val
        /\ x.touched = dialog.touched /\ x.version = known /\ x.id = dialog.id
    OBVIOUS
  <1> HIDE DEF x
  <1>6. AsShown(x)
    BY <1>0, <1>5 DEF AsShown
  <1>7. Forms!Is("held") \/ Forms!Is("shut") => Forms!Is("guarded")
    BY <1>0 DEF SoundForm, SoundWays, Forms!Is
  <1>8. QED
    BY <1>1, <1>2, <1>3, <1>4, <1>5, <1>6, <1>7, RequestSent

LEMMA FromListStep ==
    ASSUME FormInv, NEW c \in Request, NEW r \in Row, Forms!Toggle(c, r) \/ Forms!Delete(c, r)
    PROVE  FormInv'
  <1>0. FormTypes /\ SoundForm(form) /\ list[r] \in FormRow
    BY DEF FormInv, FormTypes
  <1>1. PICK op \in {"toggle", "delete"}, parts \in SUBSET Forms!Part : Forms!FromList(c, r, op, parts)
    <2>1. CASE Forms!Toggle(c, r)
      BY <1>0, <2>1 DEF Forms!Toggle, SoundForm
    <2>2. CASE Forms!Delete(c, r)
      BY <2>2 DEF Forms!Delete
    <2>3. QED
      BY <2>1, <2>2
  <1> DEFINE x == [pc |-> "sent", op |-> op, on |-> r, seen |-> list[r], val |-> list[r].val, parts |-> parts,
                   touched |-> {}, version |-> list[r].at, id |-> 0]
  <1>2. /\ ~dialog.open /\ op \in form.does /\ (Forms!Is("held") => ~Forms!Pending) /\ Forms!Sends(c, x)
    BY <1>1 DEF Forms!FromList
  <1>3. x \in FormRequest
    BY <1>0 DEF FormRequest, FormRow
  <1>4. x.pc = "sent" /\ x.op = op /\ x.on = r /\ x.seen = list[r] /\ x.version = list[r].at /\ x.id = 0
    OBVIOUS
  <1> HIDE DEF x
  <1>5. Forms!Is("shut") => Forms!Is("held")
    BY <1>0, <1>2 DEF SoundForm, SoundWays, Forms!Is
  <1>6. QED
    BY <1>0, <1>2, <1>3, <1>4, <1>5, RequestSent

LEMMA LandsStep == ASSUME FormInv, NEW c \in Request, Forms!Lands(c) PROVE FormInv'
  <1> DEFINE q == request[c]
             x == [q EXCEPT !.pc = "done"]
  <1>0. FormTypes /\ Numbered /\ MadeOnce /\ SavedAsShown(c) /\ harm = {}
    BY DEF FormInv
  <1>1. /\ q.pc = "sent" /\ request' = [request EXCEPT ![c] = x]
        /\ q.on # None /\ Forms!Is("versioned") => row[q.on].at = q.version
        /\ made' = IF q.op = "create" THEN made \cup {q.id} ELSE made
        /\ UNCHANGED <<form, list, dialog, latest, count, blind>>
    BY <1>0 DEF Forms!Lands, FormTypes
  <1>2. q \in FormRequest
    BY <1>0, <1>1 DEF FormTypes, FormCall
  <1>3. /\ x \in FormRequest /\ x.pc = "done" /\ x.op = q.op /\ x.on = q.on /\ x.seen = q.seen /\ x.val = q.val
        /\ x.touched = q.touched /\ x.version = q.version /\ x.id = q.id
    BY <1>2 DEF FormRequest
  <1>4. row' \in [Row -> FormRow]
    <2>1. CASE q.on = None
      BY <1>0, <2>1 DEF Forms!Lands, FormTypes
    <2>2. CASE q.on # None
      <3> DEFINE r == q.on
                 n == row[r].at + 1
                 there == q.op # "delete"
                 val == [p \in Forms!Part |-> IF p \in q.parts THEN q.val[p] ELSE row[r].val[p]]
      <3>1. r \in Row /\ row[r] \in FormRow /\ n \in Nat
        BY <1>0, <1>2, <2>2 DEF FormTypes, FormRequest, FormRow
      <3>2. val \in [Forms!Part -> Nat]
        BY <1>2, <3>1 DEF FormRequest, FormRow
      <3>3. row' = [row EXCEPT ![r] = [row[r] EXCEPT !.at = n, !.there = there, !.val = val]]
        BY <1>0, <2>2, <3>1 DEF Forms!Lands, FormTypes
      <3>4. there \in BOOLEAN
        OBVIOUS
      <3> HIDE DEF n, there, val
      <3>5. [row[r] EXCEPT !.at = n, !.there = there, !.val = val] \in FormRow
        BY <3>1, <3>2, <3>4 DEF FormRow
      <3>6. QED
        BY <1>0, <3>1, <3>3, <3>5 DEF FormTypes
    <2>3. QED
      BY <2>1, <2>2
  <1>5. harm' = {}
    <2>1. Forms!Broken("twice", q.op = "create" /\ q.id \in made \ blind) = {}
      <3>1. Forms!Is("guarded") => ~(q.op = "create" /\ q.id \in made \ blind)
        BY <1>0, <1>1 DEF MadeOnce
      <3>2. QED
        BY <3>1 DEF Forms!Broken, Forms!Promise
    <2>2. Forms!Broken("unseen", q.on # None /\ row[q.on].at # q.seen.at) = {}
      <3>1. Forms!Is("versioned") => ~(q.on # None /\ row[q.on].at # q.seen.at)
        BY <1>0, <1>1 DEF SavedAsShown, Flying
      <3>2. QED
        BY <3>1 DEF Forms!Broken, Forms!Promise
    <2>3. harm' = harm \cup Forms!Broken("twice", q.op = "create" /\ q.id \in made \ blind)
                       \cup Forms!Broken("unseen", q.on # None /\ row[q.on].at # q.seen.at)
      BY DEF Forms!Lands
    <2>4. QED
      BY <1>0, <2>1, <2>2, <2>3
  <1> HIDE DEF x
  <1>6. /\ request' \in [Request -> FormCall] /\ request'[c] = x /\ \A d \in Request : d # c => request'[d] = request[d]
    BY <1>0, <1>1, <1>3 DEF FormTypes, FormCall
  <1>7. q.id \in Nat /\ made' \subseteq Nat /\ \A i \in made' : i \in made \/ i = q.id
    BY <1>0, <1>1, <1>2 DEF FormTypes, FormRequest
  <1>8. FormTypes'
    BY <1>0, <1>1, <1>4, <1>6, <1>7 DEF FormTypes
  <1>9. ASSUME NEW d \in Request PROVE SavedAsShown(d)' /\ OneAtATime(d)' /\ Alone(d)' /\ SameDialog(d)'
    <2>1. /\ Flying(d)' <=> Flying(d)
          /\ Flying(d) => /\ request'[d].op = request[d].op /\ request'[d].on = request[d].on
                          /\ request'[d].seen = request[d].seen /\ request'[d].val = request[d].val
                          /\ request'[d].touched = request[d].touched /\ request'[d].version = request[d].version
                          /\ request'[d].id = request[d].id
      BY <1>1, <1>3, <1>6 DEF Flying
    <2>2. SavedAsShown(d) /\ OneAtATime(d) /\ Alone(d) /\ SameDialog(d)
      BY DEF FormInv
    <2>3. SavedAsShown(d)'
      BY <1>1, <2>1, <2>2 DEF SavedAsShown, AsShown
    <2>4. OneAtATime(d)'
      BY <1>1, <2>1, <2>2 DEF OneAtATime, Makes, Forms!Is
    <2>5. Alone(d)'
      BY <1>1, <1>3, <1>6, <2>1, <2>2 DEF Alone, Flying, Forms!Is
    <2>6. SameDialog(d)'
      BY <1>1, <2>1, <2>2 DEF SameDialog, Forms!Is
    <2>7. QED
      BY <2>3, <2>4, <2>5, <2>6
  <1>10. Numbered'
    BY <1>0, <1>1, <1>3, <1>6, <1>7 DEF Numbered, Flying
  <1>11. MadeOnce'
    <2> SUFFICES ASSUME Forms!Is("guarded")
                 PROVE  /\ \A d \in Request : request'[d].pc = "sent" /\ request'[d].op = "create"
                                              => request'[d].id \notin made' \ blind
                        /\ dialog.open /\ dialog.id \in made' \ blind =>
                             \E d \in Request : /\ request'[d].pc = "done" /\ request'[d].op = "create"
                                                /\ request'[d].id = dialog.id
      BY <1>1 DEF MadeOnce, Forms!Is
    <2>1. ASSUME NEW d \in Request, request'[d].pc = "sent", request'[d].op = "create"
          PROVE  request'[d].id \notin made' \ blind
      <3>1. d # c /\ request[d].pc = "sent" /\ request[d].op = "create" /\ request'[d] = request[d]
        BY <1>3, <1>6, <2>1
      <3>2. latest["create"] = d
        BY <3>1 DEF FormInv, OneAtATime, Makes, Flying
      <3>3. q.op # "create"
        BY <1>1, <3>1, <3>2 DEF FormInv, OneAtATime, Makes, Flying
      <3>4. QED
        BY <1>0, <1>1, <3>1, <3>3 DEF MadeOnce
    <2>2. ASSUME dialog.open, dialog.id \in made' \ blind
          PROVE  \E d \in Request : /\ request'[d].pc = "done" /\ request'[d].op = "create"
                                    /\ request'[d].id = dialog.id
      <3>1. CASE dialog.id \in made
        <4>1. PICK d \in Request : request[d].pc = "done" /\ request[d].op = "create" /\ request[d].id = dialog.id
          BY <1>0, <2>2, <3>1 DEF MadeOnce
        <4>2. d # c
          BY <1>1, <4>1
        <4>3. QED
          BY <1>6, <4>1, <4>2
      <3>2. CASE dialog.id \notin made
        BY <1>1, <1>3, <1>6, <2>2, <3>2
      <3>3. QED
        BY <3>1, <3>2
    <2>3. QED
      BY <2>1, <2>2
  <1>12. AsShown(dialog)'
    BY <1>1 DEF FormInv, AsShown
  <1>13. QED
    BY <1>5, <1>8, <1>9, <1>10, <1>11, <1>12 DEF FormInv

\* A request is over; the dialog stays, or is closed, or is opened anew.
LEMMA RequestOver ==
    ASSUME FormInv, NEW c \in Request, Forms!Ends(c), Flying(c), UNCHANGED <<form, row, list, made>>,
           blind \subseteq blind', blind' \subseteq Nat, harm' = {},
           dialog' \in FormDialog, AsShown(dialog)', count' \in [openings : Nat, typed : Nat, writes : Nat],
           count.openings <= count'.openings,
           dialog'.open => \/ dialog' = dialog
                           \/ dialog'.id = count.openings + 1 /\ dialog'.id <= count'.openings,
           \/ ~(dialog'.open /\ dialog' = dialog)
           \/ ~(Forms!Is("guarded") /\ request[c].pc = "done" /\ request[c].op = "create")
           \/ request[c].id \in blind'
    PROVE  FormInv'
  <1>0. FormTypes /\ Numbered /\ MadeOnce /\ SoundForm(form)
    BY DEF FormInv, FormTypes
  <1>1. Forms!Over \in FormCall /\ Forms!Over.pc = "over"
    BY DEF Forms!Over, FormCall
  <1>2. /\ request' \in [Request -> FormCall] /\ ~Flying(c)' /\ \A d \in Request : d # c => request'[d] = request[d]
        /\ request'[c].pc = "over"
    BY <1>0, <1>1 DEF Forms!Ends, FormTypes, Flying
  <1>3. /\ latest' \in [Forms!Hook -> Request \cup {None}]
        /\ \A h \in Forms!Hook : latest[h] # c => latest'[h] = latest[h]
    BY <1>0 DEF Forms!Ends, FormTypes
  <1>4. FormTypes'
    BY <1>0, <1>2, <1>3 DEF FormTypes
  <1>5. ASSUME NEW d \in Request PROVE SavedAsShown(d)' /\ OneAtATime(d)' /\ Alone(d)' /\ SameDialog(d)'
    <2>1. CASE d = c
      BY <1>2, <2>1 DEF SavedAsShown, OneAtATime, Makes, Alone, SameDialog
    <2>2. CASE d # c
      <3>0. request'[d] = request[d] /\ SavedAsShown(d) /\ OneAtATime(d)
        BY <1>2, <2>2 DEF FormInv
      <3>1. SavedAsShown(d)'
        BY <3>0 DEF SavedAsShown, AsShown, Flying
      <3>2. "create" \in Forms!Hook /\ Forms!HookOf(request[d].op) \in Forms!Hook
        BY DEF Forms!HookOf, Forms!Hook
      <3>3. OneAtATime(d)'
        BY <1>3, <2>2, <3>0, <3>2 DEF OneAtATime, Makes, Flying, Forms!Is
      <3>4. Forms!Is("held") \/ Forms!Is("shut") => ~Flying(d)
        BY <2>2 DEF FormInv, Alone
      <3>5. Forms!Is("frozen") => Forms!Is("held")
        BY <1>0 DEF SoundForm, SoundWays, Forms!Is
      <3>6. Alone(d)' /\ SameDialog(d)'
        BY <3>0, <3>4, <3>5 DEF Alone, SameDialog, Flying, Forms!Is
      <3>7. QED
        BY <3>1, <3>3, <3>6
    <2>3. QED
      BY <2>1, <2>2
  <1>6. /\ count.openings \in Nat /\ count'.openings \in Nat /\ dialog.id \in Nat /\ dialog'.id \in Nat
        /\ \A i \in made : i \in Nat /\ i <= count.openings
    BY <1>0 DEF FormTypes, FormDialog, Numbered
  <1>7. Numbered'
    <2>1. dialog'.open => dialog'.id <= count'.openings
      <3>1. CASE dialog' = dialog
        BY <1>0, <1>6, <3>1 DEF Numbered
      <3>2. CASE dialog' # dialog
        BY <3>2
      <3>3. QED
        BY <3>1, <3>2
    <2>2. ASSUME NEW d \in Request, Flying(d)' PROVE request'[d].id <= count'.openings
      <3>1. d # c /\ request'[d] = request[d] /\ Flying(d)
        BY <1>2, <2>2 DEF Flying
      <3>2. request[d].id \in Nat /\ request[d].id <= count.openings
        BY <1>0, <3>1 DEF FormTypes, FormCall, FormRequest, Numbered, Flying
      <3>3. QED
        BY <1>6, <3>1, <3>2
    <2>3. \A i \in made' : i <= count'.openings
      BY <1>6
    <2>4. QED
      BY <2>1, <2>2, <2>3 DEF Numbered
  <1>8. MadeOnce'
    <2> SUFFICES ASSUME Forms!Is("guarded")
                 PROVE  /\ \A d \in Request : request'[d].pc = "sent" /\ request'[d].op = "create"
                                              => request'[d].id \notin made \ blind'
                        /\ dialog'.open /\ dialog'.id \in made \ blind' =>
                             \E d \in Request : /\ request'[d].pc = "done" /\ request'[d].op = "create"
                                                /\ request'[d].id = dialog'.id
      BY DEF MadeOnce, Forms!Is
    <2>1. ASSUME NEW d \in Request, request'[d].pc = "sent", request'[d].op = "create"
          PROVE  request'[d].id \notin made \ blind'
      <3>1. request'[d] = request[d]
        BY <1>2, <2>1 DEF Flying
      <3>2. QED
        BY <1>0, <2>1, <3>1 DEF MadeOnce
    <2>2. ASSUME dialog'.open, dialog'.id \in made \ blind'
          PROVE  \E d \in Request : /\ request'[d].pc = "done" /\ request'[d].op = "create"
                                    /\ request'[d].id = dialog'.id
      <3>1. dialog' = dialog
        <4>1. SUFFICES ASSUME dialog' # dialog PROVE FALSE
          OBVIOUS
        <4>2. dialog'.id = count.openings + 1
          BY <2>2, <4>1
        <4>3. dialog'.id <= count.openings
          BY <1>6, <2>2
        <4>4. QED
          BY <1>6, <4>2, <4>3
      <3>2. PICK d \in Request : request[d].pc = "done" /\ request[d].op = "create" /\ request[d].id = dialog.id
        BY <1>0, <2>2, <3>1 DEF MadeOnce
      <3>3. d # c
        <4>1. SUFFICES ASSUME d = c PROVE FALSE
          OBVIOUS
        <4>2. request[c].id \in blind'
          BY <2>2, <3>1, <3>2, <4>1
        <4>3. QED
          BY <2>2, <3>1, <3>2, <4>1, <4>2
      <3>4. QED
        BY <1>2, <3>1, <3>2, <3>3
    <2>3. QED
      BY <2>1, <2>2
  <1>9. QED
    BY <1>4, <1>5, <1>7, <1>8 DEF FormInv

LEMMA ClosedIsFine ==
    ASSUME FormInv, dialog' = [dialog EXCEPT !.open = FALSE], UNCHANGED form
    PROVE  dialog' \in FormDialog /\ AsShown(dialog)' /\ ~dialog'.open
  <1>1. dialog \in FormDialog /\ AsShown(dialog)
    BY DEF FormInv, FormTypes
  <1>2. /\ dialog' \in FormDialog /\ ~dialog'.open /\ dialog'.on = dialog.on /\ dialog'.seen = dialog.seen
        /\ dialog'.val = dialog.val /\ dialog'.touched = dialog.touched
    BY <1>1 DEF FormDialog
  <1>3. QED
    BY <1>1, <1>2 DEF AsShown

\* Under way, a request is answered to the dialog it came from.
LEMMA HarmlessAnswer ==
    ASSUME FormInv, NEW c \in Request, Flying(c)
    PROVE  /\ Forms!Broken("dialog", dialog.open /\ dialog.id # request[c].id) = {}
           /\ Forms!Broken("text", dialog.open /\ dialog.id = request[c].id /\ dialog.val # request[c].val) = {}
  <1>1. SameDialog(c)
    BY DEF FormInv
  <1>2. Forms!Is("held") \/ Forms!Is("shut") => ~(dialog.open /\ dialog.id # request[c].id)
    BY <1>1 DEF SameDialog
  <1>3. Forms!Is("frozen") => ~(dialog.open /\ dialog.id = request[c].id /\ dialog.val # request[c].val)
    BY <1>1 DEF SameDialog
  <1>4. Forms!Broken("dialog", dialog.open /\ dialog.id # request[c].id) = {}
    BY <1>2 DEF Forms!Broken, Forms!Promise
  <1>5. Forms!Broken("text", dialog.open /\ dialog.id = request[c].id /\ dialog.val # request[c].val) = {}
    BY <1>3 DEF Forms!Broken, Forms!Promise
  <1>6. QED
    BY <1>4, <1>5

LEMMA FormAnswerStep == ASSUME FormInv, NEW c \in Request, Forms!Answer(c) PROVE FormInv'
  <1> DEFINE q == request[c]
             heard == Forms!Is("latest") => latest[Forms!HookOf(q.op)] = c
  <1>0. /\ FormTypes /\ dialog \in FormDialog /\ AsShown(dialog) /\ harm = {} /\ blind \subseteq Nat
        /\ count \in [openings : Nat, typed : Nat, writes : Nat]
    BY DEF FormInv, FormTypes
  <1>1. q.pc = "done" /\ Flying(c) /\ Forms!Ends(c) /\ UNCHANGED <<form, row, list, made, blind>>
    BY DEF Forms!Answer, Flying
  <1>2. CASE q.op \in {"create", "edit"} /\ heard
    <2>1. harm' = {}
      <3>1. harm' = harm \cup Forms!Broken("dialog", dialog.open /\ dialog.id # q.id)
                         \cup Forms!Broken("text", dialog.open /\ dialog.id = q.id /\ dialog.val # q.val)
        BY <1>2 DEF Forms!Answer
      <3>2. QED
        BY <1>0, <1>1, <3>1, HarmlessAnswer
    <2> DEFINE o == count.openings + 1
    <2>2. o \in Nat /\ count.openings <= o /\ count.openings \in Nat
      BY <1>0
    <2>3. count' = (IF Forms!Is("inline") THEN [count EXCEPT !.openings = o] ELSE count)
      BY <1>2 DEF Forms!Answer
    <2>4. dialog' = [dialog EXCEPT !.open = FALSE] \/ dialog' = Forms!Cleared(Forms!Is("inline"), o)
      BY <1>2 DEF Forms!Answer
    <2> HIDE DEF o
    <2>5. /\ count' \in [openings : Nat, typed : Nat, writes : Nat] /\ count.openings <= count'.openings
          /\ Forms!Is("inline") => count'.openings = o
      BY <1>0, <2>2, <2>3
    <2>6. CASE dialog' = [dialog EXCEPT !.open = FALSE]
      BY <1>0, <1>1, <2>1, <2>5, <2>6, ClosedIsFine, RequestOver
    <2>7. CASE dialog' = Forms!Cleared(Forms!Is("inline"), o)
      <3>1. Forms!Nothing \in [Forms!Part -> Nat] /\ \A p \in Forms!Part : Forms!Nothing[p] = Forms!Blank
        BY DEF Forms!Nothing, Forms!Blank
      <3>2. /\ dialog' \in FormDialog /\ dialog'.on = None /\ dialog'.id = o /\ dialog'.val = Forms!Nothing
            /\ dialog'.open => Forms!Is("inline")
        <4> DEFINE open == Forms!Is("inline")
        <4>1. open \in BOOLEAN
          BY DEF Forms!Is
        <4>2. dialog' = [open |-> open, on |-> None, seen |-> None, val |-> Forms!Nothing, touched |-> {}, id |-> o]
          BY <2>7 DEF Forms!Cleared
        <4>3. dialog'.open = open /\ dialog'.on = None /\ dialog'.id = o /\ dialog'.val = Forms!Nothing
          BY <4>2
        <4> HIDE DEF open
        <4>4. dialog' \in FormDialog
          BY <2>2, <3>1, <4>1, <4>2 DEF FormDialog
        <4>5. QED
          BY <4>3, <4>4 DEF open
      <3>3. AsShown(dialog)'
        BY <1>0, <1>1, <3>1, <3>2 DEF AsShown, FormTypes, SoundForm
      <3>4. dialog'.open => dialog'.id = o /\ dialog'.id <= count'.openings
        BY <2>2, <2>5, <3>2
      <3>5. dialog' = dialog => ~dialog'.open
        <4>1. dialog.open => dialog.id <= count.openings
          BY DEF FormInv, Numbered
        <4>2. o > count.openings
          BY <2>2 DEF o
        <4>3. QED
          BY <2>2, <3>2, <4>1, <4>2
      <3>6. QED
        BY <1>0, <1>1, <2>1, <2>5, <3>2, <3>3, <3>4, <3>5, RequestOver DEF o
    <2>8. QED
      BY <2>4, <2>6, <2>7
  <1>3. CASE ~(q.op \in {"create", "edit"} /\ heard)
    <2>1. UNCHANGED <<dialog, count, harm>>
      BY <1>3 DEF Forms!Answer
    <2>2. ~(Forms!Is("guarded") /\ q.op = "create")
      <3>1. Forms!Is("guarded") /\ q.op = "create" => latest["create"] = c
        BY <1>1 DEF FormInv, OneAtATime, Makes
      <3>2. QED
        BY <1>3, <3>1 DEF Forms!HookOf
    <2>3. AsShown(dialog)' /\ count.openings <= count'.openings
      BY <1>0, <1>1, <2>1 DEF AsShown
    <2>4. QED
      BY <1>0, <1>1, <2>1, <2>2, <2>3, RequestOver
  <1>4. QED
    BY <1>2, <1>3

LEMMA FormRefusedStep == ASSUME FormInv, NEW c \in Request, Forms!Refused(c) PROVE FormInv'
  <1> DEFINE q == request[c]
  <1>0. /\ FormTypes /\ dialog \in FormDialog /\ AsShown(dialog) /\ harm = {} /\ blind \subseteq Nat
        /\ count \in [openings : Nat, typed : Nat, writes : Nat]
    BY DEF FormInv, FormTypes
  <1>1. q.pc = "sent" /\ Flying(c) /\ Forms!Ends(c) /\ UNCHANGED <<form, row, list, count, made, blind>>
    BY DEF Forms!Refused, Flying
  <1>2. count.openings <= count'.openings
    BY <1>0, <1>1
  <1>3. CASE Forms!Conflicts(q) /\ Forms!Is("frozen")
    <2>1. dialog' = [dialog EXCEPT !.open = FALSE] /\ harm' = harm \cup Forms!Broken("dialog", dialog.open /\ dialog.id # q.id)
      BY <1>3 DEF Forms!Refused
    <2>2. harm' = {}
      BY <1>0, <1>1, <2>1, HarmlessAnswer
    <2>3. QED
      BY <1>0, <1>1, <1>2, <2>1, <2>2, ClosedIsFine, RequestOver
  <1>4. CASE ~(Forms!Conflicts(q) /\ Forms!Is("frozen"))
    <2>1. UNCHANGED <<dialog, harm>>
      BY <1>4 DEF Forms!Refused
    <2>2. AsShown(dialog)'
      BY <1>0, <1>1, <2>1 DEF AsShown
    <2>3. QED
      BY <1>0, <1>1, <1>2, <2>1, <2>2, RequestOver
  <1>5. QED
    BY <1>3, <1>4

LEMMA FormAnswerLostStep == ASSUME FormInv, NEW c \in Request, Forms!AnswerLost(c) PROVE FormInv'
  <1>0. /\ FormTypes /\ dialog \in FormDialog /\ AsShown(dialog) /\ harm = {} /\ blind \subseteq Nat
        /\ count \in [openings : Nat, typed : Nat, writes : Nat] /\ request[c] \in FormCall
    BY DEF FormInv, FormTypes
  <1>1. /\ request[c].pc = "done" /\ Flying(c) /\ Forms!Ends(c) /\ blind' = blind \cup {request[c].id}
        /\ UNCHANGED <<form, row, list, dialog, count, made, harm>>
    BY DEF Forms!AnswerLost, Flying
  <1>2. request[c].id \in Nat
    BY <1>0, <1>1 DEF FormCall, FormRequest
  <1>3. AsShown(dialog)' /\ count.openings <= count'.openings
    BY <1>0, <1>1 DEF AsShown
  <1>4. QED
    BY <1>0, <1>1, <1>2, <1>3, RequestOver

LEMMA RowsMove ==
    ASSUME FormInv, UNCHANGED <<form, dialog, request, latest, made, blind, harm>>,
           row' \in [Row -> FormRow], list' \in [Row -> FormRow],
           count' \in [openings : Nat, typed : Nat, writes : Nat], count'.openings = count.openings
    PROVE  FormInv'
  <1>1. FormTypes'
    BY DEF FormInv, FormTypes
  <1>2. AsShown(dialog)'
    BY DEF FormInv, AsShown
  <1>3. \A c \in Request : SavedAsShown(c)' /\ OneAtATime(c)' /\ Alone(c)' /\ SameDialog(c)'
    BY DEF FormInv, SavedAsShown, AsShown, OneAtATime, Makes, Alone, SameDialog, Flying, Forms!Is
  <1>4. Numbered' /\ MadeOnce' /\ harm' = {}
    BY DEF FormInv, Numbered, MadeOnce, Flying, Forms!Is
  <1>5. QED
    BY <1>1, <1>2, <1>3, <1>4 DEF FormInv

LEMMA FormElsewhereStep == ASSUME FormInv, Forms!Refetch \/ (\E r \in Row : Forms!Elsewhere(r)) PROVE FormInv'
  <1>0. FormTypes /\ SoundForm(form) /\ count \in [openings : Nat, typed : Nat, writes : Nat]
    BY DEF FormInv, FormTypes
  <1>1. CASE Forms!Refetch
    BY <1>0, <1>1, RowsMove DEF Forms!Refetch, FormTypes
  <1>2. ASSUME NEW r \in Row, Forms!Elsewhere(r) PROVE FormInv'
    <2> DEFINE w == count.writes + 1
               n == row[r].at + 1
               v == 20 + count.writes
    <2>1. count' = [count EXCEPT !.writes = w] /\ UNCHANGED <<form, list, dialog, request, latest, made, blind, harm>>
      BY <1>2 DEF Forms!Elsewhere
    <2>2. row[r] \in FormRow /\ w \in Nat /\ n \in Nat /\ v \in Nat
      BY <1>0 DEF FormTypes, FormRow
    <2> HIDE DEF w, n, v
    <2>3. count' \in [openings : Nat, typed : Nat, writes : Nat] /\ count'.openings = count.openings
      BY <1>0, <2>1, <2>2
    <2>4. row' \in [Row -> FormRow]
      <3>1. CASE row' = [row EXCEPT ![r].there = FALSE]
        BY <1>0, <2>2, <3>1 DEF FormTypes, FormRow
      <3>2. ASSUME NEW p \in form.sends, row' = [row EXCEPT ![r].at = @ + 1, ![r].val[p] = 20 + count.writes]
            PROVE  row' \in [Row -> FormRow]
        <4>1. p \in Forms!Part
          BY <1>0 DEF SoundForm
        <4> DEFINE val == [row[r].val EXCEPT ![p] = v]
        <4>2. val \in [Forms!Part -> Nat]
          BY <2>2, <4>1 DEF FormRow
        <4>3. row' = [row EXCEPT ![r] = [row[r] EXCEPT !.at = n, !.val = val]]
          BY <1>0, <2>2, <3>2 DEF n, v, FormTypes, FormRow
        <4> HIDE DEF val
        <4>4. [row[r] EXCEPT !.at = n, !.val = val] \in FormRow
          BY <2>2, <4>2 DEF FormRow
        <4>5. QED
          BY <1>0, <4>3, <4>4 DEF FormTypes
      <3>3. QED
        BY <1>2, <3>1, <3>2 DEF Forms!Elsewhere, Forms!Written
    <2>5. list' \in [Row -> FormRow]
      BY <1>0, <2>1 DEF FormTypes
    <2>6. QED
      BY <2>1, <2>3, <2>4, <2>5, RowsMove
  <1>3. QED
    BY <1>1, <1>2

LEMMA FormStep == ASSUME FormInv, Forms!Next PROVE FormInv'
  BY OpenStep, TypingStep, CloseStep, FormElsewhereStep, SubmitStep, LandsStep, FormAnswerStep, FormRefusedStep,
     FormAnswerLostStep, FromListStep DEF Forms!Next

LEMMA FormPromise == FormInv => Forms!FormsKeepTheirWord
  <1>1. FormInv => Forms!SavesAreAsShown
    BY DEF FormInv, SavedAsShown, AsShown, Flying, Forms!SavesAreAsShown
  <1>2. QED
    BY <1>1 DEF FormInv, Forms!FormsKeepTheirWord

(***************************************************************************)
(* The messages.  A file belongs to the tab it was chosen for from then    *)
(* on, wherever it is listed, and to one message once it is in one.        *)
(***************************************************************************)
ComposerFile ==
    [pc : {"new", "uploading", "done", "error", "gone"}, tab : Composer!Tab, token : Composer!Widget \X Nat,
     at : {"nowhere", "orphan"} \cup Composer!Tab]
ComposerPc == {"new", "lookup", "sent", "made", "refused", "adrift", "over"}
ComposerSend ==
    [pc : ComposerPc, tab : Composer!Tab, files : SUBSET File, token : Composer!Widget \X Nat]

ComposerTypes ==
    /\ front \in Composer!Tab
    /\ file \in [File -> ComposerFile]
    /\ listed \in [Composer!Tab -> SUBSET File] /\ ids \in [Composer!Tab -> SUBSET File]
    /\ send \in [Submission -> ComposerSend]
    /\ challenge \in [Composer!Widget -> [held : Nat, solved : Nat]]
    /\ carried \in [File -> {0, 1}] /\ tickets \in [Composer!Token -> {0, 1}]

\* Where a file is, and which tab, zone and messages have it.
Placed(f) ==
    /\ file[f].pc = "new" => file[f].at = "nowhere"
    /\ f \in removed => file[f].pc \in {"done", "error"}
    /\ file[f].at \in {"nowhere", "orphan", file[f].tab}
    /\ carried[f] = 1 => file[f].at \notin {"nowhere", "orphan"}
Shelved(f) ==
    /\ \A t \in Composer!Tab : f \in listed[t] => file[f].tab = t /\ file[f].pc # "new"
    /\ \A t \in Composer!Tab : f \in ids[t] => file[f].tab = t /\ file[f].pc = "done" /\ f \notin removed
    /\ \A s \in Submission : f \in send[s].files => file[f].tab = send[s].tab /\ file[f].pc # "new"
    /\ page # "staff" /\ f \in listed["reply"] /\ file[f].pc = "done" => f \in ids["reply"]

ComposerInv ==
    /\ ComposerTypes
    /\ \A f \in File : Placed(f) /\ Shelved(f)
    /\ \A k \in Composer!Token : tickets[k] = 1 => k \in spent

LEMMA ComposerInit == Composer!Init => ComposerInv
  <1> SUFFICES ASSUME Composer!Init PROVE ComposerInv
    OBVIOUS
  <1>1. Composer!NoToken \in Composer!Widget \X Nat
    BY DEF Composer!NoToken, Composer!Widget
  <1>2. file \in [File -> ComposerFile] /\ \A f \in File : file[f].pc = "new" /\ file[f].at = "nowhere"
    BY <1>1 DEF Composer!Init, ComposerFile, Composer!Tab
  <1>3. send \in [Submission -> ComposerSend] /\ \A s \in Submission : send[s].files = {}
    BY <1>1 DEF Composer!Init, ComposerSend, ComposerPc, Composer!Tab
  <1>4. listed \in [Composer!Tab -> SUBSET File] /\ ids = listed /\ \A t \in Composer!Tab : listed[t] = {}
    BY DEF Composer!Init
  <1>5. challenge \in [Composer!Widget -> [held : Nat, solved : Nat]]
    BY DEF Composer!Init
  <1>6. /\ carried \in [File -> {0, 1}] /\ \A f \in File : carried[f] = 0
        /\ tickets \in [Composer!Token -> {0, 1}] /\ \A k \in Composer!Token : tickets[k] = 0
        /\ front \in Composer!Tab /\ removed = {}
    BY DEF Composer!Init, Composer!Tab
  <1>7. ComposerTypes
    BY <1>2, <1>3, <1>4, <1>5, <1>6 DEF ComposerTypes
  <1>8. \A f \in File : Placed(f) /\ Shelved(f)
    BY <1>2, <1>3, <1>4, <1>6 DEF Placed, Shelved, Composer!Tab
  <1>9. QED
    BY <1>6, <1>7, <1>8 DEF ComposerInv

\* No file is touched, and what is listed, kept or sent was kept before.
LEMMA FilesUntouched ==
    ASSUME ComposerInv, ComposerTypes', UNCHANGED <<page, file, removed, carried, tickets>>, spent \subseteq spent',
           \A t \in Composer!Tab : listed'[t] \subseteq listed[t] /\ ids'[t] \subseteq ids[t],
           page # "staff" => \A f \in ids["reply"] : f \in listed'["reply"] => f \in ids'["reply"],
           \A s \in Submission : \/ send'[s].files = send[s].files /\ send'[s].tab = send[s].tab
                                 \/ send'[s].files = ids[send'[s].tab] /\ send'[s].tab \in Composer!Tab
    PROVE  ComposerInv'
  <1>1. ASSUME NEW f \in File PROVE Placed(f)' /\ Shelved(f)'
    <2>0. Placed(f) /\ Shelved(f)
      BY DEF ComposerInv
    <2>1. Placed(f)'
      BY <2>0 DEF Placed
    <2>2. ASSUME NEW t \in Composer!Tab
          PROVE  /\ f \in listed'[t] => file[f].tab = t /\ file[f].pc # "new"
                 /\ f \in ids'[t] => file[f].tab = t /\ file[f].pc = "done" /\ f \notin removed
      BY <2>0, <2>2 DEF Shelved
    <2>3. ASSUME NEW s \in Submission, f \in send'[s].files PROVE file[f].tab = send'[s].tab /\ file[f].pc # "new"
      BY <2>0, <2>3 DEF Shelved
    <2>4. ASSUME page # "staff", f \in listed'["reply"], file[f].pc = "done" PROVE f \in ids'["reply"]
      <3>1. f \in listed["reply"]
        BY <2>4 DEF Composer!Tab
      <3>2. QED
        BY <2>0, <2>4, <3>1 DEF Shelved
    <2>5. Shelved(f)'
      BY <2>2, <2>3, <2>4 DEF Shelved
    <2>6. QED
      BY <2>1, <2>5
  <1>2. \A k \in Composer!Token : tickets'[k] = 1 => k \in spent'
    BY DEF ComposerInv
  <1>3. QED
    BY <1>1, <1>2 DEF ComposerInv

LEMMA WritingStep ==
    ASSUME ComposerInv, \/ Composer!SwitchTab \/ Composer!Type \/ \E w \in Composer!Widget : Composer!Solve(w)
    PROVE  ComposerInv'
  <1>0. ComposerTypes
    BY DEF ComposerInv
  <1>1. CASE Composer!SwitchTab
    <2>1. /\ page = "staff" /\ front' \in Composer!Tab /\ listed' = [listed EXCEPT ![front] = {}]
          /\ UNCHANGED <<page, file, ids, removed, send, carried, tickets, challenge, spent>>
      BY <1>1 DEF Composer!SwitchTab, Composer!Tab, Composer!Sends
    <2>2. listed' \in [Composer!Tab -> SUBSET File] /\ \A t \in Composer!Tab : listed'[t] \subseteq listed[t]
      BY <1>0, <2>1 DEF ComposerTypes
    <2>3. ComposerTypes'
      BY <1>0, <2>1, <2>2 DEF ComposerTypes
    <2>4. QED
      BY <2>1, <2>2, <2>3, FilesUntouched
  <1>2. CASE Composer!Type
    <2>1. UNCHANGED <<page, front, file, listed, ids, removed, send, carried, tickets, challenge, spent>>
      BY <1>2 DEF Composer!Type, Composer!Files, Composer!Sends
    <2>2. ComposerTypes'
      BY <1>0, <2>1 DEF ComposerTypes
    <2>3. QED
      BY <2>1, <2>2, FilesUntouched
  <1>3. ASSUME NEW w \in Composer!Widget, Composer!Solve(w) PROVE ComposerInv'
    <2> DEFINE n == challenge[w].solved + 1
    <2>1. /\ UNCHANGED <<page, front, file, listed, ids, removed, send, carried, tickets, spent>>
          /\ challenge' = [challenge EXCEPT ![w] = [held |-> n, solved |-> n]]
      BY <1>3 DEF Composer!Solve, Composer!Files, Composer!Sends
    <2>2. n \in Nat
      BY <1>0 DEF ComposerTypes
    <2> HIDE DEF n
    <2>3. challenge' \in [Composer!Widget -> [held : Nat, solved : Nat]]
      BY <1>0, <2>1, <2>2 DEF ComposerTypes
    <2>4. ComposerTypes'
      BY <1>0, <2>1, <2>3 DEF ComposerTypes
    <2>5. QED
      BY <2>1, <2>4, FilesUntouched
  <1>4. QED
    BY <1>1, <1>2, <1>3

\* The token of a widget, and the widget once its token is used.
LEMMA TokenHeld == ASSUME ComposerTypes, NEW w \in Composer!Widget PROVE Composer!Held(w) \in Composer!Widget \X Nat
  BY DEF ComposerTypes, Composer!Held

LEMMA TokenUsed ==
    ASSUME ComposerTypes, NEW w \in Composer!Widget,
           challenge' = (IF page = "public" THEN [challenge EXCEPT ![w].held = 0] ELSE challenge)
    PROVE  challenge' \in [Composer!Widget -> [held : Nat, solved : Nat]]
  BY DEF ComposerTypes

\* One file is touched: the others stay where they are.
LEMMA OneFileMoves ==
    ASSUME ComposerInv, ComposerTypes', NEW f \in File, UNCHANGED <<page, send, carried, tickets>>,
           \A g \in File : g # f => file'[g] = file[g],
           \A g \in File : g # f => (g \in removed' <=> g \in removed),
           \A t \in Composer!Tab, g \in File : g # f => (g \in listed'[t] <=> g \in listed[t]) /\ (g \in ids'[t] <=> g \in ids[t]),
           spent \subseteq spent', Placed(f)', Shelved(f)'
    PROVE  ComposerInv'
  <1>1. ASSUME NEW g \in File PROVE Placed(g)' /\ Shelved(g)'
    <2>1. CASE g = f
      BY <2>1
    <2>2. CASE g # f
      <3>0. Placed(g) /\ Shelved(g) /\ file'[g] = file[g] /\ (g \in removed' <=> g \in removed)
        BY <2>2 DEF ComposerInv
      <3>1. \A t \in Composer!Tab : (g \in listed'[t] <=> g \in listed[t]) /\ (g \in ids'[t] <=> g \in ids[t])
        BY <2>2
      <3>2. Placed(g)'
        BY <3>0 DEF Placed
      <3>3. Shelved(g)'
        BY <3>0, <3>1 DEF Shelved, Composer!Tab
      <3>4. QED
        BY <3>2, <3>3
    <2>3. QED
      BY <2>1, <2>2
  <1>2. \A k \in Composer!Token : tickets'[k] = 1 => k \in spent'
    BY DEF ComposerInv
  <1>3. QED
    BY <1>1, <1>2 DEF ComposerInv

LEMMA ChooseStep == ASSUME ComposerInv, NEW f \in File, Composer!Choose(f) PROVE ComposerInv'
  <1>0. ComposerTypes /\ Placed(f) /\ Shelved(f) /\ front \in Composer!Tab
    BY DEF ComposerInv, ComposerTypes
  <1> DEFINE pc == IF page = "public" /\ challenge["upload"].held = 0 THEN "error" ELSE "uploading"
             x == [pc |-> pc, tab |-> front, token |-> Composer!Held("upload"), at |-> "nowhere"]
  <1>1. /\ file[f].pc = "new" /\ file' = [file EXCEPT ![f] = x] /\ listed' = [listed EXCEPT ![front] = listed[front] \cup {f}]
        /\ UNCHANGED <<page, front, ids, removed, send, carried, tickets, challenge, spent>>
    BY <1>0 DEF Composer!Choose, Composer!Sends, ComposerTypes
  <1>2. pc \in {"error", "uploading"}
    OBVIOUS
  <1>3. Composer!Held("upload") \in Composer!Widget \X Nat
    BY <1>0, TokenHeld DEF Composer!Widget
  <1> HIDE DEF pc
  <1>4. x \in ComposerFile /\ x.pc = pc /\ x.tab = front /\ x.at = "nowhere"
    BY <1>0, <1>2, <1>3 DEF ComposerFile
  <1> HIDE DEF x
  <1>5. file' \in [File -> ComposerFile] /\ file'[f] = x /\ \A g \in File : g # f => file'[g] = file[g]
    BY <1>0, <1>1, <1>4 DEF ComposerTypes
  <1>6. /\ listed' \in [Composer!Tab -> SUBSET File] /\ \A t \in Composer!Tab : t # front => listed'[t] = listed[t]
        /\ listed'[front] = listed[front] \cup {f}
    BY <1>0, <1>1 DEF ComposerTypes
  <1>7. ComposerTypes'
    BY <1>0, <1>1, <1>5, <1>6 DEF ComposerTypes
  <1>8. Placed(f)'
    BY <1>0, <1>1, <1>2, <1>4, <1>5 DEF Placed
  <1>9. Shelved(f)'
    BY <1>0, <1>1, <1>2, <1>4, <1>5, <1>6 DEF Shelved, Composer!Tab
  <1>10. \A t \in Composer!Tab, g \in File : g # f => (g \in listed'[t] <=> g \in listed[t])
    BY <1>6
  <1>11. QED
    BY <1>1, <1>5, <1>7, <1>8, <1>9, <1>10, OneFileMoves

LEMMA StoreStep == ASSUME ComposerInv, NEW f \in File, Composer!Store(f) PROVE ComposerInv'
  <1>0. ComposerTypes /\ Placed(f) /\ Shelved(f)
    BY DEF ComposerInv
  <1>1. /\ file[f].pc = "uploading" /\ file[f].at = "nowhere" /\ file' = [file EXCEPT ![f].at = "orphan"]
        /\ spent \subseteq spent' /\ UNCHANGED <<page, front, listed, ids, removed, send, carried, tickets, challenge>>
    BY DEF Composer!Store, Composer!Sends
  <1>2. /\ file' \in [File -> ComposerFile] /\ \A g \in File : g # f => file'[g] = file[g]
        /\ file'[f].pc = file[f].pc /\ file'[f].tab = file[f].tab /\ file'[f].at = "orphan"
    <2> DEFINE x == [file[f] EXCEPT !.at = "orphan"]
    <2>1. file \in [File -> ComposerFile] /\ file[f] \in ComposerFile
      BY <1>0 DEF ComposerTypes
    <2>2. x \in ComposerFile /\ x.pc = file[f].pc /\ x.tab = file[f].tab /\ x.at = "orphan"
      BY <2>1 DEF ComposerFile
    <2>3. file' = [file EXCEPT ![f] = x]
      BY <1>1, <2>1
    <2> HIDE DEF x
    <2>4. QED
      BY <2>1, <2>2, <2>3
  <1>3. ComposerTypes'
    BY <1>0, <1>1, <1>2 DEF ComposerTypes
  <1>4. Placed(f)' /\ Shelved(f)'
    BY <1>0, <1>1, <1>2 DEF Placed, Shelved
  <1>5. QED
    BY <1>1, <1>2, <1>3, <1>4, OneFileMoves

LEMMA EndUploadStep == ASSUME ComposerInv, NEW f \in File, Composer!EndUpload(f) PROVE ComposerInv'
  <1> DEFINE t == file[f].tab
  <1>0. ComposerTypes /\ Placed(f) /\ Shelved(f) /\ t \in Composer!Tab
    BY DEF ComposerInv, ComposerTypes, ComposerFile
  <1>1. /\ file[f].pc = "uploading" /\ UNCHANGED <<page, front, listed, removed, send, carried, tickets, spent>>
        /\ challenge' = IF page = "public" THEN [challenge EXCEPT !["upload"].held = 0] ELSE challenge
    BY DEF Composer!EndUpload, Composer!Sends
  <1>2. challenge' \in [Composer!Widget -> [held : Nat, solved : Nat]]
    BY <1>0, <1>1, TokenUsed DEF Composer!Widget
  <1>3. PICK pc \in {"done", "error"} :
            /\ file' = [file EXCEPT ![f].pc = pc]
            /\ ids' = IF pc = "done" THEN [ids EXCEPT ![t] = ids[t] \cup {f}] ELSE ids
    BY <1>0 DEF Composer!EndUpload, ComposerTypes
  <1>4. /\ file' \in [File -> ComposerFile] /\ \A g \in File : g # f => file'[g] = file[g]
        /\ file'[f].pc = pc /\ file'[f].tab = t /\ file'[f].at = file[f].at
    <2> DEFINE x == [file[f] EXCEPT !.pc = pc]
    <2>1. file \in [File -> ComposerFile] /\ file[f] \in ComposerFile
      BY <1>0 DEF ComposerTypes
    <2>2. x \in ComposerFile /\ x.pc = pc /\ x.tab = t /\ x.at = file[f].at
      BY <2>1 DEF ComposerFile
    <2>3. file' = [file EXCEPT ![f] = x]
      BY <1>3, <2>1
    <2> HIDE DEF x, t
    <2>4. QED
      BY <2>1, <2>2, <2>3
  <1>5. /\ ids' \in [Composer!Tab -> SUBSET File] /\ \A u \in Composer!Tab : u # t => ids'[u] = ids[u]
        /\ ids'[t] = IF pc = "done" THEN ids[t] \cup {f} ELSE ids[t]
    BY <1>0, <1>3 DEF ComposerTypes
  <1>6. ComposerTypes'
    BY <1>0, <1>1, <1>2, <1>4, <1>5 DEF ComposerTypes
  <1>7. Placed(f)'
    BY <1>0, <1>1, <1>4 DEF Placed
  <1>8. Shelved(f)'
    <2>1. \A u \in Composer!Tab : f \in ids'[u] => u = t /\ pc = "done"
      BY <1>0, <1>1, <1>5 DEF Shelved
    <2>2. f \notin removed
      BY <1>0, <1>1 DEF Placed
    <2>3. f \in listed["reply"] /\ pc = "done" => f \in ids'["reply"]
      BY <1>0, <1>5 DEF Shelved, Composer!Tab
    <2>4. QED
      BY <1>0, <1>1, <1>4, <2>1, <2>2, <2>3 DEF Shelved
  <1>9. \A u \in Composer!Tab, g \in File : g # f => (g \in ids'[u] <=> g \in ids[u])
    BY <1>5
  <1>10. QED
    BY <1>1, <1>4, <1>6, <1>7, <1>8, <1>9, OneFileMoves

LEMMA RemoveFileStep == ASSUME ComposerInv, NEW f \in File, Composer!RemoveFile(f) PROVE ComposerInv'
  <1>0. ComposerTypes /\ Placed(f) /\ Shelved(f) /\ front \in Composer!Tab
    BY DEF ComposerInv, ComposerTypes
  <1>1. /\ f \in listed[front] /\ file[f].pc \in {"done", "error"}
        /\ listed' = [listed EXCEPT ![front] = listed[front] \ {f}]
        /\ ids' = [ids EXCEPT ![front] = ids[front] \ {f}]
        /\ removed' = removed \cup {f}
        /\ UNCHANGED <<page, front, file, send, carried, tickets, challenge, spent>>
    BY <1>0 DEF Composer!RemoveFile, Composer!Removable, Composer!Sends, ComposerTypes
  <1>2. /\ listed' \in [Composer!Tab -> SUBSET File] /\ ids' \in [Composer!Tab -> SUBSET File]
        /\ \A t \in Composer!Tab : /\ listed'[t] = IF t = front THEN listed[t] \ {f} ELSE listed[t]
                                   /\ ids'[t] = IF t = front THEN ids[t] \ {f} ELSE ids[t]
    BY <1>0, <1>1 DEF ComposerTypes
  <1>3. ComposerTypes'
    BY <1>0, <1>1, <1>2 DEF ComposerTypes
  <1>4. file[f].tab = front
    BY <1>0, <1>1 DEF Shelved
  <1>5. Placed(f)'
    BY <1>0, <1>1 DEF Placed
  <1>6. \A t \in Composer!Tab : f \notin listed'[t] /\ f \notin ids'[t]
    BY <1>0, <1>2, <1>4 DEF Shelved
  <1>7. Shelved(f)'
    BY <1>0, <1>1, <1>6 DEF Shelved, Composer!Tab
  <1>8. \A t \in Composer!Tab, g \in File : g # f => (g \in listed'[t] <=> g \in listed[t]) /\ (g \in ids'[t] <=> g \in ids[t])
    BY <1>2
  <1>9. QED
    BY <1>1, <1>3, <1>5, <1>7, <1>8, OneFileMoves

\* A message goes on.
LEMMA SendGoes ==
    ASSUME ComposerTypes, NEW s \in Submission, NEW pc \in ComposerPc, send' = [send EXCEPT ![s].pc = pc]
    PROVE  /\ send' \in [Submission -> ComposerSend]
           /\ \A r \in Submission : send'[r].files = send[r].files /\ send'[r].tab = send[r].tab
  BY DEF ComposerTypes, ComposerSend, ComposerPc

LEMMA SubmitMessageStep == ASSUME ComposerInv, NEW s \in Submission, Composer!Submit(s) PROVE ComposerInv'
  <1>0. ComposerTypes /\ front \in Composer!Tab /\ ids[front] \in SUBSET File
    BY DEF ComposerInv, ComposerTypes
  <1> DEFINE pc == IF page = "public" THEN "lookup" ELSE "sent"
             x == [pc |-> pc, tab |-> front, files |-> ids[front], token |-> Composer!Held("ticket")]
  <1>1. /\ send' = [send EXCEPT ![s] = x]
        /\ UNCHANGED <<page, front, file, listed, ids, removed, carried, tickets, challenge, spent>>
    BY DEF Composer!Submit, Composer!Files
  <1>2. Composer!Held("ticket") \in Composer!Widget \X Nat /\ pc \in {"lookup", "sent"}
    BY <1>0, TokenHeld DEF Composer!Widget
  <1> HIDE DEF pc
  <1>3. x \in ComposerSend /\ x.files = ids[front] /\ x.tab = front
    BY <1>0, <1>2 DEF ComposerSend, ComposerPc
  <1> HIDE DEF x
  <1>4. /\ send' \in [Submission -> ComposerSend] /\ send'[s] = x
        /\ \A r \in Submission : r # s => send'[r] = send[r]
    BY <1>0, <1>1, <1>3 DEF ComposerTypes
  <1>5. ComposerTypes'
    BY <1>0, <1>1, <1>4 DEF ComposerTypes
  <1>6. \A r \in Submission : \/ send'[r].files = send[r].files /\ send'[r].tab = send[r].tab
                              \/ send'[r].files = ids[send'[r].tab] /\ send'[r].tab \in Composer!Tab
    BY <1>0, <1>3, <1>4
  <1>7. QED
    BY <1>1, <1>5, <1>6, FilesUntouched

LEMMA ResolveStep == ASSUME ComposerInv, NEW s \in Submission, Composer!ResolvePriorityId(s) PROVE ComposerInv'
  <1>1. /\ ComposerTypes /\ send' = [send EXCEPT ![s].pc = "sent"]
        /\ UNCHANGED <<page, front, file, listed, ids, removed, carried, tickets, challenge, spent>>
    BY DEF ComposerInv, Composer!ResolvePriorityId, Composer!Files
  <1>2. /\ send' \in [Submission -> ComposerSend]
        /\ \A r \in Submission : send'[r].files = send[r].files /\ send'[r].tab = send[r].tab
    BY <1>1, SendGoes DEF ComposerPc
  <1>3. ComposerTypes'
    BY <1>1, <1>2 DEF ComposerTypes
  <1>4. QED
    BY <1>1, <1>2, <1>3, FilesUntouched

LEMMA ReceiveStep == ASSUME ComposerInv, NEW s \in Submission, Composer!Receive(s) PROVE ComposerInv'
  <1> DEFINE m == send[s]
             known == page = "public" /\ m.token \in spent
             ok == ~known /\ \A f \in m.files : file[f].at = "orphan"
             pc == CASE m.pc = "adrift" -> "over" [] ok -> "made" [] OTHER -> "refused"
  <1>0. ComposerTypes /\ m \in ComposerSend
    BY DEF ComposerInv, ComposerTypes
  <1>1. /\ m.pc \in {"sent", "adrift"}
        /\ spent' = IF page = "public" THEN spent \cup {m.token} ELSE spent
        /\ send' = [send EXCEPT ![s].pc = pc]
        /\ file' = [f \in File |-> IF ok /\ f \in m.files THEN [file[f] EXCEPT !.at = m.tab] ELSE file[f]]
        /\ carried' = [f \in File |-> IF ok /\ f \in m.files THEN carried[f] + 1 ELSE carried[f]]
        /\ tickets' = IF ok /\ page = "public" THEN [tickets EXCEPT ![m.token] = @ + 1] ELSE tickets
        /\ UNCHANGED <<page, front, listed, ids, removed, challenge>>
    BY DEF Composer!Receive
  <1>2. pc \in ComposerPc
    BY DEF ComposerPc
  <1> HIDE DEF pc
  <1>3. /\ send' \in [Submission -> ComposerSend]
        /\ \A r \in Submission : send'[r].files = send[r].files /\ send'[r].tab = send[r].tab
    BY <1>0, <1>1, <1>2, SendGoes
  <1>4. m.tab \in Composer!Tab /\ m.files \in SUBSET File
    BY <1>0 DEF ComposerSend
  <1>5. ASSUME NEW f \in File
        PROVE  /\ file'[f] \in ComposerFile /\ file'[f].pc = file[f].pc /\ file'[f].tab = file[f].tab
               /\ file'[f].at = IF ok /\ f \in m.files THEN m.tab ELSE file[f].at
    <2>1. file[f] \in ComposerFile
      BY <1>0 DEF ComposerTypes
    <2>2. CASE ok /\ f \in m.files
      BY <1>1, <1>4, <2>1, <2>2 DEF ComposerFile
    <2>3. CASE ~(ok /\ f \in m.files)
      BY <1>1, <2>1, <2>3
    <2>4. QED
      BY <2>2, <2>3
  <1>6. ASSUME NEW f \in File PROVE carried'[f] \in {0, 1} /\ Placed(f)'
    <2>0. Placed(f) /\ Shelved(f) /\ carried[f] \in {0, 1}
      BY <1>0 DEF ComposerInv, ComposerTypes
    <2>1. CASE ok /\ f \in m.files
      <3>1. file[f].at = "orphan" /\ carried[f] = 0 /\ file[f].tab = m.tab /\ file[f].pc # "new"
        BY <2>0, <2>1 DEF Placed, Shelved
      <3>2. carried'[f] = 1
        BY <1>1, <2>1, <3>1
      <3>3. file'[f].at = m.tab /\ m.tab \notin {"nowhere", "orphan"}
        BY <1>4, <1>5, <2>1 DEF Composer!Tab
      <3>4. QED
        BY <1>1, <1>5, <2>0, <3>1, <3>2, <3>3 DEF Placed
    <2>2. CASE ~(ok /\ f \in m.files)
      BY <1>1, <1>5, <2>0, <2>2 DEF Placed
    <2>3. QED
      BY <2>1, <2>2
  <1>7. ASSUME NEW k \in Composer!Token PROVE tickets'[k] \in {0, 1} /\ (tickets'[k] = 1 => k \in spent')
    <2>0. tickets \in [Composer!Token -> {0, 1}] /\ (tickets[k] = 1 => k \in spent)
      BY <1>0 DEF ComposerInv, ComposerTypes
    <2>1. CASE ok /\ page = "public" /\ k = m.token
      <3>1. k \notin spent /\ k \in spent'
        BY <1>1, <2>1
      <3>2. tickets[k] = 0
        BY <2>0, <3>1
      <3>3. tickets'[k] = 1
        BY <1>1, <2>0, <2>1, <3>2
      <3>4. QED
        BY <3>1, <3>3
    <2>2. CASE ~(ok /\ page = "public" /\ k = m.token)
      <3>1. tickets'[k] = tickets[k] /\ spent \subseteq spent'
        BY <1>1, <2>0, <2>2
      <3>2. QED
        BY <2>0, <3>1
    <2>3. QED
      BY <2>1, <2>2
  <1>8. ComposerTypes'
    <2>1. tickets' \in [Composer!Token -> {0, 1}]
      <3>1. tickets' = [k \in Composer!Token |-> tickets'[k]]
        BY <1>0, <1>1 DEF ComposerTypes
      <3>2. QED
        BY <1>7, <3>1
    <2>2. file' \in [File -> ComposerFile] /\ carried' \in [File -> {0, 1}]
      <3>1. file' = [f \in File |-> file'[f]] /\ carried' = [f \in File |-> carried'[f]]
        BY <1>1
      <3>2. QED
        BY <1>5, <1>6, <3>1
    <2>3. QED
      BY <1>0, <1>1, <1>3, <2>1, <2>2 DEF ComposerTypes
  <1>9. ASSUME NEW f \in File PROVE Shelved(f)'
    <2>1. Shelved(f)
      BY DEF ComposerInv
    <2>2. QED
      BY <1>1, <1>3, <1>5, <2>1 DEF Shelved
  <1>10. QED
    BY <1>6, <1>7, <1>8, <1>9 DEF ComposerInv

LEMMA EndSendStep == ASSUME ComposerInv, NEW s \in Submission, Composer!EndSend(s) PROVE ComposerInv'
  <1> DEFINE t == send[s].tab
  <1>0. ComposerTypes /\ t \in Composer!Tab
    BY DEF ComposerInv, ComposerTypes, ComposerSend
  <1>1. /\ send' = [send EXCEPT ![s].pc = "over"]
        /\ challenge' = IF page = "public" THEN [challenge EXCEPT !["ticket"].held = 0] ELSE challenge
        /\ UNCHANGED <<page, front, file, removed, carried, tickets, spent>>
    BY DEF Composer!EndSend
  <1>2. \/ UNCHANGED <<ids, listed>>
        \/ /\ ids' = [ids EXCEPT ![t] = {}]
           /\ listed' = IF page = "staff" THEN listed ELSE [listed EXCEPT ![t] = {}]
    BY DEF Composer!EndSend
  <1>3. /\ ids' \in [Composer!Tab -> SUBSET File] /\ listed' \in [Composer!Tab -> SUBSET File]
        /\ \A u \in Composer!Tab : listed'[u] \subseteq listed[u] /\ ids'[u] \subseteq ids[u]
        /\ page # "staff" => \A f \in ids["reply"] : f \in listed'["reply"] => f \in ids'["reply"]
    <2>1. CASE UNCHANGED <<ids, listed>>
      BY <1>0, <2>1 DEF ComposerTypes
    <2>2. CASE ids' = [ids EXCEPT ![t] = {}] /\ page = "staff" /\ listed' = listed
      BY <1>0, <2>2 DEF ComposerTypes
    <2>3. CASE ids' = [ids EXCEPT ![t] = {}] /\ listed' = [listed EXCEPT ![t] = {}]
      BY <1>0, <2>3 DEF ComposerTypes, Composer!Tab
    <2>4. QED
      BY <1>2, <2>1, <2>2, <2>3
  <1>4. /\ send' \in [Submission -> ComposerSend]
        /\ \A r \in Submission : send'[r].files = send[r].files /\ send'[r].tab = send[r].tab
    BY <1>0, <1>1, SendGoes DEF ComposerPc
  <1>5. challenge' \in [Composer!Widget -> [held : Nat, solved : Nat]]
    BY <1>0, <1>1, TokenUsed DEF Composer!Widget
  <1>6. ComposerTypes'
    BY <1>0, <1>1, <1>3, <1>4, <1>5 DEF ComposerTypes
  <1>7. QED
    BY <1>1, <1>3, <1>4, <1>6, FilesUntouched

LEMMA ReloadStep == ASSUME ComposerInv, Composer!Reload PROVE ComposerInv'
  <1>0. ComposerTypes
    BY DEF ComposerInv
  <1>1. /\ front' = "reply" /\ listed' = [t \in Composer!Tab |-> {}] /\ ids' = listed'
        /\ file' = [f \in File |-> IF file[f].pc = "uploading" THEN [file[f] EXCEPT !.pc = "gone"] ELSE file[f]]
        /\ send' = [s \in Submission |-> [send[s] EXCEPT !.pc = CASE @ \in {"new", "adrift"} -> @
                                                                  [] @ = "sent" -> "adrift"
                                                                  [] OTHER -> "over"]]
        /\ challenge' = [w \in Composer!Widget |-> [challenge[w] EXCEPT !.held = 0]]
        /\ UNCHANGED <<page, removed, carried, tickets, spent>>
    BY DEF Composer!Reload
  <1>2. ASSUME NEW s \in Submission
        PROVE  send'[s] \in ComposerSend /\ send'[s].files = send[s].files /\ send'[s].tab = send[s].tab
    <2> DEFINE pc == CASE send[s].pc \in {"new", "adrift"} -> send[s].pc
                       [] send[s].pc = "sent" -> "adrift"
                       [] OTHER -> "over"
    <2>1. send[s] \in ComposerSend
      BY <1>0 DEF ComposerTypes
    <2>2. pc \in ComposerPc
      BY DEF ComposerPc
    <2>3. send'[s] = [send[s] EXCEPT !.pc = pc]
      BY <1>1, <2>1 DEF ComposerSend
    <2> HIDE DEF pc
    <2>4. QED
      BY <2>1, <2>2, <2>3 DEF ComposerSend, ComposerPc
  <1>3. ASSUME NEW f \in File
        PROVE  /\ file'[f] \in ComposerFile /\ file'[f].tab = file[f].tab /\ file'[f].at = file[f].at
               /\ file'[f].pc = IF file[f].pc = "uploading" THEN "gone" ELSE file[f].pc
    <2>1. file[f] \in ComposerFile
      BY <1>0 DEF ComposerTypes
    <2>2. QED
      BY <1>1, <2>1 DEF ComposerFile
  <1>4. challenge' \in [Composer!Widget -> [held : Nat, solved : Nat]]
    BY <1>0, <1>1 DEF ComposerTypes
  <1>5. ComposerTypes'
    BY <1>0, <1>1, <1>2, <1>3, <1>4 DEF ComposerTypes, Composer!Tab
  <1>6. ASSUME NEW f \in File PROVE Placed(f)' /\ Shelved(f)'
    <2>0. Placed(f) /\ Shelved(f)
      BY DEF ComposerInv
    <2>1. Placed(f)'
      BY <1>1, <1>3, <2>0 DEF Placed
    <2>2. \A t \in Composer!Tab : f \notin listed'[t] /\ f \notin ids'[t]
      BY <1>1
    <2>3. ASSUME NEW s \in Submission, f \in send'[s].files PROVE file'[f].tab = send'[s].tab /\ file'[f].pc # "new"
      <3>1. f \in send[s].files /\ send'[s].tab = send[s].tab
        BY <1>2, <2>3
      <3>2. QED
        BY <1>3, <2>0, <3>1 DEF Shelved
    <2>4. "reply" \in Composer!Tab
      BY DEF Composer!Tab
    <2>5. Shelved(f)'
      BY <2>2, <2>3, <2>4 DEF Shelved
    <2>6. QED
      BY <2>1, <2>5
  <1>7. QED
    BY <1>1, <1>5, <1>6 DEF ComposerInv

LEMMA ComposerStep == ASSUME ComposerInv, Composer!Next PROVE ComposerInv'
  BY WritingStep, ChooseStep, StoreStep, EndUploadStep, RemoveFileStep, SubmitMessageStep, ResolveStep, ReceiveStep,
     EndSendStep, ReloadStep DEF Composer!Next

LEMMA ComposerPromise == ComposerInv => Composer!ComposerKeepsItsWord
  <1> SUFFICES ASSUME ComposerInv PROVE Composer!ComposerKeepsItsWord
    OBVIOUS
  <1>1. Composer!FilesStayPut
    <2> SUFFICES ASSUME NEW f \in File
                 PROVE  /\ carried[f] <= 1 /\ file[f].at \in {"nowhere", "orphan", file[f].tab}
                        /\ \A t \in Composer!Tab : f \in ids[t] => t = file[f].tab /\ f \notin removed
      BY DEF Composer!FilesStayPut
    <2>1. carried[f] \in {0, 1}
      BY DEF ComposerInv, ComposerTypes
    <2>2. carried[f] <= 1
      BY <2>1
    <2>3. QED
      BY <2>2 DEF ComposerInv, Placed, Shelved
  <1>2. Composer!FormsTellTheTruth
    <2>1. ASSUME NEW k \in Composer!Token PROVE tickets[k] <= 1
      <3>1. tickets[k] \in {0, 1}
        BY DEF ComposerInv, ComposerTypes
      <3>2. QED
        BY <3>1
    <2>2. listed["reply"] \subseteq File
      BY DEF ComposerInv, ComposerTypes, Composer!Tab
    <2>3. QED
      BY <2>1, <2>2 DEF Composer!FormsTellTheTruth, ComposerInv, Shelved
  <1>3. QED
    BY <1>1, <1>2 DEF Composer!ComposerKeepsItsWord

(***************************************************************************)
(* The calls.  A call whose handler has run has an answer that neither the *)
(* retry of a refused token nor the retry of a refused session takes up;   *)
(* one that waits for a refresh waits for the page's own.                  *)
(***************************************************************************)
CsrfToken == [nr : Nat, key : Nat]
SessionToken == [nr : Nat, version : Nat, key : Nat]
CookieJar == [access : SessionToken, refresh : SessionToken, csrf : CsrfToken]
BootRecord == [page : Window, cookie : CsrfToken, token : CsrfToken, ok : BOOLEAN]
CallPc == {"idle", "boot", "mint", "csrf", "token", "db", "run", "answer", "refresh", "resume", "done"}
CallRecord ==
    [pc : CallPc, page : Window, path : {"data", "login", "refresh"}, boot : Nat, csrfAgain : BOOLEAN,
     authAgain : BOOLEAN, header : CsrfToken, jar : CookieJar,
     answer : {"none", "ok", "failed", "lost", "csrf", "unauthorized"}, rights : Nat, since : Nat]

BootsKnown ==
    /\ boots \in Seq(BootRecord) /\ tabs \in [Window -> [boot : Nat, left : BOOLEAN]]
    /\ \A p \in Window : tabs[p].boot <= Len(boots)

CallTypes ==
    /\ cookies \in CookieJar
    /\ account \in [version : Nat, rights : Nat, cutoff : Nat, key : Nat]
    /\ minted \in Nat /\ issued \in Nat
    /\ sent \in [Calls!Sender -> CallRecord]
    /\ ran \in [Ask -> {0, 1}]

\* Under whose name a request is sent.
CallNamed(s) ==
    /\ s \in Window => sent[s].page = s /\ sent[s].path = "refresh" /\ sent[s].pc # "refresh"
    /\ s \in Ask => sent[s].path # "refresh"

\* What a guard has seen of the account; what a request waits for; what a handler leaves.
CallKept(s) ==
    /\ sent[s].pc \in {"token", "db", "run"} => sent[s].since <= account.rights
    /\ sent[s].pc = "run" /\ sent[s].path = "data" => sent[s].since <= sent[s].rights
    /\ sent[s].pc = "refresh" => sent[sent[s].page].pc # "idle"
    /\ sent[s].pc \in {"boot", "mint"} => sent[s].boot \in 1 .. Len(boots)
    /\ s \in Ask /\ ran[s] = 1 =>
         sent[s].pc = "done" \/ (sent[s].pc = "answer" /\ sent[s].answer \in {"ok", "failed", "lost"})

CallInv == BootsKnown /\ CallTypes /\ \A s \in Calls!Sender : CallNamed(s) /\ CallKept(s)

LEMMA SendersDiffer == Window \cap Ask = {} /\ Window \subseteq Calls!Sender /\ Ask \subseteq Calls!Sender
  BY BrowserAssumption DEF Calls!Sender

LEMMA NewIsCall ==
    ASSUME NEW p \in Window, NEW path \in {"data", "login", "refresh"}
    PROVE  Calls!New(p, path) \in CallRecord
  <1>1. Calls!NoJar \in CookieJar /\ Calls!NoCsrf \in CsrfToken
    BY DEF Calls!NoJar, Calls!NoCookie, Calls!NoCsrf, CookieJar, SessionToken, CsrfToken
  <1>2. QED
    BY <1>1 DEF Calls!New, CallRecord, CallPc

LEMMA CallInit == Calls!Init => CallInv
  <1> SUFFICES ASSUME Calls!Init PROVE CallInv
    OBVIOUS
  <1>1. BootsKnown
    BY DEF Calls!Init, BootsKnown
  <1>2. PICK f \in [Calls!Sender -> {Calls!New(p, path) : p \in Window, path \in {"data", "login", "refresh"}}] :
          /\ sent = f /\ \A c \in Ask : f[c].path # "refresh"
          /\ \A p \in Window : f[p] = Calls!New(p, "refresh")
    BY DEF Calls!Init
  <1>3. ASSUME NEW s \in Calls!Sender PROVE sent[s] \in CallRecord /\ sent[s].pc = "idle"
    <2> DEFINE news == {Calls!New(p, path) : p \in Window, path \in {"data", "login", "refresh"}}
    <2>1. sent[s] \in news
      <3> HIDE DEF news
      <3>1. QED
        BY <1>2 DEF news
    <2>2. PICK p \in Window, path \in {"data", "login", "refresh"} : sent[s] = Calls!New(p, path)
      BY <2>1
    <2>3. sent[s] \in CallRecord
      BY <2>2, NewIsCall
    <2>4. Calls!New(p, path).pc = "idle"
      BY DEF Calls!New
    <2>5. QED
      BY <2>2, <2>3, <2>4
  <1>4. sent \in [Calls!Sender -> CallRecord]
    BY <1>2, <1>3
  <1>5. cookies \in CookieJar
    BY DEF Calls!Init, Calls!First, Calls!NoCsrf, CookieJar, SessionToken, CsrfToken
  <1>6. ran \in [Ask -> {0, 1}] /\ \A c \in Ask : ran[c] = 0
    BY DEF Calls!Init
  <1>7. CallTypes
    BY <1>4, <1>5, <1>6 DEF Calls!Init, CallTypes
  <1>8. ASSUME NEW s \in Calls!Sender PROVE CallNamed(s) /\ CallKept(s)
    <2>1. ASSUME s \in Window PROVE sent[s].page = s /\ sent[s].path = "refresh"
      <3>1. sent[s] = Calls!New(s, "refresh")
        BY <1>2, <2>1
      <3>2. QED
        BY <3>1 DEF Calls!New
    <2>2. CallNamed(s)
      BY <1>2, <1>3, <2>1 DEF CallNamed
    <2>3. CallKept(s)
      BY <1>3, <1>6 DEF CallKept
    <2>4. QED
      BY <2>2, <2>3
  <1>9. QED
    BY <1>1, <1>7, <1>8 DEF CallInv

\* One request is touched: those who wait for it still do.
LEMMA OneRequestGoes ==
    ASSUME CallInv, BootsKnown', CallTypes', NEW s \in Calls!Sender,
           \A r \in Calls!Sender : r # s => sent'[r] = sent[r],
           Len(boots') >= Len(boots), account'.rights = account.rights,
           \A c \in Ask : c # s => ran'[c] = ran[c],
           sent'[s].page = sent[s].page, sent'[s].path = sent[s].path, sent'[s].pc # "idle",
           s \in Window => sent'[s].pc # "refresh", CallKept(s)'
    PROVE  CallInv'
  <1>1. ASSUME NEW r \in Calls!Sender PROVE CallNamed(r)' /\ CallKept(r)'
    <2>0. CallNamed(r) /\ CallKept(r)
      BY DEF CallInv
    <2>1. CASE r = s
      <3>1. CallNamed(r)'
        BY <2>0, <2>1 DEF CallNamed
      <3>2. QED
        BY <2>1, <3>1
    <2>2. CASE r # s
      <3>1. sent'[r] = sent[r] /\ (r \in Ask => ran'[r] = ran[r])
        BY <2>2
      <3>2. CallNamed(r)'
        BY <2>0, <3>1 DEF CallNamed
      <3>3. sent[r].pc = "refresh" => sent'[sent[r].page].pc # "idle"
        <4>1. sent[r].page \in Calls!Sender
          BY SendersDiffer DEF CallInv, CallTypes, CallRecord
        <4>2. CASE sent[r].page = s
          BY <4>2
        <4>3. CASE sent[r].page # s
          BY <2>0, <4>1, <4>3 DEF CallKept
        <4>4. QED
          BY <4>2, <4>3
      <3>4. sent[r].pc \in {"boot", "mint"} => sent[r].boot \in 1 .. Len(boots')
        BY <2>0 DEF CallKept, CallInv, BootsKnown
      <3>5. CallKept(r)'
        BY <2>0, <3>1, <3>3, <3>4 DEF CallKept
      <3>6. QED
        BY <3>2, <3>5
    <2>3. QED
      BY <2>1, <2>2
  <1>2. QED
    BY <1>1 DEF CallInv

\* No request is touched.
LEMMA RequestsRest ==
    ASSUME CallInv, BootsKnown', CallTypes', UNCHANGED <<sent, ran>>, Len(boots') >= Len(boots),
           account'.rights >= account.rights
    PROVE  CallInv'
  <1>1. ASSUME NEW s \in Calls!Sender PROVE CallNamed(s)' /\ CallKept(s)'
    <2>0. CallNamed(s) /\ CallKept(s) /\ sent[s] \in CallRecord
      BY DEF CallInv, CallTypes
    <2>1. CallNamed(s)'
      BY <2>0 DEF CallNamed
    <2>2. sent[s].pc \in {"boot", "mint"} => sent[s].boot \in 1 .. Len(boots')
      BY <2>0 DEF CallKept, CallInv, BootsKnown
    <2>3. sent[s].pc \in {"token", "db", "run"} => sent[s].since <= account'.rights
      BY <2>0 DEF CallKept, CallInv, CallTypes, CallRecord
    <2>4. CallKept(s)'
      BY <2>0, <2>2, <2>3 DEF CallKept
    <2>5. QED
      BY <2>1, <2>4
  <1>2. QED
    BY <1>1 DEF CallInv

\* The page asks for a token.
LEMMA TokenAsked ==
    ASSUME BootsKnown, CallTypes, NEW p \in Window, Calls!NoCsrf \in CsrfToken,
           boots' = Append(boots, [page |-> p, cookie |-> cookies.csrf, token |-> Calls!NoCsrf, ok |-> TRUE]),
           tabs' = [tabs EXCEPT ![p].boot = Len(boots) + 1]
    PROVE  BootsKnown' /\ Len(boots') = Len(boots) + 1 /\ tabs'[p].boot = Len(boots) + 1
  <1> DEFINE b == [page |-> p, cookie |-> cookies.csrf, token |-> Calls!NoCsrf, ok |-> TRUE]
             n == Len(boots) + 1
  <1>1. b \in BootRecord /\ n \in Nat /\ n > Len(boots)
    BY DEF BootRecord, BootsKnown, CallTypes, CookieJar
  <1>2. boots' = Append(boots, b) /\ tabs' = [tabs EXCEPT ![p].boot = n]
    OBVIOUS
  <1>3. boots' \in Seq(BootRecord) /\ Len(boots') = n
    <2> HIDE DEF b
    <2>1. QED
      BY <1>1, <1>2 DEF BootsKnown
  <1> HIDE DEF b
  <1>4. /\ tabs' \in [Window -> [boot : Nat, left : BOOLEAN]] /\ tabs'[p].boot = n
        /\ \A q \in Window : q # p => tabs'[q] = tabs[q]
    <2> HIDE DEF n
    <2>1. QED
      BY <1>1, <1>2 DEF BootsKnown
  <1>5. \A q \in Window : tabs'[q].boot <= n
    BY <1>1, <1>4 DEF BootsKnown
  <1>6. QED
    BY <1>3, <1>4, <1>5 DEF BootsKnown

LEMMA NoCsrfIsToken == Calls!NoCsrf \in CsrfToken
  BY DEF Calls!NoCsrf, CsrfToken

\* A request that waits for the token of its page.
LEMMA AwaitGoes ==
    ASSUME CallInv, NEW s \in Calls!Sender, Calls!Await(s, "boot", sent[s]),
           UNCHANGED <<cookies, account, minted, issued, ran>>, s \in Ask => ran[s] # 1
    PROVE  CallInv'
  <1> DEFINE p == sent[s].page
             b == tabs'[p].boot
             x == [sent[s] EXCEPT !.pc = "boot", !.boot = b]
  <1>0. BootsKnown /\ CallTypes /\ sent[s] \in CallRecord /\ p \in Window /\ CallNamed(s) /\ CallKept(s)
    BY DEF CallInv, CallTypes, CallRecord
  <1>1. sent' = [sent EXCEPT ![s] = x]
    BY DEF Calls!Await
  <1>2. BootsKnown' /\ Len(boots') >= Len(boots) /\ b \in 1 .. Len(boots')
    <2>1. CASE tabs[p].boot = 0
      <3>1. /\ boots' = Append(boots, [page |-> p, cookie |-> cookies.csrf, token |-> Calls!NoCsrf, ok |-> TRUE])
            /\ tabs' = [tabs EXCEPT ![p].boot = Len(boots) + 1]
        BY <2>1 DEF Calls!Await
      <3>2. Len(boots) \in Nat
        BY <1>0 DEF BootsKnown
      <3> HIDE DEF p
      <3>3. BootsKnown' /\ Len(boots') = Len(boots) + 1 /\ tabs'[p].boot = Len(boots) + 1
        BY <1>0, <3>1, NoCsrfIsToken, TokenAsked
      <3>4. QED
        BY <3>2, <3>3
    <2>2. CASE tabs[p].boot # 0
      <3>1. boots' = boots /\ tabs' = tabs
        BY <2>2 DEF Calls!Await
      <3> HIDE DEF p
      <3>2. QED
        BY <1>0, <2>2, <3>1 DEF BootsKnown
    <2>3. QED
      BY <2>1, <2>2
  <1>3. b \in Nat
    BY <1>0, <1>2 DEF BootsKnown
  <1> HIDE DEF b, p
  <1>4. /\ x \in CallRecord /\ x.pc = "boot" /\ x.boot = b /\ x.page = sent[s].page /\ x.path = sent[s].path
    BY <1>0, <1>3 DEF CallRecord, CallPc
  <1> HIDE DEF x
  <1>5. sent' \in [Calls!Sender -> CallRecord] /\ sent'[s] = x /\ \A r \in Calls!Sender : r # s => sent'[r] = sent[r]
    BY <1>0, <1>1, <1>4 DEF CallTypes
  <1>6. CallTypes'
    BY <1>0, <1>5 DEF CallTypes
  <1>7. CallKept(s)'
    BY <1>2, <1>4, <1>5 DEF CallKept
  <1>8. QED
    BY <1>2, <1>4, <1>5, <1>6, <1>7, OneRequestGoes

LEMMA BeginStep == ASSUME CallInv, NEW c \in Ask, Calls!Begin(c) \/ Calls!Resume(c) PROVE CallInv'
  <1>1. c \in Calls!Sender /\ sent[c].pc \in {"idle", "resume"} /\ Calls!Await(c, "boot", sent[c])
        /\ UNCHANGED <<cookies, account, minted, issued, ran>>
    BY SendersDiffer DEF Calls!Begin, Calls!Resume, Calls!At
  <1>2. ran[c] # 1
    BY <1>1 DEF CallInv, CallKept
  <1>3. QED
    BY <1>1, <1>2, AwaitGoes

LEMMA SendAgainStep == ASSUME CallInv, NEW s \in Calls!Sender, Calls!SendAgain(s) PROVE CallInv'
  <1>0. BootsKnown /\ CallTypes /\ sent[s] \in CallRecord /\ CallKept(s) /\ sent[s].pc = "mint"
        /\ UNCHANGED <<cookies, account, minted, issued, ran>>
    BY DEF CallInv, CallTypes, Calls!SendAgain, Calls!At
  <1>1. s \in Ask => ran[s] # 1
    BY <1>0 DEF CallKept
  <1>2. CASE Calls!Await(s, "boot", sent[s])
    BY <1>0, <1>1, <1>2, AwaitGoes
  <1>3. CASE Calls!Answer(s, "lost") /\ UNCHANGED <<tabs, boots>>
    <2>1. /\ sent' \in [Calls!Sender -> CallRecord] /\ \A r \in Calls!Sender : r # s => sent'[r] = sent[r]
          /\ sent'[s].pc = "answer" /\ sent'[s].page = sent[s].page /\ sent'[s].path = sent[s].path
      BY <1>0, <1>3 DEF Calls!Answer, CallTypes, CallRecord, CallPc
    <2>2. CallTypes' /\ BootsKnown' /\ Len(boots') >= Len(boots)
      BY <1>0, <1>3, <2>1 DEF CallTypes, BootsKnown
    <2>3. CallKept(s)'
      BY <1>0, <1>1, <2>1 DEF CallKept
    <2>4. QED
      BY <1>0, <2>1, <2>2, <2>3, OneRequestGoes
  <1>4. QED
    BY <1>2, <1>3 DEF Calls!SendAgain

\* What does not touch the page's requests for a token.
LEMMA RequestGoes ==
    ASSUME CallInv, NEW s \in Calls!Sender, sent' \in [Calls!Sender -> CallRecord],
           \A r \in Calls!Sender : r # s => sent'[r] = sent[r],
           UNCHANGED <<tabs, boots, account>>, cookies' \in CookieJar, minted' \in Nat, issued' \in Nat,
           ran' \in [Ask -> {0, 1}], \A c \in Ask : c # s => ran'[c] = ran[c],
           sent'[s].page = sent[s].page, sent'[s].path = sent[s].path, sent'[s].pc \notin {"idle", "refresh"},
           CallKept(s)'
    PROVE  CallInv'
  <1>1. BootsKnown' /\ Len(boots') >= Len(boots)
    BY DEF CallInv, BootsKnown
  <1>2. CallTypes'
    BY DEF CallInv, CallTypes
  <1>3. QED
    BY <1>1, <1>2, OneRequestGoes

LEMMA SendStep == ASSUME CallInv, NEW s \in Calls!Sender, Calls!Send(s) PROVE CallInv'
  <1>0. BootsKnown /\ CallTypes /\ sent[s] \in CallRecord /\ CallKept(s) /\ sent[s].pc = "boot"
        /\ UNCHANGED <<cookies, tabs, boots, account, minted, issued, ran>>
    BY DEF CallInv, CallTypes, Calls!Send, Calls!At
  <1>1. ~(s \in Ask /\ ran[s] = 1)
    BY <1>0 DEF CallKept
  <1>2. boots[sent[s].boot].token \in CsrfToken
    <2>1. sent[s].boot \in 1 .. Len(boots)
      BY <1>0 DEF CallKept
    <2>2. boots[sent[s].boot] \in BootRecord
      BY <1>0, <2>1 DEF BootsKnown
    <2>3. QED
      BY <2>2 DEF BootRecord
  <1> DEFINE t == boots[sent[s].boot].token
  <1>3. \/ sent' = [sent EXCEPT ![s].pc = "csrf", ![s].header = t, ![s].jar = cookies]
        \/ sent' = [sent EXCEPT ![s].pc = "answer", ![s].answer = "lost"]
    BY DEF Calls!Send
  <1> HIDE DEF t
  <1>4. /\ sent' \in [Calls!Sender -> CallRecord] /\ \A r \in Calls!Sender : r # s => sent'[r] = sent[r]
        /\ sent'[s].pc \in {"csrf", "answer"} /\ sent'[s].page = sent[s].page /\ sent'[s].path = sent[s].path
    <2>1. CASE sent' = [sent EXCEPT ![s].pc = "csrf", ![s].header = t, ![s].jar = cookies]
      BY <1>0, <1>2, <2>1 DEF CallTypes, CallRecord, CallPc, t
    <2>2. CASE sent' = [sent EXCEPT ![s].pc = "answer", ![s].answer = "lost"]
      BY <1>0, <2>2 DEF CallTypes, CallRecord, CallPc
    <2>3. QED
      BY <1>3, <2>1, <2>2
  <1>5. CallKept(s)'
    BY <1>0, <1>1, <1>4 DEF CallKept
  <1>6. QED
    BY <1>0, <1>4, <1>5, RequestGoes DEF CallTypes

\* The guards: what they have seen of the account is of now.
LEMMA GuardStep ==
    ASSUME CallInv, NEW s \in Calls!Sender, Calls!CsrfGuard(s) \/ Calls!CheckToken(s) \/ Calls!CheckStaff(s)
    PROVE  CallInv'
  <1>0. /\ CallTypes /\ sent[s] \in CallRecord /\ CallKept(s) /\ account.rights \in Nat
        /\ sent[s].pc \in {"csrf", "token", "db"} /\ UNCHANGED <<cookies, tabs, boots, account, minted, issued, ran>>
    BY DEF CallInv, CallTypes, Calls!CsrfGuard, Calls!CheckToken, Calls!CheckStaff, Calls!At
  <1>1. ~(s \in Ask /\ ran[s] = 1)
    BY <1>0 DEF CallKept
  <1> DEFINE here == account.rights
  <1>2. \/ \E a \in {"csrf", "unauthorized", "failed"} : sent' = [sent EXCEPT ![s].pc = "answer", ![s].answer = a]
        \/ \E pc \in {"token", "run"} :
             /\ pc = "run" => sent[s].path # "data"
             /\ sent' = [sent EXCEPT ![s].pc = pc, ![s].since = here]
        \/ sent[s].pc = "token" /\ sent' = [sent EXCEPT ![s].pc = "db"]
        \/ sent[s].pc = "db" /\ sent' = [sent EXCEPT ![s] = [sent[s] EXCEPT !.pc = "run", !.rights = here]]
    <2>1. CASE Calls!CsrfGuard(s)
      BY <2>1 DEF Calls!CsrfGuard, Calls!Answer
    <2>2. CASE Calls!CheckToken(s)
      BY <2>2 DEF Calls!CheckToken, Calls!Answer, Calls!Step, Calls!At
    <2>3. CASE Calls!CheckStaff(s)
      BY <2>3 DEF Calls!CheckStaff, Calls!Answer, Calls!Principal, Calls!At
    <2>4. QED
      BY <2>1, <2>2, <2>3
  <1>3. /\ sent' \in [Calls!Sender -> CallRecord] /\ \A r \in Calls!Sender : r # s => sent'[r] = sent[r]
        /\ sent'[s].page = sent[s].page /\ sent'[s].path = sent[s].path
        /\ \/ sent'[s].pc = "answer"
           \/ sent'[s].pc \in {"token", "run"} /\ sent'[s].since = here /\ (sent'[s].pc = "run" => sent[s].path # "data")
           \/ sent'[s].pc = "db" /\ sent[s].pc = "token" /\ sent'[s].since = sent[s].since
           \/ sent'[s].pc = "run" /\ sent[s].pc = "db" /\ sent'[s].since = sent[s].since /\ sent'[s].rights = here
    <2> HIDE DEF here
    <2>0. here \in Nat
      BY <1>0 DEF here
    <2>1. ASSUME NEW a \in {"csrf", "unauthorized", "failed"}, sent' = [sent EXCEPT ![s].pc = "answer", ![s].answer = a]
          PROVE  <1>3
      BY <1>0, <2>1 DEF CallTypes, CallRecord, CallPc
    <2>2. ASSUME NEW pc \in {"token", "run"}, sent' = [sent EXCEPT ![s].pc = pc, ![s].since = here],
                 pc = "run" => sent[s].path # "data"
          PROVE  <1>3
      BY <1>0, <2>0, <2>2 DEF CallTypes, CallRecord, CallPc
    <2>3. CASE sent[s].pc = "token" /\ sent' = [sent EXCEPT ![s].pc = "db"]
      BY <1>0, <2>3 DEF CallTypes, CallRecord, CallPc
    <2>4. CASE sent[s].pc = "db" /\ sent' = [sent EXCEPT ![s] = [sent[s] EXCEPT !.pc = "run", !.rights = here]]
      BY <1>0, <2>0, <2>4 DEF CallTypes, CallRecord, CallPc
    <2>5. QED
      BY <1>2, <2>1, <2>2, <2>3, <2>4
  <1>4. CallKept(s)'
    <2>1. sent[s].pc \in {"token", "db"} => sent[s].since <= account.rights
      BY <1>0 DEF CallKept
    <2>2. account' = account /\ ran' = ran
      BY <1>0
    <2>3. CASE sent'[s].pc = "answer"
      BY <1>1, <2>2, <2>3 DEF CallKept
    <2>4. CASE sent'[s].pc \in {"token", "run"} /\ sent'[s].since = here /\ (sent'[s].pc = "run" => sent[s].path # "data")
      BY <1>0, <1>1, <1>3, <2>2, <2>4 DEF CallKept
    <2>5. CASE sent'[s].pc = "db" /\ sent[s].pc = "token" /\ sent'[s].since = sent[s].since
      BY <1>1, <2>1, <2>2, <2>5 DEF CallKept
    <2>6. CASE sent'[s].pc = "run" /\ sent[s].pc = "db" /\ sent'[s].since = sent[s].since /\ sent'[s].rights = here
      BY <1>1, <2>1, <2>2, <2>6 DEF CallKept
    <2>7. QED
      BY <1>3, <2>3, <2>4, <2>5, <2>6
  <1>5. QED
    BY <1>0, <1>3, <1>4, RequestGoes DEF CallTypes

LEMMA RunCallStep == ASSUME CallInv, NEW c \in Ask, Calls!RunCall(c) PROVE CallInv'
  <1>0. /\ CallTypes /\ c \in Calls!Sender /\ sent[c] \in CallRecord /\ CallKept(c) /\ sent[c].pc = "run"
        /\ UNCHANGED <<cookies, tabs, boots, account, minted, issued>>
    BY SendersDiffer DEF CallInv, CallTypes, Calls!RunCall, Calls!At
  <1>1. ran[c] = 0
    BY <1>0 DEF CallKept, CallTypes
  <1>2. PICK a \in {"ok", "failed"} : sent' = [sent EXCEPT ![c].pc = "answer", ![c].answer = a]
    BY DEF Calls!RunCall, Calls!Answer
  <1>3. ran' = [ran EXCEPT ![c] = ran[c] + 1] \/ ran' = ran
    BY DEF Calls!RunCall
  <1>4. ran' \in [Ask -> {0, 1}] /\ \A d \in Ask : d # c => ran'[d] = ran[d]
    BY <1>0, <1>1, <1>3 DEF CallTypes
  <1>5. /\ sent' \in [Calls!Sender -> CallRecord] /\ \A r \in Calls!Sender : r # c => sent'[r] = sent[r]
        /\ sent'[c].page = sent[c].page /\ sent'[c].path = sent[c].path /\ sent'[c].pc = "answer" /\ sent'[c].answer = a
    BY <1>0, <1>2 DEF CallTypes, CallRecord, CallPc
  <1>6. CallKept(c)'
    BY <1>5 DEF CallKept
  <1>7. QED
    BY <1>0, <1>4, <1>5, <1>6, RequestGoes DEF CallTypes

LEMMA TokenIssued ==
    ASSUME CallTypes, NEW t \in CsrfToken
    PROVE  Calls!Issued(t) \in CsrfToken /\ Calls!Issued(t).nr \in Nat
  BY DEF CallTypes, CsrfToken, Calls!Issued

LEMMA RunAuthStep == ASSUME CallInv, NEW s \in Calls!Sender, Calls!RunAuth(s) PROVE CallInv'
  <1>0. /\ CallTypes /\ sent[s] \in CallRecord /\ CallKept(s) /\ sent[s].pc = "run"
        /\ UNCHANGED <<cookies, tabs, boots, account>>
    BY DEF CallInv, CallTypes, Calls!RunAuth, Calls!At
  <1> DEFINE t == Calls!Issued(sent[s].jar.csrf)
             v == [nr |-> minted + 1, version |-> account.version, key |-> account.key]
             j == [access |-> v, refresh |-> v, csrf |-> t]
             k == IF sent[s].path = "refresh" THEN Calls!NoJar ELSE sent[s].jar
  <1>1. s \in Ask => ran[s] = 0
    BY <1>0 DEF CallKept, CallTypes
  <1>2. \/ /\ minted' = minted + 1 /\ issued' = (IF t.nr > issued THEN t.nr ELSE issued)
           /\ sent' = [sent EXCEPT ![s].pc = "answer", ![s].answer = "ok", ![s].jar = j]
        \/ /\ UNCHANGED <<minted, issued>>
           /\ sent' = [sent EXCEPT ![s].pc = "answer", ![s].answer = "unauthorized", ![s].jar = k]
    <2>1. CASE Calls!SetCookies(s)
      BY <2>1 DEF Calls!SetCookies
    <2>2. CASE /\ UNCHANGED <<minted, issued>>
               /\ sent' = [sent EXCEPT ![s].pc = "answer", ![s].answer = "unauthorized",
                                       ![s].jar = IF sent[s].path = "refresh" THEN Calls!NoJar ELSE @]
      BY <1>0, <2>2 DEF CallTypes, CallRecord
    <2>3. QED
      BY <2>1, <2>2 DEF Calls!RunAuth
  <1>3. t \in CsrfToken /\ t.nr \in Nat
    BY <1>0, TokenIssued DEF CallRecord, CookieJar
  <1> HIDE DEF t
  <1>4. j \in CookieJar
    <2>1. v \in SessionToken
      BY <1>0 DEF CallTypes, SessionToken
    <2> HIDE DEF v
    <2>2. QED
      BY <1>3, <2>1 DEF CookieJar
  <1>5. k \in CookieJar
    BY <1>0 DEF CallRecord, Calls!NoJar, Calls!NoCookie, Calls!NoCsrf, CookieJar, SessionToken, CsrfToken
  <1> HIDE DEF j, k
  <1>6. minted' \in Nat /\ issued' \in Nat
    BY <1>0, <1>2, <1>3 DEF CallTypes
  <1>7. /\ sent' \in [Calls!Sender -> CallRecord] /\ \A r \in Calls!Sender : r # s => sent'[r] = sent[r]
        /\ sent'[s].page = sent[s].page /\ sent'[s].path = sent[s].path /\ sent'[s].pc = "answer"
    <2>1. CASE sent' = [sent EXCEPT ![s].pc = "answer", ![s].answer = "ok", ![s].jar = j]
      BY <1>0, <1>4, <2>1 DEF CallTypes, CallRecord, CallPc
    <2>2. CASE sent' = [sent EXCEPT ![s].pc = "answer", ![s].answer = "unauthorized", ![s].jar = k]
      BY <1>0, <1>5, <2>2 DEF CallTypes, CallRecord, CallPc
    <2>3. QED
      BY <1>2, <2>1, <2>2
  <1>8. /\ ran' \in [Ask -> {0, 1}] /\ \A d \in Ask : d # s => ran'[d] = ran[d]
        /\ s \in Ask /\ ran'[s] = 1 => sent'[s].answer = "ok"
    <2>1. CASE s \in Ask /\ sent'[s].answer = "ok"
      <3>1. ran' = [ran EXCEPT ![s] = ran[s] + 1]
        BY <2>1 DEF Calls!RunAuth
      <3>2. ran[s] + 1 = 1
        BY <1>1, <2>1
      <3>3. QED
        BY <1>0, <2>1, <3>1, <3>2 DEF CallTypes
    <2>2. CASE ~(s \in Ask /\ sent'[s].answer = "ok")
      <3>1. ran' = ran
        BY <2>2 DEF Calls!RunAuth
      <3>2. QED
        BY <1>0, <1>1, <3>1 DEF CallTypes
    <2>3. QED
      BY <2>1, <2>2
  <1>9. CallKept(s)'
    BY <1>7, <1>8 DEF CallKept
  <1>10. QED
    BY <1>0, <1>6, <1>7, <1>8, <1>9, RequestGoes DEF CallTypes

LEMMA LoseStep == ASSUME CallInv, NEW s \in Calls!Sender, Calls!Lose(s) PROVE CallInv'
  <1>0. CallTypes /\ sent[s] \in CallRecord /\ UNCHANGED <<cookies, tabs, boots, account, minted, issued, ran>>
    BY DEF CallInv, CallTypes, Calls!Lose
  <1>1. sent' = [sent EXCEPT ![s].pc = "answer", ![s].answer = "lost"]
    BY DEF Calls!Lose, Calls!Answer
  <1>2. /\ sent' \in [Calls!Sender -> CallRecord] /\ \A r \in Calls!Sender : r # s => sent'[r] = sent[r]
        /\ sent'[s].page = sent[s].page /\ sent'[s].path = sent[s].path /\ sent'[s].pc = "answer"
        /\ sent'[s].answer = "lost"
    BY <1>0, <1>1 DEF CallTypes, CallRecord, CallPc
  <1>3. CallKept(s)'
    BY <1>2 DEF CallKept
  <1>4. QED
    BY <1>0, <1>2, <1>3, RequestGoes DEF CallTypes

LEMMA RecoverStep == ASSUME CallInv, NEW s \in Calls!Sender, Calls!Recover(s) PROVE CallInv'
  <1> DEFINE p == sent[s].page
             n == Len(boots) + 1
  <1>0. /\ BootsKnown /\ CallTypes /\ sent[s] \in CallRecord /\ p \in Window /\ CallKept(s) /\ n \in Nat
        /\ sent[s].pc = "answer" /\ sent[s].answer = "csrf"
        /\ UNCHANGED <<cookies, account, minted, issued, ran>>
    BY DEF CallInv, CallTypes, CallRecord, BootsKnown, Calls!Recover, Calls!Recovers, Calls!At
  <1>1. /\ boots' = Append(boots, [page |-> p, cookie |-> cookies.csrf, token |-> Calls!NoCsrf, ok |-> TRUE])
        /\ tabs' = [tabs EXCEPT ![p].boot = n]
        /\ sent' = [sent EXCEPT ![s].pc = "mint", ![s].boot = n, ![s].csrfAgain = TRUE, ![s].answer = "none"]
    BY DEF Calls!Recover
  <1>2. BootsKnown' /\ Len(boots') = n
    <2> HIDE DEF p
    <2>1. QED
      BY <1>0, <1>1, NoCsrfIsToken, TokenAsked
  <1>3. n \in 1 .. Len(boots') /\ Len(boots') >= Len(boots)
    BY <1>0, <1>2 DEF BootsKnown
  <1> HIDE DEF n, p
  <1>4. /\ sent' \in [Calls!Sender -> CallRecord] /\ \A r \in Calls!Sender : r # s => sent'[r] = sent[r]
        /\ sent'[s].page = sent[s].page /\ sent'[s].path = sent[s].path /\ sent'[s].pc = "mint" /\ sent'[s].boot = n
    BY <1>0, <1>1 DEF CallTypes, CallRecord, CallPc
  <1>5. ~(s \in Ask /\ ran[s] = 1)
    BY <1>0 DEF CallKept
  <1>6. CallKept(s)'
    BY <1>0, <1>3, <1>4, <1>5 DEF CallKept
  <1>7. CallTypes'
    BY <1>0, <1>4 DEF CallTypes
  <1>8. QED
    BY <1>0, <1>2, <1>3, <1>4, <1>6, <1>7, OneRequestGoes

\* A call waits for the refresh of its page; the first that does starts it.
LEMMA RefreshStep == ASSUME CallInv, NEW c \in Ask, Calls!Refresh(c) PROVE CallInv'
  <1> DEFINE p == sent[c].page
             waits == [sent EXCEPT ![c].pc = "refresh", ![c].answer = "none"]
             n == Len(boots) + 1
             b == IF tabs[p].boot = 0 THEN n ELSE tabs[p].boot
  <1>0. /\ BootsKnown /\ CallTypes /\ c \in Calls!Sender /\ sent[c] \in CallRecord /\ p \in Window /\ p \in Calls!Sender
        /\ p # c /\ CallNamed(c) /\ CallKept(c) /\ CallNamed(p) /\ CallKept(p) /\ sent[p] \in CallRecord
        /\ sent[c].pc = "answer" /\ sent[c].answer = "unauthorized"
        /\ UNCHANGED <<cookies, account, minted, issued, ran>>
    BY SendersDiffer DEF CallInv, CallTypes, CallRecord, Calls!Refresh, Calls!Refreshes, Calls!At
  <1>1. ~(c \in Ask /\ ran[c] = 1)
    BY <1>0 DEF CallKept
  <1>2. /\ waits \in [Calls!Sender -> CallRecord] /\ \A r \in Calls!Sender : r # c => waits[r] = sent[r]
        /\ waits[c].page = p /\ waits[c].path = sent[c].path /\ waits[c].pc = "refresh"
    BY <1>0 DEF CallTypes, CallRecord, CallPc
  <1>3. CASE sent[p].pc # "idle"
    <2>1. sent' = waits /\ UNCHANGED <<tabs, boots>>
      BY <1>3 DEF Calls!Refresh, Calls!At
    <2> HIDE DEF waits, p
    <2>2. CallTypes' /\ BootsKnown' /\ Len(boots') >= Len(boots)
      BY <1>0, <1>2, <2>1 DEF CallTypes, BootsKnown
    <2>3. sent'[sent'[c].page].pc # "idle"
      BY <1>0, <1>2, <1>3, <2>1
    <2>4. CallKept(c)'
      BY <1>0, <1>1, <1>2, <2>1, <2>3 DEF CallKept
    <2>5. c \notin Window
      BY SendersDiffer
    <2>6. QED
      BY <1>0, <1>2, <2>1, <2>2, <2>4, <2>5, OneRequestGoes DEF p
  <1>4. CASE sent[p].pc = "idle"
    <2>1. /\ sent' = [waits EXCEPT ![p].pc = "boot", ![p].boot = b] /\ tabs' = [tabs EXCEPT ![p].boot = b]
          /\ boots' = IF tabs[p].boot = 0
                      THEN Append(boots, [page |-> p, cookie |-> cookies.csrf, token |-> Calls!NoCsrf, ok |-> TRUE])
                      ELSE boots
      BY <1>4 DEF Calls!Refresh, Calls!At
    <2>2. BootsKnown' /\ b \in 1 .. Len(boots') /\ b \in Nat /\ Len(boots') >= Len(boots)
      <3> HIDE DEF p
      <3>1. CASE tabs[p].boot = 0
        <4>1. BootsKnown' /\ Len(boots') = n
          BY <1>0, <2>1, <3>1, NoCsrfIsToken, TokenAsked
        <4>2. n \in Nat /\ n > 0 /\ n > Len(boots) /\ b = n
          BY <1>0, <3>1 DEF BootsKnown
        <4> HIDE DEF b, n
        <4>3. QED
          BY <1>0, <4>1, <4>2 DEF BootsKnown
      <3>2. CASE tabs[p].boot # 0
        <4>1. boots' = boots /\ b = tabs[p].boot
          BY <2>1, <3>2
        <4>2. tabs' = tabs
          BY <1>0, <2>1, <4>1 DEF BootsKnown
        <4> HIDE DEF b
        <4>3. QED
          BY <1>0, <3>2, <4>1, <4>2 DEF BootsKnown
      <3>3. QED
        BY <3>1, <3>2
    <2> HIDE DEF waits, p, b
    <2>3. /\ sent' \in [Calls!Sender -> CallRecord] /\ \A r \in Calls!Sender : r # p => sent'[r] = waits[r]
          /\ sent'[p].page = waits[p].page /\ sent'[p].path = waits[p].path /\ sent'[p].pc = "boot" /\ sent'[p].boot = b
      <3>1. waits[p] \in CallRecord
        BY <1>0, <1>2
      <3>2. sent' = [waits EXCEPT ![p] = [waits[p] EXCEPT !.pc = "boot", !.boot = b]]
        BY <1>0, <1>2, <2>1, <3>1 DEF CallRecord
      <3> DEFINE x == [waits[p] EXCEPT !.pc = "boot", !.boot = b]
      <3>3. x \in CallRecord /\ x.page = waits[p].page /\ x.path = waits[p].path /\ x.pc = "boot" /\ x.boot = b
        BY <2>2, <3>1 DEF CallRecord, CallPc
      <3> HIDE DEF x
      <3>4. QED
        BY <1>0, <1>2, <3>2, <3>3 DEF x
    <2>4. CallTypes'
      BY <1>0, <2>3 DEF CallTypes
    <2>5. ASSUME NEW r \in Calls!Sender PROVE CallNamed(r)' /\ CallKept(r)'
      <3>0. CallNamed(r) /\ CallKept(r)
        BY DEF CallInv
      <3>1. CASE r = c
        <4>1. sent'[r] = waits[c] /\ sent'[p].pc = "boot" /\ ran'[r] = ran[r] /\ r \notin Window
          BY <1>0, <2>3, <3>1, SendersDiffer
        <4>2. CallNamed(r)'
          BY <1>2, <3>0, <3>1, <4>1 DEF CallNamed
        <4>3. CallKept(r)'
          BY <1>0, <1>1, <1>2, <3>1, <4>1 DEF CallKept
        <4>4. QED
          BY <4>2, <4>3
      <3>2. CASE r = p
        <4>1. sent'[r].page = sent[r].page /\ sent'[r].path = sent[r].path /\ r \notin Ask
          BY <1>0, <1>2, <2>3, <3>2, SendersDiffer
        <4>2. CallNamed(r)'
          BY <2>3, <3>0, <3>2, <4>1 DEF CallNamed
        <4>3. CallKept(r)'
          BY <2>2, <2>3, <3>2, <4>1 DEF CallKept
        <4>4. QED
          BY <4>2, <4>3
      <3>3. CASE r # c /\ r # p
        <4>1. sent'[r] = sent[r] /\ ran' = ran /\ account' = account
          BY <1>0, <1>2, <2>3, <3>3
        <4>2. CallNamed(r)'
          BY <3>0, <4>1 DEF CallNamed
        <4>3. sent[r].pc = "refresh" => sent'[sent[r].page].pc # "idle"
          <5>1. sent[r].page \in Calls!Sender
            BY SendersDiffer DEF CallInv, CallTypes, CallRecord
          <5>2. CASE sent[r].page = p
            BY <2>3, <5>2
          <5>3. CASE sent[r].page = c
            BY <5>3, SendersDiffer DEF CallInv, CallTypes, CallRecord
          <5>4. CASE sent[r].page # p /\ sent[r].page # c
            BY <1>2, <2>3, <3>0, <5>1, <5>4 DEF CallKept
          <5>5. QED
            BY <5>2, <5>3, <5>4
        <4>4. sent[r].pc \in {"boot", "mint"} => sent[r].boot \in 1 .. Len(boots')
          BY <1>0, <2>2, <3>0 DEF CallKept, BootsKnown
        <4>5. CallKept(r)'
          BY <3>0, <4>1, <4>3, <4>4 DEF CallKept
        <4>6. QED
          BY <4>2, <4>5
      <3>4. QED
        BY <3>1, <3>2, <3>3
    <2>6. QED
      BY <2>2, <2>4, <2>5 DEF CallInv
  <1>5. QED
    BY <1>3, <1>4

\* The end of a refresh: whoever waits for it goes on.
LEMMA EndRefreshStep == ASSUME CallInv, NEW p \in Window, Calls!EndRefresh(p) PROVE CallInv'
  <1> DEFINE ok == sent[p].answer = "ok"
             given == IF sent[p].answer \in {"ok", "unauthorized"} THEN sent[p].jar ELSE cookies
             pc == IF ok THEN "resume" ELSE "done"
             Waits(s) == sent[s].page = p /\ sent[s].pc = "refresh"
             Goes(s) == CASE s = p -> Calls!New(p, "refresh")
                          [] Waits(s) -> [sent[s] EXCEPT !.pc = pc, !.authAgain = TRUE, !.csrfAgain = FALSE]
                          [] OTHER -> sent[s]
             gone == [boot |-> 0, left |-> TRUE]
  <1>0. /\ BootsKnown /\ CallTypes /\ p \in Calls!Sender /\ sent[p] \in CallRecord
        /\ UNCHANGED <<boots, account, minted, issued, ran>>
    BY SendersDiffer DEF CallInv, CallTypes, Calls!EndRefresh
  <1>1. /\ cookies' = IF ok THEN given ELSE Calls!Cleared(given)
        /\ tabs' = IF ok THEN tabs ELSE [tabs EXCEPT ![p] = gone]
        /\ sent' = [s \in Calls!Sender |-> Goes(s)]
    BY DEF Calls!EndRefresh
  <1>2. cookies' \in CookieJar
    <2>1. given \in CookieJar
      BY <1>0 DEF CallTypes, CallRecord
    <2> HIDE DEF given
    <2>2. QED
      BY <1>1, <2>1, NoCsrfIsToken DEF Calls!Cleared, CookieJar
  <1>3. BootsKnown'
    <2>1. gone \in [boot : Nat, left : BOOLEAN] /\ gone.boot = 0
      OBVIOUS
    <2> HIDE DEF gone
    <2>2. /\ tabs' \in [Window -> [boot : Nat, left : BOOLEAN]]
          /\ \A q \in Window : tabs'[q] = tabs[q] \/ tabs'[q] = gone
      BY <1>0, <1>1, <2>1 DEF BootsKnown
    <2>3. ASSUME NEW q \in Window PROVE tabs'[q].boot <= Len(boots)
      <3>1. tabs[q].boot <= Len(boots) /\ 0 <= Len(boots)
        BY <1>0 DEF BootsKnown
      <3>2. CASE tabs'[q] = tabs[q]
        BY <3>1, <3>2
      <3>3. CASE tabs'[q] = gone
        BY <2>1, <3>1, <3>3
      <3>4. QED
        BY <2>2, <3>2, <3>3
    <2>4. QED
      BY <1>0, <2>2, <2>3 DEF BootsKnown
  <1>4. /\ sent' = [s \in Calls!Sender |-> sent'[s]]
        /\ \A s \in Calls!Sender : sent'[s] = Goes(s)
    <2> HIDE DEF Goes
    <2>1. QED
      BY <1>1
  <1>5. pc \in CallPc /\ pc \notin {"idle", "refresh"} /\ pc \in {"resume", "done"}
    BY DEF CallPc
  <1>6. sent'[p] = Calls!New(p, "refresh") /\ sent'[p] \in CallRecord
    <2>1. sent'[p] = Goes(p)
      BY <1>0, <1>4
    <2>2. Goes(p) = Calls!New(p, "refresh")
      <3>1. ~Waits(p)
        BY DEF Calls!EndRefresh, Calls!At
      <3>2. QED
        BY <3>1
    <2>3. QED
      BY <2>1, <2>2, NewIsCall
  <1>7. sent'[p].pc = "idle" /\ sent'[p].page = p /\ sent'[p].path = "refresh"
    BY <1>6 DEF Calls!New
  <1>8. ASSUME NEW s \in Calls!Sender, s # p, Waits(s)
        PROVE  /\ sent'[s] \in CallRecord /\ sent'[s].pc = pc /\ sent'[s].page = sent[s].page
               /\ sent'[s].path = sent[s].path
    <2>1. sent'[s] = [sent[s] EXCEPT !.pc = pc, !.authAgain = TRUE, !.csrfAgain = FALSE]
      BY <1>4, <1>8
    <2>2. sent[s] \in CallRecord
      BY <1>0 DEF CallTypes
    <2> HIDE DEF pc
    <2>3. QED
      BY <1>5, <2>1, <2>2 DEF CallRecord
  <1>9. \A s \in Calls!Sender : s # p /\ ~Waits(s) => sent'[s] = sent[s]
    BY <1>4
  <1>10. sent' \in [Calls!Sender -> CallRecord]
    <2>1. ASSUME NEW s \in Calls!Sender PROVE sent'[s] \in CallRecord
      BY <1>0, <1>6, <1>8, <1>9 DEF CallTypes
    <2>2. QED
      BY <1>4, <2>1
  <1>11. CallTypes'
    BY <1>0, <1>2, <1>10 DEF CallTypes
  <1>12. ASSUME NEW s \in Calls!Sender PROVE CallNamed(s)' /\ CallKept(s)'
    <2>0. CallNamed(s) /\ CallKept(s) /\ p \notin Ask /\ ran' = ran /\ account' = account /\ boots' = boots
      BY <1>0, SendersDiffer DEF CallInv
    <2>1. CASE s = p
      BY <1>7, <2>0, <2>1 DEF CallNamed, CallKept
    <2>2. CASE s # p /\ Waits(s)
      <3>0. sent'[s].pc = pc /\ sent'[s].page = sent[s].page /\ sent'[s].path = sent[s].path
        BY <1>8, <2>2
      <3>1. ~(s \in Ask /\ ran[s] = 1)
        BY <2>0, <2>2 DEF CallKept
      <3>2. CallNamed(s)'
        BY <1>5, <2>0, <3>0 DEF CallNamed
      <3>3. CallKept(s)'
        BY <1>5, <2>0, <3>0, <3>1 DEF CallKept
      <3>4. QED
        BY <3>2, <3>3
    <2>3. CASE s # p /\ ~Waits(s)
      <3>0. sent'[s] = sent[s]
        BY <1>9, <2>3
      <3>1. CallNamed(s)'
        BY <2>0, <3>0 DEF CallNamed
      <3>2. ASSUME sent[s].pc = "refresh" PROVE sent'[sent[s].page].pc # "idle"
        <4> DEFINE q == sent[s].page
        <4>1. q # p /\ q \in Calls!Sender /\ sent[q].pc # "idle"
          BY <2>0, <2>3, <3>2, SendersDiffer DEF CallInv, CallTypes, CallRecord, CallKept
        <4>2. sent'[q].pc = pc \/ sent'[q] = sent[q]
          BY <1>8, <1>9, <4>1
        <4>3. QED
          BY <1>5, <4>1, <4>2
      <3>3. CallKept(s)'
        BY <2>0, <3>0, <3>2 DEF CallKept
      <3>4. QED
        BY <3>1, <3>3
    <2>4. QED
      BY <2>1, <2>2, <2>3
  <1>13. QED
    BY <1>3, <1>11, <1>12 DEF CallInv

LEMMA EndCallStep == ASSUME CallInv, NEW c \in Ask, Calls!EndCall(c) PROVE CallInv'
  <1>0. /\ CallTypes /\ c \in Calls!Sender /\ sent[c] \in CallRecord
        /\ UNCHANGED <<tabs, boots, account, minted, issued, ran>>
    BY SendersDiffer DEF CallInv, CallTypes, Calls!EndCall
  <1>1. sent' = [sent EXCEPT ![c].pc = "done"] /\ (cookies' = sent[c].jar \/ cookies' = cookies)
    BY DEF Calls!EndCall, Calls!Step
  <1>2. cookies' \in CookieJar
    BY <1>0, <1>1 DEF CallTypes, CallRecord
  <1>3. /\ sent' \in [Calls!Sender -> CallRecord] /\ \A r \in Calls!Sender : r # c => sent'[r] = sent[r]
        /\ sent'[c].page = sent[c].page /\ sent'[c].path = sent[c].path /\ sent'[c].pc = "done"
    BY <1>0, <1>1 DEF CallTypes, CallRecord, CallPc
  <1>4. CallKept(c)'
    BY <1>3 DEF CallKept
  <1>5. QED
    BY <1>0, <1>2, <1>3, <1>4, RequestGoes DEF CallTypes

LEMMA EndBootStep == ASSUME CallInv, NEW i \in DOMAIN boots, Calls!EndBoot(i) PROVE CallInv'
  <1>0. /\ BootsKnown /\ CallTypes /\ i \in 1 .. Len(boots) /\ boots[i] \in BootRecord
        /\ UNCHANGED <<sent, account, minted, ran>>
    BY DEF CallInv, BootsKnown, Calls!EndBoot
  <1>1. \A s \in Calls!Sender : CallNamed(s) /\ CallKept(s)
    BY DEF CallInv
  <1> DEFINE t == Calls!Issued(boots[i].cookie)
             p == boots[i].page
  <1>2. t \in CsrfToken /\ t.nr \in Nat
    BY <1>0, TokenIssued DEF BootRecord
  <1>3. \/ /\ boots' = [boots EXCEPT ![i].token = t] /\ cookies' = [cookies EXCEPT !.csrf = t]
           /\ issued' = (IF t.nr > issued THEN t.nr ELSE issued) /\ tabs' = tabs
        \/ /\ boots' = [boots EXCEPT ![i].ok = FALSE] /\ tabs' = [tabs EXCEPT ![p].boot = 0]
           /\ UNCHANGED <<cookies, issued>>
    BY DEF Calls!EndBoot
  <1>4. p \in Window
    BY <1>0 DEF BootRecord
  <1> HIDE DEF t, p
  <1>5. boots' \in Seq(BootRecord) /\ Len(boots') = Len(boots)
    <2>1. CASE boots' = [boots EXCEPT ![i].token = t]
      <3>1. [boots[i] EXCEPT !.token = t] \in BootRecord
        BY <1>0, <1>2 DEF BootRecord
      <3>2. boots' = [boots EXCEPT ![i] = [boots[i] EXCEPT !.token = t]]
        BY <1>0, <2>1 DEF BootsKnown
      <3>3. QED
        BY <1>0, <3>1, <3>2 DEF BootsKnown
    <2>2. CASE boots' = [boots EXCEPT ![i].ok = FALSE]
      <3>1. [boots[i] EXCEPT !.ok = FALSE] \in BootRecord
        BY <1>0 DEF BootRecord
      <3>2. boots' = [boots EXCEPT ![i] = [boots[i] EXCEPT !.ok = FALSE]]
        BY <1>0, <2>2 DEF BootsKnown
      <3>3. QED
        BY <1>0, <3>1, <3>2 DEF BootsKnown
    <2>3. QED
      BY <1>3, <2>1, <2>2
  <1>6. /\ tabs' \in [Window -> [boot : Nat, left : BOOLEAN]]
        /\ \A q \in Window : tabs'[q].boot = tabs[q].boot \/ tabs'[q].boot = 0
    <2>1. tabs \in [Window -> [boot : Nat, left : BOOLEAN]] /\ tabs[p] \in [boot : Nat, left : BOOLEAN]
      BY <1>0, <1>4 DEF BootsKnown
    <2>2. CASE tabs' = tabs
      BY <2>1, <2>2
    <2>3. CASE tabs' = [tabs EXCEPT ![p].boot = 0]
      BY <1>4, <2>1, <2>3
    <2>4. QED
      BY <1>3, <2>2, <2>3
  <1>7. BootsKnown'
    <2>1. \A q \in Window : tabs'[q].boot <= Len(boots')
      BY <1>0, <1>5, <1>6 DEF BootsKnown
    <2>2. QED
      BY <1>5, <1>6, <2>1 DEF BootsKnown
  <1>8. cookies' \in CookieJar /\ issued' \in Nat
    BY <1>0, <1>2, <1>3 DEF CallTypes, CookieJar
  <1>9. CallTypes'
    BY <1>0, <1>8 DEF CallTypes
  <1>10. Len(boots') >= Len(boots) /\ account'.rights >= account.rights
    BY <1>0, <1>5 DEF BootsKnown, CallTypes
  <1>11. QED
    BY <1>0, <1>7, <1>9, <1>10, RequestsRest

LEMMA AccountStep ==
    ASSUME CallInv, \/ Calls!AccessExpires \/ Calls!RevokeSessions \/ Calls!SetCutoff \/ Calls!ChangeRights
                    \/ Calls!RotateKey
    PROVE  CallInv'
  <1>0. BootsKnown /\ CallTypes /\ UNCHANGED <<tabs, boots, sent, minted, issued, ran>>
    BY DEF CallInv, Calls!AccessExpires, Calls!RevokeSessions, Calls!SetCutoff, Calls!ChangeRights, Calls!RotateKey
  <1>1. /\ account' \in [version : Nat, rights : Nat, cutoff : Nat, key : Nat] /\ cookies' \in CookieJar
        /\ account'.rights >= account.rights
    <2>1. Calls!NoCookie \in SessionToken
      BY DEF Calls!NoCookie, SessionToken
    <2>2. CASE Calls!AccessExpires
      BY <1>0, <2>1, <2>2 DEF Calls!AccessExpires, CallTypes, CookieJar
    <2>3. CASE Calls!RevokeSessions
      BY <1>0, <2>3 DEF Calls!RevokeSessions, CallTypes
    <2>4. CASE Calls!SetCutoff
      BY <1>0, <2>4 DEF Calls!SetCutoff, CallTypes
    <2>5. CASE Calls!ChangeRights
      BY <1>0, <2>5 DEF Calls!ChangeRights, CallTypes
    <2>6. CASE Calls!RotateKey
      BY <1>0, <2>6 DEF Calls!RotateKey, CallTypes
    <2>7. QED
      BY <2>2, <2>3, <2>4, <2>5, <2>6
  <1>2. BootsKnown' /\ Len(boots') >= Len(boots)
    BY <1>0 DEF BootsKnown
  <1>3. CallTypes'
    BY <1>0, <1>1 DEF CallTypes
  <1>4. QED
    BY <1>0, <1>1, <1>2, <1>3, RequestsRest

LEMMA CallStep == ASSUME CallInv, Calls!Next PROVE CallInv'
  BY AccountStep, EndBootStep, EndRefreshStep, BeginStep, RunCallStep, RefreshStep, EndCallStep, SendStep,
     SendAgainStep, GuardStep, RunAuthStep, LoseStep, RecoverStep DEF Calls!Next

LEMMA CallPromise == CallInv => Calls!CallsKeepTheirWord
  <1> SUFFICES ASSUME CallInv PROVE Calls!CallsKeepTheirWord
    OBVIOUS
  <1>1. Calls!RunsOnce
    <2>1. ASSUME NEW c \in Ask PROVE ran[c] <= 1
      <3>1. ran[c] \in {0, 1}
        BY DEF CallInv, CallTypes
      <3>2. QED
        BY <3>1
    <2>2. QED
      BY <2>1 DEF Calls!RunsOnce
  <1>2. Calls!ActsOnTheAccount
    <2>1. ASSUME NEW s \in Ask, sent[s].pc = "run", sent[s].path = "data" PROVE sent[s].rights >= sent[s].since
      <3>1. s \in Calls!Sender /\ sent[s] \in CallRecord /\ CallKept(s)
        BY SendersDiffer DEF CallInv, CallTypes
      <3>2. sent[s].since <= sent[s].rights /\ sent[s].since \in Nat /\ sent[s].rights \in Nat
        BY <2>1, <3>1 DEF CallKept, CallRecord
      <3>3. QED
        BY <3>2
    <2>2. QED
      BY <2>1 DEF Calls!ActsOnTheAccount, Calls!At
  <1>3. Calls!NobodyForgotten
    <2>1. DOMAIN boots = 1 .. Len(boots)
      BY DEF CallInv, BootsKnown
    <2>2. QED
      BY <2>1 DEF CallInv, CallKept, Calls!NobodyForgotten
  <1>4. QED
    BY <1>1, <1>2, <1>3 DEF Calls!CallsKeepTheirWord

(***************************************************************************)
(* The pages side by side: a step of one story leaves the others alone.    *)
(***************************************************************************)
LEMMA BoardRests == ASSUME BoardInv, UNCHANGED boardVars PROVE BoardInv'
  BY DEF BoardInv, BoardTypes, BoardJob, BoardFetch, Fits, Awaited, Drags, HasWritten, boardVars

LEMMA ScreenRests == ASSUME ScreenInv, UNCHANGED screenVars PROVE ScreenInv'
  <1>1. ScreenTypes'
    BY DEF ScreenInv, ScreenTypes, screenVars
  <1>2. \A c \in Caller : Concerns(call[c])'
    BY DEF ScreenInv, Concerns, screenVars
  <1>3. QED
    BY <1>1, <1>2 DEF ScreenInv, screenVars

LEMMA FormRests == ASSUME FormInv, UNCHANGED formVars PROVE FormInv'
  <1>1. UNCHANGED <<form, row, list, dialog, request, latest, count, made, blind, harm>>
    BY DEF formVars
  <1>2. FormTypes'
    BY <1>1 DEF FormInv, FormTypes
  <1>3. AsShown(dialog)'
    BY <1>1 DEF FormInv, AsShown
  <1>4. ASSUME NEW c \in Request PROVE (SavedAsShown(c) /\ OneAtATime(c) /\ Alone(c) /\ SameDialog(c))'
    <2>1. SavedAsShown(c) /\ OneAtATime(c) /\ Alone(c) /\ SameDialog(c)
      BY DEF FormInv
    <2>2. SavedAsShown(c)' /\ OneAtATime(c)'
      BY <1>1, <2>1 DEF SavedAsShown, AsShown, OneAtATime, Flying, Makes, Forms!Is
    <2>3. Alone(c)' /\ SameDialog(c)'
      BY <1>1, <2>1 DEF Alone, SameDialog, Flying, Forms!Is
    <2>4. QED
      BY <2>2, <2>3
  <1>5. Numbered' /\ MadeOnce'
    BY <1>1 DEF FormInv, Numbered, MadeOnce, Flying, Forms!Is
  <1>6. QED
    BY <1>1, <1>2, <1>3, <1>4, <1>5 DEF FormInv

LEMMA ComposerRests == ASSUME ComposerInv, UNCHANGED composerVars PROVE ComposerInv'
  <1>1. UNCHANGED <<page, front, file, listed, ids, send, challenge, spent, removed, carried, tickets>>
    BY DEF composerVars
  <1>2. ComposerTypes'
    BY <1>1 DEF ComposerInv, ComposerTypes
  <1>3. QED
    BY <1>1, <1>2 DEF ComposerInv, Placed, Shelved

LEMMA CallsRest == ASSUME CallInv, UNCHANGED askVars PROVE CallInv'
  <1>1. UNCHANGED <<cookies, tabs, boots, sent, account, minted, issued, ran>>
    BY DEF askVars
  <1>2. BootsKnown' /\ CallTypes'
    BY <1>1 DEF CallInv, BootsKnown, CallTypes
  <1>3. QED
    BY <1>1, <1>2 DEF CallInv, CallNamed, CallKept

\* Whatever is written and whatever is fetched, a list or a screen that rests is as new as
\* what its hooks have told of: QueryCache and BoardCache.
THEOREM ScreensAreKeptUp == BrowserSpec => []ScreensKeepUp
  <1> DEFINE Inv == BoardInv /\ ScreenInv
  <1>1. BrowserInit => Inv
    BY BoardInit, ScreenInit DEF BrowserInit
  <1>2. Inv /\ [BrowserNext]_browserVars => Inv'
    <2> SUFFICES ASSUME Inv, [BrowserNext]_browserVars PROVE Inv'
      OBVIOUS
    <2>1. CASE BoardStory
      BY <2>1, BoardStep, ScreenRests DEF BoardStory
    <2>2. CASE ScreenStory
      BY <2>2, BoardRests, ScreenStep DEF ScreenStory
    <2>3. CASE UNCHANGED <<boardVars, screenVars>>
      BY <2>3, BoardRests, ScreenRests
    <2>4. QED
      BY <2>1, <2>2, <2>3 DEF BrowserNext, FormStory, MessageStory, CallStory, browserVars
  <1>3. Inv => ScreensKeepUp
    BY BoardPromise, ScreenPromise DEF ScreensKeepUp
  <1>4. QED
    BY <1>1, <1>2, <1>3, PTL DEF BrowserSpec

\* What is typed, chosen or asked for: a form saves what its dialog shows and makes a row
\* once, a file stays with its message, and a call of lib/api.ts runs once and with the
\* rights of its account.  Only the dialog of a custom field, which FieldsOnly puts beside the
\* others, keeps what was typed for another row (WebForms).
THEOREM PagesKeepTheirPromises == ASSUME FieldsOnly = FALSE PROVE BrowserSpec => []PagesKeepTheirWord
  <1> DEFINE Inv == FormInv /\ ComposerInv /\ CallInv
  <1>1. BrowserInit => Inv
    BY FormInit, ComposerInit, CallInit DEF BrowserInit
  <1>2. Inv /\ [BrowserNext]_browserVars => Inv'
    <2> SUFFICES ASSUME Inv, [BrowserNext]_browserVars PROVE Inv'
      OBVIOUS
    <2>1. CASE FormStory
      BY <2>1, FormStep, ComposerRests, CallsRest DEF FormStory
    <2>2. CASE MessageStory
      BY <2>2, FormRests, ComposerStep, CallsRest DEF MessageStory
    <2>3. CASE CallStory
      BY <2>3, FormRests, ComposerRests, CallStep DEF CallStory
    <2>4. CASE UNCHANGED <<formVars, composerVars, askVars>>
      BY <2>4, FormRests, ComposerRests, CallsRest
    <2>5. QED
      BY <2>1, <2>2, <2>3, <2>4 DEF BrowserNext, BoardStory, ScreenStory, browserVars
  <1>3. Inv => PagesKeepTheirWord
    BY FormPromise, ComposerPromise, CallPromise DEF PagesKeepTheirWord
  <1>4. QED
    BY <1>1, <1>2, <1>3, PTL DEF BrowserSpec
================================================================================
