---------------------------- MODULE StaffSessions ----------------------------
(***************************************************************************)
(* The sessions of one staff account: logins, rotation of refresh tokens   *)
(* by the tabs of one browser, password-reset links, and the changes of    *)
(* the account that end its sessions (logout, reset, an administrator's    *)
(* edit, disabling, a change of the group's permissions).                  *)
(*                                                                         *)
(* A change is several transactions. An UPDATE of the refresh tokens takes *)
(* its snapshot before it writes (READ COMMITTED), so a successor that a   *)
(* rotation commits in between escapes it.                                 *)
(***************************************************************************)
EXTENDS Naturals, FiniteSets

CONSTANTS
    Token,      \* refresh token rows, by jti
    NoToken,
    Tab,        \* requests of the browser; they share its cookies
    LinkCount,  \* bound: password-reset requests, in the order of their ids
    Change,     \* changes of the account
    MaxFaults   \* bound: failed calls, lost answers, crashes

Link == 1..LinkCount

ASSUME SessionAssumption == NoToken \notin Token /\ LinkCount \in Nat /\ MaxFaults \in Nat

VARIABLES
    version,    \* Staff.authVersion
    enabled,    \* Staff.isEnabled
    token,      \* the RefreshToken rows
    link,       \* the PasswordReset rows
    tab,        \* the requests of the browser
    jar,        \* the refresh cookie of the browser
    change,     \* the changes
    faults

vars == <<version, enabled, token, link, tab, jar, change, faults>>

TokenState == {"none", "live", "rotated", "changed", "replayed"}
LinkState  == {"none", "inactive", "active"}
TabPc      == {"idle", "persist", "read", "staff", "rotate", "replay", "answer", "refused"}
Kind       == {"logout", "reset", "update", "disable", "group"}
ChangePc   == {"start", "tx", "snapshot", "revoke", "burn", "commit", "done"}

NewToken == [state |-> "none", aged |-> FALSE, version |-> 0, family |-> NoToken, parent |-> NoToken]
NewLink  == [state |-> "none", pc |-> "start", version |-> 0, mailed |-> FALSE,
             expired |-> FALSE, uses |-> 0]
IdleTab  == [pc |-> "idle", token |-> NoToken, seen |-> "none", version |-> 0]

TypeOK ==
    /\ version \in Nat /\ enabled \in BOOLEAN /\ faults \in Nat
    /\ token \in [Token -> [state: TokenState, aged: BOOLEAN, version: Nat,
                            family: Token \cup {NoToken}, parent: Token \cup {NoToken}]]
    /\ link \in [Link -> [state: LinkState, pc: {"start", "mail", "activate", "done"},
                          version: Nat, mailed: BOOLEAN, expired: BOOLEAN, uses: Nat]]
    /\ tab \in [Tab -> [pc: TabPc, token: Token \cup {NoToken}, seen: TokenState, version: Nat]]
    /\ jar \in Token \cup {NoToken}
    /\ change \in [Change -> [kind: Kind, pc: ChangePc, snapshot: SUBSET Token, link: Link \cup {0}]]

Init ==
    /\ version = 0 /\ enabled = TRUE /\ faults = 0
    /\ token = [t \in Token |-> NewToken]
    /\ link = [n \in Link |-> NewLink]
    /\ tab = [b \in Tab |-> IdleTab]
    /\ jar = NoToken
    /\ change \in [Change -> [kind: Kind, pc: {"start"}, snapshot: {{}}, link: {0}]]

Live == {t \in Token : token[t].state = "live"}
Unused == {t \in Token : token[t].state = "none"}

\* Mutant: a replay concerns the presented token only.
FamilyOfOne(t) == {t}

Family(t) == {u \in Token : token[u].family = token[t].family}

\* The Staff row is locked by an uncommitted change of it.
RowLocked == \E c \in Change : \/ change[c].pc = "tx"
                               \/ change[c].kind = "update" /\ change[c].pc \notin {"start", "done"}

\* withRbacMutationLock: one change by an administrator at a time.
RbacBusy == \E c \in Change : /\ change[c].kind \in {"update", "disable", "group"}
                              /\ change[c].pc \notin {"start", "done"}

--------------------------------------------------------------------------------
(* The browser: login and refresh.                                         *)

TabGo(b, pc) == tab' = [tab EXCEPT ![b].pc = pc]

\* validateStaff reads the account once: its password and its version agree.
Login(b) ==
    /\ tab[b].pc = "idle" /\ enabled
    /\ tab' = [tab EXCEPT ![b] = [IdleTab EXCEPT !.pc = "persist", !.version = version]]
    /\ UNCHANGED <<version, enabled, token, link, jar, change, faults>>

PersistRefreshToken(b) ==
    /\ tab[b].pc = "persist"
    /\ \E t \in Unused :
         /\ token' = [token EXCEPT ![t] = [NewToken EXCEPT !.state = "live", !.family = t,
                                                           !.version = tab[b].version]]
         /\ tab' = [tab EXCEPT ![b].pc = "answer", ![b].token = t]
    /\ UNCHANGED <<version, enabled, link, jar, change, faults>>

SendRefresh(b) ==
    /\ tab[b].pc = "idle" /\ jar # NoToken
    /\ tab' = [tab EXCEPT ![b] = [IdleTab EXCEPT !.pc = "read", !.token = jar]]
    /\ UNCHANGED <<version, enabled, token, link, jar, change, faults>>

ReadToken(b) ==
    /\ tab[b].pc = "read"
    /\ tab' = [tab EXCEPT ![b].pc = "staff", ![b].seen = token[tab[b].token].state]
    /\ UNCHANGED <<version, enabled, token, link, jar, change, faults>>

\* Mutant: the stamp of the token is not compared.
MayRefreshUnstamped(t) == enabled

\* "so a security change can't be outrun by a concurrent rotation"
MayRefresh(t) == enabled /\ token[t].version = version

ReadStaff(b) ==
    /\ tab[b].pc = "staff"
    /\ tab' = [tab EXCEPT ![b].pc = IF MayRefresh(tab[b].token) THEN "rotate" ELSE "refused",
                          ![b].version = version]
    /\ UNCHANGED <<version, enabled, token, link, jar, change, faults>>

\* Atomically consume the parent and persist the successor.
Consume(b, t) ==
    \E u \in Unused :
        /\ token' = [token EXCEPT ![t].state = "rotated",
                       ![u] = [NewToken EXCEPT !.state = "live", !.family = token[t].family,
                                               !.parent = t, !.version = tab[b].version]]
        /\ tab' = [tab EXCEPT ![b].pc = "answer", ![b].token = u]

\* Mutant: the compare-and-set on revokedAt is missing.
ConsumableTwice(t) == token[t].state # "none"

\* updateMany .. where jti, revokedAt: null
Consumable(t) == token[t].state = "live"

\* Mutant: every second use is a replay.
NeverBenign(b) == FALSE

\* A token the row still showed unrevoked, or revoked within the last 10 seconds.
Benign(b) == tab[b].seen = "live" \/ ~token[tab[b].token].aged

Rotate(b) ==
    /\ tab[b].pc = "rotate"
    /\ LET t == tab[b].token IN
         IF Consumable(t) THEN Consume(b, t)
         ELSE /\ tab' = [tab EXCEPT ![b].pc = IF Benign(b) THEN "answer" ELSE "replay",
                                    ![b].token = IF Benign(b) THEN NoToken ELSE t]
              /\ UNCHANGED token
    /\ UNCHANGED <<version, enabled, link, jar, change, faults>>

RevokeFamily(b) ==
    /\ tab[b].pc = "replay"
    /\ token' = [t \in Token |-> IF t \in Live \cap Family(tab[b].token)
                                 THEN [token[t] EXCEPT !.state = "replayed"] ELSE token[t]]
    /\ TabGo(b, "refused")
    /\ UNCHANGED <<version, enabled, link, jar, change, faults>>

\* The loser of two tabs gets no refresh cookie, and keeps the winner's.
Answer(b) ==
    /\ tab[b].pc = "answer"
    /\ jar' = IF tab[b].token = NoToken THEN jar ELSE tab[b].token
    /\ tab' = [tab EXCEPT ![b] = IdleTab]
    /\ UNCHANGED <<version, enabled, token, link, change, faults>>

\* AuthController.refresh clears the cookies on every error.
Refused(b) ==
    /\ tab[b].pc = "refused"
    /\ jar' = NoToken
    /\ tab' = [tab EXCEPT ![b] = IdleTab]
    /\ UNCHANGED <<version, enabled, token, link, change, faults>>

\* A call fails: the refresh clears the cookies, the login leaves them.
TabFails(b) ==
    /\ faults < MaxFaults /\ tab[b].pc \notin {"idle", "refused"}
    /\ tab' = [tab EXCEPT ![b] = IF @.pc \in {"persist", "answer"} /\ @.seen = "none" THEN IdleTab
                                 ELSE [IdleTab EXCEPT !.pc = "refused"]]
    /\ faults' = faults + 1
    /\ UNCHANGED <<version, enabled, token, link, jar, change>>

\* The process dies, or the answer does not reach the browser.
AnswerLost(b) ==
    /\ faults < MaxFaults /\ tab[b].pc # "idle"
    /\ tab' = [tab EXCEPT ![b] = IdleTab]
    /\ faults' = faults + 1
    /\ UNCHANGED <<version, enabled, token, link, jar, change>>

\* Ten seconds have passed since the token was revoked.
GraceEnds(t) ==
    /\ token[t].state \notin {"none", "live"} /\ ~token[t].aged
    /\ token' = [token EXCEPT ![t].aged = TRUE]
    /\ UNCHANGED <<version, enabled, link, tab, jar, change, faults>>

--------------------------------------------------------------------------------
(* Password-reset links: forgotPassword and activateDeliveredReset.        *)

\* The row is created inactive, then the mail is sent.
Forgot(n) ==
    /\ link[n].pc = "start" /\ enabled /\ \A m \in Link : m < n => link[m].pc # "start"
    /\ link' = [link EXCEPT ![n] = [NewLink EXCEPT !.state = "inactive", !.pc = "mail",
                                                   !.version = version]]
    /\ UNCHANGED <<version, enabled, token, tab, jar, change, faults>>

Mailed(n) ==
    /\ link[n].pc = "mail"
    /\ link' = [link EXCEPT ![n].pc = "activate", ![n].mailed = TRUE]
    /\ UNCHANGED <<version, enabled, token, tab, jar, change, faults>>

\* SMTP fails or the process dies; the mail may have left all the same.
MailFails(n) ==
    /\ faults < MaxFaults /\ link[n].pc \in {"mail", "activate"}
    /\ link' = [link EXCEPT ![n].pc = "done"]
    /\ faults' = faults + 1
    /\ UNCHANGED <<version, enabled, token, tab, jar, change>>

Usable(n) == link[n].state = "active" /\ ~link[n].expired
StampHolds(n) == enabled /\ link[n].version = version

\* Mutant: the newest delivery wins, not the newest request.
ActivatableLate(n) == StampHolds(n) /\ ~link[n].expired

Activatable(n) ==
    /\ StampHolds(n) /\ ~link[n].expired
    /\ \A m \in Link : m > n => ~Usable(m)

\* Mutant: the links already active are left so.
ActivatesBeside(n) == [link EXCEPT ![n].state = "active", ![n].pc = "done"]

ActivatesOnly(n) ==
    [m \in Link |-> IF m = n THEN [link[m] EXCEPT !.state = "active", !.pc = "done"]
                    ELSE IF link[m].state = "active" THEN [link[m] EXCEPT !.state = "inactive"]
                    ELSE link[m]]

\* activateDeliveredReset, under the lock of the Staff row.
Activate(n) ==
    /\ link[n].pc = "activate" /\ ~RowLocked
    /\ link' = IF Activatable(n) THEN ActivatesOnly(n) ELSE [link EXCEPT ![n].pc = "done"]
    /\ UNCHANGED <<version, enabled, token, tab, jar, change, faults>>

LinkExpires(n) ==
    /\ link[n].state # "none" /\ ~link[n].expired
    /\ link' = [link EXCEPT ![n].expired = TRUE]
    /\ UNCHANGED <<version, enabled, token, tab, jar, change, faults>>

--------------------------------------------------------------------------------
(* Changes of the account.                                                 *)

\* Mutant: a state of its own for the tokens of a change.
RevokedAsEnded(S) == [t \in Token |-> IF t \in S \cap Live THEN [token[t] EXCEPT !.state = "ended"]
                                     ELSE token[t]]

Revoked(S) == [t \in Token |-> IF t \in S \cap Live THEN [token[t] EXCEPT !.state = "changed"]
                               ELSE token[t]]
Burnt == [n \in Link |-> IF link[n].state = "active" THEN [link[n] EXCEPT !.state = "inactive"]
                         ELSE link[n]]

\* revokeStaffSessions: one transaction.
LogoutBegins(c) ==
    /\ change[c].kind = "logout" /\ change[c].pc = "start" /\ ~RowLocked
    /\ change' = [change EXCEPT ![c].pc = "tx", ![c].snapshot = Live]
    /\ UNCHANGED <<version, enabled, token, link, tab, jar, faults>>

LogoutCommits(c) ==
    /\ change[c].kind = "logout" /\ change[c].pc = "tx"
    /\ version' = version + 1
    /\ token' = Revoked(change[c].snapshot)
    /\ change' = [change EXCEPT ![c].pc = "snapshot"]
    /\ UNCHANGED <<enabled, link, tab, jar, faults>>

\* resetPassword looks for its link before it hashes the new password.
ResetPrechecks(c, n) ==
    /\ change[c].kind = "reset" /\ change[c].pc = "start" /\ change[c].link = 0
    /\ link[n].mailed /\ Usable(n)
    /\ change' = [change EXCEPT ![c].link = n]
    /\ UNCHANGED <<version, enabled, token, link, tab, jar, faults>>

\* Mutant: the link is not looked at again under the lock.
StillValidUnread(n) == enabled

StillValid(n) == Usable(n) /\ StampHolds(n)

ResetLocks(c) ==
    /\ change[c].kind = "reset" /\ change[c].pc = "start" /\ change[c].link # 0 /\ ~RowLocked
    /\ change' = [change EXCEPT ![c].pc = IF StillValid(change[c].link) THEN "tx" ELSE "done",
                                ![c].snapshot = IF StillValid(change[c].link) THEN Live ELSE {}]
    /\ UNCHANGED <<version, enabled, token, link, tab, jar, faults>>

ResetCommits(c) ==
    /\ change[c].kind = "reset" /\ change[c].pc = "tx"
    /\ version' = version + 1
    /\ token' = Revoked(change[c].snapshot)
    /\ link' = [Burnt EXCEPT ![change[c].link].uses = @ + 1]
    /\ change' = [change EXCEPT ![c].pc = "snapshot"]
    /\ UNCHANGED <<enabled, tab, jar, faults>>

\* StaffService.update holds its row while the sessions are revoked.
UpdateBegins(c) ==
    /\ change[c].kind = "update" /\ change[c].pc = "start" /\ ~RowLocked /\ ~RbacBusy
    /\ change' = [change EXCEPT ![c].pc = "snapshot"]
    /\ UNCHANGED <<version, enabled, token, link, tab, jar, faults>>

\* A new password, group or address, or disabling through the form.
UpdateCommits(c) ==
    /\ change[c].kind = "update" /\ change[c].pc = "commit"
    /\ version' = version + 1
    /\ enabled' \in {enabled, FALSE}
    /\ change' = [change EXCEPT ![c].pc = "done"]
    /\ UNCHANGED <<token, link, tab, jar, faults>>

Disable(c) ==
    /\ change[c].kind = "disable" /\ change[c].pc = "start" /\ ~RowLocked /\ ~RbacBusy
    /\ version' = version + 1 /\ enabled' = FALSE
    /\ change' = [change EXCEPT ![c].pc = IF enabled THEN "snapshot" ELSE "done"]
    /\ UNCHANGED <<token, link, tab, jar, faults>>

\* updateGroup: the version of every member, then their refresh tokens.
Regroup(c) ==
    /\ change[c].kind = "group" /\ change[c].pc = "start" /\ ~RowLocked /\ ~RbacBusy
    /\ version' = version + 1
    /\ change' = [change EXCEPT ![c].pc = "snapshot"]
    /\ UNCHANGED <<enabled, token, link, tab, jar, faults>>

\* Re-enabling does not revoke.
Enable ==
    /\ ~enabled /\ ~RowLocked /\ ~RbacBusy
    /\ enabled' = TRUE
    /\ UNCHANGED <<version, token, link, tab, jar, change, faults>>

\* revokeAllForStaff: the refresh tokens, then the pending links.
RevokeSnapshot(c) ==
    /\ change[c].pc = "snapshot"
    /\ change' = [change EXCEPT ![c].pc = "revoke", ![c].snapshot = Live]
    /\ UNCHANGED <<version, enabled, token, link, tab, jar, faults>>

RevokeTokens(c) ==
    /\ change[c].pc = "revoke"
    /\ token' = Revoked(change[c].snapshot)
    /\ change' = [change EXCEPT ![c].pc = IF change[c].kind = "group" THEN "done" ELSE "burn",
                                ![c].snapshot = {}]
    /\ UNCHANGED <<version, enabled, link, tab, jar, faults>>

\* The logout also clears the cookies of its browser.
BurnLinks(c) ==
    /\ change[c].pc = "burn"
    /\ link' = Burnt
    /\ change' = [change EXCEPT ![c].pc = IF change[c].kind = "update" THEN "commit" ELSE "done"]
    /\ jar' = IF change[c].kind = "logout" THEN NoToken ELSE jar
    /\ UNCHANGED <<version, enabled, token, tab, faults>>

\* A failed call, or a crash: what is committed stays, an open transaction rolls back.
ChangeFails(c) ==
    /\ faults < MaxFaults /\ change[c].pc \notin {"start", "done"}
    /\ change' = [change EXCEPT ![c].pc = "done"]
    /\ faults' = faults + 1
    /\ UNCHANGED <<version, enabled, token, link, tab, jar>>

--------------------------------------------------------------------------------
Next ==
    \/ \E b \in Tab : \/ Login(b) \/ PersistRefreshToken(b) \/ SendRefresh(b) \/ ReadToken(b)
                      \/ ReadStaff(b) \/ Rotate(b) \/ RevokeFamily(b) \/ Answer(b) \/ Refused(b)
                      \/ TabFails(b) \/ AnswerLost(b)
    \/ \E t \in Token : GraceEnds(t)
    \/ \E n \in Link : Forgot(n) \/ Mailed(n) \/ MailFails(n) \/ Activate(n) \/ LinkExpires(n)
    \/ \E c \in Change : \/ LogoutBegins(c) \/ LogoutCommits(c) \/ ResetLocks(c) \/ ResetCommits(c)
                         \/ UpdateBegins(c) \/ UpdateCommits(c) \/ Disable(c) \/ Regroup(c)
                         \/ RevokeSnapshot(c) \/ RevokeTokens(c) \/ BurnLinks(c) \/ ChangeFails(c)
                         \/ \E n \in Link : ResetPrechecks(c, n)
    \/ Enable

Spec == Init /\ [][Next]_vars
--------------------------------------------------------------------------------
(* Properties.                                                             *)

\* A family is a chain: two tabs that rotate one token at once leave one live token,
\* and a token that was rotated has its successor ("a crash can no longer burn the
\* only refresh token without storing its replacement").
FamilyIsAChain ==
    /\ \A t, u \in Live : token[t].family = token[u].family => t = u
    /\ \A t \in Token : token[t].state = "rotated" => \E u \in Token : token[u].parent = t

\* A token that a refresh would accept goes back to a login that checked the
\* credentials after the last change: neither a slow login, nor a rotation
\* that a revoking UPDATE has missed, carries a session across a change.
RefreshableIsCurrent ==
    \A t \in Live : enabled /\ token[t].version = version
                      => token[token[t].family].version = version

\* The chains of refresh tokens and the versions they were made under.
SessionInv == TypeOK /\ FamilyIsAChain /\ RefreshableIsCurrent

\* A replay of a token that was rotated long ago ends its whole family.
ReplayEndsFamily ==
    [][\A b \in Tab : tab[b].pc = "replay" /\ tab'[b].pc = "refused" /\ faults' = faults =>
          \A u \in Token : token'[u].state = "live" =>
              token[u].family # token[tab[b].token].family]_vars

\* Tabs do not log each other out: without a change of the account, a fault or a
\* token presented after its grace, no refresh is refused or empties the cookie.
TabsKeepTheSession ==
    [][jar # NoToken /\ jar' = NoToken =>
          version > 0 \/ ~enabled \/ faults > 0
          \/ (\E c \in Change : change[c].pc # "start")
          \/ \E t \in Token : token[t].aged]_vars

\* Sessions end for a cause, and end when there is one.
SessionsEndForCause == ReplayEndsFamily /\ TabsKeepTheSession

\* At most one link of an account can be used at a time, and "never a live unmailed one".
OneUsableLink ==
    /\ \A m, n \in Link : link[m].state = "active" /\ link[n].state = "active" => m = n
    /\ \A n \in Link : link[n].state = "active" => link[n].mailed

\* A link changes the password at most once, however many requests present it.
LinkUsedOnce == \A n \in Link : link[n].uses <= 1

\* What slow mails, activations and resets leave of the links of an account.
LinksInv == OneUsableLink /\ LinkUsedOnce

\* What an account has, whatever its requests, mails and changes overlap with.
AccountInv == SessionInv /\ LinksInv

\* "A later already-active request wins over a slower older SMTP delivery."
NewerLinkWins ==
    [][\A m, n \in Link : m > n /\ Usable(m) /\ link[n].state = "inactive"
          => link'[n].state = "inactive"]_vars
================================================================================
