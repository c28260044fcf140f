------------------------------- MODULE ApiRequests -------------------------------
(***************************************************************************)
(* The calls that the pages of one browser make on the API: the CSRF       *)
(* token, the refresh of an expired session and the retries of             *)
(* web/lib/api.ts, and what the API decides of each request (csrf.guard,   *)
(* jwt-auth.guard, permissions.guard, auth.controller) while the account   *)
(* loses its sessions or its rights and the signing key is changed.        *)
(*                                                                         *)
(* A request carries the cookies of the browser at its sending, its answer *)
(* sets them at its arrival.  The rows behind a refresh are StaffSessions: *)
(* here a refresh fails for an old version of the account, or for any      *)
(* reason of that module.                                                  *)
(***************************************************************************)
EXTENDS Naturals, Sequences, FiniteSets

CONSTANTS
    Page,       \* tabs; the refresh of a page is sent under its name
    Call,       \* calls of the pages
    MaxChanges, \* bound: changes of rights, of sessions and of the key
    MaxFaults   \* bound: lost answers, failed calls on the database or Redis

VARIABLES
    jar,        \* the cookies: access, refresh, csrf
    page,       \* of each page: its csrfBootstrap, and whether it left for the login
    boots,      \* the requests for a CSRF token, in their order
    sent,       \* the calls and the refreshes
    account,    \* version, rights, cutoff in Redis, signing key
    minted,     \* access tokens made so far
    issued,     \* CSRF tokens made so far
    ran,        \* history: how often the handler of a call has run
    changes,
    faults

vars == <<jar, page, boots, sent, account, minted, issued, ran, changes, faults>>

NoCookie == [nr |-> 0, version |-> 0, key |-> 0]
First == [nr |-> 1, version |-> 0, key |-> 1]
NoCsrf == [nr |-> 0, key |-> 0]
NoJar == [access |-> NoCookie, refresh |-> NoCookie, csrf |-> NoCsrf]
Sender == Call \cup Page

New(p, path) == [pc |-> "idle", page |-> p, path |-> path, boot |-> 0, csrfAgain |-> FALSE,
                 authAgain |-> FALSE, header |-> NoCsrf, jar |-> NoJar, answer |-> "none",
                 rights |-> 0, since |-> 0]

\* A browser with a session, on pages that have just loaded.
Init ==
    /\ jar = [access |-> First, refresh |-> First, csrf |-> NoCsrf]
    /\ page = [p \in Page |-> [boot |-> 0, left |-> FALSE]]
    /\ boots = << >> /\ minted = 1 /\ issued = 0 /\ changes = 0 /\ faults = 0
    /\ sent \in {f \in [Sender -> {New(p, path) : p \in Page, path \in {"data", "login", "refresh"}}] :
                   /\ \A c \in Call : f[c].path # "refresh"
                   /\ \A p \in Page : f[p] = New(p, "refresh")}
    /\ account = [version |-> 0, rights |-> 0, cutoff |-> 0, key |-> 1]
    /\ ran = [c \in Call |-> 0]

Faulty == faults < MaxFaults /\ faults' = faults + 1
At(s, pc) == sent[s].pc = pc
Step(s, pc) == sent' = [sent EXCEPT ![s].pc = pc]
Answer(s, a) == sent' = [sent EXCEPT ![s].pc = "answer", ![s].answer = a]
--------------------------------------------------------------------------------
(* Sending.                                                                *)

\* getCsrfToken: the page's request for a token, or a new one.
Await(s, pc, rec) ==
    LET p == rec.page
        new == page[p].boot = 0
    IN  /\ boots' = IF new THEN Append(boots, [page |-> p, cookie |-> jar.csrf, token |-> NoCsrf, ok |-> TRUE])
                    ELSE boots
        /\ page' = IF new THEN [page EXCEPT ![p].boot = Len(boots) + 1] ELSE page
        /\ sent' = [sent EXCEPT ![s] = [rec EXCEPT !.pc = pc, !.boot = page'[p].boot]]

Begin(c) ==
    /\ At(c, "idle") /\ ~page[sent[c].page].left
    /\ Await(c, "boot", sent[c])
    /\ UNCHANGED <<jar, account, minted, issued, ran, changes, faults>>

Valid(token) == token.nr > 0 /\ token.key = account.key

\* CsrfService.issue: a valid token is kept, so that a header in flight stays good.
Issued(token) == IF Valid(token) THEN token ELSE [nr |-> issued + 1, key |-> account.key]

Pending(i) == boots[i].token = NoCsrf /\ boots[i].ok

\* The answer of GET /auth/csrf, or its failure, which empties csrfBootstrap.
EndBoot(i) ==
    /\ Pending(i)
    /\ \/ /\ LET t == Issued(boots[i].cookie)
             IN  /\ boots' = [boots EXCEPT ![i].token = t]
                 /\ jar' = [jar EXCEPT !.csrf = t]
                 /\ issued' = IF t.nr > issued THEN t.nr ELSE issued
          /\ UNCHANGED <<page, faults>>
       \/ /\ Faulty
          /\ boots' = [boots EXCEPT ![i].ok = FALSE]
          /\ page' = [page EXCEPT ![boots[i].page].boot = 0]
          /\ UNCHANGED <<jar, issued>>
    /\ UNCHANGED <<sent, account, minted, ran, changes>>

\* fetchWithCsrf once its token is there: the request leaves with the cookies of now.
Send(s) ==
    /\ At(s, "boot") /\ ~Pending(sent[s].boot)
    /\ LET b == boots[sent[s].boot]
       IN  sent' = IF b.ok THEN [sent EXCEPT ![s].pc = "csrf", ![s].header = b.token, ![s].jar = jar]
                   ELSE [sent EXCEPT ![s].pc = "answer", ![s].answer = "lost"]
    /\ UNCHANGED <<jar, page, boots, account, minted, issued, ran, changes, faults>>

\* After the token of a retry: fetchWithCsrf asks getCsrfToken again.
SendAgain(s) ==
    /\ At(s, "mint") /\ ~Pending(sent[s].boot)
    /\ IF boots[sent[s].boot].ok THEN Await(s, "boot", sent[s])
       ELSE Answer(s, "lost") /\ UNCHANGED <<page, boots>>
    /\ UNCHANGED <<jar, account, minted, issued, ran, changes, faults>>
--------------------------------------------------------------------------------
(* The guards and the handlers of the API.                                 *)

HasAuthCookie(s) == sent[s].jar.access # NoCookie \/ sent[s].jar.refresh # NoCookie

\* The origin is the application's own.  Login and refresh are @Public.
CsrfGuard(s) ==
    /\ At(s, "csrf")
    /\ IF HasAuthCookie(s) /\ ~(sent[s].header = sent[s].jar.csrf /\ Valid(sent[s].header))
       THEN Answer(s, "csrf")
       ELSE sent' = [sent EXCEPT ![s].pc = IF sent[s].path = "data" THEN "token" ELSE "run",
                                 ![s].since = account.rights]
    /\ UNCHANGED <<jar, page, boots, account, minted, issued, ran, changes, faults>>

\* The token of the cookie, and what Redis says of it: isBlocked and
\* isStaffTokenStale let it pass when Redis fails.
CheckToken(s) ==
    /\ At(s, "token")
    /\ LET t == sent[s].jar.access
           stale == t.nr <= account.cutoff
       IN  \/ (t.key # account.key \/ stale) /\ Answer(s, "unauthorized") /\ UNCHANGED faults
           \/ t.key = account.key /\ ~stale /\ Step(s, "db") /\ UNCHANGED faults
           \/ t.key = account.key /\ stale /\ Faulty /\ Step(s, "db")
    /\ UNCHANGED <<jar, page, boots, account, minted, issued, ran, changes>>

\* The Staff row is the truth: the request acts with the rights of now.
Principal(s) == [sent[s] EXCEPT !.pc = "run", !.rights = account.rights]

CheckStaff(s) ==
    /\ At(s, "db")
    /\ \/ /\ sent[s].jar.access.version = account.version
          /\ sent' = [sent EXCEPT ![s] = Principal(s)]
          /\ UNCHANGED faults
       \/ sent[s].jar.access.version # account.version /\ Answer(s, "unauthorized") /\ UNCHANGED faults
       \/ Faulty /\ Answer(s, "failed")
    /\ UNCHANGED <<jar, page, boots, account, minted, issued, ran, changes>>

May(rights) == rights % 2 = 0

\* PermissionsGuard, then the handler, which may also fail of its own.
RunCall(c) ==
    /\ c \in Call /\ At(c, "run") /\ sent[c].path = "data"
    /\ IF May(sent[c].rights)
       THEN ran' = [ran EXCEPT ![c] = @ + 1] /\ \E a \in {"ok", "failed"} : Answer(c, a)
       ELSE Answer(c, "failed") /\ UNCHANGED ran
    /\ UNCHANGED <<jar, page, boots, account, minted, issued, changes, faults>>

\* setAuthCookies: the cookies of the answer, kept with the request until it arrives.
SetCookies(s) ==
    /\ minted' = minted + 1
    /\ LET t == Issued(sent[s].jar.csrf)
           v == [nr |-> minted + 1, version |-> account.version, key |-> account.key]
       IN  /\ issued' = IF t.nr > issued THEN t.nr ELSE issued
           /\ sent' = [sent EXCEPT ![s].pc = "answer", ![s].answer = "ok",
                                   ![s].jar = [access |-> v, refresh |-> v, csrf |-> t]]

\* A refused refresh clears every cookie, whatever refused it.
RunAuth(s) ==
    /\ At(s, "run") /\ sent[s].path # "data"
    /\ \/ /\ sent[s].path = "refresh" =>
                sent[s].jar.refresh # NoCookie /\ sent[s].jar.refresh.version = account.version
          /\ SetCookies(s)
       \/ /\ sent' = [sent EXCEPT ![s].pc = "answer", ![s].answer = "unauthorized",
                                  ![s].jar = IF sent[s].path = "refresh" THEN NoJar ELSE @]
          /\ UNCHANGED <<minted, issued>>
    /\ ran' = IF s \in Call /\ sent'[s].answer = "ok" THEN [ran EXCEPT ![s] = @ + 1] ELSE ran
    /\ UNCHANGED <<jar, page, boots, account, changes, faults>>
--------------------------------------------------------------------------------
(* The answers.                                                            *)

\* The network loses the answer, or the request before any guard.
Lose(s) ==
    /\ sent[s].pc \in {"csrf", "answer"} /\ sent[s].answer # "lost" /\ Faulty
    /\ Answer(s, "lost")
    /\ UNCHANGED <<jar, page, boots, account, minted, issued, ran, changes>>

\* Mutant: a call that got no answer is sent once more.
RecoversLost(s) == sent[s].answer \in {"csrf", "lost"} /\ ~sent[s].csrfAgain

\* isInvalidCsrfResponse: the guard has refused before the handler ran.
Recovers(s) == sent[s].answer = "csrf" /\ ~sent[s].csrfAgain

\* resetCsrfBootstrap and a new token.
Recover(s) ==
    /\ At(s, "answer") /\ Recovers(s)
    /\ LET p == sent[s].page
       IN  /\ boots' = Append(boots, [page |-> p, cookie |-> jar.csrf, token |-> NoCsrf, ok |-> TRUE])
           /\ page' = [page EXCEPT ![p].boot = Len(boots) + 1]
           /\ sent' = [sent EXCEPT ![s].pc = "mint", ![s].boot = Len(boots) + 1, ![s].csrfAgain = TRUE,
                                   ![s].answer = "none"]
    /\ UNCHANGED <<jar, account, minted, issued, ran, changes, faults>>

\* canRefreshAfterUnauthorized: a failed login refreshes nothing.
Refreshes(s) == sent[s].answer = "unauthorized" /\ ~sent[s].authAgain /\ sent[s].path = "data"

\* tryRefresh: the calls of a page share one refresh.
Refresh(c) ==
    /\ c \in Call /\ At(c, "answer") /\ ~Recovers(c) /\ Refreshes(c)
    /\ LET p == sent[c].page
           waits == [sent EXCEPT ![c].pc = "refresh", ![c].answer = "none"]
           new == page[p].boot = 0
           b == IF new THEN Len(boots) + 1 ELSE page[p].boot
       IN  IF ~At(p, "idle")
           THEN sent' = waits /\ UNCHANGED <<page, boots>>
           ELSE /\ sent' = [waits EXCEPT ![p].pc = "boot", ![p].boot = b]
                /\ page' = [page EXCEPT ![p].boot = b]
                /\ boots' = IF new THEN Append(boots, [page |-> p, cookie |-> jar.csrf,
                                                       token |-> NoCsrf, ok |-> TRUE])
                            ELSE boots
    /\ UNCHANGED <<jar, account, minted, issued, ran, changes, faults>>

\* clearTokens also drops the readable CSRF cookie and leaves for the login page.
Cleared(cookies) == [cookies EXCEPT !.csrf = NoCsrf]

\* The end of a refresh, for everyone who waits for it.
EndRefresh(p) ==
    /\ At(p, "answer") /\ ~Recovers(p)
    /\ LET ok == sent[p].answer = "ok"
           cookies == IF sent[p].answer \in {"ok", "unauthorized"} THEN sent[p].jar ELSE jar
       IN  /\ jar' = IF ok THEN cookies ELSE Cleared(cookies)
           /\ page' = IF ok THEN page ELSE [page EXCEPT ![p] = [boot |-> 0, left |-> TRUE]]
           /\ sent' = [s \in Sender |->
                CASE s = p -> New(p, "refresh")
                  [] sent[s].page = p /\ sent[s].pc = "refresh" ->
                       [sent[s] EXCEPT !.pc = IF ok THEN "resume" ELSE "done",
                                       !.authAgain = TRUE, !.csrfAgain = FALSE]
                  [] OTHER -> sent[s]]
    /\ UNCHANGED <<boots, account, minted, issued, ran, changes, faults>>

Resume(c) ==
    /\ At(c, "resume") /\ Await(c, "boot", sent[c])
    /\ UNCHANGED <<jar, account, minted, issued, ran, changes, faults>>

EndCall(c) ==
    /\ c \in Call /\ At(c, "answer") /\ ~Recovers(c) /\ ~Refreshes(c)
    /\ jar' = IF sent[c].path = "login" /\ sent[c].answer = "ok" THEN sent[c].jar ELSE jar
    /\ Step(c, "done")
    /\ UNCHANGED <<page, boots, account, minted, issued, ran, changes, faults>>
--------------------------------------------------------------------------------
(* What happens to the account meanwhile.                                  *)

Changing == changes < MaxChanges /\ changes' = changes + 1

\* The access cookie ends with its token.
AccessExpires ==
    /\ jar.access # NoCookie /\ jar' = [jar EXCEPT !.access = NoCookie]
    /\ UNCHANGED <<page, boots, sent, account, minted, issued, ran, changes, faults>>

\* Logout everywhere, a new password, a disabled account.
RevokeSessions ==
    /\ Changing /\ account' = [account EXCEPT !.version = @ + 1]
    /\ UNCHANGED <<jar, page, boots, sent, minted, issued, ran, faults>>

\* revokeAllForStaff, later and best effort: it takes along what was minted in between.
SetCutoff ==
    /\ account.version > 0 /\ account.cutoff # minted
    /\ account' = [account EXCEPT !.cutoff = minted]
    /\ UNCHANGED <<jar, page, boots, sent, minted, issued, ran, changes, faults>>

ChangeRights ==
    /\ Changing /\ account' = [account EXCEPT !.rights = @ + 1]
    /\ UNCHANGED <<jar, page, boots, sent, minted, issued, ran, faults>>

\* A deployment with another TELECOM_HD_JWT_ACCESS_SECRET: no access or
\* CSRF token of before is good.
RotateKey ==
    /\ Changing /\ account' = [account EXCEPT !.key = @ + 1]
    /\ UNCHANGED <<jar, page, boots, sent, minted, issued, ran, faults>>

Next ==
    \/ AccessExpires \/ RevokeSessions \/ SetCutoff \/ ChangeRights \/ RotateKey
    \/ \E i \in DOMAIN boots : EndBoot(i)
    \/ \E p \in Page : EndRefresh(p)
    \/ \E c \in Call : Begin(c) \/ RunCall(c) \/ Refresh(c) \/ Resume(c) \/ EndCall(c)
    \/ \E s \in Sender :
         \/ Send(s) \/ SendAgain(s) \/ CsrfGuard(s) \/ CheckToken(s) \/ CheckStaff(s)
         \/ RunAuth(s) \/ Lose(s) \/ Recover(s)

Spec == Init /\ [][Next]_vars
--------------------------------------------------------------------------------
\* Whatever is retried, a call runs once at the most.
RunsOnce == \A c \in Call : ran[c] <= 1

\* No handler runs with rights older than those of the account when the request arrived.
ActsOnTheAccount ==
    \A s \in Call : sent[s].pc = "run" /\ sent[s].path = "data" => sent[s].rights >= sent[s].since

\* Who waits for a refresh or for a token waits for something that will end.
NobodyForgotten ==
    \A s \in Sender :
        /\ sent[s].pc = "refresh" => sent[sent[s].page].pc # "idle"
        /\ sent[s].pc \in {"boot", "mint"} => sent[s].boot \in DOMAIN boots

CallsKeepTheirWord == RunsOnce /\ ActsOnTheAccount /\ NobodyForgotten
================================================================================
