------------------------------ MODULE ClientLinks ------------------------------
(***************************************************************************)
(* Login links and sessions of customers (client-auth.service.ts) beside   *)
(* the changes of who a customer is (users.service.ts): an address leaves  *)
(* one user and comes to another while links for it are being issued,      *)
(* mailed and opened.  Transactions about one user hold its advisory lock  *)
(* (client-auth-lock.ts) and are one step each.                            *)
(*                                                                         *)
(* A link expires when it leaves the window of the issue limit (15 min).   *)
(***************************************************************************)
EXTENDS Naturals, FiniteSets

CONSTANTS
    User, Address, None,
    Request,    \* requests for a link that may be under way at once
    PerWindow,  \* MAGIC_LINK_MAX_PER_WINDOW
    MaxLinks,   \* bound on the links that are issued
    MaxEdits    \* bound on changes of users

VARIABLES
    user,       \* isEnabled, clientAuthVersion and the primary address of each user
    owner,      \* UserEmail: the user of an address
    link,       \* ClientLoginToken rows, in the order of createdAt
    session,    \* ClientSession rows, by the number of their login
    request,    \* the runs of requestLink
    edits

vars == <<user, owner, link, session, request, edits>>

Link == 1 .. MaxLinks
NoLink == [state |-> "none", user |-> None, version |-> 0, email |-> None, expired |-> FALSE, mailed |-> FALSE]
Idle == [pc |-> "idle"]

FirstAddress == CHOOSE f \in [User -> Address] : \A u, v \in User : f[u] = f[v] => u = v

\* Every user has the address the import gave it and tickets of its own.
Init ==
    /\ user = [u \in User |-> [on |-> TRUE, version |-> 0, primary |-> FirstAddress[u]]]
    /\ owner \in [Address -> User \cup {None}]
    /\ \A u \in User : owner[FirstAddress[u]] = u
    /\ link = [n \in Link |-> NoLink]
    /\ session = {}
    /\ request = [r \in Request |-> Idle]
    /\ edits = 0
--------------------------------------------------------------------------------
(* requestLink *)

\* resolveUnambiguousOwner
Resolves(a, u) == owner[a] = u /\ user[u].on

Lookup(r) ==
    /\ request[r] = Idle
    /\ \E a \in Address, u \in User :
        /\ Resolves(a, u)
        /\ request' = [request EXCEPT ![r] = [pc |-> "issue", email |-> a, user |-> u]]
    /\ UNCHANGED <<user, owner, link, session, edits>>

InWindow(u) == {n \in Link : link[n].state \in {"unused", "used"} /\ link[n].user = u /\ ~link[n].expired}

Unused(u) == {n \in Link : link[n].state = "unused" /\ link[n].user = u}

\* Mutant: the owner of the first lookup is taken.
MayIssueAsFound(r) == Cardinality(InWindow(request[r].user)) < PerWindow

MayIssue(r) ==
    /\ Resolves(request[r].email, request[r].user)
    /\ Cardinality(InWindow(request[r].user)) < PerWindow

\* The transaction: older links are burnt, the new one carries the version.
Issue(r) ==
    /\ request[r].pc = "issue" /\ MayIssue(r)
    /\ LET u == request[r].user IN \E n \in Link :
        /\ link[n].state = "none" /\ \A m \in Link : m < n => link[m].state # "none"
        /\ link' = [m \in Link |->
              IF m = n THEN [NoLink EXCEPT !.state = "unused", !.user = u, !.version = user[u].version,
                                           !.email = request[r].email]
              ELSE IF m \in Unused(u) THEN [link[m] EXCEPT !.state = "used"] ELSE link[m]]
        /\ request' = [request EXCEPT ![r] = [pc |-> "mail", link |-> n]]
    /\ UNCHANGED <<user, owner, session, edits>>

IssueRefused(r) ==
    /\ request[r].pc = "issue" /\ ~MayIssue(r)
    /\ request' = [request EXCEPT ![r] = Idle]
    /\ UNCHANGED <<user, owner, link, session, edits>>

\* The mail server takes the mail, refuses it, or takes it and does not answer.
Mail(r) ==
    /\ request[r].pc = "mail"
    /\ LET n == request[r].link IN \E taken, answered \in BOOLEAN :
        /\ answered => taken
        /\ link' = [link EXCEPT ![n].mailed = taken]
        /\ request' = [request EXCEPT ![r] = IF answered THEN Idle ELSE [pc |-> "burn", link |-> n]]
    /\ UNCHANGED <<user, owner, session, edits>>

\* invalidateToken
Burn(r) ==
    /\ request[r].pc = "burn"
    /\ link' = [link EXCEPT ![request[r].link].state = IF @ = "unused" THEN "used" ELSE @]
    /\ request' = [request EXCEPT ![r] = Idle]
    /\ UNCHANGED <<user, owner, session, edits>>
--------------------------------------------------------------------------------
(* Whoever reads the mail opens the link, once or more often.              *)

\* Mutant: the row is read again under the lock but its usedAt is not.
AcceptableUsed(n) == link[n].state \in {"unused", "used"} /\ ~link[n].expired
                     /\ user[link[n].user].on /\ link[n].version = user[link[n].user].version

Acceptable(n) == link[n].state = "unused" /\ ~link[n].expired
                 /\ user[link[n].user].on /\ link[n].version = user[link[n].user].version

Verify(n) ==
    /\ link[n].mailed /\ Acceptable(n)
    /\ link' = [link EXCEPT ![n].state = "used"]
    /\ session' = session \cup {[login |-> Cardinality(session) + 1, link |-> n, user |-> link[n].user,
                                 version |-> link[n].version, email |-> link[n].email, revoked |-> FALSE]}
    /\ UNCHANGED <<user, owner, request, edits>>

Revoke(those) == session' = (session \ those) \cup {[s EXCEPT !.revoked = TRUE] : s \in those}

Logout ==
    /\ \E s \in session : ~s.revoked /\ Revoke({s})
    /\ UNCHANGED <<user, owner, link, request, edits>>

Expires(n) ==
    /\ link[n].state # "none" /\ ~link[n].expired
    /\ \A m \in Link : m < n => link[m].expired
    /\ link' = [link EXCEPT ![n].expired = TRUE]
    /\ UNCHANGED <<user, owner, session, request, edits>>

Spent == {n \in Link : link[n].state = "used"} \cup {n \in Link : link[n].state = "unused" /\ link[n].expired}

\* cleanupExpired; that revoked sessions go too makes no difference.
Cleanup ==
    /\ Spent # {}
    /\ link' = [n \in Link |-> IF n \in Spent THEN [link[n] EXCEPT !.state = "gone"] ELSE link[n]]
    /\ UNCHANGED <<user, owner, session, request, edits>>
--------------------------------------------------------------------------------
(* Changes of a user; each ends what was issued before.                    *)

Edits == edits < MaxEdits /\ edits' = edits + 1

\* The second half of bumpAndRevokeClientAuth.
EndsAll(u) ==
    /\ link' = [n \in Link |-> IF n \in Unused(u) THEN [link[n] EXCEPT !.state = "used"] ELSE link[n]]
    /\ Revoke({s \in session : s.user = u})

Bumped(u) == [user EXCEPT ![u].version = @ + 1]

Switch(u) ==
    /\ Edits
    /\ user' = [Bumped(u) EXCEPT ![u].on = ~@]
    /\ EndsAll(u)
    /\ UNCHANGED <<owner, request>>

AddEmail(u) ==
    /\ Edits
    /\ \E a \in Address, primary \in BOOLEAN :
        /\ owner[a] = None
        /\ owner' = [owner EXCEPT ![a] = u]
        /\ user' = [Bumped(u) EXCEPT ![u].primary = IF primary THEN a ELSE @]
    /\ EndsAll(u)
    /\ UNCHANGED request

RemoveEmail(u) ==
    /\ Edits
    /\ \E a \in Address :
        /\ owner[a] = u /\ user[u].primary # a
        /\ owner' = [owner EXCEPT ![a] = None]
    /\ user' = Bumped(u)
    /\ EndsAll(u)
    /\ UNCHANGED request

SetPrimaryEmail(u) ==
    /\ Edits
    /\ \E a \in Address : owner[a] = u /\ user' = [Bumped(u) EXCEPT ![u].primary = a]
    /\ EndsAll(u)
    /\ UNCHANGED <<owner, request>>

Next ==
    \/ \E r \in Request : Lookup(r) \/ Issue(r) \/ IssueRefused(r) \/ Mail(r) \/ Burn(r)
    \/ \E n \in Link : Verify(n) \/ Expires(n)
    \/ Logout \/ Cleanup
    \/ \E u \in User : Switch(u) \/ AddEmail(u) \/ RemoveEmail(u) \/ SetPrimaryEmail(u)

Spec == Init /\ [][Next]_vars
--------------------------------------------------------------------------------
TypeOK ==
    /\ user \in [User -> [on : BOOLEAN, version : 0 .. MaxEdits, primary : Address]]
    /\ owner \in [Address -> User \cup {None}]
    /\ link \in [Link -> [state : {"none", "unused", "used", "gone"}, user : User \cup {None},
                          version : 0 .. MaxEdits, email : Address \cup {None},
                          expired : BOOLEAN, mailed : BOOLEAN]]
    /\ \A s \in session : s.link \in Link /\ s.user \in User
    /\ \A r \in Request : request[r].pc \in {"idle", "issue", "mail", "burn"}

\* resolveSession
Accepted(s) == ~s.revoked /\ user[s.user].on /\ s.version = user[s.user].version

\* client-auth.service.ts: a session that is accepted belongs to the user who has the
\* address its link was mailed to, now, although the address was moved and the mail
\* was read meanwhile; a link opened one session, and one link of a user can be opened.
LoginsFollowOwners ==
    /\ \A s \in session : Accepted(s) => owner[s.email] = s.user
    /\ \A s, t \in session : s.link = t.link => s = t
    /\ \A m, n \in Link : Acceptable(m) /\ Acceptable(n) /\ link[m].user = link[n].user => m = n

================================================================================
