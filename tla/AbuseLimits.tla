------------------------------- MODULE AbuseLimits -------------------------------
(***************************************************************************)
(* The counters in Redis that slow down guesses of a password              *)
(* (login-throttle.service.ts) and bound the mails of password resets      *)
(* (password-reset-throttle.service.ts), for one address and one e-mail.   *)
(* A login reads its counter, hashes, and counts only then; a reset counts *)
(* and decides in one script.  A counter may expire at any time.           *)
(***************************************************************************)
EXTENDS Naturals, FiniteSets

CONSTANTS
    Login,      \* login requests of the address for the e-mail, one at a time each
    Threshold,  \* FAILURE_THRESHOLD
    Key,        \* counters of a reset: "global", "ip", "identity"
    Limit,      \* GLOBAL_LIMIT, IP_LIMIT, IDENTITY_LIMIT by key
    MaxFaults   \* bound: calls on Redis that fail

VARIABLES
    login,      \* the step of each login request
    failures,   \* the failure count; 0 when the key is absent
    guesses,    \* history: wrong passwords hashed for what the count stands for
    asked,      \* the counts of the resets
    resets,     \* history: resets that were let through, by key, in its window
    lapses      \* calls on Redis that failed

vars == <<login, failures, guesses, asked, resets, lapses>>

Init ==
    /\ login = [r \in Login |-> "idle"]
    /\ failures = 0 /\ guesses = 0 /\ lapses = 0
    /\ asked = [k \in Key |-> 0] /\ resets = asked

Lapse == lapses < MaxFaults /\ lapses' = lapses + 1
To(r, pc) == login' = [login EXCEPT ![r] = pc]
Unrecorded == {r \in Login : login[r] = "wrong"}

\* assertNotThrottled: fails open.
AssertNotThrottled(r) ==
    /\ login[r] = "idle"
    /\ \/ failures < Threshold /\ To(r, "hash") /\ UNCHANGED lapses
       \/ Lapse /\ To(r, "hash")
    /\ UNCHANGED <<failures, guesses, asked, resets>>

\* validateStaff; an unknown e-mail is hashed against a decoy.
ValidateStaff(r) ==
    /\ login[r] = "hash"
    /\ \/ To(r, "wrong") /\ guesses' = guesses + 1
       \/ To(r, "right") /\ UNCHANGED guesses
    /\ UNCHANGED <<failures, asked, resets, lapses>>

\* INCR and EXPIRE in one script: the count has an end, whatever fails.
Count(r) == failures' = failures + 1

RecordFailure(r) ==
    /\ login[r] = "wrong" /\ To(r, "idle")
    /\ \/ Count(r) /\ UNCHANGED lapses
       \/ Lapse /\ UNCHANGED failures
    /\ UNCHANGED <<guesses, asked, resets>>

\* What the count will say of the wrong passwords that are not recorded yet.
Forgotten == failures' = 0 /\ guesses' = Cardinality(Unrecorded)

Clear(r) ==
    /\ login[r] = "right" /\ To(r, "idle")
    /\ \/ Forgotten /\ UNCHANGED lapses
       \/ Lapse /\ UNCHANGED <<failures, guesses>>
    /\ UNCHANGED <<asked, resets>>

FailuresExpire ==
    /\ failures > 0 /\ Forgotten
    /\ UNCHANGED <<login, asked, resets, lapses>>

\* consume: every key counts, also for a reset that another key turns away; without
\* Redis it fails closed.  asked stops one above the limit, where more is the same.
AskReset ==
    LET n == [k \in Key |-> asked[k] + 1]
    IN  /\ asked' = [k \in Key |-> IF n[k] > Limit[k] THEN Limit[k] + 1 ELSE n[k]]
        /\ resets' = IF \E k \in Key : n[k] > Limit[k] THEN resets ELSE [k \in Key |-> resets[k] + 1]
        /\ UNCHANGED <<login, failures, guesses, lapses>>

ResetsExpire(k) ==
    /\ asked[k] > 0
    /\ asked' = [asked EXCEPT ![k] = 0]
    /\ resets' = [resets EXCEPT ![k] = 0]
    /\ UNCHANGED <<login, failures, guesses, lapses>>

Next ==
    \/ FailuresExpire \/ AskReset \/ \E k \in Key : ResetsExpire(k)
    \/ \E r \in Login : AssertNotThrottled(r) \/ ValidateStaff(r) \/ RecordFailure(r) \/ Clear(r)

Spec == Init /\ [][Next]_vars
--------------------------------------------------------------------------------
\* Logins that read the count together pass together: their number is all by which
\* the wrong passwords of a count exceed the threshold, a failed call aside.
\* Every reset that is let through is within the limit of each of its keys.
LimitsHold ==
    /\ guesses < Threshold + Cardinality(Login) + lapses
    /\ \A k \in Key : resets[k] <= Limit[k]
================================================================================
