----------------------------- MODULE UploadAdmission -----------------------------
(***************************************************************************)
(* What an upload passes before its bytes are stored: the challenge and    *)
(* the quotas of the public and the client route (public-upload-challenge  *)
(* and client-upload-admission guards, upload-admission.service.ts), the   *)
(* quarantine that Multer writes (attachments.controller.ts), the checks   *)
(* and the scan of every file (attachments.service.ts) with the scan slots *)
(* of one API process (clamav.service.ts).                                 *)
(*                                                                         *)
(* What storing does to rows and files is AttachmentFiles; here it is one  *)
(* step.  A window of Redis may end at any time.                           *)
(***************************************************************************)
EXTENDS Naturals, FiniteSets, Sequences

CONSTANTS
    Upload,       \* requests with files
    Challenge,    \* Turnstile tokens of the callers
    MaxScans,     \* MAX_CONCURRENT_SCANS
    MaxQueued,    \* MAX_QUEUED_SCANS
    RequestLimit, \* globalLimit of <channel>-upload-request
    ByteLimit,    \* globalLimit of <channel>-upload-bytes
    OrphanLimit,  \* TELECOM_HD_ORPHAN_ATTACHMENT_MAX_COUNT
    MaxFaults     \* bound: failed calls and crashes

VARIABLES
    upload,     \* the requests
    spent,      \* challenges that were verified
    used,       \* the counters of each channel in Redis
    granted,    \* history: what was admitted while those counters lived
    busy,       \* activeScans
    waiters,    \* scanWaiters
    fresh,      \* the signatures were checked within SIGNATURE_CACHE_MS
    quarantine, \* uploads with files in the quarantine directory
    orphans,    \* uploads stored and not yet used by a post
    faults

vars == <<upload, spent, used, granted, busy, waiters, fresh, quarantine, orphans, faults>>

NoUse == [requests |-> 0, bytes |-> 0]
Channel == {"public", "client"}

\* Up to two files, of which one may be malware; bytes stand for Content-Length.
Init ==
    /\ upload \in [Upload -> [pc: {"new"}, channel: {"public", "client", "staff"}, bytes: 1..2,
                              files: 1..2, bad: 0..2, scanned: {0}, token: {{}}]]
    /\ \A u \in Upload : upload[u].bad <= upload[u].files /\ upload[u].files <= upload[u].bytes
    /\ used = [c \in Channel |-> NoUse] /\ granted = used
    /\ busy = 0 /\ waiters = << >> /\ fresh = FALSE
    /\ spent = {} /\ quarantine = {} /\ orphans = {} /\ faults = 0

At(u, pc) == upload[u].pc = pc
To(u, pc) == upload' = [upload EXCEPT ![u].pc = pc]
Faulty == faults < MaxFaults /\ faults' = faults + 1
--------------------------------------------------------------------------------
(* The guards, before Multer reads a byte.                                 *)

\* validateContentLength; the staff route has no admission.
Arrive(u) ==
    /\ At(u, "new")
    /\ \/ To(u, "refused")
       \/ To(u, CASE upload[u].channel = "public" -> "challenge"
                  [] upload[u].channel = "client" -> "request"
                  [] OTHER -> "receive")
    /\ UNCHANGED <<spent, used, granted, busy, waiters, fresh, quarantine, orphans, faults>>

\* TurnstileService.verify: a token counts once; no answer within 3 s is a refusal.
Verify(u) ==
    /\ At(u, "challenge")
    /\ \/ \E t \in Challenge :
            /\ spent' = spent \cup {t}
            /\ \/ t \notin spent /\ UNCHANGED faults
                  /\ upload' = [upload EXCEPT ![u].pc = "request", ![u].token = {t}]
               \/ Faulty /\ To(u, "refused")
       \/ To(u, "refused") /\ UNCHANGED <<spent, faults>>
    /\ UNCHANGED <<used, granted, busy, waiters, fresh, quarantine, orphans>>

\* CONSUME_LUA: a refused request stays counted.
Consume(u, key, cost, limit, next) ==
    LET c == upload[u].channel
        n == used[c][key] + cost
    IN  /\ used' = [used EXCEPT ![c][key] = n]
        /\ IF n > limit
           THEN To(u, "refused") /\ UNCHANGED granted
           ELSE To(u, next) /\ granted' = [granted EXCEPT ![c][key] = @ + cost]

\* reserve: Redis out of reach refuses, as production with public writes does.
Reserve(u) ==
    /\ \/ At(u, "request") /\ Consume(u, "requests", 1, RequestLimit, "bytes") /\ UNCHANGED faults
       \/ At(u, "bytes") /\ Consume(u, "bytes", upload[u].bytes, ByteLimit, "capacity") /\ UNCHANGED faults
       \/ upload[u].pc \in {"request", "bytes"} /\ To(u, "refused") /\ Faulty /\ UNCHANGED <<used, granted>>
    /\ UNCHANGED <<spent, busy, waiters, fresh, quarantine, orphans>>

\* EXPIRE was set when the key was made: its window ends whatever is counted since.
EndWindow ==
    /\ \E c \in Channel, k \in {"requests", "bytes"} :
         /\ used[c][k] > 0
         /\ used' = [used EXCEPT ![c][k] = 0]
         /\ granted' = [granted EXCEPT ![c][k] = 0]
    /\ UNCHANGED <<upload, spent, busy, waiters, fresh, quarantine, orphans, faults>>

HasRoom == Cardinality(orphans) < OrphanLimit

\* assertCanAccept, without the lock.
CheckCapacity(u) ==
    /\ At(u, "capacity")
    /\ To(u, IF HasRoom THEN "receive" ELSE "refused")
    /\ UNCHANGED <<spent, used, granted, busy, waiters, fresh, quarantine, orphans, faults>>
--------------------------------------------------------------------------------
(* The handler.                                                            *)

\* Multer writes the files, or removes what it wrote and refuses.
Receive(u) ==
    /\ At(u, "receive")
    /\ \/ To(u, "check") /\ quarantine' = quarantine \cup {u}
       \/ To(u, "refused") /\ UNCHANGED quarantine
    /\ UNCHANGED <<spent, used, granted, busy, waiters, fresh, orphans, faults>>

\* Sizes and capacity; then names, archives and signatures, file by file.
Check(u) ==
    /\ At(u, "check")
    /\ \/ HasRoom /\ To(u, "scan")
       \/ To(u, "drop")
    /\ UNCHANGED <<spent, used, granted, busy, waiters, fresh, quarantine, orphans, faults>>

\* acquireScanSlot for the next file.
Acquire(u) ==
    /\ At(u, "scan")
    /\ IF busy < MaxScans
       THEN busy' = busy + 1 /\ To(u, "signatures") /\ UNCHANGED waiters
       ELSE IF Len(waiters) < MaxQueued
            THEN waiters' = Append(waiters, u) /\ To(u, "waits") /\ UNCHANGED busy
            ELSE To(u, "drop") /\ UNCHANGED <<busy, waiters>>
    /\ UNCHANGED <<spent, used, granted, fresh, quarantine, orphans, faults>>

\* Mutant: the slot is given back and its waiter woken all the same.
ReleaseTwice(u, pc, n) ==
    /\ busy' = busy - 1
    /\ waiters' = IF waiters = << >> THEN waiters ELSE Tail(waiters)
    /\ upload' = [v \in Upload |->
         CASE v = u -> [upload[u] EXCEPT !.pc = pc, !.scanned = n]
           [] waiters # << >> /\ v = Head(waiters) -> [upload[v] EXCEPT !.pc = "signatures"]
           [] OTHER -> upload[v]]

\* releaseScanSlot: the first waiter takes the slot over, which stays counted.
Release(u, pc, n) ==
    IF waiters = << >>
    THEN /\ busy' = busy - 1 /\ UNCHANGED waiters
         /\ upload' = [upload EXCEPT ![u].pc = pc, ![u].scanned = n]
    ELSE /\ waiters' = Tail(waiters) /\ UNCHANGED busy
         /\ upload' = [upload EXCEPT ![u].pc = pc, ![u].scanned = n, ![Head(waiters)].pc = "signatures"]

\* assertFreshSignatures: stale signatures and any error of the scanner fail closed.
CheckSignatures(u) ==
    /\ At(u, "signatures")
    /\ \/ To(u, "stream") /\ fresh' = TRUE /\ UNCHANGED <<busy, waiters>>
       \/ ~fresh /\ Release(u, "drop", upload[u].scanned) /\ UNCHANGED fresh
    /\ UNCHANGED <<spent, used, granted, quarantine, orphans, faults>>

CacheEnds ==
    /\ fresh /\ fresh' = FALSE
    /\ UNCHANGED <<upload, spent, used, granted, busy, waiters, quarantine, orphans, faults>>

\* streamToClamd and its verdict: found, no answer or a strange one, or OK.
Scan(u) ==
    /\ At(u, "stream")
    /\ LET n == upload[u].scanned + 1
       IN  \/ Release(u, "drop", upload[u].scanned)
           \/ /\ n # upload[u].bad
              /\ Release(u, IF n = upload[u].files THEN "store" ELSE "scan", n)
    /\ UNCHANGED <<spent, used, granted, fresh, quarantine, orphans, faults>>

\* withOrphanCapacity: under the advisory lock the count and the rows are one step.
Store(u) ==
    /\ At(u, "store")
    /\ \/ HasRoom /\ To(u, "stored") /\ orphans' = orphans \cup {u} /\ quarantine' = quarantine \ {u}
       \/ To(u, "drop") /\ UNCHANGED <<orphans, quarantine>>
    /\ UNCHANGED <<spent, used, granted, busy, waiters, fresh, faults>>

\* The finally blocks of uploadFiles and of the handler.
Drop(u) ==
    /\ At(u, "drop")
    /\ To(u, "refused") /\ quarantine' = quarantine \ {u}
    /\ UNCHANGED <<spent, used, granted, busy, waiters, fresh, orphans, faults>>

\* A post takes the files, or the cleanup of orphans.
Leave(u) ==
    /\ u \in orphans /\ orphans' = orphans \ {u}
    /\ UNCHANGED <<upload, spent, used, granted, busy, waiters, fresh, quarantine, faults>>

\* The process dies: its requests are over, its quarantine stays on the disk.
Crash ==
    /\ Faulty
    /\ upload' = [u \in Upload |-> IF upload[u].pc \in {"new", "stored", "refused"} THEN upload[u]
                                   ELSE [upload[u] EXCEPT !.pc = "lost"]]
    /\ busy' = 0 /\ waiters' = << >> /\ fresh' = FALSE
    /\ UNCHANGED <<spent, used, granted, quarantine, orphans>>

Next ==
    \/ EndWindow \/ CacheEnds \/ Crash
    \/ \E u \in Upload :
         \/ Arrive(u) \/ Verify(u) \/ Reserve(u) \/ CheckCapacity(u) \/ Receive(u) \/ Check(u)
         \/ Acquire(u) \/ CheckSignatures(u) \/ Scan(u) \/ Store(u) \/ Drop(u) \/ Leave(u)

Spec == Init /\ [][Next]_vars
--------------------------------------------------------------------------------
\* Every slot is held by a scan, and nobody waits while one is free.
Scanning == {u \in Upload : upload[u].pc \in {"signatures", "stream"}}

SlotsInv ==
    /\ busy = Cardinality(Scanning) /\ busy <= MaxScans /\ Len(waiters) <= MaxQueued
    /\ waiters # << >> => busy = MaxScans
    /\ {waiters[i] : i \in DOMAIN waiters} = {u \in Upload : upload[u].pc = "waits"}

\* Within a window no more is admitted than the limits say, whoever asks at once;
\* a challenge admits one upload.
QuotaInv ==
    /\ \A c \in Channel : granted[c].requests <= RequestLimit /\ granted[c].bytes <= ByteLimit
    /\ \A u, v \in Upload : u # v => upload[u].token \cap upload[v].token = {}

\* Files are stored when all of them were scanned and none was found, within the
\* limit of orphans; what waits in the quarantine belongs to a request in progress
\* or to a process that died.
QuarantineInv ==
    /\ \A u \in Upload : upload[u].pc = "stored" =>
           upload[u].bad = 0 /\ upload[u].scanned = upload[u].files
    /\ Cardinality(orphans) <= OrphanLimit
    /\ \A u \in quarantine : upload[u].pc \notin {"new", "stored", "refused"}

\* An upload holds what it was given and gives it back.
UploadsAreHeld == SlotsInv /\ QuotaInv /\ QuarantineInv
================================================================================
