----------------------------- MODULE Deployment -----------------------------
(***************************************************************************)
(* scripts/deploy-prod.sh: a release is replaced on its host while the old *)
(* one may have to come back.  Up to a boundary every failure puts the old *)
(* release back; the boundary is crossed with copies of the database, of   *)
(* the uploads and of Redis that belong together; beyond it every failure  *)
(* stops the new release and leaves the queues paused.  Any command may    *)
(* fail, a signal runs the handler, and a second one, or SIGKILL, ends the *)
(* script where it is.  The lock of the host keeps the scripts apart.      *)
(*                                                                         *)
(* The database, the uploads and Redis are counters of their writes.       *)
(***************************************************************************)
EXTENDS Naturals

CONSTANTS
    None,
    MaxWrites,   \* bound on the writes of the application, of each kind
    MaxBreaks,   \* bound on failed commands and on deaths of the script
    MaxRuns      \* bound on runs of the script

VARIABLES
    up,          \* the containers that run: edge, api, web, redis
    release,     \* the release they are of
    schema,      \* the release whose migrations the database has
    cipher,      \* whether the queue passwords have been converted for it
    data,        \* the writes of db, files and redis
    paused,      \* whether the queues are paused, which Redis remembers
    active,      \* whether a worker has a job
    named,       \* what the durable volume of Redis has, None while it is missing
    moved,       \* whether Redis runs on that volume
    script,      \* the step of the script, and what it has seen and saved
    breaks, runs

vars == <<up, release, schema, cipher, data, paused, active, named, moved, script, breaks, runs>>
--------------------------------------------------------------------------------
Stores == {"db", "files", "redis"}
Nothing == [s \in Stores |-> None]
App == {"api", "web", "redis"}

\* What the script remembers: the saved copies, the inventory of the uploads, the
\* snapshot of the queues, its flags, and whether its handler has met a failure.
Fresh(step) ==
    [at |-> step, saved |-> Nothing, seen |-> Nothing,
     quiesced |-> FALSE, forward |-> FALSE, audited |-> FALSE, proved |-> FALSE, shaken |-> FALSE]

Init ==
    /\ release \in {"none", "old"}
    /\ up = IF release = "old" THEN App \cup {"edge"} ELSE {}
    /\ schema = release
    /\ cipher = FALSE
    /\ data = [s \in Stores |-> 0]
    /\ paused = FALSE
    /\ active = FALSE
    /\ moved \in BOOLEAN
    /\ named = IF moved /\ release = "old" THEN 0 ELSE None
    /\ release = "none" => moved
    /\ script = Fresh("failed")
    /\ breaks = 0
    /\ runs = 0
--------------------------------------------------------------------------------
(* The application.                                                        *)

Works(s) ==
    /\ "api" \in up /\ data[s] < MaxWrites
    /\ data' = [data EXCEPT ![s] = @ + 1]
    /\ UNCHANGED <<up, release, schema, cipher, paused, active, named, moved, script, breaks, runs>>

TakesJob ==
    /\ App \subseteq up /\ ~paused /\ ~active
    /\ active' = TRUE
    /\ UNCHANGED <<up, release, schema, cipher, data, paused, named, moved, script, breaks, runs>>

EndsJob ==
    /\ App \subseteq up /\ active
    /\ active' = FALSE
    /\ UNCHANGED <<up, release, schema, cipher, data, paused, named, moved, script, breaks, runs>>
--------------------------------------------------------------------------------
(* The steps of the script, in its order.                                  *)

At(step) == script.at = step
Goes(step) == script' = [script EXCEPT !.at = step]
Ended == At("failed") \/ At("dead") \/ At("done")

Starts(c) == up' = up \cup c
Stops(c) == up' = up \ c
Host == <<up, release, schema, cipher, data, paused, active, named, moved>>

\* An existing release must be healthy and only then counts as the old one;
\* without one there must be nothing at all.  Images are built, and the field
\* key, the passwords and pgcrypto are looked at, while it runs.
Begin ==
    /\ Ended /\ runs < MaxRuns
    /\ IF release = "none" THEN up = {} /\ named = None ELSE App \subseteq up
    /\ runs' = runs + 1
    /\ release' = IF release = "none" THEN "none" ELSE "old"
    /\ schema' = release'
    /\ cipher' = FALSE
    /\ script' = Fresh(IF release = "none" THEN "boundary" ELSE "edges")
    /\ UNCHANGED <<up, data, paused, active, named, moved, breaks>>

StopEdges ==
    /\ At("edges") /\ Stops({"edge"}) /\ Goes("quiesce")
    /\ UNCHANGED <<release, schema, cipher, data, paused, active, named, moved, breaks, runs>>

Quiesce ==
    /\ At("quiesce")
    /\ script' = [script EXCEPT !.at = "drain", !.quiesced = TRUE]
    /\ UNCHANGED <<Host, breaks, runs>>

\* Mutant: one try, and the API is stopped with what it does.
DrainOnce ==
    /\ At("drain")
    /\ paused' = TRUE
    /\ Goes("stop")
    /\ UNCHANGED <<up, release, schema, cipher, data, active, named, moved, breaks, runs>>

\* Until no worker has a job, under paused queues.
Drain ==
    /\ At("drain")
    /\ paused' = TRUE
    /\ Goes(IF active THEN "drain" ELSE "stop")
    /\ UNCHANGED <<up, release, schema, cipher, data, active, named, moved, breaks, runs>>

StopOld ==
    /\ At("stop") /\ Goes("look")
    /\ Stops({"api", "web"})
    /\ UNCHANGED <<release, schema, cipher, data, paused, active, named, moved, breaks, runs>>

\* The final snapshot of the queues, the audits and the inventory of the uploads.
Look ==
    /\ At("look") /\ ~active
    /\ paused' = TRUE
    /\ script' = [script EXCEPT !.at = "dump", !.seen = [data EXCEPT !["db"] = None]]
    /\ UNCHANGED <<up, release, schema, cipher, data, active, named, moved, breaks, runs>>

Save(step, s, then) ==
    /\ At(step)
    /\ script' = [script EXCEPT !.at = then, !.saved[s] = data[s]]
    /\ UNCHANGED <<Host, breaks, runs>>

Dump == Save("dump", "db", "archive")

\* The archive is restored elsewhere and compared with the inventory.
Archive ==
    /\ Save("archive", "files", "redis")
    /\ data["files"] = script.seen["files"]

\* The append-only file is complete and on disk, SAVE, and Redis stops.
StopRedis ==
    /\ At("redis") /\ Goes("keep")
    /\ Stops({"redis"})
    /\ UNCHANGED <<release, schema, cipher, data, paused, active, named, moved, breaks, runs>>

Keep == Save("keep", "redis", "copy")

\* The durable volume must be empty, unless Redis is on it already.
Copy ==
    /\ At("copy") /\ Goes("rehearse")
    /\ moved \/ named = None
    /\ named' = script.saved["redis"]
    /\ UNCHANGED <<up, release, schema, cipher, data, paused, active, moved, breaks, runs>>

\* A disposable Redis loads a clone of it.
Rehearse ==
    /\ At("rehearse") /\ Goes("boundary")
    /\ named = script.seen["redis"]
    /\ UNCHANGED <<Host, breaks, runs>>

Boundary ==
    /\ At("boundary")
    /\ script' = [script EXCEPT !.at = IF release = "none" THEN "private" ELSE "migrate", !.forward = TRUE]
    /\ UNCHANGED <<Host, breaks, runs>>

\* The first installation starts Redis and Postgres for its migrations.
StartPrivate ==
    /\ At("private") /\ Goes("migrate")
    /\ Starts({"redis"})
    /\ named' = 0
    /\ UNCHANGED <<release, schema, cipher, data, paused, active, moved, breaks, runs>>

\* The templates are looked at behind the migrations; a first installation has
\* no passwords to convert.
Migrate ==
    /\ At("migrate") /\ Goes(IF release = "none" THEN "up" ELSE "convert")
    /\ schema' = "new"
    /\ UNCHANGED <<up, release, cipher, data, paused, active, named, moved, breaks, runs>>

Convert ==
    /\ At("convert") /\ Goes("up")
    /\ cipher' = TRUE
    /\ UNCHANGED <<up, release, schema, data, paused, active, named, moved, breaks, runs>>

\* docker compose up: the new Redis loads the durable volume.
Up ==
    /\ At("up") /\ Goes("gates")
    /\ Starts(App)
    /\ release' = "new"
    /\ data' = [data EXCEPT !["redis"] = named]
    /\ moved' = TRUE
    /\ UNCHANGED <<schema, cipher, paused, active, named, breaks, runs>>

\* Health, templates, audits and the keys of Redis.
Gates ==
    /\ At("gates")
    /\ script' = [script EXCEPT !.at = "resume", !.audited = TRUE]
    /\ UNCHANGED <<Host, breaks, runs>>

Resume ==
    /\ At("resume") /\ Goes("summary")
    /\ paused' = FALSE
    /\ UNCHANGED <<up, release, schema, cipher, data, active, named, moved, breaks, runs>>

Finish ==
    /\ At("summary") /\ Goes("done")
    /\ UNCHANGED <<Host, breaks, runs>>
--------------------------------------------------------------------------------
(* restore_old_release: what a failure does.                               *)

Steps ==
    {"edges", "quiesce", "drain", "stop", "look", "dump", "archive", "redis", "keep", "copy", "rehearse",
     "boundary", "private", "migrate", "convert", "up", "gates", "resume", "summary"}
Undo == {"undo redis", "undo resume", "undo api", "undo web"}
Freeze == {"freeze pause", "freeze stop", "freeze again", "freeze edges"}

Handler ==
    IF script.forward THEN "freeze pause" ELSE IF script.quiesced THEN "undo redis" ELSE "failed"

Breaks == breaks < MaxBreaks /\ breaks' = breaks + 1

\* A command that has failed, or a signal before or behind it.
Fails ==
    /\ script.at \in Steps /\ Breaks
    /\ Goes(Handler)
    /\ UNCHANGED <<Host, runs>>

\* A check that does not pass: the workers are not idle in ten minutes, a copy
\* differs from what was seen, the durable volume has something.
Refuses ==
    /\ \/ At("drain") /\ active
       \/ At("look") /\ active
       \/ At("archive") /\ data["files"] # script.seen["files"]
       \/ At("copy") /\ ~moved /\ named # None
       \/ At("rehearse") /\ named # script.seen["redis"]
    /\ Goes(Handler)
    /\ UNCHANGED <<Host, breaks, runs>>

\* The handler has removed its own traps.
Dies ==
    /\ script.at \in Steps \cup Undo \cup Freeze /\ Breaks
    /\ Goes("dead")
    /\ UNCHANGED <<Host, runs>>

UndoRedis ==
    /\ At("undo redis") /\ Goes("undo resume")
    /\ Starts({"redis"})
    /\ UNCHANGED <<release, schema, cipher, data, paused, active, named, moved, breaks, runs>>

UndoResume ==
    /\ At("undo resume") /\ Goes("undo api")
    /\ paused' = FALSE
    /\ UNCHANGED <<up, release, schema, cipher, data, active, named, moved, breaks, runs>>

UndoStart(c, step, then) ==
    /\ At(step) /\ Goes(then)
    /\ Starts({c})
    /\ UNCHANGED <<release, schema, cipher, data, paused, active, named, moved, breaks, runs>>

\* One step of it has failed, or what it started is not healthy.
UndoFails ==
    /\ script.at \in Undo /\ Breaks
    /\ script' = [script EXCEPT !.at = "failed", !.shaken = TRUE]
    /\ Stops({"api", "web"})
    /\ UNCHANGED <<release, schema, cipher, data, paused, active, named, moved, runs>>

\* In the API, twelve times; the pause that finds a job under way is not proved.
FreezePause ==
    /\ At("freeze pause")
    /\ IF {"api", "redis"} \subseteq up
       THEN /\ paused' = TRUE
            /\ \/ ~active /\ script' = [script EXCEPT !.at = "freeze stop", !.proved = TRUE]
               \/ active /\ Goes("freeze stop")
       ELSE Goes("freeze stop") /\ UNCHANGED paused
    /\ UNCHANGED <<up, release, schema, cipher, data, active, named, moved, breaks, runs>>

FreezeStop ==
    /\ At("freeze stop") /\ Goes(IF script.proved THEN "freeze edges" ELSE "freeze again")
    /\ Stops({"api", "web"})
    /\ UNCHANGED <<release, schema, cipher, data, paused, active, named, moved, breaks, runs>>

\* From a container of its own; without Redis it cannot be proved.
FreezeAgain ==
    /\ At("freeze again") /\ Goes("freeze edges")
    /\ paused' = (paused \/ "redis" \in up)
    /\ UNCHANGED <<up, release, schema, cipher, data, active, named, moved, breaks, runs>>

FreezeEdges ==
    /\ At("freeze edges") /\ Goes("failed")
    /\ Stops({"edge"})
    /\ UNCHANGED <<release, schema, cipher, data, paused, active, named, moved, breaks, runs>>

\* A command of this handler that fails is passed over.
FreezeSkips ==
    /\ script.at \in Freeze /\ Breaks
    /\ script' = [script EXCEPT !.shaken = TRUE, !.at =
           CASE At("freeze pause") -> "freeze stop" [] At("freeze stop") -> "freeze again"
             [] At("freeze again") -> "freeze edges" [] OTHER -> "failed"]
    /\ UNCHANGED <<Host, runs>>
--------------------------------------------------------------------------------
Next ==
    \/ \E s \in Stores : Works(s)
    \/ TakesJob \/ EndsJob
    \/ Begin \/ StopEdges \/ Quiesce \/ Drain \/ StopOld \/ Look \/ Dump \/ Archive \/ StopRedis \/ Keep
    \/ Copy \/ Rehearse \/ Boundary \/ StartPrivate \/ Migrate \/ Convert \/ Up \/ Gates \/ Resume \/ Finish
    \/ Fails \/ Refuses \/ Dies \/ UndoRedis \/ UndoResume \/ UndoStart("api", "undo api", "undo web")
    \/ UndoStart("web", "undo web", "failed") \/ UndoFails
    \/ FreezePause \/ FreezeStop \/ FreezeAgain \/ FreezeEdges \/ FreezeSkips

Spec == Init /\ [][Next]_vars
--------------------------------------------------------------------------------
\* DEPLOY.md:158-174: the old release never runs on what the new one has migrated
\* or converted.
OldNeverMeetsNew == release = "old" /\ "api" \in up => schema = "old" /\ ~cipher

\* deploy-prod.sh:582: behind the boundary the three copies exist and are of one
\* moment, the last of the old release, and Redis has been copied as it was.
TripletIsExact ==
    release = "old" /\ (schema = "new" \/ cipher) =>
        \A s \in Stores : script.saved[s] = data[s] /\ named = data["redis"]

\* deploy-prod.sh:427: no job is cut short, but by a handler that could not help it.
NoJobIsCut ==
    active /\ "api" \notin up => script.at \in Freeze \/ Ended

\* Workers of a new release run when it has passed its gates, if there was an old one.
OnlyAuditedWorks ==
    release = "new" /\ "api" \in up /\ script.saved # Nothing /\ ~paused => script.audited

\* What goes wrong before the boundary, unless the handler meets with more of it,
\* leaves the old release running and its queues resumed.
FailureComesBack ==
    At("failed") /\ script.quiesced /\ ~script.forward /\ ~script.shaken => App \subseteq up /\ ~paused

\* A failure behind it leaves nothing running, and queues that were paused stay so.
FailureStaysDown ==
    At("failed") /\ script.forward /\ ~script.shaken => "api" \notin up /\ (release = "new" => paused)

DeploymentInv ==
    /\ OldNeverMeetsNew
    /\ TripletIsExact
    /\ NoJobIsCut
    /\ OnlyAuditedWorks
    /\ FailureComesBack
    /\ FailureStaysDown
================================================================================
