---------------------------- MODULE CollectionJob ----------------------------
(***************************************************************************)
(* One news collection job, from the request that creates its row in       *)
(* news_job_status to the handler that closes it (newsService.js), with    *)
(* the pg-boss messages that deliver and redeliver it (jobScheduler.js),   *)
(* the crash of the server and the startup that closes or resumes what it  *)
(* left open (server.js).                                                  *)
(*                                                                         *)
(* A run is one execution of processNewsCollectionJob; several can work on *)
(* the same row, because an expired message is delivered again while its   *)
(* first handler still runs.  A step is the code between two awaits of a   *)
(* query, taken at the moment the query is executed.  Inside a run, the    *)
(* batch is the promise of BatchPromise with its workers counted:          *)
(*                                                                         *)
(*   idle    workers about to read the job's status                        *)
(*   permits workers whose read let them claim an item                     *)
(*   running items being collected, each by a worker                       *)
(*   writes  checkpoints sent to the database, each by a worker            *)
(***************************************************************************)
EXTENDS Integers, FiniteSets

CONSTANTS
    Pois,              \* the POIs of the job (row.poi_ids)
    MaxConcurrency,    \* the max_concurrency setting
    RetryLimit,        \* NEWS_BATCH_RETRY.retryLimit
    Sources,           \* who may create the job: "admin", "scheduled"
    MayFail,           \* which queries may fail, a subset of FailurePoints
    AgeDuringStartup,  \* whether the job may turn an hour old during a startup
    MaxMessages,       \* bound: messages ever sent
    MaxRuns,           \* bound: runs alive together
    MaxCrashes,        \* bound: restarts of the server
    MaxExpiries,       \* bound: expired deliveries
    MaxFailures        \* bound: queries that fail

FailurePoints ==
    {"submit", "setup", "status", "checkpoint", "close", "abandon", "scheduler", "resume"}

ASSUME JobAssumption ==
    /\ IsFiniteSet(Pois) /\ Pois # {}
    /\ {MaxConcurrency, MaxMessages, MaxRuns} \subseteq Nat \ {0}
    /\ {RetryLimit, MaxCrashes, MaxExpiries, MaxFailures} \subseteq Nat
    /\ Sources \subseteq {"admin", "scheduled"}
    /\ MayFail \subseteq FailurePoints
    /\ AgeDuringStartup \in BOOLEAN

Messages == 1..MaxMessages
Runs == 1..MaxRuns

VARIABLES
    row,        \* the job's row: status, processed_poi_ids, older than an hour
    message,    \* the pg-boss messages that carry the job's id
    run,        \* the runs in this process
    server,     \* "down", "boot" (scheduler not started), "resume" (handlers
                \* registered), "up", "degraded" (the scheduler did not start, or
                \* not as far as the registration of the job's worker)
    request,    \* the creating request: "none", "created" (row only), "answered"
    collected,  \* history: the POIs whose collectFn settled in some run
    faults      \* crashes, expiries and failures so far

vars == <<row, message, run, server, request, collected, faults>>

Statuses == {"none", "queued", "running", "completed", "cancelled", "failed"}

\* status IN ('queued', 'running')
Open == row.status \in {"queued", "running"}

\* The handler's state before a run starts and after its last step.
NoRun == [pc |-> "unused", msg |-> 0, todo |-> {}, running |-> {}, writes |-> {},
          recorded |-> {}, idle |-> 0, permits |-> 0, cancelled |-> FALSE]

Labels == {"unused", "read", "nothing", "start", "prepare", "batch", "close",
           "fail", "return", "throw", "over"}

TypeOK ==
    /\ row \in [status : Statuses, processed : SUBSET Pois, old : BOOLEAN]
    /\ message \in [Messages -> [state : {"none", "queued", "active", "over"}, tries : 0..RetryLimit]]
    /\ run \in [Runs -> [pc : Labels, msg : {0} \cup Messages, todo : SUBSET Pois,
                         running : SUBSET Pois,
                         writes : SUBSET [poi : Pois, ids : SUBSET Pois],
                         recorded : SUBSET Pois, idle : 0..MaxConcurrency,
                         permits : 0..MaxConcurrency, cancelled : BOOLEAN]]
    /\ server \in {"down", "boot", "resume", "up", "degraded"}
    /\ request \in {"none", "created", "answered"}
    /\ collected \in SUBSET Pois
    /\ faults \in [crashes : 0..MaxCrashes, expiries : 0..MaxExpiries, failures : 0..MaxFailures]

Init ==
    /\ row = [status |-> "none", processed |-> {}, old |-> FALSE]
    /\ message = [m \in Messages |-> [state |-> "none", tries |-> 0]]
    /\ run = [r \in Runs |-> NoRun]
    /\ server = "up"
    /\ request = "none"
    /\ collected = {}
    /\ faults = [crashes |-> 0, expiries |-> 0, failures |-> 0]

-----------------------------------------------------------------------------
(* Helpers.                                                                *)

SetStatus(status) == row' = [row EXCEPT !.status = status]

\* A query rejects: a pg pool timeout or a lost connection.
Fails(point) ==
    /\ point \in MayFail
    /\ faults.failures < MaxFailures
    /\ faults' = [faults EXCEPT !.failures = @ + 1]

\* boss.send: the next message is put in the queue.
Send(m) ==
    /\ \A n \in Messages : message[n].state = "none" <=> n >= m
    /\ message' = [message EXCEPT ![m].state = "queued"]

\* pg-boss gives a message back to the queue, or gives up on it.
GiveBack(m) ==
    message' = [message EXCEPT ![m] =
        IF @.tries < RetryLimit THEN [state |-> "queued", tries |-> @.tries + 1]
                                ELSE [@ EXCEPT !.state = "over"]]

\* processNewsCollectionJob is called for message m (0: by setImmediate).
StartRun(r, m) ==
    /\ run[r].pc = "unused"
    /\ \A q \in Runs : q < r => run[q].pc # "unused"
    /\ run' = [run EXCEPT ![r] = [NoRun EXCEPT !.pc = "read", !.msg = m]]

\* What a step of the batch leaves: a worker that finds nothing left ends, and
\* the batch resolves when nothing is in flight and nothing left or allowed.
Settled(b) ==
    LET quiet == b.running = {} /\ b.writes = {}
        ended == quiet /\ (b.todo = {} \/ b.cancelled)
        c == [b EXCEPT !.permits = IF b.todo = {} THEN 0 ELSE @,
                       !.idle = IF b.cancelled THEN 0 ELSE @]
    IN  CASE b.pc = "batch" /\ ended ->
               [c EXCEPT !.pc = IF b.cancelled THEN "return" ELSE "close", !.idle = 0]
          [] b.pc = "over" /\ quiet /\ c.permits = 0 -> NoRun
          [] OTHER -> c

\* The handler returns or throws; workers let through before a cancellation
\* was seen are still there.
Leave(r) == run' = [run EXCEPT ![r] = Settled([@ EXCEPT !.pc = "over", !.msg = 0])]

-----------------------------------------------------------------------------
(* The handler, processNewsCollectionJob.                                  *)

Goto(r, label) == run' = [run EXCEPT ![r].pc = label]

\* The row is read, and what it records as processed is not done again.
ReadJob_FromScratch(r) ==    \* mutant: newlyProcessedIds starts empty
    /\ run[r].pc = "read"
    /\ LET todo == Pois \ row.processed
       IN  run' = [run EXCEPT ![r].pc = IF todo = {} THEN "nothing" ELSE "start",
                              ![r].todo = todo]
    /\ UNCHANGED <<row, message, server, request, collected, faults>>
ReadJob(r) ==
    /\ run[r].pc = "read"
    /\ LET todo == Pois \ row.processed
       IN  run' = [run EXCEPT ![r].pc = IF todo = {} THEN "nothing" ELSE "start",
                              ![r].todo = todo,
                              ![r].recorded = row.processed]
    /\ UNCHANGED <<row, message, server, request, collected, faults>>

MarkNothingLeft(r) ==
    /\ run[r].pc = "nothing"
    /\ SetStatus("completed")
    /\ Goto(r, "return")
    /\ UNCHANGED <<message, server, request, collected, faults>>

MarkRunning(r) ==
    /\ run[r].pc = "start"
    /\ SetStatus("running")
    /\ Goto(r, "prepare")
    /\ UNCHANGED <<message, server, request, collected, faults>>

\* The POI rows, the ownership map and max_concurrency are read; runBatch starts.
StartBatch(r) ==
    /\ run[r].pc = "prepare"
    /\ LET size == Cardinality(run[r].todo)
       IN  run' = [run EXCEPT ![r].pc = "batch",
                              ![r].idle = IF size < MaxConcurrency THEN size ELSE MaxConcurrency]
    /\ UNCHANGED <<row, message, server, request, collected, faults>>

\* A query before the try block rejects: the row stays as it is.
SetupFails(r) ==
    /\ run[r].pc \in {"read", "nothing", "start", "prepare"}
    /\ Fails("setup")
    /\ Goto(r, "throw")
    /\ UNCHANGED <<row, message, server, request, collected>>

\* checkCancelled of an idle worker.
ReadStatus(r) ==
    /\ run[r].idle > 0
    /\ LET b == run[r]
       IN  run' = [run EXCEPT ![r] = Settled(
                      IF row.status = "cancelled"
                      THEN [b EXCEPT !.cancelled = TRUE]
                      ELSE [b EXCEPT !.idle = @ - 1, !.permits = @ + 1])]
    /\ UNCHANGED <<row, message, server, request, collected, faults>>

\* checkCancelled rejects, and the worker's chain is lost.
StatusReadFails(r) ==
    /\ run[r].idle > 0
    /\ Fails("status")
    /\ run' = [run EXCEPT ![r].idle = @ - 1]
    /\ UNCHANGED <<row, message, server, request, collected>>

Claim(r, poi) ==
    /\ run[r].permits > 0
    /\ poi \in run[r].todo
    /\ run' = [run EXCEPT ![r] = Settled([run[r] EXCEPT
                  !.permits = @ - 1, !.todo = @ \ {poi}, !.running = @ \cup {poi}])]
    /\ UNCHANGED <<row, message, server, request, collected, faults>>

\* collectFn settles.  Whether it found news, found nothing or threw, the POI
\* joins newlyProcessedIds, and the ids known by then are sent as a checkpoint.
Collected_EarlySnapshot(r, poi) ==   \* mutant: the ids of the claimed items are sent
    /\ poi \in run[r].running
    /\ LET ids == run[r].recorded \cup run[r].running
       IN  run' = [run EXCEPT ![r].running = @ \ {poi},
                              ![r].recorded = ids,
                              ![r].writes = @ \cup {[poi |-> poi, ids |-> ids]}]
    /\ collected' = collected \cup {poi}
    /\ UNCHANGED <<row, message, server, request, faults>>
Collected(r, poi) ==
    /\ poi \in run[r].running
    /\ LET ids == run[r].recorded \cup {poi}
       IN  run' = [run EXCEPT ![r].running = @ \ {poi},
                              ![r].recorded = ids,
                              ![r].writes = @ \cup {[poi |-> poi, ids |-> ids]}]
    /\ collected' = collected \cup {poi}
    /\ UNCHANGED <<row, message, server, request, faults>>

\* The worker of checkpoint w goes on: it arms its timer if items are left.
Written(r, w) ==
    LET b == run[r]
        rearms == b.todo # {} /\ ~b.cancelled
    IN  run' = [run EXCEPT ![r] = Settled([b EXCEPT
                   !.writes = @ \ {w}, !.idle = IF rearms /\ b.pc = "batch" THEN @ + 1 ELSE @])]

\* Checkpoints travel on connections of their own: they land in any order.
Checkpoint(r, w) ==
    /\ w \in run[r].writes
    /\ row' = [row EXCEPT !.processed = w.ids]
    /\ Written(r, w)
    /\ UNCHANGED <<message, server, request, collected, faults>>

\* safeCheckpoint swallows the error.
CheckpointFails(r, w) ==
    /\ w \in run[r].writes
    /\ Fails("checkpoint")
    /\ Written(r, w)
    /\ UNCHANGED <<row, message, server, request, collected>>

\* The batch was not cancelled: the row is completed, whatever its status is.
MarkCompleted(r) ==
    /\ run[r].pc = "close"
    /\ SetStatus("completed")
    /\ Goto(r, "return")
    /\ UNCHANGED <<message, server, request, collected, faults>>

MarkCompletedFails(r) ==
    /\ run[r].pc = "close"
    /\ Fails("close")
    /\ Goto(r, "fail")
    /\ UNCHANGED <<row, message, server, request, collected>>

\* The catch block; its own query may reject too.
MarkFailed(r) ==
    /\ run[r].pc = "fail"
    /\ Goto(r, "throw")
    /\ \/ SetStatus("failed") /\ UNCHANGED faults
       \/ Fails("close") /\ UNCHANGED row
    /\ UNCHANGED <<message, server, request, collected>>

\* The handler returns and pg-boss completes the message, unless it expired.
Return(r) ==
    /\ run[r].pc = "return"
    /\ message' = IF run[r].msg = 0 THEN message
                  ELSE [message EXCEPT ![run[r].msg].state = "over"]
    /\ Leave(r)
    /\ UNCHANGED <<row, server, request, collected, faults>>

\* The handler throws and pg-boss retries; setImmediate's caller only logs.
Throw_NoRethrow(r) ==    \* mutant: the error is logged and not rethrown
    /\ run[r].pc = "throw"
    /\ message' = IF run[r].msg = 0 THEN message
                  ELSE [message EXCEPT ![run[r].msg].state = "over"]
    /\ Leave(r)
    /\ UNCHANGED <<row, server, request, collected, faults>>
Throw(r) ==
    /\ run[r].pc = "throw"
    /\ IF run[r].msg = 0 THEN UNCHANGED message ELSE GiveBack(run[r].msg)
    /\ Leave(r)
    /\ UNCHANGED <<row, server, request, collected, faults>>

HandlerStep(r) ==
    \/ ReadJob(r)
    \/ MarkNothingLeft(r)
    \/ MarkRunning(r)
    \/ StartBatch(r)
    \/ ReadStatus(r)
    \/ \E poi \in Pois : Claim(r, poi) \/ Collected(r, poi)
    \/ \E w \in run[r].writes : Checkpoint(r, w)
    \/ MarkCompleted(r)
    \/ MarkFailed(r)
    \/ Return(r)
    \/ Throw(r)

HandlerFails(r) ==
    \/ SetupFails(r)
    \/ StatusReadFails(r)
    \/ \E w \in run[r].writes : CheckpointFails(r, w)
    \/ MarkCompletedFails(r)

-----------------------------------------------------------------------------
(* pg-boss: one worker per process fetches the job's messages.             *)

Deliver(m, r) ==
    /\ server \in {"resume", "up"}
    /\ message[m].state = "queued"
    /\ \A q \in Runs : run[q].msg = 0
    /\ message' = [message EXCEPT ![m].state = "active"]
    /\ StartRun(r, m)
    /\ UNCHANGED <<row, server, request, collected, faults>>

\* A delivery outlives expireInMinutes: the message is given back, and its
\* handler, if this process still runs one, is no longer listened to.
Expire(m) ==
    /\ server \in {"resume", "up"}
    /\ message[m].state = "active"
    /\ faults.expiries < MaxExpiries
    /\ faults' = [faults EXCEPT !.expiries = @ + 1]
    /\ GiveBack(m)
    /\ run' = [r \in Runs |-> IF run[r].msg = m THEN [run[r] EXCEPT !.msg = 0] ELSE run[r]]
    /\ UNCHANGED <<row, server, request, collected>>

-----------------------------------------------------------------------------
(* Requests of the admin, and the scheduled pipelines.                     *)

\* POST /news/collect-batch inserts the row, then sends the message.
CreateJob ==
    /\ "admin" \in Sources
    /\ server \in {"up", "degraded"}
    /\ row.status = "none"
    /\ SetStatus("queued")
    /\ request' = "created"
    /\ UNCHANGED <<message, run, server, collected, faults>>

SubmitJob(m) ==
    /\ request = "created"
    /\ server \in {"up", "degraded"}
    /\ Send(m)
    /\ request' = "answered"
    /\ UNCHANGED <<row, run, server, collected, faults>>

\* boss.send rejects, as it may whenever the scheduler did not start: the admin
\* gets a 500 and the row stays.
SubmitFails ==
    /\ request = "created"
    /\ server \in {"up", "degraded"}
    /\ IF server = "degraded" THEN UNCHANGED faults ELSE Fails("submit")
    /\ request' = "answered"
    /\ UNCHANGED <<row, message, run, server, collected>>

\* runPipelineCollection: the row is inserted and the handler called directly.
RunScheduled(r) ==
    /\ "scheduled" \in Sources
    /\ server \in {"resume", "up"}
    /\ row.status = "none"
    /\ SetStatus("queued")
    /\ StartRun(r, 0)
    /\ UNCHANGED <<message, server, request, collected, faults>>

\* POST /news/job/:id/cancel
CancelJob ==
    /\ server \in {"up", "degraded"}
    /\ row.status = "running"
    /\ SetStatus("cancelled")
    /\ UNCHANGED <<message, run, server, request, collected, faults>>

-----------------------------------------------------------------------------
(* Crash and startup.                                                      *)

\* The process ends; every handler is gone, every active message stays active.
Crash ==
    /\ server # "down"
    /\ faults.crashes < MaxCrashes
    /\ faults' = [faults EXCEPT !.crashes = @ + 1]
    /\ server' = "down"
    /\ run' = [r \in Runs |-> NoRun]
    /\ request' = IF request = "created" THEN "answered" ELSE request
    /\ UNCHANGED <<row, message, collected>>

\* failAbandonedJobs; start() catches its error.
FailAbandoned ==
    /\ server = "down"
    /\ server' = "boot"
    /\ \/ row' = (IF Open /\ row.old THEN [row EXCEPT !.status = "failed"] ELSE row)
          /\ UNCHANGED faults
       \/ Fails("abandon") /\ UNCHANGED row
    /\ UNCHANGED <<message, run, request, collected>>

StartScheduler ==
    /\ server = "boot"
    /\ server' = "resume"
    /\ UNCHANGED <<row, message, run, request, collected, faults>>

\* boss.start() rejects, or a call before the registration of the job's worker:
\* start() logs it and goes on without that worker, and without resuming.
SchedulerFails ==
    /\ server = "boot"
    /\ Fails("scheduler")
    /\ server' = "degraded"
    /\ UNCHANGED <<row, message, run, request, collected>>

\* findIncompleteJobs, and submitBatchNewsJob for the job it finds.
ResumeJobs_RunningOnly ==    \* mutant: a job that was still queued is not resumed
    /\ server = "resume"
    /\ server' = "up"
    /\ IF row.status = "running" /\ ~row.old THEN \E m \in Messages : Send(m) ELSE UNCHANGED message
    /\ UNCHANGED <<row, run, request, collected, faults>>
ResumeJobs ==
    /\ server = "resume"
    /\ server' = "up"
    /\ IF Open /\ ~row.old THEN \E m \in Messages : Send(m) ELSE UNCHANGED message
    /\ UNCHANGED <<row, run, request, collected, faults>>

\* A later registration, findIncompleteJobs or submitBatchNewsJob rejects: start() logs
\* it and goes on, with the handlers registered and nothing resumed.
ResumeFails ==
    /\ server = "resume"
    /\ Fails("resume")
    /\ server' = "up"
    /\ UNCHANGED <<row, message, run, request, collected>>

\* created_at falls more than an hour behind.
GrowOld ==
    /\ row.status # "none" /\ ~row.old
    /\ server \in {"boot", "resume"} => AgeDuringStartup
    /\ row' = [row EXCEPT !.old = TRUE]
    /\ UNCHANGED <<message, run, server, request, collected, faults>>

-----------------------------------------------------------------------------

Startup == FailAbandoned \/ StartScheduler \/ ResumeJobs

System ==
    \/ Startup
    \/ \E m \in Messages : SubmitJob(m) \/ \E r \in Runs : Deliver(m, r)

Environment ==
    \/ CreateJob
    \/ SubmitFails
    \/ \E r \in Runs : RunScheduled(r)
    \/ CancelJob
    \/ \E m \in Messages : Expire(m)
    \/ Crash
    \/ SchedulerFails
    \/ ResumeFails
    \/ GrowOld

Next ==
    \/ \E r \in Runs : HandlerStep(r) \/ HandlerFails(r)
    \/ System
    \/ Environment

Spec == Init /\ [][Next]_vars

\* Queries are answered and collectFn settles; pg-boss polls its queue; systemd
\* starts the server again.  Crashes, expiries and admins are not obliged.
FairSpec ==
    /\ Spec
    /\ WF_vars(System)
    /\ \A r \in Runs : WF_vars(HandlerStep(r))

-----------------------------------------------------------------------------

\* Somebody will still work on the job.
Driven ==
    \/ \E m \in Messages : message[m].state \in {"queued", "active"}
    \/ \E r \in Runs : run[r].pc \notin {"unused", "over"}

\* What a resumed job skips was really collected: overlapping runs, snapshots
\* landing out of order and lost checkpoints may forget a POI, never invent one.
ProcessedWereCollected == row.processed \subseteq collected

\* "completed" is never reached over a POI nobody collected, whichever of the
\* runs, retries and resumes of the job writes it.
CompletedMeansCollected == row.status = "completed" => collected = Pois

\* With one worker and no expiry, the recorded progress never shrinks: crashes,
\* retries and failed checkpoints cost at most the POIs in flight.
ProgressIsKept == [][row.processed \subseteq row'.processed]_vars

\* What newsService.js:242-248 says of a restart: a job left open is resumed if
\* it is young and closed if it is old, so none is left open with no one on it,
\* unless the resume itself fails.
StartupLeavesNoOrphan == [][server' = "up" => (Open' => Driven')]_server

\* A job that nobody works on stays open for one of these reasons: it was an hour old when
\* the startup looked for it; or a query failed, and its message was never sent, or was
\* tried as often as it may be, or its run had no message to be tried again with: it was
\* scheduled, or its delivery had expired.  The failed query may be the startup's own.
OrphanHasCause ==
    server = "up" /\ request # "created" /\ Open /\ ~Driven =>
      \/ row.old /\ faults.crashes > 0 /\ (AgeDuringStartup \/ faults.failures > 0)
      \/ /\ faults.failures > 0
         /\ \/ \A m \in Messages : message[m].state = "none"
            \/ \E m \in Messages : message[m] = [state |-> "over", tries |-> RetryLimit]
            \/ request = "none" \/ faults.expiries > 0

\* An open job is closed in the end: completed, cancelled or failed.
JobCloses == Open ~> ~Open

\* What slotArchitectureE2E.integration.test.js:271 expects once the POIs in
\* progress have finished: a job that was cancelled stays cancelled.
CancelIsFinal == [][row.status = "cancelled" => row'.status = "cancelled"]_vars

=============================================================================
