------------------------------ MODULE TrailJob ------------------------------
(***************************************************************************)
(* One trail status job (trailStatusService.js), its pg-boss message, the  *)
(* progress and display slots it shares with single collections through    *)
(* CollectionTracker.js, and the trail_status rows both write.             *)
(*                                                                         *)
(* The run is the execution of processTrailStatusCollectionJob; a          *)
(* collection is one POI's way through it or through the single collection *)
(* of an admin, POST /pois/:id/status/collect:                             *)
(*                                                                         *)
(*   "chosen"  slot chosen, awaiting the query of onItemStart              *)
(*   "query"   awaiting the query of collectFn, for the same row           *)
(*   "render"  awaiting the page                                           *)
(*   "extract" awaiting the language model                                 *)
(*   "insert"  awaiting the INSERT, decided on the latest row read before  *)
(*   "record"  settled, awaiting the checkpoint (runs only)                *)
(*                                                                         *)
(* A page is its content hash, a status the fields that are compared, as   *)
(* they are stored.  The order of the items and the dispatch delay are     *)
(* left out, and so is a delivery that expires under its handler, which    *)
(* CollectionJob models.                                                   *)
(***************************************************************************)
EXTENDS Integers, FiniteSets, FiniteSetsExt

CONSTANTS
    Pois,            \* the POIs with a status_url
    Singles,         \* the POIs admins also collect one by one
    Pages, Statuses, \* what a page can show, what the model reads in it
    Blank,           \* the statuses with a NULL among the compared fields
    MaxConcurrency,  \* MAX_CONCURRENCY, and the count of initializeSlots
    RetryLimit,      \* of the queue's messages
    MaxRows,         \* bound: trail_status rows inserted for a POI
    MaxCrashes,      \* bound: restarts
    MaxFailures      \* bound: queries that fail

ASSUME TrailAssumption ==
    /\ IsFiniteSet(Pois) /\ Pois # {} /\ Singles \subseteq Pois /\ Blank \subseteq Statuses
    /\ {MaxConcurrency, MaxRows} \subseteq Nat \ {0}
    /\ {RetryLimit, MaxCrashes, MaxFailures} \subseteq Nat

Collectors == {"run", "admin"}
Slots == 1..MaxConcurrency
NoSlot == 0

VARIABLES
    row,       \* the job's row
    message,   \* its pg-boss message
    up,        \* the server runs
    run,       \* the handler's execution in this process
    task,      \* the collections under way, by collector and POI
    progress,  \* collectionProgress
    slots,     \* jobDisplaySlots of the job: the slots with status 'active'
    latest,    \* the last trail_status row of each POI, "gone" with the POI
    settled,   \* history: POIs the run's collectFn settled for
    kept,      \* history: slots of entries that a collectFn left uncompleted
    faults

job == <<row, message, up, run, settled>>
display == <<progress, slots, kept>>
vars == <<job, task, display, latest, faults>>

NoTask == [pc |-> "none", slot |-> NoSlot, page |-> 0, status |-> 0, omits |-> FALSE,
           read |-> 0, ids |-> {}]
NoRun == [pc |-> "unused", todo |-> {}, recorded |-> {}]
NoProgress == [known |-> FALSE, completed |-> FALSE, slot |-> NoSlot]
NoDelivery == [state |-> "none", tries |-> 0]

TypeOK ==
    /\ row \in [status : {"none", "queued", "running", "completed", "cancelled", "failed"},
                processed : SUBSET Pois]
    /\ message \in [state : {"none", "unsent", "queued", "active", "over"}, tries : 0..RetryLimit]
    /\ up \in BOOLEAN
    /\ run \in [pc : {"unused", "read", "start", "batch", "fail", "return", "throw"},
                         todo : SUBSET Pois, recorded : SUBSET Pois]
    /\ task \in [Collectors -> [Pois ->
                 [pc : {"none", "chosen", "query", "render", "extract", "insert", "record"},
                  slot : {NoSlot} \cup Slots, page : {0} \cup Pages,
                  status : {0} \cup Statuses, omits : BOOLEAN,
                  read : 0..MaxRows, ids : SUBSET Pois]]]
    /\ progress \in [Pois -> [known : BOOLEAN, completed : BOOLEAN, slot : {NoSlot} \cup Slots]]
    /\ slots \in SUBSET Slots
    /\ latest \in [Pois -> [id : 0..MaxRows, page : {0} \cup Pages,
                            status : {0} \cup Statuses, age : {"fresh", "day", "old", "gone"}]]
    /\ settled \in SUBSET Pois /\ kept \in SUBSET Slots
    /\ faults \in [crashes : 0..MaxCrashes, failures : 0..MaxFailures]

\* A POI has a recent row, or none, which an old one is like.
Init ==
    /\ row = [status |-> "none", processed |-> {}]
    /\ message = NoDelivery
    /\ up = TRUE
    /\ run = NoRun
    /\ task = [c \in Collectors |-> [p \in Pois |-> NoTask]]
    /\ progress = [p \in Pois |-> NoProgress]
    /\ slots = {}
    /\ \E page \in {0} \cup Pages, status \in Statuses, age \in {"fresh", "day"} :
          latest = [p \in Pois |-> IF page = 0 THEN [id |-> 0, page |-> 0, status |-> 0, age |-> "old"]
                                   ELSE [id |-> 0, page |-> page, status |-> status, age |-> age]]
    /\ settled = {} /\ kept = {}
    /\ faults = [crashes |-> 0, failures |-> 0]

-----------------------------------------------------------------------------
(* CollectionTracker.                                                      *)

\* updateProgress: the update is merged into the POI's entry, and the slot the
\* entry names is rewritten with it.
Report(p, entry) ==
    /\ progress' = [progress EXCEPT ![p] = entry]
    /\ slots' = IF entry.completed THEN slots \ {entry.slot}
                ELSE slots \cup ({entry.slot} \ {NoSlot})

Advance(p) == Report(p, [progress[p] EXCEPT !.known = TRUE])
Complete(p) == Report(p, [progress[p] EXCEPT !.known = TRUE, !.completed = TRUE])

\* findFirstAvailableSlot
AvailableSlot ==
    IF Slots \subseteq slots THEN NoSlot ELSE Min(Slots \ slots)

-----------------------------------------------------------------------------
(* collectTrailStatus and saveTrailStatus, for a collector c and a POI p.  *)

Move(c, p, pc) == task' = [task EXCEPT ![c][p] = [NoTask EXCEPT !.pc = pc]]

\* Its POI was deleted.
Gone(p) == latest[p].age = "gone"

\* The ids a checkpoint sends once p has settled.
Snapshot_Claimed(p) == Pois \ run.todo      \* mutant: the items claimed so far
Snapshot(p) == run.recorded \cup {p}

\* collectFn settles, with a result or with an error, and goes on to its checkpoint.
ToCheckpoint(p) ==
    /\ task' = [task EXCEPT !["run"][p] = [NoTask EXCEPT !.pc = "record", !.ids = Snapshot(p)]]
    /\ run' = [run EXCEPT !.recorded = @ \cup {p}]
    /\ settled' = settled \cup {p}

\* collectTrailStatus ends with the entry completed; an admin gets the answer.
Settle(c, p) ==
    /\ Complete(p) /\ UNCHANGED kept
    /\ IF c = "admin"
       THEN task' = [task EXCEPT ![c][p] = NoTask] /\ UNCHANGED <<run, settled>>
       ELSE ToCheckpoint(p)

\* There is no status_url, the page cannot be reached or says too little, the model
\* finds no status or one older than 90 days, or either of them throws; or the POI
\* whose status is inserted is gone.
GiveUp(c, p) ==
    /\ task[c][p].pc \in {"render", "extract"} \/ (task[c][p].pc = "insert" /\ Gone(p))
    /\ Settle(c, p)
    /\ UNCHANGED <<row, message, up, latest, faults>>

\* A query of the collection fails; the catch block completes the entry.
QueryFails(c, p) ==
    /\ task[c][p].pc \in {"extract", "insert"}
    /\ faults.failures < MaxFailures
    /\ faults' = [faults EXCEPT !.failures = @ + 1]
    /\ Settle(c, p)
    /\ UNCHANGED <<row, message, up, latest>>

\* The page was rendered: a hash seen less than 48 hours ago spares the model.
Rendered(c, p, page) ==
    /\ task[c][p].pc = "render"
    /\ IF latest[p].page = page /\ latest[p].age \in {"fresh", "day"}
       THEN Settle(c, p)
       ELSE /\ task' = [task EXCEPT ![c][p].pc = "extract", ![c][p].page = page]
            /\ Advance(p)
            /\ UNCHANGED <<run, settled, kept>>
    /\ UNCHANGED <<row, message, up, latest, faults>>

\* A status that equals the latest row of the last 24 hours only refreshes the row's
\* hash.  A field the model omits is undefined, which is not the NULL it is stored as.
Unchanged_Never(p, status, omits) == FALSE     \* mutant: the comparison is lost
Unchanged(p, status, omits) == latest[p].age = "fresh" /\ latest[p].status = status /\ ~omits

Extracted(c, p, status, omits) ==
    /\ task[c][p].pc = "extract" /\ (omits => status \in Blank)
    /\ IF Unchanged(p, status, omits)
       THEN /\ latest' = [latest EXCEPT ![p].page = task[c][p].page]
            /\ Settle(c, p)
       ELSE /\ latest[p].id + 1 < MaxRows
            /\ task' = [task EXCEPT ![c][p].pc = "insert", ![c][p].status = status,
                                    ![c][p].omits = omits, ![c][p].read = latest[p].id]
            /\ Advance(p)
            /\ UNCHANGED <<latest, run, settled, kept>>
    /\ UNCHANGED <<row, message, up, faults>>

Insert(c, p) ==
    /\ task[c][p].pc = "insert"
    /\ latest[p].id < MaxRows /\ ~Gone(p)
    /\ latest' = [latest EXCEPT ![p] = [id |-> @.id + 1, page |-> task[c][p].page,
                                        status |-> task[c][p].status, age |-> "fresh"]]
    /\ Settle(c, p)
    /\ UNCHANGED <<row, message, up, faults>>

Collect(c, p) ==
    \/ GiveUp(c, p)
    \/ \E page \in Pages : Rendered(c, p, page)
    \/ \E status \in Statuses, omits \in BOOLEAN : Extracted(c, p, status, omits)
    \/ Insert(c, p)

\* POST /pois/:id/status/collect: refused while the entry is not completed.
CollectOne_Always(p) ==      \* mutant: the alreadyRunning answer is dropped
    /\ up /\ p \in Singles /\ ~Gone(p) /\ task["admin"][p].pc = "none"
    /\ task' = [task EXCEPT !["admin"][p].pc = "render"]
    /\ progress' = [progress EXCEPT ![p] = [NoProgress EXCEPT !.known = TRUE]]
    /\ UNCHANGED <<job, slots, kept, latest, faults>>
CollectOne(p) ==
    /\ up /\ p \in Singles /\ ~Gone(p) /\ task["admin"][p].pc = "none"
    /\ ~progress[p].known \/ progress[p].completed
    /\ task' = [task EXCEPT !["admin"][p].pc = "render"]
    /\ progress' = [progress EXCEPT ![p] = [NoProgress EXCEPT !.known = TRUE]]
    /\ UNCHANGED <<job, slots, kept, latest, faults>>

-----------------------------------------------------------------------------
(* processTrailStatusCollectionJob and runBatch.                           *)

Goto(pc) == run' = [run EXCEPT !.pc = pc]

ReadJob ==
    /\ run.pc = "read"
    /\ run' = [run EXCEPT !.pc = "start", !.recorded = row.processed,
                          !.todo = Pois \ row.processed]
    /\ UNCHANGED <<row, message, up, settled, task, display, latest, faults>>

\* The row is 'running', whatever it was; the slots are all emptied.
StartBatch ==
    /\ run.pc = "start"
    /\ row' = [row EXCEPT !.status = "running"]
    /\ Goto("batch")
    /\ slots' = {}
    /\ UNCHANGED <<message, up, settled, task, progress, kept, latest, faults>>

InFlight == {p \in Pois : task["run"][p].pc # "none"}

\* A worker claims the next item and chooses a slot for it.
ClaimItem(p) ==
    /\ run.pc = "batch" /\ p \in run.todo
    /\ Cardinality(InFlight) < MaxConcurrency
    /\ run' = [run EXCEPT !.todo = @ \ {p}]
    /\ task' = [task EXCEPT !["run"][p].pc = "chosen", !["run"][p].slot = AvailableSlot]
    /\ UNCHANGED <<row, message, up, settled, display, latest, faults>>

\* onItemStart: the POI was read; assignPoiToSlot and updateProgress follow.
ItemStarted(p) ==
    /\ task["run"][p].pc = "chosen" /\ ~Gone(p)
    /\ Report(p, [known |-> TRUE, completed |-> FALSE, slot |-> task["run"][p].slot])
    /\ Move("run", p, "query")
    /\ UNCHANGED <<job, kept, latest, faults>>

\* A query for the POI rejects, or finds no row.
QueryFailsOrFindsNone(p) ==
    \/ Gone(p) /\ UNCHANGED faults
    \/ faults.failures < MaxFailures /\ faults' = [faults EXCEPT !.failures = @ + 1]

\* Of onItemStart it is only logged: the entry keeps the slot it may have had.
ItemStartFails(p) ==
    /\ task["run"][p].pc = "chosen"
    /\ QueryFailsOrFindsNone(p)
    /\ Move("run", p, "query")
    /\ UNCHANGED <<job, display, latest>>

\* collectFn has read the POI, and collectTrailStatus begins.
ItemRead(p) ==
    /\ task["run"][p].pc = "query" /\ ~Gone(p)
    /\ Advance(p)
    /\ Move("run", p, "render")
    /\ UNCHANGED <<job, kept, latest, faults>>

\* It has not, and settles without collectTrailStatus: nobody completes the entry.
ItemUnread(p) ==
    /\ task["run"][p].pc = "query"
    /\ QueryFailsOrFindsNone(p)
    /\ ToCheckpoint(p)
    /\ kept' = kept \cup {s \in Slots : s = progress[p].slot /\ ~progress[p].completed}
    /\ UNCHANGED <<row, message, up, progress, slots, latest>>

\* The whole list is written, in the order the writes land; safeCheckpoint
\* swallows a failure.
Checkpoint(p) ==
    /\ task["run"][p].pc = "record"
    /\ row' = [row EXCEPT !.processed = task["run"][p].ids]
    /\ task' = [task EXCEPT !["run"][p] = NoTask]
    /\ UNCHANGED <<message, up, run, settled, display, latest, faults>>
CheckpointFails(p) ==
    /\ task["run"][p].pc = "record"
    /\ faults.failures < MaxFailures
    /\ faults' = [faults EXCEPT !.failures = @ + 1]
    /\ task' = [task EXCEPT !["run"][p] = NoTask]
    /\ UNCHANGED <<job, display, latest>>

BatchOver_NoneLeft == run.todo = {}       \* mutant: does not wait for the workers
BatchOver == run.todo = {} /\ InFlight = {}

MarkCompleted ==
    /\ run.pc = "batch" /\ BatchOver
    /\ row' = [row EXCEPT !.status = "completed"]
    /\ Goto("return")
    /\ UNCHANGED <<message, up, settled, task, display, latest, faults>>

\* One of the handler's own queries rejects, and the catch block takes over.
HandlerFails ==
    /\ run.pc \in {"read", "start"} \/ (run.pc = "batch" /\ BatchOver)
    /\ faults.failures < MaxFailures
    /\ faults' = [faults EXCEPT !.failures = @ + 1]
    /\ Goto("fail")
    /\ UNCHANGED <<row, message, up, settled, task, display, latest>>

MarkFailed ==
    /\ run.pc = "fail"
    /\ row' = [row EXCEPT !.status = "failed"]
    /\ Goto("throw")
    /\ UNCHANGED <<message, up, settled, task, display, latest, faults>>
MarkFailedFails ==
    /\ run.pc = "fail"
    /\ faults.failures < MaxFailures
    /\ faults' = [faults EXCEPT !.failures = @ + 1]
    /\ Goto("throw")
    /\ UNCHANGED <<row, message, up, settled, task, display, latest>>

-----------------------------------------------------------------------------
(* pg-boss, the requests, crash and startup.                               *)

GiveBack_Never == message' = [message EXCEPT !.state = "over"]  \* mutant: not retried
GiveBack == message' = IF message.tries < RetryLimit
                       THEN [state |-> "queued", tries |-> message.tries + 1]
                       ELSE [message EXCEPT !.state = "over"]

\* runTrailStatusCollection, for an admin or the schedule: row, then message.
CreateJob ==
    /\ up /\ row.status = "none" /\ \E p \in Pois : ~Gone(p)
    /\ row' = [row EXCEPT !.status = "queued"]
    /\ message' = [message EXCEPT !.state = "unsent"]
    /\ UNCHANGED <<up, run, settled, task, display, latest, faults>>

Submit ==
    /\ up /\ message.state = "unsent"
    /\ message' = [message EXCEPT !.state = "queued"]
    /\ UNCHANGED <<row, up, run, settled, task, display, latest, faults>>

\* boss.send rejects: the row stays queued, with no message.
SubmitFails ==
    /\ up /\ message.state = "unsent"
    /\ faults.failures < MaxFailures
    /\ faults' = [faults EXCEPT !.failures = @ + 1]
    /\ message' = [message EXCEPT !.state = "over"]
    /\ UNCHANGED <<row, up, run, settled, task, display, latest>>

Deliver ==
    /\ up /\ message.state = "queued" /\ run.pc = "unused"
    /\ message' = [message EXCEPT !.state = "active"]
    /\ run' = [run EXCEPT !.pc = "read"]
    /\ UNCHANGED <<row, up, settled, task, display, latest, faults>>

\* A delivery whose process died expires.
Expire ==
    /\ up /\ message.state = "active" /\ run.pc = "unused"
    /\ GiveBack
    /\ UNCHANGED <<row, up, run, settled, task, display, latest, faults>>

\* The handler returns or throws.
Return ==
    /\ run.pc \in {"return", "throw"}
    /\ IF run.pc = "throw" THEN GiveBack ELSE message' = [message EXCEPT !.state = "over"]
    /\ run' = NoRun
    /\ UNCHANGED <<row, up, settled, task, display, latest, faults>>

\* PUT /trail-status/batch-collect/:jobId/cancel; no signal reaches the run.
CancelJob ==
    /\ up /\ row.status \in {"queued", "running"}
    /\ row' = [row EXCEPT !.status = "cancelled"]
    /\ UNCHANGED <<message, up, run, settled, task, display, latest, faults>>

Crash ==
    /\ up /\ faults.crashes < MaxCrashes
    /\ faults' = [faults EXCEPT !.crashes = @ + 1]
    /\ up' = FALSE
    /\ run' = NoRun
    /\ task' = [c \in Collectors |-> [p \in Pois |-> NoTask]]
    /\ progress' = [p \in Pois |-> NoProgress]
    /\ slots' = {} /\ kept' = {}
    /\ message' = IF message.state = "unsent" THEN [message EXCEPT !.state = "over"] ELSE message
    /\ UNCHANGED <<row, settled, latest>>

\* failAbandonedJobs runs before the scheduler starts; it closes an open row if
\* the row is an hour old by then.
Startup ==
    /\ ~up
    /\ up' = TRUE
    /\ \/ row.status \in {"queued", "running"} /\ row' = [row EXCEPT !.status = "failed"]
       \/ UNCHANGED row
    /\ UNCHANGED <<message, run, settled, task, display, latest, faults>>

\* DELETE /sync/wipe-database: the POIs go, and their trail_status rows with them.
Wipe ==
    /\ up
    /\ latest' = [p \in Pois |-> [id |-> latest[p].id, page |-> 0, status |-> 0, age |-> "gone"]]
    /\ UNCHANGED <<job, task, display, faults>>

-----------------------------------------------------------------------------

RunStep ==
    \/ ReadJob \/ StartBatch \/ MarkCompleted \/ MarkFailed \/ Return
    \/ \E p \in Pois : \/ ClaimItem(p) \/ ItemStarted(p) \/ ItemStartFails(p)
                       \/ ItemRead(p) \/ ItemUnread(p)
                       \/ Collect("run", p) \/ Checkpoint(p)

RunFails ==
    \/ HandlerFails \/ MarkFailedFails
    \/ \E p \in Pois : QueryFails("run", p) \/ CheckpointFails(p)

Queue == Submit \/ Expire \/ Deliver

Next ==
    \/ RunStep \/ RunFails
    \/ \E p \in Pois : CollectOne(p) \/ Collect("admin", p) \/ QueryFails("admin", p)
    \/ Queue
    \/ CreateJob \/ SubmitFails \/ CancelJob \/ Wipe \/ Crash \/ Startup

Spec == Init /\ [][Next]_vars

\* Queries are answered, renders and the model have timeouts, pg-boss polls and
\* expires, systemd restarts the server.
FairSpec ==
    /\ Spec
    /\ WF_vars(RunStep) /\ WF_vars(Queue) /\ WF_vars(Startup)

-----------------------------------------------------------------------------

\* What a redelivered job skips was settled by some run, although each
\* checkpoint writes the whole list, later ones may land first and some are lost.
ProcessedWereSettled == row.processed \subseteq settled

\* "completed" is never written over a POI no run settled.
CompletedMeansSettled == row.status = "completed" => settled = Pois

\* When no run holds an item, a display slot is taken only if collectFn got no row of the
\* POI whose entry had it, and so left the entry uncompleted: whatever single collections,
\* retries and other errors went on meanwhile, each other slot was freed by the entry that
\* took it.
SlotsAreFreed == InFlight = {} => slots \subseteq kept

\* Two equal rows within a day need two collections of the POI that overlap (the second
\* decided to insert before the first one's row was there), or a field the model omitted.
DuplicatesAreExplained ==
    [][\A p \in Pois :
          latest'[p].id # latest[p].id /\ latest[p].age = "fresh" /\ latest'[p].status = latest[p].status
          => \E c \in Collectors :
                /\ task[c][p].pc = "insert" /\ task'[c][p].pc # "insert"
                /\ task[c][p].read # latest[p].id \/ task[c][p].omits]_vars

Open == row.status \in {"queued", "running"}
Cost == faults.crashes + faults.failures

\* failAbandonedJobs says that without it an interrupted job stays open forever.
\* Apart from it, an open row is left to nobody only when its message was never
\* sent, or when pg-boss used up its tries on more crashes and failing queries than
\* it has retries.  When nothing crashed there was one more failure: the catch
\* block closes the row unless its own query fails.
OpenIsPursued ==
    Open => \/ message.state \in {"unsent", "queued", "active"}
            \/ row.status = "queued" /\ message.tries = 0 /\ Cost > 0
            \/ /\ message.tries = RetryLimit /\ Cost > RetryLimit
               /\ faults.crashes > 0 \/ Cost > RetryLimit + 1

\* Every crash and failing query so far can have cost a delivery of its own.
RetriesLeft == Cost <= RetryLimit

\* Not a message that failed to be sent.
Sent == /\ message.state \notin {"none", "unsent"}
        /\ ~(message.state = "over" /\ message.tries = 0 /\ row.status = "queued")

\* A job whose message was sent is closed in the end and stays closed, as long
\* as its retries outlast the crashes and the failing queries.
JobCloses == <>[](Sent /\ RetriesLeft => row.status \in {"completed", "cancelled", "failed"})

\* cancelJob answers true "if a queued/running job was cancelled"
\* (trailStatusService.js:725): it then stays cancelled.
CancelIsFinal == [][row.status = "cancelled" => row'.status = "cancelled"]_vars

=============================================================================
