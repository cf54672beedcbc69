----------------------------- MODULE BatchRunner -----------------------------
(***************************************************************************)
(* runBatch (backend/services/collection/BatchRunner.js) pushes the items  *)
(* of a collection job through at most maxConcurrency workers.  A worker   *)
(* is a chain of processNext calls, each started by a timer.  Only an      *)
(* await lets another chain run, so a step is the code between two awaits: *)
(*                                                                         *)
(*   "timer"      the setTimeout of the next processNext call is pending   *)
(*   "query"      awaiting checkCancelled, the row not read yet            *)
(*   "verdict"    the row was read, the await has not resumed yet          *)
(*   "starting"   item claimed, awaiting onItemStart                       *)
(*   "collect"    awaiting collectFn                                       *)
(*   "checkpoint" outcome recorded, awaiting checkpointFn                  *)
(*   "ended"      the chain returned without arming a timer                *)
(*   "rejected"   checkCancelled threw, and the chain is lost with it      *)
(*                                                                         *)
(* Item i is items[i - 1] of the code.  dispatchInterval is left out:      *)
(* timers fire in any order.                                               *)
(***************************************************************************)
EXTENDS Integers, FiniteSets

CONSTANTS
    ItemCount,        \* items.length
    MaxConcurrency,   \* the maxConcurrency argument
    HasCancelCheck,   \* whether the caller passes checkCancelled
    MaxCheckFailures  \* bound: status reads that fail (a pg pool timeout)

ASSUME BatchAssumption ==
    /\ ItemCount \in Nat \ {0}         \* an empty batch returns at once
    /\ MaxConcurrency \in Nat \ {0}
    /\ HasCancelCheck \in BOOLEAN
    /\ MaxCheckFailures \in Nat

Items == 1..ItemCount

\* initialBatch: the number of chains ever started.
WorkerCount == IF MaxConcurrency < ItemCount THEN MaxConcurrency ELSE ItemCount

Workers == 1..WorkerCount

VARIABLES
    pc,            \* where each worker's chain is
    item,          \* the item a worker claimed last (0: none)
    seen,          \* what the worker's last status read returned
    nextIndex,     \* number of items claimed so far
    inFlight,      \* the code's count of items being worked on
    cancelled,     \* the code's flag: some worker saw the cancellation
    results,       \* the outcome recorded for each item
    returned,      \* whether runBatch returned, and with which flag
    jobCancelled,  \* the job row's status is 'cancelled'
    checkFailures, \* number of status reads that failed
    staleClaims    \* history: items claimed while the row was cancelled

claims == <<item, nextIndex, staleClaims>>
row == <<jobCancelled, checkFailures>>
vars == <<pc, claims, seen, inFlight, cancelled, results, returned, row>>

BusyLabels == {"starting", "collect", "checkpoint"}

\* The workers that hold an item.
Busy == {w \in Workers : pc[w] \in BusyLabels}

TypeOK ==
    /\ pc \in [Workers -> BusyLabels \cup {"timer", "query", "verdict", "ended", "rejected"}]
    /\ item \in [Workers -> 0..ItemCount]
    /\ seen \in [Workers -> BOOLEAN]
    /\ nextIndex \in 0..ItemCount
    /\ inFlight \in Int
    /\ cancelled \in BOOLEAN
    /\ results \in [Items -> {"none", "success", "failure"}]
    /\ returned \in {"no", "completed", "cancelled"}
    /\ jobCancelled \in BOOLEAN
    /\ checkFailures \in 0..MaxCheckFailures
    /\ staleClaims \in SUBSET Items

Init ==
    /\ pc = [w \in Workers |-> "timer"]
    /\ item = [w \in Workers |-> 0]
    /\ seen = [w \in Workers |-> FALSE]
    /\ nextIndex = 0
    /\ inFlight = 0
    /\ cancelled = FALSE
    /\ results = [i \in Items |-> "none"]
    /\ returned = "no"
    /\ jobCancelled \in BOOLEAN
    /\ checkFailures = 0
    /\ staleClaims = {}

-----------------------------------------------------------------------------

Goto(w, label) == pc' = [pc EXCEPT ![w] = label]

\* resolveAll() under a condition.  The first call ends `await allDone`, and
\* runBatch returns the value `cancelled` has then; later calls do nothing.
ResolveIf_NotOnCancel(condition) ==     \* mutant: a cancelled batch is not resolved
    returned' = IF returned # "no" \/ ~condition \/ cancelled' THEN returned ELSE "completed"
ResolveIf(condition) ==
    returned' = IF returned # "no" \/ ~condition THEN returned
                ELSE IF cancelled' THEN "cancelled" ELSE "completed"

EndChain(w, over) ==
    /\ Goto(w, "ended")
    /\ ResolveIf(over)

NothingLeft == nextIndex >= ItemCount

\* The tail of processNext once the worker may go on.
ClaimNext(w) ==
    IF NothingLeft
    THEN /\ EndChain(w, inFlight = 0)
         /\ UNCHANGED <<claims, inFlight>>
    ELSE /\ nextIndex' = nextIndex + 1
         /\ item' = [item EXCEPT ![w] = nextIndex']
         /\ inFlight' = inFlight + 1
         /\ staleClaims' = IF jobCancelled THEN staleClaims \cup {nextIndex'} ELSE staleClaims
         /\ Goto(w, "starting")
         /\ UNCHANGED returned

\* The timer fires and processNext starts.
Wake(w) ==
    /\ pc[w] = "timer"
    /\ UNCHANGED <<cancelled, seen, results, row>>
    /\ CASE cancelled ->
              EndChain(w, inFlight = 0) /\ UNCHANGED <<claims, inFlight>>
         [] ~cancelled /\ HasCancelCheck ->
              Goto(w, "query") /\ UNCHANGED <<claims, inFlight, returned>>
         [] ~cancelled /\ ~HasCancelCheck ->
              ClaimNext(w)

\* checkCancelled reads the job row.
ReadStatus_Cached(w) ==      \* mutant: the status is read once per worker
    /\ pc[w] = "query"
    /\ seen' = [seen EXCEPT ![w] = item[w] = 0 /\ jobCancelled]
    /\ Goto(w, "verdict")
    /\ UNCHANGED <<claims, inFlight, cancelled, results, returned, row>>
ReadStatus(w) ==
    /\ pc[w] = "query"
    /\ seen' = [seen EXCEPT ![w] = jobCancelled]
    /\ Goto(w, "verdict")
    /\ UNCHANGED <<claims, inFlight, cancelled, results, returned, row>>

\* checkCancelled throws, and nothing in processNext catches it.
FailStatusRead(w) ==
    /\ pc[w] = "query"
    /\ checkFailures < MaxCheckFailures
    /\ checkFailures' = checkFailures + 1
    /\ Goto(w, "rejected")
    /\ UNCHANGED <<claims, seen, inFlight, cancelled, results, returned, jobCancelled>>

\* processNext resumes with the answer of checkCancelled.
ResumeCheck(w) ==
    /\ pc[w] = "verdict"
    /\ UNCHANGED <<seen, results, row>>
    /\ IF seen[w]
       THEN /\ cancelled' = TRUE
            /\ EndChain(w, inFlight = 0)
            /\ UNCHANGED <<claims, inFlight>>
       ELSE /\ UNCHANGED cancelled
            /\ ClaimNext(w)

\* onItemStart settles; an error in it is logged and the item goes on.
ItemStarted(w) ==
    /\ pc[w] = "starting"
    /\ Goto(w, "collect")
    /\ UNCHANGED <<claims, seen, inFlight, cancelled, results, returned, row>>

\* collectFn settles, and its outcome is pushed to results.
Collected_Rewind(w, outcome) ==   \* mutant: a failed item is retried by stepping back
    /\ pc[w] = "collect"
    /\ results' = [results EXCEPT ![item[w]] = outcome]
    /\ nextIndex' = IF outcome = "failure" THEN nextIndex - 1 ELSE nextIndex
    /\ Goto(w, "checkpoint")
    /\ UNCHANGED <<item, staleClaims, seen, inFlight, cancelled, returned, row>>
Collected(w, outcome) ==
    /\ pc[w] = "collect"
    /\ results' = [results EXCEPT ![item[w]] = outcome]
    /\ Goto(w, "checkpoint")
    /\ UNCHANGED <<claims, seen, inFlight, cancelled, returned, row>>

\* Whether a worker that finished an item was the last of the batch.
BatchOver_LastClaimed == nextIndex >= ItemCount    \* mutant: does not wait for the others
BatchOver == nextIndex >= ItemCount /\ inFlight' = 0

Leave == inFlight' = inFlight - 1

\* safeCheckpoint settles, its error swallowed; the worker arms its timer
\* again or ends, the last one resolving.
Finish(w) ==
    /\ pc[w] = "checkpoint"
    /\ UNCHANGED <<claims, seen, cancelled, results, row>>
    /\ Leave
    /\ CASE cancelled ->
              EndChain(w, inFlight' = 0)
         [] ~cancelled /\ nextIndex < ItemCount /\ inFlight' < MaxConcurrency ->
              Goto(w, "timer") /\ UNCHANGED returned
         [] OTHER ->
              EndChain(w, BatchOver)

\* An admin cancels the job: only the row changes.
CancelJob ==
    /\ ~jobCancelled
    /\ jobCancelled' = TRUE
    /\ UNCHANGED <<pc, claims, seen, inFlight, cancelled, results, returned, checkFailures>>

WorkerStep(w) ==
    \/ Wake(w)
    \/ ReadStatus(w)
    \/ ResumeCheck(w)
    \/ ItemStarted(w)
    \/ \E outcome \in {"success", "failure"} : Collected(w, outcome)
    \/ Finish(w)

Next ==
    \/ \E w \in Workers : WorkerStep(w) \/ FailStatusRead(w)
    \/ CancelJob

Spec == Init /\ [][Next]_vars

\* Timers fire, queries are answered, and collectFn settles because every page
\* it renders has a hard timeout.  Nothing obliges an admin to cancel.
FairSpec == Spec /\ \A w \in Workers : WF_vars(WorkerStep(w))

-----------------------------------------------------------------------------

\* The counter that decides when the batch is over is exact, so it never drifts
\* below zero or above the limit: a drift hangs the job or overruns the host.
InFlightExact ==
    /\ inFlight = Cardinality(Busy)
    /\ inFlight <= MaxConcurrency

\* An item is worked on by one worker at a time, and never again once it has an
\* outcome, although nextIndex is shared by all chains across awaits.
ClaimedOnce ==
    \A w \in Busy :
        /\ \A v \in Busy \ {w} : item[v] # item[w]
        /\ pc[w] # "checkpoint" => results[item[w]] = "none"

\* When runBatch returns without the cancelled flag, every item has an outcome
\* and nothing still runs: the callers mark the job completed on it.
CompleteWhenReturned ==
    returned = "completed" =>
        /\ \A i \in Items : results[i] # "none"
        /\ Busy = {}

\* Cancelling the row stops the batch: besides the items already running, each
\* worker takes at most one more, the one its last status read let through.
CancelStopsClaims ==
    HasCancelCheck => Cardinality(staleClaims) <= WorkerCount

\* What the callers of runBatch rely on, as a specification of its own: the
\* workers, timers and counters above implement it.
Promise == INSTANCE BatchPromise WITH
    todo <- {i \in Items : i > nextIndex},
    running <- {item[w] : w \in Busy},
    ended <- {i \in Items : results[i] # "none"} \ {item[w] : w \in Busy}

KeepsPromise == Promise!Spec

\* CollectionJob counts the workers of a run instead of following their chains.
\* The run it has for this state: a worker may claim (permits) from the read that
\* let it through to its claim, or until nothing is left, and is idle before that.
\* What the run records is data no step of the batch looks at: all the items.
JobRow == [status |-> IF jobCancelled THEN "cancelled" ELSE "running",
           processed |-> Items, old |-> FALSE]
JobTodo == {i \in Items : i > nextIndex}
JobIdle == {w \in Workers : pc[w] \in {"timer", "query"} \/ (pc[w] = "verdict" /\ seen[w])}
JobPermits == {w \in Workers : pc[w] = "verdict" /\ ~seen[w]}
JobRun ==
    [r \in {1} |->
      [pc |-> CASE returned = "no" -> "batch"
                [] returned = "completed" -> "close"
                [] returned = "cancelled" -> "return",
       msg |-> 0,
       todo |-> JobTodo,
       running |-> {item[w] : w \in {v \in Busy : pc[v] # "checkpoint"}},
       writes |-> {[poi |-> item[w], ids |-> Items] : w \in {v \in Busy : pc[v] = "checkpoint"}},
       recorded |-> Items,
       idle |-> IF cancelled \/ returned # "no" THEN 0 ELSE Cardinality(JobIdle),
       permits |-> IF JobTodo = {} THEN 0 ELSE Cardinality(JobPermits),
       cancelled |-> cancelled /\ returned # "completed"]]

Job == INSTANCE CollectionJob WITH
    Pois <- Items, RetryLimit <- 0, Sources <- {}, MayFail <- {"status"},
    AgeDuringStartup <- FALSE, MaxMessages <- 1, MaxRuns <- 1, MaxCrashes <- 0,
    MaxExpiries <- 0, MaxFailures <- MaxCheckFailures,
    row <- JobRow, run <- JobRun,
    message <- [m \in {1} |-> [state |-> "over", tries |-> 0]], server <- "up",
    request <- "answered", collected <- Items,
    faults <- [crashes |-> 0, expiries |-> 0, failures |-> checkFailures]

JobStep ==
    \/ Job!ReadStatus(1) \/ Job!StatusReadFails(1)
    \/ \E i \in Items : Job!Claim(1, i) \/ Job!Collected(1, i)
    \/ \E w \in JobRun[1].writes : Job!Checkpoint(1, w)
    \/ Job!CancelJob

\* runBatch with a checkCancelled takes the steps, and only the steps, that
\* CollectionJob has for the batch of a run: from where StartBatch leaves it, each
\* step here is one of its actions, or changes neither the run nor the row.
StepsOfJob ==
    /\ JobRun[1] = [Job!NoRun EXCEPT !.pc = "batch", !.todo = Items, !.recorded = Items,
                                     !.idle = WorkerCount]
    /\ [][JobStep]_<<JobRun, JobRow>>

\* runBatch returns, as long as fewer status reads fail than there are workers:
\* a failed read loses one chain, and a running job with no chain never ends.
Returns == <>(returned # "no")

=============================================================================
