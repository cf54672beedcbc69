------------------------- MODULE CollectionJobProofs -------------------------
(***************************************************************************)
(* What holds of a collection job for every number of POIs, workers, runs, *)
(* messages, crashes, expiries and failures.  Two sections are about jobs  *)
(* within the limits that Alone and Prompt name there; the last one says,  *)
(* of any job, why it may be left to nobody.                               *)
(***************************************************************************)
EXTENDS CollectionJob, FiniteSetTheorems, TLAPS

RunRow == [pc : Labels, msg : {0} \cup Messages, todo : SUBSET Pois,
           running : SUBSET Pois,
           writes : SUBSET [poi : Pois, ids : SUBSET Pois],
           recorded : SUBSET Pois, idle : 0..MaxConcurrency,
           permits : 0..MaxConcurrency, cancelled : BOOLEAN]

\* The workers of a batch, whatever they are at.
Workers(b) == b.idle + b.permits + Cardinality(b.running) + Cardinality(b.writes)

\* A run whose batch has not begun has no workers.
NoBatch(b) == b.idle = 0 /\ b.permits = 0 /\ b.running = {} /\ b.writes = {}

Early == {"unused", "read", "nothing", "start", "prepare"}

\* No more workers than the setting says.
Bounded(b) ==
    /\ IsFiniteSet(b.writes)
    /\ Workers(b) <= MaxConcurrency
    /\ b.pc \in Early => NoBatch(b)

\* What the run knows as processed, and every list it has sent, was collected.
Honest(b, known) == b.recorded \subseteq known /\ \A w \in b.writes : w.ids \subseteq known

\* The run has every POI left, at work or recorded; about to write "completed",
\* it knows that all were collected.
Complete(b, known) ==
    /\ b.pc \in {"start", "prepare", "batch"} => Pois \subseteq b.todo \cup b.running \cup b.recorded
    /\ b.pc \in {"nothing", "close"} => known = Pois

RunOK(b, known) == b \in RunRow /\ Bounded(b) /\ Honest(b, known) /\ Complete(b, known)

IInv == /\ TypeOK
        /\ \A r \in Runs : RunOK(run[r], collected)
        /\ ProcessedWereCollected /\ CompletedMeansCollected

-----------------------------------------------------------------------------
(* Runs.                                                                   *)

\* A run that does not exist.
LEMMA NoRunOK == ASSUME NEW known \in SUBSET Pois PROVE RunOK(NoRun, known)
<1>1. NoRun \in RunRow  BY JobAssumption DEF NoRun, RunRow, Labels
<1>2. Bounded(NoRun)
  BY JobAssumption, FS_EmptySet DEF NoRun, Bounded, Workers, NoBatch, Early
<1>3. Honest(NoRun, known) /\ Complete(NoRun, known)  BY DEF NoRun, Honest, Complete
<1>. QED  BY <1>1, <1>2, <1>3 DEF RunOK

\* A run survives what other runs collect.
LEMMA KnowingMore ==
    ASSUME NEW known \in SUBSET Pois, NEW more \in SUBSET Pois, known \subseteq more,
           NEW b, RunOK(b, known)
    PROVE  RunOK(b, more)
  BY DEF RunOK, Honest, Complete

\* c is b with some of its waiting workers gone, and perhaps another label.
Stopped(b, c) ==
    /\ c \in RunRow
    /\ c.msg = b.msg /\ c.todo = b.todo /\ c.running = b.running /\ c.writes = b.writes
    /\ c.recorded = b.recorded /\ c.cancelled = b.cancelled
    /\ c.idle \in {0, b.idle} /\ c.permits \in {0, b.permits}

\* The batch of b resolves.
Ended(b) ==
    b.pc = "batch" /\ b.running = {} /\ b.writes = {} /\ (b.todo = {} \/ b.cancelled)

\* What Settled makes of a batch: it stops waiting workers, may end the batch or
\* the run, and does nothing else.
LEMMA SettledIs ==
    ASSUME NEW b \in RunRow
    PROVE  \/ b.pc = "over" /\ Settled(b) = NoRun
           \/ Stopped(b, Settled(b)) /\ Settled(b).pc = b.pc /\ ~Ended(b)
           \/ /\ Stopped(b, Settled(b)) /\ Ended(b)
              /\ Settled(b).pc = IF b.cancelled THEN "return" ELSE "close"
              /\ Settled(b).idle = 0 /\ (b.todo = {} => Settled(b).permits = 0)
<1>. DEFINE permits == IF b.todo = {} THEN 0 ELSE b.permits
            idle == IF b.cancelled THEN 0 ELSE b.idle
            label == IF b.cancelled THEN "return" ELSE "close"
            c == [b EXCEPT !.permits = permits, !.idle = idle]
            d == [c EXCEPT !.pc = label, !.idle = 0]
            over == b.pc = "over" /\ (b.running = {} /\ b.writes = {}) /\ c.permits = 0
<1>0. /\ idle \in {0, b.idle} /\ permits \in {0, b.permits} /\ label \in Labels
      /\ {idle, permits, 0} \subseteq 0..MaxConcurrency
      /\ b.todo = {} => permits = 0
  BY JobAssumption DEF RunRow, Labels
<1>1. Stopped(b, c) /\ c.pc = b.pc /\ c.permits = permits
  <2>. HIDE DEF idle, permits
  <2>. QED  BY <1>0 DEF Stopped, RunRow
<1>2. Stopped(b, d) /\ d.pc = label /\ d.idle = 0 /\ d.permits = permits
  <2>. HIDE DEF c, label
  <2>. QED  BY <1>0, <1>1 DEF Stopped, RunRow
<1>3. Settled(b) = IF Ended(b) THEN d ELSE IF over THEN NoRun ELSE c
  BY DEF Settled, Ended
<1>4. CASE Ended(b)
  <2>. HIDE DEF d, permits
  <2>. QED  BY <1>0, <1>2, <1>3, <1>4
<1>5. CASE ~Ended(b) /\ over  BY <1>3, <1>5
<1>6. CASE ~Ended(b) /\ ~over  BY <1>1, <1>3, <1>6
<1>. QED  BY <1>4, <1>5, <1>6

\* The work of a batch can be counted.
LEMMA Countable ==
    ASSUME NEW b \in RunRow, Bounded(b)
    PROVE  /\ IsFiniteSet(b.running) /\ Cardinality(b.running) \in Nat
           /\ IsFiniteSet(b.writes) /\ Cardinality(b.writes) \in Nat
  BY JobAssumption, FS_Subset, FS_CardinalityType DEF Bounded, RunRow

\* Settled keeps a run as it should be.
LEMMA SettledOK ==
    ASSUME NEW known \in SUBSET Pois, NEW b, RunOK(b, known)
    PROVE  RunOK(Settled(b), known)
<1>1. CASE Settled(b) = NoRun  BY <1>1, NoRunOK
<1>2. CASE Settled(b) # NoRun
  <2>0. b \in RunRow  BY DEF RunOK
  <2>. DEFINE c == Settled(b)
  <2>1. /\ Stopped(b, c)
        /\ \/ c.pc \in {b.pc, "return"}
           \/ c.pc = "close" /\ b.pc = "batch" /\ b.running = {} /\ b.todo = {}
    BY <1>2, <2>0, SettledIs DEF Ended
  <2>2. /\ c.todo = b.todo /\ c.running = b.running /\ c.writes = b.writes
        /\ c.recorded = b.recorded
    BY <2>1 DEF Stopped
  <2>. HIDE DEF c
  <2>3. Bounded(c)
    <3>1. Cardinality(b.running) \in Nat /\ Cardinality(b.writes) \in Nat
      BY <2>0, Countable DEF RunOK
    <3>. QED
      BY <2>0, <2>1, <2>2, <3>1, JobAssumption
         DEF RunOK, Bounded, Workers, NoBatch, Early, RunRow, Stopped
  <2>4. Honest(c, known)  BY <2>2 DEF RunOK, Honest
  <2>5. Complete(c, known)  BY <2>0, <2>1, <2>2 DEF RunOK, Complete, Honest, RunRow
  <2>6. RunOK(c, known)  BY <2>1, <2>3, <2>4, <2>5 DEF RunOK, Stopped
  <2>. QED  BY <2>6 DEF c
<1>. QED  BY <1>1, <1>2

-----------------------------------------------------------------------------
(* Every action keeps the invariant.                                       *)

\* A step of run r leaves the others as they should be.
LEMMA OneRun ==
    ASSUME IInv, NEW r \in Runs, NEW b, run' = [run EXCEPT ![r] = b],
           collected \subseteq collected', collected' \subseteq Pois, RunOK(b, collected')
    PROVE  run' \in [Runs -> RunRow] /\ \A q \in Runs : RunOK(run'[q], collected')
<1>1. run \in [Runs -> RunRow] /\ collected \in SUBSET Pois  BY DEF IInv, TypeOK, RunRow
<1>2. \A q \in Runs : RunOK(run[q], collected')  BY <1>1, KnowingMore DEF IInv
<1>. QED  BY <1>1, <1>2 DEF RunOK

\* The invariant again, when the runs are as they should be.
LEMMA Again ==
    ASSUME run' \in [Runs -> RunRow] /\ \A q \in Runs : RunOK(run'[q], collected'),
           row' \in [status : Statuses, processed : SUBSET Pois, old : BOOLEAN],
           message' \in [Messages -> [state : {"none", "queued", "active", "over"}, tries : 0..RetryLimit]],
           server' \in {"down", "boot", "resume", "up", "degraded"},
           request' \in {"none", "created", "answered"}, collected' \in SUBSET Pois,
           faults' \in [crashes : 0..MaxCrashes, expiries : 0..MaxExpiries, failures : 0..MaxFailures],
           row'.processed \subseteq collected', row'.status = "completed" => collected' = Pois
    PROVE  IInv'
  BY DEF IInv, TypeOK, RunRow, ProcessedWereCollected, CompletedMeansCollected

\* A failing query is counted.
LEMMA FailsTyped ==
    ASSUME IInv, NEW point, Fails(point)
    PROVE  faults' \in [crashes : 0..MaxCrashes, expiries : 0..MaxExpiries, failures : 0..MaxFailures]
  BY JobAssumption DEF IInv, TypeOK, Fails

\* A message given back is a message.
LEMMA GiveBackTyped ==
    ASSUME IInv, NEW m \in Messages, GiveBack(m)
    PROVE  message' \in [Messages -> [state : {"none", "queued", "active", "over"}, tries : 0..RetryLimit]]
  BY JobAssumption DEF IInv, TypeOK, GiveBack

\* ReadJob keeps the invariant: what the row records is skipped and remembered.
LEMMA ReadJobKeeps == ASSUME IInv, NEW r \in Runs, ReadJob(r) PROVE IInv'
<1>. DEFINE todo == Pois \ row.processed
            label == IF todo = {} THEN "nothing" ELSE "start"
            b == [run[r] EXCEPT !.pc = label, !.todo = todo, !.recorded = row.processed]
<1>0. /\ RunOK(run[r], collected) /\ run \in [Runs -> RunRow]
      /\ row.processed \subseteq Pois /\ row.processed \subseteq collected /\ collected \subseteq Pois
      /\ todo \subseteq Pois /\ label \in {"nothing", "start"}
      /\ label = "nothing" => row.processed = Pois
  BY DEF IInv, TypeOK, RunRow, ProcessedWereCollected
<1>1. run' = [run EXCEPT ![r] = b]  BY <1>0 DEF ReadJob
<1>2. RunOK(b, collected)
  <2>. Pois \subseteq todo \cup row.processed  OBVIOUS
  <2>. HIDE DEF todo, label
  <2>1. b \in RunRow  BY <1>0 DEF RunRow, Labels
  <2>2. Bounded(b)  BY <1>0 DEF RunOK, RunRow, Bounded, NoBatch, Workers, Early, ReadJob
  <2>3. Honest(b, collected)  BY <1>0 DEF RunOK, RunRow, Honest
  <2>4. Complete(b, collected)  BY <1>0 DEF RunRow, Complete
  <2>. QED  BY <2>1, <2>2, <2>3, <2>4 DEF RunOK
<1>. QED
  <2>. HIDE DEF b
  <2>1. run' \in [Runs -> RunRow] /\ \A q \in Runs : RunOK(run'[q], collected')
    BY <1>1, <1>2, OneRun DEF ReadJob, IInv, TypeOK
  <2>. QED
    BY <2>1, Again DEF ReadJob, IInv, TypeOK, ProcessedWereCollected, CompletedMeansCollected

\* A run that goes on to another label, at which the same is asked of it.
LEMMA Relabelled ==
    ASSUME IInv, NEW r \in Runs, NEW label \in Labels, Goto(r, label), UNCHANGED collected,
           label \in Early => run[r].pc \in Early,
           label \in {"start", "prepare", "batch"} => run[r].pc \in {"start", "prepare", "batch"},
           label \in {"nothing", "close"} => run[r].pc \in {"nothing", "close"}
    PROVE  run' \in [Runs -> RunRow] /\ \A q \in Runs : RunOK(run'[q], collected')
<1>. DEFINE b == [run[r] EXCEPT !.pc = label]
<1>0. RunOK(run[r], collected) /\ run \in [Runs -> RunRow]  BY DEF IInv, TypeOK, RunRow
<1>1. run' = [run EXCEPT ![r] = b]  BY <1>0 DEF Goto
<1>2. RunOK(b, collected)
  BY <1>0 DEF RunOK, RunRow, Bounded, NoBatch, Workers, Honest, Complete
<1>. QED  BY <1>1, <1>2, OneRun DEF IInv, TypeOK

\* MarkNothingLeft keeps the invariant.
LEMMA MarkNothingLeftKeeps == ASSUME IInv, NEW r \in Runs, MarkNothingLeft(r) PROVE IInv'
<1>1. collected = Pois  BY DEF MarkNothingLeft, IInv, RunOK, Complete
<1>2. run' \in [Runs -> RunRow] /\ \A q \in Runs : RunOK(run'[q], collected')
  BY Relabelled DEF MarkNothingLeft, Labels, Early
<1>. QED
  BY <1>1, <1>2, Again DEF MarkNothingLeft, SetStatus, Statuses, IInv, TypeOK

\* MarkRunning keeps the invariant.
LEMMA MarkRunningKeeps == ASSUME IInv, NEW r \in Runs, MarkRunning(r) PROVE IInv'
<1>1. run' \in [Runs -> RunRow] /\ \A q \in Runs : RunOK(run'[q], collected')
  BY Relabelled DEF MarkRunning, Labels, Early
<1>. QED
  BY <1>1, Again DEF MarkRunning, SetStatus, Statuses, IInv, TypeOK, ProcessedWereCollected

\* SetupFails keeps the invariant.
LEMMA SetupFailsKeeps == ASSUME IInv, NEW r \in Runs, SetupFails(r) PROVE IInv'
<1>1. run' \in [Runs -> RunRow] /\ \A q \in Runs : RunOK(run'[q], collected')
  BY Relabelled DEF SetupFails, Labels, Early
<1>. QED
  BY <1>1, Again, FailsTyped
     DEF SetupFails, IInv, TypeOK, ProcessedWereCollected, CompletedMeansCollected

\* MarkCompleted keeps the invariant: the batch left no POI out.
LEMMA MarkCompletedKeeps == ASSUME IInv, NEW r \in Runs, MarkCompleted(r) PROVE IInv'
<1>1. collected = Pois  BY DEF MarkCompleted, IInv, RunOK, Complete
<1>2. run' \in [Runs -> RunRow] /\ \A q \in Runs : RunOK(run'[q], collected')
  BY Relabelled DEF MarkCompleted, Labels, Early
<1>. QED
  BY <1>1, <1>2, Again DEF MarkCompleted, SetStatus, Statuses, IInv, TypeOK

\* MarkCompletedFails keeps the invariant.
LEMMA MarkCompletedFailsKeeps == ASSUME IInv, NEW r \in Runs, MarkCompletedFails(r) PROVE IInv'
<1>1. run' \in [Runs -> RunRow] /\ \A q \in Runs : RunOK(run'[q], collected')
  BY Relabelled DEF MarkCompletedFails, Labels, Early
<1>. QED
  BY <1>1, Again, FailsTyped
     DEF MarkCompletedFails, IInv, TypeOK, ProcessedWereCollected, CompletedMeansCollected

\* MarkFailed keeps the invariant, whether or not its query fails.
LEMMA MarkFailedKeeps == ASSUME IInv, NEW r \in Runs, MarkFailed(r) PROVE IInv'
<1>1. run' \in [Runs -> RunRow] /\ \A q \in Runs : RunOK(run'[q], collected')
  BY Relabelled DEF MarkFailed, Labels, Early
<1>2. CASE SetStatus("failed") /\ UNCHANGED faults
  BY <1>1, <1>2, Again DEF MarkFailed, SetStatus, Statuses, IInv, TypeOK, ProcessedWereCollected
<1>3. CASE Fails("close") /\ UNCHANGED row
  BY <1>1, <1>3, Again, FailsTyped
     DEF MarkFailed, IInv, TypeOK, ProcessedWereCollected, CompletedMeansCollected
<1>. QED  BY <1>2, <1>3 DEF MarkFailed

\* StartBatch keeps the invariant: no more workers than the setting says.
LEMMA StartBatchKeeps == ASSUME IInv, NEW r \in Runs, StartBatch(r) PROVE IInv'
<1>. DEFINE size == Cardinality(run[r].todo)
            idle == IF size < MaxConcurrency THEN size ELSE MaxConcurrency
            b == [run[r] EXCEPT !.pc = "batch", !.idle = idle]
<1>0. RunOK(run[r], collected) /\ run \in [Runs -> RunRow] /\ run[r].pc = "prepare"
  BY DEF IInv, TypeOK, RunRow, StartBatch
<1>1. run' = [run EXCEPT ![r] = b]  BY <1>0 DEF StartBatch
<1>2. RunOK(b, collected)
  <2>1. size \in Nat
    BY <1>0, JobAssumption, FS_Subset, FS_CardinalityType DEF RunRow
  <2>2. idle \in 0..MaxConcurrency  BY <2>1, JobAssumption
  <2>. HIDE DEF idle
  <2>3. b \in RunRow  BY <1>0, <2>2 DEF RunRow, Labels
  <2>4. Bounded(b)
    <3>1. NoBatch(run[r])  BY <1>0 DEF RunOK, Bounded, Early
    <3>2. b.idle = idle /\ b.permits = 0 /\ b.running = {} /\ b.writes = {} /\ b.pc = "batch"
      BY <1>0, <3>1 DEF RunRow, NoBatch
    <3>. HIDE DEF b
    <3>. QED  BY <2>2, <3>2, FS_EmptySet, JobAssumption DEF Bounded, Workers, Early
  <2>5. Honest(b, collected) /\ Complete(b, collected)
    BY <1>0 DEF RunOK, RunRow, Honest, Complete
  <2>. QED  BY <2>3, <2>4, <2>5 DEF RunOK
<1>. QED
  <2>. HIDE DEF b
  <2>1. run' \in [Runs -> RunRow] /\ \A q \in Runs : RunOK(run'[q], collected')
    BY <1>1, <1>2, OneRun DEF StartBatch, IInv, TypeOK
  <2>. QED
    BY <2>1, Again DEF StartBatch, IInv, TypeOK, ProcessedWereCollected, CompletedMeansCollected

-----------------------------------------------------------------------------
(* What the steps of a batch make of their run, before Settled.            *)

Looked(b) == IF row.status = "cancelled" THEN [b EXCEPT !.cancelled = TRUE]
             ELSE [b EXCEPT !.idle = @ - 1, !.permits = @ + 1]

Claimed(b, poi) == [b EXCEPT !.permits = @ - 1, !.todo = @ \ {poi}, !.running = @ \cup {poi}]

Sent(b, poi) == [poi |-> poi, ids |-> b.recorded \cup {poi}]

Recorded(b, poi) == [b EXCEPT !.running = @ \ {poi}, !.recorded = @ \cup {poi},
                              !.writes = @ \cup {Sent(b, poi)}]

Rearmed(b) == IF (b.todo # {} /\ ~b.cancelled) /\ b.pc = "batch" THEN b.idle + 1 ELSE b.idle

Landed(b, w) == [b EXCEPT !.writes = @ \ {w}, !.idle = Rearmed(b)]

\* ReadStatus: an idle worker was let through, or saw the cancellation.
LEMMA ReadStatusRun ==
    ASSUME IInv, NEW r \in Runs, ReadStatus(r)
    PROVE  /\ run' = [run EXCEPT ![r] = Settled(Looked(run[r]))]
           /\ RunOK(Looked(run[r]), collected)
<1>. DEFINE b == run[r]
            c == Looked(b)
<1>0. RunOK(b, collected) /\ b \in RunRow /\ b.idle > 0  BY DEF IInv, RunOK, ReadStatus
<1>1. run' = [run EXCEPT ![r] = Settled(c)]  BY DEF ReadStatus, Looked
<1>. HIDE DEF b
<1>2. RunOK(c, collected)
  <2>1. CASE row.status = "cancelled"
    BY <1>0, <2>1 DEF Looked, RunOK, RunRow, Bounded, NoBatch, Workers, Honest, Complete
  <2>2. CASE row.status # "cancelled"
    <3>1. Cardinality(b.running) \in Nat /\ Cardinality(b.writes) \in Nat
      BY <1>0, Countable DEF RunOK
    <3>2. b.pc \notin Early  BY <1>0 DEF RunOK, Bounded, NoBatch, RunRow
    <3>3. b.permits + 1 \in 0..MaxConcurrency /\ b.idle - 1 \in 0..MaxConcurrency
      BY <1>0, <3>1, JobAssumption DEF RunOK, Bounded, Workers, RunRow
    <3>4. c \in RunRow  BY <1>0, <2>2, <3>3 DEF Looked, RunRow
    <3>5. Bounded(c)
      BY <1>0, <2>2, <3>1, <3>2, <3>3, JobAssumption DEF Looked, RunOK, Bounded, Workers, RunRow
    <3>6. Honest(c, collected) /\ Complete(c, collected)
      BY <1>0, <2>2 DEF Looked, RunOK, RunRow, Honest, Complete
    <3>. QED  BY <3>4, <3>5, <3>6 DEF RunOK
  <2>. QED  BY <2>1, <2>2
<1>. QED  BY <1>1, <1>2 DEF b

\* Claim: the POI is at work instead of left.
LEMMA ClaimRun ==
    ASSUME IInv, NEW r \in Runs, NEW poi \in Pois, Claim(r, poi)
    PROVE  /\ run' = [run EXCEPT ![r] = Settled(Claimed(run[r], poi))]
           /\ RunOK(Claimed(run[r], poi), collected)
<1>. DEFINE b == run[r]
            c == Claimed(b, poi)
<1>0. RunOK(b, collected) /\ b \in RunRow /\ b.permits > 0  BY DEF IInv, RunOK, Claim
<1>1. run' = [run EXCEPT ![r] = Settled(c)]  BY DEF Claim, Claimed
<1>. HIDE DEF b
<1>2. RunOK(c, collected)
  <2>1. /\ Cardinality(b.running) \in Nat /\ Cardinality(b.writes) \in Nat
        /\ IsFiniteSet(b.running)
    BY <1>0, Countable DEF RunOK
  <2>2. b.pc \notin Early  BY <1>0 DEF RunOK, Bounded, NoBatch, RunRow
  <2>3. c \in RunRow
    <3>1. b.permits - 1 \in 0..MaxConcurrency  BY <1>0, JobAssumption DEF RunRow
    <3>. QED  BY <1>0, <3>1 DEF Claimed, RunRow
  <2>4. Cardinality(b.running \cup {poi}) \in {Cardinality(b.running), Cardinality(b.running) + 1}
    BY <2>1, FS_AddElement
  <2>5. Bounded(c)
    BY <1>0, <2>1, <2>2, <2>4, JobAssumption DEF Claimed, RunOK, Bounded, Workers, RunRow
  <2>6. Honest(c, collected) /\ Complete(c, collected)
    BY <1>0 DEF Claimed, RunOK, RunRow, Honest, Complete
  <2>. QED  BY <2>3, <2>5, <2>6 DEF RunOK
<1>. QED  BY <1>1, <1>2 DEF b

\* Collected: the POI is recorded instead of at work, and the list that is sent
\* was collected.
LEMMA CollectedRun ==
    ASSUME IInv, NEW r \in Runs, NEW poi \in Pois, Collected(r, poi)
    PROVE  /\ run' = [run EXCEPT ![r] = Recorded(run[r], poi)]
           /\ RunOK(Recorded(run[r], poi), collected')
<1>. DEFINE b == run[r]
            w == Sent(b, poi)
            c == Recorded(b, poi)
<1>0. /\ RunOK(b, collected) /\ b \in RunRow /\ poi \in b.running
      /\ collected' = collected \cup {poi} /\ collected' \in SUBSET Pois
  BY DEF IInv, RunOK, TypeOK, Collected
<1>1. run' = [run EXCEPT ![r] = c]  BY DEF Collected, Recorded, Sent
<1>. HIDE DEF b
<1>2. RunOK(c, collected')
  <2>1. /\ Cardinality(b.running) \in Nat /\ Cardinality(b.writes) \in Nat
        /\ IsFiniteSet(b.running) /\ IsFiniteSet(b.writes)
    BY <1>0, Countable DEF RunOK
  <2>2. b.pc \notin Early  BY <1>0 DEF RunOK, Bounded, NoBatch, RunRow
  <2>3. w \in [poi : Pois, ids : SUBSET Pois] /\ w.ids = b.recorded \cup {poi}
    BY <1>0 DEF Sent, RunRow
  <2>. HIDE DEF w
  <2>4. Cardinality(b.running \ {poi}) = Cardinality(b.running) - 1
    BY <1>0, <2>1, FS_RemoveElement
  <2>5. /\ IsFiniteSet(b.writes \cup {w})
        /\ Cardinality(b.writes \cup {w}) \in {Cardinality(b.writes), Cardinality(b.writes) + 1}
    BY <2>1, FS_AddElement
  <2>6. c = [b EXCEPT !.running = @ \ {poi}, !.recorded = @ \cup {poi}, !.writes = @ \cup {w}]
    BY DEF Recorded, w
  <2>. HIDE DEF c
  <2>7. c \in RunRow  BY <1>0, <2>3, <2>6 DEF RunRow
  <2>8. Bounded(c)
    BY <1>0, <2>1, <2>2, <2>4, <2>5, <2>6, JobAssumption DEF RunOK, Bounded, Workers, RunRow
  <2>9. Honest(c, collected')  BY <1>0, <2>3, <2>6 DEF RunOK, RunRow, Honest
  <2>10. Complete(c, collected')  BY <1>0, <2>6 DEF RunOK, RunRow, Complete
  <2>. QED  BY <2>7, <2>8, <2>9, <2>10 DEF RunOK
<1>. QED  BY <1>1, <1>2 DEF b

\* Written: the checkpoint has landed or is lost, and its worker may be idle again.
LEMMA WrittenRun ==
    ASSUME IInv, NEW r \in Runs, NEW w \in run[r].writes, Written(r, w)
    PROVE  /\ run' = [run EXCEPT ![r] = Settled(Landed(run[r], w))]
           /\ RunOK(Landed(run[r], w), collected)
<1>. DEFINE b == run[r]
            c == Landed(b, w)
<1>0. RunOK(b, collected) /\ b \in RunRow /\ w \in b.writes  BY DEF IInv, RunOK
<1>1. run' = [run EXCEPT ![r] = Settled(c)]  BY DEF Written, Landed, Rearmed
<1>. HIDE DEF b
<1>2. RunOK(c, collected)
  <2>1. /\ Cardinality(b.running) \in Nat /\ Cardinality(b.writes) \in Nat
        /\ IsFiniteSet(b.writes \ {w}) /\ Cardinality(b.writes \ {w}) = Cardinality(b.writes) - 1
    BY <1>0, Countable, FS_RemoveElement DEF RunOK
  <2>2. b.pc \notin Early  BY <1>0 DEF RunOK, Bounded, NoBatch, RunRow
  <2>3. Rearmed(b) \in {b.idle, b.idle + 1} /\ Rearmed(b) \in 0..MaxConcurrency
    BY <1>0, <2>1, Countable, JobAssumption, FS_EmptySet
       DEF Rearmed, RunOK, Bounded, Workers, RunRow
  <2>4. c \in RunRow  BY <1>0, <2>3 DEF Landed, RunRow
  <2>5. Bounded(c)
    BY <1>0, <2>1, <2>2, <2>3, JobAssumption DEF Landed, RunOK, Bounded, Workers, RunRow
  <2>6. Honest(c, collected) /\ Complete(c, collected)
    BY <1>0 DEF Landed, RunOK, RunRow, Honest, Complete
  <2>. QED  BY <2>4, <2>5, <2>6 DEF RunOK
<1>. QED  BY <1>1, <1>2 DEF b

\* A run that Settled ends or goes on with.
LEMMA OneSettled ==
    ASSUME IInv, NEW r \in Runs, NEW b, run' = [run EXCEPT ![r] = Settled(b)],
           UNCHANGED collected, RunOK(b, collected)
    PROVE  run' \in [Runs -> RunRow] /\ \A q \in Runs : RunOK(run'[q], collected')
<1>1. collected \in SUBSET Pois  BY DEF IInv, TypeOK
<1>. QED  BY <1>1, SettledOK, OneRun

-----------------------------------------------------------------------------
(* The steps of a batch keep the invariant.                                *)

\* ReadStatus keeps the invariant.
LEMMA ReadStatusKeeps == ASSUME IInv, NEW r \in Runs, ReadStatus(r) PROVE IInv'
<1>1. run' \in [Runs -> RunRow] /\ \A q \in Runs : RunOK(run'[q], collected')
  BY ReadStatusRun, OneSettled DEF ReadStatus
<1>. QED
  BY <1>1, Again DEF ReadStatus, IInv, TypeOK, ProcessedWereCollected, CompletedMeansCollected

\* StatusReadFails keeps the invariant.
LEMMA StatusReadFailsKeeps == ASSUME IInv, NEW r \in Runs, StatusReadFails(r) PROVE IInv'
<1>. DEFINE b == run[r]
            c == [b EXCEPT !.idle = @ - 1]
<1>0. /\ RunOK(b, collected) /\ b \in RunRow /\ run \in [Runs -> RunRow] /\ b.idle > 0
      /\ collected \in SUBSET Pois
  BY DEF IInv, RunOK, TypeOK, RunRow, StatusReadFails
<1>1. run' = [run EXCEPT ![r] = c]  BY <1>0 DEF StatusReadFails
<1>. HIDE DEF b
<1>2. RunOK(c, collected)
  <2>1. Cardinality(b.running) \in Nat /\ Cardinality(b.writes) \in Nat
    BY <1>0, Countable DEF RunOK
  <2>2. b.pc \notin Early  BY <1>0 DEF RunOK, Bounded, NoBatch, RunRow
  <2>3. c \in RunRow  BY <1>0, JobAssumption DEF RunRow
  <2>4. Bounded(c)  BY <1>0, <2>1, <2>2, JobAssumption DEF RunOK, Bounded, Workers, RunRow
  <2>5. Honest(c, collected) /\ Complete(c, collected)
    BY <1>0 DEF RunOK, RunRow, Honest, Complete
  <2>. QED  BY <2>3, <2>4, <2>5 DEF RunOK
<1>. QED
  <2>. HIDE DEF c
  <2>1. run' \in [Runs -> RunRow] /\ \A q \in Runs : RunOK(run'[q], collected')
    BY <1>0, <1>1, <1>2, OneRun DEF StatusReadFails
  <2>. QED
    BY <2>1, Again, FailsTyped
       DEF StatusReadFails, IInv, TypeOK, ProcessedWereCollected, CompletedMeansCollected

\* Claim keeps the invariant.
LEMMA ClaimKeeps == ASSUME IInv, NEW r \in Runs, NEW poi \in Pois, Claim(r, poi) PROVE IInv'
<1>1. run' \in [Runs -> RunRow] /\ \A q \in Runs : RunOK(run'[q], collected')
  BY ClaimRun, OneSettled DEF Claim
<1>. QED
  BY <1>1, Again DEF Claim, IInv, TypeOK, ProcessedWereCollected, CompletedMeansCollected

\* Collected keeps the invariant.
LEMMA CollectedKeeps == ASSUME IInv, NEW r \in Runs, NEW poi \in Pois, Collected(r, poi) PROVE IInv'
<1>0. collected' = collected \cup {poi} /\ collected' \in SUBSET Pois /\ collected \in SUBSET Pois
  BY DEF IInv, TypeOK, Collected
<1>1. run' \in [Runs -> RunRow] /\ \A q \in Runs : RunOK(run'[q], collected')
  BY <1>0, CollectedRun, OneRun
<1>. QED
  BY <1>0, <1>1, Again DEF Collected, IInv, TypeOK, ProcessedWereCollected, CompletedMeansCollected

\* Checkpoint keeps the invariant: the list that lands was collected.
LEMMA CheckpointKeeps ==
    ASSUME IInv, NEW r \in Runs, NEW w \in run[r].writes, Checkpoint(r, w) PROVE IInv'
<1>1. run' \in [Runs -> RunRow] /\ \A q \in Runs : RunOK(run'[q], collected')
  BY WrittenRun, OneSettled DEF Checkpoint
<1>2. w.ids \subseteq collected /\ w.ids \subseteq Pois
  BY DEF IInv, TypeOK, RunOK, Honest
<1>. QED  BY <1>1, <1>2, Again DEF Checkpoint, IInv, TypeOK, CompletedMeansCollected

\* CheckpointFails keeps the invariant.
LEMMA CheckpointFailsKeeps ==
    ASSUME IInv, NEW r \in Runs, NEW w \in run[r].writes, CheckpointFails(r, w) PROVE IInv'
<1>1. run' \in [Runs -> RunRow] /\ \A q \in Runs : RunOK(run'[q], collected')
  BY WrittenRun, OneSettled DEF CheckpointFails
<1>. QED
  BY <1>1, Again, FailsTyped
     DEF CheckpointFails, IInv, TypeOK, ProcessedWereCollected, CompletedMeansCollected

\* What is left of a run whose handler returned or threw.
LEMMA LeaveKeeps ==
    ASSUME IInv, NEW r \in Runs, Leave(r), run[r].pc \in {"return", "throw"}, UNCHANGED collected
    PROVE  run' \in [Runs -> RunRow] /\ \A q \in Runs : RunOK(run'[q], collected')
<1>. DEFINE c == [run[r] EXCEPT !.pc = "over", !.msg = 0]
<1>0. RunOK(run[r], collected)  BY DEF IInv
<1>1. run' = [run EXCEPT ![r] = Settled(c)]  BY DEF Leave
<1>2. RunOK(c, collected)
  BY <1>0 DEF RunOK, RunRow, Labels, Bounded, NoBatch, Workers, Early, Honest, Complete
<1>. HIDE DEF c
<1>. QED  BY <1>1, <1>2, OneSettled

\* Return keeps the invariant.
LEMMA ReturnKeeps == ASSUME IInv, NEW r \in Runs, Return(r) PROVE IInv'
<1>1. run' \in [Runs -> RunRow] /\ \A q \in Runs : RunOK(run'[q], collected')
  BY LeaveKeeps DEF Return
<1>2. message' \in [Messages -> [state : {"none", "queued", "active", "over"}, tries : 0..RetryLimit]]
  BY DEF Return, IInv, TypeOK
<1>. QED
  BY <1>1, <1>2, Again DEF Return, IInv, TypeOK, ProcessedWereCollected, CompletedMeansCollected

\* Throw keeps the invariant.
LEMMA ThrowKeeps == ASSUME IInv, NEW r \in Runs, Throw(r) PROVE IInv'
<1>1. run' \in [Runs -> RunRow] /\ \A q \in Runs : RunOK(run'[q], collected')
  BY LeaveKeeps DEF Throw
<1>2. message' \in [Messages -> [state : {"none", "queued", "active", "over"}, tries : 0..RetryLimit]]
  <2>1. run[r].msg \in {0} \cup Messages  BY DEF IInv, TypeOK
  <2>2. CASE run[r].msg = 0  BY <2>2 DEF Throw, IInv, TypeOK
  <2>3. CASE run[r].msg \in Messages  BY <2>3, GiveBackTyped DEF Throw, Messages
  <2>. QED  BY <2>1, <2>2, <2>3
<1>. QED
  BY <1>1, <1>2, Again DEF Throw, IInv, TypeOK, ProcessedWereCollected, CompletedMeansCollected

\* A run that starts.
LEMMA StartRunKeeps ==
    ASSUME IInv, NEW r \in Runs, NEW m \in {0} \cup Messages, StartRun(r, m), UNCHANGED collected
    PROVE  run' \in [Runs -> RunRow] /\ \A q \in Runs : RunOK(run'[q], collected')
<1>. DEFINE b == [NoRun EXCEPT !.pc = "read", !.msg = m]
<1>0. collected \in SUBSET Pois  BY DEF IInv, TypeOK
<1>1. run' = [run EXCEPT ![r] = b]  BY DEF StartRun
<1>2. RunOK(b, collected)
  <2>1. b \in RunRow
    <3>1. NoRun \in RunRow  BY <1>0, NoRunOK DEF RunOK
    <3>. QED  BY <3>1 DEF RunRow, Labels
  <2>2. Bounded(b)  BY JobAssumption, FS_EmptySet DEF NoRun, Bounded, Workers, NoBatch
  <2>3. Honest(b, collected) /\ Complete(b, collected)  BY DEF NoRun, Honest, Complete
  <2>. QED  BY <2>1, <2>2, <2>3 DEF RunOK
<1>. HIDE DEF b
<1>. QED  BY <1>0, <1>1, <1>2, OneRun

\* Deliver keeps the invariant.
LEMMA DeliverKeeps == ASSUME IInv, NEW m \in Messages, NEW r \in Runs, Deliver(m, r) PROVE IInv'
<1>1. run' \in [Runs -> RunRow] /\ \A q \in Runs : RunOK(run'[q], collected')
  BY StartRunKeeps DEF Deliver
<1>. QED
  BY <1>1, Again DEF Deliver, IInv, TypeOK, ProcessedWereCollected, CompletedMeansCollected

\* RunScheduled keeps the invariant.
LEMMA RunScheduledKeeps == ASSUME IInv, NEW r \in Runs, RunScheduled(r) PROVE IInv'
<1>1. run' \in [Runs -> RunRow] /\ \A q \in Runs : RunOK(run'[q], collected')
  BY StartRunKeeps DEF RunScheduled
<1>. QED
  BY <1>1, Again DEF RunScheduled, SetStatus, Statuses, IInv, TypeOK, ProcessedWereCollected

\* Expire keeps the invariant: the run goes on, unheard.
LEMMA ExpireKeeps == ASSUME IInv, NEW m \in Messages, Expire(m) PROVE IInv'
<1>1. ASSUME NEW q \in Runs PROVE run'[q] \in RunRow /\ RunOK(run'[q], collected')
  <2>0. RunOK(run[q], collected) /\ collected' = collected  BY DEF IInv, Expire
  <2>1. CASE run[q].msg = m
    <3>1. run'[q] = [run[q] EXCEPT !.msg = 0]  BY <2>1 DEF Expire
    <3>. QED
      BY <2>0, <3>1 DEF RunOK, RunRow, Bounded, NoBatch, Workers, Honest, Complete
  <2>2. CASE run[q].msg # m  BY <2>0, <2>2 DEF Expire, RunOK
  <2>. QED  BY <2>1, <2>2
<1>2. run' \in [Runs -> RunRow]
  <2>1. run' = [q \in Runs |-> run'[q]]  BY DEF Expire
  <2>. QED  BY <1>1, <2>1
<1>3. faults' \in [crashes : 0..MaxCrashes, expiries : 0..MaxExpiries, failures : 0..MaxFailures]
  BY JobAssumption DEF Expire, IInv, TypeOK
<1>4. message' \in [Messages -> [state : {"none", "queued", "active", "over"}, tries : 0..RetryLimit]]
  BY GiveBackTyped DEF Expire
<1>. QED
  BY <1>1, <1>2, <1>3, <1>4, Again
     DEF Expire, IInv, TypeOK, ProcessedWereCollected, CompletedMeansCollected

\* Crash keeps the invariant.
LEMMA CrashKeeps == ASSUME IInv, Crash PROVE IInv'
<1>1. \A q \in Runs : RunOK(run'[q], collected')  BY NoRunOK DEF Crash, IInv, TypeOK
<1>2. run' \in [Runs -> RunRow]  BY NoRunOK DEF Crash, RunOK, IInv, TypeOK
<1>3. faults' \in [crashes : 0..MaxCrashes, expiries : 0..MaxExpiries, failures : 0..MaxFailures]
  BY JobAssumption DEF Crash, IInv, TypeOK
<1>. QED
  BY <1>1, <1>2, <1>3, Again
     DEF Crash, IInv, TypeOK, ProcessedWereCollected, CompletedMeansCollected

\* The requests, the startup and the passing of time keep the invariant: they
\* touch no run.
LEMMA OthersKeep ==
    ASSUME IInv,
           \/ \E m \in Messages : SubmitJob(m)
           \/ CreateJob \/ SubmitFails \/ CancelJob
           \/ FailAbandoned \/ StartScheduler \/ SchedulerFails \/ ResumeJobs \/ ResumeFails \/ GrowOld
    PROVE  IInv'
<1>1. run' \in [Runs -> RunRow] /\ \A q \in Runs : RunOK(run'[q], collected')
  BY DEF IInv, TypeOK, RunRow, SubmitJob, CreateJob, SubmitFails, CancelJob, FailAbandoned,
         StartScheduler, SchedulerFails, ResumeJobs, ResumeFails, GrowOld
<1>2. ASSUME NEW m \in Messages, Send(m)
      PROVE  message' \in [Messages -> [state : {"none", "queued", "active", "over"}, tries : 0..RetryLimit]]
  BY <1>2 DEF Send, IInv, TypeOK
<1>3. CASE \E m \in Messages : SubmitJob(m)
  BY <1>1, <1>2, <1>3, Again DEF SubmitJob, IInv, TypeOK, ProcessedWereCollected, CompletedMeansCollected
<1>4. CASE CreateJob \/ CancelJob
  BY <1>1, <1>4, Again DEF CreateJob, CancelJob, SetStatus, Statuses, IInv, TypeOK, ProcessedWereCollected
<1>5. CASE SubmitFails
  BY <1>1, <1>5, Again, FailsTyped
     DEF SubmitFails, IInv, TypeOK, ProcessedWereCollected, CompletedMeansCollected
<1>6. CASE FailAbandoned
  BY <1>1, <1>6, Again, FailsTyped
     DEF FailAbandoned, Statuses, IInv, TypeOK, ProcessedWereCollected, CompletedMeansCollected
<1>7. CASE StartScheduler \/ SchedulerFails \/ ResumeFails
  BY <1>1, <1>7, Again, FailsTyped
     DEF StartScheduler, SchedulerFails, ResumeFails, IInv, TypeOK, ProcessedWereCollected, CompletedMeansCollected
<1>8. CASE ResumeJobs
  BY <1>1, <1>2, <1>8, Again
     DEF ResumeJobs, IInv, TypeOK, ProcessedWereCollected, CompletedMeansCollected
<1>9. CASE GrowOld
  BY <1>1, <1>9, Again DEF GrowOld, IInv, TypeOK, ProcessedWereCollected, CompletedMeansCollected
<1>. QED  BY <1>3, <1>4, <1>5, <1>6, <1>7, <1>8, <1>9

-----------------------------------------------------------------------------

\* The invariant holds at first.
LEMMA InitHolds == ASSUME Init PROVE IInv
<1>1. run \in [Runs -> RunRow] /\ \A r \in Runs : RunOK(run[r], collected)
  BY NoRunOK DEF Init, RunOK
<1>. QED
  BY <1>1, JobAssumption
     DEF Init, Statuses, IInv, TypeOK, RunRow, ProcessedWereCollected, CompletedMeansCollected

\* Every step keeps the invariant.
LEMMA StepKeeps == ASSUME IInv, [Next]_vars PROVE IInv'
<1>1. ASSUME NEW r \in Runs, HandlerStep(r) PROVE IInv'
  BY <1>1, ReadJobKeeps, MarkNothingLeftKeeps, MarkRunningKeeps, StartBatchKeeps, ReadStatusKeeps,
     ClaimKeeps, CollectedKeeps, CheckpointKeeps, MarkCompletedKeeps, MarkFailedKeeps,
     ReturnKeeps, ThrowKeeps
     DEF HandlerStep
<1>2. ASSUME NEW r \in Runs, HandlerFails(r) PROVE IInv'
  BY <1>2, SetupFailsKeeps, StatusReadFailsKeeps, CheckpointFailsKeeps, MarkCompletedFailsKeeps
     DEF HandlerFails
<1>3. CASE System
  BY <1>3, OthersKeep, DeliverKeeps DEF System, Startup
<1>4. CASE Environment
  BY <1>4, OthersKeep, RunScheduledKeeps, ExpireKeeps, CrashKeeps DEF Environment
<1>5. CASE UNCHANGED vars
  BY <1>5 DEF vars, IInv, TypeOK, ProcessedWereCollected, CompletedMeansCollected
<1>. QED  BY <1>1, <1>2, <1>3, <1>4, <1>5 DEF Next

\* The invariant always holds.
THEOREM Invariance == Spec => []IInv
<1>1. Init => IInv  BY InitHolds
<1>2. IInv /\ [Next]_vars => IInv'  BY StepKeeps
<1>. QED  BY <1>1, <1>2, PTL DEF Spec

\* Every variable keeps its type; in particular no run ever has more workers
\* than max_concurrency (runBatch of newsService.js).
THEOREM TypeCorrect == Spec => []TypeOK
<1>1. IInv => TypeOK  BY DEF IInv
<1>. QED  BY <1>1, Invariance, PTL

\* What a resumed job skips was really collected, however many runs overlap and in
\* whatever order their checkpoints land (processNewsCollectionJob, safeCheckpoint).
THEOREM ProgressIsTrue == Spec => []ProcessedWereCollected
<1>1. IInv => ProcessedWereCollected  BY DEF IInv
<1>. QED  BY <1>1, Invariance, PTL

\* "completed" is never written over a POI nobody collected (the UPDATEs that
\* close the job in processNewsCollectionJob).
THEOREM CompletedIsTrue == Spec => []CompletedMeansCollected
<1>1. IInv => CompletedMeansCollected  BY DEF IInv
<1>. QED  BY <1>1, Invariance, PTL

-----------------------------------------------------------------------------
(* With one worker, no expiry and no scheduled job, the recorded progress  *)
(* never shrinks.                                                          *)

\* pg-boss delivers one message at a time, and listens to its handler until that ends.
OneAttended == \A q, r \in Runs : run[q].msg # 0 /\ run[r].msg # 0 => q = r

\* A run in the only process that works at the job: outside its batch it has no worker,
\* and what the row records as processed is part of what the run knows and sends.
OneWorker(b, processed) ==
    /\ b.pc = "unused" <=> b.msg = 0
    /\ b.pc # "over"
    /\ b.pc # "batch" => NoBatch(b)
    /\ b.cancelled => b.pc = "return"
    /\ b.pc \in {"nothing", "start", "prepare", "batch"} => processed \subseteq b.recorded
    /\ \A w \in b.writes : processed \subseteq w.ids /\ w.ids \subseteq b.recorded

PInv == IInv /\ OneAttended /\ \A r \in Runs : OneWorker(run[r], row.processed)

\* The limits of this section: the setting is 1, and every run is one that pg-boss listens to.
Alone == MaxConcurrency = 1 /\ MaxExpiries = 0 /\ "scheduled" \notin Sources

\* The only worker is at one thing at a time.
LEMMA OneThing ==
    ASSUME Alone, NEW b, NEW known, RunOK(b, known)
    PROVE  /\ b.idle > 0 => b.permits = 0 /\ b.running = {} /\ b.writes = {}
           /\ b.permits > 0 => b.idle = 0 /\ b.running = {} /\ b.writes = {}
           /\ b.running # {} => b.idle = 0 /\ b.permits = 0 /\ b.writes = {}
           /\ \A w \in b.writes : /\ b.idle = 0 /\ b.permits = 0 /\ b.running = {}
                                  /\ b.writes = {w}
<1>1. /\ b \in RunRow /\ b.idle \in Nat /\ b.permits \in Nat
      /\ b.idle + b.permits + Cardinality(b.running) + Cardinality(b.writes) <= 1
  BY JobAssumption DEF RunOK, Bounded, Workers, RunRow, Alone
<1>2. /\ IsFiniteSet(b.running) /\ Cardinality(b.running) \in Nat
      /\ IsFiniteSet(b.writes) /\ Cardinality(b.writes) \in Nat
  BY <1>1, Countable DEF RunOK
<1>3. ASSUME NEW S, IsFiniteSet(S), Cardinality(S) \in Nat, NEW x \in S
      PROVE  Cardinality(S) >= 1 /\ (Cardinality(S) = 1 => S = {x})
  <2>1. /\ Cardinality(S \ {x}) = Cardinality(S) - 1 /\ IsFiniteSet(S \ {x})
        /\ Cardinality(S \ {x}) \in Nat
    BY <1>3, FS_RemoveElement, FS_CardinalityType
  <2>2. Cardinality(S) = 1 => S \ {x} = {}  BY <2>1, FS_EmptySet
  <2>. QED  BY <1>3, <2>1, <2>2
<1>4. b.running = {} \/ Cardinality(b.running) >= 1  BY <1>2, <1>3
<1>5. b.writes = {} \/ Cardinality(b.writes) >= 1  BY <1>2, <1>3
<1>6. \A w \in b.writes : Cardinality(b.writes) >= 1 /\ (Cardinality(b.writes) = 1 => b.writes = {w})
  BY <1>2, <1>3
<1>. QED  BY <1>1, <1>2, <1>4, <1>5, <1>6

\* What Settled makes of the batch of the only worker.
LEMMA SettledOne ==
    ASSUME Alone, NEW known, NEW processed, NEW b, RunOK(b, known),
           b.pc = "batch", b.msg # 0,
           b.cancelled => b.permits = 0 /\ b.running = {} /\ b.writes = {},
           processed \subseteq b.recorded,
           \A w \in b.writes : processed \subseteq w.ids /\ w.ids \subseteq b.recorded
    PROVE  OneWorker(Settled(b), processed) /\ Settled(b).msg = b.msg
<1>. DEFINE c == Settled(b)
<1>0. b \in RunRow  BY DEF RunOK
<1>1. \/ Stopped(b, c) /\ c.pc = b.pc /\ ~Ended(b)
      \/ /\ Stopped(b, c) /\ Ended(b) /\ c.pc = IF b.cancelled THEN "return" ELSE "close"
         /\ c.idle = 0 /\ (b.todo = {} => c.permits = 0)
  BY <1>0, SettledIs
<1>. HIDE DEF c
<1>2. /\ Stopped(b, c) /\ c.msg = b.msg /\ c.recorded = b.recorded /\ c.writes = b.writes
      /\ c.running = b.running /\ c.cancelled = b.cancelled /\ c.permits \in {0, b.permits}
  BY <1>1 DEF Stopped
<1>3. OneWorker(c, processed) /\ c.msg = b.msg
  <2>1. CASE Ended(b) /\ b.cancelled
    <3>1. c.pc = "return" /\ c.idle = 0 /\ c.permits = 0 /\ c.running = {} /\ c.writes = {}
      BY <1>1, <1>2, <2>1
    <3>. QED  BY <1>2, <3>1 DEF OneWorker, NoBatch
  <2>2. CASE Ended(b) /\ ~b.cancelled
    <3>1. b.todo = {} /\ b.running = {} /\ b.writes = {}  BY <2>2 DEF Ended
    <3>2. c.pc = "close" /\ c.idle = 0 /\ c.permits = 0 /\ c.running = {} /\ c.writes = {}
      BY <1>1, <1>2, <2>2, <3>1
    <3>. QED  BY <1>2, <2>2, <3>2 DEF OneWorker, NoBatch
  <2>3. CASE ~Ended(b)
    <3>1. ~b.cancelled  BY <2>3 DEF Ended
    <3>2. c.pc = "batch"  BY <1>1, <2>3
    <3>. QED  BY <1>2, <3>1, <3>2 DEF OneWorker
  <2>. QED  BY <2>1, <2>2, <2>3
<1>. QED  BY <1>3 DEF c

\* The handler of the only worker leaves nothing behind.
LEMMA NothingBehind ==
    ASSUME NEW b \in RunRow, b.pc = "over", NoBatch(b)
    PROVE  Settled(b) = NoRun
<1>. DEFINE c == [b EXCEPT !.permits = IF b.todo = {} THEN 0 ELSE @,
                           !.idle = IF b.cancelled THEN 0 ELSE @]
<1>1. c.permits = 0  BY DEF NoBatch, RunRow
<1>. QED  BY <1>1 DEF Settled, NoBatch

\* A run that does not exist records nothing.
LEMMA NoRunOne == ASSUME NEW processed PROVE OneWorker(NoRun, processed)
  BY DEF OneWorker, NoRun, NoBatch

\* A step of run r that leaves what the row records.
LEMMA OneStep ==
    ASSUME PInv, IInv', NEW r \in Runs, NEW b, run' = [run EXCEPT ![r] = b],
           b.msg \in {0, run[r].msg}, OneWorker(b, row.processed),
           row'.processed = row.processed
    PROVE  PInv'
<1>1. \A q \in Runs : run'[q] = IF q = r THEN b ELSE run[q]  BY DEF PInv, IInv, TypeOK
<1>2. OneAttended'  BY <1>1 DEF PInv, OneAttended
<1>3. \A q \in Runs : OneWorker(run'[q], row'.processed)  BY <1>1 DEF PInv
<1>. QED  BY <1>2, <1>3 DEF PInv

\* A step of run r, before its batch or after, that only moves its label.
LEMMA OneGoes ==
    ASSUME PInv, IInv', NEW r \in Runs, NEW label, Goto(r, label), row'.processed = row.processed,
           run[r].pc \notin {"unused", "batch", "return"}, label \notin {"unused", "batch", "over"},
           label \in {"nothing", "start", "prepare"} => run[r].pc \in {"nothing", "start", "prepare"}
    PROVE  PInv'
<1>. DEFINE b == [run[r] EXCEPT !.pc = label]
<1>0. run[r] \in RunRow /\ OneWorker(run[r], row.processed) /\ run \in [Runs -> RunRow]
  BY DEF PInv, IInv, TypeOK, RunRow
<1>1. run' = [run EXCEPT ![r] = b]  BY <1>0 DEF Goto
<1>2. /\ b.pc = label /\ b.msg = run[r].msg /\ b.recorded = run[r].recorded
      /\ b.writes = run[r].writes /\ b.cancelled = run[r].cancelled /\ NoBatch(b)
  BY <1>0 DEF OneWorker, NoBatch, RunRow
<1>. HIDE DEF b
<1>3. OneWorker(b, row.processed)
  <2>1. ~run[r].cancelled  BY <1>0 DEF OneWorker
  <2>2. ~b.cancelled  BY <1>2, <2>1
  <2>. QED  BY <1>0, <1>2, <2>2 DEF OneWorker
<1>. QED  BY <1>1, <1>2, <1>3, OneStep

\* ReadJob: the run takes over what the row records.
LEMMA OneReadJob == ASSUME PInv, IInv', NEW r \in Runs, ReadJob(r) PROVE PInv'
<1>. DEFINE todo == Pois \ row.processed
            label == IF todo = {} THEN "nothing" ELSE "start"
            b == [run[r] EXCEPT !.pc = label, !.todo = todo, !.recorded = row.processed]
<1>0. /\ run[r] \in RunRow /\ OneWorker(run[r], row.processed) /\ run \in [Runs -> RunRow]
      /\ run[r].pc = "read" /\ label \in {"nothing", "start"}
  BY DEF PInv, IInv, TypeOK, RunRow, ReadJob
<1>1. run' = [run EXCEPT ![r] = b]  BY <1>0 DEF ReadJob
<1>2. OneWorker(b, row.processed) /\ b.msg = run[r].msg
  <2>. HIDE DEF todo, label
  <2>. QED  BY <1>0 DEF OneWorker, NoBatch, RunRow
<1>. HIDE DEF b
<1>. QED  BY <1>1, <1>2, OneStep DEF ReadJob

\* StartBatch: the batch begins with nothing sent.
LEMMA OneStartBatch == ASSUME PInv, IInv', NEW r \in Runs, StartBatch(r) PROVE PInv'
<1>. DEFINE size == Cardinality(run[r].todo)
            idle == IF size < MaxConcurrency THEN size ELSE MaxConcurrency
            b == [run[r] EXCEPT !.pc = "batch", !.idle = idle]
<1>0. /\ run[r] \in RunRow /\ OneWorker(run[r], row.processed) /\ run \in [Runs -> RunRow]
      /\ run[r].pc = "prepare" /\ RunOK(run[r], collected) /\ RunOK(run'[r], collected')
  BY DEF PInv, IInv, TypeOK, RunRow, StartBatch
<1>1. run' = [run EXCEPT ![r] = b]  BY <1>0 DEF StartBatch
<1>2. run[r].cancelled = FALSE
  BY <1>0 DEF OneWorker, RunRow
<1>3. OneWorker(b, row.processed) /\ b.msg = run[r].msg
  <2>1. /\ b.pc = "batch" /\ b.msg = run[r].msg /\ b.recorded = run[r].recorded
        /\ b.writes = run[r].writes /\ b.cancelled = FALSE
    <3>. HIDE DEF idle
    <3>. QED  BY <1>0, <1>2 DEF RunRow
  <2>2. /\ run[r].msg # 0 /\ row.processed \subseteq run[r].recorded
        /\ \A w \in run[r].writes : row.processed \subseteq w.ids /\ w.ids \subseteq run[r].recorded
    BY <1>0 DEF OneWorker
  <2>. HIDE DEF b
  <2>3. OneWorker(b, row.processed)  BY <2>1, <2>2 DEF OneWorker
  <2>. QED  BY <2>1, <2>3
<1>. HIDE DEF b
<1>. QED  BY <1>1, <1>3, OneStep DEF StartBatch

\* ReadStatus: the only worker is let through, or the batch ends with it.
LEMMA OneReadStatus == ASSUME PInv, Alone, IInv', NEW r \in Runs, ReadStatus(r) PROVE PInv'
<1>. DEFINE b == run[r]
            c == Looked(b)
<1>0. /\ run' = [run EXCEPT ![r] = Settled(c)] /\ RunOK(c, collected)
      /\ RunOK(b, collected) /\ b \in RunRow /\ OneWorker(b, row.processed) /\ b.idle > 0
  BY ReadStatusRun DEF PInv, IInv, RunOK, ReadStatus
<1>1. b.pc = "batch" /\ b.permits = 0 /\ b.running = {} /\ b.writes = {}
  BY <1>0, OneThing DEF OneWorker, NoBatch, RunRow
<1>. HIDE DEF b
<1>2. /\ c.pc = "batch" /\ c.msg = b.msg /\ c.recorded = b.recorded /\ c.running = {} /\ c.writes = {}
      /\ c.cancelled => c.permits = 0
  BY <1>0, <1>1 DEF Looked, RunRow, OneWorker
<1>3. OneWorker(Settled(c), row.processed) /\ Settled(c).msg = b.msg
  <2>. HIDE DEF c
  <2>1. row.processed \subseteq c.recorded /\ c.msg # 0  BY <1>0, <1>1, <1>2 DEF OneWorker
  <2>. QED  BY <1>0, <1>2, <2>1, SettledOne
<1>. HIDE DEF c
<1>4. row' = row  BY DEF ReadStatus
<1>. QED  BY <1>0, <1>3, <1>4, OneStep DEF b

\* StatusReadFails: the only worker is lost.
LEMMA OneStatusReadFails ==
    ASSUME PInv, Alone, IInv', NEW r \in Runs, StatusReadFails(r) PROVE PInv'
<1>. DEFINE c == [run[r] EXCEPT !.idle = @ - 1]
<1>0. /\ run[r] \in RunRow /\ OneWorker(run[r], row.processed) /\ run \in [Runs -> RunRow]
      /\ run[r].idle > 0
  BY DEF PInv, IInv, TypeOK, RunRow, StatusReadFails
<1>1. run' = [run EXCEPT ![r] = c]  BY <1>0 DEF StatusReadFails
<1>2. OneWorker(c, row.processed) /\ c.msg = run[r].msg
  BY <1>0 DEF OneWorker, NoBatch, RunRow
<1>. HIDE DEF c
<1>. QED  BY <1>1, <1>2, OneStep DEF StatusReadFails

\* Claim: the only worker holds the POI.
LEMMA OneClaim ==
    ASSUME PInv, Alone, IInv', NEW r \in Runs, NEW poi \in Pois, Claim(r, poi) PROVE PInv'
<1>. DEFINE b == run[r]
            c == Claimed(b, poi)
<1>0. /\ run' = [run EXCEPT ![r] = Settled(c)] /\ RunOK(c, collected)
      /\ RunOK(b, collected) /\ b \in RunRow /\ OneWorker(b, row.processed) /\ b.permits > 0
  BY ClaimRun DEF PInv, IInv, RunOK, Claim
<1>1. b.pc = "batch" /\ b.writes = {} /\ ~b.cancelled
  BY <1>0, OneThing DEF OneWorker, NoBatch, RunRow
<1>. HIDE DEF b
<1>2. /\ c.pc = "batch" /\ c.msg = b.msg /\ c.recorded = b.recorded /\ c.writes = {}
      /\ ~c.cancelled
  BY <1>0, <1>1 DEF Claimed, RunRow
<1>3. OneWorker(Settled(c), row.processed) /\ Settled(c).msg = b.msg
  <2>. HIDE DEF c
  <2>1. row.processed \subseteq c.recorded /\ c.msg # 0  BY <1>0, <1>1, <1>2 DEF OneWorker
  <2>. QED  BY <1>0, <1>2, <2>1, SettledOne
<1>. HIDE DEF c
<1>4. row' = row  BY DEF Claim
<1>. QED  BY <1>0, <1>3, <1>4, OneStep DEF b

\* Collected: the list that is sent has all that the row records.
LEMMA OneCollected ==
    ASSUME PInv, Alone, IInv', NEW r \in Runs, NEW poi \in Pois, Collected(r, poi) PROVE PInv'
<1>. DEFINE b == run[r]
            c == Recorded(b, poi)
<1>0. /\ run' = [run EXCEPT ![r] = c] /\ poi \in b.running
      /\ RunOK(b, collected) /\ b \in RunRow /\ OneWorker(b, row.processed)
  BY CollectedRun DEF PInv, IInv, RunOK, Collected
<1>1. b.pc = "batch" /\ b.writes = {} /\ ~b.cancelled
  BY <1>0, OneThing DEF OneWorker, NoBatch, RunRow
<1>. HIDE DEF b
<1>2. /\ c.pc = "batch" /\ c.msg = b.msg /\ c.recorded = b.recorded \cup {poi}
      /\ c.writes = {Sent(b, poi)} /\ ~c.cancelled
  BY <1>0, <1>1 DEF Recorded, RunRow
<1>3. OneWorker(c, row.processed)
  <2>. HIDE DEF c
  <2>1. Sent(b, poi).ids = b.recorded \cup {poi}  BY DEF Sent
  <2>. QED  BY <1>0, <1>1, <1>2, <2>1 DEF OneWorker
<1>. HIDE DEF c
<1>4. row' = row  BY DEF Collected
<1>. QED  BY <1>0, <1>2, <1>3, <1>4, OneStep DEF b

\* The only worker's list has landed or is lost, and it goes on.
LEMMA OneLanded ==
    ASSUME PInv, Alone, NEW r \in Runs, NEW w \in run[r].writes, Written(r, w)
    PROVE  /\ run' = [run EXCEPT ![r] = Settled(Landed(run[r], w))]
           /\ \A processed \in {row.processed, w.ids} : OneWorker(Settled(Landed(run[r], w)), processed)
           /\ Settled(Landed(run[r], w)).msg = run[r].msg /\ run[r].msg # 0
<1>. DEFINE b == run[r]
            c == Landed(b, w)
<1>0. /\ run' = [run EXCEPT ![r] = Settled(c)] /\ RunOK(c, collected)
      /\ RunOK(b, collected) /\ b \in RunRow /\ OneWorker(b, row.processed) /\ w \in b.writes
  BY WrittenRun DEF PInv, IInv, RunOK
<1>1. b.pc = "batch" /\ b.writes = {w} /\ ~b.cancelled /\ b.msg # 0
  BY <1>0, OneThing DEF OneWorker, NoBatch, RunRow
<1>. HIDE DEF b
<1>2. /\ c.pc = "batch" /\ c.msg = b.msg /\ c.recorded = b.recorded /\ c.writes = {}
      /\ ~c.cancelled
  BY <1>0, <1>1 DEF Landed, RunRow
<1>3. ASSUME NEW processed \in {row.processed, w.ids}
      PROVE  OneWorker(Settled(c), processed) /\ Settled(c).msg = b.msg
  <2>. HIDE DEF c
  <2>1. processed \subseteq b.recorded  BY <1>0, <1>1 DEF OneWorker
  <2>. QED  BY <1>0, <1>1, <1>2, <2>1, SettledOne
<1>. HIDE DEF c
<1>. QED  BY <1>0, <1>1, <1>3 DEF b, c

\* Checkpoint: the row records more, and every other run is unused.
LEMMA OneCheckpoint ==
    ASSUME PInv, Alone, IInv', NEW r \in Runs, NEW w \in run[r].writes, Checkpoint(r, w)
    PROVE  PInv' /\ row.processed \subseteq row'.processed
<1>. DEFINE b == Settled(Landed(run[r], w))
<1>0. /\ run' = [run EXCEPT ![r] = b] /\ OneWorker(b, w.ids) /\ b.msg = run[r].msg
      /\ run[r].msg # 0
  BY OneLanded DEF Checkpoint
<1>. HIDE DEF b
<1>1. row'.processed = w.ids /\ row.processed \subseteq w.ids
  BY DEF Checkpoint, PInv, OneWorker, IInv, TypeOK
<1>2. \A q \in Runs : run'[q] = IF q = r THEN b ELSE run[q]  BY <1>0 DEF PInv, IInv, TypeOK
<1>3. OneAttended'  BY <1>0, <1>2 DEF PInv, OneAttended
<1>4. ASSUME NEW q \in Runs, q # r PROVE OneWorker(run[q], w.ids)
  BY <1>0, <1>4 DEF PInv, OneAttended, OneWorker, NoBatch
<1>5. \A q \in Runs : OneWorker(run'[q], w.ids)  BY <1>0, <1>2, <1>4
<1>. QED  BY <1>1, <1>3, <1>5 DEF PInv

\* CheckpointFails: the row keeps what it records.
LEMMA OneCheckpointFails ==
    ASSUME PInv, Alone, IInv', NEW r \in Runs, NEW w \in run[r].writes, CheckpointFails(r, w)
    PROVE  PInv'
<1>. DEFINE b == Settled(Landed(run[r], w))
<1>0. /\ run' = [run EXCEPT ![r] = b] /\ OneWorker(b, row.processed) /\ b.msg = run[r].msg
  BY OneLanded DEF CheckpointFails
<1>. HIDE DEF b
<1>. QED  BY <1>0, OneStep DEF CheckpointFails

\* The handler leaves: nothing is left of the run.
LEMMA OneLeave ==
    ASSUME PInv, IInv', NEW r \in Runs, Leave(r), run[r].pc \in {"return", "throw"}, UNCHANGED row
    PROVE  PInv'
<1>. DEFINE c == [run[r] EXCEPT !.pc = "over", !.msg = 0]
<1>0. run[r] \in RunRow /\ NoBatch(run[r])  BY DEF PInv, IInv, TypeOK, RunRow, OneWorker
<1>1. run' = [run EXCEPT ![r] = Settled(c)]  BY DEF Leave
<1>2. c \in RunRow /\ c.pc = "over" /\ NoBatch(c)  BY <1>0 DEF RunRow, Labels, NoBatch
<1>. HIDE DEF c
<1>3. Settled(c) = NoRun  BY <1>2, NothingBehind
<1>. QED  BY <1>1, <1>3, NoRunOne, OneStep DEF NoRun

\* Deliver: no other run has a message.
LEMMA OneDeliver == ASSUME PInv, IInv', NEW m \in Messages, NEW r \in Runs, Deliver(m, r) PROVE PInv'
<1>. DEFINE b == [NoRun EXCEPT !.pc = "read", !.msg = m]
<1>0. run' = [run EXCEPT ![r] = b] /\ \A q \in Runs : run[q].msg = 0  BY DEF Deliver, StartRun
<1>1. OneWorker(b, row.processed)  BY DEF OneWorker, NoRun, NoBatch, Messages
<1>. HIDE DEF b
<1>2. \A q \in Runs : run'[q] = IF q = r THEN b ELSE run[q]  BY <1>0 DEF PInv, IInv, TypeOK
<1>3. OneAttended'  BY <1>0, <1>2 DEF OneAttended
<1>4. \A q \in Runs : OneWorker(run'[q], row'.processed)  BY <1>1, <1>2 DEF PInv, Deliver
<1>. QED  BY <1>3, <1>4 DEF PInv

\* Steps that touch neither a run nor what the row records.
LEMMA OneRests ==
    ASSUME PInv, IInv', UNCHANGED run, row'.processed = row.processed PROVE PInv'
  BY DEF PInv, OneAttended

\* Every step keeps the invariant and what the row records.
LEMMA OneKeeps ==
    ASSUME PInv, Alone, [Next]_vars PROVE PInv' /\ row.processed \subseteq row'.processed
<1>0. IInv'  BY StepKeeps DEF PInv
<1>1. ASSUME NEW r \in Runs, HandlerStep(r) PROVE PInv' /\ row.processed \subseteq row'.processed
  <2>1. CASE ReadJob(r)  BY <1>0, <2>1, OneReadJob DEF ReadJob
  <2>2. CASE MarkNothingLeft(r) \/ MarkRunning(r) \/ MarkCompleted(r)
    <3>1. row'.processed = row.processed
      BY <2>2 DEF MarkNothingLeft, MarkRunning, MarkCompleted, SetStatus, PInv, IInv, TypeOK
    <3>. QED  BY <1>0, <2>2, <3>1, OneGoes DEF MarkNothingLeft, MarkRunning, MarkCompleted
  <2>3. CASE StartBatch(r)  BY <1>0, <2>3, OneStartBatch DEF StartBatch
  <2>4. CASE ReadStatus(r)  BY <1>0, <2>4, OneReadStatus DEF ReadStatus
  <2>5. ASSUME NEW poi \in Pois, Claim(r, poi) \/ Collected(r, poi)
        PROVE  PInv' /\ row.processed \subseteq row'.processed
    BY <1>0, <2>5, OneClaim, OneCollected DEF Claim, Collected
  <2>6. ASSUME NEW w \in run[r].writes, Checkpoint(r, w)
        PROVE  PInv' /\ row.processed \subseteq row'.processed
    BY <1>0, <2>6, OneCheckpoint
  <2>7. CASE MarkFailed(r)
    <3>1. row'.processed = row.processed
      BY <2>7 DEF MarkFailed, SetStatus, PInv, IInv, TypeOK
    <3>. QED  BY <1>0, <2>7, <3>1, OneGoes DEF MarkFailed
  <2>8. CASE Return(r) \/ Throw(r)  BY <1>0, <2>8, OneLeave DEF Return, Throw
  <2>. QED  BY <1>1, <2>1, <2>2, <2>3, <2>4, <2>5, <2>6, <2>7, <2>8 DEF HandlerStep
<1>2. ASSUME NEW r \in Runs, HandlerFails(r) PROVE PInv' /\ row.processed \subseteq row'.processed
  <2>1. CASE SetupFails(r)  BY <1>0, <2>1, OneGoes DEF SetupFails
  <2>2. CASE StatusReadFails(r)  BY <1>0, <2>2, OneStatusReadFails DEF StatusReadFails
  <2>3. ASSUME NEW w \in run[r].writes, CheckpointFails(r, w)
        PROVE  PInv' /\ row.processed \subseteq row'.processed
    BY <1>0, <2>3, OneCheckpointFails DEF CheckpointFails
  <2>4. CASE MarkCompletedFails(r)  BY <1>0, <2>4, OneGoes DEF MarkCompletedFails
  <2>. QED  BY <1>2, <2>1, <2>2, <2>3, <2>4 DEF HandlerFails
<1>3. CASE System
  <2>1. CASE Startup \/ \E m \in Messages : SubmitJob(m)
    <3>1. UNCHANGED run /\ row'.processed = row.processed
      BY <2>1 DEF Startup, FailAbandoned, StartScheduler, ResumeJobs, SubmitJob, PInv, IInv, TypeOK
    <3>. QED  BY <1>0, <3>1, OneRests
  <2>2. ASSUME NEW m \in Messages, NEW r \in Runs, Deliver(m, r)
        PROVE  PInv' /\ row.processed \subseteq row'.processed
    BY <1>0, <2>2, OneDeliver DEF Deliver
  <2>. QED  BY <1>3, <2>1, <2>2 DEF System
<1>4. CASE Environment
  <2>1. CASE CreateJob \/ SubmitFails \/ CancelJob \/ SchedulerFails \/ ResumeFails \/ GrowOld
    <3>1. UNCHANGED run /\ row'.processed = row.processed
      BY <2>1 DEF CreateJob, SubmitFails, CancelJob, SchedulerFails, ResumeFails, GrowOld, SetStatus,
                  PInv, IInv, TypeOK
    <3>. QED  BY <1>0, <3>1, OneRests
  <2>2. CASE \E r \in Runs : RunScheduled(r)  BY <2>2 DEF RunScheduled, Alone
  <2>3. CASE \E m \in Messages : Expire(m)  BY <2>3 DEF Expire, Alone, PInv, IInv, TypeOK
  <2>4. CASE Crash
    <3>1. \A q \in Runs : run'[q] = NoRun  BY <2>4 DEF Crash
    <3>2. row' = row  BY <2>4 DEF Crash
    <3>3. OneAttended' /\ \A q \in Runs : OneWorker(run'[q], row'.processed)
      BY <3>1, NoRunOne DEF OneAttended, NoRun
    <3>. QED  BY <1>0, <3>2, <3>3 DEF PInv
  <2>. QED  BY <1>4, <2>1, <2>2, <2>3, <2>4 DEF Environment
<1>5. CASE UNCHANGED vars  BY <1>0, <1>5, OneRests DEF vars
<1>. QED  BY <1>1, <1>2, <1>3, <1>4, <1>5 DEF Next

\* With one worker and no expiry, and no second handler from a scheduled pipeline, the
\* recorded progress of a job never shrinks, however many crashes, retries and
\* failed checkpoints it meets (newlyProcessedIds and safeCheckpoint).
THEOREM OneWorkerKeepsProgress ==
    ASSUME MaxConcurrency = 1, MaxExpiries = 0, "scheduled" \notin Sources
    PROVE  Spec => ProgressIsKept
<1>0. Alone  BY DEF Alone
<1>1. Init => PInv
  <2>1. SUFFICES ASSUME Init PROVE PInv  OBVIOUS
  <2>. QED  BY <2>1, InitHolds, NoRunOne DEF PInv, Init, OneAttended, NoRun
<1>2. PInv /\ [Next]_vars => PInv' /\ row.processed \subseteq row'.processed
  BY <1>0, OneKeeps
<1>3. PInv /\ [Next]_vars => PInv'  BY <1>2
<1>4. PInv /\ [Next]_vars => [row.processed \subseteq row'.processed]_vars  BY <1>2
<1>. QED  BY <1>1, <1>3, <1>4, PTL DEF Spec, ProgressIsKept

-----------------------------------------------------------------------------
(* Without an expiry, and with no more failures than retries, no startup   *)
(* leaves an open job to nobody.                                           *)

\* The startup goes on with a row that was old when it began.
Stale == server = "resume" /\ row.old

\* A run that pg-boss listens to has an active message, and one that is about to throw
\* had a failure no earlier try of the message had.  While the row is stale, no other run
\* lives, and one that returns or saw a cancellation has the row closed.
Fits(r) ==
    /\ run[r].msg # 0 => /\ run[r].pc \notin {"unused", "over"}
                         /\ message[run[r].msg].state = "active"
    /\ run[r].msg # 0 /\ run[r].pc \in {"fail", "throw"} =>
         message[run[r].msg].tries < faults.failures
    /\ run[r].cancelled => run[r].pc \notin Early
    /\ Stale /\ run[r].msg = 0 => run[r].pc \in {"unused", "over"}
    /\ Stale /\ run[r].msg # 0 /\ (run[r].cancelled \/ run[r].pc = "return") => ~Open

\* Somebody is still to work on the job: a message is on its way or delivered.
Waits == \E m \in Messages : message[m].state \in {"queued", "active"}

SInv ==
    /\ IInv /\ OneAttended
    /\ \A r \in Runs : Fits(r)
    /\ \A m \in Messages : message[m].tries <= faults.failures
    /\ row.old => row.status # "none"
    /\ server \in {"down", "boot"} => \A r \in Runs : run[r].pc = "unused"
    /\ server = "boot" => ~(Open /\ row.old)
    /\ Stale /\ Open => Waits

\* The limits of this section.
Prompt ==
    /\ MaxExpiries = 0 /\ MaxFailures <= RetryLimit
    /\ AgeDuringStartup = FALSE /\ "abandon" \notin MayFail /\ "resume" \notin MayFail

\* What the proofs need of the types.
LEMMA Typed ==
    ASSUME IInv
    PROVE  /\ run \in [Runs -> RunRow] /\ faults.failures \in Nat /\ faults.failures <= MaxFailures
           /\ \A m \in Messages : message[m].tries \in Nat /\ message[m].tries <= RetryLimit
           /\ \A r \in Runs : run[r].msg = 0 \/ run[r].msg \in Messages
           /\ 0 \notin Messages
  BY JobAssumption DEF IInv, TypeOK, RunRow, Messages

\* Where Settled takes a run: to the end of its batch, to its end, or nowhere.
LEMMA SettledGoes ==
    ASSUME NEW b \in RunRow, b.msg # 0 => b.pc # "over"
    PROVE  /\ Settled(b).msg = b.msg
           /\ \/ Settled(b).pc = b.pc /\ Settled(b).cancelled = b.cancelled
              \/ /\ b.pc = "batch" /\ Settled(b).cancelled = b.cancelled
                 /\ Settled(b).pc = IF b.cancelled THEN "return" ELSE "close"
              \/ b.pc = "over" /\ Settled(b).pc = "unused" /\ Settled(b).cancelled = FALSE
<1>. DEFINE c == Settled(b)
<1>1. \/ b.pc = "over" /\ c = NoRun
      \/ Stopped(b, c) /\ c.pc = b.pc
      \/ Stopped(b, c) /\ Ended(b) /\ c.pc = IF b.cancelled THEN "return" ELSE "close"
  BY SettledIs
<1>. HIDE DEF c
<1>2. CASE b.pc = "over" /\ c = NoRun
  <2>1. c.msg = 0 /\ c.pc = "unused" /\ c.cancelled = FALSE  BY <1>2 DEF NoRun
  <2>. QED  BY <1>2, <2>1 DEF c
<1>3. CASE Stopped(b, c) /\ c.pc = b.pc  BY <1>3 DEF Stopped, c
<1>4. CASE Stopped(b, c) /\ Ended(b) /\ c.pc = IF b.cancelled THEN "return" ELSE "close"
  BY <1>4 DEF Stopped, Ended, c
<1>. QED  BY <1>1, <1>2, <1>3, <1>4

\* A step of run r that keeps its message, opens nothing and leaves the run fitting.
LEMMA FitStep ==
    ASSUME SInv, IInv', NEW r \in Runs, NEW b, run' = [run EXCEPT ![r] = b],
           b.msg = run[r].msg, run[r].pc # "unused",
           UNCHANGED <<message, server>>, row'.old = row.old,
           row.status # "none" => row'.status # "none", Open' => Open,
           faults'.failures \in Nat, faults.failures <= faults'.failures, Fits(r)'
    PROVE  SInv'
<1>0. \A q \in Runs : run'[q] = IF q = r THEN b ELSE run[q]  BY Typed DEF SInv
<1>1. OneAttended'  BY <1>0 DEF SInv, OneAttended
<1>2. Stale' <=> Stale  BY DEF Stale
<1>3. ASSUME NEW q \in Runs, q # r PROVE Fits(q)'
  <2>1. run'[q] = run[q] /\ Fits(q)  BY <1>0, <1>3 DEF SInv
  <2>2. run[q].msg # 0 => message[run[q].msg].tries \in Nat  BY Typed DEF SInv
  <2>. QED  BY <1>2, <2>1, <2>2, Typed DEF SInv, Fits
<1>4. \A m \in Messages : message'[m].tries <= faults'.failures  BY Typed DEF SInv
<1>5. server \notin {"down", "boot"}  BY DEF SInv
<1>6. Stale' /\ Open' => Waits'  BY <1>2 DEF SInv, Waits
<1>. QED  BY <1>1, <1>3, <1>4, <1>5, <1>6 DEF SInv

\* A failing query is counted.
LEMMA FailsMore ==
    ASSUME IInv, NEW point, Fails(point)
    PROVE  faults'.failures \in Nat /\ faults'.failures = faults.failures + 1
           /\ faults'.failures > faults.failures
  BY Typed DEF IInv, TypeOK, Fails

\* A step that only moves the label of run r, outside its batch.
LEMMA FitGoes ==
    ASSUME SInv, IInv', NEW r \in Runs, NEW label, Goto(r, label),
           run[r].pc \notin {"unused", "over", "batch"}, label \notin {"unused", "over"},
           UNCHANGED <<message, server>>, row'.old = row.old,
           row.status # "none" => row'.status # "none", Open' => Open,
           label = "return" => ~Open', label \in Early => run[r].pc \in Early,
           faults'.failures \in Nat, faults.failures <= faults'.failures,
           label \in {"fail", "throw"} =>
               run[r].pc \in {"fail", "throw"} \/ faults.failures < faults'.failures
    PROVE  SInv'
<1>. DEFINE b == [run[r] EXCEPT !.pc = label]
<1>0. run \in [Runs -> RunRow] /\ Fits(r) /\ run[r] \in RunRow  BY Typed DEF SInv
<1>1. run' = [run EXCEPT ![r] = b]  BY <1>0 DEF Goto
<1>2. b.pc = label /\ b.msg = run[r].msg /\ b.cancelled = run[r].cancelled  BY <1>0 DEF RunRow
<1>. HIDE DEF b
<1>3. run'[r] = b  BY <1>0, <1>1
<1>4. Stale' <=> Stale  BY DEF Stale
<1>5. Fits(r)'
  <2>1. run[r].msg # 0 =>
          /\ message[run[r].msg].tries \in Nat /\ message[run[r].msg].tries <= faults.failures
    BY Typed DEF SInv
  <2>2. run[r].msg # 0 /\ label \in {"fail", "throw"} => message[run[r].msg].tries < faults'.failures
    BY <1>0, <2>1, Typed DEF Fits, SInv
  <2>3. run[r].msg # 0 => message[run[r].msg].state = "active"  BY <1>0 DEF Fits
  <2>4. run[r].cancelled => label \notin Early  BY <1>0 DEF Fits
  <2>5. Stale => run[r].msg # 0  BY <1>0 DEF Fits
  <2>6. Stale /\ (run[r].cancelled \/ label = "return") => ~Open'  BY <1>0, <2>5 DEF Fits
  <2>. QED  BY <1>2, <1>3, <1>4, <2>2, <2>3, <2>4, <2>5, <2>6 DEF Fits
<1>. QED  BY <1>1, <1>2, <1>5, FitStep

\* A step of run r on its batch: the run may end it, and nothing else changes.
LEMMA FitSettles ==
    ASSUME SInv, IInv', NEW r \in Runs, NEW c \in RunRow, run' = [run EXCEPT ![r] = Settled(c)],
           c.pc = run[r].pc, c.msg = run[r].msg, run[r].pc # "unused",
           c.cancelled => /\ run[r].pc \notin Early
                          /\ run[r].cancelled \/ ~Open,
           UNCHANGED <<message, server>>, row'.old = row.old, row'.status = row.status,
           faults'.failures \in Nat, faults.failures <= faults'.failures
    PROVE  SInv'
<1>. DEFINE d == Settled(c)
<1>0. run \in [Runs -> RunRow] /\ Fits(r)  BY Typed DEF SInv
<1>1. c.msg # 0 => c.pc # "over"  BY <1>0 DEF Fits
<1>2. /\ d.msg = c.msg
      /\ \/ d.pc = c.pc /\ d.cancelled = c.cancelled
         \/ /\ c.pc = "batch" /\ d.cancelled = c.cancelled
            /\ d.pc = IF c.cancelled THEN "return" ELSE "close"
         \/ c.pc = "over" /\ d.pc = "unused" /\ d.cancelled = FALSE
  BY <1>1, SettledGoes
<1>3. run' = [run EXCEPT ![r] = d]  OBVIOUS
<1>. HIDE DEF d
<1>4. run'[r] = d  BY <1>0, <1>3
<1>5. (Stale' <=> Stale) /\ (Open' <=> Open)  BY DEF Stale, Open
<1>6. Fits(r)'
  <2>1. run[r].msg # 0 =>
          /\ run[r].pc \notin {"unused", "over"} /\ message[run[r].msg].state = "active"
          /\ message[run[r].msg].tries \in Nat
          /\ run[r].pc \in {"fail", "throw"} => message[run[r].msg].tries < faults.failures
    BY <1>0, Typed DEF SInv, Fits
  <2>2. Stale /\ run[r].msg = 0 => run[r].pc \in {"unused", "over"}  BY <1>0 DEF Fits
  <2>3. Stale /\ run[r].msg # 0 /\ (run[r].cancelled \/ run[r].pc = "return") => ~Open
    BY <1>0 DEF Fits
  <2>4. faults.failures \in Nat  BY Typed DEF SInv
  <2>5. CASE d.pc = c.pc /\ d.cancelled = c.cancelled
    <3>1. d.cancelled => d.pc \notin Early  BY <2>5
    <3>2. Stale /\ run[r].msg # 0 /\ (d.cancelled \/ d.pc = "return") => ~Open  BY <2>3, <2>5
    <3>. QED
      BY <1>2, <1>4, <1>5, <2>1, <2>2, <2>4, <2>5, <3>1, <3>2 DEF Fits
  <2>6. CASE /\ c.pc = "batch" /\ d.cancelled = c.cancelled
             /\ d.pc = IF c.cancelled THEN "return" ELSE "close"
    <3>1. d.pc \in {"return", "close"} /\ d.pc \notin Early  BY <2>6 DEF Early
    <3>2. d.cancelled \/ d.pc = "return" => c.cancelled  BY <2>6
    <3>3. Stale /\ run[r].msg # 0 /\ (d.cancelled \/ d.pc = "return") => ~Open  BY <2>3, <3>2
    <3>4. ~(Stale /\ run[r].msg = 0)  BY <2>2, <2>6
    <3>. QED  BY <1>2, <1>4, <1>5, <2>1, <3>1, <3>3, <3>4 DEF Fits
  <2>7. CASE c.pc = "over" /\ d.pc = "unused" /\ d.cancelled = FALSE
    <3>1. d.msg = 0  BY <1>2, <2>1, <2>7
    <3>. QED  BY <1>4, <2>7, <3>1 DEF Fits
  <2>. QED  BY <1>2, <2>5, <2>6, <2>7
<1>. QED  BY <1>2, <1>3, <1>5, <1>6, FitStep DEF SInv

\* A run with work to do has a label.
LEMMA HasLabel ==
    ASSUME IInv, NEW r \in Runs, ~NoBatch(run[r]) PROVE run[r].pc \notin Early
  BY DEF IInv, RunOK, Bounded

\* ReadJob keeps the invariant.
LEMMA FitReadJob == ASSUME SInv, IInv', NEW r \in Runs, ReadJob(r) PROVE SInv'
<1>. DEFINE todo == Pois \ row.processed
            label == IF todo = {} THEN "nothing" ELSE "start"
            b == [run[r] EXCEPT !.pc = label, !.todo = todo, !.recorded = row.processed]
<1>0. /\ run \in [Runs -> RunRow] /\ run[r].pc = "read" /\ run[r] \in RunRow
      /\ label \in {"nothing", "start"} /\ Fits(r) /\ faults.failures \in Nat
      /\ UNCHANGED <<row, message, server, faults>>
  BY Typed DEF SInv, ReadJob
<1>1. run' = [run EXCEPT ![r] = b]  BY <1>0 DEF ReadJob
<1>2. b.pc = label /\ b.msg = run[r].msg /\ b.cancelled = run[r].cancelled
  <2>. HIDE DEF label, todo
  <2>. QED  BY <1>0 DEF RunRow
<1>. HIDE DEF b, label
<1>3. run'[r] = b  BY <1>0, <1>1
<1>4. (Stale' <=> Stale) /\ (Open' <=> Open)  BY <1>0 DEF Stale, Open
<1>5. Fits(r)'
  <2>1. ~run[r].cancelled  BY <1>0 DEF Fits, Early
  <2>2. ~b.cancelled  BY <1>2, <2>1
  <2>. QED  BY <1>0, <1>2, <1>3, <1>4, <2>2 DEF Fits
<1>6. /\ row'.old = row.old /\ row'.status = row.status /\ run[r].pc # "unused"
      /\ faults'.failures \in Nat /\ faults.failures <= faults'.failures
      /\ UNCHANGED <<message, server>>
  BY <1>0
<1>. QED  BY <1>1, <1>2, <1>4, <1>5, <1>6, FitStep

\* StartBatch keeps the invariant.
LEMMA FitStartBatch == ASSUME SInv, IInv', NEW r \in Runs, StartBatch(r) PROVE SInv'
<1>. DEFINE size == Cardinality(run[r].todo)
            idle == IF size < MaxConcurrency THEN size ELSE MaxConcurrency
            b == [run[r] EXCEPT !.pc = "batch", !.idle = idle]
<1>0. /\ run \in [Runs -> RunRow] /\ run[r].pc = "prepare" /\ run[r] \in RunRow
      /\ Fits(r) /\ faults.failures \in Nat /\ UNCHANGED <<row, message, server, faults>>
  BY Typed DEF SInv, StartBatch
<1>1. run' = [run EXCEPT ![r] = b]  BY <1>0 DEF StartBatch
<1>2. b.pc = "batch" /\ b.msg = run[r].msg /\ b.cancelled = run[r].cancelled
  <2>. HIDE DEF idle
  <2>. QED  BY <1>0 DEF RunRow
<1>. HIDE DEF b
<1>3. run'[r] = b  BY <1>0, <1>1
<1>4. (Stale' <=> Stale) /\ (Open' <=> Open)  BY <1>0 DEF Stale, Open
<1>5. Fits(r)'
  <2>1. ~run[r].cancelled  BY <1>0 DEF Fits, Early
  <2>2. ~b.cancelled  BY <1>2, <2>1
  <2>. QED  BY <1>0, <1>2, <1>3, <1>4, <2>2 DEF Fits
<1>6. /\ row'.old = row.old /\ row'.status = row.status /\ run[r].pc # "unused"
      /\ faults'.failures \in Nat /\ faults.failures <= faults'.failures
      /\ UNCHANGED <<message, server>>
  BY <1>0
<1>. QED  BY <1>1, <1>2, <1>4, <1>5, <1>6, FitStep

\* MarkRunning keeps the invariant: the run that opens a stale job has a message.
LEMMA FitMarkRunning == ASSUME SInv, IInv', NEW r \in Runs, MarkRunning(r) PROVE SInv'
<1>. DEFINE b == [run[r] EXCEPT !.pc = "prepare"]
<1>0. /\ run \in [Runs -> RunRow] /\ run[r].pc = "start" /\ run[r] \in RunRow /\ Fits(r)
      /\ UNCHANGED <<message, server, faults>>
      /\ row' = [row EXCEPT !.status = "running"]
      /\ row \in [status : Statuses, processed : SUBSET Pois, old : BOOLEAN]
  BY Typed DEF SInv, IInv, TypeOK, MarkRunning, SetStatus
<1>1. run' = [run EXCEPT ![r] = b]  BY <1>0 DEF MarkRunning, Goto
<1>2. b.pc = "prepare" /\ b.msg = run[r].msg /\ b.cancelled = run[r].cancelled  BY <1>0 DEF RunRow
<1>. HIDE DEF b
<1>3. row'.old = row.old /\ row'.status = "running"  BY <1>0
<1>4. \A q \in Runs : run'[q] = IF q = r THEN b ELSE run[q]  BY <1>0, <1>1
<1>5. Stale' <=> Stale  BY <1>0, <1>3 DEF Stale
<1>6. ~b.cancelled
  <2>1. ~run[r].cancelled  BY <1>0 DEF Fits, Early
  <2>. QED  BY <1>2, <2>1
<1>7. Fits(r)'  BY <1>0, <1>2, <1>4, <1>5, <1>6 DEF Fits
<1>8. ASSUME NEW q \in Runs, q # r PROVE Fits(q)'
  <2>1. run'[q] = run[q] /\ Fits(q)  BY <1>4, <1>8 DEF SInv
  <2>2. Stale => run[r].msg # 0  BY <1>0 DEF Fits
  <2>3. Stale => run[q].msg = 0  BY <1>8, <2>2 DEF SInv, OneAttended
  <2>. QED  BY <1>0, <1>5, <2>1, <2>3 DEF Fits
<1>9. OneAttended'  BY <1>2, <1>4 DEF SInv, OneAttended
<1>10. Stale => Waits'
  <2>1. Stale => run[r].msg # 0  BY <1>0 DEF Fits
  <2>2. Stale => run[r].msg \in Messages /\ message[run[r].msg].state = "active"
    BY <1>0, <2>1, Typed DEF Fits, SInv
  <2>. QED  BY <1>0, <2>2 DEF Waits
<1>11. server \notin {"down", "boot"}  BY <1>0 DEF SInv
<1>. QED  BY <1>0, <1>3, <1>5, <1>7, <1>8, <1>9, <1>10, <1>11 DEF SInv

\* ReadStatus keeps the invariant: who sees a cancellation sees a closed row.
LEMMA FitReadStatus == ASSUME SInv, IInv', NEW r \in Runs, ReadStatus(r) PROVE SInv'
<1>. DEFINE c == Looked(run[r])
<1>0. /\ run' = [run EXCEPT ![r] = Settled(c)] /\ c \in RunRow /\ run[r] \in RunRow
      /\ run[r].idle > 0 /\ faults.failures \in Nat /\ Fits(r)
      /\ UNCHANGED <<row, message, server, faults>>
  BY ReadStatusRun, Typed DEF SInv, RunOK, ReadStatus
<1>1. run[r].pc \notin Early  BY <1>0, HasLabel DEF SInv, NoBatch
<1>2. c.pc = run[r].pc /\ c.msg = run[r].msg  BY <1>0 DEF Looked, RunRow
<1>3. c.cancelled => run[r].cancelled \/ ~Open
  <2>1. CASE row.status = "cancelled"  BY <2>1 DEF Open
  <2>2. CASE row.status # "cancelled"
    <3>1. c.cancelled = run[r].cancelled  BY <1>0, <2>2 DEF Looked, RunRow
    <3>. QED  BY <3>1
  <2>. QED  BY <2>1, <2>2
<1>4. /\ row'.old = row.old /\ row'.status = row.status
      /\ faults'.failures \in Nat /\ faults.failures <= faults'.failures
      /\ UNCHANGED <<message, server>>
  BY <1>0
<1>5. run[r].pc # "unused"  BY <1>1 DEF Early
<1>. HIDE DEF c
<1>. QED  BY <1>0, <1>1, <1>2, <1>3, <1>4, <1>5, FitSettles

\* Claim keeps the invariant.
LEMMA FitClaim == ASSUME SInv, IInv', NEW r \in Runs, NEW poi \in Pois, Claim(r, poi) PROVE SInv'
<1>. DEFINE c == Claimed(run[r], poi)
<1>0. /\ run' = [run EXCEPT ![r] = Settled(c)] /\ c \in RunRow /\ run[r] \in RunRow
      /\ run[r].permits > 0 /\ faults.failures \in Nat
      /\ UNCHANGED <<row, message, server, faults>>
  BY ClaimRun, Typed DEF SInv, RunOK, Claim
<1>1. run[r].pc \notin Early  BY <1>0, HasLabel DEF SInv, NoBatch
<1>2. c.pc = run[r].pc /\ c.msg = run[r].msg /\ c.cancelled = run[r].cancelled
  BY <1>0 DEF Claimed, RunRow
<1>3. /\ row'.old = row.old /\ row'.status = row.status
      /\ faults'.failures \in Nat /\ faults.failures <= faults'.failures
      /\ UNCHANGED <<message, server>>
  BY <1>0
<1>4. run[r].pc # "unused"  BY <1>1 DEF Early
<1>. HIDE DEF c
<1>. QED  BY <1>0, <1>1, <1>2, <1>3, <1>4, FitSettles

\* A checkpoint that lands or is lost keeps the invariant.
LEMMA FitWritten ==
    ASSUME SInv, IInv', NEW r \in Runs, NEW w \in run[r].writes, Written(r, w),
           UNCHANGED <<message, server>>, row'.old = row.old, row'.status = row.status,
           faults'.failures \in Nat, faults.failures <= faults'.failures
    PROVE  SInv'
<1>. DEFINE c == Landed(run[r], w)
<1>0. run' = [run EXCEPT ![r] = Settled(c)] /\ c \in RunRow /\ run[r] \in RunRow
  BY WrittenRun, Typed DEF SInv, RunOK
<1>1. run[r].pc \notin Early  BY <1>0, HasLabel DEF SInv, NoBatch
<1>2. c.pc = run[r].pc /\ c.msg = run[r].msg /\ c.cancelled = run[r].cancelled
  BY <1>0 DEF Landed, RunRow
<1>. HIDE DEF c
<1>. QED  BY <1>0, <1>1, <1>2, FitSettles DEF Early

\* A step of run r inside its batch that leaves it in its batch.
LEMMA FitWorks ==
    ASSUME SInv, IInv', NEW r \in Runs, NEW b, run' = [run EXCEPT ![r] = b],
           b.pc = run[r].pc, b.msg = run[r].msg, b.cancelled = run[r].cancelled,
           ~NoBatch(run[r]), UNCHANGED <<row, message, server>>,
           faults'.failures \in Nat, faults.failures <= faults'.failures
    PROVE  SInv'
<1>0. run \in [Runs -> RunRow] /\ Fits(r) /\ run[r].pc # "unused"
  BY Typed, HasLabel DEF SInv, Early
<1>1. run'[r] = b  BY <1>0
<1>2. (Stale' <=> Stale) /\ (Open' <=> Open)  BY DEF Stale, Open
<1>3. run[r].msg # 0 => message[run[r].msg].tries \in Nat  BY Typed DEF SInv
<1>4. faults.failures \in Nat  BY Typed DEF SInv
<1>5. Fits(r)'  BY <1>0, <1>1, <1>2, <1>3, <1>4 DEF Fits
<1>. QED  BY <1>0, <1>2, <1>5, FitStep

\* Collected keeps the invariant.
LEMMA FitCollected ==
    ASSUME SInv, IInv', NEW r \in Runs, NEW poi \in Pois, Collected(r, poi) PROVE SInv'
<1>. DEFINE b == Recorded(run[r], poi)
<1>0. /\ run' = [run EXCEPT ![r] = b] /\ run[r] \in RunRow /\ faults.failures \in Nat
      /\ poi \in run[r].running /\ UNCHANGED <<row, message, server, faults>>
  BY CollectedRun, Typed DEF SInv, Collected
<1>1. b.pc = run[r].pc /\ b.msg = run[r].msg /\ b.cancelled = run[r].cancelled
  BY <1>0 DEF Recorded, RunRow
<1>2. UNCHANGED <<row, message, server>> /\ faults' = faults /\ ~NoBatch(run[r])
  BY <1>0 DEF NoBatch
<1>3. faults'.failures \in Nat /\ faults.failures <= faults'.failures  BY <1>0, <1>2
<1>. HIDE DEF b
<1>. QED  BY <1>0, <1>1, <1>2, <1>3, FitWorks

\* StatusReadFails keeps the invariant.
LEMMA FitStatusReadFails == ASSUME SInv, IInv', NEW r \in Runs, StatusReadFails(r) PROVE SInv'
<1>. DEFINE b == [run[r] EXCEPT !.idle = @ - 1]
<1>0. /\ run \in [Runs -> RunRow] /\ run[r] \in RunRow /\ run[r].idle > 0
      /\ UNCHANGED <<row, message, server>>
  BY Typed DEF SInv, StatusReadFails
<1>1. run' = [run EXCEPT ![r] = b]  BY <1>0 DEF StatusReadFails
<1>2. b.pc = run[r].pc /\ b.msg = run[r].msg /\ b.cancelled = run[r].cancelled  BY <1>0 DEF RunRow
<1>. HIDE DEF b
<1>3. faults'.failures \in Nat /\ faults.failures <= faults'.failures
  BY FailsMore, Typed DEF SInv, StatusReadFails
<1>4. ~NoBatch(run[r])  BY <1>0 DEF NoBatch
<1>. QED  BY <1>0, <1>1, <1>2, <1>3, <1>4, FitWorks

\* The labels before and after a batch keep the invariant.
LEMMA FitLabels ==
    ASSUME SInv, IInv', NEW r \in Runs,
           MarkNothingLeft(r) \/ MarkCompleted(r) \/ SetupFails(r) \/ MarkCompletedFails(r) \/ MarkFailed(r)
    PROVE  SInv'
<1>0. row \in [status : Statuses, processed : SUBSET Pois, old : BOOLEAN] /\ faults.failures \in Nat
  BY Typed DEF SInv, IInv, TypeOK
<1>1. ASSUME NEW status \in {"completed", "failed"}, SetStatus(status)
      PROVE  row'.old = row.old /\ row'.status # "none" /\ ~Open'
  BY <1>0, <1>1 DEF SetStatus, Open
<1>2. ASSUME UNCHANGED row PROVE row'.old = row.old /\ row'.status = row.status /\ (Open' <=> Open)
  BY <1>2 DEF Open
<1>3. ASSUME UNCHANGED faults PROVE faults'.failures \in Nat /\ faults.failures <= faults'.failures
  BY <1>0, <1>3
<1>4. ASSUME NEW point, Fails(point)
      PROVE  faults'.failures \in Nat /\ faults.failures < faults'.failures
             /\ faults.failures <= faults'.failures
  BY <1>0, <1>4, FailsMore DEF SInv
<1>5. CASE MarkNothingLeft(r) \/ MarkCompleted(r)
  <2>1. /\ run[r].pc \in {"nothing", "close"} /\ Goto(r, "return") /\ SetStatus("completed")
        /\ UNCHANGED <<message, server>> /\ UNCHANGED faults
    BY <1>5 DEF MarkNothingLeft, MarkCompleted
  <2>2. row'.old = row.old /\ row'.status # "none" /\ ~Open'  BY <1>1, <2>1
  <2>3. faults'.failures \in Nat /\ faults.failures <= faults'.failures  BY <1>3, <2>1
  <2>. QED  BY <2>1, <2>2, <2>3, FitGoes DEF Early
<1>6. CASE SetupFails(r)
  <2>1. /\ run[r].pc \in {"read", "nothing", "start", "prepare"} /\ Goto(r, "throw")
        /\ UNCHANGED <<message, server>> /\ UNCHANGED row /\ Fails("setup")
    BY <1>6 DEF SetupFails
  <2>2. row'.old = row.old /\ row'.status = row.status /\ (Open' <=> Open)  BY <1>2, <2>1
  <2>3. /\ faults'.failures \in Nat /\ faults.failures < faults'.failures
        /\ faults.failures <= faults'.failures
    BY <1>4, <2>1
  <2>. QED  BY <2>1, <2>2, <2>3, FitGoes DEF Early
<1>7. CASE MarkCompletedFails(r)
  <2>1. /\ run[r].pc = "close" /\ Goto(r, "fail")
        /\ UNCHANGED <<message, server>> /\ UNCHANGED row /\ Fails("close")
    BY <1>7 DEF MarkCompletedFails
  <2>2. row'.old = row.old /\ row'.status = row.status /\ (Open' <=> Open)  BY <1>2, <2>1
  <2>3. /\ faults'.failures \in Nat /\ faults.failures < faults'.failures
        /\ faults.failures <= faults'.failures
    BY <1>4, <2>1
  <2>. QED  BY <2>1, <2>2, <2>3, FitGoes DEF Early
<1>8. CASE MarkFailed(r)
  <2>1. run[r].pc = "fail" /\ Goto(r, "throw") /\ UNCHANGED <<message, server>>  BY <1>8 DEF MarkFailed
  <2>2. CASE SetStatus("failed") /\ UNCHANGED faults
    <3>1. row'.old = row.old /\ row'.status # "none" /\ ~Open'  BY <1>1, <2>2
    <3>2. faults'.failures \in Nat /\ faults.failures <= faults'.failures  BY <1>3, <2>2
    <3>. QED  BY <2>1, <3>1, <3>2, FitGoes DEF Early
  <2>3. CASE Fails("close") /\ UNCHANGED row
    <3>1. row'.old = row.old /\ row'.status = row.status /\ (Open' <=> Open)  BY <1>2, <2>3
    <3>2. /\ faults'.failures \in Nat /\ faults.failures <= faults'.failures
      BY <1>4, <2>3
    <3>. QED  BY <2>1, <3>1, <3>2, FitGoes DEF Early
  <2>. QED  BY <1>8, <2>2, <2>3 DEF MarkFailed
<1>. QED  BY <1>5, <1>6, <1>7, <1>8

\* A handler that leaves keeps the invariant, as long as its message is queued again
\* whenever the row it leaves is stale and open.
LEMMA FitLeave ==
    ASSUME SInv, IInv', NEW r \in Runs, Leave(r), run[r].pc \in {"return", "throw"},
           \A m \in Messages : m # run[r].msg => message'[m] = message[m],
           \A m \in Messages : message'[m].tries <= faults.failures,
           Stale /\ Open /\ run[r].msg # 0 => message'[run[r].msg].state = "queued",
           UNCHANGED <<row, server, faults>>
    PROVE  SInv'
<1>. DEFINE c == [run[r] EXCEPT !.pc = "over", !.msg = 0]
            d == Settled(c)
<1>0. run \in [Runs -> RunRow] /\ run[r] \in RunRow /\ Fits(r)  BY Typed DEF SInv
<1>1. c \in RunRow /\ c.pc = "over" /\ c.msg = 0 /\ c.cancelled = run[r].cancelled
  BY <1>0 DEF RunRow, Labels
<1>2. run' = [run EXCEPT ![r] = d]  BY DEF Leave
<1>. HIDE DEF c
<1>3. d.msg = 0 /\ d.pc \in {"over", "unused"} /\ (d.pc = "over" \/ d.cancelled = FALSE)
  BY <1>1, SettledGoes
<1>. HIDE DEF d
<1>4. \A q \in Runs : run'[q] = IF q = r THEN d ELSE run[q]  BY <1>0, <1>2
<1>5. (Stale' <=> Stale) /\ (Open' <=> Open)  BY DEF Stale, Open
<1>6. OneAttended'  BY <1>3, <1>4 DEF SInv, OneAttended
<1>7. Fits(r)'
  <2>1. d.cancelled => d.pc \notin Early  BY <1>3 DEF Early
  <2>. QED  BY <1>3, <1>4, <2>1 DEF Fits
<1>8. ASSUME NEW q \in Runs, q # r PROVE Fits(q)'
  <2>1. run'[q] = run[q] /\ Fits(q)  BY <1>4, <1>8 DEF SInv
  <2>2. run[q].msg # 0 => run[q].msg \in Messages /\ run[q].msg # run[r].msg
    BY <1>8, Typed DEF SInv, OneAttended
  <2>3. run[q].msg # 0 => message'[run[q].msg] = message[run[q].msg]  BY <2>2
  <2>. QED  BY <1>5, <2>1, <2>3 DEF Fits
<1>9. Stale /\ Open => Waits'
  <2>1. Stale => run[r].msg # 0  BY <1>0 DEF Fits
  <2>2. run[r].msg # 0 => run[r].msg \in Messages  BY Typed DEF SInv
  <2>. QED  BY <2>1, <2>2 DEF Waits
<1>10. server \notin {"down", "boot"}  BY DEF SInv
<1>. QED  BY <1>5, <1>6, <1>7, <1>8, <1>9, <1>10 DEF SInv

\* Return keeps the invariant: the row is closed by then.
LEMMA FitReturn == ASSUME SInv, IInv', NEW r \in Runs, Return(r) PROVE SInv'
<1>0. /\ Leave(r) /\ run[r].pc = "return" /\ UNCHANGED <<row, server, faults>> /\ Fits(r)
      /\ message' = IF run[r].msg = 0 THEN message
                    ELSE [message EXCEPT ![run[r].msg].state = "over"]
  BY DEF Return, SInv
<1>1. ~(Stale /\ Open /\ run[r].msg # 0)  BY <1>0 DEF Fits
<1>2. \A m \in Messages : m # run[r].msg => message'[m] = message[m]
  BY <1>0 DEF SInv, IInv, TypeOK
<1>3. \A m \in Messages : message'[m].tries = message[m].tries
  BY <1>0 DEF SInv, IInv, TypeOK
<1>4. \A m \in Messages : message'[m].tries <= faults.failures  BY <1>3 DEF SInv
<1>. QED  BY <1>0, <1>1, <1>2, <1>4, FitLeave

\* Throw keeps the invariant: the message has a try left, for fewer tries than queries failed.
LEMMA FitThrow == ASSUME SInv, Prompt, IInv', NEW r \in Runs, Throw(r) PROVE SInv'
<1>0. /\ Leave(r) /\ run[r].pc = "throw" /\ UNCHANGED <<row, server, faults>> /\ Fits(r)
      /\ IF run[r].msg = 0 THEN UNCHANGED message ELSE GiveBack(run[r].msg)
  BY DEF Throw, SInv
<1>1. CASE run[r].msg = 0
  <2>1. message' = message  BY <1>0, <1>1
  <2>2. \A m \in Messages : message'[m].tries <= faults.failures  BY <2>1 DEF SInv
  <2>3. \A m \in Messages : m # run[r].msg => message'[m] = message[m]  BY <2>1
  <2>. QED  BY <1>0, <1>1, <2>2, <2>3, FitLeave
<1>2. CASE run[r].msg # 0
  <2>. DEFINE n == run[r].msg
  <2>0. n \in Messages /\ message[n].tries \in Nat /\ faults.failures \in Nat
        /\ faults.failures <= MaxFailures
    BY <1>2, Typed DEF SInv
  <2>1. message[n].tries < faults.failures  BY <1>0, <1>2 DEF Fits
  <2>2. message[n].tries < RetryLimit  BY <2>0, <2>1, JobAssumption DEF Prompt
  <2>3. message' = [message EXCEPT ![n] = [state |-> "queued", tries |-> message[n].tries + 1]]
    BY <1>0, <1>2, <2>2 DEF GiveBack
  <2>4. \A m \in Messages : message'[m] =
          IF m = n THEN [state |-> "queued", tries |-> message[n].tries + 1] ELSE message[m]
    BY <2>0, <2>3 DEF SInv, IInv, TypeOK
  <2>5. message'[n].state = "queued"  BY <2>0, <2>4
  <2>6. \A m \in Messages : message'[m].tries <= faults.failures
    BY <2>0, <2>1, <2>4 DEF SInv
  <2>. QED  BY <1>0, <2>4, <2>5, <2>6, FitLeave
<1>. QED  BY <1>1, <1>2

\* Deliver keeps the invariant: no other run has a message.
LEMMA FitDeliver == ASSUME SInv, IInv', NEW m \in Messages, NEW r \in Runs, Deliver(m, r) PROVE SInv'
<1>. DEFINE b == [NoRun EXCEPT !.pc = "read", !.msg = m]
<1>0. /\ run' = [run EXCEPT ![r] = b] /\ \A q \in Runs : run[q].msg = 0
      /\ message' = [message EXCEPT ![m].state = "active"]
      /\ UNCHANGED <<row, server, faults>> /\ server \in {"resume", "up"}
      /\ run \in [Runs -> RunRow] /\ m # 0
  BY Typed DEF Deliver, StartRun, SInv
<1>1. b.pc = "read" /\ b.msg = m /\ b.cancelled = FALSE  BY DEF NoRun
<1>. HIDE DEF b
<1>2. \A q \in Runs : run'[q] = IF q = r THEN b ELSE run[q]  BY <1>0
<1>3. /\ message'[m].state = "active" /\ \A n \in Messages : message'[n].tries = message[n].tries
  BY <1>0 DEF SInv, IInv, TypeOK
<1>4. (Stale' <=> Stale) /\ (Open' <=> Open)  BY <1>0 DEF Stale, Open
<1>5. OneAttended'  BY <1>0, <1>2 DEF OneAttended
<1>6. Fits(r)'  BY <1>0, <1>1, <1>2, <1>3 DEF Fits
<1>7. ASSUME NEW q \in Runs, q # r PROVE Fits(q)'
  <2>1. run'[q] = run[q] /\ run[q].msg = 0 /\ Fits(q)  BY <1>0, <1>2, <1>7 DEF SInv
  <2>. QED  BY <1>4, <2>1 DEF Fits
<1>8. Waits'  BY <1>3 DEF Waits
<1>9. \A n \in Messages : message'[n].tries <= faults'.failures  BY <1>0, <1>3 DEF SInv
<1>10. (row.old => row.status # "none")'  BY <1>0 DEF SInv
<1>11. server' \notin {"down", "boot"}  BY <1>0
<1>. QED  BY <1>5, <1>6, <1>7, <1>8, <1>9, <1>10, <1>11 DEF SInv

\* RunScheduled keeps the invariant: a job that is created is young.
LEMMA FitRunScheduled == ASSUME SInv, IInv', NEW r \in Runs, RunScheduled(r) PROVE SInv'
<1>. DEFINE b == [NoRun EXCEPT !.pc = "read", !.msg = 0]
<1>0. /\ run' = [run EXCEPT ![r] = b] /\ run[r].pc = "unused" /\ row.status = "none"
      /\ row' = [row EXCEPT !.status = "queued"]
      /\ row \in [status : Statuses, processed : SUBSET Pois, old : BOOLEAN]
      /\ UNCHANGED <<message, server, faults>> /\ server \in {"resume", "up"}
      /\ run \in [Runs -> RunRow]
  BY Typed DEF RunScheduled, StartRun, SetStatus, SInv, IInv, TypeOK
<1>1. b.pc = "read" /\ b.msg = 0 /\ b.cancelled = FALSE  BY DEF NoRun
<1>. HIDE DEF b
<1>2. \A q \in Runs : run'[q] = IF q = r THEN b ELSE run[q]  BY <1>0
<1>3. ~row.old /\ row'.old = row.old  BY <1>0 DEF SInv
<1>4. ~Stale' /\ ~row'.old  BY <1>3 DEF Stale
<1>5. OneAttended'  BY <1>1, <1>2 DEF OneAttended, SInv
<1>6. Fits(r)'  BY <1>1, <1>2, <1>4 DEF Fits
<1>7. ASSUME NEW q \in Runs, q # r PROVE Fits(q)'
  <2>1. run'[q] = run[q] /\ Fits(q)  BY <1>2, <1>7 DEF SInv
  <2>. QED  BY <1>0, <1>4, <2>1 DEF Fits
<1>8. \A n \in Messages : message'[n].tries <= faults'.failures  BY <1>0 DEF SInv
<1>9. server' \notin {"down", "boot"}  BY <1>0
<1>. QED  BY <1>4, <1>5, <1>6, <1>7, <1>8, <1>9 DEF SInv

\* Crash keeps the invariant: no run is left.
LEMMA FitCrash == ASSUME SInv, IInv', Crash PROVE SInv'
<1>0. /\ server' = "down" /\ \A q \in Runs : run'[q] = NoRun
      /\ UNCHANGED <<row, message>> /\ faults'.failures = faults.failures
  BY DEF Crash, SInv, IInv, TypeOK
<1>1. NoRun.pc = "unused" /\ NoRun.msg = 0 /\ NoRun.cancelled = FALSE  BY DEF NoRun
<1>2. ~Stale'  BY <1>0 DEF Stale
<1>3. \A q \in Runs : Fits(q)'  BY <1>0, <1>1, <1>2 DEF Fits
<1>4. OneAttended'  BY <1>0, <1>1 DEF OneAttended
<1>5. (row.old => row.status # "none")' /\ \A m \in Messages : message'[m].tries <= faults'.failures
  BY <1>0 DEF SInv
<1>6. \A q \in Runs : run'[q].pc = "unused"  BY <1>0, <1>1
<1>. QED  BY <1>0, <1>2, <1>3, <1>4, <1>5, <1>6 DEF SInv

\* A step that touches no run and no message in hand keeps the invariant, when the row
\* is stale after it only if it was stale and as open before.
LEMMA FitRests ==
    ASSUME SInv, IInv', UNCHANGED run,
           \A m \in Messages : message[m].state = "active" => message'[m] = message[m],
           \A m \in Messages : message'[m].tries = message[m].tries,
           faults'.failures \in Nat, faults.failures <= faults'.failures,
           Stale' => Stale /\ (Open' => Open), Stale' /\ Open' => Waits',
           row'.old => row'.status # "none",
           server' \in {"down", "boot"} => server \in {"down", "boot"},
           server' = "boot" => ~(Open' /\ row'.old)
    PROVE  SInv'
<1>1. OneAttended'  BY DEF SInv, OneAttended
<1>2. ASSUME NEW q \in Runs PROVE Fits(q)'
  <2>1. run'[q] = run[q] /\ Fits(q)  BY DEF SInv
  <2>2. run[q].msg # 0 => run[q].msg \in Messages /\ message[run[q].msg].tries \in Nat
    BY Typed DEF SInv
  <2>3. run[q].msg # 0 => message[run[q].msg].state = "active"  BY <2>1 DEF Fits
  <2>4. run[q].msg # 0 => message'[run[q].msg] = message[run[q].msg]  BY <2>2, <2>3
  <2>5. faults.failures \in Nat  BY Typed DEF SInv
  <2>. QED  BY <2>1, <2>2, <2>4, <2>5 DEF Fits
<1>3. ASSUME NEW m \in Messages PROVE message'[m].tries <= faults'.failures
  <2>1. message[m].tries \in Nat /\ message[m].tries <= faults.failures /\ faults.failures \in Nat
    BY Typed DEF SInv
  <2>. QED  BY <2>1
<1>4. server' \in {"down", "boot"} => \A r \in Runs : run'[r].pc = "unused"  BY DEF SInv
<1>. QED  BY <1>1, <1>2, <1>3, <1>4 DEF SInv

\* Sending a message leaves the others, and somebody waits.
LEMMA SendAdds ==
    ASSUME IInv, NEW m \in Messages, Send(m)
    PROVE  /\ \A n \in Messages : message[n].state = "active" => message'[n] = message[n]
           /\ \A n \in Messages : message'[n].tries = message[n].tries
           /\ message'[m].state = "queued"
<1>1. message[m].state = "none" /\ message' = [message EXCEPT ![m].state = "queued"]
  BY DEF Send, Messages
<1>. QED  BY <1>1 DEF IInv, TypeOK

\* The requests keep the invariant.
LEMMA FitRequests ==
    ASSUME SInv, IInv',
           CreateJob \/ CancelJob \/ SubmitFails \/ \E m \in Messages : SubmitJob(m)
    PROVE  SInv'
<1>0. /\ row \in [status : Statuses, processed : SUBSET Pois, old : BOOLEAN]
      /\ faults.failures \in Nat /\ server' = server /\ UNCHANGED run
      /\ server \in {"up", "degraded"}
  BY Typed DEF SInv, IInv, TypeOK, CreateJob, CancelJob, SubmitFails, SubmitJob
<1>1. ~Stale' /\ server' \notin {"down", "boot"}  BY <1>0 DEF Stale
<1>2. CASE CreateJob \/ CancelJob
  <2>1. row'.old = row.old /\ row'.status # "none" /\ message' = message /\ faults' = faults
    BY <1>0, <1>2 DEF CreateJob, CancelJob, SetStatus
  <2>. QED  BY <1>0, <1>1, <2>1, FitRests
<1>3. CASE SubmitFails
  <2>1. row' = row /\ message' = message  BY <1>3 DEF SubmitFails
  <2>2. row'.old => row'.status # "none"  BY <2>1 DEF SInv
  <2>3. faults'.failures \in Nat /\ faults.failures <= faults'.failures
    <3>1. CASE server = "degraded"  BY <1>0, <1>3, <3>1 DEF SubmitFails
    <3>2. CASE server # "degraded"
      <4>1. Fails("submit")  BY <1>3, <3>2 DEF SubmitFails
      <4>. QED  BY <1>0, <4>1, FailsMore DEF SInv
    <3>. QED  BY <3>1, <3>2
  <2>. QED  BY <1>0, <1>1, <2>1, <2>2, <2>3, FitRests
<1>4. ASSUME NEW m \in Messages, SubmitJob(m) PROVE SInv'
  <2>1. row' = row /\ faults' = faults /\ Send(m)  BY <1>4 DEF SubmitJob
  <2>2. row'.old => row'.status # "none"  BY <2>1 DEF SInv
  <2>3. faults'.failures \in Nat /\ faults.failures <= faults'.failures  BY <1>0, <2>1
  <2>4. /\ \A n \in Messages : message[n].state = "active" => message'[n] = message[n]
        /\ \A n \in Messages : message'[n].tries = message[n].tries
    BY <2>1, SendAdds DEF SInv
  <2>. QED  BY <1>0, <1>1, <2>2, <2>3, <2>4, FitRests
<1>. QED  BY <1>2, <1>3, <1>4

\* The startup keeps the invariant: what it finds old it closes, and what grows old
\* later it does not see as old.
LEMMA FitStartup ==
    ASSUME SInv, Prompt, IInv',
           FailAbandoned \/ StartScheduler \/ SchedulerFails \/ ResumeJobs \/ GrowOld
    PROVE  SInv'
<1>0. /\ row \in [status : Statuses, processed : SUBSET Pois, old : BOOLEAN]
      /\ faults.failures \in Nat /\ UNCHANGED run
  BY Typed DEF SInv, IInv, TypeOK, FailAbandoned, StartScheduler, SchedulerFails, ResumeJobs, GrowOld
<1>1. CASE FailAbandoned
  <2>1. ~Fails("abandon")  BY DEF Prompt, Fails
  <2>2. /\ server = "down" /\ server' = "boot" /\ message' = message /\ faults' = faults
        /\ row' = IF Open /\ row.old THEN [row EXCEPT !.status = "failed"] ELSE row
    BY <1>1, <2>1 DEF FailAbandoned
  <2>3. ~Stale'  BY <2>2 DEF Stale
  <2>4. (row'.old => row'.status # "none") /\ ~(Open' /\ row'.old)
    <3>1. CASE Open /\ row.old
      <4>1. row'.status = "failed"  BY <1>0, <2>2, <3>1
      <4>. QED  BY <4>1 DEF Open
    <3>2. CASE ~(Open /\ row.old)
      <4>1. row' = row  BY <2>2, <3>2
      <4>2. row.old => row.status # "none"  BY DEF SInv
      <4>. QED  BY <3>2, <4>1, <4>2 DEF Open
    <3>. QED  BY <3>1, <3>2
  <2>. QED  BY <1>0, <2>2, <2>3, <2>4, FitRests
<1>2. CASE StartScheduler \/ SchedulerFails
  <2>1. /\ server = "boot" /\ server' \in {"resume", "degraded"} /\ message' = message /\ row' = row
        /\ faults'.failures \in Nat /\ faults.failures <= faults'.failures
    <3>1. CASE StartScheduler  BY <1>0, <3>1 DEF StartScheduler
    <3>2. CASE SchedulerFails
      <4>1. Fails("scheduler")  BY <3>2 DEF SchedulerFails
      <4>2. faults'.failures \in Nat /\ faults.failures <= faults'.failures
        BY <1>0, <4>1, FailsMore DEF SInv
      <4>. QED  BY <3>2, <4>2 DEF SchedulerFails
    <3>. QED  BY <1>2, <3>1, <3>2
  <2>2. row.old => row.status # "none" /\ ~Open  BY <2>1 DEF SInv
  <2>3. \A q \in Runs : run'[q].pc = "unused" /\ Fits(q)  BY <1>0, <2>1 DEF SInv
  <2>4. Stale' => ~Open'  BY <2>1, <2>2 DEF Stale, Open
  <2>5. ASSUME NEW q \in Runs PROVE Fits(q)'
    <3>1. run'[q] = run[q] /\ run[q].pc = "unused" /\ Fits(q)  BY <1>0, <2>3
    <3>2. run[q].msg = 0 /\ ~run[q].cancelled  BY <3>1 DEF Fits, Early
    <3>. QED  BY <3>1, <3>2 DEF Fits
  <2>6. OneAttended'  BY <1>0 DEF SInv, OneAttended
  <2>7. \A m \in Messages : message'[m].tries <= faults'.failures
    <3>1. \A m \in Messages : message[m].tries \in Nat /\ message[m].tries <= faults.failures
      BY Typed DEF SInv
    <3>. QED  BY <1>0, <2>1, <3>1
  <2>8. (row.old => row.status # "none")'  BY <2>1, <2>2
  <2>. QED  BY <2>1, <2>4, <2>5, <2>6, <2>7, <2>8 DEF SInv
<1>3. CASE ResumeJobs
  <2>1. server' = "up" /\ row' = row /\ faults' = faults  BY <1>3 DEF ResumeJobs
  <2>2. /\ \A n \in Messages : message[n].state = "active" => message'[n] = message[n]
        /\ \A n \in Messages : message'[n].tries = message[n].tries
    <3>1. CASE \E m \in Messages : Send(m)  BY <3>1, SendAdds DEF SInv
    <3>2. CASE UNCHANGED message  BY <3>2
    <3>. QED  BY <1>3, <3>1, <3>2 DEF ResumeJobs
  <2>3. ~Stale'  BY <2>1 DEF Stale
  <2>4. row'.old => row'.status # "none"  BY <2>1 DEF SInv
  <2>. QED  BY <1>0, <2>1, <2>2, <2>3, <2>4, FitRests
<1>4. CASE GrowOld
  <2>1. /\ server \notin {"boot", "resume"} /\ row.status # "none" /\ server' = server
        /\ message' = message /\ faults' = faults /\ row'.status = row.status
    BY <1>0, <1>4 DEF GrowOld, Prompt
  <2>2. ~Stale'  BY <2>1 DEF Stale
  <2>. QED  BY <1>0, <2>1, <2>2, FitRests
<1>. QED  BY <1>1, <1>2, <1>3, <1>4

\* Every step keeps the invariant.
LEMMA FitKeeps == ASSUME SInv, Prompt, [Next]_vars PROVE SInv'
<1>0. IInv' /\ faults.failures \in Nat  BY StepKeeps, Typed DEF SInv
<1>1. ASSUME NEW r \in Runs, HandlerStep(r) PROVE SInv'
  <2>1. ASSUME NEW w \in run[r].writes, Checkpoint(r, w) PROVE SInv'
    <3>1. row'.old = row.old /\ row'.status = row.status
      BY <2>1 DEF Checkpoint, SInv, IInv, TypeOK
    <3>2. /\ Written(r, w) /\ UNCHANGED <<message, server>>
          /\ faults'.failures \in Nat /\ faults.failures <= faults'.failures
      BY <1>0, <2>1 DEF Checkpoint
    <3>. QED  BY <1>0, <3>1, <3>2, FitWritten
  <2>. QED
    BY <1>0, <1>1, <2>1, FitReadJob, FitLabels, FitMarkRunning, FitStartBatch, FitReadStatus,
       FitClaim, FitCollected, FitReturn, FitThrow
       DEF HandlerStep
<1>2. ASSUME NEW r \in Runs, HandlerFails(r) PROVE SInv'
  <2>1. ASSUME NEW w \in run[r].writes, CheckpointFails(r, w) PROVE SInv'
    <3>1. faults'.failures \in Nat /\ faults.failures <= faults'.failures
      BY <1>0, <2>1, FailsMore DEF SInv, CheckpointFails
    <3>2. /\ Written(r, w) /\ UNCHANGED <<message, server>>
          /\ row'.old = row.old /\ row'.status = row.status
      BY <2>1 DEF CheckpointFails
    <3>. QED  BY <1>0, <3>1, <3>2, FitWritten
  <2>. QED  BY <1>0, <1>2, <2>1, FitLabels, FitStatusReadFails DEF HandlerFails
<1>3. CASE System
  BY <1>0, <1>3, FitStartup, FitRequests, FitDeliver DEF System, Startup
<1>4. CASE Environment
  <2>1. ASSUME NEW m \in Messages, Expire(m) PROVE FALSE
    BY <2>1 DEF Expire, Prompt, SInv, IInv, TypeOK
  <2>2. ~ResumeFails  BY DEF ResumeFails, Fails, Prompt
  <2>. QED
    BY <1>0, <1>4, <2>1, <2>2, FitStartup, FitRequests, FitRunScheduled, FitCrash DEF Environment
<1>5. CASE UNCHANGED vars
  <2>1. UNCHANGED <<row, message, run, server, faults>>  BY <1>5 DEF vars
  <2>2. (Stale' <=> Stale) /\ (Open' <=> Open) /\ (Waits' <=> Waits)  BY <2>1 DEF Stale, Open, Waits
  <2>3. /\ row.old => row.status # "none"
        /\ server = "boot" => ~(Open /\ row.old)
        /\ Stale /\ Open => Waits
    BY DEF SInv
  <2>. QED  BY <1>0, <2>1, <2>2, <2>3, FitRests
<1>. QED  BY <1>1, <1>2, <1>3, <1>4, <1>5 DEF Next

\* Only ResumeJobs ends a startup, and then somebody works on an open job.
LEMMA ResumeDrives ==
    ASSUME SInv, Prompt, [Next]_vars, server' # server, server' = "up", Open' PROVE Driven'
<1>0. ~ResumeFails  BY DEF ResumeFails, Fails, Prompt
<1>1. ResumeJobs
  BY <1>0 DEF vars, Next, HandlerStep, ReadJob, MarkNothingLeft, MarkRunning, StartBatch, ReadStatus,
         Claim, Collected, Checkpoint, MarkCompleted, MarkFailed, Return, Throw, HandlerFails,
         SetupFails, StatusReadFails, CheckpointFails, MarkCompletedFails, System, Startup,
         FailAbandoned, StartScheduler, SubmitJob, Deliver, Environment, CreateJob, SubmitFails,
         RunScheduled, CancelJob, Expire, Crash, SchedulerFails, GrowOld
<1>2. row' = row /\ server = "resume" /\ Open  BY <1>1 DEF ResumeJobs, Open
<1>3. CASE row.old
  <2>1. Waits  BY <1>2, <1>3 DEF SInv, Stale
  <2>2. message' = message  BY <1>1, <1>3 DEF ResumeJobs
  <2>. QED  BY <2>1, <2>2 DEF Waits, Driven
<1>4. CASE ~row.old
  <2>1. PICK m \in Messages : Send(m)  BY <1>1, <1>2, <1>4 DEF ResumeJobs
  <2>2. message'[m].state = "queued"  BY <2>1, SendAdds DEF SInv
  <2>. QED  BY <2>2 DEF Driven
<1>. QED  BY <1>3, <1>4

\* No startup leaves an open job to nobody, as long as no delivery expires, no more queries
\* fail than a message has retries, neither failAbandonedJobs nor the resume fails, and no
\* job turns an hour old while the server starts (failAbandonedJobs and findIncompleteJobs
\* of newsService.js, called by start() of server.js).
THEOREM StartupIsComplete ==
    ASSUME MaxExpiries = 0, MaxFailures <= RetryLimit, AgeDuringStartup = FALSE,
           "abandon" \notin MayFail, "resume" \notin MayFail
    PROVE  Spec => StartupLeavesNoOrphan
<1>0. Prompt  BY DEF Prompt
<1>1. Init => SInv
  <2>1. SUFFICES ASSUME Init PROVE SInv  OBVIOUS
  <2>2. IInv  BY <2>1, InitHolds
  <2>3. \A r \in Runs : run[r].pc = "unused" /\ run[r].msg = 0 /\ run[r].cancelled = FALSE
    BY <2>1 DEF Init, NoRun
  <2>4. ~Stale /\ ~row.old /\ server = "up"  BY <2>1 DEF Init, Stale
  <2>5. \A r \in Runs : Fits(r)  BY <2>3, <2>4 DEF Fits
  <2>6. \A m \in Messages : message[m].tries <= faults.failures  BY <2>1 DEF Init
  <2>7. OneAttended  BY <2>3 DEF OneAttended
  <2>. QED  BY <2>2, <2>4, <2>5, <2>6, <2>7 DEF SInv
<1>2. SInv /\ [Next]_vars => SInv'  BY <1>0, FitKeeps
<1>3. SInv /\ [Next]_vars => [server' = "up" => (Open' => Driven')]_server  BY <1>0, ResumeDrives
<1>. QED  BY <1>1, <1>2, <1>3, PTL DEF Spec, StartupLeavesNoOrphan

-----------------------------------------------------------------------------
(* Whatever the limits, an open job that is left to nobody has a cause.    *)

\* A run that minds the job closes it, or throws; the others saw a cancellation or have
\* closed it.
AtWork == {"read", "nothing", "start", "prepare", "batch", "close", "fail", "throw"}
Minds(r) == run[r].pc \in AtWork /\ ~run[r].cancelled
Queued == \E m \in Messages : message[m].state = "queued"
Minded == Queued \/ \E r \in Runs : Minds(r)

\* The two causes, as OrphanHasCause has them.
TurnedOld == row.old /\ faults.crashes > 0 /\ (AgeDuringStartup \/ faults.failures > 0)
Unsent == \A m \in Messages : message[m].state = "none"
TriedOut == \E m \in Messages : message[m] = [state |-> "over", tries |-> RetryLimit]
\* A message whose run ended with the process that crashed: only an expiry brings it back.
Stranded == \E m \in Messages : message[m].state = "active" /\ \A r \in Runs : run[r].msg # m
Excused == request = "none" \/ faults.expiries > 0
Lost == faults.failures > 0 /\ (Unsent \/ TriedOut \/ Stranded \/ Excused)

\* The startup will not look for the job any more.
Settling == (server = "up" /\ request # "created") \/ (server \in {"boot", "resume"} /\ row.old)

\* A run that pg-boss listens to has an active message, and one without was scheduled or
\* has outlived its delivery; only failures end in the catch block; and only a batch has
\* idle workers and finds out about a cancellation.
Sound(r) ==
    /\ run[r].msg # 0 => /\ run[r].pc \notin {"unused", "over"}
                         /\ message[run[r].msg].state = "active"
    /\ run[r].pc \notin {"unused", "over"} /\ run[r].msg = 0 => request = "none" \/ faults.expiries > 0
    /\ run[r].pc \in {"fail", "throw"} => faults.failures > 0
    /\ run[r].cancelled => run[r].pc \in {"batch", "return", "over"}
    /\ run[r].idle > 0 => run[r].pc = "batch"

\* Before its row is inserted nothing is there of the job, and before the answer no message.
Unborn ==
    /\ row.status = "none" => /\ ~row.old /\ request = "none" /\ Unsent
                              /\ \A r \in Runs : run[r].pc = "unused"
    /\ request = "created" => server \in {"up", "degraded"} /\ Unsent

\* A run that closed the job, or saw it closed, leaves it closed: only a run without a
\* message, or one whose message was given to another, is there to open it again.
Attentive ==
    \A r \in Runs :
      run[r].pc = "return" \/ (run[r].cancelled /\ run[r].pc # "over") => ~Open \/ Excused

\* An open job has a message, unless it never had one, or that was tried out.
Pending == \E m \in Messages : message[m].state \in {"queued", "active"}
Traced == Open => Excused \/ Unsent \/ TriedOut \/ Pending

OInv ==
    /\ IInv /\ OneAttended /\ Unborn /\ Attentive /\ Traced
    /\ \A r \in Runs : Sound(r)
    /\ server # "up" => faults.crashes > 0
    /\ server \in {"down", "boot"} => \A r \in Runs : run[r].pc = "unused"
    /\ Settling /\ Open => Minded \/ TurnedOld \/ Lost

\* Faults are counted, and never forgotten.
MoreFaults ==
    /\ faults.crashes <= faults'.crashes /\ faults.expiries <= faults'.expiries
    /\ faults.failures <= faults'.failures
LEMMA FaultTypes ==
    ASSUME IInv PROVE {faults.crashes, faults.expiries, faults.failures} \subseteq Nat
  BY JobAssumption DEF IInv, TypeOK
LEMMA MoreFails ==
    ASSUME IInv, NEW point, Fails(point) PROVE MoreFaults /\ faults'.failures > 0
<1>1. /\ faults'.crashes = faults.crashes /\ faults'.expiries = faults.expiries
      /\ faults'.failures = faults.failures + 1
  BY DEF Fails, IInv, TypeOK
<1>. QED  BY <1>1, FaultTypes DEF MoreFaults
LEMMA SameFaults == ASSUME IInv, UNCHANGED faults PROVE MoreFaults
  BY FaultTypes DEF MoreFaults

\* A cause stays one.
LEMMA CauseStays ==
    ASSUME IInv, IInv', MoreFaults, row.old => row'.old, request = "none" => request' = "none",
           TriedOut => TriedOut', Unsent => Unsent',
           Stranded => Stranded' \/ faults'.expiries > 0, TurnedOld \/ Lost
    PROVE  TurnedOld' \/ Lost'
<1>1. {faults'.crashes, faults'.expiries, faults'.failures} \subseteq Nat
  BY JobAssumption DEF IInv, TypeOK
<1>2. /\ faults.crashes > 0 => faults'.crashes > 0
      /\ faults.expiries > 0 => faults'.expiries > 0
      /\ faults.failures > 0 => faults'.failures > 0
  BY <1>1, FaultTypes DEF MoreFaults
<1>3. TurnedOld => TurnedOld'  BY <1>2 DEF TurnedOld
<1>4. Lost => Lost'  BY <1>2 DEF Lost, Excused
<1>. QED  BY <1>3, <1>4

\* An excuse stays one.
LEMMA ExcuseStays ==
    ASSUME IInv, IInv', MoreFaults, request = "none" => request' = "none", Excused PROVE Excused'
<1>1. {faults.expiries, faults'.expiries} \subseteq Nat  BY JobAssumption DEF IInv, TypeOK
<1>. QED  BY <1>1 DEF MoreFaults, Excused

\* A run that a step leaves alone is as sound as before.
LEMMA SoundStays ==
    ASSUME IInv, IInv', MoreFaults, NEW q \in Runs, Sound(q), run'[q] = run[q],
           run[q].msg # 0 => message'[run[q].msg].state = message[run[q].msg].state,
           run[q].pc # "unused" /\ request = "none" => request' = "none"
    PROVE  Sound(q)'
<1>1. {faults'.crashes, faults'.expiries, faults'.failures} \subseteq Nat
  BY JobAssumption DEF IInv, TypeOK
<1>2. /\ faults.expiries > 0 => faults'.expiries > 0
      /\ faults.failures > 0 => faults'.failures > 0
  BY <1>1, FaultTypes DEF MoreFaults
<1>. QED  BY <1>2 DEF Sound

\* A step of run r that keeps its message: as long as the job is open, the run minds it,
\* or it did not mind it before.
LEMMA SoundStep ==
    ASSUME OInv, IInv', MoreFaults, NEW r \in Runs, NEW b, run' = [run EXCEPT ![r] = b],
           b.msg = run[r].msg, run[r].pc # "unused",
           UNCHANGED <<message, server, request>>, row'.old = row.old, row'.status # "none",
           Sound(r)', run[r].pc = "over" => b.pc \in {"over", "unused"},
           Open' => (b.pc \in AtWork /\ ~b.cancelled) \/ (Open /\ ~Minds(r))
    PROVE  OInv'
<1>0. \A q \in Runs : run'[q] = IF q = r THEN b ELSE run[q]  BY Typed DEF OInv
<1>1. OneAttended'  BY <1>0 DEF OInv, OneAttended
<1>2. (Unsent' <=> Unsent) /\ (TriedOut' <=> TriedOut) /\ (Queued' <=> Queued)
  BY DEF Unsent, TriedOut, Queued
<1>8. Stranded => Stranded'
  <2>1. \A q \in Runs : run'[q].msg = run[q].msg  BY <1>0
  <2>. QED  BY <2>1 DEF Stranded
<1>3. Unborn'  BY <1>2 DEF OInv, Unborn
<1>4. \A q \in Runs : Sound(q)'
  <2>. SUFFICES ASSUME NEW q \in Runs, q # r PROVE Sound(q)'  OBVIOUS
  <2>. QED  BY <1>0, SoundStays DEF OInv
<1>5. server' # "up" => faults'.crashes > 0
  <2>1. {faults.crashes, faults'.crashes} \subseteq Nat  BY JobAssumption DEF OInv, IInv, TypeOK
  <2>. QED  BY <2>1 DEF OInv, MoreFaults
<1>6. server' \notin {"down", "boot"}  BY DEF OInv
<1>7. ASSUME Settling', Open' PROVE Minded' \/ TurnedOld' \/ Lost'
  <2>1. CASE b.pc \in AtWork /\ ~b.cancelled
    <3>1. Minds(r)'  BY <1>0, <2>1 DEF Minds
    <3>. QED  BY <3>1 DEF Minded
  <2>2. CASE Open /\ ~Minds(r)
    <3>1. Settling  BY <1>7 DEF Settling
    <3>2. Minded \/ TurnedOld \/ Lost  BY <2>2, <3>1 DEF OInv
    <3>3. ASSUME NEW q \in Runs, Minds(q) PROVE Minds(q)'  BY <1>0, <2>2, <3>3 DEF Minds
    <3>4. Minded => Minded'  BY <1>2, <3>3 DEF Minded
    <3>5. TurnedOld \/ Lost => TurnedOld' \/ Lost'  BY <1>2, <1>8, CauseStays DEF OInv
    <3>. QED  BY <3>2, <3>4, <3>5
  <2>. QED  BY <1>7, <2>1, <2>2
<1>9. Excused => Excused'  BY ExcuseStays DEF OInv
<1>10. Attentive'
  <2>. SUFFICES ASSUME NEW q \in Runs, Open',
                       run'[q].pc = "return" \/ (run'[q].cancelled /\ run'[q].pc # "over")
                PROVE  Excused'
    BY DEF Attentive
  <2>1. CASE q = r
    <3>1. Open /\ ~Minds(r)  BY <1>0, <2>1 DEF AtWork
    <3>2. run[r].pc # "over"  BY <1>0, <2>1, Typed DEF OInv, Sound
    <3>3. run[r].pc = "return" \/ run[r].cancelled
      BY <3>1, <3>2, Typed DEF OInv, RunRow, Labels, Minds, AtWork
    <3>. QED  BY <1>9, <3>1, <3>2, <3>3 DEF OInv, Attentive
  <2>2. CASE q # r /\ Open  BY <1>0, <1>9, <2>2 DEF OInv, Attentive
  <2>3. CASE q # r /\ ~Open
    <3>1. b.pc \in AtWork  BY <2>3
    <3>2. run'[r].pc \notin {"unused", "over"}  BY <1>0, <3>1 DEF AtWork
    <3>3. run'[q].pc \notin {"unused", "over"}  BY <1>4 DEF Sound
    <3>4. /\ run'[q].msg # 0 => run'[r].msg = 0
          /\ run'[q].msg = 0 => Excused'
          /\ run'[r].msg = 0 => Excused'
      BY <1>1, <1>4, <2>3, <3>2, <3>3 DEF OneAttended, Sound, Excused
    <3>. QED  BY <3>4
  <2>. QED  BY <2>1, <2>2, <2>3
<1>11. Traced'
  <2>1. Pending' <=> Pending  BY DEF Pending
  <2>2. CASE Open  BY <1>2, <1>9, <2>1, <2>2 DEF OInv, Traced
  <2>3. CASE Open' /\ ~Open
    <3>1. b.pc \notin {"unused", "over"}  BY <2>3 DEF AtWork
    <3>2. run'[r].msg = 0 => Excused'  BY <1>0, <3>1 DEF Sound, Excused
    <3>3. run'[r].msg # 0 => Pending'
      <4>1. run'[r].msg # 0 => run'[r].msg \in Messages  BY DEF IInv, TypeOK
      <4>. QED  BY <4>1 DEF Sound, Pending
    <3>. QED  BY <3>2, <3>3 DEF Traced
  <2>. QED  BY <2>2, <2>3 DEF Traced
<1>. QED  BY <1>1, <1>3, <1>4, <1>5, <1>6, <1>7, <1>10, <1>11 DEF OInv
\* The label of run r moves, outside its batch.
LEMMA SoundGoes ==
    ASSUME OInv, IInv', MoreFaults, NEW r \in Runs, NEW b, run' = [run EXCEPT ![r] = b],
           b.msg = run[r].msg, b.cancelled = run[r].cancelled,
           run[r].pc \in AtWork \ {"batch"}, b.pc \in AtWork \cup {"return"}, b.pc = "return" => ~Open',
           b.idle > 0 => run[r].idle > 0 \/ b.pc = "batch",
           UNCHANGED <<message, server, request>>, row'.old = row.old, row'.status # "none",
           b.pc \in {"fail", "throw"} => faults'.failures > 0
    PROVE  OInv'
<1>0. run'[r] = b /\ Sound(r)  BY Typed DEF OInv
<1>1. ~run[r].cancelled /\ run[r].pc # "unused"  BY <1>0 DEF Sound, AtWork
<1>2. ~(run[r].idle > 0)  BY <1>0 DEF Sound
<1>3. faults.expiries > 0 => faults'.expiries > 0
  <2>1. {faults.expiries, faults'.expiries} \subseteq Nat  BY JobAssumption DEF OInv, IInv, TypeOK
  <2>. QED  BY <2>1 DEF MoreFaults
<1>4. Sound(r)'
  <2>1. run[r].msg = 0 => request = "none" \/ faults.expiries > 0  BY <1>0 DEF Sound, AtWork
  <2>2. run[r].msg # 0 => message[run[r].msg].state = "active"  BY <1>0 DEF Sound
  <2>. QED  BY <1>0, <1>1, <1>2, <1>3, <2>1, <2>2 DEF Sound, AtWork
<1>5. run[r].pc # "over"  BY DEF AtWork
<1>. QED  BY <1>1, <1>4, <1>5, SoundStep

\* ReadJob keeps the invariant.
LEMMA CauseReadJob == ASSUME OInv, IInv', NEW r \in Runs, ReadJob(r) PROVE OInv'
<1>. DEFINE todo == Pois \ row.processed
            label == IF todo = {} THEN "nothing" ELSE "start"
            b == [run[r] EXCEPT !.pc = label, !.todo = todo, !.recorded = row.processed]
<1>0. /\ run \in [Runs -> RunRow] /\ run[r].pc = "read" /\ run[r] \in RunRow
      /\ label \in {"nothing", "start"} /\ UNCHANGED <<row, message, server, request>>
      /\ UNCHANGED faults
  <2>1. run \in [Runs -> RunRow] /\ run[r] \in RunRow  BY Typed DEF OInv
  <2>. QED  BY <2>1 DEF ReadJob
<1>1. run' = [run EXCEPT ![r] = b]  BY <1>0 DEF ReadJob
<1>2. b.pc = label /\ b.msg = run[r].msg /\ b.cancelled = run[r].cancelled /\ b.idle = run[r].idle
  <2>. HIDE DEF label, todo
  <2>. QED  BY <1>0 DEF RunRow
<1>. HIDE DEF b, label
<1>3. row'.status # "none"  BY <1>0 DEF OInv, Unborn
<1>4. MoreFaults  BY <1>0, SameFaults DEF OInv
<1>. QED  BY <1>0, <1>1, <1>2, <1>3, <1>4, SoundGoes DEF AtWork

\* StartBatch keeps the invariant.
LEMMA CauseStartBatch == ASSUME OInv, IInv', NEW r \in Runs, StartBatch(r) PROVE OInv'
<1>. DEFINE size == Cardinality(run[r].todo)
            idle == IF size < MaxConcurrency THEN size ELSE MaxConcurrency
            b == [run[r] EXCEPT !.pc = "batch", !.idle = idle]
<1>0. /\ run \in [Runs -> RunRow] /\ run[r].pc = "prepare" /\ run[r] \in RunRow
      /\ UNCHANGED <<row, message, server, request>> /\ MoreFaults
  BY Typed, SameFaults DEF OInv, StartBatch
<1>1. run' = [run EXCEPT ![r] = b]  BY <1>0 DEF StartBatch
<1>2. b.pc = "batch" /\ b.msg = run[r].msg /\ b.cancelled = run[r].cancelled
  <2>. HIDE DEF idle
  <2>. QED  BY <1>0 DEF RunRow
<1>. HIDE DEF b
<1>3. row'.status # "none"  BY <1>0 DEF OInv, Unborn
<1>. QED  BY <1>0, <1>1, <1>2, <1>3, SoundGoes DEF AtWork

\* The labels before and after a batch keep the invariant.
LEMMA CauseLabels ==
    ASSUME OInv, IInv', NEW r \in Runs,
           \/ MarkNothingLeft(r) \/ MarkRunning(r) \/ MarkCompleted(r)
           \/ SetupFails(r) \/ MarkCompletedFails(r) \/ MarkFailed(r)
    PROVE  OInv'
<1>0. /\ row \in [status : Statuses, processed : SUBSET Pois, old : BOOLEAN]
      /\ run \in [Runs -> RunRow] /\ run[r] \in RunRow
  BY Typed DEF OInv, IInv, TypeOK
<1>1. ASSUME NEW status \in {"running", "completed", "failed"}, SetStatus(status)
      PROVE  row'.old = row.old /\ row'.status = status /\ row'.status # "none"
             /\ (status # "running" => ~Open')
  BY <1>0, <1>1 DEF SetStatus, Open
<1>2. ASSUME UNCHANGED row, run[r].pc # "unused" PROVE row'.old = row.old /\ row'.status # "none"
  BY <1>2 DEF OInv, Unborn
<1>3. ASSUME NEW label, Goto(r, label)
      PROVE  \E b : /\ run' = [run EXCEPT ![r] = b] /\ b.pc = label /\ b.msg = run[r].msg
                    /\ b.cancelled = run[r].cancelled /\ b.idle = run[r].idle
  <2>. DEFINE b == [run[r] EXCEPT !.pc = label]
  <2>1. run' = [run EXCEPT ![r] = b]  BY <1>0, <1>3 DEF Goto
  <2>2. b.pc = label /\ b.msg = run[r].msg /\ b.cancelled = run[r].cancelled /\ b.idle = run[r].idle
    BY <1>0 DEF RunRow
  <2>. HIDE DEF b
  <2>. QED  BY <2>1, <2>2
<1>4. ASSUME NEW point, Fails(point) PROVE MoreFaults /\ faults'.failures > 0
  BY <1>4, MoreFails DEF OInv
<1>5. UNCHANGED faults => MoreFaults  BY SameFaults DEF OInv
<1>6. CASE MarkNothingLeft(r) \/ MarkRunning(r) \/ MarkCompleted(r)
  <2>1. PICK label \in {"return", "prepare"} :
          /\ run[r].pc \in {"nothing", "start", "close"} /\ Goto(r, label)
          /\ SetStatus(IF label = "return" THEN "completed" ELSE "running")
          /\ UNCHANGED <<message, server, request>> /\ UNCHANGED faults
    BY <1>6 DEF MarkNothingLeft, MarkRunning, MarkCompleted
  <2>2. row'.old = row.old /\ row'.status # "none" /\ (label = "return" => ~Open')  BY <1>1, <2>1
  <2>3. PICK b : /\ run' = [run EXCEPT ![r] = b] /\ b.pc = label /\ b.msg = run[r].msg
                 /\ b.cancelled = run[r].cancelled /\ b.idle = run[r].idle
    BY <1>3, <2>1
  <2>. QED  BY <1>5, <2>1, <2>2, <2>3, SoundGoes DEF AtWork
<1>7. CASE SetupFails(r) \/ MarkCompletedFails(r)
  <2>1. PICK label \in {"throw", "fail"} :
          /\ run[r].pc \in {"read", "nothing", "start", "prepare", "close"} /\ Goto(r, label)
          /\ UNCHANGED <<message, server, request>> /\ UNCHANGED row
          /\ MoreFaults /\ faults'.failures > 0
    BY <1>4, <1>7 DEF SetupFails, MarkCompletedFails
  <2>2. row'.old = row.old /\ row'.status # "none"  BY <1>2, <2>1
  <2>3. PICK b : /\ run' = [run EXCEPT ![r] = b] /\ b.pc = label /\ b.msg = run[r].msg
                 /\ b.cancelled = run[r].cancelled /\ b.idle = run[r].idle
    BY <1>3, <2>1
  <2>. QED  BY <2>1, <2>2, <2>3, SoundGoes DEF AtWork
<1>8. CASE MarkFailed(r)
  <2>1. run[r].pc = "fail" /\ Goto(r, "throw") /\ UNCHANGED <<message, server, request>>
    BY <1>8 DEF MarkFailed
  <2>2. MoreFaults /\ faults'.failures > 0
    <3>1. CASE UNCHANGED faults
      <4>1. faults.failures > 0  BY <2>1 DEF OInv, Sound
      <4>. QED  BY <1>5, <3>1, <4>1
    <3>2. CASE Fails("close")  BY <1>4, <3>2
    <3>. QED  BY <1>8, <3>1, <3>2 DEF MarkFailed
  <2>3. row'.old = row.old /\ row'.status # "none"
    <3>1. CASE SetStatus("failed")  BY <1>1, <3>1
    <3>2. CASE UNCHANGED row  BY <1>2, <2>1, <3>2
    <3>. QED  BY <1>8, <3>1, <3>2 DEF MarkFailed
  <2>4. PICK b : /\ run' = [run EXCEPT ![r] = b] /\ b.pc = "throw" /\ b.msg = run[r].msg
                 /\ b.cancelled = run[r].cancelled /\ b.idle = run[r].idle
    BY <1>3, <2>1
  <2>. QED  BY <2>1, <2>2, <2>3, <2>4, SoundGoes DEF AtWork
<1>. QED  BY <1>6, <1>7, <1>8

\* A step of run r on its batch: it may end the batch, having collected everything or
\* found a closed row.
LEMMA CauseSettles ==
    ASSUME OInv, IInv', MoreFaults, NEW r \in Runs, NEW c \in RunRow,
           run' = [run EXCEPT ![r] = Settled(c)],
           c.pc = run[r].pc, c.msg = run[r].msg, run[r].pc \notin Early,
           c.idle > 0 => run[r].pc = "batch", c.cancelled => run[r].pc \in {"batch", "return", "over"},
           run[r].cancelled => c.cancelled, c.cancelled => run[r].cancelled \/ ~Open,
           UNCHANGED <<message, server, request>>, row'.old = row.old, row'.status = row.status
    PROVE  OInv'
<1>. DEFINE d == Settled(c)
<1>0. run \in [Runs -> RunRow] /\ Sound(r) /\ run[r].pc # "unused"  BY Typed DEF OInv, Early
<1>1. c.msg # 0 => c.pc # "over"  BY <1>0 DEF Sound
<1>2. /\ d.msg = c.msg
      /\ \/ d.pc = c.pc /\ d.cancelled = c.cancelled
         \/ /\ c.pc = "batch" /\ d.cancelled = c.cancelled
            /\ d.pc = IF c.cancelled THEN "return" ELSE "close"
         \/ c.pc = "over" /\ d.pc = "unused" /\ d.cancelled = FALSE
  BY <1>1, SettledGoes
<1>3. d.idle = 0 \/ (d.idle = c.idle /\ d.pc = c.pc)
  <2>1. CASE c.pc = "over" /\ d = NoRun  BY <2>1 DEF NoRun
  <2>2. CASE Stopped(c, d) /\ d.pc = c.pc  BY <2>2 DEF Stopped
  <2>3. CASE d.idle = 0  BY <2>3
  <2>. QED  BY <2>1, <2>2, <2>3, SettledIs
<1>4. run' = [run EXCEPT ![r] = d]  OBVIOUS
<1>. HIDE DEF d
<1>5. run'[r] = d /\ (Open' <=> Open)  BY <1>0, <1>4 DEF Open
<1>6. row'.status # "none"  BY <1>0 DEF OInv, Unborn
<1>7. /\ faults.expiries > 0 => faults'.expiries > 0
      /\ faults.failures > 0 => faults'.failures > 0
  <2>1. {faults.expiries, faults'.expiries, faults.failures, faults'.failures} \subseteq Nat
    BY JobAssumption DEF OInv, IInv, TypeOK
  <2>. QED  BY <2>1 DEF MoreFaults
<1>8. d.idle > 0 => d.pc = "batch"  BY <1>3
<1>9. Sound(r)'
  <2>1. /\ run[r].msg # 0 => run[r].pc # "over" /\ message[run[r].msg].state = "active"
        /\ run[r].pc # "over" /\ run[r].msg = 0 => request = "none" \/ faults.expiries > 0
        /\ run[r].pc \in {"fail", "throw"} => faults.failures > 0
    BY <1>0 DEF Sound
  <2>. QED  BY <1>0, <1>2, <1>5, <1>7, <1>8, <2>1 DEF Sound
<1>10. Open' => (d.pc \in AtWork /\ ~d.cancelled) \/ (Open /\ ~Minds(r))
  <2>. SUFFICES ASSUME Open, Minds(r) PROVE d.pc \in AtWork /\ ~d.cancelled  BY <1>5
  <2>. QED  BY <1>2 DEF Minds, AtWork
<1>11. run[r].pc = "over" => d.pc \in {"over", "unused"}  BY <1>2
<1>. QED  BY <1>0, <1>2, <1>4, <1>6, <1>9, <1>10, <1>11, SoundStep

\* Claims and checkpoints.
LEMMA CauseWorks ==
    ASSUME OInv, IInv', MoreFaults, NEW r \in Runs, NEW c \in RunRow,
           run' = [run EXCEPT ![r] = Settled(c)], ~NoBatch(run[r]),
           c.pc = run[r].pc, c.msg = run[r].msg, c.cancelled = run[r].cancelled,
           c.idle > 0 => run[r].idle > 0 \/ run[r].pc = "batch",
           UNCHANGED <<message, server, request>>, row'.old = row.old, row'.status = row.status
    PROVE  OInv'
<1>1. run[r].pc \notin Early /\ Sound(r)  BY HasLabel DEF OInv
<1>. QED  BY <1>1, CauseSettles DEF Sound

\* ReadStatus keeps the invariant: who sees a cancellation sees a closed row.
LEMMA CauseReadStatus == ASSUME OInv, IInv', NEW r \in Runs, ReadStatus(r) PROVE OInv'
<1>. DEFINE c == Looked(run[r])
<1>0. /\ run' = [run EXCEPT ![r] = Settled(c)] /\ c \in RunRow /\ run[r] \in RunRow
      /\ run[r].idle > 0 /\ UNCHANGED <<message, server, request>> /\ UNCHANGED row
      /\ UNCHANGED faults
  BY ReadStatusRun, Typed DEF OInv, RunOK, ReadStatus
<1>1. run[r].pc = "batch" /\ MoreFaults  BY <1>0, SameFaults DEF OInv, Sound
<1>2. c.pc = run[r].pc /\ c.msg = run[r].msg  BY <1>0 DEF Looked, RunRow
<1>3. (run[r].cancelled => c.cancelled) /\ (c.cancelled => run[r].cancelled \/ ~Open)
  <2>1. CASE row.status = "cancelled"
    <3>1. c.cancelled /\ ~Open  BY <1>0, <2>1 DEF Looked, Open, RunRow
    <3>. QED  BY <3>1
  <2>2. CASE row.status # "cancelled"
    <3>1. c.cancelled = run[r].cancelled  BY <1>0, <2>2 DEF Looked, RunRow
    <3>. QED  BY <3>1
  <2>. QED  BY <2>1, <2>2
<1>. HIDE DEF c
<1>. QED  BY <1>0, <1>1, <1>2, <1>3, CauseSettles DEF Early

\* Claim keeps the invariant.
LEMMA CauseClaim == ASSUME OInv, IInv', NEW r \in Runs, NEW poi \in Pois, Claim(r, poi) PROVE OInv'
<1>. DEFINE c == Claimed(run[r], poi)
<1>0. /\ run' = [run EXCEPT ![r] = Settled(c)] /\ c \in RunRow /\ run[r] \in RunRow
      /\ run[r].permits > 0 /\ UNCHANGED <<message, server, request>> /\ UNCHANGED row
      /\ UNCHANGED faults
  BY ClaimRun, Typed DEF OInv, RunOK, Claim
<1>1. ~NoBatch(run[r]) /\ MoreFaults  BY <1>0, SameFaults DEF OInv, NoBatch
<1>2. /\ c.pc = run[r].pc /\ c.msg = run[r].msg /\ c.cancelled = run[r].cancelled
      /\ c.idle = run[r].idle
  BY <1>0 DEF Claimed, RunRow
<1>. HIDE DEF c
<1>. QED  BY <1>0, <1>1, <1>2, CauseWorks

\* A checkpoint that lands or is lost keeps the invariant.
LEMMA CauseWritten ==
    ASSUME OInv, IInv', MoreFaults, NEW r \in Runs, NEW w \in run[r].writes, Written(r, w),
           UNCHANGED <<message, server, request>>, row'.old = row.old, row'.status = row.status
    PROVE  OInv'
<1>. DEFINE c == Landed(run[r], w)
<1>0. run' = [run EXCEPT ![r] = Settled(c)] /\ c \in RunRow /\ run[r] \in RunRow
  BY WrittenRun, Typed DEF OInv, RunOK
<1>1. ~NoBatch(run[r])  BY DEF NoBatch
<1>2. /\ c.pc = run[r].pc /\ c.msg = run[r].msg /\ c.cancelled = run[r].cancelled
      /\ c.idle = Rearmed(run[r])
  BY <1>0 DEF Landed, RunRow
<1>3. Rearmed(run[r]) = run[r].idle \/ run[r].pc = "batch"  BY DEF Rearmed
<1>. HIDE DEF c
<1>. QED  BY <1>0, <1>1, <1>2, <1>3, CauseWorks

\* A POI that is collected and a chain that is lost keep the invariant.
LEMMA CauseInside ==
    ASSUME OInv, IInv', NEW r \in Runs, StatusReadFails(r) \/ \E poi \in Pois : Collected(r, poi)
    PROVE  OInv'
<1>0. run \in [Runs -> RunRow] /\ run[r] \in RunRow /\ Sound(r)  BY Typed DEF OInv
<1>1. PICK b : /\ run' = [run EXCEPT ![r] = b] /\ ~NoBatch(run[r])
               /\ b.pc = run[r].pc /\ b.msg = run[r].msg /\ b.cancelled = run[r].cancelled
               /\ b.idle > 0 => run[r].idle > 0
  <2>1. CASE StatusReadFails(r)
    <3>. DEFINE b == [run[r] EXCEPT !.idle = @ - 1]
    <3>1. run' = [run EXCEPT ![r] = b] /\ run[r].idle > 0  BY <1>0, <2>1 DEF StatusReadFails
    <3>2. b.pc = run[r].pc /\ b.msg = run[r].msg /\ b.cancelled = run[r].cancelled
      BY <1>0 DEF RunRow
    <3>3. b.idle > 0 => run[r].idle > 0  BY <3>1
    <3>4. ~NoBatch(run[r])  BY <3>1 DEF NoBatch
    <3>. HIDE DEF b
    <3>. QED  BY <3>1, <3>2, <3>3, <3>4
  <2>2. ASSUME NEW poi \in Pois, Collected(r, poi)
        PROVE  \E b : /\ run' = [run EXCEPT ![r] = b] /\ ~NoBatch(run[r])
                      /\ b.pc = run[r].pc /\ b.msg = run[r].msg /\ b.cancelled = run[r].cancelled
                      /\ b.idle > 0 => run[r].idle > 0
    <3>. DEFINE b == Recorded(run[r], poi)
    <3>1. run' = [run EXCEPT ![r] = b] /\ poi \in run[r].running
      BY <2>2, CollectedRun DEF OInv, Collected
    <3>2. /\ b.pc = run[r].pc /\ b.msg = run[r].msg /\ b.cancelled = run[r].cancelled
          /\ b.idle = run[r].idle
      BY <1>0 DEF Recorded, RunRow
    <3>. HIDE DEF b
    <3>. QED  BY <3>1, <3>2 DEF NoBatch
  <2>. QED  BY <2>1, <2>2
<1>2. UNCHANGED <<message, server, request>> /\ UNCHANGED row /\ MoreFaults
  BY MoreFails, SameFaults DEF OInv, StatusReadFails, Collected
<1>3. run[r].pc \notin Early /\ run[r].pc # "unused"  BY <1>1, HasLabel DEF OInv, Early
<1>4. run'[r] = b /\ (Open' <=> Open) /\ row'.status # "none"
  BY <1>0, <1>1, <1>2, <1>3 DEF Open, OInv, Unborn
<1>5. /\ faults.expiries > 0 => faults'.expiries > 0
      /\ faults.failures > 0 => faults'.failures > 0
  <2>1. {faults.expiries, faults'.expiries, faults.failures, faults'.failures} \subseteq Nat
    BY JobAssumption DEF OInv, IInv, TypeOK
  <2>. QED  BY <1>2, <2>1 DEF MoreFaults
<1>6. Sound(r)'  BY <1>0, <1>1, <1>2, <1>4, <1>5 DEF Sound
<1>7. Open' => (b.pc \in AtWork /\ ~b.cancelled) \/ (Open /\ ~Minds(r))
  BY <1>1, <1>4 DEF Minds
<1>. QED  BY <1>1, <1>2, <1>3, <1>4, <1>6, <1>7, SoundStep

\* A handler that leaves keeps the invariant: if it minded the job, its message is queued
\* again, or there is a cause.
LEMMA CauseLeave ==
    ASSUME OInv, IInv', NEW r \in Runs, Leave(r), run[r].pc \in {"return", "throw"},
           \A m \in Messages : m # run[r].msg => message'[m] = message[m],
           run[r].pc = "throw" => Queued' \/ Lost',
           UNCHANGED <<row, server, request, faults>>
    PROVE  OInv'
<1>. DEFINE c == [run[r] EXCEPT !.pc = "over", !.msg = 0]
            d == Settled(c)
<1>0. run \in [Runs -> RunRow] /\ run[r] \in RunRow /\ Sound(r)  BY Typed DEF OInv
<1>1. /\ c \in RunRow /\ c.pc = "over" /\ c.msg = 0 /\ c.cancelled = run[r].cancelled
      /\ c.idle = run[r].idle
  BY <1>0 DEF RunRow, Labels
<1>2. run' = [run EXCEPT ![r] = d]  BY DEF Leave
<1>. HIDE DEF c
<1>3. d.msg = 0 /\ d.pc \in {"over", "unused"} /\ (d.pc = "over" \/ d.cancelled = FALSE)
  BY <1>1, SettledGoes
<1>4. ~(d.idle > 0)
  <2>1. ~(c.idle > 0)  BY <1>0, <1>1 DEF Sound
  <2>2. d = NoRun \/ d.idle \in {0, c.idle}  BY <1>1, SettledIs DEF Stopped
  <2>. QED  BY <2>1, <2>2 DEF NoRun
<1>. HIDE DEF d
<1>5. \A q \in Runs : run'[q] = IF q = r THEN d ELSE run[q]  BY <1>0, <1>2
<1>6. OneAttended'  BY <1>3, <1>5 DEF OInv, OneAttended
<1>7. Sound(r)'  BY <1>3, <1>4, <1>5 DEF Sound
<1>8. MoreFaults  BY SameFaults DEF OInv
<1>9. ASSUME NEW q \in Runs, q # r PROVE Sound(q)'
  <2>1. run[q].msg # 0 => run[q].msg \in Messages /\ run[q].msg # run[r].msg
    BY <1>9, Typed DEF OInv, OneAttended
  <2>2. run[q].msg # 0 => message'[run[q].msg].state = message[run[q].msg].state  BY <2>1
  <2>. QED  BY <1>5, <1>8, <1>9, <2>2, SoundStays DEF OInv
<1>10. row.status # "none" /\ server \notin {"down", "boot"}  BY DEF OInv, Unborn
<1>11. /\ run[r].msg # 0 => run[r].msg \in Messages /\ message[run[r].msg].state = "active"
       /\ run[r].msg = 0 => request = "none" \/ faults.expiries > 0
  BY <1>0, Typed DEF OInv, Sound
<1>12. \A m \in Messages : message[m].state \in {"queued", "over"} => message'[m] = message[m]
  <2>. SUFFICES ASSUME NEW m \in Messages, message[m].state \in {"queued", "over"}
                PROVE  m # run[r].msg
    OBVIOUS
  <2>1. m # 0  BY Typed DEF OInv
  <2>. QED  BY <1>11, <2>1
<1>13. Unborn'
  <2>1. request = "created" => Unsent  BY DEF OInv, Unborn
  <2>2. request = "created" => run[r].msg = 0  BY <1>11, <2>1 DEF Unsent
  <2>3. \A m \in Messages : m # 0  BY DEF Messages
  <2>4. request = "created" => Unsent'  BY <2>1, <2>2, <2>3 DEF Unsent
  <2>5. request = "created" => server \in {"up", "degraded"}  BY DEF OInv, Unborn
  <2>. QED  BY <1>10, <2>4, <2>5 DEF Unborn
<1>15. Attentive'
  <2>1. Excused' <=> Excused  BY DEF Excused
  <2>. QED  BY <1>3, <1>5, <2>1 DEF OInv, Attentive, Open
<1>16. Unsent => Unsent'
  <2>1. Unsent => run[r].msg = 0  BY <1>11 DEF Unsent
  <2>2. \A m \in Messages : m # 0  BY DEF Messages
  <2>. QED  BY <2>1, <2>2 DEF Unsent
<1>17. TriedOut => TriedOut'
  <2>1. ASSUME NEW m \in Messages, message[m] = [state |-> "over", tries |-> RetryLimit]
        PROVE  TriedOut'
    BY <1>12, <2>1 DEF TriedOut
  <2>. QED  BY <2>1 DEF TriedOut
<1>18. Traced'
  <2>. SUFFICES ASSUME Open' PROVE Excused' \/ Unsent' \/ TriedOut' \/ Pending'
    BY DEF Traced
  <2>1. Open /\ (Excused' <=> Excused)  BY DEF Open, Excused
  <2>2. CASE run[r].pc = "return"  BY <2>1, <2>2 DEF OInv, Attentive
  <2>3. CASE run[r].pc = "throw"
    BY <2>3 DEF Queued, Lost, Stranded, Pending
  <2>. QED  BY <2>2, <2>3
<1>14. ASSUME Settling', Open' PROVE Minded' \/ TurnedOld' \/ Lost'
  <2>1. Settling /\ Open  BY <1>14 DEF Settling, Open
  <2>2. Minded \/ TurnedOld \/ Lost  BY <2>1 DEF OInv
  <2>3. TurnedOld => TurnedOld'  BY DEF TurnedOld
  <2>4. Queued => Queued'
    <3>1. ASSUME NEW m \in Messages, message[m].state = "queued" PROVE Queued'
      BY <1>12, <3>1 DEF Queued
    <3>. QED  BY <3>1 DEF Queued
  <2>5. ASSUME NEW q \in Runs, Minds(q) PROVE Minded' \/ Lost'
    <3>1. CASE q # r
      <4>1. Minds(q)'  BY <1>5, <2>5, <3>1 DEF Minds
      <4>. QED  BY <4>1 DEF Minded
    <3>2. CASE q = r
      <4>1. run[r].pc = "throw"  BY <2>5, <3>2 DEF Minds, AtWork
      <4>. QED  BY <4>1 DEF Minded
    <3>. QED  BY <3>1, <3>2
  <2>6. Lost => Lost' \/ Queued'
    <3>1. Stranded => Stranded'
      <4>1. ASSUME NEW m \in Messages, message[m].state = "active", \A q \in Runs : run[q].msg # m
            PROVE  Stranded'
        <5>1. message'[m] = message[m]  BY <4>1
        <5>2. \A q \in Runs : run'[q].msg # m  BY <1>3, <1>5, <4>1 DEF Messages
        <5>. QED  BY <4>1, <5>1, <5>2 DEF Stranded
      <4>. QED  BY <4>1 DEF Stranded
    <3>2. Excused => Excused'  BY DEF Excused
    <3>. QED  BY <1>16, <1>17, <3>1, <3>2 DEF Lost
  <2>. QED  BY <2>2, <2>3, <2>4, <2>5, <2>6 DEF Minded
<1>. QED  BY <1>6, <1>7, <1>9, <1>10, <1>13, <1>14, <1>15, <1>18 DEF OInv

\* Return keeps the invariant.
LEMMA CauseReturn == ASSUME OInv, IInv', NEW r \in Runs, Return(r) PROVE OInv'
<1>1. \A m \in Messages : m # run[r].msg => message'[m] = message[m]
  BY DEF Return, OInv, IInv, TypeOK
<1>. QED  BY <1>1, CauseLeave DEF Return

\* Throw keeps the invariant.
LEMMA CauseThrow == ASSUME OInv, IInv', NEW r \in Runs, Throw(r) PROVE OInv'
<1>0. /\ Leave(r) /\ run[r].pc = "throw" /\ UNCHANGED <<row, server, request, faults>> /\ Sound(r)
      /\ IF run[r].msg = 0 THEN UNCHANGED message ELSE GiveBack(run[r].msg)
  BY DEF Throw, OInv
<1>1. faults.failures > 0  BY <1>0 DEF Sound
<1>2. CASE run[r].msg = 0
  <2>1. request = "none" \/ faults.expiries > 0  BY <1>0, <1>2 DEF Sound
  <2>2. Lost'  BY <1>0, <1>1, <2>1 DEF Lost, Excused
  <2>3. message' = message  BY <1>0, <1>2
  <2>4. \A m \in Messages : m # run[r].msg => message'[m] = message[m]  BY <2>3
  <2>. QED  BY <1>0, <2>2, <2>4, CauseLeave
<1>3. CASE run[r].msg # 0
  <2>. DEFINE n == run[r].msg
  <2>1. n \in Messages /\ message[n].tries \in Nat /\ message[n].tries <= RetryLimit
    BY <1>3, Typed DEF OInv
  <2>2. GiveBack(n)  BY <1>0, <1>3
  <2>3. message \in [Messages -> [state : {"none", "queued", "active", "over"}, tries : 0..RetryLimit]]
    BY DEF OInv, IInv, TypeOK
  <2>. HIDE DEF n
  <2>4. \A m \in Messages : m # n => message'[m] = message[m]  BY <2>2, <2>3 DEF GiveBack
  <2>5. Queued' \/ TriedOut'
    <3>1. CASE message[n].tries < RetryLimit
      <4>1. message'[n].state = "queued"  BY <2>1, <2>2, <2>3, <3>1 DEF GiveBack
      <4>. QED  BY <2>1, <4>1 DEF Queued
    <3>2. CASE ~(message[n].tries < RetryLimit)
      <4>1. message[n].tries = RetryLimit  BY <2>1, <3>2, JobAssumption
      <4>2. message' = [message EXCEPT ![n] = [message[n] EXCEPT !.state = "over"]]
        BY <2>2, <3>2 DEF GiveBack
      <4>3. message'[n] = [state |-> "over", tries |-> RetryLimit]  BY <2>1, <2>3, <4>1, <4>2
      <4>. QED  BY <2>1, <4>3 DEF TriedOut
    <3>. QED  BY <3>1, <3>2
  <2>6. TriedOut' => Lost'  BY <1>0, <1>1 DEF Lost
  <2>7. \A m \in Messages : m # run[r].msg => message'[m] = message[m]  BY <2>4 DEF n
  <2>. QED  BY <1>0, <2>5, <2>6, <2>7, CauseLeave
<1>. QED  BY <1>2, <1>3

\* A run that starts minds the job.
LEMMA CauseStart ==
    ASSUME OInv, IInv', NEW r \in Runs, NEW m \in {0} \cup Messages, StartRun(r, m),
           m # 0 => /\ \A q \in Runs : run[q].msg = 0
                    /\ message' = [message EXCEPT ![m].state = "active"],
           m = 0 => UNCHANGED message /\ request = "none",
           m # 0 => UNCHANGED row,
           UNCHANGED <<server, request, faults>>, server \in {"resume", "up"},
           row'.status # "none", row'.old = row.old, request # "created"
    PROVE  OInv'
<1>. DEFINE b == [NoRun EXCEPT !.pc = "read", !.msg = m]
<1>0. run' = [run EXCEPT ![r] = b] /\ run[r].pc = "unused" /\ run \in [Runs -> RunRow]
  BY Typed DEF StartRun, OInv
<1>1. b.pc = "read" /\ b.msg = m /\ b.cancelled = FALSE /\ ~(b.idle > 0)  BY DEF NoRun
<1>. HIDE DEF b
<1>2. \A q \in Runs : run'[q] = IF q = r THEN b ELSE run[q]  BY <1>0
<1>3. MoreFaults /\ Sound(r)  BY SameFaults DEF OInv
<1>4. OneAttended'  BY <1>0, <1>1, <1>2, <1>3 DEF OInv, OneAttended, Sound
<1>5. m # 0 => m \in Messages /\ message'[m].state = "active"
  BY DEF OInv, IInv, TypeOK
<1>6. Sound(r)'  BY <1>1, <1>2, <1>5 DEF Sound
<1>7. ASSUME NEW q \in Runs, q # r PROVE Sound(q)'
  <2>1. run[q].msg # 0 => message' = message  OBVIOUS
  <2>. QED  BY <1>2, <1>3, <1>7, <2>1, SoundStays DEF OInv
<1>8. Unborn'  BY DEF Unborn
<1>9. Minded'
  <2>1. Minds(r)'  BY <1>1, <1>2 DEF Minds, AtWork
  <2>. QED  BY <2>1 DEF Minded
<1>10. (server # "up" => faults.crashes > 0)'  BY DEF OInv
<1>11. Excused => Excused'  BY DEF Excused
<1>12. m = 0 => Excused'  BY DEF Excused
<1>13. Attentive'
  <2>1. m # 0 => (Open' <=> Open)  BY DEF Open
  <2>. QED  BY <1>1, <1>2, <1>11, <1>12, <2>1 DEF OInv, Attentive
<1>14. Traced'  BY <1>5, <1>12 DEF Traced, Pending
<1>. QED  BY <1>4, <1>6, <1>7, <1>8, <1>9, <1>10, <1>13, <1>14 DEF OInv

\* Deliver and RunScheduled keep the invariant.
LEMMA CauseDeliver ==
    ASSUME OInv, IInv', NEW r \in Runs, RunScheduled(r) \/ \E m \in Messages : Deliver(m, r)
    PROVE  OInv'
<1>1. CASE RunScheduled(r)
  <2>1. row.status = "none" /\ row' = [row EXCEPT !.status = "queued"]
    BY <1>1 DEF RunScheduled, SetStatus
  <2>2. row'.status # "none" /\ row'.old = row.old  BY <2>1 DEF OInv, IInv, TypeOK
  <2>3. request = "none"  BY <2>1 DEF OInv, Unborn
  <2>. QED  BY <1>1, <2>2, <2>3, CauseStart DEF RunScheduled
<1>2. ASSUME NEW m \in Messages, Deliver(m, r) PROVE OInv'
  <2>1. message[m].state = "queued" /\ m # 0  BY <1>2, Typed DEF Deliver, OInv
  <2>2. ~Unsent  BY <2>1 DEF Unsent
  <2>3. row.status # "none" /\ request # "created"  BY <2>2 DEF OInv, Unborn
  <2>4. row'.status # "none" /\ row'.old = row.old  BY <1>2, <2>3 DEF Deliver
  <2>. QED  BY <1>2, <2>1, <2>3, <2>4, CauseStart DEF Deliver
<1>. QED  BY <1>1, <1>2

\* Expire keeps the invariant: the message is queued again, and if not, its run minds the
\* job as before.
LEMMA CauseExpire == ASSUME OInv, IInv', NEW m \in Messages, Expire(m) PROVE OInv'
<1>0. /\ message[m].state = "active" /\ server \in {"resume", "up"} /\ GiveBack(m)
      /\ run' = [r \in Runs |-> IF run[r].msg = m THEN [run[r] EXCEPT !.msg = 0] ELSE run[r]]
      /\ faults' = [faults EXCEPT !.expiries = @ + 1]
      /\ UNCHANGED <<row, server, request>>
      /\ run \in [Runs -> RunRow] /\ m # 0
      /\ message \in [Messages -> [state : {"none", "queued", "active", "over"}, tries : 0..RetryLimit]]
  BY Typed DEF Expire, OInv, IInv, TypeOK
<1>1. MoreFaults /\ faults'.expiries > 0
  <2>1. /\ faults'.expiries = faults.expiries + 1 /\ faults'.failures = faults.failures
        /\ faults'.crashes = faults.crashes
    BY <1>0 DEF OInv, IInv, TypeOK
  <2>. QED  BY <2>1, FaultTypes DEF OInv, MoreFaults
<1>2. \A q \in Runs :
        /\ run'[q].pc = run[q].pc /\ run'[q].cancelled = run[q].cancelled /\ run'[q].idle = run[q].idle
        /\ run[q].msg = m => run'[q].msg = 0
        /\ run[q].msg # m => run'[q].msg = run[q].msg
  <2>. SUFFICES ASSUME NEW q \in Runs
                PROVE  /\ run'[q].pc = run[q].pc /\ run'[q].cancelled = run[q].cancelled
                       /\ run'[q].idle = run[q].idle
                       /\ run[q].msg = m => run'[q].msg = 0
                       /\ run[q].msg # m => run'[q].msg = run[q].msg
    OBVIOUS
  <2>1. run[q] \in RunRow /\ run'[q] = IF run[q].msg = m THEN [run[q] EXCEPT !.msg = 0] ELSE run[q]
    BY <1>0
  <2>. QED  BY <2>1 DEF RunRow
<1>3. \A n \in Messages : n # m => message'[n] = message[n]  BY <1>0 DEF GiveBack
<1>4. OneAttended'  BY <1>2 DEF OInv, OneAttended
<1>5. ASSUME NEW q \in Runs PROVE Sound(q)'
  <2>1. Sound(q) /\ (run[q].msg # 0 => run[q].msg \in Messages)  BY Typed DEF OInv
  <2>2. run'[q].msg # 0 => run'[q].msg = run[q].msg /\ message'[run[q].msg] = message[run[q].msg]
    BY <1>2, <1>3, <2>1
  <2>3. faults.failures > 0 => faults'.failures > 0
    <3>1. {faults.failures, faults'.failures} \subseteq Nat  BY JobAssumption DEF OInv, IInv, TypeOK
    <3>. QED  BY <1>1, <3>1 DEF MoreFaults
  <2>. QED  BY <1>1, <1>2, <2>1, <2>2, <2>3 DEF Sound
<1>6. ~Unsent  BY <1>0 DEF Unsent
<1>7. row.status # "none" /\ request # "created"  BY <1>6 DEF OInv, Unborn
<1>8. Unborn'  BY <1>0, <1>7 DEF Unborn
<1>9. (server # "up" => faults.crashes > 0)'
  <2>1. {faults.crashes, faults'.crashes} \subseteq Nat  BY JobAssumption DEF OInv, IInv, TypeOK
  <2>. QED  BY <1>0, <1>1, <2>1 DEF OInv, MoreFaults
<1>10. ASSUME Settling', Open' PROVE Minded' \/ TurnedOld' \/ Lost'
  <2>1. Minded \/ TurnedOld \/ Lost  BY <1>0, <1>10 DEF OInv, Settling, Open
  <2>2. Minded => Minded'
    <3>1. \A n \in Messages : message[n].state = "queued" => message'[n] = message[n]  BY <1>0, <1>3
    <3>2. Queued => Queued'  BY <3>1 DEF Queued
    <3>3. \A q \in Runs : Minds(q) => Minds(q)'  BY <1>2 DEF Minds
    <3>. QED  BY <3>2, <3>3 DEF Minded
  <2>3. TurnedOld \/ Lost => TurnedOld' \/ Lost'
    <3>1. \A n \in Messages : message[n].state = "over" => message'[n] = message[n]  BY <1>0, <1>3
    <3>2. TriedOut => TriedOut'  BY <3>1 DEF TriedOut
    <3>. QED  BY <1>0, <1>1, <1>6, <3>2, CauseStays DEF OInv
  <2>. QED  BY <2>1, <2>2, <2>3
<1>11. Attentive' /\ Traced'  BY <1>1 DEF Attentive, Traced, Excused
<1>. QED  BY <1>0, <1>4, <1>5, <1>8, <1>9, <1>10, <1>11 DEF OInv

\* Crash keeps the invariant: the startup will look for the job.
LEMMA CauseCrash == ASSUME OInv, IInv', Crash PROVE OInv'
<1>0. /\ server' = "down" /\ \A q \in Runs : run'[q] = NoRun
      /\ UNCHANGED <<row, message>> /\ faults'.crashes = faults.crashes + 1
      /\ request' = IF request = "created" THEN "answered" ELSE request
  BY DEF Crash, OInv, IInv, TypeOK
<1>1. /\ NoRun.pc = "unused" /\ NoRun.msg = 0 /\ NoRun.cancelled = FALSE /\ ~(NoRun.idle > 0)
  BY DEF NoRun
<1>2. ~Settling'  BY <1>0 DEF Settling
<1>3. \A q \in Runs : Sound(q)'  BY <1>0, <1>1 DEF Sound
<1>4. OneAttended'  BY <1>0, <1>1 DEF OneAttended
<1>5. \A q \in Runs : run'[q].pc = "unused"  BY <1>0, <1>1
<1>6. Unborn'  BY <1>0, <1>5 DEF OInv, Unborn, Unsent
<1>7. faults'.crashes > 0  BY <1>0, FaultTypes DEF OInv
<1>8. Attentive'  BY <1>0, <1>1 DEF Attentive
<1>9. Traced'
  <2>1. faults'.expiries = faults.expiries  BY DEF Crash, OInv, IInv, TypeOK
  <2>2. (Open' <=> Open) /\ (Unsent' <=> Unsent) /\ (TriedOut' <=> TriedOut) /\ (Pending' <=> Pending)
    BY <1>0 DEF Open, Unsent, TriedOut, Pending
  <2>3. Excused => Excused'  BY <1>0, <2>1 DEF Excused
  <2>. QED  BY <2>2, <2>3 DEF OInv, Traced
<1>. QED  BY <1>0, <1>2, <1>3, <1>4, <1>5, <1>6, <1>7, <1>8, <1>9 DEF OInv

\* A step that touches no run and no message in hand.
LEMMA CauseRests ==
    ASSUME OInv, IInv', MoreFaults, UNCHANGED run,
           \A m \in Messages : message[m].state = "active" => message'[m] = message[m],
           request = "none" => request' = "none" \/ \A r \in Runs : run[r].pc = "unused",
           Unborn', Traced', Open' => Open \/ \A r \in Runs : run[r].pc = "unused",
           server' # "up" => server # "up",
           server' \in {"down", "boot"} => server \in {"down", "boot"},
           Settling' /\ Open' => Minded' \/ TurnedOld' \/ Lost'
    PROVE  OInv'
<1>1. OneAttended'  BY DEF OInv, OneAttended
<1>2. ASSUME NEW q \in Runs PROVE Sound(q)'
  <2>1. Sound(q) /\ (run[q].msg # 0 => run[q].msg \in Messages)  BY Typed DEF OInv
  <2>2. run[q].msg # 0 => message'[run[q].msg].state = message[run[q].msg].state
    BY <2>1 DEF Sound
  <2>. QED  BY <2>1, <2>2, SoundStays DEF OInv
<1>3. (server # "up" => faults.crashes > 0)'
  <2>1. {faults.crashes, faults'.crashes} \subseteq Nat  BY JobAssumption DEF OInv, IInv, TypeOK
  <2>. QED  BY <2>1 DEF OInv, MoreFaults
<1>4. (server \in {"down", "boot"} => \A r \in Runs : run[r].pc = "unused")'  BY DEF OInv
<1>5. Attentive'
  <2>1. CASE \A r \in Runs : run[r].pc = "unused"
    <3>1. \A r \in Runs : ~run[r].cancelled  BY <2>1 DEF OInv, Sound
    <3>. QED  BY <2>1, <3>1 DEF Attentive
  <2>2. CASE \E r \in Runs : run[r].pc # "unused"
    <3>1. Excused => Excused'  BY <2>2, ExcuseStays DEF OInv
    <3>. QED  BY <2>2, <3>1 DEF OInv, Attentive
  <2>. QED  BY <2>1, <2>2
<1>. QED  BY <1>1, <1>2, <1>3, <1>4, <1>5 DEF OInv

\* An open job keeps what it had, as long as no message changes.
LEMMA TracedKept ==
    ASSUME OInv, IInv', MoreFaults, UNCHANGED <<message, request>>, Open' => Open
    PROVE  Traced'
<1>1. (Unsent' <=> Unsent) /\ (TriedOut' <=> TriedOut) /\ (Pending' <=> Pending)
  BY DEF Unsent, TriedOut, Pending
<1>2. Excused => Excused'  BY ExcuseStays DEF OInv
<1>. QED  BY <1>1, <1>2 DEF OInv, Traced

\* The requests keep the invariant: one that is not answered has left the job to nobody.
LEMMA CauseRequests ==
    ASSUME OInv, IInv',
           CreateJob \/ CancelJob \/ SubmitFails \/ \E m \in Messages : SubmitJob(m)
    PROVE  OInv'
<1>0. /\ row \in [status : Statuses, processed : SUBSET Pois, old : BOOLEAN]
      /\ server' = server /\ UNCHANGED run /\ server \in {"up", "degraded"}
  BY DEF OInv, IInv, TypeOK, CreateJob, CancelJob, SubmitFails, SubmitJob
<1>1. UNCHANGED faults => MoreFaults  BY SameFaults DEF OInv
<1>2. CASE CreateJob
  <2>1. /\ row.status = "none" /\ row' = [row EXCEPT !.status = "queued"] /\ request' = "created"
        /\ UNCHANGED <<message, faults>>
    BY <1>2 DEF CreateJob, SetStatus
  <2>2. Unsent /\ \A r \in Runs : run[r].pc = "unused"  BY <2>1 DEF OInv, Unborn
  <2>3. Unborn'  BY <1>0, <2>1, <2>2 DEF Unborn, Unsent
  <2>4. ~Settling'  BY <1>0, <2>1 DEF Settling
  <2>5. Traced'  BY <2>1, <2>2 DEF Traced, Unsent
  <2>. QED  BY <1>0, <1>1, <2>1, <2>2, <2>3, <2>4, <2>5, CauseRests
<1>3. CASE CancelJob
  <2>1. /\ row.status = "running" /\ row' = [row EXCEPT !.status = "cancelled"]
        /\ UNCHANGED <<message, faults, request>>
    BY <1>3 DEF CancelJob, SetStatus
  <2>2. row'.status = "cancelled"  BY <1>0, <2>1
  <2>3. Unborn'  BY <1>0, <2>1, <2>2 DEF OInv, Unborn, Unsent
  <2>4. ~Open' /\ Traced'  BY <2>2 DEF Open, Traced
  <2>. QED  BY <1>0, <1>1, <2>1, <2>3, <2>4, CauseRests
<1>4. CASE SubmitFails
  <2>1. request = "created" /\ request' = "answered" /\ UNCHANGED <<row, message>>
    BY <1>4 DEF SubmitFails
  <2>2. Unborn'  BY <2>1 DEF OInv, Unborn
  <2>3. Unsent' /\ Traced' /\ (Open' => Open)  BY <2>1 DEF OInv, Unborn, Unsent, Traced, Open
  <2>4. CASE server = "degraded"
    <3>1. UNCHANGED faults /\ ~Settling'  BY <1>0, <1>4, <2>4 DEF SubmitFails, Settling
    <3>. QED  BY <1>0, <1>1, <2>1, <2>2, <2>3, <3>1, CauseRests
  <2>5. CASE server # "degraded"
    <3>1. Fails("submit")  BY <1>4, <2>5 DEF SubmitFails
    <3>2. MoreFaults /\ faults'.failures > 0  BY <3>1, MoreFails DEF OInv
    <3>3. Lost'  BY <2>3, <3>2 DEF Lost
    <3>. QED  BY <1>0, <2>1, <2>2, <2>3, <3>2, <3>3, CauseRests
  <2>. QED  BY <2>4, <2>5
<1>5. ASSUME NEW m \in Messages, SubmitJob(m) PROVE OInv'
  <2>1. /\ request = "created" /\ request' = "answered" /\ UNCHANGED <<row, faults>> /\ Send(m)
    BY <1>5 DEF SubmitJob
  <2>2. /\ \A n \in Messages : message[n].state = "active" => message'[n] = message[n]
        /\ message'[m].state = "queued"
    BY <2>1, SendAdds DEF OInv
  <2>3. Minded'  BY <2>2 DEF Minded, Queued
  <2>4. Unborn' /\ (Open' => Open)  BY <2>1 DEF OInv, Unborn, Open
  <2>5. Traced'  BY <2>2 DEF Traced, Pending
  <2>. QED  BY <1>0, <1>1, <2>1, <2>2, <2>3, <2>4, <2>5, CauseRests
<1>. QED  BY <1>2, <1>3, <1>4, <1>5

\* A step that changes neither the runs nor the messages keeps the causes.
LEMMA CauseKept ==
    ASSUME OInv, IInv', MoreFaults, UNCHANGED <<run, message, request>>, row.old => row'.old,
           Minded \/ TurnedOld \/ Lost
    PROVE  Minded' \/ TurnedOld' \/ Lost'
<1>1. /\ (Unsent' <=> Unsent) /\ (TriedOut' <=> TriedOut) /\ (Stranded' <=> Stranded)
      /\ Minded' <=> Minded
  BY DEF Unsent, TriedOut, Stranded, Minded, Queued, Minds
<1>2. TurnedOld \/ Lost => TurnedOld' \/ Lost'  BY <1>1, CauseStays DEF OInv
<1>. QED  BY <1>1, <1>2

\* The startup keeps the invariant: it closes the job, sends a message, or has missed it.
LEMMA CauseStartup ==
    ASSUME OInv, IInv',
           FailAbandoned \/ StartScheduler \/ SchedulerFails \/ ResumeJobs \/ ResumeFails \/ GrowOld
    PROVE  OInv'
<1>0. /\ row \in [status : Statuses, processed : SUBSET Pois, old : BOOLEAN]
      /\ UNCHANGED <<run, request>>
  BY DEF OInv, IInv, TypeOK, FailAbandoned, StartScheduler, SchedulerFails, ResumeJobs, ResumeFails, GrowOld
<1>1. UNCHANGED faults => MoreFaults  BY SameFaults DEF OInv
<1>2. ASSUME NEW point, Fails(point) PROVE MoreFaults /\ faults'.failures > 0
  BY <1>2, MoreFails DEF OInv
<1>3. CASE FailAbandoned
  <2>1. server = "down" /\ server' = "boot" /\ message' = message  BY <1>3 DEF FailAbandoned
  <2>2. request # "created" /\ faults.crashes > 0  BY <2>1 DEF OInv, Unborn
  <2>3. CASE UNCHANGED faults /\ row' = IF Open /\ row.old THEN [row EXCEPT !.status = "failed"] ELSE row
    <3>1. CASE Open /\ row.old
      <4>1. row'.status = "failed" /\ ~Open'  BY <1>0, <2>3, <3>1 DEF Open
      <4>2. Unborn' /\ Traced'  BY <1>0, <2>2, <4>1 DEF Unborn, Traced
      <4>. QED  BY <1>0, <1>1, <2>1, <2>3, <4>1, <4>2, CauseRests
    <3>2. CASE ~(Open /\ row.old)
      <4>1. row' = row  BY <2>3, <3>2
      <4>2. ~(Settling' /\ Open')  BY <2>1, <3>2, <4>1 DEF Settling, Open
      <4>3. Unborn'  BY <1>0, <2>1, <2>2, <4>1 DEF OInv, Unborn, Unsent
      <4>4. (Open' => Open) /\ Traced'  BY <1>0, <1>1, <2>1, <2>3, <4>1, TracedKept DEF Open
      <4>. QED  BY <1>0, <1>1, <2>1, <2>3, <4>2, <4>3, <4>4, CauseRests
    <3>. QED  BY <3>1, <3>2
  <2>4. CASE Fails("abandon") /\ UNCHANGED row
    <3>1. MoreFaults /\ faults'.failures > 0  BY <1>2, <2>4
    <3>2. faults'.crashes > 0
      <4>1. {faults.crashes, faults'.crashes} \subseteq Nat
        BY JobAssumption DEF OInv, IInv, TypeOK
      <4>. QED  BY <2>2, <3>1, <4>1 DEF MoreFaults
    <3>3. Settling' => TurnedOld'  BY <2>1, <3>1, <3>2 DEF Settling, TurnedOld
    <3>4. Unborn'  BY <1>0, <2>1, <2>2, <2>4 DEF OInv, Unborn, Unsent
    <3>5. (Open' => Open) /\ Traced'  BY <1>0, <2>1, <2>4, <3>1, TracedKept DEF Open
    <3>. QED  BY <1>0, <2>1, <3>1, <3>3, <3>4, <3>5, CauseRests
  <2>. QED  BY <1>3, <2>3, <2>4 DEF FailAbandoned
<1>4. CASE StartScheduler
  <2>1. /\ server = "boot" /\ server' = "resume" /\ UNCHANGED <<row, message, faults>>
    BY <1>4 DEF StartScheduler
  <2>2. request # "created"  BY <2>1 DEF OInv, Unborn
  <2>3. Unborn'  BY <1>0, <2>1, <2>2 DEF OInv, Unborn, Unsent
  <2>4. ASSUME Settling', Open' PROVE Minded' \/ TurnedOld' \/ Lost'
    <3>1. Minded \/ TurnedOld \/ Lost  BY <2>1, <2>4 DEF OInv, Settling, Open
    <3>. QED  BY <1>0, <1>1, <2>1, <3>1, CauseKept
  <2>5. (Open' => Open) /\ Traced'  BY <1>0, <1>1, <2>1, TracedKept DEF Open
  <2>. QED  BY <1>0, <1>1, <2>1, <2>3, <2>4, <2>5, CauseRests
<1>5. CASE SchedulerFails
  <2>1. server = "boot" /\ server' = "degraded" /\ UNCHANGED <<row, message>> /\ MoreFaults
    BY <1>2, <1>5 DEF SchedulerFails
  <2>2. request # "created"  BY <2>1 DEF OInv, Unborn
  <2>3. Unborn'  BY <1>0, <2>1, <2>2 DEF OInv, Unborn, Unsent
  <2>4. (Open' => Open) /\ Traced'  BY <1>0, <2>1, TracedKept DEF Open
  <2>. QED  BY <1>0, <2>1, <2>3, <2>4, CauseRests DEF Settling
<1>6. CASE ResumeJobs
  <2>1. server = "resume" /\ server' = "up" /\ UNCHANGED <<row, faults>>  BY <1>6 DEF ResumeJobs
  <2>2. request # "created"  BY <2>1 DEF OInv, Unborn
  <2>3. CASE Open /\ ~row.old
    <3>1. PICK m \in Messages : Send(m)  BY <1>6, <2>3 DEF ResumeJobs
    <3>2. /\ \A n \in Messages : message[n].state = "active" => message'[n] = message[n]
          /\ message'[m].state = "queued"
      BY <3>1, SendAdds DEF OInv
    <3>3. Minded'  BY <3>2 DEF Minded, Queued
    <3>4. Unborn'  BY <1>0, <2>1, <2>2, <2>3 DEF Unborn, Open
    <3>5. Traced' /\ (Open' => Open)  BY <2>3, <3>2 DEF Traced, Pending
    <3>. QED  BY <1>0, <1>1, <2>1, <3>2, <3>3, <3>4, <3>5, CauseRests
  <2>4. CASE ~(Open /\ ~row.old)
    <3>1. message' = message  BY <1>6, <2>4 DEF ResumeJobs
    <3>2. Unborn'  BY <1>0, <2>1, <2>2, <3>1 DEF OInv, Unborn, Unsent
    <3>3. ASSUME Open' PROVE Minded' \/ TurnedOld' \/ Lost'
      <4>1. Minded \/ TurnedOld \/ Lost  BY <2>1, <2>4, <3>3 DEF OInv, Settling, Open
      <4>. QED  BY <1>0, <1>1, <2>1, <3>1, <4>1, CauseKept
    <3>4. (Open' => Open) /\ Traced'  BY <1>0, <1>1, <2>1, <3>1, TracedKept DEF Open
    <3>. QED  BY <1>0, <1>1, <2>1, <3>1, <3>2, <3>3, <3>4, CauseRests
  <2>. QED  BY <2>3, <2>4
<1>7. CASE GrowOld
  <2>1. /\ row.status # "none" /\ server' = server /\ UNCHANGED <<message, faults>>
        /\ row'.status = row.status /\ row'.old
        /\ server \in {"boot", "resume"} => AgeDuringStartup
    BY <1>0, <1>7 DEF GrowOld
  <2>2. Unborn'  BY <1>0, <2>1 DEF OInv, Unborn, Unsent
  <2>3. ASSUME Settling', Open' PROVE Minded' \/ TurnedOld' \/ Lost'
    <3>1. CASE server = "up"
      <4>1. Minded \/ TurnedOld \/ Lost  BY <1>0, <2>1, <2>3, <3>1 DEF OInv, Settling, Open
      <4>. QED  BY <1>0, <1>1, <2>1, <4>1, CauseKept
    <3>2. CASE server \in {"boot", "resume"}
      <4>1. faults.crashes > 0 /\ AgeDuringStartup  BY <2>1, <3>2 DEF OInv
      <4>. QED  BY <2>1, <4>1 DEF TurnedOld
    <3>. QED  BY <2>1, <2>3, <3>1, <3>2 DEF Settling
  <2>4. (Open' => Open) /\ Traced'  BY <1>0, <1>1, <2>1, TracedKept DEF Open
  <2>. QED  BY <1>0, <1>1, <2>1, <2>2, <2>3, <2>4, CauseRests
<1>8. CASE ResumeFails
  <2>1. /\ server = "resume" /\ server' = "up" /\ UNCHANGED <<row, message>>
        /\ MoreFaults /\ faults'.failures > 0
    BY <1>2, <1>8 DEF ResumeFails
  <2>2. request # "created"  BY <2>1 DEF OInv, Unborn
  <2>3. Unborn'  BY <1>0, <2>1, <2>2 DEF OInv, Unborn, Unsent
  <2>4. (Open' => Open) /\ Traced'  BY <1>0, <2>1, TracedKept DEF Open
  <2>5. ASSUME Open' PROVE Minded' \/ Lost'
    <3>1. Excused' \/ Unsent' \/ TriedOut' \/ Pending'  BY <2>4, <2>5 DEF Traced
    <3>2. ASSUME NEW m \in Messages, message[m].state = "active", NEW q \in Runs, run[q].msg = m
          PROVE  Minds(q)' \/ Excused'
      <4>1. run[q].pc \notin {"unused", "over"}  BY <3>2, Typed DEF OInv, Sound
      <4>2. Minds(q) \/ run[q].pc = "return" \/ run[q].cancelled
        BY <4>1, Typed DEF OInv, RunRow, Labels, Minds, AtWork
      <4>3. Excused => Excused'  BY <1>0, <2>1, ExcuseStays DEF OInv
      <4>. QED  BY <1>0, <2>4, <2>5, <4>1, <4>2, <4>3 DEF OInv, Attentive, Minds
    <3>3. Pending' => Minded' \/ Stranded' \/ Excused'
      BY <1>0, <2>1, <3>2 DEF Pending, Minded, Queued, Stranded
    <3>. QED  BY <2>1, <3>1, <3>3 DEF Lost
  <2>. QED  BY <1>0, <2>1, <2>3, <2>4, <2>5, CauseRests
<1>. QED  BY <1>3, <1>4, <1>5, <1>6, <1>7, <1>8

\* Every step keeps the invariant.
LEMMA CauseKeeps == ASSUME OInv, [Next]_vars PROVE OInv'
<1>0. IInv'  BY StepKeeps DEF OInv
<1>1. ASSUME NEW r \in Runs, HandlerStep(r) PROVE OInv'
  <2>1. ASSUME NEW w \in run[r].writes, Checkpoint(r, w) PROVE OInv'
    <3>1. row'.old = row.old /\ row'.status = row.status
      BY <2>1 DEF Checkpoint, OInv, IInv, TypeOK
    <3>2. Written(r, w) /\ UNCHANGED <<message, server, request>> /\ MoreFaults
      BY <2>1, SameFaults DEF Checkpoint, OInv
    <3>. QED  BY <1>0, <3>1, <3>2, CauseWritten
  <2>. QED
    BY <1>0, <1>1, <2>1, CauseReadJob, CauseLabels, CauseStartBatch, CauseReadStatus, CauseClaim,
       CauseInside, CauseReturn, CauseThrow
       DEF HandlerStep
<1>2. ASSUME NEW r \in Runs, HandlerFails(r) PROVE OInv'
  <2>1. ASSUME NEW w \in run[r].writes, CheckpointFails(r, w) PROVE OInv'
    <3>1. /\ Written(r, w) /\ UNCHANGED <<message, server, request>> /\ MoreFaults
          /\ row'.old = row.old /\ row'.status = row.status
      BY <2>1, MoreFails DEF CheckpointFails, OInv
    <3>. QED  BY <1>0, <3>1, CauseWritten
  <2>. QED  BY <1>0, <1>2, <2>1, CauseLabels, CauseInside DEF HandlerFails
<1>3. CASE System
  BY <1>0, <1>3, CauseStartup, CauseRequests, CauseDeliver DEF System, Startup
<1>4. CASE Environment
  BY <1>0, <1>4, CauseStartup, CauseRequests, CauseDeliver, CauseExpire, CauseCrash DEF Environment
<1>5. CASE UNCHANGED vars
  <2>1. UNCHANGED <<run, message, request>> /\ UNCHANGED <<row, server, faults>>  BY <1>5 DEF vars
  <2>2. MoreFaults  BY <2>1, SameFaults DEF OInv
  <2>3. Unborn'  BY <2>1 DEF OInv, Unborn, Unsent
  <2>4. ASSUME Settling', Open' PROVE Minded' \/ TurnedOld' \/ Lost'
    <3>1. Minded \/ TurnedOld \/ Lost  BY <2>1, <2>4 DEF OInv, Settling, Open
    <3>. QED  BY <1>0, <2>1, <2>2, <3>1, CauseKept
  <2>5. (Open' => Open) /\ Traced'  BY <1>0, <2>1, <2>2, TracedKept DEF Open
  <2>. QED  BY <1>0, <2>1, <2>2, <2>3, <2>4, <2>5, CauseRests
<1>. QED  BY <1>1, <1>2, <1>3, <1>4, <1>5 DEF Next

\* An open job is left to nobody only when it turned an hour old during a startup, or a
\* query failed and no message is there to be tried again (the catch blocks of
\* newsService.js, jobScheduler.js and the collect-batch route).
THEOREM OrphansAreExplained == Spec => []OrphanHasCause
<1>1. Init => OInv
  <2>. SUFFICES ASSUME Init PROVE OInv  OBVIOUS
  <2>1. IInv  BY InitHolds
  <2>2. \A r \in Runs : /\ run[r].pc = "unused" /\ run[r].msg = 0 /\ run[r].cancelled = FALSE
                        /\ ~(run[r].idle > 0)
    BY DEF Init, NoRun
  <2>3. ~Open /\ server = "up" /\ request = "none" /\ ~row.old  BY DEF Init, Open
  <2>4. (\A r \in Runs : Sound(r)) /\ OneAttended  BY <2>2 DEF Sound, OneAttended
  <2>5. Unborn  BY <2>2, <2>3 DEF Init, Unborn, Unsent
  <2>6. Attentive /\ Traced  BY <2>2, <2>3 DEF Attentive, Traced
  <2>. QED  BY <2>1, <2>3, <2>4, <2>5, <2>6 DEF OInv
<1>2. OInv /\ [Next]_vars => OInv'  BY CauseKeeps
<1>3. OInv => OrphanHasCause
  <2>1. Minded => Driven
    <3>1. Queued => Driven  BY DEF Queued, Driven
    <3>2. ASSUME NEW r \in Runs, Minds(r) PROVE Driven  BY <3>2 DEF Minds, AtWork, Driven
    <3>. QED  BY <3>1, <3>2 DEF Minded
  <2>2. Stranded => Driven  BY DEF Stranded, Driven
  <2>. QED  BY <2>1, <2>2 DEF OInv, OrphanHasCause, Settling, TurnedOld, Lost, Unsent, TriedOut, Excused
<1>. QED  BY <1>1, <1>2, <1>3, PTL DEF Spec
=============================================================================
