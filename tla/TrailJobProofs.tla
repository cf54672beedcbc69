--------------------------- MODULE TrailJobProofs ---------------------------
(***************************************************************************)
(* What holds of a trail status job for every number of POIs, pages,       *)
(* statuses, workers, rows, crashes and failures.                          *)
(***************************************************************************)
EXTENDS TrailJob, WellFoundedInduction, TLAPS

Task == [pc : {"none", "chosen", "query", "render", "extract", "insert", "record"},
         slot : {NoSlot} \cup Slots, page : {0} \cup Pages,
         status : {0} \cup Statuses, omits : BOOLEAN, read : 0..MaxRows, ids : SUBSET Pois]
Run == [pc : {"unused", "read", "start", "batch", "fail", "return", "throw"},
        todo : SUBSET Pois, recorded : SUBSET Pois]
Entry == [known : BOOLEAN, completed : BOOLEAN, slot : {NoSlot} \cup Slots]
Row == [id : 0..MaxRows, page : {0} \cup Pages, status : {0} \cup Statuses,
        age : {"fresh", "day", "old", "gone"}]

\* A collection that has not settled; one past onItemStart.
Working == {"chosen", "query", "render", "extract", "insert"}
Showing == {"query", "render", "extract", "insert"}

\* What the run knows as processed, and every list a collection is about to write,
\* was settled.
Honest ==
    /\ run.recorded \subseteq settled
    /\ \A c \in Collectors, p \in Pois : task[c][p].ids \subseteq settled

\* Only a batch has items in flight, and they are none of those left.  It has every
\* POI left, at work or recorded.
Whole ==
    \A p \in Pois :
      /\ task["run"][p].pc # "none" => run.pc = "batch" /\ p \notin run.todo
      /\ run.pc \in {"start", "batch"} =>
           p \in run.todo \/ p \in run.recorded \/ task["run"][p].pc \in Working

\* A taken slot is that of an entry that is not completed, and the item of such an
\* entry is in flight; or it is one of those a collectFn left.
Shown ==
    /\ \A s \in slots \ kept : \E p \in Pois : progress[p].slot = s /\ ~progress[p].completed
    /\ \A p \in Pois :
         /\ progress[p].slot # NoSlot /\ ~progress[p].completed =>
              task["run"][p].pc \in Showing \/ progress[p].slot \in kept
         /\ ~progress[p].known => progress[p] = NoProgress

\* As long as the row a collection decided on is the latest, its status is new, or the
\* model omitted a field.
Decided ==
    \A c \in Collectors, p \in Pois :
      /\ task[c][p].read <= latest[p].id
      /\ task[c][p].pc = "insert" /\ task[c][p].read = latest[p].id =>
           ~(latest[p].age = "fresh" /\ latest[p].status = task[c][p].status)
             \/ task[c][p].omits

IInv ==
    /\ TypeOK /\ ProcessedWereSettled /\ CompletedMeansSettled
    /\ Honest /\ Whole /\ Shown /\ Decided

-----------------------------------------------------------------------------
(* Types.                                                                  *)

\* The types of the model, by name.
LEMMA Typed ==
    TypeOK <=>
      /\ row \in [status : {"none", "queued", "running", "completed", "cancelled", "failed"},
                  processed : SUBSET Pois]
      /\ message \in [state : {"none", "unsent", "queued", "active", "over"}, tries : 0..RetryLimit]
      /\ up \in BOOLEAN
      /\ run \in Run
      /\ task \in [Collectors -> [Pois -> Task]]
      /\ progress \in [Pois -> Entry]
      /\ slots \in SUBSET Slots
      /\ latest \in [Pois -> Row]
      /\ settled \in SUBSET Pois /\ kept \in SUBSET Slots
      /\ faults \in [crashes : 0..MaxCrashes, failures : 0..MaxFailures]
  BY DEF TypeOK, Run, Task, Entry, Row

\* The rows that stand for nothing.
LEMMA Nothing ==
    NoTask \in Task /\ NoRun \in Run /\ NoProgress \in Entry /\ NoDelivery.tries \in 0..RetryLimit
  BY TrailAssumption DEF NoTask, NoRun, NoProgress, NoDelivery, Task, Run, Entry

\* The order of the naturals.
Less == OpToRel(<, Nat)

\* A set of naturals has a least element.
LEMMA Least == ASSUME NEW S \in SUBSET Nat, S # {} PROVE Min(S) \in S
<1>1. IsWellFoundedOn(Less, Nat)  BY NatLessThanWellFounded DEF Less
<1>2. PICK x \in S : \A y \in S : ~(<<y, x>> \in Less)  BY <1>1, WFMin
<1>3. ASSUME NEW y \in S PROVE x <= y
  <2>1. <<y, x>> \in Nat \X Nat /\ ~(<<y, x>> \in Less)  BY <1>2
  <2>2. ~(<<y, x>>[1] < <<y, x>>[2])  BY <2>1 DEF Less, OpToRel
  <2>3. x \in Nat /\ y \in Nat  OBVIOUS
  <2>. QED  BY <2>2, <2>3
<1>4. \E z \in S : \A y \in S : z <= y  BY <1>3
<1>. QED  BY <1>4 DEF Min

\* findFirstAvailableSlot finds a slot or none.
LEMMA SlotFound == AvailableSlot \in {NoSlot} \cup Slots
<1>1. CASE Slots \subseteq slots  BY <1>1 DEF AvailableSlot
<1>2. CASE ~(Slots \subseteq slots)
  <2>1. Slots \ slots \in SUBSET Nat /\ Slots \ slots # {}  BY <1>2 DEF Slots
  <2>2. Min(Slots \ slots) \in Slots \ slots  BY <2>1, Least
  <2>. QED  BY <1>2, <2>2 DEF AvailableSlot
<1>. QED  BY <1>1, <1>2

\* One more failure.
LEMMA Failed ==
    ASSUME TypeOK, faults.failures < MaxFailures,
           faults' = [faults EXCEPT !.failures = @ + 1]
    PROVE  faults' \in [crashes : 0..MaxCrashes, failures : 0..MaxFailures]
<1>1. faults \in [crashes : 0..MaxCrashes, failures : 0..MaxFailures]  BY DEF TypeOK
<1>2. MaxFailures \in Nat  BY TrailAssumption
<1>3. faults.failures + 1 \in 0..MaxFailures  BY <1>1, <1>2
<1>. QED  BY <1>1, <1>3

-----------------------------------------------------------------------------
(* What a step does to one collection, and to its entry.                   *)

\* The collection of p by c becomes x, and the others stay.
Becomes(c, p, x) == task' = [task EXCEPT ![c][p] = x]

\* It is the only one that changes.
LEMMA Changed ==
    ASSUME TypeOK, NEW c \in Collectors, NEW p \in Pois, NEW x \in Task, Becomes(c, p, x)
    PROVE  /\ task' \in [Collectors -> [Pois -> Task]]
           /\ task'[c][p] = x
           /\ \A d \in Collectors, q \in Pois : d # c \/ q # p => task'[d][q] = task[d][q]
  BY Typed DEF Becomes

\* The entry a report writes.
LEMMA ReportTyped ==
    ASSUME TypeOK, NEW p \in Pois, NEW entry \in Entry, Report(p, entry)
    PROVE  progress' \in [Pois -> Entry] /\ slots' \in SUBSET Slots
  BY Typed DEF Report, Entry, NoSlot

\* A report keeps the slots right, when the entry gives no slot away that it has to free,
\* and is that of an item in flight when it takes one.
LEMMA ReportShows ==
    ASSUME IInv, NEW p \in Pois, NEW entry \in Entry, Report(p, entry), entry.known, kept' = kept,
           progress[p].slot # NoSlot /\ ~progress[p].completed =>
             entry.slot = progress[p].slot \/ progress[p].slot \in kept,
           entry.slot # NoSlot /\ ~entry.completed =>
             task'["run"][p].pc \in Showing \/ entry.slot \in kept,
           \A q \in Pois : q # p => task'["run"][q] = task["run"][q]
    PROVE  Shown'
<1>1. /\ progress'[p] = entry /\ \A q \in Pois : q # p => progress'[q] = progress[q]
      /\ slots' = IF entry.completed THEN slots \ {entry.slot}
                  ELSE slots \cup ({entry.slot} \ {NoSlot})
  BY Typed DEF IInv, Report
<1>2. slots \subseteq Slots /\ NoSlot \notin Slots  BY Typed DEF IInv, Slots, NoSlot
<1>3. ASSUME NEW s \in slots' \ kept
      PROVE  \E q \in Pois : progress'[q].slot = s /\ ~progress'[q].completed
  <2>1. CASE s \in slots
    <3>1. PICK q \in Pois : progress[q].slot = s /\ ~progress[q].completed  BY <2>1 DEF IInv, Shown
    <3>2. CASE q # p  BY <1>1, <3>1, <3>2
    <3>3. CASE q = p
      <4>1. entry.slot = s  BY <1>2, <2>1, <3>1, <3>3
      <4>2. ~entry.completed  BY <1>1, <1>3, <4>1
      <4>. QED  BY <1>1, <4>1, <4>2
    <3>. QED  BY <3>2, <3>3
  <2>2. CASE s \notin slots
    <3>1. s = entry.slot /\ ~entry.completed  BY <1>1, <1>3, <2>2
    <3>. QED  BY <1>1, <3>1
  <2>. QED  BY <2>1, <2>2
<1>4. ASSUME NEW q \in Pois
      PROVE  /\ progress'[q].slot # NoSlot /\ ~progress'[q].completed =>
                  task'["run"][q].pc \in Showing \/ progress'[q].slot \in kept
             /\ ~progress'[q].known => progress'[q] = NoProgress
  <2>1. CASE q = p  BY <1>1, <2>1
  <2>2. CASE q # p  BY <1>1, <2>2 DEF IInv, Shown
  <2>. QED  BY <2>1, <2>2
<1>. QED  BY <1>3, <1>4 DEF Shown

\* Reports that an entry goes on keep the slots right.
LEMMA AdvanceShows ==
    ASSUME IInv, NEW p \in Pois, Advance(p), kept' = kept,
           task["run"][p].pc \in Showing => task'["run"][p].pc \in Showing,
           \A q \in Pois : q # p => task'["run"][q] = task["run"][q]
    PROVE  Shown' /\ progress' \in [Pois -> Entry] /\ slots' \in SUBSET Slots
<1>. DEFINE entry == [progress[p] EXCEPT !.known = TRUE]
<1>1. Report(p, entry)  BY DEF Advance
<1>2. progress[p] \in Entry /\ entry \in Entry /\ entry.known /\ entry.slot = progress[p].slot
      /\ entry.completed = progress[p].completed
  BY Typed DEF IInv, Entry
<1>. HIDE DEF entry
<1>3. entry.slot # NoSlot /\ ~entry.completed => task'["run"][p].pc \in Showing \/ entry.slot \in kept
  BY <1>2 DEF IInv, Shown
<1>. QED  BY <1>1, <1>2, <1>3, ReportShows, ReportTyped DEF IInv

\* And so do reports that it is completed.
LEMMA CompleteShows ==
    ASSUME IInv, NEW p \in Pois, Complete(p), kept' = kept,
           \A q \in Pois : q # p => task'["run"][q] = task["run"][q]
    PROVE  Shown' /\ progress' \in [Pois -> Entry] /\ slots' \in SUBSET Slots
<1>. DEFINE entry == [progress[p] EXCEPT !.known = TRUE, !.completed = TRUE]
<1>1. Report(p, entry)  BY DEF Complete
<1>2. /\ progress[p] \in Entry /\ entry \in Entry /\ entry.known /\ entry.slot = progress[p].slot
      /\ entry.completed
  BY Typed DEF IInv, Entry
<1>. HIDE DEF entry
<1>. QED  BY <1>1, <1>2, ReportShows, ReportTyped DEF IInv

\* No report, and no item leaves the page.
LEMMA StaysShown ==
    ASSUME IInv, UNCHANGED display,
           \A q \in Pois : task["run"][q].pc \in Showing => task'["run"][q].pc \in Showing
    PROVE  /\ Shown' /\ progress' \in [Pois -> Entry] /\ slots' \in SUBSET Slots
           /\ kept' \in SUBSET Slots
  BY Typed DEF IInv, Shown, display

-----------------------------------------------------------------------------
(* What it leaves of the rest.                                             *)

\* No collection comes to its decision.
Quiet ==
    \A c \in Collectors, p \in Pois :
      \/ task'[c][p] = task[c][p]
      \/ task'[c][p].pc # "insert" /\ task'[c][p].read <= task[c][p].read

\* The latest rows are the same, but for their hashes.
SameRows ==
    \A p \in Pois : /\ latest'[p].id = latest[p].id /\ latest'[p].age = latest[p].age
                    /\ latest'[p].status = latest[p].status

\* Then every decision is as good as before.
LEMMA StillDecided ==
    ASSUME IInv, Quiet, SameRows, task' \in [Collectors -> [Pois -> Task]]
    PROVE  Decided'
<1>. SUFFICES ASSUME NEW c \in Collectors, NEW p \in Pois
              PROVE  /\ task'[c][p].read <= latest'[p].id
                     /\ task'[c][p].pc = "insert" /\ task'[c][p].read = latest'[p].id =>
                          ~(latest'[p].age = "fresh" /\ latest'[p].status = task'[c][p].status)
                            \/ task'[c][p].omits
  BY DEF Decided
<1>1. /\ task[c][p].read <= latest[p].id
      /\ task[c][p].pc = "insert" /\ task[c][p].read = latest[p].id =>
           ~(latest[p].age = "fresh" /\ latest[p].status = task[c][p].status)
             \/ task[c][p].omits
  BY DEF IInv, Decided
<1>2. CASE task'[c][p] = task[c][p]  BY <1>1, <1>2 DEF SameRows
<1>3. CASE task'[c][p].pc # "insert" /\ task'[c][p].read <= task[c][p].read
  <2>1. task[c][p] \in Task /\ task'[c][p] \in Task /\ latest[p] \in Row  BY Typed DEF IInv
  <2>. QED  BY <1>1, <1>3, <2>1, TrailAssumption DEF SameRows, Task, Row
<1>. QED  BY <1>2, <1>3 DEF Quiet

\* The run is the same, and no POI it works at is dropped.
LEMMA StaysWhole ==
    ASSUME IInv, run'.pc = run.pc, run'.todo = run.todo, run.recorded \subseteq run'.recorded,
           \A p \in Pois :
             /\ task'["run"][p].pc # "none" => task["run"][p].pc # "none"
             /\ task["run"][p].pc \in Working =>
                  task'["run"][p].pc \in Working \/ p \in run'.recorded
    PROVE  Whole'
  BY DEF IInv, Whole

\* A collection goes on or ends without a result to record: the lists stay honest.
LEMMA StaysHonest ==
    ASSUME IInv, run'.recorded \subseteq run.recorded, settled \subseteq settled',
           \A c \in Collectors, p \in Pois : task'[c][p].ids \subseteq task[c][p].ids
    PROVE  Honest'
  BY DEF IInv, Honest

\* A run has the POI recorded.
LEMMA Recorded ==
    ASSUME IInv, NEW p \in Pois, ToCheckpoint(p), task["run"][p].pc \in Showing
    PROVE  /\ run' \in Run /\ task' \in [Collectors -> [Pois -> Task]]
           /\ settled' \in SUBSET Pois /\ settled \subseteq settled'
           /\ Whole' /\ Honest' /\ Quiet
           /\ task'["run"][p].pc = "record" /\ task'["run"][p].read = 0
           /\ \A d \in Collectors, q \in Pois : d # "run" \/ q # p => task'[d][q] = task[d][q]
<1>. DEFINE x == [NoTask EXCEPT !.pc = "record", !.ids = Snapshot(p)]
<1>0. run \in Run /\ settled \in SUBSET Pois /\ task["run"][p] \in Task /\ "run" \in Collectors
  BY Typed DEF IInv, Collectors
<1>1. /\ Becomes("run", p, x) /\ run' = [run EXCEPT !.recorded = run.recorded \cup {p}]
      /\ settled' = settled \cup {p}
  BY DEF ToCheckpoint, Becomes
<1>2. /\ x \in Task /\ x.pc = "record" /\ x.read = 0 /\ x.ids = run.recorded \cup {p}
  BY <1>0, Nothing DEF Snapshot, NoTask, Task, Run
<1>. HIDE DEF x
<1>3. /\ task' \in [Collectors -> [Pois -> Task]] /\ task'["run"][p] = x
      /\ \A d \in Collectors, q \in Pois : d # "run" \/ q # p => task'[d][q] = task[d][q]
  BY <1>0, <1>1, <1>2, Changed DEF IInv
<1>4. /\ run' \in Run /\ run'.recorded = run.recorded \cup {p}
      /\ run'.pc = run.pc /\ run'.todo = run.todo
  BY <1>0, <1>1 DEF Run
<1>5. Whole'
  <2>1. \A q \in Pois : /\ task'["run"][q].pc # "none" => task["run"][q].pc # "none"
                        /\ task["run"][q].pc \in Working =>
                             task'["run"][q].pc \in Working \/ q \in run'.recorded
    BY <1>0, <1>2, <1>3, <1>4 DEF Showing
  <2>. QED  BY <1>4, <2>1, StaysWhole
<1>6. Honest'
  <2>1. run.recorded \subseteq settled /\ \A d \in Collectors, q \in Pois : task[d][q].ids \subseteq settled
    BY DEF IInv, Honest
  <2>2. run'.recorded \subseteq settled'  BY <1>1, <1>4, <2>1
  <2>3. \A d \in Collectors, q \in Pois : task'[d][q].ids \subseteq settled'
    BY <1>1, <1>2, <1>3, <2>1
  <2>. QED  BY <2>2, <2>3 DEF Honest
<1>7. Quiet  BY <1>0, <1>2, <1>3, TrailAssumption DEF Quiet, Task
<1>. QED  BY <1>0, <1>1, <1>2, <1>3, <1>4, <1>5, <1>6, <1>7

\* What Settle does: the entry is completed, and a run has the POI recorded.
LEMMA Settled ==
    ASSUME IInv, NEW c \in Collectors, NEW p \in Pois, Settle(c, p), task[c][p].pc \in Showing
    PROVE  /\ run' \in Run /\ task' \in [Collectors -> [Pois -> Task]]
           /\ settled' \in SUBSET Pois /\ settled \subseteq settled'
           /\ progress' \in [Pois -> Entry] /\ slots' \in SUBSET Slots /\ kept' \in SUBSET Slots
           /\ Shown' /\ Whole' /\ Honest' /\ Quiet
           /\ task'[c][p].pc # "insert" /\ task'[c][p].read = 0
           /\ \A d \in Collectors, q \in Pois : d # c \/ q # p => task'[d][q] = task[d][q]
<1>1. Complete(p) /\ kept' = kept /\ kept \in SUBSET Slots  BY Typed DEF Settle, IInv
<1>2. run \in Run /\ settled \in SUBSET Pois /\ task[c][p] \in Task  BY Typed DEF IInv
<1>3. CASE c = "admin"
  <2>1. Becomes(c, p, NoTask) /\ run' = run /\ settled' = settled  BY <1>3 DEF Settle, Becomes
  <2>2. /\ task' \in [Collectors -> [Pois -> Task]] /\ task'[c][p] = NoTask
        /\ \A d \in Collectors, q \in Pois : d # c \/ q # p => task'[d][q] = task[d][q]
    BY <2>1, Changed, Nothing DEF IInv
  <2>3. \A q \in Pois : task'["run"][q] = task["run"][q]  BY <1>3, <2>2 DEF Collectors
  <2>4. Shown' /\ progress' \in [Pois -> Entry] /\ slots' \in SUBSET Slots
    BY <1>1, <2>3, CompleteShows
  <2>5. Whole'  BY <2>1, <2>3, StaysWhole
  <2>6. Honest'  BY <2>1, <2>2, StaysHonest DEF NoTask
  <2>7. Quiet  BY <1>2, <2>2, TrailAssumption DEF Quiet, NoTask, Task
  <2>. QED  BY <1>1, <1>2, <2>1, <2>2, <2>4, <2>5, <2>6, <2>7 DEF NoTask
<1>4. CASE c = "run"
  <2>1. ToCheckpoint(p)  BY <1>4 DEF Settle
  <2>2. \A q \in Pois : q # p => task'["run"][q] = task["run"][q]  BY <1>4, <2>1, Recorded
  <2>3. Shown' /\ progress' \in [Pois -> Entry] /\ slots' \in SUBSET Slots
    BY <1>1, <2>2, CompleteShows
  <2>. QED  BY <1>1, <1>4, <2>1, <2>3, Recorded
<1>. QED  BY <1>3, <1>4 DEF Collectors

\* A collection of p goes on at x, with its entry reported.
LEMMA GoesOn ==
    ASSUME IInv, NEW c \in Collectors, NEW p \in Pois, task[c][p].pc \in Showing,
           NEW x \in Task, x.pc \in Showing, x.ids \subseteq task[c][p].ids,
           Becomes(c, p, x), Advance(p), UNCHANGED <<run, settled, kept>>
    PROVE  /\ task' \in [Collectors -> [Pois -> Task]] /\ task'[c][p] = x
           /\ \A d \in Collectors, q \in Pois : d # c \/ q # p => task'[d][q] = task[d][q]
           /\ progress' \in [Pois -> Entry] /\ slots' \in SUBSET Slots
           /\ Shown' /\ Whole' /\ Honest'
<1>1. /\ task' \in [Collectors -> [Pois -> Task]] /\ task'[c][p] = x
      /\ \A d \in Collectors, q \in Pois : d # c \/ q # p => task'[d][q] = task[d][q]
  BY Changed DEF IInv
<1>2. /\ task["run"][p].pc \in Showing => task'["run"][p].pc \in Showing
      /\ \A q \in Pois : q # p => task'["run"][q] = task["run"][q]
      /\ \A q \in Pois : /\ task'["run"][q].pc # "none" => task["run"][q].pc # "none"
                         /\ task["run"][q].pc \in Working => task'["run"][q].pc \in Working
  BY <1>1 DEF Collectors, Showing, Working
<1>3. Shown' /\ progress' \in [Pois -> Entry] /\ slots' \in SUBSET Slots  BY <1>2, AdvanceShows
<1>4. Whole'  BY <1>2, StaysWhole
<1>5. Honest'  BY <1>1, StaysHonest
<1>. QED  BY <1>1, <1>3, <1>4, <1>5

\* The row was not written, and settled POIs stay settled.
LEMMA RowKept ==
    ASSUME IInv, row' = row, settled \subseteq settled', settled' \in SUBSET Pois
    PROVE  ProcessedWereSettled' /\ CompletedMeansSettled'
  BY Typed DEF IInv, ProcessedWereSettled, CompletedMeansSettled

\* Parts of the invariant that a step of a collection leaves to be shown.
LEMMA Again ==
    ASSUME IInv, UNCHANGED <<row, message, up>>,
           run' \in Run, task' \in [Collectors -> [Pois -> Task]],
           progress' \in [Pois -> Entry], slots' \in SUBSET Slots, kept' \in SUBSET Slots,
           latest' \in [Pois -> Row],
           settled' \in SUBSET Pois, settled \subseteq settled',
           faults' \in [crashes : 0..MaxCrashes, failures : 0..MaxFailures],
           Honest', Whole', Shown', Decided'
    PROVE  IInv'
<1>1. TypeOK'  BY DEF IInv, TypeOK, Run, Task, Entry, Row
<1>. QED  BY <1>1, RowKept DEF IInv

-----------------------------------------------------------------------------
(* collectTrailStatus and saveTrailStatus.                                 *)

\* GiveUp keeps the invariant.
LEMMA GiveUpKeeps ==
    ASSUME IInv, NEW c \in Collectors, NEW p \in Pois, GiveUp(c, p) PROVE IInv'
<1>1. Settle(c, p) /\ task[c][p].pc \in Showing /\ row' = row  BY DEF GiveUp, Showing
<1>2. SameRows  BY DEF GiveUp, SameRows
<1>. QED  BY <1>1, <1>2, Settled, StillDecided, Again, Typed DEF GiveUp, IInv

\* QueryFails keeps the invariant.
LEMMA QueryFailsKeeps ==
    ASSUME IInv, NEW c \in Collectors, NEW p \in Pois, QueryFails(c, p) PROVE IInv'
<1>1. Settle(c, p) /\ task[c][p].pc \in Showing /\ row' = row  BY DEF QueryFails, Showing
<1>2. SameRows  BY DEF QueryFails, SameRows
<1>. QED  BY <1>1, <1>2, Settled, StillDecided, Again, Typed, Failed DEF QueryFails, IInv

\* Rendered keeps the invariant.
LEMMA RenderedKeeps ==
    ASSUME IInv, NEW c \in Collectors, NEW p \in Pois, NEW page \in Pages, Rendered(c, p, page)
    PROVE  IInv'
<1>1. SameRows /\ row' = row /\ task[c][p].pc \in Showing  BY DEF Rendered, SameRows, Showing
<1>2. CASE Settle(c, p)
  BY <1>1, <1>2, Settled, StillDecided, Again, Typed DEF Rendered, IInv
<1>3. CASE ~Settle(c, p)
  <2>. DEFINE x == [task[c][p] EXCEPT !.pc = "extract", !.page = page]
  <2>1. task[c][p] \in Task  BY Typed DEF IInv
  <2>2. Becomes(c, p, x) /\ Advance(p) /\ UNCHANGED <<run, settled, kept>>
    BY <1>3, Typed DEF Rendered, Becomes, IInv
  <2>3. /\ x \in Task /\ x.pc = "extract" /\ x.ids = task[c][p].ids /\ x.read = task[c][p].read
    BY <2>1 DEF Task
  <2>. HIDE DEF x
  <2>4. /\ task' \in [Collectors -> [Pois -> Task]] /\ task'[c][p] = x
        /\ \A d \in Collectors, q \in Pois : d # c \/ q # p => task'[d][q] = task[d][q]
        /\ progress' \in [Pois -> Entry] /\ slots' \in SUBSET Slots
        /\ Shown' /\ Whole' /\ Honest'
    BY <1>1, <2>2, <2>3, GoesOn DEF Showing
  <2>5. Quiet  BY <2>1, <2>3, <2>4, TrailAssumption DEF Quiet, Task
  <2>. QED  BY <1>1, <2>2, <2>4, <2>5, StillDecided, Again, Typed DEF Rendered, IInv
<1>. QED  BY <1>2, <1>3

\* Extracted keeps the invariant: what it decides to insert is not what the latest row says.
LEMMA ExtractedKeeps ==
    ASSUME IInv, NEW c \in Collectors, NEW p \in Pois, NEW status \in Statuses,
           NEW omits \in BOOLEAN, Extracted(c, p, status, omits)
    PROVE  IInv'
<1>0. /\ row' = row /\ task[c][p].pc \in Showing /\ task[c][p] \in Task /\ latest \in [Pois -> Row]
  BY Typed DEF Extracted, Showing, IInv
<1>1. CASE Unchanged(p, status, omits)
  <2>1. Settle(c, p) /\ latest' = [latest EXCEPT ![p].page = task[c][p].page]
    BY <1>1 DEF Extracted
  <2>2. task[c][p].page \in {0} \cup Pages  BY <1>0 DEF Task
  <2>3. latest' \in [Pois -> Row] /\ SameRows  BY <1>0, <2>1, <2>2 DEF Row, SameRows
  <2>. QED
    BY <1>0, <2>1, <2>3, Settled, StillDecided, Again, Typed DEF Extracted, IInv
<1>2. CASE ~Unchanged(p, status, omits)
  <2>. DEFINE x == [task[c][p] EXCEPT !.pc = "insert", !.status = status, !.omits = omits,
                                    !.read = latest[p].id]
  <2>0. /\ task' = [task EXCEPT ![c][p].pc = "insert", ![c][p].status = status,
                                ![c][p].omits = omits, ![c][p].read = latest[p].id]
        /\ Advance(p) /\ UNCHANGED <<latest, run, settled, kept>>
    BY <1>2 DEF Extracted
  <2>1. Becomes(c, p, x)
    <3>1. task \in [Collectors -> [Pois -> Task]]  BY Typed DEF IInv
    <3>. DEFINE id == latest[p].id
    <3>2. task' = [task EXCEPT ![c][p].pc = "insert", ![c][p].status = status,
                               ![c][p].omits = omits, ![c][p].read = id]
      BY <2>0
    <3>. HIDE DEF id
    <3>3. task' = [task EXCEPT ![c][p] = [task[c][p] EXCEPT !.pc = "insert", !.status = status,
                                                            !.omits = omits, !.read = id]]
      BY <3>1, <3>2
    <3>. QED  BY <3>3 DEF Becomes, id
  <2>2. /\ x \in Task /\ x.pc = "insert" /\ x.ids = task[c][p].ids
        /\ x.read = latest[p].id /\ x.status = status /\ x.omits = omits
    BY <1>0 DEF Task, Row
  <2>. HIDE DEF x
  <2>3. /\ task' \in [Collectors -> [Pois -> Task]] /\ task'[c][p] = x
        /\ \A d \in Collectors, q \in Pois : d # c \/ q # p => task'[d][q] = task[d][q]
        /\ progress' \in [Pois -> Entry] /\ slots' \in SUBSET Slots
        /\ Shown' /\ Whole' /\ Honest'
    BY <1>0, <2>0, <2>1, <2>2, GoesOn DEF Showing
  <2>4. Decided'
    <3>. SUFFICES ASSUME NEW d \in Collectors, NEW q \in Pois
                  PROVE  /\ task'[d][q].read <= latest[q].id
                         /\ task'[d][q].pc = "insert" /\ task'[d][q].read = latest[q].id =>
                              ~(latest[q].age = "fresh" /\ latest[q].status = task'[d][q].status)
                                \/ task'[d][q].omits
      BY <2>0 DEF Decided
    <3>1. CASE d = c /\ q = p
      <4>1. latest[p].id <= latest[p].id  BY <1>0, TrailAssumption DEF Row
      <4>. QED  BY <1>2, <2>2, <2>3, <3>1, <4>1 DEF Unchanged
    <3>2. CASE d # c \/ q # p  BY <2>3, <3>2 DEF IInv, Decided
    <3>. QED  BY <3>1, <3>2
  <2>. QED  BY <1>0, <2>0, <2>3, <2>4, Again, Typed DEF Extracted, IInv
<1>. QED  BY <1>1, <1>2

\* Insert keeps the invariant: others decided on an earlier row.
LEMMA InsertKeeps ==
    ASSUME IInv, NEW c \in Collectors, NEW p \in Pois, Insert(c, p) PROVE IInv'
<1>0. /\ row' = row /\ task[c][p].pc \in Showing /\ task[c][p] \in Task /\ latest \in [Pois -> Row]
      /\ Settle(c, p)
  BY Typed DEF Insert, Showing, IInv
<1>. DEFINE new == [id |-> latest[p].id + 1, page |-> task[c][p].page,
                    status |-> task[c][p].status, age |-> "fresh"]
<1>1. latest' = [latest EXCEPT ![p] = new]  BY DEF Insert
<1>2. new \in Row /\ new.id = latest[p].id + 1
  BY <1>0, TrailAssumption DEF Insert, Row, Task
<1>. HIDE DEF new
<1>3. latest' \in [Pois -> Row] /\ latest'[p].id = latest[p].id + 1
      /\ \A q \in Pois : q # p => latest'[q] = latest[q]
  BY <1>0, <1>1, <1>2
<1>4. /\ task' \in [Collectors -> [Pois -> Task]]
      /\ task'[c][p].pc # "insert" /\ task'[c][p].read = 0
      /\ \A d \in Collectors, q \in Pois : d # c \/ q # p => task'[d][q] = task[d][q]
  BY <1>0, Settled
<1>5. Decided'
  <2>. SUFFICES ASSUME NEW d \in Collectors, NEW q \in Pois
                PROVE  /\ task'[d][q].read <= latest'[q].id
                       /\ task'[d][q].pc = "insert" /\ task'[d][q].read = latest'[q].id =>
                            ~(latest'[q].age = "fresh" /\ latest'[q].status = task'[d][q].status)
                              \/ task'[d][q].omits
    BY DEF Decided
  <2>1. CASE q # p  BY <1>3, <1>4, <2>1 DEF IInv, Decided
  <2>2. CASE q = p /\ d = c
    <3>1. 0 <= latest'[p].id  BY <1>3, TrailAssumption DEF Row
    <3>. QED  BY <1>4, <2>2, <3>1
  <2>3. CASE q = p /\ d # c
    <3>1. task'[d][p] = task[d][p] /\ task[d][p].read <= latest[p].id
      BY <1>4, <2>3 DEF IInv, Decided
    <3>2. task[d][p].read \in Int /\ latest[p].id \in Int
      BY <1>0, Typed, TrailAssumption DEF IInv, Task, Row
    <3>3. task'[d][p].read < latest'[p].id  BY <1>3, <3>1, <3>2
    <3>4. task'[d][p].read \in Int /\ latest'[p].id \in Int  BY <1>3, <3>1, <3>2
    <3>. QED  BY <2>3, <3>3, <3>4
  <2>. QED  BY <2>1, <2>2, <2>3
<1>. QED  BY <1>0, <1>3, <1>5, Settled, Again, Typed DEF Insert, IInv

\* CollectOne keeps the invariant: the entry it overwrites is completed, or none.
LEMMA CollectOneKeeps == ASSUME IInv, NEW p \in Pois, CollectOne(p) PROVE IInv'
<1>0. task["admin"][p] \in Task /\ progress[p] \in Entry  BY Typed DEF IInv, Collectors
<1>. DEFINE x == [task["admin"][p] EXCEPT !.pc = "render"]
<1>1. Becomes("admin", p, x)  BY Typed DEF CollectOne, Becomes, IInv, Collectors
<1>2. /\ x \in Task /\ x.pc = "render" /\ x.ids = task["admin"][p].ids
      /\ x.read = task["admin"][p].read
  BY <1>0 DEF Task
<1>. HIDE DEF x
<1>3. /\ task' \in [Collectors -> [Pois -> Task]] /\ task'["admin"][p] = x
      /\ \A d \in Collectors, q \in Pois : d # "admin" \/ q # p => task'[d][q] = task[d][q]
  BY <1>1, <1>2, Changed DEF IInv, Collectors
<1>4. /\ progress' \in [Pois -> Entry]
      /\ progress'[p].known /\ progress'[p].slot = NoSlot
      /\ \A q \in Pois : q # p => progress'[q] = progress[q]
      /\ slots' = slots /\ kept' = kept /\ kept \in SUBSET Slots
  BY Typed, Nothing DEF CollectOne, IInv, NoProgress, Entry
<1>5. \A q \in Pois : task'["run"][q] = task["run"][q]  BY <1>3 DEF Collectors
<1>6. Shown'
  <2>1. ASSUME NEW s \in slots \ kept
        PROVE  \E q \in Pois : progress'[q].slot = s /\ ~progress'[q].completed
    <3>1. PICK q \in Pois : progress[q].slot = s /\ ~progress[q].completed  BY DEF IInv, Shown
    <3>2. s # NoSlot  BY Typed DEF IInv, Slots, NoSlot
    <3>3. q # p  BY <3>1, <3>2 DEF CollectOne, IInv, Shown, NoProgress
    <3>. QED  BY <1>4, <3>1, <3>3
  <2>2. \A q \in Pois :
          /\ progress'[q].slot # NoSlot /\ ~progress'[q].completed =>
               task'["run"][q].pc \in Showing \/ progress'[q].slot \in kept
          /\ ~progress'[q].known => progress'[q] = NoProgress
    BY <1>4, <1>5 DEF IInv, Shown
  <2>. QED  BY <1>4, <2>1, <2>2 DEF Shown
<1>7. Whole'  BY <1>5, StaysWhole DEF CollectOne, job
<1>8. Honest'  BY <1>2, <1>3, StaysHonest DEF CollectOne, job
<1>9. Quiet /\ SameRows
  <2>1. x.read <= task["admin"][p].read  BY <1>0, <1>2, TrailAssumption DEF Task
  <2>. QED  BY <1>2, <1>3, <2>1 DEF Quiet, SameRows, CollectOne
<1>. QED
  BY <1>3, <1>4, <1>6, <1>7, <1>8, <1>9, StillDecided, Again, Typed DEF CollectOne, IInv, job

-----------------------------------------------------------------------------
(* processTrailStatusCollectionJob, pg-boss, the requests and the startup. *)

RowStatuses == {"none", "queued", "running", "completed", "cancelled", "failed"}
Deliveries == [state : {"none", "unsent", "queued", "active", "over"}, tries : 0..RetryLimit]

\* Steps of no collection keep the invariant once the run is known to be whole, and
\* "completed" to be true.
LEMMA JobKeeps ==
    ASSUME IInv, UNCHANGED <<task, progress, kept, latest, settled>>, slots' \in SUBSET slots,
           row' \in [status : RowStatuses, processed : SUBSET Pois], row'.processed = row.processed,
           row'.status = "completed" => row.status = "completed" \/ settled = Pois,
           message' \in Deliveries, up' \in BOOLEAN, run' \in Run, run'.recorded \subseteq settled,
           Whole', faults' \in [crashes : 0..MaxCrashes, failures : 0..MaxFailures]
    PROVE  IInv'
<1>1. TypeOK'  BY DEF IInv, TypeOK, Run, RowStatuses, Deliveries
<1>2. ProcessedWereSettled' /\ CompletedMeansSettled'
  BY DEF IInv, ProcessedWereSettled, CompletedMeansSettled
<1>3. Honest' /\ Shown' /\ Decided'  BY DEF IInv, Honest, Shown, Decided
<1>. QED  BY <1>1, <1>2, <1>3 DEF IInv

\* A run at another label than "batch" has no item in flight, and may be anything
\* but a batch.
LEMMA Rests ==
    ASSUME IInv, run.pc # "batch" \/ InFlight = {}
    PROVE  \A p \in Pois : task["run"][p].pc = "none"
  BY DEF IInv, Whole, InFlight

\* So such a run is whole.
LEMMA RestsWhole ==
    ASSUME IInv, run.pc # "batch" \/ InFlight = {}, task' = task, run'.pc \notin {"start", "batch"}
    PROVE  Whole'
  BY Rests DEF Whole

\* The values a message can take.
LEMMA GivenBack == ASSUME TypeOK, GiveBack PROVE message' \in Deliveries
  BY TrailAssumption DEF TypeOK, GiveBack, Deliveries

\* ReadJob and StartBatch keep the invariant.
LEMMA ReadJobKeeps == ASSUME IInv, ReadJob PROVE IInv'
<1>1. row.processed \subseteq settled /\ row.processed \subseteq Pois /\ settled \subseteq Pois
  BY DEF IInv, TypeOK, ProcessedWereSettled
<1>2. /\ run' \in Run /\ run'.pc = "start" /\ run'.recorded = row.processed
      /\ run'.todo = Pois \ row.processed
  BY <1>1, Typed DEF ReadJob, IInv, Run
<1>3. \A p \in Pois : task["run"][p].pc = "none"  BY Rests DEF ReadJob
<1>4. Whole'  BY <1>2, <1>3 DEF ReadJob, Whole
<1>. QED  BY <1>1, <1>2, <1>4, JobKeeps, Typed DEF ReadJob, IInv, RowStatuses, Deliveries, display

\* The slots are emptied: none is owed to an item yet.
LEMMA StartBatchKeeps == ASSUME IInv, StartBatch PROVE IInv'
<1>1. run' \in Run /\ run'.pc = "batch" /\ run'.todo = run.todo /\ run'.recorded = run.recorded
  BY Typed DEF StartBatch, Goto, IInv, Run
<1>2. \A p \in Pois : task["run"][p].pc = "none"  BY Rests DEF StartBatch
<1>3. Whole'  BY <1>1, <1>2 DEF StartBatch, IInv, Whole
<1>4. /\ row' \in [status : RowStatuses, processed : SUBSET Pois] /\ row'.processed = row.processed
      /\ row'.status = "running"
  BY Typed DEF StartBatch, IInv, RowStatuses
<1>. QED
  BY <1>1, <1>3, <1>4, JobKeeps, Typed DEF StartBatch, IInv, Honest, Deliveries

\* ClaimItem keeps the invariant.
LEMMA ClaimItemKeeps == ASSUME IInv, NEW p \in Pois, ClaimItem(p) PROVE IInv'
<1>0. task["run"][p] \in Task /\ AvailableSlot \in {NoSlot} \cup Slots
  BY Typed, SlotFound DEF IInv, Collectors
<1>. DEFINE slot == AvailableSlot
            x == [task["run"][p] EXCEPT !.pc = "chosen", !.slot = slot]
<1>. HIDE DEF slot
<1>1. Becomes("run", p, x)
  <2>1. task' = [task EXCEPT !["run"][p].pc = "chosen", !["run"][p].slot = slot]
    BY DEF ClaimItem, slot
  <2>2. task \in [Collectors -> [Pois -> Task]] /\ "run" \in Collectors  BY Typed DEF IInv, Collectors
  <2>. QED  BY <2>1, <2>2 DEF Becomes
<1>2. /\ x \in Task /\ x.pc = "chosen" /\ x.ids = task["run"][p].ids /\ x.read = task["run"][p].read
  BY <1>0 DEF Task, slot
<1>. HIDE DEF x
<1>3. /\ task' \in [Collectors -> [Pois -> Task]] /\ task'["run"][p] = x
      /\ \A d \in Collectors, q \in Pois : d # "run" \/ q # p => task'[d][q] = task[d][q]
  BY <1>1, <1>2, Changed DEF IInv, Collectors
<1>4. /\ run' \in Run /\ run'.pc = "batch" /\ run'.recorded = run.recorded
      /\ run'.todo = run.todo \ {p} /\ run.pc = "batch" /\ p \in run.todo
  BY Typed DEF ClaimItem, IInv, Run
<1>5. task["run"][p].pc = "none"  BY <1>4 DEF IInv, Whole
<1>6. /\ Shown' /\ progress' \in [Pois -> Entry] /\ slots' \in SUBSET Slots
      /\ kept' \in SUBSET Slots
  BY <1>3, <1>5, StaysShown DEF ClaimItem, Showing, Collectors
<1>7. Whole'
  <2>1. \A q \in Pois : q # p => task'["run"][q] = task["run"][q]  BY <1>3 DEF Collectors
  <2>. QED  BY <1>2, <1>3, <1>4, <2>1 DEF IInv, Whole, Working
<1>8. Honest'  BY <1>2, <1>3, <1>4, StaysHonest DEF ClaimItem
<1>9. Quiet /\ SameRows
  <2>1. x.read <= task["run"][p].read  BY <1>0, <1>2, TrailAssumption DEF Task
  <2>. QED  BY <1>2, <1>3, <2>1 DEF Quiet, SameRows, ClaimItem
<1>. QED
  BY <1>3, <1>4, <1>6, <1>7, <1>8, <1>9, StillDecided, Again, Typed DEF ClaimItem, IInv

\* An item that is on its way goes to "query", or one that settled is done with.
LEMMA ItemMoves ==
    ASSUME IInv, NEW p \in Pois, NEW x \in Task, Becomes("run", p, x), UNCHANGED <<run, settled>>,
           latest' = latest, x.read = 0, x.ids = {},
           \/ task["run"][p].pc = "chosen" /\ x.pc = "query"
           \/ task["run"][p].pc = "record" /\ x.pc = "none"
    PROVE  /\ task' \in [Collectors -> [Pois -> Task]] /\ task'["run"][p] = x
           /\ \A q \in Pois : q # p => task'["run"][q] = task["run"][q]
           /\ Whole' /\ Honest' /\ Decided'
           /\ \A q \in Pois : task["run"][q].pc \in Showing => task'["run"][q].pc \in Showing
<1>1. /\ task' \in [Collectors -> [Pois -> Task]] /\ task'["run"][p] = x
      /\ \A d \in Collectors, q \in Pois : d # "run" \/ q # p => task'[d][q] = task[d][q]
  BY Changed DEF IInv, Collectors
<1>2. \A q \in Pois : q # p => task'["run"][q] = task["run"][q]  BY <1>1 DEF Collectors
<1>3. \A q \in Pois :
        /\ task'["run"][q].pc # "none" => task["run"][q].pc # "none"
        /\ task["run"][q].pc \in Working => task'["run"][q].pc \in Working
        /\ task["run"][q].pc \in Showing => task'["run"][q].pc \in Showing
  BY <1>1, <1>2 DEF Working, Showing
<1>4. Whole'  BY <1>3, StaysWhole
<1>5. Honest'  BY <1>1, StaysHonest
<1>6. Quiet /\ SameRows
  <2>1. task["run"][p].read \in 0..MaxRows  BY Typed DEF IInv, Collectors, Task
  <2>2. 0 <= task["run"][p].read  BY <2>1, TrailAssumption
  <2>. QED  BY <1>1, <2>2 DEF Quiet, SameRows
<1>. QED  BY <1>1, <1>2, <1>3, <1>4, <1>5, <1>6, StillDecided

\* The cells of an item without a slot to choose.
LEMMA Cells ==
    /\ NoTask.pc = "none" /\ NoTask.read = 0 /\ NoTask.ids = {}
    /\ \A pc \in {"query", "render"} :
         /\ [NoTask EXCEPT !.pc = pc] \in Task /\ [NoTask EXCEPT !.pc = pc].pc = pc
         /\ [NoTask EXCEPT !.pc = pc].read = 0 /\ [NoTask EXCEPT !.pc = pc].ids = {}
  BY Nothing DEF NoTask, Task

\* ItemStarted keeps the invariant: the entry it overwrites holds no slot but a kept one.
LEMMA ItemStartedKeeps == ASSUME IInv, NEW p \in Pois, ItemStarted(p) PROVE IInv'
<1>. DEFINE entry == [known |-> TRUE, completed |-> FALSE, slot |-> task["run"][p].slot]
            x == [NoTask EXCEPT !.pc = "query"]
<1>0. Becomes("run", p, x) /\ Report(p, entry)  BY DEF ItemStarted, Move, Becomes
<1>1. entry \in Entry /\ entry.known /\ ~entry.completed  BY Typed DEF IInv, Collectors, Task, Entry
<1>. HIDE DEF entry, x
<1>2. /\ task' \in [Collectors -> [Pois -> Task]] /\ task'["run"][p] = x
      /\ \A q \in Pois : q # p => task'["run"][q] = task["run"][q]
      /\ Whole' /\ Honest' /\ Decided'
  BY <1>0, Cells, ItemMoves DEF ItemStarted, job, x
<1>3. progress[p].slot = NoSlot \/ progress[p].completed \/ progress[p].slot \in kept
  BY DEF ItemStarted, IInv, Shown, Showing
<1>4. task'["run"][p].pc \in Showing  BY <1>2, Cells DEF x, Showing
<1>5. Shown' /\ progress' \in [Pois -> Entry] /\ slots' \in SUBSET Slots
  BY <1>0, <1>1, <1>2, <1>3, <1>4, ReportShows, ReportTyped DEF IInv, ItemStarted
<1>. QED  BY <1>2, <1>5, Again, Typed DEF ItemStarted, job, IInv

\* ItemStartFails keeps the invariant.
LEMMA ItemStartFailsKeeps == ASSUME IInv, NEW p \in Pois, ItemStartFails(p) PROVE IInv'
<1>. DEFINE x == [NoTask EXCEPT !.pc = "query"]
<1>0. Becomes("run", p, x)  BY DEF ItemStartFails, Move, Becomes
<1>. HIDE DEF x
<1>1. /\ task' \in [Collectors -> [Pois -> Task]]
      /\ Whole' /\ Honest' /\ Decided'
      /\ \A q \in Pois : task["run"][q].pc \in Showing => task'["run"][q].pc \in Showing
  BY <1>0, Cells, ItemMoves DEF ItemStartFails, job, x
<1>2. /\ Shown' /\ progress' \in [Pois -> Entry] /\ slots' \in SUBSET Slots
      /\ kept' \in SUBSET Slots
  BY <1>1, StaysShown DEF ItemStartFails
<1>. QED  BY <1>1, <1>2, Again, Typed, Failed DEF ItemStartFails, QueryFailsOrFindsNone, job, IInv

\* ItemRead keeps the invariant.
LEMMA ItemReadKeeps == ASSUME IInv, NEW p \in Pois, ItemRead(p) PROVE IInv'
<1>. DEFINE x == [NoTask EXCEPT !.pc = "render"]
<1>0. /\ Becomes("run", p, x) /\ "run" \in Collectors /\ task["run"][p].pc = "query"
      /\ task["run"][p] \in Task
  BY Typed DEF ItemRead, Move, Becomes, Collectors, IInv
<1>1. x \in Task /\ x.pc = "render" /\ x.read = 0 /\ x.ids = {}  BY Cells
<1>. HIDE DEF x
<1>2. /\ task' \in [Collectors -> [Pois -> Task]] /\ task'["run"][p] = x
      /\ \A d \in Collectors, q \in Pois : d # "run" \/ q # p => task'[d][q] = task[d][q]
      /\ progress' \in [Pois -> Entry] /\ slots' \in SUBSET Slots
      /\ Shown' /\ Whole' /\ Honest'
  BY <1>0, <1>1, GoesOn DEF ItemRead, job, Showing
<1>3. Quiet /\ SameRows
  <2>1. 0 <= task["run"][p].read  BY <1>0, TrailAssumption DEF Task
  <2>. QED  BY <1>1, <1>2, <2>1 DEF Quiet, SameRows, ItemRead
<1>. QED  BY <1>2, <1>3, StillDecided, Again, Typed DEF ItemRead, job, IInv

\* ItemUnread keeps the invariant: the entry's slot is one of those kept from now on.
LEMMA ItemUnreadKeeps == ASSUME IInv, NEW p \in Pois, ItemUnread(p) PROVE IInv'
<1>1. /\ ToCheckpoint(p) /\ task["run"][p].pc \in Showing
      /\ UNCHANGED <<row, message, up, progress, slots, latest>>
      /\ kept' = kept \cup {s \in Slots : s = progress[p].slot /\ ~progress[p].completed}
  BY DEF ItemUnread, Showing
<1>2. \A q \in Pois : q # p => task'["run"][q] = task["run"][q]  BY <1>1, Recorded DEF Collectors
<1>3. Shown'
  <2>1. kept \subseteq kept'  BY <1>1
  <2>2. \A s \in slots' \ kept' : \E q \in Pois : progress'[q].slot = s /\ ~progress'[q].completed
    BY <1>1, <2>1 DEF IInv, Shown
  <2>3. ASSUME NEW q \in Pois, progress[q].slot # NoSlot, ~progress[q].completed
        PROVE  task'["run"][q].pc \in Showing \/ progress[q].slot \in kept'
    <3>1. CASE q = p
      <4>1. progress[p].slot \in Slots  BY <2>3, <3>1, Typed DEF IInv, Entry
      <4>. QED  BY <1>1, <2>3, <3>1, <4>1
    <3>2. CASE q # p  BY <1>2, <2>1, <2>3, <3>2 DEF IInv, Shown
    <3>. QED  BY <3>1, <3>2
  <2>4. \A q \in Pois : ~progress[q].known => progress[q] = NoProgress  BY DEF IInv, Shown
  <2>. QED  BY <1>1, <2>2, <2>3, <2>4 DEF Shown
<1>4. kept' \in SUBSET Slots  BY <1>1, Typed DEF IInv
<1>5. SameRows  BY <1>1 DEF SameRows
<1>6. Decided'  BY <1>1, <1>5, Recorded, StillDecided
<1>. QED
  BY <1>1, <1>3, <1>4, <1>6, Recorded, Again, Typed, Failed DEF ItemUnread, QueryFailsOrFindsNone, IInv

\* CheckpointFails keeps the invariant.
LEMMA CheckpointFailsKeeps == ASSUME IInv, NEW p \in Pois, CheckpointFails(p) PROVE IInv'
<1>0. Becomes("run", p, NoTask)  BY DEF CheckpointFails, Becomes
<1>1. /\ task' \in [Collectors -> [Pois -> Task]]
      /\ Whole' /\ Honest' /\ Decided'
      /\ \A q \in Pois : task["run"][q].pc \in Showing => task'["run"][q].pc \in Showing
  BY <1>0, Nothing, Cells, ItemMoves DEF CheckpointFails, job
<1>2. /\ Shown' /\ progress' \in [Pois -> Entry] /\ slots' \in SUBSET Slots
      /\ kept' \in SUBSET Slots
  BY <1>1, StaysShown DEF CheckpointFails
<1>. QED  BY <1>1, <1>2, Again, Typed, Failed DEF CheckpointFails, job, IInv

\* Checkpoint keeps the invariant: whichever list lands, it was settled.
LEMMA CheckpointKeeps == ASSUME IInv, NEW p \in Pois, Checkpoint(p) PROVE IInv'
<1>0. Becomes("run", p, NoTask)  BY DEF Checkpoint, Becomes
<1>1. /\ task' \in [Collectors -> [Pois -> Task]]
      /\ Whole' /\ Honest' /\ Decided'
      /\ \A q \in Pois : task["run"][q].pc \in Showing => task'["run"][q].pc \in Showing
  BY <1>0, Nothing, Cells, ItemMoves DEF Checkpoint
<1>2. /\ Shown' /\ progress' \in [Pois -> Entry] /\ slots' \in SUBSET Slots
      /\ kept' \in SUBSET Slots
  BY <1>1, StaysShown DEF Checkpoint
<1>3. task["run"][p].ids \in SUBSET Pois /\ task["run"][p].ids \subseteq settled
  BY Typed DEF IInv, Honest, Collectors, Task
<1>4. /\ row' \in [status : RowStatuses, processed : SUBSET Pois] /\ row'.status = row.status
      /\ row'.processed \subseteq settled
  BY <1>3, Typed DEF Checkpoint, IInv, RowStatuses
<1>5. TypeOK'  BY <1>1, <1>2, <1>4 DEF Checkpoint, IInv, TypeOK, Task, Entry, RowStatuses
<1>6. ProcessedWereSettled' /\ CompletedMeansSettled'
  BY <1>4 DEF Checkpoint, IInv, ProcessedWereSettled, CompletedMeansSettled
<1>. QED  BY <1>1, <1>2, <1>5, <1>6 DEF IInv

\* MarkCompleted keeps the invariant: with no item left or at work, all are recorded.
LEMMA MarkCompletedKeeps == ASSUME IInv, MarkCompleted PROVE IInv'
<1>1. InFlight = {} /\ run.todo = {} /\ run.pc = "batch"  BY DEF MarkCompleted, BatchOver
<1>2. settled = Pois
  <2>1. \A p \in Pois : task["run"][p].pc = "none"  BY <1>1, Rests
  <2>2. Pois \subseteq run.recorded  BY <1>1, <2>1 DEF IInv, Whole, Working
  <2>. QED  BY <2>2, Typed DEF IInv, Honest
<1>3. run' \in Run /\ run'.pc = "return" /\ run'.recorded = run.recorded
  BY Typed DEF MarkCompleted, Goto, IInv, Run
<1>4. Whole'  BY <1>1, <1>3, RestsWhole DEF MarkCompleted
<1>5. row' \in [status : RowStatuses, processed : SUBSET Pois] /\ row'.processed = row.processed
  BY Typed DEF MarkCompleted, IInv, RowStatuses
<1>. QED
  BY <1>2, <1>3, <1>4, <1>5, JobKeeps, Typed DEF MarkCompleted, IInv, Honest, Deliveries, display

\* HandlerFails, MarkFailed and MarkFailedFails keep the invariant.
LEMMA HandlerFailsKeeps == ASSUME IInv, HandlerFails PROVE IInv'
<1>1. run' \in Run /\ run'.pc = "fail" /\ run'.recorded = run.recorded
  BY Typed DEF HandlerFails, Goto, IInv, Run
<1>2. Whole'  BY <1>1, RestsWhole DEF HandlerFails, BatchOver
<1>. QED
  BY <1>1, <1>2, JobKeeps, Failed, Typed
  DEF HandlerFails, IInv, Honest, RowStatuses, Deliveries, display

\* "failed" is written over any status.
LEMMA MarkFailedKeeps == ASSUME IInv, MarkFailed PROVE IInv'
<1>1. run' \in Run /\ run'.pc = "throw" /\ run'.recorded = run.recorded
  BY Typed DEF MarkFailed, Goto, IInv, Run
<1>2. Whole'  BY <1>1, RestsWhole DEF MarkFailed
<1>3. /\ row' \in [status : RowStatuses, processed : SUBSET Pois] /\ row'.processed = row.processed
      /\ row'.status = "failed"
  BY Typed DEF MarkFailed, IInv, RowStatuses
<1>. QED
  BY <1>1, <1>2, <1>3, JobKeeps, Typed DEF MarkFailed, IInv, Honest, Deliveries, display

\* And when that write fails, the handler throws all the same.
LEMMA MarkFailedFailsKeeps == ASSUME IInv, MarkFailedFails PROVE IInv'
<1>1. run' \in Run /\ run'.pc = "throw" /\ run'.recorded = run.recorded
  BY Typed DEF MarkFailedFails, Goto, IInv, Run
<1>2. Whole'  BY <1>1, RestsWhole DEF MarkFailedFails
<1>. QED
  BY <1>1, <1>2, JobKeeps, Failed, Typed
  DEF MarkFailedFails, IInv, Honest, RowStatuses, Deliveries, display

\* Steps that leave the run alone leave it whole.
LEMMA SameWhole == ASSUME IInv, UNCHANGED <<run, task>> PROVE Whole'
  BY DEF IInv, Whole

\* CreateJob, Submit, SubmitFails, Expire and CancelJob keep the invariant: they
\* write the row's status, none of them "completed", and the message.
LEMMA RequestsKeep ==
    ASSUME IInv, CreateJob \/ Submit \/ SubmitFails \/ Expire \/ CancelJob
    PROVE  IInv'
<1>. USE DEF display
<1>1. UNCHANGED <<run, task, progress, slots, kept, latest, settled, up>>
  BY DEF CreateJob, Submit, SubmitFails, Expire, CancelJob
<1>2. /\ row' \in [status : RowStatuses, processed : SUBSET Pois] /\ row'.processed = row.processed
      /\ row'.status = "completed" => row.status = "completed"
  BY Typed DEF CreateJob, Submit, SubmitFails, Expire, CancelJob, IInv, RowStatuses
<1>3. message' \in Deliveries
  BY Typed, GivenBack DEF CreateJob, Submit, SubmitFails, Expire, CancelJob, IInv, Deliveries
<1>4. faults' \in [crashes : 0..MaxCrashes, failures : 0..MaxFailures]
  BY Typed, Failed DEF CreateJob, Submit, SubmitFails, Expire, CancelJob, IInv
<1>5. Whole'  BY <1>1, SameWhole
<1>. QED  BY <1>1, <1>2, <1>3, <1>4, <1>5, JobKeeps, Typed DEF IInv, Honest

\* Deliver keeps the invariant.
LEMMA DeliverKeeps == ASSUME IInv, Deliver PROVE IInv'
<1>1. run' \in Run /\ run'.pc = "read" /\ run'.recorded = run.recorded
  BY Typed DEF Deliver, IInv, Run
<1>2. Whole'  BY <1>1, RestsWhole DEF Deliver
<1>3. message' \in Deliveries  BY Typed DEF Deliver, IInv, Deliveries
<1>. QED
  BY <1>1, <1>2, <1>3, JobKeeps, Typed DEF Deliver, IInv, Honest, RowStatuses, display

\* Return keeps the invariant.
LEMMA ReturnKeeps == ASSUME IInv, Return PROVE IInv'
<1>1. run' \in Run /\ run'.pc = "unused" /\ run'.recorded = {}
  BY Nothing DEF Return, NoRun
<1>2. Whole'  BY <1>1, RestsWhole DEF Return
<1>3. message' \in Deliveries  BY Typed, GivenBack DEF Return, IInv, Deliveries
<1>. QED
  BY <1>1, <1>2, <1>3, JobKeeps, Typed DEF Return, IInv, Honest, RowStatuses, display

\* Startup keeps the invariant.
LEMMA StartupKeeps == ASSUME IInv, Startup PROVE IInv'
<1>1. Whole'  BY SameWhole DEF Startup
<1>2. /\ row' \in [status : RowStatuses, processed : SUBSET Pois] /\ row'.processed = row.processed
      /\ row'.status = "completed" => row.status = "completed"
  BY Typed DEF Startup, IInv, RowStatuses
<1>. QED  BY <1>1, <1>2, JobKeeps, Typed DEF Startup, IInv, Honest, Deliveries, display

\* Crash keeps the invariant: what was only in memory is gone, and with it every
\* claim about it.
LEMMA CrashKeeps == ASSUME IInv, Crash PROVE IInv'
<1>1. faults' \in [crashes : 0..MaxCrashes, failures : 0..MaxFailures]
  BY TrailAssumption, Typed DEF Crash, IInv
<1>2. message' \in Deliveries  BY Typed DEF Crash, IInv, Deliveries
<1>3. TypeOK'
  <2>1. /\ UNCHANGED <<row, settled, latest>> /\ up' \in BOOLEAN /\ run' = NoRun
        /\ slots' = {} /\ kept' = {}
        /\ task' \in [Collectors -> [Pois -> Task]] /\ progress' \in [Pois -> Entry]
    BY Nothing DEF Crash
  <2>. QED  BY <1>1, <1>2, <2>1, Nothing DEF IInv, TypeOK, Task, Run, Entry, Deliveries
<1>4. /\ \A c \in Collectors, p \in Pois : task'[c][p] = NoTask
      /\ \A p \in Pois : progress'[p] = NoProgress
      /\ run' = NoRun /\ slots' = {} /\ "run" \in Collectors
      /\ UNCHANGED <<row, settled, latest>>
  BY DEF Crash, Collectors
<1>5. ProcessedWereSettled' /\ CompletedMeansSettled'
  BY <1>4 DEF IInv, ProcessedWereSettled, CompletedMeansSettled
<1>6. Honest' /\ Whole' /\ Shown'
  <2>1. \A c \in Collectors, p \in Pois : task'[c][p].pc = "none" /\ task'[c][p].ids = {}
    BY <1>4 DEF NoTask
  <2>2. \A p \in Pois : progress'[p].slot = NoSlot  BY <1>4 DEF NoProgress
  <2>3. run'.pc = "unused" /\ run'.recorded = {}  BY <1>4 DEF NoRun
  <2>4. Honest'  BY <2>1, <2>3 DEF Honest
  <2>5. Whole'  BY <1>4, <2>1, <2>3 DEF Whole
  <2>6. Shown'  BY <1>4, <2>2 DEF Shown
  <2>. QED  BY <2>4, <2>5, <2>6
<1>7. Decided'
  <2>1. \A p \in Pois : latest[p].id \in 0..MaxRows  BY Typed DEF IInv, Row
  <2>2. \A p \in Pois : 0 <= latest[p].id  BY <2>1, TrailAssumption
  <2>. QED  BY <1>4, <2>2 DEF Decided, NoTask
<1>. QED  BY <1>3, <1>5, <1>6, <1>7 DEF IInv

\* Wipe keeps the invariant: no row is fresh any more.
LEMMA WipeKeeps == ASSUME IInv, Wipe PROVE IInv'
<1>. DEFINE gone(p) == [id |-> latest[p].id, page |-> 0, status |-> 0, age |-> "gone"]
<1>1. /\ UNCHANGED <<row, message, up, run, settled, task, progress, slots, kept, faults>>
      /\ latest' = [p \in Pois |-> gone(p)]
  BY DEF Wipe, job, display
<1>2. \A p \in Pois : gone(p) \in Row /\ gone(p).id = latest[p].id /\ gone(p).age # "fresh"
  BY Typed DEF IInv, Row
<1>. HIDE DEF gone
<1>3. latest' \in [Pois -> Row] /\ \A p \in Pois : latest'[p].id = latest[p].id /\ latest'[p].age # "fresh"
  BY <1>1, <1>2
<1>4. Honest' /\ Whole' /\ Shown'  BY <1>1 DEF IInv, Honest, Whole, Shown
<1>5. Decided'  BY <1>1, <1>3 DEF IInv, Decided
<1>. QED  BY <1>1, <1>3, <1>4, <1>5, Again, Typed DEF IInv

-----------------------------------------------------------------------------
(* The theorems.                                                           *)

\* With no collection, no entry and no run, nothing is claimed.
LEMMA Cleared ==
    ASSUME \A c \in Collectors, p \in Pois : task[c][p] = NoTask,
           \A p \in Pois : progress[p] = NoProgress, run = NoRun, slots = {}
    PROVE  Honest /\ Whole /\ Shown
<1>1. \A c \in Collectors, p \in Pois : task[c][p].pc = "none" /\ task[c][p].ids = {}
  BY DEF NoTask
<1>2. \A p \in Pois : progress[p].slot = NoSlot  BY DEF NoProgress
<1>3. run.pc = "unused" /\ run.recorded = {} /\ "run" \in Collectors  BY DEF NoRun, Collectors
<1>4. Honest  BY <1>1, <1>3 DEF Honest
<1>5. Whole  BY <1>1, <1>3 DEF Whole
<1>6. Shown  BY <1>2 DEF Shown
<1>. QED  BY <1>4, <1>5, <1>6

\* The invariant holds at first.
LEMMA InitHolds == Init => IInv
<1>. SUFFICES ASSUME Init PROVE IInv  OBVIOUS
<1>1. /\ \A c \in Collectors, p \in Pois : task[c][p] = NoTask
      /\ \A p \in Pois : progress[p] = NoProgress
      /\ run = NoRun /\ slots = {} /\ settled = {} /\ row = [status |-> "none", processed |-> {}]
      /\ "run" \in Collectors
  BY DEF Init, Collectors
<1>2. latest \in [Pois -> Row] /\ \A p \in Pois : latest[p].id = 0
  <2>1. 0 \in 0..MaxRows  BY TrailAssumption
  <2>. QED  BY <2>1 DEF Init, Row
<1>3. TypeOK
  <2>1. 0 \in 0..MaxCrashes /\ 0 \in 0..MaxFailures /\ 0 \in 0..RetryLimit  BY TrailAssumption
  <2>. QED  BY <1>2, <2>1, Nothing, Typed DEF Init, NoDelivery
<1>4. ProcessedWereSettled /\ CompletedMeansSettled
  BY <1>1 DEF ProcessedWereSettled, CompletedMeansSettled
<1>5. Honest /\ Whole /\ Shown  BY <1>1, Cleared
<1>6. Decided  BY <1>1, <1>2 DEF Decided, NoTask
<1>. QED  BY <1>3, <1>4, <1>5, <1>6 DEF IInv

\* A step of a collection keeps the invariant, whoever collects.
LEMMA CollectKeeps ==
    ASSUME IInv, NEW c \in Collectors, NEW p \in Pois, Collect(c, p) PROVE IInv'
<1>1. CASE GiveUp(c, p)  BY <1>1, GiveUpKeeps
<1>2. ASSUME NEW page \in Pages, Rendered(c, p, page) PROVE IInv'  BY <1>2, RenderedKeeps
<1>3. ASSUME NEW status \in Statuses, NEW omits \in BOOLEAN, Extracted(c, p, status, omits) PROVE IInv'
  BY <1>3, ExtractedKeeps
<1>4. CASE Insert(c, p)  BY <1>4, InsertKeeps
<1>. QED  BY <1>1, <1>2, <1>3, <1>4 DEF Collect

\* Every step keeps the invariant.
LEMMA StepKeeps == IInv /\ [Next]_vars => IInv'
<1>. SUFFICES ASSUME IInv, [Next]_vars PROVE IInv'  OBVIOUS
<1>0. "run" \in Collectors /\ "admin" \in Collectors  BY DEF Collectors
<1>1. CASE RunStep
  <2>1. ASSUME NEW p \in Pois, ClaimItem(p) PROVE IInv'  BY <2>1, ClaimItemKeeps
  <2>2. ASSUME NEW p \in Pois, ItemStarted(p) \/ ItemStartFails(p) \/ ItemRead(p) \/ ItemUnread(p)
        PROVE  IInv'
    BY <2>2, ItemStartedKeeps, ItemStartFailsKeeps, ItemReadKeeps, ItemUnreadKeeps
  <2>3. ASSUME NEW p \in Pois, Collect("run", p) PROVE IInv'  BY <1>0, <2>3, CollectKeeps
  <2>4. ASSUME NEW p \in Pois, Checkpoint(p) PROVE IInv'  BY <2>4, CheckpointKeeps
  <2>. QED
    BY <1>1, <2>1, <2>2, <2>3, <2>4, ReadJobKeeps, StartBatchKeeps, MarkCompletedKeeps,
       MarkFailedKeeps, ReturnKeeps
    DEF RunStep
<1>2. CASE RunFails
  <2>1. ASSUME NEW p \in Pois, QueryFails("run", p) PROVE IInv'  BY <1>0, <2>1, QueryFailsKeeps
  <2>2. ASSUME NEW p \in Pois, CheckpointFails(p) PROVE IInv'  BY <2>2, CheckpointFailsKeeps
  <2>. QED  BY <1>2, <2>1, <2>2, HandlerFailsKeeps, MarkFailedFailsKeeps DEF RunFails
<1>3. ASSUME NEW p \in Pois, CollectOne(p) \/ Collect("admin", p) \/ QueryFails("admin", p) PROVE IInv'
  BY <1>0, <1>3, CollectOneKeeps, CollectKeeps, QueryFailsKeeps
<1>4. CASE Queue  BY <1>4, RequestsKeep, DeliverKeeps DEF Queue
<1>5. CASE CreateJob \/ SubmitFails \/ CancelJob  BY <1>5, RequestsKeep
<1>6. CASE Wipe \/ Crash \/ Startup  BY <1>6, WipeKeeps, CrashKeeps, StartupKeeps
<1>7. CASE UNCHANGED vars
  <2>1. UNCHANGED <<row, message, up, run, settled, task, progress, slots, kept, latest, faults>>
    BY <1>7 DEF vars, job, display
  <2>2. TypeOK'  BY <2>1 DEF IInv, TypeOK
  <2>3. ProcessedWereSettled' /\ CompletedMeansSettled'
    BY <2>1 DEF IInv, ProcessedWereSettled, CompletedMeansSettled
  <2>4. Honest' /\ Whole' /\ Shown' /\ Decided'
    BY <2>1 DEF IInv, Honest, Whole, Shown, Decided
  <2>. QED  BY <2>2, <2>3, <2>4 DEF IInv
<1>. QED  BY <1>1, <1>2, <1>3, <1>4, <1>5, <1>6, <1>7 DEF Next

\* The invariant holds in every reachable state of a trail job.
THEOREM Invariance == Spec => []IInv
  BY InitHolds, StepKeeps, PTL DEF Spec

\* Every reachable state of a trail job is typed.
THEOREM TypeCorrect == Spec => []TypeOK
<1>1. IInv => TypeOK  BY DEF IInv
<1>. QED  BY <1>1, Invariance, PTL

\* What a redelivered trail job skips (runBatch's checkpoints, each the whole list)
\* was settled by some run.
THEOREM ProgressWasSettled == Spec => []ProcessedWereSettled
<1>1. IInv => ProcessedWereSettled  BY DEF IInv
<1>. QED  BY <1>1, Invariance, PTL

\* No trail job is 'completed' over a POI that no run settled.
THEOREM CompletedIsTrue == Spec => []CompletedMeansSettled
<1>1. IInv => CompletedMeansSettled  BY DEF IInv
<1>. QED  BY <1>1, Invariance, PTL

\* Whatever single collections, retries and errors went on, updateProgress freed every
\* display slot once no item of the run is in flight, but for those of entries that collectFn
\* left uncompleted since it got no row of the POI.
THEOREM SlotsAreFreedInTheEnd == Spec => []SlotsAreFreed
<1>1. IInv => SlotsAreFreed
  <2>. SUFFICES ASSUME IInv, InFlight = {}, NEW s \in slots, s \notin kept PROVE FALSE
    BY DEF SlotsAreFreed
  <2>1. PICK p \in Pois : progress[p].slot = s /\ ~progress[p].completed  BY DEF IInv, Shown
  <2>2. s # NoSlot  BY Typed DEF IInv, Slots, NoSlot
  <2>3. task["run"][p].pc \in Showing  BY <2>1, <2>2 DEF IInv, Shown
  <2>. QED  BY <2>3 DEF InFlight, Showing
<1>. QED  BY <1>1, Invariance, PTL

\* Only an INSERT gives a POI a new latest row.
LEMMA OnlyInserts ==
    ASSUME IInv, Next, NEW p \in Pois, latest'[p].id # latest[p].id
    PROVE  \E c \in Collectors : Insert(c, p)
<1>0. "run" \in Collectors /\ "admin" \in Collectors /\ latest \in [Pois -> Row]
  BY Typed DEF IInv, Collectors
<1>1. ASSUME NEW c \in Collectors, NEW q \in Pois, Collect(c, q) PROVE Insert(c, p)
  <2>1. ASSUME NEW status \in Statuses, NEW omits \in BOOLEAN, Extracted(c, q, status, omits)
        PROVE  latest'[p].id = latest[p].id
    <3>1. \/ latest' = latest
          \/ latest' = [latest EXCEPT ![q].page = task[c][q].page]
      BY <2>1 DEF Extracted
    <3>. QED  BY <1>0, <3>1 DEF Row
  <2>2. Insert(c, q)  BY <1>1, <2>1 DEF Collect, GiveUp, Rendered
  <2>3. q = p  BY <1>0, <2>2 DEF Insert
  <2>. QED  BY <2>2, <2>3
<1>2. latest' # latest  OBVIOUS
<1>3. ASSUME NEW q \in Pois
      PROVE  ~ClaimItem(q) /\ ~ItemStarted(q) /\ ~Checkpoint(q) /\ ~ItemStartFails(q)
             /\ ~ItemRead(q) /\ ~ItemUnread(q) /\ ~CheckpointFails(q) /\ ~CollectOne(q) /\ ~QueryFails("run", q) /\ ~QueryFails("admin", q)
  BY <1>2
  DEF ClaimItem, ItemStarted, Checkpoint, ItemStartFails, ItemRead, ItemUnread, CheckpointFails,
      CollectOne, QueryFails
<1>4. /\ ~ReadJob /\ ~StartBatch /\ ~MarkCompleted /\ ~MarkFailed /\ ~Return /\ ~HandlerFails
      /\ ~MarkFailedFails /\ ~Queue /\ ~CreateJob /\ ~SubmitFails /\ ~CancelJob /\ ~Crash /\ ~Startup /\ ~Wipe
  BY <1>0, <1>2
  DEF Wipe, ReadJob, StartBatch, MarkCompleted, MarkFailed, Return, HandlerFails, MarkFailedFails,
      Queue, Submit, Expire, Deliver, CreateJob, SubmitFails, CancelJob, Crash, Startup
<1>5. \E c \in Collectors, q \in Pois : Collect(c, q)
  BY <1>0, <1>3, <1>4 DEF Next, RunStep, RunFails
<1>. QED  BY <1>1, <1>5

\* Two equal rows of a POI within a day need two collections of it that overlap: the
\* second one chose to insert (saveTrailStatus) before the first one's row was there; or
\* the model omitted a field that saveTrailStatus compares.
THEOREM DuplicatesHaveCause == Spec => DuplicatesAreExplained
<1>. DEFINE Second(p) ==
              latest'[p].id # latest[p].id /\ latest[p].age = "fresh" /\ latest'[p].status = latest[p].status
              => \E c \in Collectors :
                    /\ task[c][p].pc = "insert" /\ task'[c][p].pc # "insert"
                    /\ task[c][p].read # latest[p].id \/ task[c][p].omits
<1>1. IInv /\ [Next]_vars => [\A p \in Pois : Second(p)]_vars
  <2>. SUFFICES ASSUME IInv, Next, NEW p \in Pois PROVE Second(p)  OBVIOUS
  <2>. SUFFICES ASSUME latest'[p].id # latest[p].id, latest[p].age = "fresh",
                       latest'[p].status = latest[p].status
                PROVE  \E c \in Collectors :
                          /\ task[c][p].pc = "insert" /\ task'[c][p].pc # "insert"
                          /\ task[c][p].read # latest[p].id \/ task[c][p].omits
    OBVIOUS
  <2>1. PICK c \in Collectors : Insert(c, p)  BY OnlyInserts
  <2>2. task[c][p].pc = "insert" /\ Settle(c, p)  BY <2>1 DEF Insert
  <2>3. task'[c][p].pc # "insert"  BY <2>2, Settled DEF Showing
  <2>4. latest'[p].status = task[c][p].status
    <3>1. latest \in [Pois -> Row]  BY Typed DEF IInv
    <3>. QED  BY <2>1, <3>1 DEF Insert
  <2>5. task[c][p].read # latest[p].id \/ task[c][p].omits  BY <2>2, <2>4 DEF IInv, Decided
  <2>. QED  BY <2>2, <2>3, <2>5
<1>. QED  BY <1>1, Invariance, PTL DEF Spec, DuplicatesAreExplained

-----------------------------------------------------------------------------
(* Every lost delivery was paid for.                                       *)

\* Each try so far cost a crash or a failing query, and so does the one that is about
\* to be lost.  A run that throws past an open row paid for that as well: its catch
\* block could not close it.
Paid ==
    /\ row.status = "none" <=> message.state = "none"
    /\ message.state \in {"none", "unsent"} => message.tries = 0 /\ row.status # "running"
    /\ message.tries <= Cost
    /\ run.pc # "unused" => message.state = "active"
    /\ message.state = "active" /\ run.pc = "unused" => faults.crashes > 0 /\ Cost > message.tries
    /\ run.pc \in {"fail", "throw"} => Cost > message.tries
    /\ run.pc = "throw" /\ Open => Cost > message.tries + 1
    /\ run.pc = "return" => row.status = "completed"
    /\ OpenIsPursued

\* The costs of a step are numbers, and it undoes none.
LEMMA Costs ==
    ASSUME IInv, IInv', Next
    PROVE  /\ {faults.crashes, faults.crashes', Cost, Cost', RetryLimit, message.tries} \subseteq Nat
           /\ faults.crashes <= faults.crashes' /\ Cost <= Cost'
<1>1. /\ {faults.crashes, faults.failures, faults.crashes', faults.failures'} \subseteq Nat
      /\ message.tries \in Nat /\ RetryLimit \in Nat
      /\ faults \in [crashes : 0..MaxCrashes, failures : 0..MaxFailures]
  BY TrailAssumption DEF IInv, TypeOK
<1>2. \/ faults' = faults
      \/ faults' = [faults EXCEPT !.failures = @ + 1]
      \/ faults' = [faults EXCEPT !.crashes = @ + 1]
  <2>1. ASSUME NEW c \in Collectors, NEW p \in Pois, Collect(c, p) PROVE faults' = faults
    BY <2>1 DEF Collect, GiveUp, Rendered, Extracted, Insert
  <2>2. ASSUME NEW p \in Pois,
               ClaimItem(p) \/ ItemStarted(p) \/ ItemRead(p) \/ Checkpoint(p) \/ CollectOne(p)
        PROVE  faults' = faults
    BY <2>2 DEF ClaimItem, ItemStarted, ItemRead, Checkpoint, CollectOne
  <2>3. CASE ReadJob \/ StartBatch \/ MarkCompleted \/ MarkFailed \/ Return \/ Queue
             \/ CreateJob \/ CancelJob \/ Wipe \/ Startup
    BY <2>3
    DEF ReadJob, StartBatch, MarkCompleted, MarkFailed, Return, Queue, Submit, Expire, Deliver,
        CreateJob, CancelJob, Wipe, Startup
  <2>4. ASSUME NEW c \in Collectors, NEW p \in Pois,
               QueryFails(c, p) \/ ItemStartFails(p) \/ ItemUnread(p) \/ CheckpointFails(p)
        PROVE  faults' = faults \/ faults' = [faults EXCEPT !.failures = @ + 1]
    BY <2>4 DEF QueryFails, ItemStartFails, ItemUnread, QueryFailsOrFindsNone, CheckpointFails
  <2>5. CASE HandlerFails \/ MarkFailedFails \/ SubmitFails
    BY <2>5 DEF HandlerFails, MarkFailedFails, SubmitFails
  <2>6. CASE Crash  BY <2>6 DEF Crash
  <2>7. "run" \in Collectors /\ "admin" \in Collectors  BY DEF Collectors
  <2>. QED  BY <2>1, <2>2, <2>3, <2>4, <2>5, <2>6, <2>7 DEF Next, RunStep, RunFails
<1>. QED  BY <1>1, <1>2 DEF Cost

\* A failing query, or a crash, is one more.
LEMMA OneMore ==
    ASSUME IInv, \/ faults' = [faults EXCEPT !.failures = @ + 1]
                 \/ faults' = [faults EXCEPT !.crashes = @ + 1]
    PROVE  Cost' = Cost + 1
<1>1. /\ faults.crashes \in Nat /\ faults.failures \in Nat
      /\ faults \in [crashes : 0..MaxCrashes, failures : 0..MaxFailures]
  BY TrailAssumption DEF IInv, TypeOK
<1>2. \/ faults'.crashes = faults.crashes /\ faults'.failures = faults.failures + 1
      \/ faults'.crashes = faults.crashes + 1 /\ faults'.failures = faults.failures
  BY <1>1
<1>. QED  BY <1>1, <1>2 DEF Cost

\* The invariant holds at first.
LEMMA PaidAtFirst == Init => Paid
<1>. SUFFICES ASSUME Init PROVE Paid  OBVIOUS
<1>1. row.status = "none" /\ message = NoDelivery /\ run.pc = "unused" /\ Cost = 0
  BY DEF Init, NoRun, Cost
<1>. QED  BY <1>1 DEF Paid, OpenIsPursued, Open, NoDelivery

\* Steps of the collections, and all that leave the status, the message and the place of
\* the run alone.
LEMMA PaidOn ==
    ASSUME IInv, IInv', Next, Paid, row'.status = row.status, message' = message, run'.pc = run.pc
    PROVE  Paid'
<1>. USE Costs
<1>1. OpenIsPursued'
  <2>. SUFFICES ASSUME Open, message.state \notin {"unsent", "queued", "active"}
                PROVE  OpenIsPursued'
    BY DEF OpenIsPursued, Open
  <2>1. CASE row.status = "queued" /\ message.tries = 0 /\ Cost > 0
    <3>1. Cost' > 0  BY <2>1
    <3>. QED  BY <2>1, <3>1 DEF OpenIsPursued
  <2>2. CASE /\ message.tries = RetryLimit /\ Cost > RetryLimit
             /\ faults.crashes > 0 \/ Cost > RetryLimit + 1
    <3>1. Cost' > RetryLimit /\ (faults.crashes' > 0 \/ Cost' > RetryLimit + 1)  BY <2>2
    <3>. QED  BY <2>2, <3>1 DEF OpenIsPursued
  <2>. QED  BY <2>1, <2>2 DEF Paid, OpenIsPursued
<1>2. /\ message.tries <= Cost'
      /\ message.state = "active" /\ run.pc = "unused" => faults.crashes' > 0 /\ Cost' > message.tries
      /\ run.pc \in {"fail", "throw"} => Cost' > message.tries
      /\ run.pc = "throw" /\ Open => Cost' > message.tries + 1
  BY DEF Paid
<1>. QED  BY <1>1, <1>2 DEF Paid, Open

\* The run goes on.
LEMMA PaidRunOn ==
    ASSUME IInv, IInv', Next, Paid,
           ReadJob \/ StartBatch \/ MarkCompleted \/ HandlerFails \/ MarkFailed \/ MarkFailedFails
    PROVE  Paid'
<1>. USE Costs
<1>1. message' = message /\ message.state = "active"
      /\ run \in Run /\ row.status # "none" /\ row \in [status : RowStatuses, processed : SUBSET Pois]
  BY Typed
  DEF ReadJob, StartBatch, MarkCompleted, HandlerFails, MarkFailed, MarkFailedFails, Paid, IInv,
      RowStatuses
<1>2. OpenIsPursued'  BY <1>1 DEF OpenIsPursued
<1>3. row'.status # "none"
  BY <1>1
  DEF ReadJob, StartBatch, MarkCompleted, HandlerFails, MarkFailed, MarkFailedFails, RowStatuses
<1>4. run'.pc # "unused"
  BY <1>1
  DEF ReadJob, StartBatch, MarkCompleted, HandlerFails, MarkFailed, MarkFailedFails, Goto, Run
<1>5. message.tries <= Cost /\ message.tries <= Cost'  BY DEF Paid
<1>6. run'.pc \in {"fail", "throw"} => Cost' > message.tries
  <2>1. CASE ReadJob \/ StartBatch \/ MarkCompleted
    BY <1>1, <2>1 DEF ReadJob, StartBatch, MarkCompleted, Goto, Run
  <2>2. CASE HandlerFails
    <3>1. Cost' = Cost + 1  BY <2>2, OneMore DEF HandlerFails
    <3>. QED  BY <1>5, <3>1 DEF Paid
  <2>3. CASE MarkFailed \/ MarkFailedFails
    <3>1. Cost > message.tries  BY <2>3 DEF MarkFailed, MarkFailedFails, Paid
    <3>. QED  BY <3>1
  <2>. QED  BY <2>1, <2>2, <2>3
<1>7. run'.pc = "throw" /\ Open' => Cost' > message.tries + 1
  <2>1. CASE MarkFailedFails
    <3>1. Cost' = Cost + 1 /\ Cost > message.tries  BY <2>1, OneMore DEF MarkFailedFails, Paid
    <3>. QED  BY <3>1
  <2>2. CASE MarkFailed  BY <1>1, <2>2 DEF MarkFailed, Open
  <2>3. CASE ReadJob \/ StartBatch \/ MarkCompleted \/ HandlerFails
    BY <1>1, <2>3 DEF ReadJob, StartBatch, MarkCompleted, HandlerFails, Goto, Run
  <2>. QED  BY <2>1, <2>2, <2>3
<1>8. run'.pc = "return" => row'.status = "completed"
  BY <1>1
  DEF ReadJob, StartBatch, MarkCompleted, HandlerFails, MarkFailed, MarkFailedFails, Goto, Run,
      RowStatuses
<1>. QED  BY <1>1, <1>2, <1>3, <1>4, <1>5, <1>6, <1>7, <1>8 DEF Paid

\* The requests: a row is created, cancelled, and its message is sent or not.
LEMMA PaidRequests ==
    ASSUME IInv, IInv', Next, Paid, CreateJob \/ Submit \/ SubmitFails \/ CancelJob
    PROVE  Paid'
<1>. USE Costs
<1>1. /\ run' = run /\ row \in [status : RowStatuses, processed : SUBSET Pois]
      /\ message \in Deliveries
  BY Typed DEF CreateJob, Submit, SubmitFails, CancelJob, IInv, RowStatuses, Deliveries
<1>2. message'.tries = message.tries
  BY <1>1 DEF CreateJob, Submit, SubmitFails, CancelJob, Deliveries
<1>3. CASE CreateJob
  <2>1. row'.status = "queued" /\ message'.state = "unsent" /\ run.pc = "unused" /\ message.tries = 0
    BY <1>1, <1>3 DEF CreateJob, Paid, RowStatuses, Deliveries
  <2>. QED  BY <1>1, <1>2, <2>1 DEF Paid, OpenIsPursued
<1>4. CASE Submit
  <2>1. /\ row' = row /\ row.status # "none" /\ message'.state = "queued" /\ run.pc = "unused"
        /\ message.tries = 0
    BY <1>1, <1>4 DEF Submit, Paid, Deliveries
  <2>. QED  BY <1>1, <1>2, <2>1 DEF Paid, OpenIsPursued
<1>5. CASE SubmitFails
  <2>1. /\ row' = row /\ row.status \notin {"none", "running"} /\ message'.state = "over"
        /\ run.pc = "unused" /\ message.tries = 0
    BY <1>1, <1>5 DEF SubmitFails, Paid, Deliveries
  <2>2. Cost' > 0
    <3>1. Cost' = Cost + 1  BY <1>5, OneMore DEF SubmitFails
    <3>. QED  BY <3>1
  <2>3. OpenIsPursued'  BY <1>2, <2>1, <2>2 DEF OpenIsPursued, Open
  <2>. QED  BY <1>1, <1>2, <2>1, <2>3 DEF Paid
<1>6. CASE CancelJob
  <2>1. /\ message' = message /\ faults' = faults /\ row'.status = "cancelled"
        /\ row.status \notin {"none", "completed"}
    BY <1>1, <1>6 DEF CancelJob
  <2>2. ~Open' /\ Cost' = Cost  BY <2>1 DEF Open, Cost
  <2>. QED  BY <1>1, <2>1, <2>2 DEF Paid, OpenIsPursued
<1>. QED  BY <1>3, <1>4, <1>5, <1>6

\* A delivery starts.
LEMMA PaidDeliver == ASSUME IInv, IInv', Next, Paid, Deliver PROVE Paid'
<1>. USE Costs
<1>1. /\ run'.pc = "read" /\ row' = row /\ row.status # "none"
      /\ message'.state = "active" /\ message'.tries = message.tries /\ faults' = faults
  BY Typed DEF Deliver, Paid, IInv, Run
<1>2. Cost' = Cost  BY <1>1 DEF Cost
<1>. QED  BY <1>1, <1>2 DEF Paid, OpenIsPursued

\* A delivery is lost, and paid for: pg-boss tries again, or gives up.
LEMMA PaidGiveBack ==
    ASSUME IInv, IInv', Next, Paid, GiveBack, message.state = "active", run'.pc = "unused",
           UNCHANGED <<row, faults>>, Cost > message.tries,
           Open => faults.crashes > 0 \/ Cost > message.tries + 1
    PROVE  Paid'
<1>. USE Costs
<1>1. row.status # "none" /\ Cost' = Cost  BY DEF Paid, Cost
<1>2. message.tries <= RetryLimit  BY Typed DEF IInv
<1>3. CASE message.tries < RetryLimit
  <2>1. message'.state = "queued" /\ message'.tries = message.tries + 1  BY <1>3 DEF GiveBack
  <2>2. message'.tries <= Cost'  BY <1>1, <2>1
  <2>. QED  BY <1>1, <2>1, <2>2 DEF Paid, OpenIsPursued
<1>4. CASE ~(message.tries < RetryLimit)
  <2>1. message' = [message EXCEPT !.state = "over"]  BY <1>4 DEF GiveBack
  <2>2. message'.state = "over" /\ message'.tries = message.tries  BY <2>1, Typed DEF IInv
  <2>3. message.tries = RetryLimit  BY <1>2, <1>4
  <2>4. Open => Cost > RetryLimit /\ (faults.crashes > 0 \/ Cost > RetryLimit + 1)  BY <2>3
  <2>5. OpenIsPursued'  BY <1>1, <2>2, <2>3, <2>4 DEF OpenIsPursued, Open
  <2>6. message'.tries <= Cost'  BY <1>1, <2>2
  <2>. QED  BY <1>1, <2>2, <2>5, <2>6 DEF Paid
<1>. QED  BY <1>3, <1>4

\* Expire and Return: a crash cost the delivery, or what made the handler throw did.
LEMMA PaidExpire == ASSUME IInv, IInv', Next, Paid, Expire PROVE Paid'
<1>1. faults.crashes > 0 /\ Cost > message.tries  BY DEF Expire, Paid
<1>. QED  BY <1>1, PaidGiveBack DEF Expire

\* A handler that returns has closed the row.
LEMMA PaidReturn == ASSUME IInv, IInv', Next, Paid, Return PROVE Paid'
<1>. USE Costs
<1>1. run'.pc = "unused" /\ UNCHANGED <<row, faults>> /\ message.state = "active"
  BY DEF Return, NoRun, Paid
<1>2. CASE run.pc = "throw"
  <2>1. Cost > message.tries /\ (Open => Cost > message.tries + 1)  BY <1>2 DEF Paid
  <2>. QED  BY <1>1, <1>2, <2>1, PaidGiveBack DEF Return
<1>3. CASE run.pc = "return"
  <2>1. row.status = "completed"  BY <1>3 DEF Paid
  <2>2. message'.state = "over" /\ message'.tries = message.tries /\ Cost' = Cost
    BY <1>1, <1>3, Typed DEF Return, IInv, Cost
  <2>. QED  BY <1>1, <2>1, <2>2 DEF Paid, OpenIsPursued, Open
<1>. QED  BY <1>2, <1>3 DEF Return

\* A crash pays for the delivery it loses, or for the message it leaves unsent.
LEMMA PaidCrash == ASSUME IInv, IInv', Next, Paid, Crash PROVE Paid'
<1>. USE Costs
<1>1. /\ run'.pc = "unused" /\ row' = row /\ message \in Deliveries
      /\ faults' = [faults EXCEPT !.crashes = @ + 1]
  BY Typed DEF Crash, NoRun, IInv, Deliveries
<1>2. Cost' = Cost + 1  BY <1>1, OneMore
<1>3. faults.crashes' > 0  BY <1>1, Typed, TrailAssumption DEF IInv
<1>4. message'.tries = message.tries /\ message.tries < Cost' /\ message.tries <= Cost'
  BY <1>1, <1>2 DEF Crash, Paid, Deliveries
<1>5. CASE message.state = "unsent"
  <2>1. /\ message'.state = "over" /\ message.tries = 0 /\ Cost' > 0
        /\ row.status \notin {"none", "running"}
    BY <1>1, <1>2, <1>5 DEF Crash, Paid, Deliveries
  <2>2. OpenIsPursued'  BY <1>1, <1>4, <2>1 DEF OpenIsPursued, Open
  <2>. QED  BY <1>1, <1>4, <2>1, <2>2 DEF Paid
<1>6. CASE message.state # "unsent"
  <2>1. message' = message  BY <1>6 DEF Crash
  <2>2. OpenIsPursued'
    <3>. SUFFICES ASSUME Open, message.state \notin {"unsent", "queued", "active"}
                  PROVE  OpenIsPursued'
      BY <1>1, <2>1 DEF OpenIsPursued, Open
    <3>1. \/ row.status = "queued" /\ message.tries = 0
          \/ message.tries = RetryLimit /\ Cost > RetryLimit
      BY DEF Paid, OpenIsPursued
    <3>2. Cost' > 0 /\ (Cost > RetryLimit => Cost' > RetryLimit)  BY <1>2
    <3>. QED  BY <1>1, <1>3, <2>1, <3>1, <3>2 DEF OpenIsPursued
  <2>. QED  BY <1>1, <1>3, <1>4, <2>1, <2>2 DEF Paid
<1>. QED  BY <1>5, <1>6

\* The startup closes the row, or leaves it.
LEMMA PaidStartup == ASSUME IInv, IInv', Next, Paid, Startup PROVE Paid'
<1>1. run' = run /\ message' = message /\ faults' = faults  BY DEF Startup
<1>2. CASE row' = row  BY <1>1, <1>2, PaidOn
<1>3. CASE Open /\ row' = [row EXCEPT !.status = "failed"]
  <2>1. row'.status = "failed" /\ row.status \notin {"none", "completed"}
    BY <1>3, Typed DEF Open, IInv
  <2>2. ~Open' /\ Cost' = Cost  BY <1>1, <2>1 DEF Open, Cost
  <2>. QED  BY <1>1, <2>1, <2>2 DEF Paid, OpenIsPursued
<1>. QED  BY <1>2, <1>3 DEF Startup, Open

\* Every step keeps the invariant.
LEMMA PaidKept == IInv /\ IInv' /\ Paid /\ [Next]_vars => Paid'
<1>. SUFFICES ASSUME IInv, IInv', Paid, [Next]_vars PROVE Paid'  OBVIOUS
<1>1. CASE UNCHANGED vars
  BY <1>1 DEF vars, job, Paid, OpenIsPursued, Open, Cost
<1>2. CASE Next
  <2>0. "run" \in Collectors /\ "admin" \in Collectors /\ row \in [status : RowStatuses, processed : SUBSET Pois]
        /\ run \in Run
    BY Typed DEF Collectors, IInv, RowStatuses
  <2>1. ASSUME NEW c \in Collectors, NEW p \in Pois, Collect(c, p) \/ QueryFails(c, p)
        PROVE  row' = row /\ message' = message /\ run'.pc = run.pc
    BY <2>0, <2>1
    DEF Collect, GiveUp, Rendered, Extracted, Insert, QueryFails, Settle, ToCheckpoint, Run
  <2>2. ASSUME NEW p \in Pois, \/ ClaimItem(p) \/ ItemStarted(p) \/ Checkpoint(p)
                               \/ CollectOne(p) \/ ItemStartFails(p) \/ ItemRead(p)
                               \/ ItemUnread(p) \/ CheckpointFails(p)
        PROVE  row'.status = row.status /\ message' = message /\ run'.pc = run.pc
    BY <2>0, <2>2
    DEF ClaimItem, ItemStarted, Checkpoint, CollectOne, ItemStartFails, ItemRead, ItemUnread,
        ToCheckpoint, CheckpointFails, job, Run
  <2>3. CASE row'.status = row.status /\ message' = message /\ run'.pc = run.pc
    BY <1>2, <2>3, PaidOn
  <2>4. CASE \/ ReadJob \/ StartBatch \/ MarkCompleted \/ HandlerFails \/ MarkFailed \/ MarkFailedFails
    BY <1>2, <2>4, PaidRunOn
  <2>5. CASE CreateJob \/ Submit \/ SubmitFails \/ CancelJob  BY <1>2, <2>5, PaidRequests
  <2>6. CASE Deliver \/ Expire \/ Return \/ Crash \/ Startup
    BY <1>2, <2>6, PaidDeliver, PaidExpire, PaidReturn, PaidCrash, PaidStartup
  <2>7. CASE Wipe  BY <1>2, <2>7, PaidOn DEF Wipe, job
  <2>. QED
    BY <1>2, <2>0, <2>1, <2>2, <2>3, <2>4, <2>5, <2>6, <2>7 DEF Next, RunStep, RunFails, Queue
<1>. QED  BY <1>1, <1>2

\* Whatever the limit of the retries: when a trail job is left open to nobody, its message
\* was never sent, or pg-boss has used up its tries and there were more crashes and failing
\* queries than retries.  When nothing crashed there was one more still, since the catch
\* block of processTrailStatusCollectionJob closes the row unless its own query fails.
THEOREM OpenJobsArePursued == Spec => []OpenIsPursued
<1>1. Paid => OpenIsPursued  BY DEF Paid
<1>2. Spec => []Paid  BY PaidAtFirst, PaidKept, Invariance, PTL DEF Spec
<1>. QED  BY <1>1, <1>2, PTL
=============================================================================
