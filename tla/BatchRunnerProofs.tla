-------------------------- MODULE BatchRunnerProofs --------------------------
(***************************************************************************)
(* Theorems about BatchRunner, for every number of items and workers and   *)
(* every bound on failing reads.  CompleteWhenReturned and ClaimedOnce are *)
(* not inductive: that nothing is forgotten when the last worker leaves    *)
(* needs that each claimed item without an outcome is held by a worker,    *)
(* and that no item is held twice needs that the held ones lie below       *)
(* nextIndex.  IInv is the conjunction that is.  The last sections show    *)
(* that the chains refine the promise, and the counted batch of module     *)
(* CollectionJob.                                                          *)
(***************************************************************************)
EXTENDS BatchRunner, FiniteSetTheorems, TLAPS

\* The count of items in flight is the number of workers that hold one.
CountExact == inFlight = Cardinality(Busy)

\* A held item was claimed, and has an outcome from its checkpoint on.
HeldIsClaimed ==
    \A w \in Busy : /\ item[w] \in 1..nextIndex
                    /\ results[item[w]] = "none" <=> pc[w] # "checkpoint"

HeldOnce == \A v, w \in Busy : item[v] = item[w] => v = w

\* A claimed item without an outcome is held by some worker.
NoneForgotten ==
    \A i \in 1..nextIndex : results[i] = "none" => \E w \in Busy : item[w] = i

UnclaimedHaveNoOutcome == \A i \in Items : i > nextIndex => results[i] = "none"

CompletedIsOver == returned = "completed" => nextIndex = ItemCount /\ Busy = {}

IInv ==
    /\ TypeOK
    /\ CountExact
    /\ HeldIsClaimed
    /\ HeldOnce
    /\ NoneForgotten
    /\ UnclaimedHaveNoOutcome
    /\ CompletedIsOver

-----------------------------------------------------------------------------

LEMMA WorkersType ==
    /\ WorkerCount \in Nat
    /\ WorkerCount <= MaxConcurrency
    /\ IsFiniteSet(Workers)
    /\ Cardinality(Workers) = WorkerCount
<1>1. WorkerCount \in Nat /\ WorkerCount <= MaxConcurrency
  BY BatchAssumption DEF WorkerCount
<1>2. IsFiniteSet(1..WorkerCount) /\ Cardinality(1..WorkerCount) = WorkerCount
  BY <1>1, FS_Interval
<1> QED  BY <1>1, <1>2 DEF Workers

LEMMA BusyFinite == IsFiniteSet(Busy) /\ Cardinality(Busy) \in Nat
  BY WorkersType, FS_Subset, FS_CardinalityType DEF Busy

\* How the set of busy workers follows the program counters.
LEMMA BusyJoins ==
  ASSUME TypeOK, NEW w \in Workers, pc[w] \notin BusyLabels,
         NEW l \in BusyLabels, Goto(w, l)
  PROVE  Busy' = Busy \cup {w} /\ Cardinality(Busy') = Cardinality(Busy) + 1
<1>1. Busy' = Busy \cup {w} /\ w \notin Busy
  BY DEF TypeOK, Busy, Goto
<1> QED  BY <1>1, BusyFinite, FS_AddElement

LEMMA BusyLeaves ==
  ASSUME TypeOK, NEW w \in Workers, pc[w] \in BusyLabels,
         NEW l, l \notin BusyLabels, Goto(w, l)
  PROVE  Busy' = Busy \ {w} /\ Cardinality(Busy') = Cardinality(Busy) - 1
<1>1. Busy' = Busy \ {w} /\ w \in Busy
  BY DEF TypeOK, Busy, Goto
<1> QED  BY <1>1, BusyFinite, FS_RemoveElement

LEMMA BusyStays ==
  ASSUME TypeOK, NEW w \in Workers, NEW l, Goto(w, l),
         pc[w] \in BusyLabels <=> l \in BusyLabels
  PROVE  Busy' = Busy
  BY DEF TypeOK, Busy, Goto

-----------------------------------------------------------------------------
(* Type correctness.                                                       *)

LEMMA TypeInit == Init => TypeOK
<1> SUFFICES ASSUME Init PROVE TypeOK
  OBVIOUS
<1>1. 0 \in 0..ItemCount /\ 0 \in 0..MaxCheckFailures /\ inFlight \in Int
  BY BatchAssumption DEF Init
<1>2. pc \in [Workers -> BusyLabels \cup {"timer", "query", "verdict", "ended", "rejected"}]
  BY DEF Init
<1>3. /\ item \in [Workers -> 0..ItemCount]
      /\ seen \in [Workers -> BOOLEAN]
      /\ results \in [Items -> {"none", "success", "failure"}]
  BY <1>1 DEF Init
<1> QED  BY <1>1, <1>2, <1>3, Zenon DEF Init, TypeOK

LEMMA ClaimNextType ==
  ASSUME TypeOK, NEW w \in Workers, ClaimNext(w), UNCHANGED <<seen, cancelled, results, row>>
  PROVE  TypeOK'
<1> USE BatchAssumption DEF TypeOK, Items, Goto, claims, row
<1>1. CASE NothingLeft
  BY <1>1 DEF ClaimNext, EndChain, ResolveIf
<1>2. CASE ~NothingLeft
  <2>1. nextIndex' \in Items /\ nextIndex' \in 0..ItemCount
    BY <1>2 DEF ClaimNext, NothingLeft
  <2>2. pc' \in [Workers -> BusyLabels \cup {"timer", "query", "verdict", "ended", "rejected"}]
    BY <1>2 DEF ClaimNext, BusyLabels
  <2>3. item' \in [Workers -> 0..ItemCount]
    BY <1>2, <2>1 DEF ClaimNext
  <2>4. inFlight' \in Int /\ returned' = returned
    BY <1>2 DEF ClaimNext
  <2>5. staleClaims' \in SUBSET Items
    BY <1>2, <2>1 DEF ClaimNext
  <2> QED  BY <2>1, <2>2, <2>3, <2>4, <2>5
<1> QED  BY <1>1, <1>2

LEMMA TypeStep == TypeOK /\ [Next]_vars => TypeOK'
<1> SUFFICES ASSUME TypeOK, [Next]_vars PROVE TypeOK'
  OBVIOUS
<1> USE BatchAssumption DEF TypeOK, Items, Goto, claims, row
<1>1. ASSUME NEW w \in Workers, Wake(w) PROVE TypeOK'
  <2>1. CASE cancelled  BY <1>1, <2>1 DEF Wake, EndChain, ResolveIf
  <2>2. CASE ~cancelled /\ HasCancelCheck  BY <1>1, <2>2 DEF Wake
  <2>3. CASE ~cancelled /\ ~HasCancelCheck
    BY <1>1, <2>3, ClaimNextType DEF Wake
  <2> QED  BY <2>1, <2>2, <2>3
<1>2. ASSUME NEW w \in Workers, ReadStatus(w) PROVE TypeOK'
  BY <1>2 DEF ReadStatus
<1>3. ASSUME NEW w \in Workers, ResumeCheck(w) PROVE TypeOK'
  <2>1. CASE seen[w]  BY <1>3, <2>1 DEF ResumeCheck, EndChain, ResolveIf
  <2>2. CASE ~seen[w]  BY <1>3, <2>2, ClaimNextType DEF ResumeCheck
  <2> QED  BY <2>1, <2>2
<1>4. ASSUME NEW w \in Workers, ItemStarted(w) PROVE TypeOK'
  BY <1>4 DEF ItemStarted, BusyLabels
<1>5. ASSUME NEW w \in Workers, NEW outcome \in {"success", "failure"}, Collected(w, outcome)
      PROVE  TypeOK'
  BY <1>5 DEF Collected, BusyLabels
<1>6. ASSUME NEW w \in Workers, Finish(w) PROVE TypeOK'
  BY <1>6 DEF Finish, Leave, EndChain, ResolveIf
<1>7. ASSUME NEW w \in Workers, FailStatusRead(w) PROVE TypeOK'
  BY <1>7 DEF FailStatusRead
<1>8. CASE CancelJob  BY <1>8 DEF CancelJob
<1>9. CASE UNCHANGED vars  BY <1>9 DEF vars
<1> QED
  BY <1>1, <1>2, <1>3, <1>4, <1>5, <1>6, <1>7, <1>8, <1>9 DEF Next, WorkerStep

\* Every variable keeps its type, in particular the code's index and counter.
THEOREM TypeCorrect == Spec => []TypeOK
<1>1. TypeOK /\ [Next]_vars => TypeOK'
  BY TypeStep
<1> QED  BY TypeInit, <1>1, PTL DEF Spec

-----------------------------------------------------------------------------
(* The inductive invariant.                                                *)

LEMMA InvInit == Init => IInv
<1> SUFFICES ASSUME Init PROVE IInv
  OBVIOUS
<1>1. TypeOK
  BY TypeInit
<1>2. Busy = {}
  BY DEF Init, Busy, BusyLabels
<1>3. CountExact
  BY <1>2, FS_EmptySet DEF CountExact, Init
<1>4. HeldIsClaimed /\ HeldOnce
  BY <1>2 DEF HeldIsClaimed, HeldOnce
<1>5. NoneForgotten /\ UnclaimedHaveNoOutcome /\ CompletedIsOver
  BY DEF Init, NoneForgotten, UnclaimedHaveNoOutcome, CompletedIsOver
<1> QED  BY <1>1, <1>3, <1>4, <1>5 DEF IInv

\* A worker without an item moves on, ends, or resolves when nothing is left.
LEMMA QuietStep ==
  ASSUME IInv, TypeOK', NEW w \in Workers, NEW l, Goto(w, l),
         pc[w] \notin BusyLabels, l \notin BusyLabels,
         UNCHANGED <<item, nextIndex, inFlight, results>>,
         returned' = "completed" => \/ returned = "completed"
                                    \/ nextIndex >= ItemCount /\ inFlight = 0
  PROVE  IInv'
<1> USE DEF IInv
<1>1. Busy' = Busy
  BY BusyStays
<1>2. \A v \in Busy : pc'[v] = pc[v]
  BY DEF Busy, Goto, TypeOK
<1>3. CountExact' /\ HeldIsClaimed' /\ HeldOnce'
  BY <1>1, <1>2 DEF CountExact, HeldIsClaimed, HeldOnce
<1>4. NoneForgotten' /\ UnclaimedHaveNoOutcome'
  BY <1>1 DEF NoneForgotten, UnclaimedHaveNoOutcome
<1>5. CompletedIsOver'
  <2>1. inFlight = 0 => Busy = {}
    BY BusyFinite, WorkersType, FS_EmptySet DEF CountExact, Busy
  <2> QED  BY <1>1, <2>1, BatchAssumption DEF CompletedIsOver, TypeOK
<1> QED  BY <1>3, <1>4, <1>5

\* The only step that takes an item from the list.
LEMMA ClaimNextInv ==
  ASSUME IInv, TypeOK', NEW w \in Workers, pc[w] \notin BusyLabels, ClaimNext(w),
         UNCHANGED results
  PROVE  IInv'
<1> USE DEF IInv
<1>1. CASE NothingLeft
  <2>1. Goto(w, "ended") /\ UNCHANGED <<item, nextIndex, inFlight>>
    BY <1>1 DEF ClaimNext, EndChain, claims
  <2>2. returned' = "completed" => \/ returned = "completed"
                                   \/ nextIndex >= ItemCount /\ inFlight = 0
    BY <1>1 DEF ClaimNext, EndChain, ResolveIf, NothingLeft
  <2> QED  BY <2>1, <2>2, QuietStep DEF BusyLabels
<1>2. CASE ~NothingLeft
  <2>1. /\ nextIndex' = nextIndex + 1 /\ nextIndex' \in 1..ItemCount
        /\ item' = [item EXCEPT ![w] = nextIndex']
        /\ inFlight' = inFlight + 1
        /\ Goto(w, "starting")
        /\ returned' = returned
    BY <1>2, BatchAssumption DEF ClaimNext, NothingLeft, TypeOK
  <2>2. Busy' = Busy \cup {w} /\ Cardinality(Busy') = Cardinality(Busy) + 1
    BY <2>1, BusyJoins DEF BusyLabels
  <2>3. /\ w \notin Busy
        /\ item'[w] = nextIndex' /\ pc'[w] = "starting"
        /\ \A v \in Busy : item'[v] = item[v] /\ pc'[v] = pc[v]
    BY <2>1 DEF Busy, Goto, TypeOK
  <2>4. results[nextIndex'] = "none"
    BY <2>1 DEF UnclaimedHaveNoOutcome, TypeOK, Items
  <2>5. CountExact'
    BY <2>1, <2>2 DEF CountExact
  <2>6. HeldIsClaimed'
    BY <2>1, <2>2, <2>3, <2>4 DEF HeldIsClaimed, TypeOK
  <2>7. HeldOnce'
    <3>1. \A v \in Busy : item[v] # nextIndex'
      BY <2>1 DEF HeldIsClaimed, TypeOK
    <3> QED  BY <2>2, <2>3, <3>1 DEF HeldOnce
  <2>8. NoneForgotten'
    <3> SUFFICES ASSUME NEW i \in 1..nextIndex', results[i] = "none"
                 PROVE  \E v \in Busy' : item'[v] = i
      BY DEF NoneForgotten
    <3>1. CASE i = nextIndex'  BY <2>2, <2>3, <3>1
    <3>2. CASE i \in 1..nextIndex  BY <2>2, <2>3, <3>2 DEF NoneForgotten
    <3> QED  BY <2>1, <3>1, <3>2 DEF TypeOK
  <2>9. UnclaimedHaveNoOutcome'
    BY <2>1 DEF UnclaimedHaveNoOutcome, TypeOK, Items
  <2>10. CompletedIsOver'
    BY <2>1, BatchAssumption DEF CompletedIsOver, TypeOK
  <2> QED  BY <2>5, <2>6, <2>7, <2>8, <2>9, <2>10
<1> QED  BY <1>1, <1>2

\* A worker keeps its item from one label to the next.
LEMMA HeldStep ==
  ASSUME IInv, TypeOK', NEW w \in Workers, Goto(w, "collect"), pc[w] = "starting",
         UNCHANGED <<item, nextIndex, inFlight, results, returned>>
  PROVE  IInv'
<1> USE DEF IInv
<1>1. Busy' = Busy
  BY BusyStays DEF BusyLabels
<1>2. \A v \in Busy : pc'[v] = "checkpoint" <=> pc[v] = "checkpoint"
  BY DEF Busy, Goto, TypeOK
<1> QED
  BY <1>1, <1>2 DEF CountExact, HeldIsClaimed, HeldOnce, NoneForgotten,
                    UnclaimedHaveNoOutcome, CompletedIsOver

LEMMA CollectedInv ==
  ASSUME IInv, TypeOK', NEW w \in Workers, NEW outcome \in {"success", "failure"},
         Collected(w, outcome)
  PROVE  IInv'
<1> USE DEF IInv
<1>1. /\ Goto(w, "checkpoint") /\ pc[w] = "collect"
      /\ UNCHANGED <<item, nextIndex, inFlight, returned>>
      /\ results' = [results EXCEPT ![item[w]] = outcome]
  BY DEF Collected, claims
<1>2. Busy' = Busy /\ w \in Busy
  BY <1>1, BusyStays DEF BusyLabels, Busy
<1>3. \A v \in Busy : pc'[v] = IF v = w THEN "checkpoint" ELSE pc[v]
  BY <1>1 DEF Busy, Goto, TypeOK
<1>4. item[w] \in Items /\ item[w] \in 1..nextIndex
  BY <1>2, BatchAssumption DEF HeldIsClaimed, TypeOK, Items
<1>5. \A i \in Items : results'[i] = IF i = item[w] THEN outcome ELSE results[i]
  BY <1>1 DEF TypeOK
<1>6. \A v \in Busy : item[v] \in Items
  BY BatchAssumption DEF HeldIsClaimed, TypeOK, Items
<1>7. CountExact' /\ HeldOnce' /\ CompletedIsOver'
  BY <1>1, <1>2 DEF CountExact, HeldOnce, CompletedIsOver
<1>8. HeldIsClaimed'
  <2> SUFFICES ASSUME NEW v \in Busy
               PROVE  results'[item[v]] = "none" <=> pc'[v] # "checkpoint"
    BY <1>1, <1>2 DEF HeldIsClaimed
  <2>1. CASE v = w  BY <2>1, <1>2, <1>3, <1>4, <1>5
  <2>2. CASE v # w
    <3>1. item[v] # item[w]
      BY <1>2, <2>2 DEF HeldOnce
    <3> QED  BY <2>2, <3>1, <1>3, <1>5, <1>6 DEF HeldIsClaimed
  <2> QED  BY <2>1, <2>2
<1>9. NoneForgotten'
  BY <1>1, <1>2, <1>5, BatchAssumption DEF NoneForgotten, TypeOK, Items
<1>10. UnclaimedHaveNoOutcome'
  BY <1>1, <1>4, <1>5 DEF UnclaimedHaveNoOutcome, TypeOK
<1> QED  BY <1>7, <1>8, <1>9, <1>10

LEMMA FinishInv ==
  ASSUME IInv, TypeOK', NEW w \in Workers, Finish(w)
  PROVE  IInv'
<1> USE DEF IInv
<1>1. /\ pc[w] = "checkpoint"
      /\ inFlight' = inFlight - 1
      /\ UNCHANGED <<item, nextIndex, cancelled, results>>
  BY DEF Finish, Leave, claims
<1>2. PICK l \in {"timer", "ended"} : Goto(w, l)
  BY DEF Finish, EndChain
<1>3. Busy' = Busy \ {w} /\ Cardinality(Busy') = Cardinality(Busy) - 1 /\ w \in Busy
  BY <1>1, <1>2, BusyLeaves DEF BusyLabels, Busy
<1>4. \A v \in Busy' : pc'[v] = pc[v]
  BY <1>2, <1>3 DEF Busy, Goto, TypeOK
<1>5. CountExact'
  BY <1>1, <1>3 DEF CountExact
<1>6. HeldIsClaimed' /\ HeldOnce'
  BY <1>1, <1>3, <1>4 DEF HeldIsClaimed, HeldOnce
<1>7. NoneForgotten'
  BY <1>1, <1>3 DEF NoneForgotten, HeldIsClaimed
<1>8. UnclaimedHaveNoOutcome'
  BY <1>1 DEF UnclaimedHaveNoOutcome
<1>9. CompletedIsOver'
  <2>1. returned # "completed"
    BY <1>3 DEF CompletedIsOver
  <2>2. returned' = "completed" => BatchOver
    BY <1>1, <2>1 DEF Finish, EndChain, ResolveIf, TypeOK
  <2>3. inFlight' = 0 => Busy' = {}
    <3>1. IsFiniteSet(Busy')
      BY <1>3, BusyFinite, FS_RemoveElement
    <3> QED  BY <1>5, <3>1, FS_EmptySet DEF CountExact
  <2> QED  BY <1>1, <2>2, <2>3, BatchAssumption DEF CompletedIsOver, BatchOver, TypeOK
<1> QED  BY <1>5, <1>6, <1>7, <1>8, <1>9

LEMMA InvStep == IInv /\ [Next]_vars => IInv'
<1> SUFFICES ASSUME IInv, [Next]_vars PROVE IInv'
  OBVIOUS
<1>0. TypeOK'
  BY TypeStep DEF IInv
<1>1. ASSUME NEW w \in Workers, Wake(w) PROVE IInv'
  <2>1. pc[w] \notin BusyLabels /\ UNCHANGED results
    BY <1>1 DEF Wake, BusyLabels
  <2>2. CASE cancelled
    <3>1. /\ Goto(w, "ended") /\ UNCHANGED <<item, nextIndex, inFlight>>
          /\ returned' = "completed" => returned = "completed"
      BY <1>1, <2>2 DEF Wake, EndChain, ResolveIf, claims
    <3> QED  BY <1>0, <2>1, <3>1, QuietStep DEF BusyLabels
  <2>3. CASE ~cancelled /\ HasCancelCheck
    <3>1. Goto(w, "query") /\ UNCHANGED <<item, nextIndex, inFlight, returned>>
      BY <1>1, <2>3 DEF Wake, claims
    <3> QED  BY <1>0, <2>1, <3>1, QuietStep DEF BusyLabels
  <2>4. CASE ~cancelled /\ ~HasCancelCheck
    BY <1>0, <1>1, <2>1, <2>4, ClaimNextInv DEF Wake
  <2> QED  BY <2>2, <2>3, <2>4, BatchAssumption DEF IInv, TypeOK
<1>2. ASSUME NEW w \in Workers, ReadStatus(w) PROVE IInv'
  BY <1>0, <1>2, QuietStep DEF ReadStatus, BusyLabels, claims
<1>3. ASSUME NEW w \in Workers, ResumeCheck(w) PROVE IInv'
  <2>1. pc[w] \notin BusyLabels /\ UNCHANGED results
    BY <1>3 DEF ResumeCheck, BusyLabels
  <2>2. CASE seen[w]
    <3>1. /\ Goto(w, "ended") /\ UNCHANGED <<item, nextIndex, inFlight>>
          /\ returned' = "completed" => returned = "completed"
      BY <1>3, <2>2 DEF ResumeCheck, EndChain, ResolveIf, claims
    <3> QED  BY <1>0, <2>1, <3>1, QuietStep DEF BusyLabels
  <2>3. CASE ~seen[w]
    BY <1>0, <1>3, <2>1, <2>3, ClaimNextInv DEF ResumeCheck
  <2> QED  BY <2>2, <2>3
<1>4. ASSUME NEW w \in Workers, ItemStarted(w) PROVE IInv'
  BY <1>0, <1>4, HeldStep DEF ItemStarted, claims
<1>5. ASSUME NEW w \in Workers, NEW outcome \in {"success", "failure"}, Collected(w, outcome)
      PROVE  IInv'
  BY <1>0, <1>5, CollectedInv
<1>6. ASSUME NEW w \in Workers, Finish(w) PROVE IInv'
  BY <1>0, <1>6, FinishInv
<1>7. ASSUME NEW w \in Workers, FailStatusRead(w) PROVE IInv'
  BY <1>0, <1>7, QuietStep DEF FailStatusRead, BusyLabels, claims
<1>8. ASSUME UNCHANGED <<pc, item, nextIndex, inFlight, results, returned>> PROVE IInv'
  <2>1. Busy' = Busy
    BY <1>8 DEF Busy
  <2> QED
    BY <1>0, <1>8, <2>1 DEF IInv, CountExact, HeldIsClaimed, HeldOnce, NoneForgotten,
                            UnclaimedHaveNoOutcome, CompletedIsOver
<1>9. CancelJob \/ UNCHANGED vars => UNCHANGED <<pc, item, nextIndex, inFlight, results, returned>>
  BY DEF CancelJob, vars, claims
<1> QED
  BY <1>1, <1>2, <1>3, <1>4, <1>5, <1>6, <1>7, <1>8, <1>9 DEF Next, WorkerStep

LEMMA Invariance == Spec => []IInv
  BY InvInit, InvStep, PTL DEF Spec

-----------------------------------------------------------------------------

\* The counter that ends the batch never drifts from the workers at work, and
\* never exceeds maxConcurrency.
THEOREM CounterIsExact == Spec => []InFlightExact
<1>1. Cardinality(Busy) <= WorkerCount
  BY WorkersType, FS_Subset DEF Busy
<1>2. IInv => InFlightExact
  BY <1>1, WorkersType, BusyFinite, BatchAssumption DEF IInv, CountExact, InFlightExact
<1> QED  BY Invariance, <1>2, PTL

\* Two workers never have the same item, and an item is never done twice.
THEOREM ItemsAreClaimedOnce == Spec => []ClaimedOnce
<1>1. IInv => ClaimedOnce
  BY DEF IInv, HeldIsClaimed, HeldOnce, ClaimedOnce
<1> QED  BY Invariance, <1>1, PTL

\* A batch that returns uncancelled left no item out and no worker behind.
THEOREM CompletedMeansAllDone == Spec => []CompleteWhenReturned
<1>1. IInv => CompleteWhenReturned
  BY DEF IInv, CompletedIsOver, NoneForgotten, CompleteWhenReturned, Items
<1> QED  BY Invariance, <1>1, PTL

-----------------------------------------------------------------------------
(* Cancellation.  Each item claimed after it is the last claim of a worker *)
(* of its own, because that worker's next status read sees the row.        *)

StaleIsLast ==
    HasCancelCheck =>
        \A i \in staleClaims :
            /\ jobCancelled
            /\ \E w \in Workers : item[w] = i /\ (pc[w] = "verdict" => seen[w])

LEMMA StaleInit == Init => StaleIsLast
  BY DEF Init, StaleIsLast

LEMMA ClaimNextStale ==
  ASSUME TypeOK, StaleIsLast, NEW w \in Workers, HasCancelCheck, pc[w] = "verdict", ~seen[w],
         ClaimNext(w), UNCHANGED <<seen, row>>
  PROVE  StaleIsLast'
<1>1. CASE NothingLeft
  BY <1>1 DEF ClaimNext, EndChain, Goto, StaleIsLast, TypeOK, claims, row
<1>2. CASE ~NothingLeft
  <2>1. /\ item' = [item EXCEPT ![w] = nextIndex'] /\ Goto(w, "starting")
        /\ staleClaims' = IF jobCancelled THEN staleClaims \cup {nextIndex'} ELSE staleClaims
        /\ jobCancelled' = jobCancelled /\ seen' = seen
    BY <1>2 DEF ClaimNext, row
  <2>2. item'[w] = nextIndex' /\ pc'[w] = "starting"
    BY <2>1 DEF Goto, TypeOK
  <2>3. \A v \in Workers \ {w} : item'[v] = item[v] /\ pc'[v] = pc[v]
    BY <2>1 DEF Goto, TypeOK
  <2> QED  BY <2>1, <2>2, <2>3 DEF StaleIsLast
<1> QED  BY <1>1, <1>2

LEMMA StaleStep == TypeOK /\ StaleIsLast /\ [Next]_vars => StaleIsLast'
<1> SUFFICES ASSUME TypeOK, StaleIsLast, [Next]_vars, HasCancelCheck PROVE StaleIsLast'
  BY DEF StaleIsLast
<1> USE DEF claims, row
\* A step of one worker that claims nothing and does not enter "verdict".
<1>1. ASSUME NEW w \in Workers, NEW l, l # "verdict", Goto(w, l),
             UNCHANGED <<claims, seen, jobCancelled>>
      PROVE  StaleIsLast'
  BY <1>1 DEF StaleIsLast, Goto, TypeOK
<1>2. ASSUME NEW w \in Workers, Wake(w) PROVE StaleIsLast'
  <2>1. PICK l \in {"ended", "query"} : Goto(w, l)
    BY <1>2 DEF Wake, EndChain, TypeOK
  <2>2. UNCHANGED <<claims, seen, jobCancelled>>
    BY <1>2 DEF Wake, TypeOK
  <2> QED  BY <1>1, <2>1, <2>2
<1>3. ASSUME NEW w \in Workers, ReadStatus(w) PROVE StaleIsLast'
  BY <1>3 DEF ReadStatus, StaleIsLast, Goto, TypeOK
<1>4. ASSUME NEW w \in Workers, ResumeCheck(w) PROVE StaleIsLast'
  <2>1. CASE seen[w]
    BY <1>1, <1>4, <2>1 DEF ResumeCheck, EndChain
  <2>2. CASE ~seen[w]
    BY <1>4, <2>2, ClaimNextStale DEF ResumeCheck
  <2> QED  BY <2>1, <2>2
<1>5. ASSUME NEW w \in Workers, ItemStarted(w) PROVE StaleIsLast'
  BY <1>1, <1>5 DEF ItemStarted
<1>6. ASSUME NEW w \in Workers, NEW outcome \in {"success", "failure"}, Collected(w, outcome)
      PROVE  StaleIsLast'
  BY <1>1, <1>6 DEF Collected
<1>7. ASSUME NEW w \in Workers, Finish(w) PROVE StaleIsLast'
  <2>1. PICK l \in {"ended", "timer"} : Goto(w, l)
    BY <1>7 DEF Finish, EndChain
  <2> QED  BY <1>1, <1>7, <2>1 DEF Finish
<1>8. ASSUME NEW w \in Workers, FailStatusRead(w) PROVE StaleIsLast'
  BY <1>1, <1>8 DEF FailStatusRead
<1>9. CASE CancelJob  BY <1>9 DEF CancelJob, StaleIsLast
<1>10. CASE UNCHANGED vars  BY <1>10 DEF vars, StaleIsLast
<1> QED
  BY <1>2, <1>3, <1>4, <1>5, <1>6, <1>7, <1>8, <1>9, <1>10 DEF Next, WorkerStep

\* After a cancellation each worker claims at most one more item.
THEOREM CancellationStopsClaims == Spec => []CancelStopsClaims
<1>1. Spec => [](TypeOK /\ StaleIsLast)
  BY TypeInit, TypeStep, StaleInit, StaleStep, PTL DEF Spec
<1>2. TypeOK /\ StaleIsLast => CancelStopsClaims
  <2> SUFFICES ASSUME TypeOK, StaleIsLast, HasCancelCheck
               PROVE  Cardinality(staleClaims) <= WorkerCount
    BY DEF CancelStopsClaims
  <2> DEFINE last == [i \in staleClaims |-> CHOOSE w \in Workers : item[w] = i]
  <2>1. \A i \in staleClaims : last[i] \in Workers /\ item[last[i]] = i
    BY DEF StaleIsLast
  <2>2. last \in Injection(staleClaims, Workers)
    BY <2>1 DEF Injection, IsInjective
  <2> QED  BY <2>2, WorkersType, FS_Injection
<1> QED  BY <1>1, <1>2, PTL

-----------------------------------------------------------------------------
(* Refinement of BatchPromise.  A step that resolves is either the Finish  *)
(* of the last worker, or one that finds the cancellation: a worker that   *)
(* finds nothing left and nothing in flight always comes too late.         *)

\* A batch with nothing left and nothing in flight has returned.
OverIsReturned == nextIndex = ItemCount /\ Busy = {} => returned # "no"

Todo == {i \in Items : i > nextIndex}
Held == {item[w] : w \in Busy}
Done == {i \in Items : results[i] # "none"} \ Held

\* A step is one of the promise, or one the promise does not see.
Refines == [Promise!Next]_(Promise!vars) /\ OverIsReturned'

LEMMA NothingInFlight == IInv => (inFlight = 0 <=> Busy = {})
  BY BusyFinite, FS_EmptySet DEF IInv, CountExact

LEMMA HeldAreItems == IInv => Held \subseteq Items
  BY BatchAssumption DEF IInv, HeldIsClaimed, Held, TypeOK, Items

LEMMA PromiseVars == Promise!vars = <<Todo, Held, Done, returned>>
  BY DEF Promise!vars, Todo, Held, Done

\* Steps of a worker that holds nothing, before and after.
LEMMA QuietRefines ==
  ASSUME IInv, OverIsReturned, Busy' = Busy, UNCHANGED <<item, nextIndex, results>>,
         \/ returned' = returned
         \/ returned = "no" /\ returned' = "cancelled" /\ inFlight = 0
  PROVE  Refines
<1>1. Todo' = Todo /\ Held' = Held /\ Done' = Done
  BY DEF Todo, Held, Done
<1>2. OverIsReturned'
  BY DEF OverIsReturned
<1>3. CASE returned' = returned
  BY <1>1, <1>2, <1>3, PromiseVars DEF Refines, Promise!vars, Todo, Held, Done
<1>4. CASE returned = "no" /\ returned' = "cancelled" /\ inFlight = 0
  <2>1. Held = {}
    BY <1>4, NothingInFlight DEF Held
  <2>2. Promise!ReturnCancelled
    BY <1>1, <1>4, <2>1 DEF Promise!ReturnCancelled, Todo, Held, Done
  <2> QED  BY <1>2, <2>2 DEF Refines, Promise!Next
<1> QED  BY <1>3, <1>4

LEMMA ClaimRefines ==
  ASSUME IInv, OverIsReturned, NEW w \in Workers, pc[w] \notin BusyLabels, ClaimNext(w),
         UNCHANGED results
  PROVE  Refines
<1> USE DEF IInv
<1>1. CASE NothingLeft
  <2>1. Goto(w, "ended") /\ UNCHANGED <<item, nextIndex>>
    BY <1>1 DEF ClaimNext, EndChain, claims
  <2>2. Busy' = Busy
    BY <2>1, BusyStays DEF BusyLabels
  <2>3. nextIndex = ItemCount
    BY <1>1, BatchAssumption DEF NothingLeft, TypeOK
  <2>4. \/ returned' = returned
        \/ returned = "no" /\ returned' = "cancelled" /\ inFlight = 0
    BY <1>1, <2>3, NothingInFlight DEF ClaimNext, EndChain, ResolveIf, OverIsReturned
  <2> QED  BY <2>1, <2>2, <2>4, QuietRefines
<1>2. CASE ~NothingLeft
  <2>0. PICK i \in Items : i = nextIndex + 1
    BY <1>2, BatchAssumption DEF NothingLeft, TypeOK, Items
  <2>1. /\ nextIndex # ItemCount
        /\ nextIndex' = i /\ item' = [item EXCEPT ![w] = i]
        /\ Goto(w, "starting") /\ returned' = returned
    BY <1>2, <2>0, BatchAssumption DEF ClaimNext, NothingLeft, TypeOK
  <2>2. Busy' = Busy \cup {w} /\ w \notin Busy
    BY <2>1, BusyJoins DEF BusyLabels, Busy
  <2>3. Held' = Held \cup {i}
    BY <2>1, <2>2 DEF Held, TypeOK, Busy
  <2>4. Todo' = Todo \ {i} /\ i \in Todo
    BY <2>0, <2>1, BatchAssumption DEF Todo, TypeOK, Items
  <2>5. Done' = Done
    BY <2>0, <2>1, <2>3 DEF Done, UnclaimedHaveNoOutcome, TypeOK, Items
  <2>6. returned # "completed"
    BY <2>1 DEF CompletedIsOver
  <2>7. Promise!Start(i)
    BY <2>1, <2>3, <2>4, <2>5, <2>6 DEF Promise!Start, Todo, Held, Done
  <2>8. OverIsReturned'
    BY <2>2 DEF OverIsReturned
  <2> QED  BY <2>7, <2>8 DEF Refines, Promise!Next
<1> QED  BY <1>1, <1>2

LEMMA FinishRefines ==
  ASSUME IInv, IInv', OverIsReturned, NEW w \in Workers, Finish(w)
  PROVE  Refines
<1> USE DEF IInv
<1>1. pc[w] = "checkpoint" /\ UNCHANGED <<item, nextIndex, cancelled, results>>
  BY DEF Finish, claims
<1>2. PICK l \in {"timer", "ended"} : Goto(w, l)
  BY DEF Finish, EndChain
<1>3. Busy' = Busy \ {w} /\ w \in Busy
  BY <1>1, <1>2, BusyLeaves DEF BusyLabels, Busy
<1>0. PICK i \in Items : i = item[w]
  BY <1>3, HeldAreItems DEF Held
<1>4. i \in Held /\ Held' = Held \ {i}
  BY <1>0, <1>1, <1>3 DEF Held, HeldOnce
<1>5. Done' = Done \cup {i} /\ Todo' = Todo
  BY <1>0, <1>1, <1>3, <1>4 DEF Done, Todo, HeldIsClaimed
<1>6. inFlight' = 0 <=> Busy' = {}
  <2>1. IsFiniteSet(Busy')
    BY <1>3, BusyFinite, FS_RemoveElement
  <2> QED  BY <2>1, FS_EmptySet DEF CountExact
<1>7. \/ returned' = returned
      \/ returned = "no" /\ returned' = "cancelled"
      \/ returned = "no" /\ returned' = "completed" /\ BatchOver
  BY <1>1 DEF Finish, EndChain, ResolveIf
<1>8. BatchOver => Done' = Items
  <2> SUFFICES ASSUME BatchOver PROVE Done' = Items
    OBVIOUS
  <2>1. nextIndex' = ItemCount /\ Busy' = {}
    BY <1>1, <1>6, BatchAssumption DEF BatchOver, TypeOK
  <2>2. \A j \in Items : results'[j] # "none"
    BY <2>1 DEF NoneForgotten, Items
  <2> QED  BY <2>1, <2>2 DEF Done, Held
<1>9. Promise!End(i)
  <2>1. returned' \in {returned} \cup
            (IF returned # "no" THEN {}
             ELSE {"cancelled"} \cup (IF Done' = Items THEN {"completed"} ELSE {}))
    BY <1>7, <1>8
  <2> QED  BY <1>4, <1>5, <2>1 DEF Promise!End, Todo, Held, Done
<1>10. OverIsReturned'
  <2> SUFFICES ASSUME nextIndex = ItemCount, Busy' = {} PROVE returned' # "no"
    BY <1>1 DEF OverIsReturned
  <2>1. EndChain(w, inFlight' = 0) \/ EndChain(w, BatchOver)
    BY BatchAssumption DEF Finish, TypeOK
  <2>2. BatchOver /\ inFlight' = 0
    BY <1>6, BatchAssumption DEF BatchOver, TypeOK
  <2> QED  BY <2>1, <2>2 DEF EndChain, ResolveIf
<1> QED  BY <1>9, <1>10 DEF Refines, Promise!Next

LEMMA CollectedRefines ==
  ASSUME IInv, OverIsReturned, NEW w \in Workers, NEW outcome \in {"success", "failure"},
         Collected(w, outcome)
  PROVE  Refines
<1> USE DEF IInv
<1>1. /\ Goto(w, "checkpoint") /\ pc[w] = "collect"
      /\ UNCHANGED <<item, nextIndex, returned>>
      /\ results' = [results EXCEPT ![item[w]] = outcome]
  BY DEF Collected, claims
<1>2. Busy' = Busy /\ w \in Busy
  BY <1>1, BusyStays DEF BusyLabels, Busy
<1>3. Todo' = Todo /\ Held' = Held /\ item[w] \in Held
  BY <1>1, <1>2 DEF Todo, Held
<1>4. Done' = Done
  BY <1>1, <1>3 DEF Done, TypeOK
<1>5. OverIsReturned'
  BY <1>1, <1>2 DEF OverIsReturned
<1> QED  BY <1>1, <1>3, <1>4, <1>5, PromiseVars DEF Refines, Promise!vars, Todo, Held, Done

LEMMA StepRefines == IInv /\ IInv' /\ OverIsReturned /\ [Next]_vars => Refines
<1> SUFFICES ASSUME IInv, IInv', OverIsReturned, [Next]_vars PROVE Refines
  OBVIOUS
<1> USE DEF claims, row
\* A step of a worker that stays without an item, and returns if at all cancelled.
<1>1. ASSUME NEW w \in Workers, NEW l, pc[w] \in BusyLabels <=> l \in BusyLabels, Goto(w, l),
             UNCHANGED <<item, nextIndex, results>>,
             \/ returned' = returned
             \/ returned = "no" /\ returned' = "cancelled" /\ inFlight = 0
      PROVE  Refines
  BY <1>1, BusyStays, QuietRefines DEF IInv
<1>2. ASSUME NEW w \in Workers, EndChain(w, inFlight = 0), cancelled', pc[w] \notin BusyLabels,
             UNCHANGED <<item, nextIndex, results>>
      PROVE  Refines
  BY <1>1, <1>2 DEF EndChain, ResolveIf, BusyLabels
<1>3. ASSUME NEW w \in Workers, Wake(w) PROVE Refines
  <2>1. pc[w] \notin BusyLabels
    BY <1>3 DEF Wake, BusyLabels
  <2>2. CASE cancelled  BY <1>2, <1>3, <2>1, <2>2 DEF Wake
  <2>3. CASE ~cancelled /\ HasCancelCheck
    BY <1>1, <1>3, <2>3 DEF Wake, BusyLabels
  <2>4. CASE ~cancelled /\ ~HasCancelCheck
    BY <1>3, <2>1, <2>4, ClaimRefines DEF Wake
  <2> QED  BY <2>2, <2>3, <2>4, BatchAssumption DEF IInv, TypeOK
<1>4. ASSUME NEW w \in Workers, ReadStatus(w) PROVE Refines
  BY <1>1, <1>4 DEF ReadStatus, BusyLabels
<1>5. ASSUME NEW w \in Workers, ResumeCheck(w) PROVE Refines
  <2>1. pc[w] \notin BusyLabels
    BY <1>5 DEF ResumeCheck, BusyLabels
  <2>2. CASE seen[w]  BY <1>2, <1>5, <2>1, <2>2 DEF ResumeCheck
  <2>3. CASE ~seen[w]  BY <1>5, <2>1, <2>3, ClaimRefines DEF ResumeCheck
  <2> QED  BY <2>2, <2>3
<1>6. ASSUME NEW w \in Workers, ItemStarted(w) PROVE Refines
  BY <1>1, <1>6 DEF ItemStarted, BusyLabels
<1>7. ASSUME NEW w \in Workers, NEW outcome \in {"success", "failure"}, Collected(w, outcome)
      PROVE  Refines
  BY <1>7, CollectedRefines
<1>8. ASSUME NEW w \in Workers, Finish(w) PROVE Refines
  BY <1>8, FinishRefines
<1>9. ASSUME NEW w \in Workers, FailStatusRead(w) PROVE Refines
  BY <1>1, <1>9 DEF FailStatusRead, BusyLabels
<1>10. CASE CancelJob \/ UNCHANGED vars
  BY <1>10, QuietRefines DEF CancelJob, vars, Busy
<1> QED
  BY <1>3, <1>4, <1>5, <1>6, <1>7, <1>8, <1>9, <1>10 DEF Next, WorkerStep

LEMMA InitRefines == Init => Promise!Init /\ OverIsReturned
<1> SUFFICES ASSUME Init PROVE Promise!Init /\ OverIsReturned
  OBVIOUS
<1>1. Busy = {}
  BY DEF Init, Busy, BusyLabels
<1>2. Todo = Items /\ Held = {} /\ Done = {}
  BY <1>1 DEF Init, Todo, Held, Done, Items
<1>3. OverIsReturned
  BY BatchAssumption DEF Init, OverIsReturned
<1> QED  BY <1>2, <1>3 DEF Promise!Init, Init, Todo, Held, Done

\* The workers, timers and counters of runBatch keep the promise its callers
\* rely on: started once, ended once, "completed" only when all have ended.
THEOREM RunnerKeepsPromise == Spec => KeepsPromise
<1>1. IInv /\ IInv' /\ OverIsReturned /\ [Next]_vars
        => [Promise!Next]_(Promise!vars) /\ OverIsReturned'
  BY StepRefines DEF Refines
<1> QED  BY InitRefines, Invariance, <1>1, PTL DEF Spec, KeepsPromise, Promise!Spec


-----------------------------------------------------------------------------
(* Refinement of the batch of CollectionJob.  Its counts follow the        *)
(* workers: a step moves one of them, and what CollectionJob settles at    *)
(* once, that the batch is over or cancelled, the chains find one by one.  *)

\* A record of CollectionJob's run, by the fields a batch changes.
Rec(p, todo, running, writes, idle, permits, seenCancelled) ==
    [pc |-> p, msg |-> 0, todo |-> todo, running |-> running, writes |-> writes,
     recorded |-> Items, idle |-> idle, permits |-> permits, cancelled |-> seenCancelled]

\* The fields of the run that BatchRunner's state stands for.
JobPc == CASE returned = "no" -> "batch"
           [] returned = "completed" -> "close"
           [] returned = "cancelled" -> "return"
Collecting == {item[w] : w \in {v \in Busy : pc[v] # "checkpoint"}}
Writing == {[poi |-> item[w], ids |-> Items] : w \in {v \in Busy : pc[v] = "checkpoint"}}
IdleCount == IF cancelled \/ returned # "no" THEN 0 ELSE Cardinality(JobIdle)
PermitCount == IF JobTodo = {} THEN 0 ELSE Cardinality(JobPermits)
JobSees == cancelled /\ returned # "completed"

JobPcs == {"batch", "close", "return"}

JobRec == Rec(JobPc, JobTodo, Collecting, Writing, IdleCount, PermitCount, JobSees)

\* The function of one run.
Only(b) == [r \in {1} |-> b]

LEMMA JobRunIs == JobRun = Only(JobRec) /\ JobRun' = Only(JobRec')
  BY DEF JobRun, Only, JobRec, Rec, JobPc, Collecting, Writing, IdleCount, PermitCount, JobSees

LEMMA OnlyOne ==
  ASSUME NEW b, NEW c
  PROVE  Only(b)[1] = b /\ [Only(b) EXCEPT ![1] = c] = Only(c)
  BY DEF Only

\* The same record with one field changed.
LEMMA RecPc ==
  ASSUME NEW p, NEW t, NEW ru, NEW wr, NEW id, NEW pe, NEW ca, NEW x
  PROVE  [Rec(p, t, ru, wr, id, pe, ca) EXCEPT !.pc = x] = Rec(x, t, ru, wr, id, pe, ca)
  BY DEF Rec
LEMMA RecTodo ==
  ASSUME NEW p, NEW t, NEW ru, NEW wr, NEW id, NEW pe, NEW ca, NEW x
  PROVE  [Rec(p, t, ru, wr, id, pe, ca) EXCEPT !.todo = x] = Rec(p, x, ru, wr, id, pe, ca)
  BY DEF Rec
LEMMA RecRunning ==
  ASSUME NEW p, NEW t, NEW ru, NEW wr, NEW id, NEW pe, NEW ca, NEW x
  PROVE  [Rec(p, t, ru, wr, id, pe, ca) EXCEPT !.running = x] = Rec(p, t, x, wr, id, pe, ca)
  BY DEF Rec
LEMMA RecWrites ==
  ASSUME NEW p, NEW t, NEW ru, NEW wr, NEW id, NEW pe, NEW ca, NEW x
  PROVE  [Rec(p, t, ru, wr, id, pe, ca) EXCEPT !.writes = x] = Rec(p, t, ru, x, id, pe, ca)
  BY DEF Rec
LEMMA RecIdle ==
  ASSUME NEW p, NEW t, NEW ru, NEW wr, NEW id, NEW pe, NEW ca, NEW x
  PROVE  [Rec(p, t, ru, wr, id, pe, ca) EXCEPT !.idle = x] = Rec(p, t, ru, wr, x, pe, ca)
  BY DEF Rec
LEMMA RecPermits ==
  ASSUME NEW p, NEW t, NEW ru, NEW wr, NEW id, NEW pe, NEW ca, NEW x
  PROVE  [Rec(p, t, ru, wr, id, pe, ca) EXCEPT !.permits = x] = Rec(p, t, ru, wr, id, x, ca)
  BY DEF Rec
LEMMA RecCancelled ==
  ASSUME NEW p, NEW t, NEW ru, NEW wr, NEW id, NEW pe, NEW ca, NEW x
  PROVE  [Rec(p, t, ru, wr, id, pe, ca) EXCEPT !.cancelled = x] = Rec(p, t, ru, wr, id, pe, x)
  BY DEF Rec

\* What the helper Settled of CollectionJob makes of such a record.
LEMMA SettledRec ==
  ASSUME NEW p \in JobPcs, NEW t, NEW ru, NEW wr, NEW id, NEW pe,
         NEW ca \in BOOLEAN
  PROVE  LET ended == p = "batch" /\ ru = {} /\ wr = {} /\ (t = {} \/ ca)
         IN  Job!Settled(Rec(p, t, ru, wr, id, pe, ca)) =
               Rec(IF ended THEN IF ca THEN "return" ELSE "close" ELSE p, t, ru, wr,
                   IF ca \/ ended THEN 0 ELSE id, IF t = {} THEN 0 ELSE pe, ca)
<1>. DEFINE b == Rec(p, t, ru, wr, id, pe, ca)
            left == IF t = {} THEN 0 ELSE pe
            still == IF ca THEN 0 ELSE id
            c == [b EXCEPT !.permits = left, !.idle = still]
            next == IF ca THEN "return" ELSE "close"
            ended == p = "batch" /\ ru = {} /\ wr = {} /\ (t = {} \/ ca)
<1>1. /\ b.pc = p /\ b.todo = t /\ b.running = ru /\ b.writes = wr /\ b.cancelled = ca
      /\ b.idle = id /\ b.permits = pe
  BY DEF Rec
<1>. HIDE DEF b
<1>2. Job!Settled(b) = IF ended THEN [c EXCEPT !.pc = next, !.idle = 0] ELSE c
  <2>1. c = [b EXCEPT !.permits = IF b.todo = {} THEN 0 ELSE @,
                      !.idle = IF b.cancelled THEN 0 ELSE @]
    BY <1>1
  <2>. QED  BY <1>1, <2>1 DEF Job!Settled, JobPcs
<1>. USE DEF b
<1>. HIDE DEF left, still, next
<1>3. c = Rec(p, t, ru, wr, still, left, ca)
  <2>1. [b EXCEPT !.permits = left] = Rec(p, t, ru, wr, id, left, ca)  BY RecPermits
  <2>2. [Rec(p, t, ru, wr, id, left, ca) EXCEPT !.idle = still] = Rec(p, t, ru, wr, still, left, ca)
    BY RecIdle
  <2>. QED  BY <2>1, <2>2
<1>4. [c EXCEPT !.pc = next, !.idle = 0] = Rec(next, t, ru, wr, 0, left, ca)
  <2>1. [Rec(p, t, ru, wr, still, left, ca) EXCEPT !.pc = next] = Rec(next, t, ru, wr, still, left, ca)
    BY RecPc
  <2>2. [Rec(next, t, ru, wr, still, left, ca) EXCEPT !.idle = 0] = Rec(next, t, ru, wr, 0, left, ca)
    BY RecIdle
  <2>. QED  BY <1>3, <2>1, <2>2
<1>. QED  BY <1>2, <1>3, <1>4 DEF left, still, next

\* What ReadStatus, Claim, Collected and Written do to the record before it settles.
LetIn(b) == [b EXCEPT !.idle = @ - 1, !.permits = @ + 1]
Seeing(b) == [b EXCEPT !.cancelled = TRUE]
Taking(b, i) == [b EXCEPT !.permits = @ - 1, !.todo = @ \ {i}, !.running = @ \cup {i}]
Sending(b, i, w) == [b EXCEPT !.running = @ \ {i}, !.recorded = Items, !.writes = @ \cup {w}]
Written(b, w, count) == [b EXCEPT !.writes = @ \ {w}, !.idle = count]

\* ReadStatus: a worker is let through, or sees the cancellation.
LEMMA LetThroughRec ==
  ASSUME NEW p \in JobPcs, NEW t, NEW ru, NEW wr, NEW id, NEW pe, NEW ca \in BOOLEAN, ~ca,
         ~(t = {} /\ ru = {} /\ wr = {}), NEW less, less = id - 1, NEW more, more = pe + 1
  PROVE  Job!Settled(LetIn(Rec(p, t, ru, wr, id, pe, ca)))
           = Rec(p, t, ru, wr, less, IF t = {} THEN 0 ELSE more, ca)
<1>. DEFINE b == Rec(p, t, ru, wr, id, pe, ca)
<1>1. b.idle = id /\ b.permits = pe  BY DEF Rec
<1>. HIDE DEF b
<1>2. LetIn(b) = [b EXCEPT !.idle = less, !.permits = more]
  BY <1>1 DEF LetIn
<1>4. [b EXCEPT !.idle = less] = Rec(p, t, ru, wr, less, pe, ca)  BY RecIdle DEF b
<1>5. [b EXCEPT !.idle = less, !.permits = more] = Rec(p, t, ru, wr, less, more, ca)
  <2>1. [Rec(p, t, ru, wr, less, pe, ca) EXCEPT !.permits = more] = Rec(p, t, ru, wr, less, more, ca)
    BY RecPermits
  <2>. QED  BY <1>4, <2>1
<1>7. Job!Settled(Rec(p, t, ru, wr, less, more, ca))
        = Rec(p, t, ru, wr, less, IF t = {} THEN 0 ELSE more, ca)
  BY SettledRec
<1>. QED  BY <1>2, <1>5, <1>7 DEF b

LEMMA SeenRec ==
  ASSUME NEW t, NEW ru, NEW wr, NEW id, NEW pe
  PROVE  Job!Settled(Seeing(Rec("batch", t, ru, wr, id, pe, FALSE)))
           = Rec(IF ru = {} /\ wr = {} THEN "return" ELSE "batch", t, ru, wr, 0,
                 IF t = {} THEN 0 ELSE pe, TRUE)
<1>. DEFINE p == "batch"
            old == FALSE
            ca == TRUE
            ended == p = "batch" /\ ru = {} /\ wr = {} /\ (t = {} \/ ca)
<1>1. p \in JobPcs /\ ca \in BOOLEAN  BY DEF JobPcs
<1>2. /\ (IF ended THEN IF ca THEN "return" ELSE "close" ELSE p)
           = (IF ru = {} /\ wr = {} THEN "return" ELSE p)
      /\ (IF ca \/ ended THEN 0 ELSE id) = 0
  OBVIOUS
<1>. HIDE DEF p, old, ca
<1>3. [Rec(p, t, ru, wr, id, pe, old) EXCEPT !.cancelled = ca] = Rec(p, t, ru, wr, id, pe, ca)
  BY RecCancelled
<1>4. Job!Settled(Rec(p, t, ru, wr, id, pe, ca))
        = Rec(IF ended THEN IF ca THEN "return" ELSE "close" ELSE p, t, ru, wr,
              IF ca \/ ended THEN 0 ELSE id, IF t = {} THEN 0 ELSE pe, ca)
  BY <1>1, SettledRec
<1>5. Job!Settled(Rec(p, t, ru, wr, id, pe, ca))
        = Rec(IF ru = {} /\ wr = {} THEN "return" ELSE p, t, ru, wr, 0,
              IF t = {} THEN 0 ELSE pe, ca)
  BY <1>2, <1>4
<1>. QED  BY <1>3, <1>5 DEF p, old, ca, Seeing

\* Claim: an item is taken by a worker that was let through.
LEMMA ClaimedRec ==
  ASSUME NEW p \in JobPcs, NEW t, NEW ru, NEW wr, NEW id, NEW pe,
         NEW ca \in BOOLEAN, NEW i
  PROVE  Job!Settled(Taking(Rec(p, t, ru, wr, id, pe, ca), i))
           = Rec(p, t \ {i}, ru \cup {i}, wr, IF ca THEN 0 ELSE id,
                 IF t \ {i} = {} THEN 0 ELSE pe - 1, ca)
<1>. DEFINE b == Rec(p, t, ru, wr, id, pe, ca)
            less == pe - 1
            rest == t \ {i}
            more == ru \cup {i}
<1>1. b.permits = pe /\ b.todo = t /\ b.running = ru  BY DEF Rec
<1>. HIDE DEF b
<1>2. Taking(b, i) = [b EXCEPT !.permits = less, !.todo = rest, !.running = more]
  BY <1>1 DEF Taking
<1>3. more # {}  OBVIOUS
<1>. HIDE DEF less, rest, more
<1>4. [b EXCEPT !.permits = less] = Rec(p, t, ru, wr, id, less, ca)  BY RecPermits DEF b
<1>5. [b EXCEPT !.permits = less, !.todo = rest] = Rec(p, rest, ru, wr, id, less, ca)
  <2>1. [Rec(p, t, ru, wr, id, less, ca) EXCEPT !.todo = rest] = Rec(p, rest, ru, wr, id, less, ca)
    BY RecTodo
  <2>. QED  BY <1>4, <2>1
<1>6. [b EXCEPT !.permits = less, !.todo = rest, !.running = more]
        = Rec(p, rest, more, wr, id, less, ca)
  <2>1. [Rec(p, rest, ru, wr, id, less, ca) EXCEPT !.running = more]
          = Rec(p, rest, more, wr, id, less, ca)
    BY RecRunning
  <2>. QED  BY <1>5, <2>1
<1>7. Job!Settled(Rec(p, rest, more, wr, id, less, ca))
        = Rec(p, rest, more, wr, IF ca THEN 0 ELSE id, IF rest = {} THEN 0 ELSE less, ca)
  BY <1>3, SettledRec
<1>. QED  BY <1>2, <1>6, <1>7 DEF b, less, rest, more

\* Collected: an item goes on to its checkpoint.
LEMMA CollectedRec ==
  ASSUME NEW p, NEW t, NEW ru, NEW wr, NEW id, NEW pe, NEW ca, NEW i, NEW w
  PROVE  Sending(Rec(p, t, ru, wr, id, pe, ca), i, w)
           = Rec(p, t, ru \ {i}, wr \cup {w}, id, pe, ca)
<1>. DEFINE b == Rec(p, t, ru, wr, id, pe, ca)
            less == ru \ {i}
            more == wr \cup {w}
            all == Items
<1>1. b.running = ru /\ b.writes = wr  BY DEF Rec
<1>. HIDE DEF b
<1>2. Sending(b, i, w) = [b EXCEPT !.running = less, !.recorded = all, !.writes = more]
  BY <1>1 DEF Sending
<1>. HIDE DEF less, more
<1>3. [b EXCEPT !.running = less] = Rec(p, t, less, wr, id, pe, ca)  BY RecRunning DEF b
<1>4. [Rec(p, t, less, wr, id, pe, ca) EXCEPT !.recorded = all] = Rec(p, t, less, wr, id, pe, ca)
  BY DEF Rec
<1>5. [b EXCEPT !.running = less, !.recorded = all, !.writes = more]
        = Rec(p, t, less, more, id, pe, ca)
  <2>1. [Rec(p, t, less, wr, id, pe, ca) EXCEPT !.writes = more] = Rec(p, t, less, more, id, pe, ca)
    BY RecWrites
  <2>. QED  BY <1>3, <1>4, <2>1
<1>. QED  BY <1>2, <1>5 DEF b, less, more

\* What a settled batch comes to, from what is left of it and how many are idle.
Comes(p, t, ru, wr, ca, count, q, left) ==
    LET ended == p = "batch" /\ ru = {} /\ wr = {} /\ (t = {} \/ ca)
    IN  /\ q = IF ended THEN IF ca THEN "return" ELSE "close" ELSE p
        /\ left = IF ca \/ ended THEN 0 ELSE count

\* Written: a checkpoint is done, and its worker arms its timer or not.
LEMMA WrittenRec ==
  ASSUME NEW p \in JobPcs, NEW t, NEW ru, NEW wr, NEW id, NEW pe,
         NEW ca \in BOOLEAN, NEW w, NEW count, NEW q, NEW left,
         Comes(p, t, ru, wr \ {w}, ca, count, q, left)
  PROVE  Job!Settled(Written(Rec(p, t, ru, wr, id, pe, ca), w, count))
              = Rec(q, t, ru, wr \ {w}, left, IF t = {} THEN 0 ELSE pe, ca)
<1>. DEFINE b == Rec(p, t, ru, wr, id, pe, ca)
            less == wr \ {w}
<1>1. b.writes = wr  BY DEF Rec
<1>. HIDE DEF b
<1>2. Written(b, w, count) = [b EXCEPT !.writes = less, !.idle = count]
  BY <1>1 DEF Written
<1>. HIDE DEF less
<1>3. [b EXCEPT !.writes = less] = Rec(p, t, ru, less, id, pe, ca)  BY RecWrites DEF b
<1>4. [b EXCEPT !.writes = less, !.idle = count] = Rec(p, t, ru, less, count, pe, ca)
  <2>1. [Rec(p, t, ru, less, id, pe, ca) EXCEPT !.idle = count] = Rec(p, t, ru, less, count, pe, ca)
    BY RecIdle
  <2>. QED  BY <1>3, <2>1
<1>5. LET ended == p = "batch" /\ ru = {} /\ less = {} /\ (t = {} \/ ca)
      IN  Job!Settled(Rec(p, t, ru, less, count, pe, ca))
            = Rec(IF ended THEN IF ca THEN "return" ELSE "close" ELSE p, t, ru, less,
                  IF ca \/ ended THEN 0 ELSE count, IF t = {} THEN 0 ELSE pe, ca)
  BY SettledRec
<1>. QED  BY <1>2, <1>4, <1>5 DEF b, less, Comes

-----------------------------------------------------------------------------
(* The actions of CollectionJob, by what they make of the record.          *)

LEMMA NothingHeld == (Collecting = {} /\ Writing = {}) <=> Busy = {}
  BY DEF Collecting, Writing

\* The job row, of which a batch changes nothing and a cancellation the status.
Row(status, processed) == [status |-> status, processed |-> processed, old |-> FALSE]

LEMMA RowStatus ==
  ASSUME NEW s, NEW ids, NEW x
  PROVE  [Row(s, ids) EXCEPT !.status = x] = Row(x, ids)
<1>. DEFINE no == FALSE
<1>. HIDE DEF no
<1>1. [[status |-> s, processed |-> ids, old |-> no] EXCEPT !.status = x]
        = [status |-> x, processed |-> ids, old |-> no]
  OBVIOUS
<1>. QED  BY <1>1 DEF Row, no
LEMMA RowProcessed ==
  ASSUME NEW s, NEW ids, NEW x
  PROVE  [Row(s, ids) EXCEPT !.processed = x] = Row(s, x)
<1>. DEFINE no == FALSE
<1>. HIDE DEF no
<1>1. [[status |-> s, processed |-> ids, old |-> no] EXCEPT !.processed = x]
        = [status |-> s, processed |-> x, old |-> no]
  OBVIOUS
<1>. QED  BY <1>1 DEF Row, no

LEMMA RowFields == [JobRow EXCEPT !.processed = Items] = JobRow
<1>. DEFINE s == IF jobCancelled THEN "cancelled" ELSE "running"
<1>1. JobRow = Row(s, Items)  BY DEF JobRow, Row
<1>. HIDE DEF s
<1>. QED  BY <1>1, RowProcessed

LEMMA JobRecFields ==
  /\ JobRec.idle = IdleCount /\ JobRec.permits = PermitCount
  /\ JobRec.todo = JobTodo /\ JobRec.running = Collecting /\ JobRec.writes = Writing
  /\ JobRec.recorded = Items /\ JobRec.pc = JobPc /\ JobRec.cancelled = JobSees
  BY DEF JobRec, Rec

\* The run becomes what its record becomes.
LEMMA JobRunStep ==
  /\ JobRun[1] = JobRec
  /\ \A b : JobRec' = b => JobRun' = [JobRun EXCEPT ![1] = b]
<1>1. JobRun = Only(JobRec) /\ JobRun' = Only(JobRec')  BY JobRunIs
<1>2. JobRun[1] = JobRec  BY <1>1, OnlyOne
<1>3. ASSUME NEW b, JobRec' = b PROVE JobRun' = [JobRun EXCEPT ![1] = b]
  <2>1. [Only(JobRec) EXCEPT ![1] = b] = Only(b)  BY OnlyOne
  <2>. QED  BY <1>1, <1>3, <2>1
<1>. QED  BY <1>2, <1>3

LEMMA LetThrough ==
  ASSUME JobPc \in JobPcs, ~jobCancelled, JobSees \in BOOLEAN, ~JobSees, IdleCount > 0,
         UNCHANGED row, ~(JobTodo = {} /\ Busy = {}),
         NEW less, less = IdleCount - 1, NEW more, more = PermitCount + 1,
         JobRec' = Rec(JobPc, JobTodo, Collecting, Writing, less,
                       IF JobTodo = {} THEN 0 ELSE more, JobSees)
  PROVE  Job!ReadStatus(1)
<1>. DEFINE b == LetIn(JobRec)
<1>1. JobRec = Rec(JobPc, JobTodo, Collecting, Writing, IdleCount, PermitCount, JobSees)
  BY DEF JobRec
<1>2. JobRec' = Job!Settled(b)
  <2>0. ~(JobTodo = {} /\ Collecting = {} /\ Writing = {})  BY NothingHeld
  <2>1. Job!Settled(LetIn(Rec(JobPc, JobTodo, Collecting, Writing, IdleCount, PermitCount, JobSees)))
          = Rec(JobPc, JobTodo, Collecting, Writing, less,
                IF JobTodo = {} THEN 0 ELSE more, JobSees)
    BY <2>0, LetThroughRec
  <2>. QED  BY <1>1, <2>1
<1>. HIDE DEF b
<1>3. JobRun[1] = JobRec /\ JobRun' = [JobRun EXCEPT ![1] = Job!Settled(b)]  BY <1>2, JobRunStep
<1>4. JobRow.status # "cancelled" /\ JobRow' = JobRow  BY DEF JobRow, row, Items
<1>. QED  BY <1>3, <1>4, JobRecFields DEF Job!ReadStatus, b, LetIn, row, Items

LEMMA SeesCancellation ==
  ASSUME JobPc = "batch", jobCancelled, JobSees = FALSE, IdleCount > 0, UNCHANGED row,
         JobRec' = Rec(IF Busy = {} THEN "return" ELSE "batch", JobTodo, Collecting, Writing, 0,
                       IF JobTodo = {} THEN 0 ELSE PermitCount, TRUE)
  PROVE  Job!ReadStatus(1)
<1>. DEFINE b == Seeing(JobRec)
<1>1. JobRec = Rec("batch", JobTodo, Collecting, Writing, IdleCount, PermitCount, FALSE)
  BY DEF JobRec
<1>2. JobRec' = Job!Settled(b)
  <2>1. Job!Settled(Seeing(Rec("batch", JobTodo, Collecting, Writing, IdleCount, PermitCount, FALSE)))
          = Rec(IF Collecting = {} /\ Writing = {} THEN "return" ELSE "batch", JobTodo, Collecting,
                Writing, 0, IF JobTodo = {} THEN 0 ELSE PermitCount, TRUE)
    BY SeenRec
  <2>. QED  BY <1>1, <2>1, NothingHeld
<1>. HIDE DEF b
<1>3. JobRun[1] = JobRec /\ JobRun' = [JobRun EXCEPT ![1] = Job!Settled(b)]  BY <1>2, JobRunStep
<1>4. JobRow.status = "cancelled" /\ JobRow' = JobRow  BY DEF JobRow, row, Items
<1>. QED  BY <1>3, <1>4, JobRecFields DEF Job!ReadStatus, b, Seeing, row, Items

LEMMA LosesChain ==
  ASSUME IdleCount > 0, checkFailures \in Nat, checkFailures < MaxCheckFailures,
         checkFailures' = checkFailures + 1, UNCHANGED jobCancelled,
         JobRec' = Rec(JobPc, JobTodo, Collecting, Writing, IdleCount - 1, PermitCount, JobSees)
  PROVE  Job!StatusReadFails(1)
<1>. DEFINE less == IdleCount - 1
<1>. HIDE DEF less
<1>1. JobRec' = [JobRec EXCEPT !.idle = less]
  BY RecIdle DEF JobRec, less
<1>2. JobRun[1] = JobRec /\ JobRun' = [JobRun EXCEPT ![1] = [JobRec EXCEPT !.idle = less]]
  BY <1>1, JobRunStep
<1>3. JobRun' = [JobRun EXCEPT ![1].idle = @ - 1]
  BY <1>2, JobRecFields DEF less
<1>4. JobRow' = JobRow  BY DEF JobRow, Items
<1>5. LET f == [crashes |-> 0, expiries |-> 0, failures |-> checkFailures]
      IN  f.failures < MaxCheckFailures /\ f' = [f EXCEPT !.failures = @ + 1]
  OBVIOUS
<1>6. Job!Fails("status")  BY <1>5 DEF Job!Fails
<1>. QED  BY <1>2, <1>3, <1>4, <1>6, JobRecFields DEF Job!StatusReadFails, Items

LEMMA Claims ==
  ASSUME NEW i \in JobTodo, JobPc \in JobPcs, JobSees \in BOOLEAN, PermitCount > 0, UNCHANGED row,
         JobRec' = Rec(JobPc, JobTodo \ {i}, Collecting \cup {i}, Writing,
                       IF JobSees THEN 0 ELSE IdleCount,
                       IF JobTodo \ {i} = {} THEN 0 ELSE PermitCount - 1, JobSees)
  PROVE  Job!Claim(1, i)
<1>. DEFINE b == Taking(JobRec, i)
<1>0. JobRec = Rec(JobPc, JobTodo, Collecting, Writing, IdleCount, PermitCount, JobSees)
  BY DEF JobRec
<1>1. JobRec' = Job!Settled(b)
  <2>1. Job!Settled(Taking(Rec(JobPc, JobTodo, Collecting, Writing, IdleCount, PermitCount, JobSees), i))
          = Rec(JobPc, JobTodo \ {i}, Collecting \cup {i}, Writing,
                IF JobSees THEN 0 ELSE IdleCount,
                IF JobTodo \ {i} = {} THEN 0 ELSE PermitCount - 1, JobSees)
    BY ClaimedRec
  <2>. QED  BY <1>0, <2>1
<1>. HIDE DEF b
<1>2. JobRun[1] = JobRec /\ JobRun' = [JobRun EXCEPT ![1] = Job!Settled(b)]  BY <1>1, JobRunStep
<1>3. JobRow' = JobRow  BY DEF JobRow, row, Items
<1>. QED  BY <1>2, <1>3, JobRecFields DEF Job!Claim, b, Taking, row, Items

LEMMA Collects ==
  ASSUME NEW i \in Items, i \in Collecting, UNCHANGED row,
         JobRec' = Rec(JobPc, JobTodo, Collecting \ {i}, Writing \cup {[poi |-> i, ids |-> Items]},
                       IdleCount, PermitCount, JobSees)
  PROVE  Job!Collected(1, i)
<1>. DEFINE w == [poi |-> i, ids |-> Items]
            b == Sending(JobRec, i, w)
<1>0. JobRec = Rec(JobPc, JobTodo, Collecting, Writing, IdleCount, PermitCount, JobSees)
  BY DEF JobRec
<1>1. JobRec' = b
  <2>1. Sending(Rec(JobPc, JobTodo, Collecting, Writing, IdleCount, PermitCount, JobSees), i, w)
          = Rec(JobPc, JobTodo, Collecting \ {i}, Writing \cup {w}, IdleCount, PermitCount, JobSees)
    <3>. HIDE DEF w
    <3>. QED  BY CollectedRec
  <2>. QED  BY <1>0, <2>1
<1>2. Items \cup {i} = Items  OBVIOUS
<1>. HIDE DEF b, w
<1>3. JobRun[1] = JobRec /\ JobRun' = [JobRun EXCEPT ![1] = b]  BY <1>1, JobRunStep
<1>4. JobRow' = JobRow  BY DEF JobRow, row, Items
<1>5. JobRun' = [JobRun EXCEPT ![1].running = @ \ {i}, ![1].recorded = Items, ![1].writes = @ \cup {w}]
  BY <1>3 DEF b, Sending
<1>. QED  BY <1>2, <1>3, <1>4, <1>5, JobRecFields DEF Job!Collected, w, row, Items

LEMMA Writes ==
  ASSUME NEW w \in Writing, JobPc \in JobPcs, JobSees \in BOOLEAN, UNCHANGED row,
         NEW count, count = IF JobTodo # {} /\ ~JobSees /\ JobPc = "batch" THEN IdleCount + 1 ELSE IdleCount,
         NEW q, NEW left,
         Comes(JobPc, JobTodo, Collecting, Writing \ {w}, JobSees, count, q, left),
         JobRec' = Rec(q, JobTodo, Collecting, Writing \ {w}, left,
                       IF JobTodo = {} THEN 0 ELSE PermitCount, JobSees)
  PROVE  w \in JobRun[1].writes /\ Job!Checkpoint(1, w)
<1>. DEFINE b == Written(JobRec, w, count)
<1>0. JobRec = Rec(JobPc, JobTodo, Collecting, Writing, IdleCount, PermitCount, JobSees)
  BY DEF JobRec
<1>1. JobRec' = Job!Settled(b)
  <2>1. Job!Settled(Written(Rec(JobPc, JobTodo, Collecting, Writing, IdleCount, PermitCount, JobSees), w, count))
          = Rec(q, JobTodo, Collecting, Writing \ {w}, left,
                IF JobTodo = {} THEN 0 ELSE PermitCount, JobSees)
    BY WrittenRec
  <2>. QED  BY <1>0, <2>1
<1>2. JobRun[1] = JobRec /\ JobRun' = [JobRun EXCEPT ![1] = Job!Settled(b)]  BY <1>1, JobRunStep
<1>3. b = [JobRec EXCEPT !.writes = @ \ {w},
                         !.idle = IF JobRec.todo # {} /\ ~JobRec.cancelled /\ JobRec.pc = "batch"
                                  THEN @ + 1 ELSE @]
  BY JobRecFields DEF Written
<1>. HIDE DEF b
<1>4. Job!Written(1, w)  BY <1>2, <1>3 DEF Job!Written
<1>5. JobRow' = [JobRow EXCEPT !.processed = w.ids]
  <2>1. w.ids = Items  BY DEF Writing
  <2>2. JobRow' = JobRow  BY DEF JobRow, row, Items
  <2>3. [JobRow EXCEPT !.processed = Items] = JobRow
    BY RowFields
  <2>. QED  BY <2>1, <2>2, <2>3
<1>6. w \in JobRun[1].writes  BY <1>2, JobRecFields
<1>. QED  BY <1>4, <1>5, <1>6 DEF Job!Checkpoint, row, Items

LEMMA Cancels ==
  ASSUME ~jobCancelled, jobCancelled', UNCHANGED checkFailures, JobRec' = JobRec
  PROVE  Job!CancelJob
<1>1. JobRun' = JobRun  BY JobRunIs
<1>2. JobRow.status = "running" /\ JobRow' = [JobRow EXCEPT !.status = "cancelled"]
  <2>. DEFINE old == "running"
              new == "cancelled"
  <2>1. Items' = Items  BY DEF Items
  <2>2. JobRow = Row(old, Items)  BY DEF JobRow, Row
  <2>3. JobRow' = Row(new, Items)  BY <2>1 DEF JobRow, Row
  <2>4. JobRow.status = old  BY <2>2 DEF Row
  <2>. HIDE DEF old, new
  <2>5. [Row(old, Items) EXCEPT !.status = new] = Row(new, Items)  BY RowStatus
  <2>. QED  BY <2>2, <2>3, <2>4, <2>5 DEF old, new
<1>. QED  BY <1>1, <1>2 DEF Job!CancelJob, Job!SetStatus, Items

-----------------------------------------------------------------------------
(* How the fields follow a step of one worker.                             *)

\* A cancellation that a worker saw, or is about to, is in the row; with nothing
\* in flight it has ended the batch, and nothing else ends it as cancelled.
CancelIsSeen ==
    /\ cancelled => jobCancelled
    /\ \A w \in Workers : pc[w] = "verdict" /\ seen[w] => jobCancelled
    /\ cancelled /\ Busy = {} => returned # "no"
    /\ returned = "cancelled" => cancelled

LEMMA OneOfWorkers ==
  ASSUME NEW S \in SUBSET Workers, NEW T \in SUBSET Workers, NEW w \in Workers,
         S \ {w} = T \ {w}
  PROVE  /\ Cardinality(S) \in Nat /\ Cardinality(T) \in Nat
         /\ (w \in S <=> w \in T) => T = S
         /\ w \in S /\ w \notin T => Cardinality(T) = Cardinality(S) - 1
         /\ w \notin S /\ w \in T => Cardinality(T) = Cardinality(S) + 1
<1>1. IsFiniteSet(S) /\ IsFiniteSet(T)
  BY WorkersType, FS_Subset
<1>2. Cardinality(S) \in Nat /\ Cardinality(T) \in Nat
  BY <1>1, FS_CardinalityType
<1>3. ASSUME w \in S, w \notin T PROVE Cardinality(T) = Cardinality(S) - 1
  <2>1. T = S \ {w}  BY <1>3
  <2>. QED  BY <1>1, <1>3, <2>1, FS_RemoveElement
<1>4. ASSUME w \notin S, w \in T PROVE Cardinality(T) = Cardinality(S) + 1
  <2>1. T = S \cup {w}  BY <1>4
  <2>. QED  BY <1>1, <1>4, <2>1, FS_AddElement
<1>. QED  BY <1>2, <1>3, <1>4

IdleAt(label, saw) == label \in {"timer", "query"} \/ (label = "verdict" /\ saw)
PermitAt(label, saw) == label = "verdict" /\ ~saw

\* How worker w's step to a label moves it in and out of the two counts.
Counted(w, label) ==
    /\ w \in JobIdle <=> IdleAt(pc[w], seen[w])
    /\ w \in JobIdle' <=> IdleAt(label, seen'[w])
    /\ w \in JobPermits <=> PermitAt(pc[w], seen[w])
    /\ w \in JobPermits' <=> PermitAt(label, seen'[w])
    /\ JobIdle \in SUBSET Workers /\ JobIdle' \in SUBSET Workers
    /\ JobPermits \in SUBSET Workers /\ JobPermits' \in SUBSET Workers
    /\ JobIdle \ {w} = JobIdle' \ {w}
    /\ JobPermits \ {w} = JobPermits' \ {w}

LEMMA CountsFollow ==
  ASSUME TypeOK, TypeOK', NEW w \in Workers, NEW l, Goto(w, l),
         \A v \in Workers \ {w} : seen'[v] = seen[v]
  PROVE  Counted(w, l)
<1>1. pc'[w] = l /\ \A v \in Workers \ {w} : pc'[v] = pc[v]
  BY DEF Goto, TypeOK
<1>2. /\ JobIdle \in SUBSET Workers /\ JobIdle' \in SUBSET Workers
      /\ JobPermits \in SUBSET Workers /\ JobPermits' \in SUBSET Workers
  BY DEF JobIdle, JobPermits, Workers
<1>3. \A v \in Workers \ {w} : (v \in JobIdle <=> v \in JobIdle')
                            /\ (v \in JobPermits <=> v \in JobPermits')
  BY <1>1 DEF JobIdle, JobPermits, Workers
<1>4. /\ w \in JobIdle <=> IdleAt(pc[w], seen[w])
      /\ w \in JobIdle' <=> IdleAt(l, seen'[w])
      /\ w \in JobPermits <=> PermitAt(pc[w], seen[w])
      /\ w \in JobPermits' <=> PermitAt(l, seen'[w])
  BY <1>1 DEF JobIdle, JobPermits, IdleAt, PermitAt, Workers
<1>. QED  BY <1>2, <1>3, <1>4 DEF Counted

LEMMA SomeAreCounted ==
  ASSUME NEW S \in SUBSET Workers, NEW w \in S
  PROVE  Cardinality(S) > 0
<1>1. IsFiniteSet(S)  BY WorkersType, FS_Subset
<1>. QED  BY <1>1, FS_EmptySet, FS_CardinalityType

LEMMA JobRecNext ==
  JobRec' = Rec(JobPc', JobTodo', Collecting', Writing', IdleCount', PermitCount', JobSees')
  BY DEF JobRec, Rec

\* A step that leaves every field alone is a stutter of the job.
LEMMA FieldsStutter ==
  ASSUME UNCHANGED <<JobPc, JobTodo, Collecting, Writing, IdleCount, PermitCount, JobSees>>,
         UNCHANGED jobCancelled
  PROVE  UNCHANGED <<JobRun, JobRow>>
<1>1. JobRec' = JobRec  BY JobRecNext DEF JobRec
<1>2. JobRun' = JobRun  BY <1>1, JobRunIs
<1>3. JobRow' = JobRow  BY DEF JobRow, Items
<1>. QED  BY <1>2, <1>3

\* What is left, collected and written depends on the claims and on who is busy.
LEMMA HeldFields ==
  ASSUME UNCHANGED <<item, nextIndex>>, Busy' = Busy,
         \A v \in Busy : pc'[v] = "checkpoint" <=> pc[v] = "checkpoint"
  PROVE  UNCHANGED <<JobTodo, Collecting, Writing>>
<1>1. JobTodo' = JobTodo  BY DEF JobTodo, Items
<1>2. {v \in Busy : pc[v] = "checkpoint"}' = {v \in Busy : pc[v] = "checkpoint"}
  OBVIOUS
<1>3. {v \in Busy : pc[v] # "checkpoint"}' = {v \in Busy : pc[v] # "checkpoint"}
  OBVIOUS
<1>4. Items' = Items  BY DEF Items
<1>. QED  BY <1>1, <1>2, <1>3, <1>4 DEF Collecting, Writing

LEMMA QuietFields ==
  ASSUME TypeOK, NEW w \in Workers, NEW l, Goto(w, l), pc[w] \notin BusyLabels, l \notin BusyLabels,
         UNCHANGED <<item, nextIndex>>
  PROVE  UNCHANGED <<JobTodo, Collecting, Writing>> /\ Busy' = Busy
<1>1. Busy' = Busy  BY BusyStays
<1>2. \A v \in Busy : pc'[v] = pc[v]  BY DEF Busy, Goto, TypeOK
<1>. QED  BY <1>1, <1>2, HeldFields

LEMMA NothingTodo == TypeOK => (JobTodo = {} <=> nextIndex = ItemCount)
  BY BatchAssumption DEF JobTodo, Items, TypeOK

LEMMA SeenInit == Init => CancelIsSeen
  BY DEF Init, CancelIsSeen

\* A step of a worker that holds nothing, before or after.
LEMMA QuietSeen ==
  ASSUME IInv, CancelIsSeen, NEW w \in Workers, NEW l, Goto(w, l), l # "verdict",
         pc[w] \notin BusyLabels, l \notin BusyLabels, UNCHANGED <<item, nextIndex, seen, jobCancelled>>,
         \/ cancelled' = cancelled
         \/ cancelled' /\ jobCancelled /\ (inFlight = 0 => returned' # "no"),
         \/ returned' = returned
         \/ returned = "no" /\ (returned' = "cancelled" => cancelled')
  PROVE  CancelIsSeen'
<1>1. Busy' = Busy  BY BusyStays DEF IInv
<1>2. \A v \in Workers : pc'[v] = "verdict" => pc[v] = "verdict"
  BY DEF Goto, IInv, TypeOK
<1>3. inFlight = 0 <=> Busy = {}  BY NothingInFlight
<1>4. (cancelled => jobCancelled)'  BY DEF CancelIsSeen
<1>5. (\A v \in Workers : pc[v] = "verdict" /\ seen[v] => jobCancelled)'
  BY <1>2 DEF CancelIsSeen, Workers
<1>6. (cancelled /\ Busy = {} => returned # "no")'  BY <1>1, <1>3 DEF CancelIsSeen
<1>7. (returned = "cancelled" => cancelled)'  BY DEF CancelIsSeen
<1>. QED  BY <1>4, <1>5, <1>6, <1>7 DEF CancelIsSeen

\* A worker goes on with what it holds.
LEMMA HeldSeen ==
  ASSUME IInv, CancelIsSeen, NEW w \in Workers, NEW l, Goto(w, l), l # "verdict", l \in BusyLabels,
         pc[w] \in BusyLabels, UNCHANGED <<seen, cancelled, returned, jobCancelled>>
  PROVE  CancelIsSeen'
<1>1. Busy' = Busy  BY BusyStays DEF IInv
<1>2. \A v \in Workers : pc'[v] = "verdict" => pc[v] = "verdict"
  BY DEF Goto, IInv, TypeOK
<1>. QED  BY <1>1, <1>2 DEF CancelIsSeen, Workers

LEMMA ClaimSeen ==
  ASSUME IInv, CancelIsSeen, NEW w \in Workers, pc[w] \notin BusyLabels, ClaimNext(w),
         UNCHANGED <<seen, cancelled, jobCancelled>>
  PROVE  CancelIsSeen'
<1>1. CASE NothingLeft
  <2>1. /\ Goto(w, "ended") /\ UNCHANGED <<item, nextIndex, inFlight>>
        /\ \/ returned' = returned
           \/ returned = "no" /\ (returned' = "cancelled" => cancelled')
    BY <1>1 DEF ClaimNext, EndChain, ResolveIf, claims
  <2>. QED  BY <2>1, QuietSeen DEF BusyLabels
<1>2. CASE ~NothingLeft
  <2>1. Goto(w, "starting") /\ returned' = returned
    BY <1>2 DEF ClaimNext
  <2>2. Busy' = Busy \cup {w}  BY <2>1, BusyJoins DEF BusyLabels, IInv
  <2>3. \A v \in Workers : pc'[v] = "verdict" => pc[v] = "verdict"
    BY <2>1 DEF Goto, IInv, TypeOK
  <2>. QED  BY <2>1, <2>2, <2>3 DEF CancelIsSeen, Workers
<1>. QED  BY <1>1, <1>2

LEMMA FinishSeen ==
  ASSUME IInv, IInv', CancelIsSeen, NEW w \in Workers, Finish(w)
  PROVE  CancelIsSeen'
<1>1. pc[w] = "checkpoint" /\ UNCHANGED <<cancelled, seen, jobCancelled>>
  BY DEF Finish, row
<1>2. PICK l \in {"timer", "ended"} : Goto(w, l)
  BY DEF Finish, EndChain
<1>3. \A v \in Workers : pc'[v] = "verdict" => pc[v] = "verdict"
  BY <1>2 DEF Goto, IInv, TypeOK
<1>4. inFlight' = 0 <=> Busy' = {}
  <2>1. Busy' = Busy \ {w}
    BY <1>1, <1>2, BusyLeaves DEF BusyLabels, Busy, IInv
  <2>2. IsFiniteSet(Busy')  BY <2>1, BusyFinite, FS_Subset
  <2>. QED  BY <2>2, FS_EmptySet DEF CountExact, IInv
<1>5. CASE cancelled
  BY <1>1, <1>3, <1>4, <1>5 DEF Finish, EndChain, ResolveIf, CancelIsSeen, Workers
<1>6. CASE ~cancelled
  <2>1. returned' = "cancelled" => returned = "cancelled"
    BY <1>1, <1>6 DEF Finish, EndChain, ResolveIf
  <2>. QED  BY <1>1, <1>3, <1>6, <2>1 DEF CancelIsSeen, Workers
<1>. QED  BY <1>5, <1>6

LEMMA SeenStep == IInv /\ IInv' /\ CancelIsSeen /\ [Next]_vars => CancelIsSeen'
<1> SUFFICES ASSUME IInv, IInv', CancelIsSeen, [Next]_vars PROVE CancelIsSeen'
  OBVIOUS
<1> USE DEF claims, row
<1>1. ASSUME NEW w \in Workers, Wake(w) PROVE CancelIsSeen'
  <2>1. CASE cancelled
    <3>1. /\ Goto(w, "ended") /\ UNCHANGED <<item, nextIndex, seen, jobCancelled, cancelled>>
          /\ \/ returned' = returned
             \/ returned = "no" /\ (returned' = "cancelled" => cancelled')
      BY <1>1, <2>1 DEF Wake, EndChain, ResolveIf
    <3>. QED  BY <1>1, <3>1, QuietSeen DEF Wake, BusyLabels
  <2>2. CASE ~cancelled /\ HasCancelCheck
    <3>1. Goto(w, "query") /\ UNCHANGED <<item, nextIndex, seen, jobCancelled, cancelled, returned>>
      BY <1>1, <2>2 DEF Wake
    <3>. QED  BY <1>1, <3>1, QuietSeen DEF Wake, BusyLabels
  <2>3. CASE ~cancelled /\ ~HasCancelCheck
    BY <1>1, <2>3, ClaimSeen DEF Wake, BusyLabels
  <2>. QED  BY <2>1, <2>2, <2>3, BatchAssumption DEF IInv, TypeOK
<1>2. ASSUME NEW w \in Workers, ReadStatus(w) PROVE CancelIsSeen'
  <2>1. Busy' = Busy
    BY <1>2, BusyStays DEF ReadStatus, BusyLabels, IInv
  <2>2. \A v \in Workers : pc'[v] = "verdict" /\ seen'[v] =>
                             jobCancelled \/ (pc[v] = "verdict" /\ seen[v])
    BY <1>2 DEF ReadStatus, Goto, IInv, TypeOK
  <2>. QED  BY <1>2, <2>1, <2>2 DEF ReadStatus, CancelIsSeen, Workers
<1>3. ASSUME NEW w \in Workers, ResumeCheck(w) PROVE CancelIsSeen'
  <2>1. CASE seen[w]
    <3>1. /\ Goto(w, "ended") /\ UNCHANGED <<item, nextIndex, seen, jobCancelled>>
          /\ cancelled' /\ (inFlight = 0 => returned' # "no")
          /\ \/ returned' = returned
             \/ returned = "no" /\ (returned' = "cancelled" => cancelled')
      BY <1>3, <2>1 DEF ResumeCheck, EndChain, ResolveIf
    <3>2. jobCancelled  BY <1>3, <2>1 DEF ResumeCheck, CancelIsSeen
    <3>. QED  BY <1>3, <3>1, <3>2, QuietSeen DEF ResumeCheck, BusyLabels
  <2>2. CASE ~seen[w]
    BY <1>3, <2>2, ClaimSeen DEF ResumeCheck, BusyLabels
  <2>. QED  BY <2>1, <2>2
<1>4. ASSUME NEW w \in Workers, ItemStarted(w) PROVE CancelIsSeen'
  BY <1>4, HeldSeen DEF ItemStarted, BusyLabels
<1>5. ASSUME NEW w \in Workers, NEW outcome \in {"success", "failure"}, Collected(w, outcome)
      PROVE  CancelIsSeen'
  BY <1>5, HeldSeen DEF Collected, BusyLabels
<1>6. ASSUME NEW w \in Workers, Finish(w) PROVE CancelIsSeen'
  BY <1>6, FinishSeen
<1>7. ASSUME NEW w \in Workers, FailStatusRead(w) PROVE CancelIsSeen'
  BY <1>7, QuietSeen DEF FailStatusRead, BusyLabels
<1>8. CASE CancelJob
  BY <1>8 DEF CancelJob, CancelIsSeen, Busy, Workers
<1>9. CASE UNCHANGED vars
  BY <1>9 DEF vars, CancelIsSeen, Busy, Workers
<1> QED
  BY <1>1, <1>2, <1>3, <1>4, <1>5, <1>6, <1>7, <1>8, <1>9 DEF Next, WorkerStep

-----------------------------------------------------------------------------
(* Each step is one of the job, or a stutter.                              *)

JobRefined == JobStep \/ UNCHANGED <<JobRun, JobRow>>

\* A worker that holds nothing ends, or goes on waiting, where the run sees neither.
LEMMA Unseen ==
  ASSUME IInv, IInv', NEW w \in Workers, NEW l, Goto(w, l), pc[w] \notin BusyLabels, l \notin BusyLabels,
         UNCHANGED <<item, nextIndex, returned, jobCancelled>>,
         JobSees' = JobSees,
         \/ JobIdle' = JobIdle /\ cancelled' = cancelled
         \/ IdleCount = 0 /\ IdleCount' = 0,
         JobPermits' = JobPermits \/ JobTodo = {}
  PROVE  JobRefined
<1>1. UNCHANGED <<JobTodo, Collecting, Writing>>  BY QuietFields DEF IInv
<1>2. JobPc' = JobPc  BY DEF JobPc
<1>3. IdleCount' = IdleCount  BY DEF IdleCount
<1>4. PermitCount' = PermitCount  BY <1>1 DEF PermitCount
<1>. QED  BY <1>1, <1>2, <1>3, <1>4, FieldsStutter DEF JobRefined

LEMMA WakeSteps ==
  ASSUME IInv, IInv', CancelIsSeen, HasCancelCheck, NEW w \in Workers, Wake(w)
  PROVE  JobRefined
<1>0. UNCHANGED <<cancelled, seen, jobCancelled, item, nextIndex>> /\ pc[w] = "timer"
  BY DEF Wake, row, EndChain, claims
<1>1. PICK l \in {"ended", "query"} : Goto(w, l) /\ (l = "query" <=> ~cancelled)
  BY DEF Wake, EndChain
<1>2. returned' = returned
  <2>1. CASE ~cancelled  BY <2>1 DEF Wake
  <2>2. CASE cancelled
    BY <2>2, NothingInFlight DEF Wake, EndChain, ResolveIf, CancelIsSeen
  <2>. QED  BY <2>1, <2>2
<1>3. JobSees' = JobSees  BY <1>0, <1>2 DEF JobSees
<1>4. Counted(w, l)
  BY <1>0, <1>1, CountsFollow DEF IInv
<1>5. JobPermits' = JobPermits  BY <1>0, <1>1, <1>4 DEF Counted, PermitAt
<1>6. CASE cancelled
  BY <1>0, <1>1, <1>2, <1>3, <1>5, <1>6, Unseen DEF IdleCount, BusyLabels
<1>7. CASE ~cancelled
  <2>1. JobIdle' = JobIdle  BY <1>0, <1>1, <1>4, <1>7 DEF Counted, IdleAt
  <2>. QED  BY <1>0, <1>1, <1>2, <1>3, <1>5, <2>1, Unseen DEF BusyLabels
<1>. QED  BY <1>6, <1>7

LEMMA ReadSteps ==
  ASSUME IInv, IInv', CancelIsSeen, OverIsReturned, NEW w \in Workers, ReadStatus(w)
  PROVE  JobRefined
<1>0. /\ UNCHANGED <<cancelled, jobCancelled, item, nextIndex, returned, row>>
      /\ pc[w] = "query" /\ Goto(w, "verdict") /\ seen' = [seen EXCEPT ![w] = jobCancelled]
  BY DEF ReadStatus, row, claims
<1>1. seen'[w] = jobCancelled /\ \A v \in Workers \ {w} : seen'[v] = seen[v]
  BY <1>0 DEF IInv, TypeOK
<1>3. JobSees' = JobSees /\ JobPc' = JobPc  BY <1>0 DEF JobSees, JobPc
<1>4. Counted(w, "verdict")
  BY <1>0, <1>1, CountsFollow DEF IInv
<1>5. CASE jobCancelled
  <2>0. w \in JobIdle /\ w \in JobIdle' /\ w \notin JobPermits /\ w \notin JobPermits'
    BY <1>0, <1>1, <1>4, <1>5 DEF Counted, IdleAt, PermitAt
  <2>1. JobIdle' = JobIdle  BY <1>4, <2>0 DEF Counted
  <2>2. JobPermits' = JobPermits  BY <1>4, <2>0 DEF Counted
  <2>. QED  BY <1>0, <1>3, <2>1, <2>2, Unseen DEF BusyLabels
<1>6. CASE ~jobCancelled /\ returned # "no"
  <2>1. nextIndex = ItemCount  BY <1>6 DEF CancelIsSeen, IInv, CompletedIsOver, TypeOK
  <2>2. JobTodo = {}  BY <2>1, NothingTodo DEF IInv
  <2>3. IdleCount = 0 /\ IdleCount' = 0  BY <1>0, <1>6 DEF IdleCount
  <2>. QED  BY <1>0, <1>3, <2>2, <2>3, Unseen DEF BusyLabels
<1>7. CASE ~jobCancelled /\ returned = "no"
  <2>1. ~cancelled  BY <1>7 DEF CancelIsSeen
  <2>2. w \in JobIdle /\ w \notin JobIdle' /\ w \notin JobPermits /\ w \in JobPermits'
    BY <1>0, <1>1, <1>4, <1>7 DEF Counted, IdleAt, PermitAt
  <2>3. /\ Cardinality(JobIdle') = Cardinality(JobIdle) - 1
        /\ Cardinality(JobPermits') = Cardinality(JobPermits) + 1
    BY <1>4, <2>2, OneOfWorkers DEF Counted
  <2>4. Cardinality(JobIdle) > 0  BY <1>4, <2>2, SomeAreCounted DEF Counted
  <2>5. UNCHANGED <<JobTodo, Collecting, Writing>>
    BY <1>0, QuietFields DEF BusyLabels, IInv
  <2>6. IdleCount = Cardinality(JobIdle) /\ IdleCount' = Cardinality(JobIdle')
    BY <1>0, <1>7, <2>1 DEF IdleCount
  <2>. DEFINE less == IdleCount - 1
              more == PermitCount + 1
  <2>7. PermitCount' = IF JobTodo = {} THEN 0 ELSE more
    BY <2>3, <2>5 DEF PermitCount
  <2>8. IdleCount' = less /\ IdleCount > 0  BY <2>3, <2>4, <2>6
  <2>9. JobRec' = Rec(JobPc, JobTodo, Collecting, Writing, less, IF JobTodo = {} THEN 0 ELSE more, JobSees)
    <3>. HIDE DEF less, more
    <3>. QED  BY <1>3, <2>5, <2>7, <2>8, JobRecNext
  <2>10. ~(JobTodo = {} /\ Busy = {})
    BY <1>7, NothingTodo DEF OverIsReturned, IInv
  <2>11. JobPc \in JobPcs  BY <1>7 DEF JobPc, JobPcs
  <2>12. JobSees \in BOOLEAN /\ ~JobSees  BY <2>1 DEF JobSees, IInv, TypeOK
  <2>13. less = IdleCount - 1 /\ more = PermitCount + 1  OBVIOUS
  <2>. HIDE DEF less, more
  <2>14. Job!ReadStatus(1)
    BY <1>0, <1>7, <2>8, <2>9, <2>10, <2>11, <2>12, <2>13, LetThrough
  <2>. QED  BY <2>14 DEF JobRefined, JobStep
<1>. QED  BY <1>5, <1>6, <1>7 DEF IInv, TypeOK

LEMMA ClaimSteps ==
  ASSUME IInv, IInv', CancelIsSeen, OverIsReturned, NEW w \in Workers, pc[w] = "verdict", ~seen[w],
         ClaimNext(w), UNCHANGED <<seen, cancelled, results, row>>
  PROVE  JobRefined
<1>0. UNCHANGED <<seen, jobCancelled, checkFailures>>  BY DEF row
<1>1. ASSUME NEW l, Goto(w, l) PROVE Counted(w, l)
  BY <1>0, <1>1, CountsFollow DEF IInv
<1>2. CASE NothingLeft
  <2>1. Goto(w, "ended") /\ UNCHANGED <<item, nextIndex>>
    BY <1>2 DEF ClaimNext, EndChain, claims
  <2>2. nextIndex = ItemCount
    BY <1>2, BatchAssumption DEF NothingLeft, IInv, TypeOK
  <2>3. JobTodo = {}  BY <2>2, NothingTodo DEF IInv
  <2>4. returned' = returned
    BY <1>2, <2>2, NothingInFlight DEF ClaimNext, EndChain, ResolveIf, OverIsReturned
  <2>5. JobSees' = JobSees  BY <2>4 DEF JobSees
  <2>6. JobIdle' = JobIdle  BY <1>1, <2>1 DEF Counted, IdleAt
  <2>. QED  BY <1>0, <2>1, <2>3, <2>4, <2>5, <2>6, Unseen DEF BusyLabels
<1>3. CASE ~NothingLeft
  <2>0. PICK i \in Items : i = nextIndex + 1
    BY <1>3, BatchAssumption DEF NothingLeft, IInv, TypeOK, Items
  <2>1. /\ nextIndex' = i /\ item' = [item EXCEPT ![w] = i]
        /\ Goto(w, "starting") /\ returned' = returned
    BY <1>3, <2>0 DEF ClaimNext
  <2>2. Busy' = Busy \cup {w} /\ w \notin Busy
    BY <2>1, BusyJoins DEF BusyLabels, Busy, IInv
  <2>3. JobTodo' = JobTodo \ {i} /\ i \in JobTodo
    BY <2>0, <2>1, BatchAssumption DEF JobTodo, IInv, TypeOK, Items
  <2>4. /\ item'[w] = i /\ pc'[w] = "starting"
        /\ \A v \in Busy : item'[v] = item[v] /\ pc'[v] = pc[v]
    BY <2>1, <2>2 DEF Goto, IInv, TypeOK, Busy
  <2>5. Collecting' = Collecting \cup {i} /\ Writing' = Writing
    <3>1. {v \in Busy : pc[v] # "checkpoint"}' = {v \in Busy : pc[v] # "checkpoint"} \cup {w}
      BY <2>2, <2>4
    <3>2. {v \in Busy : pc[v] = "checkpoint"}' = {v \in Busy : pc[v] = "checkpoint"}
      BY <2>2, <2>4
    <3>3. Collecting' = Collecting \cup {i}  BY <2>2, <2>4, <3>1 DEF Collecting
    <3>4. Writing' = Writing  BY <2>4, <3>2 DEF Writing, Items
    <3>. QED  BY <3>3, <3>4
  <2>6. w \in JobPermits /\ w \notin JobPermits' /\ w \notin JobIdle /\ w \notin JobIdle'
    BY <1>1, <2>1 DEF Counted, IdleAt, PermitAt
  <2>7. JobIdle' = JobIdle /\ Cardinality(JobPermits') = Cardinality(JobPermits) - 1
    <3>1. JobIdle' = JobIdle  BY <1>1, <2>1, <2>6 DEF Counted
    <3>2. Cardinality(JobPermits') = Cardinality(JobPermits) - 1
      BY <1>1, <2>1, <2>6, OneOfWorkers DEF Counted
    <3>. QED  BY <3>1, <3>2
  <2>8. Cardinality(JobPermits) > 0  BY <1>1, <2>1, <2>6, SomeAreCounted DEF Counted
  <2>9. JobSees' = JobSees /\ JobPc' = JobPc /\ IdleCount' = IdleCount
    BY <2>1, <2>7 DEF JobSees, JobPc, IdleCount
  <2>10. PermitCount = Cardinality(JobPermits)  BY <2>3 DEF PermitCount
  <2>11. PermitCount > 0  BY <2>8, <2>10
  <2>12. PermitCount' = IF JobTodo \ {i} = {} THEN 0 ELSE PermitCount - 1
    BY <2>3, <2>7, <2>10 DEF PermitCount
  <2>13. JobSees => IdleCount = 0  BY DEF JobSees, IdleCount
  <2>14. JobRec' = Rec(JobPc, JobTodo \ {i}, Collecting \cup {i}, Writing,
                       IF JobSees THEN 0 ELSE IdleCount,
                       IF JobTodo \ {i} = {} THEN 0 ELSE PermitCount - 1, JobSees)
    BY <2>3, <2>5, <2>9, <2>12, <2>13, JobRecNext
  <2>15. JobPc \in JobPcs /\ JobSees \in BOOLEAN  BY DEF JobPc, JobPcs, JobSees, IInv, TypeOK
  <2>16. Job!Claim(1, i)  BY <2>3, <2>11, <2>14, <2>15, Claims
  <2>. QED  BY <2>16 DEF JobRefined, JobStep
<1>. QED  BY <1>2, <1>3

LEMMA ResumeSteps ==
  ASSUME IInv, IInv', CancelIsSeen, OverIsReturned, NEW w \in Workers, ResumeCheck(w)
  PROVE  JobRefined
<1>0. UNCHANGED <<seen, jobCancelled, results, row>> /\ pc[w] = "verdict"
  BY DEF ResumeCheck, row
<1>1. CASE ~seen[w]
  BY <1>0, <1>1, ClaimSteps DEF ResumeCheck
<1>2. CASE seen[w]
  <2>1. /\ Goto(w, "ended") /\ cancelled' = TRUE /\ UNCHANGED <<item, nextIndex>>
        /\ returned' = IF returned # "no" \/ inFlight # 0 THEN returned ELSE "cancelled"
    BY <1>2 DEF ResumeCheck, EndChain, ResolveIf, claims
  <2>2. jobCancelled  BY <1>0, <1>2 DEF CancelIsSeen
  <2>3. Counted(w, "ended")
    BY <1>0, <2>1, CountsFollow DEF IInv
  <2>4. w \in JobIdle /\ w \notin JobPermits /\ w \notin JobPermits'
    BY <1>0, <1>2, <2>3 DEF Counted, IdleAt, PermitAt
  <2>5. JobPermits' = JobPermits  BY <2>3, <2>4, OneOfWorkers DEF Counted
  <2>6. IdleCount' = 0  BY <2>1 DEF IdleCount
  <2>7. CASE cancelled \/ returned # "no"
    <3>1. returned' = returned  BY <2>1, <2>7, NothingInFlight DEF CancelIsSeen
    <3>2. JobSees' = JobSees  BY <2>1, <2>7, <3>1 DEF JobSees, CancelIsSeen, IInv, TypeOK
    <3>3. IdleCount = 0  BY <2>7 DEF IdleCount
    <3>. QED  BY <1>0, <2>1, <2>5, <2>6, <3>1, <3>2, <3>3, Unseen DEF BusyLabels
  <2>8. CASE ~cancelled /\ returned = "no"
    <3>1. IdleCount = Cardinality(JobIdle)  BY <2>8 DEF IdleCount
    <3>2. IdleCount > 0  BY <2>3, <2>4, <3>1, SomeAreCounted DEF Counted
    <3>3. UNCHANGED <<JobTodo, Collecting, Writing>>
      BY <1>0, <2>1, QuietFields DEF BusyLabels, IInv
    <3>4. PermitCount' = PermitCount /\ (JobTodo = {} => PermitCount = 0)
      BY <2>5, <3>3 DEF PermitCount
    <3>5. JobPc = "batch" /\ JobPc' = IF Busy = {} THEN "return" ELSE "batch"
      BY <2>1, <2>8, NothingInFlight DEF JobPc
    <3>6. JobSees = FALSE /\ JobSees' = TRUE
      BY <2>1, <2>8 DEF JobSees
    <3>7. JobRec' = Rec(IF Busy = {} THEN "return" ELSE "batch", JobTodo, Collecting, Writing, 0,
                        IF JobTodo = {} THEN 0 ELSE PermitCount, TRUE)
      BY <2>6, <3>3, <3>4, <3>5, <3>6, JobRecNext
    <3>8. Job!ReadStatus(1)
      BY <1>0, <2>2, <3>2, <3>5, <3>6, <3>7, SeesCancellation
    <3>. QED  BY <3>8 DEF JobRefined, JobStep
  <2>. QED  BY <2>7, <2>8 DEF IInv, TypeOK
<1>. QED  BY <1>1, <1>2

LEMMA CollectSteps ==
  ASSUME IInv, IInv', NEW w \in Workers, NEW outcome \in {"success", "failure"}, Collected(w, outcome)
  PROVE  JobRefined
<1>0. /\ pc[w] = "collect" /\ Goto(w, "checkpoint")
      /\ UNCHANGED <<item, nextIndex, seen, cancelled, returned, row>>
  BY DEF Collected, claims, row
<1>1. Busy' = Busy /\ w \in Busy
  BY <1>0, BusyStays DEF BusyLabels, Busy, IInv
<1>2. \A v \in Busy : pc'[v] = IF v = w THEN "checkpoint" ELSE pc[v]
  BY <1>0 DEF Busy, Goto, IInv, TypeOK
<1>3. PICK i \in Items : i = item[w]
  BY <1>1, HeldAreItems DEF Held
<1>. DEFINE done == [poi |-> i, ids |-> Items]
<1>4. i \in Collecting /\ Collecting' = Collecting \ {i} /\ Writing' = Writing \cup {done}
  <2>1. {v \in Busy : pc[v] # "checkpoint"}' = {v \in Busy : pc[v] # "checkpoint"} \ {w}
    BY <1>1, <1>2
  <2>2. {v \in Busy : pc[v] = "checkpoint"}' = {v \in Busy : pc[v] = "checkpoint"} \cup {w}
    BY <1>1, <1>2
  <2>3. i \in Collecting /\ Collecting' = Collecting \ {i}
    BY <1>0, <1>1, <1>3, <2>1 DEF Collecting, HeldOnce, IInv
  <2>4. Writing' = Writing \cup {done}  BY <1>0, <1>3, <2>2 DEF Writing, Items
  <2>. QED  BY <2>3, <2>4
<1>. HIDE DEF done
<1>5. \A v \in Workers : (v \in JobIdle <=> v \in JobIdle') /\ (v \in JobPermits <=> v \in JobPermits')
  <2>1. \A v \in Workers : pc'[v] = IF v = w THEN "checkpoint" ELSE pc[v]
    BY <1>0 DEF Goto, IInv, TypeOK
  <2>. QED  BY <1>0, <2>1 DEF JobIdle, JobPermits, Workers
<1>6. JobIdle' = JobIdle /\ JobPermits' = JobPermits
  BY <1>5 DEF JobIdle, JobPermits, Workers
<1>7. JobTodo' = JobTodo  BY <1>0 DEF JobTodo, Items
<1>8. /\ JobSees' = JobSees /\ JobPc' = JobPc
      /\ IdleCount' = IdleCount /\ PermitCount' = PermitCount
  BY <1>0, <1>6, <1>7 DEF JobSees, JobPc, IdleCount, PermitCount
<1>9. JobRec' = Rec(JobPc, JobTodo, Collecting \ {i}, Writing \cup {done}, IdleCount, PermitCount, JobSees)
  BY <1>4, <1>7, <1>8, JobRecNext
<1>10. Job!Collected(1, i)  BY <1>0, <1>4, <1>9, Collects DEF done
<1>. QED  BY <1>10 DEF JobRefined, JobStep

LEMMA FinishSteps ==
  ASSUME IInv, IInv', CancelIsSeen, CancelIsSeen', OverIsReturned, NEW w \in Workers, Finish(w)
  PROVE  JobRefined
<1>0. /\ pc[w] = "checkpoint" /\ inFlight' = inFlight - 1
      /\ UNCHANGED <<item, nextIndex, seen, cancelled, results, row>>
  BY DEF Finish, Leave, claims, row
<1>1. PICK l \in {"timer", "ended"} :
        /\ Goto(w, l)
        /\ l = "timer" <=> ~cancelled /\ nextIndex < ItemCount
        /\ l = "timer" => returned' = returned
        /\ l = "ended" => EndChain(w, IF cancelled THEN inFlight' = 0 ELSE BatchOver)
  <2>1. inFlight' < MaxConcurrency
    <3>1. Cardinality(Busy) <= Cardinality(Workers)  BY WorkersType, FS_Subset DEF Busy
    <3>. QED
      BY <1>0, <3>1, WorkersType, BusyFinite, BatchAssumption DEF IInv, CountExact
  <2>. QED  BY <1>0, <2>1 DEF Finish, EndChain
<1>2. Busy' = Busy \ {w} /\ w \in Busy
  BY <1>0, <1>1, BusyLeaves DEF BusyLabels, Busy, IInv
<1>3. \A v \in Busy' : pc'[v] = pc[v]
  BY <1>1, <1>2 DEF Busy, Goto, IInv, TypeOK
<1>4. PICK i \in Items : i = item[w]
  BY <1>2, HeldAreItems DEF Held
<1>. DEFINE done == [poi |-> i, ids |-> Items]
<1>5. done \in Writing /\ Collecting' = Collecting /\ Writing' = Writing \ {done}
  <2>1. {v \in Busy : pc[v] # "checkpoint"}' = {v \in Busy : pc[v] # "checkpoint"}
    BY <1>0, <1>2, <1>3
  <2>2. /\ {v \in Busy : pc[v] = "checkpoint"}' = {v \in Busy : pc[v] = "checkpoint"} \ {w}
        /\ w \in {v \in Busy : pc[v] = "checkpoint"}
    BY <1>0, <1>2, <1>3
  <2>3. Collecting' = Collecting  BY <1>0, <2>1 DEF Collecting
  <2>4. \A v \in Busy : [poi |-> item[v], ids |-> Items] = done <=> v = w
    BY <1>2, <1>4 DEF HeldOnce, IInv
  <2>5. Writing' = {[poi |-> item[v], ids |-> Items] : v \in {v \in Busy : pc[v] = "checkpoint"} \ {w}}
    BY <1>0, <2>2 DEF Writing, Items
  <2>6. done \in Writing  BY <1>4, <2>2 DEF Writing
  <2>. HIDE DEF done
  <2>7. Writing' = Writing \ {done}  BY <2>4, <2>5 DEF Writing
  <2>. QED  BY <2>3, <2>6, <2>7
<1>. HIDE DEF done
<1>6. JobTodo' = JobTodo /\ (JobTodo = {} <=> nextIndex = ItemCount)
  BY <1>0, NothingTodo DEF JobTodo, Items, IInv
<1>7. Counted(w, l)
  BY <1>0, <1>1, CountsFollow DEF IInv
<1>8. w \notin JobIdle /\ w \notin JobPermits /\ w \notin JobPermits' /\ (w \in JobIdle' <=> l = "timer")
  BY <1>0, <1>1, <1>7 DEF Counted, IdleAt, PermitAt
<1>9. JobPermits' = JobPermits  BY <1>7, <1>8 DEF Counted
<1>10. PermitCount' = PermitCount /\ PermitCount = IF JobTodo = {} THEN 0 ELSE PermitCount
  BY <1>6, <1>9 DEF PermitCount
<1>11. inFlight' = 0 <=> Busy' = {}
  <2>1. IsFiniteSet(Busy')  BY <1>2, BusyFinite, FS_Subset
  <2>. QED  BY <2>1, FS_EmptySet DEF CountExact, IInv
<1>12. Collecting = {} /\ Writing \ {done} = {} <=> Busy' = {}
  <2>1. (Collecting' = {} /\ Writing' = {}) <=> Busy' = {}  BY DEF Collecting, Writing
  <2>. QED  BY <1>5, <2>1
<1>13. returned # "completed"  BY <1>2 DEF CompletedIsOver, IInv
<1>14. JobSees = cancelled /\ JobSees' = JobSees
  <2>1. ASSUME cancelled PROVE returned' # "completed"
    <3>1. ResolveIf(inFlight' = 0) /\ cancelled'
      BY <1>0, <1>1, <2>1 DEF EndChain
    <3>. QED  BY <1>13, <3>1 DEF ResolveIf
  <2>. QED  BY <1>0, <1>13, <2>1 DEF JobSees, IInv, TypeOK
<1>. DEFINE count == IF JobTodo # {} /\ ~JobSees /\ JobPc = "batch" THEN IdleCount + 1 ELSE IdleCount
<1>15. Comes(JobPc, JobTodo, Collecting, Writing \ {done}, JobSees, count, JobPc', IdleCount')
  <2>1. CASE cancelled
    <3>1. count = 0 /\ IdleCount' = 0
      BY <1>0, <1>14, <2>1 DEF IdleCount, IInv, TypeOK
    <3>2. JobPc' = IF JobPc = "batch" /\ Busy' = {} THEN "return" ELSE JobPc
      BY <1>0, <1>1, <1>11, <1>13, <2>1 DEF EndChain, ResolveIf, JobPc, IInv, TypeOK
    <3>. HIDE DEF count
    <3>. QED  BY <1>12, <1>14, <2>1, <3>1, <3>2 DEF Comes
  <2>2. CASE ~cancelled /\ nextIndex < ItemCount
    <3>1. returned = "no" /\ returned' = "no" /\ l = "timer"
      BY <1>1, <1>13, <2>2 DEF CancelIsSeen, IInv, TypeOK
    <3>2. Cardinality(JobIdle') = Cardinality(JobIdle) + 1
      BY <1>7, <1>8, <3>1, OneOfWorkers DEF Counted
    <3>3. IdleCount = Cardinality(JobIdle) /\ IdleCount' = Cardinality(JobIdle')
      BY <1>0, <2>2, <3>1 DEF IdleCount
    <3>4. JobPc = "batch" /\ JobPc' = "batch"  BY <3>1 DEF JobPc
    <3>5. JobTodo # {} /\ ~JobSees
      BY <1>6, <1>14, <2>2, BatchAssumption DEF IInv, TypeOK
    <3>6. count = IdleCount'  BY <3>2, <3>3, <3>4, <3>5
    <3>. HIDE DEF count
    <3>. QED  BY <3>4, <3>5, <3>6 DEF Comes
  <2>3. CASE ~cancelled /\ ~(nextIndex < ItemCount)
    <3>1. nextIndex = ItemCount  BY <2>3, BatchAssumption DEF IInv, TypeOK
    <3>2. returned = "no" /\ l = "ended"
      BY <1>1, <1>13, <2>3 DEF CancelIsSeen, IInv, TypeOK
    <3>3. returned' = IF Busy' = {} THEN "completed" ELSE "no"
      BY <1>0, <1>1, <1>11, <2>3, <3>1, <3>2, BatchAssumption DEF EndChain, ResolveIf, BatchOver
    <3>4. JobIdle' = JobIdle  BY <1>7, <1>8, <3>2 DEF Counted
    <3>5. JobTodo = {} /\ ~JobSees  BY <1>6, <1>14, <2>3, <3>1
    <3>6. JobPc = "batch" /\ JobPc' = IF Busy' = {} THEN "close" ELSE "batch"
      BY <3>2, <3>3 DEF JobPc
    <3>7. count = IdleCount  BY <3>5
    <3>8. IdleCount' = IF Busy' = {} THEN 0 ELSE IdleCount
      BY <1>0, <2>3, <3>2, <3>3, <3>4 DEF IdleCount
    <3>. HIDE DEF count
    <3>. QED  BY <1>12, <3>5, <3>6, <3>7, <3>8 DEF Comes
  <2>. QED  BY <2>1, <2>2, <2>3 DEF IInv, TypeOK
<1>16. JobRec' = Rec(JobPc', JobTodo, Collecting, Writing \ {done}, IdleCount',
                     IF JobTodo = {} THEN 0 ELSE PermitCount, JobSees)
  BY <1>5, <1>6, <1>10, <1>14, JobRecNext
<1>17. JobPc \in JobPcs /\ JobSees \in BOOLEAN  BY DEF JobPc, JobPcs, JobSees, IInv, TypeOK
<1>18. done \in JobRun[1].writes /\ Job!Checkpoint(1, done)
  <2>1. count = IF JobTodo # {} /\ ~JobSees /\ JobPc = "batch" THEN IdleCount + 1 ELSE IdleCount
    OBVIOUS
  <2>. HIDE DEF count
  <2>. QED  BY <1>0, <1>5, <1>15, <1>16, <1>17, <2>1, Writes
<1>. QED  BY <1>18 DEF JobRefined, JobStep

LEMMA FailSteps ==
  ASSUME IInv, IInv', NEW w \in Workers, FailStatusRead(w)
  PROVE  JobRefined
<1>0. /\ pc[w] = "query" /\ Goto(w, "rejected")
      /\ checkFailures \in Nat /\ checkFailures < MaxCheckFailures
      /\ checkFailures' = checkFailures + 1
      /\ UNCHANGED <<item, nextIndex, seen, cancelled, returned, jobCancelled>>
  BY DEF FailStatusRead, claims, IInv, TypeOK
<1>1. JobSees' = JobSees /\ JobPc' = JobPc  BY <1>0 DEF JobSees, JobPc
<1>2. Counted(w, "rejected")
  BY <1>0, CountsFollow DEF IInv
<1>3. w \in JobIdle /\ w \notin JobIdle' /\ w \notin JobPermits /\ w \notin JobPermits'
  BY <1>0, <1>2 DEF Counted, IdleAt, PermitAt
<1>4. JobPermits' = JobPermits  BY <1>2, <1>3 DEF Counted
<1>5. CASE cancelled \/ returned # "no"
  <2>1. IdleCount = 0 /\ IdleCount' = 0  BY <1>0, <1>5 DEF IdleCount
  <2>. QED  BY <1>0, <1>1, <1>4, <2>1, Unseen DEF BusyLabels
<1>6. CASE ~cancelled /\ returned = "no"
  <2>1. Cardinality(JobIdle') = Cardinality(JobIdle) - 1  BY <1>2, <1>3, OneOfWorkers DEF Counted
  <2>2. Cardinality(JobIdle) > 0  BY <1>2, <1>3, SomeAreCounted DEF Counted
  <2>3. IdleCount = Cardinality(JobIdle) /\ IdleCount' = Cardinality(JobIdle')
    BY <1>0, <1>6 DEF IdleCount
  <2>4. UNCHANGED <<JobTodo, Collecting, Writing>>
    BY <1>0, QuietFields DEF BusyLabels, IInv
  <2>5. PermitCount' = PermitCount  BY <1>4, <2>4 DEF PermitCount
  <2>6. IdleCount' = IdleCount - 1 /\ IdleCount > 0  BY <2>1, <2>2, <2>3
  <2>7. JobRec' = Rec(JobPc, JobTodo, Collecting, Writing, IdleCount - 1, PermitCount, JobSees)
    BY <1>1, <2>4, <2>5, <2>6, JobRecNext
  <2>8. Job!StatusReadFails(1)  BY <1>0, <2>6, <2>7, LosesChain
  <2>. QED  BY <2>8 DEF JobRefined, JobStep
<1>. QED  BY <1>5, <1>6 DEF IInv, TypeOK

LEMMA StepsRefine ==
  IInv /\ IInv' /\ CancelIsSeen /\ CancelIsSeen' /\ OverIsReturned /\ HasCancelCheck /\ [Next]_vars
    => [JobStep]_<<JobRun, JobRow>>
<1> SUFFICES ASSUME IInv, IInv', CancelIsSeen, CancelIsSeen', OverIsReturned, HasCancelCheck, [Next]_vars
             PROVE  JobRefined
  BY DEF JobRefined
<1>1. ASSUME NEW w \in Workers, Wake(w) PROVE JobRefined
  BY <1>1, WakeSteps
<1>2. ASSUME NEW w \in Workers, ReadStatus(w) PROVE JobRefined
  BY <1>2, ReadSteps
<1>3. ASSUME NEW w \in Workers, ResumeCheck(w) PROVE JobRefined
  BY <1>3, ResumeSteps
<1>4. ASSUME NEW w \in Workers, ItemStarted(w) PROVE JobRefined
  <2>1. /\ pc[w] = "starting" /\ Goto(w, "collect")
        /\ UNCHANGED <<item, nextIndex, seen, cancelled, returned, jobCancelled>>
    BY <1>4 DEF ItemStarted, claims, row
  <2>2. Busy' = Busy  BY <2>1, BusyStays DEF BusyLabels, IInv
  <2>3. \A v \in Workers : pc'[v] = IF v = w THEN "collect" ELSE pc[v]
    BY <2>1 DEF Goto, IInv, TypeOK
  <2>4. UNCHANGED <<JobTodo, Collecting, Writing>>
    BY <2>1, <2>2, <2>3, HeldFields DEF Busy
  <2>5. \A v \in Workers : (v \in JobIdle <=> v \in JobIdle') /\ (v \in JobPermits <=> v \in JobPermits')
    BY <2>1, <2>3 DEF JobIdle, JobPermits, Workers
  <2>6. JobIdle' = JobIdle /\ JobPermits' = JobPermits
    BY <2>5 DEF JobIdle, JobPermits, Workers
  <2>7. UNCHANGED <<JobPc, IdleCount, PermitCount, JobSees>>
    BY <2>1, <2>4, <2>6 DEF JobPc, IdleCount, PermitCount, JobSees
  <2>. QED  BY <2>1, <2>4, <2>7, FieldsStutter DEF JobRefined
<1>5. ASSUME NEW w \in Workers, NEW outcome \in {"success", "failure"}, Collected(w, outcome)
      PROVE  JobRefined
  BY <1>5, CollectSteps
<1>6. ASSUME NEW w \in Workers, Finish(w) PROVE JobRefined
  BY <1>6, FinishSteps
<1>7. ASSUME NEW w \in Workers, FailStatusRead(w) PROVE JobRefined
  BY <1>7, FailSteps
<1>8. ASSUME UNCHANGED <<pc, item, nextIndex, seen, cancelled, returned>> PROVE
        UNCHANGED <<JobPc, JobTodo, Collecting, Writing, IdleCount, PermitCount, JobSees>>
  <2>1. Busy' = Busy  BY <1>8 DEF Busy
  <2>2. UNCHANGED <<JobTodo, Collecting, Writing>>  BY <1>8, <2>1, HeldFields
  <2>3. JobIdle' = JobIdle /\ JobPermits' = JobPermits  BY <1>8 DEF JobIdle, JobPermits, Workers
  <2>. QED  BY <1>8, <2>2, <2>3 DEF JobPc, IdleCount, PermitCount, JobSees
<1>9. CASE CancelJob
  <2>1. UNCHANGED <<pc, item, nextIndex, seen, cancelled, returned>>
    BY <1>9 DEF CancelJob, claims
  <2>2. JobRec' = JobRec  BY <1>8, <2>1, JobRecNext DEF JobRec
  <2>3. Job!CancelJob  BY <1>9, <2>2, Cancels DEF CancelJob
  <2>. QED  BY <2>3 DEF JobRefined, JobStep
<1>10. CASE UNCHANGED vars
  BY <1>8, <1>10, FieldsStutter DEF JobRefined, vars, claims, row
<1> QED
  BY <1>1, <1>2, <1>3, <1>4, <1>5, <1>6, <1>7, <1>9, <1>10 DEF Next, WorkerStep

\* The batch starts as StartBatch of CollectionJob leaves the run.
LEMMA InitRefinesJob ==
  Init => JobRun[1] = [Job!NoRun EXCEPT !.pc = "batch", !.todo = Items, !.recorded = Items,
                                        !.idle = WorkerCount]
<1> SUFFICES ASSUME Init
             PROVE  JobRun[1] = [Job!NoRun EXCEPT !.pc = "batch", !.todo = Items, !.recorded = Items,
                                                  !.idle = WorkerCount]
  OBVIOUS
<1>1. Busy = {}  BY DEF Init, Busy, BusyLabels
<1>2. JobTodo = Items  BY DEF Init, JobTodo, Items
<1>3. JobIdle = Workers /\ JobPermits = {}  BY DEF Init, JobIdle, JobPermits
<1>4. IdleCount = WorkerCount  BY <1>3, WorkersType DEF Init, IdleCount
<1>5. PermitCount = 0  BY <1>3, FS_EmptySet DEF PermitCount
<1>6. Collecting = {} /\ Writing = {}  BY <1>1, NothingHeld
<1>7. JobPc = "batch" /\ JobSees = FALSE  BY DEF Init, JobPc, JobSees
<1>8. JobRun[1] = Rec("batch", Items, {}, {}, WorkerCount, 0, FALSE)
  BY <1>2, <1>4, <1>5, <1>6, <1>7, JobRunStep DEF JobRec
<1>. DEFINE Raw(p, todo, recorded, idle, saw) ==
              [pc |-> p, msg |-> 0, todo |-> todo, running |-> {}, writes |-> {},
               recorded |-> recorded, idle |-> idle, permits |-> 0, cancelled |-> saw]
            off == "unused"
            on == "batch"
            none == {}
            zero == 0
            no == FALSE
<1>9. Job!NoRun = Raw(off, none, none, zero, no)  BY DEF Job!NoRun
<1>10. JobRun[1] = Raw(on, Items, Items, WorkerCount, no)  BY <1>8 DEF Rec
<1>11. ASSUME NEW p, NEW t, NEW rc, NEW id, NEW ca, NEW x
       PROVE  [Raw(p, t, rc, id, ca) EXCEPT !.pc = x] = Raw(x, t, rc, id, ca)
  OBVIOUS
<1>12. ASSUME NEW p, NEW t, NEW rc, NEW id, NEW ca, NEW x
       PROVE  [Raw(p, t, rc, id, ca) EXCEPT !.todo = x] = Raw(p, x, rc, id, ca)
  OBVIOUS
<1>13. ASSUME NEW p, NEW t, NEW rc, NEW id, NEW ca, NEW x
       PROVE  [Raw(p, t, rc, id, ca) EXCEPT !.recorded = x] = Raw(p, t, x, id, ca)
  OBVIOUS
<1>14. ASSUME NEW p, NEW t, NEW rc, NEW id, NEW ca, NEW x
       PROVE  [Raw(p, t, rc, id, ca) EXCEPT !.idle = x] = Raw(p, t, rc, x, ca)
  OBVIOUS
<1>. HIDE DEF Raw, off, on, none, zero, no
<1>15. [Raw(off, none, none, zero, no) EXCEPT !.pc = on] = Raw(on, none, none, zero, no)
  BY <1>11
<1>16. [Raw(on, none, none, zero, no) EXCEPT !.todo = Items] = Raw(on, Items, none, zero, no)
  BY <1>12
<1>17. [Raw(on, Items, none, zero, no) EXCEPT !.recorded = Items] = Raw(on, Items, Items, zero, no)
  BY <1>13
<1>18. [Raw(on, Items, Items, zero, no) EXCEPT !.idle = WorkerCount]
         = Raw(on, Items, Items, WorkerCount, no)
  BY <1>14
<1>19. [Job!NoRun EXCEPT !.pc = on, !.todo = Items, !.recorded = Items, !.idle = WorkerCount]
         = Raw(on, Items, Items, WorkerCount, no)
  BY <1>9, <1>15, <1>16, <1>17, <1>18
<1>. QED  BY <1>10, <1>19 DEF on

\* Whatever happens to the workers of runBatch, a run of CollectionJob can do too:
\* what is shown of the job there holds of the chains of processNext calls here.
THEOREM RunnerTakesTheJobsSteps ==
  ASSUME HasCancelCheck
  PROVE  Spec => StepsOfJob
<1>1. IInv /\ IInv' /\ OverIsReturned /\ [Next]_vars => OverIsReturned'
  BY StepRefines DEF Refines
<1>2. IInv /\ IInv' /\ CancelIsSeen /\ CancelIsSeen' /\ OverIsReturned /\ [Next]_vars
        => [JobStep]_<<JobRun, JobRow>>
  BY StepsRefine
<1>. QED
  BY InitRefines, SeenInit, InitRefinesJob, Invariance, SeenStep, <1>1, <1>2, PTL
     DEF Spec, StepsOfJob
=============================================================================
