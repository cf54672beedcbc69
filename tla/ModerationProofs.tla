-------------------------- MODULE ModerationProofs --------------------------
(***************************************************************************)
(* What holds of moderation for every set of items, twins and denied ones, *)
(* every size of a batch, and however often admins decide and sweeps fail. *)
(***************************************************************************)
EXTENDS Moderation, FiniteSetTheorems, TLAPS

Row == [status : {"absent", "pending", "published", "rejected", "gone"},
        processed : BOOLEAN, by : {"none", "auto", "admin"}]
Sweep == [pc : {"idle", "deny", "list", "next", "vote", "refuse"},
          todo : SUBSET Items, cur : Items \cup {NoItem}]

\* The items a sweep has yet to write.
Ahead(s) == sweep[s].todo \cup {sweep[s].cur}

\* An item that waits for a sweep is one no admin has decided.
WaitingIsOpen == \A i \in Items : Waiting(i) => item[i].by # "admin"

\* So is one that a sweep is about to write, unless it was decided since it was listed.
AheadIsOpen ==
    \A s \in Sweeps : \A i \in Items : i \in Ahead(s) /\ i \notin late[s] => item[i].by # "admin"

\* Unless two sweeps overlapped, one of them is not at a twin.
OneAtTwins == ~overlapped => \E s \in Sweeps : sweep[s].cur \notin Twins

\* And when the models vote on a twin, no other one has been published by a sweep.
VotedAlone ==
    ~overlapped => \A s \in Sweeps : sweep[s].pc = "vote" /\ sweep[s].cur \in Twins =>
                     \A j \in Twins \ {sweep[s].cur} : ~AutoPublished(j)

IInv ==
    /\ TypeOK /\ WaitingIsOpen /\ AheadIsOpen
    /\ OneAtTwins /\ VotedAlone /\ OneTwinAutoPublished

-----------------------------------------------------------------------------
(* What a step of a sweep does.                                            *)

\* The states a sweep can take.
SweepOK(x) ==
    /\ x \in Sweep
    /\ Cardinality(x.todo) <= BatchSize
    /\ x.pc \in {"vote", "refuse"} <=> x.cur # NoItem

\* Some of the items are finitely many, and no more than all of a batch.
LEMMA FewerLeft ==
    ASSUME NEW S \in SUBSET Items, NEW R \in SUBSET S, Cardinality(S) <= BatchSize
    PROVE  Cardinality(R) <= BatchSize
<1>1. IsFiniteSet(S)  BY ModerationAssumption, FS_Subset
<1>2. Cardinality(R) \in Nat /\ Cardinality(S) \in Nat /\ Cardinality(R) <= Cardinality(S)
  BY <1>1, FS_Subset, FS_CardinalityType
<1>. QED  BY <1>2, ModerationAssumption

\* The sweep that is none.
LEMMA None == SweepOK(NoSweep) /\ SweepOK([NoSweep EXCEPT !.pc = "deny"])
              /\ SweepOK([NoSweep EXCEPT !.pc = "list"])
<1>1. Cardinality({}) <= BatchSize  BY FS_EmptySet, ModerationAssumption
<1>. QED  BY <1>1 DEF SweepOK, NoSweep, Sweep

\* The types of the model, by name.
LEMMA Typed ==
    TypeOK <=>
      /\ item \in [Items -> Row]
      /\ denyOn \in BOOLEAN
      /\ sweep \in [Sweeps -> Sweep]
      /\ \A s \in Sweeps : SweepOK(sweep[s]) /\ late[s] \subseteq Ahead(s)
      /\ late \in [Sweeps -> SUBSET Items]
      /\ overlapped \in BOOLEAN
      /\ count \in 0..MaxEvents
  BY DEF TypeOK, SweepOK, Ahead, Row, Sweep

\* A sweep takes another state: of the decided items it keeps those still ahead of it,
\* and an overlap is remembered.
LEMMA Went ==
    ASSUME TypeOK, NEW s \in Sweeps, NEW x, SweepOK(x), Go(s, x)
    PROVE  /\ sweep' \in [Sweeps -> Sweep] /\ late' \in [Sweeps -> SUBSET Items]
           /\ sweep'[s] = x /\ late'[s] = late[s] \cap (x.todo \cup {x.cur})
           /\ \A t \in Sweeps \ {s} : sweep'[t] = sweep[t] /\ late'[t] = late[t]
           /\ overlapped' \in BOOLEAN /\ (overlapped => overlapped')
           /\ ~overlapped' => \E t \in Sweeps : sweep'[t].cur \notin Twins
<1>1. sweep \in [Sweeps -> Sweep] /\ late \in [Sweeps -> SUBSET Items] /\ overlapped \in BOOLEAN
  BY Typed
<1>2. x \in Sweep  BY DEF SweepOK
<1>. QED  BY <1>1, <1>2 DEF Go

\* A step of a sweep keeps the invariant when what it has ahead was there before or is
\* open, when it makes no admin decide, has processed what it writes, and publishes
\* only the item it had voted on; it votes on a twin only if none was published.
LEMMA SweepKeeps ==
    ASSUME IInv, NEW s \in Sweeps, NEW x, SweepOK(x), Go(s, x), denyOn' = denyOn,
           item' \in [Items -> Row], count' \in 0..MaxEvents,
           \A i \in Items : item'[i].by = "admin" => item[i].by = "admin",
           \A i \in Items : item'[i] = item[i] \/ item'[i].processed,
           \A i \in Items : i \in x.todo \cup {x.cur} => i \in Ahead(s) \/ item'[i].by # "admin",
           \A i \in Twins : AutoPublished(i)' =>
              AutoPublished(i) \/ (sweep[s].pc = "vote" /\ sweep[s].cur = i),
           x.pc = "vote" /\ x.cur \in Twins => \A j \in Twins \ {x.cur} : ~AutoPublished(j)'
    PROVE  IInv'
<1>0. Twins \subseteq Items  BY ModerationAssumption
<1>1. /\ sweep' \in [Sweeps -> Sweep] /\ late' \in [Sweeps -> SUBSET Items]
      /\ sweep'[s] = x /\ late'[s] = late[s] \cap (x.todo \cup {x.cur})
      /\ \A t \in Sweeps \ {s} : sweep'[t] = sweep[t] /\ late'[t] = late[t]
      /\ overlapped' \in BOOLEAN /\ (overlapped => overlapped')
      /\ ~overlapped' => \E t \in Sweeps : sweep'[t].cur \notin Twins
  BY Went DEF IInv
<1>2. TypeOK'
  <2>1. ASSUME NEW t \in Sweeps PROVE SweepOK(sweep'[t]) /\ late'[t] \subseteq Ahead(t)'
    <3>1. SweepOK(sweep[t]) /\ late[t] \subseteq Ahead(t)  BY Typed DEF IInv
    <3>2. CASE t = s  BY <1>1, <3>2 DEF Ahead
    <3>3. CASE t # s  BY <1>1, <3>1, <3>3 DEF Ahead
    <3>. QED  BY <3>2, <3>3
  <2>2. denyOn' \in BOOLEAN  BY Typed DEF IInv
  <2>. QED  BY <1>1, <2>1, <2>2 DEF TypeOK, SweepOK, Ahead, Row, Sweep
<1>3. WaitingIsOpen'
  <2>1. \A i \in Items : Waiting(i)' => item'[i] = item[i]  BY DEF Waiting
  <2>. QED  BY <2>1 DEF IInv, WaitingIsOpen, Waiting
<1>4. AheadIsOpen'
  <2>. SUFFICES ASSUME NEW t \in Sweeps, NEW i \in Items, i \in Ahead(t)', i \notin late'[t],
                       item'[i].by = "admin"
                PROVE  FALSE
    BY DEF AheadIsOpen
  <2>1. item[i].by = "admin"  OBVIOUS
  <2>2. CASE t = s
    <3>1. i \in x.todo \cup {x.cur}  BY <1>1, <2>2 DEF Ahead
    <3>2. i \in Ahead(s) /\ i \notin late[s]  BY <1>1, <2>2, <3>1
    <3>. QED  BY <2>1, <3>2 DEF IInv, AheadIsOpen
  <2>3. CASE t # s  BY <1>1, <2>1, <2>3 DEF IInv, AheadIsOpen, Ahead
  <2>. QED  BY <2>2, <2>3
<1>5. OneAtTwins'  BY <1>1 DEF OneAtTwins
<1>6. ASSUME ~overlapped', NEW i \in Twins, AutoPublished(i)', ~AutoPublished(i)
      PROVE  /\ sweep[s].pc = "vote" /\ sweep[s].cur = i
             /\ \A t \in Sweeps \ {s} : sweep[t].cur \notin Twins
             /\ \A j \in Twins \ {i} : ~AutoPublished(j)
  <2>1. sweep[s].pc = "vote" /\ sweep[s].cur = i /\ ~overlapped  BY <1>1, <1>6
  <2>2. \A t \in Sweeps \ {s} : sweep[t].cur \notin Twins
    BY <2>1 DEF IInv, OneAtTwins, Sweeps
  <2>. QED  BY <2>1, <2>2 DEF IInv, VotedAlone
<1>7. VotedAlone'
  <2>. SUFFICES ASSUME ~overlapped', NEW t \in Sweeps, sweep'[t].pc = "vote",
                       sweep'[t].cur \in Twins, NEW j \in Twins \ {sweep'[t].cur},
                       AutoPublished(j)'
                PROVE  FALSE
    BY DEF VotedAlone
  <2>1. t # s  BY <1>1
  <2>2. sweep'[t] = sweep[t]  BY <1>1, <2>1
  <2>3. AutoPublished(j)  BY <1>6, <2>1, <2>2
  <2>. QED  BY <1>1, <2>2, <2>3 DEF IInv, VotedAlone
<1>8. OneTwinAutoPublished'
  <2>. SUFFICES ASSUME ~overlapped', NEW i \in Twins, NEW j \in Twins,
                       AutoPublished(i)', AutoPublished(j)', i # j
                PROVE  FALSE
    BY DEF OneTwinAutoPublished
  <2>1. AutoPublished(i) /\ AutoPublished(j)  BY <1>6
  <2>. QED  BY <1>1, <2>1 DEF IInv, OneTwinAutoPublished
<1>. QED  BY <1>2, <1>3, <1>4, <1>5, <1>7, <1>8 DEF IInv

\* A step of a sweep that writes no item and starts no vote.
LEMMA ReadsKeep ==
    ASSUME IInv, NEW s \in Sweeps, NEW x, SweepOK(x), Go(s, x), UNCHANGED <<item, denyOn>>,
           count' \in 0..MaxEvents, x.pc # "vote",
           \A i \in Items : i \in x.todo \cup {x.cur} => i \in Ahead(s) \/ item[i].by # "admin"
    PROVE  IInv'
<1>1. item' \in [Items -> Row]  BY Typed DEF IInv
<1>2. \A i \in Twins : AutoPublished(i)' => AutoPublished(i)  BY DEF AutoPublished
<1>. QED  BY <1>1, <1>2, SweepKeeps

\* One more event.
LEMMA Counted == ASSUME TypeOK, count < MaxEvents, count' = count + 1 PROVE count' \in 0..MaxEvents
  BY ModerationAssumption, Typed

\* StartSweep, DenySweepFails and SweepEnds keep the invariant.
LEMMA StartSweepKeeps == ASSUME IInv, NEW s \in Sweeps, StartSweep(s) PROVE IInv'
<1>. DEFINE x == [NoSweep EXCEPT !.pc = "deny"]
<1>1. SweepOK(x) /\ x.pc = "deny" /\ x.todo = {} /\ x.cur = NoItem /\ NoItem \notin Items
  BY None, ModerationAssumption DEF NoSweep
<1>. HIDE DEF x
<1>2. Go(s, x) /\ UNCHANGED <<item, denyOn, count>>  BY DEF StartSweep, x
<1>. QED  BY <1>1, <1>2, ReadsKeep, Typed DEF IInv

\* The deny lists are left to the next sweep.
LEMMA DenySweepFailsKeeps == ASSUME IInv, NEW s \in Sweeps, DenySweepFails(s) PROVE IInv'
<1>. DEFINE x == [NoSweep EXCEPT !.pc = "list"]
<1>1. SweepOK(x) /\ x.pc = "list" /\ x.todo = {} /\ x.cur = NoItem /\ NoItem \notin Items
  BY None, ModerationAssumption DEF NoSweep
<1>. HIDE DEF x
<1>2. Go(s, x) /\ UNCHANGED <<item, denyOn>> /\ count' \in 0..MaxEvents
  BY Counted DEF DenySweepFails, x, IInv
<1>. QED  BY <1>1, <1>2, ReadsKeep

\* The sweep has no item left.
LEMMA SweepEndsKeeps == ASSUME IInv, NEW s \in Sweeps, SweepEnds(s) PROVE IInv'
<1>1. NoSweep.pc = "idle" /\ NoSweep.todo = {} /\ NoSweep.cur = NoItem /\ NoItem \notin Items
  BY ModerationAssumption DEF NoSweep
<1>2. Go(s, NoSweep) /\ UNCHANGED <<item, denyOn, count>>  BY DEF SweepEnds
<1>. QED  BY <1>1, <1>2, None, ReadsKeep, Typed DEF IInv

\* DenySweep only rejects.
LEMMA DenySweepKeeps == ASSUME IInv, NEW s \in Sweeps, DenySweep(s) PROVE IInv'
<1>. DEFINE x == [NoSweep EXCEPT !.pc = "list"]
            row == [status |-> "rejected", processed |-> TRUE, by |-> "auto"]
<1>1. SweepOK(x) /\ x.pc = "list" /\ x.todo = {} /\ x.cur = NoItem /\ NoItem \notin Items
  BY None, ModerationAssumption DEF NoSweep
<1>2. row \in Row /\ row.status = "rejected" /\ row.processed /\ row.by = "auto"  BY DEF Row
<1>3. Go(s, x) /\ UNCHANGED <<denyOn, count>>  BY DEF DenySweep
<1>4. item' = [i \in Items |-> IF denyOn /\ i \in Swept THEN row ELSE item[i]]  BY DEF DenySweep
<1>. HIDE DEF x, row
<1>5. item \in [Items -> Row] /\ count' \in 0..MaxEvents  BY <1>3, Typed DEF IInv
<1>6. item' \in [Items -> Row] /\ \A i \in Items : item'[i] = item[i] \/ item'[i] = row
  BY <1>2, <1>4, <1>5
<1>7. \A i \in Twins : AutoPublished(i)' => AutoPublished(i)
  BY <1>2, <1>6, ModerationAssumption DEF AutoPublished
<1>. QED  BY <1>1, <1>2, <1>3, <1>5, <1>6, <1>7, SweepKeeps

\* List takes a batch of waiting items, that no admin has decided.
LEMMA ListKeeps == ASSUME IInv, NEW s \in Sweeps, List(s) PROVE IInv'
<1>. DEFINE waiting == {i \in Items : Waiting(i)}
<1>1. PICK todo \in SUBSET waiting :
        /\ IF Cardinality(waiting) <= BatchSize THEN todo = waiting ELSE Cardinality(todo) = BatchSize
        /\ Go(s, IF todo = {} THEN NoSweep ELSE [NoSweep EXCEPT !.pc = "next", !.todo = todo])
  BY DEF List
<1>. DEFINE x == IF todo = {} THEN NoSweep ELSE [NoSweep EXCEPT !.pc = "next", !.todo = todo]
<1>2. UNCHANGED <<item, denyOn, count>>  BY DEF List
<1>3. SweepOK(x) /\ x.pc # "vote" /\ x.todo = todo /\ x.cur = NoItem
  <2>1. CASE todo = {}  BY <2>1, None DEF NoSweep
  <2>2. CASE todo # {}
    <3>1. Cardinality(todo) <= BatchSize  BY <1>1, ModerationAssumption
    <3>2. todo \in SUBSET Items  BY <1>1
    <3>. QED  BY <2>2, <3>1, <3>2 DEF SweepOK, NoSweep, Sweep
  <2>. QED  BY <2>1, <2>2
<1>4. Go(s, x)  BY <1>1
<1>. HIDE DEF x
<1>5. \A i \in Items : i \in x.todo \cup {x.cur} => item[i].by # "admin"
  BY <1>1, <1>3, ModerationAssumption DEF IInv, WaitingIsOpen
<1>. QED  BY <1>2, <1>3, <1>4, <1>5, ReadsKeep, Typed DEF IInv

\* Examine puts an item to the vote only if no other twin was published.
LEMMA ExamineKeeps == ASSUME IInv, NEW s \in Sweeps, NEW i \in Items, Examine(s, i) PROVE IInv'
<1>0. /\ sweep[s] \in Sweep /\ SweepOK(sweep[s]) /\ sweep[s].pc = "next" /\ i \in sweep[s].todo
      /\ i # NoItem /\ UNCHANGED <<item, denyOn, count>>
  BY Typed, ModerationAssumption DEF IInv, Examine
<1>1. Cardinality(sweep[s].todo \ {i}) <= BatchSize
  BY <1>0, FewerLeft DEF SweepOK, Sweep
<1>2. CASE Go(s, [sweep[s] EXCEPT !.todo = @ \ {i}])
  <2>. DEFINE x == [sweep[s] EXCEPT !.todo = sweep[s].todo \ {i}]
  <2>1. x \in Sweep /\ x.todo = sweep[s].todo \ {i} /\ x.cur = sweep[s].cur /\ x.pc = "next"
    BY <1>0 DEF Sweep
  <2>2. SweepOK(x)  BY <1>0, <1>1, <2>1 DEF SweepOK
  <2>3. Go(s, x)  BY <1>2
  <2>. HIDE DEF x
  <2>. QED  BY <1>0, <2>1, <2>2, <2>3, ReadsKeep, Typed DEF IInv, Ahead
<1>3. ASSUME NEW pc \in {"refuse", "vote"},
             Go(s, [sweep[s] EXCEPT !.todo = @ \ {i}, !.cur = i, !.pc = pc]),
             pc = "vote" => ~Duplicated(i)
      PROVE  IInv'
  <2>. DEFINE x == [sweep[s] EXCEPT !.todo = sweep[s].todo \ {i}, !.cur = i, !.pc = pc]
  <2>1. x \in Sweep /\ x.todo = sweep[s].todo \ {i} /\ x.cur = i /\ x.pc = pc
    BY <1>0 DEF Sweep
  <2>2. SweepOK(x)  BY <1>0, <1>1, <2>1 DEF SweepOK
  <2>3. Go(s, x)  BY <1>3
  <2>. HIDE DEF x
  <2>4. \A j \in Items : j \in x.todo \cup {x.cur} => j \in Ahead(s)
    BY <1>0, <2>1 DEF Ahead
  <2>5. x.pc = "vote" /\ x.cur \in Twins => \A j \in Twins \ {x.cur} : ~AutoPublished(j)'
    BY <1>0, <1>3, <2>1 DEF Duplicated, AutoPublished
  <2>6. \A j \in Twins : AutoPublished(j)' => AutoPublished(j)  BY <1>0 DEF AutoPublished
  <2>7. item' \in [Items -> Row] /\ count' \in 0..MaxEvents  BY <1>0, Typed DEF IInv
  <2>. QED  BY <1>0, <2>2, <2>3, <2>4, <2>5, <2>6, <2>7, SweepKeeps
<1>. QED  BY <1>2, <1>3 DEF Examine

\* A sweep that has written goes on to the next item.
LEMMA OverOK ==
    ASSUME TypeOK, NEW s \in Sweeps
    PROVE  /\ SweepOK(Over(s)) /\ Over(s).pc = "next" /\ Over(s).cur = NoItem
           /\ Over(s).todo = sweep[s].todo
  BY Typed DEF Over, SweepOK, Sweep

\* ProcessFails keeps the invariant.
LEMMA ProcessFailsKeeps == ASSUME IInv, NEW s \in Sweeps, ProcessFails(s) PROVE IInv'
<1>1. count' \in 0..MaxEvents  BY Counted DEF ProcessFails, IInv
<1>2. \A i \in Items : i \in Over(s).todo \cup {Over(s).cur} => i \in Ahead(s)
  BY OverOK, ModerationAssumption DEF Ahead, IInv
<1>. QED  BY <1>1, <1>2, OverOK, ReadsKeep DEF ProcessFails, IInv

\* The item that is written is processed, and its admin stays or gives way.
LEMMA Written ==
    ASSUME IInv, NEW s \in Sweeps, sweep[s].pc \in {"vote", "refuse"}, NEW status, NEW by,
           Update(sweep[s].cur, status, by), Go(s, Over(s)), UNCHANGED <<denyOn, count>>,
           status \in {"pending", "published", "rejected"},
           by = item[sweep[s].cur].by \/ by = "auto",
           status = "published" => sweep[s].pc = "vote"
    PROVE  IInv'
<1>. DEFINE cur == sweep[s].cur
            row == [status |-> status, processed |-> TRUE, by |-> by]
<1>0. cur \in Items /\ item \in [Items -> Row]  BY Typed DEF IInv, SweepOK, Sweep
<1>1. row \in Row /\ row.status = status /\ row.processed /\ row.by = by
  BY <1>0 DEF Row
<1>2. item' = item \/ item' = [item EXCEPT ![cur] = row]  BY DEF Update
<1>. HIDE DEF row
<1>3. item' \in [Items -> Row]  BY <1>0, <1>1, <1>2
<1>4. \A i \in Items : item'[i] = item[i] \/ (i = cur /\ item'[i] = row)  BY <1>0, <1>2
<1>5. \A i \in Items : item'[i].by = "admin" => item[i].by = "admin"  BY <1>1, <1>4
<1>6. \A i \in Items : item'[i] = item[i] \/ item'[i].processed  BY <1>1, <1>4
<1>7. \A i \in Twins : AutoPublished(i)' =>
        AutoPublished(i) \/ (sweep[s].pc = "vote" /\ sweep[s].cur = i)
  BY <1>1, <1>4, ModerationAssumption DEF AutoPublished
<1>8. \A i \in Items : i \in Over(s).todo \cup {Over(s).cur} => i \in Ahead(s)
  BY OverOK, ModerationAssumption DEF Ahead, IInv
<1>9. count' \in 0..MaxEvents  BY Typed DEF IInv
<1>. QED  BY <1>3, <1>5, <1>6, <1>7, <1>8, <1>9, OverOK, SweepKeeps DEF IInv

\* WriteRefusal and WriteVerdict keep the invariant.
LEMMA WriteRefusalKeeps == ASSUME IInv, NEW s \in Sweeps, WriteRefusal(s) PROVE IInv'
  BY Written DEF WriteRefusal

\* The gates' verdicts are three.
LEMMA Verdicts == \A status \in Resolutions : status \in {"pending", "published", "rejected"}
  BY DEF Resolutions, Resolved

\* A verdict is written over whatever has become of the item.
LEMMA WriteVerdictKeeps == ASSUME IInv, NEW s \in Sweeps, WriteVerdict(s) PROVE IInv'
<1>1. PICK status \in Resolutions :
        Update(sweep[s].cur, status, IF status = "pending" THEN item[sweep[s].cur].by ELSE "auto")
  BY DEF WriteVerdict
<1>. DEFINE by == IF status = "pending" THEN item[sweep[s].cur].by ELSE "auto"
<1>2. Update(sweep[s].cur, status, by) /\ (by = item[sweep[s].cur].by \/ by = "auto")  BY <1>1
<1>. HIDE DEF by
<1>3. status \in {"pending", "published", "rejected"}  BY Verdicts
<1>. QED  BY <1>2, <1>3, Written DEF WriteVerdict

-----------------------------------------------------------------------------
(* The collectors and the admins.                                          *)

\* A step that leaves the sweeps where they are keeps the invariant when what they have
\* ahead of them is open or remembered as decided, and no twin becomes published by a
\* sweep.
LEMMA RowsKeep ==
    ASSUME IInv, UNCHANGED <<sweep, overlapped>>, item' \in [Items -> Row], denyOn' \in BOOLEAN,
           count' \in 0..MaxEvents, late' \in [Sweeps -> SUBSET Items],
           \A i \in Items : item'[i] = item[i] \/ (Waiting(i)' => item'[i].by # "admin"),
           \A s \in Sweeps : late[s] \subseteq late'[s] /\ late'[s] \subseteq Ahead(s),
           \A s \in Sweeps : \A i \in Items :
              i \in Ahead(s) => \/ i \in late'[s] \/ item'[i].by # "admin"
                                \/ item'[i] = item[i],
           \A i \in Items : AutoPublished(i)' => AutoPublished(i)
    PROVE  IInv'
<1>0. Twins \subseteq Items  BY ModerationAssumption
<1>1. TypeOK'
  <2>1. \A s \in Sweeps : SweepOK(sweep'[s]) /\ late'[s] \subseteq Ahead(s)'
    BY Typed DEF IInv, Ahead
  <2>2. sweep' \in [Sweeps -> Sweep] /\ overlapped' \in BOOLEAN  BY Typed DEF IInv
  <2>. QED  BY <2>1, <2>2 DEF TypeOK, SweepOK, Ahead, Row, Sweep
<1>2. WaitingIsOpen'
  <2>1. ASSUME NEW i \in Items, Waiting(i)', item'[i] = item[i] PROVE item'[i].by # "admin"
    BY <2>1 DEF IInv, WaitingIsOpen, Waiting
  <2>. QED  BY <2>1 DEF WaitingIsOpen
<1>3. AheadIsOpen'
  <2>. SUFFICES ASSUME NEW s \in Sweeps, NEW i \in Items, i \in Ahead(s)', i \notin late'[s]
                PROVE  item'[i].by # "admin"
    BY DEF AheadIsOpen
  <2>1. i \in Ahead(s) /\ i \notin late[s]  BY DEF Ahead
  <2>. QED  BY <2>1 DEF IInv, AheadIsOpen
<1>4. OneAtTwins' /\ VotedAlone' /\ OneTwinAutoPublished'
  BY <1>0 DEF IInv, OneAtTwins, VotedAlone, OneTwinAutoPublished
<1>. QED  BY <1>1, <1>2, <1>3, <1>4 DEF IInv

\* Collect keeps the invariant.
LEMMA CollectKeeps == ASSUME IInv, NEW i \in Items, Collect(i) PROVE IInv'
<1>. DEFINE row == [status |-> "pending", processed |-> FALSE, by |-> "none"]
<1>1. row \in Row /\ row.by = "none" /\ row.status = "pending"  BY DEF Row
<1>2. item' = [item EXCEPT ![i] = row]  BY DEF Collect
<1>. HIDE DEF row
<1>3. item' \in [Items -> Row] /\ \A j \in Items : item'[j] = item[j] \/ item'[j] = row
  BY <1>1, <1>2, Typed DEF IInv
<1>4. \A j \in Items : AutoPublished(j)' => AutoPublished(j)  BY <1>1, <1>3 DEF AutoPublished
<1>. QED  BY <1>1, <1>3, <1>4, RowsKeep, Typed DEF Collect, IInv

\* A request keeps the invariant when an item it leaves waiting is open, and when it
\* publishes none in a sweep's name.
LEMMA RequestKeeps ==
    ASSUME IInv, NEW i \in Items, NEW row \in Row, Request(i, row),
           row.status = "pending" /\ ~row.processed => row.by # "admin",
           row.status = "published" /\ row.by = "auto" => AutoPublished(i)
    PROVE  IInv'
<1>1. item' = [item EXCEPT ![i] = row] /\ UNCHANGED <<denyOn, sweep, overlapped>>
  BY DEF Request
<1>2. /\ item' \in [Items -> Row] /\ item'[i] = row
      /\ \A j \in Items : j # i => item'[j] = item[j]
  BY <1>1, Typed DEF IInv
<1>3. count' \in 0..MaxEvents  BY Counted DEF Request, IInv
<1>4. ASSUME NEW s \in Sweeps
      PROVE  /\ late'[s] \in SUBSET Items
             /\ late[s] \subseteq late'[s] /\ late'[s] \subseteq Ahead(s)
             /\ i \in Ahead(s) /\ row.by = "admin" => i \in late'[s]
  <2>1. late[s] \in SUBSET Items /\ late[s] \subseteq Ahead(s)  BY Typed DEF IInv
  <2>2. late'[s] = IF row.by = "admin" /\ i \in Ahead(s) THEN late[s] \cup {i} ELSE late[s]
    BY DEF Request, Ahead
  <2>. QED  BY <2>1, <2>2
<1>5. late' \in [Sweeps -> SUBSET Items]
  <2>1. late' = [s \in Sweeps |-> late'[s]]  BY DEF Request
  <2>. QED  BY <1>4, <2>1
<1>6. \A j \in Items : AutoPublished(j)' => AutoPublished(j)  BY <1>2 DEF AutoPublished
<1>7. \A j \in Items : item'[j] = item[j] \/ (Waiting(j)' => item'[j].by # "admin")
  BY <1>2 DEF Waiting
<1>8. denyOn' \in BOOLEAN  BY <1>1, Typed DEF IInv
<1>9. ASSUME NEW s \in Sweeps, NEW j \in Items, j \in Ahead(s)
      PROVE  \/ j \in late'[s] \/ item'[j].by # "admin" \/ item'[j] = item[j]
  BY <1>2, <1>4, <1>9
<1>. QED  BY <1>1, <1>2, <1>3, <1>4, <1>5, <1>6, <1>7, <1>8, <1>9, RowsKeep

\* The admins' requests keep the invariant.
LEMMA AdminKeeps == ASSUME IInv, NEW i \in Items, Admin(i) PROVE IInv'
<1>0. item[i] \in Row  BY Typed DEF IInv
<1>1. ASSUME NEW status \in {"published", "rejected"}, Decide(i, status) PROVE IInv'
  <2>. DEFINE row == [item[i] EXCEPT !.status = status, !.by = "admin"]
  <2>1. row \in Row /\ row.status = status /\ row.by = "admin"  BY <1>0 DEF Row
  <2>2. Request(i, row)  BY <1>1 DEF Decide
  <2>. HIDE DEF row
  <2>. QED  BY <2>1, <2>2, RequestKeeps
<1>2. CASE Requeue(i)
  <2>. DEFINE row == [status |-> "pending", processed |-> FALSE, by |-> "none"]
  <2>1. row \in Row /\ row.by = "none"  BY DEF Row
  <2>2. Request(i, row)  BY <1>2 DEF Requeue
  <2>. HIDE DEF row
  <2>. QED  BY <2>1, <2>2, RequestKeeps
<1>3. CASE CreateItem(i)
  <2>. DEFINE row == [status |-> "published", processed |-> FALSE, by |-> "admin"]
  <2>1. row \in Row /\ row.by = "admin" /\ row.status = "published"  BY DEF Row
  <2>2. Request(i, row)  BY <1>3 DEF CreateItem
  <2>. HIDE DEF row
  <2>. QED  BY <2>1, <2>2, RequestKeeps
<1>4. CASE FixDate(i)
  <2>. DEFINE row == [item[i] EXCEPT !.processed = TRUE]
  <2>1. row \in Row /\ row.by = item[i].by /\ row.status = item[i].status /\ row.processed
    BY <1>0 DEF Row
  <2>2. Request(i, row)  BY <1>4 DEF FixDate
  <2>. HIDE DEF row
  <2>. QED  BY <2>1, <2>2, RequestKeeps DEF AutoPublished
<1>5. CASE Delete(i)
  <2>. DEFINE row == [item[i] EXCEPT !.status = "gone"]
  <2>1. row \in Row /\ row.status = "gone"  BY <1>0 DEF Row
  <2>2. Request(i, row)  BY <1>5 DEF Delete
  <2>. HIDE DEF row
  <2>. QED  BY <2>1, <2>2, RequestKeeps
<1>. QED  BY <1>1, <1>2, <1>3, <1>4, <1>5 DEF Admin, Approve, Reject

\* A crash keeps the invariant: nothing is ahead of any sweep.
LEMMA CrashKeeps == ASSUME IInv, Crash PROVE IInv'
<1>0. NoSweep.todo = {} /\ NoSweep.cur = NoItem /\ NoSweep.pc = "idle" /\ SweepOK(NoSweep)
      /\ NoItem \notin Items
  BY None, ModerationAssumption DEF NoSweep
<1>1. /\ \A s \in Sweeps : sweep'[s] = NoSweep /\ late'[s] = {}
      /\ sweep' \in [Sweeps -> Sweep] /\ late' \in [Sweeps -> SUBSET Items]
      /\ UNCHANGED <<item, denyOn, overlapped>>
  BY <1>0 DEF Crash, SweepOK
<1>2. count' \in 0..MaxEvents  BY Counted DEF Crash, IInv
<1>3. TypeOK'
  <2>1. \A s \in Sweeps : SweepOK(sweep'[s]) /\ late'[s] \subseteq Ahead(s)'  BY <1>0, <1>1
  <2>2. item' \in [Items -> Row] /\ denyOn' \in BOOLEAN /\ overlapped' \in BOOLEAN
    BY <1>1, Typed DEF IInv
  <2>. QED  BY <1>1, <1>2, <2>1, <2>2 DEF TypeOK, SweepOK, Ahead, Row, Sweep
<1>4. WaitingIsOpen' /\ OneTwinAutoPublished'
  BY <1>1 DEF IInv, WaitingIsOpen, Waiting, OneTwinAutoPublished, AutoPublished
<1>5. AheadIsOpen'  BY <1>0, <1>1 DEF AheadIsOpen, Ahead
<1>6. OneAtTwins' /\ VotedAlone'
  BY <1>0, <1>1, ModerationAssumption DEF OneAtTwins, VotedAlone, Sweeps
<1>. QED  BY <1>3, <1>4, <1>5, <1>6 DEF IInv

-----------------------------------------------------------------------------
(* The theorems.                                                           *)

\* The invariant holds at first.
LEMMA InitHolds == Init => IInv
<1>. SUFFICES ASSUME Init PROVE IInv  OBVIOUS
<1>0. NoSweep.todo = {} /\ NoSweep.cur = NoItem /\ NoSweep.pc = "idle" /\ SweepOK(NoSweep)
      /\ NoItem \notin Items
  BY None, ModerationAssumption DEF NoSweep
<1>1. /\ \A s \in Sweeps : sweep[s] = NoSweep /\ late[s] = {}
      /\ sweep \in [Sweeps -> Sweep] /\ late \in [Sweeps -> SUBSET Items]
  BY <1>0 DEF Init, SweepOK
<1>2. item \in [Items -> Row] /\ \A i \in Items : item[i].by = "none"  BY DEF Init, Row
<1>3. TypeOK
  <2>0. denyOn \in BOOLEAN /\ overlapped \in BOOLEAN  BY DEF Init
  <2>1. count \in 0..MaxEvents  BY ModerationAssumption DEF Init
  <2>2. \A s \in Sweeps : SweepOK(sweep[s]) /\ late[s] \subseteq Ahead(s)  BY <1>0, <1>1
  <2>. QED  BY <1>1, <1>2, <2>0, <2>1, <2>2, Typed
<1>4. WaitingIsOpen /\ OneTwinAutoPublished
  BY <1>2, ModerationAssumption DEF WaitingIsOpen, OneTwinAutoPublished, AutoPublished
<1>5. AheadIsOpen  BY <1>2 DEF AheadIsOpen
<1>6. OneAtTwins /\ VotedAlone
  BY <1>0, <1>1, ModerationAssumption DEF OneAtTwins, VotedAlone, Sweeps
<1>. QED  BY <1>3, <1>4, <1>5, <1>6 DEF IInv

\* A step of a sweep keeps the invariant.
LEMMA SweepStepKeeps == ASSUME IInv, NEW s \in Sweeps, SweepStep(s) PROVE IInv'
<1>1. ASSUME NEW i \in Items, Examine(s, i) PROVE IInv'  BY <1>1, ExamineKeeps
<1>. QED
  BY <1>1, DenySweepKeeps, DenySweepFailsKeeps, ListKeeps, WriteRefusalKeeps, WriteVerdictKeeps,
     ProcessFailsKeeps, SweepEndsKeeps
  DEF SweepStep

\* Every step keeps the invariant.
LEMMA StepKeeps == IInv /\ [Next]_vars => IInv'
<1>. SUFFICES ASSUME IInv, [Next]_vars PROVE IInv'  OBVIOUS
<1>1. ASSUME NEW s \in Sweeps, StartSweep(s) \/ SweepStep(s) PROVE IInv'
  BY <1>1, StartSweepKeeps, SweepStepKeeps
<1>2. ASSUME NEW i \in Items, Collect(i) \/ Admin(i) PROVE IInv'  BY <1>2, CollectKeeps, AdminKeeps
<1>3. CASE ExtendDenyList \/ UNCHANGED vars
  <2>1. UNCHANGED <<item, sweep, late, overlapped, count>> /\ denyOn' \in BOOLEAN
    BY <1>3, Typed DEF ExtendDenyList, vars, IInv
  <2>2. \A i \in Items : AutoPublished(i)' => AutoPublished(i)  BY <2>1 DEF AutoPublished
  <2>. QED  BY <2>1, <2>2, RowsKeep, Typed DEF IInv
<1>4. CASE Crash  BY <1>4, CrashKeeps
<1>. QED  BY <1>1, <1>2, <1>3, <1>4 DEF Next

\* The invariant holds in every reachable state of moderation.
THEOREM Invariance == Spec => []IInv
  BY InitHolds, StepKeeps, PTL DEF Spec

\* Every reachable state of moderation is typed; no sweep has more than a batch ahead.
THEOREM TypeCorrect == Spec => []TypeOK
<1>1. IInv => TypeOK  BY DEF IInv
<1>. QED  BY <1>1, Invariance, PTL

\* Of the items that are duplicates of each other processItem publishes one at most,
\* whatever admins requeue and reject, unless two sweeps were at two of them at once.
THEOREM OneTwinIsPublished == Spec => []OneTwinAutoPublished
<1>1. IInv => OneTwinAutoPublished  BY DEF IInv
<1>. QED  BY <1>1, Invariance, PTL

\* The UPDATE of a sweep names the item alone; it changes what an admin decided only if
\* the decision came after the sweep had listed the item.
THEOREM AdminsDecide == Spec => DecisionsStand
<1>. DEFINE Stands(s, i) ==
       /\ sweep[s].cur = i /\ sweep'[s].pc = "next"
       /\ item[i].by = "admin" /\ item'[i] # item[i]
       => i \in late[s]
<1>1. IInv /\ [Next]_vars => [\A s \in Sweeps, i \in Items : Stands(s, i)]_vars
  <2>. SUFFICES ASSUME IInv, NEW s \in Sweeps, NEW i \in Items, sweep[s].cur = i,
                       item[i].by = "admin"
                PROVE  i \in late[s]
    OBVIOUS
  <2>. QED  BY DEF IInv, AheadIsOpen, Ahead
<1>. QED  BY <1>1, Invariance, PTL DEF Spec, DecisionsStand
=============================================================================
