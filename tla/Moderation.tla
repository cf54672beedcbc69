----------------------------- MODULE Moderation -----------------------------
(***************************************************************************)
(* The moderation of collected news and events (moderationService.js,      *)
(* filterLists.js): sweeps that examine pending items one by one, the      *)
(* votes and gates that publish, reject or leave an item to an admin, and  *)
(* the admins' own decisions, all on the same rows without a transaction.  *)
(*                                                                         *)
(* A sweep is one execution of processPendingItems, started by the         *)
(* schedule or by POST /moderation/sweep, which does not look for another: *)
(*                                                                         *)
(*   "deny"  before the deny lists' UPDATE    "refuse" awaiting the UPDATE *)
(*   "list"  before the SELECT of the items            of a refused item   *)
(*   "next"  between two items                "vote"   awaiting the models *)
(*                                                     and then the UPDATE *)
(*                                                                         *)
(* Examine joins the reading of the row, the search for a duplicate and    *)
(* the reading of the deny lists: an item is never taken off a deny list   *)
(* here, so its result is one the separate queries could have had.  What   *)
(* an item says is left out: Twins are strict duplicates of each other,    *)
(* and two sets stand for the two matches of an entry of a deny list: the  *)
(* SQL of the sweep and the test of one item do not look at the same       *)
(* columns.  The dates and POIs that WriteVerdict rewrites with the status *)
(* are left out, and with them that an item stops being a twin; so are     *)
(* photos (never voted on) and edits that do not publish.                  *)
(* moderation_enabled is 'true'.                                           *)
(***************************************************************************)
EXTENDS Integers, FiniteSets

CONSTANTS
    Items,         \* rows of poi_news or poi_events
    Twins,         \* items that duplicate each other
    DeniedBySweep, \* items an entry an admin adds to a deny list matches, in the
    DeniedByItem,  \* UPDATE of a sweep and in the test of a single item
    NoItem,
    BatchSize,     \* moderation_sweep_batch_size
    MaxEvents      \* bound: requests of admins, queries that fail and restarts

ASSUME ModerationAssumption ==
    /\ IsFiniteSet(Items) /\ NoItem \notin Items
    /\ Twins \cup DeniedBySweep \cup DeniedByItem \subseteq Items
    /\ BatchSize \in Nat \ {0}
    /\ MaxEvents \in Nat

Sweeps == {"schedule", "admin"}

VARIABLES
    item,       \* the rows
    denyOn,     \* the entry is on a deny list
    sweep,      \* the executions of processPendingItems
    late,       \* history: items a sweep has yet to write that an admin decided
                \* since it listed them
    overlapped, \* history: two sweeps have worked on Twins at the same time
    count       \* requests, failures and restarts so far

vars == <<item, denyOn, sweep, late, overlapped, count>>

NoSweep == [pc |-> "idle", todo |-> {}, cur |-> NoItem]

TypeOK ==
    /\ item \in [Items -> [status : {"absent", "pending", "published", "rejected", "gone"},
                           processed : BOOLEAN, by : {"none", "auto", "admin"}]]
    /\ denyOn \in BOOLEAN
    /\ sweep \in [Sweeps -> [pc : {"idle", "deny", "list", "next", "vote", "refuse"},
                             todo : SUBSET Items, cur : Items \cup {NoItem}]]
    /\ \A s \in Sweeps : /\ Cardinality(sweep[s].todo) <= BatchSize
                         /\ sweep[s].pc \in {"vote", "refuse"} <=> sweep[s].cur # NoItem
                         /\ late[s] \subseteq sweep[s].todo \cup {sweep[s].cur}
    /\ late \in [Sweeps -> SUBSET Items]
    /\ overlapped \in BOOLEAN
    /\ count \in 0..MaxEvents

\* The items are yet to be collected.
Init ==
    /\ item = [i \in Items |-> [status |-> "absent", processed |-> FALSE, by |-> "none"]]
    /\ denyOn = FALSE
    /\ sweep = [s \in Sweeps |-> NoSweep]
    /\ late = [s \in Sweeps |-> {}]
    /\ overlapped = FALSE
    /\ count = 0

Stored(i) == item[i].status \in {"pending", "published", "rejected"}

-----------------------------------------------------------------------------
(* The gates of processItem, over what the models answered: so many votes, *)
(* of which so many are affirmative, in the region, ambiguous about it.    *)

Votes == {v \in [total : 0..3, yes : 0..3, inside : 0..3, ambiguous : 0..3] :
             v.yes <= v.total /\ v.inside + v.ambiguous <= v.total}

RelevanceGate(v) ==
    IF v.total >= 3 /\ v.yes = v.total THEN "pass"
    ELSE IF v.total >= 3 /\ v.yes <= 1 THEN "fail" ELSE "review"

RegionGate(v) ==
    IF v.total < 3 THEN "review"
    ELSE IF v.inside = v.total THEN "pass"
    ELSE IF v.inside = 0 /\ 2 * v.ambiguous <= v.total THEN "fail" ELSE "review"

\* The gates' verdicts together.  A date's gate passes on its score, a POI's on
\* the votes or on a reassignment; news that was only a search snippet is held.
Resolved(relevance, region, others, snippet) ==
    IF "fail" \in {relevance, region} THEN "rejected"
    ELSE IF {relevance, region} \cup others = {"pass"} /\ ~snippet THEN "published"
    ELSE "pending"

\* Relevance and region are voted on separately; votes that fail are none.
Resolutions ==
    {Resolved(RelevanceGate(v), RegionGate(w), others, snippet) :
        v \in Votes, w \in Votes, others \in SUBSET {"pass", "review"} \ {{}}, snippet \in BOOLEAN}

-----------------------------------------------------------------------------
(* A sweep.                                                                *)

Go(s, state) ==
    /\ sweep' = [sweep EXCEPT ![s] = state]
    /\ late' = [late EXCEPT ![s] = @ \cap (state.todo \cup {state.cur})]
    /\ overlapped' = (overlapped \/ \A t \in Sweeps : sweep'[t].cur \in Twins)

\* There is something to write for: the row is still there.
Update(i, status, by) ==
    item' = IF Stored(i) THEN [item EXCEPT ![i] = [status |-> status, processed |-> TRUE, by |-> by]]
            ELSE item

StartSweep(s) ==
    /\ sweep[s].pc = "idle"
    /\ Go(s, [NoSweep EXCEPT !.pc = "deny"])
    /\ UNCHANGED <<item, denyOn, count>>

\* sweepDenyLists: every stored item the UPDATE matches is rejected, by no admin.  It
\* searches two text columns, not the location of an event.
Swept_Pending == {i \in DeniedBySweep : item[i].status = "pending"}   \* mutant: only waiting items
Swept == {i \in DeniedBySweep : Stored(i) /\ item[i].status # "rejected"}
DenySweep(s) ==
    /\ sweep[s].pc = "deny"
    /\ item' = [i \in Items |-> IF denyOn /\ i \in Swept
                                THEN [status |-> "rejected", processed |-> TRUE, by |-> "auto"]
                                ELSE item[i]]
    /\ Go(s, [NoSweep EXCEPT !.pc = "list"])
    /\ UNCHANGED <<denyOn, count>>

\* A failure is caught, and the sweep goes on.
DenySweepFails(s) ==
    /\ sweep[s].pc = "deny"
    /\ count < MaxEvents
    /\ count' = count + 1
    /\ Go(s, [NoSweep EXCEPT !.pc = "list"])
    /\ UNCHANGED <<item, denyOn>>

Waiting_AnyStatus(i) == Stored(i) /\ ~item[i].processed         \* mutant: decided items too
Waiting(i) == item[i].status = "pending" /\ ~item[i].processed

\* The first BatchSize rows in any order; a sweep that finds none is over.
List_Processed(s) ==    \* mutant: items a sweep left to an admin are listed again
    /\ sweep[s].pc = "list"
    /\ LET waiting == {i \in Items : item[i].status = "pending"}
       IN \E todo \in SUBSET waiting :
            /\ IF Cardinality(waiting) <= BatchSize THEN todo = waiting
               ELSE Cardinality(todo) = BatchSize
            /\ Go(s, IF todo = {} THEN NoSweep
                     ELSE [NoSweep EXCEPT !.pc = "next", !.todo = todo])
    /\ UNCHANGED <<item, denyOn, count>>
List(s) ==
    /\ sweep[s].pc = "list"
    /\ LET waiting == {i \in Items : Waiting(i)}
       IN \E todo \in SUBSET waiting :
            /\ IF Cardinality(waiting) <= BatchSize THEN todo = waiting
               ELSE Cardinality(todo) = BatchSize
            /\ Go(s, IF todo = {} THEN NoSweep
                     ELSE [NoSweep EXCEPT !.pc = "next", !.todo = todo])
    /\ UNCHANGED <<item, denyOn, count>>

\* An approved item at any POI that this one duplicates.
Duplicated_Human(i) ==     \* mutant: only what a human approved counts
    i \in Twins /\ \E t \in Twins \ {i} : item[t].status = "published" /\ item[t].by = "admin"
Duplicated(i) == i \in Twins /\ \E t \in Twins \ {i} : item[t].status = "published"

\* processItem up to the votes: a duplicate, an item on a deny list and one
\* without a source URL, as any may be here, are refused without them.  The test of
\* the lists sees no summary, which the row calls description.
Examine(s, i) ==
    /\ sweep[s].pc = "next"
    /\ i \in sweep[s].todo
    /\ \/ /\ ~Stored(i)
          /\ Go(s, [sweep[s] EXCEPT !.todo = @ \ {i}])
       \/ /\ Stored(i)
          /\ Go(s, [sweep[s] EXCEPT !.todo = @ \ {i}, !.cur = i, !.pc = "refuse"])
       \/ /\ Stored(i)
          /\ ~Duplicated(i) /\ ~(denyOn /\ i \in DeniedByItem)
          /\ Go(s, [sweep[s] EXCEPT !.todo = @ \ {i}, !.cur = i, !.pc = "vote"])
    /\ UNCHANGED <<item, denyOn, count>>

Over(s) == [sweep[s] EXCEPT !.pc = "next", !.cur = NoItem]

\* The UPDATEs name the item alone, whatever has become of it meanwhile.
WriteRefusal(s) ==
    /\ sweep[s].pc = "refuse"
    /\ Update(sweep[s].cur, "rejected", item[sweep[s].cur].by)
    /\ Go(s, Over(s))
    /\ UNCHANGED <<denyOn, count>>

\* moderated_by is set with a verdict of the gates, and kept without one.
WriteVerdict(s) ==
    /\ sweep[s].pc = "vote"
    /\ \E status \in Resolutions :
          Update(sweep[s].cur, status,
                 IF status = "pending" THEN item[sweep[s].cur].by ELSE "auto")
    /\ Go(s, Over(s))
    /\ UNCHANGED <<denyOn, count>>

\* A query of processItem throws; the loop of the sweep catches it.
ProcessFails(s) ==
    /\ sweep[s].pc \in {"vote", "refuse"}
    /\ count < MaxEvents
    /\ count' = count + 1
    /\ Go(s, Over(s))
    /\ UNCHANGED <<item, denyOn>>

SweepEnds(s) ==
    /\ sweep[s].pc = "next" /\ sweep[s].todo = {}
    /\ Go(s, NoSweep)
    /\ UNCHANGED <<item, denyOn, count>>

SweepStep(s) ==
    \/ DenySweep(s) \/ DenySweepFails(s) \/ List(s) \/ \E i \in Items : Examine(s, i)
    \/ WriteRefusal(s) \/ WriteVerdict(s) \/ ProcessFails(s) \/ SweepEnds(s)

-----------------------------------------------------------------------------
(* The collectors and the admins.                                          *)

\* saveNewsItems, saveEventItems
Collect(i) ==
    /\ item[i].status = "absent"
    /\ item' = [item EXCEPT ![i] = [status |-> "pending", processed |-> FALSE, by |-> "none"]]
    /\ UNCHANGED <<denyOn, sweep, late, overlapped, count>>

\* A request of an admin that makes the row what it says.
Request(i, row) ==
    /\ count < MaxEvents
    /\ count' = count + 1
    /\ item' = [item EXCEPT ![i] = row]
    /\ late' = [s \in Sweeps |-> IF row.by = "admin" /\ i \in sweep[s].todo \cup {sweep[s].cur}
                               THEN late[s] \cup {i} ELSE late[s]]
    /\ UNCHANGED <<denyOn, sweep, overlapped>>

\* approveItem, rejectItem, their bulk forms and editAndPublish: whether a sweep
\* has processed the item is left as it is.
Decide(i, status) ==
    /\ Stored(i)
    /\ Request(i, [item[i] EXCEPT !.status = status, !.by = "admin"])
Approve(i) == Decide(i, "published")
Reject(i) == Decide(i, "rejected")

Requeue(i) ==
    /\ Stored(i)
    /\ Request(i, [status |-> "pending", processed |-> FALSE, by |-> "none"])

CreateItem(i) ==
    /\ item[i].status = "absent"
    /\ Request(i, [status |-> "published", processed |-> FALSE, by |-> "admin"])

FixDate(i) ==
    /\ Stored(i) /\ ~item[i].processed
    /\ Request(i, [item[i] EXCEPT !.processed = TRUE])

\* DELETE /news/:id, and the end of a merge
Delete(i) ==
    /\ Stored(i)
    /\ Request(i, [item[i] EXCEPT !.status = "gone"])

ExtendDenyList ==
    /\ ~denyOn
    /\ denyOn' = TRUE
    /\ UNCHANGED <<item, sweep, late, overlapped, count>>

\* The process dies: no sweep is remembered.
Crash ==
    /\ count < MaxEvents
    /\ \E s \in Sweeps : sweep[s].pc # "idle"
    /\ count' = count + 1
    /\ sweep' = [s \in Sweeps |-> NoSweep]
    /\ late' = [s \in Sweeps |-> {}]
    /\ UNCHANGED <<item, denyOn, overlapped>>

Admin(i) == Approve(i) \/ Reject(i) \/ Requeue(i) \/ CreateItem(i) \/ FixDate(i) \/ Delete(i)

Next ==
    \/ \E s \in Sweeps : StartSweep(s) \/ SweepStep(s)
    \/ \E i \in Items : Collect(i) \/ Admin(i)
    \/ ExtendDenyList \/ Crash

\* The schedule starts a sweep every 15 minutes, and every await of a sweep ends.
Fairness == WF_vars(StartSweep("schedule")) /\ \A s \in Sweeps : WF_vars(SweepStep(s))

Spec == Init /\ [][Next]_vars /\ Fairness

-----------------------------------------------------------------------------
(* Properties.                                                             *)

\* Of the items that duplicate each other the sweeps publish one at most (the
\* duplicate check, spec 054), however admins requeue and reject them, unless
\* two sweeps worked on two of them at once.
AutoPublished(i) == item[i].status = "published" /\ item[i].by = "auto"
OneTwinAutoPublished ==
    overlapped \/ \A i, j \in Twins : AutoPublished(i) /\ AutoPublished(j) => i = j

\* Only a deny list, or a sweep that had listed the item before the admin
\* decided, changes what an admin has decided: processItem does not look again,
\* and the list is of items that wait.
DecisionsStand ==
    [][\A s \in Sweeps, i \in Items :
          /\ sweep[s].cur = i /\ sweep'[s].pc = "next"
          /\ item[i].by = "admin" /\ item'[i] # item[i]
          => i \in late[s]]_vars

\* Once an admin has extended a deny list, what the sweep's UPDATE matches leaves the
\* site and stays away ("adding to a list cleans up already-approved items"), also when
\* the test of the item does not match it, and so a later sweep publishes it again,
\* or when a sweep that had read the old list does.
DeniedLeavesSite ==
    \A i \in DeniedBySweep : denyOn ~> [](item[i].status # "published")

\* The comment says so of every stored item that matches a list.  One that only the
\* test of an item matches, say by its location, stays if it was published before.
AllDeniedLeaveSite ==
    \A i \in DeniedBySweep \cup DeniedByItem : denyOn ~> [](item[i].status # "published")

\* A collected or requeued item does not wait for ever for a sweep to take it.
EveryItemIsModerated == \A i \in Items : Waiting(i) ~> ~Waiting(i)
=============================================================================
