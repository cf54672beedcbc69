---------------------------- MODULE BatchPromise ----------------------------
(***************************************************************************)
(* What runBatch promises the two collection jobs that call it, without    *)
(* its workers, timers and counters: every item is started once and ends   *)
(* once, and the call returns "completed" only when all of them have.      *)
(* After a cancellation it may return earlier, and items that were just    *)
(* being claimed may still start behind the caller's back.                 *)
(***************************************************************************)
EXTENDS FiniteSets

CONSTANT Items

VARIABLES
    todo,      \* items nobody has started
    running,   \* items being worked on
    ended,     \* items with an outcome and a checkpoint
    returned   \* "no", "completed" or "cancelled"

vars == <<todo, running, ended, returned>>

Init ==
    /\ todo = Items
    /\ running = {}
    /\ ended = {}
    /\ returned = "no"

Start(i) ==
    /\ i \in todo
    /\ returned # "completed"
    /\ todo' = todo \ {i}
    /\ running' = running \cup {i}
    /\ UNCHANGED <<ended, returned>>

\* The last item to end may end the call in the same step.
End(i) ==
    /\ i \in running
    /\ running' = running \ {i}
    /\ ended' = ended \cup {i}
    /\ returned' \in {returned} \cup
           (IF returned # "no" THEN {}
            ELSE {"cancelled"} \cup (IF ended' = Items THEN {"completed"} ELSE {}))
    /\ UNCHANGED todo

\* A call that finds the cancellation with nothing running returns at once.
ReturnCancelled ==
    /\ returned = "no"
    /\ running = {}
    /\ returned' = "cancelled"
    /\ UNCHANGED <<todo, running, ended>>

Next ==
    \/ \E i \in Items : Start(i) \/ End(i)
    \/ ReturnCancelled

Spec == Init /\ [][Next]_vars
=============================================================================
