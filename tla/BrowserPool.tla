----------------------------- MODULE BrowserPool -----------------------------
(***************************************************************************)
(* The shared Chromium of one egress (backend/services/browserPool.js): it *)
(* is launched by the first acquireBrowser, shared by all, closed after it *)
(* was idle for a while, and killed by a watchdog or by a crawl whose      *)
(* health check failed.  Timers, the launch and close() are the points     *)
(* where other code runs; all between is one step.  A launch is named by   *)
(* the browser it will produce, and 0 stands for null.  A killed           *)
(* acquisition is released within its grace period of 180 s: renders have  *)
(* a hard timeout of 60 s and release in a finally.                        *)
(***************************************************************************)
EXTENDS Integers, FiniteSets

CONSTANTS
    Users,        \* renders that acquire and release, again and again
    Crawls,       \* crawls that may run a health check (newsService.crawlPage)
    MaxBrowsers,  \* bound: launches
    MaxCrashes,   \* bound: browsers that disconnect by themselves
    MaxStrays     \* bound: close timers nobody can clear any more

ASSUME PoolAssumption ==
    /\ IsFiniteSet(Users) /\ IsFiniteSet(Crawls)
    /\ {MaxBrowsers, MaxCrashes, MaxStrays} \subseteq Nat

Browsers == 1..MaxBrowsers

VARIABLES
    slot,       \* browser, refCount, launchPromise, and whether closeTimer is armed
    strays,     \* armed close timers that slot.closeTimer no longer names
    browser,    \* each browser: "none", "launching", "running", "closing" (close() is
                \* awaited), "gone"
    user,       \* "idle", "waiting" for a launch, "holding" a browser
    watchdog,   \* of the user's acquisition: "none", "armed", "killed"
    suspicious, \* crawls whose health check failed and that are about to kill
    crashes,    \* browsers that disconnected
    forgotten,  \* history: launches that were pending at a kill
    unclosed    \* history: browsers whose close() rejected

history == <<crashes, forgotten, unclosed>>
vars == <<slot, strays, browser, user, watchdog, suspicious, history>>

Idle == [pc |-> "idle", browser |-> 0]

TypeOK ==
    /\ slot \in [browser : 0..MaxBrowsers, refCount : 0..Cardinality(Users), launch : 0..MaxBrowsers, closing : BOOLEAN]
    /\ strays \in 0..MaxStrays
    /\ browser \in [Browsers -> {"none", "launching", "running", "closing", "gone"}]
    /\ user \in [Users -> [pc : {"idle", "waiting", "holding"}, browser : 0..MaxBrowsers]]
    /\ watchdog \in [Users -> {"none", "armed", "killed"}]
    /\ suspicious \in SUBSET Crawls
    /\ crashes \in 0..MaxCrashes
    /\ forgotten \in SUBSET Browsers /\ unclosed \in SUBSET Browsers

Init ==
    /\ slot = [browser |-> 0, refCount |-> 0, launch |-> 0, closing |-> FALSE]
    /\ strays = 0
    /\ browser = [b \in Browsers |-> "none"]
    /\ user = [u \in Users |-> Idle]
    /\ watchdog = [u \in Users |-> "none"]
    /\ suspicious = {}
    /\ crashes = 0
    /\ forgotten = {} /\ unclosed = {}

\* slot.browser is set and isConnected().
Connected == slot.browser # 0 /\ browser[slot.browser] = "running"

Waiting(l) == {u \in Users : user[u] = [pc |-> "waiting", browser |-> l]}

Holding == {u \in Users : user[u].pc = "holding"}

-----------------------------------------------------------------------------
(* acquireBrowser: the close timer is cleared first.                       *)

AcquireRunning(u) ==
    /\ user[u].pc = "idle"
    /\ Connected
    /\ slot' = [slot EXCEPT !.closing = FALSE, !.refCount = @ + 1]
    /\ user' = [user EXCEPT ![u] = [pc |-> "holding", browser |-> slot.browser]]
    /\ watchdog' = [watchdog EXCEPT ![u] = "armed"]
    /\ UNCHANGED <<strays, browser, suspicious, history>>

JoinLaunch(u) ==
    /\ user[u].pc = "idle"
    /\ ~Connected /\ slot.launch # 0
    /\ slot' = [slot EXCEPT !.closing = FALSE]
    /\ user' = [user EXCEPT ![u] = [pc |-> "waiting", browser |-> slot.launch]]
    /\ UNCHANGED <<strays, browser, watchdog, suspicious, history>>

Launch_Always(u, b) ==      \* mutant: a pending launch is not shared
    /\ user[u].pc = "idle"
    /\ ~Connected
    /\ browser[b] = "none"
    /\ browser' = [browser EXCEPT ![b] = "launching"]
    /\ slot' = [slot EXCEPT !.closing = FALSE, !.launch = b]
    /\ user' = [user EXCEPT ![u] = [pc |-> "waiting", browser |-> b]]
    /\ UNCHANGED <<strays, watchdog, suspicious, history>>
Launch(u, b) ==
    /\ user[u].pc = "idle"
    /\ ~Connected /\ slot.launch = 0
    /\ \A c \in Browsers : browser[c] = "none" <=> c >= b
    /\ browser' = [browser EXCEPT ![b] = "launching"]
    /\ slot' = [slot EXCEPT !.closing = FALSE, !.launch = b]
    /\ user' = [user EXCEPT ![u] = [pc |-> "waiting", browser |-> b]]
    /\ UNCHANGED <<strays, watchdog, suspicious, history>>

\* chromium.launch resolves.  It sets slot.browser, its finally clears
\* slot.launchPromise whichever launch that is, and all who wait for it go on.
Launched(b) ==
    /\ browser[b] = "launching"
    /\ browser' = [browser EXCEPT ![b] = "running"]
    /\ slot' = [slot EXCEPT !.browser = b, !.launch = 0,
                            !.refCount = @ + Cardinality(Waiting(b))]
    /\ user' = [u \in Users |-> IF u \in Waiting(b) THEN [pc |-> "holding", browser |-> b]
                                ELSE user[u]]
    /\ watchdog' = [u \in Users |-> IF u \in Waiting(b) THEN "armed" ELSE watchdog[u]]
    /\ UNCHANGED <<strays, suspicious, history>>

\* chromium.launch rejects, and so does every acquireBrowser that waits for it.
LaunchFails(b) ==
    /\ browser[b] = "launching"
    /\ browser' = [browser EXCEPT ![b] = "gone"]
    /\ slot' = [slot EXCEPT !.launch = 0]
    /\ user' = [u \in Users |-> IF u \in Waiting(b) THEN Idle ELSE user[u]]
    /\ UNCHANGED <<strays, watchdog, suspicious, history>>

-----------------------------------------------------------------------------
(* releaseBrowser, and the timer it arms.                                  *)

CountDown_Late ==      \* mutant: zero is looked for before the decrement
    IF slot.refCount > 0
    THEN slot' = [slot EXCEPT !.refCount = @ - 1] /\ UNCHANGED strays
    ELSE slot' = [slot EXCEPT !.closing = TRUE] /\ UNCHANGED strays
\* The count goes down, but not below zero, and at zero the timer is armed; one
\* that is armed already is overwritten, not cleared.
CountDown ==
    LET count == IF slot.refCount > 0 THEN slot.refCount - 1 ELSE 0
    IN  IF count > 0
        THEN /\ slot' = [slot EXCEPT !.refCount = count]
             /\ UNCHANGED strays
        ELSE /\ slot' = [slot EXCEPT !.refCount = count, !.closing = TRUE]
             /\ strays' = IF slot.closing THEN strays + 1 ELSE strays
             /\ strays' <= MaxStrays

\* The release of an acquisition that was killed is ignored.
Release_CountsKilled(u) ==     \* mutant: it counts against the next browser
    /\ u \in Holding
    /\ CountDown
    /\ user' = [user EXCEPT ![u] = Idle]
    /\ watchdog' = [watchdog EXCEPT ![u] = "none"]
    /\ UNCHANGED <<browser, suspicious, history>>
Release(u) ==
    /\ u \in Holding
    /\ IF watchdog[u] = "killed" THEN UNCHANGED <<slot, strays>> ELSE CountDown
    /\ user' = [user EXCEPT ![u] = Idle]
    /\ watchdog' = [watchdog EXCEPT ![u] = "none"]
    /\ UNCHANGED <<browser, suspicious, history>>

\* close() of the slot's browser is called; nothing happens to one that is gone.
Closing == [b \in Browsers |-> IF b = slot.browser /\ browser[b] = "running" THEN "closing"
                               ELSE browser[b]]

\* The slot's timer fires (stray: one that was overwritten): the slot is emptied
\* before close() is awaited.
CloseIdle_Unchecked(stray) ==      \* mutant: the count is not looked at again
    /\ IF stray THEN strays > 0 ELSE slot.closing
    /\ strays' = IF stray THEN strays - 1 ELSE strays
    /\ slot' = [slot EXCEPT !.closing = @ /\ stray, !.browser = 0]
    /\ browser' = Closing
    /\ UNCHANGED <<user, watchdog, suspicious, history>>
CloseIdle(stray) ==
    /\ IF stray THEN strays > 0 ELSE slot.closing
    /\ strays' = IF stray THEN strays - 1 ELSE strays
    /\ LET closes == slot.refCount = 0
       IN  /\ slot' = [slot EXCEPT !.closing = @ /\ stray,
                                   !.browser = IF closes THEN 0 ELSE @]
           /\ browser' = IF closes THEN Closing ELSE browser
    /\ UNCHANGED <<user, watchdog, suspicious, history>>

\* close() settles.  When it rejects, that is only logged and nobody tries again.
Closed(b) ==
    /\ browser[b] = "closing"
    /\ browser' = [browser EXCEPT ![b] = "gone"]
    /\ UNCHANGED <<slot, strays, user, watchdog, suspicious, history>>

CloseFails(b) ==
    /\ browser[b] = "closing"
    /\ browser' = [browser EXCEPT ![b] = "running"]
    /\ unclosed' = unclosed \cup {b}
    /\ UNCHANGED <<slot, strays, user, watchdog, suspicious, crashes, forgotten>>

-----------------------------------------------------------------------------
(* Kills and crashes.                                                      *)

\* killSlot: the slot is reset, its browser told to close, and every armed acquisition counts as killed.
KillSlot ==
    /\ slot' = [browser |-> 0, refCount |-> 0, launch |-> 0, closing |-> FALSE]
    /\ browser' = Closing
    /\ watchdog' = [u \in Users |-> IF watchdog[u] = "armed" THEN "killed" ELSE watchdog[u]]
    /\ forgotten' = forgotten \cup ({slot.launch} \ {0})
    /\ UNCHANGED <<strays, user, crashes, unclosed>>

\* An acquisition was held for more than 90 s.
WatchdogFires(u) ==
    /\ watchdog[u] = "armed"
    /\ KillSlot
    /\ UNCHANGED suspicious

\* healthCheck(1000) gets no answer from the browser in time; when crawlPage
\* resumes it force-kills whatever the pool holds by then.
HealthCheckFails(c) ==
    /\ Connected
    /\ c \notin suspicious
    /\ suspicious' = suspicious \cup {c}
    /\ UNCHANGED <<slot, strays, browser, user, watchdog, history>>

ForceKill(c) ==
    /\ c \in suspicious
    /\ suspicious' = suspicious \ {c}
    /\ KillSlot

\* A browser process dies: isConnected() turns false, and nothing else happens.
Crash(b) ==
    /\ browser[b] = "running"
    /\ crashes < MaxCrashes
    /\ crashes' = crashes + 1
    /\ browser' = [browser EXCEPT ![b] = "gone"]
    /\ UNCHANGED <<slot, strays, user, watchdog, suspicious, forgotten, unclosed>>

-----------------------------------------------------------------------------

Next ==
    \/ \E u \in Users :
         \/ AcquireRunning(u)
         \/ JoinLaunch(u)
         \/ \E b \in Browsers : Launch(u, b)
         \/ Release(u)
         \/ WatchdogFires(u)
    \/ \E b \in Browsers : Launched(b) \/ LaunchFails(b) \/ Closed(b) \/ CloseFails(b) \/ Crash(b)
    \/ \E stray \in BOOLEAN : CloseIdle(stray)
    \/ \E c \in Crawls : HealthCheckFails(c) \/ ForceKill(c)

Spec == Init /\ [][Next]_vars

\* Timers fire and close() settles.  Renders owe nothing here: the properties say
\* what holds when they have all released.
FairSpec ==
    /\ Spec
    /\ \A stray \in BOOLEAN : WF_vars(CloseIdle(stray))
    /\ \A b \in Browsers : WF_vars(Closed(b) \/ CloseFails(b))

-----------------------------------------------------------------------------

Running == {b \in Browsers : browser[b] = "running"}

\* refCount is the number of acquisitions that are neither released nor killed,
\* whatever was launched, killed or lost in between.
CountsHolders == slot.refCount = Cardinality({u \in Users : watchdog[u] = "armed"})

\* A close timer, overwritten ones included, never takes the browser from a
\* render that still has it and was not killed.
IdleCloseSparesHolders ==
    [][(\E stray \in BOOLEAN : CloseIdle(stray)) =>
         \A u \in Holding : user[u].browser \in Running => user[u].browser \in Running']_vars

\* Browsers that are starting or running; one whose close() is awaited is neither.
Live == {b \in Browsers : browser[b] \in {"launching", "running"}}

\* Renders that arrive during a launch share it, and the idle timer and the kills
\* leave no browser behind: beside those being closed, only a launch that was
\* pending at a kill and a browser whose close() rejected add to the "one
\* long-lived Chromium process" of browserPool.js:4.
OneBrowser == Cardinality(Live) <= 1 + Cardinality(forgotten) + Cardinality(unclosed)

\* Browsers not closed yet.
Open == {b \in Browsers : browser[b] \in {"running", "closing"}}

AllReleased == (\A u \in Users : user[u].pc = "idle") /\ Live = Running

\* When everything is released the browser closes, whatever overwrote, cleared
\* or outlived its timer; only the launches forgotten by a kill, and closes that
\* rejected, may leave one.
PoolEmpties ==
    AllReleased ~> \/ ~AllReleased
                   \/ Cardinality(Open) <= Cardinality(forgotten) + Cardinality(unclosed)

\* browserPool.js:19, "each browser closes 30 s after its last context is
\* released": with everything released, no launch left and every close() a
\* success, no browser stays.
IdleBrowsersClose == AllReleased ~> (~AllReleased \/ Running = {} \/ unclosed # {})

=============================================================================
