-------------------------- MODULE BrowserPoolProofs --------------------------
(***************************************************************************)
(* What holds of a browser slot for every number of renders, crawls,       *)
(* launches, crashes and overwritten timers.                               *)
(***************************************************************************)
EXTENDS BrowserPool, FiniteSetTheorems, TLAPS

\* Acquisitions that are neither released nor killed.
Armed == {u \in Users : watchdog[u] = "armed"}

\* A watchdog belongs to a render that holds a browser, and that browser was
\* launched.  A killed acquisition never has the browser of the slot again.
Watched(u) ==
    /\ watchdog[u] # "none" <=> user[u].pc = "holding"
    /\ user[u].pc = "holding" =>
         user[u].browser \in Browsers /\ browser[user[u].browser] \in {"running", "closing", "gone"}
    /\ watchdog[u] = "killed" => user[u].browser # slot.browser

\* The slot never has both a connected browser and a pending launch.
Slotted ==
    /\ slot.launch # 0 => /\ browser[slot.launch] = "launching"
                          /\ slot.launch \notin forgotten
                          /\ ~Connected
    /\ slot.browser # 0 => browser[slot.browser] \in {"running", "gone"}

\* Live browsers and launches that the slot does not name.
Extra == Live \ {slot.browser, slot.launch}

\* Each came from a launch that a kill forgot, or took the place of one that did,
\* or its close() rejected, which happens to a browser at most once.
Accounted ==
    /\ \A b \in forgotten : browser[b] # "none"
    /\ \A b \in unclosed : browser[b] \in {"running", "gone"} /\ b # slot.browser
    /\ Cardinality(Extra) <= Cardinality(forgotten) + Cardinality(unclosed)

IInv == TypeOK /\ CountsHolders /\ (\A u \in Users : Watched(u)) /\ Slotted /\ Accounted

-----------------------------------------------------------------------------
(* Counting.                                                               *)

\* 0 names no browser.
LEMMA Names == 0 \notin Browsers /\ Browsers \subseteq 0..MaxBrowsers /\ 0 \in 0..MaxBrowsers
  BY PoolAssumption DEF Browsers

\* The sets that are counted are finite.
LEMMA Finite ==
    ASSUME TypeOK
    PROVE  /\ IsFiniteSet(Armed) /\ Cardinality(Armed) \in 0..Cardinality(Users)
           /\ IsFiniteSet(Live) /\ IsFiniteSet(Extra) /\ IsFiniteSet(forgotten)
           /\ IsFiniteSet(unclosed) /\ Cardinality(unclosed) \in Nat
           /\ Cardinality(Extra) \in Nat /\ Cardinality(forgotten) \in Nat
           /\ Cardinality(Users) \in Nat
<1>1. IsFiniteSet(Browsers)  BY PoolAssumption, FS_Interval DEF Browsers
<1>2. Armed \in SUBSET Users /\ Live \in SUBSET Browsers /\ Extra \in SUBSET Browsers
  BY DEF Armed, Live, Extra
<1>3. forgotten \in SUBSET Browsers /\ unclosed \in SUBSET Browsers  BY DEF TypeOK
<1>. QED  BY <1>1, <1>2, <1>3, PoolAssumption, FS_Subset, FS_CardinalityType

\* One element may take the place of another.
LEMMA Replaced ==
    ASSUME NEW S, IsFiniteSet(S), NEW b \in S, NEW x, NEW T, T \subseteq (S \ {b}) \cup {x}
    PROVE  Cardinality(T) <= Cardinality(S) /\ Cardinality(T) \in Nat
<1>1. IsFiniteSet(S \ {b}) /\ Cardinality(S \ {b}) = Cardinality(S) - 1  BY FS_RemoveElement
<1>2. Cardinality(S) \in Nat /\ Cardinality(S \ {b}) \in Nat  BY <1>1, FS_CardinalityType
<1>3. ASSUME NEW R, IsFiniteSet(R), T \subseteq R \cup {x}
      PROVE  Cardinality(T) <= Cardinality(R) + 1 /\ Cardinality(T) \in Nat
  <2>1. /\ IsFiniteSet(R \cup {x})
        /\ Cardinality(R \cup {x}) = IF x \in R THEN Cardinality(R) ELSE Cardinality(R) + 1
    BY <1>3, FS_AddElement
  <2>2. Cardinality(T) <= Cardinality(R \cup {x}) /\ IsFiniteSet(T)
    BY <1>3, <2>1, FS_Subset
  <2>. QED  BY <1>3, <2>1, <2>2, FS_CardinalityType
<1>. QED  BY <1>1, <1>2, <1>3

\* What the slot does not name was accounted for, if nothing was added to it.
LEMMA NoneAdded ==
    ASSUME IInv, Extra' \subseteq Extra, forgotten' = forgotten, unclosed' = unclosed
    PROVE  Cardinality(Extra)' <= Cardinality(forgotten') + Cardinality(unclosed')
<1>1. Cardinality(Extra') <= Cardinality(Extra)  BY Finite, FS_Subset DEF IInv
<1>2. IsFiniteSet(Extra')  BY Finite, FS_Subset DEF IInv
<1>. QED  BY <1>1, <1>2, Finite, FS_CardinalityType DEF IInv, Accounted

\* One more than what the slot does not name.
LEMMA AddedOne ==
    ASSUME IInv, NEW b, Extra' \subseteq Extra \cup {b}
    PROVE  Cardinality(Extra') <= Cardinality(Extra) + 1 /\ Cardinality(Extra') \in Nat
<1>1. /\ IsFiniteSet(Extra \cup {b})
      /\ Cardinality(Extra \cup {b}) = IF b \in Extra THEN Cardinality(Extra) ELSE Cardinality(Extra) + 1
  BY Finite, FS_AddElement DEF IInv
<1>2. IsFiniteSet(Extra') /\ Cardinality(Extra') <= Cardinality(Extra \cup {b})
  BY <1>1, FS_Subset
<1>3. Cardinality(Extra') \in Nat  BY <1>2, FS_CardinalityType
<1>. QED  BY <1>1, <1>2, <1>3, Finite DEF IInv

\* A slot that is emptied leaves its browser closing, or gone.
LEMMA ClosedAccounted ==
    ASSUME IInv, browser' = Closing, slot'.browser = 0, slot'.launch = slot.launch,
           forgotten' = forgotten, unclosed' = unclosed
    PROVE  Accounted'
<1>1. Extra' \subseteq Extra  BY Names DEF Closing, IInv, TypeOK, Slotted, Extra, Live
<1>2. \A b \in forgotten' : browser'[b] # "none"
  BY DEF Closing, IInv, TypeOK, Accounted
<1>3. \A b \in unclosed' : browser'[b] \in {"running", "gone"} /\ b # slot'.browser
  BY Names DEF Closing, IInv, TypeOK, Accounted
<1>4. Cardinality(Extra') <= Cardinality(forgotten') + Cardinality(unclosed')
  BY <1>1, NoneAdded
<1>. QED  BY <1>2, <1>3, <1>4 DEF Accounted

\* Steps that arm one more acquisition, or end one.
LEMMA ArmedOneMore ==
    ASSUME IInv, NEW u \in Users, watchdog[u] = "none",
           watchdog' = [watchdog EXCEPT ![u] = "armed"]
    PROVE  Cardinality(Armed') = Cardinality(Armed) + 1
<1>1. Armed' = Armed \cup {u} /\ u \notin Armed  BY DEF Armed, IInv, TypeOK
<1>. QED  BY <1>1, Finite, FS_AddElement DEF IInv

\* When the armed users are one less, so is their number.
LEMMA ArmedOneLess ==
    ASSUME IInv, NEW u \in Users, watchdog[u] = "armed",
           watchdog' = [watchdog EXCEPT ![u] = "none"]
    PROVE  Cardinality(Armed') = Cardinality(Armed) - 1 /\ Cardinality(Armed) >= 1
<1>1. Armed' = Armed \ {u} /\ u \in Armed  BY DEF Armed, IInv, TypeOK
<1>2. Cardinality(Armed') = Cardinality(Armed) - 1  BY <1>1, Finite, FS_RemoveElement DEF IInv
<1>3. Cardinality(Armed) # 0  BY <1>1, Finite, FS_EmptySet DEF IInv
<1>. QED  BY <1>2, <1>3, Finite DEF IInv

\* The count of the slot is the number of armed acquisitions.
LEMMA CountIsArmed == CountsHolders <=> slot.refCount = Cardinality(Armed)
  BY DEF CountsHolders, Armed

\* A count that is right has its type.
LEMMA Typed ==
    ASSUME CountsHolders', PoolAssumption, IsFiniteSet(Armed'),
           Armed' \subseteq Users
    PROVE  slot'.refCount \in 0..Cardinality(Users)
  BY FS_Subset, FS_CardinalityType DEF CountsHolders, Armed

-----------------------------------------------------------------------------
(* acquireBrowser.                                                         *)

\* AcquireRunning keeps the invariant.
LEMMA AcquireRunningKeeps == ASSUME IInv, NEW u \in Users, AcquireRunning(u) PROVE IInv'
<1>1. watchdog[u] = "none"  BY DEF AcquireRunning, IInv, Watched
<1>2. Cardinality(Armed') = Cardinality(Armed) + 1  BY <1>1, ArmedOneMore DEF AcquireRunning
<1>3. CountsHolders'  BY <1>2, CountIsArmed, Finite DEF AcquireRunning, IInv, TypeOK, CountsHolders, Armed
<1>4. Armed' \in SUBSET Users /\ IsFiniteSet(Armed')
  BY PoolAssumption, FS_Subset DEF Armed
<1>5. slot.browser \in Browsers  BY PoolAssumption DEF AcquireRunning, Connected, IInv, TypeOK, Browsers
<1>6. TypeOK'  BY <1>3, <1>4, <1>5, Typed, PoolAssumption DEF AcquireRunning, IInv, TypeOK, history, Browsers
<1>7. \A q \in Users : Watched(q)'  BY <1>1, <1>5 DEF AcquireRunning, IInv, TypeOK, Watched, Connected
<1>8. Slotted'  BY DEF AcquireRunning, IInv, TypeOK, Slotted, Connected, history
<1>9. Accounted'
  <2>1. Extra' = Extra /\ forgotten' = forgotten /\ unclosed' = unclosed
    BY DEF AcquireRunning, IInv, TypeOK, Extra, Live, history
  <2>. QED  BY <2>1, NoneAdded DEF AcquireRunning, IInv, Accounted
<1>. QED  BY <1>3, <1>6, <1>7, <1>8, <1>9 DEF IInv

\* JoinLaunch keeps the invariant.
LEMMA JoinLaunchKeeps == ASSUME IInv, NEW u \in Users, JoinLaunch(u) PROVE IInv'
<1>1. TypeOK'  BY DEF JoinLaunch, IInv, TypeOK, history
<1>2. CountsHolders'  BY DEF JoinLaunch, IInv, TypeOK, CountsHolders
<1>3. \A q \in Users : Watched(q)'  BY DEF JoinLaunch, IInv, TypeOK, Watched
<1>4. Slotted'  BY DEF JoinLaunch, IInv, TypeOK, Slotted, Connected, history
<1>5. Accounted'
  <2>1. Extra' = Extra /\ forgotten' = forgotten /\ unclosed' = unclosed
    BY DEF JoinLaunch, IInv, TypeOK, Extra, Live, history
  <2>. QED  BY <2>1, NoneAdded DEF JoinLaunch, IInv, Accounted
<1>. QED  BY <1>1, <1>2, <1>3, <1>4, <1>5 DEF IInv

\* Launch keeps the invariant: the new browser is the one the slot names.
LEMMA LaunchKeeps ==
    ASSUME IInv, NEW u \in Users, NEW b \in Browsers, Launch(u, b) PROVE IInv'
<1>0. browser[b] = "none" /\ b # 0  BY PoolAssumption DEF Launch, Browsers
<1>1. TypeOK'  BY Names DEF Launch, IInv, TypeOK, history
<1>2. CountsHolders'  BY DEF Launch, IInv, TypeOK, CountsHolders
<1>3. \A q \in Users : Watched(q)'  BY <1>0 DEF Launch, IInv, TypeOK, Watched
<1>4. Slotted'
  BY <1>0 DEF Launch, IInv, TypeOK, Slotted, Accounted, Connected, history
<1>5. Accounted'
  <2>1. Extra' \subseteq Extra /\ forgotten' = forgotten /\ unclosed' = unclosed
    BY <1>0, Names DEF Launch, IInv, TypeOK, Extra, Live, history
  <2>. QED  BY <2>1, <1>0, NoneAdded DEF Launch, IInv, TypeOK, Accounted, history
<1>. QED  BY <1>1, <1>2, <1>3, <1>4, <1>5 DEF IInv

\* A launch settles.  Of the browser, the launch that was pending and the settled
\* launch, one takes the place of another among what the slot does not name.
LEMMA Settles ==
    ASSUME IInv, NEW b \in Browsers, browser[b] = "launching",
           NEW s \in {"running", "gone"}, browser' = [browser EXCEPT ![b] = s],
           slot'.launch = 0,
           slot'.browser = IF s = "running" THEN b ELSE slot.browser,
           forgotten' = forgotten, unclosed' = unclosed
    PROVE  Cardinality(Extra') <= Cardinality(forgotten') + Cardinality(unclosed')
<1>0. b # 0 /\ b \in Live /\ b # slot.browser  BY PoolAssumption DEF IInv, Slotted, Live, Browsers
<1>1. b \notin Extra'  BY <1>0 DEF Extra, Live, IInv, TypeOK
<1>2. Live' \subseteq Live  BY <1>0 DEF Live, IInv, TypeOK
<1>3. CASE b = slot.launch
  <2>1. slot.browser \notin Live  BY <1>0, <1>3, Names DEF IInv, Slotted, Connected, Live
  <2>2. Extra' \subseteq Extra  BY <1>1, <1>2, <1>3, <2>1 DEF Extra
  <2>. QED  BY <2>2, NoneAdded
<1>4. CASE b # slot.launch
  <2>1. b \in Extra  BY <1>0, <1>4 DEF Extra
  <2>4. Cardinality(Extra) <= Cardinality(forgotten) + Cardinality(unclosed)
    BY DEF IInv, Accounted
  <2>5. ASSUME NEW x, Extra' \subseteq (Extra \ {b}) \cup {x}
        PROVE  Cardinality(Extra') <= Cardinality(forgotten') + Cardinality(unclosed')
    <3>1. Cardinality(Extra') <= Cardinality(Extra) /\ Cardinality(Extra') \in Nat
      BY <2>1, <2>5, Finite, Replaced DEF IInv
    <3>. QED  BY <2>4, <3>1, Finite DEF IInv
  <2>2. CASE slot.launch = 0
    <3>1. Extra' \subseteq (Extra \ {b}) \cup {slot.browser}  BY <1>1, <1>2, <2>2 DEF Extra, Live, Browsers
    <3>. QED  BY <2>5, <3>1
  <2>3. CASE slot.launch # 0
    <3>1. slot.browser \notin Live  BY <2>3, Names DEF IInv, Slotted, Connected, Live
    <3>2. Extra' \subseteq (Extra \ {b}) \cup {slot.launch}  BY <1>1, <1>2, <3>1 DEF Extra
    <3>. QED  BY <2>5, <3>2
  <2>. QED  BY <2>2, <2>3
<1>. QED  BY <1>3, <1>4

\* Launched keeps the invariant: those who waited hold the browser now.
LEMMA LaunchedKeeps == ASSUME IInv, NEW b \in Browsers, Launched(b) PROVE IInv'
<1>0. b # 0 /\ b # slot.browser  BY PoolAssumption DEF IInv, Slotted, Browsers, Launched
<1>1. \A u \in Waiting(b) : watchdog[u] = "none"  BY DEF IInv, Watched, Waiting
<1>2. Armed' = Armed \cup Waiting(b) /\ Armed \cap Waiting(b) = {}
  BY <1>1 DEF Armed, Launched, Waiting
<1>3. CountsHolders'
  <2>1. Waiting(b) \in SUBSET Users  BY DEF Waiting
  <2>2. IsFiniteSet(Waiting(b)) /\ Cardinality(Waiting(b)) \in Nat
    BY <2>1, PoolAssumption, FS_Subset, FS_CardinalityType
  <2>3. Cardinality(Armed') = Cardinality(Armed) + Cardinality(Waiting(b))
    <3>1. Cardinality(Armed \cup Waiting(b)) =
            Cardinality(Armed) + Cardinality(Waiting(b)) - Cardinality(Armed \cap Waiting(b))
      BY <2>2, Finite, FS_Union DEF IInv
    <3>2. Cardinality(Armed \cap Waiting(b)) = 0  BY <1>2, FS_EmptySet
    <3>. QED  BY <1>2, <2>2, <3>1, <3>2, Finite DEF IInv
  <2>4. slot'.refCount = slot.refCount + Cardinality(Waiting(b))  BY DEF Launched, IInv, TypeOK
  <2>. QED  BY <2>3, <2>4, CountIsArmed DEF IInv, CountsHolders, Armed
<1>4. TypeOK'
  <2>1. Armed' \in SUBSET Users /\ IsFiniteSet(Armed')  BY PoolAssumption, FS_Subset DEF Armed
  <2>2. slot'.refCount \in 0..Cardinality(Users)  BY <1>3, <2>1, Typed, PoolAssumption
  <2>. DEFINE count == slot.refCount + Cardinality(Waiting(b))
  <2>3. slot' = [slot EXCEPT !.browser = b, !.launch = 0, !.refCount = count]
    BY DEF Launched, IInv, TypeOK
  <2>4. count \in 0..Cardinality(Users)  BY <2>2, <2>3 DEF IInv, TypeOK
  <2>. HIDE DEF count
  <2>5. slot' \in [browser : 0..MaxBrowsers, refCount : 0..Cardinality(Users), launch : 0..MaxBrowsers, closing : BOOLEAN]
    BY <2>3, <2>4, Names DEF IInv, TypeOK
  <2>. QED  BY <2>5, Names DEF Launched, IInv, TypeOK, history
<1>5. ASSUME NEW u \in Users PROVE Watched(u)'
  <2>1. CASE u \in Waiting(b)  BY <2>1 DEF Launched, IInv, TypeOK, Watched
  <2>2. CASE u \notin Waiting(b)
    BY <1>0, <2>2 DEF Launched, IInv, TypeOK, Watched
  <2>. QED  BY <2>1, <2>2
<1>6. Slotted'  BY <1>0 DEF Launched, IInv, TypeOK, Slotted
<1>7. Accounted'
  <2>1. slot'.launch = 0 /\ slot'.browser = b  BY DEF Launched, IInv, TypeOK
  <2>2. Cardinality(Extra') <= Cardinality(forgotten') + Cardinality(unclosed')
    BY <2>1, Settles DEF Launched, history
  <2>. QED  BY <2>2 DEF Launched, IInv, TypeOK, Accounted, history
<1>. QED  BY <1>3, <1>4, <1>5, <1>6, <1>7 DEF IInv

\* LaunchFails keeps the invariant.
LEMMA LaunchFailsKeeps == ASSUME IInv, NEW b \in Browsers, LaunchFails(b) PROVE IInv'
<1>0. b # 0 /\ b # slot.browser  BY PoolAssumption DEF IInv, Slotted, Browsers, LaunchFails
<1>1. TypeOK'  BY PoolAssumption DEF LaunchFails, IInv, TypeOK, history, Idle, Waiting
<1>2. CountsHolders'  BY DEF LaunchFails, IInv, TypeOK, CountsHolders
<1>3. ASSUME NEW u \in Users PROVE Watched(u)'
    <2>1. CASE u \in Waiting(b)
    BY <1>0, <2>1 DEF LaunchFails, IInv, TypeOK, Watched, Waiting, Idle
  <2>2. CASE u \notin Waiting(b)
    BY <1>0, <2>2 DEF LaunchFails, IInv, TypeOK, Watched
  <2>. QED  BY <2>1, <2>2
<1>4. Slotted'  BY <1>0 DEF LaunchFails, IInv, TypeOK, Slotted
<1>5. Accounted'
  <2>1. slot'.launch = 0 /\ slot'.browser = slot.browser  BY DEF LaunchFails, IInv, TypeOK
  <2>2. Cardinality(Extra') <= Cardinality(forgotten') + Cardinality(unclosed')
    BY <2>1, Settles DEF LaunchFails, history
  <2>. QED  BY <2>2 DEF LaunchFails, IInv, TypeOK, Accounted, history
<1>. QED  BY <1>1, <1>2, <1>3, <1>4, <1>5 DEF IInv

-----------------------------------------------------------------------------
(* releaseBrowser and the timer.                                           *)

\* What CountDown does to the slot.
LEMMA CountedDown ==
    ASSUME TypeOK, CountDown
    PROVE  \E n \in 0..Cardinality(Users), c \in BOOLEAN :
             /\ slot' = [slot EXCEPT !.refCount = n, !.closing = c]
             /\ slot.refCount > 0 => n = slot.refCount - 1
             /\ strays' \in 0..MaxStrays
<1>. DEFINE n == IF slot.refCount > 0 THEN slot.refCount - 1 ELSE 0
<1>1. n \in 0..Cardinality(Users) /\ (slot.refCount > 0 => n = slot.refCount - 1)
  BY Finite DEF TypeOK
<1>2. \/ slot' = [slot EXCEPT !.refCount = n] /\ strays' = strays
      \/ /\ slot' = [slot EXCEPT !.refCount = n, !.closing = TRUE]
         /\ strays' \in {strays, strays + 1} /\ strays' <= MaxStrays
  BY DEF CountDown
<1>. HIDE DEF n
<1>3. strays' \in 0..MaxStrays  BY <1>2, PoolAssumption DEF TypeOK
<1>4. PICK c \in BOOLEAN : slot' = [slot EXCEPT !.refCount = n, !.closing = c]
  <2>1. CASE slot' = [slot EXCEPT !.refCount = n]
    <3>1. slot' = [slot EXCEPT !.refCount = n, !.closing = slot.closing]  BY <2>1 DEF TypeOK
    <3>. QED  BY <3>1 DEF TypeOK
  <2>. QED  BY <1>2, <2>1
<1>. QED  BY <1>1, <1>3, <1>4

\* Release keeps the invariant: an armed acquisition is one the slot counted, so
\* the count never has to be kept from going below zero.
LEMMA ReleaseKeeps == ASSUME IInv, NEW u \in Users, Release(u) PROVE IInv'
<1>0. watchdog[u] \in {"armed", "killed"}
  BY DEF Release, Holding, IInv, Watched, TypeOK
<1>1. PICK n \in 0..Cardinality(Users), c \in BOOLEAN :
        /\ slot' = [slot EXCEPT !.refCount = n, !.closing = c]
        /\ watchdog[u] = "armed" /\ slot.refCount > 0 => n = slot.refCount - 1
        /\ watchdog[u] = "killed" => n = slot.refCount
        /\ strays' \in 0..MaxStrays
  <2>1. CASE watchdog[u] = "killed"
    <3>1. slot' = [slot EXCEPT !.refCount = slot.refCount, !.closing = slot.closing]
      BY <2>1 DEF Release, IInv, TypeOK
    <3>. QED  BY <2>1, <3>1 DEF Release, IInv, TypeOK
  <2>2. CASE watchdog[u] = "armed"  BY <2>2, CountedDown DEF Release, IInv
  <2>. QED  BY <1>0, <2>1, <2>2
<1>2. slot'.browser = slot.browser /\ slot'.launch = slot.launch /\ slot'.refCount = n
  BY <1>1 DEF IInv, TypeOK
<1>3. CountsHolders'
  <2>1. CASE watchdog[u] = "killed"
    <3>1. Armed' = Armed  BY <2>1 DEF Release, Armed, IInv, TypeOK
    <3>. QED  BY <1>1, <1>2, <2>1, <3>1, CountIsArmed DEF IInv, CountsHolders, Armed
  <2>2. CASE watchdog[u] = "armed"
    <3>1. Cardinality(Armed') = Cardinality(Armed) - 1 /\ Cardinality(Armed) >= 1
      BY <2>2, ArmedOneLess DEF Release
    <3>2. slot.refCount = Cardinality(Armed) /\ Cardinality(Armed) \in Nat
      BY CountIsArmed, Finite DEF IInv
    <3>3. n = slot.refCount - 1  BY <1>1, <2>2, <3>1, <3>2
    <3>. QED  BY <1>2, <3>1, <3>2, <3>3 DEF CountsHolders, Armed
  <2>. QED  BY <1>0, <2>1, <2>2
<1>4. TypeOK'  BY <1>1, Names DEF Release, IInv, TypeOK, history, Idle
<1>5. \A q \in Users : Watched(q)'  BY <1>2 DEF Release, IInv, TypeOK, Watched, Idle
<1>6. Slotted'  BY <1>2 DEF Release, IInv, Slotted, Connected, history
<1>7. Accounted'
  <2>1. Extra' = Extra /\ forgotten' = forgotten /\ unclosed' = unclosed  BY <1>2 DEF Release, Extra, Live, history
  <2>. QED  BY <1>2, <2>1, NoneAdded DEF Release, IInv, Accounted
<1>. QED  BY <1>3, <1>4, <1>5, <1>6, <1>7 DEF IInv

\* What it means that close() of the slot's browser is called.
LEMMA Closes ==
    ASSUME IInv, browser' = Closing
    PROVE  /\ browser' \in [Browsers -> {"none", "launching", "running", "closing", "gone"}]
           /\ \A b \in Browsers : b # slot.browser => browser'[b] = browser[b]
           /\ slot.browser # 0 => browser'[slot.browser] \in {"closing", "gone"}
<1>1. slot.browser # 0 => slot.browser \in Browsers  BY DEF IInv, TypeOK, Browsers
<1>2. slot.browser # 0 => browser[slot.browser] \in {"running", "gone"}  BY DEF IInv, Slotted
<1>. QED  BY <1>1, <1>2, Names DEF Closing, IInv, TypeOK

\* CloseIdle keeps the invariant.
LEMMA CloseIdleKeeps == ASSUME IInv, NEW stray \in BOOLEAN, CloseIdle(stray) PROVE IInv'
<1>. DEFINE closes == slot.refCount = 0
<1>0. /\ slot'.refCount = slot.refCount /\ slot'.launch = slot.launch
      /\ slot'.browser = IF closes THEN 0 ELSE slot.browser
      /\ browser' = IF closes THEN Closing ELSE browser
      /\ UNCHANGED <<user, watchdog, suspicious, crashes, forgotten, unclosed>>
  BY DEF CloseIdle, IInv, TypeOK, history
<1>1. TypeOK'
  <2>1. slot' \in [browser : 0..MaxBrowsers, refCount : 0..Cardinality(Users), launch : 0..MaxBrowsers, closing : BOOLEAN]
    BY Names DEF CloseIdle, IInv, TypeOK
  <2>2. strays' \in 0..MaxStrays  BY PoolAssumption DEF CloseIdle, IInv, TypeOK
  <2>3. browser' \in [Browsers -> {"none", "launching", "running", "closing", "gone"}]
    BY <1>0, Closes DEF IInv, TypeOK
  <2>. QED  BY <1>0, <2>1, <2>2, <2>3 DEF IInv, TypeOK
<1>2. CountsHolders'  BY <1>0 DEF IInv, CountsHolders
<1>3. CASE ~closes
  <2>1. Extra' = Extra  BY <1>0, <1>3 DEF Extra, Live
  <2>2. Accounted'  BY <1>0, <1>3, <2>1 DEF IInv, Accounted
  <2>. QED  BY <1>0, <1>1, <1>2, <1>3, <2>2 DEF IInv, Watched, Slotted, Connected
<1>4. CASE closes
  <2>0. /\ slot'.browser = 0 /\ slot'.launch = slot.launch /\ forgotten' = forgotten
        /\ unclosed' = unclosed /\ browser' = Closing
    BY <1>0, <1>4
  <2>1. \A q \in Users : Watched(q)'  BY <1>0, <2>0, Closes, Names DEF IInv, TypeOK, Watched
  <2>2. Slotted'
    <3>1. slot.launch # 0 => slot.launch \in Browsers /\ slot.launch # slot.browser
      BY DEF IInv, TypeOK, Slotted, Browsers
    <3>. QED  BY <2>0, <3>1, Closes DEF IInv, Slotted, Connected
  <2>3. Accounted'  BY <2>0, ClosedAccounted
  <2>. QED  BY <1>1, <1>2, <2>1, <2>2, <2>3 DEF IInv
<1>. QED  BY <1>3, <1>4

\* One browser's change keeps what is said of the others, when it is not the slot's.
LEMMA OtherChanges ==
    ASSUME IInv, NEW b \in Browsers, browser[b] = "closing", NEW s \in {"running", "gone"},
           browser' = [browser EXCEPT ![b] = s],
           UNCHANGED <<slot, strays, user, watchdog, suspicious, crashes, forgotten>>,
           unclosed' \in SUBSET Browsers
    PROVE  /\ TypeOK' /\ CountsHolders' /\ (\A u \in Users : Watched(u))' /\ Slotted'
           /\ b # slot.browser /\ b # slot.launch /\ b \notin unclosed /\ b \notin Live
<1>1. TypeOK'  BY DEF IInv, TypeOK
<1>2. CountsHolders'  BY DEF IInv, CountsHolders
<1>3. \A u \in Users : Watched(u)'  BY DEF IInv, TypeOK, Watched
<1>4. b # 0 /\ b # slot.browser /\ b # slot.launch /\ b \notin unclosed /\ b \notin Live
  BY Names DEF IInv, Slotted, Accounted, Live
<1>5. Slotted'  BY <1>4 DEF IInv, TypeOK, Slotted, Connected
<1>. QED  BY <1>1, <1>2, <1>3, <1>4, <1>5

\* A close() that succeeds keeps the invariant.
LEMMA ClosedKeeps == ASSUME IInv, NEW b \in Browsers, Closed(b) PROVE IInv'
<1>1. TypeOK' /\ CountsHolders' /\ (\A u \in Users : Watched(u))' /\ Slotted'
  BY OtherChanges DEF Closed, history, IInv, TypeOK
<1>2. Extra' \subseteq Extra /\ forgotten' = forgotten /\ unclosed' = unclosed
  BY DEF Closed, history, IInv, TypeOK, Extra, Live
<1>3. Accounted'  BY <1>2, NoneAdded DEF Closed, IInv, TypeOK, Accounted
<1>. QED  BY <1>1, <1>3 DEF IInv

\* A close() that rejects leaves one more browser, and is counted.
LEMMA CloseFailsKeeps == ASSUME IInv, NEW b \in Browsers, CloseFails(b) PROVE IInv'
<1>1. /\ TypeOK' /\ CountsHolders' /\ (\A u \in Users : Watched(u))' /\ Slotted'
      /\ b # slot.browser /\ b \notin unclosed
  BY OtherChanges DEF CloseFails, IInv, TypeOK
<1>2. unclosed' = unclosed \cup {b} /\ forgotten' = forgotten /\ slot' = slot
  BY DEF CloseFails
<1>3. Cardinality(unclosed') = Cardinality(unclosed) + 1
  BY <1>1, <1>2, Finite, FS_AddElement DEF IInv
<1>4. Extra' \subseteq Extra \cup {b}  BY DEF CloseFails, IInv, TypeOK, Extra, Live
<1>5. Cardinality(Extra') <= Cardinality(Extra) + 1  BY <1>4, AddedOne
<1>6. Cardinality(Extra') <= Cardinality(forgotten') + Cardinality(unclosed')
  <2>1. IsFiniteSet(Extra') /\ Cardinality(Extra') \in Nat
    BY <1>4, Finite, FS_AddElement, FS_Subset, FS_CardinalityType DEF IInv
  <2>2. Cardinality(Extra) <= Cardinality(forgotten) + Cardinality(unclosed)
    BY DEF IInv, Accounted
  <2>. QED  BY <1>2, <1>3, <1>5, <2>1, <2>2, Finite DEF IInv
<1>7. Accounted'
  BY <1>1, <1>2, <1>6 DEF CloseFails, IInv, TypeOK, Accounted
<1>. QED  BY <1>1, <1>7 DEF IInv

-----------------------------------------------------------------------------
(* Kills and crashes.                                                      *)

\* A kill keeps the invariant: the launch it forgets is the one it leaves behind.
LEMMA KillSlotKeeps ==
    ASSUME IInv, KillSlot, suspicious' \in SUBSET Crawls PROVE IInv'
<1>0. slot'.refCount = 0 /\ slot'.browser = 0 /\ slot'.launch = 0  BY DEF KillSlot
<1>1. Armed' = {}  BY DEF KillSlot, Armed, IInv, TypeOK
<1>2. CountsHolders'  BY <1>0, <1>1, FS_EmptySet DEF CountsHolders, Armed
<1>3. TypeOK'
  <2>1. 0 \in 0..Cardinality(Users)  BY Finite DEF IInv
  <2>2. slot' \in [browser : 0..MaxBrowsers, refCount : 0..Cardinality(Users), launch : 0..MaxBrowsers, closing : BOOLEAN]
    BY <2>1, Names DEF KillSlot
  <2>3. slot.launch # 0 => slot.launch \in Browsers  BY PoolAssumption DEF IInv, TypeOK, Browsers
  <2>4. forgotten' \in SUBSET Browsers  BY <2>3 DEF KillSlot, IInv, TypeOK
  <2>5. browser' \in [Browsers -> {"none", "launching", "running", "closing", "gone"}]
    BY Closes DEF KillSlot
  <2>. QED  BY <2>2, <2>4, <2>5 DEF KillSlot, IInv, TypeOK
<1>4. \A q \in Users : Watched(q)'
  BY <1>0, Names, Closes DEF KillSlot, IInv, TypeOK, Watched
<1>5. Slotted'  BY <1>0 DEF Slotted
<1>6. Accounted'
  <2>1. \A b \in forgotten' : browser'[b] # "none"
    BY DEF KillSlot, Closing, IInv, TypeOK, Accounted, Slotted, Browsers
  <2>0. \A b \in unclosed' : browser'[b] \in {"running", "gone"} /\ b # slot'.browser
    BY <1>0, Names DEF KillSlot, Closing, IInv, TypeOK, Accounted
  <2>2. Live' \subseteq Live \ {slot.browser}
    BY DEF KillSlot, Closing, Live, IInv, TypeOK, Slotted, Browsers
  <2>3. CASE slot.launch = 0
    <3>1. Extra' \subseteq Extra  BY <1>0, <2>2, <2>3, Names DEF Extra, Live
    <3>2. forgotten' = forgotten /\ unclosed' = unclosed  BY <2>3 DEF KillSlot
    <3>. QED  BY <2>0, <2>1, <3>1, <3>2, NoneAdded DEF Accounted
  <2>4. CASE slot.launch # 0
    <3>1. forgotten' = forgotten \cup {slot.launch} /\ slot.launch \notin forgotten
          /\ unclosed' = unclosed
      BY <2>4 DEF KillSlot, IInv, Slotted
    <3>2. Cardinality(forgotten') = Cardinality(forgotten) + 1
      BY <3>1, Finite, FS_AddElement DEF IInv
    <3>3. Extra' \subseteq Extra \cup {slot.launch}  BY <2>2 DEF Extra
    <3>4. Cardinality(Extra') <= Cardinality(Extra) + 1 /\ Cardinality(Extra') \in Nat
      BY <3>3, AddedOne
    <3>5. Cardinality(Extra) <= Cardinality(forgotten) + Cardinality(unclosed)
      BY DEF IInv, Accounted
    <3>6. Cardinality(Extra') <= Cardinality(forgotten') + Cardinality(unclosed')
      BY <3>1, <3>2, <3>4, <3>5, Finite DEF IInv
    <3>. QED  BY <2>0, <2>1, <3>6 DEF Accounted
  <2>. QED  BY <2>3, <2>4
<1>. QED  BY <1>2, <1>3, <1>4, <1>5, <1>6 DEF IInv

\* HealthCheckFails keeps the invariant: it only notes the suspicion.
LEMMA HealthCheckFailsKeeps == ASSUME IInv, NEW c \in Crawls, HealthCheckFails(c) PROVE IInv'
<1>1. TypeOK'  BY DEF HealthCheckFails, IInv, TypeOK, history
<1>2. Extra' = Extra /\ forgotten' = forgotten /\ unclosed' = unclosed  BY DEF HealthCheckFails, Extra, Live, history
<1>. QED
  BY <1>1, <1>2 DEF HealthCheckFails, IInv, CountsHolders, Watched, Slotted, Connected, Accounted, history

\* Crash keeps the invariant.
LEMMA CrashKeeps == ASSUME IInv, NEW b \in Browsers, Crash(b) PROVE IInv'
<1>1. TypeOK'  BY PoolAssumption DEF Crash, IInv, TypeOK
<1>2. CountsHolders'  BY DEF Crash, IInv, CountsHolders
<1>3. \A q \in Users : Watched(q)'  BY DEF Crash, IInv, TypeOK, Watched
<1>4. Slotted'  BY Names DEF Crash, IInv, TypeOK, Slotted, Connected
<1>5. Accounted'
  <2>1. Extra' \subseteq Extra /\ forgotten' = forgotten /\ unclosed' = unclosed
    BY DEF Crash, IInv, TypeOK, Extra, Live
  <2>. QED  BY <2>1, NoneAdded DEF Crash, IInv, TypeOK, Accounted
<1>. QED  BY <1>1, <1>2, <1>3, <1>4, <1>5 DEF IInv

-----------------------------------------------------------------------------

\* The invariant holds at first.
LEMMA InitHolds == ASSUME Init PROVE IInv
<1>1. Armed = {} /\ Live = {} /\ Extra = {}  BY DEF Init, Armed, Live, Extra
<1>2. TypeOK
  <2>1. 0 \in 0..Cardinality(Users)  BY PoolAssumption, FS_CardinalityType
  <2>. QED  BY <2>1, Names, PoolAssumption DEF Init, TypeOK, Idle
<1>3. CountsHolders  BY <1>1, FS_EmptySet DEF Init, CountsHolders, Armed
<1>4. Accounted  BY <1>1, FS_EmptySet DEF Init, Accounted
<1>. QED  BY <1>2, <1>3, <1>4 DEF Init, IInv, Watched, Slotted, Idle

\* Every step keeps the invariant.
LEMMA StepKeeps == ASSUME IInv, [Next]_vars PROVE IInv'
<1>1. ASSUME NEW u \in Users, WatchdogFires(u) PROVE IInv'
  BY <1>1, KillSlotKeeps DEF WatchdogFires, IInv, TypeOK
<1>2. ASSUME NEW c \in Crawls, ForceKill(c) PROVE IInv'
  BY <1>2, KillSlotKeeps DEF ForceKill, IInv, TypeOK
<1>3. CASE UNCHANGED vars
  <2>1. Extra' = Extra /\ forgotten' = forgotten /\ unclosed' = unclosed  BY <1>3 DEF vars, Extra, Live, history
  <2>. QED
    BY <1>3, <2>1 DEF vars, history, IInv, TypeOK, CountsHolders, Watched, Slotted, Connected, Accounted
<1>. QED
  BY <1>1, <1>2, <1>3, AcquireRunningKeeps, JoinLaunchKeeps, LaunchKeeps, ReleaseKeeps,
     LaunchedKeeps, LaunchFailsKeeps, CrashKeeps, CloseIdleKeeps, HealthCheckFailsKeeps,
     ClosedKeeps, CloseFailsKeeps
     DEF Next

\* The invariant always holds.
THEOREM Invariance == Spec => []IInv
<1>1. Init => IInv  BY InitHolds
<1>2. IInv /\ [Next]_vars => IInv'  BY StepKeeps
<1>. QED  BY <1>1, <1>2, PTL DEF Spec

\* Every variable keeps its type; in particular refCount stays between zero and
\* the number of renders (browserPool.js).
THEOREM TypeCorrect == Spec => []TypeOK
<1>1. IInv => TypeOK  BY DEF IInv
<1>. QED  BY <1>1, Invariance, PTL

\* refCount is the number of acquisitions neither released nor killed, whatever was
\* launched, killed or lost in between (acquireBrowser, releaseBrowser, killSlot).
THEOREM CountIsRight == Spec => []CountsHolders
<1>1. IInv => CountsHolders  BY DEF IInv
<1>. QED  BY <1>1, Invariance, PTL

\* Beside the browsers whose close() is awaited, only a launch that a kill forgot
\* and a browser whose close() rejected add to the one of the slot (launchPromise in
\* acquireBrowser, killSlot, the timer of releaseBrowser).
THEOREM BrowserIsShared == Spec => []OneBrowser
<1>1. ASSUME IInv PROVE OneBrowser
  <2>1. slot.launch # 0 => slot.browser \notin Live
    BY <1>1, Names DEF IInv, Slotted, Connected, Live
  <2>2. PICK x : Live \subseteq Extra \cup {x}  BY <2>1, Names DEF Extra, Live
  <2>3. IsFiniteSet(Extra \cup {x})
        /\ Cardinality(Extra \cup {x}) = IF x \in Extra THEN Cardinality(Extra) ELSE Cardinality(Extra) + 1
    BY <1>1, Finite, FS_AddElement DEF IInv
  <2>4. IsFiniteSet(Live) /\ Cardinality(Live) <= Cardinality(Extra \cup {x})
    BY <2>2, <2>3, FS_Subset
  <2>5. Cardinality(Live) \in Nat  BY <2>4, FS_CardinalityType
  <2>6. Cardinality(Extra) <= Cardinality(forgotten) + Cardinality(unclosed)
    BY <1>1 DEF IInv, Accounted
  <2>. QED  BY <1>1, <2>3, <2>4, <2>5, <2>6, Finite DEF IInv, OneBrowser
<1>. QED  BY <1>1, Invariance, PTL

\* A close timer, overwritten ones included, takes no browser from a render that
\* still has it and was not killed (the timer of releaseBrowser).
THEOREM TimersSpareHolders == Spec => IdleCloseSparesHolders
<1>1. ASSUME IInv, NEW stray \in BOOLEAN, CloseIdle(stray), NEW u \in Holding,
             user[u].browser \in Running
      PROVE  user[u].browser \in Running'
  <2>1. watchdog[u] \in {"armed", "killed"}  BY <1>1 DEF Holding, IInv, TypeOK, Watched
  <2>2. CASE watchdog[u] = "killed"
    BY <1>1, <2>2 DEF CloseIdle, Closing, Holding, Running, IInv, Watched
  <2>3. CASE watchdog[u] = "armed"
    <3>1. Armed # {}  BY <2>3 DEF Armed, Holding
    <3>2. slot.refCount # 0
      BY <1>1, <3>1, CountIsArmed, Finite, FS_EmptySet DEF IInv
    <3>. QED  BY <1>1, <3>2 DEF CloseIdle, Running
  <2>. QED  BY <2>1, <2>2, <2>3
<1>2. IInv => [(\E stray \in BOOLEAN : CloseIdle(stray)) =>
         \A u \in Holding : user[u].browser \in Running => user[u].browser \in Running']_vars
  BY <1>1
<1>. QED  BY <1>2, Invariance, PTL DEF IdleCloseSparesHolders
=============================================================================
