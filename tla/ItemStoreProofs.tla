--------------------------- MODULE ItemStoreProofs ---------------------------
(***************************************************************************)
(* What holds of the items of a POI for every number of URLs, titles,      *)
(* collections, editors, rows, pages and edits.                            *)
(***************************************************************************)
EXTENDS ItemStore, TLAPS

Rows == {NoItem, Deleted} \cup [state : {"live"}, url : Urls, title : Titles, more : SUBSET Urls]

Saves == {Checking} \cup [pc : {"insert"}, url : Urls, title : Titles, since : SUBSET Ids]
         \cup [pc : {"attach"}, url : Urls, match : Ids]

Merges == [pc : {"own", "list", "copy"}, source : Ids, target : Ids,
           own : Urls, primary : Urls, todo : SUBSET Urls, late : SUBSET Urls]

Adds == [pc : {"add"}, item : Ids, url : Urls]

Requests == {Idle} \cup Adds \cup Merges

\* URL u may be put on item i: a row that is or was there, with another URL of its own,
\* or one of the exceptions, ren.
MayGet(its, ren, i, u) ==
    its[i] # NoItem /\ (its[i].state = "live" => its[i].url # u \/ i \in ren)

\* What a collection is about to attach is new to the item that matched, and what it is
\* about to insert is not there, as far as it could see.
SaverOK(x, its, ren) ==
    /\ x \in Saves
    /\ x.pc = "attach" => MayGet(its, ren, x.match, x.url)
    /\ x.pc = "insert" =>
         \A i \in Ids : its[i].state = "live" /\ Finds(x.url, x.title, its[i]) => i \in x.since

\* A merge knows its two rows: their own URLs are as read, but for what an editor
\* changed, and it knows when the target went.
Knows(x, its, ren) ==
    /\ x.source # x.target
    /\ its[x.source] # NoItem /\ its[x.target] # NoItem
    /\ its[x.target].state = "live" =>
         its[x.target].url = x.primary \/ (x.target \in ren /\ x.primary \in x.late)
    /\ its[x.target].state # "live" => x.late = Urls
    /\ its[x.source].state = "live" /\ x.pc = "own" =>
         its[x.source].url = x.own \/ its[x.source].url \in x.late
    /\ x.primary \notin x.todo

\* What a merge has passed is with the target or late.
Passed(x, its) ==
    its[x.source].state = "live" =>
      /\ x.pc \in {"list", "copy"} => its[x.source].url \in UrlsOf(its[x.target]) \cup x.late
      /\ x.pc = "copy" => its[x.source].more \subseteq x.todo \cup x.late \cup UrlsOf(its[x.target])

RequestOK(x, its, ren) ==
    /\ x \in Requests
    /\ x \in Adds => MayGet(its, ren, x.item, x.url)
    /\ x \in Merges => Knows(x, its, ren) /\ Passed(x, its)

IInv ==
    /\ TypeOK
    /\ \A s \in Savers : SaverOK(saver[s], items, renamed)
    /\ \A e \in Editors : RequestOK(request[e], items, renamed)
    /\ StoriesOnce /\ SourcesDiffer

-----------------------------------------------------------------------------
(* What the queries do to the items.                                       *)

\* Rows stay rows, and a live one keeps its own URL and title.
Keeps(i) ==
    items[i] # NoItem =>
      /\ items'[i] # NoItem
      /\ items'[i].state = "live" =>
           /\ items[i].state = "live"
           /\ items'[i].url = items[i].url /\ items'[i].title = items[i].title

\* A step of which the merges hear by Late: item `gained` gets at most us, item
\* `lost` loses at most us.
Changes(gained, lost, us) ==
    /\ items' \in [Ids -> Rows]
    /\ \A i \in Ids :
         /\ Keeps(i)
         /\ items[i].state = "live" /\ items'[i].state = "live" =>
              items'[i].more \subseteq items[i].more \cup (IF i = gained THEN us ELSE {})
         /\ items[i].state = "live" =>
              IF i = lost
              THEN /\ UrlsOf(items[i]) \subseteq UrlsOf(items'[i]) \cup us
                   /\ items'[i].state # "live" => us = Urls
              ELSE items'[i].state = "live" /\ UrlsOf(items[i]) \subseteq UrlsOf(items'[i])

\* No row is inserted: nothing comes to life, and deleted rows stay where they are.
Grows == \E i \in Ids : items[i] = NoItem /\ items'[i] # NoItem

\* Types of the model and of its rows are the same.
LEMMA Typed == ASSUME IInv PROVE items \in [Ids -> Rows] /\ saver \in [Savers -> Saves]
                                 /\ request \in [Editors -> Requests]
  BY DEF IInv, TypeOK, Rows, Saves, Requests, Adds, Merges

\* An item gets a URL.
LEMMA Gained ==
    ASSUME IInv, NEW i \in Ids, NEW u \in Urls, PutUrl(i, u), renamed' = renamed
    PROVE  /\ Changes(i, None, {u}) /\ ~Grows
           /\ \A j \in Ids : items'[j].state = "live" /\ j # i => items'[j] = items[j]
           /\ items'[i].state = "live" /\ items'[i].url = items[i].url
           /\ items'[i].more = items[i].more \cup {u}
           /\ MayGet(items, renamed, i, u) => SourcesDiffer'
<1>1. items \in [Ids -> Rows] /\ items[i].state = "live"  BY Typed DEF PutUrl, Live
<1>2. /\ items[i] \in [state : {"live"}, url : Urls, title : Titles, more : SUBSET Urls]
      /\ items[i] # NoItem
  BY <1>1 DEF Rows, NoItem, Deleted
<1>3. /\ items'[i] = [items[i] EXCEPT !.more = items[i].more \cup {u}]
      /\ \A j \in Ids : j # i => items'[j] = items[j]
  BY <1>1 DEF PutUrl
<1>4. /\ items'[i] \in [state : {"live"}, url : Urls, title : Titles, more : SUBSET Urls]
      /\ items'[i].url = items[i].url /\ items'[i].title = items[i].title
      /\ items'[i].state = "live" /\ items'[i].more = items[i].more \cup {u}
  BY <1>2, <1>3
<1>5. items'[i] # NoItem  BY <1>4 DEF NoItem
<1>6. items' \in [Ids -> Rows]
  <2>1. items' = [j \in Ids |-> items'[j]]  BY <1>1 DEF PutUrl
  <2>2. \A j \in Ids : items'[j] \in Rows  BY <1>1, <1>3, <1>4 DEF Rows
  <2>. QED  BY <2>1, <2>2
<1>7. Changes(i, None, {u})
  BY <1>1, <1>3, <1>4, <1>5, <1>6 DEF Changes, Keeps, None, UrlsOf, Ids
<1>8. ~Grows  BY <1>2, <1>3 DEF Grows
<1>9. MayGet(items, renamed, i, u) => SourcesDiffer'
  BY <1>1, <1>3, <1>4 DEF MayGet, SourcesDiffer, Live, IInv
<1>. QED  BY <1>3, <1>4, <1>7, <1>8, <1>9

\* An item loses a URL.
LEMMA Lost ==
    ASSUME IInv, NEW i \in Ids, NEW u \in Urls, Live(i),
           items' = [items EXCEPT ![i].more = @ \ {u}], renamed' = renamed
    PROVE  Changes(None, i, {u}) /\ ~Grows /\ SourcesDiffer'
<1>1. items \in [Ids -> Rows] /\ items[i].state = "live"  BY Typed DEF Live
<1>2. /\ items[i] \in [state : {"live"}, url : Urls, title : Titles, more : SUBSET Urls]
      /\ items[i] # NoItem
  BY <1>1 DEF Rows, NoItem, Deleted
<1>3. /\ items'[i] = [items[i] EXCEPT !.more = items[i].more \ {u}]
      /\ \A j \in Ids : j # i => items'[j] = items[j]
  BY <1>1
<1>4. /\ items'[i] \in [state : {"live"}, url : Urls, title : Titles, more : SUBSET Urls]
      /\ items'[i].url = items[i].url /\ items'[i].title = items[i].title
      /\ items'[i].state = "live" /\ items'[i].more = items[i].more \ {u}
  BY <1>2, <1>3
<1>5. items'[i] # NoItem  BY <1>4 DEF NoItem
<1>6. items' \in [Ids -> Rows]
  <2>1. items' = [j \in Ids |-> items'[j]]  BY <1>1
  <2>2. \A j \in Ids : items'[j] \in Rows  BY <1>1, <1>3, <1>4 DEF Rows
  <2>. QED  BY <2>1, <2>2
<1>7. Changes(None, i, {u})
  BY <1>1, <1>3, <1>4, <1>5, <1>6 DEF Changes, Keeps, None, UrlsOf, Ids
<1>8. ~Grows  BY <1>2, <1>3 DEF Grows
<1>9. SourcesDiffer'  BY <1>1, <1>3, <1>4 DEF SourcesDiffer, Live, IInv
<1>. QED  BY <1>7, <1>8, <1>9

\* A row is deleted with its URLs.
LEMMA Removed ==
    ASSUME IInv, NEW i \in Ids, DeleteRow(i), items[i] # NoItem, renamed' = renamed
    PROVE  /\ Changes(None, i, Urls) /\ ~Grows /\ SourcesDiffer'
           /\ \A j \in Ids : j # i => items'[j] = items[j]
<1>1. items \in [Ids -> Rows]  BY Typed
<1>2. items'[i] = Deleted /\ \A j \in Ids : j # i => items'[j] = items[j]
  BY <1>1 DEF DeleteRow
<1>3. items' \in [Ids -> Rows]  BY <1>1 DEF DeleteRow, Rows
<1>4. Deleted # NoItem /\ Deleted.state # "live"  BY DEF Deleted, NoItem
<1>5. UrlsOf(items[i]) \subseteq Urls  BY <1>1 DEF UrlsOf, Rows, NoItem, Deleted
<1>6. Changes(None, i, Urls)
  BY <1>1, <1>2, <1>3, <1>4, <1>5 DEF Changes, Keeps, None, UrlsOf, Ids
<1>7. ~Grows  BY <1>2 DEF Grows
<1>8. SourcesDiffer'  BY <1>2, <1>4 DEF SourcesDiffer, Live, IInv
<1>. QED  BY <1>2, <1>6, <1>7, <1>8

\* Nothing happens to the items.
LEMMA Untouched ==
    ASSUME IInv, items' = items, renamed' = renamed
    PROVE  Changes(None, None, {}) /\ ~Grows /\ SourcesDiffer'
  BY Typed DEF Changes, Keeps, Grows, UrlsOf, IInv, SourcesDiffer, Live

-----------------------------------------------------------------------------
(* What such a step leaves of those under way.                             *)

\* What may be put on an item still may.
LEMMA MayStill ==
    ASSUME NEW i \in Ids, NEW u \in Urls, Keeps(i), MayGet(items, renamed, i, u),
           renamed' = renamed
    PROVE  MayGet(items', renamed', i, u)
  BY DEF Keeps, MayGet

\* A collection that does nothing, or takes nothing on, stays right.
LEMMA SaverStays ==
    ASSUME IInv, \A i \in Ids : Keeps(i), ~Grows, renamed' = renamed,
           NEW s \in Savers, saver'[s] \in {saver[s], Checking}
    PROVE  SaverOK(saver'[s], items', renamed')
<1>1. CASE saver'[s] = Checking  BY <1>1 DEF SaverOK, Saves, Checking
<1>2. CASE saver'[s] = saver[s]
  <2>. DEFINE x == saver[s]
  <2>1. SaverOK(x, items, renamed)  BY DEF IInv
  <2>2. x.pc = "attach" => x.match \in Ids /\ x.url \in Urls
    BY <2>1 DEF SaverOK, Saves, Checking
  <2>. HIDE DEF x
  <2>3. ASSUME NEW i \in Ids, items'[i].state = "live", Finds(x.url, x.title, items'[i])
        PROVE  items[i].state = "live" /\ Finds(x.url, x.title, items[i])
    <3>1. NoItem.state # "live"  BY DEF NoItem
    <3>2. items[i] # NoItem  BY <2>3, <3>1 DEF Grows
    <3>3. /\ items[i].state = "live"
          /\ items'[i].url = items[i].url /\ items'[i].title = items[i].title
      BY <2>3, <3>2 DEF Keeps
    <3>. QED  BY <2>3, <3>3 DEF Finds
  <2>4. SaverOK(x, items', renamed')  BY <2>1, <2>2, <2>3, MayStill DEF SaverOK
  <2>. QED  BY <1>2, <2>4 DEF x
<1>. QED  BY <1>1, <1>2

\* A merge stays right with what it hears of the step.
LEMMA MergeGoesOn ==
    ASSUME NEW x \in Merges, Knows(x, items, renamed), Passed(x, items), renamed' = renamed,
           NEW gained, NEW lost, NEW us \in SUBSET Urls, Changes(gained, lost, us),
           NEW late \in SUBSET Urls, x.late \subseteq late,
           x.pc = "copy" /\ x.source = gained => us \subseteq late,
           x.target = lost => us \subseteq late
    PROVE  RequestOK([x EXCEPT !.late = late], items', renamed')
<1>. DEFINE y == [x EXCEPT !.late = late]
<1>1. /\ y \in Merges /\ y.late = late /\ y.pc = x.pc /\ y.source = x.source
      /\ y.target = x.target /\ y.own = x.own /\ y.primary = x.primary /\ y.todo = x.todo
  BY DEF Merges
<1>. HIDE DEF y
<1>2. x.source \in Ids /\ x.target \in Ids /\ x.pc \in {"own", "list", "copy"}  BY DEF Merges
<1>3. Keeps(x.source) /\ Keeps(x.target)  BY <1>2 DEF Changes
<1>4. Knows(y, items', renamed')
  <2>1. items'[x.target].state # "live" => late = Urls
    <3>1. CASE items[x.target].state # "live"  BY <3>1 DEF Knows
    <3>2. CASE items[x.target].state = "live"  BY <1>2, <3>2 DEF Changes
    <3>. QED  BY <3>1, <3>2
  <2>. QED  BY <1>1, <1>3, <2>1 DEF Knows, Keeps
<1>5. Passed(y, items')
  <2>. SUFFICES ASSUME items'[x.source].state = "live" PROVE
         /\ x.pc \in {"list", "copy"} => items'[x.source].url \in UrlsOf(items'[x.target]) \cup late
         /\ x.pc = "copy" => items'[x.source].more \subseteq x.todo \cup late \cup UrlsOf(items'[x.target])
    BY <1>1 DEF Passed
  <2>1. /\ items[x.source].state = "live"
        /\ items'[x.source].url = items[x.source].url
    BY <1>3 DEF Keeps, Knows
  <2>2. UrlsOf(items[x.target]) \subseteq UrlsOf(items'[x.target]) \cup late
    <3>1. CASE items[x.target].state # "live"  BY <3>1 DEF UrlsOf
    <3>2. CASE items[x.target].state = "live"  BY <1>2, <3>2 DEF Changes
    <3>. QED  BY <3>1, <3>2
  <2>3. items'[x.source].more \subseteq items[x.source].more \cup (IF x.source = gained THEN us ELSE {})
    BY <1>2, <2>1 DEF Changes
  <2>. QED  BY <2>1, <2>2, <2>3 DEF Passed
<1>6. y \notin Adds  BY <1>1, <1>2 DEF Adds
<1>. QED  BY <1>1, <1>4, <1>5, <1>6 DEF RequestOK, Requests, y

\* The requests that hear of a step by Late stay right.
LEMMA RequestGoesOn ==
    ASSUME IInv, NEW e \in Editors, NEW req, req[e] = request[e], renamed' = renamed,
           NEW gained, NEW lost, NEW us \in SUBSET Urls, Changes(gained, lost, us),
           request' = Late(req, gained, lost, us)
    PROVE  RequestOK(request'[e], items', renamed')
<1>1. RequestOK(request[e], items, renamed) /\ request[e] \in Requests  BY Typed DEF IInv
<1>2. CASE request[e] = Idle
  <2>1. Idle.pc = "idle" /\ Idle \notin Adds /\ Idle \notin Merges  BY DEF Idle, Adds, Merges
  <2>2. request'[e] = Idle  BY <1>2, <2>1 DEF Late, Merging
  <2>. QED  BY <2>1, <2>2 DEF RequestOK, Requests
<1>3. CASE request[e] \in Adds
  <2>1. request[e].pc = "add" /\ request[e] \notin Merges  BY <1>3 DEF Adds, Merges
  <2>2. request'[e] = request[e]  BY <2>1 DEF Late, Merging
  <2>3. request[e].item \in Ids /\ request[e].url \in Urls  BY <1>3 DEF Adds
  <2>4. Keeps(request[e].item)  BY <2>3 DEF Changes
  <2>5. MayGet(items, renamed, request[e].item, request[e].url)  BY <1>1, <1>3 DEF RequestOK
  <2>6. MayGet(items', renamed', request[e].item, request[e].url)  BY <2>3, <2>4, <2>5, MayStill
  <2>7. RequestOK(request[e], items', renamed')  BY <1>1, <2>1, <2>6 DEF RequestOK
  <2>. QED  BY <2>2, <2>7
<1>4. CASE request[e] \in Merges
  <2>. DEFINE x == request[e]
  <2>1. e \in Merging  BY <1>4 DEF Merging, Merges
  <2>2. \/ request'[e] = [x EXCEPT !.late = x.late \cup us]
        \/ /\ request'[e] = [x EXCEPT !.late = x.late]
           /\ ~(x.pc = "copy" /\ x.source = gained) /\ x.target # lost
    BY <1>4, <2>1 DEF Late, Merges
  <2>3. Knows(x, items, renamed) /\ Passed(x, items) /\ x.late \in SUBSET Urls /\ x.late \cup us \in SUBSET Urls
    BY <1>1, <1>4 DEF RequestOK, Merges
  <2>4. x \in Merges  BY <1>4
  <2>. HIDE DEF x
  <2>5. CASE request'[e] = [x EXCEPT !.late = x.late \cup us]
    <3>. DEFINE late == x.late \cup us
    <3>1. late \in SUBSET Urls /\ x.late \subseteq late /\ us \subseteq late  BY <2>3
    <3>. HIDE DEF late
    <3>2. RequestOK([x EXCEPT !.late = late], items', renamed')  BY <2>3, <2>4, <3>1, MergeGoesOn
    <3>. QED  BY <2>5, <3>2 DEF late
  <2>6. CASE /\ request'[e] = [x EXCEPT !.late = x.late]
             /\ ~(x.pc = "copy" /\ x.source = gained) /\ x.target # lost
    <3>1. RequestOK([x EXCEPT !.late = x.late], items', renamed')  BY <2>3, <2>4, <2>6, MergeGoesOn
    <3>. QED  BY <2>6, <3>1
  <2>. QED  BY <2>2, <2>5, <2>6
<1>. QED  BY <1>1, <1>2, <1>3, <1>4 DEF Requests

\* Nothing new: the stories stay apart.
LEMMA StoriesStay ==
    ASSUME IInv, \A i \in Ids : Keeps(i), ~Grows, kind' = kind, unseen \subseteq unseen'
    PROVE  StoriesOnce'
<1>1. \A i \in Ids : Live(i)' =>
        Live(i) /\ items'[i].url = items[i].url /\ items'[i].title = items[i].title
  <2>1. NoItem.state # "live"  BY DEF NoItem
  <2>. QED  BY <2>1 DEF Live, Keeps, Grows
<1>2. \A i, j \in Ids : Live(i)' /\ Live(j)' /\ Finds(items'[j].url, items'[j].title, items'[i])
        => Finds(items[j].url, items[j].title, items[i])
  BY <1>1 DEF Finds
<1>. QED  BY <1>1, <1>2 DEF StoriesOnce, IInv

\* No row is inserted: the ids in use stay the first ones.
LEMMA FirstIds ==
    ASSUME IInv, \A i \in Ids : Keeps(i), ~Grows
    PROVE  \A i \in Ids : items'[i] = NoItem => \A j \in Ids : j > i => items'[j] = NoItem
  BY DEF IInv, TypeOK, Keeps, Grows

\* The type invariant from those of its parts that are not obvious.
LEMMA TypedAgain ==
    ASSUME IInv, items' \in [Ids -> Rows], saver' \in [Savers -> Saves],
           request' \in [Editors -> Requests],
           \A i \in Ids : items'[i] = NoItem => \A j \in Ids : j > i => items'[j] = NoItem,
           \A e \in Editors : RequestOK(request'[e], items', renamed'),
           kind' = kind, unseen' \subseteq SUBSET Ids, renamed' \subseteq Ids,
           pages' \in 0..MaxPages, edits' \in 0..MaxEdits
    PROVE  TypeOK'
<1>1. \A e \in Editors : request'[e].pc \in {"own", "list", "copy"} => request'[e].source # request'[e].target
  BY DEF RequestOK, Requests, Knows, Adds, Idle
<1>2. \A e \in Merging' : request'[e].source # request'[e].target  BY <1>1 DEF Merging
<1>. QED  BY <1>2 DEF TypeOK, Rows, Saves, Requests, Adds, Merges, IInv

\* A step that inserts nothing and takes on nothing keeps the invariant once its own
\* request, if any, is known to be right.
LEMMA Again ==
    ASSUME IInv, \A i \in Ids : Keeps(i), ~Grows, items' \in [Ids -> Rows], SourcesDiffer',
           saver' \in [Savers -> Saves], \A s \in Savers : saver'[s] \in {saver[s], Checking},
           DOMAIN request' = Editors, request' = [e \in Editors |-> request'[e]],
           \A e \in Editors : RequestOK(request'[e], items', renamed'),
           UNCHANGED <<kind, unseen, renamed>>, pages' \in 0..MaxPages, edits' \in 0..MaxEdits
    PROVE  IInv'
<1>1. request' \in [Editors -> Requests]  BY DEF RequestOK
<1>2. \A s \in Savers : SaverOK(saver'[s], items', renamed')  BY SaverStays
<1>3. StoriesOnce'  BY StoriesStay
<1>4. TypeOK'  BY <1>1, FirstIds, TypedAgain DEF IInv, TypeOK
<1>. QED  BY <1>2, <1>3, <1>4 DEF IInv

\* Requests that no step touches stay right.
LEMMA RequestsStay ==
    ASSUME IInv, Changes(None, None, {}), request' = request, renamed' = renamed
    PROVE  \A e \in Editors : RequestOK(request'[e], items', renamed')
<1>1. Late(request, None, None, {}) = request
  <2>1. ASSUME NEW e \in Merging PROVE [request[e] EXCEPT !.late = @ \cup {}] = request[e]
    <3>1. request[e] \in Merges  BY Typed DEF Merging, Requests, Idle, Adds, Merges
    <3>. QED  BY <3>1 DEF Merges
  <2>2. request = [e \in Editors |-> request[e]]  BY Typed
  <2>. QED  BY <2>1, <2>2 DEF Late
<1>2. request' = Late(request, None, None, {})  BY <1>1
<1>. QED  BY <1>2, RequestGoesOn

-----------------------------------------------------------------------------
(* The collections.                                                        *)

\* Check keeps the invariant: what it takes on is not there, or not under that URL.
LEMMA CheckKeeps == ASSUME IInv, NEW s \in Savers, Check(s) PROVE IInv'
<1>0. UNCHANGED <<kind, items, request, unseen, renamed, edits>>  BY DEF Check
<1>1. Changes(None, None, {}) /\ ~Grows /\ SourcesDiffer'  BY <1>0, Untouched
<1>2. \A i \in Ids : Keeps(i)  BY <1>1 DEF Changes
<1>3. PICK u \in Urls, t \in Titles :
        IF Matches(u, t) = {}
        THEN saver' = [saver EXCEPT ![s] = [pc |-> "insert", url |-> u, title |-> t, since |-> {}]]
        ELSE \E i \in Matches(u, t) :
               /\ NormalUrl(items[i].url) # NormalUrl(u)
               /\ saver' = [saver EXCEPT ![s] = [pc |-> "attach", url |-> u, match |-> i]]
  BY DEF Check
<1>4. \A e \in Editors : RequestOK(request'[e], items', renamed')  BY <1>0, <1>1, RequestsStay
<1>5. ASSUME NEW x \in Saves, saver' = [saver EXCEPT ![s] = x], SaverOK(x, items, renamed)
      PROVE  IInv'
  <2>1. saver' \in [Savers -> Saves] /\ saver'[s] = x /\ \A r \in Savers : r # s => saver'[r] = saver[r]
    BY <1>5, Typed
  <2>2. \A r \in Savers : SaverOK(saver'[r], items', renamed')
    BY <1>0, <1>1, <1>2, <1>5, <2>1, SaverStays
  <2>3. pages' \in 0..MaxPages  BY ItemStoreAssumption DEF Check, IInv, TypeOK
  <2>4. TypeOK'
    BY <1>0, <1>1, <1>2, <1>4, <2>1, <2>3, Typed, FirstIds, TypedAgain DEF IInv, TypeOK
  <2>5. StoriesOnce'  BY <1>0, <1>1, <1>2, StoriesStay
  <2>. QED  BY <1>1, <1>4, <2>2, <2>4, <2>5 DEF IInv
<1>6. CASE Matches(u, t) = {}
  <2>. DEFINE x == [pc |-> "insert", url |-> u, title |-> t, since |-> {}]
  <2>1. x \in Saves /\ x.pc = "insert" /\ x.url = u /\ x.title = t  BY DEF Saves
  <2>2. saver' = [saver EXCEPT ![s] = x]  BY <1>3, <1>6
  <2>. HIDE DEF x
  <2>3. SaverOK(x, items, renamed)  BY <1>6, <2>1 DEF SaverOK, Matches, Live
  <2>. QED  BY <1>5, <2>1, <2>2, <2>3
<1>7. CASE Matches(u, t) # {}
  <2>1. PICK i \in Matches(u, t) :
          /\ NormalUrl(items[i].url) # NormalUrl(u)
          /\ saver' = [saver EXCEPT ![s] = [pc |-> "attach", url |-> u, match |-> i]]
    BY <1>3, <1>7
  <2>. DEFINE x == [pc |-> "attach", url |-> u, match |-> i]
  <2>2. i \in Ids /\ items[i] # NoItem  BY <2>1 DEF Matches, Live, NoItem
  <2>3. x \in Saves /\ x.pc = "attach" /\ x.url = u /\ x.match = i  BY <2>2 DEF Saves
  <2>4. saver' = [saver EXCEPT ![s] = x]  BY <2>1
  <2>. HIDE DEF x
  <2>5. items[i].url # u  BY <2>1
  <2>6. SaverOK(x, items, renamed)  BY <2>2, <2>3, <2>5 DEF SaverOK, MayGet
  <2>. QED  BY <1>5, <2>3, <2>4, <2>6
<1>. QED  BY <1>6, <1>7

\* A row is written, of which the collections under way do not know.
LEMMA MissedOK ==
    ASSUME IInv, NEW sv \in [Savers -> Saves], \A s \in Savers : sv[s] \in {saver[s], Checking},
           NEW i \in Ids, \A j \in Ids : j # i => items'[j] = items[j], items'[i] # NoItem,
           renamed \subseteq renamed', saver' = Missed(sv, i),
           \A s \in Savers : sv[s].pc = "attach" /\ sv[s].match = i
                             => MayGet(items', renamed', i, sv[s].url)
    PROVE  saver' \in [Savers -> Saves] /\ \A s \in Savers : SaverOK(saver'[s], items', renamed')
<1>. SUFFICES ASSUME NEW s \in Savers PROVE saver'[s] \in Saves /\ SaverOK(saver'[s], items', renamed')
  <2>1. saver' = [s \in Savers |-> saver'[s]]  BY DEF Missed
  <2>. QED  BY <2>1
<1>. DEFINE x == sv[s]
<1>1. x \in Saves /\ (x = saver[s] \/ x = Checking)  OBVIOUS
<1>2. SaverOK(x, items, renamed)  BY <1>1 DEF IInv, SaverOK, Checking, Saves
<1>3. saver'[s] = IF x.pc = "insert" THEN [x EXCEPT !.since = x.since \cup {i}] ELSE x
  BY DEF Missed
<1>4. x.pc = "attach" /\ x.match = i => MayGet(items', renamed', i, x.url)  OBVIOUS
<1>. HIDE DEF x
<1>5. CASE x.pc = "insert"
  <2>. DEFINE y == [x EXCEPT !.since = x.since \cup {i}]
  <2>1. x \in [pc : {"insert"}, url : Urls, title : Titles, since : SUBSET Ids]
    BY <1>1, <1>5 DEF Saves, Checking
  <2>2. /\ y \in Saves /\ y.pc = "insert" /\ y.url = x.url /\ y.title = x.title
        /\ y.since = x.since \cup {i}
    BY <2>1 DEF Saves
  <2>3. saver'[s] = y  BY <1>3, <1>5
  <2>. HIDE DEF y
  <2>4. SaverOK(y, items', renamed')  BY <1>2, <1>5, <2>2 DEF SaverOK
  <2>. QED  BY <2>2, <2>3, <2>4
<1>6. CASE x.pc # "insert"
  <2>1. SaverOK(x, items', renamed')
    <3>1. x.pc = "attach" /\ x.match # i => MayGet(items', renamed', x.match, x.url)
      <4>1. x.pc = "attach" => x.match \in Ids  BY <1>1 DEF Saves, Checking
      <4>. QED  BY <1>2, <4>1 DEF SaverOK, MayGet
    <3>. QED  BY <1>1, <1>4, <1>6, <3>1 DEF SaverOK
  <2>. QED  BY <1>1, <1>3, <1>6, <2>1
<1>. QED  BY <1>5, <1>6

\* A new row is the last one, and has no additional URLs.
LEMMA RowIsNew ==
    ASSUME IInv, NEW i \in Ids, NEW u \in Urls, NEW t \in Titles, NewRow(i, u, t),
           renamed' = renamed
    PROVE  /\ items'[i].state = "live" /\ items'[i].url = u /\ items'[i].title = t
           /\ items'[i] # NoItem /\ items[i] = NoItem
           /\ \A j \in Ids : j # i => items'[j] = items[j]
           /\ \A j \in Ids : j > i => items[j] = NoItem
           /\ Changes(None, None, {}) /\ SourcesDiffer'
           /\ \A k \in Ids : items'[k] = NoItem => \A j \in Ids : j > k => items'[j] = NoItem
<1>. DEFINE new == [state |-> "live", url |-> u, title |-> t, more |-> {}]
<1>1. items[i] = NoItem /\ (\A j \in 1..(i - 1) : items[j] # NoItem)
      /\ items' = [items EXCEPT ![i] = new]
  BY DEF NewRow
<1>2. /\ items'[i] = new /\ new \in Rows /\ new # NoItem /\ new.state = "live" /\ new.more = {}
      /\ new.url = u /\ new.title = t
      /\ \A j \in Ids : j # i => items'[j] = items[j]
      /\ items[i].state # "live"
  BY <1>1, Typed DEF Rows, NoItem
<1>. HIDE DEF new
<1>3. Changes(None, None, {})
  <2>1. items' \in [Ids -> Rows]  BY <1>1, <1>2, Typed
  <2>. QED  BY <1>1, <1>2, <2>1 DEF Changes, Keeps, UrlsOf, None, Ids
<1>4. SourcesDiffer'  BY <1>2 DEF SourcesDiffer, Live, IInv
<1>5. \A j \in Ids : j > i => items[j] = NoItem  BY <1>1 DEF IInv, TypeOK
<1>6. \A k \in Ids : items'[k] = NoItem => \A j \in Ids : j > k => items'[j] = NoItem
  BY <1>1, <1>2, ItemStoreAssumption DEF IInv, TypeOK, Ids
<1>. QED  BY <1>1, <1>2, <1>3, <1>4, <1>5, <1>6

\* A row that is new or changed keeps the stories apart: the index knows its URL, and
\* whoever finds the other is recorded.
LEMMA StoriesApart ==
    ASSUME IInv, NEW i \in Ids, \A j \in Ids : j # i => items'[j] = items[j], kind' = kind,
           unseen \subseteq unseen',
           \A j \in Ids : j # i /\ Live(j) =>
             /\ SqlUrl(items[j].url) = SqlUrl(items'[i].url) => kind # "news"
             /\ {i, j} \in unseen' \/ (j < i /\ ~Finds(items'[i].url, items'[i].title, items[j]))
    PROVE  StoriesOnce'
<1>. SUFFICES ASSUME NEW j \in Ids, NEW k \in Ids, j < k, Live(j)', Live(k)'
              PROVE  /\ Finds(items'[k].url, items'[k].title, items'[j]) => {j, k} \in unseen'
                     /\ SqlUrl(items'[j].url) = SqlUrl(items'[k].url) => kind = "event"
  BY DEF StoriesOnce
<1>0. kind \in {"news", "event"} /\ j # k  BY DEF IInv, TypeOK, Ids
<1>1. CASE j # i /\ k # i  BY <1>1 DEF IInv, StoriesOnce, Live
<1>2. CASE k = i
  <2>1. Live(j) /\ j # i /\ items'[j] = items[j]  BY <1>0, <1>2 DEF Live
  <2>2. {i, j} = {j, k}  BY <1>2
  <2>. QED  BY <1>0, <1>2, <2>1, <2>2
<1>3. CASE j = i
  <2>1. Live(k) /\ k # i /\ items'[k] = items[k] /\ ~(k < i)  BY <1>0, <1>3 DEF Live, Ids
  <2>. QED  BY <1>0, <1>3, <2>1
<1>. QED  BY <1>1, <1>2, <1>3

\* Insert keeps the invariant: what the row finds, it did not see.
LEMMA InsertKeeps == ASSUME IInv, NEW s \in Savers, Insert(s) PROVE IInv'
<1>0. /\ saver[s].pc = "insert" /\ SaverOK(saver[s], items, renamed)
      /\ UNCHANGED <<kind, request, renamed, pages, edits>>
  BY DEF Insert, IInv
<1>. DEFINE x == saver[s]
            sv == [saver EXCEPT ![s] = Checking]
<1>1. x.url \in Urls /\ x.title \in Titles /\ x.since \in SUBSET Ids
  BY <1>0, Typed DEF Saves, Checking
<1>2. PICK i \in Ids :
        IF Conflicts(i, x.url) THEN saver' = sv /\ UNCHANGED <<items, unseen>>
        ELSE /\ NewRow(i, x.url, x.title)
             /\ saver' = Missed(sv, i)
             /\ unseen' = unseen \cup Pairs(i, x.since)
  BY DEF Insert
<1>3. sv \in [Savers -> Saves] /\ \A r \in Savers : sv[r] \in {saver[r], Checking}
  BY Typed DEF Saves
<1>. HIDE DEF sv
<1>4. CASE Conflicts(i, x.url)
  <2>1. saver' = sv /\ UNCHANGED <<items, unseen>>  BY <1>2, <1>4
  <2>2. Changes(None, None, {}) /\ ~Grows /\ SourcesDiffer'  BY <1>0, <2>1, Untouched
  <2>3. \A e \in Editors : RequestOK(request'[e], items', renamed')  BY <1>0, <2>2, RequestsStay
  <2>. QED  BY <1>0, <1>3, <2>1, <2>2, <2>3, Typed, Again DEF Changes, IInv, TypeOK
<1>5. CASE ~Conflicts(i, x.url)
  <2>1. /\ NewRow(i, x.url, x.title) /\ saver' = Missed(sv, i)
        /\ unseen' = unseen \cup Pairs(i, x.since)
    BY <1>2, <1>5
  <2>. HIDE DEF x
  <2>2. /\ items'[i].state = "live" /\ items'[i].url = x.url /\ items'[i].title = x.title
        /\ items'[i] # NoItem /\ items[i] = NoItem
        /\ \A j \in Ids : j # i => items'[j] = items[j]
        /\ \A j \in Ids : j > i => items[j] = NoItem
        /\ Changes(None, None, {}) /\ SourcesDiffer'
        /\ \A k \in Ids : items'[k] = NoItem => \A j \in Ids : j > k => items'[j] = NoItem
    BY <1>0, <1>1, <2>1, RowIsNew
  <2>3. \A e \in Editors : RequestOK(request'[e], items', renamed')  BY <1>0, <2>2, RequestsStay
  <2>4. \A r \in Savers : ~(sv[r].pc = "attach" /\ sv[r].match = i)
    BY <1>3, <2>2 DEF Checking, IInv, SaverOK, MayGet
  <2>5. saver' \in [Savers -> Saves] /\ \A r \in Savers : SaverOK(saver'[r], items', renamed')
    BY <1>0, <1>3, <2>1, <2>2, <2>4, MissedOK
  <2>6. StoriesOnce'
    <3>1. ASSUME NEW j \in Ids, j # i, Live(j)
          PROVE  /\ SqlUrl(items[j].url) = SqlUrl(items'[i].url) => kind # "news"
                 /\ {i, j} \in unseen' \/ (j < i /\ ~Finds(items'[i].url, items'[i].title, items[j]))
      <4>1. j < i  BY <2>2, <3>1 DEF Live, NoItem, Ids
      <4>2. Finds(x.url, x.title, items[j]) => j \in x.since
        BY <1>0, <3>1 DEF SaverOK, Live, x
      <4>3. j \in x.since => {i, j} \in unseen'  BY <2>1 DEF Pairs
      <4>. QED  BY <1>5, <2>2, <3>1, <4>1, <4>2, <4>3 DEF Conflicts
    <3>. QED  BY <1>0, <2>1, <2>2, <3>1, StoriesApart
  <2>7. unseen' \subseteq SUBSET Ids  BY <1>1, <2>1 DEF IInv, TypeOK, Pairs
  <2>8. TypeOK'
    BY <1>0, <2>2, <2>3, <2>5, <2>7, Typed, TypedAgain DEF Changes, IInv, TypeOK
  <2>. QED  BY <2>2, <2>3, <2>5, <2>6, <2>8 DEF IInv
<1>. QED  BY <1>4, <1>5

\* Attach keeps the invariant: the item is there, and its own URL is another one.
LEMMA AttachKeeps == ASSUME IInv, NEW s \in Savers, Attach(s) PROVE IInv'
<1>. DEFINE i == saver[s].match
            u == saver[s].url
<1>1. i \in Ids /\ u \in Urls /\ MayGet(items, renamed, i, u)
  BY Typed DEF Attach, IInv, SaverOK, Saves, Checking
<1>. HIDE DEF i, u
<1>2. PutUrl(i, u)  BY DEF Attach, PutUrl, i, u
<1>0. UNCHANGED <<kind, unseen, renamed, pages, edits>>  BY DEF Attach
<1>3. Changes(i, None, {u}) /\ ~Grows /\ SourcesDiffer'  BY <1>0, <1>1, <1>2, Gained
<1>4. request' = Late(request, i, None, {u})  BY DEF Attach, i, u
<1>5. \A e \in Editors : RequestOK(request'[e], items', renamed')
  BY <1>0, <1>1, <1>3, <1>4, RequestGoesOn
<1>6. DOMAIN request' = Editors /\ request' = [e \in Editors |-> request'[e]]  BY <1>4 DEF Late
<1>7. saver' \in [Savers -> Saves] /\ \A r \in Savers : saver'[r] \in {saver[r], Checking}
  BY Typed DEF Attach, Saves
<1>. QED  BY <1>0, <1>3, <1>5, <1>6, <1>7, Again DEF Changes, IInv, TypeOK

\* One more edit.
LEMMA Edited == ASSUME IInv, Edit PROVE edits' \in 0..MaxEdits
  BY ItemStoreAssumption DEF Edit, IInv, TypeOK

\* SavingFails keeps the invariant.
LEMMA SavingFailsKeeps == ASSUME IInv, NEW s \in Savers, SavingFails(s) PROVE IInv'
<1>1. Changes(None, None, {}) /\ ~Grows /\ SourcesDiffer'  BY Untouched DEF SavingFails
<1>2. \A e \in Editors : RequestOK(request'[e], items', renamed')  BY <1>1, RequestsStay DEF SavingFails
<1>3. saver' \in [Savers -> Saves] /\ \A r \in Savers : saver'[r] \in {saver[r], Checking}
  BY Typed DEF SavingFails, Saves
<1>. QED  BY <1>1, <1>2, <1>3, Typed, Edited, Again DEF SavingFails, Changes, IInv, TypeOK

-----------------------------------------------------------------------------
(* The editors' requests.                                                  *)

\* A step of request e, which the other requests hear of, keeps the invariant once
\* the request itself is known to be right.
LEMMA RequestKeeps ==
    ASSUME IInv, NEW e \in Editors, NEW req, \A q \in Editors : q # e => req[q] = request[q],
           NEW gained, NEW lost, NEW us \in SUBSET Urls, Changes(gained, lost, us), ~Grows,
           SourcesDiffer', request' = Late(req, gained, lost, us),
           RequestOK(request'[e], items', renamed'),
           UNCHANGED <<kind, saver, unseen, renamed, pages>>, edits' \in 0..MaxEdits
    PROVE  IInv'
<1>1. \A q \in Editors : RequestOK(request'[q], items', renamed')
  <2>1. ASSUME NEW q \in Editors, q # e PROVE RequestOK(request'[q], items', renamed')
    <3>1. req[q] = request[q]  BY <2>1
    <3>. QED  BY <3>1, RequestGoesOn
  <2>. QED  BY <2>1
<1>2. DOMAIN request' = Editors /\ request' = [q \in Editors |-> request'[q]]  BY DEF Late
<1>. QED  BY <1>1, <1>2, Typed, Again DEF Changes, IInv, TypeOK

\* The same when the items stay as they are.
LEMMA RequestAlone ==
    ASSUME IInv, NEW e \in Editors, NEW x, request' = [request EXCEPT ![e] = x],
           RequestOK(x, items, renamed),
           UNCHANGED <<kind, items, saver, unseen, renamed, pages>>, edits' \in 0..MaxEdits
    PROVE  IInv'
<1>1. Changes(None, None, {}) /\ ~Grows /\ SourcesDiffer'  BY Untouched
<1>2. \A q \in Editors : RequestOK(request'[q], items', renamed')  BY Typed DEF IInv
<1>3. DOMAIN request' = Editors /\ request' = [q \in Editors |-> request'[q]]  BY Typed
<1>. QED  BY <1>1, <1>2, <1>3, Typed, Again DEF Changes, IInv, TypeOK

\* No request.
LEMMA IdleOK == ASSUME NEW its, NEW ren PROVE RequestOK(Idle, its, ren)
  BY DEF RequestOK, Requests, Idle, Adds, Merges

\* Merge keeps the invariant.
LEMMA MergeKeeps == ASSUME IInv, NEW e \in Editors, Merge(e) PROVE IInv'
<1>1. PICK i, j \in Ids :
         /\ i # j /\ Live(i) /\ Live(j)
         /\ request' = [request EXCEPT ![e] = [pc |-> "own", source |-> i, target |-> j,
                                               own |-> items[i].url, primary |-> items[j].url,
                                               todo |-> {}, late |-> {}]]
  BY DEF Merge
<1>. DEFINE x == [pc |-> "own", source |-> i, target |-> j, own |-> items[i].url,
                  primary |-> items[j].url, todo |-> {}, late |-> {}]
<1>2. /\ items[i] \in [state : {"live"}, url : Urls, title : Titles, more : SUBSET Urls]
      /\ items[j] \in [state : {"live"}, url : Urls, title : Titles, more : SUBSET Urls]
      /\ items[i] # NoItem /\ items[j] # NoItem
  BY <1>1, Typed DEF Live, Rows, NoItem, Deleted
<1>3. x \in Merges /\ x \notin Adds  BY <1>1, <1>2 DEF Merges, Adds
<1>4. Knows(x, items, renamed) /\ Passed(x, items)  BY <1>1, <1>2 DEF Live, Knows, Passed
<1>5. RequestOK(x, items, renamed)  BY <1>3, <1>4 DEF RequestOK, Requests
<1>. HIDE DEF x
<1>6. request' = [request EXCEPT ![e] = x]  BY <1>1 DEF x
<1>. QED  BY <1>5, <1>6, RequestAlone DEF Merge, IInv, TypeOK

\* The request of a merge under way.
LEMMA MergeOf ==
    ASSUME IInv, NEW e \in Editors, request[e].pc \in {"own", "list", "copy"}
    PROVE  request[e] \in Merges /\ Knows(request[e], items, renamed) /\ Passed(request[e], items)
<1>1. request[e] \in Merges  BY Typed DEF Requests, Idle, Adds, Merges
<1>. QED  BY <1>1 DEF IInv, RequestOK

\* ListUrls keeps the invariant.
LEMMA ListUrlsKeeps == ASSUME IInv, NEW e \in Editors, ListUrls(e) PROVE IInv'
<1>. DEFINE r == request[e]
            todo == IF Live(r.source) THEN items[r.source].more \ {r.primary} ELSE {}
            x == [r EXCEPT !.pc = "copy", !.todo = todo]
<1>1. r \in Merges /\ Knows(r, items, renamed) /\ Passed(r, items) /\ r.pc = "list"
  BY MergeOf DEF ListUrls
<1>2. request' = [request EXCEPT ![e] = x]  BY Typed DEF ListUrls
<1>3. todo \in SUBSET Urls
  <2>1. r.source \in Ids  BY <1>1 DEF Merges
  <2>. QED  BY <2>1, Typed DEF Live, Rows, NoItem, Deleted
<1>4. /\ r.primary \notin todo
      /\ items[r.source].state = "live" => todo = items[r.source].more \ {r.primary}
  BY DEF Live
<1>. HIDE DEF todo, r
<1>5. /\ x \in Merges /\ x.pc = "copy" /\ x.source = r.source /\ x.target = r.target
      /\ x.own = r.own /\ x.primary = r.primary /\ x.todo = todo /\ x.late = r.late
  BY <1>1, <1>3 DEF Merges
<1>. HIDE DEF x
<1>6. Knows(x, items, renamed)  BY <1>1, <1>4, <1>5 DEF Knows
<1>7. items[r.target].state = "live" => r.primary \in UrlsOf(items[r.target]) \cup r.late
  BY <1>1 DEF Knows, UrlsOf
<1>8. items[r.target].state # "live" => r.late = Urls  BY <1>1 DEF Knows
<1>9. items[r.source].state = "live" => items[r.source].more \in SUBSET Urls
  <2>1. r.source \in Ids  BY <1>1 DEF Merges
  <2>. QED  BY <2>1, Typed DEF Rows, NoItem, Deleted
<1>10. Passed(x, items)  BY <1>1, <1>4, <1>5, <1>7, <1>8, <1>9 DEF Passed
<1>11. x \notin Adds  BY <1>5 DEF Adds
<1>12. RequestOK(x, items, renamed)  BY <1>5, <1>6, <1>10, <1>11 DEF RequestOK, Requests
<1>. QED  BY <1>2, <1>12, RequestAlone DEF ListUrls, IInv, TypeOK

\* A merge that puts a URL on its target and goes on at label pc with todo left.
LEMMA PutKeeps ==
    ASSUME IInv, NEW e \in Editors, request[e].pc \in {"own", "copy"},
           NEW u \in Urls, PutUrl(request[e].target, u), u # request[e].primary,
           NEW x \in Merges, x.source = request[e].source, x.target = request[e].target,
           x.primary = request[e].primary, x.late = request[e].late,
           \/ request[e].pc = "own" /\ u = request[e].own /\ x.pc = "list" /\ x.todo = request[e].todo
           \/ request[e].pc = "copy" /\ x.pc = "copy" /\ x.todo = request[e].todo \ {u},
           request' = Late([request EXCEPT ![e] = x], request[e].target, None, {u}),
           UNCHANGED <<kind, saver, unseen, renamed, pages, edits>>
    PROVE  IInv'
<1>. DEFINE r == request[e]
            i == request[e].target
            j == request[e].source
<1>1. r \in Merges /\ Knows(r, items, renamed) /\ Passed(r, items)  BY MergeOf
<1>2. i \in Ids /\ j \in Ids /\ i # j /\ i # None  BY <1>1 DEF Merges, Knows, Ids, None
<1>3. MayGet(items, renamed, i, u)  BY <1>1 DEF MayGet, Knows
<1>4. /\ Changes(i, None, {u}) /\ ~Grows /\ SourcesDiffer'
      /\ \A k \in Ids : items'[k].state = "live" /\ k # i => items'[k] = items[k]
      /\ items'[i].state = "live" /\ items'[i].url = items[i].url
      /\ items'[i].more = items[i].more \cup {u}
  BY <1>2, <1>3, Gained
<1>5. Keeps(i) /\ Keeps(j)  BY <1>2, <1>4 DEF Changes
<1>6. request'[e] = x
  <2>1. [request EXCEPT ![e] = x][e] = x  BY Typed
  <2>. QED  BY <1>2, <2>1 DEF Late
<1>7. Knows(x, items', renamed')  BY <1>1, <1>4, <1>5 DEF Knows, Keeps
<1>8. Passed(x, items')
  <2>. SUFFICES ASSUME items'[j].state = "live" PROVE
         /\ items'[j].url \in UrlsOf(items'[i]) \cup r.late
         /\ x.pc = "copy" => items'[j].more \subseteq x.todo \cup r.late \cup UrlsOf(items'[i])
    BY DEF Passed
  <2>1. items'[j] = items[j] /\ items[j].state = "live"  BY <1>2, <1>4
  <2>2. items[i].state = "live"  BY DEF PutUrl, Live
  <2>3. UrlsOf(items'[i]) = UrlsOf(items[i]) \cup {u}  BY <1>4, <2>2 DEF UrlsOf
  <2>4. r.pc = "own" => items[j].url = u \/ items[j].url \in r.late  BY <1>1, <2>1 DEF Knows
  <2>. QED  BY <1>1, <2>1, <2>3, <2>4 DEF Passed
<1>9. RequestOK(x, items', renamed')  BY <1>7, <1>8 DEF RequestOK, Requests, Merges, Adds
<1>. DEFINE req == [request EXCEPT ![e] = x]
<1>10. \A q \in Editors : q # e => req[q] = request[q]  BY Typed
<1>11. request' = Late(req, i, None, {u}) /\ {u} \in SUBSET Urls /\ edits' \in 0..MaxEdits
  BY DEF IInv, TypeOK
<1>12. RequestOK(request'[e], items', renamed')  BY <1>6, <1>9
<1>. HIDE DEF req, i
<1>. QED  BY <1>4, <1>10, <1>11, <1>12, RequestKeeps

\* MoveOwn keeps the invariant.
LEMMA MoveOwnKeeps == ASSUME IInv, NEW e \in Editors, MoveOwn(e) PROVE IInv'
<1>. DEFINE r == request[e]
            x == [r EXCEPT !.pc = "list", !.own = r.primary]
            next == [request EXCEPT ![e].pc = "list", ![e].own = r.primary]
<1>1. r \in Merges /\ Knows(r, items, renamed) /\ Passed(r, items) /\ r.pc = "own"
  BY MergeOf DEF MoveOwn
<1>2. next = [request EXCEPT ![e] = x]  BY Typed
<1>3. IF r.own = r.primary THEN request' = next /\ UNCHANGED items
      ELSE PutUrl(r.target, r.own) /\ request' = Late(next, r.target, None, {r.own})
  BY DEF MoveOwn
<1>. HIDE DEF next
<1>4. /\ x \in Merges /\ x.pc = "list" /\ x.source = r.source /\ x.target = r.target
      /\ x.primary = r.primary /\ x.todo = r.todo /\ x.late = r.late
  BY <1>1 DEF Merges
<1>5. r.own \in Urls  BY <1>1 DEF Merges
<1>. HIDE DEF x
<1>6. CASE r.own # r.primary  BY <1>1, <1>2, <1>3, <1>4, <1>5, <1>6, PutKeeps DEF MoveOwn
<1>7. CASE r.own = r.primary
  <2>1. Knows(x, items, renamed)  BY <1>1, <1>4 DEF Knows
  <2>2. items[r.source].state = "live" => items[r.source].url \in Urls
    <3>1. r.source \in Ids  BY <1>1 DEF Merges
    <3>. QED  BY <3>1, Typed DEF Rows, NoItem, Deleted
  <2>3. Passed(x, items)  BY <1>1, <1>4, <1>7, <2>2 DEF Passed, Knows, UrlsOf
  <2>4. RequestOK(x, items, renamed)  BY <1>4, <2>1, <2>3 DEF RequestOK, Requests, Merges, Adds
  <2>. QED  BY <1>2, <1>3, <1>7, <2>4, RequestAlone DEF MoveOwn, IInv, TypeOK
<1>. QED  BY <1>6, <1>7

\* CopyUrl keeps the invariant.
LEMMA CopyUrlKeeps == ASSUME IInv, NEW e \in Editors, CopyUrl(e) PROVE IInv'
<1>. DEFINE r == request[e]
<1>1. r \in Merges /\ Knows(r, items, renamed) /\ r.pc = "copy"  BY MergeOf DEF CopyUrl
<1>2. PICK u \in r.todo :
         /\ PutUrl(r.target, u)
         /\ request' = Late([request EXCEPT ![e].todo = @ \ {u}], r.target, None, {u})
  BY DEF CopyUrl
<1>. DEFINE x == [r EXCEPT !.todo = r.todo \ {u}]
<1>3. [request EXCEPT ![e].todo = @ \ {u}] = [request EXCEPT ![e] = x]  BY Typed
<1>4. /\ x \in Merges /\ x.pc = "copy" /\ x.source = r.source /\ x.target = r.target
      /\ x.primary = r.primary /\ x.todo = r.todo \ {u} /\ x.late = r.late
  BY <1>1 DEF Merges
<1>5. u \in Urls /\ u # r.primary  BY <1>1 DEF Merges, Knows
<1>. HIDE DEF x
<1>. QED  BY <1>1, <1>2, <1>3, <1>4, <1>5, PutKeeps DEF CopyUrl

\* DeleteSource keeps the invariant.
LEMMA DeleteSourceKeeps == ASSUME IInv, NEW e \in Editors, DeleteSource(e) PROVE IInv'
<1>. DEFINE i == request[e].source
            req == [request EXCEPT ![e] = Idle]
<1>1. i \in Ids /\ items[i] # NoItem  BY MergeOf DEF DeleteSource, Merges, Knows
<1>2. Changes(None, i, Urls) /\ ~Grows /\ SourcesDiffer'  BY <1>1, Removed DEF DeleteSource
<1>3. request'[e] = Idle  BY Typed DEF DeleteSource, Late, Idle
<1>4. RequestOK(request'[e], items', renamed')  BY <1>3, IdleOK
<1>5. \A q \in Editors : q # e => req[q] = request[q]  BY Typed
<1>. QED  BY <1>2, <1>4, <1>5, RequestKeeps DEF DeleteSource, IInv, TypeOK

\* RequestFails keeps the invariant.
LEMMA RequestFailsKeeps == ASSUME IInv, NEW e \in Editors, RequestFails(e) PROVE IInv'
  BY IdleOK, RequestAlone, Edited DEF RequestFails

\* AddUrl keeps the invariant.
LEMMA AddUrlKeeps == ASSUME IInv, NEW e \in Editors, AddUrl(e) PROVE IInv'
<1>1. PICK i \in Ids, u \in Urls :
         /\ Live(i) /\ items[i].url # u
         /\ request' = [request EXCEPT ![e] = [pc |-> "add", item |-> i, url |-> u]]
  BY DEF AddUrl
<1>. DEFINE x == [pc |-> "add", item |-> i, url |-> u]
<1>2. x \in Adds /\ x \notin Merges  BY DEF Adds, Merges
<1>3. MayGet(items, renamed, i, u)  BY <1>1 DEF MayGet, Live, NoItem
<1>4. RequestOK(x, items, renamed)  BY <1>2, <1>3 DEF RequestOK, Requests
<1>. HIDE DEF x
<1>5. request' = [request EXCEPT ![e] = x]  BY <1>1 DEF x
<1>. QED  BY <1>4, <1>5, RequestAlone, Edited DEF AddUrl

\* AddedUrl keeps the invariant.
LEMMA AddedUrlKeeps == ASSUME IInv, NEW e \in Editors, AddedUrl(e) PROVE IInv'
<1>. DEFINE i == request[e].item
            u == request[e].url
            req == [request EXCEPT ![e] = Idle]
<1>1. request[e] \in Adds  BY Typed DEF AddedUrl, Requests, Idle, Merges
<1>2. i \in Ids /\ u \in Urls /\ MayGet(items, renamed, i, u)  BY <1>1 DEF Adds, IInv, RequestOK
<1>3. PutUrl(i, u)  BY DEF AddedUrl
<1>4. Changes(i, None, {u}) /\ ~Grows /\ SourcesDiffer'  BY <1>2, <1>3, Gained DEF AddedUrl
<1>5. request'[e] = Idle  BY Typed DEF AddedUrl, Late, Idle
<1>6. RequestOK(request'[e], items', renamed')  BY <1>5, IdleOK
<1>7. \A q \in Editors : q # e => req[q] = request[q]  BY Typed
<1>8. /\ request' = Late(req, i, None, {u}) /\ {u} \in SUBSET Urls /\ edits' \in 0..MaxEdits
      /\ UNCHANGED <<kind, saver, unseen, renamed, pages>>
  BY <1>2 DEF AddedUrl, IInv, TypeOK
<1>. HIDE DEF req, i, u
<1>. QED  BY <1>4, <1>6, <1>7, <1>8, RequestKeeps

\* A step of no request keeps the invariant.
LEMMA NoRequestKeeps ==
    ASSUME IInv, NEW gained, NEW lost, NEW us \in SUBSET Urls, Changes(gained, lost, us), ~Grows,
           SourcesDiffer', request' = Late(request, gained, lost, us),
           UNCHANGED <<kind, saver, unseen, renamed, pages>>, edits' \in 0..MaxEdits
    PROVE  IInv'
<1>1. \A e \in Editors : RequestOK(request'[e], items', renamed')  BY RequestGoesOn
<1>2. DOMAIN request' = Editors /\ request' = [e \in Editors |-> request'[e]]  BY DEF Late
<1>. QED  BY <1>1, <1>2, Typed, Again DEF Changes, IInv, TypeOK

\* RemoveUrl keeps the invariant.
LEMMA RemoveUrlKeeps == ASSUME IInv, RemoveUrl PROVE IInv'
<1>1. PICK i \in Ids : /\ Live(i)
                       /\ \E u \in items[i].more :
                            /\ items' = [items EXCEPT ![i].more = @ \ {u}]
                            /\ request' = Late(request, None, i, {u})
  BY DEF RemoveUrl
<1>2. PICK u \in items[i].more : /\ items' = [items EXCEPT ![i].more = @ \ {u}]
                                 /\ request' = Late(request, None, i, {u})
  BY <1>1
<1>3. u \in Urls  BY <1>1, Typed DEF Live, Rows, NoItem, Deleted
<1>4. Changes(None, i, {u}) /\ ~Grows /\ SourcesDiffer'  BY <1>1, <1>2, <1>3, Lost DEF RemoveUrl
<1>. QED  BY <1>2, <1>3, <1>4, NoRequestKeeps, Edited DEF RemoveUrl

\* DeleteItem keeps the invariant.
LEMMA DeleteItemKeeps == ASSUME IInv, DeleteItem PROVE IInv'
<1>1. PICK i \in Ids : Live(i) /\ DeleteRow(i) /\ request' = Late(request, None, i, Urls)
  BY DEF DeleteItem
<1>2. items[i] # NoItem  BY <1>1 DEF Live, NoItem
<1>3. Changes(None, i, Urls) /\ ~Grows /\ SourcesDiffer'  BY <1>1, <1>2, Removed DEF DeleteItem
<1>. QED  BY <1>1, <1>3, NoRequestKeeps, Edited DEF DeleteItem

\* CreateItem keeps the invariant: the row is recorded with every other.
LEMMA CreateItemKeeps == ASSUME IInv, CreateItem PROVE IInv'
<1>0. UNCHANGED <<kind, request, renamed, pages>> /\ edits' \in 0..MaxEdits
  BY Edited DEF CreateItem
<1>1. PICK i \in Ids, u \in Urls, t \in Titles : ~Conflicts(i, u) /\ NewRow(i, u, t) /\ Written(i)
  BY DEF CreateItem
<1>2. /\ items'[i].state = "live" /\ items'[i].url = u /\ items'[i].title = t
      /\ items'[i] # NoItem /\ items[i] = NoItem
      /\ \A j \in Ids : j # i => items'[j] = items[j]
      /\ \A j \in Ids : j > i => items[j] = NoItem
      /\ Changes(None, None, {}) /\ SourcesDiffer'
      /\ \A k \in Ids : items'[k] = NoItem => \A j \in Ids : j > k => items'[j] = NoItem
  BY <1>0, <1>1, RowIsNew
<1>3. \A e \in Editors : RequestOK(request'[e], items', renamed')  BY <1>0, <1>2, RequestsStay
<1>4. \A r \in Savers : ~(saver[r].pc = "attach" /\ saver[r].match = i)
  BY <1>2 DEF IInv, SaverOK, MayGet
<1>5. saver' \in [Savers -> Saves] /\ \A r \in Savers : SaverOK(saver'[r], items', renamed')
  BY <1>0, <1>1, <1>2, <1>4, Typed, MissedOK DEF Written
<1>6. unseen' = unseen \cup Pairs(i, {j \in Ids \ {i} : Live(j)})  BY <1>1 DEF Written
<1>7. StoriesOnce'
  <2>1. ASSUME NEW j \in Ids, j # i, Live(j)
        PROVE  /\ SqlUrl(items[j].url) = SqlUrl(items'[i].url) => kind # "news"
               /\ {i, j} \in unseen'
    BY <1>1, <1>2, <1>6, <2>1 DEF Pairs, Conflicts
  <2>. QED  BY <1>0, <1>2, <1>6, <2>1, StoriesApart
<1>8. unseen' \subseteq SUBSET Ids  BY <1>6 DEF IInv, TypeOK, Pairs
<1>9. TypeOK'  BY <1>0, <1>2, <1>3, <1>5, <1>8, Typed, TypedAgain DEF Changes, IInv, TypeOK
<1>. QED  BY <1>2, <1>3, <1>5, <1>7, <1>9 DEF IInv

\* EditItem keeps the invariant: the row is recorded with every other, those at work on it
\* hear of it, and it is an exception where its URL meets another of its own.
LEMMA EditItemKeeps == ASSUME IInv, EditItem PROVE IInv'
<1>0. UNCHANGED <<kind, pages>> /\ edits' \in 0..MaxEdits  BY Edited DEF EditItem
<1>1. PICK i \in Ids, u \in Urls, t \in Titles :
         /\ Live(i) /\ ~Conflicts(i, u)
         /\ items' = [items EXCEPT ![i].url = u, ![i].title = t]
         /\ Written(i)
         /\ renamed' = renamed \cup
              (IF u # items[i].url /\ (u \in items[i].more \/ Getting(i)) THEN {i} ELSE {})
         /\ request' = [e \in Editors |->
              IF e \in Merging /\ request[e].source = i
              THEN [request[e] EXCEPT !.late = @ \cup {u}]
              ELSE IF e \in Merging /\ request[e].target = i
              THEN [request[e] EXCEPT !.late = @ \cup {items[i].url}] ELSE request[e]]
  BY DEF EditItem
<1>. DEFINE v == items[i].url
<1>2. /\ items[i] \in [state : {"live"}, url : Urls, title : Titles, more : SUBSET Urls]
      /\ items[i].state = "live" /\ v \in Urls
  BY <1>1, Typed DEF Live, Rows, NoItem, Deleted
<1>3. /\ items'[i] \in [state : {"live"}, url : Urls, title : Titles, more : SUBSET Urls]
      /\ items'[i].state = "live" /\ items'[i].url = u /\ items'[i].title = t
      /\ items'[i].more = items[i].more
      /\ \A j \in Ids : j # i => items'[j] = items[j]
  BY <1>1, <1>2, Typed
<1>4. items' \in [Ids -> Rows] /\ items'[i] # NoItem /\ items[i] # NoItem
  <2>1. items' = [j \in Ids |-> items'[j]]  BY <1>1, Typed
  <2>2. \A j \in Ids : items'[j] \in Rows  BY <1>3, Typed DEF Rows
  <2>. QED  BY <1>2, <1>3, <2>1, <2>2 DEF NoItem
<1>5. \A j \in Ids : items'[j] = NoItem => \A k \in Ids : k > j => items'[k] = NoItem
  BY <1>3, <1>4 DEF IInv, TypeOK
<1>6. /\ renamed \subseteq renamed' /\ renamed' \subseteq Ids
      /\ u = v \/ (u \notin items[i].more /\ ~Getting(i)) \/ i \in renamed'
  BY <1>1 DEF IInv, TypeOK
<1>. HIDE DEF v
<1>7. SourcesDiffer'
  <2>1. i \notin renamed' => u \notin items[i].more
    <3>1. i \notin renamed => v \notin items[i].more  BY <1>1 DEF IInv, SourcesDiffer, v
    <3>. QED  BY <1>6, <3>1
  <2>. QED  BY <1>3, <1>6, <2>1 DEF IInv, SourcesDiffer, Live
<1>8. ASSUME NEW w, MayGet(items, renamed, i, w), Getting(i) PROVE MayGet(items', renamed', i, w)
  BY <1>2, <1>3, <1>4, <1>6, <1>8 DEF MayGet, v
<1>9. saver' \in [Savers -> Saves] /\ \A s \in Savers : SaverOK(saver'[s], items', renamed')
  <2>1. \A s \in Savers : saver[s].pc = "attach" /\ saver[s].match = i
                           => MayGet(items', renamed', i, saver[s].url)
    BY <1>8 DEF IInv, SaverOK, Getting
  <2>. QED  BY <1>1, <1>3, <1>4, <1>6, <2>1, Typed, MissedOK DEF Written
<1>10. unseen' = unseen \cup Pairs(i, {j \in Ids \ {i} : Live(j)})  BY <1>1 DEF Written
<1>11. StoriesOnce'
  <2>1. ASSUME NEW j \in Ids, j # i, Live(j)
        PROVE  /\ SqlUrl(items[j].url) = SqlUrl(items'[i].url) => kind # "news"
               /\ {i, j} \in unseen'
    BY <1>1, <1>3, <1>10, <2>1 DEF Pairs, Conflicts
  <2>. QED  BY <1>0, <1>3, <1>10, <2>1, StoriesApart
<1>12. ASSUME NEW e \in Editors PROVE RequestOK(request'[e], items', renamed')
  <2>. DEFINE x == request[e]
  <2>1. RequestOK(x, items, renamed) /\ x \in Requests  BY Typed DEF IInv
  <2>2. request'[e] = IF e \in Merging /\ x.source = i THEN [x EXCEPT !.late = x.late \cup {u}]
                      ELSE IF e \in Merging /\ x.target = i THEN [x EXCEPT !.late = x.late \cup {v}]
                      ELSE x
    BY <1>1 DEF v
  <2>3. e \in Merging <=> x.pc \in {"own", "list", "copy"}  BY DEF Merging
  <2>4. x.pc = "add" /\ x.item = i => Getting(i)  BY DEF Getting
  <2>5. e \in Merging /\ x.target = i => Getting(i)  BY DEF Getting
  <2>. HIDE DEF x
  <2>6. CASE x = Idle
    <3>1. request'[e] = Idle  BY <2>2, <2>3, <2>6 DEF Idle
    <3>. QED  BY <3>1, IdleOK
  <2>7. CASE x \in Adds
    <3>1. request'[e] = x /\ x.pc = "add" /\ x.item \in Ids /\ x \notin Merges
      BY <2>2, <2>3, <2>7 DEF Adds, Merges
    <3>2. MayGet(items, renamed, x.item, x.url)  BY <2>1, <2>7 DEF RequestOK
    <3>3. MayGet(items', renamed', x.item, x.url)
      <4>1. CASE x.item = i  BY <1>8, <2>4, <3>1, <3>2, <4>1
      <4>2. CASE x.item # i  BY <1>3, <1>6, <3>1, <3>2, <4>2 DEF MayGet
      <4>. QED  BY <4>1, <4>2
    <3>. QED  BY <2>1, <3>1, <3>3 DEF RequestOK
  <2>8. CASE x \in Merges
    <3>1. Knows(x, items, renamed) /\ Passed(x, items)  BY <2>1, <2>8 DEF RequestOK
    <3>2. /\ x.source \in Ids /\ x.target \in Ids /\ x.pc \in {"own", "list", "copy"}
          /\ x.late \in SUBSET Urls
      BY <2>8 DEF Merges
    <3>. DEFINE us == IF x.source = i THEN {u} ELSE IF x.target = i THEN {v} ELSE {}
                late == x.late \cup us
                y == [x EXCEPT !.late = late]
    <3>3. late \in SUBSET Urls /\ x.late \subseteq late  BY <1>2, <3>2
    <3>4. /\ x.source = i => u \in late
          /\ x.target = i /\ x.source # i => v \in late
          /\ x.late = Urls => late = Urls
      BY <3>3
    <3>5. request'[e] = y
      <4>1. x = [x EXCEPT !.late = x.late \cup {}]  BY <2>8 DEF Merges
      <4>. QED  BY <2>2, <2>3, <3>2, <4>1
    <3>. HIDE DEF late
    <3>6. /\ y \in Merges /\ y.late = late /\ y.pc = x.pc /\ y.source = x.source
          /\ y.target = x.target /\ y.own = x.own /\ y.primary = x.primary /\ y.todo = x.todo
      BY <2>8, <3>3 DEF Merges
    <3>. HIDE DEF y
    <3>7. Knows(y, items', renamed')
      <4>1. x.source # x.target /\ items'[x.source] # NoItem /\ items'[x.target] # NoItem
        BY <1>3, <1>4, <3>1, <3>2 DEF Knows
      <4>2. items'[x.target].state = "live" =>
              items'[x.target].url = x.primary \/ (x.target \in renamed' /\ x.primary \in late)
        <5>1. CASE x.target # i  BY <1>3, <1>6, <3>1, <3>2, <3>3, <5>1 DEF Knows
        <5>2. CASE x.target = i /\ u = v  BY <1>2, <1>3, <1>6, <3>1, <3>3, <5>2 DEF Knows, v
        <5>3. CASE x.target = i /\ u # v
          <6>1. i \in renamed'  BY <1>6, <2>3, <2>5, <3>2, <5>3
          <6>2. v \in late  BY <3>1, <3>4, <5>3 DEF Knows
          <6>3. x.primary \in late  BY <1>2, <3>1, <3>3, <5>3, <6>2 DEF Knows, v
          <6>. QED  BY <5>3, <6>1, <6>3
        <5>. QED  BY <5>1, <5>2, <5>3
      <4>3. items'[x.target].state # "live" => late = Urls
        BY <1>3, <3>1, <3>2, <3>4 DEF Knows
      <4>4. items'[x.source].state = "live" /\ x.pc = "own" =>
              items'[x.source].url = x.own \/ items'[x.source].url \in late
        BY <1>3, <3>1, <3>2, <3>3, <3>4 DEF Knows
      <4>. QED  BY <3>1, <3>6, <4>1, <4>2, <4>3, <4>4 DEF Knows
    <3>8. Passed(y, items')
      <4>1. UrlsOf(items[x.target]) \subseteq UrlsOf(items'[x.target]) \cup late
        <5>1. CASE x.target # i  BY <1>3, <3>2, <5>1
        <5>2. CASE x.target = i
          <6>1. v \in late  BY <3>1, <3>4, <5>2 DEF Knows
          <6>. QED  BY <1>2, <1>3, <5>2, <6>1 DEF UrlsOf, v
        <5>. QED  BY <5>1, <5>2
      <4>2. items'[x.source].state = "live" =>
              /\ items[x.source].state = "live" /\ items'[x.source].more = items[x.source].more
              /\ items'[x.source].url = items[x.source].url \/ items'[x.source].url \in late
        BY <1>2, <1>3, <3>2, <3>4
      <4>. QED  BY <3>1, <3>3, <3>6, <4>1, <4>2 DEF Passed
    <3>9. y \notin Adds  BY <3>2, <3>6 DEF Adds
    <3>. QED  BY <3>5, <3>6, <3>7, <3>8, <3>9 DEF RequestOK, Requests
  <2>. QED  BY <2>1, <2>6, <2>7, <2>8 DEF Requests
<1>13. unseen' \subseteq SUBSET Ids  BY <1>10 DEF IInv, TypeOK, Pairs
<1>14. request' \in [Editors -> Requests]  BY <1>1, <1>12 DEF RequestOK
<1>15. TypeOK'
  BY <1>0, <1>4, <1>5, <1>6, <1>9, <1>12, <1>13, <1>14, TypedAgain DEF IInv, TypeOK
<1>. QED  BY <1>7, <1>9, <1>11, <1>12, <1>15 DEF IInv

-----------------------------------------------------------------------------

\* The invariant holds at first.
LEMMA InitHolds == ASSUME Init PROVE IInv
<1>1. TypeOK
  <2>1. Merging = {} /\ 0 \in 0..MaxPages /\ 0 \in 0..MaxEdits /\ Merging = {}
    BY ItemStoreAssumption DEF Init, Merging, Idle
  <2>. QED  BY <2>1 DEF Init, TypeOK
<1>2. \A e \in Editors : RequestOK(request[e], items, renamed)  BY IdleOK DEF Init
<1>3. \A s \in Savers : SaverOK(saver[s], items, renamed)  BY DEF Init, SaverOK, Saves, Checking
<1>4. StoriesOnce /\ SourcesDiffer
  BY DEF Init, StoriesOnce, SourcesDiffer, Live, NoItem, Checking
<1>. QED  BY <1>1, <1>2, <1>3, <1>4 DEF IInv

\* Every step keeps the invariant.
LEMMA StepKeeps == ASSUME IInv, [Next]_vars PROVE IInv'
<1>1. CASE UNCHANGED vars
  <2>1. Changes(None, None, {}) /\ ~Grows /\ SourcesDiffer'  BY <1>1, Untouched DEF vars
  <2>2. \A e \in Editors : RequestOK(request'[e], items', renamed')  BY <1>1, <2>1, RequestsStay DEF vars
  <2>. QED  BY <1>1, <2>1, <2>2, Typed, Again DEF vars, Changes, IInv, TypeOK
<1>. QED
  BY <1>1, CheckKeeps, InsertKeeps, AttachKeeps, SavingFailsKeeps, MergeKeeps, MoveOwnKeeps,
     ListUrlsKeeps, CopyUrlKeeps, DeleteSourceKeeps, RequestFailsKeeps, AddUrlKeeps,
     AddedUrlKeeps, RemoveUrlKeeps, DeleteItemKeeps, CreateItemKeeps, EditItemKeeps
     DEF Next

\* The invariant always holds.
THEOREM Invariance == Spec => []IInv
<1>1. Init => IInv  BY InitHolds
<1>2. IInv /\ [Next]_vars => IInv'  BY StepKeeps
<1>. QED  BY <1>1, <1>2, PTL DEF Spec

\* Every variable keeps its type (poi_news, poi_events and those who write to them).
THEOREM TypeCorrect == Spec => []TypeOK
<1>1. IInv => TypeOK  BY DEF IInv
<1>. QED  BY <1>1, Invariance, PTL

\* A page that the lookup would find is stored again only when the item was written after
\* the lookup, or an editor wrote one of the two, and no two news items have one URL
\* (saveNewsItems, saveEventItems).
THEOREM StoriesAreStoredOnce == Spec => []StoriesOnce
<1>1. IInv => StoriesOnce  BY DEF IInv
<1>. QED  BY <1>1, Invariance, PTL

\* No item has its own URL among the additional ones, unless an editor gave it that one
\* later (mergeItems, addItemUrl and the INSERTs of saveNewsItems and saveEventItems).
THEOREM SourcesAreCounted == Spec => []SourcesDiffer
<1>1. IInv => SourcesDiffer  BY DEF IInv
<1>. QED  BY <1>1, Invariance, PTL

\* A merge that copies goes on until it deletes its source or fails.
LEMMA MergeEnds ==
    ASSUME IInv, [Next]_vars, NEW e \in Editors, request[e].pc = "copy", request'[e].pc # "copy"
    PROVE  DeleteSource(e) \/ RequestFails(e)
<1>. SUFFICES ASSUME ~DeleteSource(e), ~RequestFails(e) PROVE FALSE  OBVIOUS
<1>0. request[e] \in Merges  BY MergeOf
<1>1. ASSUME NEW req, req[e] \in Merges, req[e].pc = "copy", NEW gained, NEW lost, NEW us
      PROVE  request' # Late(req, gained, lost, us)
  <2>1. Late(req, gained, lost, us)[e].pc = "copy"  BY <1>1 DEF Late, Merges
  <2>. QED  BY <2>1
<1>2. request[e].pc = "copy" /\ ~(request[e] = Idle) /\ request' # request  BY DEF Idle
<1>3. ASSUME NEW x, NEW q \in Editors, q # e
      PROVE  [request EXCEPT ![q] = x][e] = request[e]
  BY <1>3, Typed
<1>4. ASSUME NEW s \in Savers PROVE ~(Check(s) \/ Insert(s) \/ Attach(s) \/ SavingFails(s))
  BY <1>0, <1>1, <1>2 DEF Check, Insert, Attach, SavingFails
<1>5. ASSUME NEW q \in Editors, MoveOwn(q) PROVE FALSE
  <2>1. q # e  BY <1>5 DEF MoveOwn
  <2>. DEFINE next == [request EXCEPT ![q].pc = "list", ![q].own = request[q].primary]
  <2>2. next[e] \in Merges /\ next[e].pc = "copy"  BY <1>0, <2>1, Typed
  <2>3. request' = next \/ request' = Late(next, request[q].target, None, {request[q].own})
    BY <1>5 DEF MoveOwn
  <2>. HIDE DEF next
  <2>. QED  BY <1>1, <2>2, <2>3
<1>6. ASSUME NEW q \in Editors, CopyUrl(q) PROVE FALSE
  <2>1. PICK u : request' = Late([request EXCEPT ![q].todo = @ \ {u}], request[q].target, None, {u})
    BY <1>6 DEF CopyUrl
  <2>. DEFINE req == [request EXCEPT ![q].todo = @ \ {u}]
  <2>3. req[e] \in Merges /\ req[e].pc = "copy"
    <3>1. CASE q = e
      <4>1. req[e] = [request[e] EXCEPT !.todo = @ \ {u}]  BY <3>1, Typed
      <4>. QED  BY <1>0, <4>1 DEF Merges
    <3>2. CASE q # e  BY <1>0, <3>2, Typed
    <3>. QED  BY <3>1, <3>2
  <2>. HIDE DEF req
  <2>. QED  BY <1>1, <2>1, <2>3 DEF req
<1>7. ASSUME NEW q \in Editors, q # e, DeleteSource(q) \/ AddedUrl(q) PROVE FALSE
  <2>. DEFINE req == [request EXCEPT ![q] = Idle]
  <2>1. req[e] \in Merges /\ req[e].pc = "copy"  BY <1>0, <1>7, Typed
  <2>2. \E i, j, us : request' = Late(req, i, j, us)  BY <1>7 DEF DeleteSource, AddedUrl
  <2>. HIDE DEF req
  <2>. QED  BY <1>1, <2>1, <2>2
<1>8. ASSUME NEW q \in Editors, Merge(q) \/ ListUrls(q) \/ RequestFails(q) \/ AddUrl(q) PROVE FALSE
  <2>1. q # e  BY <1>8, <1>2 DEF Merge, ListUrls, AddUrl
  <2>. QED  BY <1>8, <2>1, Typed DEF Merge, ListUrls, RequestFails, AddUrl
<1>9. ~AddedUrl(e)  BY DEF AddedUrl
<1>10. ~RemoveUrl /\ ~DeleteItem /\ ~CreateItem
  BY <1>0, <1>1, <1>2 DEF RemoveUrl, DeleteItem, CreateItem
<1>12. ~EditItem
  <2>. SUFFICES ASSUME EditItem PROVE FALSE  OBVIOUS
  <2>1. PICK i, u : request' = [q \in Editors |->
              IF q \in Merging /\ request[q].source = i
              THEN [request[q] EXCEPT !.late = @ \cup {u}]
              ELSE IF q \in Merging /\ request[q].target = i
              THEN [request[q] EXCEPT !.late = @ \cup {items[i].url}] ELSE request[q]]
    BY DEF EditItem
  <2>2. request'[e].pc = request[e].pc  BY <1>0, <2>1 DEF Merges
  <2>. QED  BY <2>2
<1>11. ~UNCHANGED vars  BY <1>2 DEF vars
<1>. QED  BY <1>4, <1>5, <1>6, <1>7, <1>8, <1>9, <1>10, <1>11, <1>12 DEF Next

\* A merge deletes an item only when its URLs are with the target, but for those that came
\* or went behind its back (mergeItems).
THEOREM MergesKeepUrls == Spec => MergeKeepsUrls
<1>1. ASSUME IInv, [Next]_vars, NEW e \in Merging,
             request[e].pc = "copy", request[e].todo = {}, request'[e] = Idle,
             items'[request[e].source] # items[request[e].source]
      PROVE  UrlsOf(items[request[e].source]) \ request[e].late
             \subseteq UrlsOf(items'[request[e].target])
  <2>. DEFINE r == request[e]
  <2>0. e \in Editors  BY DEF Merging
  <2>1. r \in Merges /\ Knows(r, items, renamed) /\ Passed(r, items)  BY <1>1, <2>0, MergeOf
  <2>2. UrlsOf(items[r.source]) \subseteq r.late \cup UrlsOf(items[r.target])
    BY <1>1, <2>1 DEF Passed, UrlsOf
  <2>3. DeleteRow(r.source)
    <3>1. request'[e].pc # "copy"  BY <1>1 DEF Idle
    <3>. QED  BY <1>1, <2>0, <3>1, MergeEnds DEF DeleteSource, RequestFails, vars
  <2>4. items'[r.target] = items[r.target]
    BY <2>1, <2>3, Typed DEF DeleteRow, Knows, Merges
  <2>. QED  BY <2>2, <2>4
<1>2. IInv /\ [Next]_vars =>
        [\A e \in Merging :
          (request[e].pc = "copy" /\ request[e].todo = {} /\ request'[e] = Idle
           /\ items'[request[e].source] # items[request[e].source])
          => UrlsOf(items[request[e].source]) \ request[e].late
             \subseteq UrlsOf(items'[request[e].target])]_vars
  BY <1>1
<1>. QED  BY <1>2, Invariance, PTL DEF Spec, MergeKeepsUrls
=============================================================================
