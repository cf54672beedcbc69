------------------------------ MODULE ItemStore ------------------------------
(***************************************************************************)
(* The rows of poi_news or of poi_events of one POI, with the additional   *)
(* URLs of poi_news_urls or poi_event_urls: collections save what they     *)
(* found (saveNewsItems, saveEventItems of newsService.js) while editors   *)
(* write, merge and delete items, and add and remove URLs (createItem,     *)
(* editAndPublish, mergeItems, addItemUrl and removeItemUrl of             *)
(* moderationService.js, routes/admin.js).  Nothing runs in a transaction: *)
(* every query is a step, and in between another collection or another     *)
(* request may write.                                                      *)
(*                                                                         *)
(* A collection saves one page after the other:                            *)
(*   "check"  nothing under way, the next page to be looked up             *)
(*   "insert" no item matched      "attach" item `match` did               *)
(* A request of an editor:                                                 *)
(*   "idle"   none                 "add"  awaiting the INSERT of a URL     *)
(*   "own"    a merge, before the source's own URL is inserted             *)
(*   "list"   before its additional URLs are read                          *)
(*   "copy"   URLs `todo` to be inserted, then the source to be deleted    *)
(*                                                                         *)
(* URLs are as written.  The lookup compares what normalizeUrl makes of    *)
(* the URL of a page with what SQL makes of the stored one, and these      *)
(* differ: only the first drops a fragment and the slash before a query.   *)
(* A title stands for title and day of an event.  Pages without URL or     *)
(* date, and items moved to another POI, are left out.                     *)
(***************************************************************************)
EXTENDS Naturals, FiniteSets

CONSTANTS
    Urls, Titles,
    NormalUrl(_),      \* normalizeUrl
    SqlUrl(_),         \* LOWER(REGEXP_REPLACE(source_url, '/+$', ''))
    TitleMatch(_, _),  \* a stored title matches that of a page
    Savers,     \* collections that may run at the same time
    Editors,    \* requests that may run at the same time
    MaxItems,   \* bound: rows ever inserted
    MaxPages,   \* bound: pages looked up
    MaxEdits    \* bound: failures, and edits other than merges

ASSUME ItemStoreAssumption == {MaxItems, MaxPages, MaxEdits} \subseteq Nat /\ IsFiniteSet(Urls)

Ids == 1..MaxItems

VARIABLES
    kind,       \* the table: "news" or "event"
    items,      \* the rows, by id
    saver,      \* the collections
    request,    \* the editors' requests
    unseen,     \* history: pairs of rows of which one was written when the other was not
                \* looked up any more, or was not looked up at all
    renamed,    \* history: rows to which an editor gave an own URL that they had already,
                \* or a new one while somebody was about to add a URL
    pages, edits

vars == <<kind, items, saver, request, unseen, renamed, pages, edits>>

NoItem == [state |-> "none"]
Deleted == [state |-> "deleted"]
Live(i) == items[i].state = "live"
UrlsOf(item) == IF item.state = "live" THEN {item.url} \cup item.more ELSE {}

Checking == [pc |-> "check"]
Idle == [pc |-> "idle"]
Merging == {e \in Editors : request[e].pc \in {"own", "list", "copy"}}

TypeOK ==
    /\ kind \in {"news", "event"}
    /\ items \in [Ids -> {NoItem, Deleted}
                         \cup [state : {"live"}, url : Urls, title : Titles, more : SUBSET Urls]]
    /\ \A i \in Ids : items[i] = NoItem => \A j \in Ids : j > i => items[j] = NoItem
    /\ saver \in [Savers -> {Checking} \cup [pc : {"insert"}, url : Urls, title : Titles,
                                             since : SUBSET Ids]
                            \cup [pc : {"attach"}, url : Urls, match : Ids]]
    /\ request \in [Editors -> {Idle} \cup [pc : {"add"}, item : Ids, url : Urls]
                               \cup [pc : {"own", "list", "copy"}, source : Ids, target : Ids,
                                     own : Urls, primary : Urls, todo : SUBSET Urls, late : SUBSET Urls]]
    /\ \A e \in Merging : request[e].source # request[e].target
    /\ unseen \subseteq SUBSET Ids /\ renamed \subseteq Ids
    /\ pages \in 0..MaxPages /\ edits \in 0..MaxEdits

Init ==
    /\ kind \in {"news", "event"}
    /\ items = [i \in Ids |-> NoItem]
    /\ saver = [s \in Savers |-> Checking]
    /\ request = [e \in Editors |-> Idle]
    /\ unseen = {} /\ renamed = {}
    /\ pages = 0 /\ edits = 0

\* History: the merges of which u is late, for their source got it after its URLs
\* were listed, or their target has lost it again.
Late(req, gained, lost, us) ==
    [e \in Editors |->
        IF \/ e \in Merging /\ req[e].pc = "copy" /\ req[e].source = gained
           \/ e \in Merging /\ req[e].pc \in {"own", "list", "copy"} /\ req[e].target = lost
        THEN [req[e] EXCEPT !.late = @ \cup us] ELSE req[e]]
None == 0

Edit == edits < MaxEdits /\ edits' = edits + 1

-----------------------------------------------------------------------------
(* saveNewsItems, saveEventItems.                                          *)

\* mutant: the title is not looked for.
Matches_Url(u, t) == {i \in Ids : Live(i) /\ SqlUrl(items[i].url) = NormalUrl(u)}

\* The lookup of a page finds an item with this URL and title; its additional URLs are
\* not looked at.
Finds(u, t, item) == SqlUrl(item.url) = NormalUrl(u) \/ TitleMatch(item.title, t)
Matches(u, t) == {i \in Ids : Live(i) /\ Finds(u, t, items[i])}

\* The query returns the matching rows in any order, and the first counts.  A page that
\* it has under the same URL is skipped.
Check(s) ==
    /\ saver[s] = Checking
    /\ pages < MaxPages /\ pages' = pages + 1
    /\ \E u \in Urls, t \in Titles :
         IF Matches(u, t) = {}
         THEN saver' = [saver EXCEPT ![s] = [pc |-> "insert", url |-> u, title |-> t, since |-> {}]]
         ELSE \E i \in Matches(u, t) :
                /\ NormalUrl(items[i].url) # NormalUrl(u)
                /\ saver' = [saver EXCEPT ![s] = [pc |-> "attach", url |-> u, match |-> i]]
    /\ UNCHANGED <<kind, items, request, unseen, renamed, edits>>

\* poi_news has a unique index, and an INSERT by a collection does nothing on a
\* conflict; poi_events has none.
Conflicts(i, u) ==
    kind = "news" /\ \E j \in Ids \ {i} : Live(j) /\ SqlUrl(items[j].url) = SqlUrl(u)

\* Row i, the first that is free, is inserted.
NewRow(i, u, t) ==
    /\ items[i] = NoItem /\ \A j \in 1..(i - 1) : items[j] # NoItem
    /\ items' = [items EXCEPT ![i] = [state |-> "live", url |-> u, title |-> t, more |-> {}]]

\* History: the collections of sv that looked their page up did not see i as it is now.
Missed(sv, i) ==
    [s \in Savers |-> IF sv[s].pc = "insert" THEN [sv[s] EXCEPT !.since = @ \cup {i}] ELSE sv[s]]
Pairs(i, js) == {{i, j} : j \in js}

Insert(s) ==
    /\ saver[s].pc = "insert"
    /\ \E i \in Ids :
         IF Conflicts(i, saver[s].url)
         THEN saver' = [saver EXCEPT ![s] = Checking] /\ UNCHANGED <<items, unseen>>
         ELSE /\ NewRow(i, saver[s].url, saver[s].title)
              /\ saver' = Missed([saver EXCEPT ![s] = Checking], i)
              /\ unseen' = unseen \cup Pairs(i, saver[s].since)
    /\ UNCHANGED <<kind, request, renamed, pages, edits>>

\* A foreign key: the INSERT fails when the item has gone.
Attach(s) ==
    /\ saver[s].pc = "attach" /\ Live(saver[s].match)
    /\ items' = [items EXCEPT ![saver[s].match].more = @ \cup {saver[s].url}]
    /\ request' = Late(request, saver[s].match, None, {saver[s].url})
    /\ saver' = [saver EXCEPT ![s] = Checking]
    /\ UNCHANGED <<kind, unseen, renamed, pages, edits>>

\* An item that cannot be saved is logged and skipped.
SavingFails(s) ==
    /\ Edit
    /\ saver[s] # Checking
    /\ saver' = [saver EXCEPT ![s] = Checking]
    /\ UNCHANGED <<kind, items, request, unseen, renamed, pages>>

-----------------------------------------------------------------------------
(* The editors' requests.                                                  *)

\* POST /moderation/merge: both rows are read.
Merge(e) ==
    /\ request[e] = Idle
    /\ \E i, j \in Ids :
         /\ i # j /\ Live(i) /\ Live(j)
         /\ request' = [request EXCEPT ![e] = [pc |-> "own", source |-> i, target |-> j,
                                               own |-> items[i].url, primary |-> items[j].url,
                                               todo |-> {}, late |-> {}]]
    /\ UNCHANGED <<kind, items, saver, unseen, renamed, pages, edits>>

\* Item i gets u unless it has it, letter by letter; it must be there.
PutUrl(i, u) == Live(i) /\ items' = [items EXCEPT ![i].more = @ \cup {u}]

\* mutant: the source's additional URLs only are moved.
MoveOwn_Forgotten(e) ==
    /\ request[e].pc = "own"
    /\ request' = [request EXCEPT ![e].pc = "list"]
    /\ UNCHANGED <<kind, items, saver, unseen, renamed, pages, edits>>

MoveOwn(e) ==
    /\ request[e].pc = "own"
    /\ LET r == request[e]
           next == [request EXCEPT ![e].pc = "list", ![e].own = r.primary]
       IN IF r.own = r.primary
          THEN request' = next /\ UNCHANGED items
          ELSE PutUrl(r.target, r.own) /\ request' = Late(next, r.target, None, {r.own})
    /\ UNCHANGED <<kind, saver, unseen, renamed, pages, edits>>

\* mutant: the target's own URL is copied with the others.
ListUrls_All(e) ==
    /\ request[e].pc = "list"
    /\ LET r == request[e]
       IN request' = [request EXCEPT ![e].pc = "copy",
                                     ![e].todo = IF Live(r.source) THEN items[r.source].more ELSE {}]
    /\ UNCHANGED <<kind, items, saver, unseen, renamed, pages, edits>>

ListUrls(e) ==
    /\ request[e].pc = "list"
    /\ LET r == request[e]
       IN request' = [request EXCEPT ![e].pc = "copy",
                                     ![e].todo = IF Live(r.source) THEN items[r.source].more \ {r.primary}
                                                 ELSE {}]
    /\ UNCHANGED <<kind, items, saver, unseen, renamed, pages, edits>>

CopyUrl(e) ==
    /\ request[e].pc = "copy"
    /\ \E u \in request[e].todo :
         /\ PutUrl(request[e].target, u)
         /\ request' = Late([request EXCEPT ![e].todo = @ \ {u}], request[e].target, None, {u})
    /\ UNCHANGED <<kind, saver, unseen, renamed, pages, edits>>

\* The additional URLs go with the row.
DeleteRow(i) == items' = [items EXCEPT ![i] = IF @ = NoItem THEN @ ELSE Deleted]

DeleteSource(e) ==
    /\ request[e].pc = "copy" /\ request[e].todo = {}
    /\ DeleteRow(request[e].source)
    /\ request' = Late([request EXCEPT ![e] = Idle], None, request[e].source, Urls)
    /\ UNCHANGED <<kind, saver, unseen, renamed, pages, edits>>

\* A query fails, or the server stops: what is written stays.
RequestFails(e) ==
    /\ Edit
    /\ request[e] # Idle
    /\ request' = [request EXCEPT ![e] = Idle]
    /\ UNCHANGED <<kind, items, saver, unseen, renamed, pages>>

\* POST /moderation/add-url: not the URL the item has of its own.
AddUrl(e) ==
    /\ Edit
    /\ request[e] = Idle
    /\ \E i \in Ids, u \in Urls :
         /\ Live(i) /\ items[i].url # u
         /\ request' = [request EXCEPT ![e] = [pc |-> "add", item |-> i, url |-> u]]
    /\ UNCHANGED <<kind, items, saver, unseen, renamed, pages>>

AddedUrl(e) ==
    /\ request[e].pc = "add"
    /\ PutUrl(request[e].item, request[e].url)
    /\ request' = Late([request EXCEPT ![e] = Idle], request[e].item, None, {request[e].url})
    /\ UNCHANGED <<kind, saver, unseen, renamed, pages, edits>>

\* POST /moderation/remove-url
RemoveUrl ==
    /\ Edit
    /\ \E i \in Ids : /\ Live(i)
                      /\ \E u \in items[i].more :
                           /\ items' = [items EXCEPT ![i].more = @ \ {u}]
                           /\ request' = Late(request, None, i, {u})
    /\ UNCHANGED <<kind, saver, unseen, renamed, pages>>

\* DELETE /news/:id, DELETE /events/:id
DeleteItem ==
    /\ Edit
    /\ \E i \in Ids : /\ Live(i)
                      /\ DeleteRow(i)
                      /\ request' = Late(request, None, i, Urls)
    /\ UNCHANGED <<kind, saver, unseen, renamed, pages>>

\* What an editor writes, no lookup compares with what is there.
Written(i) ==
    /\ saver' = Missed(saver, i)
    /\ unseen' = unseen \cup Pairs(i, {j \in Ids \ {i} : Live(j)})

\* POST /moderation/create, POST /news, POST /events
CreateItem ==
    /\ Edit
    /\ \E i \in Ids, u \in Urls, t \in Titles :
         /\ ~Conflicts(i, u)
         /\ NewRow(i, u, t)
         /\ Written(i)
    /\ UNCHANGED <<kind, request, renamed, pages>>

\* Somebody read item i and is about to give it a URL.
Getting(i) ==
    \/ \E s \in Savers : saver[s].pc = "attach" /\ saver[s].match = i
    \/ \E e \in Editors : request[e].pc = "add" /\ request[e].item = i
    \/ \E e \in Merging : request[e].target = i

\* POST /moderation/edit-publish, POST /moderation/save: one UPDATE, of a row nobody read.
EditItem ==
    /\ Edit
    /\ \E i \in Ids, u \in Urls, t \in Titles :
         /\ Live(i) /\ ~Conflicts(i, u)
         /\ items' = [items EXCEPT ![i].url = u, ![i].title = t]
         /\ Written(i)
         /\ renamed' = renamed \cup
              (IF u # items[i].url /\ (u \in items[i].more \/ Getting(i)) THEN {i} ELSE {})
         /\ request' = [e \in Editors |->
              IF e \in Merging /\ request[e].source = i
              THEN [request[e] EXCEPT !.late = @ \cup {u}]
              ELSE IF e \in Merging /\ request[e].target = i
              THEN [request[e] EXCEPT !.late = @ \cup {items[i].url}] ELSE request[e]]
    /\ UNCHANGED <<kind, pages>>

-----------------------------------------------------------------------------
Next ==
    \/ \E s \in Savers : Check(s) \/ Insert(s) \/ Attach(s) \/ SavingFails(s)
    \/ \E e \in Editors : \/ Merge(e) \/ MoveOwn(e) \/ ListUrls(e) \/ CopyUrl(e)
                          \/ DeleteSource(e) \/ RequestFails(e)
                          \/ AddUrl(e) \/ AddedUrl(e)
    \/ RemoveUrl
    \/ DeleteItem
    \/ CreateItem \/ EditItem

Spec == Init /\ [][Next]_vars

-----------------------------------------------------------------------------
(* Properties.                                                             *)

\* A page is not stored when the lookup would find it in an item that is there, unless
\* that item was written after the lookup, or an editor wrote one of the two; two news
\* items never have one URL (saveNewsItems, saveEventItems, migration 069).
StoriesOnce ==
    \A i, j \in Ids : (i < j /\ Live(i) /\ Live(j)) =>
        /\ Finds(items[j].url, items[j].title, items[i]) => {i, j} \in unseen
        /\ SqlUrl(items[i].url) = SqlUrl(items[j].url) => kind = "event"

\* docs/NEWS_EVENTS_ARCHITECTURE.md:55, "dedupe by normalized URL": the lookup does not
\* find the normalized URL of a page in every item that has it.  ItemStore_again.cfg ends
\* with the counterexample.
UrlsOnce ==
    \A i, j \in Ids : (i # j /\ Live(i) /\ Live(j)
                       /\ NormalUrl(items[i].url) = NormalUrl(items[j].url)) => {i, j} \in unseen

\* Whatever was merged, added and collected in whatever order, no item has its own URL,
\* letter by letter, among the additional ones as well, unless an editor gave it that one
\* later: the site counts the sources of a story.
SourcesDiffer == \A i \in Ids \ renamed : Live(i) => items[i].url \notin items[i].more

\* A merge deletes an item only when all its URLs are with the target, but for those
\* that the item got, or the target lost, behind its back (mergeItems).
MergeKeepsUrls ==
    [][\A e \in Merging :
          (request[e].pc = "copy" /\ request[e].todo = {} /\ request'[e] = Idle
           /\ items'[request[e].source] # items[request[e].source])
          => UrlsOf(items[request[e].source]) \ request[e].late
             \subseteq UrlsOf(items'[request[e].target])]_vars

=============================================================================
