# TLA+ specifications of Roots of The Valley

Roots of The Valley (ROTV) is a Node.js server with a React frontend that keeps
a map of points of interest (POIs) and fills it with news, events and trail
conditions it collects from the web. These modules specify the parts of it
whose correctness depends on the order of events: what runs concurrently in the
server's single process, what survives a crash, and what a retry may repeat.

Line numbers refer to the files under `src/` as they stood when a definition
was written; `PROJECT.json` ("map") gives them for every definition.

## 1. The system

### Components

| Component | State it keeps | Operations | What makes it hard | What makes it correct |
|---|---|---|---|---|
| Batch runner, `services/collection/BatchRunner.js` | `nextIndex`, `inFlight`, `cancelled`, `results`, the promise `allDone` | `runBatch`: chains of `processNext` | chains interleave at every await; whoever is last must resolve | every item once; "completed" only when all ended; the call returns |
| News collection job, `services/newsService.js` | a row of `news_job_status` (status, processed ids), ids known to the run | create, process, checkpoint, cancel, close, fail, resume | crash, redelivery, overlapping runs, failing queries | nothing is counted that was not collected; open jobs are closed; a restart leaves none behind |
| Job scheduler, `services/jobScheduler.js` (over pg-boss) | queues, messages, retries | send, work, schedule | at-least-once delivery, expiry | each open job has somebody to work on it |
| Startup and shutdown, `server.js` | none of its own | fail abandoned jobs, start the scheduler, resume | order and time between the steps | as above |
| Browser pool, `services/browserPool.js` | per egress: browser, `refCount`, `closeTimer`, `launchPromise`; watchdogs | acquire, release, health check, kill | timers, a launch others wait for, kills while others hold the browser | the count is exact; a browser in use is not closed for idleness; an idle one is |
| Trail status job, `services/trailStatusService.js` | a row of `trail_status_job_status`, saved statuses | start, process, cancel, fail abandoned, collect one POI | redelivery, single collections beside the job, no cancellation check | what is recorded was settled; jobs are closed; a status is stored once unless collections overlap or a field is omitted |
| Collection tracker, `services/collection/CollectionTracker.js` | per-POI progress, display slots per job | update, assign, cancel, poll | a slot is chosen and assigned in two steps, progress is shared by collectors | a slot that was taken is freed |
| Job logger, `services/jobLogger.js` | buffer of log lines, flush timer | log, flush, stop | flushes overlap and fail | a line is stored at most once |
| Moderation, `services/moderationService.js`, `filterLists.js` | status of every item in the queue, deny lists | sweep, approve, reject, requeue, deny, merge | two sweeps and the admins on the same rows; votes take seconds | twins are published once; decisions stand; what the deny sweep matches leaves the site; no item waits for ever |
| Newsletter ingestion, `services/newsletterService.js`, `routes/newsletter.js` | received emails, sources, jobs | receive, queue, process, triage, reprocess | triage between the worker's queries, retries, a job that expires under its run | an email of an accepted sender is processed |
| Newsletter digest, `services/newsletterDigestService.js`, `buttondownClient.js` | the draft of the day, the log, Buttondown's emails | draft, schedule, mail the favorites, preview | failures between the provider and the log, lost answers, retries | one broadcast a day, and the favorites after it |
| Stored items, `newsService.js` (saving), `moderationService.js` (merging) | `poi_news`, `poi_events` and their URLs | save, merge, add and remove URLs, delete | no transactions | a story is stored once; a merge keeps its URLs |
| Accounts and sessions, `routes/auth*.js`, `services/emailLogin.js`, `signupNewsletter.js`, `accountDeletion.js`, `unconfirmedCleanup.js` | users, identities, links, sessions, newsletter rows | sign up, confirm, sign in, hand off the opt-in, delete, clean up | several queries per request, two requests at a time | no confirmed account is cleaned up; an opt-in reaches Buttondown only of confirmed accounts, and does; nothing is left of a deleted one |
| Remote login session, `services/remoteLoginSession.js` | one interactive browser session | start, act, finish, time out | timers against requests | one session at a time, always closed |
| Egress routes, `services/egressRoutes.js` | the route of each site and its failures | choose, report, fail over | concurrent crawls report on one site | a site that is blocked moves on to the next route |
| Page rendering, `jsRenderer.js`, `contentExtractor.js`, `renderPage.js` | page cache | render, cache | timeouts against late answers | every acquisition is released |
| Deduplication and dates, `services/dedup/`, `dateExtractor.js` | none | pure functions | ties and missing data | symmetric, stable decisions |
| Event series, POI merge, lists, trips, favorites | rows | transactions | partial failure | rows are moved or kept, never lost |
| Live trackers, `waterTaxiTrackerService.js`, `trainTrackerService.js` | last position, verdict, poll timer | poll, stop | late answers | a stale position is not shown as live |
| Frontend, image server | browser and file state | see the source | login merges anonymous data | nothing of it is lost |

### How they interact

An admin request (`POST /news/collect`, `/news/collect-batch`) inserts a job row
and then sends a pg-boss message that names it. The worker that
`registerBatchNewsHandler` attached receives the message and calls
`processNewsCollectionJob`; the scheduled pipelines insert the row and call it
directly through `setImmediate`. The handler reads the row, calls `runBatch`
with the POIs that are not processed yet, writes a checkpoint after each, and
closes the row. `runBatch` knows the job only through its callbacks:
`checkCancelled` reads the row, `collectFn` crawls through the browser pool,
`checkpointFn` writes the row. An admin's cancellation only updates the row.
At startup the server fails the jobs that are too old, starts pg-boss, and sends
a new message for each young job that is still open; messages of the previous
process are redelivered by pg-boss as well.

The trail status job goes the same way with a queue, a row and a tracker of its
own, and an admin can collect a single POI beside it. What collections find is
saved as pending rows of `poi_news` and `poi_events`; the moderation sweep
publishes or rejects them or leaves them to an admin. The SMTP server feeds the
newsletter queue, whose worker collects from the mail as from a page. On Fridays
the digest takes what is published to Buttondown. The hand-off of a sign-up's
opt-in is what adds subscribers there.

All of it runs in one Node.js process: code between two awaits is atomic, and
only database queries, timers, promises and the crash of the process interleave.
There is one process per database.

## 2. The modules

| Module | Models | Uses |
|---|---|---|
| `BatchPromise` | what `runBatch` promises its callers, without its workers and counters | |
| `BatchRunner` | `runBatch`, one step per stretch of code between two awaits | instances of `BatchPromise` and of `CollectionJob`, each under a refinement mapping |
| `BatchRunnerProofs` | theorems about `BatchRunner` | extends it |
| `CollectionJob` | one news collection job with its row, messages, runs, server and requests | abstracts the batch to counted workers, as `BatchRunner` shows it may |
| `MCCollectionJob` | symmetry for TLC | extends `CollectionJob` |
| `CollectionJobProofs` | theorems about `CollectionJob` | extends it |
| `BrowserPool` | the browser of one egress | |
| `BrowserPoolProofs` | theorems about `BrowserPool` | extends it |
| `TrailJob` | the trail status job, single collections, the tracker's slots, the saved statuses | abstracts the batch as `CollectionJob` does |
| `TrailJobProofs` | theorems about `TrailJob` | extends it |
| `Moderation` | two sweeps and the admins over the items of the queue | |
| `ModerationProofs` | theorems about `Moderation` | extends it |
| `Digest` | the broadcast, the favorites' mails and the preview of one Friday | |
| `Inbox` | the variables of `Ingestion` and what is asked of them | |
| `Ingestion` | newsletters of one sender from SMTP to their processing | extends `Inbox` |
| `NewsletterProofs` | theorems about `Digest` and, apart from them, about `Ingestion` | extends `Digest` and `Inbox`, instance `In` of `Ingestion` |
| `ItemStore` | the rows of one POI with their URLs: collections against editors | takes what `Ingestion` and `CollectionJob` leave out |
| `MCItemStore` | symmetry for TLC | extends `ItemStore` |
| `ItemStoreProofs` | theorems about `ItemStore` | extends it |
| `Account` | the accounts of one address | |
| `AccountProofs` | theorems about `Account` | extends it |

**BatchRunner.** `pc[w]` is the await at which chain `w` stands; `nextIndex`,
`inFlight`, `cancelled` and `results` are the variables of `runBatch`, and
`returned` is what the call returned. The code's `items[index]` is item
`index + 1`. `ReadStatus` (the query is executed) and `ResumeCheck` (the await
resumes) are separate steps, because the row may change in between.
`FailStatusRead` is a rejecting query: nothing in `processNext` catches it.
`jobCancelled` is the part of the job row that `runBatch` can see, and
`staleClaims` is a history variable. The operators whose comment says "mutant"
are alternatives to the definition after them, in which a plausible bug was put;
they are not part of the specification, and each shows that some property
notices that bug.

The module ends with its two refinements. `Promise` is `runBatch` as its callers see
it. `Job` is `CollectionJob`, whose run has counters in the place of chains: `JobRun` is
the run that belongs to a state of the chains, with the held items before their
checkpoint as `running` and those at it as `writes`, the chains that may claim as
`permits` (from the read that let them through) and those that wait to ask as `idle`.
Of the row only its cancellation is taken over; what a run records is data that no
step of the batch looks at, and is all the items. `StepsOfJob` says that each step of
the chains is then one of the actions of `CollectionJob` for a batch, or nothing.

**CollectionJob.** `row` is the row; `message` the pg-boss messages with that
job's id; `run` the executions of `processNewsCollectionJob` in this process, of
which there may be two when a delivery expired; `server` the phase of `start()`.
The batch inside a run has its workers counted by what they wait for (`idle`,
`permits`, `running`, `writes`), since they differ in nothing else. A query and
the code that follows it up to the next query are one step. `writes` holds the
checkpoints sent and not yet executed, which the database may execute in any
order. `MayFail` names the queries that may reject in a run, those of the startup
included: a failure before the job's worker is registered leaves the server `"degraded"`
(`SchedulerFails`), a later one leaves it `"up"` with nothing resumed (`ResumeFails`).
The overload
branch of `checkpointFn` (newsService.js:1790-1806) is not an action:
`collectPoi` catches `BrowserOverloadError` itself, so the branch is not reached.
`GrowOld` is the moment `created_at` falls more than an hour behind.

**BrowserPool.** `slot` is the slot of the key, `user` a render and `watchdog`
the entry of its acquisition. Launches are named by the browser they will
produce, so that a launch forgotten by a kill is still there. `strays` counts
close timers that were armed and then overwritten in `slot.closeTimer`: nobody
can clear them, but they fire. A browser is `"closing"` while its `close()` is awaited:
the slot was emptied before, so that an acquire may launch the next one meanwhile; a
`close()` that rejects leaves the browser as it was, and nobody tries again. Two history
variables: `forgotten`, the launches that were pending when the slot was killed, and
`unclosed`, the browsers whose `close()` rejected.

**TrailJob.** `row`, `message` and `run` are as in `CollectionJob`, with one run
and one message. `task[c][p]` is the collection of POI `p` by the job (`"run"`) or
by an admin (`"admin"`), and stands at one of its awaits. `progress` is the map
`collectionProgress`, which both share by POI, and `slots` the job's slots with
status `active`. `latest[p]` is the last row of `trail_status`; `read` in a task is
the id of the row it compared with. A status is what is stored; those in `Blank` have a
NULL among the compared fields, and `omits` tells that the model left that field out, so
that it is `undefined` in the comparison. `"query"` is the await of `collectFn`'s own query
for the POI, which comes after `onItemStart` has taken the slot: when it fails, or the POI
was wiped, the item settles with its entry uncompleted. `kept` are the slots of such entries.

**Moderation.** `item[i]` is a row: `"absent"` before it is collected, `"gone"` once
it is deleted; `by` tells who decided last. `Examine` joins the queries that precede
the votes, and `WriteVerdict` is the UPDATE after them with any of the outcomes the gates
leave. `late[s]` are the items an admin has decided since sweep `s` listed them, and
`overlapped` says that both sweeps held a twin at one time: the two exceptions the
properties name. `DeniedBySweep` and `DeniedByItem` are what the two matches of the deny
lists, the UPDATE of a sweep and the test of one item, find.

**Digest.** A `message` is a pg-boss job, `handler` an execution of a worker, which
may outlive its job (`live` is FALSE then). `emails` is the state of Buttondown. A
request may fail, or succeed and lose its answer. The log of the day is `logged`,
the only memory a retry has.

**Ingestion.** The variables and `NoneForgotten` are in `Inbox`, so that what is proved
can name them without the constants of `Ingestion`. `mail` is what a sender's server
knows; a refusal makes it deliver again, as a new row. `source` is the row of the
sender's address: nobody knows it, it waits for triage, it is accepted (with a POI or
without) or blocked. An admin's PUT may have a status, a POI, or both, and only
"accepted" with a POI in one body lists what waits. `request` is an admin's request of
several statements. Two history variables name the exceptions: `abandoned`, the emails
whose job failed for good or was not reached by a failing request, and `unlisted`,
those that waited when the sender became ready by a request that lists nothing.

**ItemStore.** A collection is between its search for a stored story and the write
that follows; a merge is before one of its queries. URLs are as written, since merges and
added URLs are compared letter by letter; `NormalUrl` is normalizeUrl, `SqlUrl` what the
lookup and the index make of a stored one, and `TitleMatch` the comparison of titles, any
functions as far as the module and its theorems are concerned. `late` in a merge collects
what happened to its source and target behind its back. Two history variables name the
exceptions: `unseen`, the pairs of rows of which one was written when the other was not
looked up any more, or by an editor, who looks nothing up; and `renamed`, the rows whose
own URL an editor changed to one they had already, or that somebody might be about to add.

**Account.** `account` is the row with the address, or none; ids are never used
again. `request[r]` is a request with the id it read in its first query, so that it
may meet another account, or none, when it writes. `calls[i]` counts what was handed
off to Buttondown. The history variables name the exceptions of the properties: `due`
(accounts ever confirmed while opted in), `failed`, `crossed` (an opt-in made while a
sign-in was confirming) and `overtaken` (deleted during a hand-off).

## 3. What the runs check

| Run | Bounds | Shows |
|---|---|---|
| `BatchRunner_cancel` | 4 items, 3 workers, 2 failing status reads, one cancellation at any time | `CancelStopsClaims`; refinement of `BatchPromise` (`KeepsPromise`) and of the batch in `CollectionJob` (`StepsOfJob`); `Returns` |
| `BatchRunner_lost_chains` | 3 items, 2 workers, 2 failing reads | `Returns` is violated |
| `CollectionJob_safety` | 2 POIs, 2 workers, 2 messages, 2 runs, one crash, one expiry, one failure of any query | `ProcessedWereCollected`, `CompletedMeansCollected`, `OrphanHasCause` |
| `CollectionJob_progress` | 3 POIs, 1 worker, 3 messages, 2 crashes, 2 failures, none of them of the resume, no expiry, no ageing during the startup | `ProgressIsKept`, `JobCloses`, `StartupLeavesNoOrphan` |
| `CollectionJob_cancel` | no failure, no crash | `CancelIsFinal` is violated |
| `BrowserPool_kill` | 3 renders, 2 crawls, 3 launches, 1 crash, 2 stray timers | `CountsHolders`, `OneBrowser`, `IdleCloseSparesHolders`, `PoolEmpties` |
| `TrailJob_overlap` | 2 POIs, 2 workers, single collections of one POI, a status with an omitted field, one retry, one crash, two failing queries, POIs wiped at any time | `ProcessedWereSettled`, `CompletedMeansSettled`, `SlotsAreFreed`, `OpenIsPursued`, `DuplicatesAreExplained`, `JobCloses` |
| `Moderation_sweeps` | two twins, later denied, one by the sweep's UPDATE alone and one by the test of an item alone, two sweeps of one item each, 2 requests, failures or restarts | `OneTwinAutoPublished`, `DecisionsStand`, `DeniedLeavesSite`, `EveryItemIsModerated` |
| `Digest_retries` | two digest jobs, two preview jobs, one user, one retry, 2 faults | `OneBroadcast`, `FavoritesFollowBroadcast`, `CopiesAreDeliveries`, `PreviewsHaveCause`, `BroadcastGoesOut` |
| `Ingestion_triage` | one newsletter in up to three rows, 2 executions, one retry, 3 requests, 2 faults | `NoneForgotten`, `EmailsAreProcessed` |
| `ItemStore_merges` | 3 rows, 2 URLs and 2 titles, one of each found again and one not, 2 collections, 2 editors, 2 pages, 2 other edits or failures | `StoriesOnce`, `SourcesDiffer`, `MergeKeepsUrls` |
| `Account_lifecycle` | 2 accounts in turn, 2 requests at a time, one link, one completion, one failure | `OnlyConfirmedAreSent`, `OptInsAreHandedOff`, `NothingLeftBehind`, `SentByEachOnce`, `ConfirmedIsKept`, `UnconfirmedGoes` |

Why these bounds are enough to mean something: with 4 items on 3 workers there are chains
that re-arm their timer, chains that find nothing left, and a last worker that is not the
one with the last item. Two POIs and two workers already let checkpoints land in the wrong
order, and two runs let an old handler write after a new one. Three renders are needed for
a launch that two share while a third released before; two crawls for a health check that
is stale when it kills. Beside a job of two POIs, one single collection is enough to
overwrite progress and to store a status twice. With
one retry, a crash and two failing queries, the catch block's among them, leave it open. A sweep that takes one item at a time
always leaves one to the next, and two sweeps are all the server starts beside each other
in practice (the schedule's and an admin's). Two digest jobs with a retry each and two
faults let a job fail for good, a handler outlive its job, and a second job find the first
one's draft; with two preview jobs the editor can get a second preview from either. One
newsletter with two faults occurs in three rows and in two runs at once; three requests
let an admin give a source its POI and its status apart and then block or delete it. Three
rows let a merged item be merged again; of the two URLs one has a fragment, which
the lookup does not find again. Two requests on one address let every pair of queries
interleave; a second account shows requests that meet the wrong one. What a proof or
another property says already is not checked again by a run, although it held in the same
state spaces: the `TypeOK` of every module, proved for all but the two newsletter modules
(section 5), and the invariants `InFlightExact`, `ClaimedOnce` and `CompleteWhenReturned`
of `BatchRunner`, of which `KeepsPromise` says as much as a caller of `runBatch` can see.
Deadlock is not checked, because each of these systems may stop: a batch ends, a job is
closed, a pool is idle.

### Disagreements between the code and its comments or tests

Two of them are runs, `BatchRunner_lost_chains` and `CollectionJob_cancel`; the
others are configurations kept beside the runs, each of which ends with the
counterexample (`tlc -config Digest_preview.cfg Digest.tla`, and so on).

* **Lost chains** (`BatchRunner_lost_chains`). BatchRunner.js:70-72 explains why
  a failing checkpoint must not escape `processNext`. `checkCancelled` at line 38
  can fail for the same reason and does escape. Since server.js:3292 keeps the
  process alive, each failing status read takes one chain with it; when all are
  gone the job stays `running`, and no restart comes to resume it.
* **Cancelled, then completed** (`CollectionJob_cancel`). A cancellation that
  arrives when the last POIs are already claimed is overwritten by the closing
  UPDATE (newsService.js:1831), where the end-to-end test expects `cancelled`.
* **Cancelled, and nobody told** (`TrailJob_cancel.cfg`). The trail job never looks
  for a cancellation; its UPDATEs to `running` and `completed`
  (trailStatusService.js:563 and 660) overwrite `cancelled`. `cancelJob` returns
  "true if a queued/running job was cancelled", and
  docs/TRAIL_STATUS_ARCHITECTURE.md:542 says the route "cancels a running batch job
  gracefully". The comment at line 747 that trail jobs are never resumed is not
  true either: pg-boss redelivers their messages.
* **The hour** (`CollectionJob_orphan.cfg`). `failAbandonedJobs` closes what is older
  than an hour and `findIncompleteJobs` resumes what is younger, but they run at
  the two ends of the startup: a job that turns an hour old in between is left
  open by both, against newsService.js:243.
* **A failed resume**. newsService.js:243 says that what is younger than an hour is left
  to `findIncompleteJobs`. When that query, a submission or one of the registrations
  before them rejects, server.js:3250 logs it as "non-fatal": the server is up, its
  handlers are registered, and a young job may stay open with nobody to work on it
  until the next restart. `StartupLeavesNoOrphan` with `"resume"` added to `MayFail` of
  `CollectionJob_progress.cfg` ends with that counterexample; `OrphanHasCause` is
  checked with it.
* **A leaked browser** (`BrowserPool_leak.cfg`). `killSlot` forgets a pending launch;
  the next acquisition launches a second browser, and the one that is overwritten
  in `slot.browser` is never closed, against browserPool.js:19. `OneBrowser` and
  `PoolEmpties` show that this and a `close()` that rejects are the only ways: one extra
  browser for each.
* **Two previews** (`Digest_preview.cfg`). newsletterDigestService.js:693 says "don't
  send the same recipient a preview twice in one day". The mail goes out at line 740
  and is recorded at 742: a failure in between and the retry mail it again.
  `PreviewsHaveCause` shows that nothing else does it: each preview but the first had a
  fault of its own.
* **Denied, but not swept** (`Moderation_denied.cfg`). filterLists.js:143 says "reject any
  stored (non-rejected) news/event matching a deny list, so adding to a list cleans up
  already-approved items". The UPDATE does not search an event's location, as the test
  of a single item does (line 61), so an event denied by its location after it was
  published stays. `DeniedLeavesSite` is what is left: what the UPDATE matches leaves.
* **Accepted in two steps**. `.specify/specs/037-newsletter-sources/spec.md:33` says of
  an accepted sender that "All unprocessed emails from that sender are queued for
  reprocessing". The route lists them only when one body has the status and the POI
  (newsletter.js:193), so a PUT of the POI followed by one of the status, or a source
  added as accepted that gets its POI later, leaves what waits to nobody. `NoneForgotten`
  without `unlisted` is violated by it.
* **Stored again** (`ItemStore_again.cfg`, on `MCItemStore`).
  docs/NEWS_EVENTS_ARCHITECTURE.md:55 says that saving dedupes "by normalized URL". The
  lookup compares `normalizeUrl` of the page, which drops a fragment and the slash before
  a query, with a stored URL of which SQL strips trailing slashes only
  (newsService.js:1367 and 1486): an event whose URL has a fragment is stored again, under
  a title that does not match, by the same collection. `StoriesOnce` is what is left: what
  the lookup would find is not stored again.
* **Subscribed twice** (`Account_twice.cfg`). signupNewsletter.js:14 says the opt-in
  is cleared "so it's only sent once". It is cleared last (line 30): a second click on
  a used link (auth.js:163) before that sends it again. Buttondown takes the address
  once, but `newsletter_subscriptions` gets a second insert. `SentByEachOnce` is what is
  left of the comment: once from each request under way, and once more for a failure or
  a new choice.

Met while modelling, without a property: with `NEWSLETTER_SEND_ENABLED` unset
`sendEmail` and `addSubscriber` do nothing, yet the digest is logged as sent and the
opt-in is cleared and recorded; docs/NEWS_EVENTS_ARCHITECTURE.md:76 says that
duplicates are searched "for the same POI" while the code matches at any POI;
`saveEventItems` skips an event that shares its URL with another one
(newsService.js:1508), which migration 069 says distinct events may do; a
trail status item whose second query for the POI fails keeps its display slot, and the POI
cannot be collected singly until a restart (`kept` in `TrailJob`); `saveTrailStatus`
compares with `!==`, so that a status with an omitted field is stored again although the
log would call it unchanged (`omits`); a
confirmation link is used up before the UPDATE that confirms (auth.js:162), so that
a failure of the latter makes it worthless; two merges that cross, A into B and B
into A, delete both items.

## 4. Fairness

`BatchRunner`: each worker's step is weakly fair. Timers fire, queries are
answered, and `collectFn` settles since every page it renders has a hard timeout.
A failing status read and an admin's cancellation are not fair.
`CollectionJob`: each run's steps and the system's (startup, sending, delivery)
are weakly fair; crashes, expiries, failures and requests are not. Restarting
after a crash is fair since the container is restarted by systemd (`deploy/`).
`BrowserPool`: timers fire and `close()` resolves or rejects; renders owe nothing, so
`PoolEmpties` speaks of the time when they have released.
`TrailJob`: the run's steps, the queue and the restart; single collections are the
admins' affair. `Moderation`: the schedule starts its sweep every 15 minutes, and a
sweep's awaits end; admins owe nothing. `Digest`: each handler's next await ends, in
success or failure, and pg-boss delivers, retries and expires. `Ingestion`: the same,
senders' servers deliver again what was refused, and a route that has begun ends.
`Account`: an account grows old, and the cleanup runs every day and tries each stale
account (`RemovalFails` is bounded); visitors and their requests owe nothing.
`ItemStore` states no fairness, since nothing in it must happen.

## 5. What is proved

`BatchRunnerProofs` proves, for every number of items, workers and failing reads
(`BatchAssumption`: positive numbers of items and workers):

* `TypeCorrect`: the type invariant;
* `CounterIsExact`, `ItemsAreClaimedOnce`, `CompletedMeansAllDone`: the invariants
  `InFlightExact`, `ClaimedOnce` and `CompleteWhenReturned`;
* `CancellationStopsClaims`: `CancelStopsClaims`;
* `RunnerKeepsPromise`: `BatchRunner` implements `BatchPromise`;
* `RunnerTakesTheJobsSteps`: `StepsOfJob`, for a batch with a `checkCancelled`, as that of
  the news job is.

None of these but the type invariant is inductive. `IInv` adds what is: a held
item lies below `nextIndex` and has an outcome from its checkpoint on; each
claimed item without an outcome is held (`NoneForgotten`), so that when
`inFlight` reaches zero nothing is missing; items above `nextIndex` have no
outcome. `inFlight = Cardinality(Busy)` ties the code's counter to the workers,
and lemmas `BusyJoins`, `BusyLeaves` and `BusyStays` say how that set follows a
chain. For the cancellation, `StaleIsLast` says that each item claimed after it is
the last claim of some worker whose next read will see it: this maps those items
one-to-one into the workers. The refinement needs one more invariant,
`OverIsReturned`: a worker that finds nothing left and nothing in flight comes
too late to return anything but "cancelled". That of the job needs `CancelIsSeen`: a
chain that found the job cancelled, or is about to, leaves it cancelled in the row, so
that the counted workers may stop by reading the row. The rest of that proof is how the
counters of `JobRun` follow one chain: each step moves at most one worker from one
counted set to the next (`Counted`), and a chain that finds nothing left changes none,
because a run without POIs left has no permits.

`AccountProofs` proves, for every number of requests, accounts, links, completions
and faults (`AccountAssumption`: natural numbers and a finite set of requests):

* `TypeCorrect`: the type invariant;
* `ConsentComesFirst`: `OnlyConfirmedAreSent`;
* `OptInsReachTheHandOff`: `OptInsAreHandedOff`;
* `DeletionIsComplete`: `NothingLeftBehind`;
* `OptInsAreSentOnceByEach`: `SentByEachOnce`;
* `CleanupSparesConfirmed`: the action property `ConfirmedIsKept`.

The first four follow from `Invariance`, the inductive invariant `IInv`. A hand-off
reads nothing after its first query, so what it does later is safe only by what was
true then: `HandOffsAreDue` says its account was confirmed while opted in, and
`HandOffsStay` that its account is still the current one or was deleted under it.
`OptInsAreHandedOff` is disturbed only by what confirms an account or opts it in. The
confirmation of a click hands off at once; the one of a sign-in (`Verify`) does not,
so there must be no opt-in left to it: `RevokedStays` says that an account about
to be confirmed by a sign-in has none, unless it came late, and `LinksAreConfirmed`
that an account with an identity is confirmed, about to be, or had a failure, for a
later sign-in skips the revocation then. `RequestsHaveAccounts` and `DueExist` bound
the ids, so that a new account is nobody's old one. There is one lemma for each
action, and below it one step for each conjunct where the action disturbs several;
where it writes the row, its cases first say what the row becomes.
`CleanupSparesConfirmed` needs no invariant: of the steps that let go of the
cleanup's account only `RemoveStale` removes one, and it looks again.
`SentByEachOnce` is not inductive, for it says nothing of the calls to come:
`CallsCovered` counts them with those made. While the opt-in stands any request may
still call that has not, and once it is cleared only those that have read it
(`MayCall`). So a call only moves a request from one side of the sum to the other, a
failure gives one back, and a new choice gives them all back.

`CollectionJobProofs` proves, for every number of POIs, workers, messages, runs,
crashes, expiries and failures, and any of the queries failing (`JobAssumption`: a
finite set of POIs that is not empty, positive bounds on workers, messages and runs):

* `TypeCorrect`: the type invariant;
* `ProgressIsTrue`: `ProcessedWereCollected`;
* `CompletedIsTrue`: `CompletedMeansCollected`;
* `OrphansAreExplained`: `OrphanHasCause`.

Checkpoints replace the whole list and land in any order, so that nothing can be said of
the row alone: `Honest` says that what a run knows, and each list it has sent, is part of
what was collected. `Complete` says that a run has every POI left, at work or recorded; a
batch ends when the counted workers (`Bounded`) are no more, hence with every POI
recorded. For the last one, `OInv` (`Attentive`, `Traced`, `Stranded`) follows an open job
from hand to hand: once the startup no longer looks for it (`Settling`), its message is
queued or a run minds it (`Minded`: a run that has not seen a cancellation), or one of the
two causes is there, and those never go away. `Sound` says of each run where its message
is, and that only failing queries lead into its catch block. Two more theorems hold only
within limits, which are hypotheses and which `CollectionJob_progress` keeps to as well:

* `OneWorkerKeepsProgress`: `ProgressIsKept`, with one worker (`max_concurrency` = 1),
  no expired delivery, and no run started by a scheduled pipeline. A second worker's
  checkpoint may overtake the first one's with a shorter list, and so may a second
  run's; each hypothesis rules out one of these, and TLC finds the property violated
  when any one of them is dropped. `PInv` adds that the run pg-boss listens to is the
  only one (`OneAttended`) and that the row records no more than that run knows and
  sends (`OneWorker`).
* `StartupIsComplete`: `StartupLeavesNoOrphan`, with no expiry, no more failing queries
  than a message has retries (so that none fails for good), neither `failAbandonedJobs`
  nor the resume failing, and no job turning an hour old during the startup: these are the
  disagreements *A failed resume* and *The hour* above. TLC finds the property violated
  without any one of these. Most of the invariant `SInv` is about a job that is old when
  the startup goes on to resume: `failAbandonedJobs` has closed it, unless a handler of
  this process has reopened it, and then its message is still queued or active (`Waits`).

`BrowserPoolProofs` (`PoolAssumption`) proves `TypeCorrect`; `CountIsRight`, that is
`CountsHolders`; `BrowserIsShared`, that is `OneBrowser`; and from the same invariant
the action property `IdleCloseSparesHolders` (`TimersSpareHolders`). The count is tied
to the set `Armed` of acquisitions neither released nor killed, so that the code's
`Math.max(0, ...)` never has anything to correct. `Slotted` says that the slot never has
both a browser and a pending launch; `Accounted`, that what is alive beside these came
from launches a kill forgot, each settling launch taking the place of one, or from closes
that rejected, of which a browser has one at most.

`TrailJobProofs` (`TrailAssumption`) proves `TypeCorrect`; `ProgressWasSettled` and
`CompletedIsTrue`, that is `ProcessedWereSettled` and `CompletedMeansSettled`, along the
argument of the news job (`Honest`, `Whole`); `SlotsAreFreedInTheEnd`, that is
`SlotsAreFreed`, from `Shown`: a taken slot is that of an entry not yet completed whose
item is in flight, although single collections write the same entries, or it is in `kept`;
`OpenJobsArePursued`, that is `OpenIsPursued`, from `Paid`: each try so far was lost to a
crash or a failing query of its own, and so was the one about to be lost, so that the
retries run out only after as many of these; and the action property
`DuplicatesAreExplained` (`DuplicatesHaveCause`), from `Decided`: as long as the row a
collection compared with is the latest, the status it is about to insert is another one,
or the model omitted a field.

`ItemStoreProofs` (`ItemStoreAssumption`) proves `TypeCorrect`; `StoriesAreStoredOnce`,
that is `StoriesOnce`; `SourcesAreCounted`, that is `SourcesDiffer`; and the action
property `MergeKeepsUrls` (`MergesKeepUrls`), for any normalizations. For the first,
`SaverOK` says that what a collection is about to insert is found in no row but those
written since it looked. For the others each
request under way knows something of rows that anyone may change before it writes: a
merge that the rows' own URLs are as it read them, or an edit changed them (`Knows`), and
that each URL it has passed is with the target or in `late` (`Passed`); one that adds a
URL that the item has another one of its own, or is `renamed` (`MayGet`). `RequestGoesOn`
shows this once for all the steps that add or remove a URL, so that each action is left
with its own request; `EditItem` alone is shown to leave each request right by itself.

`ModerationProofs` (`ModerationAssumption`) proves `TypeCorrect`; `OneTwinIsPublished`,
that is `OneTwinAutoPublished`; and the action property `DecisionsStand`
(`AdminsDecide`). `WaitingIsOpen` and `AheadIsOpen` say that an item a sweep lists, or
still has ahead, was not decided by an admin, unless that happened later. `OneAtTwins`
and `VotedAlone` say that without an overlap one sweep at most is at a twin, and that it
votes only while no twin was published by a sweep, which then stays true as long as the
vote takes.

`NewsletterProofs` proves of the digest (`DigestAssumption`) `BroadcastOnce`, that is
`OneBroadcast`; `FavoritesComeAfter`, that is `FavoritesFollowBroadcast`;
`CopiesAreCovered`, that is `CopiesAreDeliveries`; and `PreviewsArePaid`, that is
`PreviewsHaveCause`. The log is written after Buttondown
was told, so the invariant relates each execution to both: `Alone` (one execution sends,
unless two overlapped), `Right` (what it knows of the log is still true) and
`DraftScheduled` (only the recorded draft was ever scheduled) give the first, `Told` the
second. For the copies, `Covered` adds to the mails a user got the executions that may
still send one, and `Counting` gives each of them a delivery of its own. The previews are
counted in the same way, against the faults: `PaidFor` adds to the previews mailed the
executions that may mail another one (at the mail, or expired before the check), of
which all but one had to expire first, since one preview job is worked at a time
(`OneAtWork`). One mail is free as long as the execution that makes it is at work, or
once it is recorded. Of ingestion it
proves, with `In!IngestionAssumption` as its hypothesis, `NoEmailIsForgotten`, that is
`NoneForgotten`. Triage falls between the queries of a run: a run that read its source
as not accepted puts the email aside later, maybe when the sender is accepted and the
route has already read the list. `AsideIsSafe` says why this is harmless: such a run
read the source before it was accepted, and the email was stored then, so the route's
list, which is read after the acceptance, has it, or had it queued. `Attended` is the
rest: an unprocessed email is in a run or `Safe`, that is queued, listed or about to be,
not yet acknowledged (`Taken`) and so its sender's affair, or an exception.

`Digest` and `Ingestion` are two systems there: no theorem relates them. The second is an
instance (`In`), because some constants and `faults` have one name in both, and states its
theorem of the variables in `Inbox`.

Only model-checked:

* liveness (`Returns`, `JobCloses`, `PoolEmpties`, `DeniedLeavesSite`,
  `EveryItemIsModerated`, `BroadcastGoesOut`, `EmailsAreProcessed`, `UnconfirmedGoes`),
  which is out of the prover's reach: it rests on fairness and ENABLED;
* the bounds in the `TypeOK` of `Digest` (as many emails as `MaxEmails`) and of
  `Ingestion`: they say that the bounds of the runs are wide enough, and no theorem
  needs them. The proofs use types without bounds instead (`Types`, `InboxTypes`);
* what the runs that end with a counterexample show, `CancelIsFinal` and the lost chains
  among them: there is nothing to prove.

## 6. What is left out

* What is collected: crawling, rendering, language model calls, parsing. In the
  models `collectFn` settles with an outcome, and a model's vote is any vote.
* POIs deleted for good while a news job is open: the handler then works on fewer
  POIs than the row lists. `TrailJob` has the wipe of all POIs, the only
  route that deletes their rows (the others only mark them).
* Several jobs at a time, and the check for a running job in `POST /news/collect`.
* The second egress of the browser pool. `forceKill` without a key, as the crawl
  calls it, kills both.
* The end of a killed acquisition's grace period: a render releases within its
  60 s timeout, the grace lasts 180 s.
* A trail status job that expires under its handler: it has the same handler
  and queue options as the news job, whose expiry `CollectionJob` models.
* The rewriting of an item's POI and dates by a sweep's UPDATE (moderationService.js:688-698):
  in `Moderation` twins stay twins, and an item on a deny list by its POI stays on it.
  Failures are bounded there: an item whose examination always failed would be listed again
  by each sweep (a `LIMIT` without `ORDER BY`), in place of others, so that
  `EveryItemIsModerated` says that nothing but such items keeps the others waiting.
* Moderation's date fixing, photos, research of an item, and edits that do not
  publish; the gates' thresholds, which only choose among the outcomes of a vote.
* In `Ingestion`, the interleaving of admins' requests with each other, a 250 that is lost
  (the message would come again, as one more row), and the wipe of a source's POI.
* In `ItemStore`, the move of an item to another POI (that which owns its site, by an edit,
  or by a merge of POIs), the occurrences that a recurring series inserts itself
  (eventSeriesService.js:182), cleanup scripts, and pages without a URL or a date.
* In `Account`, the retries inside `addSubscriber`, up to three POSTs of one call
  (buttondownClient.js:76-94): Buttondown takes an address once, so the call counts as
  one, and as a failure when none was answered. Also everything about how somebody proves
  who they are: passwords, passkeys, sessions, resets, changes of address; subscribing
  from the settings or the public form.
* The components listed as `not_modelled` in `PROJECT.json`, with the reason.

## 7. Plan

In this order:

1. The other half of the composition: that the rest of `CollectionJob`, around its batch,
   owes nothing to it but these steps; the same for `TrailJob`, whose batch has no
   `checkCancelled`; lemmas about the queries several modules share.
2. `RemoteLogin` and `EgressRoutes`: timers against requests, concurrent reports.
3. The job logger: buffer, timer and shutdown.
4. Pure algorithms against reference definitions: deduplication clusters, date
   consensus, event recurrences.
5. Trackers, POI merge, backups, image server and the frontend's merge of
   anonymous data, as far as they keep state between steps.
