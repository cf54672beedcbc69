------------------------------- MODULE Digest -------------------------------
(***************************************************************************)
(* The newsletter of one Friday (newsletterDigestService.js,               *)
(* buttondownClient.js, the digest and preview workers of server.js): the  *)
(* broadcast to all subscribers, the mails about the favorites of users,   *)
(* and the preview for an editor.  pg-boss redelivers a job that failed or *)
(* expired, Buttondown may answer too late, and job_logs remembers what    *)
(* was done on this day.                                                   *)
(*                                                                         *)
(* A handler is one execution of a worker's callback:                      *)
(*   "check"  before the query whether the mail went out today             *)
(*   "draft"  before the query for a draft of today, content read          *)
(*   "create" awaiting POST /v1/emails       "record" awaiting its row     *)
(*   "patch"  awaiting PATCH /v1/emails/:id  "sent"   awaiting its row     *)
(*   "users"  before the query of the users  "favorites" between two users *)
(*   "done"   awaiting the closing row                                     *)
(*   "mail"   awaiting the preview's mail    "mailed" awaiting its row     *)
(*                                                                         *)
(* An email is a number.  The three attempts of retryRequest are one, an   *)
(* answer that is lost included.  Buttondown takes a second email with the *)
(* same subject here: the properties do not rest on its refusing one.  The *)
(* API key is set and NEWSLETTER_SEND_ENABLED is "true"; rows of the log   *)
(* that nothing reads, and failures to write them, are left out.           *)
(***************************************************************************)
EXTENDS Integers, FiniteSets

CONSTANTS
    Broadcasts,   \* messages of newsletter-digest: the schedule's, admins'
    Previews,     \* messages of newsletter-preview
    Users,        \* subscribers with favorites
    RetryLimit,   \* of the messages
    MaxHandlers,  \* bound: executions at the same time
    MaxFaults     \* bound: failures, lost answers, expiries, restarts

ASSUME DigestAssumption ==
    /\ IsFiniteSet(Broadcasts \cup Previews \cup Users)
    /\ Broadcasts \cap Previews = {} /\ "preview" \notin Users
    /\ {RetryLimit, MaxFaults} \subseteq Nat /\ MaxHandlers \in Nat \ {0}

Jobs == Broadcasts \cup Previews
Handlers == 1..MaxHandlers
MaxEmails == MaxFaults + Cardinality(Broadcasts)
NoEmail == 0

VARIABLES
    content,    \* there are events or news this week
    message,    \* the pg-boss jobs
    handler,    \* the executions
    emails,     \* Buttondown: emails created for the broadcast, and those scheduled
    received,   \* mails the users and the editor ("preview") were sent
    logged,     \* job_logs of today: the draft, the broadcast and the preview
    overlapped, \* history: two handlers were at the broadcast at the same time
    faults

buttondown == <<emails, received>>
vars == <<content, message, handler, buttondown, logged, overlapped, faults>>

NoHandler == [pc |-> "idle", job |-> "none", live |-> FALSE, email |-> NoEmail, todo |-> {}]
AtBroadcast == {"check", "draft", "create", "record", "patch", "sent"}

TypeOK ==
    /\ content \in BOOLEAN
    /\ message \in [Jobs -> [state : {"none", "queued", "active", "completed", "failed"},
                             tries : 0..RetryLimit]]
    /\ handler \in [Handlers -> [pc : AtBroadcast \cup {"idle", "users", "favorites", "done",
                                                        "mail", "mailed"},
                                 job : Jobs \cup {"none"}, live : BOOLEAN,
                                 email : 0..MaxEmails, todo : SUBSET Users]]
    /\ \A h \in Handlers : /\ handler[h].pc = "idle" <=> handler[h].job = "none"
                           /\ handler[h].live => message[handler[h].job].state = "active"
    /\ emails \in [created : 0..MaxEmails, scheduled : SUBSET (1..MaxEmails)]
    /\ received \in [Users \cup {"preview"} -> Nat]
    /\ logged \in [draft : 0..MaxEmails, broadcast : BOOLEAN, preview : BOOLEAN]
    /\ overlapped \in BOOLEAN
    /\ faults \in 0..MaxFaults

Init ==
    /\ content \in BOOLEAN
    /\ message = [j \in Jobs |-> [state |-> "none", tries |-> 0]]
    /\ handler = [h \in Handlers |-> NoHandler]
    /\ emails = [created |-> 0, scheduled |-> {}]
    /\ received = [u \in Users \cup {"preview"} |-> 0]
    /\ logged = [draft |-> NoEmail, broadcast |-> FALSE, preview |-> FALSE]
    /\ overlapped = FALSE
    /\ faults = 0

-----------------------------------------------------------------------------
(* pg-boss.                                                                *)

Fault == faults < MaxFaults /\ faults' = faults + 1

Queue(j) == IF j \in Broadcasts THEN Broadcasts ELSE Previews

\* Bound: broadcasts or previews, which share no row of the log and no email.
OneKindADay(j) == \A k \in Jobs \ Queue(j) : message[k].state = "none"

\* The schedule or an admin
Submit(j) ==
    /\ message[j].state = "none" /\ OneKindADay(j)
    /\ message' = [message EXCEPT ![j].state = "queued"]
    /\ UNCHANGED <<content, handler, buttondown, logged, overlapped, faults>>

\* A worker takes one job of its queue at a time.  Executions are interchangeable:
\* the first that is idle is taken.
Deliver(h, j) ==
    /\ message[j].state = "queued"
    /\ handler[h].pc = "idle" /\ \A g \in 1..(h - 1) : handler[g].pc # "idle"
    /\ \A g \in Handlers : handler[g].live => handler[g].job \notin Queue(j)
    /\ message' = [message EXCEPT ![j].state = "active"]
    /\ handler' = [handler EXCEPT ![h] = [NoHandler EXCEPT !.pc = "check", !.job = j, !.live = TRUE]]
    /\ UNCHANGED <<content, buttondown, logged, overlapped, faults>>

GivenBack(m) == IF m.tries < RetryLimit THEN [state |-> "queued", tries |-> m.tries + 1]
                ELSE [m EXCEPT !.state = "failed"]

\* The job expires; a handler that still runs goes on all the same.
Expire(j) ==
    /\ message[j].state = "active"
    /\ message' = [message EXCEPT ![j] = GivenBack(@)]
    /\ IF \E h \in Handlers : handler[h].live /\ handler[h].job = j
       THEN Fault ELSE UNCHANGED faults
    /\ handler' = [h \in Handlers |-> IF handler[h].job = j THEN [handler[h] EXCEPT !.live = FALSE]
                                      ELSE handler[h]]
    /\ UNCHANGED <<content, buttondown, logged, overlapped>>

\* The worker's callback returns, or throws and has its job retried.  What an
\* expired handler answers is ignored.
Ends(h, m) ==
    /\ handler' = [handler EXCEPT ![h] = NoHandler]
    /\ message' = IF handler[h].live THEN [message EXCEPT ![handler[h].job] = m] ELSE message
Returns(h) == Ends(h, [message[handler[h].job] EXCEPT !.state = "completed"])
Throws_Swallowed(h) == Returns(h)  \* mutant: the worker logs the error, and that is all
Throws(h) == Ends(h, GivenBack(message[handler[h].job]))

Crash ==
    /\ \E h \in Handlers : handler[h].pc # "idle"
    /\ Fault
    /\ handler' = [h \in Handlers |-> NoHandler]
    /\ UNCHANGED <<content, message, buttondown, logged, overlapped>>

-----------------------------------------------------------------------------
(* sendWeeklyDigest.                                                       *)

At(h, kind, pc) == handler[h].pc = pc /\ handler[h].job \in kind
Go(h, pc) ==
    /\ handler' = [handler EXCEPT ![h].pc = pc]
    /\ overlapped' = (overlapped \/ \E g \in Handlers \ {h} :
                         /\ {handler[g].job, handler[h].job} \subseteq Broadcasts
                         /\ {handler[g].pc, handler'[h].pc} \subseteq AtBroadcast)
    /\ UNCHANGED message

SentToday == logged.broadcast

\* A digest that went out today is not sent again.
CheckSent(h) ==
    /\ At(h, Broadcasts, "check")
    /\ Go(h, IF SentToday THEN "users" ELSE "draft")
    /\ UNCHANGED <<content, buttondown, logged, faults>>

\* The last draft of today: a failed attempt's.
RecordedDraft_Never == NoEmail      \* mutant: every attempt creates its own
RecordedDraft == logged.draft

FindDraft(h) ==
    /\ At(h, Broadcasts, "draft")
    /\ IF ~content THEN Go(h, "users")
       ELSE IF RecordedDraft = NoEmail THEN Go(h, "create")
       ELSE /\ handler' = [handler EXCEPT ![h].pc = "patch", ![h].email = RecordedDraft]
            /\ UNCHANGED <<message, overlapped>>
    /\ UNCHANGED <<content, buttondown, logged, faults>>

CreateDraft(h) ==
    /\ At(h, Broadcasts, "create")
    /\ emails' = [emails EXCEPT !.created = @ + 1]
    /\ handler' = [handler EXCEPT ![h].pc = "record", ![h].email = emails'.created]
    /\ UNCHANGED <<content, message, received, logged, overlapped, faults>>

\* onDraftCreated
RecordDraft(h) ==
    /\ At(h, Broadcasts, "record")
    /\ logged' = [logged EXCEPT !.draft = handler[h].email]
    /\ Go(h, "patch")
    /\ UNCHANGED <<content, buttondown, faults>>

ScheduleEmail(h) ==
    /\ At(h, Broadcasts, "patch")
    /\ emails' = [emails EXCEPT !.scheduled = @ \cup {handler[h].email}]
    /\ Go(h, "sent")
    /\ UNCHANGED <<content, received, logged, faults>>

RecordSent(h) ==
    /\ At(h, Broadcasts, "sent")
    /\ logged' = [logged EXCEPT !.broadcast = TRUE]
    /\ Go(h, "users")
    /\ UNCHANGED <<content, buttondown, faults>>

\* A query or a request fails, the request perhaps after Buttondown has done what
\* it asks: sendWeeklyDigest throws.
BroadcastFails_Quietly(h) ==       \* mutant: the error is not thrown again
    /\ handler[h].job \in Broadcasts /\ handler[h].pc \in AtBroadcast
    /\ Fault
    /\ emails' = emails
    /\ Go(h, "users")
    /\ UNCHANGED <<content, received, logged>>
BroadcastFails(h) ==
    /\ handler[h].job \in Broadcasts /\ handler[h].pc \in AtBroadcast
    /\ Fault
    /\ \/ emails' = emails
       \/ handler[h].pc = "create" /\ emails' = [emails EXCEPT !.created = @ + 1]
       \/ handler[h].pc = "patch"
          /\ emails' = [emails EXCEPT !.scheduled = @ \cup {handler[h].email}]
    /\ Throws(h)
    /\ UNCHANGED <<content, received, logged, overlapped>>

-----------------------------------------------------------------------------
(* sendPersonalizedDigests: nothing tells what another delivery has sent.  *)

ReadUsers(h) ==
    /\ At(h, Broadcasts, "users")
    /\ IF Users = {} THEN Returns(h)
       ELSE /\ handler' = [handler EXCEPT ![h].pc = "favorites", ![h].todo = Users]
            /\ UNCHANGED message
    /\ UNCHANGED <<content, buttondown, logged, overlapped, faults>>

\* A user without news or events is skipped, and a request that fails is caught.
MailFavorites_Retried(h, u) ==      \* mutant: a request that fails is made again
    /\ At(h, Broadcasts, "favorites") /\ u \in handler[h].todo
    /\ received' = [received EXCEPT ![u] = @ + 1]
    /\ \/ handler' = [handler EXCEPT ![h].todo = @ \ {u}] /\ UNCHANGED faults
       \/ Fault /\ UNCHANGED handler
    /\ UNCHANGED <<content, message, emails, logged, overlapped>>
MailFavorites(h, u) ==
    /\ At(h, Broadcasts, "favorites")
    /\ u \in handler[h].todo
    /\ handler' = [handler EXCEPT ![h].todo = @ \ {u}]
    /\ \/ received' = [received EXCEPT ![u] = @ + 1]
       \/ UNCHANGED received
    /\ UNCHANGED <<content, message, emails, logged, overlapped, faults>>

AllMailed(h) ==
    /\ At(h, Broadcasts, "favorites") /\ handler[h].todo = {}
    /\ Go(h, "done")
    /\ UNCHANGED <<content, buttondown, logged, faults>>

Finish(h) ==
    /\ At(h, Broadcasts, "done")
    /\ Returns(h)
    /\ UNCHANGED <<content, buttondown, logged, overlapped, faults>>

\* The queries before the loop and the row after it are not caught.
FavoritesFail(h) ==
    /\ handler[h].job \in Broadcasts /\ handler[h].pc \in {"users", "done"}
    /\ Fault
    /\ Throws(h)
    /\ UNCHANGED <<content, buttondown, logged, overlapped>>

-----------------------------------------------------------------------------
(* sendDigestPreviewTo, for the editor's address.                          *)

CheckPreview(h) ==
    /\ At(h, Previews, "check")
    /\ IF logged.preview \/ ~content THEN Returns(h) /\ UNCHANGED overlapped ELSE Go(h, "mail")
    /\ UNCHANGED <<content, buttondown, logged, faults>>

MailPreview(h) ==
    /\ At(h, Previews, "mail")
    /\ received' = [received EXCEPT !["preview"] = @ + 1]
    /\ Go(h, "mailed")
    /\ UNCHANGED <<content, emails, logged, faults>>

RecordPreview_OtherText(h) ==   \* mutant: not the message the check looks for
    /\ At(h, Previews, "mailed")
    /\ Returns(h)
    /\ UNCHANGED <<content, buttondown, logged, overlapped, faults>>
RecordPreview(h) ==
    /\ At(h, Previews, "mailed")
    /\ logged' = [logged EXCEPT !.preview = TRUE]
    /\ Returns(h)
    /\ UNCHANGED <<content, buttondown, overlapped, faults>>

PreviewFails(h) ==
    /\ handler[h].job \in Previews
    /\ Fault
    /\ \/ UNCHANGED received
       \/ handler[h].pc = "mail" /\ received' = [received EXCEPT !["preview"] = @ + 1]
    /\ Throws(h)
    /\ UNCHANGED <<content, emails, logged, overlapped>>

-----------------------------------------------------------------------------
HandlerStep(h) ==
    \/ CheckSent(h) \/ FindDraft(h) \/ CreateDraft(h) \/ RecordDraft(h)
    \/ ScheduleEmail(h) \/ RecordSent(h) \/ BroadcastFails(h)
    \/ ReadUsers(h) \/ (\E u \in Users : MailFavorites(h, u)) \/ AllMailed(h)
    \/ Finish(h) \/ FavoritesFail(h)
    \/ CheckPreview(h) \/ MailPreview(h) \/ RecordPreview(h) \/ PreviewFails(h)

Next ==
    \/ \E j \in Jobs : Submit(j) \/ Expire(j) \/ \E h \in Handlers : Deliver(h, j)
    \/ \E h \in Handlers : HandlerStep(h)
    \/ Crash

\* Queries and requests are answered or fail, pg-boss delivers and expires.
Fairness ==
    /\ \A h \in Handlers : WF_vars(HandlerStep(h))
    /\ \A j \in Jobs : WF_vars(\E h \in Handlers : Deliver(h, j)) /\ WF_vars(Expire(j))

Spec == Init /\ [][Next]_vars /\ Fairness

-----------------------------------------------------------------------------
(* Properties.                                                             *)

\* One broadcast a day ("prevent multiple digest sends on the same day even if
\* pg-boss retries"), whatever failed after what: an attempt that failed after its
\* draft was scheduled leaves the draft, which the next one schedules again.
\* Not so when a job expires under a handler that is still at it.
OneBroadcast == Cardinality(emails.scheduled) > 1 => overlapped

\* The mails about favorites follow the broadcast: as long as a digest with something
\* to tell has not been scheduled, none of them is sent, however often it fails.
FavoritesFollowBroadcast ==
    content /\ (\E u \in Users : received[u] > 0) => emails.scheduled # {}

\* A user gets the mail once for each time a digest job was delivered: a mail that
\* may have been sent is not sent again within a delivery.
Deliveries(j) == IF message[j].state = "none" THEN 0
                 ELSE message[j].tries + (IF message[j].state = "queued" THEN 0 ELSE 1)
Delivered == {d \in Broadcasts \X (1..(RetryLimit + 1)) : d[2] <= Deliveries(d[1])}
CopiesAreDeliveries == \A u \in Users : received[u] <= Cardinality(Delivered)

\* With something to tell, a digest job schedules the broadcast unless each of its
\* deliveries fails.
BroadcastGoesOut ==
    \A j \in Broadcasts : content /\ message[j].state # "none"
                          ~> emails.scheduled # {} \/ message[j].state = "failed"

\* However many preview jobs there are on a day, the editor gets a second preview only
\* when something failed, and one more for each further failure: the row that keeps the
\* next job or delivery from mailing again is written after the mail.
PreviewsHaveCause == received["preview"] <= 1 + faults

\* "don't send the same recipient a preview twice in one day"
OnePreview == received["preview"] <= 1
=============================================================================
