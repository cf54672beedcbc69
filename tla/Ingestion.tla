----------------------------- MODULE Ingestion ------------------------------
(***************************************************************************)
(* Newsletters that arrive by mail (newsletterService.js, the source routes *)
(* of newsletter.js, the newsletter tools of mcpServer.js): the SMTP server *)
(* stores an email and queues a job, the worker looks its sender up among   *)
(* the sources, and an email of a sender the admins have not accepted waits *)
(* until they do.  All emails are of one sender, and one pattern matches it. *)
(* What there is of them is in module Inbox, what a collection saves in    *)
(* module ItemStore.                                                       *)
(*                                                                         *)
(* A run is an execution of processNewsletterById:                         *)
(*   "email", "source"  before the query of the email, of the source        *)
(*   "discover"         awaiting the INSERT of a new source                 *)
(*   "mark"             awaiting the UPDATE of an email that is not read    *)
(*   "collect"          in collectPoi, or saving what it found              *)
(*   "close"            awaiting the UPDATE of an email that was read       *)
(* A job that waits is counted by its email and the tries it had; a failed, *)
(* expired or crashed one waits again at once: pg-boss's delays only make   *)
(* it wait longer.                                                         *)
(***************************************************************************)
EXTENDS Inbox, FiniteSets

CONSTANTS
    Messages,     \* newsletters that senders' servers try to deliver
    RetryLimit,   \* of NEWSLETTER_RETRY
    MaxHandlers,  \* bound: executions of the worker at the same time
    MaxRequests,  \* bound: requests of admins
    MaxFaults     \* bound: failures, expiries, restarts

ASSUME IngestionAssumption ==
    /\ IsFiniteSet(Messages)
    /\ {RetryLimit, MaxRequests, MaxFaults} \subseteq Nat /\ MaxHandlers \in Nat \ {0}

MaxEmails == Cardinality(Messages) + MaxFaults
Emails == 1..MaxEmails
NoEmail == 0
Handlers == 1..MaxHandlers
Tries == 0..RetryLimit

VARIABLES requests, faults

intake == <<mail, email, queue>>
aside == <<abandoned, unlisted>>
vars == <<mail, email, source, queue, run, request, requests, faults, abandoned, unlisted>>

NoRun == [pc |-> "idle", email |-> NoEmail, tries |-> 0, live |-> FALSE,
          processed |-> FALSE]
NoRequest == [pc |-> "idle", todo |-> {}]

Unprocessed == {i \in Emails : email[i] = "unprocessed"}

TypeOK ==
    /\ mail \in [Messages -> [pc : {"sending", "stored", "accepted"}, row : Emails \cup {NoEmail}]]
    /\ email \in [Emails -> {"none", "unprocessed", "processed", "deleted"}]
    /\ source \in [status : {"absent", "new", "accepted", "blocked"}, poi : BOOLEAN]
    /\ queue \in [Emails \X Tries -> Nat]
    /\ run \in [Handlers -> [pc : {"idle", "email", "source", "discover", "mark", "collect",
                               "close"},
                         email : Emails \cup {NoEmail}, tries : Tries, live : BOOLEAN,
                         processed : BOOLEAN]]
    /\ request \in [pc : {"idle", "list", "reopen", "queue", "delete"}, todo : SUBSET Emails]
    /\ requests \in 0..MaxRequests
    /\ faults \in 0..MaxFaults
    /\ abandoned \subseteq Emails /\ unlisted \subseteq Emails
    /\ \A h \in Handlers : run[h].pc = "idle" <=> run[h].email = NoEmail
    /\ \A i \in Emails : (\E t \in Tries : queue[<<i, t>>] > 0) => email[i] # "none"

Init ==
    /\ mail = [m \in Messages |-> [pc |-> "sending", row |-> NoEmail]]
    /\ email = [i \in Emails |-> "none"]
    /\ source = [status |-> "absent", poi |-> FALSE]
    /\ queue = [q \in Emails \X Tries |-> 0]
    /\ run = [h \in Handlers |-> NoRun]
    /\ request = NoRequest
    /\ requests = 0
    /\ faults = 0
    /\ abandoned = {} /\ unlisted = {}

-----------------------------------------------------------------------------
Fault == faults < MaxFaults /\ faults' = faults + 1

\* queueNewsletterJob
Queued(i) == [queue EXCEPT ![<<i, 0>>] = @ + 1]
TakenUp(i) == abandoned' = abandoned \ {i} /\ unlisted' = unlisted \ {i}

(* onData: the row, the job, and then 250; whatever fails, 451.            *)

Store(m) ==
    /\ mail[m].pc = "sending"
    /\ \E i \in Emails :
         /\ email[i] = "none" /\ \A j \in 1..(i - 1) : email[j] # "none"
         /\ email' = [email EXCEPT ![i] = "unprocessed"]
         /\ mail' = [mail EXCEPT ![m] = [pc |-> "stored", row |-> i]]
    /\ UNCHANGED <<source, queue, run, request, requests, faults, aside>>

Accept(m) ==
    /\ mail[m].pc = "stored"
    /\ queue' = Queued(mail[m].row)
    /\ TakenUp(mail[m].row)
    /\ mail' = [mail EXCEPT ![m].pc = "accepted"]
    /\ UNCHANGED <<email, source, run, request, requests, faults>>

\* The job is not queued: the sender's server will deliver the message again, and
\* the row stays behind.
Refuse_Acknowledged(m) ==      \* mutant: the message is accepted all the same
    /\ mail[m].pc = "stored"
    /\ Fault
    /\ mail' = [mail EXCEPT ![m].pc = "accepted"]
    /\ UNCHANGED <<email, source, queue, run, request, requests, aside>>
Refuse(m) ==
    /\ mail[m].pc = "stored"
    /\ Fault
    /\ mail' = [mail EXCEPT ![m].pc = "sending"]
    /\ UNCHANGED <<email, source, queue, run, request, requests, aside>>

-----------------------------------------------------------------------------
(* pg-boss.  The worker takes a job when it is done with the last one.     *)

Deliver(h, i, t) ==
    /\ queue[<<i, t>>] > 0
    /\ run[h].pc = "idle" /\ \A g \in 1..(h - 1) : run[g].pc # "idle"
    /\ \A g \in Handlers : ~run[g].live
    /\ queue' = [queue EXCEPT ![<<i, t>>] = @ - 1]
    /\ run' = [run EXCEPT ![h] = [NoRun EXCEPT !.pc = "email", !.email = i, !.tries = t,
                                               !.live = TRUE]]
    /\ UNCHANGED <<mail, email, source, request, requests, faults, aside>>

\* The job of run h waits for its next try, or has failed for good.
RetryOf(h) == IF run[h].tries < RetryLimit
              THEN [queue EXCEPT ![<<run[h].email, run[h].tries + 1>>] = @ + 1] ELSE queue
GivenUp(h) == IF run[h].tries < RetryLimit THEN {} ELSE {run[h].email}

\* What an expired run answers is ignored.
Throws(h) ==
    /\ queue' = IF run[h].live THEN RetryOf(h) ELSE queue
    /\ abandoned' = abandoned \cup (IF run[h].live THEN GivenUp(h) ELSE {})
    /\ run' = [run EXCEPT ![h] = NoRun]

Returns(h) == run' = [run EXCEPT ![h] = NoRun]

\* Two collections may take longer than the job's 30 minutes.
Expire(h) ==
    /\ run[h].pc = "collect" /\ run[h].live
    /\ Fault
    /\ queue' = RetryOf(h)
    /\ abandoned' = abandoned \cup GivenUp(h)
    /\ run' = [run EXCEPT ![h].live = FALSE]
    /\ UNCHANGED <<mail, email, source, request, requests, unlisted>>

Crash ==
    /\ Fault
    /\ queue' = [q \in Emails \X Tries |->
                   queue[q] + Cardinality({h \in Handlers : /\ run[h].live
                                                            /\ run[h].email = q[1]
                                                            /\ run[h].tries + 1 = q[2]})]
    /\ abandoned' = abandoned \cup request.todo
                    \cup (UNION {GivenUp(h) : h \in {g \in Handlers : run[g].live}})
                    \cup (IF request.pc = "list" THEN Unprocessed ELSE {})
    /\ run' = [h \in Handlers |-> NoRun]
    /\ request' = NoRequest
    /\ mail' = [m \in Messages |-> IF mail[m].pc = "stored" THEN [mail[m] EXCEPT !.pc = "sending"]
                                   ELSE mail[m]]
    /\ UNCHANGED <<email, source, requests, unlisted>>

-----------------------------------------------------------------------------
(* processNewsletterById.                                                  *)

Go(h, pc) == run' = [run EXCEPT ![h].pc = pc]

ReadEmail(h) ==
    /\ run[h].pc = "email"
    /\ IF email[run[h].email] = "deleted" THEN Returns(h) ELSE Go(h, "source")
    /\ UNCHANGED <<intake, source, request, requests, faults, aside>>

Mark(h, processed) == run' = [run EXCEPT ![h].pc = "mark", ![h].processed = processed]

\* An email of an accepted source may have too little content to collect from.
ReadSource(h) ==
    /\ run[h].pc = "source"
    /\ \/ source.status = "absent" /\ Go(h, "discover")
       \/ source.status = "blocked" /\ Mark(h, TRUE)
       \/ source.status = "new" /\ Mark(h, FALSE)
       \/ source.status = "accepted" /\ ~source.poi /\ Mark(h, FALSE)
       \/ Ready /\ (Go(h, "collect") \/ Mark(h, TRUE))
    /\ UNCHANGED <<intake, source, request, requests, faults, aside>>

\* ON CONFLICT DO NOTHING
NewSource(status) ==
    IF source.status = "absent" THEN [status |-> status, poi |-> FALSE] ELSE source

Discover(h) ==
    /\ run[h].pc = "discover"
    /\ source' = NewSource("new")
    /\ Mark(h, FALSE)
    /\ UNCHANGED <<intake, request, requests, faults, aside>>

Marked(i, processed) ==
    [email EXCEPT ![i] = IF @ = "deleted" THEN @
                         ELSE IF processed THEN "processed" ELSE "unprocessed"]

WriteMark(h) ==
    /\ run[h].pc = "mark"
    /\ email' = Marked(run[h].email, run[h].processed)
    /\ abandoned' = abandoned \cup {i \in Emails : email[i] = "processed" /\ email'[i] # email[i]}
    /\ Returns(h)
    /\ UNCHANGED <<mail, queue, source, request, requests, faults, unlisted>>

Collect(h) ==
    /\ run[h].pc = "collect"
    /\ Go(h, "close")
    /\ UNCHANGED <<intake, source, request, requests, faults, aside>>

\* An email that could not be collected is closed all the same, with its error.
WriteClose(h) ==
    /\ run[h].pc = "close"
    /\ email' = Marked(run[h].email, TRUE)
    /\ Returns(h)
    /\ UNCHANGED <<mail, queue, source, request, requests, faults, aside>>

\* A query fails that no catch surrounds.
ProcessingFails(h) ==
    /\ run[h].pc \in {"email", "source", "discover", "mark", "close"}
    /\ Fault
    /\ Throws(h)
    /\ UNCHANGED <<mail, email, source, request, requests, unlisted>>

-----------------------------------------------------------------------------
(* Admins.                                                                 *)

Request ==
    /\ request.pc = "idle"
    /\ requests < MaxRequests /\ requests' = requests + 1

\* PUT /sources/:pattern: the body has a status, a poi_id, which may be null, or both.
\* Only with 'accepted' and a POI in one body are the waiting emails listed.
UpdateSource(status, poi) ==
    /\ source.status # "absent"
    /\ Request
    /\ source' = [status |-> IF status = "kept" THEN source.status ELSE status,
                  poi |-> IF poi = "kept" THEN source.poi ELSE poi = "given"]
    /\ IF status = "accepted" /\ poi = "given"
       THEN request' = [request EXCEPT !.pc = "list"] /\ UNCHANGED unlisted
       ELSE /\ unlisted' = unlisted \cup (IF Ready' /\ ~Ready THEN Unprocessed ELSE {})
            /\ UNCHANGED request
    /\ UNCHANGED <<intake, run, faults, abandoned>>

\* mutant: an email that a run is at is left out
ListUnprocessed_Waiting ==
    /\ request.pc = "list"
    /\ request' = [pc |-> "queue",
                   todo |-> {i \in Unprocessed : \A h \in Handlers : run[h].email # i}]
    /\ UNCHANGED <<intake, source, run, requests, faults, aside>>

ListUnprocessed ==
    /\ request.pc = "list"
    /\ request' = [pc |-> "queue", todo |-> Unprocessed]
    /\ UNCHANGED <<intake, source, run, requests, faults, aside>>

QueueListed ==
    /\ request.pc = "queue"
    /\ IF request.todo = {} THEN request' = NoRequest /\ UNCHANGED <<queue, aside>>
       ELSE \E i \in request.todo :
              /\ queue' = Queued(i)
              /\ TakenUp(i)
              /\ request' = [request EXCEPT !.todo = @ \ {i}]
    /\ UNCHANGED <<mail, email, source, run, requests, faults>>

\* POST /sources: there is no POI yet.
AddSource(status) ==
    /\ Request
    /\ source' = NewSource(status)
    /\ UNCHANGED <<intake, run, request, faults, aside>>

\* DELETE /sources/:pattern
DeleteSource ==
    /\ source.status # "absent"
    /\ Request
    /\ source' = [status |-> "absent", poi |-> FALSE]
    /\ request' = [request EXCEPT !.pc = "delete"]
    /\ UNCHANGED <<intake, run, faults, aside>>

DeleteEmails ==
    /\ request.pc = "delete"
    /\ email' = [i \in Emails |-> IF email[i] = "none" THEN "none" ELSE "deleted"]
    /\ request' = NoRequest
    /\ UNCHANGED <<mail, queue, source, run, requests, faults, aside>>

\* POST /inbound/:id/reprocess, newsletter_reprocess
Reprocess(i) ==
    /\ email[i] \in {"processed", "unprocessed"}
    /\ Request
    /\ email' = [email EXCEPT ![i] = "unprocessed"]
    /\ request' = [pc |-> "queue", todo |-> {i}]
    /\ UNCHANGED <<mail, queue, source, run, faults, aside>>

\* newsletter_assign_poi accepts the sender, then reprocesses this one email: the
\* others of the sender go on waiting.
AssignPoi(i) ==
    /\ email[i] \in {"processed", "unprocessed"}
    /\ Request
    /\ source' = [status |-> "accepted", poi |-> TRUE]
    /\ request' = [pc |-> "reopen", todo |-> {i}]
    /\ unlisted' = unlisted \cup (IF ~Ready THEN Unprocessed \ {i} ELSE {})
    /\ UNCHANGED <<intake, run, faults, abandoned>>

ReopenEmail ==
    /\ request.pc = "reopen"
    /\ email' = [i \in Emails |-> IF i \in request.todo THEN Marked(i, FALSE)[i] ELSE email[i]]
    /\ request' = [request EXCEPT !.pc = "queue"]
    /\ UNCHANGED <<mail, queue, source, run, requests, faults, aside>>

\* A statement of a request fails, and those that come after it are not reached.
RequestFails ==
    /\ request.pc # "idle"
    /\ Fault
    /\ abandoned' = abandoned \cup request.todo
                    \cup (IF request.pc = "list" THEN Unprocessed ELSE {})
    /\ request' = NoRequest
    /\ UNCHANGED <<intake, source, run, requests, unlisted>>

-----------------------------------------------------------------------------
Step(h) ==
    \/ ReadEmail(h) \/ ReadSource(h) \/ Discover(h) \/ WriteMark(h)
    \/ Collect(h) \/ WriteClose(h) \/ ProcessingFails(h)

Statuses == {"new", "accepted", "blocked"}

AdminStep ==
    \/ \E status \in Statuses \cup {"kept"}, poi \in {"kept", "given", "null"} :
          UpdateSource(status, poi)
    \/ \E status \in Statuses : AddSource(status)
    \/ ListUnprocessed \/ QueueListed
    \/ DeleteSource \/ DeleteEmails \/ ReopenEmail \/ RequestFails
    \/ \E i \in Emails : Reprocess(i) \/ AssignPoi(i)

Next ==
    \/ \E m \in Messages : Store(m) \/ Accept(m) \/ Refuse(m)
    \/ \E h \in Handlers : Step(h) \/ Expire(h) \/ \E i \in Emails, t \in Tries : Deliver(h, i, t)
    \/ AdminStep \/ Crash

\* Queries are answered or fail, senders' servers deliver again what was refused,
\* and pg-boss delivers what waits.
Fairness ==
    /\ \A m \in Messages : WF_vars(Store(m)) /\ WF_vars(Accept(m) \/ Refuse(m))
    /\ \A h \in Handlers : WF_vars(Step(h))
    /\ WF_vars(\E h \in Handlers, i \in Emails, t \in Tries : Deliver(h, i, t))
    /\ WF_vars(ListUnprocessed \/ QueueListed \/ DeleteEmails \/ ReopenEmail \/ RequestFails)

Spec == Init /\ [][Next]_vars /\ Fairness

-----------------------------------------------------------------------------
(* Properties.                                                             *)

\* A newsletter of an accepted sender arrives and is processed, in the last of the
\* rows that refused deliveries of it leave behind, if no other.  Left aside are
\* the exceptions of NoneForgotten.
EmailsAreProcessed ==
    \A m \in Messages :
        Ready ~> \/ ~Ready
                 \/ /\ mail[m].pc = "accepted"
                    /\ email[mail[m].row] # "unprocessed" \/ mail[m].row \in abandoned \cup unlisted
=============================================================================
