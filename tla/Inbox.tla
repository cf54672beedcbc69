-------------------------------- MODULE Inbox --------------------------------
(***************************************************************************)
(* What there is of the newsletters that arrive - the rows of an email and *)
(* of its sender, the jobs, and those at work on them - and what is asked  *)
(* of it.  The steps are in module Ingestion.                              *)
(***************************************************************************)
EXTENDS Integers

VARIABLES
    mail,       \* what the sender's server knows of a message, and its row
    email,      \* newsletter_emails: processed or not
    source,     \* poi_newsletter_sources: the row of the sender
    queue,      \* pg-boss: jobs that wait, by email and tries
    run,        \* the executions
    request,    \* an admin's request with several statements
    abandoned,  \* history: emails that a job or request failed for good to process, and
                \* those a second job of theirs took back when they were processed
    unlisted    \* history: emails that waited when their sender became ready by a
                \* request that does not list them

Ready == source = [status |-> "accepted", poi |-> TRUE]

\* Someone will take care of email i: a job or a run of it is under way, or an admin's
\* request is about to queue or delete it.
Pursued(i) ==
    \/ \E job \in DOMAIN queue : job[1] = i /\ queue[job] > 0
    \/ \E h \in DOMAIN run : run[h].email = i /\ run[h].live
    \/ request.pc \in {"list", "delete"} \/ i \in request.todo

\* The sender's server was told that the message is taken, and will not send it again.
Acknowledged(i) == \E m \in DOMAIN mail : mail[m] = [pc |-> "accepted", row |-> i]

\* An email that waited for triage is not forgotten when the admins accept its
\* sender, however the UPDATE and the SELECT of the route fall between the queries of
\* the worker and the statements of the SMTP server.  Left aside are the emails a
\* failure abandoned, and those that waited when newsletter_assign_poi, or requests
\* with the status and the POI apart, made the source ready: none of these lists them.
NoneForgotten ==
    Ready => \A i \in DOMAIN email :
               email[i] = "unprocessed" /\ Acknowledged(i)
               => Pursued(i) \/ i \in abandoned \cup unlisted
=============================================================================
