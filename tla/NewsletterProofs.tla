-------------------------- MODULE NewsletterProofs --------------------------
(***************************************************************************)
(* What holds of newsletters, those the server sends (module Digest) and   *)
(* those it receives (module Ingestion, as In), for every number of jobs,  *)
(* users, messages, retries, executions, requests and faults.  A constant  *)
(* or variable with the same name in both is either's own: no theorem here *)
(* is about the two together.                                              *)
(***************************************************************************)
EXTENDS Digest, Inbox, FiniteSetTheorems, TLAPS

Steps == AtBroadcast \cup {"idle", "users", "favorites", "done", "mail", "mailed"}
Handler == [pc : Steps, job : Jobs \cup {"none"}, live : BOOLEAN, email : Nat, todo : SUBSET Users]

\* The types the argument needs; no bound on the emails is among them.
Types ==
    /\ handler \in [Handlers -> Handler]
    /\ emails \in [created : Nat, scheduled : SUBSET Nat]
    /\ received \in [Users \cup {"preview"} -> Nat]
    /\ logged \in [draft : Nat, broadcast : BOOLEAN, preview : BOOLEAN]
    /\ overlapped \in BOOLEAN

\* An execution that has found no broadcast of today and is at its own.
Sending(h) == handler[h].job \in Broadcasts /\ handler[h].pc \in AtBroadcast \ {"check"}

\* An execution knows the email it is to schedule, and past that there is one, if there
\* is something to tell.  Unless two overlapped, a draft is created when none is
\* recorded, and the recorded one is scheduled.
Right(h) ==
    handler[h].job \in Broadcasts =>
      /\ handler[h].pc \in {"record", "patch", "sent"} => handler[h].email # NoEmail
      /\ content /\ handler[h].pc \in {"sent", "users", "favorites", "done"} => emails.scheduled # {}
      /\ ~overlapped /\ handler[h].pc \in {"create", "record"} => logged.draft = NoEmail
      /\ ~overlapped /\ handler[h].pc \in {"patch", "sent"} => handler[h].email = logged.draft

\* Unless two overlapped, one execution is sending at most.
Alone == ~overlapped => \A g, h \in Handlers : Sending(g) /\ Sending(h) => g = h

\* Unless two overlapped, the recorded draft alone has been scheduled.
DraftScheduled ==
    /\ NoEmail \notin emails.scheduled
    /\ ~overlapped => emails.scheduled \subseteq {logged.draft}

\* What follows the broadcast followed it.
Told == content /\ (logged.broadcast \/ \E u \in Users : received[u] > 0) => emails.scheduled # {}

IInv == Types /\ (\A h \in Handlers : Right(h)) /\ Alone /\ DraftScheduled /\ Told

-----------------------------------------------------------------------------
(* What a step does to the executions.                                     *)

\* The execution h changes, and the others stay.
Only(h) ==
    /\ handler' \in [Handlers -> Handler]
    /\ \A g \in Handlers \ {h} : handler'[g] = handler[g]

\* Of the executions other than h none is sending.
OthersRest(h) == \A g \in Handlers \ {h} : ~Sending(g)

\* The idle execution.
LEMMA Idle == NoHandler \in Handler /\ NoHandler.pc = "idle" /\ NoHandler.job = "none"
  BY DEF NoHandler, Handler, Steps, NoEmail

\* An execution goes on: overlaps are remembered, and an execution that goes on sending
\* without one is the only one.
LEMMA Goes ==
    ASSUME Types, NEW h \in Handlers, NEW pc \in Steps, Go(h, pc)
    PROVE  /\ Only(h) /\ handler'[h].pc = pc /\ handler'[h].job = handler[h].job
           /\ handler'[h].email = handler[h].email
           /\ overlapped' \in BOOLEAN /\ (overlapped => overlapped')
           /\ handler[h].job \in Broadcasts /\ pc \in AtBroadcast /\ ~overlapped' => OthersRest(h)
<1>1. Only(h) /\ handler'[h].pc = pc /\ handler'[h].job = handler[h].job
      /\ handler'[h].email = handler[h].email
  BY DEF Go, Types, Handler, Only
<1>2. overlapped' \in BOOLEAN /\ (overlapped => overlapped')  BY DEF Go, Types
<1>3. ASSUME handler[h].job \in Broadcasts, pc \in AtBroadcast, ~overlapped' PROVE OthersRest(h)
  <2>1. \A g \in Handlers \ {h} :
          ~ /\ {handler[g].job, handler[h].job} \subseteq Broadcasts
            /\ {handler[g].pc, handler'[h].pc} \subseteq AtBroadcast
    BY <1>3 DEF Go
  <2>. QED  BY <1>1, <1>3, <2>1 DEF OthersRest, Sending
<1>. QED  BY <1>1, <1>2, <1>3

\* An execution goes on with an email.
LEMMA Carries ==
    ASSUME Types, NEW h \in Handlers, NEW pc \in Steps, NEW e \in Nat,
           handler' = [handler EXCEPT ![h].pc = pc, ![h].email = e]
    PROVE  /\ Only(h) /\ handler'[h].pc = pc /\ handler'[h].email = e
           /\ handler'[h].job = handler[h].job
<1>. DEFINE x == [handler[h] EXCEPT !.pc = pc, !.email = e]
<1>1. handler' = [handler EXCEPT ![h] = x]  BY DEF Types
<1>2. handler[h] \in Handler  BY DEF Types
<1>3. x \in Handler /\ x.pc = pc /\ x.email = e /\ x.job = handler[h].job  BY <1>2 DEF Handler
<1>. HIDE DEF x
<1>. QED  BY <1>1, <1>3 DEF Only, Types

\* A step of one execution keeps the invariant when that execution is right after it,
\* no email is unscheduled, and either the draft stays or the others are at rest.
LEMMA OneSteps ==
    ASSUME IInv, NEW h \in Handlers, Only(h), Right(h)', DraftScheduled', Told', content' = content,
           overlapped' \in BOOLEAN, overlapped => overlapped',
           emails' \in [created : Nat, scheduled : SUBSET Nat],
           received' \in [Users \cup {"preview"} -> Nat],
           logged' \in [draft : Nat, broadcast : BOOLEAN, preview : BOOLEAN],
           emails.scheduled \subseteq emails'.scheduled,
           logged'.draft = logged.draft \/ (~overlapped' => OthersRest(h)),
           Sending(h)' /\ ~Sending(h) /\ ~overlapped' => OthersRest(h)
    PROVE  IInv'
<1>1. Types'  BY DEF Types, Only
<1>2. ASSUME NEW g \in Handlers PROVE Right(g)'
  <2>1. CASE g = h  BY <2>1
  <2>2. CASE g # h
    <3>1. handler'[g] = handler[g] /\ Right(g)  BY <2>2 DEF Only, IInv
    <3>2. CASE logged'.draft = logged.draft  BY <3>1, <3>2 DEF Right
    <3>3. CASE ~overlapped' => ~Sending(g)
      <4>1. ~overlapped' => ~overlapped  OBVIOUS
      <4>. QED  BY <3>1, <3>3, <4>1 DEF Right, Sending, AtBroadcast
    <3>. QED  BY <2>2, <3>2, <3>3 DEF OthersRest
  <2>. QED  BY <2>1, <2>2
<1>3. Alone'
  <2>. SUFFICES ASSUME ~overlapped', NEW f \in Handlers, NEW g \in Handlers,
                       Sending(f)', Sending(g)', f # g
                PROVE  FALSE
    BY DEF Alone
  <2>1. \A e \in Handlers \ {h} : Sending(e)' => Sending(e)  BY DEF Only, Sending
  <2>2. ~Sending(h) /\ Sending(h)' => OthersRest(h)  OBVIOUS
  <2>3. (f # h /\ Sending(f)) \/ (g # h /\ Sending(g))  BY <2>1
  <2>4. ~(Sending(f) /\ Sending(g))  BY DEF IInv, Alone
  <2>. QED  BY <2>1, <2>2, <2>3, <2>4 DEF OthersRest
<1>. QED  BY <1>1, <1>2, <1>3 DEF IInv

\* An execution ends, and what it knew is forgotten.
LEMMA Ended ==
    ASSUME IInv, NEW h \in Handlers, NEW m, Ends(h, m)
    PROVE  Only(h) /\ Right(h)' /\ ~Sending(h)'
<1>1. Only(h) /\ handler'[h].pc = "idle"  BY Idle DEF Ends, Only, IInv, Types
<1>. QED  BY <1>1 DEF Right, Sending, AtBroadcast

-----------------------------------------------------------------------------
(* sendWeeklyDigest keeps the invariant.                                   *)

\* CheckSent and FindDraft.
LEMMA CheckSentKeeps == ASSUME IInv, NEW h \in Handlers, CheckSent(h) PROVE IInv'
<1>. DEFINE pc == IF SentToday THEN "users" ELSE "draft"
<1>0. pc \in Steps /\ (pc = "users" => logged.broadcast) /\ pc \in {"users", "draft"}
  BY DEF Steps, AtBroadcast, SentToday
<1>1. Go(h, pc) /\ handler[h].job \in Broadcasts  BY DEF CheckSent, At
<1>. HIDE DEF pc
<1>2. /\ Only(h) /\ handler'[h].pc = pc /\ overlapped' \in BOOLEAN /\ (overlapped => overlapped')
      /\ handler[h].job \in Broadcasts /\ pc \in AtBroadcast /\ ~overlapped' => OthersRest(h)
  BY <1>0, <1>1, Goes DEF IInv
<1>3. Right(h)'  BY <1>0, <1>2 DEF Right, CheckSent, buttondown, IInv, Told
<1>4. DraftScheduled' /\ Told'
  BY <1>2 DEF CheckSent, buttondown, IInv, DraftScheduled, Told
<1>5. Sending(h)' /\ ~overlapped' => OthersRest(h)  BY <1>1, <1>2 DEF Sending
<1>. QED  BY <1>2, <1>3, <1>4, <1>5, OneSteps DEF CheckSent, buttondown, IInv, Types

\* A draft on record is scheduled again.
LEMMA FindDraftKeeps == ASSUME IInv, NEW h \in Handlers, FindDraft(h) PROVE IInv'
<1>0. handler[h].pc = "draft" /\ handler[h].job \in Broadcasts /\ Sending(h)
      /\ UNCHANGED <<content, emails, received, logged>>
  BY DEF FindDraft, At, Sending, AtBroadcast, buttondown
<1>1. CASE ~content \/ logged.draft = NoEmail
  <2>. DEFINE pc == IF ~content THEN "users" ELSE "create"
  <2>1. pc \in Steps /\ (pc = "users" => ~content) /\ pc \in {"users", "create"}
        /\ (pc = "create" => logged.draft = NoEmail)
    BY <1>1 DEF Steps, AtBroadcast
  <2>2. Go(h, pc)  BY <1>1 DEF FindDraft, RecordedDraft
  <2>. HIDE DEF pc
  <2>3. Only(h) /\ handler'[h].pc = pc /\ overlapped' \in BOOLEAN /\ (overlapped => overlapped')
    BY <2>1, <2>2, Goes DEF IInv
  <2>4. Right(h)'  BY <1>0, <2>1, <2>3 DEF Right
  <2>5. DraftScheduled' /\ Told'  BY <1>0, <2>3 DEF IInv, DraftScheduled, Told
  <2>. QED  BY <1>0, <2>3, <2>4, <2>5, OneSteps DEF IInv, Types
<1>2. CASE content /\ logged.draft # NoEmail
  <2>1. handler' = [handler EXCEPT ![h].pc = "patch", ![h].email = logged.draft]
        /\ overlapped' = overlapped
    BY <1>2 DEF FindDraft, RecordedDraft
  <2>2. /\ Only(h) /\ handler'[h].pc = "patch" /\ handler'[h].email = logged.draft
    <3>1. Types  BY DEF IInv
    <3>2. logged.draft \in Nat /\ "patch" \in Steps  BY <3>1 DEF Types, Steps, AtBroadcast
    <3>3. PICK pc \in Steps, e \in Nat : pc = "patch" /\ e = logged.draft  BY <3>2
    <3>4. handler' = [handler EXCEPT ![h].pc = pc, ![h].email = e]  BY <2>1, <3>3
    <3>5. Only(h) /\ handler'[h].pc = pc /\ handler'[h].email = e  BY <3>1, <3>4, Carries
    <3>. QED  BY <3>3, <3>5
  <2>3. Right(h)'  BY <1>0, <1>2, <2>2 DEF Right
  <2>4. DraftScheduled' /\ Told'  BY <1>0, <2>1 DEF IInv, DraftScheduled, Told
  <2>. QED  BY <1>0, <2>1, <2>2, <2>3, <2>4, OneSteps DEF IInv, Types
<1>. QED  BY <1>1, <1>2

\* The new draft is an email.
LEMMA CreateDraftKeeps == ASSUME IInv, NEW h \in Handlers, CreateDraft(h) PROVE IInv'
<1>0. handler[h].pc = "create" /\ handler[h].job \in Broadcasts /\ Sending(h)
      /\ UNCHANGED <<content, received, logged, overlapped>>
  BY DEF CreateDraft, At, Sending, AtBroadcast
<1>1. /\ emails' \in [created : Nat, scheduled : SUBSET Nat] /\ emails'.scheduled = emails.scheduled
      /\ emails'.created = emails.created + 1 /\ emails.created \in Nat
  BY DEF CreateDraft, IInv, Types
<1>2. emails'.created \in Nat /\ emails'.created # NoEmail  BY <1>1 DEF NoEmail
<1>3. /\ Only(h) /\ handler'[h].pc = "record" /\ handler'[h].email = emails'.created
      /\ handler'[h].job = handler[h].job
  BY <1>2, Carries DEF CreateDraft, IInv, Steps, AtBroadcast
<1>4. Right(h)'  BY <1>0, <1>2, <1>3 DEF Right, IInv
<1>5. DraftScheduled' /\ Told'  BY <1>0, <1>1 DEF IInv, DraftScheduled, Told
<1>. QED  BY <1>0, <1>1, <1>3, <1>4, <1>5, OneSteps DEF IInv, Types

\* A draft is recorded over none, unless two executions overlapped.
LEMMA RecordDraftKeeps == ASSUME IInv, NEW h \in Handlers, RecordDraft(h) PROVE IInv'
<1>0. handler[h].pc = "record" /\ handler[h].job \in Broadcasts /\ Sending(h) /\ Go(h, "patch")
      /\ UNCHANGED <<content, emails, received>>
  BY DEF RecordDraft, At, Sending, AtBroadcast, buttondown
<1>1. /\ Only(h) /\ handler'[h].pc = "patch" /\ handler'[h].email = handler[h].email
      /\ overlapped' \in BOOLEAN /\ (overlapped => overlapped') /\ (~overlapped' => OthersRest(h))
  BY <1>0, Goes DEF IInv, Steps, AtBroadcast
<1>2. handler[h].email \in Nat /\ handler[h].email # NoEmail
  BY <1>0 DEF IInv, Types, Handler, Right
<1>3. /\ logged' \in [draft : Nat, broadcast : BOOLEAN, preview : BOOLEAN]
      /\ logged'.draft = handler[h].email /\ logged'.broadcast = logged.broadcast
  BY <1>2 DEF RecordDraft, IInv, Types
<1>4. Right(h)'  BY <1>0, <1>1, <1>2, <1>3 DEF Right
<1>5. ~overlapped => emails.scheduled = {}
  BY <1>0 DEF IInv, Right, DraftScheduled
<1>6. DraftScheduled' /\ Told'
  BY <1>0, <1>1, <1>3, <1>5 DEF IInv, DraftScheduled, Told
<1>. QED  BY <1>0, <1>1, <1>3, <1>4, <1>6, OneSteps DEF IInv, Types

\* The email of an execution becomes scheduled.
LEMMA Schedules ==
    ASSUME IInv, NEW h \in Handlers, handler[h].pc = "patch", handler[h].job \in Broadcasts,
           emails' = [emails EXCEPT !.scheduled = emails.scheduled \cup {handler[h].email}],
           logged' = logged, content' = content, received' = received, overlapped => overlapped'
    PROVE  /\ emails' \in [created : Nat, scheduled : SUBSET Nat] /\ emails'.scheduled # {}
           /\ emails.scheduled \subseteq emails'.scheduled /\ DraftScheduled' /\ Told'
<1>1. handler[h].email \in Nat /\ handler[h].email # NoEmail
      /\ (~overlapped => handler[h].email = logged.draft)
  BY DEF IInv, Types, Handler, Right
<1>2. /\ emails' \in [created : Nat, scheduled : SUBSET Nat]
      /\ emails'.scheduled = emails.scheduled \cup {handler[h].email}
  BY <1>1 DEF IInv, Types
<1>. QED  BY <1>1, <1>2 DEF IInv, DraftScheduled, Told

\* ScheduleEmail and RecordSent.
LEMMA ScheduleEmailKeeps == ASSUME IInv, NEW h \in Handlers, ScheduleEmail(h) PROVE IInv'
<1>0. handler[h].pc = "patch" /\ handler[h].job \in Broadcasts /\ Sending(h) /\ Go(h, "sent")
      /\ UNCHANGED <<content, received, logged>>
  BY DEF ScheduleEmail, At, Sending, AtBroadcast
<1>1. /\ Only(h) /\ handler'[h].pc = "sent" /\ handler'[h].email = handler[h].email
      /\ handler'[h].job = handler[h].job
      /\ overlapped' \in BOOLEAN /\ (overlapped => overlapped')
  BY <1>0, Goes DEF IInv, Steps, AtBroadcast
<1>2. /\ emails' \in [created : Nat, scheduled : SUBSET Nat] /\ emails'.scheduled # {}
      /\ emails.scheduled \subseteq emails'.scheduled /\ DraftScheduled' /\ Told'
  BY <1>0, <1>1, Schedules DEF ScheduleEmail
<1>3. Right(h)'  BY <1>0, <1>1, <1>2 DEF IInv, Right
<1>. QED  BY <1>0, <1>1, <1>2, <1>3, OneSteps DEF IInv, Types

\* The row is written once the email is scheduled.
LEMMA RecordSentKeeps == ASSUME IInv, NEW h \in Handlers, RecordSent(h) PROVE IInv'
<1>0. handler[h].pc = "sent" /\ handler[h].job \in Broadcasts /\ Sending(h) /\ Go(h, "users")
      /\ UNCHANGED <<content, emails, received>>
  BY DEF RecordSent, At, Sending, AtBroadcast, buttondown
<1>1. Only(h) /\ handler'[h].pc = "users" /\ overlapped' \in BOOLEAN /\ (overlapped => overlapped')
  BY <1>0, Goes DEF IInv, Steps
<1>2. /\ logged' \in [draft : Nat, broadcast : BOOLEAN, preview : BOOLEAN]
      /\ logged'.draft = logged.draft
  BY DEF RecordSent, IInv, Types
<1>3. content => emails.scheduled # {}  BY <1>0 DEF IInv, Right
<1>4. Right(h)' /\ Told'  BY <1>0, <1>1, <1>3 DEF Right, Told
<1>5. DraftScheduled'  BY <1>0, <1>1, <1>2 DEF IInv, DraftScheduled
<1>. QED  BY <1>0, <1>1, <1>2, <1>4, <1>5, OneSteps DEF IInv, Types

\* BroadcastFails: what Buttondown did all the same is an unknown draft or the
\* recorded one scheduled.
LEMMA BroadcastFailsKeeps == ASSUME IInv, NEW h \in Handlers, BroadcastFails(h) PROVE IInv'
<1>0. /\ handler[h].job \in Broadcasts /\ UNCHANGED <<content, received, logged, overlapped>>
      /\ Only(h) /\ Right(h)' /\ ~Sending(h)'
  BY Ended DEF BroadcastFails, Throws
<1>1. CASE handler[h].pc = "patch"
           /\ emails' = [emails EXCEPT !.scheduled = @ \cup {handler[h].email}]
  <2>1. /\ emails' \in [created : Nat, scheduled : SUBSET Nat]
        /\ emails.scheduled \subseteq emails'.scheduled /\ DraftScheduled' /\ Told'
    BY <1>0, <1>1, Schedules
  <2>. QED  BY <1>0, <2>1, OneSteps DEF IInv, Types
<1>2. CASE emails' = emails \/ emails' = [emails EXCEPT !.created = @ + 1]
  <2>1. /\ emails' \in [created : Nat, scheduled : SUBSET Nat]
        /\ emails'.scheduled = emails.scheduled
    BY <1>2 DEF IInv, Types
  <2>2. DraftScheduled' /\ Told'  BY <1>0, <2>1 DEF IInv, DraftScheduled, Told
  <2>. QED  BY <1>0, <2>1, <2>2, OneSteps DEF IInv, Types
<1>. QED  BY <1>1, <1>2 DEF BroadcastFails

-----------------------------------------------------------------------------
(* So do sendPersonalizedDigests and sendDigestPreviewTo.                  *)

\* A step that moves no email and writes no row about the broadcast keeps the
\* invariant when what it mails to users follows it.
LEMMA NothingSent ==
    ASSUME IInv, NEW h \in Handlers, Only(h), Right(h)', ~Sending(h)',
           UNCHANGED <<content, emails>>,
           logged' \in [draft : Nat, broadcast : BOOLEAN, preview : BOOLEAN],
           logged'.draft = logged.draft, logged'.broadcast = logged.broadcast,
           received' \in [Users \cup {"preview"} -> Nat],
           \/ \A u \in Users : received'[u] = received[u]
           \/ content => emails.scheduled # {},
           overlapped' \in BOOLEAN, overlapped => overlapped'
    PROVE  IInv'
<1>1. DraftScheduled' /\ Told'  BY DEF IInv, DraftScheduled, Told
<1>. QED  BY <1>1, OneSteps DEF IInv, Types

\* ReadUsers, MailFavorites and AllMailed: an execution that is past its broadcast.
LEMMA ReadUsersKeeps == ASSUME IInv, NEW h \in Handlers, ReadUsers(h) PROVE IInv'
<1>0. handler[h].pc = "users" /\ handler[h].job \in Broadcasts
      /\ UNCHANGED <<content, emails, received, logged, overlapped>>
  BY DEF ReadUsers, At, buttondown
<1>1. Only(h) /\ Right(h)' /\ ~Sending(h)'
  <2>1. CASE Users = {}  BY <2>1, Ended DEF ReadUsers, Returns
  <2>2. CASE Users # {}
    <3>. DEFINE x == [handler[h] EXCEPT !.pc = "favorites", !.todo = Users]
    <3>1. handler' = [handler EXCEPT ![h] = x]  BY <2>2 DEF ReadUsers, IInv, Types
    <3>2. handler[h] \in Handler  BY DEF IInv, Types
    <3>3. x \in Handler /\ x.pc = "favorites"  BY <3>2 DEF Handler, Steps
    <3>. HIDE DEF x
    <3>4. Only(h) /\ handler'[h].pc = "favorites"  BY <3>1, <3>3 DEF Only, IInv, Types
    <3>. QED  BY <1>0, <3>4 DEF Right, Sending, AtBroadcast, IInv
  <2>. QED  BY <2>1, <2>2
<1>. QED  BY <1>0, <1>1, NothingSent DEF IInv, Types

\* There is a broadcast when a user gets a mail about favorites.
LEMMA MailFavoritesKeeps ==
    ASSUME IInv, NEW h \in Handlers, NEW u \in Users, MailFavorites(h, u) PROVE IInv'
<1>0. handler[h].pc = "favorites" /\ handler[h].job \in Broadcasts
      /\ UNCHANGED <<content, emails, logged, overlapped>>
  BY DEF MailFavorites, At
<1>1. Only(h) /\ handler'[h].pc = "favorites"
  BY <1>0 DEF MailFavorites, Only, IInv, Types, Handler
<1>2. Right(h)' /\ ~Sending(h)'  BY <1>0, <1>1 DEF Right, Sending, AtBroadcast, IInv
<1>3. content => emails.scheduled # {}  BY <1>0 DEF IInv, Right
<1>4. received' \in [Users \cup {"preview"} -> Nat]  BY DEF MailFavorites, IInv, Types
<1>. QED  BY <1>0, <1>1, <1>2, <1>3, <1>4, NothingSent DEF IInv, Types

\* All users were told, or skipped.
LEMMA AllMailedKeeps == ASSUME IInv, NEW h \in Handlers, AllMailed(h) PROVE IInv'
<1>0. handler[h].pc = "favorites" /\ handler[h].job \in Broadcasts /\ Go(h, "done")
      /\ UNCHANGED <<content, emails, received, logged>>
  BY DEF AllMailed, At, buttondown
<1>1. Only(h) /\ handler'[h].pc = "done" /\ overlapped' \in BOOLEAN /\ (overlapped => overlapped')
  BY <1>0, Goes DEF IInv, Steps
<1>2. Right(h)' /\ ~Sending(h)'  BY <1>0, <1>1 DEF Right, Sending, AtBroadcast, IInv
<1>. QED  BY <1>0, <1>1, <1>2, NothingSent DEF IInv, Types

\* Finish and FavoritesFail end the execution.
LEMMA FinishKeeps ==
    ASSUME IInv, NEW h \in Handlers, Finish(h) \/ FavoritesFail(h) PROVE IInv'
<1>1. Only(h) /\ Right(h)' /\ ~Sending(h)' /\ UNCHANGED <<content, emails, received, logged, overlapped>>
  BY Ended DEF Finish, FavoritesFail, Returns, Throws, buttondown
<1>. QED  BY <1>1, NothingSent DEF IInv, Types

\* The steps of a preview: its job is no broadcast, and its mail is no user's.
LEMMA PreviewKeeps ==
    ASSUME IInv, NEW h \in Handlers,
           CheckPreview(h) \/ MailPreview(h) \/ RecordPreview(h) \/ PreviewFails(h)
    PROVE  IInv'
<1>0. handler[h].job \in Previews /\ handler[h].job \notin Broadcasts /\ UNCHANGED <<content, emails>>
  BY DigestAssumption DEF CheckPreview, MailPreview, RecordPreview, PreviewFails, At, buttondown
<1>1. /\ logged' \in [draft : Nat, broadcast : BOOLEAN, preview : BOOLEAN]
      /\ logged'.draft = logged.draft /\ logged'.broadcast = logged.broadcast
  BY DEF CheckPreview, MailPreview, RecordPreview, PreviewFails, IInv, Types
<1>2. /\ received' \in [Users \cup {"preview"} -> Nat]
      /\ \A u \in Users : received'[u] = received[u]
  BY DigestAssumption
  DEF CheckPreview, MailPreview, RecordPreview, PreviewFails, buttondown, IInv, Types
<1>3. /\ Only(h) /\ Right(h)' /\ ~Sending(h)'
      /\ overlapped' \in BOOLEAN /\ (overlapped => overlapped')
  <2>1. ASSUME NEW pc \in {"mail", "mailed"}, Go(h, pc)
        PROVE  /\ Only(h) /\ Right(h)' /\ ~Sending(h)'
               /\ overlapped' \in BOOLEAN /\ (overlapped => overlapped')
    BY <1>0, <2>1, Goes DEF IInv, Steps, Right, Sending
  <2>2. ASSUME NEW m, Ends(h, m), overlapped' = overlapped
        PROVE  /\ Only(h) /\ Right(h)' /\ ~Sending(h)'
               /\ overlapped' \in BOOLEAN /\ (overlapped => overlapped')
    BY <2>2, Ended DEF IInv, Types
  <2>. QED
    BY <2>1, <2>2 DEF CheckPreview, MailPreview, RecordPreview, PreviewFails, Returns, Throws
<1>. QED  BY <1>0, <1>1, <1>2, <1>3, NothingSent

-----------------------------------------------------------------------------
(* pg-boss, the crash, and the theorems.                                   *)

\* What a step that leaves each execution as it was, or without a part in the
\* broadcast, keeps.
LEMMA Unmoved ==
    ASSUME IInv, handler' \in [Handlers -> Handler],
           \A h \in Handlers :
             \/ handler'[h].pc = handler[h].pc /\ handler'[h].job = handler[h].job
                /\ handler'[h].email = handler[h].email
             \/ handler'[h].pc \in {"idle", "check"},
           UNCHANGED <<content, emails, received, logged, overlapped>>
    PROVE  IInv'
<1>1. Types'  BY DEF IInv, Types
<1>2. ASSUME NEW h \in Handlers PROVE Right(h)' /\ (Sending(h)' => Sending(h))
  BY DEF IInv, Right, Sending, AtBroadcast
<1>3. Alone' /\ DraftScheduled' /\ Told'  BY <1>2 DEF IInv, Alone, DraftScheduled, Told
<1>. QED  BY <1>1, <1>2, <1>3 DEF IInv

\* Submit, Deliver, Expire and Crash keep the invariant.
LEMMA DeliverKeeps == ASSUME IInv, NEW h \in Handlers, NEW j \in Jobs, Deliver(h, j) PROVE IInv'
<1>. DEFINE x == [NoHandler EXCEPT !.pc = "check", !.job = j, !.live = TRUE]
<1>1. handler' = [handler EXCEPT ![h] = x]  BY DEF Deliver
<1>2. x \in Handler /\ x.pc = "check"  BY Idle DEF Handler, Steps, AtBroadcast, NoHandler
<1>. HIDE DEF x
<1>. QED  BY <1>1, <1>2, Unmoved DEF Deliver, buttondown, IInv, Types

\* An expired execution is only cut off from its job.
LEMMA ExpireKeeps == ASSUME IInv, NEW j \in Jobs, Expire(j) PROVE IInv'
<1>1. ASSUME NEW h \in Handlers
      PROVE  /\ handler'[h] \in Handler /\ handler'[h].pc = handler[h].pc
             /\ handler'[h].job = handler[h].job /\ handler'[h].email = handler[h].email
  <2>1. handler[h] \in Handler  BY DEF IInv, Types
  <2>2. handler'[h] = IF handler[h].job = j THEN [handler[h] EXCEPT !.live = FALSE] ELSE handler[h]
    BY DEF Expire
  <2>. QED  BY <2>1, <2>2 DEF Handler
<1>2. handler' \in [Handlers -> Handler]  BY <1>1 DEF Expire
<1>. QED  BY <1>1, <1>2, Unmoved DEF Expire, buttondown

\* A crash leaves no execution.
LEMMA CrashKeeps == ASSUME IInv, Crash PROVE IInv'
  BY Idle, Unmoved DEF Crash, buttondown

\* Every step of an execution keeps the invariant.
LEMMA HandlerStepKeeps == ASSUME IInv, NEW h \in Handlers, HandlerStep(h) PROVE IInv'
<1>1. ASSUME NEW u \in Users, MailFavorites(h, u) PROVE IInv'  BY <1>1, MailFavoritesKeeps
<1>. QED
  BY <1>1, CheckSentKeeps, FindDraftKeeps, CreateDraftKeeps, RecordDraftKeeps, ScheduleEmailKeeps,
     RecordSentKeeps, BroadcastFailsKeeps, ReadUsersKeeps, AllMailedKeeps, FinishKeeps, PreviewKeeps
  DEF HandlerStep

\* The invariant holds at first, and every step keeps it.
LEMMA InitHolds == Init => IInv
<1>. SUFFICES ASSUME Init PROVE IInv  OBVIOUS
<1>1. \A h \in Handlers : handler[h] = NoHandler  BY DEF Init
<1>2. Types  BY Idle DEF Init, Types, NoEmail
<1>3. \A h \in Handlers : Right(h) /\ ~Sending(h)
  BY <1>1, Idle DEF Right, Sending, AtBroadcast
<1>4. Alone /\ DraftScheduled /\ Told  BY <1>3 DEF Init, Alone, DraftScheduled, Told
<1>. QED  BY <1>2, <1>3, <1>4 DEF IInv

\* One case for each action.
LEMMA StepKeeps == IInv /\ [Next]_vars => IInv'
<1>. SUFFICES ASSUME IInv, [Next]_vars PROVE IInv'  OBVIOUS
<1>1. ASSUME NEW j \in Jobs, Submit(j) PROVE IInv'
  BY <1>1, Unmoved DEF Submit, buttondown, IInv, Types
<1>2. ASSUME NEW j \in Jobs, Expire(j) PROVE IInv'  BY <1>2, ExpireKeeps
<1>3. ASSUME NEW j \in Jobs, NEW h \in Handlers, Deliver(h, j) PROVE IInv'  BY <1>3, DeliverKeeps
<1>4. ASSUME NEW h \in Handlers, HandlerStep(h) PROVE IInv'  BY <1>4, HandlerStepKeeps
<1>5. CASE Crash  BY <1>5, CrashKeeps
<1>6. CASE UNCHANGED vars  BY <1>6, Unmoved DEF vars, buttondown, IInv, Types
<1>. QED  BY <1>1, <1>2, <1>3, <1>4, <1>5, <1>6 DEF Next

\* The invariant holds in every reachable state of a digest.
THEOREM Invariance == Spec => []IInv
  BY InitHolds, StepKeeps, PTL DEF Spec

\* sendWeeklyDigest schedules one broadcast a day, however often pg-boss redelivers it and
\* whatever fails or is lost, unless two executions of it overlapped.
THEOREM BroadcastOnce == Spec => []OneBroadcast
<1>1. IInv => OneBroadcast
  <2>. SUFFICES ASSUME IInv, ~overlapped PROVE ~(Cardinality(emails.scheduled) > 1)
    BY DEF OneBroadcast
  <2>1. emails.scheduled = {} \/ emails.scheduled = {logged.draft}  BY DEF IInv, DraftScheduled
  <2>2. Cardinality({}) = 0 /\ Cardinality({logged.draft}) = 1  BY FS_EmptySet, FS_Singleton
  <2>. QED  BY <2>1, <2>2
<1>. QED  BY <1>1, Invariance, PTL

\* No user is mailed about favorites before the broadcast was scheduled, when there is
\* something to tell: a digest that fails never gets to sendPersonalizedDigests.
THEOREM FavoritesComeAfter == Spec => []FavoritesFollowBroadcast
<1>1. IInv => FavoritesFollowBroadcast  BY DEF IInv, Told, FavoritesFollowBroadcast
<1>. QED  BY <1>1, Invariance, PTL

-----------------------------------------------------------------------------
(* Copies of the mails about favorites.                                    *)

\* The deliveries as the messages count them: a job never submitted had no try, and
\* an execution whose job has not expired has it to itself.
Message == [state : {"none", "queued", "active", "completed", "failed"}, tries : 0..RetryLimit]
Counting ==
    /\ message \in [Jobs -> Message]
    /\ \A j \in Jobs : message[j].state = "none" => message[j].tries = 0
    /\ \A h \in Handlers : handler[h].live => /\ handler[h].job \in Jobs
                                              /\ message[handler[h].job].state = "active"
    /\ \A g, h \in Handlers : handler[g].live /\ handler[h].live /\ handler[g].job = handler[h].job
                              => g = h

\* The executions that may still mail u.
MayMail(u) ==
    {h \in Handlers : /\ handler[h].job \in Broadcasts
                      /\ \/ handler[h].pc \notin {"idle", "favorites", "done"}
                         \/ handler[h].pc = "favorites" /\ u \in handler[h].todo}

\* Each copy had a delivery of its own, and each execution has one left.
Covered == \A u \in Users : received[u] + Cardinality(MayMail(u)) <= Cardinality(Delivered)

CInv == IInv /\ Counting /\ Covered

\* How often a message was delivered.
Count(m) == IF m.state = "none" THEN 0 ELSE m.tries + (IF m.state = "queued" THEN 0 ELSE 1)

\* The executions and the deliveries can be counted.
LEMMA Finite ==
    /\ \A u : IsFiniteSet(MayMail(u)) /\ Cardinality(MayMail(u)) \in Nat
    /\ IsFiniteSet(Delivered) /\ Cardinality(Delivered) \in Nat
<1>1. IsFiniteSet(Handlers)  BY DigestAssumption, FS_Interval DEF Handlers
<1>2. \A u : MayMail(u) \subseteq Handlers  BY DEF MayMail
<1>3. IsFiniteSet(Broadcasts \X (1..(RetryLimit + 1)))
  <2>1. IsFiniteSet(Broadcasts)  BY DigestAssumption, FS_Subset
  <2>2. IsFiniteSet(1..(RetryLimit + 1))  BY DigestAssumption, FS_Interval
  <2>. QED  BY <2>1, <2>2, FS_Product
<1>4. Delivered \subseteq Broadcasts \X (1..(RetryLimit + 1))  BY DEF Delivered
<1>. QED  BY <1>1, <1>2, <1>3, <1>4, FS_Subset, FS_CardinalityType

\* A message given back was delivered as often as before.
LEMMA GivesBack ==
    ASSUME NEW m \in Message, m.state = "active"
    PROVE  /\ GivenBack(m) \in Message /\ GivenBack(m).state \in {"queued", "failed"}
           /\ Count(GivenBack(m)) = Count(m)
<1>0. m.tries \in 0..RetryLimit /\ RetryLimit \in Nat  BY DigestAssumption DEF Message
<1>1. CASE m.tries < RetryLimit
  <2>1. GivenBack(m) = [state |-> "queued", tries |-> m.tries + 1]  BY <1>1 DEF GivenBack
  <2>. QED  BY <1>0, <1>1, <2>1 DEF Message, Count
<1>2. CASE ~(m.tries < RetryLimit)
  <2>1. GivenBack(m) = [m EXCEPT !.state = "failed"]  BY <1>2 DEF GivenBack
  <2>. QED  BY <1>0, <2>1 DEF Message, Count
<1>. QED  BY <1>1, <1>2

\* With as many deliveries as before, no more copies and no other execution that may
\* mail, the copies are still covered.
LEMMA StillCovered ==
    ASSUME CInv, IInv', \A j \in Broadcasts : Count(message'[j]) = Count(message[j]),
           \A u \in Users : MayMail(u)' \subseteq MayMail(u),
           \A u \in Users : received'[u] = received[u]
    PROVE  Covered'
<1>1. Delivered' = Delivered  BY DEF Delivered, Deliveries, Count
<1>2. ASSUME NEW u \in Users
      PROVE  received'[u] + Cardinality(MayMail(u)') <= Cardinality(Delivered)
  <2>1. Cardinality(MayMail(u)') <= Cardinality(MayMail(u)) /\ Cardinality(MayMail(u)') \in Nat
    BY Finite, FS_Subset, FS_CardinalityType
  <2>2. received[u] \in Nat /\ Cardinality(MayMail(u)) \in Nat /\ Cardinality(Delivered) \in Nat
    BY Finite DEF CInv, IInv, Types
  <2>3. received[u] + Cardinality(MayMail(u)) <= Cardinality(Delivered)  BY DEF CInv, Covered
  <2>. QED  BY <2>1, <2>2, <2>3
<1>. QED  BY <1>1, <1>2 DEF Covered

\* An execution goes on, and is no nearer to a mail than it was.
LEMMA Proceeds ==
    ASSUME CInv, IInv', NEW h \in Handlers, NEW x, handler' = [handler EXCEPT ![h] = x],
           x.job = handler[h].job, x.live = handler[h].live, UNCHANGED message,
           handler[h].job \in Broadcasts =>
             \A u \in Users : \/ x.pc \in {"idle", "done"}
                              \/ x.pc = "favorites" /\ u \notin x.todo
                              \/ h \in MayMail(u)
    PROVE  Counting' /\ \A u \in Users : MayMail(u)' \subseteq MayMail(u)
<1>1. \A g \in Handlers : handler'[g] = IF g = h THEN x ELSE handler[g]
  BY DEF CInv, IInv, Types
<1>2. \A g \in Handlers : handler'[g].job = handler[g].job /\ handler'[g].live = handler[g].live
  BY <1>1
<1>3. Counting'
  <2>1. (\A g \in Handlers : handler[g].live => /\ handler[g].job \in Jobs
                                                /\ message[handler[g].job].state = "active")'
    BY <1>2 DEF CInv, Counting
  <2>2. (\A f, g \in Handlers : handler[f].live /\ handler[g].live /\ handler[f].job = handler[g].job
                                => f = g)'
    BY <1>2 DEF CInv, Counting
  <2>. QED  BY <2>1, <2>2 DEF CInv, Counting
<1>4. ASSUME NEW u \in Users, NEW g \in MayMail(u)' PROVE g \in MayMail(u)
  <2>1. CASE g = h  BY <1>1, <1>4, <2>1 DEF MayMail
  <2>2. CASE g # h  BY <1>1, <1>4, <2>2 DEF MayMail
  <2>. QED  BY <2>1, <2>2
<1>. QED  BY <1>3, <1>4

\* An execution ends, and its message was delivered as often as before.
LEMMA EndsCounting ==
    ASSUME CInv, IInv', NEW h \in Handlers, NEW m, Ends(h, m),
           handler[h].live => /\ m \in Message /\ m.state # "none"
                              /\ Count(m) = Count(message[handler[h].job]),
           \A u \in Users : received'[u] = received[u]
    PROVE  CInv'
<1>1. \A g \in Handlers : handler'[g] = IF g = h THEN NoHandler ELSE handler[g]
  BY DEF Ends, CInv, IInv, Types
<1>2. NoHandler.live = FALSE /\ NoHandler.pc = "idle"  BY DEF NoHandler
<1>3. \A g \in Handlers : handler'[g].live => g # h /\ handler'[g] = handler[g] /\ handler[g].live
  BY <1>1, <1>2
<1>4. \A u \in Users : MayMail(u)' \subseteq MayMail(u)  BY <1>1, <1>2 DEF MayMail
<1>5. /\ message' \in [Jobs -> Message] /\ \A j \in Jobs : Count(message'[j]) = Count(message[j])
      /\ \A j \in Jobs : message'[j].state = "none" => message'[j] = message[j]
      /\ \A j \in Jobs : (handler[h].live /\ j = handler[h].job) \/ message'[j] = message[j]
  <2>1. CASE handler[h].live
    <3>1. handler[h].job \in Jobs /\ message \in [Jobs -> Message]  BY <2>1 DEF CInv, Counting
    <3>2. message' = [message EXCEPT ![handler[h].job] = m]  BY <2>1 DEF Ends
    <3>. QED  BY <2>1, <3>1, <3>2
  <2>2. CASE ~handler[h].live
    <3>1. message' = message /\ message \in [Jobs -> Message]  BY <2>2 DEF Ends, CInv, Counting
    <3>. QED  BY <3>1
  <2>. QED  BY <2>1, <2>2
<1>6. Counting'
  <2>1. ASSUME NEW g \in Handlers, handler'[g].live
        PROVE  handler'[g].job \in Jobs /\ message'[handler'[g].job].state = "active"
    <3>1. g # h /\ handler'[g] = handler[g] /\ handler[g].live  BY <1>3, <2>1
    <3>2. handler[g].job \in Jobs /\ message[handler[g].job].state = "active"
      BY <3>1 DEF CInv, Counting
    <3>3. ~(handler[h].live /\ handler[g].job = handler[h].job)  BY <3>1 DEF CInv, Counting
    <3>. QED  BY <1>5, <3>1, <3>2, <3>3
  <2>2. ASSUME NEW f \in Handlers, NEW g \in Handlers, handler'[f].live, handler'[g].live,
               handler'[f].job = handler'[g].job
        PROVE  f = g
    BY <1>3, <2>2 DEF CInv, Counting
  <2>3. \A j \in Jobs : message'[j].state = "none" => message'[j].tries = 0
    BY <1>5 DEF CInv, Counting
  <2>. QED  BY <1>5, <2>1, <2>2, <2>3 DEF Counting
<1>7. Covered'  BY <1>4, <1>5, StillCovered DEF Jobs
<1>. QED  BY <1>6, <1>7 DEF CInv

\* The callback returns or throws.
LEMMA EndsCovered ==
    ASSUME CInv, IInv', NEW h \in Handlers, Returns(h) \/ Throws(h),
           \A u \in Users : received'[u] = received[u]
    PROVE  CInv'
<1>. DEFINE m == message[handler[h].job]
<1>1. handler[h].live => m \in Message /\ m.state = "active"  BY DEF CInv, Counting
<1>2. CASE Returns(h)
  <2>. DEFINE n == [m EXCEPT !.state = "completed"]
  <2>1. Ends(h, n)  BY <1>2 DEF Returns
  <2>2. handler[h].live => n \in Message /\ n.state # "none" /\ Count(n) = Count(m)
    BY <1>1 DEF Message, Count
  <2>. HIDE DEF n
  <2>. QED  BY <2>1, <2>2, EndsCounting
<1>3. CASE Throws(h)
  <2>1. Ends(h, GivenBack(m))  BY <1>3 DEF Throws
  <2>2. handler[h].live => /\ GivenBack(m) \in Message /\ GivenBack(m).state # "none"
                           /\ Count(GivenBack(m)) = Count(m)
    BY <1>1, GivesBack
  <2>. QED  BY <2>1, <2>2, EndsCounting
<1>. QED  BY <1>2, <1>3

\* An execution at one label goes to the next, or to an email's.
LEMMA GoesCovered ==
    ASSUME CInv, IInv', NEW h \in Handlers, NEW pc, NEW e,
           \/ handler' = [handler EXCEPT ![h].pc = pc]
           \/ handler' = [handler EXCEPT ![h].pc = pc, ![h].email = e],
           pc # "favorites", handler[h].job \in Broadcasts /\ pc \notin {"idle", "done"} =>
             handler[h].pc \notin {"idle", "favorites", "done"},
           UNCHANGED message, \A u \in Users : received'[u] = received[u]
    PROVE  CInv'
<1>0. handler[h] \in Handler  BY DEF CInv, IInv, Types
<1>1. PICK x : /\ handler' = [handler EXCEPT ![h] = x]
               /\ x.pc = pc /\ x.job = handler[h].job /\ x.live = handler[h].live
  <2>1. CASE handler' = [handler EXCEPT ![h].pc = pc]
    <3>. DEFINE x == [handler[h] EXCEPT !.pc = pc]
    <3>1. handler' = [handler EXCEPT ![h] = x]  BY <2>1 DEF CInv, IInv, Types
    <3>2. x.pc = pc /\ x.job = handler[h].job /\ x.live = handler[h].live  BY <1>0 DEF Handler
    <3>. QED  BY <3>1, <3>2
  <2>2. CASE handler' = [handler EXCEPT ![h].pc = pc, ![h].email = e]
    <3>. DEFINE x == [handler[h] EXCEPT !.pc = pc, !.email = e]
    <3>1. handler' = [handler EXCEPT ![h] = x]  BY <2>2 DEF CInv, IInv, Types
    <3>2. x.pc = pc /\ x.job = handler[h].job /\ x.live = handler[h].live  BY <1>0 DEF Handler
    <3>. QED  BY <3>1, <3>2
  <2>. QED  BY <2>1, <2>2
<1>2. handler[h].job \in Broadcasts =>
        \A u \in Users : x.pc \in {"idle", "done"} \/ h \in MayMail(u)
  BY <1>1 DEF MayMail
<1>3. Counting' /\ \A u \in Users : MayMail(u)' \subseteq MayMail(u)  BY <1>1, <1>2, Proceeds
<1>4. Covered'  BY <1>3, StillCovered
<1>. QED  BY <1>3, <1>4 DEF CInv

\* Submit, Deliver, Expire and Crash keep the copies covered: what is not delivered
\* adds no execution that may mail.
LEMMA SubmitCovered == ASSUME CInv, IInv', NEW j \in Jobs, Submit(j) PROVE CInv'
<1>1. /\ message[j] \in Message /\ message[j].state = "none" /\ message[j].tries = 0
      /\ message \in [Jobs -> Message]
  BY DEF Submit, CInv, Counting
<1>. DEFINE m == [message[j] EXCEPT !.state = "queued"]
<1>2. message' = [message EXCEPT ![j] = m]  BY <1>1 DEF Submit
<1>3. m \in Message /\ m.state = "queued" /\ Count(m) = 0 /\ Count(message[j]) = 0
  BY <1>1 DEF Message, Count
<1>. HIDE DEF m
<1>4. handler' = handler /\ received' = received  BY DEF Submit, buttondown
<1>5. /\ message' \in [Jobs -> Message]
      /\ \A i \in Jobs : i # j => message'[i] = message[i]
      /\ message'[j] = m
  BY <1>1, <1>2, <1>3
<1>6. Counting'
  <2>1. \A i \in Jobs : message'[i].state = "none" => message'[i].tries = 0
    BY <1>3, <1>5 DEF CInv, Counting
  <2>2. \A h \in Handlers : handler'[h].live => /\ handler'[h].job \in Jobs
                                                /\ message'[handler'[h].job].state = "active"
    BY <1>1, <1>4, <1>5 DEF CInv, Counting
  <2>. QED  BY <1>4, <1>5, <2>1, <2>2 DEF CInv, Counting
<1>7. \A i \in Broadcasts : Count(message'[i]) = Count(message[i])
  BY <1>3, <1>5 DEF Jobs
<1>8. \A u \in Users : MayMail(u)' \subseteq MayMail(u)  BY <1>4 DEF MayMail
<1>9. Covered'  BY <1>4, <1>7, <1>8, StillCovered
<1>. QED  BY <1>6, <1>9 DEF CInv

\* The job of an expired execution is given back.
LEMMA ExpireCovered == ASSUME CInv, IInv', NEW j \in Jobs, Expire(j) PROVE CInv'
<1>1. message[j] \in Message /\ message[j].state = "active" /\ message \in [Jobs -> Message]
  BY DEF Expire, CInv, Counting
<1>. DEFINE m == GivenBack(message[j])
<1>2. message' = [message EXCEPT ![j] = m]  BY DEF Expire
<1>3. m \in Message /\ m.state # "none" /\ Count(m) = Count(message[j])  BY <1>1, GivesBack
<1>. HIDE DEF m
<1>4. /\ message' \in [Jobs -> Message] /\ message'[j] = m
      /\ \A i \in Jobs : i # j => message'[i] = message[i]
  BY <1>1, <1>2, <1>3
<1>5. ASSUME NEW h \in Handlers
      PROVE  /\ handler'[h].pc = handler[h].pc /\ handler'[h].job = handler[h].job
             /\ handler'[h].todo = handler[h].todo
             /\ handler'[h].live => handler[h].live /\ handler[h].job # j
  <2>1. handler[h] \in Handler  BY DEF CInv, IInv, Types
  <2>2. handler'[h] = IF handler[h].job = j THEN [handler[h] EXCEPT !.live = FALSE] ELSE handler[h]
    BY DEF Expire
  <2>. QED  BY <2>1, <2>2 DEF Handler
<1>6. Counting'
  <2>1. \A i \in Jobs : message'[i].state = "none" => message'[i].tries = 0
    BY <1>3, <1>4 DEF CInv, Counting
  <2>2. \A h \in Handlers : handler'[h].live => /\ handler'[h].job \in Jobs
                                                /\ message'[handler'[h].job].state = "active"
    BY <1>4, <1>5 DEF CInv, Counting
  <2>3. \A g, h \in Handlers : /\ handler'[g].live /\ handler'[h].live
                               /\ handler'[g].job = handler'[h].job
                               => g = h
    BY <1>5 DEF CInv, Counting
  <2>. QED  BY <1>4, <2>1, <2>2, <2>3 DEF Counting
<1>7. \A i \in Broadcasts : Count(message'[i]) = Count(message[i])
  BY <1>3, <1>4 DEF Jobs
<1>8. \A u \in Users : MayMail(u)' \subseteq MayMail(u)  BY <1>5 DEF MayMail
<1>9. \A u \in Users : received'[u] = received[u]  BY DEF Expire, buttondown
<1>10. Covered'  BY <1>7, <1>8, <1>9, StillCovered
<1>. QED  BY <1>6, <1>10 DEF CInv

\* A crash leaves no execution, and each job as it was.
LEMMA CrashCovered == ASSUME CInv, IInv', Crash PROVE CInv'
<1>1. /\ \A h \in Handlers : handler'[h].live = FALSE /\ handler'[h].pc = "idle"
      /\ message' = message /\ received' = received
  BY DEF Crash, NoHandler, buttondown
<1>2. Counting'  BY <1>1 DEF CInv, Counting
<1>3. \A u \in Users : MayMail(u)' \subseteq MayMail(u)  BY <1>1 DEF MayMail
<1>4. Covered'  BY <1>1, <1>3, StillCovered
<1>. QED  BY <1>2, <1>4 DEF CInv

\* A delivery adds the execution that may mail each user once.
LEMMA DeliverCovered ==
    ASSUME CInv, IInv', NEW h \in Handlers, NEW j \in Jobs, Deliver(h, j) PROVE CInv'
<1>. DEFINE x == [NoHandler EXCEPT !.pc = "check", !.job = j, !.live = TRUE]
            m == [message[j] EXCEPT !.state = "active"]
<1>1. /\ message[j] \in Message /\ message[j].state = "queued" /\ message \in [Jobs -> Message]
      /\ handler[h].pc = "idle"
      /\ \A g \in Handlers : handler[g].live => handler[g].job \notin Queue(j)
      /\ received' = received
  BY DEF Deliver, CInv, Counting, buttondown
<1>2. handler' = [handler EXCEPT ![h] = x] /\ message' = [message EXCEPT ![j] = m]
  BY <1>1 DEF Deliver
<1>3. x.pc = "check" /\ x.job = j /\ x.live = TRUE  BY DEF NoHandler
<1>4. /\ m \in Message /\ m.state = "active" /\ m.tries = message[j].tries
      /\ m.tries \in 0..RetryLimit
  BY <1>1 DEF Message
<1>. HIDE DEF x, m
<1>5. /\ handler'[h] = x /\ \A g \in Handlers : g # h => handler'[g] = handler[g]
      /\ message' \in [Jobs -> Message] /\ message'[j] = m
      /\ \A i \in Jobs : i # j => message'[i] = message[i]
  BY <1>1, <1>2, <1>4 DEF CInv, IInv, Types
<1>6. j \in Queue(j)  BY DEF Queue, Jobs
<1>7. Counting'
  <2>1. \A i \in Jobs : message'[i].state = "none" => message'[i].tries = 0
    BY <1>4, <1>5 DEF CInv, Counting
  <2>2. \A g \in Handlers : handler'[g].live => /\ handler'[g].job \in Jobs
                                                /\ message'[handler'[g].job].state = "active"
    BY <1>3, <1>4, <1>5 DEF CInv, Counting
  <2>3. \A g \in Handlers : g # h /\ handler'[g].live => handler'[g].job # j
    BY <1>1, <1>5, <1>6
  <2>4. \A f, g \in Handlers : /\ handler'[f].live /\ handler'[g].live
                               /\ handler'[f].job = handler'[g].job
                               => f = g
    BY <1>3, <1>5, <2>3 DEF CInv, Counting
  <2>. QED  BY <1>5, <2>1, <2>2, <2>4 DEF Counting
<1>8. CASE j \notin Broadcasts
  <2>1. \A i \in Broadcasts : Count(message'[i]) = Count(message[i])  BY <1>5, <1>8 DEF Jobs
  <2>2. \A u \in Users : MayMail(u)' \subseteq MayMail(u)  BY <1>3, <1>5, <1>8 DEF MayMail
  <2>3. Covered'  BY <1>1, <2>1, <2>2, StillCovered
  <2>. QED  BY <1>7, <2>3 DEF CInv
<1>9. CASE j \in Broadcasts
  <2>. DEFINE d == <<j, message[j].tries + 1>>
  <2>1. RetryLimit \in Nat /\ message[j].tries \in 0..RetryLimit
    BY <1>4, DigestAssumption
  <2>2. Deliveries(j) = message[j].tries /\ Deliveries(j)' = message[j].tries + 1
    BY <1>1, <1>4, <1>5, <2>1 DEF Deliveries
  <2>3. \A i \in Broadcasts : i # j => Deliveries(i)' = Deliveries(i)
    BY <1>5 DEF Deliveries, Jobs
  <2>4. Delivered' = Delivered \cup {d} /\ d \notin Delivered
    <3>1. d \in Broadcasts \X (1..(RetryLimit + 1)) /\ d[1] = j /\ d[2] = message[j].tries + 1
      BY <1>9, <2>1
    <3>2. d \in Delivered' /\ d \notin Delivered  BY <2>1, <2>2, <3>1 DEF Delivered
    <3>3. ASSUME NEW e \in Broadcasts \X (1..(RetryLimit + 1)), e # d
          PROVE  e \in Delivered' <=> e \in Delivered
      <4>1. CASE e[1] # j  BY <2>3, <4>1 DEF Delivered
      <4>2. CASE e[1] = j
        <5>1. e[2] # message[j].tries + 1 /\ e[2] \in Nat  BY <3>3, <4>2
        <5>2. (e[2] <= message[j].tries + 1) <=> (e[2] <= message[j].tries)  BY <2>1, <5>1
        <5>. QED  BY <2>2, <4>2, <5>2 DEF Delivered
      <4>. QED  BY <4>1, <4>2
    <3>. QED  BY <3>2, <3>3 DEF Delivered
  <2>5. Cardinality(Delivered') = Cardinality(Delivered) + 1
    BY <2>4, Finite, FS_AddElement
  <2>6. ASSUME NEW u \in Users
        PROVE  received'[u] + Cardinality(MayMail(u)') <= Cardinality(Delivered')
    <3>1. MayMail(u)' = MayMail(u) \cup {h} /\ h \notin MayMail(u)
      <4>1. h \in MayMail(u)' /\ h \notin MayMail(u)  BY <1>1, <1>3, <1>5, <1>9 DEF MayMail
      <4>2. \A g \in Handlers : g # h => (g \in MayMail(u)' <=> g \in MayMail(u))
        BY <1>5 DEF MayMail
      <4>. QED  BY <4>1, <4>2 DEF MayMail
    <3>2. Cardinality(MayMail(u)') = Cardinality(MayMail(u)) + 1
      BY <3>1, Finite, FS_AddElement
    <3>3. received[u] \in Nat /\ received'[u] = received[u]  BY <1>1 DEF CInv, IInv, Types
    <3>4. received[u] + Cardinality(MayMail(u)) <= Cardinality(Delivered)  BY DEF CInv, Covered
    <3>5. Cardinality(MayMail(u)) \in Nat /\ Cardinality(Delivered) \in Nat  BY Finite
    <3>. QED  BY <2>5, <3>2, <3>3, <3>4, <3>5
  <2>7. Covered'  BY <2>6 DEF Covered
  <2>. QED  BY <1>7, <2>7 DEF CInv
<1>. QED  BY <1>8, <1>9

\* The steps of sendWeeklyDigest and the ends of an execution send no user a mail.
LEMMA StepCovered ==
    ASSUME CInv, IInv', NEW h \in Handlers,
           \/ CheckSent(h) \/ FindDraft(h) \/ CreateDraft(h) \/ RecordDraft(h)
           \/ ScheduleEmail(h) \/ RecordSent(h) \/ BroadcastFails(h)
           \/ AllMailed(h) \/ Finish(h) \/ FavoritesFail(h)
    PROVE  CInv'
<1>1. \A u \in Users : received'[u] = received[u]
  BY DEF CheckSent, FindDraft, CreateDraft, RecordDraft, ScheduleEmail, RecordSent, BroadcastFails,
         AllMailed, Finish, FavoritesFail, buttondown
<1>2. ASSUME NEW pc, Go(h, pc), pc # "favorites",
             \/ handler[h].pc \notin {"idle", "favorites", "done"} \/ pc = "done"
      PROVE  CInv'
  BY <1>1, <1>2, GoesCovered DEF Go
<1>3. CASE CheckSent(h)
  <2>. DEFINE pc == IF SentToday THEN "users" ELSE "draft"
  <2>1. Go(h, pc) /\ pc # "favorites" /\ handler[h].pc = "check"  BY <1>3 DEF CheckSent, At
  <2>. HIDE DEF pc
  <2>. QED  BY <1>2, <2>1
<1>4. CASE FindDraft(h)
  <2>0. handler[h].pc = "draft"  BY <1>4 DEF FindDraft, At
  <2>1. CASE Go(h, "users")  BY <1>2, <2>0, <2>1
  <2>2. CASE Go(h, "create")  BY <1>2, <2>0, <2>2
  <2>3. CASE /\ handler' = [handler EXCEPT ![h].pc = "patch", ![h].email = RecordedDraft]
             /\ UNCHANGED message
    <3>1. PICK pc, e : pc = "patch" /\ e = RecordedDraft  OBVIOUS
    <3>2. handler' = [handler EXCEPT ![h].pc = pc, ![h].email = e] /\ UNCHANGED message
      BY <2>3, <3>1
    <3>3. /\ pc # "favorites"
          /\ handler[h].job \in Broadcasts /\ pc \notin {"idle", "done"} =>
               handler[h].pc \notin {"idle", "favorites", "done"}
      BY <2>0, <3>1
    <3>. QED  BY <1>1, <3>2, <3>3, GoesCovered
  <2>. QED  BY <1>4, <2>1, <2>2, <2>3 DEF FindDraft
<1>5. CASE CreateDraft(h)
  <2>1. PICK pc, e : pc = "record" /\ e = emails'.created  OBVIOUS
  <2>2. handler' = [handler EXCEPT ![h].pc = pc, ![h].email = e] /\ handler[h].pc = "create"
        /\ UNCHANGED message
    BY <1>5, <2>1 DEF CreateDraft, At
  <2>. QED  BY <1>1, <2>1, <2>2, GoesCovered
<1>6. CASE RecordDraft(h)  BY <1>2, <1>6 DEF RecordDraft, At
<1>7. CASE ScheduleEmail(h)  BY <1>2, <1>7 DEF ScheduleEmail, At
<1>8. CASE RecordSent(h)  BY <1>2, <1>8 DEF RecordSent, At
<1>9. CASE AllMailed(h)  BY <1>2, <1>9 DEF AllMailed, At
<1>10. CASE Finish(h) \/ FavoritesFail(h) \/ BroadcastFails(h)
  BY <1>1, <1>10, EndsCovered DEF Finish, FavoritesFail, BroadcastFails
<1>. QED  BY <1>3, <1>4, <1>5, <1>6, <1>7, <1>8, <1>9, <1>10

\* An execution that reads the users may mail each of them, as it might before.
LEMMA ReadUsersCovered == ASSUME CInv, IInv', NEW h \in Handlers, ReadUsers(h) PROVE CInv'
<1>0. /\ handler[h].pc = "users" /\ handler[h].job \in Broadcasts
      /\ \A u \in Users : received'[u] = received[u]
  BY DEF ReadUsers, At, buttondown
<1>1. CASE Users = {}  BY <1>0, <1>1, EndsCovered DEF ReadUsers
<1>2. CASE Users # {}
  <2>. DEFINE x == [handler[h] EXCEPT !.pc = "favorites", !.todo = Users]
  <2>1. handler' = [handler EXCEPT ![h] = x] /\ UNCHANGED message
    BY <1>2 DEF ReadUsers, CInv, IInv, Types
  <2>2. handler[h] \in Handler  BY DEF CInv, IInv, Types
  <2>3. x.job = handler[h].job /\ x.live = handler[h].live  BY <2>2 DEF Handler
  <2>. HIDE DEF x
  <2>4. \A u \in Users : h \in MayMail(u)  BY <1>0 DEF MayMail
  <2>5. Counting' /\ \A u \in Users : MayMail(u)' \subseteq MayMail(u)
    BY <2>1, <2>3, <2>4, Proceeds
  <2>6. Covered'  BY <1>0, <2>1, <2>5, StillCovered
  <2>. QED  BY <2>5, <2>6 DEF CInv
<1>. QED  BY <1>1, <1>2

\* The user who gets a copy is one the execution may mail no more.
LEMMA MailFavoritesCovered ==
    ASSUME CInv, IInv', NEW h \in Handlers, NEW u \in Users, MailFavorites(h, u) PROVE CInv'
<1>0. /\ handler[h].pc = "favorites" /\ handler[h].job \in Broadcasts /\ u \in handler[h].todo
      /\ UNCHANGED message
  BY DEF MailFavorites, At
<1>. DEFINE x == [handler[h] EXCEPT !.todo = @ \ {u}]
<1>1. handler' = [handler EXCEPT ![h] = x]  BY DEF MailFavorites, CInv, IInv, Types
<1>2. handler[h] \in Handler  BY DEF CInv, IInv, Types
<1>3. /\ x.job = handler[h].job /\ x.live = handler[h].live /\ x.pc = "favorites"
      /\ x.todo = handler[h].todo \ {u}
  BY <1>0, <1>2 DEF Handler
<1>. HIDE DEF x
<1>4. \A v \in Users : v \notin x.todo \/ h \in MayMail(v)  BY <1>0, <1>3 DEF MayMail
<1>5. Counting' /\ \A v \in Users : MayMail(v)' \subseteq MayMail(v)
  BY <1>0, <1>1, <1>3, <1>4, Proceeds
<1>6. Delivered' = Delivered  BY <1>0 DEF Delivered, Deliveries
<1>7. ASSUME NEW v \in Users
      PROVE  received'[v] + Cardinality(MayMail(v)') <= Cardinality(Delivered)
  <2>1. received[v] + Cardinality(MayMail(v)) <= Cardinality(Delivered)  BY DEF CInv, Covered
  <2>2. received[v] \in Nat /\ Cardinality(MayMail(v)) \in Nat /\ Cardinality(Delivered) \in Nat
    BY Finite DEF CInv, IInv, Types
  <2>3. CASE v = u
    <3>1. h \in MayMail(u) /\ h \notin MayMail(u)'
      <4>1. handler'[h] = x  BY <1>1 DEF CInv, IInv, Types
      <4>. QED  BY <1>0, <1>3, <4>1 DEF MayMail
    <3>2. MayMail(u)' \subseteq MayMail(u) \ {h}  BY <1>5, <3>1
    <3>3. /\ Cardinality(MayMail(u) \ {h}) = Cardinality(MayMail(u)) - 1
          /\ IsFiniteSet(MayMail(u) \ {h})
      BY <3>1, Finite, FS_RemoveElement
    <3>4. /\ Cardinality(MayMail(u)') <= Cardinality(MayMail(u) \ {h})
          /\ Cardinality(MayMail(u)') \in Nat
      BY <3>2, <3>3, FS_Subset, FS_CardinalityType
    <3>5. received'[u] \in {received[u], received[u] + 1}
      BY DEF MailFavorites, CInv, IInv, Types
    <3>. QED  BY <2>1, <2>2, <2>3, <3>3, <3>4, <3>5
  <2>4. CASE v # u
    <3>1. received'[v] = received[v]  BY <2>4 DEF MailFavorites, CInv, IInv, Types
    <3>2. Cardinality(MayMail(v)') <= Cardinality(MayMail(v)) /\ Cardinality(MayMail(v)') \in Nat
      BY <1>5, Finite, FS_Subset, FS_CardinalityType
    <3>. QED  BY <2>1, <2>2, <3>1, <3>2
  <2>. QED  BY <2>3, <2>4
<1>8. Covered'  BY <1>6, <1>7 DEF Covered
<1>. QED  BY <1>5, <1>8 DEF CInv

\* A preview is no broadcast, and its mail no user's.
LEMMA PreviewCovered ==
    ASSUME CInv, IInv', NEW h \in Handlers,
           CheckPreview(h) \/ MailPreview(h) \/ RecordPreview(h) \/ PreviewFails(h)
    PROVE  CInv'
<1>0. handler[h].job \in Previews /\ handler[h].job \notin Broadcasts
  BY DigestAssumption DEF CheckPreview, MailPreview, RecordPreview, PreviewFails, At
<1>1. \A u \in Users : received'[u] = received[u]
  BY DigestAssumption
  DEF CheckPreview, MailPreview, RecordPreview, PreviewFails, buttondown, CInv, IInv, Types
<1>2. ASSUME NEW pc \in {"mail", "mailed"}, Go(h, pc) PROVE CInv'
  BY <1>0, <1>1, <1>2, GoesCovered DEF Go
<1>3. ASSUME Returns(h) \/ Throws(h) PROVE CInv'  BY <1>1, <1>3, EndsCovered
<1>. QED  BY <1>2, <1>3 DEF CheckPreview, MailPreview, RecordPreview, PreviewFails

\* No user was mailed and nothing delivered at first, and one case for each action.
LEMMA InitCovered == Init => CInv
<1>. SUFFICES ASSUME Init PROVE CInv  OBVIOUS
<1>1. IInv  BY InitHolds
<1>2. \A h \in Handlers : handler[h].live = FALSE /\ handler[h].pc = "idle"  BY DEF Init, NoHandler
<1>3. Counting
  <2>1. message \in [Jobs -> Message] /\ \A j \in Jobs : message[j].tries = 0
    BY DigestAssumption DEF Init, Message
  <2>. QED  BY <1>2, <2>1 DEF Counting
<1>4. ASSUME NEW u \in Users PROVE received[u] + Cardinality(MayMail(u)) <= Cardinality(Delivered)
  <2>1. MayMail(u) = {}  BY <1>2 DEF MayMail
  <2>2. received[u] = 0 /\ Cardinality(MayMail(u)) = 0  BY <2>1, FS_EmptySet DEF Init
  <2>3. Cardinality(Delivered) \in Nat  BY Finite
  <2>. QED  BY <2>2, <2>3
<1>. QED  BY <1>1, <1>3, <1>4 DEF CInv, Covered

\* One case for each action.
LEMMA StepKeepsCovered == CInv /\ [Next]_vars => CInv'
<1>. SUFFICES ASSUME CInv, [Next]_vars PROVE CInv'  OBVIOUS
<1>0. IInv'  BY StepKeeps DEF CInv
<1>1. ASSUME NEW j \in Jobs, Submit(j) PROVE CInv'  BY <1>0, <1>1, SubmitCovered
<1>2. ASSUME NEW j \in Jobs, Expire(j) PROVE CInv'  BY <1>0, <1>2, ExpireCovered
<1>3. ASSUME NEW j \in Jobs, NEW h \in Handlers, Deliver(h, j) PROVE CInv'
  BY <1>0, <1>3, DeliverCovered
<1>4. ASSUME NEW h \in Handlers, HandlerStep(h) PROVE CInv'
  <2>1. ASSUME NEW u \in Users, MailFavorites(h, u) PROVE CInv'
    BY <1>0, <2>1, MailFavoritesCovered
  <2>. QED
    BY <1>0, <1>4, <2>1, StepCovered, ReadUsersCovered, PreviewCovered DEF HandlerStep
<1>5. CASE Crash  BY <1>0, <1>5, CrashCovered
<1>6. CASE UNCHANGED vars
  <2>1. handler' = handler /\ message' = message /\ received' = received
    BY <1>6 DEF vars, buttondown
  <2>2. Counting'  BY <2>1 DEF CInv, Counting
  <2>3. \A u \in Users : MayMail(u)' \subseteq MayMail(u)  BY <2>1 DEF MayMail
  <2>4. Covered'  BY <1>0, <2>1, <2>3, StillCovered
  <2>. QED  BY <1>0, <2>2, <2>4 DEF CInv
<1>. QED  BY <1>1, <1>2, <1>3, <1>4, <1>5, <1>6 DEF Next

\* A user gets the mail about favorites at most once for each delivery of a digest job,
\* whatever fails, expires or is cut off: sendPersonalizedDigests mails no user twice.
THEOREM CopiesAreCovered == Spec => []CopiesAreDeliveries
<1>1. CInv => CopiesAreDeliveries
  <2>. SUFFICES ASSUME CInv, NEW u \in Users PROVE received[u] <= Cardinality(Delivered)
    BY DEF CopiesAreDeliveries
  <2>1. received[u] + Cardinality(MayMail(u)) <= Cardinality(Delivered)  BY DEF CInv, Covered
  <2>2. received[u] \in Nat /\ Cardinality(MayMail(u)) \in Nat /\ Cardinality(Delivered) \in Nat
    BY Finite DEF CInv, IInv, Types
  <2>. QED  BY <2>1, <2>2
<1>. QED  BY <1>1, InitCovered, StepKeepsCovered, PTL DEF Spec

-----------------------------------------------------------------------------
(* The preview.                                                            *)

Preview(h) == handler[h].job \in Previews /\ handler[h].pc # "idle"

\* The executions that are going to mail, and those that expired at the check and may.
Mailing ==
    {h \in Handlers : /\ Preview(h)
                      /\ handler[h].pc = "mail" \/ (handler[h].pc = "check" /\ ~handler[h].live)}

\* One mail is free of charge: the recorded one, or that of the execution at work.
Free(h) == Preview(h) /\ handler[h].live /\ handler[h].pc \in {"mail", "mailed"}
OneFree == logged.preview \/ \E h \in Handlers : Free(h)

OneAtWork ==
    \A g, h \in Handlers : Preview(g) /\ Preview(h) /\ handler[g].live /\ handler[h].live => g = h

\* What was mailed and may still be is paid for by the faults, but for the free one.
PaidFor == received["preview"] + Cardinality(Mailing) <= faults + (IF OneFree THEN 1 ELSE 0)

PInv == IInv /\ faults \in Nat /\ OneAtWork /\ PaidFor

LEMMA MailingCounts ==
    ASSUME NEW S, NEW T, S \subseteq Handlers, T \subseteq Handlers
    PROVE  /\ Cardinality(S) \in Nat /\ Cardinality(T) \in Nat
           /\ T \subseteq S => Cardinality(T) <= Cardinality(S)
           /\ \A h : T = S \cup {h} => Cardinality(T) <= Cardinality(S) + 1
           /\ \A h \in S : T = S \ {h} => Cardinality(T) = Cardinality(S) - 1
<1>1. IsFiniteSet(Handlers)  BY DigestAssumption, FS_Interval DEF Handlers
<1>2. IsFiniteSet(S) /\ IsFiniteSet(T)  BY <1>1, FS_Subset
<1>3. Cardinality(S) \in Nat /\ Cardinality(T) \in Nat  BY <1>2, FS_CardinalityType
<1>4. ASSUME T \subseteq S PROVE Cardinality(T) <= Cardinality(S)  BY <1>2, <1>4, FS_Subset
<1>5. ASSUME NEW h, T = S \cup {h} PROVE Cardinality(T) <= Cardinality(S) + 1
  BY <1>2, <1>3, <1>5, FS_AddElement
<1>6. ASSUME NEW h \in S, T = S \ {h} PROVE Cardinality(T) = Cardinality(S) - 1
  BY <1>2, <1>6, FS_RemoveElement
<1>. QED  BY <1>3, <1>4, <1>5, <1>6

LEMMA MailingType ==
    /\ Mailing \subseteq Handlers /\ Mailing' \subseteq Handlers
    /\ Types => received["preview"] \in Nat
    /\ Types' => received'["preview"] \in Nat
  BY DEF Mailing, Handlers, Types

\* A step that mails nothing: nobody else gets to mail without paying for it, and what
\* was free stays so, or is paid for as well.
LEMMA NoPreview ==
    ASSUME PInv, IInv', OneAtWork', received'["preview"] = received["preview"],
           \/ faults' = faults /\ Mailing' \subseteq Mailing /\ (OneFree => OneFree')
           \/ faults' = faults + 1 /\ Mailing' \subseteq Mailing
           \/ faults' = faults + 1 /\ (OneFree => OneFree') /\ \E h : Mailing' = Mailing \cup {h}
    PROVE  PInv'
<1>1. /\ Cardinality(Mailing) \in Nat /\ Cardinality(Mailing') \in Nat
      /\ Mailing' \subseteq Mailing => Cardinality(Mailing') <= Cardinality(Mailing)
      /\ \A h : Mailing' = Mailing \cup {h} => Cardinality(Mailing') <= Cardinality(Mailing) + 1
  BY MailingType, MailingCounts
<1>2. received["preview"] \in Nat  BY MailingType DEF PInv, IInv
<1>3. faults \in Nat /\ faults' \in Nat  BY DEF PInv
<1>4. received["preview"] + Cardinality(Mailing) <= faults + (IF OneFree THEN 1 ELSE 0)
  BY DEF PInv, PaidFor
<1>5. received["preview"] + Cardinality(Mailing') <= faults' + (IF OneFree' THEN 1 ELSE 0)
  BY <1>1, <1>2, <1>3, <1>4
<1>. QED  BY <1>3, <1>5 DEF PInv, PaidFor

\* A step in which no execution of a preview changes.
LEMMA PreviewsStay ==
    ASSUME PInv, IInv', received'["preview"] = received["preview"], logged'.preview = logged.preview,
           faults' \in {faults, faults + 1},
           \A h \in Handlers : /\ Preview(h)' <=> Preview(h)
                               /\ Preview(h) => /\ handler'[h].pc = handler[h].pc
                                                /\ handler'[h].live = handler[h].live
    PROVE  PInv'
<1>1. Mailing' = Mailing  BY DEF Mailing, Handlers
<1>2. OneFree' <=> OneFree  BY DEF OneFree, Free, Handlers
<1>3. OneAtWork'  BY DEF PInv, OneAtWork, Handlers
<1>. QED  BY <1>1, <1>2, <1>3, NoPreview

\* A step of an execution of the broadcast.
LEMMA BroadcastSteps ==
    ASSUME PInv, IInv', NEW h \in Handlers, handler[h].job \in Broadcasts,
           received'["preview"] = received["preview"], logged'.preview = logged.preview,
           faults' \in {faults, faults + 1},
           handler'[h].job = handler[h].job \/ handler'[h].pc = "idle",
           \A g \in Handlers \ {h} : handler'[g] = handler[g]
    PROVE  PInv'
<1>1. handler[h].job \notin Previews  BY DigestAssumption
<1>2. ~Preview(h) /\ ~Preview(h)'  BY <1>1 DEF Preview
<1>3. ASSUME NEW g \in Handlers
      PROVE  /\ Preview(g)' <=> Preview(g)
             /\ Preview(g) => handler'[g].pc = handler[g].pc /\ handler'[g].live = handler[g].live
  <2>1. CASE g = h  BY <1>2, <2>1
  <2>2. CASE g # h  BY <2>2 DEF Preview
  <2>. QED  BY <2>1, <2>2
<1>. QED  BY <1>3, PreviewsStay

\* The executions that a step leaves alone, and what it makes of the other one.
LEMMA Moves ==
    ASSUME Types, NEW h \in Handlers
    PROVE  /\ \A pc : Go(h, pc) =>
                 /\ handler'[h].job = handler[h].job /\ handler'[h].pc = pc
                 /\ handler'[h].live = handler[h].live
                 /\ \A g \in Handlers \ {h} : handler'[g] = handler[g]
           /\ \A m : Ends(h, m) =>
                 /\ handler'[h].pc = "idle"
                 /\ \A g \in Handlers \ {h} : handler'[g] = handler[g]
<1>1. ASSUME NEW pc, Go(h, pc)
      PROVE  /\ handler'[h].job = handler[h].job /\ handler'[h].pc = pc
             /\ handler'[h].live = handler[h].live
             /\ \A g \in Handlers \ {h} : handler'[g] = handler[g]
  BY <1>1 DEF Go, Types, Handler
<1>2. ASSUME NEW m, Ends(h, m)
      PROVE  handler'[h].pc = "idle" /\ \A g \in Handlers \ {h} : handler'[g] = handler[g]
  BY <1>2, Idle DEF Ends, Types
<1>. QED  BY <1>1, <1>2

\* sendWeeklyDigest and sendPersonalizedDigests mail no preview.
LEMMA BroadcastPaid ==
    ASSUME PInv, IInv', NEW h \in Handlers,
           \/ CheckSent(h) \/ FindDraft(h) \/ CreateDraft(h) \/ RecordDraft(h)
           \/ ScheduleEmail(h) \/ RecordSent(h) \/ BroadcastFails(h)
           \/ ReadUsers(h) \/ (\E u \in Users : MailFavorites(h, u)) \/ AllMailed(h)
           \/ Finish(h) \/ FavoritesFail(h)
    PROVE  PInv'
<1>. USE DEF At, buttondown
<1>0. Types  BY DEF PInv, IInv
<1>1. handler[h].job \in Broadcasts
  BY DEF CheckSent, FindDraft, CreateDraft, RecordDraft, ScheduleEmail, RecordSent, BroadcastFails,
         ReadUsers, MailFavorites, AllMailed, Finish, FavoritesFail
<1>2. received'["preview"] = received["preview"]
  <2>1. ASSUME NEW u \in Users, MailFavorites(h, u) PROVE received'["preview"] = received["preview"]
    BY <1>0, <2>1, DigestAssumption DEF MailFavorites, Types
  <2>. QED
    BY <2>1 DEF CheckSent, FindDraft, CreateDraft, RecordDraft, ScheduleEmail, RecordSent,
                BroadcastFails, ReadUsers, AllMailed, Finish, FavoritesFail
<1>3. logged'.preview = logged.preview
  BY <1>0 DEF CheckSent, FindDraft, CreateDraft, RecordDraft, ScheduleEmail, RecordSent, BroadcastFails,
              ReadUsers, MailFavorites, AllMailed, Finish, FavoritesFail, Types
<1>4. faults' \in {faults, faults + 1}
  BY DEF CheckSent, FindDraft, CreateDraft, RecordDraft, ScheduleEmail, RecordSent, BroadcastFails,
         ReadUsers, MailFavorites, AllMailed, Finish, FavoritesFail, Fault
<1>5. /\ handler'[h].job = handler[h].job \/ handler'[h].pc = "idle"
      /\ \A g \in Handlers \ {h} : handler'[g] = handler[g]
  <2>1. CASE \E pc : Go(h, pc)  BY <1>0, <2>1, Moves
  <2>2. CASE \E m : Ends(h, m)  BY <1>0, <2>2, Moves
  <2>3. CASE FindDraft(h) /\ content /\ RecordedDraft # NoEmail
    BY <1>0, <2>3 DEF FindDraft, Types, Handler
  <2>4. CASE CreateDraft(h)  BY <1>0, <2>4 DEF CreateDraft, Types, Handler
  <2>5. CASE ReadUsers(h) /\ Users # {}  BY <1>0, <2>5 DEF ReadUsers, Types, Handler
  <2>6. CASE \E u \in Users : MailFavorites(h, u)  BY <1>0, <2>6 DEF MailFavorites, Types, Handler
  <2>. QED
    BY <2>1, <2>2, <2>3, <2>4, <2>5, <2>6
    DEF CheckSent, FindDraft, RecordDraft, ScheduleEmail, RecordSent, BroadcastFails, ReadUsers,
        AllMailed, Finish, FavoritesFail, Returns, Throws
<1>. QED  BY <1>1, <1>2, <1>3, <1>4, <1>5, BroadcastSteps

\* The check lets an execution through, which is free if it is at work, and else was
\* counted; or it ends one.
LEMMA CheckPreviewPaid == ASSUME PInv, IInv', NEW h \in Handlers, CheckPreview(h) PROVE PInv'
<1>0. /\ Preview(h) /\ handler[h].pc = "check" /\ handler[h].job \in Previews
      /\ UNCHANGED <<received, logged, faults>>
  BY DEF CheckPreview, At, Preview, buttondown
<1>1. Types  BY DEF PInv, IInv
<1>2. CASE logged.preview \/ ~content
  <2>1. handler'[h].pc = "idle" /\ \A g \in Handlers \ {h} : handler'[g] = handler[g]
    BY <1>1, <1>2, Moves DEF CheckPreview, Returns
  <2>2. Mailing' \subseteq Mailing  BY <2>1 DEF Mailing, Preview, Handlers
  <2>3. OneAtWork'  BY <2>1 DEF PInv, OneAtWork, Preview, Handlers
  <2>4. OneFree => OneFree'  BY <1>0, <2>1 DEF OneFree, Free, Preview, Handlers
  <2>. QED  BY <1>0, <2>2, <2>3, <2>4, NoPreview
<1>3. CASE ~logged.preview /\ content
  <2>1. /\ handler'[h].pc = "mail" /\ handler'[h].job = handler[h].job
        /\ handler'[h].live = handler[h].live
        /\ \A g \in Handlers \ {h} : handler'[g] = handler[g]
    BY <1>1, <1>3, Moves DEF CheckPreview
  <2>2. OneAtWork'  BY <1>0, <2>1 DEF PInv, OneAtWork, Preview, Handlers
  <2>3. CASE ~handler[h].live
    <3>1. Mailing' \subseteq Mailing  BY <1>0, <2>1, <2>3 DEF Mailing, Preview, Handlers
    <3>2. OneFree => OneFree'  BY <1>0, <2>1 DEF OneFree, Free, Preview, Handlers
    <3>. QED  BY <1>0, <2>2, <3>1, <3>2, NoPreview
  <2>4. CASE handler[h].live
    <3>1. Mailing' = Mailing \cup {h}  BY <1>0, <2>1, <2>4 DEF Mailing, Preview, Handlers
    <3>2. ~OneFree  BY <1>0, <1>3, <2>4 DEF OneFree, Free, PInv, OneAtWork
    <3>3. OneFree'  BY <1>0, <2>1, <2>4 DEF OneFree, Free, Preview, Handlers
    <3>4. /\ Cardinality(Mailing) \in Nat /\ Cardinality(Mailing') \in Nat
          /\ Cardinality(Mailing') <= Cardinality(Mailing) + 1
      BY <3>1, MailingType, MailingCounts
    <3>5. received["preview"] \in Nat /\ faults \in Nat  BY MailingType DEF PInv, IInv
    <3>6. received["preview"] + Cardinality(Mailing) <= faults
      BY <3>2, <3>5 DEF PInv, PaidFor
    <3>7. received["preview"] + Cardinality(Mailing') <= faults + 1  BY <3>4, <3>5, <3>6
    <3>. QED  BY <1>0, <2>2, <3>3, <3>5, <3>7 DEF PInv, PaidFor
  <2>. QED  BY <2>3, <2>4
<1>. QED  BY <1>2, <1>3

\* A mail sent is one fewer to send.
LEMMA Mails ==
    ASSUME PInv, IInv', OneAtWork', NEW h \in Handlers, Preview(h), handler[h].pc = "mail",
           handler'[h].pc \notin {"mail", "check"},
           \A g \in Handlers \ {h} : handler'[g] = handler[g],
           received' = [received EXCEPT !["preview"] = @ + 1],
           \/ faults' = faults /\ (OneFree => OneFree')
           \/ faults' = faults + 1
    PROVE  PInv'
<1>1. h \in Mailing /\ Mailing' = Mailing \ {h}
  BY DEF Mailing, Preview, Handlers
<1>2. /\ Cardinality(Mailing) \in Nat /\ Cardinality(Mailing') \in Nat
      /\ Cardinality(Mailing') = Cardinality(Mailing) - 1
  BY <1>1, MailingType, MailingCounts
<1>3. received["preview"] \in Nat /\ received'["preview"] = received["preview"] + 1
  BY MailingType DEF PInv, IInv, Types
<1>4. faults \in Nat /\ faults' \in Nat  BY DEF PInv
<1>5. received["preview"] + Cardinality(Mailing) <= faults + (IF OneFree THEN 1 ELSE 0)
  BY DEF PInv, PaidFor
<1>6. received'["preview"] + Cardinality(Mailing') <= faults' + (IF OneFree' THEN 1 ELSE 0)
  BY <1>2, <1>3, <1>4, <1>5
<1>. QED  BY <1>4, <1>6 DEF PInv, PaidFor

\* MailPreview, RecordPreview and PreviewFails.
LEMMA MailPreviewPaid == ASSUME PInv, IInv', NEW h \in Handlers, MailPreview(h) PROVE PInv'
<1>0. Preview(h) /\ handler[h].pc = "mail" /\ UNCHANGED <<logged, faults>> /\ Types
  BY DEF MailPreview, At, Preview, PInv, IInv
<1>1. /\ handler'[h].pc = "mailed" /\ handler'[h].job = handler[h].job
      /\ handler'[h].live = handler[h].live
      /\ \A g \in Handlers \ {h} : handler'[g] = handler[g]
  BY <1>0, Moves DEF MailPreview
<1>2. OneAtWork'  BY <1>0, <1>1 DEF PInv, OneAtWork, Preview, Handlers
<1>3. OneFree => OneFree'  BY <1>0, <1>1 DEF OneFree, Free, Preview, Handlers
<1>. QED  BY <1>0, <1>1, <1>2, <1>3, Mails DEF MailPreview

LEMMA RecordPreviewPaid == ASSUME PInv, IInv', NEW h \in Handlers, RecordPreview(h) PROVE PInv'
<1>0. Types /\ UNCHANGED <<received, faults>>  BY DEF RecordPreview, PInv, IInv, buttondown
<1>1. handler'[h].pc = "idle" /\ \A g \in Handlers \ {h} : handler'[g] = handler[g]
  BY <1>0, Moves DEF RecordPreview, Returns
<1>2. OneAtWork'  BY <1>1 DEF PInv, OneAtWork, Preview, Handlers
<1>3. Mailing' \subseteq Mailing  BY <1>1 DEF Mailing, Preview, Handlers
<1>4. OneFree'  BY <1>0 DEF RecordPreview, OneFree, Types
<1>. QED  BY <1>0, <1>2, <1>3, <1>4, NoPreview

\* A failure pays for the mail that may have gone out.
LEMMA PreviewFailsPaid == ASSUME PInv, IInv', NEW h \in Handlers, PreviewFails(h) PROVE PInv'
<1>0. Types /\ faults' = faults + 1  BY DEF PreviewFails, Fault, PInv, IInv
<1>1. handler'[h].pc = "idle" /\ \A g \in Handlers \ {h} : handler'[g] = handler[g]
  BY <1>0, Moves DEF PreviewFails, Throws
<1>2. OneAtWork'  BY <1>1 DEF PInv, OneAtWork, Preview, Handlers
<1>3. CASE received' = received
  <2>1. Mailing' \subseteq Mailing  BY <1>1 DEF Mailing, Preview, Handlers
  <2>. QED  BY <1>0, <1>2, <1>3, <2>1, NoPreview
<1>4. CASE handler[h].pc = "mail" /\ received' = [received EXCEPT !["preview"] = @ + 1]
  <2>1. Preview(h)  BY <1>4 DEF PreviewFails, Preview
  <2>. QED  BY <1>0, <1>1, <1>2, <1>4, <2>1, Mails
<1>. QED  BY <1>3, <1>4 DEF PreviewFails

\* pg-boss hands a preview to one execution at a time.
LEMMA DeliverPaid ==
    ASSUME PInv, IInv', NEW h \in Handlers, NEW j \in Jobs, Deliver(h, j) PROVE PInv'
<1>. DEFINE x == [NoHandler EXCEPT !.pc = "check", !.job = j, !.live = TRUE]
<1>0. handler' = [handler EXCEPT ![h] = x]  BY DEF Deliver
<1>1. x.pc = "check" /\ x.live /\ x.job = j  BY DEF NoHandler
<1>. HIDE DEF x
<1>2. /\ handler'[h] = x /\ \A g \in Handlers \ {h} : handler'[g] = handler[g]
      /\ handler[h].pc = "idle" /\ UNCHANGED <<received, logged, faults>>
  BY <1>0 DEF Deliver, buttondown, PInv, IInv, Types
<1>3. Mailing' \subseteq Mailing  BY <1>1, <1>2 DEF Mailing, Preview, Handlers
<1>4. OneFree => OneFree'  BY <1>2 DEF OneFree, Free, Preview, Handlers
<1>5. OneAtWork'
  <2>1. CASE j \in Previews
    <3>1. Queue(j) = Previews  BY <2>1, DigestAssumption DEF Queue
    <3>2. \A g \in Handlers : handler[g].live => ~Preview(g)
      BY <3>1 DEF Deliver, Preview
    <3>. QED  BY <1>2, <3>2 DEF OneAtWork, Preview, Handlers
  <2>2. CASE j \notin Previews
    BY <1>1, <1>2, <2>2 DEF PInv, OneAtWork, Preview, Handlers
  <2>. QED  BY <2>1, <2>2
<1>. QED  BY <1>2, <1>3, <1>4, <1>5, NoPreview

\* The expiry of an execution at work pays for what it may still mail.
LEMMA ExpirePaid == ASSUME PInv, IInv', NEW j \in Jobs, Expire(j) PROVE PInv'
<1>0. Types /\ UNCHANGED <<received, logged>>  BY DEF Expire, buttondown, PInv, IInv
<1>1. ASSUME NEW h \in Handlers
      PROVE  /\ handler'[h].pc = handler[h].pc /\ handler'[h].job = handler[h].job
             /\ handler'[h].live = (handler[h].live /\ handler[h].job # j)
  <2>1. handler[h] \in Handler  BY <1>0 DEF Types
  <2>2. handler'[h] = IF handler[h].job = j THEN [handler[h] EXCEPT !.live = FALSE] ELSE handler[h]
    BY DEF Expire
  <2>3. CASE handler[h].job = j
    <3>. DEFINE no == FALSE
                x == [handler[h] EXCEPT !.live = no]
    <3>1. x.pc = handler[h].pc /\ x.job = handler[h].job /\ x.live = no  BY <2>1 DEF Handler
    <3>. QED  BY <2>2, <2>3, <3>1
  <2>4. CASE handler[h].job # j  BY <2>1, <2>2, <2>4 DEF Handler
  <2>. QED  BY <2>3, <2>4
<1>2. OneAtWork'  BY <1>1 DEF PInv, OneAtWork, Preview, Handlers
<1>3. CASE ~ \E h \in Handlers : Preview(h) /\ handler[h].live /\ handler[h].job = j
  <2>1. faults' \in {faults, faults + 1}  BY DEF Expire, Fault
  <2>2. \A h \in Handlers : /\ Preview(h)' <=> Preview(h)
                            /\ Preview(h) => /\ handler'[h].pc = handler[h].pc
                                             /\ handler'[h].live <=> handler[h].live
    BY <1>1, <1>3 DEF Preview
  <2>3. Mailing' \subseteq Mailing  BY <2>2 DEF Mailing, Handlers
  <2>4. OneFree => OneFree'  BY <1>0, <2>2 DEF OneFree, Free, Handlers
  <2>. QED  BY <1>0, <1>2, <2>1, <2>3, <2>4, NoPreview
<1>4. CASE \E h \in Handlers : Preview(h) /\ handler[h].live /\ handler[h].job = j
  <2>0. PICK h \in Handlers : Preview(h) /\ handler[h].live /\ handler[h].job = j  BY <1>4
  <2>1. faults' = faults + 1  BY <2>0 DEF Expire, Fault
  <2>2. \A g \in Handlers \ {h} : /\ Preview(g)' <=> Preview(g)
                                  /\ Preview(g) => /\ handler'[g].pc = handler[g].pc
                                                   /\ ~handler'[g].live /\ ~handler[g].live
    BY <1>1, <2>0 DEF Preview, PInv, OneAtWork
  <2>3. Preview(h)' /\ handler'[h].pc = handler[h].pc /\ ~handler'[h].live
    BY <1>1, <2>0 DEF Preview
  <2>4. CASE handler[h].pc = "check"
    <3>1. Mailing' = Mailing \cup {h}  BY <2>0, <2>2, <2>3, <2>4 DEF Mailing, Handlers
    <3>2. OneFree => OneFree'  BY <1>0, <2>2, <2>4 DEF OneFree, Free, Handlers
    <3>. QED  BY <1>0, <1>2, <2>1, <3>1, <3>2, NoPreview
  <2>5. CASE handler[h].pc # "check"
    <3>1. Mailing' \subseteq Mailing  BY <2>0, <2>2, <2>3, <2>5 DEF Mailing, Handlers
    <3>. QED  BY <1>0, <1>2, <2>1, <3>1, NoPreview
  <2>. QED  BY <2>4, <2>5
<1>. QED  BY <1>3, <1>4

LEMMA CrashPaid == ASSUME PInv, IInv', Crash PROVE PInv'
<1>1. \A h \in Handlers : handler'[h].pc = "idle"  BY Idle DEF Crash
<1>2. faults' = faults + 1 /\ received' = received  BY DEF Crash, Fault, buttondown
<1>3. Mailing' \subseteq Mailing /\ OneAtWork'  BY <1>1 DEF Mailing, OneAtWork, Preview, Handlers
<1>. QED  BY <1>2, <1>3, NoPreview

LEMMA PaidInit == Init => PInv
<1>. SUFFICES ASSUME Init PROVE PInv  OBVIOUS
<1>1. IInv  BY InitHolds
<1>2. \A h \in Handlers : handler[h].pc = "idle"  BY Idle DEF Init
<1>3. Mailing = {} /\ OneAtWork  BY <1>2 DEF Mailing, OneAtWork, Preview
<1>4. received["preview"] = 0 /\ faults = 0  BY DEF Init
<1>5. Cardinality(Mailing) = 0  BY <1>3, FS_EmptySet
<1>. QED  BY <1>1, <1>3, <1>4, <1>5 DEF PInv, PaidFor

LEMMA PaidStep == PInv /\ [Next]_vars => PInv'
<1>. SUFFICES ASSUME PInv, [Next]_vars PROVE PInv'  OBVIOUS
<1>0. IInv'  BY StepKeeps DEF PInv
<1>1. ASSUME NEW j \in Jobs, Submit(j) PROVE PInv'
  BY <1>0, <1>1, PreviewsStay DEF Submit, buttondown, Preview
<1>2. ASSUME NEW j \in Jobs, Expire(j) PROVE PInv'  BY <1>0, <1>2, ExpirePaid
<1>3. ASSUME NEW j \in Jobs, NEW h \in Handlers, Deliver(h, j) PROVE PInv'
  BY <1>0, <1>3, DeliverPaid
<1>4. ASSUME NEW h \in Handlers, HandlerStep(h) PROVE PInv'
  BY <1>0, <1>4, BroadcastPaid, CheckPreviewPaid, MailPreviewPaid, RecordPreviewPaid, PreviewFailsPaid
  DEF HandlerStep
<1>5. CASE Crash  BY <1>0, <1>5, CrashPaid
<1>6. CASE UNCHANGED vars  BY <1>0, <1>6, PreviewsStay DEF vars, buttondown, Preview
<1>. QED  BY <1>1, <1>2, <1>3, <1>4, <1>5, <1>6 DEF Next

\* However many previews are asked for, and however they fail, the editor gets one and
\* at most one more for each failure.
THEOREM PreviewsArePaid == Spec => []PreviewsHaveCause
<1>1. PInv => PreviewsHaveCause
  <2>. SUFFICES ASSUME PInv PROVE PreviewsHaveCause  OBVIOUS
  <2>1. Cardinality(Mailing) \in Nat  BY MailingType, MailingCounts
  <2>2. received["preview"] \in Nat  BY MailingType DEF PInv, IInv
  <2>3. faults \in Nat /\ received["preview"] + Cardinality(Mailing) <= faults + (IF OneFree THEN 1 ELSE 0)
    BY DEF PInv, PaidFor
  <2>. QED  BY <2>1, <2>2, <2>3 DEF PreviewsHaveCause
<1>. QED  BY PaidInit, PaidStep, <1>1, PTL DEF Spec

-----------------------------------------------------------------------------
(* The newsletters that arrive.                                            *)

CONSTANTS Messages, MaxRequests
VARIABLE requests

In == INSTANCE Ingestion

\* The types the argument needs.
Mail == [pc : {"sending", "stored", "accepted"}, row : In!Emails \cup {In!NoEmail}]
Run == [pc : {"idle", "email", "source", "discover", "mark", "collect", "close"},
        email : In!Emails \cup {In!NoEmail}, tries : In!Tries, live : BOOLEAN, processed : BOOLEAN]
Source == [status : {"absent", "new", "accepted", "blocked"}, poi : BOOLEAN]
Asked == [pc : {"idle", "list", "reopen", "queue", "delete"}, todo : SUBSET In!Emails]

InboxTypes ==
    /\ mail \in [Messages -> Mail]
    /\ email \in [In!Emails -> {"none", "unprocessed", "processed", "deleted"}]
    /\ queue \in [In!Emails \X In!Tries -> Nat]
    /\ source \in Source
    /\ run \in [In!Handlers -> Run]
    /\ request \in Asked

\* The emails there are rows of, deleted ones included.
Stored == {i \in In!Emails : email[i] # "none"}

\* Whatever names an email names one that was stored.
Present ==
    /\ \A m \in Messages : mail[m].pc \in {"stored", "accepted"} => mail[m].row \in Stored
    /\ \A i \in In!Emails, t \in In!Tries : queue[<<i, t>>] > 0 => i \in Stored
    /\ request.todo \subseteq Stored

\* Only a collection outlives its job, and what is read belongs to a job that waits for it.
RunOK(h) ==
    /\ run[h].pc = "idle" => ~run[h].live
    /\ run[h].pc \in {"email", "source", "discover", "mark"} => run[h].live
    /\ run[h].pc # "idle" => run[h].email \in Stored
OneLive == \A g, h \in In!Handlers : run[g].live /\ run[h].live => g = h

\* A request that rests has nothing left to queue; one that deletes the emails has
\* deleted the source.
Calm ==
    /\ request.pc = "idle" => request.todo = {}
    /\ request.pc = "delete" => ~In!Ready

\* The sender's server was told that the message of email i is taken.
Taken(i) == \E m \in Messages : mail[m].pc = "accepted" /\ mail[m].row = i

\* Someone other than a run will take care of email i, its sender's server included, or
\* it is an exception.
Safe(i) ==
    \/ ~Taken(i)
    \/ \E t \in In!Tries : queue[<<i, t>>] > 0
    \/ request.pc = "list" \/ i \in request.todo
    \/ i \in abandoned \/ i \in unlisted
InRun(i) == \E h \in In!Handlers : run[h].email = i /\ run[h].live

\* With its sender accepted, an unprocessed email is safe or in a live run.
Attended == In!Ready => \A i \in In!Unprocessed : Safe(i) \/ InRun(i)

\* A run that is about to put its email aside does so for what the source was before it
\* was accepted: the acceptance has seen to the email in the meantime.
PutsAside(h) == run[h].pc = "discover" \/ (run[h].pc = "mark" /\ ~run[h].processed)
AsideIsSafe ==
    In!Ready => \A h \in In!Handlers, i \in In!Unprocessed :
                  PutsAside(h) /\ run[h].email = i => Safe(i)

InboxInv ==
    /\ In!IngestionAssumption
    /\ InboxTypes /\ Present /\ (\A h \in In!Handlers : RunOK(h)) /\ OneLive
    /\ Calm /\ Attended /\ AsideIsSafe

-----------------------------------------------------------------------------
\* The instance's finite sets are the library's.
LEMMA SameFinite ==
    (\A S : In!IsFiniteSet(S) <=> IsFiniteSet(S)) /\ (\A S : In!Cardinality(S) = Cardinality(S))
<1>1. \A S : In!IsFiniteSet(S) <=> IsFiniteSet(S)  BY DEF In!IsFiniteSet, IsFiniteSet
<1>2. \A S : In!Cardinality(S) = Cardinality(S)  BY DEF In!Cardinality, Cardinality
<1>. QED  BY <1>1, <1>2

\* The emails and the executions.
LEMMA InboxRanges ==
    ASSUME In!IngestionAssumption
    PROVE  /\ In!MaxEmails \in Nat /\ In!NoEmail \notin In!Emails
           /\ RetryLimit \in Nat /\ 0 \in In!Tries /\ IsFiniteSet(In!Handlers)
           /\ In!NoRun \in Run /\ In!NoRun.pc = "idle" /\ ~In!NoRun.live
<1>1. Cardinality(Messages) \in Nat
  <2>1. IsFiniteSet(Messages)  BY SameFinite DEF In!IngestionAssumption
  <2>. QED  BY <2>1, FS_CardinalityType
<1>2. RetryLimit \in Nat /\ MaxFaults \in Nat /\ MaxHandlers \in Nat  BY DEF In!IngestionAssumption
<1>3. 0 \in In!Tries  BY <1>2 DEF In!Tries
<1>4. In!MaxEmails \in Nat  BY <1>1, <1>2, SameFinite DEF In!MaxEmails
<1>5. In!NoEmail \notin In!Emails  BY <1>4 DEF In!NoEmail, In!Emails
<1>6. In!NoRun \in Run /\ In!NoRun.pc = "idle" /\ ~In!NoRun.live  BY <1>3 DEF In!NoRun, Run
<1>7. IsFiniteSet(In!Handlers)  BY <1>2, FS_Interval DEF In!Handlers
<1>. QED  BY <1>2, <1>3, <1>4, <1>5, <1>6, <1>7

\* They are what they are in every state.
LEMMA InboxSizes ==
    ASSUME InboxInv
    PROVE  /\ In!IngestionAssumption /\ In!MaxEmails \in Nat /\ In!NoEmail \notin In!Emails
           /\ RetryLimit \in Nat /\ 0 \in In!Tries /\ IsFiniteSet(In!Handlers)
           /\ In!NoRun \in Run /\ In!NoRun.pc = "idle" /\ ~In!NoRun.live
  BY InboxRanges DEF InboxInv

\* What is safe stays so, what is in a run is in it still or safe, and what becomes
\* unprocessed is safe: so is then what is put aside.
LEMMA StaysAttended ==
    ASSUME InboxInv,
           In!Ready' => In!Ready,
           In!Ready' => \A i \in In!Unprocessed' : i \in In!Unprocessed \/ Safe(i)',
           In!Ready' => \A i \in In!Unprocessed : Safe(i) => Safe(i)' \/ i \notin In!Unprocessed',
           In!Ready' => \A i \in In!Unprocessed :
                          InRun(i) => InRun(i)' \/ Safe(i)' \/ i \notin In!Unprocessed',
           In!Ready' => \A h \in In!Handlers :
                       PutsAside(h)' => PutsAside(h) /\ run'[h].email = run[h].email
    PROVE  Attended' /\ AsideIsSafe'
<1>1. ASSUME In!Ready', NEW i \in In!Unprocessed' PROVE Safe(i)' \/ InRun(i)'
  BY <1>1 DEF InboxInv, Attended
<1>2. ASSUME In!Ready', NEW h \in In!Handlers, NEW i \in In!Unprocessed',
             PutsAside(h)', run'[h].email = i
      PROVE  Safe(i)'
  <2>1. PutsAside(h) /\ run[h].email = i  BY <1>2
  <2>2. i \in In!Unprocessed => Safe(i)  BY <1>2, <2>1 DEF InboxInv, AsideIsSafe
  <2>. QED  BY <1>2, <2>2
<1>3. Attended'  BY <1>1 DEF Attended
<1>4. AsideIsSafe'  BY <1>2 DEF AsideIsSafe
<1>. QED  BY <1>3, <1>4

\* One run changes: it stays the run of its email, or ends.
LEMMA OneRun ==
    ASSUME InboxInv, NEW h \in In!Handlers, NEW x \in Run, run' = [run EXCEPT ![h] = x],
           x.live => run[h].live /\ x.pc # "idle",
           x.pc \in {"email", "source", "discover", "mark"} => x.live,
           x.pc # "idle" => run[h].pc # "idle" /\ x.email = run[h].email,
           Stored \subseteq Stored'
    PROVE  /\ run' \in [In!Handlers -> Run] /\ (\A g \in In!Handlers : RunOK(g)') /\ OneLive'
           /\ run'[h] = x /\ \A g \in In!Handlers : g # h => run'[g] = run[g]
<1>1. /\ run' \in [In!Handlers -> Run] /\ run'[h] = x
      /\ \A g \in In!Handlers : g # h => run'[g] = run[g]
  BY DEF InboxInv, InboxTypes
<1>2. ASSUME NEW g \in In!Handlers PROVE RunOK(g)'
  <2>1. RunOK(g)  BY DEF InboxInv
  <2>2. CASE g = h  BY <1>1, <2>1, <2>2 DEF RunOK
  <2>3. CASE g # h  BY <1>1, <2>1, <2>3 DEF RunOK
  <2>. QED  BY <2>2, <2>3
<1>3. OneLive'
  <2>1. \A g \in In!Handlers : run'[g].live => run[g].live  BY <1>1
  <2>. QED  BY <2>1 DEF OneLive, InboxInv
<1>. QED  BY <1>1, <1>2, <1>3

\* A job that is queued adds to the queue, and takes nothing from it.
LEMMA Adds ==
    ASSUME InboxInv, NEW i \in Stored, NEW t \in In!Tries,
           queue' = [queue EXCEPT ![<<i, t>>] = @ + 1], Stored \subseteq Stored'
    PROVE  /\ queue' \in [In!Emails \X In!Tries -> Nat] /\ queue'[<<i, t>>] > 0
           /\ \A j \in In!Emails, s \in In!Tries : queue[<<j, s>>] > 0 => queue'[<<j, s>>] > 0
           /\ \A j \in In!Emails, s \in In!Tries : queue'[<<j, s>>] > 0 => j \in Stored'
<1>1. queue \in [In!Emails \X In!Tries -> Nat] /\ i \in In!Emails
  BY DEF InboxInv, InboxTypes, Stored
<1>2. <<i, t>> \in In!Emails \X In!Tries /\ queue[<<i, t>>] \in Nat  BY <1>1
<1>3. queue' \in [In!Emails \X In!Tries -> Nat] /\ queue'[<<i, t>>] = queue[<<i, t>>] + 1
  BY <1>1, <1>2
<1>4. ASSUME NEW j \in In!Emails, NEW s \in In!Tries
      PROVE  /\ queue[<<j, s>>] > 0 => queue'[<<j, s>>] > 0
             /\ queue'[<<j, s>>] > 0 => j \in Stored'
  <2>1. CASE <<j, s>> = <<i, t>>
    <3>1. j = i  BY <2>1
    <3>. QED  BY <1>2, <1>3, <2>1, <3>1
  <2>2. CASE <<j, s>> # <<i, t>>
    <3>1. queue'[<<j, s>>] = queue[<<j, s>>]  BY <1>1, <2>2
    <3>. QED  BY <3>1 DEF InboxInv, Present
  <2>. QED  BY <2>1, <2>2
<1>. QED  BY <1>2, <1>3, <1>4

-----------------------------------------------------------------------------
\* The SMTP server, and pg-boss.

\* Nobody is told yet that a stored email is taken.
LEMMA InboxStore == ASSUME InboxInv, NEW m \in Messages, In!Store(m) PROVE InboxInv'
<1>1. PICK i \in In!Emails : /\ email[i] = "none"
                          /\ email' = [email EXCEPT ![i] = "unprocessed"]
                          /\ mail' = [mail EXCEPT ![m] = [pc |-> "stored", row |-> i]]
  BY DEF In!Store
<1>2. mail[m].pc = "sending" /\ UNCHANGED <<source, queue, run, request, abandoned, unlisted>>
  BY DEF In!Store, In!aside
<1>3. /\ mail' \in [Messages -> Mail] /\ mail'[m].pc = "stored" /\ mail'[m].row = i
      /\ \A n \in Messages : n # m => mail'[n] = mail[n]
  BY <1>1 DEF InboxInv, InboxTypes, Mail
<1>4. /\ email' \in [In!Emails -> {"none", "unprocessed", "processed", "deleted"}]
      /\ email'[i] = "unprocessed" /\ \A j \in In!Emails : j # i => email'[j] = email[j]
  BY <1>1 DEF InboxInv, InboxTypes
<1>5. InboxTypes'  BY <1>2, <1>3, <1>4 DEF InboxInv, InboxTypes
<1>6. Stored' = Stored \cup {i}  BY <1>4 DEF Stored
<1>7. Present'  BY <1>2, <1>3, <1>6 DEF InboxInv, Present
<1>8. (\A h \in In!Handlers : RunOK(h)') /\ OneLive' /\ Calm'
  BY <1>2, <1>6 DEF InboxInv, RunOK, OneLive, Calm, In!Ready
<1>9. Safe(i)' /\ \A j \in In!Emails : (Safe(j) => Safe(j)') /\ (InRun(j) => InRun(j)')
  <2>1. ~Taken(i)'  BY <1>1, <1>3 DEF Taken, Stored, InboxInv, Present
  <2>2. ASSUME NEW j \in In!Emails, Taken(j)' PROVE Taken(j)  BY <1>3, <2>2 DEF Taken
  <2>. QED  BY <1>2, <2>1, <2>2 DEF Safe, InRun
<1>10. Attended' /\ AsideIsSafe'
  <2>1. \A j \in In!Unprocessed' : j = i \/ j \in In!Unprocessed  BY <1>4 DEF In!Unprocessed
  <2>2. In!Ready' = In!Ready /\ \A h \in In!Handlers : PutsAside(h)' = PutsAside(h)
    BY <1>2 DEF In!Ready, PutsAside
  <2>. QED  BY <1>2, <1>9, <2>1, <2>2, StaysAttended DEF In!Unprocessed
<1>. QED  BY <1>5, <1>7, <1>8, <1>10 DEF InboxInv

\* What a step keeps that changes neither the emails nor the runs, accepts no source, and
\* after which what was safe still is.
LEMMA InboxJobs ==
    ASSUME InboxInv, UNCHANGED <<email, run>>, source' \in Source, In!Ready' => In!Ready,
           mail' \in [Messages -> Mail],
           queue' \in [In!Emails \X In!Tries -> Nat], request' \in Asked, Present', Calm',
           \A i \in In!Unprocessed : Safe(i) => Safe(i)'
    PROVE  InboxInv'
<1>1. InboxTypes'  BY DEF InboxInv, InboxTypes
<1>2. (\A h \in In!Handlers : RunOK(h)') /\ OneLive'  BY DEF InboxInv, RunOK, OneLive, Stored
<1>3. /\ In!Unprocessed' = In!Unprocessed /\ \A i \in In!Unprocessed : InRun(i)' = InRun(i)
      /\ \A h \in In!Handlers : PutsAside(h)' = PutsAside(h)
  BY DEF In!Unprocessed, InRun, PutsAside
<1>4. Attended' /\ AsideIsSafe'  BY <1>3, StaysAttended
<1>. QED  BY <1>1, <1>2, <1>4 DEF InboxInv

\* The message is taken when its job is queued, and refused when that fails.
LEMMA InboxAccept == ASSUME InboxInv, NEW m \in Messages, In!Accept(m) PROVE InboxInv'
<1>. DEFINE i == mail[m].row
<1>1. /\ i \in Stored /\ queue' = [queue EXCEPT ![<<i, 0>>] = @ + 1]
      /\ mail' = [mail EXCEPT ![m].pc = "accepted"]
      /\ abandoned' = abandoned \ {i} /\ unlisted' = unlisted \ {i}
      /\ UNCHANGED <<email, source, run, request>>
  BY DEF In!Accept, In!Queued, In!TakenUp, InboxInv, Present
<1>. HIDE DEF i
<1>2. /\ mail' \in [Messages -> Mail] /\ mail'[m].pc = "accepted" /\ mail'[m].row = i
      /\ \A n \in Messages : n # m => mail'[n] = mail[n]
  BY <1>1 DEF i, InboxInv, InboxTypes, Mail
<1>3. Stored' = Stored  BY <1>1 DEF Stored
<1>4. /\ queue' \in [In!Emails \X In!Tries -> Nat] /\ queue'[<<i, 0>>] > 0
      /\ \A j \in In!Emails, s \in In!Tries : queue[<<j, s>>] > 0 => queue'[<<j, s>>] > 0
      /\ \A j \in In!Emails, s \in In!Tries : queue'[<<j, s>>] > 0 => j \in Stored'
  BY <1>1, <1>3, InboxSizes, Adds
<1>5. Present'  BY <1>1, <1>2, <1>3, <1>4 DEF InboxInv, Present
<1>6. ASSUME NEW j \in In!Unprocessed, Safe(j) PROVE Safe(j)'
  <2>1. j \in In!Emails  BY DEF In!Unprocessed
  <2>2. CASE j = i  BY <1>4, <2>2, InboxSizes DEF Safe, Taken
  <2>3. CASE j # i
    <3>1. mail'[m].row = i  BY <1>1 DEF i, InboxInv, InboxTypes, Mail
    <3>2. Taken(j)' => Taken(j)  BY <1>2, <2>3, <3>1 DEF Taken
    <3>. QED  BY <1>1, <1>4, <1>6, <2>1, <2>3, <3>2 DEF Safe
  <2>. QED  BY <2>2, <2>3
<1>7. Calm' /\ In!Ready' = In!Ready  BY <1>1 DEF InboxInv, Calm, In!Ready
<1>. QED  BY <1>1, <1>2, <1>4, <1>5, <1>6, <1>7, InboxJobs DEF InboxInv, InboxTypes

\* A refused message leaves an email that nobody was told is taken.
LEMMA InboxRefuse == ASSUME InboxInv, NEW m \in Messages, In!Refuse(m) PROVE InboxInv'
<1>1. /\ mail' = [mail EXCEPT ![m].pc = "sending"]
      /\ UNCHANGED <<email, source, queue, run, request, abandoned, unlisted>>
  BY DEF In!Refuse, In!aside
<1>2. /\ mail' \in [Messages -> Mail] /\ mail'[m].pc = "sending"
      /\ \A n \in Messages : n # m => mail'[n] = mail[n]
  BY <1>1 DEF InboxInv, InboxTypes, Mail
<1>3. Present'  BY <1>1, <1>2 DEF InboxInv, Present, Stored
<1>4. \A j \in In!Unprocessed : Safe(j) => Safe(j)'  BY <1>1, <1>2 DEF Safe, Taken
<1>5. Calm' /\ In!Ready' = In!Ready  BY <1>1 DEF InboxInv, Calm, In!Ready
<1>. QED  BY <1>1, <1>2, <1>3, <1>4, <1>5, InboxJobs DEF InboxInv, InboxTypes

\* The job that leaves the queue is in a live run, the only one.
LEMMA InboxDeliver ==
    ASSUME InboxInv, NEW h \in In!Handlers, NEW i \in In!Emails, NEW t \in In!Tries,
           In!Deliver(h, i, t)
    PROVE  InboxInv'
<1>. DEFINE x == [In!NoRun EXCEPT !.pc = "email", !.email = i, !.tries = t, !.live = TRUE]
<1>1. /\ queue[<<i, t>>] > 0 /\ queue' = [queue EXCEPT ![<<i, t>>] = @ - 1]
      /\ \A g \in In!Handlers : ~run[g].live
      /\ run' = [run EXCEPT ![h] = x]
      /\ UNCHANGED <<mail, email, source, request, abandoned, unlisted>>
  BY DEF In!Deliver, In!aside
<1>2. x \in Run /\ x.pc = "email" /\ x.email = i /\ x.live = TRUE  BY InboxSizes DEF In!NoRun, Run
<1>. HIDE DEF x
<1>3. /\ run' \in [In!Handlers -> Run] /\ run'[h] = x
      /\ \A g \in In!Handlers : g # h => run'[g] = run[g]
  BY <1>1, <1>2 DEF InboxInv, InboxTypes
<1>4. /\ queue' \in [In!Emails \X In!Tries -> Nat]
      /\ \A j \in In!Emails, s \in In!Tries : queue'[<<j, s>>] > 0 => queue[<<j, s>>] > 0
      /\ \A j \in In!Emails, s \in In!Tries : j # i => queue'[<<j, s>>] = queue[<<j, s>>]
  <2>1. queue \in [In!Emails \X In!Tries -> Nat] /\ <<i, t>> \in In!Emails \X In!Tries
    BY DEF InboxInv, InboxTypes
  <2>2. queue[<<i, t>>] \in Nat /\ queue[<<i, t>>] - 1 \in Nat  BY <1>1, <2>1
  <2>3. queue' \in [In!Emails \X In!Tries -> Nat] /\ queue'[<<i, t>>] = queue[<<i, t>>] - 1
    BY <1>1, <2>1, <2>2
  <2>4. ASSUME NEW j \in In!Emails, NEW s \in In!Tries
        PROVE  /\ queue'[<<j, s>>] > 0 => queue[<<j, s>>] > 0
               /\ j # i => queue'[<<j, s>>] = queue[<<j, s>>]
    <3>1. CASE <<j, s>> = <<i, t>>
      <4>1. j = i  BY <3>1
      <4>. QED  BY <1>1, <3>1, <4>1
    <3>2. CASE <<j, s>> # <<i, t>>  BY <1>1, <2>1, <3>2
    <3>. QED  BY <3>1, <3>2
  <2>. QED  BY <2>3, <2>4
<1>5. Stored' = Stored /\ i \in Stored  BY <1>1 DEF Stored, InboxInv, Present
<1>6. InboxTypes' /\ Present' /\ Calm'
  BY <1>1, <1>3, <1>4, <1>5 DEF InboxInv, InboxTypes, Present, Calm, In!Ready
<1>7. ASSUME NEW g \in In!Handlers PROVE RunOK(g)' /\ ~PutsAside(g)' /\ (run'[g].live => g = h)
  <2>1. RunOK(g)  BY DEF InboxInv
  <2>2. CASE g = h  BY <1>2, <1>3, <1>5, <2>2 DEF RunOK, PutsAside
  <2>3. CASE g # h  BY <1>1, <1>3, <1>5, <2>1, <2>3 DEF RunOK, PutsAside
  <2>. QED  BY <2>2, <2>3
<1>8. OneLive' /\ AsideIsSafe'  BY <1>7 DEF OneLive, AsideIsSafe
<1>9. Attended'
  <2>. SUFFICES ASSUME In!Ready', NEW j \in In!Unprocessed' PROVE Safe(j)' \/ InRun(j)'
    BY DEF Attended
  <2>1. j \in In!Unprocessed /\ j \in In!Emails /\ In!Ready  BY <1>1 DEF In!Unprocessed, In!Ready
  <2>2. ~InRun(j)  BY <1>1 DEF InRun
  <2>3. Safe(j)  BY <2>1, <2>2 DEF InboxInv, Attended
  <2>4. CASE j = i  BY <1>2, <1>3, <2>4 DEF InRun
  <2>5. CASE j # i  BY <1>1, <1>4, <2>1, <2>3, <2>5 DEF Safe, Taken
  <2>. QED  BY <2>4, <2>5
<1>. QED  BY <1>6, <1>7, <1>8, <1>9 DEF InboxInv

\* The job of a live run is queued for its next try, or given up; that of an expired
\* run already was.
LEMMA JobBack ==
    ASSUME InboxInv, NEW h \in In!Handlers, NEW i, run[h].pc # "idle", run[h].email = i,
           Stored \subseteq Stored',
           queue' = IF run[h].live THEN In!RetryOf(h) ELSE queue,
           abandoned' = abandoned \cup (IF run[h].live THEN In!GivenUp(h) ELSE {}),
           UNCHANGED <<mail, request, unlisted>>
    PROVE  /\ queue' \in [In!Emails \X In!Tries -> Nat]
           /\ \A j \in In!Emails, s \in In!Tries : queue'[<<j, s>>] > 0 => j \in Stored'
           /\ \A j \in In!Emails : Safe(j) => Safe(j)'
           /\ run[h].live => Safe(i)'
<1>1. i \in Stored /\ run[h].tries \in In!Tries  BY DEF InboxInv, InboxTypes, RunOK, Run
<1>2. CASE run[h].live /\ run[h].tries < RetryLimit
  <2>1. run[h].tries + 1 \in In!Tries  BY <1>1, <1>2, InboxSizes DEF In!Tries
  <2>2. PICK t \in In!Tries : t = run[h].tries + 1  BY <2>1
  <2>3. queue' = [queue EXCEPT ![<<i, t>>] = @ + 1] /\ abandoned' = abandoned
    BY <1>2, <2>2 DEF In!RetryOf, In!GivenUp
  <2>4. /\ queue' \in [In!Emails \X In!Tries -> Nat] /\ queue'[<<i, t>>] > 0
        /\ \A j \in In!Emails, s \in In!Tries : queue[<<j, s>>] > 0 => queue'[<<j, s>>] > 0
        /\ \A j \in In!Emails, s \in In!Tries : queue'[<<j, s>>] > 0 => j \in Stored'
    BY <1>1, <2>3, Adds
  <2>. QED  BY <2>3, <2>4 DEF Safe, Taken
<1>3. CASE run[h].live /\ ~(run[h].tries < RetryLimit)
  <2>1. queue' = queue /\ abandoned' = abandoned \cup {i}  BY <1>3 DEF In!RetryOf, In!GivenUp
  <2>. QED  BY <2>1 DEF Safe, Taken, InboxInv, InboxTypes, Present
<1>4. CASE ~run[h].live
  <2>1. queue' = queue /\ abandoned' = abandoned  BY <1>4
  <2>. QED  BY <1>4, <2>1 DEF Safe, Taken, InboxInv, InboxTypes, Present
<1>. QED  BY <1>2, <1>3, <1>4

\* What a step of one run keeps: it leaves mail and requests alone, loses nothing that is
\* safe, and accepts no source.
LEMMA InboxRun ==
    ASSUME InboxInv, NEW h \in In!Handlers, NEW x \in Run, run' = [run EXCEPT ![h] = x],
           x.live => run[h].live /\ x.pc # "idle",
           x.pc \in {"email", "source", "discover", "mark"} => x.live,
           x.pc # "idle" => run[h].pc # "idle" /\ x.email = run[h].email,
           UNCHANGED <<mail, request>>, source' \in Source, In!Ready' => In!Ready,
           email' \in [In!Emails -> {"none", "unprocessed", "processed", "deleted"}],
           queue' \in [In!Emails \X In!Tries -> Nat], Stored \subseteq Stored',
           \A j \in In!Emails, s \in In!Tries : queue'[<<j, s>>] > 0 => j \in Stored',
           \A j \in In!Emails : Safe(j) => Safe(j)',
           In!Ready' => \A j \in In!Unprocessed' : j \in In!Unprocessed \/ Safe(j)',
           In!Ready' /\ run[h].live /\ ~x.live =>
             \A j \in In!Unprocessed' : j = run[h].email => Safe(j)',
           In!Ready' /\ (x.pc = "discover" \/ (x.pc = "mark" /\ ~x.processed)) => PutsAside(h)
    PROVE  InboxInv'
<1>1. /\ run' \in [In!Handlers -> Run] /\ (\A g \in In!Handlers : RunOK(g)') /\ OneLive'
      /\ run'[h] = x /\ \A g \in In!Handlers : g # h => run'[g] = run[g]
  BY OneRun
<1>2. InboxTypes'  BY <1>1 DEF InboxInv, InboxTypes
<1>3. Present'  BY DEF InboxInv, Present
<1>4. Calm'  BY DEF InboxInv, Calm
<1>5. ASSUME In!Ready', NEW j \in In!Unprocessed, InRun(j)
      PROVE  InRun(j)' \/ Safe(j)' \/ j \notin In!Unprocessed'
  <2>1. PICK g \in In!Handlers : run[g].email = j /\ run[g].live  BY <1>5 DEF InRun
  <2>2. CASE g # h  BY <1>1, <2>1, <2>2 DEF InRun
  <2>3. CASE g = h
    <3>1. CASE x.live
      <4>1. run'[h].email = j /\ run'[h].live  BY <1>1, <2>1, <2>3, <3>1
      <4>. QED  BY <4>1 DEF InRun
    <3>2. CASE ~x.live  BY <1>5, <2>1, <2>3, <3>2
    <3>. QED  BY <3>1, <3>2
  <2>. QED  BY <2>2, <2>3
<1>6. ASSUME In!Ready', NEW g \in In!Handlers, PutsAside(g)'
      PROVE  PutsAside(g) /\ run'[g].email = run[g].email
  <2>1. CASE g # h  BY <1>1, <1>6, <2>1 DEF PutsAside
  <2>2. CASE g = h
    <3>1. x.pc = "discover" \/ (x.pc = "mark" /\ ~x.processed)  BY <1>1, <1>6, <2>2 DEF PutsAside
    <3>2. PutsAside(h) /\ x.email = run[h].email  BY <1>6, <3>1
    <3>. QED  BY <1>1, <2>2, <3>2
  <2>. QED  BY <2>1, <2>2
<1>7. \A j \in In!Unprocessed : j \in In!Emails  BY DEF In!Unprocessed
<1>8. Attended' /\ AsideIsSafe'  BY <1>5, <1>6, <1>7, StaysAttended
<1>. QED  BY <1>1, <1>2, <1>3, <1>4, <1>8 DEF InboxInv

\* A step of a run that does not end it and touches nothing else, or the source only.
LEMMA InboxRunGoes ==
    ASSUME InboxInv, NEW h \in In!Handlers, run[h].pc # "idle",
           NEW pc \in {"source", "discover", "mark", "collect", "close"}, NEW p \in BOOLEAN,
           \/ run' = [run EXCEPT ![h].pc = pc] /\ p = run[h].processed
           \/ run' = [run EXCEPT ![h].pc = pc, ![h].processed = p],
           pc # "close" => run[h].live,
           UNCHANGED <<mail, email, queue, request, abandoned, unlisted>>, source' \in Source,
           In!Ready' => In!Ready,
           In!Ready' /\ (pc = "discover" \/ (pc = "mark" /\ ~p)) => PutsAside(h)
    PROVE  InboxInv'
<1>0. run[h] \in Run  BY DEF InboxInv, InboxTypes
<1>1. PICK x \in Run : /\ run' = [run EXCEPT ![h] = x] /\ x.pc = pc /\ x.processed = p
                       /\ x.email = run[h].email /\ x.live = run[h].live
  <2>1. CASE run' = [run EXCEPT ![h].pc = pc] /\ p = run[h].processed
    <3>. DEFINE x == [run[h] EXCEPT !.pc = pc]
    <3>1. run' = [run EXCEPT ![h] = x]  BY <2>1 DEF InboxInv, InboxTypes
    <3>2. /\ x \in Run /\ x.pc = pc /\ x.processed = p
          /\ x.email = run[h].email /\ x.live = run[h].live
      BY <1>0, <2>1 DEF Run
    <3>. HIDE DEF x
    <3>. QED  BY <3>1, <3>2
  <2>2. CASE run' = [run EXCEPT ![h].pc = pc, ![h].processed = p]
    <3>. DEFINE x == [run[h] EXCEPT !.pc = pc, !.processed = p]
    <3>1. run' = [run EXCEPT ![h] = x]  BY <2>2 DEF InboxInv, InboxTypes
    <3>2. /\ x \in Run /\ x.pc = pc /\ x.processed = p
          /\ x.email = run[h].email /\ x.live = run[h].live
      BY <1>0 DEF Run
    <3>. HIDE DEF x
    <3>. QED  BY <3>1, <3>2
  <2>. QED  BY <2>1, <2>2
<1>2. /\ Stored' = Stored /\ In!Unprocessed' = In!Unprocessed
      /\ \A j \in In!Emails : Safe(j)' = Safe(j)
  BY DEF Stored, In!Unprocessed, Safe, Taken
<1>3. /\ queue' \in [In!Emails \X In!Tries -> Nat]
      /\ email' \in [In!Emails -> {"none", "unprocessed", "processed", "deleted"}]
      /\ \A j \in In!Emails, s \in In!Tries : queue'[<<j, s>>] > 0 => j \in Stored'
  BY <1>2 DEF InboxInv, InboxTypes, Present
<1>4. x.live => run[h].live /\ x.pc # "idle"  BY <1>1
<1>5. x.pc \in {"email", "source", "discover", "mark"} => x.live  BY <1>1
<1>. QED  BY <1>1, <1>2, <1>3, <1>4, <1>5, InboxRun

\* A run that ends for an email that is not unprocessed any more, or is safe.
LEMMA InboxRunEnds ==
    ASSUME InboxInv, NEW h \in In!Handlers, NEW i, run[h].pc # "idle", run[h].email = i,
           run' = [run EXCEPT ![h] = In!NoRun], UNCHANGED <<mail, request, source>>,
           email' \in [In!Emails -> {"none", "unprocessed", "processed", "deleted"}],
           queue' \in [In!Emails \X In!Tries -> Nat], Stored \subseteq Stored',
           \A j \in In!Emails, s \in In!Tries : queue'[<<j, s>>] > 0 => j \in Stored',
           \A j \in In!Emails : Safe(j) => Safe(j)',
           In!Ready => \A j \in In!Unprocessed' : j \in In!Unprocessed \/ Safe(j)',
           In!Ready /\ run[h].live => i \notin In!Unprocessed' \/ Safe(i)'
    PROVE  InboxInv'
<1>1. In!Ready' = In!Ready /\ source' \in Source  BY DEF In!Ready, InboxInv, InboxTypes
<1>. QED  BY <1>1, InboxSizes, InboxRun

\* The job of a run that fails, or expires in its collection.
LEMMA InboxFails == ASSUME InboxInv, NEW h \in In!Handlers, In!ProcessingFails(h) PROVE InboxInv'
<1>1. /\ run[h].pc # "idle" /\ run' = [run EXCEPT ![h] = In!NoRun]
      /\ UNCHANGED <<mail, email, source, request, unlisted>>
      /\ queue' = IF run[h].live THEN In!RetryOf(h) ELSE queue
      /\ abandoned' = abandoned \cup (IF run[h].live THEN In!GivenUp(h) ELSE {})
  BY DEF In!ProcessingFails, In!Throws
<1>2. PICK i : run[h].email = i  OBVIOUS
<1>3. Stored' = Stored /\ In!Unprocessed' = In!Unprocessed  BY <1>1 DEF Stored, In!Unprocessed
<1>4. /\ queue' \in [In!Emails \X In!Tries -> Nat]
      /\ \A j \in In!Emails, s \in In!Tries : queue'[<<j, s>>] > 0 => j \in Stored'
      /\ \A j \in In!Emails : Safe(j) => Safe(j)'
      /\ run[h].live => Safe(i)'
  BY <1>1, <1>2, <1>3, JobBack
<1>5. email' \in [In!Emails -> {"none", "unprocessed", "processed", "deleted"}]
  BY <1>1 DEF InboxInv, InboxTypes
<1>. QED  BY <1>1, <1>2, <1>3, <1>4, <1>5, InboxRunEnds

\* An expired job waits again beside its run.
LEMMA InboxExpire == ASSUME InboxInv, NEW h \in In!Handlers, In!Expire(h) PROVE InboxInv'
<1>1. /\ run[h].pc = "collect" /\ run[h].live /\ run' = [run EXCEPT ![h].live = FALSE]
      /\ UNCHANGED <<mail, email, source, request, unlisted>>
      /\ queue' = IF run[h].live THEN In!RetryOf(h) ELSE queue
      /\ abandoned' = abandoned \cup (IF run[h].live THEN In!GivenUp(h) ELSE {})
  BY DEF In!Expire
<1>2. PICK i : run[h].email = i  OBVIOUS
<1>3. Stored' = Stored /\ In!Unprocessed' = In!Unprocessed /\ In!Ready' = In!Ready
      /\ source' \in Source
  BY <1>1 DEF Stored, In!Unprocessed, In!Ready, InboxInv, InboxTypes
<1>4. /\ queue' \in [In!Emails \X In!Tries -> Nat]
      /\ \A j \in In!Emails, s \in In!Tries : queue'[<<j, s>>] > 0 => j \in Stored'
      /\ \A j \in In!Emails : Safe(j) => Safe(j)'
      /\ run[h].live => Safe(i)'
  BY <1>1, <1>2, <1>3, JobBack
<1>5. email' \in [In!Emails -> {"none", "unprocessed", "processed", "deleted"}]
  BY <1>1 DEF InboxInv, InboxTypes
<1>. DEFINE x == [run[h] EXCEPT !.live = FALSE]
<1>6. run[h] \in Run /\ run' = [run EXCEPT ![h] = x]  BY <1>1 DEF InboxInv, InboxTypes
<1>7. x \in Run /\ x.pc = "collect" /\ x.email = run[h].email /\ ~x.live  BY <1>1, <1>6 DEF Run
<1>. HIDE DEF x
<1>. QED  BY <1>1, <1>2, <1>3, <1>4, <1>5, <1>6, <1>7, InboxRun

-----------------------------------------------------------------------------
\* processNewsletterById.

\* The UPDATE of an email: what it makes of the row, and what it leaves.
LEMMA Marks ==
    ASSUME InboxInv, NEW i \in Stored, NEW p \in BOOLEAN, email' = In!Marked(i, p)
    PROVE  /\ email' \in [In!Emails -> {"none", "unprocessed", "processed", "deleted"}]
           /\ Stored' = Stored /\ (p => i \notin In!Unprocessed')
           /\ \A j \in In!Unprocessed' : j \in In!Unprocessed \/ (j = i /\ email[i] = "processed")
<1>1. i \in In!Emails /\ email[i] \in {"unprocessed", "processed", "deleted"}
  BY DEF InboxInv, InboxTypes, Stored
<1>2. /\ email' \in [In!Emails -> {"none", "unprocessed", "processed", "deleted"}]
      /\ \A j \in In!Emails : j # i => email'[j] = email[j]
      /\ email'[i] = IF email[i] = "deleted" THEN "deleted"
                     ELSE IF p THEN "processed" ELSE "unprocessed"
  BY <1>1 DEF In!Marked, InboxInv, InboxTypes
<1>3. Stored' = Stored  BY <1>1, <1>2 DEF Stored
<1>4. p => i \notin In!Unprocessed'  BY <1>2 DEF In!Unprocessed
<1>5. \A j \in In!Unprocessed' : j \in In!Unprocessed \/ (j = i /\ email[i] = "processed")
  BY <1>1, <1>2 DEF In!Unprocessed
<1>. QED  BY <1>2, <1>3, <1>4, <1>5

\* A deleted email ends its run, and any other leads to the source.
LEMMA InboxReadEmail == ASSUME InboxInv, NEW h \in In!Handlers, In!ReadEmail(h) PROVE InboxInv'
<1>0. /\ run[h].pc = "email" /\ run[h].live
      /\ UNCHANGED <<mail, email, queue, source, request, abandoned, unlisted>>
  BY DEF In!ReadEmail, In!intake, In!aside, InboxInv, RunOK
<1>1. CASE email[run[h].email] = "deleted"
  <2>1. PICK i : run[h].email = i  OBVIOUS
  <2>2. run' = [run EXCEPT ![h] = In!NoRun]  BY <1>1 DEF In!ReadEmail, In!Returns
  <2>3. i \notin In!Unprocessed'  BY <1>0, <1>1, <2>1 DEF In!Unprocessed
  <2>4. /\ Stored' = Stored /\ In!Unprocessed' = In!Unprocessed
        /\ \A j \in In!Emails : Safe(j)' = Safe(j)
    BY <1>0 DEF Stored, In!Unprocessed, Safe, Taken
  <2>. QED  BY <1>0, <2>1, <2>2, <2>3, <2>4, InboxRunEnds DEF InboxInv, InboxTypes, Present
<1>2. CASE email[run[h].email] # "deleted"
  <2>1. run' = [run EXCEPT ![h].pc = "source"]  BY <1>2 DEF In!ReadEmail, In!Go
  <2>2. run[h].processed \in BOOLEAN /\ source' \in Source /\ In!Ready' = In!Ready
    BY <1>0 DEF InboxInv, InboxTypes, Run, In!Ready
  <2>3. PICK pc \in {"source", "discover", "mark", "collect", "close"}, p \in BOOLEAN :
          pc = "source" /\ p = run[h].processed
    BY <2>2
  <2>. QED  BY <1>0, <2>1, <2>2, <2>3, InboxRunGoes
<1>. QED  BY <1>1, <1>2

\* An email is put aside only as long as its source is not accepted.
LEMMA InboxReadSource == ASSUME InboxInv, NEW h \in In!Handlers, In!ReadSource(h) PROVE InboxInv'
<1>0. /\ run[h].pc = "source" /\ run[h].live
      /\ UNCHANGED <<mail, email, queue, source, request, abandoned, unlisted>>
  BY DEF In!ReadSource, In!intake, In!aside, InboxInv, RunOK
<1>1. run[h].processed \in BOOLEAN /\ source' \in Source /\ In!Ready' = In!Ready
  BY <1>0 DEF InboxInv, InboxTypes, Run, In!Ready
<1>2. ASSUME NEW pc \in {"discover", "mark", "collect"}, NEW p \in BOOLEAN,
             \/ run' = [run EXCEPT ![h].pc = pc] /\ p = run[h].processed
             \/ run' = [run EXCEPT ![h].pc = pc, ![h].processed = p],
             In!Ready => ~(pc = "discover" \/ (pc = "mark" /\ ~p))
      PROVE  InboxInv'
  BY <1>0, <1>1, <1>2, InboxRunGoes
<1>3. CASE ~In!Ready /\ In!Go(h, "discover")
  <2>1. PICK pc \in {"discover", "mark", "collect"} : pc = "discover"  OBVIOUS
  <2>. QED  BY <1>1, <1>2, <1>3, <2>1 DEF In!Go
<1>4. CASE In!Go(h, "collect")
  <2>1. PICK pc \in {"discover", "mark", "collect"} : pc = "collect"  OBVIOUS
  <2>. QED  BY <1>1, <1>2, <1>4, <2>1 DEF In!Go
<1>5. ASSUME NEW p \in BOOLEAN, In!Mark(h, p), In!Ready => p PROVE InboxInv'
  <2>1. PICK pc \in {"discover", "mark", "collect"} : pc = "mark"  OBVIOUS
  <2>. QED  BY <1>2, <1>5, <2>1 DEF In!Mark
<1>6. source.status \in {"absent", "blocked", "new"} \/ ~source.poi => ~In!Ready
  BY DEF In!Ready
<1>. QED  BY <1>3, <1>4, <1>5, <1>6 DEF In!ReadSource

\* A source that is not known is not accepted either.
LEMMA InboxDiscover == ASSUME InboxInv, NEW h \in In!Handlers, In!Discover(h) PROVE InboxInv'
<1>0. /\ run[h].pc = "discover" /\ run[h].live /\ PutsAside(h)
      /\ UNCHANGED <<mail, email, queue, request, abandoned, unlisted>>
  BY DEF In!Discover, In!intake, In!aside, InboxInv, RunOK, PutsAside
<1>1. source' \in Source /\ (In!Ready' => In!Ready)
  BY DEF In!Discover, In!NewSource, In!Ready, InboxInv, InboxTypes, Source
<1>2. PICK pc \in {"source", "discover", "mark", "collect", "close"}, p \in BOOLEAN :
        pc = "mark" /\ p = FALSE
  OBVIOUS
<1>3. run' = [run EXCEPT ![h].pc = pc, ![h].processed = p]  BY <1>2 DEF In!Discover, In!Mark
<1>. QED  BY <1>0, <1>1, <1>2, <1>3, InboxRunGoes

\* An email that is put aside was safe, or takes a processed one back, which is given up.
LEMMA InboxWriteMark == ASSUME InboxInv, NEW h \in In!Handlers, In!WriteMark(h) PROVE InboxInv'
<1>0. /\ run[h].pc = "mark" /\ run' = [run EXCEPT ![h] = In!NoRun]
      /\ UNCHANGED <<mail, queue, source, request, unlisted>>
      /\ abandoned' = abandoned
                      \cup {i \in In!Emails : email[i] = "processed" /\ email'[i] # email[i]}
  BY DEF In!WriteMark, In!Returns
<1>1. PICK i, p : run[h].email = i /\ run[h].processed = p  OBVIOUS
<1>2. i \in Stored /\ p \in BOOLEAN  BY <1>0, <1>1 DEF InboxInv, InboxTypes, RunOK, Run
<1>3. email' = In!Marked(i, p)  BY <1>1 DEF In!WriteMark
<1>4. /\ email' \in [In!Emails -> {"none", "unprocessed", "processed", "deleted"}]
      /\ Stored' = Stored /\ (p => i \notin In!Unprocessed')
      /\ \A j \in In!Unprocessed' : j \in In!Unprocessed \/ (j = i /\ email[i] = "processed")
  BY <1>2, <1>3, Marks
<1>5. \A j \in In!Emails : Safe(j) => Safe(j)'  BY <1>0 DEF Safe, Taken
<1>6. ASSUME NEW j \in In!Unprocessed' PROVE j \in In!Unprocessed \/ Safe(j)'
  <2>. SUFFICES ASSUME j = i, email[i] = "processed" PROVE Safe(j)'  BY <1>4
  <2>1. email'[i] = "unprocessed" /\ i \in In!Emails  BY <1>2 DEF In!Unprocessed, Stored
  <2>. QED  BY <1>0, <2>1 DEF Safe, Taken
<1>7. ASSUME In!Ready, i \in In!Unprocessed' PROVE Safe(i)'
  <2>1. CASE i \in In!Unprocessed
    <3>1. PutsAside(h)  BY <1>0, <1>1, <1>4, <1>7 DEF PutsAside
    <3>2. Safe(i)  BY <1>1, <1>7, <2>1, <3>1 DEF InboxInv, AsideIsSafe
    <3>. QED  BY <1>2, <1>5, <3>2 DEF Stored
  <2>2. CASE i \notin In!Unprocessed  BY <1>6, <1>7, <2>2
  <2>. QED  BY <2>1, <2>2
<1>8. /\ queue' \in [In!Emails \X In!Tries -> Nat]
      /\ \A j \in In!Emails, s \in In!Tries : queue'[<<j, s>>] > 0 => j \in Stored'
  BY <1>0, <1>4 DEF InboxInv, InboxTypes, Present
<1>. QED  BY <1>0, <1>1, <1>4, <1>5, <1>6, <1>7, <1>8, InboxRunEnds

\* A collection goes on to close its email.
LEMMA InboxCollect == ASSUME InboxInv, NEW h \in In!Handlers, In!Collect(h) PROVE InboxInv'
<1>0. /\ run[h].pc = "collect"
      /\ UNCHANGED <<mail, email, queue, source, request, abandoned, unlisted>>
  BY DEF In!Collect, In!intake, In!aside
<1>1. run[h].processed \in BOOLEAN /\ source' \in Source /\ In!Ready' = In!Ready
  BY <1>0 DEF InboxInv, InboxTypes, Run, In!Ready
<1>2. PICK pc \in {"source", "discover", "mark", "collect", "close"}, p \in BOOLEAN :
        pc = "close" /\ p = run[h].processed
  BY <1>1
<1>3. run' = [run EXCEPT ![h].pc = pc]  BY <1>2 DEF In!Collect, In!Go
<1>. QED  BY <1>0, <1>1, <1>2, <1>3, InboxRunGoes

\* A closed email is processed.
LEMMA InboxWriteClose == ASSUME InboxInv, NEW h \in In!Handlers, In!WriteClose(h) PROVE InboxInv'
<1>0. /\ run[h].pc = "close" /\ run' = [run EXCEPT ![h] = In!NoRun]
      /\ UNCHANGED <<mail, queue, source, request, abandoned, unlisted>>
  BY DEF In!WriteClose, In!Returns, In!aside
<1>1. PICK i : run[h].email = i  OBVIOUS
<1>2. i \in Stored  BY <1>0, <1>1 DEF InboxInv, RunOK
<1>3. email' = In!Marked(i, TRUE)  BY <1>1 DEF In!WriteClose
<1>4. /\ email' \in [In!Emails -> {"none", "unprocessed", "processed", "deleted"}]
      /\ Stored' = Stored /\ i \notin In!Unprocessed'
      /\ \A j \in In!Unprocessed' : j \in In!Unprocessed
  BY <1>2, <1>3, Marks
<1>5. \A j \in In!Emails : Safe(j) => Safe(j)'  BY <1>0 DEF Safe, Taken
<1>6. /\ queue' \in [In!Emails \X In!Tries -> Nat]
      /\ \A j \in In!Emails, s \in In!Tries : queue'[<<j, s>>] > 0 => j \in Stored'
  BY <1>0, <1>4 DEF InboxInv, InboxTypes, Present
<1>. QED  BY <1>0, <1>1, <1>4, <1>5, <1>6, InboxRunEnds

\* Every step of a run keeps the invariant.
LEMMA InboxStep == ASSUME InboxInv, NEW h \in In!Handlers, In!Step(h) PROVE InboxInv'
  BY InboxReadEmail, InboxReadSource, InboxDiscover, InboxWriteMark, InboxCollect, InboxWriteClose,
     InboxFails
  DEF In!Step

-----------------------------------------------------------------------------
\* Requests of admins, and crashes.

\* With every unprocessed email safe, nothing depends on the runs.
LEMMA AllSafe ==
    ASSUME In!Ready' => \A i \in In!Unprocessed' : Safe(i)'
    PROVE  Attended' /\ AsideIsSafe'
  BY DEF Attended, AsideIsSafe

\* What the runs are owed is kept by a step that leaves them, and the rows of their emails.
LEMMA RunsStay ==
    ASSUME InboxInv, run' = run, Stored' = Stored
    PROVE  /\ (\A h \in In!Handlers : RunOK(h)') /\ OneLive'
           /\ \A i \in In!Emails : InRun(i)' = InRun(i)
  BY DEF InboxInv, RunOK, OneLive, InRun

\* A source that an update makes ready has its unprocessed emails listed, or they are
\* exceptions, whatever the runs do meanwhile.
LEMMA InboxUpdateSource ==
    ASSUME InboxInv, NEW status \in In!Statuses \cup {"kept"},
           NEW poi \in {"kept", "given", "null"}, In!UpdateSource(status, poi)
    PROVE  InboxInv'
<1>1. /\ request.pc = "idle" /\ UNCHANGED <<mail, email, queue, run, abandoned>>
      /\ request' = request \/ request' = [request EXCEPT !.pc = "list"]
      /\ unlisted \subseteq unlisted'
  BY DEF In!UpdateSource, In!Request, In!intake
<1>2. /\ request' \in Asked /\ request'.pc \in {"idle", "list"} /\ request'.todo = request.todo
      /\ request' # request => request'.pc = "list"
  BY <1>1 DEF InboxInv, InboxTypes, Asked
<1>3. Stored' = Stored /\ In!Unprocessed' = In!Unprocessed  BY <1>1 DEF Stored, In!Unprocessed
<1>4. source' \in Source
  <2>1. source \in Source  BY DEF InboxInv, InboxTypes
  <2>2. source' = [status |-> IF status = "kept" THEN source.status ELSE status,
                   poi |-> IF poi = "kept" THEN source.poi ELSE poi = "given"]
    BY DEF In!UpdateSource
  <2>. QED  BY <2>1, <2>2 DEF Source, In!Statuses
<1>5. InboxTypes' /\ Present' /\ Calm'
  BY <1>1, <1>2, <1>3, <1>4 DEF InboxInv, InboxTypes, Present, Calm
<1>6. CASE In!Ready' => In!Ready
  <2>1. \A i \in In!Unprocessed : Safe(i) => Safe(i)'  BY <1>1, <1>2 DEF Safe, Taken
  <2>. QED  BY <1>1, <1>2, <1>4, <1>5, <1>6, <2>1, InboxJobs DEF InboxInv, InboxTypes
<1>7. CASE In!Ready' /\ ~In!Ready
  <2>1. request'.pc = "list" \/ In!Unprocessed \subseteq unlisted'
    BY <1>1, <1>2, <1>7 DEF In!UpdateSource, InboxInv, InboxTypes, Asked
  <2>2. \A i \in In!Unprocessed' : Safe(i)'  BY <1>3, <2>1 DEF Safe
  <2>. QED  BY <1>1, <1>3, <1>5, <2>2, RunsStay, AllSafe DEF InboxInv
<1>. QED  BY <1>6, <1>7

\* The list takes over from the acceptance.
LEMMA InboxList == ASSUME InboxInv, In!ListUnprocessed PROVE InboxInv'
<1>1. /\ request' = [pc |-> "queue", todo |-> In!Unprocessed]
      /\ UNCHANGED <<mail, email, queue, source, run, abandoned, unlisted>>
  BY DEF In!ListUnprocessed, In!intake, In!aside
<1>2. In!Unprocessed \subseteq Stored /\ Stored \subseteq In!Emails /\ Stored' = Stored
  BY <1>1 DEF In!Unprocessed, Stored
<1>3. request' \in Asked /\ request'.pc = "queue" /\ request'.todo = In!Unprocessed
  BY <1>1, <1>2 DEF Asked
<1>4. Present' /\ Calm' /\ In!Ready' = In!Ready
  BY <1>1, <1>2, <1>3 DEF InboxInv, Present, Calm, In!Ready
<1>5. \A i \in In!Unprocessed : Safe(i)'  BY <1>3 DEF Safe, Taken
<1>. QED  BY <1>1, <1>3, <1>4, <1>5, InboxJobs DEF InboxInv, InboxTypes

\* An email is taken off the list when its job is queued.
LEMMA InboxQueueListed == ASSUME InboxInv, In!QueueListed PROVE InboxInv'
<1>0. /\ request.pc = "queue" /\ UNCHANGED <<mail, email, source, run>>
      /\ Stored' = Stored /\ In!Ready' = In!Ready /\ request.todo \subseteq Stored
  BY DEF In!QueueListed, Stored, In!Ready, InboxInv, Present
<1>1. CASE request.todo = {}
  <2>1. request' = In!NoRequest /\ UNCHANGED <<queue, abandoned, unlisted>>
    BY <1>1 DEF In!QueueListed, In!aside
  <2>2. request' \in Asked /\ request'.pc = "idle" /\ request'.todo = {}
    BY <2>1 DEF In!NoRequest, Asked
  <2>3. Present' /\ Calm'  BY <1>0, <2>1, <2>2 DEF InboxInv, Present, Calm
  <2>4. \A i \in In!Unprocessed : Safe(i) => Safe(i)'  BY <1>0, <1>1, <2>1 DEF Safe, Taken
  <2>. QED  BY <1>0, <2>1, <2>2, <2>3, <2>4, InboxJobs DEF InboxInv, InboxTypes
<1>2. CASE request.todo # {}
  <2>1. PICK i \in request.todo : /\ queue' = [queue EXCEPT ![<<i, 0>>] = @ + 1]
                                  /\ abandoned' = abandoned \ {i} /\ unlisted' = unlisted \ {i}
                                  /\ request' = [request EXCEPT !.todo = @ \ {i}]
    BY <1>2 DEF In!QueueListed, In!Queued, In!TakenUp
  <2>2. /\ queue' \in [In!Emails \X In!Tries -> Nat] /\ queue'[<<i, 0>>] > 0
        /\ \A j \in In!Emails, s \in In!Tries : queue[<<j, s>>] > 0 => queue'[<<j, s>>] > 0
        /\ \A j \in In!Emails, s \in In!Tries : queue'[<<j, s>>] > 0 => j \in Stored'
    BY <1>0, <2>1, InboxSizes, Adds
  <2>3. request' \in Asked /\ request'.pc = "queue" /\ request'.todo = request.todo \ {i}
    BY <1>0, <2>1 DEF InboxInv, InboxTypes, Asked
  <2>4. Present' /\ Calm'  BY <1>0, <2>2, <2>3 DEF InboxInv, Present, Calm
  <2>5. ASSUME NEW j \in In!Unprocessed, Safe(j) PROVE Safe(j)'
    <3>1. CASE j = i  BY <2>2, <3>1, InboxSizes DEF Safe, Taken
    <3>2. CASE j # i
      <4>1. j \in In!Emails  BY DEF In!Unprocessed
      <4>. QED  BY <1>0, <2>1, <2>2, <2>3, <2>5, <3>2, <4>1 DEF Safe, Taken
    <3>. QED  BY <3>1, <3>2
  <2>. QED  BY <1>0, <2>2, <2>3, <2>4, <2>5, InboxJobs DEF InboxInv, InboxTypes
<1>. QED  BY <1>1, <1>2

\* A source that is deleted is not accepted, and one that is added has no POI.
LEMMA InboxSource ==
    ASSUME InboxInv, (\E status \in In!Statuses : In!AddSource(status)) \/ In!DeleteSource
    PROVE  InboxInv'
<1>1. /\ request.pc = "idle" /\ UNCHANGED <<mail, email, queue, run, abandoned, unlisted>>
      /\ Stored' = Stored
  BY DEF In!AddSource, In!DeleteSource, In!Request, In!intake, In!aside, Stored
<1>2. /\ source' \in Source /\ (In!Ready' => In!Ready)
      /\ request' \in Asked /\ request'.todo = request.todo
      /\ request'.pc \in {"idle", "delete"} /\ (request'.pc = "delete" => ~In!Ready')
  <2>0. source \in Source /\ request \in Asked  BY DEF InboxInv, InboxTypes
  <2>1. ASSUME NEW status \in In!Statuses, In!AddSource(status)
        PROVE  /\ source' \in Source /\ (In!Ready' => In!Ready)
               /\ request' = request
    <3>1. source' = In!NewSource(status) /\ request' = request  BY <2>1 DEF In!AddSource
    <3>2. source' = source \/ source' = [status |-> status, poi |-> FALSE]
      BY <3>1 DEF In!NewSource
    <3>3. [status |-> status, poi |-> FALSE] \in Source  BY DEF Source, In!Statuses
    <3>4. CASE source' = source  BY <2>0, <3>1, <3>4 DEF In!Ready
    <3>5. CASE source' = [status |-> status, poi |-> FALSE]
      <4>1. source'.poi = FALSE  BY <3>5
      <4>2. ~In!Ready'  BY <4>1 DEF In!Ready
      <4>. QED  BY <3>1, <3>3, <3>5, <4>2
    <3>. QED  BY <3>2, <3>4, <3>5
  <2>2. CASE In!DeleteSource
    <3>1. source' = [status |-> "absent", poi |-> FALSE]  BY <2>2 DEF In!DeleteSource
    <3>2. request' = [request EXCEPT !.pc = "delete"]  BY <2>2 DEF In!DeleteSource
    <3>3. source' \in Source /\ ~In!Ready'  BY <3>1 DEF Source, In!Ready
    <3>4. request' \in Asked /\ request'.todo = request.todo /\ request'.pc = "delete"
      BY <2>0, <3>2 DEF Asked
    <3>. QED  BY <3>3, <3>4
  <2>3. ASSUME NEW status \in In!Statuses, In!AddSource(status)
        PROVE  /\ source' \in Source /\ (In!Ready' => In!Ready)
               /\ request' \in Asked /\ request'.todo = request.todo
               /\ request'.pc \in {"idle", "delete"} /\ (request'.pc = "delete" => ~In!Ready')
    BY <1>1, <2>0, <2>1, <2>3
  <2>. QED  BY <2>2, <2>3
<1>5. Present' /\ Calm'  BY <1>1, <1>2 DEF InboxInv, Present, Calm
<1>6. \A i \in In!Unprocessed : Safe(i) => Safe(i)'  BY <1>1, <1>2 DEF Safe, Taken
<1>. QED  BY <1>1, <1>2, <1>5, <1>6, InboxJobs DEF InboxInv, InboxTypes

\* No email is unprocessed once all are deleted.
LEMMA InboxDeleteEmails == ASSUME InboxInv, In!DeleteEmails PROVE InboxInv'
<1>1. /\ email' = [i \in In!Emails |-> IF email[i] = "none" THEN "none" ELSE "deleted"]
      /\ request' = In!NoRequest /\ UNCHANGED <<mail, queue, source, run, abandoned, unlisted>>
  BY DEF In!DeleteEmails, In!aside
<1>2. /\ email' \in [In!Emails -> {"none", "unprocessed", "processed", "deleted"}]
      /\ Stored' = Stored /\ In!Unprocessed' = {}
  BY <1>1 DEF Stored, In!Unprocessed
<1>3. request' \in Asked /\ request'.pc = "idle" /\ request'.todo = {}
  BY <1>1 DEF In!NoRequest, Asked
<1>4. InboxTypes' /\ Present' /\ Calm'
  BY <1>1, <1>2, <1>3 DEF InboxInv, InboxTypes, Present, Calm
<1>. QED  BY <1>1, <1>2, <1>4, RunsStay, AllSafe DEF InboxInv

\* An email that becomes unprocessed is on the request's list.
LEMMA InboxReopens ==
    ASSUME InboxInv, NEW S, S \subseteq Stored,
           UNCHANGED <<mail, queue, source, run, abandoned, unlisted>>,
           request.pc # "list", request' \in Asked, request'.pc = "queue", request'.todo = S,
           request.todo \subseteq S,
           email' \in [In!Emails -> {"none", "unprocessed", "processed", "deleted"}],
           \A i \in In!Emails : i \notin S => email'[i] = email[i],
           \A i \in S : email'[i] # "none"
    PROVE  InboxInv'
<1>1. Stored' = Stored  BY DEF Stored
<1>2. InboxTypes' /\ Present' /\ Calm'  BY <1>1 DEF InboxInv, InboxTypes, Present, Calm
<1>3. In!Ready' = In!Ready /\ \A h \in In!Handlers : PutsAside(h)' = PutsAside(h)
  BY DEF In!Ready, PutsAside
<1>4. \A i \in In!Unprocessed' : i \in In!Unprocessed \/ Safe(i)'  BY DEF In!Unprocessed, Safe, Taken
<1>5. \A i \in In!Unprocessed : Safe(i) => Safe(i)'  BY DEF Safe, Taken
<1>6. \A i \in In!Unprocessed : i \in In!Emails  BY DEF In!Unprocessed
<1>7. Attended' /\ AsideIsSafe'  BY <1>1, <1>3, <1>4, <1>5, <1>6, RunsStay, StaysAttended
<1>. QED  BY <1>1, <1>2, <1>7, RunsStay DEF InboxInv

\* Reprocess, and the second statement of newsletter_assign_poi.
LEMMA InboxReprocess == ASSUME InboxInv, NEW i \in In!Emails, In!Reprocess(i) PROVE InboxInv'
<1>1. /\ email[i] \in {"processed", "unprocessed"} /\ request.pc = "idle"
      /\ email' = [email EXCEPT ![i] = "unprocessed"]
      /\ request' = [pc |-> "queue", todo |-> {i}]
      /\ UNCHANGED <<mail, queue, source, run, abandoned, unlisted>>
  BY DEF In!Reprocess, In!Request, In!aside
<1>2. request' \in Asked /\ request'.pc = "queue" /\ request'.todo = {i}  BY <1>1 DEF Asked
<1>3. {i} \subseteq Stored /\ request.todo = {}  BY <1>1 DEF Stored, InboxInv, Calm
<1>4. /\ email' \in [In!Emails -> {"none", "unprocessed", "processed", "deleted"}]
      /\ email'[i] = "unprocessed" /\ \A j \in In!Emails : j # i => email'[j] = email[j]
  BY <1>1 DEF InboxInv, InboxTypes
<1>. QED  BY <1>1, <1>2, <1>3, <1>4, InboxReopens

\* A deleted email is not reopened.
LEMMA InboxReopen == ASSUME InboxInv, In!ReopenEmail PROVE InboxInv'
<1>1. /\ request.pc = "reopen" /\ request' = [request EXCEPT !.pc = "queue"]
      /\ UNCHANGED <<mail, queue, source, run, abandoned, unlisted>>
  BY DEF In!ReopenEmail, In!aside
<1>2. request' \in Asked /\ request'.pc = "queue" /\ request'.todo = request.todo
  BY <1>1 DEF InboxInv, InboxTypes, Asked
<1>3. request.todo \subseteq Stored  BY DEF InboxInv, Present
<1>4. \A i \in In!Emails : email'[i] = IF i \in request.todo
                                    THEN IF email[i] = "deleted" THEN "deleted" ELSE "unprocessed"
                                    ELSE email[i]
  BY DEF In!ReopenEmail, In!Marked, InboxInv, InboxTypes
<1>5. email' \in [In!Emails -> {"none", "unprocessed", "processed", "deleted"}]
  <2>1. email' = [i \in In!Emails |-> email'[i]]  BY DEF In!ReopenEmail
  <2>2. \A i \in In!Emails : email'[i] \in {"none", "unprocessed", "processed", "deleted"}
    BY <1>4 DEF InboxInv, InboxTypes
  <2>. QED  BY <2>1, <2>2
<1>6. \A i \in request.todo : i \in In!Emails /\ email'[i] # "none"  BY <1>3, <1>4 DEF Stored
<1>. QED  BY <1>1, <1>2, <1>3, <1>4, <1>5, <1>6, InboxReopens

\* The sender is accepted for this email alone: the others become exceptions.
LEMMA InboxAssignPoi == ASSUME InboxInv, NEW i \in In!Emails, In!AssignPoi(i) PROVE InboxInv'
<1>1. /\ email[i] \in {"processed", "unprocessed"} /\ request.pc = "idle"
      /\ source' = [status |-> "accepted", poi |-> TRUE]
      /\ request' = [pc |-> "reopen", todo |-> {i}]
      /\ unlisted' = unlisted \cup (IF ~In!Ready THEN In!Unprocessed \ {i} ELSE {})
      /\ UNCHANGED <<mail, email, queue, run, abandoned>>
  BY DEF In!AssignPoi, In!Request, In!intake
<1>2. request' \in Asked /\ request'.pc = "reopen" /\ request'.todo = {i}  BY <1>1 DEF Asked
<1>3. Stored' = Stored /\ i \in Stored /\ In!Unprocessed' = In!Unprocessed
  BY <1>1 DEF Stored, In!Unprocessed
<1>4. source' \in Source  BY <1>1 DEF Source
<1>5. InboxTypes' /\ Present' /\ Calm'
  BY <1>1, <1>2, <1>3, <1>4 DEF InboxInv, InboxTypes, Present, Calm
<1>6. CASE In!Ready
  <2>1. \A j \in In!Unprocessed : Safe(j) => Safe(j)'
    BY <1>1, <1>2 DEF Safe, Taken, InboxInv, Calm
  <2>. QED  BY <1>1, <1>2, <1>4, <1>5, <1>6, <2>1, InboxJobs DEF InboxInv, InboxTypes
<1>7. CASE ~In!Ready
  <2>1. \A j \in In!Unprocessed' : Safe(j)'  BY <1>1, <1>2, <1>3, <1>7 DEF Safe
  <2>. QED  BY <1>1, <1>3, <1>5, <2>1, RunsStay, AllSafe DEF InboxInv
<1>. QED  BY <1>6, <1>7

\* A request that fails gives up what it had still to queue.
LEMMA InboxRequestFails == ASSUME InboxInv, In!RequestFails PROVE InboxInv'
<1>1. /\ request' = In!NoRequest /\ UNCHANGED <<mail, email, queue, source, run, unlisted>>
      /\ abandoned' = abandoned \cup request.todo
                      \cup (IF request.pc = "list" THEN In!Unprocessed ELSE {})
  BY DEF In!RequestFails, In!intake, In!aside
<1>2. request' \in Asked /\ request'.pc = "idle" /\ request'.todo = {}
  BY <1>1 DEF In!NoRequest, Asked
<1>3. Stored' = Stored /\ In!Ready' = In!Ready  BY <1>1 DEF Stored, In!Ready
<1>4. Present' /\ Calm'  BY <1>1, <1>2, <1>3 DEF InboxInv, Present, Calm
<1>5. \A i \in In!Unprocessed : Safe(i) => Safe(i)'  BY <1>1 DEF Safe, Taken
<1>. QED  BY <1>1, <1>2, <1>3, <1>4, <1>5, InboxJobs DEF InboxInv, InboxTypes

\* A crash puts the jobs of live runs back or gives them up, and gives up what messages
\* and requests were about.
LEMMA InboxCrash == ASSUME InboxInv, In!Crash PROVE InboxInv'
<1>. DEFINE Back(q) == {h \in In!Handlers : /\ run[h].live
                                            /\ run[h].email = q[1]
                                            /\ run[h].tries + 1 = q[2]}
<1>0. queue' = [q \in In!Emails \X In!Tries |-> queue[q] + In!Cardinality(Back(q))]
  BY DEF In!Crash
<1>1. /\ queue' = [q \in In!Emails \X In!Tries |-> queue[q] + Cardinality(Back(q))]
      /\ run' = [h \in In!Handlers |-> In!NoRun] /\ request' = In!NoRequest
      /\ mail' = [m \in Messages |-> IF mail[m].pc = "stored" THEN [mail[m] EXCEPT !.pc = "sending"]
                                      ELSE mail[m]]
      /\ UNCHANGED <<email, source, unlisted>>
  BY <1>0, SameFinite DEF In!Crash
<1>2. \A q : IsFiniteSet(Back(q)) /\ Cardinality(Back(q)) \in Nat
  BY InboxSizes, FS_Subset, FS_CardinalityType
<1>3. \A h \in In!Handlers, q \in In!Emails \X In!Tries : h \in Back(q) => Cardinality(Back(q)) > 0
  <2>. SUFFICES ASSUME NEW q, Back(q) # {} PROVE Cardinality(Back(q)) > 0  OBVIOUS
  <2>1. Cardinality(Back(q)) # 0  BY <1>2, FS_EmptySet
  <2>. QED  BY <1>2, <2>1
<1>. HIDE DEF Back
<1>4. /\ queue' \in [In!Emails \X In!Tries -> Nat]
      /\ \A q \in In!Emails \X In!Tries :
           queue'[q] = queue[q] + Cardinality(Back(q)) /\ queue[q] \in Nat
  <2>1. queue \in [In!Emails \X In!Tries -> Nat]  BY DEF InboxInv, InboxTypes
  <2>2. \A q \in In!Emails \X In!Tries :
          queue'[q] = queue[q] + Cardinality(Back(q)) /\ queue[q] \in Nat
    BY <1>1, <2>1
  <2>3. \A q \in In!Emails \X In!Tries : queue[q] + Cardinality(Back(q)) \in Nat  BY <1>2, <2>2
  <2>. QED  BY <1>1, <2>2, <2>3
<1>5. Stored' = Stored /\ In!Unprocessed' = In!Unprocessed /\ In!Ready' = In!Ready
  BY <1>1 DEF Stored, In!Unprocessed, In!Ready
<1>6. request' \in Asked /\ request'.pc = "idle" /\ request'.todo = {}
  BY <1>1 DEF In!NoRequest, Asked
<1>7. /\ mail' \in [Messages -> Mail]
      /\ \A m \in Messages : mail'[m].pc # "stored"
      /\ \A m \in Messages : mail'[m].pc = "accepted" => mail'[m] = mail[m]
  BY <1>1 DEF InboxInv, InboxTypes, Mail
<1>8. InboxTypes'
  BY <1>1, <1>4, <1>6, <1>7, InboxSizes DEF InboxInv, InboxTypes
<1>9. Present'
  <2>1. ASSUME NEW i \in In!Emails, NEW t \in In!Tries, queue'[<<i, t>>] > 0 PROVE i \in Stored
    <3>. DEFINE q == <<i, t>>
    <3>1. q \in In!Emails \X In!Tries /\ q[1] = i  OBVIOUS
    <3>. HIDE DEF q
    <3>2. queue[q] > 0 \/ Cardinality(Back(q)) # 0  BY <1>2, <1>4, <2>1, <3>1 DEF q
    <3>3. CASE queue[q] > 0  BY <3>3 DEF q, InboxInv, Present
    <3>4. CASE Cardinality(Back(q)) # 0
      <4>1. PICK h \in Back(q) : TRUE  BY <3>4, FS_EmptySet
      <4>. QED  BY <3>1, <4>1 DEF InboxInv, RunOK, Back
    <3>. QED  BY <3>2, <3>3, <3>4
  <2>2. ASSUME NEW m \in Messages, mail'[m].pc \in {"stored", "accepted"}
        PROVE  mail'[m].row \in Stored
    <3>1. mail'[m].pc = "accepted"  BY <1>7, <2>2
    <3>2. mail'[m] = mail[m]  BY <1>7, <3>1
    <3>3. mail[m].pc = "accepted" => mail[m].row \in Stored  BY DEF InboxInv, Present
    <3>. QED  BY <3>1, <3>2, <3>3
  <2>. QED  BY <1>5, <1>6, <2>1, <2>2 DEF Present
<1>10. (\A h \in In!Handlers : RunOK(h)') /\ OneLive'  BY <1>1, InboxSizes DEF RunOK, OneLive
<1>11. Calm'  BY <1>6 DEF Calm
<1>12. /\ abandoned \subseteq abandoned' /\ request.todo \subseteq abandoned'
       /\ request.pc = "list" => In!Unprocessed \subseteq abandoned'
  <2>. DEFINE G == UNION {In!GivenUp(h) : h \in {g \in In!Handlers : run[g].live}}
              L == IF request.pc = "list" THEN In!Unprocessed ELSE {}
  <2>1. abandoned' = abandoned \cup request.todo \cup G \cup L  BY DEF In!Crash
  <2>3. request.pc = "list" => In!Unprocessed \subseteq L  OBVIOUS
  <2>. HIDE DEF G, L
  <2>. QED  BY <2>1, <2>3
<1>13. ASSUME In!Ready, NEW i \in In!Unprocessed PROVE Safe(i)'
  <2>0. i \in In!Emails  BY DEF In!Unprocessed
  <2>1. CASE Safe(i)
    <3>1. CASE ~Taken(i)
      <4>1. \A m \in Messages : mail'[m].pc = "accepted" => mail'[m] = mail[m]
        BY <1>1 DEF InboxInv, InboxTypes, Mail
      <4>2. ~Taken(i)'  BY <3>1, <4>1 DEF Taken
      <4>. QED  BY <4>2 DEF Safe
    <3>2. CASE \E t \in In!Tries : queue[<<i, t>>] > 0
      <4>1. PICK t \in In!Tries : queue[<<i, t>>] > 0  BY <3>2
      <4>2. PICK q \in In!Emails \X In!Tries : q = <<i, t>>  BY <2>0
      <4>3. queue'[q] > 0  BY <1>2, <1>4, <4>1, <4>2
      <4>. QED  BY <4>2, <4>3 DEF Safe, Taken
    <3>3. CASE request.pc = "list" \/ i \in request.todo \/ i \in abandoned \/ i \in unlisted
      <4>1. i \in abandoned' \/ i \in unlisted'  BY <1>1, <1>12, <3>3
      <4>. QED  BY <4>1 DEF Safe, Taken
    <3>. QED  BY <2>1, <3>1, <3>2, <3>3 DEF Safe, Taken
  <2>2. CASE InRun(i)
    <3>1. PICK h \in In!Handlers : run[h].email = i /\ run[h].live  BY <2>2 DEF InRun
    <3>2. run[h].tries \in In!Tries  BY DEF InboxInv, InboxTypes, Run
    <3>3. CASE run[h].tries < RetryLimit
      <4>1. run[h].tries + 1 \in In!Tries  BY <3>2, <3>3, InboxSizes DEF In!Tries
      <4>2. PICK t \in In!Tries : t = run[h].tries + 1  BY <4>1
      <4>3. PICK q \in In!Emails \X In!Tries : q = <<i, t>>  BY <2>0
      <4>4. h \in Back(q)  BY <3>1, <4>2, <4>3 DEF Back
      <4>5. queue'[q] > 0  BY <1>2, <1>3, <1>4, <4>4
      <4>. QED  BY <4>3, <4>5 DEF Safe, Taken
    <3>4. CASE ~(run[h].tries < RetryLimit)
      <4>1. i \in In!GivenUp(h)  BY <3>1, <3>4 DEF In!GivenUp
      <4>2. i \in abandoned'  BY <3>1, <4>1 DEF In!Crash
      <4>. QED  BY <4>2 DEF Safe, Taken
    <3>. QED  BY <3>3, <3>4
  <2>. QED  BY <1>13, <2>1, <2>2 DEF InboxInv, Attended
<1>. QED  BY <1>5, <1>8, <1>9, <1>10, <1>11, <1>13, AllSafe DEF InboxInv

\* Every request keeps the invariant.
LEMMA InboxAdmin == ASSUME InboxInv, In!AdminStep PROVE InboxInv'
<1>1. ASSUME NEW i \in In!Emails, In!Reprocess(i) \/ In!AssignPoi(i) PROVE InboxInv'
  BY <1>1, InboxReprocess, InboxAssignPoi
<1>2. ASSUME NEW status \in In!Statuses \cup {"kept"}, NEW poi \in {"kept", "given", "null"},
             In!UpdateSource(status, poi)
      PROVE  InboxInv'
  BY <1>2, InboxUpdateSource
<1>. QED
  BY <1>1, <1>2, InboxList, InboxQueueListed, InboxSource, InboxDeleteEmails,
     InboxReopen, InboxRequestFails
  DEF In!AdminStep

-----------------------------------------------------------------------------
\* The theorem.
LEMMA InboxInit == ASSUME In!IngestionAssumption PROVE In!Init => InboxInv
<1>. SUFFICES ASSUME In!Init PROVE InboxInv  OBVIOUS
<1>1. InboxTypes  BY InboxRanges DEF In!Init, InboxTypes, Mail, Source, Asked, In!NoRequest
<1>2. \A h \in In!Handlers : RunOK(h) /\ ~run[h].live  BY InboxRanges DEF In!Init, RunOK
<1>3. \A q \in In!Emails \X In!Tries : queue[q] = 0  BY DEF In!Init
<1>4. Present
  <2>1. \A i \in In!Emails, t \in In!Tries : queue[<<i, t>>] = 0  BY <1>3
  <2>. QED  BY <2>1 DEF In!Init, Present, In!NoRequest
<1>5. ~In!Ready  BY DEF In!Init, In!Ready
<1>6. Calm /\ OneLive  BY <1>2, <1>5 DEF In!Init, Calm, OneLive, In!NoRequest
<1>. QED  BY <1>1, <1>2, <1>4, <1>5, <1>6 DEF InboxInv, Attended, AsideIsSafe

\* One case for each group of actions.
LEMMA InboxNext == InboxInv /\ [In!Next]_In!vars => InboxInv'
<1>. SUFFICES ASSUME InboxInv, [In!Next]_In!vars PROVE InboxInv'  OBVIOUS
<1>1. ASSUME NEW m \in Messages, In!Store(m) \/ In!Accept(m) \/ In!Refuse(m) PROVE InboxInv'
  BY <1>1, InboxStore, InboxAccept, InboxRefuse
<1>2. ASSUME NEW h \in In!Handlers, In!Step(h) \/ In!Expire(h) PROVE InboxInv'
  BY <1>2, InboxStep, InboxExpire
<1>3. ASSUME NEW h \in In!Handlers, NEW i \in In!Emails, NEW t \in In!Tries, In!Deliver(h, i, t)
      PROVE  InboxInv'
  BY <1>3, InboxDeliver
<1>4. CASE In!AdminStep \/ In!Crash  BY <1>4, InboxAdmin, InboxCrash
<1>5. CASE UNCHANGED In!vars
  <2>1. UNCHANGED <<mail, email, queue, source, run, request, abandoned, unlisted>>
    BY <1>5 DEF In!vars
  <2>2. Present' /\ Calm' /\ In!Ready' = In!Ready
    BY <2>1 DEF InboxInv, Present, Calm, In!Ready, Stored
  <2>3. \A i \in In!Unprocessed : Safe(i) => Safe(i)'  BY <2>1 DEF Safe, Taken
  <2>. QED  BY <2>1, <2>2, <2>3, InboxJobs DEF InboxInv, InboxTypes
<1>. QED  BY <1>1, <1>2, <1>3, <1>4, <1>5 DEF In!Next

\* An email that waited for triage is not forgotten when its sender is accepted.
THEOREM NoEmailIsForgotten ==
    ASSUME In!IngestionAssumption PROVE In!Spec => []NoneForgotten
<1>1. InboxInv => NoneForgotten
  <2>. SUFFICES ASSUME InboxInv, In!Ready, NEW i \in In!Unprocessed, Acknowledged(i)
                PROVE  Pursued(i) \/ i \in abandoned \/ i \in unlisted
    BY DEF NoneForgotten, InboxInv, InboxTypes, In!Unprocessed, In!Ready, Ready
  <2>1. i \in In!Emails /\ (Safe(i) \/ InRun(i))  BY DEF InboxInv, Attended, In!Unprocessed
  <2>2. Taken(i)
    <3>1. PICK m \in DOMAIN mail : mail[m] = [pc |-> "accepted", row |-> i]  BY DEF Acknowledged
    <3>2. m \in Messages  BY DEF InboxInv, InboxTypes
    <3>. QED  BY <3>1, <3>2 DEF Taken
  <2>3. ASSUME NEW t \in In!Tries, queue[<<i, t>>] > 0 PROVE Pursued(i)
    <3>. DEFINE job == <<i, t>>
    <3>1. job \in DOMAIN queue  BY <2>1 DEF InboxInv, InboxTypes
    <3>2. job[1] = i /\ queue[job] > 0  BY <2>3
    <3>. HIDE DEF job
    <3>. QED  BY <3>1, <3>2 DEF Pursued
  <2>4. ASSUME InRun(i) PROVE Pursued(i)
    <3>1. DOMAIN run = In!Handlers  BY DEF InboxInv, InboxTypes
    <3>. QED  BY <2>4, <3>1 DEF InRun, Pursued
  <2>5. request.pc = "list" \/ i \in request.todo => Pursued(i)  BY DEF Pursued
  <2>. QED  BY <2>1, <2>2, <2>3, <2>4, <2>5 DEF Safe
<1>. QED  BY <1>1, InboxInit, InboxNext, PTL DEF In!Spec
=============================================================================
