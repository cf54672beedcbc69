------------------------------- MODULE Account -------------------------------
(***************************************************************************)
(* The accounts of one email address: sign-up, its confirmation link, the  *)
(* hand-off of the newsletter opt-in to Buttondown, a sign-in with Google, *)
(* self-service deletion and the daily removal of accounts that were never *)
(* confirmed (routes/auth.js, routes/authAccounts.js,                      *)
(* config/userAccount.js; emailLogin.js, signupNewsletter.js,              *)
(* accountDeletion.js and unconfirmedCleanup.js of services).              *)
(*                                                                         *)
(* A request awaits, one after the other:                                  *)
(*   "mail"      the row and the mail of a confirmation link               *)
(*   "consumed"  the UPDATE that confirms, its link used up                *)
(*   "used"      the query for a confirmed account, its link used before   *)
(*   "subscribe" Buttondown      "record" the row of newsletter_subscriptions *)
(*   "clear"     the UPDATE that takes the opt-in back                     *)
(*   "create"    of a sign-in, the INSERT of an account                    *)
(*   "revoke", "void"  of revokeUnverifiedAccess, the UPDATE of the opt-in *)
(*               and that of the links                                     *)
(*   "link"      the INSERT of the identity                                *)
(*   "verify"    the UPDATE that confirms                                  *)
(*                                                                         *)
(* Left out: passwords, passkeys, sessions, resets, names, other addresses,*)
(* the admin's account, and subscriptions made elsewhere than at sign-up.  *)
(* NEWSLETTER_SEND_ENABLED is "true".                                      *)
(***************************************************************************)
EXTENDS Naturals, FiniteSets

CONSTANTS
    Requests,
    MaxAccounts,  \* bound: accounts the address ever has
    MaxLinks,     \* bound: links ever sent
    MaxChoices,   \* bound: completions of a sign-up
    MaxFaults     \* bound: failing queries and calls, restarts

ASSUME AccountAssumption ==
    {MaxAccounts, MaxLinks, MaxChoices, MaxFaults} \subseteq Nat /\ IsFiniteSet(Requests)

Ids == 1..MaxAccounts
Links == 1..MaxLinks
NoAccount == 0

VARIABLES
    account,    \* the row of the address; id NoAccount is none
    created,    \* accounts created
    links,      \* email_login_tokens, the used and the expired ones included
    request,
    cleanup,    \* the account a run of the cleanup is about to remove
    calls,      \* of each account, the calls to Buttondown that went through
    recorded,   \* rows of newsletter_subscriptions
    choices, faults,
    due,        \* history: accounts that were confirmed while opted in
    failed,     \* history: accounts of which a request failed
    crossed,    \* history: accounts confirmed by a sign-in that an opt-in overtook
    overtaken   \* history: accounts deleted during a hand-off

histories == <<due, failed, crossed, overtaken>>
bounds == <<choices, faults>>
vars == <<account, created, links, request, cleanup, calls, recorded, bounds, histories>>

Nobody == [id |-> NoAccount, confirmed |-> FALSE, optIn |-> FALSE, old |-> FALSE, linked |-> FALSE]
Exists == account.id # NoAccount

\* Of a sign-in, with its identity and confirmed, or else of a sign-up
NewAccount(signIn, wanted) ==
    [id |-> created + 1, confirmed |-> signIn, optIn |-> wanted, old |-> FALSE, linked |-> signIn]

Idle == [pc |-> "idle", id |-> NoAccount]
At(r, pc) == request[r].pc = pc
HandingOff(i) == \E r \in Requests : request[r].pc \in {"subscribe", "record", "clear"} /\ request[r].id = i
SigningIn(i) == \E r \in Requests : request[r].pc \in {"void", "link", "verify"} /\ request[r].id = i

AccountRow == [id : 0..MaxAccounts, confirmed : BOOLEAN, optIn : BOOLEAN, old : BOOLEAN,
               linked : BOOLEAN]

TypeOK ==
    /\ account \in AccountRow
    /\ ~Exists => ~(account.confirmed \/ account.optIn \/ account.old \/ account.linked)
    /\ created \in 0..MaxAccounts /\ account.id \in {NoAccount, created}
    /\ links \in [Links -> {"none", "open", "used", "expired"}]
    /\ request \in [Requests -> [pc : {"idle", "mail", "consumed", "used", "subscribe", "record", "clear",
                                       "create", "revoke", "void", "link", "verify"}, id : 0..MaxAccounts]]
    /\ cleanup \in 0..MaxAccounts
    /\ calls \in [Ids -> Nat]
    /\ recorded \subseteq Ids /\ due \subseteq Ids /\ failed \subseteq Ids /\ crossed \subseteq Ids
    /\ overtaken \subseteq Ids
    /\ choices \in 0..MaxChoices /\ faults \in 0..MaxFaults

Init ==
    /\ account = Nobody /\ created = 0
    /\ links = [l \in Links |-> "none"]
    /\ request = [r \in Requests |-> Idle]
    /\ cleanup = NoAccount
    /\ calls = [i \in Ids |-> 0] /\ recorded = {}
    /\ choices = 0 /\ faults = 0
    /\ due = {} /\ failed = {} /\ crossed = {} /\ overtaken = {}

Go(r, pc) == request' = [request EXCEPT ![r].pc = pc]
End(r) == request' = [request EXCEPT ![r] = Idle]
Fault == faults < MaxFaults /\ faults' = faults + 1

\* A new row, and with it what the histories say of the row.
Becomes(row) ==
    /\ account' = row
    /\ due' = IF row.confirmed /\ row.optIn THEN due \cup {row.id} ELSE due

\* What releaseNewsletterOptIn has a request do of the row that its query returned
Released_Early(row) ==      \* mutant: whether the address is confirmed is not looked at
    IF row.optIn THEN [pc |-> "subscribe", id |-> row.id] ELSE Idle
Released(row) ==
    IF row.optIn /\ row.confirmed THEN [pc |-> "subscribe", id |-> row.id] ELSE Idle

-----------------------------------------------------------------------------
(* Sign-up.                                                                *)

\* POST /signup: the address must be free, at the INSERT at the latest.
SignUp(r) ==
    /\ At(r, "idle") /\ ~Exists /\ created < MaxAccounts
    /\ \E wanted \in BOOLEAN : Becomes(NewAccount(FALSE, wanted))
    /\ created' = created + 1
    /\ request' = [request EXCEPT ![r] = [pc |-> "mail", id |-> created + 1]]
    /\ UNCHANGED <<links, cleanup, calls, recorded, bounds, failed, crossed, overtaken>>

\* POST /confirm-email/resend
Resend(r) ==
    /\ At(r, "idle") /\ Exists /\ ~account.confirmed
    /\ request' = [request EXCEPT ![r] = [pc |-> "mail", id |-> account.id]]
    /\ UNCHANGED <<account, created, links, cleanup, calls, recorded, bounds, histories>>

\* sendAccountEmail
SendLink(r) ==
    /\ At(r, "mail")
    /\ \E l \in Links : /\ links[l] = "none" /\ \A k \in 1..(l - 1) : links[k] # "none"
                        /\ links' = [links EXCEPT ![l] = "open"]
    /\ End(r)
    /\ UNCHANGED <<account, created, cleanup, calls, recorded, bounds, histories>>

Expire(l) ==
    /\ links[l] = "open"
    /\ links' = [links EXCEPT ![l] = "expired"]
    /\ UNCHANGED <<account, created, request, cleanup, calls, recorded, bounds, histories>>

\* POST /email/verify: consumeToken, or else usedTokenEmail.
Click(r, l) ==
    /\ At(r, "idle")
    /\ links[l] \in {"open", "used"}
    /\ links' = [links EXCEPT ![l] = "used"]
    /\ Go(r, IF links[l] = "open" THEN "consumed" ELSE "used")
    /\ UNCHANGED <<account, created, cleanup, calls, recorded, bounds, histories>>

\* The account the address has by now, if it has one
Confirm_Silently(r) ==      \* mutant: the opt-in is left for later
    /\ At(r, "consumed")
    /\ Becomes(IF Exists THEN [account EXCEPT !.confirmed = TRUE] ELSE Nobody)
    /\ End(r)
    /\ UNCHANGED <<created, links, cleanup, calls, recorded, bounds, failed, crossed, overtaken>>
Confirm(r) ==
    /\ At(r, "consumed")
    /\ Becomes(IF Exists THEN [account EXCEPT !.confirmed = TRUE] ELSE Nobody)
    /\ request' = [request EXCEPT ![r] = Released(account')]
    /\ UNCHANGED <<created, links, cleanup, calls, recorded, bounds, failed, crossed, overtaken>>

\* Clicked before; a hand-off that failed is retried.
ClickedAgain(r) ==
    /\ At(r, "used")
    /\ request' = [request EXCEPT ![r] = Released(account)]
    /\ UNCHANGED <<account, created, links, cleanup, calls, recorded, bounds, histories>>

\* POST /complete-signup
CompleteSignup(r) ==
    /\ At(r, "idle") /\ Exists
    /\ choices < MaxChoices /\ choices' = choices + 1
    /\ \E wanted \in BOOLEAN :
         /\ Becomes([account EXCEPT !.optIn = wanted])
         /\ crossed' = IF wanted /\ SigningIn(account.id) THEN crossed \cup {account.id} ELSE crossed
    /\ request' = [request EXCEPT ![r] = Released(account')]
    /\ UNCHANGED <<created, links, cleanup, calls, recorded, faults, failed, overtaken>>

-----------------------------------------------------------------------------
(* releaseNewsletterOptIn.                                                 *)

\* An address Buttondown has already is taken as well.  The client's up to three POSTs
\* are one call, which fails when none of them is answered.
Subscribe(r) ==
    /\ At(r, "subscribe")
    /\ calls' = [calls EXCEPT ![request[r].id] = @ + 1]
    /\ Go(r, "record")
    /\ UNCHANGED <<account, created, links, cleanup, recorded, bounds, histories>>

Record(r) ==
    /\ At(r, "record")
    /\ recorded' = recorded \cup {request[r].id}
    /\ Go(r, "clear")
    /\ UNCHANGED <<account, created, links, cleanup, calls, bounds, histories>>

Clear_Gone(r) ==            \* mutant: the row is not found
    /\ At(r, "clear")
    /\ End(r)
    /\ UNCHANGED <<account, created, links, cleanup, calls, recorded, bounds, histories>>
Clear(r) ==
    /\ At(r, "clear")
    /\ account' = IF account.id = request[r].id THEN [account EXCEPT !.optIn = FALSE] ELSE account
    /\ End(r)
    /\ UNCHANGED <<created, links, cleanup, calls, recorded, bounds, histories>>

-----------------------------------------------------------------------------
(* findOrCreateUser for a sign-in with Google.                             *)

\* By the identity, then by the address
SignIn(r) ==
    /\ At(r, "idle")
    /\ request' = [request EXCEPT ![r] =
           [id |-> account.id,
            pc |-> IF ~Exists THEN "create"
                   ELSE IF account.linked THEN "verify"
                   ELSE IF account.confirmed THEN "link" ELSE "revoke"]]
    /\ UNCHANGED <<account, created, links, cleanup, calls, recorded, bounds, histories>>

\* The account with its identity.  A sign-up may have taken the address: the INSERT
\* fails then.
Create(r) ==
    /\ At(r, "create") /\ created < MaxAccounts
    /\ IF Exists THEN UNCHANGED <<account, created, due>>
       ELSE /\ Becomes(NewAccount(TRUE, FALSE))
            /\ created' = created + 1
    /\ End(r)
    /\ UNCHANGED <<links, cleanup, calls, recorded, bounds, failed, crossed, overtaken>>

\* The opt-in was not the owner's.
Revoke(r) ==
    /\ At(r, "revoke")
    /\ account' = IF account.id = request[r].id THEN [account EXCEPT !.optIn = FALSE] ELSE account
    /\ Go(r, "void")
    /\ UNCHANGED <<created, links, cleanup, calls, recorded, bounds, histories>>

\* The links to the address that are out count as used.
VoidLinks(r) ==
    /\ At(r, "void")
    /\ links' = [l \in Links |-> IF links[l] = "open" THEN "used" ELSE links[l]]
    /\ Go(r, "link")
    /\ UNCHANGED <<account, created, cleanup, calls, recorded, bounds, histories>>

\* The account may be gone: the INSERT fails, and later an UPDATE finds no row.
Link(r) ==
    /\ At(r, "link")
    /\ IF account.id = request[r].id
       THEN account' = [account EXCEPT !.linked = TRUE] /\ Go(r, "verify")
       ELSE End(r) /\ UNCHANGED account
    /\ UNCHANGED <<created, links, cleanup, calls, recorded, bounds, histories>>

Verify(r) ==
    /\ At(r, "verify")
    /\ IF account.id = request[r].id THEN Becomes([account EXCEPT !.confirmed = TRUE])
       ELSE UNCHANGED <<account, due>>
    /\ End(r)
    /\ UNCHANGED <<created, links, cleanup, calls, recorded, bounds, failed, crossed, overtaken>>

-----------------------------------------------------------------------------
(* Removal.                                                                *)

\* deleteUserAccount, one transaction: the newsletter rows of the address go first.
Remove_Halfway ==           \* mutant: the newsletter rows stay
    /\ account' = Nobody
    /\ UNCHANGED <<recorded, overtaken>>
Remove ==
    /\ account' = Nobody
    /\ recorded' = {}
    /\ overtaken' = IF HandingOff(account.id) THEN overtaken \cup {account.id} ELSE overtaken

\* DELETE /account
DeleteAccount ==
    /\ Exists
    /\ Remove
    /\ UNCHANGED <<created, links, request, cleanup, calls, bounds, due, failed, crossed>>

\* Thirty days have passed.
GrowOld ==
    /\ Exists /\ ~account.old
    /\ account' = [account EXCEPT !.old = TRUE]
    /\ UNCHANGED <<created, links, request, cleanup, calls, recorded, bounds, histories>>

\* deleteStaleUnconfirmedAccounts
Stale_Unlinked == Exists /\ account.old /\ ~account.confirmed /\ ~account.linked  \* mutant
Stale == Exists /\ account.old /\ ~account.confirmed
StartCleanup ==
    /\ cleanup = NoAccount /\ Stale
    /\ cleanup' = account.id
    /\ UNCHANGED <<account, created, links, request, calls, recorded, bounds, histories>>

\* Checked again under the lock of the row
StillStale_Found == account.id = cleanup    \* mutant: not checked again
StillStale == account.id = cleanup /\ Stale
RemoveStale ==
    /\ cleanup # NoAccount
    /\ IF StillStale THEN Remove ELSE UNCHANGED <<account, recorded, overtaken>>
    /\ cleanup' = NoAccount
    /\ UNCHANGED <<created, links, request, calls, bounds, due, failed, crossed>>

\* It is logged, and the next day is another run.
RemovalFails ==
    /\ cleanup # NoAccount
    /\ Fault
    /\ cleanup' = NoAccount
    /\ UNCHANGED <<account, created, links, request, calls, recorded, choices, histories>>

\* A query, a mail or the call to Buttondown fails, or the server stops.
RequestFails(r) ==
    /\ ~At(r, "idle")
    /\ Fault
    /\ failed' = IF request[r].id = NoAccount THEN failed ELSE failed \cup {request[r].id}
    /\ End(r)
    /\ UNCHANGED <<account, created, links, cleanup, calls, recorded, choices, due, crossed, overtaken>>

-----------------------------------------------------------------------------
Next ==
    \/ \E r \in Requests :
         \/ SignUp(r) \/ Resend(r) \/ SendLink(r)
         \/ \E l \in Links : Click(r, l)
         \/ Confirm(r) \/ ClickedAgain(r) \/ CompleteSignup(r)
         \/ Subscribe(r) \/ Record(r) \/ Clear(r)
         \/ SignIn(r) \/ Create(r) \/ Revoke(r) \/ VoidLinks(r) \/ Link(r) \/ Verify(r)
         \/ RequestFails(r)
    \/ \E l \in Links : Expire(l)
    \/ DeleteAccount \/ GrowOld
    \/ StartCleanup \/ RemoveStale \/ RemovalFails

\* The cleanup runs every day; time passes.
Fairness == WF_vars(GrowOld) /\ WF_vars(StartCleanup) /\ WF_vars(RemoveStale)

Spec == Init /\ [][Next]_vars /\ Fairness

-----------------------------------------------------------------------------
(* Properties.                                                             *)

\* The cleanup removes no account that was confirmed, after its query for stale
\* accounts as well (unconfirmedCleanup.js, accountDeletion.js).
ConfirmedIsKept ==
    [][(cleanup # NoAccount /\ cleanup' = NoAccount /\ Exists /\ account' = Nobody)
       => ~account.confirmed]_vars

\* Buttondown hears of an address only when its account was confirmed while opted in,
\* and it hears of it then: an opt-in of a confirmed account waits only when its request
\* failed, or when it was made while a sign-in was about to confirm the account
\* (signupNewsletter.js and its callers).
OnlyConfirmedAreSent == \A i \in Ids : calls[i] > 0 => i \in due

OptInsAreHandedOff ==
    (Exists /\ account.confirmed /\ account.optIn)
    => HandingOff(account.id) \/ account.id \in failed \cup crossed

\* Once its account is deleted, nothing of it is in newsletter_subscriptions, unless
\* a hand-off of it was under way then (accountDeletion.js, signupNewsletter.js).
NothingLeftBehind == recorded \subseteq {account.id} \cup overtaken

\* An account whose address is never confirmed does not stay (unconfirmedCleanup.js).
UnconfirmedGoes == \A i \in Ids : (account.id = i) ~> (account.id # i \/ account.confirmed)

\* Each request sends an opt-in at most once, and a request that failed is tried again:
\* for each time that the newsletter was chosen Buttondown hears of an account no more
\* often than requests were under way at a time, and once more for each failure
\* (signupNewsletter.js clears the opt-in last, and every caller looks at it first).
SentByEachOnce ==
    \A i \in Ids : calls[i] <= Cardinality(Requests) * (choices + 1) + faults

\* The opt-in is cleared "so it's only sent once" (signupNewsletter.js).
SentOnce == \A i \in Ids : calls[i] <= 1
==============================================================================
