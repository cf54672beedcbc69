---------------------------- MODULE AccountProofs ----------------------------
(***************************************************************************)
(* What holds of the accounts of an address for every number of requests,  *)
(* accounts, links and faults.                                             *)
(***************************************************************************)
EXTENDS Account, FiniteSetTheorems, TLAPS

\* A hand-off is of an account that was confirmed while opted in.
HandOffsAreDue ==
    \A r \in Requests : request[r].pc \in {"subscribe", "record", "clear"} => request[r].id \in due

\* A hand-off outlives its account only when that was deleted meanwhile.
HandOffsStay ==
    \A r \in Requests : request[r].pc \in {"subscribe", "record", "clear"}
                        => request[r].id \in {account.id} \cup overtaken

\* A sign-in that has linked its identity confirms the account next, or has failed.
LinksAreConfirmed ==
    (account.linked /\ ~account.confirmed) => SigningIn(account.id) \/ account.id \in failed

\* An account that a sign-in will confirm has no opt-in but a late one.
RevokedStays ==
    (~account.confirmed /\ account.optIn /\ (account.linked \/ SigningIn(account.id)))
    => account.id \in failed \cup crossed

\* A sign-in that found an account knows the id of one that was created.
RequestsHaveAccounts ==
    \A r \in Requests : request[r].pc \in {"revoke", "void", "link", "verify"}
                        => request[r].id \in 1..created

\* An opt-in of a confirmed account is known as one.
OptInsAreDue == account.confirmed /\ account.optIn => account.id \in due

DueExist == due \subseteq 1..created

IInv == /\ TypeOK
        /\ OnlyConfirmedAreSent /\ OptInsAreHandedOff /\ NothingLeftBehind
        /\ HandOffsAreDue /\ HandOffsStay /\ LinksAreConfirmed /\ RevokedStays
        /\ RequestsHaveAccounts /\ OptInsAreDue /\ DueExist

-----------------------------------------------------------------------------
(* Every action keeps the invariant.                                       *)

\* SignUp keeps the invariant.
LEMMA SignUpKeeps == ASSUME IInv, NEW r \in Requests, SignUp(r) PROVE IInv'
<1>0. account' \in AccountRow
  BY AccountAssumption DEF Becomes, NewAccount, AccountRow, SignUp, IInv, TypeOK
<1>1. TypeOK'
  BY <1>0, AccountAssumption
     DEF Becomes, NewAccount, Idle, Nobody, NoAccount, Exists, bounds, SignUp, IInv,
         TypeOK
<1>2. OnlyConfirmedAreSent'  BY DEF Becomes, NewAccount, SignUp, IInv, OnlyConfirmedAreSent
<1>3. OptInsAreHandedOff'  BY DEF Becomes, NewAccount, SignUp, OptInsAreHandedOff
<1>4. NothingLeftBehind'  BY DEF NoAccount, Ids, Exists, SignUp, IInv, NothingLeftBehind, TypeOK
<1>5. HandOffsAreDue'  BY DEF Becomes, NewAccount, SignUp, IInv, HandOffsAreDue
<1>6. HandOffsStay'
  BY DEF NoAccount, Exists, SignUp, IInv, HandOffsStay, HandOffsAreDue, DueExist
<1>7. LinksAreConfirmed'  BY DEF Becomes, NewAccount, SignUp, LinksAreConfirmed
<1>8. RevokedStays'
  BY DEF Becomes, NewAccount, SigningIn, SignUp, IInv, RevokedStays, RequestsHaveAccounts,
         TypeOK
<1>9. RequestsHaveAccounts'  BY DEF SignUp, IInv, RequestsHaveAccounts, TypeOK
<1>10. OptInsAreDue'  BY DEF Becomes, SignUp, OptInsAreDue
<1>11. DueExist'  BY DEF Becomes, NewAccount, SignUp, IInv, DueExist, TypeOK
<1>. QED  BY <1>1, <1>2, <1>3, <1>4, <1>5, <1>6, <1>7, <1>8, <1>9, <1>10, <1>11 DEF IInv

\* Resend keeps the invariant.
LEMMA ResendKeeps == ASSUME IInv, NEW r \in Requests, Resend(r) PROVE IInv'
  BY DEF AccountRow, HandingOff, SigningIn, At, Go, End, Exists, Nobody, Idle, NoAccount,
         bounds, histories, Resend, IInv, TypeOK, OnlyConfirmedAreSent,
         OptInsAreHandedOff, NothingLeftBehind, HandOffsAreDue, HandOffsStay,
         LinksAreConfirmed, RevokedStays, RequestsHaveAccounts, OptInsAreDue, DueExist

\* SendLink keeps the invariant.
LEMMA SendLinkKeeps == ASSUME IInv, NEW r \in Requests, SendLink(r) PROVE IInv'
  BY AccountAssumption, SMTT(30)
     DEF Links, AccountRow, HandingOff, SigningIn, At, Go, End, Exists, Nobody, Idle,
         NoAccount, Ids, bounds, histories, SendLink, IInv, TypeOK, OnlyConfirmedAreSent,
         OptInsAreHandedOff, NothingLeftBehind, HandOffsAreDue, HandOffsStay,
         LinksAreConfirmed, RevokedStays, RequestsHaveAccounts, OptInsAreDue, DueExist

\* Confirm keeps the invariant.
LEMMA ConfirmKeeps == ASSUME IInv, NEW r \in Requests, Confirm(r) PROVE IInv'
<1>0. account' \in AccountRow
  <2>1. account \in AccountRow  BY DEF IInv, TypeOK
  <2>. QED  BY <2>1 DEF Becomes, AccountRow, Nobody, Exists, Confirm
<1>1. TypeOK'
  BY <1>0, AccountAssumption
     DEF Becomes, Released, Idle, Nobody, NoAccount, Ids, Exists, Go, End, bounds,
         Confirm, IInv, TypeOK
<1>2. OnlyConfirmedAreSent'  BY DEF Becomes, Confirm, IInv, OnlyConfirmedAreSent
<1>3. OptInsAreHandedOff'
  BY DEF Released, HandingOff, Confirm, IInv, OptInsAreHandedOff, TypeOK
<1>4. NothingLeftBehind'
  BY DEF Becomes, NoAccount, Ids, Exists, Confirm, IInv, NothingLeftBehind, TypeOK
<1>5. HandOffsAreDue'  BY DEF Becomes, Released, Idle, Confirm, IInv, HandOffsAreDue
<1>6. HandOffsStay'
  BY DEF Becomes, Released, Idle, NoAccount, Exists, Confirm, IInv, HandOffsStay,
         HandOffsAreDue, DueExist
<1>7. LinksAreConfirmed'  BY DEF Becomes, Nobody, Confirm, LinksAreConfirmed
<1>8. RevokedStays'  BY DEF Becomes, Nobody, Confirm, RevokedStays
<1>9. RequestsHaveAccounts'  BY DEF Released, Idle, Confirm, IInv, RequestsHaveAccounts
<1>10. OptInsAreDue'  BY DEF Becomes, Confirm, OptInsAreDue
<1>11. DueExist'  BY DEF Becomes, Nobody, NoAccount, Exists, Confirm, IInv, DueExist, TypeOK
<1>. QED  BY <1>1, <1>2, <1>3, <1>4, <1>5, <1>6, <1>7, <1>8, <1>9, <1>10, <1>11 DEF IInv

\* ClickedAgain keeps the invariant.
LEMMA ClickedAgainKeeps == ASSUME IInv, NEW r \in Requests, ClickedAgain(r) PROVE IInv'
<1>0. account' = account  BY DEF ClickedAgain
<1>1. TypeOK'
  BY AccountAssumption
     DEF Released, Idle, Nobody, NoAccount, Exists, bounds, histories, ClickedAgain, IInv,
         TypeOK
<1>2. OnlyConfirmedAreSent'  BY DEF histories, ClickedAgain, IInv, OnlyConfirmedAreSent
<1>3. OptInsAreHandedOff'
  BY DEF Released, HandingOff, Exists, histories, ClickedAgain, IInv, OptInsAreHandedOff
<1>4. NothingLeftBehind'  BY DEF histories, ClickedAgain, IInv, NothingLeftBehind
<1>5. HandOffsAreDue'
  BY DEF Released, Idle, histories, ClickedAgain, IInv, HandOffsAreDue, OptInsAreDue
<1>6. HandOffsStay'  BY DEF Released, Idle, histories, ClickedAgain, IInv, HandOffsStay
<1>7. LinksAreConfirmed'  BY DEF SigningIn, At, histories, ClickedAgain, IInv, LinksAreConfirmed
<1>8. RevokedStays'
  BY DEF Released, SigningIn, Idle, histories, ClickedAgain, IInv, RevokedStays
<1>9. RequestsHaveAccounts'  BY DEF Released, Idle, ClickedAgain, IInv, RequestsHaveAccounts
<1>10. OptInsAreDue'  BY DEF histories, ClickedAgain, IInv, OptInsAreDue
<1>11. DueExist'  BY DEF histories, ClickedAgain, IInv, DueExist
<1>. QED  BY <1>1, <1>2, <1>3, <1>4, <1>5, <1>6, <1>7, <1>8, <1>9, <1>10, <1>11 DEF IInv

\* CompleteSignup keeps the invariant.
LEMMA CompleteSignupKeeps == ASSUME IInv, NEW r \in Requests, CompleteSignup(r) PROVE IInv'
<1>0. account' \in AccountRow
  <2>1. account \in AccountRow  BY DEF IInv, TypeOK
  <2>. QED  BY <2>1 DEF Becomes, AccountRow, CompleteSignup
<1>1. TypeOK'
  BY <1>0, AccountAssumption, SMTT(20)
     DEF Becomes, Released, Idle, Nobody, NoAccount, Ids, Exists, Go, End, At, bounds,
         histories, CompleteSignup, IInv, TypeOK
<1>2. OnlyConfirmedAreSent'  BY DEF Becomes, CompleteSignup, IInv, OnlyConfirmedAreSent
<1>3. OptInsAreHandedOff'
  BY DEF Released, HandingOff, CompleteSignup, IInv, OptInsAreHandedOff, TypeOK
<1>4. NothingLeftBehind'  BY DEF Becomes, CompleteSignup, IInv, NothingLeftBehind
<1>5. HandOffsAreDue'  BY DEF Becomes, Released, Idle, CompleteSignup, IInv, HandOffsAreDue
<1>6. HandOffsStay'  BY DEF Becomes, Released, Idle, CompleteSignup, IInv, HandOffsStay
<1>7. LinksAreConfirmed'  BY DEF Becomes, SigningIn, At, CompleteSignup, IInv, LinksAreConfirmed
<1>8. RevokedStays'
  BY DEF Becomes, Released, SigningIn, Idle, CompleteSignup, IInv, RevokedStays,
         LinksAreConfirmed
<1>9. RequestsHaveAccounts'  BY DEF Released, Idle, CompleteSignup, IInv, RequestsHaveAccounts
<1>10. OptInsAreDue'  BY DEF Becomes, CompleteSignup, OptInsAreDue
<1>11. DueExist'  BY DEF Becomes, NoAccount, Exists, CompleteSignup, IInv, DueExist, TypeOK
<1>. QED  BY <1>1, <1>2, <1>3, <1>4, <1>5, <1>6, <1>7, <1>8, <1>9, <1>10, <1>11 DEF IInv

\* Subscribe keeps the invariant.
LEMMA SubscribeKeeps == ASSUME IInv, NEW r \in Requests, Subscribe(r) PROVE IInv'
  BY DEF AccountRow, HandingOff, SigningIn, At, Go, End, Exists, Nobody, Idle, NoAccount,
         bounds, histories, Subscribe, IInv, TypeOK, OnlyConfirmedAreSent,
         OptInsAreHandedOff, NothingLeftBehind, HandOffsAreDue, HandOffsStay,
         LinksAreConfirmed, RevokedStays, RequestsHaveAccounts, OptInsAreDue, DueExist

\* Record keeps the invariant.
LEMMA RecordKeeps == ASSUME IInv, NEW r \in Requests, Record(r) PROVE IInv'
  BY DEF AccountRow, HandingOff, SigningIn, At, Go, End, Exists, Nobody, Idle, NoAccount,
         bounds, histories, Record, IInv, TypeOK, OnlyConfirmedAreSent,
         OptInsAreHandedOff, NothingLeftBehind, HandOffsAreDue, HandOffsStay,
         LinksAreConfirmed, RevokedStays, RequestsHaveAccounts, OptInsAreDue, DueExist

\* Clear keeps the invariant.
LEMMA ClearKeeps == ASSUME IInv, NEW r \in Requests, Clear(r) PROVE IInv'
<1>0. account' \in AccountRow
  <2>1. account \in AccountRow  BY DEF IInv, TypeOK
  <2>. QED  BY <2>1, ZenonT(20) DEF AccountRow, Nobody, NoAccount, Ids, Exists, Clear
<1>1. TypeOK'
  BY <1>0, AccountAssumption
     DEF Idle, Nobody, NoAccount, Exists, End, bounds, histories, Clear, IInv, TypeOK
<1>2. OnlyConfirmedAreSent'  BY DEF histories, Clear, IInv, OnlyConfirmedAreSent
<1>3. OptInsAreHandedOff'
  BY DEF HandingOff, End, histories, Clear, IInv, OptInsAreHandedOff, TypeOK
<1>4. NothingLeftBehind'  BY DEF histories, Clear, IInv, NothingLeftBehind
<1>5. HandOffsAreDue'  BY DEF Idle, End, histories, Clear, IInv, HandOffsAreDue
<1>6. HandOffsStay'  BY DEF Idle, End, histories, Clear, IInv, HandOffsStay
<1>7. LinksAreConfirmed'  BY DEF SigningIn, End, At, histories, Clear, IInv, LinksAreConfirmed
<1>8. RevokedStays'  BY DEF SigningIn, Idle, End, histories, Clear, IInv, RevokedStays
<1>9. RequestsHaveAccounts'  BY DEF Idle, End, Clear, IInv, RequestsHaveAccounts
<1>10. OptInsAreDue'  BY DEF histories, Clear, IInv, OptInsAreDue
<1>11. DueExist'  BY DEF histories, Clear, IInv, DueExist
<1>. QED  BY <1>1, <1>2, <1>3, <1>4, <1>5, <1>6, <1>7, <1>8, <1>9, <1>10, <1>11 DEF IInv

\* SignIn keeps the invariant.
LEMMA SignInKeeps == ASSUME IInv, NEW r \in Requests, SignIn(r) PROVE IInv'
  BY DEF AccountRow, HandingOff, SigningIn, At, Go, End, Exists, Nobody, Idle, NoAccount,
         bounds, histories, SignIn, IInv, TypeOK, OnlyConfirmedAreSent,
         OptInsAreHandedOff, NothingLeftBehind, HandOffsAreDue, HandOffsStay,
         LinksAreConfirmed, RevokedStays, RequestsHaveAccounts, OptInsAreDue, DueExist

\* Create keeps the invariant.
LEMMA CreateKeeps == ASSUME IInv, NEW r \in Requests, Create(r) PROVE IInv'
<1>1. CASE Exists
  <2>0. /\ UNCHANGED <<account, created, links, cleanup, calls, recorded, choices, faults,
                       due, failed, crossed, overtaken>>
        /\ request' = [request EXCEPT ![r] = Idle] /\ request[r].pc = "create"
    BY <1>1 DEF At, End, bounds, Create
  <2>1. TypeOK'  BY <2>0, AccountAssumption DEF Idle, NoAccount, Exists, IInv, TypeOK
  <2>2. OnlyConfirmedAreSent'  BY <2>0 DEF IInv, OnlyConfirmedAreSent
  <2>3. OptInsAreHandedOff'  BY <1>1, <2>0 DEF HandingOff, IInv, OptInsAreHandedOff
  <2>4. NothingLeftBehind'  BY <2>0 DEF IInv, NothingLeftBehind
  <2>5. HandOffsAreDue'  BY <2>0 DEF Idle, IInv, HandOffsAreDue
  <2>6. HandOffsStay'  BY <2>0 DEF Idle, IInv, HandOffsStay
  <2>7. LinksAreConfirmed'  BY <2>0 DEF SigningIn, IInv, LinksAreConfirmed
  <2>8. RevokedStays'  BY <2>0 DEF SigningIn, Idle, IInv, RevokedStays
  <2>9. RequestsHaveAccounts'  BY <2>0 DEF Idle, IInv, RequestsHaveAccounts
  <2>10. OptInsAreDue'  BY <2>0 DEF IInv, OptInsAreDue
  <2>11. DueExist'  BY <2>0 DEF IInv, DueExist
  <2>. QED  BY <2>1, <2>2, <2>3, <2>4, <2>5, <2>6, <2>7, <2>8, <2>9, <2>10, <2>11 DEF IInv
<1>2. CASE ~Exists
  <2>0. /\ UNCHANGED <<links, cleanup, calls, recorded, choices, faults, due, failed, crossed,
                       overtaken>>
        /\ request' = [request EXCEPT ![r] = Idle] /\ created' = created + 1
        /\ created + 1 \in Ids
        /\ account' = [id |-> created + 1, confirmed |-> TRUE, optIn |-> FALSE, old |-> FALSE, linked |-> TRUE]
    BY <1>2, AccountAssumption
       DEF Becomes, NewAccount, End, Ids, bounds, Create, IInv, TypeOK
  <2>row. account' \in AccountRow  BY <2>0 DEF AccountRow, Ids
  <2>1. TypeOK'
    BY <2>0, <2>row, AccountAssumption, SMTT(20)
       DEF Idle, Nobody, NoAccount, Ids, Exists, IInv, TypeOK
  <2>2. OnlyConfirmedAreSent'  BY <2>0 DEF IInv, OnlyConfirmedAreSent
  <2>3. OptInsAreHandedOff'  BY <2>0 DEF OptInsAreHandedOff
  <2>4. NothingLeftBehind'
    BY <1>2, <2>0 DEF NoAccount, Ids, Exists, IInv, NothingLeftBehind, TypeOK
  <2>5. HandOffsAreDue'  BY <2>0 DEF Idle, IInv, HandOffsAreDue
  <2>6. HandOffsStay'
    BY <1>2, <2>0 DEF Idle, NoAccount, Exists, IInv, HandOffsStay, HandOffsAreDue, DueExist
  <2>7. LinksAreConfirmed'  BY <2>0 DEF LinksAreConfirmed
  <2>8. RevokedStays'  BY <2>0 DEF RevokedStays
  <2>9. RequestsHaveAccounts'  BY <2>0 DEF Idle, IInv, RequestsHaveAccounts, TypeOK
  <2>10. OptInsAreDue'  BY <2>0 DEF OptInsAreDue
  <2>11. DueExist'  BY <2>0 DEF IInv, DueExist, TypeOK
  <2>. QED  BY <2>1, <2>2, <2>3, <2>4, <2>5, <2>6, <2>7, <2>8, <2>9, <2>10, <2>11 DEF IInv
<1>. QED  BY <1>1, <1>2

\* Revoke keeps the invariant.
LEMMA RevokeKeeps == ASSUME IInv, NEW r \in Requests, Revoke(r) PROVE IInv'
<1>0. account' \in AccountRow
  <2>1. account \in AccountRow  BY DEF IInv, TypeOK
  <2>. QED  BY <2>1, ZenonT(20) DEF AccountRow, Nobody, NoAccount, Ids, Exists, Revoke
<1>1. TypeOK'  BY <1>0 DEF Exists, Go, bounds, histories, Revoke, IInv, TypeOK
<1>2. OnlyConfirmedAreSent'  BY DEF histories, Revoke, IInv, OnlyConfirmedAreSent
<1>3. OptInsAreHandedOff'
  BY DEF HandingOff, Go, histories, Revoke, IInv, OptInsAreHandedOff, TypeOK
<1>4. NothingLeftBehind'  BY DEF histories, Revoke, IInv, NothingLeftBehind
<1>5. HandOffsAreDue'  BY DEF Go, histories, Revoke, IInv, HandOffsAreDue
<1>6. HandOffsStay'  BY DEF Go, histories, Revoke, IInv, HandOffsStay
<1>7. LinksAreConfirmed'  BY DEF SigningIn, Go, histories, Revoke, IInv, LinksAreConfirmed
<1>8. RevokedStays'  BY DEF SigningIn, Go, histories, Revoke, IInv, RevokedStays
<1>9. RequestsHaveAccounts'  BY DEF Go, At, Revoke, IInv, RequestsHaveAccounts
<1>10. OptInsAreDue'  BY DEF histories, Revoke, IInv, OptInsAreDue
<1>11. DueExist'  BY DEF histories, Revoke, IInv, DueExist
<1>. QED  BY <1>1, <1>2, <1>3, <1>4, <1>5, <1>6, <1>7, <1>8, <1>9, <1>10, <1>11 DEF IInv

\* VoidLinks keeps the invariant.
LEMMA VoidLinksKeeps == ASSUME IInv, NEW r \in Requests, VoidLinks(r) PROVE IInv'
  BY DEF HandingOff, SigningIn, At, Go, Exists, bounds, histories, VoidLinks, IInv,
         TypeOK, OnlyConfirmedAreSent, OptInsAreHandedOff, NothingLeftBehind,
         HandOffsAreDue, HandOffsStay, LinksAreConfirmed, RevokedStays,
         RequestsHaveAccounts, OptInsAreDue, DueExist

\* Link keeps the invariant.
LEMMA LinkKeeps == ASSUME IInv, NEW r \in Requests, Link(r) PROVE IInv'
<1>1. CASE account.id = request[r].id
  <2>0. /\ UNCHANGED <<created, links, cleanup, calls, recorded, choices, faults, due, failed,
                       crossed, overtaken>>
        /\ request' = [request EXCEPT ![r].pc = "verify"] /\ request[r].pc = "link"
        /\ account'.id = account.id /\ account'.confirmed = account.confirmed
        /\ account'.optIn = account.optIn /\ account.id \in 1..created /\ account.id # NoAccount
    BY <1>1
       DEF AccountRow, At, Go, NoAccount, bounds, histories, Link, IInv, TypeOK,
           RequestsHaveAccounts
  <2>row. account' \in AccountRow
    <3>1. account \in AccountRow  BY DEF IInv, TypeOK
    <3>. QED  BY <3>1, ZenonT(20) DEF AccountRow, Link
  <2>1. TypeOK'  BY <2>0, <2>row DEF Exists, IInv, TypeOK
  <2>2. OnlyConfirmedAreSent'  BY <2>0 DEF IInv, OnlyConfirmedAreSent
  <2>3. OptInsAreHandedOff'  BY <2>0 DEF HandingOff, IInv, OptInsAreHandedOff, TypeOK
  <2>4. NothingLeftBehind'  BY <2>0 DEF IInv, NothingLeftBehind
  <2>5. HandOffsAreDue'  BY <2>0 DEF IInv, HandOffsAreDue
  <2>6. HandOffsStay'  BY <2>0 DEF IInv, HandOffsStay
  <2>7. LinksAreConfirmed'  BY <1>1, <2>0 DEF SigningIn, LinksAreConfirmed
  <2>8. RevokedStays'  BY <1>1, <2>0 DEF SigningIn, IInv, RevokedStays
  <2>9. RequestsHaveAccounts'  BY <2>0 DEF IInv, RequestsHaveAccounts
  <2>10. OptInsAreDue'  BY <2>0 DEF IInv, OptInsAreDue
  <2>11. DueExist'  BY <2>0 DEF IInv, DueExist
  <2>. QED  BY <2>1, <2>2, <2>3, <2>4, <2>5, <2>6, <2>7, <2>8, <2>9, <2>10, <2>11 DEF IInv
<1>2. CASE account.id # request[r].id
  <2>0. /\ UNCHANGED <<account, created, links, cleanup, calls, recorded, choices, faults,
                       due, failed, crossed, overtaken>>
        /\ request' = [request EXCEPT ![r] = Idle]
    BY <1>2 DEF End, bounds, histories, Link
  <2>1. TypeOK'  BY <2>0, AccountAssumption DEF Idle, NoAccount, Exists, IInv, TypeOK
  <2>2. OnlyConfirmedAreSent'  BY <2>0 DEF IInv, OnlyConfirmedAreSent
  <2>3. OptInsAreHandedOff'  BY <1>2, <2>0 DEF HandingOff, IInv, OptInsAreHandedOff, TypeOK
  <2>4. NothingLeftBehind'  BY <2>0 DEF IInv, NothingLeftBehind
  <2>5. HandOffsAreDue'  BY <2>0 DEF Idle, IInv, HandOffsAreDue
  <2>6. HandOffsStay'  BY <2>0 DEF Idle, IInv, HandOffsStay
  <2>7. LinksAreConfirmed'  BY <1>2, <2>0 DEF SigningIn, IInv, LinksAreConfirmed
  <2>8. RevokedStays'  BY <2>0 DEF SigningIn, Idle, IInv, RevokedStays
  <2>9. RequestsHaveAccounts'  BY <2>0 DEF Idle, IInv, RequestsHaveAccounts
  <2>10. OptInsAreDue'  BY <2>0 DEF IInv, OptInsAreDue
  <2>11. DueExist'  BY <2>0 DEF IInv, DueExist
  <2>. QED  BY <2>1, <2>2, <2>3, <2>4, <2>5, <2>6, <2>7, <2>8, <2>9, <2>10, <2>11 DEF IInv
<1>. QED  BY <1>1, <1>2

\* Verify keeps the invariant.
LEMMA VerifyKeeps == ASSUME IInv, NEW r \in Requests, Verify(r) PROVE IInv'
<1>1. CASE account.id = request[r].id /\ account.optIn
  <2>0. /\ UNCHANGED <<created, links, cleanup, calls, recorded, choices, faults, failed,
                       crossed, overtaken>>
        /\ request' = [request EXCEPT ![r] = Idle] /\ due' = due \cup {account.id}
        /\ account'.id = account.id /\ account'.confirmed /\ account'.optIn
        /\ request[r].pc = "verify" /\ account.id \in 1..created /\ account.id \in Ids
        /\ account.id # NoAccount
    BY <1>1
       DEF Becomes, AccountRow, SigningIn, At, End, Exists, bounds, Verify, IInv, TypeOK,
           RevokedStays, RequestsHaveAccounts, OptInsAreDue
  <2>row. account' \in AccountRow
    <3>1. account \in AccountRow  BY DEF IInv, TypeOK
    <3>. QED  BY <3>1, ZenonT(20) DEF Becomes, AccountRow, Verify
  <2>sets. due' \subseteq Ids /\ failed' \subseteq Ids /\ overtaken' \subseteq Ids
    BY <2>0 DEF IInv, TypeOK
  <2>1. TypeOK'
    BY <2>0, <2>row, AccountAssumption DEF Idle, Nobody, NoAccount, Exists, IInv, TypeOK
  <2>2. OnlyConfirmedAreSent'  BY <2>0 DEF IInv, OnlyConfirmedAreSent
  <2>3. OptInsAreHandedOff'
    BY <1>1, <2>0 DEF HandingOff, SigningIn, IInv, OptInsAreHandedOff, TypeOK, RevokedStays
  <2>4. NothingLeftBehind'  BY <2>0 DEF IInv, NothingLeftBehind
  <2>5. HandOffsAreDue'  BY <2>0 DEF Idle, IInv, HandOffsAreDue
  <2>6. HandOffsStay'  BY <2>0 DEF Idle, IInv, HandOffsStay
  <2>7. LinksAreConfirmed'  BY <2>0 DEF LinksAreConfirmed
  <2>8. RevokedStays'  BY <2>0 DEF RevokedStays
  <2>9. RequestsHaveAccounts'  BY <2>0 DEF Idle, IInv, RequestsHaveAccounts
  <2>10. OptInsAreDue'  BY <2>0 DEF OptInsAreDue
  <2>11. DueExist'  BY <2>0 DEF Ids, IInv, DueExist
  <2>. QED  BY <2>1, <2>2, <2>3, <2>4, <2>5, <2>6, <2>7, <2>8, <2>9, <2>10, <2>11 DEF IInv
<1>2. CASE account.id = request[r].id /\ ~account.optIn
  <2>0. /\ UNCHANGED <<created, links, cleanup, calls, recorded, choices, faults, due, failed,
                       crossed, overtaken>>
        /\ request' = [request EXCEPT ![r] = Idle] /\ request[r].pc = "verify"
        /\ account'.id = account.id /\ account'.confirmed /\ ~account'.optIn
        /\ account.id \in 1..created /\ account.id # NoAccount
    BY <1>2
       DEF Becomes, AccountRow, HandingOff, SigningIn, At, Go, End, Exists, Nobody, Idle,
           NoAccount, bounds, Verify, IInv, TypeOK, RequestsHaveAccounts
  <2>row. account' \in AccountRow
    <3>1. account \in AccountRow  BY DEF IInv, TypeOK
    <3>. QED  BY <3>1, ZenonT(20) DEF Becomes, AccountRow, Verify
  <2>1. TypeOK'
    BY <2>0, <2>row, AccountAssumption DEF Idle, Nobody, NoAccount, Exists, IInv, TypeOK
  <2>2. OnlyConfirmedAreSent'  BY <2>0 DEF IInv, OnlyConfirmedAreSent
  <2>3. OptInsAreHandedOff'  BY <2>0 DEF OptInsAreHandedOff
  <2>4. NothingLeftBehind'  BY <2>0 DEF IInv, NothingLeftBehind
  <2>5. HandOffsAreDue'  BY <2>0 DEF Idle, IInv, HandOffsAreDue
  <2>6. HandOffsStay'  BY <2>0 DEF Idle, IInv, HandOffsStay
  <2>7. LinksAreConfirmed'  BY <2>0 DEF LinksAreConfirmed
  <2>8. RevokedStays'  BY <2>0 DEF RevokedStays
  <2>9. RequestsHaveAccounts'  BY <2>0 DEF Idle, IInv, RequestsHaveAccounts
  <2>10. OptInsAreDue'  BY <2>0 DEF OptInsAreDue
  <2>11. DueExist'  BY <2>0 DEF IInv, DueExist
  <2>. QED  BY <2>1, <2>2, <2>3, <2>4, <2>5, <2>6, <2>7, <2>8, <2>9, <2>10, <2>11 DEF IInv
<1>3. CASE account.id # request[r].id
  <2>0. /\ UNCHANGED <<account, created, links, cleanup, calls, recorded, choices, faults,
                       due, failed, crossed, overtaken>>
        /\ request' = [request EXCEPT ![r] = Idle]
    BY <1>3 DEF End, bounds, Verify
  <2>1. TypeOK'  BY <2>0, AccountAssumption DEF Idle, NoAccount, Exists, IInv, TypeOK
  <2>2. OnlyConfirmedAreSent'  BY <2>0 DEF IInv, OnlyConfirmedAreSent
  <2>3. OptInsAreHandedOff'  BY <1>3, <2>0 DEF HandingOff, IInv, OptInsAreHandedOff, TypeOK
  <2>4. NothingLeftBehind'  BY <2>0 DEF IInv, NothingLeftBehind
  <2>5. HandOffsAreDue'  BY <2>0 DEF Idle, IInv, HandOffsAreDue
  <2>6. HandOffsStay'  BY <2>0 DEF Idle, IInv, HandOffsStay
  <2>7. LinksAreConfirmed'  BY <1>3, <2>0 DEF SigningIn, IInv, LinksAreConfirmed
  <2>8. RevokedStays'  BY <2>0 DEF SigningIn, Idle, IInv, RevokedStays
  <2>9. RequestsHaveAccounts'  BY <2>0 DEF Idle, IInv, RequestsHaveAccounts
  <2>10. OptInsAreDue'  BY <2>0 DEF IInv, OptInsAreDue
  <2>11. DueExist'  BY <2>0 DEF IInv, DueExist
  <2>. QED  BY <2>1, <2>2, <2>3, <2>4, <2>5, <2>6, <2>7, <2>8, <2>9, <2>10, <2>11 DEF IInv
<1>. QED  BY <1>1, <1>2, <1>3

\* RequestFails keeps the invariant.
LEMMA RequestFailsKeeps == ASSUME IInv, NEW r \in Requests, RequestFails(r) PROVE IInv'
<1>1. CASE request[r].id = NoAccount
  <2>0. /\ UNCHANGED <<created, links, cleanup, calls, recorded, choices, due, failed,
                       crossed, overtaken, account>>
        /\ request' = [request EXCEPT ![r] = Idle] /\ faults' \in 0..MaxFaults
    BY <1>1, AccountAssumption DEF Fault, End, RequestFails, IInv, TypeOK
  <2>1. TypeOK'  BY <1>1, <2>0 DEF Idle, NoAccount, Exists, IInv, TypeOK
  <2>2. OnlyConfirmedAreSent'  BY <2>0 DEF IInv, OnlyConfirmedAreSent
  <2>3. OptInsAreHandedOff'  BY <1>1, <2>0 DEF HandingOff, Exists, IInv, OptInsAreHandedOff
  <2>4. NothingLeftBehind'  BY <2>0 DEF IInv, NothingLeftBehind
  <2>5. HandOffsAreDue'  BY <2>0 DEF Idle, IInv, HandOffsAreDue
  <2>6. HandOffsStay'  BY <2>0 DEF Idle, IInv, HandOffsStay
  <2>7. LinksAreConfirmed'  BY <1>1, <2>0 DEF SigningIn, Exists, IInv, LinksAreConfirmed, TypeOK
  <2>8. RevokedStays'  BY <2>0 DEF SigningIn, Idle, IInv, RevokedStays
  <2>9. RequestsHaveAccounts'  BY <2>0 DEF Idle, IInv, RequestsHaveAccounts
  <2>10. OptInsAreDue'  BY <2>0 DEF IInv, OptInsAreDue
  <2>11. DueExist'  BY <2>0 DEF IInv, DueExist
  <2>. QED  BY <2>1, <2>2, <2>3, <2>4, <2>5, <2>6, <2>7, <2>8, <2>9, <2>10, <2>11 DEF IInv
<1>2. CASE request[r].id # NoAccount
  <2>0. /\ UNCHANGED <<created, links, cleanup, calls, recorded, choices, due, crossed,
                       overtaken, account>>
        /\ request' = [request EXCEPT ![r] = Idle] /\ faults' \in 0..MaxFaults
        /\ failed' = failed \cup {request[r].id} /\ request[r].id \in Ids
    BY <1>2, AccountAssumption DEF Fault, End, NoAccount, Ids, RequestFails, IInv, TypeOK
  <2>sets. due' \subseteq Ids /\ failed' \subseteq Ids /\ overtaken' \subseteq Ids
    BY <2>0 DEF IInv, TypeOK
  <2>1. TypeOK'  BY <2>0, AccountAssumption DEF Idle, Nobody, NoAccount, Exists, IInv, TypeOK
  <2>2. OnlyConfirmedAreSent'  BY <2>0 DEF IInv, OnlyConfirmedAreSent
  <2>3. OptInsAreHandedOff'  BY <2>0 DEF HandingOff, IInv, OptInsAreHandedOff, TypeOK
  <2>4. NothingLeftBehind'  BY <2>0 DEF IInv, NothingLeftBehind
  <2>5. HandOffsAreDue'  BY <2>0 DEF Idle, IInv, HandOffsAreDue
  <2>6. HandOffsStay'  BY <2>0 DEF Idle, IInv, HandOffsStay
  <2>7. LinksAreConfirmed'  BY <2>0 DEF SigningIn, IInv, LinksAreConfirmed
  <2>8. RevokedStays'  BY <2>0 DEF SigningIn, Idle, IInv, RevokedStays
  <2>9. RequestsHaveAccounts'  BY <2>0 DEF Idle, IInv, RequestsHaveAccounts
  <2>10. OptInsAreDue'  BY <2>0 DEF IInv, OptInsAreDue
  <2>11. DueExist'  BY <2>0 DEF IInv, DueExist
  <2>. QED  BY <2>1, <2>2, <2>3, <2>4, <2>5, <2>6, <2>7, <2>8, <2>9, <2>10, <2>11 DEF IInv
<1>. QED  BY <1>1, <1>2

\* Click keeps the invariant.
LEMMA ClickKeeps == ASSUME IInv, NEW r \in Requests, NEW l \in Links, Click(r, l) PROVE IInv'
  BY DEF HandingOff, SigningIn, At, Go, Exists, bounds, histories, Click, IInv, TypeOK,
         OnlyConfirmedAreSent, OptInsAreHandedOff, NothingLeftBehind, HandOffsAreDue,
         HandOffsStay, LinksAreConfirmed, RevokedStays, RequestsHaveAccounts,
         OptInsAreDue, DueExist

\* Expire keeps the invariant.
LEMMA ExpireKeeps == ASSUME IInv, NEW l \in Links, Expire(l) PROVE IInv'
  BY DEF HandingOff, SigningIn, Exists, bounds, histories, Expire, IInv, TypeOK,
         OnlyConfirmedAreSent, OptInsAreHandedOff, NothingLeftBehind, HandOffsAreDue,
         HandOffsStay, LinksAreConfirmed, RevokedStays, RequestsHaveAccounts,
         OptInsAreDue, DueExist

\* DeleteAccount keeps the invariant.
LEMMA DeleteAccountKeeps == ASSUME IInv, DeleteAccount PROVE IInv'
<1>1. CASE HandingOff(account.id)
  <2>0. /\ UNCHANGED <<created, links, request, cleanup, calls, choices, faults, due, failed,
                       crossed>>
        /\ account' = Nobody /\ recorded' = {} /\ overtaken' = overtaken \cup {account.id}
        /\ account.id \in Ids
    BY <1>1 DEF Remove, HandingOff, bounds, DeleteAccount, IInv, TypeOK, HandOffsAreDue
  <2>row. account' \in AccountRow  BY <2>0, AccountAssumption DEF AccountRow, Nobody, NoAccount
  <2>sets. due' \subseteq Ids /\ failed' \subseteq Ids /\ overtaken' \subseteq Ids
    BY <2>0 DEF IInv, TypeOK
  <2>none. /\ account'.id = NoAccount
           /\ ~(account'.confirmed \/ account'.optIn \/ account'.old \/ account'.linked)
    BY <2>0 DEF Nobody
  <2>1. TypeOK'  BY <2>0, <2>row, <2>none DEF IInv, TypeOK
  <2>2. OnlyConfirmedAreSent'  BY <2>0 DEF IInv, OnlyConfirmedAreSent
  <2>3. OptInsAreHandedOff'  BY <2>none DEF OptInsAreHandedOff
  <2>4. NothingLeftBehind'  BY <2>0 DEF NothingLeftBehind
  <2>5. HandOffsAreDue'  BY <2>0 DEF IInv, HandOffsAreDue
  <2>6. HandOffsStay'  BY <2>0 DEF IInv, HandOffsStay
  <2>7. LinksAreConfirmed'  BY <2>none DEF LinksAreConfirmed
  <2>8. RevokedStays'  BY <2>none DEF RevokedStays
  <2>9. RequestsHaveAccounts'  BY <2>0 DEF IInv, RequestsHaveAccounts
  <2>10. OptInsAreDue'  BY <2>none DEF OptInsAreDue
  <2>11. DueExist'  BY <2>0 DEF IInv, DueExist
  <2>. QED  BY <2>1, <2>2, <2>3, <2>4, <2>5, <2>6, <2>7, <2>8, <2>9, <2>10, <2>11 DEF IInv
<1>2. CASE ~HandingOff(account.id)
  <2>0. /\ UNCHANGED <<created, links, request, cleanup, calls, choices, faults, due, failed,
                       crossed, overtaken>>
        /\ account' = Nobody /\ recorded' = {}
    BY <1>2 DEF Remove, bounds, DeleteAccount
  <2>row. account' \in AccountRow  BY <2>0, AccountAssumption DEF AccountRow, Nobody, NoAccount
  <2>none. /\ account'.id = NoAccount
           /\ ~(account'.confirmed \/ account'.optIn \/ account'.old \/ account'.linked)
    BY <2>0 DEF Nobody
  <2>1. TypeOK'  BY <2>0, <2>row, <2>none DEF IInv, TypeOK
  <2>2. OnlyConfirmedAreSent'  BY <2>0 DEF IInv, OnlyConfirmedAreSent
  <2>3. OptInsAreHandedOff'  BY <2>none DEF OptInsAreHandedOff
  <2>4. NothingLeftBehind'  BY <2>0 DEF NothingLeftBehind
  <2>5. HandOffsAreDue'  BY <2>0 DEF IInv, HandOffsAreDue
  <2>6. HandOffsStay'  BY <1>2, <2>0 DEF HandingOff, IInv, HandOffsStay
  <2>7. LinksAreConfirmed'  BY <2>none DEF LinksAreConfirmed
  <2>8. RevokedStays'  BY <2>none DEF RevokedStays
  <2>9. RequestsHaveAccounts'  BY <2>0 DEF IInv, RequestsHaveAccounts
  <2>10. OptInsAreDue'  BY <2>none DEF OptInsAreDue
  <2>11. DueExist'  BY <2>0 DEF IInv, DueExist
  <2>. QED  BY <2>1, <2>2, <2>3, <2>4, <2>5, <2>6, <2>7, <2>8, <2>9, <2>10, <2>11 DEF IInv
<1>. QED  BY <1>1, <1>2

\* GrowOld keeps the invariant.
LEMMA GrowOldKeeps == ASSUME IInv, GrowOld PROVE IInv'
<1>0. account' \in AccountRow
  <2>1. account \in AccountRow  BY DEF IInv, TypeOK
  <2>. QED  BY <2>1 DEF AccountRow, Nobody, GrowOld
<1>1. TypeOK'  BY <1>0 DEF Exists, bounds, histories, GrowOld, IInv, TypeOK
<1>2. OnlyConfirmedAreSent'  BY DEF histories, GrowOld, IInv, OnlyConfirmedAreSent
<1>3. OptInsAreHandedOff'  BY DEF HandingOff, histories, GrowOld, IInv, OptInsAreHandedOff
<1>4. NothingLeftBehind'  BY DEF histories, GrowOld, IInv, NothingLeftBehind
<1>5. HandOffsAreDue'  BY DEF histories, GrowOld, IInv, HandOffsAreDue
<1>6. HandOffsStay'  BY DEF histories, GrowOld, IInv, HandOffsStay
<1>7. LinksAreConfirmed'  BY DEF SigningIn, histories, GrowOld, IInv, LinksAreConfirmed
<1>8. RevokedStays'  BY DEF SigningIn, histories, GrowOld, IInv, RevokedStays
<1>9. RequestsHaveAccounts'  BY DEF GrowOld, IInv, RequestsHaveAccounts
<1>10. OptInsAreDue'  BY DEF histories, GrowOld, IInv, OptInsAreDue
<1>11. DueExist'  BY DEF histories, GrowOld, IInv, DueExist
<1>. QED  BY <1>1, <1>2, <1>3, <1>4, <1>5, <1>6, <1>7, <1>8, <1>9, <1>10, <1>11 DEF IInv

\* StartCleanup keeps the invariant.
LEMMA StartCleanupKeeps == ASSUME IInv, StartCleanup PROVE IInv'
  BY DEF HandingOff, SigningIn, Exists, bounds, histories, StartCleanup, IInv, TypeOK,
         OnlyConfirmedAreSent, OptInsAreHandedOff, NothingLeftBehind, HandOffsAreDue,
         HandOffsStay, LinksAreConfirmed, RevokedStays, RequestsHaveAccounts,
         OptInsAreDue, DueExist

\* RemoveStale keeps the invariant.
LEMMA RemoveStaleKeeps == ASSUME IInv, RemoveStale PROVE IInv'
<1>1. CASE ~StillStale
  <2>0. /\ UNCHANGED <<created, links, request, calls, recorded, choices, faults, due, failed,
                       crossed, overtaken, account>>
        /\ cleanup' = NoAccount
    BY <1>1 DEF bounds, RemoveStale
  <2>1. TypeOK'  BY <2>0, AccountAssumption DEF NoAccount, Exists, IInv, TypeOK
  <2>2. OnlyConfirmedAreSent'  BY <2>0 DEF IInv, OnlyConfirmedAreSent
  <2>3. OptInsAreHandedOff'  BY <2>0 DEF HandingOff, IInv, OptInsAreHandedOff, TypeOK
  <2>4. NothingLeftBehind'  BY <2>0 DEF IInv, NothingLeftBehind
  <2>5. HandOffsAreDue'  BY <2>0 DEF IInv, HandOffsAreDue
  <2>6. HandOffsStay'  BY <2>0 DEF IInv, HandOffsStay
  <2>7. LinksAreConfirmed'  BY <2>0 DEF SigningIn, IInv, LinksAreConfirmed
  <2>8. RevokedStays'  BY <2>0 DEF SigningIn, IInv, RevokedStays
  <2>9. RequestsHaveAccounts'  BY <2>0 DEF IInv, RequestsHaveAccounts
  <2>10. OptInsAreDue'  BY <2>0 DEF IInv, OptInsAreDue
  <2>11. DueExist'  BY <2>0 DEF IInv, DueExist
  <2>. QED  BY <2>1, <2>2, <2>3, <2>4, <2>5, <2>6, <2>7, <2>8, <2>9, <2>10, <2>11 DEF IInv
<1>2. CASE StillStale /\ HandingOff(account.id)
  <2>0. /\ UNCHANGED <<created, links, request, calls, choices, faults, due, failed, crossed>>
        /\ account' = Nobody /\ recorded' = {} /\ overtaken' = overtaken \cup {account.id}
        /\ account.id \in Ids /\ cleanup' = NoAccount
    BY <1>2 DEF Remove, StillStale, NoAccount, Ids, bounds, RemoveStale, IInv, TypeOK
  <2>row. account' \in AccountRow  BY <2>0, AccountAssumption DEF AccountRow, Nobody, NoAccount
  <2>sets. due' \subseteq Ids /\ failed' \subseteq Ids /\ overtaken' \subseteq Ids
    BY <2>0 DEF IInv, TypeOK
  <2>none. /\ account'.id = NoAccount
           /\ ~(account'.confirmed \/ account'.optIn \/ account'.old \/ account'.linked)
    BY <2>0 DEF Nobody
  <2>1. TypeOK'  BY <2>0, <2>row, <2>none, AccountAssumption DEF Idle, NoAccount, IInv, TypeOK
  <2>2. OnlyConfirmedAreSent'  BY <2>0 DEF IInv, OnlyConfirmedAreSent
  <2>3. OptInsAreHandedOff'  BY <2>none DEF OptInsAreHandedOff
  <2>4. NothingLeftBehind'  BY <2>0 DEF NothingLeftBehind
  <2>5. HandOffsAreDue'  BY <2>0 DEF IInv, HandOffsAreDue
  <2>6. HandOffsStay'  BY <2>0 DEF IInv, HandOffsStay
  <2>7. LinksAreConfirmed'  BY <2>none DEF LinksAreConfirmed
  <2>8. RevokedStays'  BY <2>none DEF RevokedStays
  <2>9. RequestsHaveAccounts'  BY <2>0 DEF IInv, RequestsHaveAccounts
  <2>10. OptInsAreDue'  BY <2>none DEF OptInsAreDue
  <2>11. DueExist'  BY <2>0 DEF IInv, DueExist
  <2>. QED  BY <2>1, <2>2, <2>3, <2>4, <2>5, <2>6, <2>7, <2>8, <2>9, <2>10, <2>11 DEF IInv
<1>3. CASE StillStale /\ ~HandingOff(account.id)
  <2>0. /\ UNCHANGED <<created, links, request, calls, choices, faults, due, failed, crossed,
                       overtaken>>
        /\ account' = Nobody /\ recorded' = {} /\ cleanup' = NoAccount
    BY <1>3 DEF Remove, bounds, RemoveStale
  <2>row. account' \in AccountRow  BY <2>0, AccountAssumption DEF AccountRow, Nobody, NoAccount
  <2>none. /\ account'.id = NoAccount
           /\ ~(account'.confirmed \/ account'.optIn \/ account'.old \/ account'.linked)
    BY <2>0 DEF Nobody
  <2>1. TypeOK'  BY <2>0, <2>row, <2>none, AccountAssumption DEF Idle, NoAccount, IInv, TypeOK
  <2>2. OnlyConfirmedAreSent'  BY <2>0 DEF IInv, OnlyConfirmedAreSent
  <2>3. OptInsAreHandedOff'  BY <2>none DEF OptInsAreHandedOff
  <2>4. NothingLeftBehind'  BY <2>0 DEF NothingLeftBehind
  <2>5. HandOffsAreDue'  BY <2>0 DEF IInv, HandOffsAreDue
  <2>6. HandOffsStay'  BY <1>3, <2>0 DEF HandingOff, IInv, HandOffsStay
  <2>7. LinksAreConfirmed'  BY <2>none DEF LinksAreConfirmed
  <2>8. RevokedStays'  BY <2>none DEF RevokedStays
  <2>9. RequestsHaveAccounts'  BY <2>0 DEF IInv, RequestsHaveAccounts
  <2>10. OptInsAreDue'  BY <2>none DEF OptInsAreDue
  <2>11. DueExist'  BY <2>0 DEF IInv, DueExist
  <2>. QED  BY <2>1, <2>2, <2>3, <2>4, <2>5, <2>6, <2>7, <2>8, <2>9, <2>10, <2>11 DEF IInv
<1>. QED  BY <1>1, <1>2, <1>3

\* RemovalFails keeps the invariant.
LEMMA RemovalFailsKeeps == ASSUME IInv, RemovalFails PROVE IInv'
  BY AccountAssumption
     DEF Fault, AccountRow, HandingOff, SigningIn, At, Go, End, Exists, Nobody, Idle,
         NoAccount, histories, RemovalFails, IInv, TypeOK, OnlyConfirmedAreSent,
         OptInsAreHandedOff, NothingLeftBehind, HandOffsAreDue, HandOffsStay,
         LinksAreConfirmed, RevokedStays, RequestsHaveAccounts, OptInsAreDue, DueExist

-----------------------------------------------------------------------------
(* The theorems.                                                           *)

\* The invariant holds at the start.
LEMMA InitHolds == Init => IInv
  BY AccountAssumption
     DEF Init, AccountRow, Nobody, Idle, NoAccount, IInv, TypeOK, OnlyConfirmedAreSent,
         OptInsAreHandedOff, NothingLeftBehind, HandOffsAreDue, HandOffsStay,
         LinksAreConfirmed, RevokedStays, RequestsHaveAccounts, OptInsAreDue, DueExist

\* Every step keeps it.
LEMMA NextKeeps == IInv /\ [Next]_vars => IInv'
<1> SUFFICES ASSUME IInv, [Next]_vars PROVE IInv'  OBVIOUS
<1>1. CASE UNCHANGED vars
  BY <1>1 DEF vars, bounds, histories, IInv, TypeOK, AccountRow, OnlyConfirmedAreSent,
              OptInsAreHandedOff, NothingLeftBehind, HandOffsAreDue, HandOffsStay,
              LinksAreConfirmed, RevokedStays, RequestsHaveAccounts, OptInsAreDue, DueExist,
              Exists, HandingOff, SigningIn
<1>2. CASE \E r \in Requests : SignUp(r)  BY <1>2, SignUpKeeps
<1>3. CASE \E r \in Requests : Resend(r)  BY <1>3, ResendKeeps
<1>4. CASE \E r \in Requests : SendLink(r)  BY <1>4, SendLinkKeeps
<1>5. CASE \E r \in Requests : \E l \in Links : Click(r, l)  BY <1>5, ClickKeeps
<1>6. CASE \E l \in Links : Expire(l)  BY <1>6, ExpireKeeps
<1>7. CASE \E r \in Requests : Confirm(r)  BY <1>7, ConfirmKeeps
<1>8. CASE \E r \in Requests : ClickedAgain(r)  BY <1>8, ClickedAgainKeeps
<1>9. CASE \E r \in Requests : CompleteSignup(r)  BY <1>9, CompleteSignupKeeps
<1>10. CASE \E r \in Requests : Subscribe(r)  BY <1>10, SubscribeKeeps
<1>11. CASE \E r \in Requests : Record(r)  BY <1>11, RecordKeeps
<1>12. CASE \E r \in Requests : Clear(r)  BY <1>12, ClearKeeps
<1>13. CASE \E r \in Requests : SignIn(r)  BY <1>13, SignInKeeps
<1>14. CASE \E r \in Requests : Create(r)  BY <1>14, CreateKeeps
<1>15. CASE \E r \in Requests : Revoke(r)  BY <1>15, RevokeKeeps
<1>16. CASE \E r \in Requests : VoidLinks(r)  BY <1>16, VoidLinksKeeps
<1>17. CASE \E r \in Requests : Link(r)  BY <1>17, LinkKeeps
<1>18. CASE \E r \in Requests : Verify(r)  BY <1>18, VerifyKeeps
<1>19. CASE DeleteAccount  BY <1>19, DeleteAccountKeeps
<1>20. CASE GrowOld  BY <1>20, GrowOldKeeps
<1>21. CASE StartCleanup  BY <1>21, StartCleanupKeeps
<1>22. CASE RemoveStale  BY <1>22, RemoveStaleKeeps
<1>23. CASE RemovalFails  BY <1>23, RemovalFailsKeeps
<1>24. CASE \E r \in Requests : RequestFails(r)  BY <1>24, RequestFailsKeeps
<1>. QED  BY <1>1, <1>2, <1>3, <1>4, <1>5, <1>6, <1>7, <1>8, <1>9, <1>10, <1>11, <1>12, <1>13,
     <1>14, <1>15, <1>16, <1>17, <1>18, <1>19, <1>20, <1>21, <1>22, <1>23, <1>24 DEF Next

\* The inductive invariant.
THEOREM Invariance == Spec => []IInv
  BY InitHolds, NextKeeps, PTL DEF Spec

\* The variables have their types, whatever requests, links and accounts there are.
THEOREM TypeCorrect == Spec => []TypeOK
<1>1. IInv => TypeOK  BY DEF IInv
<1>. QED  BY <1>1, Invariance, PTL

\* Buttondown hears only of addresses whose account was confirmed while opted in
\* (releaseNewsletterOptIn and its callers).
THEOREM ConsentComesFirst == Spec => []OnlyConfirmedAreSent
<1>1. IInv => OnlyConfirmedAreSent  BY DEF IInv
<1>. QED  BY <1>1, Invariance, PTL

\* An opt-in of a confirmed account waits only when a request of the account failed, or
\* when it was made while a sign-in was confirming the account (POST /email/verify,
\* POST /complete-signup, findOrCreateUser).
THEOREM OptInsReachTheHandOff == Spec => []OptInsAreHandedOff
<1>1. IInv => OptInsAreHandedOff  BY DEF IInv
<1>. QED  BY <1>1, Invariance, PTL

\* A deletion leaves a row in newsletter_subscriptions only when a hand-off was under
\* way (deleteUserAccount, releaseNewsletterOptIn).
THEOREM DeletionIsComplete == Spec => []NothingLeftBehind
<1>1. IInv => NothingLeftBehind  BY DEF IInv
<1>. QED  BY <1>1, Invariance, PTL

\* The cleanup removes no confirmed account (deleteStaleUnconfirmedAccounts).
THEOREM CleanupSparesConfirmed == Spec => ConfirmedIsKept
<1>1. [Next]_vars => [(cleanup # NoAccount /\ cleanup' = NoAccount /\ Exists /\ account' = Nobody)
                      => ~account.confirmed]_vars
  <2>. SUFFICES ASSUME Next, cleanup # NoAccount, cleanup' = NoAccount, Exists, account' = Nobody
                PROVE ~account.confirmed
    OBVIOUS
  <2>1. RemoveStale \/ RemovalFails
    BY DEF Next, SignUp, Resend, SendLink, Click, Expire, Confirm, ClickedAgain, CompleteSignup,
           Subscribe, Record, Clear, SignIn, Create, Revoke, VoidLinks, Link, Verify, RequestFails,
           DeleteAccount, GrowOld, StartCleanup, Exists
  <2>2. CASE RemovalFails  BY <2>2 DEF RemovalFails, Exists, Nobody
  <2>3. CASE RemoveStale  BY <2>3 DEF RemoveStale, StillStale, Stale, Exists, Nobody
  <2>. QED  BY <2>1, <2>2, <2>3
<1>. QED  BY <1>1, PTL DEF Spec, ConfirmedIsKept
-----------------------------------------------------------------------------
(* How often Buttondown hears of an account.                               *)

Calling(r, i) == request[r].pc = "subscribe" /\ request[r].id = i
Called(r, i) == request[r].pc \in {"record", "clear"} /\ request[r].id = i
Offers(i) == account.id = i /\ account.optIn

\* While the opt-in is there a request that has not called yet may do it; once it is
\* cleared, only those that have read it.
MayCall(i) == {r \in Requests : IF Offers(i) THEN ~Called(r, i) ELSE Calling(r, i)}

Allowed == Cardinality(Requests) * (choices + 1) + faults

\* Each call to come has its place below the bound already.
CallsCovered(i) == calls[i] + Cardinality(MayCall(i)) <= Allowed
CInv == IInv /\ \A i \in Ids : CallsCovered(i)

LEMMA RequestCounts ==
    ASSUME NEW S \in SUBSET Requests, NEW T \in SUBSET Requests
    PROVE  /\ Cardinality(S) \in Nat /\ Cardinality(T) \in Nat
           /\ Cardinality(S) <= Cardinality(Requests) /\ Cardinality(T) <= Cardinality(Requests)
           /\ T \subseteq S => Cardinality(T) <= Cardinality(S)
           /\ \A r \in Requests : T \subseteq S \cup {r} => Cardinality(T) <= Cardinality(S) + 1
           /\ \A r \in S : T \subseteq S \ {r} => Cardinality(T) <= Cardinality(S) - 1
<1>1. IsFiniteSet(Requests) /\ IsFiniteSet(S) /\ IsFiniteSet(T)
  BY FS_Subset, AccountAssumption
<1>2. Cardinality(S) \in Nat /\ Cardinality(T) \in Nat  BY <1>1, FS_CardinalityType
<1>3. Cardinality(S) <= Cardinality(Requests) /\ Cardinality(T) <= Cardinality(Requests)
  BY <1>1, FS_Subset
<1>4. T \subseteq S => Cardinality(T) <= Cardinality(S)  BY <1>1, FS_Subset
<1>5. ASSUME NEW r \in Requests, T \subseteq S \cup {r}
      PROVE  Cardinality(T) <= Cardinality(S) + 1
  <2>1. /\ IsFiniteSet(S \cup {r})
        /\ Cardinality(S \cup {r}) = IF r \in S THEN Cardinality(S) ELSE Cardinality(S) + 1
    BY <1>1, FS_AddElement
  <2>2. Cardinality(T) <= Cardinality(S \cup {r})  BY <1>5, <2>1, FS_Subset
  <2>. QED  BY <1>1, <1>2, <2>1, <2>2, FS_CardinalityType
<1>6. ASSUME NEW r \in S, T \subseteq S \ {r}
      PROVE  Cardinality(T) <= Cardinality(S) - 1
  <2>1. IsFiniteSet(S \ {r}) /\ Cardinality(S \ {r}) = Cardinality(S) - 1
    BY <1>1, FS_RemoveElement
  <2>2. Cardinality(T) <= Cardinality(S \ {r})  BY <1>6, <2>1, FS_Subset
  <2>. QED  BY <1>1, <1>2, <2>1, <2>2, FS_CardinalityType
<1>. QED  BY <1>2, <1>3, <1>4, <1>5, <1>6

\* The bound grows by all the requests with a choice, and by one with a fault.
LEMMA AllowedGrows ==
    ASSUME TypeOK
    PROVE  /\ Allowed \in Nat /\ Cardinality(Requests) <= Allowed
           /\ choices' = choices + 1 /\ faults' = faults => Allowed' = Allowed + Cardinality(Requests)
           /\ choices' = choices /\ faults' = faults + 1 => Allowed' = Allowed + 1
           /\ choices' = choices /\ faults' = faults => Allowed' = Allowed
<1>. DEFINE N == Cardinality(Requests)
<1>1. N \in Nat  BY FS_CardinalityType, AccountAssumption
<1>2. choices \in Nat /\ faults \in Nat  BY AccountAssumption DEF TypeOK
<1>. HIDE DEF N
<1>3. ASSUME NEW c \in Nat PROVE N * (c + 1) \in Nat /\ N * (c + 1) = N * c + N /\ N * c \in Nat
  BY <1>1
<1>4. /\ N * (choices + 1) \in Nat /\ N * (choices + 1) = N * choices + N /\ N * choices \in Nat
      /\ N * ((choices + 1) + 1) = N * (choices + 1) + N
  BY <1>2, <1>3
<1>5. Allowed = N * (choices + 1) + faults /\ Allowed' = N * (choices' + 1) + faults'
  BY DEF Allowed, N
<1>6. Allowed \in Nat /\ N <= Allowed  BY <1>1, <1>2, <1>4, <1>5
<1>7. ASSUME choices' = choices + 1, faults' = faults PROVE Allowed' = Allowed + N
  BY <1>1, <1>2, <1>4, <1>5, <1>7
<1>8. ASSUME choices' = choices, faults' = faults + 1 PROVE Allowed' = Allowed + 1
  BY <1>1, <1>2, <1>4, <1>5, <1>8
<1>9. ASSUME choices' = choices, faults' = faults PROVE Allowed' = Allowed
  BY <1>5, <1>9
<1>. QED  BY <1>6, <1>7, <1>8, <1>9 DEF N

\* What a step may do of an account: it lets nobody else call, it is a call, the account
\* is new, the newsletter is chosen, or one request starts over for a fault.
LEMMA CallsKept ==
    ASSUME CInv, NEW i \in Ids,
           \/ /\ UNCHANGED <<choices, faults>>
              /\ \/ calls'[i] = calls[i] /\ MayCall(i)' \subseteq MayCall(i)
                 \/ /\ calls'[i] = calls[i] + 1
                    /\ \E r \in MayCall(i) : MayCall(i)' \subseteq MayCall(i) \ {r}
                 \/ calls'[i] = 0
           \/ choices' = choices + 1 /\ faults' = faults /\ calls'[i] = calls[i]
           \/ /\ choices' = choices /\ faults' = faults + 1 /\ calls'[i] = calls[i]
              /\ \/ MayCall(i)' \subseteq MayCall(i)
                 \/ \E r \in Requests : MayCall(i)' \subseteq MayCall(i) \cup {r}
    PROVE  CallsCovered(i)'
<1>. DEFINE S == MayCall(i)
            T == MayCall(i)'
<1>1. S \in SUBSET Requests /\ T \in SUBSET Requests  BY DEF MayCall
<1>2. calls[i] + Cardinality(S) <= Allowed  BY DEF CInv, CallsCovered
<1>3. calls[i] \in Nat  BY DEF CInv, IInv, TypeOK
<1>4. TypeOK  BY DEF CInv, IInv
<1>5. Cardinality(Requests) \in Nat  BY FS_CardinalityType, AccountAssumption
<1>. SUFFICES calls'[i] + Cardinality(T) <= Allowed'  BY DEF CallsCovered
<1>. HIDE DEF S, T
<1>6. /\ Cardinality(S) \in Nat /\ Cardinality(T) \in Nat /\ Cardinality(T) <= Cardinality(Requests)
      /\ T \subseteq S => Cardinality(T) <= Cardinality(S)
      /\ \A r \in Requests : T \subseteq S \cup {r} => Cardinality(T) <= Cardinality(S) + 1
      /\ \A r \in S : T \subseteq S \ {r} => Cardinality(T) <= Cardinality(S) - 1
  BY <1>1, RequestCounts
<1>7. CASE UNCHANGED <<choices, faults>> /\ calls'[i] = calls[i] /\ T \subseteq S
  BY <1>2, <1>3, <1>4, <1>6, <1>7, AllowedGrows
<1>8. CASE /\ UNCHANGED <<choices, faults>> /\ calls'[i] = calls[i] + 1
           /\ \E r \in S : T \subseteq S \ {r}
  BY <1>2, <1>3, <1>4, <1>6, <1>8, AllowedGrows
<1>9. CASE UNCHANGED <<choices, faults>> /\ calls'[i] = 0
  BY <1>4, <1>5, <1>6, <1>9, AllowedGrows
<1>10. CASE choices' = choices + 1 /\ faults' = faults /\ calls'[i] = calls[i]
  BY <1>2, <1>3, <1>4, <1>5, <1>6, <1>10, AllowedGrows
<1>11. CASE /\ choices' = choices /\ faults' = faults + 1 /\ calls'[i] = calls[i]
            /\ T \subseteq S \/ \E r \in Requests : T \subseteq S \cup {r}
  BY <1>2, <1>3, <1>4, <1>6, <1>11, AllowedGrows
<1>. QED  BY <1>7, <1>8, <1>9, <1>10, <1>11 DEF S, T

\* Nobody else may call when the account is not offered anew, no call is forgotten while
\* it is offered, and nobody starts one when it is not.
LEMMA NobodyElse ==
    ASSUME NEW i \in Ids, Offers(i)' => Offers(i),
           \A r \in Requests :
             /\ Offers(i)' /\ Called(r, i) => Called(r, i)'
             /\ ~Offers(i)' /\ Calling(r, i)' => Calling(r, i)
    PROVE  MayCall(i)' \subseteq MayCall(i)
<1>. SUFFICES ASSUME NEW r \in Requests, r \in MayCall(i)' PROVE r \in MayCall(i)
  BY DEF MayCall
<1>1. CASE Offers(i)'  BY <1>1 DEF MayCall
<1>2. CASE ~Offers(i)'
  <2>1. Calling(r, i)  BY <1>2 DEF MayCall
  <2>2. ~Called(r, i)  BY <2>1 DEF Calling, Called
  <2>. QED  BY <2>1, <2>2 DEF MayCall
<1>. QED  BY <1>1, <1>2

\* A step of one request that was not handing off, and starts it only of what is offered.
LEMMA OtherStep ==
    ASSUME CInv, UNCHANGED <<calls, choices, faults>>, NEW r \in Requests,
           \A s \in Requests \ {r} : request'[s] = request[s],
           request[r].pc \notin {"record", "clear"},
           request'[r].pc = "subscribe" => account'.id = request'[r].id /\ account'.optIn,
           NEW i \in Ids, calls[i] = 0 \/ (Offers(i)' => Offers(i))
    PROVE  CallsCovered(i)'
<1>1. CASE calls[i] = 0  BY <1>1, CallsKept
<1>2. CASE Offers(i)' => Offers(i)
  <2>1. \A s \in Requests : /\ Offers(i)' /\ Called(s, i) => Called(s, i)'
                            /\ ~Offers(i)' /\ Calling(s, i)' => Calling(s, i)
    BY DEF Offers, Called, Calling
  <2>2. MayCall(i)' \subseteq MayCall(i)  BY <1>2, <2>1, NobodyElse
  <2>. QED  BY <2>2, CallsKept
<1>. QED  BY <1>1, <1>2

\* A step that leaves the requests alone and offers nothing.
LEMMA StillStep ==
    ASSUME CInv, UNCHANGED <<calls, choices, request>>, faults' \in {faults, faults + 1},
           NEW i \in Ids, Offers(i)' => Offers(i)
    PROVE  CallsCovered(i)'
<1>1. \A s \in Requests : /\ Offers(i)' /\ Called(s, i) => Called(s, i)'
                          /\ ~Offers(i)' /\ Calling(s, i)' => Calling(s, i)
  BY DEF Called, Calling
<1>2. MayCall(i)' \subseteq MayCall(i)  BY <1>1, NobodyElse
<1>. QED  BY <1>2, CallsKept

\* A request that may yet call does so.
LEMMA SubscribeCounts ==
    ASSUME CInv, NEW r \in Requests, Subscribe(r), NEW i \in Ids PROVE CallsCovered(i)'
<1>1. /\ UNCHANGED <<account, choices, faults>>
      /\ calls' = [calls EXCEPT ![request[r].id] = @ + 1]
      /\ request' = [request EXCEPT ![r].pc = "record"] /\ request[r].pc = "subscribe"
  BY DEF Subscribe, At, Go, bounds
<1>2. calls \in [Ids -> Nat] /\ \A s \in Requests : request[s] = [pc |-> request[s].pc, id |-> request[s].id]
  BY DEF CInv, IInv, TypeOK
<1>3. /\ request'[r].pc = "record" /\ request'[r].id = request[r].id
      /\ \A s \in Requests \ {r} : request'[s] = request[s]
  BY <1>1 DEF CInv, IInv, TypeOK
<1>4. Offers(i)' <=> Offers(i)  BY <1>1 DEF Offers
<1>5. \A s \in Requests : /\ Offers(i)' /\ Called(s, i) => Called(s, i)'
                          /\ ~Offers(i)' /\ Calling(s, i)' => Calling(s, i)
  BY <1>1, <1>3 DEF Called, Calling
<1>6. MayCall(i)' \subseteq MayCall(i)  BY <1>4, <1>5, NobodyElse
<1>7. CASE i = request[r].id
  <2>1. Calling(r, i) /\ ~Called(r, i) /\ Called(r, i)' /\ ~Calling(r, i)'
    BY <1>1, <1>3, <1>7 DEF Calling, Called
  <2>2. r \in MayCall(i) /\ r \notin MayCall(i)'  BY <2>1 DEF MayCall
  <2>3. calls'[i] = calls[i] + 1  BY <1>1, <1>2, <1>7
  <2>. QED  BY <1>1, <1>6, <2>2, <2>3, CallsKept
<1>8. CASE i # request[r].id
  <2>1. calls'[i] = calls[i]  BY <1>1, <1>2, <1>8
  <2>. QED  BY <1>1, <1>6, <2>1, CallsKept
<1>. QED  BY <1>7, <1>8

\* Between its call and the clearing a request goes on without another one.
LEMMA RecordCounts ==
    ASSUME CInv, NEW r \in Requests, Record(r), NEW i \in Ids PROVE CallsCovered(i)'
<1>1. /\ UNCHANGED <<account, calls, choices, faults>> /\ request[r].pc = "record"
      /\ request'[r].pc = "clear" /\ request'[r].id = request[r].id
      /\ \A s \in Requests \ {r} : request'[s] = request[s]
  BY DEF Record, At, Go, bounds, CInv, IInv, TypeOK
<1>2. \A s \in Requests : /\ Offers(i)' /\ Called(s, i) => Called(s, i)'
                          /\ ~Offers(i)' /\ Calling(s, i)' => Calling(s, i)
  BY <1>1 DEF Called, Calling
<1>3. Offers(i)' <=> Offers(i)  BY <1>1 DEF Offers
<1>. QED  BY <1>1, <1>2, <1>3, NobodyElse, CallsKept

LEMMA ClearCounts ==
    ASSUME CInv, NEW r \in Requests, Clear(r), NEW i \in Ids PROVE CallsCovered(i)'
<1>1. /\ UNCHANGED <<calls, choices, faults>> /\ request[r].pc = "clear"
      /\ request'[r].pc = "idle"
      /\ \A s \in Requests \ {r} : request'[s] = request[s]
  BY DEF Clear, At, End, Idle, bounds, CInv, IInv, TypeOK
<1>2. /\ account'.id = account.id
      /\ account'.optIn => account.optIn /\ account.id # request[r].id
  BY DEF Clear, CInv, IInv, TypeOK, AccountRow
<1>3. Offers(i)' => Offers(i) /\ i # request[r].id  BY <1>2 DEF Offers
<1>4. \A s \in Requests : /\ Offers(i)' /\ Called(s, i) => Called(s, i)'
                          /\ ~Offers(i)' /\ Calling(s, i)' => Calling(s, i)
  BY <1>1, <1>3 DEF Called, Calling
<1>. QED  BY <1>1, <1>3, <1>4, NobodyElse, CallsKept

\* What a failed request was about may be tried again.
LEMMA RequestFailsCounts ==
    ASSUME CInv, NEW r \in Requests, RequestFails(r), NEW i \in Ids PROVE CallsCovered(i)'
<1>1. /\ UNCHANGED <<account, calls, choices>> /\ faults' = faults + 1
      /\ request'[r].pc = "idle"
      /\ \A s \in Requests \ {r} : request'[s] = request[s]
  BY DEF RequestFails, At, End, Idle, Fault, CInv, IInv, TypeOK
<1>2. Offers(i)' <=> Offers(i)  BY <1>1 DEF Offers
<1>3. \A s \in Requests \ {r} : (Called(s, i)' <=> Called(s, i)) /\ (Calling(s, i)' <=> Calling(s, i))
  BY <1>1 DEF Called, Calling
<1>4. MayCall(i)' \subseteq MayCall(i) \cup {r}  BY <1>2, <1>3 DEF MayCall
<1>. QED  BY <1>1, <1>4, CallsKept

\* A sign-up or a sign-in without an account makes one that nobody was called for.
LEMMA NewAccountsAreUncalled == CInv /\ created < MaxAccounts => calls[created + 1] = 0
<1>. SUFFICES ASSUME CInv, created < MaxAccounts PROVE calls[created + 1] = 0  OBVIOUS
<1>1. created \in Nat /\ MaxAccounts \in Nat /\ created + 1 \in Ids
  BY AccountAssumption DEF CInv, IInv, TypeOK, Ids
<1>2. created + 1 \notin due  BY <1>1 DEF CInv, IInv, DueExist
<1>3. calls[created + 1] \in Nat  BY <1>1 DEF CInv, IInv, TypeOK
<1>. QED  BY <1>1, <1>2, <1>3 DEF CInv, IInv, OnlyConfirmedAreSent

\* The other steps of requests.
LEMMA RequestStepCounts ==
    ASSUME CInv, NEW r \in Requests, NEW i \in Ids,
           \/ SignUp(r) \/ Resend(r) \/ SendLink(r) \/ \E l \in Links : Click(r, l)
           \/ Confirm(r) \/ ClickedAgain(r)
           \/ SignIn(r) \/ Create(r) \/ Revoke(r) \/ VoidLinks(r) \/ Link(r) \/ Verify(r)
    PROVE  CallsCovered(i)'
<1>. USE DEF CInv, IInv, TypeOK, At, bounds
<1>types. /\ account \in AccountRow /\ created \in Nat /\ account.id \in {NoAccount, created}
          /\ ~Exists => ~account.optIn
  BY AccountAssumption
<1>1. CASE SignUp(r)
  <2>1. /\ UNCHANGED <<calls, choices, faults>> /\ request[r].pc = "idle"
        /\ request'[r].pc = "mail" /\ \A s \in Requests \ {r} : request'[s] = request[s]
    BY <1>1 DEF SignUp
  <2>2. account'.id = created + 1 /\ created < MaxAccounts  BY <1>1 DEF SignUp, Becomes, NewAccount
  <2>3. calls[i] = 0 \/ ~Offers(i)'  BY <2>2, NewAccountsAreUncalled DEF Offers
  <2>. QED  BY <2>1, <2>3, OtherStep
<1>2. CASE Resend(r) \/ SendLink(r) \/ (\E l \in Links : Click(r, l)) \/ SignIn(r) \/ VoidLinks(r)
  <2>1. /\ UNCHANGED <<account, calls, choices, faults>>
        /\ request[r].pc \notin {"record", "clear"} /\ request'[r].pc # "subscribe"
        /\ \A s \in Requests \ {r} : request'[s] = request[s]
    BY <1>2 DEF Resend, SendLink, Click, SignIn, VoidLinks, Go, End, Idle
  <2>2. Offers(i)' => Offers(i)  BY <2>1 DEF Offers
  <2>. QED  BY <2>1, <2>2, OtherStep
<1>3. CASE Confirm(r) \/ ClickedAgain(r)
  <2>1. /\ UNCHANGED <<calls, choices, faults>> /\ request[r].pc \notin {"record", "clear"}
        /\ \A s \in Requests \ {r} : request'[s] = request[s]
        /\ request'[r] = Released(account')
    BY <1>3 DEF Confirm, ClickedAgain
  <2>2. account'.id = account.id /\ account'.optIn = account.optIn
    BY <1>3, <1>types DEF Confirm, ClickedAgain, Becomes, Nobody, AccountRow, Exists, NoAccount
  <2>3. request'[r].pc = "subscribe" => account'.id = request'[r].id /\ account'.optIn
    BY <2>1 DEF Released, Idle
  <2>4. Offers(i)' => Offers(i)  BY <2>2 DEF Offers
  <2>. QED  BY <2>1, <2>3, <2>4, OtherStep
<1>4. CASE Create(r)
  <2>1. /\ UNCHANGED <<calls, choices, faults>> /\ request[r].pc = "create"
        /\ request'[r].pc = "idle" /\ \A s \in Requests \ {r} : request'[s] = request[s]
    BY <1>4 DEF Create, End, Idle
  <2>2. account' = account \/ account'.optIn = FALSE  BY <1>4 DEF Create, Becomes, NewAccount
  <2>3. Offers(i)' => Offers(i)  BY <2>2 DEF Offers
  <2>. QED  BY <2>1, <2>3, OtherStep
<1>5. CASE Revoke(r) \/ Link(r) \/ Verify(r)
  <2>1. /\ UNCHANGED <<calls, choices, faults>> /\ request[r].pc \notin {"record", "clear"}
        /\ request'[r].pc # "subscribe" /\ \A s \in Requests \ {r} : request'[s] = request[s]
    BY <1>5 DEF Revoke, Link, Verify, Go, End, Idle
  <2>2. account'.id = account.id /\ (account'.optIn => account.optIn)
    BY <1>5, <1>types DEF Revoke, Link, Verify, Becomes, AccountRow
  <2>3. Offers(i)' => Offers(i)  BY <2>2 DEF Offers
  <2>. QED  BY <2>1, <2>3, OtherStep
<1>. QED  BY <1>1, <1>2, <1>3, <1>4, <1>5

LEMMA StepCounts == CInv /\ [Next]_vars => CInv'
<1>. SUFFICES ASSUME CInv, [Next]_vars PROVE CInv'  OBVIOUS
<1>1. IInv'  BY NextKeeps DEF CInv
<1>2. Ids' = Ids  BY DEF Ids
<1>. SUFFICES ASSUME NEW i \in Ids PROVE CallsCovered(i)'  BY <1>1, <1>2 DEF CInv
<1>3. ASSUME NEW r \in Requests, CompleteSignup(r) PROVE CallsCovered(i)'
  <2>1. choices' = choices + 1 /\ faults' = faults /\ calls' = calls
    BY <1>3 DEF CompleteSignup
  <2>. QED  BY <2>1, CallsKept
<1>4. CASE (\E l \in Links : Expire(l)) \/ StartCleanup \/ RemovalFails \/ GrowOld \/ UNCHANGED vars
  <2>1. UNCHANGED <<calls, choices, request>> /\ faults' \in {faults, faults + 1}
    BY <1>4 DEF Expire, StartCleanup, RemovalFails, GrowOld, Fault, vars, bounds
  <2>2. account'.id = account.id /\ account'.optIn = account.optIn
    BY <1>4 DEF Expire, StartCleanup, RemovalFails, GrowOld, vars, CInv, IInv, TypeOK, AccountRow
  <2>3. Offers(i)' => Offers(i)  BY <2>2 DEF Offers
  <2>. QED  BY <2>1, <2>3, StillStep
<1>5. CASE DeleteAccount \/ RemoveStale
  <2>1. UNCHANGED <<calls, choices, request>> /\ faults' = faults
    BY <1>5 DEF DeleteAccount, RemoveStale, bounds
  <2>2. account' = account \/ account' = Nobody
    BY <1>5 DEF DeleteAccount, RemoveStale, Remove
  <2>3. Offers(i)' => Offers(i)  BY <2>2 DEF Offers, Nobody
  <2>. QED  BY <2>1, <2>3, StillStep
<1>6. CASE \E r \in Requests :
            \/ SignUp(r) \/ Resend(r) \/ SendLink(r) \/ \E l \in Links : Click(r, l)
            \/ Confirm(r) \/ ClickedAgain(r)
            \/ SignIn(r) \/ Create(r) \/ Revoke(r) \/ VoidLinks(r) \/ Link(r) \/ Verify(r)
  BY <1>6, RequestStepCounts
<1>7. CASE \E r \in Requests : Subscribe(r) \/ Record(r) \/ Clear(r) \/ RequestFails(r)
  BY <1>7, SubscribeCounts, RecordCounts, ClearCounts, RequestFailsCounts
<1>. QED  BY <1>3, <1>4, <1>5, <1>6, <1>7 DEF Next

\* However many clicks, completions and retries there are, Buttondown hears of an account
\* at most once from each request that was under way when the newsletter was chosen or
\* chosen again, and once more for each failure (releaseNewsletterOptIn).
THEOREM OptInsAreSentOnceByEach == Spec => []SentByEachOnce
<1>1. Init => CInv
  <2>. SUFFICES ASSUME Init PROVE CInv  OBVIOUS
  <2>1. IInv  BY InitHolds
  <2>2. ASSUME NEW i \in Ids PROVE CallsCovered(i)
    <3>1. calls[i] = 0  BY DEF Init
    <3>2. MayCall(i) \in SUBSET Requests  BY DEF MayCall
    <3>3. /\ Cardinality(MayCall(i)) \in Nat
          /\ Cardinality(MayCall(i)) <= Cardinality(Requests)
      BY <3>2, RequestCounts
    <3>4. Allowed \in Nat /\ Cardinality(Requests) <= Allowed /\ Cardinality(Requests) \in Nat
      BY <2>1, AllowedGrows, AccountAssumption, FS_CardinalityType DEF IInv
    <3>. QED  BY <3>1, <3>3, <3>4 DEF CallsCovered
  <2>. QED  BY <2>1, <2>2 DEF CInv
<1>2. CInv => SentByEachOnce
  <2>. SUFFICES ASSUME CInv, NEW i \in Ids PROVE calls[i] <= Allowed
    BY DEF SentByEachOnce, Allowed
  <2>1. calls[i] + Cardinality(MayCall(i)) <= Allowed /\ calls[i] \in Nat
    BY DEF CInv, CallsCovered, IInv, TypeOK
  <2>2. MayCall(i) \in SUBSET Requests  BY DEF MayCall
  <2>3. Cardinality(MayCall(i)) \in Nat  BY <2>2, RequestCounts
  <2>4. Allowed \in Nat  BY AllowedGrows DEF CInv, IInv
  <2>. QED  BY <2>1, <2>3, <2>4
<1>. QED  BY <1>1, <1>2, StepCounts, PTL DEF Spec
=============================================================================
