----------------------------- MODULE AccountsProofs -----------------------------
(***************************************************************************)
(* Proofs about the accounts, for any accounts, citizens, limits and any    *)
(* number of concurrent requests: an active System Administrator remains    *)
(* (AdminAccounts), a citizen keeps a way to sign in (CitizenLogins), a     *)
(* session signed in time works (StaffSessions), and a limit is passed by   *)
(* the requests that raced it and no more (RateLimits).                     *)
(***************************************************************************)
EXTENDS AdminAccounts, StaffSessions, CitizenLogins, RateLimits, FiniteSetTheorems, TLAPS

(*-------------------------- System Administrators -------------------------*)
\* A row is locked by one transaction.
LocksExclusive ==
  \A p, q \in Requests : p # q => req[p].holds \cap req[q].holds = {}

\* The administrators a transaction counted are locked by it, so they are
\* administrators still: only a transaction that holds a row changes it.
CountedStillHeld ==
  \A q \in Requests : InFlight(q) =>
     req[q].returned \subseteq req[q].holds \cap ActiveSystemAdmins

IInv == TypeOK /\ AnAdministratorRemains /\ LocksExclusive /\ CountedStillHeld

\* Of two counted administrators one is not the target.
LEMMA AnotherElement ==
  ASSUME NEW S \in SUBSET Accounts, NEW x, Cardinality(S) > 1
  PROVE  \E y \in S : y # x
<1> SUFFICES ASSUME S \subseteq {x} PROVE FALSE OBVIOUS
<1>1. IsFiniteSet({x}) /\ Cardinality({x}) = 1 BY FS_Singleton
<1>2. Cardinality(S) <= 1 BY <1>1, FS_Subset
<1>3. IsFiniteSet(S) BY AccountsAssumption, FS_Subset
<1>4. Cardinality(S) \in Nat BY <1>3, FS_CardinalityType
<1> QED BY <1>2, <1>4

LEMMA InFlightRequest ==
  ASSUME TypeOK, NEW q \in Requests, InFlight(q)
  PROVE  req[q] \in Request
BY DEF TypeOK, InFlight, Idle

\* Ending a request releases its rows and counts nothing.
LEMMA EndKeeps ==
  ASSUME IInv, NEW q \in Requests, Ends(q)
  PROVE  /\ req' \in [Requests -> {Idle} \cup Request]
         /\ LocksExclusive'
         /\ \A p \in Requests : InFlight(p)' => p # q /\ req'[p] = req[p] /\ InFlight(p)
<1>1. req' = [req EXCEPT ![q] = Idle] /\ req \in [Requests -> {Idle} \cup Request]
  BY DEF IInv, TypeOK, Ends
<1>2. req'[q] = Idle /\ \A p \in Requests \ {q} : req'[p] = req[p] BY <1>1
<1>3. req' \in [Requests -> {Idle} \cup Request] BY <1>1
<1>4. \A p \in Requests : InFlight(p)' => p # q /\ req'[p] = req[p] /\ InFlight(p)
  BY <1>2 DEF InFlight, Idle
<1>5. \A p \in Requests : req'[p].holds \subseteq req[p].holds
  BY <1>2 DEF Idle
<1>6. LocksExclusive' BY <1>5 DEF IInv, LocksExclusive
<1> QED BY <1>3, <1>4, <1>6

LEMMA BeginKeeps ==
  ASSUME IInv, NEW q \in Requests, NEW op \in Ops, NEW target \in Accounts,
         Begin(q, op, target)
  PROVE  IInv'
<1> DEFINE new == [op |-> op, target |-> target, todo |-> ActiveSystemAdmins,
                   holds |-> {}, returned |-> {}]
<1>1. req' = [req EXCEPT ![q] = new] /\ req \in [Requests -> {Idle} \cup Request]
  BY DEF Begin, IInv, TypeOK
<1>2. new \in Request BY DEF Request, ActiveSystemAdmins, IInv, TypeOK
<1>3. req'[q] = new /\ \A p \in Requests \ {q} : req'[p] = req[p] BY <1>1
<1>4. TypeOK' BY <1>1, <1>2 DEF Begin, IInv, TypeOK
<1>5. LocksExclusive' BY <1>3 DEF IInv, LocksExclusive
<1>6. CountedStillHeld'
  BY <1>3 DEF IInv, CountedStillHeld, InFlight, Begin, ActiveSystemAdmins
<1> QED BY <1>4, <1>5, <1>6 DEF Begin, IInv, AnAdministratorRemains, ActiveSystemAdmins

LEMMA LockNextKeeps ==
  ASSUME IInv, NEW q \in Requests, LockNext(q)
  PROVE  IInv'
<1>1. PICK row \in req[q].todo :
        /\ Free(row, q)
        /\ req' = [req EXCEPT ![q].todo = @ \ {row}, ![q].holds = @ \cup {row},
                              ![q].returned = @ \cup ({row} \cap ActiveSystemAdmins)]
  BY DEF LockNext
<1>2. req[q] \in Request /\ InFlight(q) BY InFlightRequest DEF LockNext, IInv
<1>3. row \in Accounts BY <1>2 DEF Request
<1> DEFINE new == [op |-> req[q].op, target |-> req[q].target, todo |-> req[q].todo \ {row},
                   holds |-> req[q].holds \cup {row},
                   returned |-> req[q].returned \cup ({row} \cap ActiveSystemAdmins)]
<1>4. req \in [Requests -> {Idle} \cup Request] BY DEF IInv, TypeOK
<1>5. req'[q] = new BY <1>1, <1>2, <1>4 DEF Request
<1>6. \A p \in Requests \ {q} : req'[p] = req[p] BY <1>1, <1>4
<1>7. new \in Request BY <1>2, <1>3 DEF Request
<1>8. req' \in [Requests -> {Idle} \cup Request]
  <2>1. DOMAIN req' = Requests /\ req' = [p \in Requests |-> req'[p]] BY <1>1, <1>4
  <2> QED BY <2>1, <1>4, <1>5, <1>6, <1>7
<1>9. LocksExclusive'
  <2>1. \A p \in Requests \ {q} : row \notin req[p].holds BY <1>1 DEF Free
  <2> QED BY <1>5, <1>6, <2>1 DEF IInv, LocksExclusive
<1>10. CountedStillHeld'
  <2> SUFFICES ASSUME NEW p \in Requests, InFlight(p)'
               PROVE  (req[p].returned \subseteq req[p].holds \cap ActiveSystemAdmins)'
    BY DEF CountedStillHeld
  <2>0. ActiveSystemAdmins' = ActiveSystemAdmins BY DEF LockNext, ActiveSystemAdmins
  <2>1. CASE p = q BY <1>2, <1>5, <2>0, <2>1 DEF IInv, CountedStillHeld
  <2>2. CASE p # q BY <1>6, <2>0, <2>2 DEF IInv, CountedStillHeld, InFlight
  <2> QED BY <2>1, <2>2
<1> QED BY <1>8, <1>9, <1>10 DEF LockNext, IInv, TypeOK, AnAdministratorRemains, ActiveSystemAdmins

LEMMA CommitKeeps ==
  ASSUME IInv, NEW q \in Requests, Commit(q)
  PROVE  IInv'
<1> DEFINE target == req[q].target
<1>1. req[q] \in Request BY InFlightRequest DEF Commit, IInv
<1>2. target \in Accounts BY <1>1 DEF Request
<1>3. sysAdmin' \in SUBSET Accounts /\ active' \in SUBSET Accounts
  BY <1>2 DEF Commit, IInv, TypeOK
<1>4. \A a \in Accounts \ {target} : a \in ActiveSystemAdmins => a \in ActiveSystemAdmins'
  BY DEF Commit, ActiveSystemAdmins
<1>5. AnAdministratorRemains'
  <2>1. CASE MayRemove(q) /\ target \in ActiveSystemAdmins
    <3>1. req[q].returned \in SUBSET Accounts /\ Cardinality(req[q].returned) > 1
      BY <1>1, <2>1 DEF Request, MayRemove
    <3>2. PICK other \in req[q].returned : other # target BY <3>1, AnotherElement
    <3>3. other \in ActiveSystemAdmins BY <3>2 DEF IInv, CountedStillHeld, Commit
    <3> QED BY <1>4, <3>1, <3>2, <3>3 DEF AnAdministratorRemains
  <2>2. CASE target \notin ActiveSystemAdmins
    <3>1. PICK a \in ActiveSystemAdmins : TRUE BY DEF IInv, AnAdministratorRemains
    <3>2. a \in Accounts BY <3>1 DEF ActiveSystemAdmins, IInv, TypeOK
    <3> QED BY <1>4, <2>2, <3>1, <3>2 DEF AnAdministratorRemains
  <2>3. CASE ActiveSystemAdmins \subseteq ActiveSystemAdmins'
    BY <2>3 DEF IInv, AnAdministratorRemains
  <2> QED BY <2>1, <2>2, <2>3 DEF Commit, ActiveSystemAdmins
<1>6. CountedStillHeld'
  <2> SUFFICES ASSUME NEW p \in Requests, InFlight(p)'
               PROVE  (req[p].returned \subseteq req[p].holds \cap ActiveSystemAdmins)'
    BY DEF CountedStillHeld
  <2>1. p # q /\ req'[p] = req[p] /\ InFlight(p) BY EndKeeps DEF Commit
  <2>2. req[p].returned \subseteq req[p].holds \cap ActiveSystemAdmins
    BY <2>1 DEF IInv, CountedStillHeld
  <2>3. target \notin req[p].holds BY <2>1 DEF Commit, Free
  <2>4. req[p].holds \subseteq Accounts BY <2>1, InFlightRequest DEF IInv, Request
  <2> QED BY <1>4, <2>1, <2>2, <2>3, <2>4
<1>7. LocksExclusive' /\ req' \in [Requests -> {Idle} \cup Request] BY EndKeeps DEF Commit
<1> QED BY <1>3, <1>5, <1>6, <1>7 DEF IInv, TypeOK

LEMMA RefuseKeeps ==
  ASSUME IInv, NEW q \in Requests, Refuse(q)
  PROVE  IInv'
<1>1. /\ req' \in [Requests -> {Idle} \cup Request] /\ LocksExclusive'
      /\ \A p \in Requests : InFlight(p)' => p # q /\ req'[p] = req[p] /\ InFlight(p)
  BY EndKeeps DEF Refuse
<1>2. CountedStillHeld'
  BY <1>1 DEF IInv, CountedStillHeld, Refuse, ActiveSystemAdmins
<1> QED BY <1>1, <1>2 DEF Refuse, IInv, TypeOK, AnAdministratorRemains, ActiveSystemAdmins

LEMMA InitHolds == Init => IInv
BY DEF Init, IInv, TypeOK, AnAdministratorRemains, LocksExclusive, CountedStillHeld,
       InFlight, Idle

LEMMA StepKeeps == IInv /\ [Next]_vars => IInv'
<1> SUFFICES ASSUME IInv, [Next]_vars PROVE IInv' OBVIOUS
<1>1. CASE UNCHANGED vars
  BY <1>1 DEF vars, IInv, TypeOK, AnAdministratorRemains, ActiveSystemAdmins,
     LocksExclusive, CountedStillHeld, InFlight
<1>2. CASE \E q \in Requests, op \in Ops, target \in Accounts : Begin(q, op, target)
  BY <1>2, BeginKeeps
<1>3. CASE \E q \in Requests : LockNext(q) BY <1>3, LockNextKeeps
<1>4. CASE \E q \in Requests : Commit(q) BY <1>4, CommitKeeps
<1>5. CASE \E q \in Requests : Refuse(q) BY <1>5, RefuseKeeps
<1> QED BY <1>1, <1>2, <1>3, <1>4, <1>5 DEF Next

\* Every variable keeps its type.
THEOREM TypeCorrect == Spec => []TypeOK
<1>1. IInv => TypeOK BY DEF IInv
<1> QED BY <1>1, InitHolds, StepKeeps, PTL DEF Spec

\* The last active System Administrator is never demoted or deactivated
\* (AdminsService.update, setActive), however many removals race.
THEOREM AdministratorRemains == Spec => []AnAdministratorRemains
<1>1. IInv => AnAdministratorRemains BY DEF IInv
<1> QED BY <1>1, InitHolds, StepKeeps, PTL DEF Spec

(*----------------------------- Citizens' logins ---------------------------*)
Calls ==
  {NoCall}
  \cup [op : {"signUp", "delete", "password", "reset"}, who : Emails]
  \cup [op : {"create", "link"}, who : Emails, google : GoogleAccounts]
  \cup [op : {"unlink"}, who : Emails, hasPassword : BOOLEAN]

LoginTypeOK ==
  /\ citizens \in SUBSET Emails
  /\ withPassword \in SUBSET Emails
  /\ identity \in [Emails -> GoogleAccounts \cup {Unlinked}]
  /\ resetLinks \in SUBSET Emails
  /\ call \in [AccountRequests -> Calls]

\* An unlink that saw a password, or is about to delete, has one to rely on:
\* no request ever takes a password away.
SeenPasswordsStay ==
  \A q \in AccountRequests :
    /\ call[q].op = "unlink" /\ call[q].hasPassword => call[q].who \in withPassword
    /\ call[q].op = "delete" => call[q].who \in withPassword

LoginInv == LoginTypeOK /\ SeenPasswordsStay /\ AlwaysAWayIn

LEMMA InitialLogins == LoginInit => LoginInv
  BY LoginAssumption DEF LoginInit, LoginInv, LoginTypeOK, SeenPasswordsStay, AlwaysAWayIn,
     NoCall, Calls

\* A request begins, or ends, and writes nothing.
LEMMA ReadingLogins ==
  ASSUME LoginInv, NEW q \in AccountRequests, NEW k \in Calls, Does(q, k),
         UNCHANGED <<citizens, withPassword, identity>>, resetLinks' \in SUBSET Emails,
         k.op = "unlink" /\ k.hasPassword => k.who \in withPassword,
         k.op = "delete" => k.who \in withPassword
  PROVE  LoginInv'
  <1>1. call' \in [AccountRequests -> Calls] /\ call'[q] = k
        /\ \A p \in AccountRequests \ {q} : call'[p] = call[p]
    BY DEF Does, LoginInv, LoginTypeOK
  <1>2. LoginTypeOK' BY <1>1 DEF LoginInv, LoginTypeOK
  <1>3. SeenPasswordsStay' BY <1>1 DEF LoginInv, SeenPasswordsStay
  <1>4. AlwaysAWayIn' BY DEF LoginInv, AlwaysAWayIn
  <1> QED BY <1>2, <1>3, <1>4 DEF LoginInv

\* A request that ends with a write which takes no password away.
LEMMA WritingLogins ==
  ASSUME LoginInv, NEW q \in AccountRequests, Done(q), LoginTypeOK',
         withPassword \subseteq withPassword', AlwaysAWayIn'
  PROVE  LoginInv'
  <1>1. call'[q] = NoCall /\ \A p \in AccountRequests \ {q} : call'[p] = call[p]
    BY DEF Done, Does, LoginInv, LoginTypeOK
  <1>2. SeenPasswordsStay' BY <1>1 DEF LoginInv, SeenPasswordsStay, NoCall
  <1> QED BY <1>2 DEF LoginInv

LEMMA EndedCall ==
  ASSUME LoginTypeOK, NEW q \in AccountRequests, Done(q)
  PROVE  call' \in [AccountRequests -> Calls]
  BY DEF LoginTypeOK, Done, Does, Calls

LEMMA RequestLoginStep ==
  ASSUME LoginInv, NEW q \in AccountRequests,
         \/ InsertCitizen(q) \/ CreateWithGoogle(q) \/ InsertIdentity(q)
         \/ CountIdentities(q) \/ DeleteIdentity(q) \/ StorePassword(q)
  PROVE  LoginInv'
  <1> USE DEF LoginInv
  <1>0. call[q] \in Calls BY DEF LoginTypeOK
  <1>1. CASE InsertCitizen(q)
    <2>1. call[q].who \in Emails BY <1>0, <1>1 DEF Calls, NoCall, InsertCitizen
    <2>2. LoginTypeOK' BY <1>1, <2>1, EndedCall DEF InsertCitizen, LoginTypeOK
    <2>3. withPassword \subseteq withPassword' /\ AlwaysAWayIn'
      BY <1>1 DEF InsertCitizen, AlwaysAWayIn
    <2> QED BY <1>1, <2>2, <2>3, WritingLogins DEF InsertCitizen
  <1>2. CASE CreateWithGoogle(q)
    <2>1. call[q].who \in Emails /\ call[q].google \in GoogleAccounts
      BY <1>0, <1>2 DEF Calls, NoCall, CreateWithGoogle
    <2>2. LoginTypeOK' BY <1>2, <2>1, EndedCall DEF CreateWithGoogle, LoginTypeOK
    <2>3. withPassword \subseteq withPassword' /\ AlwaysAWayIn'
      BY <1>2, <2>1, LoginAssumption DEF CreateWithGoogle, AlwaysAWayIn, LoginTypeOK
    <2> QED BY <1>2, <2>2, <2>3, WritingLogins DEF CreateWithGoogle
  <1>3. CASE InsertIdentity(q)
    <2>1. call[q].who \in Emails /\ call[q].google \in GoogleAccounts
      BY <1>0, <1>3 DEF Calls, NoCall, InsertIdentity
    <2>2. LoginTypeOK' BY <1>3, <2>1, EndedCall DEF InsertIdentity, LoginTypeOK
    <2>3. withPassword \subseteq withPassword' /\ AlwaysAWayIn'
      BY <1>3, <2>1, LoginAssumption DEF InsertIdentity, AlwaysAWayIn, LoginTypeOK
    <2> QED BY <1>3, <2>2, <2>3, WritingLogins DEF InsertIdentity
  <1>4. CASE CountIdentities(q)
    <2>1. call[q].who \in Emails BY <1>0, <1>4 DEF Calls, NoCall, CountIdentities
    <2>2. CASE identity[call[q].who] # Unlinked /\ call[q].hasPassword
      <3> DEFINE k == [op |-> "delete", who |-> call[q].who]
      <3>1. k \in Calls BY <2>1 DEF Calls
      <3>2. call[q].who \in withPassword BY <1>4, <2>2 DEF CountIdentities, SeenPasswordsStay
      <3> QED BY <1>4, <2>2, <3>1, <3>2, ReadingLogins DEF CountIdentities, LoginTypeOK
    <2>3. CASE ~(identity[call[q].who] # Unlinked /\ call[q].hasPassword)
      <3>1. NoCall \in Calls /\ NoCall.op = "none" BY DEF Calls, NoCall
      <3> QED BY <1>4, <2>3, <3>1, ReadingLogins DEF CountIdentities, Done, LoginTypeOK
    <2> QED BY <2>2, <2>3
  <1>5. CASE DeleteIdentity(q)
    <2>1. call[q].who \in Emails /\ call[q].who \in withPassword
      BY <1>0, <1>5 DEF Calls, NoCall, DeleteIdentity, SeenPasswordsStay
    <2>2. LoginTypeOK' BY <1>5, <2>1, EndedCall DEF DeleteIdentity, LoginTypeOK
    <2>3. withPassword \subseteq withPassword' /\ AlwaysAWayIn'
      BY <1>5, <2>1 DEF DeleteIdentity, AlwaysAWayIn, LoginTypeOK
    <2> QED BY <1>5, <2>2, <2>3, WritingLogins DEF DeleteIdentity
  <1>6. CASE StorePassword(q)
    <2>1. call[q].who \in Emails BY <1>0, <1>6 DEF Calls, NoCall, StorePassword
    <2>2. LoginTypeOK' BY <1>6, <2>1, EndedCall DEF StorePassword, LoginTypeOK
    <2>3. withPassword \subseteq withPassword' /\ AlwaysAWayIn'
      BY <1>6 DEF StorePassword, AlwaysAWayIn
    <2> QED BY <1>6, <2>2, <2>3, WritingLogins DEF StorePassword
  <1> QED BY <1>1, <1>2, <1>3, <1>4, <1>5, <1>6

LEMMA BeginLoginStep ==
  ASSUME LoginInv, NEW q \in AccountRequests, NEW c \in Emails,
         \/ SignUp(q, c) \/ Unlink(q, c) \/ NewPassword(q, c) \/ FollowLink(q, c)
  PROVE  LoginInv'
  <1>1. resetLinks \in SUBSET Emails BY DEF LoginInv, LoginTypeOK
  <1>2. CASE SignUp(q, c)
    <2>1. [op |-> "signUp", who |-> c] \in Calls BY DEF Calls
    <2> QED BY <1>1, <1>2, <2>1, ReadingLogins DEF SignUp
  <1>3. CASE Unlink(q, c)
    <2>1. [op |-> "unlink", who |-> c, hasPassword |-> c \in withPassword] \in Calls BY DEF Calls
    <2> QED BY <1>1, <1>3, <2>1, ReadingLogins DEF Unlink
  <1>4. CASE NewPassword(q, c)
    <2>1. [op |-> "password", who |-> c] \in Calls BY DEF Calls
    <2> QED BY <1>1, <1>4, <2>1, ReadingLogins DEF NewPassword
  <1>5. CASE FollowLink(q, c)
    <2>1. [op |-> "reset", who |-> c] \in Calls BY DEF Calls
    <2> QED BY <1>1, <1>5, <2>1, ReadingLogins DEF FollowLink
  <1> QED BY <1>2, <1>3, <1>4, <1>5

LEMMA BeginGoogleStep ==
  ASSUME LoginInv, NEW q \in AccountRequests, NEW g \in GoogleAccounts,
         MeetGoogle(q, g) \/ \E c \in Emails : Link(q, c, g)
  PROVE  LoginInv'
  <1>1. resetLinks \in SUBSET Emails BY DEF LoginInv, LoginTypeOK
  <1>2. CASE MeetGoogle(q, g)
    <2>1. [op |-> "create", who |-> MailOf[g], google |-> g] \in Calls
      BY LoginAssumption DEF Calls
    <2> QED BY <1>1, <1>2, <2>1, ReadingLogins DEF MeetGoogle
  <1>3. ASSUME NEW c \in Emails, Link(q, c, g) PROVE LoginInv'
    <2>1. [op |-> "link", who |-> c, google |-> g] \in Calls BY DEF Calls
    <2> QED BY <1>1, <1>3, <2>1, ReadingLogins DEF Link
  <1> QED BY <1>2, <1>3

LEMMA LinkStep ==
  ASSUME LoginInv, NEW c \in Emails, RequestReset(c) \/ LinkExpires(c)
  PROVE  LoginInv'
  <1>1. LoginTypeOK' BY DEF LoginInv, LoginTypeOK, RequestReset, LinkExpires
  <1>2. SeenPasswordsStay' /\ AlwaysAWayIn'
    BY DEF LoginInv, SeenPasswordsStay, AlwaysAWayIn, RequestReset, LinkExpires
  <1> QED BY <1>1, <1>2 DEF LoginInv

LEMMA LoginStep == LoginInv /\ [LoginNext]_loginVars => LoginInv'
  <1> SUFFICES ASSUME LoginInv, [LoginNext]_loginVars PROVE LoginInv'
    OBVIOUS
  <1>1. CASE UNCHANGED loginVars
    BY <1>1 DEF loginVars, LoginInv, LoginTypeOK, SeenPasswordsStay, AlwaysAWayIn
  <1>2. CASE LoginNext
    BY <1>2, RequestLoginStep, BeginLoginStep, BeginGoogleStep, LinkStep DEF LoginNext
  <1> QED BY <1>1, <1>2

\* A citizen always keeps a way to sign in, for any number of citizens, Google
\* accounts and concurrent requests: an unlink relies on a password it saw, and
\* no operation of the code takes a password away (account.service.ts).
THEOREM CitizensKeepAWayIn == LoginSpec => []AlwaysAWayIn
  <1>1. LoginInv => AlwaysAWayIn BY DEF LoginInv
  <1> QED BY <1>1, InitialLogins, LoginStep, PTL DEF LoginSpec

(*------------------------------ Staff sessions ----------------------------*)
Asks ==
  {NoAsk}
  \cup [op : {"login", "rotate"}, authority : Authorities]
  \cup [op : {"password", "logout"} \cup Locked, at : Nat, authority : Authorities]
  \cup [op : {"reset"}, at : Nat]

SessionTypeOK ==
  /\ clock \in Nat
  /\ account \in [active : BOOLEAN, authority : Authorities, validAfter : Nat \cup {-1}]
  /\ sessions \in SUBSET [authority : Authorities, iat : Int, signed : Nat]
  /\ asked \in [StaffRequests -> Asks]

\* A token tells the second of its signature.
TokensTellTheirSecond == \A token \in sessions : token.iat = SecondOf(token.signed)

\* Every cutoff, written or under way, is the time of a request already made.
CutoffsArePast ==
  /\ account.validAfter <= clock
  /\ \A q \in StaffRequests : asked[q].op \in Unlocked \cup Locked => asked[q].at <= clock

SessionInv == SessionTypeOK /\ TokensTellTheirSecond /\ CutoffsArePast

\* A later instant is in the same second or in a later one.
LEMMA SecondsInOrder ==
  ASSUME NEW t \in Nat, NEW u \in Nat, t <= u
  PROVE  SecondOf(t) \in Int /\ SecondOf(u) \in Int /\ SecondOf(t) <= SecondOf(u)
<1> DEFINE n == TicksPerSecond
<1>1. n \in Nat /\ n > 0 BY SessionAssumption
<1> HIDE DEF n
<1>2. /\ t \div n \in Int /\ u \div n \in Int
      /\ n * (t \div n) <= t /\ u < n * (u \div n) + n
  BY <1>1
<1>3. t \div n <= u \div n
  <2> SUFFICES ASSUME u \div n + 1 <= t \div n PROVE FALSE BY <1>2
  <2>1. n * (u \div n + 1) <= n * (t \div n) BY <1>1, <1>2
  <2>2. n * (u \div n + 1) = n * (u \div n) + n BY <1>1, <1>2
  <2> QED BY <1>1, <1>2, <2>1, <2>2
<1> QED BY <1>2, <1>3 DEF SecondOf, n

LEMMA InitialSessions == SessionInit => SessionInv
BY DEF SessionInit, SessionInv, SessionTypeOK, TokensTellTheirSecond, CutoffsArePast, Asks,
       NoAsk, Unlocked, Locked

\* A request goes on to what k says, and the account's row stays as it is.
LEMMA AskingSessions ==
  ASSUME SessionInv, NEW q \in StaffRequests, NEW k \in Asks,
         asked' = [asked EXCEPT ![q] = k], UNCHANGED <<clock, account>>,
         k.op \in Unlocked \cup Locked => k.at <= clock,
         UNCHANGED sessions \/ \E a \in Authorities : sessions' = sessions \cup {Token(a)}
  PROVE  SessionInv'
<1> USE DEF SessionInv
<1>1. asked' \in [StaffRequests -> Asks] BY DEF SessionTypeOK
<1>2. asked'[q] = k /\ \A p \in StaffRequests \ {q} : asked'[p] = asked[p] BY DEF SessionTypeOK
<1>3. CutoffsArePast' BY <1>2 DEF CutoffsArePast
<1>4. \A a \in Authorities : Token(a) \in [authority : Authorities, iat : Int, signed : Nat]
  BY SecondsInOrder DEF Token, SessionTypeOK
<1>5. SessionTypeOK' BY <1>1, <1>4 DEF SessionTypeOK
<1>6. TokensTellTheirSecond' BY DEF TokensTellTheirSecond, Token
<1> QED BY <1>3, <1>5, <1>6

LEMMA SessionStep == SessionInv /\ [SessionNext]_sessionVars => SessionInv'
<1> SUFFICES ASSUME SessionInv, [SessionNext]_sessionVars PROVE SessionInv' OBVIOUS
<1> USE DEF SessionInv
<1>0. account.authority \in Authorities /\ clock \in Nat BY DEF SessionTypeOK
<1>00. asked \in [StaffRequests -> Asks] BY DEF SessionTypeOK
<1>1. ASSUME NEW q \in StaffRequests, Login(q) PROVE SessionInv'
  <2> DEFINE k == [op |-> "login", authority |-> account.authority]
  <2>1. k \in Asks /\ k.op \notin Unlocked \cup Locked BY <1>0 DEF Asks, Unlocked, Locked
  <2> QED BY <1>1, <2>1, AskingSessions DEF Login
<1>2. ASSUME NEW q \in StaffRequests, SignIn(q) PROVE SessionInv'
  <2>1. asked[q].authority \in Authorities
    BY <1>00, <1>2 DEF SignIn, Asks, NoAsk, Locked
  <2>2. NoAsk \in Asks /\ NoAsk.op \notin Unlocked \cup Locked
    BY DEF Asks, NoAsk, Unlocked, Locked
  <2> QED BY <1>2, <2>1, <2>2, AskingSessions DEF SignIn
<1>3. ASSUME NEW q \in StaffRequests, CommitStamp(q) PROVE SessionInv'
  <2>1. asked[q].at \in Nat /\ asked[q].at <= clock
    BY <1>00, <1>3 DEF CommitStamp, Asks, NoAsk, Unlocked, Locked, CutoffsArePast
  <2>2. asked[q].op \in {"reassign", "password"} => asked[q].authority \in Authorities
    BY <1>00, <1>3 DEF CommitStamp, Asks, NoAsk, Locked
  <2> DEFINE k == IF asked[q].op = "password"
                    THEN [op |-> "rotate", authority |-> asked[q].authority] ELSE NoAsk
  <2>3. k \in Asks /\ k.op \notin Unlocked \cup Locked
    BY <2>2 DEF Asks, NoAsk, Unlocked, Locked
  <2>4. asked' = [asked EXCEPT ![q] = k] BY <1>00, <1>3 DEF CommitStamp
  <2> HIDE DEF k
  <2>5. asked' \in [StaffRequests -> Asks] BY <1>00, <2>3, <2>4
  <2>6. asked'[q] = k /\ \A p \in StaffRequests \ {q} : asked'[p] = asked[p] BY <1>00, <2>4
  <2>7. /\ account' \in [active : BOOLEAN, authority : Authorities, validAfter : Nat \cup {-1}]
        /\ account'.validAfter = asked[q].at
    BY <1>3, <2>1, <2>2 DEF CommitStamp, SessionTypeOK
  <2>8. CutoffsArePast' BY <1>3, <2>1, <2>3, <2>6, <2>7 DEF CommitStamp, CutoffsArePast
  <2> QED BY <1>3, <2>5, <2>7, <2>8 DEF CommitStamp, SessionTypeOK, TokensTellTheirSecond
<1>4. ASSUME NEW q \in StaffRequests, StampReset(q) PROVE SessionInv'
  <2> DEFINE k == [op |-> "reset", at |-> clock]
  <2>1. k \in Asks /\ k.at <= clock BY <1>0 DEF Asks
  <2> QED BY <1>4, <2>1, AskingSessions DEF StampReset
<1>5. ASSUME NEW q \in StaffRequests, NEW op \in {"password", "logout"}, NEW token \in sessions,
             StampOwn(q, op, token)
      PROVE  SessionInv'
  <2> DEFINE k == [op |-> op, at |-> clock, authority |-> token.authority]
  <2>1. token.authority \in Authorities BY DEF SessionTypeOK
  <2>2. k \in Asks /\ k.at <= clock BY <1>0, <2>1 DEF Asks
  <2> QED BY <1>5, <2>2, AskingSessions DEF StampOwn
<1>6. ASSUME NEW q \in StaffRequests, NEW op \in Locked, NEW a \in Authorities,
             StampLocked(q, op, a)
      PROVE  SessionInv'
  <2> DEFINE k == [op |-> op, at |-> clock, authority |-> a]
  <2>1. k \in Asks /\ k.at <= clock BY <1>0 DEF Asks
  <2> QED BY <1>6, <2>1, AskingSessions DEF StampLocked
<1>7. CASE Activate
  BY <1>7 DEF Activate, SessionTypeOK, TokensTellTheirSecond, CutoffsArePast
<1>8. CASE Tick
  <2>1. clock' = clock + 1 /\ UNCHANGED <<account, sessions, asked>> BY <1>8 DEF Tick
  <2>2. \A q \in StaffRequests : asked[q].op \in Unlocked \cup Locked => asked[q].at \in Nat
    BY <1>00 DEF Asks, NoAsk, Unlocked, Locked
  <2>3. CutoffsArePast' BY <1>0, <2>1, <2>2 DEF CutoffsArePast, SessionTypeOK
  <2> QED BY <1>0, <2>1, <2>3 DEF SessionTypeOK, TokensTellTheirSecond
<1>9. CASE UNCHANGED sessionVars
  BY <1>9 DEF sessionVars, SessionTypeOK, TokensTellTheirSecond, CutoffsArePast
<1> QED
  BY <1>1, <1>2, <1>3, <1>4, <1>5, <1>6, <1>7, <1>8, <1>9 DEF SessionNext

\* A token signed at the cutoff or after it passes the comparison of seconds.
LEMMA SignedInTime == SessionInv => NewSessionsWork
<1> SUFFICES ASSUME SessionInv, NEW token \in sessions,
                    account.active, token.authority = account.authority,
                    token.signed >= account.validAfter
             PROVE  Holds(token, account)
  BY DEF NewSessionsWork
<1>1. /\ token.signed \in Nat /\ token.iat = SecondOf(token.signed)
      /\ account.validAfter \in Nat \/ account.validAfter = -1
  BY DEF SessionInv, SessionTypeOK, TokensTellTheirSecond
<1>2. CASE account.validAfter \in Nat
  <2>1. token.iat >= SecondOf(account.validAfter) BY <1>1, <1>2, SecondsInOrder
  <2> QED BY <2>1 DEF Holds
<1>3. CASE account.validAfter = -1 BY <1>3 DEF Holds
<1> QED BY <1>1, <1>2, <1>3

\* However fine the clock and however many requests: a session signed at the
\* cutoff or after it works (session.service.ts, verifyAdminSession), although
\* the token tells only its second.
THEOREM SessionsWork == SessionSpec => []NewSessionsWork
BY SignedInTime, InitialSessions, SessionStep, PTL DEF SessionSpec

\* Whoever logs in, or changes their password, is signed in by it: whatever
\* ended sessions meanwhile, the token just signed works unless the account
\* was deactivated or given another authority since the row was read.
THEOREM SigningInWorks ==
  SessionSpec =>
    [][\A token \in sessions' \ sessions :
         account.active /\ token.authority = account.authority
           => Holds(token, account)']_sessionVars
<1> DEFINE Works == \A token \in sessions' \ sessions :
                      account.active /\ token.authority = account.authority
                        => Holds(token, account)'
<1>1. SessionInv /\ [SessionNext]_sessionVars => [Works]_sessionVars
  <2> SUFFICES ASSUME SessionInv, SessionNext, NEW token \in sessions' \ sessions,
                      account.active, token.authority = account.authority
               PROVE  Holds(token, account)'
    BY DEF sessionVars
  <2>1. PICK q \in StaffRequests : SignIn(q)
    BY DEF SessionNext, Login, CommitStamp, StampReset, StampOwn, StampLocked, Activate, Tick
  <2>2. token.signed = clock /\ UNCHANGED <<clock, account>> BY <2>1 DEF SignIn, Token
  <2>3. account.validAfter <= clock BY DEF SessionInv, CutoffsArePast
  <2>4. NewSessionsWork' BY SessionStep, SignedInTime, PTL
  <2>5. (token \in sessions /\ account.active /\ token.authority = account.authority
          /\ token.signed >= account.validAfter)'
    BY <2>2, <2>3 DEF SessionInv, SessionTypeOK
  <2> QED BY <2>4, <2>5 DEF NewSessionsWork
<1> QED BY <1>1, InitialSessions, SessionStep, PTL DEF SessionSpec

(*-------------------------------- Rate limits -----------------------------*)
Key == [by : Senders, at : Places]
Row == [by : Senders, at : Places, age : Nat, no : Nat]

LimitTypeOK ==
  /\ Table \in Tables
  /\ recorded \in SUBSET Row /\ IsFiniteSet(recorded)
  /\ asking \in [Asking -> {NoRequest} \cup [step : Nat \ {0}, by : Senders, at : Places]]

\* The requests in flight that the i-th check has let pass, and that count
\* there as k does once they are recorded.
Past(i, k) == {a \in Asking : asking[a].step > i /\ SameKey(asking[a], k, Limits[Table][i].fields)}

\* What a window holds and what may still come into it stay below the limit
\* and one for each request: the last one let pass saw less than the limit.
RacersBounded ==
  \A i \in Checks, k \in Key :
    Counted(i, k) + Cardinality(Past(i, k)) < Limits[Table][i].most + Cardinality(Asking)

LimitInv == LimitTypeOK /\ RacersBounded

LEMMA CountsAreNumbers ==
  ASSUME LimitTypeOK, NEW i \in Checks, NEW k
  PROVE  /\ IsFiniteSet(InWindow(i, k)) /\ Counted(i, k) \in Nat
         /\ IsFiniteSet(Past(i, k)) /\ Cardinality(Past(i, k)) \in Nat
         /\ Cardinality(Past(i, k)) <= Cardinality(Asking) /\ Cardinality(Asking) \in Nat
         /\ Limits[Table][i] \in Limit /\ i \in Nat \ {0} /\ i <= Len(Limits[Table])
<1>1. InWindow(i, k) \in SUBSET recorded /\ Past(i, k) \in SUBSET Asking BY DEF InWindow, Past
<1>2. IsFiniteSet(InWindow(i, k)) /\ IsFiniteSet(Past(i, k))
      /\ Cardinality(Past(i, k)) <= Cardinality(Asking)
  BY <1>1, LimitAssumption, FS_Subset DEF LimitTypeOK
<1>3. Limits[Table] \in Seq(Limit) BY LimitAssumption DEF LimitTypeOK
<1>4. Limits[Table][i] \in Limit /\ i \in Nat \ {0} /\ i <= Len(Limits[Table]) BY <1>3 DEF Checks
<1> QED BY <1>2, <1>4, LimitAssumption, FS_CardinalityType DEF Counted

\* Fewer rows in a window and fewer requests past its check.
LEMMA FewerStayBounded ==
  ASSUME LimitInv, LimitTypeOK', UNCHANGED Table, NEW i \in Checks, NEW k \in Key,
         Counted(i, k)' <= Counted(i, k), Past(i, k)' \subseteq Past(i, k)
  PROVE  Counted(i, k)' + Cardinality(Past(i, k)') < Limits[Table][i].most + Cardinality(Asking)
<1>1. Cardinality(Past(i, k)') <= Cardinality(Past(i, k)) BY CountsAreNumbers, FS_Subset DEF LimitInv
<1>2. IsFiniteSet(Past(i, k)') BY CountsAreNumbers, FS_Subset DEF LimitInv
<1>3. InWindow(i, k)' \in SUBSET recorded' BY DEF InWindow
<1>4. Counted(i, k)' \in Nat BY <1>3, FS_Subset, FS_CardinalityType DEF LimitTypeOK, Counted
<1>5. Cardinality(Past(i, k)') \in Nat BY <1>2, FS_CardinalityType
<1>6. Counted(i, k) + Cardinality(Past(i, k)) < Limits[Table][i].most + Cardinality(Asking)
  BY DEF LimitInv, RacersBounded
<1>7. Limits[Table][i].most \in Nat BY CountsAreNumbers DEF LimitInv, Limit
<1> QED BY <1>1, <1>4, <1>5, <1>6, <1>7, CountsAreNumbers DEF LimitInv

\* A step that leaves no window more rows, and lets no request pass a check.
LEMMA FewerEverywhere ==
  ASSUME LimitInv, LimitTypeOK', UNCHANGED Table,
         \A i \in Checks, k \in Key :
           Counted(i, k)' <= Counted(i, k) /\ Past(i, k)' \subseteq Past(i, k)
  PROVE  LimitInv'
<1>1. ASSUME NEW i \in Checks, NEW k \in Key
      PROVE  Counted(i, k)' + Cardinality(Past(i, k)') < Limits[Table][i].most + Cardinality(Asking)
  BY FewerStayBounded
<1> QED BY <1>1 DEF LimitInv, RacersBounded, Checks

\* A new row is one more: of so many numbers one is not taken.
LEMMA FreshRow ==
  ASSUME LimitTypeOK, NEW q, q.by \in Senders, q.at \in Places
  PROVE  \E n \in Nat : /\ NewRow(q) = [by |-> q.by, at |-> q.at, age |-> 0, no |-> n]
                        /\ NewRow(q) \in Row \ recorded
<1> DEFINE row(n) == [by |-> q.by, at |-> q.at, age |-> 0, no |-> n]
           numbers == 1..(Cardinality(recorded) + 1)
<1>1. IsFiniteSet(recorded) /\ Cardinality(recorded) \in Nat
  BY FS_CardinalityType DEF LimitTypeOK
<1>2. IsFiniteSet(numbers) /\ Cardinality(numbers) = Cardinality(recorded) + 1
  BY <1>1, FS_Interval
<1>3. \E n \in numbers : row(n) \notin recorded
  <2> SUFFICES ASSUME \A n \in numbers : row(n) \in recorded PROVE FALSE OBVIOUS
  <2> DEFINE f == [n \in numbers |-> row(n)]
  <2>1. f \in [numbers -> recorded] OBVIOUS
  <2>2. Cardinality(recorded) < Cardinality(numbers) BY <1>1, <1>2
  <2>3. PICK n \in numbers, m \in numbers : n # m /\ f[n] = f[m]
    <3> HIDE DEF f, numbers
    <3> QED BY <1>1, <1>2, <2>1, <2>2, FS_PigeonHole
  <2>4. row(n).no = n /\ row(m).no = m OBVIOUS
  <2> QED BY <2>3, <2>4
<1> DEFINE n == CHOOSE m \in numbers : row(m) \notin recorded
<1>4. n \in numbers /\ row(n) \notin recorded BY <1>3
<1>5. n \in Nat BY <1>1, <1>4
<1>6. NewRow(q) = row(n) BY DEF NewRow
<1>7. row(n) \in Row BY <1>5 DEF Row
<1> QED BY <1>4, <1>5, <1>6, <1>7

\* A request ends.
LEMMA EndsRequest ==
  ASSUME LimitTypeOK, NEW a \in Asking, asking' = [asking EXCEPT ![a] = NoRequest],
         UNCHANGED Table
  PROVE  /\ asking' \in [Asking -> {NoRequest} \cup [step : Nat \ {0}, by : Senders, at : Places]]
         /\ \A i \in Checks, k \in Key : Past(i, k)' = Past(i, k) \ {a}
<1>1. asking' \in [Asking -> {NoRequest} \cup [step : Nat \ {0}, by : Senders, at : Places]]
  BY DEF LimitTypeOK
<1>2. asking'[a] = NoRequest /\ \A b \in Asking \ {a} : asking'[b] = asking[b] BY DEF LimitTypeOK
<1>3. ASSUME NEW i \in Checks, NEW k \in Key PROVE Past(i, k)' = Past(i, k) \ {a}
  <2>1. i \in Nat \ {0} BY CountsAreNumbers
  <2>2. ~(asking'[a].step > i) BY <1>2, <2>1 DEF NoRequest
  <2> QED BY <1>2, <2>2 DEF Past, SameKey
<1> QED BY <1>1, <1>3

LEMMA AskKeepsLimits ==
  ASSUME LimitInv, NEW a \in Asking, NEW o \in Origins, Ask(a, o)
  PROVE  LimitInv'
<1> DEFINE new == [step |-> 1, by |-> o[1], at |-> o[2]]
<1>1. new \in [step : Nat \ {0}, by : Senders, at : Places] BY LimitAssumption
<1>2. asking' = [asking EXCEPT ![a] = new] /\ UNCHANGED <<Table, recorded>> BY DEF Ask
<1>3. LimitTypeOK' BY <1>1, <1>2 DEF LimitInv, LimitTypeOK
<1>4. ASSUME NEW i \in Checks, NEW k \in Key
      PROVE  Counted(i, k)' = Counted(i, k) /\ Past(i, k)' \subseteq Past(i, k)
  <2>1. i \in Nat \ {0} BY CountsAreNumbers DEF LimitInv
  <2>2. asking'[a] = new /\ \A b \in Asking \ {a} : asking'[b] = asking[b]
    BY <1>2 DEF LimitInv, LimitTypeOK
  <2>3. ~(asking'[a].step > i) BY <2>1, <2>2
  <2> QED BY <1>2, <2>2, <2>3 DEF Past, SameKey, Counted, InWindow
<1> QED BY <1>2, <1>3, <1>4, FewerEverywhere, CountsAreNumbers DEF LimitInv

LEMMA CheckKeepsLimits ==
  ASSUME LimitInv, NEW a \in Asking, Check(a)
  PROVE  LimitInv'
<1> DEFINE j == asking[a].step
<1>1. j \in Checks /\ UNCHANGED <<Table, recorded>> BY DEF Check
<1>2. asking[a] \in [step : Nat \ {0}, by : Senders, at : Places]
  <2>1. j \in Nat \ {0} BY <1>1, CountsAreNumbers DEF LimitInv
  <2> QED BY <2>1 DEF LimitInv, LimitTypeOK, NoRequest
<1>3. \A i \in Checks, k \in Key : Counted(i, k)' = Counted(i, k)
  BY <1>1 DEF Counted, InWindow, SameKey
<1>4. CASE Allows(j, asking[a])
  <2> DEFINE next == [step |-> j + 1, by |-> asking[a].by, at |-> asking[a].at]
  <2>0. [asking[a] EXCEPT !.step = @ + 1] = next BY <1>2
  <2>1. asking' = [asking EXCEPT ![a] = next]
    <3>1. asking' = [asking EXCEPT ![a].step = @ + 1] BY <1>4 DEF Check
    <3> QED BY <2>0, <3>1, Zenon
  <2>2. /\ next \in [step : Nat \ {0}, by : Senders, at : Places]
        /\ next.step = j + 1 /\ next.by = asking[a].by /\ next.at = asking[a].at
    BY <1>2
  <2> HIDE DEF next
  <2>3. LimitTypeOK' BY <1>1, <2>1, <2>2 DEF LimitInv, LimitTypeOK
  <2>4. asking'[a] = next /\ \A b \in Asking \ {a} : asking'[b] = asking[b]
    BY <2>1 DEF LimitInv, LimitTypeOK
  <2>5. ASSUME NEW i \in Checks, NEW k \in Key
        PROVE  Counted(i, k)' + Cardinality(Past(i, k)') < Limits[Table][i].most + Cardinality(Asking)
    \* The request has seen fewer rows than the limit, and they are as many
    \* as are in flight at most.
    <3>1. CASE i = j /\ SameKey(asking[a], k, Limits[Table][i].fields)
      <4>1. InWindow(i, k) = InWindow(j, asking[a]) BY <3>1 DEF InWindow, SameKey
      <4>2. Counted(i, k) < Limits[Table][i].most BY <1>4, <3>1, <4>1 DEF Counted, Allows
      <4>3. Past(i, k)' \in SUBSET Asking BY DEF Past
      <4>4. Cardinality(Past(i, k)') <= Cardinality(Asking) /\ Cardinality(Past(i, k)') \in Nat
        BY <4>3, LimitAssumption, FS_Subset, FS_CardinalityType
      <4>5. Limits[Table][i].most \in Nat BY CountsAreNumbers DEF LimitInv, Limit
      <4> QED BY <1>3, <4>2, <4>4, <4>5, CountsAreNumbers DEF LimitInv
    <3>2. CASE i # j \/ ~SameKey(asking[a], k, Limits[Table][i].fields)
      <4>1. i \in Nat \ {0} /\ j \in Nat BY <1>2, CountsAreNumbers DEF LimitInv
      <4>2. a \in Past(i, k)' => a \in Past(i, k)
        BY <1>1, <2>2, <2>4, <3>2, <4>1 DEF Past, SameKey
      <4>3. Past(i, k)' \subseteq Past(i, k) BY <1>1, <2>4, <4>2 DEF Past, SameKey
      <4>4. Counted(i, k)' <= Counted(i, k) BY <1>3, CountsAreNumbers DEF LimitInv
      <4> QED BY <1>1, <2>3, <4>3, <4>4, FewerStayBounded
    <3> QED BY <3>1, <3>2
  <2> QED BY <1>1, <2>3, <2>5 DEF LimitInv, RacersBounded, Checks
<1>5. CASE ~Allows(j, asking[a])
  <2>1. asking' = [asking EXCEPT ![a] = NoRequest] BY <1>5 DEF Check, LimitInv, LimitTypeOK
  <2>2. LimitTypeOK' BY <1>1, <2>1, EndsRequest DEF LimitInv, LimitTypeOK
  <2>3. ASSUME NEW i \in Checks, NEW k \in Key
        PROVE  Counted(i, k)' <= Counted(i, k) /\ Past(i, k)' \subseteq Past(i, k)
    <3>1. Past(i, k)' = Past(i, k) \ {a} BY <1>1, <2>1, EndsRequest DEF LimitInv
    <3> QED BY <1>3, <3>1, CountsAreNumbers DEF LimitInv
  <2> QED BY <1>1, <2>2, <2>3, FewerEverywhere
<1> QED BY <1>4, <1>5

LEMMA RecordKeepsLimits ==
  ASSUME LimitInv, NEW a \in Asking, Record(a)
  PROVE  LimitInv'
<1> DEFINE new == NewRow(asking[a])
<1>1. /\ recorded' = recorded \cup {new} /\ UNCHANGED Table
      /\ asking' = [asking EXCEPT ![a] = NoRequest]
  BY DEF Record
<1>2. asking[a] \in [step : Nat \ {0}, by : Senders, at : Places]
      /\ asking[a].step = Len(Limits[Table]) + 1
  BY DEF Record, Passed, LimitInv, LimitTypeOK
<1>3. new \in Row \ recorded /\ new.by = asking[a].by /\ new.at = asking[a].at /\ new.age = 0
  BY <1>2, FreshRow DEF LimitInv
<1> HIDE DEF new
<1>4. LimitTypeOK' BY <1>1, <1>3, EndsRequest, FS_AddElement DEF LimitInv, LimitTypeOK
<1>5. ASSUME NEW i \in Checks, NEW k \in Key
      PROVE  Counted(i, k)' + Cardinality(Past(i, k)') < Limits[Table][i].most + Cardinality(Asking)
  <2>0. Past(i, k)' = Past(i, k) \ {a} BY <1>1, EndsRequest DEF LimitInv
  \* What it leaves the requests past the check by, it adds to the rows.
  <2>1. CASE SameKey(asking[a], k, Limits[Table][i].fields)
    <3>1. i \in Nat /\ i <= Len(Limits[Table]) /\ Len(Limits[Table]) \in Nat
      BY <1>2, CountsAreNumbers, LimitAssumption DEF LimitInv, LimitTypeOK
    <3>2. a \in Past(i, k) BY <1>2, <2>1, <3>1 DEF Past
    <3>3. Cardinality(Past(i, k)') = Cardinality(Past(i, k)) - 1
      BY <2>0, <3>2, CountsAreNumbers, FS_RemoveElement DEF LimitInv
    <3>4. InWindow(i, k)' \subseteq InWindow(i, k) \cup {new} BY <1>1 DEF InWindow, SameKey
    <3>5. IsFiniteSet(InWindow(i, k) \cup {new})
          /\ Cardinality(InWindow(i, k) \cup {new}) <= Counted(i, k) + 1
      <4>1. IsFiniteSet(InWindow(i, k)) /\ Counted(i, k) \in Nat BY CountsAreNumbers DEF LimitInv
      <4> DEFINE W == InWindow(i, k)
      <4>2. IsFiniteSet(W) /\ Cardinality(W) \in Nat BY <4>1 DEF Counted
      <4> HIDE DEF W
      <4>3. IsFiniteSet(W \cup {new}) /\ Cardinality(W \cup {new}) <= Cardinality(W) + 1
        <5>1. /\ IsFiniteSet(W \cup {new})
              /\ Cardinality(W \cup {new}) =
                   IF new \in W THEN Cardinality(W) ELSE Cardinality(W) + 1
          BY <4>2, FS_AddElement, Zenon
        <5> QED BY <4>2, <5>1
      <4> QED BY <4>3 DEF W, Counted
    <3>6. IsFiniteSet(InWindow(i, k)') /\ Counted(i, k)' <= Cardinality(InWindow(i, k) \cup {new})
      BY <3>4, <3>5, FS_Subset DEF Counted
    <3>7. Counted(i, k)' \in Nat /\ Cardinality(InWindow(i, k) \cup {new}) \in Nat
      BY <3>5, <3>6, FS_CardinalityType DEF Counted
    <3>8. Counted(i, k) + Cardinality(Past(i, k)) < Limits[Table][i].most + Cardinality(Asking)
      BY DEF LimitInv, RacersBounded
    <3>9. Limits[Table][i].most \in Nat BY CountsAreNumbers DEF LimitInv, Limit
    <3> QED BY <3>3, <3>5, <3>6, <3>7, <3>8, <3>9, CountsAreNumbers DEF LimitInv
  <2>2. CASE ~SameKey(asking[a], k, Limits[Table][i].fields)
    <3>1. ~SameKey(new, k, Limits[Table][i].fields) BY <1>3, <2>2 DEF SameKey
    <3>2. InWindow(i, k)' = InWindow(i, k) BY <1>1, <3>1 DEF InWindow, SameKey
    <3>3. Counted(i, k)' <= Counted(i, k) BY <3>2, CountsAreNumbers DEF LimitInv, Counted
    <3> QED BY <1>1, <1>4, <2>0, <3>3, FewerStayBounded
  <2> QED BY <2>1, <2>2
<1> QED BY <1>1, <1>4, <1>5 DEF LimitInv, RacersBounded, Checks

\* A request ends, and the table keeps its rows or loses some.
LEMMA EndKeepsLimits ==
  ASSUME LimitInv, NEW a \in Asking, Abandon(a) \/ LogsIn(a)
  PROVE  LimitInv'
<1>1. /\ recorded' \subseteq recorded /\ UNCHANGED Table
      /\ asking' = [asking EXCEPT ![a] = NoRequest]
  BY DEF Abandon, LogsIn
<1>2. LimitTypeOK' BY <1>1, EndsRequest, FS_Subset DEF LimitInv, LimitTypeOK
<1>3. ASSUME NEW i \in Checks, NEW k \in Key
      PROVE  Counted(i, k)' <= Counted(i, k) /\ Past(i, k)' \subseteq Past(i, k)
  <2>1. InWindow(i, k)' \in SUBSET InWindow(i, k) BY <1>1 DEF InWindow, SameKey
  <2>2. Counted(i, k)' <= Counted(i, k)
    BY <2>1, CountsAreNumbers, FS_Subset DEF LimitInv, Counted
  <2> QED BY <1>1, <2>2, EndsRequest DEF LimitInv
<1> QED BY <1>1, <1>2, <1>3, FewerEverywhere

\* Rows only grow out of a window.
LEMMA TimeKeepsLimits ==
  ASSUME LimitInv, TimePasses
  PROVE  LimitInv'
<1> DEFINE older(row) == [row EXCEPT !.age = row.age + 1]
           younger(row) == [row EXCEPT !.age = row.age - 1]
<1>1. UNCHANGED <<Table, asking>> BY DEF TimePasses
<1>2. \A row \in recorded' : /\ younger(row) \in recorded /\ row \in Row
                             /\ younger(row).age < row.age
                             /\ younger(row).by = row.by /\ younger(row).at = row.at
  <2> SUFFICES ASSUME NEW row \in recorded'
               PROVE  /\ younger(row) \in recorded /\ row \in Row
                      /\ younger(row).age < row.age
                      /\ younger(row).by = row.by /\ younger(row).at = row.at
    OBVIOUS
  <2>1. PICK was \in recorded : row = older(was) BY DEF TimePasses
  <2>2. was \in Row BY DEF LimitInv, LimitTypeOK
  <2>3. /\ was = [by |-> was.by, at |-> was.at, age |-> was.age, no |-> was.no]
        /\ was.by \in Senders /\ was.at \in Places /\ was.age \in Nat /\ was.no \in Nat
    BY <2>2 DEF Row
  <2>4. row = [by |-> was.by, at |-> was.at, age |-> was.age + 1, no |-> was.no] BY <2>1, <2>3
  <2>5. row \in Row BY <2>3, <2>4 DEF Row
  <2>6. younger(row) = was BY <2>3, <2>4
  <2> QED BY <2>3, <2>4, <2>5, <2>6
<1>3. \A row, other \in Row : younger(row) = younger(other) => row = other
  BY DEF Row
<1> HIDE DEF older, younger
<1>4. ASSUME NEW S \in SUBSET recorded', NEW T \in SUBSET recorded,
             \A row \in S : younger(row) \in T
      PROVE  IsFiniteSet(S) /\ Cardinality(S) <= Cardinality(T)
  <2> DEFINE f == [row \in S |-> younger(row)]
  <2>1. f \in [S -> T] BY <1>4
  <2>2. \A row, other \in S : f[row] = f[other] => row = other BY <1>2, <1>3
  <2>3. f \in Injection(S, T) BY <2>1, <2>2 DEF Injection, IsInjective
  <2>4. IsFiniteSet(T) BY FS_Subset DEF LimitInv, LimitTypeOK
  <2> QED BY <2>3, <2>4, FS_Injection
<1>5. LimitTypeOK'
  <2>1. IsFiniteSet(recorded') BY <1>2, <1>4
  <2> QED BY <1>1, <1>2, <2>1 DEF LimitInv, LimitTypeOK
<1>6. ASSUME NEW i \in Checks, NEW k \in Key
      PROVE  Counted(i, k)' <= Counted(i, k) /\ Past(i, k)' \subseteq Past(i, k)
  <2>1. Past(i, k)' = Past(i, k) BY <1>1 DEF Past, SameKey
  <2>2. Limits[Table][i].window \in Int BY CountsAreNumbers, LimitAssumption DEF LimitInv, Limit
  <2>3. ASSUME NEW row \in InWindow(i, k)' PROVE younger(row) \in InWindow(i, k)
    <3>1. row \in recorded' /\ row.age < Limits[Table][i].window
          /\ SameKey(row, k, Limits[Table][i].fields)
      BY <1>1 DEF InWindow, SameKey
    <3>2. younger(row) \in Row BY <1>2, <3>1 DEF LimitInv, LimitTypeOK
    <3>3. younger(row).age \in Int /\ row.age \in Int BY <1>2, <3>1, <3>2 DEF Row
    <3>4. younger(row).age < Limits[Table][i].window BY <1>2, <2>2, <3>1, <3>3
    <3> QED BY <1>2, <3>1, <3>4 DEF InWindow, SameKey
  <2>4. InWindow(i, k)' \in SUBSET recorded' /\ InWindow(i, k) \in SUBSET recorded
    BY DEF InWindow
  <2> QED BY <1>4, <2>1, <2>3, <2>4 DEF Counted
<1> QED BY <1>1, <1>5, <1>6, FewerEverywhere

LEMMA InitialLimits == LimitInit => LimitInv
<1> SUFFICES ASSUME LimitInit PROVE LimitInv OBVIOUS
<1>1. LimitTypeOK BY FS_EmptySet DEF LimitInit, LimitTypeOK
<1>2. ASSUME NEW i \in Checks, NEW k \in Key
      PROVE  Counted(i, k) + Cardinality(Past(i, k)) < Limits[Table][i].most + Cardinality(Asking)
  <2>1. i \in Nat \ {0} /\ Limits[Table][i].most \in Nat \ {0} /\ Cardinality(Asking) \in Nat
    BY <1>1, CountsAreNumbers DEF Limit
  <2>2. Past(i, k) = {} BY <2>1 DEF LimitInit, Past, NoRequest
  <2>3. InWindow(i, k) = {} BY DEF LimitInit, InWindow
  <2> QED BY <2>1, <2>2, <2>3, FS_EmptySet DEF Counted
<1> QED BY <1>1, <1>2 DEF LimitInv, RacersBounded

LEMMA LimitStep == LimitInv /\ [LimitNext]_limitVars => LimitInv'
<1> SUFFICES ASSUME LimitInv, [LimitNext]_limitVars PROVE LimitInv' OBVIOUS
<1>1. CASE TimePasses BY <1>1, TimeKeepsLimits
<1>2. CASE UNCHANGED <<Table, recorded, asking>>
  BY <1>2 DEF LimitInv, LimitTypeOK, RacersBounded, Checks, Counted, InWindow, Past, SameKey
<1>3. CleanUp \/ UNCHANGED limitVars => UNCHANGED <<Table, recorded, asking>>
  BY DEF CleanUp, limitVars
<1> QED
  BY <1>1, <1>2, <1>3, AskKeepsLimits, CheckKeepsLimits, RecordKeepsLimits, EndKeepsLimits
  DEF LimitNext

\* However many requests overtake one another between the counts and the rows
\* (ratelimit.service.ts), no window holds more than its limit and one row for
\* each other request.
THEOREM RacersExceedByOne == LimitSpec => []LimitsHold
<1>1. LimitInv => LimitsHold
  <2> SUFFICES ASSUME LimitInv, NEW i \in Checks, NEW o \in Origins
               PROVE  Counted(i, [by |-> o[1], at |-> o[2]])
                        < Limits[Table][i].most + Cardinality(Asking)
    BY DEF LimitsHold
  <2> DEFINE k == [by |-> o[1], at |-> o[2]]
  <2>1. k \in Key BY LimitAssumption DEF Key
  <2> HIDE DEF k
  <2>2. Counted(i, k) + Cardinality(Past(i, k)) < Limits[Table][i].most + Cardinality(Asking)
    BY <2>1 DEF LimitInv, RacersBounded
  <2>3. Limits[Table][i].most \in Nat BY CountsAreNumbers DEF LimitInv, Limit
  <2>4. Counted(i, k) < Limits[Table][i].most + Cardinality(Asking)
    BY <2>2, <2>3, CountsAreNumbers DEF LimitInv
  <2> QED BY <2>4 DEF k
<1> QED BY <1>1, InitialLimits, LimitStep, PTL DEF LimitSpec
=============================================================================
