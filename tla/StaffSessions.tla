----------------------------- MODULE StaffSessions -----------------------------
(***************************************************************************)
(* One staff account and its sessions (api/src/auth, api/src/admin).  A      *)
(* session is a signed token nothing is stored of: it carries the account's  *)
(* authority and the whole second it was signed in, and every request        *)
(* compares it with the account's row.  A password change, a reset by a      *)
(* System Administrator, a logout, a deactivation and a change of authority  *)
(* take the time of the request and write it as the instant from which       *)
(* sessions hold; a password change then signs its own request a new token.  *)
(***************************************************************************)
EXTENDS Integers

CONSTANTS
  Authorities,    \* account type, office and Focal responsibility together
  StaffRequests,  \* the account's requests in flight
  TicksPerSecond, \* instants the clock tells apart within a second
  LastTick        \* bound of the model

ASSUME SessionAssumption == TicksPerSecond \in Nat \ {0} /\ LastTick \in Nat

VARIABLES
  clock,
  account,   \* admins.is_active, the authority, session_valid_after (-1 for NULL)
  sessions,  \* the tokens signed, with the instant of their signature
  asked      \* what each request is at

sessionVars == <<clock, account, sessions, asked>>

SecondOf(t) == t \div TicksPerSecond
NoAsk == [op |-> "none"]

\* Signed with the clock's second: the instant itself is for the properties.
Token(authority) == [authority |-> authority, iat |-> SecondOf(clock), signed |-> clock]

\* Seeded fault (NewSessionsWork): the cutoff is compared to the millisecond.
HoldsToTheInstant(token, acc) ==
  /\ acc.active /\ token.authority = acc.authority
  /\ acc.validAfter < 0 \/ token.iat * TicksPerSecond >= acc.validAfter

\* verifyAdminSession.
Holds(token, acc) ==
  /\ acc.active /\ token.authority = acc.authority
  /\ acc.validAfter < 0 \/ token.iat >= SecondOf(acc.validAfter)

\* Operations that stamp the time of the request before their row is locked,
\* and those that hold the row's lock when they take it.
Unlocked == {"password", "logout", "reset"}
Locked == {"reassign", "deactivate"}

NotAsked(q) == asked[q] = NoAsk
RowFree(q) == \A p \in StaffRequests \ {q} : asked[p].op \notin Locked

(*--------------------------------- Operations -----------------------------*)
\* adminLogin reads the row, compares the password and signs what it read.
Login(q) ==
  /\ NotAsked(q) /\ account.active
  /\ asked' = [asked EXCEPT ![q] = [op |-> "login", authority |-> account.authority]]
  /\ UNCHANGED <<clock, account, sessions>>

SignIn(q) ==
  /\ asked[q].op \in {"login", "rotate"}
  /\ sessions' = sessions \cup {Token(asked[q].authority)}
  /\ asked' = [asked EXCEPT ![q] = NoAsk]
  /\ UNCHANGED <<clock, account>>

\* Of a request by the account itself, whose session the guard accepted.
StampOwn(q, op, token) ==
  /\ NotAsked(q) /\ Holds(token, account)
  /\ asked' = [asked EXCEPT ![q] = [op |-> op, at |-> clock, authority |-> token.authority]]
  /\ UNCHANGED <<clock, account, sessions>>

StampReset(q) ==
  /\ NotAsked(q)
  /\ asked' = [asked EXCEPT ![q] = [op |-> "reset", at |-> clock]]
  /\ UNCHANGED <<clock, account, sessions>>

\* setActive and update: the row is locked first.
StampLocked(q, op, authority) ==
  /\ NotAsked(q) /\ RowFree(q)
  /\ op = "deactivate" => account.active
  /\ op = "reassign" => authority # account.authority
  /\ asked' = [asked EXCEPT ![q] = [op |-> op, at |-> clock, authority |-> authority]]
  /\ UNCHANGED <<clock, account, sessions>>

CommitStamp(q) ==
  /\ asked[q].op \in Unlocked \cup Locked /\ RowFree(q)
  /\ account' = [active |-> account.active /\ asked[q].op # "deactivate",
                 authority |-> IF asked[q].op = "reassign" THEN asked[q].authority
                               ELSE account.authority,
                 validAfter |-> asked[q].at]
  /\ asked' = [asked EXCEPT ![q] =
       IF @.op = "password" THEN [op |-> "rotate", authority |-> @.authority] ELSE NoAsk]
  /\ UNCHANGED <<clock, sessions>>

\* Reactivation leaves session_valid_after as it is.
Activate ==
  /\ ~account.active /\ \A p \in StaffRequests : asked[p].op \notin Locked
  /\ account' = [account EXCEPT !.active = TRUE]
  /\ UNCHANGED <<clock, sessions, asked>>

Tick == clock < LastTick /\ clock' = clock + 1 /\ UNCHANGED <<account, sessions, asked>>

(*------------------------------ Specification -----------------------------*)
SessionInit ==
  /\ clock = 0
  /\ \E a \in Authorities : account = [active |-> TRUE, authority |-> a, validAfter |-> -1]
  /\ sessions = {}
  /\ asked = [q \in StaffRequests |-> NoAsk]

SessionNext ==
  \/ \E q \in StaffRequests :
       \/ Login(q) \/ SignIn(q) \/ CommitStamp(q)
       \/ StampReset(q)
       \/ \E op \in {"password", "logout"}, token \in sessions : StampOwn(q, op, token)
       \/ \E op \in Locked, a \in Authorities : StampLocked(q, op, a)
  \/ Activate \/ Tick

SessionSpec == SessionInit /\ [][SessionNext]_sessionVars

(*-------------------------------- Properties ------------------------------*)
\* A session signed once everything that ended sessions was requested works,
\* for as long as the account is active with the authority it was signed for:
\* whoever changes their password, or logs in right after a logout or a reset,
\* is signed in although the token only tells its second.
NewSessionsWork ==
  \A token \in sessions :
    /\ account.active /\ token.authority = account.authority
    /\ token.signed >= account.validAfter
    => Holds(token, account)
=============================================================================
