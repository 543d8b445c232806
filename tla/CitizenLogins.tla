----------------------------- MODULE CitizenLogins -----------------------------
(***************************************************************************)
(* How citizens sign in: a password, a linked Google account, or both.       *)
(* Signing up, the Google callback, linking and unlinking on the account     *)
(* page and setting a password each read first and write in a later          *)
(* statement.  The indexes on email, on (provider, subject) and on           *)
(* (citizen, provider) refuse what another request wrote in between; nothing *)
(* of the kind guards an unlink.                                             *)
(***************************************************************************)
EXTENDS FiniteSets

CONSTANTS
  Emails,          \* citizens.email: a citizen is told by it
  GoogleAccounts,  \* subjects of the provider
  MailOf,          \* the verified email of each Google account
  AccountRequests, \* requests in flight
  Unlinked         \* no identity row

ASSUME LoginAssumption == MailOf \in [GoogleAccounts -> Emails] /\ Unlinked \notin GoogleAccounts

VARIABLES
  citizens,      \* rows
  withPassword,  \* password_hash is set
  identity,      \* citizen_identities: each citizen's Google account
  resetLinks,    \* citizens who were sent a reset link that is still good
  call           \* what each request is at and has read

loginVars == <<citizens, withPassword, identity, resetLinks, call>>

NoCall == [op |-> "none"]
FreeCall(q) == call[q] = NoCall
Does(q, c)  == call' = [call EXCEPT ![q] = c]
Done(q)     == Does(q, NoCall)
Taken(g)    == \E c \in Emails : identity[c] = g

(*--------------------------- Signing up and signing in --------------------*)
\* citizenSignup: an email that is taken is refused.
SignUp(q, c) ==
  /\ FreeCall(q) /\ c \notin citizens
  /\ Does(q, [op |-> "signUp", who |-> c])
  /\ UNCHANGED <<citizens, withPassword, identity, resetLinks>>

InsertCitizen(q) ==
  /\ call[q].op = "signUp"
  /\ LET c == call[q].who IN
       \/ /\ c \notin citizens
          /\ citizens' = citizens \cup {c} /\ withPassword' = withPassword \cup {c}
       \/ c \in citizens /\ UNCHANGED <<citizens, withPassword>>
  /\ Done(q) /\ UNCHANGED <<identity, resetLinks>>

\* loginOrCreate of an account that is nobody's, with an unused email.  One
\* that is linked signs in; a used email must be linked from the account.
MeetGoogle(q, g) ==
  /\ FreeCall(q) /\ ~Taken(g) /\ MailOf[g] \notin citizens
  /\ Does(q, [op |-> "create", who |-> MailOf[g], google |-> g])
  /\ UNCHANGED <<citizens, withPassword, identity, resetLinks>>

\* Citizen and identity in one transaction, or an index refuses both.
CreateWithGoogle(q) ==
  /\ call[q].op = "create"
  /\ LET c == call[q].who IN
       IF c \in citizens \/ Taken(call[q].google) THEN UNCHANGED <<citizens, identity>>
       ELSE /\ citizens' = citizens \cup {c}
            /\ identity' = [identity EXCEPT ![c] = call[q].google]
  /\ Done(q) /\ UNCHANGED <<withPassword, resetLinks>>

(*-------------------------------- The account page ------------------------*)
\* linkIdentity.
Link(q, c, g) ==
  /\ FreeCall(q) /\ c \in citizens
  /\ ~Taken(g) /\ identity[c] = Unlinked
  /\ Does(q, [op |-> "link", who |-> c, google |-> g])
  /\ UNCHANGED <<citizens, withPassword, identity, resetLinks>>

InsertIdentity(q) ==
  /\ call[q].op = "link"
  /\ identity' = IF Taken(call[q].google) \/ identity[call[q].who] # Unlinked THEN identity
                 ELSE [identity EXCEPT ![call[q].who] = call[q].google]
  /\ Done(q) /\ UNCHANGED <<citizens, withPassword, resetLinks>>

\* unlinkProvider: the password, the identities, then the delete.
Unlink(q, c) ==
  /\ FreeCall(q) /\ c \in citizens
  /\ Does(q, [op |-> "unlink", who |-> c, hasPassword |-> c \in withPassword])
  /\ UNCHANGED <<citizens, withPassword, identity, resetLinks>>

\* Seeded fault (AlwaysAWayIn): the identity counts as remaining.
CountIdentitiesLoosely(q) ==
  /\ call[q].op = "unlink"
  /\ IF identity[call[q].who] # Unlinked
       THEN Does(q, [op |-> "delete", who |-> call[q].who]) ELSE Done(q)
  /\ UNCHANGED <<citizens, withPassword, identity, resetLinks>>

\* One provider: what remains is the password.
CountIdentities(q) ==
  /\ call[q].op = "unlink"
  /\ IF identity[call[q].who] # Unlinked /\ call[q].hasPassword
       THEN Does(q, [op |-> "delete", who |-> call[q].who]) ELSE Done(q)
  /\ UNCHANGED <<citizens, withPassword, identity, resetLinks>>

DeleteIdentity(q) ==
  /\ call[q].op = "delete"
  /\ identity' = [identity EXCEPT ![call[q].who] = Unlinked]
  /\ Done(q) /\ UNCHANGED <<citizens, withPassword, resetLinks>>

\* setOrChangePassword, its proof given, and resetPassword.
NewPassword(q, c) ==
  /\ FreeCall(q) /\ c \in citizens
  /\ Does(q, [op |-> "password", who |-> c])
  /\ UNCHANGED <<citizens, withPassword, identity, resetLinks>>

FollowLink(q, c) ==
  /\ FreeCall(q) /\ c \in resetLinks
  /\ Does(q, [op |-> "reset", who |-> c])
  /\ UNCHANGED <<citizens, withPassword, identity, resetLinks>>

StorePassword(q) ==
  /\ call[q].op \in {"password", "reset"}
  /\ withPassword' = withPassword \cup {call[q].who}
  /\ resetLinks' = IF call[q].op = "reset" THEN resetLinks \ {call[q].who} ELSE resetLinks
  /\ Done(q) /\ UNCHANGED <<citizens, identity>>

\* requestReset: an account without a password is told to use Google.
RequestReset(c) ==
  /\ c \in withPassword /\ resetLinks' = resetLinks \cup {c}
  /\ UNCHANGED <<citizens, withPassword, identity, call>>

LinkExpires(c) ==
  /\ c \in resetLinks /\ resetLinks' = resetLinks \ {c}
  /\ UNCHANGED <<citizens, withPassword, identity, call>>

(*------------------------------ Specification -----------------------------*)
LoginInit ==
  /\ citizens = {} /\ withPassword = {} /\ resetLinks = {}
  /\ identity = [c \in Emails |-> Unlinked]
  /\ call = [q \in AccountRequests |-> NoCall]

LoginNext ==
  \/ \E q \in AccountRequests :
       \/ InsertCitizen(q) \/ CreateWithGoogle(q) \/ InsertIdentity(q)
       \/ CountIdentities(q) \/ DeleteIdentity(q) \/ StorePassword(q)
       \/ \E g \in GoogleAccounts : MeetGoogle(q, g)
       \/ \E c \in Emails :
            \/ SignUp(q, c) \/ Unlink(q, c) \/ NewPassword(q, c) \/ FollowLink(q, c)
            \/ \E g \in GoogleAccounts : Link(q, c, g)
  \/ \E c \in Emails : RequestReset(c) \/ LinkExpires(c)

LoginSpec == LoginInit /\ [][LoginNext]_loginVars

(*-------------------------------- Properties ------------------------------*)
\* A citizen always keeps a way to sign in, although an unlink counts what
\* remains in two reads and deletes in a third statement, while other requests
\* of the same citizen link, unlink and set passwords.
AlwaysAWayIn == \A c \in citizens : c \in withPassword \/ identity[c] # Unlinked
=============================================================================
