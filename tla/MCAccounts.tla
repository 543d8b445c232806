------------------------------ MODULE MCAccounts ------------------------------
(* Who administers, who is signed in, how citizens sign in, and the limits on   *)
(* requests.  The four share no state that the modules look at: each behaviour  *)
(* follows one of them, the others standing still.  Their requests have the    *)
(* same names, so that one symmetry is enough.                                  *)
EXTENDS AdminAccounts, StaffSessions, CitizenLogins, RateLimits, TLC

CONSTANTS g1, g2, juan, s1, s2, p1, p2

VARIABLE part  \* the one followed

\* Two Google accounts of one address.
MCMailOf == [g \in {g1, g2} |-> juan]

MCOrigins == {<<s1, p1>>, <<s1, p2>>, <<s2, p1>>}
MCLimit(fields, window, most) == [fields |-> fields, window |-> window, most |-> most]
MCLimits ==
  [report |-> <<MCLimit({"sender"}, 1, 2), MCLimit({"sender", "place"}, 2, 1), MCLimit({}, 1, 3)>>,
   reset  |-> <<MCLimit({"sender"}, 2, 1), MCLimit({}, 2, 2)>>,
   signup |-> <<MCLimit({}, 2, 2)>>,
   login  |-> <<MCLimit({"sender"}, 2, 2)>>]

RequestSymmetry == Permutations(Requests)

MCInit ==
  /\ part \in {"admins", "sessions", "logins", "limits"}
  /\ Init /\ (part # "admins" => sysAdmin = Accounts /\ active = Accounts)
  /\ SessionInit /\ (part # "sessions" => account.authority = CHOOSE a \in Authorities : TRUE)
  /\ LoginInit
  /\ LimitInit /\ (part # "limits" => Table = CHOOSE t \in Tables : TRUE)

MCNext ==
  /\ UNCHANGED part
  /\ \/ part = "admins"   /\ Next        /\ UNCHANGED <<sessionVars, loginVars, limitVars>>
     \/ part = "sessions" /\ SessionNext /\ UNCHANGED <<vars, loginVars, limitVars>>
     \/ part = "logins"   /\ LoginNext   /\ UNCHANGED <<vars, sessionVars, limitVars>>
     \/ part = "limits"   /\ LimitNext   /\ UNCHANGED <<vars, sessionVars, loginVars>>

MCSpec == MCInit /\ [][MCNext]_<<part, vars, sessionVars, loginVars, limitVars>>
=============================================================================
