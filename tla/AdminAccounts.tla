----------------------------- MODULE AdminAccounts -----------------------------
(***************************************************************************)
(* AdminsService.update and setActive (api/src/admin): each transaction     *)
(* locks the active System Administrators in id order, then the account it  *)
(* changes, and refuses to remove the last active System Administrator.     *)
(*                                                                         *)
(* The SELECT ... ORDER BY id FOR UPDATE finds its rows in the statement's  *)
(* snapshot, waits for each, and returns those that still qualify when      *)
(* their lock is obtained.  PostgreSQL aborts a transaction of a cycle of   *)
(* waits.                                                                  *)
(***************************************************************************)
EXTENDS Naturals, FiniteSets

CONSTANTS
  Accounts,  \* admins.id
  Requests

ASSUME AccountsAssumption == Accounts \subseteq Nat /\ IsFiniteSet(Accounts)

VARIABLES
  sysAdmin,  \* admins.account_type = SYSTEM_ADMIN
  active,    \* admins.is_active
  req        \* the transactions in flight

vars == <<sysAdmin, active, req>>

Ops == {"demote", "promote", "deactivate", "activate"}

\* What is still to be locked of the snapshot's rows, the rows held, and the
\* rows the SELECT returns.
Idle    == [op |-> "none", holds |-> {}]
Request == [op : Ops, target : Accounts, todo : SUBSET Accounts,
            holds : SUBSET Accounts, returned : SUBSET Accounts]

TypeOK ==
  /\ sysAdmin \in SUBSET Accounts
  /\ active \in SUBSET Accounts
  /\ req \in [Requests -> {Idle} \cup Request]

ActiveSystemAdmins == sysAdmin \cap active

InFlight(q)  == req[q].op # "none"
Free(row, q) == \A p \in Requests \ {q} : row \notin req[p].holds
Ends(q)      == req' = [req EXCEPT ![q] = Idle]

\* The guard let an active System Administrator in on an earlier read, which
\* says nothing of the accounts by the time the SELECT takes its snapshot.  A
\* request about one's own account takes the same locks and writes nothing,
\* as a refused one does.
Begin(q, op, target) ==
  /\ ~InFlight(q)
  /\ req' = [req EXCEPT ![q] = [op |-> op, target |-> target, todo |-> ActiveSystemAdmins,
                                holds |-> {}, returned |-> {}]]
  /\ UNCHANGED <<sysAdmin, active>>

\* Seeded fault: the rows are those of the snapshot.
LockNextUnchecked(q) ==
  /\ InFlight(q) /\ req[q].todo # {}
  /\ \E row \in req[q].todo :
       /\ \A other \in req[q].todo : row <= other
       /\ Free(row, q)
       /\ req' = [req EXCEPT ![q].todo = @ \ {row},
                             ![q].holds = @ \cup {row},
                             ![q].returned = @ \cup {row}]
  /\ UNCHANGED <<sysAdmin, active>>

\* lockActiveSystemAdmins, one row: the lowest id that is left.
LockNext(q) ==
  /\ InFlight(q) /\ req[q].todo # {}
  /\ \E row \in req[q].todo :
       /\ \A other \in req[q].todo : row <= other
       /\ Free(row, q)
       /\ req' = [req EXCEPT ![q].todo = @ \ {row},
                             ![q].holds = @ \cup {row},
                             ![q].returned = @ \cup ({row} \cap ActiveSystemAdmins)]
  /\ UNCHANGED <<sysAdmin, active>>

\* The last active System Administrator is not removed.
MayRemove(q) ==
  req[q].target \in ActiveSystemAdmins => Cardinality(req[q].returned) > 1

\* The target's lock, the checks on its locked row, the write, the commit.
Commit(q) ==
  /\ InFlight(q) /\ req[q].todo = {} /\ Free(req[q].target, q)
  /\ LET target == req[q].target IN
     \/ /\ req[q].op = "demote" /\ target \in sysAdmin /\ MayRemove(q)
        /\ sysAdmin' = sysAdmin \ {target} /\ UNCHANGED active
     \/ /\ req[q].op = "promote"
        /\ sysAdmin' = sysAdmin \cup {target} /\ UNCHANGED active
     \/ /\ req[q].op = "deactivate" /\ target \in active /\ MayRemove(q)
        /\ active' = active \ {target} /\ UNCHANGED sysAdmin
     \/ /\ req[q].op = "activate"
        /\ active' = active \cup {target} /\ UNCHANGED sysAdmin
  /\ Ends(q)

\* A refusal (409), a no-op, or a failed statement.
Refuse(q) ==
  /\ InFlight(q)
  /\ Ends(q)
  /\ UNCHANGED <<sysAdmin, active>>

Init ==
  /\ sysAdmin \in SUBSET Accounts /\ active \in SUBSET Accounts
  /\ ActiveSystemAdmins # {}
  /\ req = [q \in Requests |-> Idle]

Next == \E q \in Requests :
  \/ \E op \in Ops, target \in Accounts : Begin(q, op, target)
  \/ LockNext(q) \/ Commit(q) \/ Refuse(q)

Spec == Init /\ [][Next]_vars

(***************************************************************************)
(* Properties                                                              *)
(***************************************************************************)
\* Whatever removals race, also several of different administrators at once,
\* somebody can still administer the accounts.
AnAdministratorRemains == ActiveSystemAdmins # {}
=============================================================================
