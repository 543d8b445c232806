------------------------------ MODULE RateLimits ------------------------------
(***************************************************************************)
(* The limits on report submissions, password reset requests, sign-ups and  *)
(* failed logins: rows of an event table, counted per account, place, email  *)
(* or network over a sliding window.  Each count is a statement of its own,  *)
(* and the row is written later: a submission's in the transaction that      *)
(* stores the report, after the photo's upload; a failed login's after the   *)
(* password was compared.  Requests in flight have not been counted yet.     *)
(*                                                                          *)
(* The four tables are alike and never read together: a behaviour follows    *)
(* one of them, Table.                                                       *)
(***************************************************************************)
EXTENDS Integers, Sequences, FiniteSets

CONSTANTS
  Tables,     \* "report", "reset", "signup", "login"
  Limits,     \* Limits[t]: the checks of table t in their order, each with the
              \* fields it counts by, its window and the number it stops at
  Senders,    \* the account of a submission, the email of a reset or a login
  Places,     \* pins more than 25 m apart
  Asking,     \* requests that may be in flight at once
  Retention,  \* from which age the daily cleanup deletes a row, 30 days
  Origins     \* the senders with the places they send from

Limit == [fields : SUBSET {"sender", "place"}, window : 1..Retention, most : Nat \ {0}]

ASSUME LimitAssumption ==
  /\ Retention \in Nat
  /\ \A t \in Tables : Limits[t] \in Seq(Limit)
  /\ Origins \subseteq Senders \X Places
  /\ IsFiniteSet(Asking)

VARIABLES
  Table,     \* the table followed
  recorded,  \* its rows, told apart by their sender, place, age and a number
  old,       \* it has rows past the retention, which no window reaches
  asking     \* what each request in flight asks for and the check it is at

limitVars == <<Table, recorded, old, asking>>

(*------------------------------ Counting rows -----------------------------*)
NoRequest == [step |-> 0]
Checks == DOMAIN Limits[Table]

\* One network: a check that counts by it counts every row.
SameKey(row, q, fields) ==
  /\ "sender" \in fields => row.by = q.by
  /\ "place" \in fields => row.at = q.at

\* Rows the i-th check of a request counts.
InWindow(i, q) ==
  {row \in recorded : SameKey(row, q, Limits[Table][i].fields) /\ row.age < Limits[Table][i].window}

Counted(i, q) == Cardinality(InWindow(i, q))

\* Seeded fault (LimitsHold): one more than the limit passes.
AllowsOneMore(i, q) == Counted(i, q) <= Limits[Table][i].most

Allows(i, q) == Counted(i, q) < Limits[Table][i].most

\* A row with a number no row of its sender, place and age has.
NewRow(q) ==
  LET row(n) == [by |-> q.by, at |-> q.at, age |-> 0, no |-> n]
  IN row(CHOOSE n \in 1..(Cardinality(recorded) + 1) : row(n) \notin recorded)

(*--------------------------------- Requests -------------------------------*)
Ask(a, o) ==
  /\ asking[a] = NoRequest
  /\ asking' = [asking EXCEPT ![a] = [step |-> 1, by |-> o[1], at |-> o[2]]]
  /\ UNCHANGED <<Table, recorded, old>>

\* One count; a request past the limit is refused and writes nothing.
Check(a) ==
  /\ asking[a].step \in Checks
  /\ asking' = IF Allows(asking[a].step, asking[a])
                  THEN [asking EXCEPT ![a].step = @ + 1]
                  ELSE [asking EXCEPT ![a] = NoRequest]
  /\ UNCHANGED <<Table, recorded, old>>

Passed(a) == asking[a] # NoRequest /\ asking[a].step = Len(Limits[Table]) + 1

\* The row is written: with the report, before a reset's or a sign-up's own
\* work, after a rejected login.
Record(a) ==
  /\ Passed(a)
  /\ recorded' = recorded \cup {NewRow(asking[a])}
  /\ asking' = [asking EXCEPT ![a] = NoRequest]
  /\ UNCHANGED <<Table, old>>

\* A submission outside the municipality, a failed upload, a transaction that
\* rolls back: no row.  A reset or a sign-up has nothing between the two.
Abandon(a) ==
  /\ Passed(a) /\ Table = "report"
  /\ asking' = [asking EXCEPT ![a] = NoRequest]
  /\ UNCHANGED <<Table, recorded, old>>

\* A successful login deletes the failures of its email.
LogsIn(a) ==
  /\ Passed(a) /\ Table = "login"
  /\ recorded' = {row \in recorded : row.by # asking[a].by}
  /\ asking' = [asking EXCEPT ![a] = NoRequest]
  /\ UNCHANGED <<Table, old>>

TimePasses ==
  /\ recorded' = {[row EXCEPT !.age = @ + 1] : row \in {r \in recorded : r.age < Retention - 1}}
  /\ old' = (old \/ \E row \in recorded : row.age = Retention - 1)
  /\ UNCHANGED <<Table, asking>>

\* The daily cleanup.  Its DELETEs take a Date, which may make them throw: then
\* no row goes, as when this action is not taken.
CleanUp == old /\ old' = FALSE /\ UNCHANGED <<Table, recorded, asking>>

(*------------------------------ Specification -----------------------------*)
LimitInit ==
  /\ Table \in Tables
  /\ recorded = {}
  /\ old = FALSE
  /\ asking = [a \in Asking |-> NoRequest]

LimitNext ==
  \/ \E a \in Asking :
       \/ \E o \in Origins : Ask(a, o)
       \/ Check(a) \/ Record(a) \/ Abandon(a) \/ LogsIn(a)
  \/ TimePasses \/ CleanUp

LimitSpec == LimitInit /\ [][LimitNext]_limitVars

(*-------------------------------- Properties ------------------------------*)
\* However the requests overtake one another, no window ever holds more than
\* the limit and one for each other request that was in flight: a limit is
\* passed by the requests that raced it, never by more.
LimitsHold ==
  \A i \in Checks, o \in Origins :
    Counted(i, [by |-> o[1], at |-> o[2]]) < Limits[Table][i].most + Cardinality(Asking)
=============================================================================
