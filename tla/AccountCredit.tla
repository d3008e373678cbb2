---------------------------- MODULE AccountCredit ----------------------------
(***************************************************************************)
(* What the results bridge promises to an account, without saying how.  A  *)
(* point is earned in the match being played.  Now and then the master     *)
(* learns more about one match: it then credits each account with at least *)
(* as much as before, and never with more than was earned.                 *)
(***************************************************************************)
EXTENDS Integers

CONSTANTS
  Acct,   \* accounts
  Match   \* matches, numbered from 1

VARIABLES
  match,   \* the match being played
  earned,  \* what each account has earned in each match
  credit   \* what the master credits it with

vars == <<match, earned, credit>>

Init ==
  /\ match = 1
  /\ earned = [m \in Match |-> [p \in Acct |-> 0]]
  /\ credit = [m \in Match |-> [p \in Acct |-> 0]]

\* A point.
Earn(p) ==
  /\ earned' = [earned EXCEPT ![match][p] = @ + 1]
  /\ UNCHANGED <<match, credit>>

\* A new round, or a new process.
NextMatch ==
  /\ match + 1 \in Match
  /\ match' = match + 1
  /\ UNCHANGED <<earned, credit>>

\* The master hears of match m.
Report(m) ==
  /\ m <= match
  /\ credit' = [credit EXCEPT ![m] = credit'[m]]
  /\ \A p \in Acct : credit'[m][p] \in credit[m][p] .. earned[m][p]
  /\ UNCHANGED <<match, earned>>

Next ==
  \/ \E p \in Acct : Earn(p)
  \/ NextMatch
  \/ \E m \in Match : Report(m)

Spec == Init /\ [][Next]_vars
=============================================================================
