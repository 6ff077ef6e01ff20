---------------------------- MODULE LeaveAccount ----------------------------
(***************************************************************************)
(* What the leave ledger promises whoever shares a balance of paid leave:  *)
(* a holder's charge is set to what is agreed at one moment, out of what   *)
(* the balance holds at that moment and what the holder gives back.        *)
(* TimesheetLedger implements it, a timesheet being a holder.              *)
(***************************************************************************)
EXTENDS Integers

CONSTANTS Holders,
          Opening,   \* the balance to begin with
          Days       \* what a holder may be charged

VARIABLES balance, charged

accountVars == <<balance, charged>>

AccountInit ==
    /\ balance = Opening
    /\ charged = [h \in Holders |-> 0]

\* Another day is granted.
Grant ==
    /\ balance' = balance + 1
    /\ UNCHANGED charged

\* The charge of h becomes n days, paid for by the balance.
Charge(h, n) ==
    /\ n - charged[h] <= balance
    /\ balance' = balance - (n - charged[h])
    /\ charged' = [charged EXCEPT ![h] = n]

AccountNext == Grant \/ \E h \in Holders, n \in Days : Charge(h, n)

Spec == AccountInit /\ [][AccountNext]_accountVars
=============================================================================
