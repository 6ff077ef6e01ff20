--------------------------- MODULE MCLeaveCredit ---------------------------
(***************************************************************************)
(* Instances of LeaveCredit: a row with a monthly policy that expires at   *)
(* every month, one with a yearly carry cap, one granted upfront, and a    *)
(* comp-off row without a policy. December is the second of three months.  *)
(***************************************************************************)
EXTENDS LeaveCredit, TLC

CONSTANTS monthly, yearly, upfront, compoff

MCPolicy ==
    [p \in PEs |->
        [kind    |-> CASE p = upfront -> "Upfront"
                       [] p = compoff -> "None"
                       [] OTHER       -> "Monthly",
         initial |-> 0,
         amount  |-> IF p = compoff THEN 0 ELSE 1,
         expire  |-> CASE p = monthly -> "Month"
                       [] p = yearly  -> "Year"
                       [] OTHER       -> "Never",
         cap     |-> IF p = yearly THEN 1 ELSE NoLimit,
         limit   |-> NoLimit]]
=============================================================================
