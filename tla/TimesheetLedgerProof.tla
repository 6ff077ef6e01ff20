------------------------ MODULE TimesheetLedgerProof ------------------------
(***************************************************************************)
(* Theorems about TimesheetLedger: types and the conservation of paid      *)
(* leave for any number of overlapping requests; the accounts of leave     *)
(* days and of comp-off for requests that overlap on different sheets; the *)
(* Comp-Off balance for one request at a time.                             *)
(*                                                                         *)
(* The balances are sums over the sheets (FiniteSums).                     *)
(***************************************************************************)
EXTENDS TimesheetLedger, FiniteSums

----------------------------------------------------------------------------
(* Types.                                                                   *)

\* The model's total is that sum.
LEMMA TotalIsSum ==
  ASSUME NEW days
  PROVE Total(days) = SumOver(Sheets, days)
  BY DEF Total, SumOver

\* What the classification returns.
LEMMA PaidDaysBounds ==
  ASSUME NEW leave \in Nat, NEW available \in Int
  PROVE /\ PaidDays(leave, available) \in 0..leave
        /\ LopDays(leave, available) \in 0..leave
        /\ LopDays(leave, available) = leave - PaidDays(leave, available)
  BY DEF PaidDays, LopDays, Smaller, AtLeast0

LEMMA NetCompOffBounds ==
  ASSUME NEW work \in Nat, NEW lopDays \in Nat
  PROVE NetCompOff(work, lopDays) \in 0..work
  BY DEF NetCompOff, Smaller

\* Types of the records the actions write.
LEMMA NoRequestType == NoRequest \in RequestType
<1>1. (CHOOSE s \in Sheets : TRUE) \in Sheets BY ConstantsAssumption
<1>2. NoSheet \in SheetType BY ConstantsAssumption DEF NoSheet, SheetType
<1>3. <<0, 0>> \in Entries BY ConstantsAssumption DEF Entries
<1> QED BY <1>1, <1>2, <1>3 DEF NoRequest, RequestType

LEMMA EntryType ==
  ASSUME NEW to \in Entries
  PROVE to[1] \in 0..MaxLeave /\ to[2] \in 0..MaxWork
  BY DEF Entries

LEMMA FinishType ==
  ASSUME TypeOK, NEW a \in Actors, Finish(a)
  PROVE request' \in [Actors -> RequestType]
  BY NoRequestType DEF TypeOK, Finish

LEMMA WrittenType ==
  ASSUME TypeOK, NEW s \in Sheets, NEW seen, NEW earned \in Int,
         NEW status \in {"Absent", "Draft", "Submitted", "Approved", "Rejected", "Deleted"}
  PROVE Written(s, seen, status, earned) \in SheetType
  BY DEF TypeOK, Written, SheetType

LEMMA ConsumeType ==
  ASSUME TypeOK, NEW s \in Sheets, NEW paid \in Int, NEW lopDays \in Int,
         Consume(s, paid, lopDays)
  PROVE /\ used' \in [Sheets -> Int] /\ lop' \in [Sheets -> Int]
        /\ balance' \in Int
  BY DEF TypeOK, Consume, AtLeast0

LEMMA AccrueType ==
  ASSUME TypeOK, NEW s \in Sheets, NEW seen \in SheetType, NEW earned \in Int,
         NEW from \in Int, Accrue(s, seen, earned, from)
  PROVE comp' \in Int /\ compEvents' \in [Sheets -> Int]
  BY DEF TypeOK, Accrue, SheetType

\* What an actor's request holds.
LEMMA RequestFacts ==
  ASSUME TypeOK, NEW a \in Actors
  PROVE /\ request[a] \in RequestType
        /\ request[a].on \in Sheets /\ request[a].seen \in SheetType
        /\ sheet[request[a].on] \in SheetType
        /\ request[a].seen.leave \in Nat /\ request[a].seen.work \in Nat
        /\ request[a].to[1] \in 0..MaxLeave /\ request[a].to[2] \in 0..MaxWork
        /\ request[a].to[1] \in Nat /\ request[a].to[2] \in Nat
        /\ request[a].prior \in Int /\ request[a].earned \in Int
        /\ request[a].comp \in Int /\ used[request[a].on] \in Int
<1>1. request[a] \in RequestType BY DEF TypeOK
<1>2. request[a].to \in Entries BY <1>1 DEF RequestType
<1> QED BY <1>1, <1>2, EntryType, ConstantsAssumption DEF RequestType, SheetType, TypeOK

LEMMA TypeInit == Init => TypeOK
<1>1. NoSheet \in SheetType BY ConstantsAssumption DEF NoSheet, SheetType
<1> QED BY <1>1, NoRequestType, ConstantsAssumption DEF Init, TypeOK

\* The types are preserved by each action.
LEMMA TypeLoad ==
  ASSUME TypeOK, NEW a \in Actors, Load(a)
  PROVE TypeOK'
<1>1. PICK s \in Serves[a], op \in Operations \ {"credit"} :
         \E to \in (IF op = "upsert" THEN Entries ELSE {<<0, 0>>}) : Begin(a, op, s, to)
  BY DEF Load
<1>2. PICK to \in (IF op = "upsert" THEN Entries ELSE {<<0, 0>>}) : Begin(a, op, s, to)
  BY <1>1
<1>3. s \in Sheets /\ to \in Entries /\ sheet[s] \in SheetType
  BY ConstantsAssumption DEF Entries, TypeOK
<1>4. request' \in [Actors -> RequestType]
  <2>1. [NoRequest EXCEPT !.op = op, !.on = s, !.seen = sheet[s], !.phase = "loaded",
                          !.to = to, !.linked = s \in invoice] \in RequestType
    <3> DEFINE linked == s \in invoice
    <3>1. linked \in BOOLEAN /\ op \in Operations \cup {"none"} OBVIOUS
    <3> HIDE DEF linked
    <3>2. [NoRequest EXCEPT !.op = op, !.on = s, !.seen = sheet[s], !.phase = "loaded",
                            !.to = to, !.linked = linked] \in RequestType
      BY <1>3, <3>1, NoRequestType DEF RequestType
    <3> QED BY <3>2 DEF linked
  <2> QED BY <1>2, <2>1 DEF Begin, TypeOK
<1> QED BY <1>4 DEF TypeOK, Load, ledger

LEMMA TypeReadPrior ==
  ASSUME TypeOK, NEW a \in Actors, ReadPrior(a)
  PROVE TypeOK'
<1> DEFINE r == request[a]
           leave == IF r.op = "upsert" THEN r.to[1] ELSE r.seen.leave
           work == IF r.op = "upsert" THEN r.to[2] ELSE r.seen.work
           earned == NetCompOff(work, LopDays(leave, balance + used[r.on]))
<1>1. leave \in Nat /\ work \in Nat /\ used[r.on] \in Int /\ balance \in Int
  BY RequestFacts DEF TypeOK
<1>2. earned \in Int
  <2>1. LopDays(leave, balance + used[r.on]) \in Nat
    <3> DEFINE available == balance + used[r.on]
    <3>1. available \in Int BY <1>1
    <3> HIDE DEF leave, available
    <3>2. LopDays(leave, available) \in 0..leave BY <1>1, <3>1, PaidDaysBounds
    <3>3. LopDays(leave, available) \in Nat BY <1>1, <3>2
    <3> QED BY <3>3 DEF available
  <2> HIDE DEF leave, work
  <2> QED BY <1>1, <2>1, NetCompOffBounds
<1>3. request' = [request EXCEPT ![a].phase = "read", ![a].prior = used[r.on],
                                 ![a].earned = earned, ![a].comp = comp]
  BY DEF ReadPrior
<1>4. request' \in [Actors -> RequestType]
  <2> DEFINE new == [r EXCEPT !.phase = "read", !.prior = used[r.on],
                              !.earned = earned, !.comp = comp]
  <2>1. new \in RequestType
    <3> HIDE DEF earned
    <3>1. r \in RequestType /\ comp \in Int BY RequestFacts DEF TypeOK
    <3> HIDE DEF r
    <3> QED BY <1>1, <1>2, <3>1 DEF RequestType
  <2>2. request' = [request EXCEPT ![a] = new] BY <1>3
  <2> HIDE DEF new
  <2> QED BY <2>1, <2>2 DEF TypeOK
<1> QED BY <1>4 DEF TypeOK, ReadPrior, ledger

\* What a submission or an approval takes and leaves unpaid, and what it grants.
LEMMA ClassifiedType ==
  ASSUME NEW leave \in Nat, NEW available \in Int
  PROVE /\ PaidDays(leave, available) \in Nat
        /\ leave - PaidDays(leave, available) \in Nat
        /\ LopDays(leave, available) \in Nat
<1>1. PaidDays(leave, available) \in 0..leave /\ LopDays(leave, available) \in 0..leave
  BY PaidDaysBounds
<1> QED BY <1>1

LEMMA TypeStep ==
  ASSUME TypeOK, NEW a \in Actors,
         \/ Create(a) \/ Upsert(a) \/ Submit(a) \/ Approve(a) \/ Reject(a)
         \/ Delete(a) \/ GenerateInvoice(a) \/ Refused(a)
  PROVE TypeOK'
<1> DEFINE r == request[a]
           s == r.on
           paid == PaidDays(r.seen.leave, balance + r.prior)
<1> USE RequestFacts, FinishType
<1>0. 0 \in Int OBVIOUS
<1>1. ASSUME Create(a) PROVE TypeOK'
  <2>1. [sheet EXCEPT ![s].status = "Draft"] \in [Sheets -> SheetType]
    BY DEF TypeOK, SheetType
  <2> QED BY <1>1, <2>1 DEF Create, TypeOK, ledger
<1>2. ASSUME Upsert(a) PROVE TypeOK'
  <2> DEFINE w == Written(s, r.seen, r.seen.status, r.earned)
  <2>1. w \in SheetType BY WrittenType DEF SheetType
  <2>2. [w EXCEPT !.leave = r.to[1], !.work = r.to[2]] \in SheetType
    <3> HIDE DEF w
    <3> QED BY <2>1 DEF SheetType
  <2>3. comp' \in Int /\ compEvents' \in [Sheets -> Int]
    BY <1>2, AccrueType DEF Upsert
  <2>4. sheet' = [sheet EXCEPT ![s] = [w EXCEPT !.leave = r.to[1], !.work = r.to[2]]]
    BY <1>2 DEF Upsert
  <2>5. sheet' \in [Sheets -> SheetType] BY <2>2, <2>4 DEF TypeOK
  <2> QED BY <1>2, <2>3, <2>5 DEF Upsert, TypeOK
<1>3. paid \in Nat /\ r.seen.leave - paid \in Nat
  <2> DEFINE available == balance + r.prior
  <2>1. available \in Int BY DEF TypeOK
  <2> HIDE DEF available
  <2>2. PaidDays(r.seen.leave, available) \in Nat
        /\ r.seen.leave - PaidDays(r.seen.leave, available) \in Nat
    BY <2>1, ClassifiedType
  <2> QED BY <2>2 DEF available
<1>4. paid \in Int /\ r.seen.leave - paid \in Int
  <2> HIDE DEF paid
  <2> QED BY <1>3
<1>5. ASSUME NEW available \in Int
      PROVE /\ LopDays(r.seen.leave, available) \in Nat
            /\ NetCompOff(r.seen.work, LopDays(r.seen.leave, available)) \in Int
  <2>1. LopDays(r.seen.leave, available) \in Nat BY ClassifiedType
  <2>2. NetCompOff(r.seen.work, LopDays(r.seen.leave, available)) \in 0..r.seen.work
    BY <2>1, NetCompOffBounds
  <2> QED BY <2>1, <2>2
<1>6. ASSUME Submit(a) PROVE TypeOK'
  <2> DEFINE earned == NetCompOff(r.seen.work,
                                  LopDays(r.seen.leave, AvailableAfterConsume(s)))
  <2>1. Consume(s, paid, r.seen.leave - paid) BY <1>6 DEF Submit
  <2>2. /\ used' \in [Sheets -> Int] /\ lop' \in [Sheets -> Int] /\ balance' \in Int
    <3> HIDE DEF paid
    <3> QED BY <1>4, <2>1, ConsumeType
  <2>3. AvailableAfterConsume(s) \in Int BY <2>2 DEF AvailableAfterConsume
  <2>4. earned \in Int BY <1>5, <2>3
  <2>5. /\ Accrue(s, r.seen, earned, comp)
        /\ sheet' = [sheet EXCEPT ![s] = Written(s, r.seen, "Submitted", earned)]
    BY <1>6 DEF Submit
  <2> HIDE DEF earned
  <2>6. comp' \in Int /\ compEvents' \in [Sheets -> Int]
    BY <2>4, <2>5, AccrueType DEF TypeOK
  <2>7. sheet' \in [Sheets -> SheetType] BY <2>4, <2>5, WrittenType DEF TypeOK
  <2> QED BY <1>6, <2>2, <2>6, <2>7 DEF Submit, TypeOK
<1>7. ASSUME Approve(a) PROVE TypeOK'
  <2> DEFINE unpaid == LopDays(r.seen.leave, AvailableAfterConsume(s))
  <2>1. Consume(s, paid, r.seen.leave - paid) BY <1>7 DEF Approve
  <2>2. /\ used' \in [Sheets -> Int] /\ lop' \in [Sheets -> Int] /\ balance' \in Int
    <3> HIDE DEF paid
    <3> QED BY <1>4, <2>1, ConsumeType
  <2>3. AvailableAfterConsume(s) \in Int BY <2>2 DEF AvailableAfterConsume
  <2>4. unpaid \in Nat BY <1>5, <2>3
  <2>5. frozen' = [frozen EXCEPT ![s] = unpaid] BY <1>7 DEF Approve
  <2> HIDE DEF unpaid
  <2>6. frozen' \in [Sheets -> Nat] BY <2>4, <2>5 DEF TypeOK
  <2>7. comp' \in Int /\ compEvents' \in [Sheets -> Int]
    BY <1>7, AccrueType DEF Approve
  <2>8. sheet' \in [Sheets -> SheetType] BY <1>7, WrittenType DEF Approve, TypeOK
  <2> QED BY <1>7, <2>2, <2>6, <2>7, <2>8 DEF Approve, TypeOK
<1>8. ASSUME Reverse(s, r.seen)
      PROVE /\ used' \in [Sheets -> Int] /\ lop' \in [Sheets -> Int] /\ balance' \in Int
            /\ comp' \in Int /\ compEvents' \in [Sheets -> Int]
  BY <1>0, <1>8, ConsumeType, AccrueType DEF Reverse, TypeOK
<1>9. ASSUME Reject(a) PROVE TypeOK'
  <2>1. frozen' \in [Sheets -> Nat] BY <1>9 DEF Reject, TypeOK
  <2>2. sheet' \in [Sheets -> SheetType] BY <1>9, WrittenType DEF Reject, TypeOK
  <2> QED BY <1>8, <1>9, <2>1, <2>2 DEF Reject, TypeOK
<1>10. ASSUME Delete(a) PROVE TypeOK'
  <2>1. frozen' \in [Sheets -> Nat] BY <1>10 DEF Delete, TypeOK
  <2>2. [NoSheet EXCEPT !.status = "Deleted"] \in SheetType
    BY ConstantsAssumption DEF NoSheet, SheetType
  <2>3. sheet' \in [Sheets -> SheetType] BY <1>10, <2>2 DEF Delete, TypeOK
  <2>4. invoice' \subseteq Sheets BY <1>10 DEF Delete, TypeOK
  <2> QED BY <1>8, <1>10, <2>1, <2>3, <2>4 DEF Delete, TypeOK
<1>11. ASSUME GenerateInvoice(a) PROVE TypeOK'
  BY <1>11 DEF GenerateInvoice, TypeOK, ledger
<1>12. ASSUME Refused(a) PROVE TypeOK'
  BY <1>12 DEF Refused, Abort, TypeOK, ledger
<1> QED BY <1>1, <1>2, <1>6, <1>7, <1>9, <1>10, <1>11, <1>12

LEMMA TypeNext == TypeOK /\ [Next]_vars => TypeOK'
<1> SUFFICES ASSUME TypeOK, [Next]_vars PROVE TypeOK' OBVIOUS
<1>1. CASE UNCHANGED vars BY <1>1 DEF vars, TypeOK
<1>2. ASSUME NEW a \in Actors, Credit(a) PROVE TypeOK'
  BY <1>2 DEF Credit, TypeOK
<1> QED BY <1>1, <1>2, TypeLoad, TypeReadPrior, TypeStep DEF Next

\* Type correctness.
THEOREM TypeCorrect == Spec => []TypeOK
<1> QED BY TypeInit, TypeNext, PTL DEF Spec
----------------------------------------------------------------------------
(* Conservation of paid leave.  It is inductive with used >= 0: a consumption *)
(* that passes the check of the balance never meets the floor at zero.     *)

Conserved == /\ TypeOK /\ PaidLeaveConserved
             /\ \A s \in Sheets : used[s] >= 0

\* Consuming what the check lets pass moves the balance by what it adds to used.
LEMMA ConsumeConserves ==
  ASSUME Conserved, NEW s \in Sheets, NEW paid \in Nat, NEW lopDays \in Int,
         ~ Insufficient(s, paid), Consume(s, paid, lopDays), granted' = granted
  PROVE /\ PaidLeaveConserved' /\ \A x \in Sheets : used'[x] >= 0
<1>1. used \in [Sheets -> Int] /\ balance \in Int /\ granted \in Nat
  BY DEF Conserved, TypeOK
<1>2. used' = [used EXCEPT ![s] = paid] BY DEF Consume
<1>3. balance' = balance - (paid - used[s]) /\ balance' >= 0
  <2>1. balance >= 0 BY DEF Conserved, PaidLeaveConserved
  <2>2. paid - used[s] <= balance \/ paid <= used[s]
    BY <1>1 DEF Insufficient
  <2>3. balance - (paid - used[s]) >= 0 BY <1>1, <2>1, <2>2
  <2>4. balance' = AtLeast0(balance - (paid - used[s])) BY DEF Consume
  <2> QED BY <1>1, <2>3, <2>4 DEF AtLeast0
<1>4. /\ Total(used) \in Int
      /\ Total(used)' = Total(used) + (paid - used[s])
  <2>1. used' \in [Sheets -> Int] BY <1>1, <1>2
  <2>2. \A x \in Sheets \ {s} : used'[x] = used[x] BY <1>1, <1>2
  <2>3. used'[s] = paid BY <1>1, <1>2
  <2>4. SumOver(Sheets, used) \in Int
        /\ SumOver(Sheets, used') = SumOver(Sheets, used) + (used'[s] - used[s])
    BY <1>1, <2>1, <2>2, SumChanged, ConstantsAssumption
  <2>5. Total(used) = SumOver(Sheets, used) BY Zenon DEF Total, SumOver
  <2>6. Total(used') = SumOver(Sheets, used') BY Zenon DEF Total, SumOver
  <2>7. Total(used)' = Total(used') OBVIOUS
  <2> QED BY <2>3, <2>4, <2>5, <2>6, <2>7
<1>5. balance' = granted' - Total(used)'
  <2>1. balance = granted - Total(used) BY DEF Conserved, PaidLeaveConserved
  <2> QED BY <1>1, <1>3, <1>4, <2>1
<1>6. ASSUME NEW x \in Sheets PROVE used'[x] >= 0
  BY <1>1, <1>2 DEF Conserved
<1> QED BY <1>3, <1>5, <1>6 DEF PaidLeaveConserved

LEMMA ConservedInit == Init => Conserved
<1> SUFFICES ASSUME Init PROVE Conserved OBVIOUS
<1>1. SumOver(Sheets, used) = 0 BY SumOfZeros, ConstantsAssumption DEF Init
<1>2. Total(used) = 0 BY <1>1, TotalIsSum
<1> QED BY <1>2, TypeInit, ConstantsAssumption DEF Init, Conserved, PaidLeaveConserved

\* Steps that move no paid leave.
LEMMA LeaveUntouched ==
  ASSUME Conserved, UNCHANGED <<used, granted, balance>>
  PROVE PaidLeaveConserved' /\ \A x \in Sheets : used'[x] >= 0
<1>1. Total(used') = Total(used) OBVIOUS
<1>2. Total(used)' = Total(used') OBVIOUS
<1> QED BY <1>1, <1>2 DEF Conserved, PaidLeaveConserved

\* A reversal gives back what was used.
LEMMA ReverseConserves ==
  ASSUME Conserved, NEW s \in Sheets, NEW seen, Reverse(s, seen), granted' = granted
  PROVE PaidLeaveConserved' /\ \A x \in Sheets : used'[x] >= 0
<1>1. used[s] >= 0 /\ used[s] \in Int BY DEF Conserved, TypeOK
<1>2. ~ Insufficient(s, 0) BY <1>1 DEF Insufficient
<1> QED BY <1>2, ConsumeConserves DEF Reverse

LEMMA ConservedNext == Conserved /\ [Next]_vars => Conserved'
<1> SUFFICES ASSUME Conserved, [Next]_vars PROVE Conserved' OBVIOUS
<1> DEFINE Kept == PaidLeaveConserved' /\ \A x \in Sheets : used'[x] >= 0
<1>1. TypeOK /\ TypeOK' BY TypeNext DEF Conserved
<1>2. CASE UNCHANGED vars BY <1>1, <1>2, LeaveUntouched DEF vars, Conserved
<1>3. ASSUME NEW a \in Actors,
             Load(a) \/ ReadPrior(a) \/ Create(a) \/ Upsert(a)
             \/ GenerateInvoice(a) \/ Refused(a)
      PROVE Kept
  <2>1. UNCHANGED <<used, granted, balance>>
    BY <1>3 DEF Load, ReadPrior, Create, Upsert, GenerateInvoice, Refused, Abort, ledger
  <2> QED BY <2>1, LeaveUntouched
<1>4. ASSUME NEW a \in Actors, Submit(a) \/ Approve(a) PROVE Kept
  <2> DEFINE r == request[a]
             available == balance + r.prior
             paid == PaidDays(r.seen.leave, available)
  <2>1. r.on \in Sheets /\ r.seen.leave \in Nat /\ available \in Int
    BY <1>1, RequestFacts DEF TypeOK
  <2>2. paid \in Nat /\ r.seen.leave - paid \in Int
    <3> HIDE DEF available, r
    <3>1. paid \in 0..r.seen.leave BY <2>1, PaidDaysBounds
    <3> QED BY <2>1, <3>1
  <2>3. /\ ~ Insufficient(r.on, paid) /\ Consume(r.on, paid, r.seen.leave - paid)
        /\ granted' = granted
    BY <1>4 DEF Submit, Approve
  <2> HIDE DEF r, paid
  <2> QED BY <2>1, <2>2, <2>3, ConsumeConserves
<1>5. ASSUME NEW a \in Actors, Reject(a) \/ Delete(a) PROVE Kept
  <2>1. request[a].on \in Sheets BY <1>1, RequestFacts
  <2>2. Reverse(request[a].on, request[a].seen) /\ granted' = granted
    BY <1>5 DEF Reject, Delete
  <2> QED BY <2>1, <2>2, ReverseConserves
<1>6. ASSUME NEW a \in Actors, Credit(a) PROVE Kept
  <2>1. /\ granted' = granted + 1 /\ balance' = balance + 1 /\ used' = used
    BY <1>6 DEF Credit
  <2>2. balance \in Int /\ granted \in Nat /\ used \in [Sheets -> Int]
    BY <1>1 DEF TypeOK
  <2>3. SumOver(Sheets, used) \in Int
    <3>1. PICK s \in Sheets : TRUE BY ConstantsAssumption
    <3> QED BY <2>2, <3>1, SumChanged, ConstantsAssumption
  <2>4. Total(used) \in Int BY <2>3, TotalIsSum
  <2>5. Total(used)' = Total(used)
    <3>1. Total(used)' = Total(used') OBVIOUS
    <3> QED BY <2>1, <3>1
  <2> QED BY <2>1, <2>2, <2>4, <2>5 DEF Conserved, PaidLeaveConserved
<1> QED BY <1>1, <1>2, <1>3, <1>4, <1>5, <1>6 DEF Next, Conserved

\* Paid leave is neither lost nor created, however many requests overlap.
THEOREM LeaveConserved == Spec => []PaidLeaveConserved
<1>1. Spec => []Conserved BY ConservedInit, ConservedNext, PTL DEF Spec
<1> QED BY <1>1, PTL DEF Conserved
----------------------------------------------------------------------------
(* The refinement: the ledger is an account charged at the moment of the   *)
(* commit, whatever the requests read before the lock.                     *)

\* A commit that consumes or gives back charges the account.
LEMMA CommitCharges ==
  ASSUME Conserved, NEW s \in Sheets, NEW paid \in 0..MaxLeave, NEW lopDays,
         ~ Insufficient(s, paid), Consume(s, paid, lopDays)
  PROVE Account!Charge(s, paid)
<1>1. used \in [Sheets -> Int] /\ balance \in Int /\ balance >= 0 /\ paid \in Int
  BY ConstantsAssumption DEF Conserved, TypeOK, PaidLeaveConserved
<1>2. paid - used[s] <= balance
  BY <1>1 DEF Insufficient
<1>3. balance' = balance - (paid - used[s]) /\ used' = [used EXCEPT ![s] = paid]
  BY <1>1, <1>2 DEF Consume, AtLeast0
<1> QED BY <1>2, <1>3 DEF Account!Charge

LEMMA ReversalCharges ==
  ASSUME Conserved, NEW s \in Sheets, NEW seen, Reverse(s, seen)
  PROVE Account!Charge(s, 0)
<1>1. ~ Insufficient(s, 0)
  BY DEF Conserved, TypeOK, Insufficient
<1> QED BY <1>1, CommitCharges, ConstantsAssumption DEF Reverse

LEMMA AccountStep ==
  ASSUME Conserved, [Next]_vars
  PROVE [Account!AccountNext]_Account!accountVars
<1>1. ASSUME NEW a \in Actors,
             Load(a) \/ ReadPrior(a) \/ Create(a) \/ Upsert(a)
             \/ GenerateInvoice(a) \/ Refused(a)
      PROVE UNCHANGED Account!accountVars
  BY <1>1 DEF Load, ReadPrior, Create, Upsert, GenerateInvoice, Refused, Abort,
     ledger, Account!accountVars
<1>2. ASSUME NEW a \in Actors, Submit(a) \/ Approve(a)
      PROVE \E s \in Sheets, n \in 0..MaxLeave : Account!Charge(s, n)
  <2>1. PICK s \in Sheets, leave \in 0..MaxLeave, available \in Int :
          /\ s = request[a].on /\ leave = request[a].seen.leave
          /\ available = balance + request[a].prior
    BY RequestFacts DEF Conserved, TypeOK, SheetType
  <2>2. PICK paid \in 0..MaxLeave : paid = PaidDays(leave, available)
    <3>1. leave \in Nat /\ PaidDays(leave, available) \in 0..leave
      BY PaidDaysBounds, ConstantsAssumption
    <3> QED BY <3>1, ConstantsAssumption
  <2>3. ~ Insufficient(s, paid) /\ Consume(s, paid, leave - paid)
    BY <1>2, <2>1, <2>2 DEF Submit, Approve
  <2>4. Account!Charge(s, paid)
    BY <2>3, CommitCharges
  <2> QED BY <2>4, Zenon
<1>3. ASSUME NEW a \in Actors, Reject(a) \/ Delete(a)
      PROVE \E s \in Sheets, n \in 0..MaxLeave : Account!Charge(s, n)
  <2>1. PICK s \in Sheets : s = request[a].on
    BY RequestFacts DEF Conserved
  <2>2. Reverse(s, request[a].seen)
    BY <1>3, <2>1 DEF Reject, Delete
  <2>3. Account!Charge(s, 0) /\ 0 \in 0..MaxLeave
    BY <2>2, ReversalCharges, ConstantsAssumption
  <2> QED BY <2>3, Zenon
<1>4. ASSUME NEW a \in Actors, Credit(a) PROVE Account!Grant
  BY <1>4 DEF Credit, Account!Grant
<1>5. CASE UNCHANGED vars
  BY <1>5 DEF vars, Account!accountVars
<1> QED BY <1>1, <1>2, <1>3, <1>4, <1>5 DEF Next, Account!AccountNext

\* However many requests overlap, the ledger implements the account: each
\* commit charges its sheet at once and the balance is never overdrawn.
THEOREM Implements == Spec => AccountKept
<1>1. Init => Account!AccountInit
  BY DEF Init, Account!AccountInit
<1>2. Conserved /\ [Next]_vars => [Account!AccountNext]_Account!accountVars
  BY AccountStep
<1>3. Spec => []Conserved
  BY ConservedInit, ConservedNext, PTL DEF Spec
<1> QED BY <1>1, <1>2, <1>3, PTL DEF Spec, AccountKept, Account!Spec
----------------------------------------------------------------------------
(* Requests that overlap, but never two on one sheet: what one has read of  *)
(* its own sheet is still so when it commits.                               *)

\* No sheet is worked on by two actors.
Disjoint == \A a, b \in Actors : a # b => Serves[a] \cap Serves[b] = {}

\* The account of one sheet.
Row(s) == /\ IF sheet[s].status \in Decided
             THEN used[s] + lop[s] = sheet[s].leave /\ used[s] >= 0 /\ lop[s] >= 0
             ELSE used[s] = 0 /\ lop[s] = 0
          /\ compEvents[s] = sheet[s].accrued
          /\ sheet[s].accrued >= 0 /\ sheet[s].accrued <= sheet[s].work

\* A request at work has read its sheet as it is; entries are written on a
\* sheet that charges nothing, and what will be granted is within the work
\* that will be on the sheet.
WorkOf(r) == IF r.op = "upsert" THEN r.to[2] ELSE r.seen.work
Fresh(a) == LET r == request[a]
            IN /\ r.op # "none" /\ r.on \in Serves[a] /\ r.seen = sheet[r.on]
               /\ r.op = "upsert" => r.seen.status \in EDITABLE_STATUSES
               /\ r.phase = "read" => r.earned \in 0..WorkOf(r)

\* The inductive invariant.
AtRest(a) == request[a].phase = "idle" /\ request[a] = NoRequest
AtWork(a) == request[a].phase # "idle" /\ Fresh(a)
RowInv == /\ Conserved
          /\ \A s \in Sheets : Row(s)
          /\ \A a \in Actors : AtRest(a) \/ AtWork(a)

\* Types of a sheet and of the accounts.
LEMMA SheetFacts ==
  ASSUME TypeOK, NEW s \in Sheets
  PROVE /\ sheet[s] \in SheetType /\ sheet[s].leave \in Nat /\ sheet[s].work \in Nat
        /\ sheet[s].accrued \in Int
        /\ used \in [Sheets -> Int] /\ lop \in [Sheets -> Int]
        /\ compEvents \in [Sheets -> Int] /\ sheet \in [Sheets -> SheetType]
        /\ invoice \subseteq Sheets /\ balance \in Int /\ comp \in Int
<1>1. sheet[s] \in SheetType BY DEF TypeOK
<1> QED BY <1>1, ConstantsAssumption DEF TypeOK, SheetType

\* The request that acts.
LEMMA Acting ==
  ASSUME RowInv, NEW a \in Actors, request[a].op # "none"
  PROVE Fresh(a)
<1>1. NoRequest.op = "none" BY DEF NoRequest
<1> QED BY <1>1 DEF RowInv, AtRest, AtWork

\* The other sheets' rows and events are left alone.
Elsewhere(s) == \A x \in Sheets \ {s} :
    /\ sheet'[x] = sheet[x] /\ compEvents'[x] = compEvents[x]
    /\ used'[x] = used[x] /\ lop'[x] = lop[x]

\* A step of one actor, on a sheet of its own, disturbs no other request.
LEMMA OthersUndisturbed ==
  ASSUME RowInv, Disjoint, NEW a \in Actors, NEW s \in Serves[a], Elsewhere(s),
         NEW b \in Actors \ {a}, request'[b] = request[b]
  PROVE AtRest(b)' \/ AtWork(b)'
<1>1. CASE AtRest(b) BY <1>1 DEF AtRest
<1>2. CASE AtWork(b)
  <2>1. request[b].on \in Sheets BY RequestFacts DEF RowInv, Conserved
  <2>2. request[b].on \in Serves[b] BY <1>2 DEF AtWork, Fresh
  <2>3. request[b].on # s BY <2>2 DEF Disjoint
  <2>4. sheet'[request[b].on] = sheet[request[b].on] BY <2>1, <2>3 DEF Elsewhere
  <2> QED BY <1>2, <2>4 DEF AtWork, Fresh
<1> QED BY <1>1, <1>2 DEF RowInv

LEMMA RowsElsewhere ==
  ASSUME RowInv, NEW s \in Sheets, Elsewhere(s), Row(s)', NEW x \in Sheets
  PROVE Row(x)'
<1>1. CASE x = s BY <1>1
<1>2. CASE x # s
  <2>1. Row(x) BY DEF RowInv
  <2> QED BY <1>2, <2>1 DEF Elsewhere, Row
<1> QED BY <1>1, <1>2

\* A request that ends, having touched its own sheet only.
LEMMA RequestEnds ==
  ASSUME RowInv, Disjoint, Conserved', NEW a \in Actors, Finish(a),
         NEW s \in Sheets, s \in Serves[a], Elsewhere(s), Row(s)'
  PROVE RowInv'
<1>1. \A x \in Sheets : Row(x)' BY RowsElsewhere
<1>2. ASSUME NEW b \in Actors PROVE AtRest(b)' \/ AtWork(b)'
  <2>1. request' = [request EXCEPT ![a] = NoRequest] /\ request \in [Actors -> RequestType]
    BY DEF Finish, RowInv, Conserved, TypeOK
  <2>2. CASE b = a
    <3>1. NoRequest.phase = "idle" BY DEF NoRequest
    <3> QED BY <2>1, <2>2, <3>1 DEF AtRest
  <2>3. CASE b # a
    <3>1. request'[b] = request[b] BY <2>1, <2>3
    <3> QED BY <2>3, <3>1, OthersUndisturbed
  <2> QED BY <2>2, <2>3
<1> QED BY <1>1, <1>2 DEF RowInv

\* What an accrual on a sheet read afresh does to the events, whatever balance
\* it was added to.
Grants(s, earned, from) ==
    /\ Accrue(s, sheet[s], earned, from) /\ sheet'[s].accrued = earned
    /\ \A x \in Sheets \ {s} : sheet'[x] = sheet[x]

LEMMA EventsTold ==
  ASSUME RowInv, NEW s \in Sheets, NEW earned \in Int, NEW from, Grants(s, earned, from)
  PROVE /\ compEvents'[s] = earned
        /\ \A x \in Sheets \ {s} : compEvents'[x] = compEvents[x]
<1>1. TypeOK /\ compEvents[s] = sheet[s].accrued BY DEF RowInv, Conserved, Row
<1>2. compEvents \in [Sheets -> Int] /\ sheet[s].accrued \in Int BY <1>1, SheetFacts
<1> QED BY <1>1, <1>2 DEF Grants, Accrue

\* What a consumption writes.
LEMMA ConsumeSets ==
  ASSUME TypeOK, NEW s \in Sheets, NEW paid, NEW lopDays, Consume(s, paid, lopDays)
  PROVE /\ used'[s] = paid /\ lop'[s] = lopDays
        /\ \A x \in Sheets \ {s} : used'[x] = used[x] /\ lop'[x] = lop[x]
  BY DEF TypeOK, Consume

\* What each of the five writers of comp-off grants, and from which balance.
LEMMA UpsertGrants ==
  ASSUME RowInv, NEW a \in Actors, Upsert(a), NEW s \in Sheets, s = request[a].on
  PROVE /\ Grants(s, request[a].earned, request[a].comp)
        /\ sheet'[s].work = request[a].to[2] /\ sheet'[s].status = sheet[s].status
<1> DEFINE r == request[a]
<1>1. TypeOK BY DEF RowInv, Conserved
<1>2. /\ sheet[s] \in SheetType /\ r.earned \in Int /\ r.seen = sheet[s]
  BY <1>1, RequestFacts, Acting, ConstantsAssumption DEF Upsert, Fresh
<1>3. sheet' = [sheet EXCEPT ![s] = [Written(s, r.seen, r.seen.status, r.earned)
                                        EXCEPT !.leave = r.to[1], !.work = r.to[2]]]
  BY DEF Upsert
<1>4. /\ sheet'[s].accrued = r.earned /\ sheet'[s].work = r.to[2]
      /\ sheet'[s].status = sheet[s].status
      /\ \A x \in Sheets \ {s} : sheet'[x] = sheet[x]
  BY <1>1, <1>2, <1>3, SheetFacts DEF Written, SheetType
<1> QED BY <1>2, <1>4 DEF Upsert, Grants

\* A submission, an approval or a rejection writes the status and the grant.
LEMMA WrittenGrants ==
  ASSUME TypeOK, NEW s \in Sheets, NEW earned \in Int, NEW from,
         NEW status \in {"Submitted", "Approved", "Rejected"},
         Accrue(s, sheet[s], earned, from),
         sheet' = [sheet EXCEPT ![s] = Written(s, sheet[s], status, earned)]
  PROVE /\ Grants(s, earned, from)
        /\ sheet'[s].work = sheet[s].work /\ sheet'[s].leave = sheet[s].leave
        /\ sheet'[s].status = status
  BY SheetFacts DEF Written, SheetType, Grants

\* What a submission grants.
EarnedBy(s, after) == NetCompOff(sheet[s].work, LopDays(sheet[s].leave, after))

LEMMA EarnedBounds ==
  ASSUME TypeOK, NEW s \in Sheets, NEW after \in Int
  PROVE EarnedBy(s, after) \in 0..sheet[s].work
<1>1. sheet[s].leave \in Nat /\ sheet[s].work \in Nat BY SheetFacts
<1>2. LopDays(sheet[s].leave, after) \in Nat BY <1>1, ClassifiedType
<1> QED BY <1>1, <1>2, NetCompOffBounds DEF EarnedBy

LEMMA DecisionGrants ==
  ASSUME RowInv, TypeOK', NEW a \in Actors, Submit(a) \/ Approve(a),
         NEW s \in Sheets, s = request[a].on
  PROVE \E earned \in 0..sheet[s].work, status \in Decided :
           /\ IF Submit(a) THEN Grants(s, earned, comp)
                           ELSE Grants(s, earned, request[a].comp)
           /\ sheet'[s].work = sheet[s].work /\ sheet'[s].leave = sheet[s].leave
           /\ sheet'[s].status = status
<1> DEFINE r == request[a]
<1>1. TypeOK BY DEF RowInv, Conserved
<1>2. r.seen = sheet[s] BY Acting DEF Submit, Approve, Fresh
<1>3. sheet[s].work \in Nat BY <1>1, SheetFacts
<1>4. CASE Submit(a)
  <2>1. AvailableAfterConsume(s) \in Int BY <1>1 DEF AvailableAfterConsume, TypeOK
  <2>2. PICK earned \in 0..sheet[s].work : earned = EarnedBy(s, AvailableAfterConsume(s))
    BY <1>1, <2>1, EarnedBounds
  <2>3. /\ Accrue(s, sheet[s], earned, comp)
        /\ sheet' = [sheet EXCEPT ![s] = Written(s, sheet[s], "Submitted", earned)]
    BY <1>2, <1>4, <2>2 DEF Submit, EarnedBy
  <2>4. earned \in Int BY <1>3
  <2>5. /\ Grants(s, earned, comp) /\ sheet'[s].work = sheet[s].work
        /\ sheet'[s].leave = sheet[s].leave /\ sheet'[s].status = "Submitted"
    BY <1>1, <2>3, <2>4, WrittenGrants
  <2>6. "Submitted" \in Decided BY DEF Decided
  <2> QED BY <1>4, <2>5, <2>6
<1>5. CASE ~ Submit(a)
  <2>1. r.earned \in 0..sheet[s].work BY <1>2, <1>5, Acting DEF Approve, Fresh, WorkOf
  <2>2. PICK earned \in 0..sheet[s].work : earned = r.earned BY <2>1
  <2>3. /\ Accrue(s, sheet[s], earned, r.comp)
        /\ sheet' = [sheet EXCEPT ![s] = Written(s, sheet[s], "Approved", earned)]
    BY <1>2, <1>5, <2>2 DEF Approve
  <2>4. earned \in Int BY <1>3
  <2>5. /\ Grants(s, earned, r.comp) /\ sheet'[s].work = sheet[s].work
        /\ sheet'[s].leave = sheet[s].leave /\ sheet'[s].status = "Approved"
    BY <1>1, <2>3, <2>4, WrittenGrants
  <2>6. "Approved" \in Decided BY DEF Decided
  <2> QED BY <1>5, <2>5, <2>6
<1> QED BY <1>4, <1>5

LEMMA UndoingGrants ==
  ASSUME RowInv, NEW a \in Actors, Reject(a) \/ Delete(a), NEW s \in Sheets, s = request[a].on
  PROVE /\ Grants(s, 0, comp) /\ sheet'[s].work \in Nat /\ sheet'[s].status \notin Decided
<1> DEFINE r == request[a]
<1>1. TypeOK BY DEF RowInv, Conserved
<1>2. r.seen = sheet[s] BY Acting DEF Reject, Delete, Fresh
<1>3. Accrue(s, sheet[s], 0, comp) BY <1>2 DEF Reject, Delete, Reverse
<1>4. CASE Reject(a)
  <2>1. sheet' = [sheet EXCEPT ![s] = Written(s, sheet[s], "Rejected", 0)]
    BY <1>2, <1>4 DEF Reject
  <2>2. 0 \in Int /\ sheet[s].work \in Nat BY <1>1, SheetFacts
  <2> QED BY <1>1, <1>3, <2>1, <2>2, WrittenGrants DEF Decided
<1>5. CASE Delete(a)
  <2>1. sheet' = [sheet EXCEPT ![s] = [NoSheet EXCEPT !.status = "Deleted"]]
    BY <1>5 DEF Delete
  <2>2. /\ sheet'[s].accrued = 0 /\ sheet'[s].work = 0 /\ sheet'[s].status = "Deleted"
        /\ \A x \in Sheets \ {s} : sheet'[x] = sheet[x]
    BY <1>1, <2>1, SheetFacts DEF NoSheet
  <2> QED BY <1>3, <2>2 DEF Decided, Grants
<1> QED BY <1>4, <1>5

\* The invariant is preserved by each action.
LEMMA RowLoad ==
  ASSUME RowInv, Disjoint, Conserved', NEW a \in Actors, Load(a)
  PROVE RowInv'
<1>1. PICK s \in Serves[a], op \in Operations \ {"credit"} :
         /\ Allowed(op, s)
         /\ \E to \in (IF op = "upsert" THEN Entries ELSE {<<0, 0>>}) : Begin(a, op, s, to)
  BY DEF Load
<1>2. PICK to \in (IF op = "upsert" THEN Entries ELSE {<<0, 0>>}) : Begin(a, op, s, to)
  BY <1>1
<1>3. UNCHANGED <<sheet, used, lop, compEvents>>
  BY DEF Load, ledger
<1>4. request' = [request EXCEPT ![a] = [NoRequest EXCEPT !.op = op, !.on = s,
                     !.seen = sheet[s], !.phase = "loaded", !.to = to,
                     !.linked = s \in invoice]]
      /\ request \in [Actors -> RequestType]
  BY <1>2 DEF Begin, RowInv, Conserved, TypeOK
<1>5. /\ request'[a].op = op /\ request'[a].on = s /\ request'[a].seen = sheet[s]
      /\ request'[a].phase = "loaded"
  BY <1>4 DEF NoRequest
<1>6. op # "none" BY ConstantsAssumption
<1>7. op = "upsert" => sheet[s].status \in EDITABLE_STATUSES
  BY <1>1 DEF Allowed, Editable
<1>8. ASSUME NEW b \in Actors PROVE AtRest(b)' \/ AtWork(b)'
  <2>1. CASE b = a BY <1>3, <1>5, <1>6, <1>7, <2>1 DEF AtWork, Fresh
  <2>2. CASE b # a
    <3>1. request'[b] = request[b] BY <1>4, <2>2
    <3>2. Elsewhere(s) BY <1>3 DEF Elsewhere
    <3> QED BY <2>2, <3>1, <3>2, OthersUndisturbed
  <2> QED BY <2>1, <2>2
<1>9. \A x \in Sheets : Row(x)' BY <1>3 DEF RowInv, Row
<1> QED BY <1>8, <1>9 DEF RowInv

LEMMA RowReadPrior ==
  ASSUME RowInv, Disjoint, Conserved', NEW a \in Actors, ReadPrior(a)
  PROVE RowInv'
<1> DEFINE r == request[a]
           s == r.on
           leave == IF r.op = "upsert" THEN r.to[1] ELSE r.seen.leave
           work == IF r.op = "upsert" THEN r.to[2] ELSE r.seen.work
           earned == NetCompOff(work, LopDays(leave, balance + used[s]))
<1>0. TypeOK BY DEF RowInv, Conserved
<1>1. Fresh(a) BY Acting, ConstantsAssumption DEF ReadPrior
<1>2. UNCHANGED <<sheet, used, lop, compEvents>>
  BY DEF ReadPrior, ledger
<1>3. earned \in 0..work
  <2> DEFINE available == balance + used[s]
  <2>1. leave \in Nat /\ work \in Nat /\ available \in Int
    BY <1>0, RequestFacts DEF TypeOK
  <2> HIDE DEF leave, work, available
  <2>2. LopDays(leave, available) \in Nat BY <2>1, ClassifiedType
  <2>3. NetCompOff(work, LopDays(leave, available)) \in 0..work
    BY <2>1, <2>2, NetCompOffBounds
  <2> QED BY <2>3 DEF available
<1>4. /\ request'[a].op = r.op /\ request'[a].on = s /\ request'[a].seen = r.seen
      /\ request'[a].phase = "read" /\ request'[a].to = r.to
      /\ request'[a].earned = earned
      /\ \A b \in Actors \ {a} : request'[b] = request[b]
  <2>1. request' = [request EXCEPT ![a].phase = "read", ![a].prior = used[s],
                                   ![a].earned = earned, ![a].comp = comp]
    BY DEF ReadPrior
  <2> HIDE DEF earned
  <2> QED BY <1>0, <2>1 DEF TypeOK, RequestType
<1>5. AtWork(a)'
  <2>1. WorkOf(request'[a]) = work BY <1>4 DEF WorkOf
  <2> HIDE DEF earned, work
  <2>2. /\ r.op # "none" /\ s \in Serves[a] /\ r.seen = sheet[s]
        /\ r.op = "upsert" => r.seen.status \in EDITABLE_STATUSES
    BY <1>1 DEF Fresh
  <2> QED BY <1>2, <1>3, <1>4, <2>1, <2>2 DEF AtWork, Fresh
<1>6. ASSUME NEW b \in Actors PROVE AtRest(b)' \/ AtWork(b)'
  <2>1. CASE b = a BY <1>5, <2>1
  <2>2. CASE b # a
    <3>1. s \in Serves[a] BY <1>1 DEF Fresh
    <3>2. Elsewhere(s) BY <1>2 DEF Elsewhere
    <3>3. request'[b] = request[b] BY <1>4, <2>2
    <3> HIDE DEF s
    <3> QED BY <2>2, <3>1, <3>2, <3>3, OthersUndisturbed
  <2> QED BY <2>1, <2>2
<1>7. \A x \in Sheets : Row(x)' BY <1>2 DEF RowInv, Row
<1> QED BY <1>6, <1>7 DEF RowInv

LEMMA RowCreate ==
  ASSUME RowInv, Disjoint, Conserved', NEW a \in Actors, Create(a)
  PROVE RowInv'
<1>1. TypeOK BY DEF RowInv, Conserved
<1>2. PICK s \in Sheets : s = request[a].on BY <1>1, RequestFacts
<1>3. s \in Serves[a] BY <1>2, Acting DEF Create, Fresh
<1>4. UNCHANGED <<used, lop, compEvents>> BY DEF Create, ledger
<1>5. sheet' = IF sheet[s].status = "Absent"
               THEN [sheet EXCEPT ![s].status = "Draft"] ELSE sheet
  BY <1>2 DEF Create
<1>6. /\ sheet'[s].accrued = sheet[s].accrued /\ sheet'[s].work = sheet[s].work
      /\ sheet'[s].leave = sheet[s].leave
      /\ sheet'[s].status \in Decided <=> sheet[s].status \in Decided
  BY <1>1, <1>5, SheetFacts DEF SheetType, Decided
<1>7. Row(s)' BY <1>4, <1>6 DEF RowInv, Row
<1>8. Elsewhere(s) BY <1>1, <1>4, <1>5, SheetFacts DEF Elsewhere
<1> QED BY <1>3, <1>7, <1>8, RequestEnds DEF Create

LEMMA RowUpsert ==
  ASSUME RowInv, Disjoint, Conserved', NEW a \in Actors, Upsert(a)
  PROVE RowInv'
<1>1. TypeOK BY DEF RowInv, Conserved
<1>2. PICK s \in Sheets : s = request[a].on BY <1>1, RequestFacts
<1>3. PICK earned \in Int, from \in Int : earned = request[a].earned /\ from = request[a].comp
  BY <1>1, RequestFacts
<1>4. /\ s \in Serves[a] /\ earned \in 0..request[a].to[2]
      /\ sheet[s].status \in EDITABLE_STATUSES /\ request[a].to[2] \in Nat
  BY <1>1, <1>2, <1>3, Acting, RequestFacts DEF Upsert, Fresh, WorkOf
<1>5. /\ Grants(s, earned, from)
      /\ sheet'[s].work = request[a].to[2] /\ sheet'[s].status = sheet[s].status
  BY <1>2, <1>3, UpsertGrants
<1>6. used' = used /\ lop' = lop BY DEF Upsert
<1>7. /\ compEvents'[s] = earned /\ sheet'[s].accrued = earned
      /\ \A x \in Sheets \ {s} : sheet'[x] = sheet[x] /\ compEvents'[x] = compEvents[x]
  BY <1>5, EventsTold DEF Grants
<1>8. Row(s)'
  <2>1. used[s] = 0 /\ lop[s] = 0
    BY <1>4 DEF RowInv, Row, Decided, EDITABLE_STATUSES
  <2>2. sheet'[s].status \notin Decided BY <1>4, <1>5 DEF Decided, EDITABLE_STATUSES
  <2>3. earned >= 0 /\ earned <= sheet'[s].work BY <1>3, <1>4, <1>5
  <2> QED BY <1>6, <1>7, <2>1, <2>2, <2>3 DEF Row
<1>9. Elsewhere(s) BY <1>6, <1>7 DEF Elsewhere
<1> QED BY <1>4, <1>8, <1>9, RequestEnds DEF Upsert

\* A submission and an approval classify the leave that is on the sheet.
LEMMA RowDecide ==
  ASSUME RowInv, Disjoint, Conserved', NEW a \in Actors, Submit(a) \/ Approve(a)
  PROVE RowInv'
<1> DEFINE r == request[a]
<1>1. TypeOK /\ TypeOK' BY DEF RowInv, Conserved
<1>2. PICK s \in Sheets : s = r.on BY <1>1, RequestFacts
<1>3. r.seen = sheet[s] /\ s \in Serves[a]
  BY <1>2, Acting DEF Submit, Approve, Fresh
<1>4. sheet[s].leave \in Nat /\ sheet[s].work \in Nat BY <1>1, SheetFacts
<1>5. PICK paid \in 0..sheet[s].leave : paid = PaidDays(sheet[s].leave, balance + r.prior)
  <2> DEFINE available == balance + r.prior
  <2>1. available \in Int BY <1>1, RequestFacts DEF TypeOK
  <2> HIDE DEF available
  <2>2. PaidDays(sheet[s].leave, available) \in 0..sheet[s].leave
    BY <1>4, <2>1, PaidDaysBounds
  <2> QED BY <2>2 DEF available
<1>6. Finish(a) /\ Consume(s, paid, sheet[s].leave - paid)
  BY <1>2, <1>3, <1>5 DEF Submit, Approve
<1>7. PICK earned \in 0..sheet[s].work, status \in Decided :
         /\ IF Submit(a) THEN Grants(s, earned, comp) ELSE Grants(s, earned, r.comp)
         /\ sheet'[s].work = sheet[s].work /\ sheet'[s].leave = sheet[s].leave
         /\ sheet'[s].status = status
  BY <1>1, <1>2, DecisionGrants
<1>8. PICK from : Grants(s, earned, from) BY <1>7
<1>9. /\ compEvents'[s] = earned /\ sheet'[s].accrued = earned
      /\ \A x \in Sheets \ {s} : sheet'[x] = sheet[x] /\ compEvents'[x] = compEvents[x]
  <2>1. earned \in Int BY <1>4
  <2> QED BY <1>8, <2>1, EventsTold DEF Grants
<1>10. /\ used'[s] = paid /\ lop'[s] = sheet[s].leave - paid
       /\ \A x \in Sheets \ {s} : used'[x] = used[x] /\ lop'[x] = lop[x]
  BY <1>1, <1>6, ConsumeSets
<1>11. Row(s)' BY <1>4, <1>5, <1>7, <1>9, <1>10 DEF Row
<1>12. Elsewhere(s) BY <1>9, <1>10 DEF Elsewhere
<1> QED BY <1>3, <1>6, <1>11, <1>12, RequestEnds

\* A rejection or a deletion: everything the sheet charged and granted goes back.
LEMMA RowUndo ==
  ASSUME RowInv, Disjoint, Conserved', NEW a \in Actors, Reject(a) \/ Delete(a)
  PROVE RowInv'
<1>1. TypeOK BY DEF RowInv, Conserved
<1>2. PICK s \in Sheets : s = request[a].on BY <1>1, RequestFacts
<1>3. s \in Serves[a] BY <1>2, Acting DEF Reject, Delete, Fresh
<1>4. /\ Grants(s, 0, comp) /\ sheet'[s].work \in Nat /\ sheet'[s].status \notin Decided
  BY <1>2, UndoingGrants
<1>5. /\ compEvents'[s] = 0 /\ sheet'[s].accrued = 0
      /\ \A x \in Sheets \ {s} : sheet'[x] = sheet[x] /\ compEvents'[x] = compEvents[x]
  <2>1. 0 \in Int OBVIOUS
  <2> QED BY <1>4, <2>1, EventsTold DEF Grants
<1>6. Consume(s, 0, 0) /\ Finish(a) BY <1>2 DEF Reject, Delete, Reverse
<1>7. /\ used'[s] = 0 /\ lop'[s] = 0
      /\ \A x \in Sheets \ {s} : used'[x] = used[x] /\ lop'[x] = lop[x]
  BY <1>1, <1>6, ConsumeSets
<1>8. Row(s)' BY <1>4, <1>5, <1>7 DEF Row
<1>9. Elsewhere(s) BY <1>5, <1>7 DEF Elsewhere
<1> QED BY <1>3, <1>6, <1>8, <1>9, RequestEnds

\* A request that ends with nothing written to its sheet.
LEMMA RowEnd ==
  ASSUME RowInv, Disjoint, Conserved', NEW a \in Actors, GenerateInvoice(a) \/ Refused(a)
  PROVE RowInv'
<1>1. UNCHANGED <<sheet, used, lop, compEvents>> /\ Finish(a)
  BY DEF GenerateInvoice, Refused, Abort, ledger
<1>2. request[a].phase # "idle"
  <2>1. NoRequest.op = "none" BY DEF NoRequest
  <2> QED BY <2>1 DEF GenerateInvoice, Refused, RowInv, AtRest, AtWork
<1>3. PICK s \in Sheets : s = request[a].on BY RequestFacts DEF RowInv, Conserved
<1>4. s \in Serves[a] BY <1>2, <1>3 DEF RowInv, AtRest, AtWork, Fresh
<1>5. Row(s)' /\ Elsewhere(s) BY <1>1 DEF RowInv, Row, Elsewhere
<1> QED BY <1>1, <1>4, <1>5, RequestEnds

LEMMA RowUnmoved ==
  ASSUME RowInv, Conserved', UNCHANGED <<sheet, used, lop, compEvents, request>>
  PROVE RowInv'
<1>1. \A x \in Sheets : Row(x)' BY DEF RowInv, Row
<1>2. \A b \in Actors : AtRest(b)' \/ AtWork(b)' BY DEF RowInv, AtRest, AtWork, Fresh
<1> QED BY <1>1, <1>2 DEF RowInv

LEMMA RowInvInit == Init => RowInv
<1>1. NoRequest.phase = "idle" BY DEF NoRequest
<1> QED BY <1>1, ConservedInit DEF Init, RowInv, AtRest, Row, NoSheet, Decided

LEMMA RowInvNext == ASSUME Disjoint, RowInv, [Next]_vars PROVE RowInv'
<1>1. Conserved' BY ConservedNext DEF RowInv
<1>2. CASE UNCHANGED vars BY <1>1, <1>2, RowUnmoved DEF vars
<1>3. ASSUME NEW a \in Actors, Credit(a) PROVE RowInv'
  BY <1>1, <1>3, RowUnmoved DEF Credit
<1> QED BY <1>1, <1>2, <1>3, RowLoad, RowReadPrior, RowCreate, RowUpsert, RowDecide,
           RowUndo, RowEnd DEF Next

LEMMA RowInvAlways == ASSUME Disjoint PROVE Spec => []RowInv
<1> QED BY RowInvInit, RowInvNext, PTL DEF Spec

\* A decided sheet has charged every leave day once, any other one nothing.
THEOREM DaysChargedOnce == ASSUME Disjoint PROVE Spec => []EachDayChargedOnce
<1>1. RowInv => EachDayChargedOnce BY DEF RowInv, Row, EachDayChargedOnce
<1> QED BY <1>1, RowInvAlways, PTL

\* The events of a sheet add up to the comp-off its column says it granted.
THEOREM CompOffToldOnce == ASSUME Disjoint PROVE Spec => []CompOffCreditedOnce
<1>1. RowInv => CompOffCreditedOnce BY DEF RowInv, Row, CompOffCreditedOnce
<1> QED BY <1>1, RowInvAlways, PTL

\* No sheet grants more comp-off than was worked on it.
THEOREM CompOffBounded == ASSUME Disjoint PROVE Spec => []CompOffWithinWork
<1>1. RowInv => CompOffWithinWork BY DEF RowInv, Row, CompOffWithinWork
<1> QED BY <1>1, RowInvAlways, PTL
----------------------------------------------------------------------------
(* The Comp-Off balance needs more: an approval or an update of entries     *)
(* writes back a balance it read before the lock, so two requests that      *)
(* overlap lose one another's grant even on different sheets.  One request  *)
(* at a time finds the balance as it read it.                               *)

\* At most one actor.
Alone == \A a, b \in Actors : a = b

\* The inductive invariant.
CompInv == /\ RowInv /\ CompOffConserved
           /\ \A a \in Actors : request[a].phase = "read" => request[a].comp = comp

Accrued == [s \in Sheets |-> sheet[s].accrued]

LEMMA AccruedType ==
  ASSUME TypeOK PROVE Accrued \in [Sheets -> Int]
  BY DEF TypeOK, Accrued, SheetType

\* A grant added to the balance as it is moves it by what the column moves.
LEMMA GrantConserves ==
  ASSUME TypeOK, TypeOK', CompOffConserved, NEW s \in Sheets, NEW earned \in Int,
         Grants(s, earned, comp)
  PROVE CompOffConserved'
<1>1. comp \in Int /\ compEvents \in [Sheets -> Int] /\ sheet[s].accrued \in Int
  BY SheetFacts
<1>2. comp' = comp + (earned - sheet[s].accrued) BY <1>1 DEF Accrue, Grants
<1>3. Total(Accrued') = Total(Accrued) + (earned - sheet[s].accrued)
      /\ Total(Accrued) \in Int
  <2>1. Accrued \in [Sheets -> Int] BY AccruedType
  <2>2. Accrued' \in [Sheets -> Int] BY DEF TypeOK, Accrued, SheetType
  <2>3. Accrued'[s] = earned /\ Accrued[s] = sheet[s].accrued BY DEF Accrued, Grants
  <2>4. \A x \in Sheets \ {s} : Accrued'[x] = Accrued[x] BY DEF Accrued, Grants
  <2>5. SumOver(Sheets, Accrued) \in Int
        /\ SumOver(Sheets, Accrued') = SumOver(Sheets, Accrued) + (Accrued'[s] - Accrued[s])
    BY <2>1, <2>2, <2>4, SumChanged, ConstantsAssumption
  <2> QED BY <2>3, <2>5, TotalIsSum
<1>4. comp = Total(Accrued) BY DEF CompOffConserved, Accrued
<1>5. comp' = Total(Accrued') BY <1>1, <1>2, <1>3, <1>4
<1> QED BY <1>5 DEF CompOffConserved, Accrued

LEMMA CompUntouched ==
  ASSUME CompOffConserved, comp' = comp,
         \A s \in Sheets : sheet'[s].accrued = sheet[s].accrued
  PROVE CompOffConserved'
<1>1. Accrued' = Accrued BY DEF Accrued
<1>2. comp = Total(Accrued) BY DEF CompOffConserved, Accrued
<1>3. comp' = Total(Accrued') BY <1>1, <1>2
<1> QED BY <1>3 DEF CompOffConserved, Accrued

LEMMA CompInvInit == Init => CompInv
<1> SUFFICES ASSUME Init PROVE CompInv OBVIOUS
<1>1. RowInv BY RowInvInit
<1>2. CompOffConserved
  <2>1. Accrued = [s \in Sheets |-> 0] BY DEF Init, Accrued, NoSheet
  <2>2. SumOver(Sheets, Accrued) = 0 BY <2>1, SumOfZeros, ConstantsAssumption
  <2>3. Total(Accrued) = 0 BY <2>2, TotalIsSum
  <2> QED BY <2>3 DEF Init, CompOffConserved, Accrued
<1>3. NoRequest.phase = "idle" BY DEF NoRequest
<1> QED BY <1>1, <1>2, <1>3 DEF Init, CompInv

\* What the only request read of the balance is still the balance.
LEMMA CompReadStill ==
  ASSUME CompInv, Alone, TypeOK', [Next]_vars, NEW b \in Actors, request'[b].phase = "read"
  PROVE request'[b].comp = comp'
<1>0. TypeOK BY DEF CompInv, RowInv, Conserved
<1>1. CASE UNCHANGED vars BY <1>1 DEF vars, CompInv
<1>2. ASSUME NEW a \in Actors, Load(a) PROVE FALSE
  <2>1. a = b BY DEF Alone
  <2>2. PICK s \in Serves[a], op \in Operations \ {"credit"} : \E to : Begin(a, op, s, to)
    BY <1>2 DEF Load
  <2>3. request'[a].phase = "loaded" BY <1>0, <2>2 DEF Begin, NoRequest, TypeOK
  <2> QED BY <2>1, <2>3
<1>3. ASSUME NEW a \in Actors, ReadPrior(a) PROVE request'[b].comp = comp'
  <2>1. a = b BY DEF Alone
  <2>2. comp' = comp BY <1>3 DEF ReadPrior, ledger
  <2>3. request'[a].comp = comp BY <1>0, <1>3 DEF ReadPrior, TypeOK, RequestType
  <2> QED BY <2>1, <2>2, <2>3
<1>4. ASSUME NEW a \in Actors, Finish(a) PROVE FALSE
  <2>1. a = b BY DEF Alone
  <2> QED BY <1>0, <1>4, <2>1 DEF Finish, TypeOK, NoRequest
<1>5. ASSUME NEW a \in Actors, Credit(a) PROVE request'[b].comp = comp'
  BY <1>5 DEF Credit, CompInv
<1> QED BY <1>1, <1>2, <1>3, <1>4, <1>5
     DEF Next, Create, Upsert, Submit, Approve, Reject, Delete, GenerateInvoice, Refused, Abort

LEMMA CompInvNext == ASSUME Alone, CompInv, [Next]_vars PROVE CompInv'
<1>1. Disjoint BY DEF Alone, Disjoint
<1>2. RowInv' BY <1>1, RowInvNext DEF CompInv
<1>3. RowInv /\ TypeOK /\ TypeOK' /\ CompOffConserved
  BY <1>2 DEF CompInv, RowInv, Conserved
<1>4. CompOffConserved'
  <2>1. CASE UNCHANGED vars BY <1>3, <2>1, CompUntouched DEF vars
  <2>2. ASSUME NEW a \in Actors,
               Load(a) \/ ReadPrior(a) \/ GenerateInvoice(a) \/ Refused(a) \/ Credit(a)
        PROVE CompOffConserved'
    <3>1. UNCHANGED <<sheet, comp>>
      BY <2>2 DEF Load, ReadPrior, GenerateInvoice, Refused, Abort, Credit, ledger
    <3> QED BY <1>3, <3>1, CompUntouched
  <2>3. ASSUME NEW a \in Actors, Create(a) PROVE CompOffConserved'
    <3>1. comp' = comp BY <2>3 DEF Create, ledger
    <3>2. \A s \in Sheets : sheet'[s].accrued = sheet[s].accrued
      BY <1>3, <2>3, SheetFacts, RequestFacts DEF Create, SheetType
    <3> QED BY <1>3, <3>1, <3>2, CompUntouched
  <2>4. ASSUME NEW a \in Actors, Upsert(a) PROVE CompOffConserved'
    <3>1. PICK s \in Sheets, earned \in Int : s = request[a].on /\ earned = request[a].earned
      BY <1>3, RequestFacts
    <3>2. request[a].comp = comp BY <2>4 DEF Upsert, CompInv
    <3>3. Grants(s, earned, comp) BY <1>3, <2>4, <3>1, <3>2, UpsertGrants
    <3> QED BY <1>3, <3>3, GrantConserves
  <2>5. ASSUME NEW a \in Actors, Submit(a) \/ Approve(a) PROVE CompOffConserved'
    <3>1. PICK s \in Sheets : s = request[a].on BY <1>3, RequestFacts
    <3>2. Approve(a) => request[a].comp = comp BY DEF Approve, CompInv
    <3>3. PICK earned \in 0..sheet[s].work : Grants(s, earned, comp)
      BY <1>3, <2>5, <3>1, <3>2, DecisionGrants
    <3>4. earned \in Int BY <1>3, SheetFacts
    <3> QED BY <1>3, <3>3, <3>4, GrantConserves
  <2>6. ASSUME NEW a \in Actors, Reject(a) \/ Delete(a) PROVE CompOffConserved'
    <3>1. PICK s \in Sheets : s = request[a].on BY <1>3, RequestFacts
    <3>2. Grants(s, 0, comp) BY <1>3, <2>6, <3>1, UndoingGrants
    <3>3. 0 \in Int OBVIOUS
    <3> QED BY <1>3, <3>2, <3>3, GrantConserves
  <2> QED BY <2>1, <2>2, <2>3, <2>4, <2>5, <2>6 DEF Next
<1>5. ASSUME NEW b \in Actors, request'[b].phase = "read" PROVE request'[b].comp = comp'
  BY <1>3, <1>5, CompReadStill
<1> QED BY <1>2, <1>4, <1>5 DEF CompInv

\* The Comp-Off balance is what the sheets granted, through every approval,
\* rejection, deletion and monthly credit.
THEOREM CompOffKept == ASSUME Alone PROVE Spec => []CompOffConserved
<1>1. CompInv => CompOffConserved BY DEF CompInv
<1> QED BY <1>1, CompInvInit, CompInvNext, PTL DEF Spec
============================================================================
