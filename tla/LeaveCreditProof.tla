-------------------------- MODULE LeaveCreditProof --------------------------
(***************************************************************************)
(* For any rows, policies, horizon, failures and lookback: a grant is given *)
(* once as long as the job has one runner, and with any number of runners  *)
(* every state is well typed and the replay repairs the months and the     *)
(* year ends that a job missed.                                            *)
(***************************************************************************)
EXTENDS LeaveCredit, FiniteSums

OneRunner == \A r, s \in Runners : r = s

Record(x) == x = [phase |-> x.phase, today |-> x.today, todo |-> x.todo,
                  gaps |-> x.gaps, plan |-> x.plan]

Numbers ==
    /\ now \in Nat /\ active \subseteq PEs
    /\ added \in [PEs -> Nat \cup {NoDay}]
    /\ balance \in [PEs -> Int] /\ accrual \in [PEs -> Nat]
    /\ granted \in [PEs -> Nat] /\ credits \in [PEs -> [Months -> Nat]]
    /\ \E S : runner \in [Runners -> S]
    /\ \A r \in Runners : Record(runner[r])

\* What a plan will write for p is still due when it is committed: the month
\* has no credit, and the grant to release is still stashed.
PlanDue(plan, p, m) ==
    /\ plan[p].balance \in Int
    /\ plan[p].release => plan[p].days > 0 /\ accrual[p] > 0
    /\ plan[p].days > 0 => /\ added[p] # NoDay
                           /\ m \in Months => credits[p][m] = 0

StagedDue ==
    \A r \in Runners : runner[r].phase = "Staged" =>
        \A p \in PEs : PlanDue(runner[r].plan, p, MonthOf(Head(runner[r].todo)))

\* A grant that has been given is no longer stashed.
Stashed ==
    \A p \in PEs \ CompOffPEs : granted[p] <= 1 /\ (granted[p] = 1 => accrual[p] = 0)

LInv ==
    /\ Numbers
    /\ \A p \in active : added[p] # NoDay
    /\ StagedDue
    /\ Stashed
    /\ \A p \in PEs, m \in Months : credits[p][m] <= 1

LEMMA PolicyType ==
    ASSUME NEW p \in PEs
    PROVE  /\ Policy[p].amount \in Nat /\ Policy[p].initial \in Nat
           /\ Policy[p].cap \in Nat \cup {NoLimit}
           /\ Policy[p].limit \in Nat \cup {NoLimit}
BY LeaveAssumption

LEMMA CappedType ==
    ASSUME NEW x \in Int, NEW cap \in Nat \cup {NoLimit}
    PROVE  Capped(x, cap) \in Int
BY DEF Capped, Smaller

\* A limit only lowers a grant.
LEMMA LimitedType ==
    ASSUME NEW p \in PEs, NEW days \in Nat, NEW bal \in Int
    PROVE  /\ WithinLimit(p, days, bal) \in Nat
           /\ WithinLimit(p, days, bal) > 0 => days > 0
BY PolicyType DEF WithinLimit, Smaller

\* What a period plans for a row was due when it was read.
LEMMA RowPlanDue ==
    ASSUME Numbers, \A p \in active : added[p] # NoDay,
           NEW p \in PEs, NEW d
    PROVE  LET plan == RowPlan(p, d)
           IN  /\ plan.balance \in Int
               /\ plan.release => plan.days > 0 /\ accrual[p] > 0
               /\ plan.days > 0 => added[p] # NoDay /\ credits[p][MonthOf(d)] = 0
<1> DEFINE m == MonthOf(d)
           cycle == Due(p, m) /\ CycleExpires(p, m)
           before == IF cycle THEN 0 ELSE balance[p]
           days == IF Due(p, m) THEN WithinLimit(p, DueDays(p, m), before) ELSE 0
           carry == p \in active /\ YearEndDay(d) /\ Policy[p].kind # "None"
           release == days > 0 /\ Policy[p].kind = "Upfront"
           plan == RowPlan(p, d)
<1>1. plan = [read    |-> balance[p],
              balance |-> IF carry THEN Capped(before + days, Policy[p].cap)
                                   ELSE before + days,
              days    |-> days, cycle |-> cycle, carry |-> carry,
              release |-> release]
  BY DEF RowPlan
<1>2. before \in Int /\ accrual[p] \in Nat
  BY DEF Numbers
<1>3. DueDays(p, m) \in Nat
  BY <1>2, PolicyType DEF DueDays
<1>4. /\ days \in Nat
      /\ days > 0 => Due(p, m) /\ DueDays(p, m) > 0
  BY <1>2, <1>3, LimitedType
<1>5. Capped(before + days, Policy[p].cap) \in Int
  <2>1. before + days \in Int
    BY <1>2, <1>4
  <2> HIDE DEF before, days
  <2> QED BY <2>1, PolicyType, CappedType
<1>6. plan.balance \in Int
  <2> HIDE DEF before, days, carry, cycle, release, plan
  <2> QED BY <1>1, <1>2, <1>4, <1>5
<1>7. plan.release => plan.days > 0 /\ accrual[p] > 0
  <2> SUFFICES ASSUME plan.release PROVE plan.days > 0 /\ accrual[p] > 0
    OBVIOUS
  <2>1. days > 0 /\ Policy[p].kind = "Upfront" /\ plan.days = days
    <3>1. plan.release = release
      <4> HIDE DEF before, days, carry, cycle, release, plan
      <4> QED BY <1>1
    <3>2. plan.days = days
      <4> HIDE DEF before, days, carry, cycle, release, plan
      <4> QED BY <1>1
    <3> HIDE DEF before, days, carry, cycle, plan
    <3> QED BY <3>1, <3>2
  <2>2. DueDays(p, m) > 0
    BY <1>4, <2>1
  <2>3. DueDays(p, m) \in {0, accrual[p]}
    BY <2>1 DEF DueDays
  <2> HIDE DEF days
  <2> QED BY <2>1, <2>2, <2>3
<1>8. plan.days > 0 => added[p] # NoDay /\ credits[p][m] = 0
  <2>1. plan.days = days
    <3> HIDE DEF before, days, carry, cycle, release, plan
    <3> QED BY <1>1
  <2>2. Due(p, m) => added[p] # NoDay /\ credits[p][m] = 0
    BY DEF Due
  <2> HIDE DEF days
  <2> QED BY <1>4, <2>1, <2>2
<1> QED BY <1>6, <1>7, <1>8

LEMMA InitLInv == Init => LInv
<1> SUFFICES ASSUME Init PROVE LInv
  OBVIOUS
<1>1. runner \in [Runners -> {Idle}]
  BY DEF Init
<1>2. Numbers
  <2>1. \A r \in Runners : Record(runner[r])
    BY <1>1 DEF Record, Idle
  <2>2. /\ now \in Nat /\ active \subseteq PEs
        /\ added \in [PEs -> Nat \cup {NoDay}]
        /\ balance \in [PEs -> Int] /\ accrual \in [PEs -> Nat]
        /\ granted \in [PEs -> Nat] /\ credits \in [PEs -> [Months -> Nat]]
    BY DEF Init
  <2>3. \E S : runner \in [Runners -> S]
    BY <1>1
  <2> QED BY <2>1, <2>2, <2>3 DEF Numbers
<1>3. StagedDue
  BY <1>1 DEF StagedDue, Idle
<1> QED BY <1>2, <1>3 DEF LInv, Init, Stashed

\* The job's steps that write nothing but its own state.
LEMMA ThreadStep ==
    ASSUME LInv, OneRunner, NEW r \in Runners,
           Begin(r) \/ RecordRun(r) \/ FailJob(r)
    PROVE  LInv'
<1>1. UNCHANGED <<now, active, added, balance, accrual, granted, credits>>
  BY DEF Begin, RecordRun, FailJob, rows, ledger
<1>2. PICK x : runner' = [runner EXCEPT ![r] = x] /\ Record(x) /\ x.phase # "Staged"
  <2>1. CASE Begin(r)
    <3>1. PICK todo, gaps :
            runner' = [runner EXCEPT ![r] =
              [phase |-> "Period", today |-> now, todo |-> todo,
               gaps |-> gaps, plan |-> <<>>]]
      BY <2>1, Zenon DEF Begin
    <3> DEFINE x == [phase |-> "Period", today |-> now, todo |-> todo,
                     gaps |-> gaps, plan |-> <<>>]
    <3>2. Record(x) /\ x.phase # "Staged"
      BY DEF Record
    <3> HIDE DEF x
    <3> QED BY <3>1, <3>2 DEF x
  <2>2. CASE RecordRun(r) \/ FailJob(r)
    <3>1. Record(Idle) /\ Idle.phase # "Staged"
      BY DEF Record, Idle
    <3>2. runner' = [runner EXCEPT ![r] = Idle]
      BY <2>2 DEF RecordRun, FailJob
    <3> QED BY <3>1, <3>2
  <2> QED BY <2>1, <2>2
<1>3. /\ \E S : runner' \in [Runners -> S]
      /\ \A t \in Runners : runner'[t] = x
  <2>1. PICK S : runner \in [Runners -> S]
    BY DEF LInv, Numbers
  <2>2. runner' \in [Runners -> S \cup {x}]
    BY <1>2, <2>1
  <2> QED BY <1>2, <2>1, <2>2 DEF OneRunner
<1>4. Numbers'
  BY <1>1, <1>2, <1>3 DEF LInv, Numbers, Record
<1>5. StagedDue'
  BY <1>2, <1>3 DEF StagedDue
<1> QED BY <1>1, <1>4, <1>5 DEF LInv, Stashed

LEMMA ReadStep ==
    ASSUME LInv, OneRunner, NEW r \in Runners, ReadPeriod(r)
    PROVE  LInv'
<1> DEFINE d == Head(runner[r].todo)
           plan == [p \in PEs |-> RowPlan(p, d)]
<1>1. UNCHANGED <<now, active, added, balance, accrual, granted, credits>>
  BY DEF ReadPeriod, rows, ledger
<1>2. runner' = [runner EXCEPT ![r].phase = "Staged", ![r].plan = plan]
  BY DEF ReadPeriod
<1>3. PICK S : runner \in [Runners -> S]
  BY DEF LInv, Numbers
<1>4. runner[r] = [phase |-> runner[r].phase, today |-> runner[r].today,
                   todo |-> runner[r].todo, gaps |-> runner[r].gaps,
                   plan |-> runner[r].plan]
  BY DEF LInv, Numbers, Record
<1>5. /\ runner'[r].plan = plan /\ runner'[r].todo = runner[r].todo
      /\ Record(runner'[r])
  <2> HIDE DEF plan
  <2> QED BY <1>2, <1>3, <1>4 DEF Record
<1>6. \E T : runner' \in [Runners -> T]
  <2>1. runner' \in [Runners -> S \cup {runner'[r]}]
    BY <1>2, <1>3 DEF OneRunner
  <2> QED BY <2>1
<1>7. \A t \in Runners : t = r
  BY DEF OneRunner
<1>8. Numbers'
  BY <1>1, <1>5, <1>6, <1>7 DEF LInv, Numbers
<1>9. \A p \in PEs : PlanDue(plan, p, MonthOf(d))
  <2> TAKE p \in PEs
  <2>1. plan[p] = RowPlan(p, d)
    OBVIOUS
  <2> HIDE DEF plan
  <2> QED BY <2>1, RowPlanDue DEF LInv, PlanDue
<1>10. StagedDue'
  <2> HIDE DEF plan, d
  <2> SUFFICES ASSUME NEW p \in PEs
               PROVE  PlanDue(runner[r].plan, p, MonthOf(Head(runner[r].todo)))'
    BY <1>7 DEF StagedDue
  <2>1. Head(runner'[r].todo) = d
    BY <1>5 DEF d
  <2> QED BY <1>1, <1>5, <1>9, <2>1 DEF PlanDue, MonthOf, Months
<1> QED BY <1>1, <1>8, <1>10 DEF LInv, Stashed

\* A committed period credits each row at most once and releases a stash whose
\* grant had not been given.
LEMMA CommitStep ==
    ASSUME LInv, OneRunner, NEW r \in Runners, CommitPeriod(r)
    PROVE  LInv'
<1> DEFINE m == MonthOf(Head(runner[r].todo))
           plan == runner[r].plan
<1>1. /\ UNCHANGED <<now, active, added>>
      /\ balance' = [p \in PEs |->
             IF plan[p].balance # plan[p].read THEN plan[p].balance
                                               ELSE balance[p]]
      /\ accrual' = [p \in PEs |-> IF plan[p].release THEN 0 ELSE accrual[p]]
      /\ credits' = [p \in PEs |-> [credits[p] EXCEPT
             ![m] = @ + (IF plan[p].days > 0 THEN 1 ELSE 0)]]
      /\ granted' = [p \in PEs |->
             granted[p] + (IF plan[p].release THEN 1 ELSE 0)]
  BY DEF CommitPeriod
<1>2. /\ runner[r].phase = "Staged"
      /\ runner' = [runner EXCEPT ![r].phase = "Period",
                                  ![r].todo = Tail(@), ![r].plan = <<>>]
  BY DEF CommitPeriod
<1>3. PICK S : runner \in [Runners -> S]
  BY DEF LInv, Numbers
<1>4. runner[r] = [phase |-> runner[r].phase, today |-> runner[r].today,
                   todo |-> runner[r].todo, gaps |-> runner[r].gaps,
                   plan |-> runner[r].plan]
  BY DEF LInv, Numbers, Record
<1>5. runner'[r].phase = "Period" /\ Record(runner'[r])
  BY <1>2, <1>3, <1>4 DEF Record
<1>6. \E T : runner' \in [Runners -> T]
  <2>1. runner' \in [Runners -> S \cup {runner'[r]}]
    BY <1>2, <1>3 DEF OneRunner
  <2> QED BY <2>1
<1>7. \A t \in Runners : t = r
  BY DEF OneRunner
<1>8. \A p \in PEs : PlanDue(plan, p, m)
  BY <1>2 DEF LInv, StagedDue
<1> HIDE DEF plan, m
<1>9. /\ balance \in [PEs -> Int] /\ accrual \in [PEs -> Nat]
      /\ granted \in [PEs -> Nat] /\ credits \in [PEs -> [Months -> Nat]]
  BY DEF LInv, Numbers
<1>10. /\ balance' \in [PEs -> Int] /\ accrual' \in [PEs -> Nat]
       /\ granted' \in [PEs -> Nat]
  BY <1>1, <1>8, <1>9 DEF PlanDue
<1>11. /\ credits' \in [PEs -> [Months -> Nat]]
       /\ \A p \in PEs, k \in Months : credits'[p][k] <= 1
  <2>1. ASSUME NEW p \in PEs
        PROVE  /\ credits'[p] \in [Months -> Nat]
               /\ \A k \in Months : credits'[p][k] <= 1
    <3>1. credits[p] \in [Months -> Nat]
      BY <1>9
    <3>2. credits'[p] = [credits[p] EXCEPT ![m] = @ + (IF plan[p].days > 0 THEN 1 ELSE 0)]
      BY <1>1
    <3>3. \A k \in Months : credits[p][k] <= 1
      BY DEF LInv
    <3>4. plan[p].days > 0 => (m \in Months => credits[p][m] = 0)
      BY <1>8 DEF PlanDue
    <3>5. CASE m \in Months
      <4> DEFINE more == IF plan[p].days > 0 THEN 1 ELSE 0
      <4>1. more \in {0, 1} /\ (more = 1 => credits[p][m] = 0)
        BY <3>4, <3>5
      <4>2. credits'[p] = [credits[p] EXCEPT ![m] = @ + more]
        BY <3>2
      <4> HIDE DEF more
      <4>3. credits[p][m] \in Nat /\ credits[p][m] + more \in 0 .. 1
        BY <3>1, <3>3, <3>5, <4>1
      <4> QED BY <3>1, <3>3, <3>5, <4>2, <4>3
    <3>6. CASE m \notin Months
      BY <3>1, <3>2, <3>3, <3>6
    <3> QED BY <3>5, <3>6
  <2> QED BY <1>1, <2>1
<1>12. Numbers'
  BY <1>1, <1>5, <1>6, <1>7, <1>10, <1>11 DEF LInv, Numbers
<1>13. StagedDue'
  BY <1>5, <1>7 DEF StagedDue
<1>14. Stashed'
  BY <1>1, <1>8, <1>9 DEF LInv, Stashed, PlanDue
<1> QED BY <1>1, <1>11, <1>12, <1>13, <1>14 DEF LInv

\* Nothing but the job takes from leave_accrual, and an employee's first day
\* meets no plan that would credit them.
LEMMA RowStepLInv ==
    ASSUME LInv, NEW p \in PEs, RowStep(p)
    PROVE  LInv'
<1>1. UNCHANGED <<now, credits, runner>>
  BY DEF RowStep, AddEmployee, ExitEmployee, ApplyLeave, ApproveLeave,
         CloseLeave, EarnCompOff, ledger
<1>2. /\ now \in Nat /\ active \subseteq PEs
      /\ added \in [PEs -> Nat \cup {NoDay}]
      /\ balance \in [PEs -> Int] /\ accrual \in [PEs -> Nat]
      /\ granted \in [PEs -> Nat] /\ credits \in [PEs -> [Months -> Nat]]
  BY DEF LInv, Numbers
<1>3. CASE AddEmployee(p)
  <2>1. PICK s : LET deferred == s > MonthOf(now)
             opening  == IF deferred \/ Policy[p].kind = "None"
                         THEN Policy[p].initial
                         ELSE Policy[p].initial + Policy[p].amount
         IN /\ balance' = [balance EXCEPT
                  ![p] = Capped(opening, Policy[p].limit)]
            /\ accrual' = [accrual EXCEPT
                  ![p] = IF deferred /\ Policy[p].kind = "Upfront"
                         THEN Policy[p].amount ELSE 0]
            /\ granted' = [granted EXCEPT
                  ![p] = IF deferred \/ Policy[p].kind # "Upfront"
                         THEN 0 ELSE 1]
    BY <1>3 DEF AddEmployee
  <2>2. added[p] = NoDay /\ active' = active \cup {p}
        /\ added' = [added EXCEPT ![p] = MonthOf(now)]
    BY <1>3 DEF AddEmployee
  <2>3. MonthOf(now) \in Nat /\ MonthOf(now) # NoDay
    BY <1>2, LeaveAssumption DEF MonthOf
  <2>4. balance' \in [PEs -> Int]
    <3> DEFINE opening == IF s > MonthOf(now) \/ Policy[p].kind = "None"
                          THEN Policy[p].initial
                          ELSE Policy[p].initial + Policy[p].amount
    <3>1. opening \in Int
      BY PolicyType
    <3>2. balance' = [balance EXCEPT ![p] = Capped(opening, Policy[p].limit)]
      BY <2>1
    <3> HIDE DEF opening
    <3>3. Capped(opening, Policy[p].limit) \in Int
      BY <3>1, PolicyType, CappedType
    <3> QED BY <1>2, <3>2, <3>3
  <2>5. accrual' \in [PEs -> Nat] /\ granted' \in [PEs -> Nat]
    BY <1>2, <2>1, PolicyType
  <2>6. Numbers'
    BY <1>1, <1>2, <2>2, <2>3, <2>4, <2>5 DEF LInv, Numbers
  <2>7. Stashed'
    BY <1>2, <2>1 DEF LInv, Stashed
  <2>8. StagedDue'
    <3> SUFFICES ASSUME NEW t \in Runners, runner[t].phase = "Staged",
                        NEW q \in PEs
                 PROVE  PlanDue(runner[t].plan, q, MonthOf(Head(runner[t].todo)))'
      BY <1>1 DEF StagedDue
    <3>1. PlanDue(runner[t].plan, q, MonthOf(Head(runner[t].todo)))
      BY DEF LInv, StagedDue
    <3>2. CASE q = p
      BY <1>1, <2>2, <3>1, <3>2 DEF PlanDue
    <3>3. CASE q # p
      BY <1>1, <1>2, <2>1, <2>2, <3>1, <3>3 DEF PlanDue, MonthOf, Months
    <3> QED BY <3>2, <3>3
  <2>9. (\A q \in active : added[q] # NoDay)'
    BY <1>2, <2>2, <2>3 DEF LInv
  <2> QED BY <1>1, <2>6, <2>7, <2>8, <2>9 DEF LInv
<1>4. CASE ExitEmployee(p) \/ ApplyLeave(p) \/ ApproveLeave(p)
           \/ CloseLeave(p) \/ EarnCompOff(p)
  <2>1. /\ UNCHANGED <<added, granted>> /\ active' \subseteq active
        /\ balance' \in [PEs -> Int] /\ accrual' \in [PEs -> Nat]
        /\ \A q \in PEs : accrual'[q] >= accrual[q]
        /\ \A q \in PEs \ CompOffPEs : accrual'[q] = accrual[q]
    <3>1. CASE EarnCompOff(p)
      BY <1>2, <3>1 DEF EarnCompOff, ledger
    <3>2. CASE ApproveLeave(p)
      BY <1>2, <3>2 DEF ApproveLeave, ledger
    <3>3. CASE ExitEmployee(p) \/ ApplyLeave(p) \/ CloseLeave(p)
      BY <1>2, <3>3 DEF ExitEmployee, ApplyLeave, CloseLeave, ledger
    <3> QED BY <1>4, <3>1, <3>2, <3>3
  <2>2. Numbers'
    BY <1>1, <1>2, <2>1 DEF LInv, Numbers
  <2>3. Stashed'
    BY <2>1 DEF LInv, Stashed
  <2>4. StagedDue'
    <3> SUFFICES ASSUME NEW t \in Runners, runner[t].phase = "Staged",
                        NEW q \in PEs
                 PROVE  PlanDue(runner[t].plan, q, MonthOf(Head(runner[t].todo)))'
      BY <1>1 DEF StagedDue
    <3>1. PlanDue(runner[t].plan, q, MonthOf(Head(runner[t].todo)))
      BY DEF LInv, StagedDue
    <3> QED BY <1>1, <1>2, <2>1, <3>1 DEF PlanDue, MonthOf, Months
  <2> QED BY <1>1, <2>1, <2>2, <2>3, <2>4 DEF LInv
<1> QED BY <1>3, <1>4 DEF RowStep

\* A month is granted once to a row and an upfront grant is given once,
\* whatever is replayed, killed or repeated, if one thread runs the job: the
\* lookup of the source key and the emptied stash prevent the second grant, and
\* what a period read of them is still true when it is committed.
THEOREM GrantsGivenOnce ==
    ASSUME OneRunner
    PROVE  Spec => []GrantedOnce
<1>1. LInv /\ [Next]_vars => LInv'
  <2> SUFFICES ASSUME LInv, [Next]_vars PROVE LInv'
    OBVIOUS
  <2>1. ASSUME NEW r \in Runners, JobStep(r) \/ RunNow(r) \/ FailJob(r)
        PROVE  LInv'
    BY <2>1, OneRunner, ThreadStep, ReadStep, CommitStep
       DEF JobStep, StartDaily, RunNow
  <2>2. CASE Tick \/ UNCHANGED vars
    <3>1. /\ UNCHANGED <<active, added, balance, accrual, granted, credits, runner>>
          /\ now' \in Nat
      BY <2>2 DEF Tick, vars, rows, ledger, LInv, Numbers
    <3> QED BY <3>1 DEF LInv, Numbers, StagedDue, Stashed, PlanDue, Record,
                        MonthOf, Months
  <2> QED BY <2>1, <2>2, RowStepLInv DEF Next
<1>2. LInv => GrantedOnce
  BY DEF LInv, GrantedOnce, Stashed
<1> QED BY <1>1, <1>2, InitLInv, PTL DEF Spec
(***************************************************************************)
(* Types, for any number of runners.                                       *)
(***************************************************************************)
Plans == [read : Int, balance : Int, days : Nat,
          cycle : BOOLEAN, carry : BOOLEAN, release : BOOLEAN]

Jobs == [phase : {"Idle", "Period", "Staged"}, today : Days,
         todo : Seq(Days), gaps : Nat, plan : {<<>>} \cup [PEs -> Plans]]

\* A staged job has a period to write and a plan for every row.
Typed ==
    /\ TypeOK
    /\ runner \in [Runners -> Jobs]
    /\ \A r \in Runners : runner[r].phase = "Staged" =>
          runner[r].todo # <<>> /\ runner[r].plan \in [PEs -> Plans]

LEMMA MonthOfDay ==
    ASSUME NEW d \in Nat
    PROVE  MonthOf(d) \in Nat /\ 2 * MonthOf(d) <= d /\ d <= 2 * MonthOf(d) + 1
BY DEF MonthOf

LEMMA LastMonth ==
    ASSUME NEW d \in Days
    PROVE  MonthOf(d) \in Months
BY LeaveAssumption DEF MonthOf, Days, Months

\* The last day of a month before the month of d is a day before d.
LEMMA DayOfMonth ==
    ASSUME NEW d \in Days, NEW m \in Nat, m < MonthOf(d)
    PROVE  /\ m \in Months /\ month_end(m) \in Days /\ month_end(m) < d
           /\ MonthOf(month_end(m)) = m
<1>1. d \in Nat /\ d <= Horizon /\ Horizon \in Nat
  BY LeaveAssumption DEF Days
<1>2. MonthOf(d) \in Nat /\ 2 * MonthOf(d) <= d /\ MonthOf(d) \in Months
  BY <1>1, MonthOfDay, LastMonth
<1>3. m \in Months
  BY <1>1, <1>2 DEF Months
<1>4. month_end(m) \in Nat /\ month_end(m) < d
  BY <1>1, <1>2 DEF month_end
<1>5. MonthOf(month_end(m)) = m
  BY DEF MonthOf, month_end
<1> QED BY <1>1, <1>3, <1>4, <1>5 DEF Days

LEMMA MissingAreClosed ==
    ASSUME Typed
    PROVE  /\ MissingPeriods(now) \subseteq Months
           /\ \A m \in MissingPeriods(now) : m \in Nat /\ m < MonthOf(now)
           /\ IsFiniteSet(MissingPeriods(now))
           /\ Cardinality(MissingPeriods(now)) \in Nat
<1> DEFINE S == MissingPeriods(now)
<1>1. MonthOf(now) \in Nat
  BY MonthOfDay DEF Typed, TypeOK, Days
<1>2. S \subseteq Months /\ \A m \in S : m \in 0 .. MonthOf(now) - 1
  BY DEF MissingPeriods, Uncredited
<1>3. S \subseteq 0 .. MonthOf(now) - 1
  BY <1>2
<1>4. IsFiniteSet(0 .. MonthOf(now) - 1)
  BY <1>1, FS_Interval
<1>5. IsFiniteSet(S)
  BY <1>3, <1>4, FS_Subset
<1>6. Cardinality(S) \in Nat
  BY <1>5, FS_CardinalityType
<1> HIDE DEF S
<1>7. \A m \in S : m \in Nat /\ m < MonthOf(now)
  BY <1>1, <1>2
<1> QED BY <1>2, <1>5, <1>6, <1>7 DEF S

\* A run starts with the last day of every missing period, and with today.
LEMMA BeginTodo ==
    ASSUME Typed, NEW r \in Runners, Begin(r)
    PROVE  \E x \in Jobs :
             /\ runner' = [runner EXCEPT ![r] = x]
             /\ x.phase = "Period" /\ x.today = now
             /\ \A i \in 1 .. Len(x.todo) : x.todo[i] <= now
             /\ \E i \in 1 .. Len(x.todo) : x.todo[i] = now
             /\ \A m \in MissingPeriods(now) :
                   \E i \in 1 .. Len(x.todo) : x.todo[i] = month_end(m)
<1> DEFINE gaps == MissingPeriods(now)
           n == Cardinality(gaps)
<1>1. PICK s \in [1 .. n -> gaps] :
        /\ \A i, j \in 1 .. n : i < j => s[i] < s[j]
        /\ runner' = [runner EXCEPT ![r] =
             [phase |-> "Period", today |-> now,
              todo  |-> Append([i \in 1 .. n |-> month_end(s[i])], now),
              gaps  |-> n, plan |-> <<>>]]
  BY DEF Begin
<1> DEFINE days == [i \in 1 .. n |-> month_end(s[i])]
           todo == Append(days, now)
           x == [phase |-> "Period", today |-> now, todo |-> todo,
                 gaps |-> n, plan |-> <<>>]
<1>2. /\ gaps \subseteq Months /\ IsFiniteSet(gaps) /\ n \in Nat
      /\ \A m \in gaps : m \in Nat /\ m < MonthOf(now)
  BY MissingAreClosed
<1>3. now \in Days
  BY DEF Typed, TypeOK
<1>4. \A m \in gaps : month_end(m) \in Days /\ month_end(m) <= now
  BY <1>2, <1>3, DayOfMonth DEF Days
<1>5. days \in Seq(Days) /\ Len(days) = n
  <2>1. days \in [1 .. n -> Days]
    BY <1>1, <1>4
  <2> HIDE DEF days, n
  <2> QED BY <1>2, <2>1
<1>6. /\ todo \in Seq(Days) /\ Len(todo) = n + 1 /\ todo[n + 1] = now
      /\ \A i \in 1 .. n : todo[i] = days[i]
  <2> HIDE DEF days, n
  <2> QED BY <1>2, <1>3, <1>5
<1>7. \A i \in 1 .. n : days[i] = month_end(s[i]) /\ s[i] \in gaps
  BY <1>1
<1>8. \A m \in gaps : \E i \in 1 .. n : s[i] = m
  <2>1. s \in Injection(1 .. n, gaps)
    <3>1. ASSUME NEW i \in 1 .. n, NEW j \in 1 .. n, s[i] = s[j]
          PROVE  i = j
      <4>1. s[i] \in Nat /\ s[j] \in Nat /\ i \in Int /\ j \in Int
        BY <1>1, <1>2
      <4>2. ~(i < j) /\ ~(j < i)
        BY <1>1, <3>1, <4>1
      <4> QED BY <4>1, <4>2
    <3> QED BY <1>1, <3>1 DEF Injection, IsInjective
  <2>2. Cardinality(1 .. n) = n
    BY <1>2, FS_Interval
  <2> HIDE DEF gaps
  <2>3. s \in Surjection(1 .. n, gaps)
    BY <1>2, <2>1, <2>2, FS_Injection
  <2> QED BY <2>3 DEF Surjection
<1> HIDE DEF gaps, n, days, todo
<1>9. x \in Jobs
  BY <1>2, <1>3, <1>6 DEF Jobs
<1>10. \A i \in 1 .. Len(todo) : todo[i] <= now
  <2> SUFFICES ASSUME NEW i \in 1 .. n + 1 PROVE todo[i] <= now
    BY <1>6
  <2>1. CASE i = n + 1
    BY <1>3, <1>6, <2>1 DEF Days
  <2>2. CASE i # n + 1
    <3>1. i \in 1 .. n
      BY <1>2, <2>2
    <3> QED BY <1>4, <1>6, <1>7, <3>1
  <2> QED BY <2>1, <2>2
<1>11. \E i \in 1 .. Len(todo) : todo[i] = now
  BY <1>2, <1>6
<1>12. \A m \in gaps : \E i \in 1 .. Len(todo) : todo[i] = month_end(m)
  <2> TAKE m \in gaps
  <2>1. PICK i \in 1 .. n : s[i] = m
    BY <1>8
  <2>2. todo[i] = month_end(m) /\ i \in 1 .. Len(todo)
    BY <1>2, <1>6, <1>7, <2>1
  <2> QED BY <2>2
<1>13. runner' = [runner EXCEPT ![r] = x]
  BY <1>1 DEF todo, days
<1>14. x.phase = "Period" /\ x.today = now /\ x.todo = todo
  OBVIOUS
<1> HIDE DEF x
<1> QED BY <1>9, <1>10, <1>11, <1>12, <1>13, <1>14 DEF gaps

LEMMA RowPlanType ==
    ASSUME TypeOK, NEW p \in PEs, NEW d \in Days
    PROVE  RowPlan(p, d) \in Plans
<1> DEFINE m == MonthOf(d)
           due == Due(p, m)
           cycle == due /\ CycleExpires(p, m)
           before == IF cycle THEN 0 ELSE balance[p]
           days == IF due THEN WithinLimit(p, DueDays(p, m), before) ELSE 0
           carry == p \in active /\ YearEndDay(d) /\ Policy[p].kind # "None"
           after == IF carry THEN Capped(before + days, Policy[p].cap)
                             ELSE before + days
           release == days > 0 /\ Policy[p].kind = "Upfront"
<1>1. RowPlan(p, d) = [read |-> balance[p], balance |-> after, days |-> days,
                       cycle |-> cycle, carry |-> carry, release |-> release]
  BY DEF RowPlan
<1>2. balance[p] \in Int /\ before \in Int /\ accrual[p] \in Nat
  BY DEF TypeOK
<1>3. DueDays(p, m) \in Nat
  BY <1>2, PolicyType DEF DueDays
<1>4. days \in Nat
  BY <1>2, <1>3, LimitedType
<1>5. after \in Int
  <2>1. before + days \in Int
    BY <1>2, <1>4
  <2> HIDE DEF before, days, carry
  <2> QED BY <2>1, PolicyType, CappedType
<1>6. /\ cycle \in BOOLEAN /\ carry \in BOOLEAN /\ release \in BOOLEAN
  BY Zenon DEF Due, CycleExpires
<1> HIDE DEF before, days, carry, cycle, release, after
<1> QED BY <1>1, <1>2, <1>4, <1>5, <1>6 DEF Plans

LEMMA InitTyped == Init => Typed
<1> SUFFICES ASSUME Init PROVE Typed
  OBVIOUS
<1>1. runner = [r \in Runners |-> Idle]
  BY DEF Init
<1>2. Idle \in Jobs /\ Idle.phase = "Idle" /\ Idle.todo = <<>>
  BY LeaveAssumption DEF Idle, Jobs, Days
<1>3. 0 \in Days /\ 0 \in Months /\ 0 \in 0 .. MaxFailures
  BY LeaveAssumption DEF Days, Months
<1>4. \A r \in Runners : /\ runner[r].phase \in {"Idle", "Period", "Staged"}
                         /\ runner[r].todo \in Seq(Days)
  BY <1>1, <1>2 DEF Jobs
<1>5. TypeOK
  BY <1>3, <1>4, LeaveAssumption DEF Init, TypeOK
<1> QED BY <1>1, <1>2, <1>5 DEF Typed

\* A step that writes one thread's state, and of the job's results at most the
\* stamp and the number of failures.
LEMMA ThreadTyped ==
    ASSUME Typed, NEW r \in Runners, NEW x \in Jobs,
           runner' = [runner EXCEPT ![r] = x],
           x.phase = "Staged" => x.todo # <<>> /\ x.plan \in [PEs -> Plans],
           UNCHANGED <<now, rows, ledger>>,
           lastRun' \in Days \cup {NoDay}, failures' \in 0 .. MaxFailures
    PROVE  Typed'
<1>1. /\ runner' \in [Runners -> Jobs]
      /\ \A t \in Runners : runner'[t] = x \/ runner'[t] = runner[t]
  BY DEF Typed
<1>2. \A t \in Runners : /\ runner'[t].phase \in {"Idle", "Period", "Staged"}
                         /\ runner'[t].todo \in Seq(Days)
  BY <1>1 DEF Jobs
<1>3. TypeOK'
  BY <1>2 DEF Typed, TypeOK, rows, ledger
<1> QED BY <1>1, <1>3 DEF Typed

LEMMA BeginTyped ==
    ASSUME Typed, NEW r \in Runners, Begin(r)
    PROVE  Typed'
<1>1. PICK x \in Jobs : /\ runner' = [runner EXCEPT ![r] = x]
                        /\ x.phase = "Period"
  BY BeginTodo
<1>2. UNCHANGED <<now, rows, ledger, lastRun, failures>>
  BY DEF Begin
<1>3. lastRun' \in Days \cup {NoDay} /\ failures' \in 0 .. MaxFailures
  BY <1>2 DEF Typed, TypeOK
<1> QED BY <1>1, <1>2, <1>3, ThreadTyped

LEMMA EndTyped ==
    ASSUME Typed, NEW r \in Runners, RecordRun(r) \/ FailJob(r)
    PROVE  Typed'
<1>1. runner' = [runner EXCEPT ![r] = Idle] /\ UNCHANGED <<now, rows, ledger>>
  BY DEF RecordRun, FailJob
<1>2. lastRun' \in Days \cup {NoDay} /\ failures' \in 0 .. MaxFailures
  BY LeaveAssumption DEF RecordRun, FailJob, Typed, TypeOK
<1>3. Idle \in Jobs /\ Idle.phase = "Idle"
  BY LeaveAssumption DEF Idle, Jobs, Days
<1> QED BY <1>1, <1>2, <1>3, ThreadTyped

\* What a read does to its thread: the plan of the period's day is staged.
LEMMA ReadPlan ==
    ASSUME Typed, NEW r \in Runners, ReadPeriod(r)
    PROVE  LET d == Head(runner[r].todo)
           IN \E x \in Jobs :
             /\ runner' = [runner EXCEPT ![r] = x]
             /\ d \in Days /\ runner[r].phase = "Period"
             /\ x.phase = "Staged" /\ x.today = runner[r].today
             /\ x.todo = runner[r].todo /\ x.todo # <<>>
             /\ x.plan = [p \in PEs |-> RowPlan(p, d)]
             /\ x.plan \in [PEs -> Plans]
<1> DEFINE d == Head(runner[r].todo)
           plan == [p \in PEs |-> RowPlan(p, d)]
           x == [runner[r] EXCEPT !.phase = "Staged", !.plan = plan]
<1>1. /\ runner[r] \in Jobs /\ runner[r].todo \in Seq(Days)
      /\ runner[r].todo # <<>> /\ runner[r].phase = "Period"
  BY DEF Typed, Jobs, ReadPeriod
<1>2. d \in Days
  BY <1>1
<1>3. plan \in [PEs -> Plans]
  BY <1>2, RowPlanType DEF Typed
<1>4. runner' = [runner EXCEPT ![r].phase = "Staged", ![r].plan = plan]
  BY DEF ReadPeriod
<1> HIDE DEF plan, d
<1>5. runner' = [runner EXCEPT ![r] = x]
  BY <1>4 DEF Typed
<1>6. /\ x \in Jobs /\ x.phase = "Staged" /\ x.today = runner[r].today
      /\ x.todo = runner[r].todo /\ x.plan = plan
  BY <1>1, <1>3 DEF Jobs
<1> HIDE DEF x
<1> QED BY <1>1, <1>2, <1>3, <1>5, <1>6 DEF plan, d

LEMMA ReadTyped ==
    ASSUME Typed, NEW r \in Runners, ReadPeriod(r)
    PROVE  Typed'
<1>1. PICK x \in Jobs : /\ runner' = [runner EXCEPT ![r] = x]
                        /\ x.todo # <<>> /\ x.plan \in [PEs -> Plans]
  BY ReadPlan
<1>2. UNCHANGED <<now, rows, ledger, lastRun, failures>>
  BY DEF ReadPeriod
<1>3. lastRun' \in Days \cup {NoDay} /\ failures' \in 0 .. MaxFailures
  BY <1>2 DEF Typed, TypeOK
<1> QED BY <1>1, <1>2, <1>3, ThreadTyped

\* What a commit does to its thread: the period is done.
LEMMA CommitThread ==
    ASSUME Typed, NEW r \in Runners, CommitPeriod(r)
    PROVE  \E x \in Jobs :
             /\ runner' = [runner EXCEPT ![r] = x]
             /\ runner[r].phase = "Staged" /\ runner[r].todo # <<>>
             /\ runner[r].todo \in Seq(Days) /\ Head(runner[r].todo) \in Days
             /\ runner[r].plan \in [PEs -> Plans]
             /\ x.phase = "Period" /\ x.today = runner[r].today
             /\ x.todo = Tail(runner[r].todo)
<1> DEFINE x == [runner[r] EXCEPT !.phase = "Period", !.todo = Tail(@), !.plan = <<>>]
<1>1. /\ runner[r] \in Jobs /\ runner[r].todo \in Seq(Days)
      /\ runner[r].todo # <<>> /\ runner[r].phase = "Staged"
      /\ runner[r].plan \in [PEs -> Plans]
  BY DEF Typed, Jobs, CommitPeriod
<1>2. runner' = [runner EXCEPT ![r].phase = "Period",
                               ![r].todo = Tail(@), ![r].plan = <<>>]
  BY DEF CommitPeriod
<1>3. runner' = [runner EXCEPT ![r] = x]
  BY <1>2 DEF Typed
<1>4. Tail(runner[r].todo) \in Seq(Days) /\ Head(runner[r].todo) \in Days
  BY <1>1
<1>5. /\ x \in Jobs /\ x.phase = "Period" /\ x.today = runner[r].today
      /\ x.todo = Tail(runner[r].todo)
  BY <1>1, <1>4 DEF Jobs
<1> HIDE DEF x
<1> QED BY <1>1, <1>3, <1>4, <1>5

LEMMA CommitTyped ==
    ASSUME Typed, NEW r \in Runners, CommitPeriod(r)
    PROVE  Typed'
<1> DEFINE d == Head(runner[r].todo)
           m == MonthOf(d)
           plan == runner[r].plan
<1>1. PICK x \in Jobs : /\ runner' = [runner EXCEPT ![r] = x]
                        /\ d \in Days /\ plan \in [PEs -> Plans]
                        /\ x.phase = "Period"
  BY CommitThread
<1>2. m \in Months
  BY <1>1, LastMonth
<1>3. /\ balance' = [p \in PEs |->
             IF plan[p].balance # plan[p].read THEN plan[p].balance
                                               ELSE balance[p]]
      /\ accrual' = [p \in PEs |-> IF plan[p].release THEN 0 ELSE accrual[p]]
      /\ credits' = [p \in PEs |-> [credits[p] EXCEPT
             ![m] = @ + (IF plan[p].days > 0 THEN 1 ELSE 0)]]
      /\ cycled' = [p \in PEs |->
             IF plan[p].cycle THEN cycled[p] \cup {m} ELSE cycled[p]]
      /\ granted' = [p \in PEs |->
             granted[p] + (IF plan[p].release THEN 1 ELSE 0)]
      /\ carried' = [p \in PEs |->
             IF plan[p].carry THEN carried[p] \cup {m} ELSE carried[p]]
      /\ early' \in {early, early \cup {m}}
      /\ UNCHANGED <<now, added, active, start, taken, earned, pending,
                      lastRun, failures>>
  BY DEF CommitPeriod
<1> HIDE DEF d, m, plan
<1>4. TypeOK
  BY DEF Typed
<1>5. balance' \in [PEs -> Int] /\ accrual' \in [PEs -> Nat]
  BY <1>1, <1>3, <1>4 DEF TypeOK, Plans
<1>6. credits' \in [PEs -> [Months -> Nat]]
  <2>1. ASSUME NEW p \in PEs
        PROVE  [credits[p] EXCEPT ![m] = @ + (IF plan[p].days > 0 THEN 1 ELSE 0)]
                  \in [Months -> Nat]
    <3>1. credits[p] \in [Months -> Nat] /\ plan[p].days \in Nat
      BY <1>1, <1>4 DEF TypeOK, Plans
    <3> QED BY <1>2, <3>1
  <2> QED BY <1>3, <2>1
<1>7. cycled' \in [PEs -> SUBSET Months] /\ carried' \in [PEs -> SUBSET Months]
  BY <1>2, <1>3, <1>4 DEF TypeOK
<1>8. granted' \in [PEs -> Nat] /\ early' \subseteq Months
  BY <1>2, <1>3, <1>4 DEF TypeOK
<1>9. /\ runner' \in [Runners -> Jobs]
      /\ \A t \in Runners : runner'[t] = x \/ runner'[t] = runner[t]
  BY <1>1 DEF Typed
<1>10. \A t \in Runners : /\ runner'[t].phase \in {"Idle", "Period", "Staged"}
                          /\ runner'[t].todo \in Seq(Days)
  BY <1>9 DEF Jobs
<1>11. TypeOK'
  BY <1>3, <1>4, <1>5, <1>6, <1>7, <1>8, <1>10 DEF TypeOK
<1> QED BY <1>1, <1>9, <1>11 DEF Typed

LEMMA RowStepTyped ==
    ASSUME Typed, NEW p \in PEs, RowStep(p)
    PROVE  Typed'
<1>1. UNCHANGED <<now, credits, cycled, carried, early, lastRun, failures, runner>>
  BY DEF RowStep, AddEmployee, ExitEmployee, ApplyLeave, ApproveLeave,
         CloseLeave, EarnCompOff, ledger
<1>2. TypeOK
  BY DEF Typed
<1>3. CASE AddEmployee(p)
  <2>1. PICK s \in StartMonths :
          LET deferred == s > MonthOf(now)
              opening  == IF deferred \/ Policy[p].kind = "None"
                          THEN Policy[p].initial
                          ELSE Policy[p].initial + Policy[p].amount
          IN /\ start' = [start EXCEPT ![p] = s]
             /\ balance' = [balance EXCEPT
                   ![p] = Capped(opening, Policy[p].limit)]
             /\ accrual' = [accrual EXCEPT
                   ![p] = IF deferred /\ Policy[p].kind = "Upfront"
                          THEN Policy[p].amount ELSE 0]
             /\ granted' = [granted EXCEPT
                   ![p] = IF deferred \/ Policy[p].kind # "Upfront"
                          THEN 0 ELSE 1]
    BY <1>3 DEF AddEmployee
  <2>2. /\ added' = [added EXCEPT ![p] = MonthOf(now)]
        /\ active' = active \cup {p} /\ UNCHANGED <<taken, earned, pending>>
    BY <1>3 DEF AddEmployee
  <2>3. balance' \in [PEs -> Int]
    <3> DEFINE opening == IF s > MonthOf(now) \/ Policy[p].kind = "None"
                          THEN Policy[p].initial
                          ELSE Policy[p].initial + Policy[p].amount
    <3>1. opening \in Int
      BY PolicyType
    <3>2. balance' = [balance EXCEPT ![p] = Capped(opening, Policy[p].limit)]
      BY <2>1
    <3> HIDE DEF opening
    <3>3. Capped(opening, Policy[p].limit) \in Int
      BY <3>1, PolicyType, CappedType
    <3> QED BY <1>2, <3>2, <3>3 DEF TypeOK
  <2>4. accrual' \in [PEs -> Nat] /\ granted' \in [PEs -> Nat]
    BY <1>2, <2>1, PolicyType DEF TypeOK
  <2>5. MonthOf(now) \in Months /\ s \in Months
    BY <1>2, LastMonth, LeaveAssumption DEF TypeOK
  <2>6. added' \in [PEs -> Months \cup {NoDay}] /\ start' \in [PEs -> Months]
    BY <1>2, <2>1, <2>2, <2>5 DEF TypeOK
  <2>7. TypeOK'
    BY <1>1, <1>2, <2>2, <2>3, <2>4, <2>6 DEF TypeOK
  <2> QED BY <1>1, <2>7 DEF Typed
<1>4. CASE ExitEmployee(p) \/ ApplyLeave(p) \/ ApproveLeave(p)
           \/ CloseLeave(p) \/ EarnCompOff(p)
  <2>1. /\ UNCHANGED <<added, start, granted>> /\ active' \subseteq PEs
        /\ balance' \in [PEs -> Int] /\ accrual' \in [PEs -> Nat]
        /\ taken' \in [PEs -> Nat] /\ earned' \in [PEs -> Nat]
        /\ pending' \subseteq PEs
    <3>1. CASE EarnCompOff(p)
      BY <1>2, <3>1 DEF EarnCompOff, ledger, TypeOK
    <3>2. CASE ApproveLeave(p)
      BY <1>2, <3>2 DEF ApproveLeave, ledger, TypeOK
    <3>3. CASE ExitEmployee(p) \/ ApplyLeave(p) \/ CloseLeave(p)
      BY <1>2, <3>3 DEF ExitEmployee, ApplyLeave, CloseLeave, ledger, TypeOK
    <3> QED BY <1>4, <3>1, <3>2, <3>3
  <2>2. TypeOK'
    BY <1>1, <1>2, <2>1 DEF TypeOK
  <2> QED BY <1>1, <2>2 DEF Typed
<1> QED BY <1>3, <1>4 DEF RowStep

LEMMA NextTyped == Typed /\ [Next]_vars => Typed'
<1> SUFFICES ASSUME Typed, [Next]_vars PROVE Typed'
  OBVIOUS
<1>1. ASSUME NEW r \in Runners, JobStep(r) \/ RunNow(r) \/ FailJob(r)
      PROVE  Typed'
  BY <1>1, BeginTyped, ReadTyped, CommitTyped, EndTyped
     DEF JobStep, StartDaily, RunNow
<1>2. CASE Tick
  <2>1. UNCHANGED <<rows, ledger, lastRun, failures, runner>> /\ now' \in Days
    BY <1>2, LeaveAssumption DEF Tick, Typed, TypeOK, Days
  <2> QED BY <2>1 DEF Typed, TypeOK, rows, ledger
<1>3. CASE UNCHANGED vars
  BY <1>3 DEF vars, rows, ledger, Typed, TypeOK
<1> QED BY <1>1, <1>2, <1>3, RowStepTyped DEF Next

\* The type invariant, for any runners: in particular every day a run has left
\* to do is a day of the calendar, and every period it stages has a plan for
\* every row.
THEOREM LeaveTyped == Spec => []TypeOK
<1>1. Typed => TypeOK
  BY DEF Typed
<1> QED BY <1>1, InitTyped, NextTyped, PTL DEF Spec

(***************************************************************************)
(* What the replay repairs.                                                *)
(***************************************************************************)
\* The employee was there before month m and accrues in it.
Accrues(p, m) ==
    /\ p \in active /\ added[p] < m /\ start[p] <= m
    /\ Policy[p].kind = "Monthly" /\ Policy[p].limit = NoLimit
    /\ Policy[p].amount > 0

\* The employee was there before December m, which no run credited early.
Carries(p, m) ==
    /\ p \in active /\ added[p] < m /\ start[p] <= m
    /\ m \in Decembers /\ m \notin early /\ Policy[p].kind # "None"

\* A run outlives one midnight at most and has nothing to do in the future.
JobInTime(r) ==
    runner[r].phase # "Idle" =>
      /\ runner[r].today <= now /\ now <= runner[r].today + 1
      /\ \A i \in 1 .. Len(runner[r].todo) : runner[r].todo[i] <= runner[r].today

\* Nothing is dated in the future.
InTime ==
    /\ \A r \in Runners : JobInTime(r)
    /\ \A p \in PEs : added[p] # NoDay => added[p] <= MonthOf(now)
    /\ \A p \in active : added[p] # NoDay
    /\ lastRun # NoDay => lastRun <= now
    /\ \A p \in PEs, m \in Months : credits[p][m] > 0 => m <= MonthOf(now)

\* A month credited to anyone is credited to everyone who accrues in it, and
\* its year-end carry was applied to everyone who carries.
CreditedToAll ==
    \A m \in Months : (\E q \in PEs : credits[q][m] > 0) =>
        \A p \in PEs : /\ Accrues(p, m) => credits[p][m] > 0
                       /\ Carries(p, m) => m \in carried[p]

\* A staged period will do the same when it is committed.
PlanForAll(r) ==
    LET d == Head(runner[r].todo)
        m == MonthOf(d)
    IN runner[r].phase = "Staged" =>
         \A p \in PEs :
            /\ Accrues(p, m) => runner[r].plan[p].days > 0 \/ credits[p][m] > 0
            /\ d = month_end(m) /\ Carries(p, m) => runner[r].plan[p].carry

\* What a run owes to p for month m is done, or among the days it has left.
Left(r, d) == \E i \in 1 .. Len(runner[r].todo) : runner[r].todo[i] = d
LeftIn(r, m) ==
    \E i \in 1 .. Len(runner[r].todo) : MonthOf(runner[r].todo[i]) = m

NothingForgotten(r) ==
    runner[r].phase # "Idle" =>
      \A p \in PEs, m \in Months :
        MonthOf(runner[r].today) - Lookback <= m =>
          /\ m <= MonthOf(runner[r].today) /\ Accrues(p, m)
                => credits[p][m] > 0 \/ LeftIn(r, m)
          /\ month_end(m) <= runner[r].today /\ Carries(p, m)
                => m \in carried[p] \/ Left(r, month_end(m))

\* What the last recorded run leaves behind.
Repaired ==
    \A p \in PEs, m \in Months :
      (lastRun # NoDay /\ m < MonthOf(lastRun) /\ MonthOf(lastRun) - Lookback <= m)
        => /\ Accrues(p, m) => credits[p][m] > 0
           /\ Carries(p, m) => m \in carried[p]

RInv ==
    /\ Typed
    /\ InTime
    /\ CreditedToAll
    /\ \A r \in Runners : PlanForAll(r) /\ NothingForgotten(r)
    /\ Repaired

\* The numbers a proof about days and months needs.
LEMMA Numbered ==
    ASSUME Typed
    PROVE  /\ now \in Nat /\ now \in Days /\ MonthOf(now) \in Nat
           /\ Lookback \in Nat /\ NoDay \notin Nat /\ Months \subseteq Nat
           /\ active \subseteq PEs
           /\ \A p \in PEs : /\ start[p] \in Nat
                             /\ added[p] # NoDay => added[p] \in Nat
           /\ \A p \in PEs, m \in Months : credits[p][m] \in Nat
           /\ \A r \in Runners : /\ runner[r].today \in Nat
                                 /\ MonthOf(runner[r].today) \in Nat
                                 /\ runner[r].todo \in Seq(Days)
           /\ lastRun # NoDay => lastRun \in Nat /\ MonthOf(lastRun) \in Nat
           /\ Days \subseteq Nat
<1>1. Days \subseteq Nat /\ Months \subseteq Nat
  BY DEF Days, Months
<1>2. /\ now \in Days /\ Lookback \in Nat /\ NoDay \notin Nat
      /\ active \subseteq PEs /\ lastRun \in Days \cup {NoDay}
      /\ added \in [PEs -> Months \cup {NoDay}] /\ start \in [PEs -> Months]
      /\ credits \in [PEs -> [Months -> Nat]]
  BY LeaveAssumption DEF Typed, TypeOK
<1>3. \A r \in Runners : runner[r].today \in Days /\ runner[r].todo \in Seq(Days)
  BY DEF Typed, Jobs
<1>4. \A p \in PEs, m \in Months : credits[p][m] \in Nat
  BY <1>2
<1> QED BY <1>1, <1>2, <1>3, <1>4, MonthOfDay

LEMMA MonthOrder ==
    ASSUME NEW a \in Nat, NEW b \in Nat
    PROVE  /\ a <= b => MonthOf(a) <= MonthOf(b)
           /\ b <= a + 1 => MonthOf(b) <= MonthOf(a) + 1
           /\ (b <= a + 1 /\ MonthOf(a) < MonthOf(b)) => month_end(MonthOf(a)) <= a
           /\ month_end(MonthOf(a)) <= b => MonthOf(a) <= MonthOf(b)
<1>1. /\ MonthOf(a) \in Nat /\ 2 * MonthOf(a) <= a /\ a <= 2 * MonthOf(a) + 1
      /\ MonthOf(b) \in Nat /\ 2 * MonthOf(b) <= b /\ b <= 2 * MonthOf(b) + 1
  BY MonthOfDay
<1> QED BY <1>1 DEF month_end

LEMMA EndOfMonth ==
    ASSUME NEW m \in Nat, NEW b \in Nat
    PROVE  /\ MonthOf(month_end(m)) = m /\ month_end(m) \in Nat
           /\ month_end(m) <= b => m <= MonthOf(b)
           /\ m < MonthOf(b) => month_end(m) <= b
<1>1. /\ MonthOf(b) \in Nat /\ 2 * MonthOf(b) <= b /\ b <= 2 * MonthOf(b) + 1
  BY MonthOfDay
<1>2. MonthOf(month_end(m)) = m /\ month_end(m) \in Nat
  BY DEF MonthOf, month_end
<1> QED BY <1>1, <1>2 DEF month_end

\* What every step keeps: credits, carries and early months are not taken back,
\* and nobody comes to accrue or carry in a month that has begun.
LEMMA Kept ==
    ASSUME Typed, InTime, [Next]_vars
    PROVE  /\ \A p \in PEs, m \in Months : credits'[p][m] >= credits[p][m]
           /\ \A p \in PEs : carried[p] \subseteq carried'[p]
           /\ now <= now' /\ now' <= now + 1
           /\ \A p \in PEs, m \in Months : m <= MonthOf(now) =>
                 /\ Accrues(p, m)' => Accrues(p, m)
                 /\ Carries(p, m)' => Carries(p, m)
<1>1. CASE \E p \in PEs : AddEmployee(p)
  <2>1. PICK q \in PEs : AddEmployee(q)
    BY <1>1
  <2>2. /\ added[q] = NoDay /\ added' = [added EXCEPT ![q] = MonthOf(now)]
        /\ active' = active \cup {q} /\ \E s : start' = [start EXCEPT ![q] = s]
        /\ UNCHANGED <<now, credits, carried, early>>
    BY <2>1 DEF AddEmployee
  <2>3. added \in [PEs -> Months \cup {NoDay}] /\ start \in [PEs -> Months]
    BY DEF Typed, TypeOK
  <2>4. \A p \in PEs, m \in Months : m <= MonthOf(now) =>
                 /\ Accrues(p, m)' => Accrues(p, m)
                 /\ Carries(p, m)' => Carries(p, m)
    <3> SUFFICES ASSUME NEW p \in PEs, NEW m \in Months, m <= MonthOf(now)
                 PROVE  /\ Accrues(p, m)' => Accrues(p, m)
                        /\ Carries(p, m)' => Carries(p, m)
      OBVIOUS
    <3>1. CASE p = q
      <4>1. ~(added'[p] < m)
        BY <2>2, <2>3, <3>1, Numbered
      <4> QED BY <4>1 DEF Accrues, Carries
    <3>2. CASE p # q
      BY <2>2, <2>3, <3>2 DEF Accrues, Carries
    <3> QED BY <3>1, <3>2
  <2> QED BY <2>2, <2>4, Numbered
<1>2. CASE ~\E p \in PEs : AddEmployee(p)
  <2>1. /\ UNCHANGED <<added, start>> /\ active' \subseteq active
        /\ early \subseteq early' /\ now' \in {now, now + 1}
    BY <1>2 DEF Next, JobStep, RunNow, StartDaily, Begin, ReadPeriod,
         CommitPeriod, RecordRun, FailJob, RowStep, ExitEmployee, ApplyLeave,
         ApproveLeave, CloseLeave, EarnCompOff, Tick, vars, rows, ledger
  <2>2. /\ \A p \in PEs, m \in Months : credits'[p][m] >= credits[p][m]
        /\ \A p \in PEs : carried[p] \subseteq carried'[p]
    <3>1. CASE \E r \in Runners : CommitPeriod(r)
      <4>1. PICK r \in Runners : CommitPeriod(r)
        BY <3>1
      <4> DEFINE plan == runner[r].plan
                 k == MonthOf(Head(runner[r].todo))
      <4>2. /\ credits' = [p \in PEs |-> [credits[p] EXCEPT
                  ![k] = @ + (IF plan[p].days > 0 THEN 1 ELSE 0)]]
            /\ carried' = [p \in PEs |->
                  IF plan[p].carry THEN carried[p] \cup {k} ELSE carried[p]]
        BY <4>1 DEF CommitPeriod
      <4>3. credits \in [PEs -> [Months -> Nat]]
        BY DEF Typed, TypeOK
      <4> HIDE DEF plan, k
      <4> QED BY <4>2, <4>3
    <3>2. CASE ~\E r \in Runners : CommitPeriod(r)
      <4>1. UNCHANGED <<credits, carried>>
        BY <1>2, <3>2 DEF Next, JobStep, RunNow, StartDaily, Begin, ReadPeriod,
           RecordRun, FailJob, RowStep, ExitEmployee, ApplyLeave,
           ApproveLeave, CloseLeave, EarnCompOff, Tick, vars, rows, ledger
      <4> QED BY <4>1, Numbered
    <3> QED BY <3>1, <3>2
  <2> QED BY <2>1, <2>2, Numbered DEF Accrues, Carries
<1> QED BY <1>1, <1>2

\* Nothing comes to be owed for a month that has begun, so a thread that does
\* not step keeps what it staged and has left.
LEMMA OtherThreads ==
    ASSUME RInv, [Next]_vars, NEW t \in Runners, runner'[t] = runner[t]
    PROVE  PlanForAll(t)' /\ NothingForgotten(t)'
<1>1. Typed /\ InTime /\ PlanForAll(t) /\ NothingForgotten(t) /\ JobInTime(t)
  BY DEF RInv, InTime
<1>2. \A p \in PEs, m \in Months : m <= MonthOf(now) =>
                 /\ Accrues(p, m)' => Accrues(p, m)
                 /\ Carries(p, m)' => Carries(p, m)
  BY <1>1, Kept
<1>3. /\ \A p \in PEs, m \in Months : credits'[p][m] >= credits[p][m]
      /\ \A p \in PEs : carried[p] \subseteq carried'[p]
      /\ \A p \in PEs, m \in Months : credits'[p][m] \in Nat
  <2>1. credits' \in [PEs -> [Months -> Nat]]
    BY <1>1, NextTyped DEF Typed, TypeOK
  <2> QED BY <1>1, <2>1, Kept
<1>4. /\ now \in Nat /\ runner[t].today \in Nat /\ runner[t].todo \in Seq(Days)
      /\ Months \subseteq Nat /\ Days \subseteq Nat
      /\ MonthOf(now) \in Nat /\ MonthOf(runner[t].today) \in Nat
      /\ \A p \in PEs, m \in Months : credits[p][m] \in Nat
  BY <1>1, Numbered
<1>5. PlanForAll(t)'
  <2> SUFFICES ASSUME runner[t].phase = "Staged", NEW p \in PEs,
                      NEW d, d = Head(runner[t].todo)
               PROVE  /\ Accrues(p, MonthOf(d))' =>
                            \/ runner[t].plan[p].days > 0
                            \/ credits'[p][MonthOf(d)] > 0
                      /\ d = month_end(MonthOf(d)) /\ Carries(p, MonthOf(d))'
                            => runner[t].plan[p].carry
    BY DEF PlanForAll, MonthOf, month_end
  <2> DEFINE m == MonthOf(d)
  <2>1. runner[t].todo # <<>> /\ runner[t].todo[1] = d
    BY <1>1 DEF Typed
  <2>2. d \in Days /\ d <= runner[t].today /\ runner[t].today <= now
    <3>1. 1 \in 1 .. Len(runner[t].todo)
      BY <1>4, <2>1
    <3>2. d \in Days
      BY <1>4, <2>1
    <3> QED BY <1>1, <2>1, <3>1, <3>2 DEF JobInTime
  <2>3. m \in Months /\ m <= MonthOf(now)
    <3>0. d \in Nat /\ runner[t].today \in Nat /\ now \in Nat
      BY <1>4, <2>2
    <3>1. d \in Nat /\ d <= now
      BY <2>2, <3>0
    <3> QED BY <1>4, <2>2, <3>1, LastMonth, MonthOrder
  <2>4. /\ Accrues(p, m) => runner[t].plan[p].days > 0 \/ credits[p][m] > 0
        /\ d = month_end(m) /\ Carries(p, m) => runner[t].plan[p].carry
    BY <1>1 DEF PlanForAll
  <2>5. credits'[p][m] >= credits[p][m] /\ credits[p][m] \in Nat /\ credits'[p][m] \in Nat
    BY <1>3, <1>4, <2>3
  <2>6. /\ Accrues(p, m)' => Accrues(p, m)
        /\ Carries(p, m)' => Carries(p, m)
    BY <1>2, <2>3
  <2> QED BY <2>4, <2>5, <2>6
<1>6. NothingForgotten(t)'
  <2> SUFFICES ASSUME runner[t].phase # "Idle", NEW p \in PEs, NEW m \in Months,
                      MonthOf(runner[t].today) - Lookback <= m
               PROVE  /\ m <= MonthOf(runner[t].today) /\ Accrues(p, m)'
                            => credits'[p][m] > 0 \/ LeftIn(t, m)
                      /\ month_end(m) <= runner[t].today /\ Carries(p, m)'
                            => m \in carried'[p] \/ Left(t, month_end(m))
    BY DEF NothingForgotten, LeftIn, Left, MonthOf, month_end, Months
  <2>1. MonthOf(runner[t].today) <= MonthOf(now)
    BY <1>1, <1>4, MonthOrder DEF JobInTime
  <2>2. month_end(m) <= runner[t].today => m <= MonthOf(runner[t].today)
    BY <1>4, EndOfMonth
  <2>3. m \in Nat
    BY <1>4
  <2>4. m <= MonthOf(runner[t].today) => m <= MonthOf(now)
    BY <1>4, <2>1, <2>3
  <2>5. /\ m <= MonthOf(runner[t].today) /\ Accrues(p, m)
              => credits[p][m] > 0 \/ LeftIn(t, m)
        /\ month_end(m) <= runner[t].today /\ Carries(p, m)
              => m \in carried[p] \/ Left(t, month_end(m))
    BY <1>1 DEF NothingForgotten
  <2>6. credits[p][m] > 0 => credits'[p][m] > 0
    BY <1>3, <1>4
  <2>7. m \in carried[p] => m \in carried'[p]
    BY <1>3
  <2> QED BY <1>2, <2>2, <2>4, <2>5, <2>6, <2>7
<1> QED BY <1>5, <1>6

\* The replay looks back to the first month anyone accrues in.
LEMMA EarliestIsLeast ==
    ASSUME Typed, NEW p \in active
    PROVE  EarliestStart \in Nat /\ EarliestStart <= start[p]
<1> DEFINE S == {start[q] : q \in active}
<1>1. S \subseteq Nat /\ S # {} /\ start[p] \in S
  BY Numbered
<1>2. \A q \in active : start[q] \in S
  OBVIOUS
<1>3. EarliestStart = CHOOSE m \in S : \A q \in active : m <= start[q]
  BY DEF EarliestStart
<1>4. \A q \in active : start[q] \in Nat
  BY Numbered
<1> HIDE DEF S
<1>5. PICK n \in S : \A m \in S : ~(m < n)
  BY <1>1, LeastMember
<1>6. \A q \in active : n <= start[q]
  BY <1>1, <1>2, <1>4, <1>5
<1>7. EarliestStart \in S /\ \A q \in active : EarliestStart <= start[q]
  BY <1>3, <1>6
<1> QED BY <1>1, <1>7

\* What Begin leaves out: months somebody was credited for.
LEMMA MissingOrCredited ==
    ASSUME Typed, NEW p \in active, NEW m \in Months, m < MonthOf(now),
           start[p] <= m, MonthOf(now) - Lookback <= m
    PROVE  m \in MissingPeriods(now) \/ \E q \in PEs : credits[q][m] > 0
<1>1. EarliestStart <= m
  BY EarliestIsLeast, Numbered
<1>2. m \in Months \cap 0 .. MonthOf(now) - 1
  BY Numbered
<1>3. (\A q \in PEs : credits[q][m] = 0) => m \in MissingPeriods(now)
  BY <1>1, <1>2 DEF MissingPeriods, Uncredited
<1> QED BY <1>3, Numbered

(***************************************************************************)
(* Each step keeps the dates and the repair.                               *)
(***************************************************************************)
\* A thread takes up x; the rows and what was credited stay.
LEMMA ThreadInTime ==
    ASSUME Typed, InTime, NEW r \in Runners, NEW x,
           runner' = [runner EXCEPT ![r] = x], UNCHANGED <<now, rows, ledger>>,
           lastRun' \in {lastRun, now, NoDay},
           x.phase # "Idle" =>
             /\ x.today <= now /\ now <= x.today + 1
             /\ \A i \in 1 .. Len(x.todo) : x.todo[i] <= x.today
    PROVE  InTime'
<1>1. \A t \in Runners : runner'[t] = IF t = r THEN x ELSE runner[t]
  BY DEF Typed
<1>2. UNCHANGED <<now, added, active, credits>>
  BY DEF rows, ledger
<1>3. \A t \in Runners : JobInTime(t)'
  BY <1>1, <1>2 DEF InTime, JobInTime
<1>4. lastRun' # NoDay => lastRun' <= now
  BY Numbered DEF InTime
<1> QED BY <1>2, <1>3, <1>4 DEF InTime, MonthOf, Months

\* Credits and carries of a step that commits nothing.
LEMMA CreditedKept ==
    ASSUME RInv, [Next]_vars, UNCHANGED <<credits, carried>>
    PROVE  CreditedToAll'
<1>1. Typed /\ InTime /\ CreditedToAll
  BY DEF RInv
<1>2. \A p \in PEs, m \in Months : m <= MonthOf(now) =>
                 /\ Accrues(p, m)' => Accrues(p, m)
                 /\ Carries(p, m)' => Carries(p, m)
  BY <1>1, Kept
<1> SUFFICES ASSUME NEW m \in Months, NEW q \in PEs, credits[q][m] > 0, NEW p \in PEs
             PROVE  /\ Accrues(p, m)' => credits[p][m] > 0
                    /\ Carries(p, m)' => m \in carried[p]
  BY DEF CreditedToAll, Months
<1>3. m <= MonthOf(now)
  BY <1>1 DEF InTime
<1> QED BY <1>1, <1>2, <1>3 DEF CreditedToAll

\* The stamp of a step that records no run.
LEMMA RepairedKept ==
    ASSUME RInv, [Next]_vars, lastRun' = lastRun \/ lastRun' = NoDay
    PROVE  Repaired'
<1>1. Typed /\ InTime /\ Repaired
  BY DEF RInv
<1>2. \A p \in PEs, m \in Months : m <= MonthOf(now) =>
                 /\ Accrues(p, m)' => Accrues(p, m)
                 /\ Carries(p, m)' => Carries(p, m)
  BY <1>1, Kept
<1>3. /\ \A p \in PEs, m \in Months : credits'[p][m] >= credits[p][m]
      /\ \A p \in PEs : carried[p] \subseteq carried'[p]
      /\ \A p \in PEs, m \in Months : credits'[p][m] \in Nat
  <2>1. credits' \in [PEs -> [Months -> Nat]]
    BY <1>1, NextTyped DEF Typed, TypeOK
  <2> QED BY <1>1, <2>1, Kept
<1> SUFFICES ASSUME lastRun # NoDay, lastRun' = lastRun, NEW p \in PEs, NEW m \in Months,
                    m < MonthOf(lastRun), MonthOf(lastRun) - Lookback <= m
             PROVE  /\ Accrues(p, m)' => credits'[p][m] > 0
                    /\ Carries(p, m)' => m \in carried'[p]
  BY DEF Repaired, MonthOf, Months
<1>4. m <= MonthOf(now)
  <2>1. /\ lastRun \in Nat /\ now \in Nat /\ lastRun <= now
        /\ MonthOf(lastRun) \in Nat /\ MonthOf(now) \in Nat /\ m \in Nat
    BY <1>1, Numbered DEF InTime
  <2>2. MonthOf(lastRun) <= MonthOf(now)
    BY <2>1, MonthOrder
  <2> QED BY <2>1, <2>2
<1>5. /\ Accrues(p, m) => credits[p][m] > 0
      /\ Carries(p, m) => m \in carried[p]
  BY <1>1 DEF Repaired
<1>6. credits'[p][m] >= credits[p][m] /\ credits[p][m] \in Nat /\ credits'[p][m] \in Nat
  BY <1>1, <1>3, Numbered
<1> QED BY <1>2, <1>3, <1>4, <1>5, <1>6

LEMMA BeginKeeps ==
    ASSUME RInv, NEW r \in Runners, Begin(r), [Next]_vars
    PROVE  RInv'
<1>1. PICK x \in Jobs :
        /\ runner' = [runner EXCEPT ![r] = x]
        /\ x.phase = "Period" /\ x.today = now
        /\ \A i \in 1 .. Len(x.todo) : x.todo[i] <= now
        /\ \E i \in 1 .. Len(x.todo) : x.todo[i] = now
        /\ \A m \in MissingPeriods(now) :
              \E i \in 1 .. Len(x.todo) : x.todo[i] = month_end(m)
  BY BeginTodo DEF RInv
<1>2. UNCHANGED <<now, rows, ledger, lastRun, failures>>
  BY DEF Begin
<1>3. Typed /\ InTime /\ CreditedToAll
  BY DEF RInv
<1>4. InTime'
  <2>1. x.today <= now /\ now <= x.today + 1
    BY <1>1, <1>3, Numbered
  <2>2. \A i \in 1 .. Len(x.todo) : x.todo[i] <= x.today
    BY <1>1
  <2> QED BY <1>1, <1>2, <1>3, <2>1, <2>2, ThreadInTime
<1>5. CreditedToAll' /\ Repaired'
  BY <1>2, CreditedKept, RepairedKept DEF ledger
<1>6. runner'[r] = x /\ \A t \in Runners \ {r} : runner'[t] = runner[t]
  BY <1>1, <1>3 DEF Typed
<1>7. PlanForAll(r)'
  BY <1>1, <1>6 DEF PlanForAll
<1>8. NothingForgotten(r)'
  <2>1. UNCHANGED <<now, added, active, start, credits, carried, early>>
    BY <1>2 DEF rows, ledger
  <2> SUFFICES ASSUME NEW p \in PEs, NEW m \in Months, MonthOf(now) - Lookback <= m
               PROVE  /\ m <= MonthOf(now) /\ Accrues(p, m)
                            => \/ credits[p][m] > 0
                               \/ \E i \in 1 .. Len(x.todo) : MonthOf(x.todo[i]) = m
                      /\ month_end(m) <= now /\ Carries(p, m)
                            => \/ m \in carried[p]
                               \/ \E i \in 1 .. Len(x.todo) : x.todo[i] = month_end(m)
    BY <1>1, <1>6, <2>1 DEF NothingForgotten, LeftIn, Left, MonthOf, month_end,
       Months, Accrues, Carries
  <2>2. m \in Nat /\ now \in Nat /\ MonthOf(now) \in Nat
    BY <1>3, Numbered
  <2>3. /\ MonthOf(month_end(m)) = m
        /\ month_end(m) <= now => m <= MonthOf(now)
    BY <2>2, EndOfMonth
  <2>4. CASE m = MonthOf(now)
    <3>1. \E i \in 1 .. Len(x.todo) : MonthOf(x.todo[i]) = m
      BY <1>1, <2>4
    <3>2. month_end(m) <= now => now = month_end(m)
      <4>1. now <= 2 * m + 1
        BY <2>2, <2>4, MonthOfDay
      <4> QED BY <2>2, <4>1 DEF month_end
    <3> QED BY <1>1, <3>1, <3>2
  <2>5. CASE m < MonthOf(now)
    <3>1. CASE p \in active /\ start[p] <= m
      <4>1. CASE m \in MissingPeriods(now)
        BY <1>1, <2>3, <4>1
      <4>2. CASE \E q \in PEs : credits[q][m] > 0
        BY <1>3, <4>2 DEF CreditedToAll
      <4> QED BY <1>3, <2>5, <3>1, <4>1, <4>2, MissingOrCredited
    <3>2. CASE ~(p \in active /\ start[p] <= m)
      BY <3>2 DEF Accrues, Carries
    <3> QED BY <3>1, <3>2
  <2>6. CASE m > MonthOf(now)
    BY <2>2, <2>3, <2>6
  <2> QED BY <2>2, <2>4, <2>5, <2>6
<1>9. \A t \in Runners : PlanForAll(t)' /\ NothingForgotten(t)'
  BY <1>6, <1>7, <1>8, OtherThreads
<1> QED BY <1>3, <1>4, <1>5, <1>9, NextTyped DEF RInv

LEMMA ReadKeeps ==
    ASSUME RInv, NEW r \in Runners, ReadPeriod(r), [Next]_vars
    PROVE  RInv'
<1>1. PICK d : d = Head(runner[r].todo)
  OBVIOUS
<1>2. PICK x \in Jobs :
        /\ runner' = [runner EXCEPT ![r] = x]
        /\ d \in Days /\ runner[r].phase = "Period"
        /\ x.phase = "Staged" /\ x.today = runner[r].today
        /\ x.todo = runner[r].todo /\ x.todo # <<>>
        /\ x.plan = [p \in PEs |-> RowPlan(p, d)]
  BY <1>1, ReadPlan DEF RInv
<1>3. UNCHANGED <<now, rows, ledger, lastRun, failures>>
  BY DEF ReadPeriod
<1>4. Typed /\ InTime /\ NothingForgotten(r) /\ JobInTime(r)
  BY DEF RInv, InTime
<1>5. InTime'
  <2>1. /\ x.today <= now /\ now <= x.today + 1
        /\ \A i \in 1 .. Len(x.todo) : x.todo[i] <= x.today
    BY <1>2, <1>4 DEF JobInTime
  <2> QED BY <1>2, <1>3, <1>4, <2>1, ThreadInTime
<1>6. CreditedToAll' /\ Repaired'
  BY <1>3, CreditedKept, RepairedKept DEF ledger
<1>7. runner'[r] = x /\ \A t \in Runners \ {r} : runner'[t] = runner[t]
  BY <1>2, <1>4 DEF Typed
<1>8. UNCHANGED <<now, added, active, start, credits, carried, early>>
  BY <1>3 DEF rows, ledger
<1>9. PlanForAll(r)'
  <2> DEFINE m == MonthOf(d)
  <2> SUFFICES ASSUME NEW p \in PEs
               PROVE  /\ Accrues(p, m) => RowPlan(p, d).days > 0 \/ credits[p][m] > 0
                      /\ d = month_end(m) /\ Carries(p, m) => RowPlan(p, d).carry
    BY <1>1, <1>2, <1>7, <1>8 DEF PlanForAll, MonthOf, month_end, Accrues, Carries
  <2>1. m \in Months /\ credits[p][m] \in Nat
    BY <1>2, <1>4, LastMonth, Numbered
  <2> DEFINE due == Due(p, m)
             cycle == due /\ CycleExpires(p, m)
             before == IF cycle THEN 0 ELSE balance[p]
             days == IF due THEN WithinLimit(p, DueDays(p, m), before) ELSE 0
             carry == p \in active /\ YearEndDay(d) /\ Policy[p].kind # "None"
  <2>2. RowPlan(p, d).days = days /\ RowPlan(p, d).carry = carry
    BY DEF RowPlan
  <2>3. ASSUME Accrues(p, m), credits[p][m] = 0
        PROVE  days > 0
    <3>1. due /\ DueDays(p, m) = Policy[p].amount
      BY <1>4, <2>1, <2>3, Numbered DEF Accrues, Due, DueDays
    <3>2. WithinLimit(p, DueDays(p, m), before) = DueDays(p, m)
      BY <2>3 DEF Accrues, WithinLimit
    <3> HIDE DEF before, due
    <3> QED BY <2>3, <3>1, <3>2 DEF Accrues
  <2>4. d = month_end(m) /\ Carries(p, m) => carry
    BY DEF Carries, YearEndDay
  <2> HIDE DEF days, carry, before, due, m
  <2> QED BY <2>1, <2>2, <2>3, <2>4
<1>10. NothingForgotten(r)'
  BY <1>2, <1>4, <1>7, <1>8 DEF NothingForgotten, LeftIn, Left, MonthOf,
     month_end, Months, Accrues, Carries
<1>11. \A t \in Runners : PlanForAll(t)' /\ NothingForgotten(t)'
  BY <1>7, <1>9, <1>10, OtherThreads
<1> QED BY <1>4, <1>5, <1>6, <1>11, NextTyped DEF RInv

LEMMA EndKeeps ==
    ASSUME RInv, NEW r \in Runners, RecordRun(r) \/ FailJob(r), [Next]_vars
    PROVE  RInv'
<1>1. /\ runner' = [runner EXCEPT ![r] = Idle] /\ UNCHANGED <<now, rows, ledger>>
      /\ lastRun' \in {lastRun, now, NoDay}
  BY DEF RecordRun, FailJob
<1>2. Typed /\ InTime /\ NothingForgotten(r) /\ JobInTime(r)
  BY DEF RInv, InTime
<1>3. Idle.phase = "Idle"
  BY DEF Idle
<1>4. InTime'
  BY <1>1, <1>2, <1>3, ThreadInTime
<1>5. CreditedToAll'
  BY <1>1, CreditedKept DEF ledger
<1>6. runner'[r] = Idle /\ \A t \in Runners \ {r} : runner'[t] = runner[t]
  BY <1>1, <1>2 DEF Typed
<1>7. PlanForAll(r)' /\ NothingForgotten(r)'
  BY <1>3, <1>6 DEF PlanForAll, NothingForgotten
<1>8. Repaired'
  <2>1. CASE lastRun' = lastRun \/ lastRun' = NoDay
    BY <2>1, RepairedKept
  <2>2. CASE RecordRun(r) /\ lastRun' = now
    <3>1. runner[r].phase = "Period" /\ runner[r].todo = <<>>
      BY <2>2 DEF RecordRun
    <3>2. UNCHANGED <<now, added, active, start, credits, carried, early>>
      BY <1>1 DEF rows, ledger
    <3> SUFFICES ASSUME NEW p \in PEs, NEW m \in Months, m < MonthOf(now),
                        MonthOf(now) - Lookback <= m
                 PROVE  /\ Accrues(p, m) => credits[p][m] > 0
                        /\ Carries(p, m) => m \in carried[p]
      BY <2>2, <3>2 DEF Repaired, MonthOf, Months, Accrues, Carries
    <3> DEFINE today == runner[r].today
    <3>3. /\ now \in Nat /\ today \in Nat /\ m \in Nat /\ Lookback \in Nat
          /\ MonthOf(now) \in Nat /\ MonthOf(today) \in Nat
          /\ today <= now /\ now <= today + 1
      BY <1>2, <3>1, Numbered DEF JobInTime
    <3> HIDE DEF today
    <3>4. MonthOf(today) <= MonthOf(now) /\ MonthOf(now) <= MonthOf(today) + 1
      BY <3>3, MonthOrder
    <3>5. m <= MonthOf(today) /\ MonthOf(today) - Lookback <= m
      BY <3>3, <3>4
    <3>6. month_end(m) <= today
      <4>1. CASE m < MonthOf(today)
        BY <3>3, <4>1, EndOfMonth
      <4>2. CASE m = MonthOf(today)
        BY <3>3, <4>2, MonthOrder
      <4> QED BY <3>3, <3>5, <4>1, <4>2
    <3>7. ~LeftIn(r, m) /\ ~Left(r, month_end(m))
      BY <3>1 DEF LeftIn, Left
    <3>8. /\ Accrues(p, m) => credits[p][m] > 0 \/ LeftIn(r, m)
          /\ Carries(p, m) => m \in carried[p] \/ Left(r, month_end(m))
      BY <1>2, <3>1, <3>5, <3>6 DEF NothingForgotten, today
    <3> QED BY <3>7, <3>8
  <2> QED BY <2>1, <2>2 DEF RecordRun, FailJob
<1>9. \A t \in Runners : PlanForAll(t)' /\ NothingForgotten(t)'
  BY <1>6, <1>7, OtherThreads
<1> QED BY <1>2, <1>4, <1>5, <1>8, <1>9, NextTyped DEF RInv

\* A committed period credits, and carries if it is a December's last day,
\* everyone it owes it to; the month cannot be credited early and carried.
LEMMA CommitKeeps ==
    ASSUME RInv, NEW r \in Runners, CommitPeriod(r), [Next]_vars
    PROVE  RInv'
<1>1. PICK x \in Jobs :
        /\ runner' = [runner EXCEPT ![r] = x]
        /\ runner[r].phase = "Staged" /\ runner[r].todo # <<>>
        /\ runner[r].todo \in Seq(Days) /\ Head(runner[r].todo) \in Days
        /\ runner[r].plan \in [PEs -> Plans]
        /\ x.phase = "Period" /\ x.today = runner[r].today
        /\ x.todo = Tail(runner[r].todo)
  BY CommitThread DEF RInv
<1>2. PICK d, plan : d = Head(runner[r].todo) /\ plan = runner[r].plan
  OBVIOUS
<1> DEFINE m == MonthOf(d)
<1>3. /\ credits' = [p \in PEs |-> [credits[p] EXCEPT
             ![m] = @ + (IF plan[p].days > 0 THEN 1 ELSE 0)]]
      /\ carried' = [p \in PEs |->
             IF plan[p].carry THEN carried[p] \cup {m} ELSE carried[p]]
      /\ early' = IF d # month_end(m) /\ \E p \in PEs : plan[p].days > 0
                   THEN early \cup {m} ELSE early
      /\ UNCHANGED <<now, added, active, start, lastRun>>
  BY <1>2 DEF CommitPeriod
<1>4. Typed /\ InTime /\ CreditedToAll /\ JobInTime(r) /\ PlanForAll(r) /\ NothingForgotten(r)
  BY DEF RInv, InTime
<1>5. /\ d \in Days /\ d \in Nat /\ m \in Months /\ m \in Nat /\ now \in Nat
      /\ runner[r].today \in Nat /\ d <= runner[r].today /\ runner[r].today <= now
      /\ m <= MonthOf(now) /\ MonthOf(now) \in Nat
  <2>1. d \in Days /\ d \in Nat /\ now \in Nat /\ runner[r].today \in Nat /\ MonthOf(now) \in Nat
    BY <1>1, <1>2, <1>4, Numbered
  <2>2. d <= runner[r].today
    <3>1. 1 \in 1 .. Len(runner[r].todo) /\ runner[r].todo[1] = d
      BY <1>1, <1>2
    <3> QED BY <1>1, <1>4, <3>1 DEF JobInTime
  <2>3. runner[r].today <= now
    BY <1>1, <1>4 DEF JobInTime
  <2>4. d <= now
    BY <2>1, <2>2, <2>3
  <2>5. m \in Months /\ m \in Nat /\ m <= MonthOf(now)
    BY <2>1, <2>4, LastMonth, MonthOfDay, MonthOrder
  <2> QED BY <2>1, <2>2, <2>3, <2>5
<1>6. runner'[r] = x /\ \A t \in Runners \ {r} : runner'[t] = runner[t]
  BY <1>1, <1>4 DEF Typed
<1>7. \A p \in PEs, k \in Months :
        /\ k # m => credits'[p][k] = credits[p][k]
        /\ credits'[p][m] = credits[p][m] + (IF plan[p].days > 0 THEN 1 ELSE 0)
        /\ credits[p][k] \in Nat
  <2>1. credits \in [PEs -> [Months -> Nat]]
    BY <1>4 DEF Typed, TypeOK
  <2> HIDE DEF m
  <2> QED BY <1>3, <1>5, <2>1
<1>8. \A p \in PEs :
        /\ Accrues(p, m) => plan[p].days > 0 \/ credits[p][m] > 0
        /\ d = month_end(m) /\ Carries(p, m) => plan[p].carry
  BY <1>1, <1>2, <1>4 DEF PlanForAll
<1>9. \A p \in PEs, k \in Months : k <= MonthOf(now) =>
                 /\ Accrues(p, k)' => Accrues(p, k)
                 /\ Carries(p, k)' => Carries(p, k)
  BY <1>4, Kept
<1>10. \A p \in PEs :
        /\ Accrues(p, m)' => credits'[p][m] > 0
        /\ d = month_end(m) /\ Carries(p, m)' => m \in carried'[p]
  <2> TAKE p \in PEs
  <2>1. Accrues(p, m)' => credits'[p][m] > 0
    <3>1. Accrues(p, m)' => plan[p].days > 0 \/ credits[p][m] > 0
      BY <1>5, <1>8, <1>9
    <3>2. credits[p][m] \in Nat
      BY <1>5, <1>7
    <3> HIDE DEF m
    <3> QED BY <1>5, <1>7, <3>1, <3>2
  <2>2. d = month_end(m) /\ Carries(p, m)' => m \in carried'[p]
    BY <1>3, <1>5, <1>8, <1>9
  <2> QED BY <2>1, <2>2
<1>11. \A p \in PEs : carried[p] \subseteq carried'[p]
  BY <1>3
<1> HIDE DEF m
<1>12. InTime'
  <2>1. JobInTime(r)'
    <3>1. x.today <= now /\ now <= x.today + 1
      BY <1>1, <1>4 DEF JobInTime
    <3>2. \A i \in 1 .. Len(x.todo) : x.todo[i] <= x.today
      <4> SUFFICES ASSUME NEW i \in 1 .. Len(x.todo) PROVE x.todo[i] <= x.today
        OBVIOUS
      <4>1. i + 1 \in 1 .. Len(runner[r].todo) /\ x.todo[i] = runner[r].todo[i + 1]
        BY <1>1
      <4> QED BY <1>1, <1>4, <4>1 DEF JobInTime
    <3> QED BY <1>3, <1>6, <3>1, <3>2 DEF JobInTime
  <2>2. \A t \in Runners : JobInTime(t)'
    BY <1>3, <1>4, <1>6, <2>1 DEF InTime, JobInTime
  <2>3. \A p \in PEs, k \in Months : credits'[p][k] > 0 => k <= MonthOf(now)
    BY <1>4, <1>5, <1>7 DEF InTime
  <2>4. MonthOf(now)' = MonthOf(now) /\ Months' = Months
    BY <1>3 DEF MonthOf, Months
  <2> QED BY <1>3, <1>4, <2>2, <2>3, <2>4 DEF InTime
<1>13. CreditedToAll'
  <2> SUFFICES ASSUME NEW k \in Months, NEW q \in PEs, credits'[q][k] > 0, NEW p \in PEs
               PROVE  /\ Accrues(p, k)' => credits'[p][k] > 0
                      /\ Carries(p, k)' => k \in carried'[p]
    BY DEF CreditedToAll, Months
  <2>1. CASE credits[q][k] > 0
    <3>1. /\ Accrues(p, k) => credits[p][k] > 0
          /\ Carries(p, k) => k \in carried[p]
      BY <1>4, <2>1 DEF CreditedToAll
    <3>2. k <= MonthOf(now)
      BY <1>4, <2>1 DEF InTime
    <3>3. credits[p][k] > 0 => credits'[p][k] > 0
      BY <1>5, <1>7
    <3> QED BY <1>9, <1>11, <3>1, <3>2, <3>3
  <2>2. CASE ~(credits[q][k] > 0)
    <3>1. k = m /\ plan[q].days > 0
      BY <1>5, <1>7, <2>2
    <3>2. d # month_end(m) => ~Carries(p, m)'
      <4>1. d # month_end(m) => m \in early'
        BY <1>3, <3>1
      <4> QED BY <1>2, <4>1 DEF Carries, m
    <3> QED BY <1>10, <3>1, <3>2
  <2> QED BY <2>1, <2>2
<1>14. NothingForgotten(r)'
  <2> SUFFICES ASSUME NEW p \in PEs, NEW k \in Months,
                      MonthOf(runner[r].today) - Lookback <= k
               PROVE  /\ k <= MonthOf(runner[r].today) /\ Accrues(p, k)'
                            => \/ credits'[p][k] > 0
                               \/ \E i \in 1 .. Len(x.todo) : MonthOf(x.todo[i]) = k
                      /\ month_end(k) <= runner[r].today /\ Carries(p, k)'
                            => \/ k \in carried'[p]
                               \/ \E i \in 1 .. Len(x.todo) : x.todo[i] = month_end(k)
    BY <1>1, <1>6 DEF NothingForgotten, LeftIn, Left, MonthOf, month_end, Months
  <2>1. \A i \in 1 .. Len(runner[r].todo) :
          \/ runner[r].todo[i] = d
          \/ \E j \in 1 .. Len(x.todo) : x.todo[j] = runner[r].todo[i]
    <3> TAKE i \in 1 .. Len(runner[r].todo)
    <3>1. CASE i = 1
      BY <1>1, <1>2, <3>1
    <3>2. CASE i # 1
      <4>1. i - 1 \in 1 .. Len(x.todo) /\ x.todo[i - 1] = runner[r].todo[i]
        BY <1>1, <3>2
      <4> QED BY <4>1
    <3> QED BY <3>1, <3>2
  <2>2. /\ k <= MonthOf(runner[r].today) => k <= MonthOf(now)
        /\ month_end(k) <= runner[r].today => k <= MonthOf(now)
    <3>1. k \in Nat /\ MonthOf(runner[r].today) \in Nat
      BY <1>4, Numbered
    <3>2. MonthOf(runner[r].today) <= MonthOf(now)
      BY <1>5, MonthOrder
    <3>3. month_end(k) <= runner[r].today => k <= MonthOf(runner[r].today)
      BY <1>5, <3>1, EndOfMonth
    <3> QED BY <1>5, <3>1, <3>2, <3>3
  <2>3. ASSUME k <= MonthOf(runner[r].today), Accrues(p, k)'
        PROVE  \/ credits'[p][k] > 0
               \/ \E i \in 1 .. Len(x.todo) : MonthOf(x.todo[i]) = k
    <3>1. Accrues(p, k)
      BY <1>9, <2>2, <2>3
    <3>2. credits[p][k] > 0 \/ LeftIn(r, k)
      BY <1>1, <1>4, <2>3, <3>1 DEF NothingForgotten
    <3>3. credits[p][k] > 0 => credits'[p][k] > 0
      BY <1>5, <1>7
    <3>4. ASSUME NEW i \in 1 .. Len(runner[r].todo), MonthOf(runner[r].todo[i]) = k
          PROVE  \/ credits'[p][k] > 0
                 \/ \E j \in 1 .. Len(x.todo) : MonthOf(x.todo[j]) = k
      <4>1. CASE runner[r].todo[i] = d
        <5>1. k = m
          BY <3>4, <4>1 DEF m
        <5> QED BY <1>10, <2>3, <5>1
      <4>2. CASE \E j \in 1 .. Len(x.todo) : x.todo[j] = runner[r].todo[i]
        BY <3>4, <4>2
      <4> QED BY <2>1, <4>1, <4>2
    <3> QED BY <3>2, <3>3, <3>4 DEF LeftIn
  <2>4. ASSUME month_end(k) <= runner[r].today, Carries(p, k)'
        PROVE  \/ k \in carried'[p]
               \/ \E i \in 1 .. Len(x.todo) : x.todo[i] = month_end(k)
    <3>1. Carries(p, k)
      BY <1>9, <2>2, <2>4
    <3>2. k \in carried[p] \/ Left(r, month_end(k))
      BY <1>1, <1>4, <2>4, <3>1 DEF NothingForgotten
    <3>3. ASSUME NEW i \in 1 .. Len(runner[r].todo), runner[r].todo[i] = month_end(k)
          PROVE  \/ k \in carried'[p]
                 \/ \E j \in 1 .. Len(x.todo) : x.todo[j] = month_end(k)
      <4>1. CASE runner[r].todo[i] = d
        <5>1. k \in Nat
          BY <1>4, Numbered
        <5>2. d = month_end(k) /\ k = m
          BY <1>5, <3>3, <4>1, <5>1, EndOfMonth DEF m
        <5> QED BY <1>10, <2>4, <5>2
      <4>2. CASE \E j \in 1 .. Len(x.todo) : x.todo[j] = runner[r].todo[i]
        BY <3>3, <4>2
      <4> QED BY <2>1, <4>1, <4>2
    <3> QED BY <1>11, <3>2, <3>3 DEF Left
  <2> QED BY <2>3, <2>4
<1>15. PlanForAll(r)'
  BY <1>1, <1>6 DEF PlanForAll
<1>16. \A t \in Runners : PlanForAll(t)' /\ NothingForgotten(t)'
  BY <1>6, <1>14, <1>15, OtherThreads
<1> QED BY <1>3, <1>4, <1>12, <1>13, <1>16, NextTyped, RepairedKept DEF RInv

\* The rows' steps and midnight leave the threads alone.
LEMMA RowKeeps ==
    ASSUME RInv, [Next]_vars, (\E p \in PEs : RowStep(p)) \/ Tick \/ UNCHANGED vars
    PROVE  RInv'
<1>1. Typed /\ InTime
  BY DEF RInv
<1>2. /\ UNCHANGED <<credits, carried, lastRun, runner>>
      /\ now' = now \/ Tick
  BY DEF RowStep, AddEmployee, ExitEmployee, ApplyLeave, ApproveLeave,
         CloseLeave, EarnCompOff, Tick, vars, rows, ledger
<1>3. /\ \A p \in PEs : added'[p] # NoDay => added'[p] <= MonthOf(now)
      /\ \A p \in active' : added'[p] # NoDay
  <2>1. CASE \E p \in PEs : AddEmployee(p)
    <3>1. PICK q \in PEs : AddEmployee(q)
      BY <2>1
    <3>2. /\ added' = [added EXCEPT ![q] = MonthOf(now)]
          /\ active' = active \cup {q}
      BY <3>1 DEF AddEmployee
    <3>3. added \in [PEs -> Months \cup {NoDay}]
      BY <1>1 DEF Typed, TypeOK
    <3> QED BY <1>1, <3>2, <3>3, Numbered DEF InTime
  <2>2. CASE ~\E p \in PEs : AddEmployee(p)
    <3>1. UNCHANGED added /\ active' \subseteq active
      BY <2>2 DEF RowStep, ExitEmployee, ApplyLeave, ApproveLeave,
         CloseLeave, EarnCompOff, Tick, vars, rows
    <3> QED BY <1>1, <3>1 DEF InTime
  <2> QED BY <2>1, <2>2
<1>4. /\ now \in Nat /\ now' \in {now, now + 1} /\ MonthOf(now) <= MonthOf(now')
      /\ MonthOf(now) \in Nat /\ MonthOf(now') \in Nat
  <2>1. now \in Nat /\ now' \in {now, now + 1} /\ now' \in Nat
    BY <1>1, <1>2, Numbered DEF Tick
  <2>2. now <= now'
    BY <2>1
  <2>3. MonthOf(now) <= MonthOf(now') /\ MonthOf(now) \in Nat /\ MonthOf(now') \in Nat
    BY <2>1, <2>2, MonthOrder, MonthOfDay
  <2> QED BY <2>1, <2>3
<1>5. InTime'
  <2>1. \A t \in Runners : JobInTime(t)'
    <3> TAKE t \in Runners
    <3>1. JobInTime(t) /\ runner[t].today \in Nat
      BY <1>1, Numbered DEF InTime
    <3>2. Tick => runner[t].phase = "Idle" \/ runner[t].today = now
      BY DEF Tick
    <3> QED BY <1>2, <1>4, <3>1, <3>2 DEF JobInTime
  <2>2. \A p \in PEs : added'[p] # NoDay => added'[p] <= MonthOf(now')
    <3>1. \A p \in PEs : added'[p] # NoDay => added'[p] \in Nat
      <4>1. added' \in [PEs -> Months \cup {NoDay}]
        BY <1>1, NextTyped DEF Typed, TypeOK
      <4> QED BY <4>1 DEF Months
    <3> QED BY <1>3, <1>4, <3>1
  <2>3. lastRun' # NoDay => lastRun' <= now'
    BY <1>1, <1>2, <1>4, Numbered DEF InTime
  <2>4. \A p \in PEs, m \in Months : credits'[p][m] > 0 => m <= MonthOf(now')
    BY <1>1, <1>2, <1>4, Numbered DEF InTime
  <2> QED BY <1>3, <2>1, <2>2, <2>3, <2>4 DEF InTime, MonthOf, Months
<1>6. CreditedToAll' /\ Repaired'
  BY <1>2, CreditedKept, RepairedKept
<1>7. \A t \in Runners : PlanForAll(t)' /\ NothingForgotten(t)'
  BY <1>2, OtherThreads
<1> QED BY <1>1, <1>5, <1>6, <1>7, NextTyped DEF RInv

LEMMA InitRInv == Init => RInv
<1> SUFFICES ASSUME Init PROVE RInv
  OBVIOUS
<1>1. Typed
  BY InitTyped
<1>2. \A r \in Runners : runner[r].phase = "Idle"
  BY DEF Init, Idle
<1>3. /\ active = {} /\ lastRun = NoDay /\ \A p \in PEs : added[p] = NoDay
      /\ \A p \in PEs, m \in Months : credits[p][m] = 0
  BY DEF Init
<1>4. InTime
  BY <1>2, <1>3 DEF InTime, JobInTime
<1>5. CreditedToAll /\ Repaired
  BY <1>3 DEF CreditedToAll, Repaired
<1>6. \A r \in Runners : PlanForAll(r) /\ NothingForgotten(r)
  BY <1>2 DEF PlanForAll, NothingForgotten
<1> QED BY <1>1, <1>4, <1>5, <1>6 DEF RInv

LEMMA NextRInv == RInv /\ [Next]_vars => RInv'
<1> SUFFICES ASSUME RInv, [Next]_vars PROVE RInv'
  OBVIOUS
<1>1. ASSUME NEW r \in Runners, JobStep(r) \/ RunNow(r) \/ FailJob(r)
      PROVE  RInv'
  BY <1>1, BeginKeeps, ReadKeeps, CommitKeeps, EndKeeps
     DEF JobStep, StartDaily, RunNow
<1> QED BY <1>1, RowKeeps DEF Next

\* A month-long outage does not cost an employee the month, for any rows,
\* policies, lookback, failures and number of runners: what was credited to one
\* was credited to everyone who was there, so a month with no credit at all is
\* the only one that can be missing, and a run does not end before every such
\* month of the window has been committed.
THEOREM MissedMonthsRepaired == Spec => []MissedMonthCredited
<1>1. RInv => MissedMonthCredited
  BY Numbered DEF RInv, Repaired, Accrues, MissedMonthCredited
<1> QED BY <1>1, InitRInv, NextRInv, PTL DEF Spec

\* A December nobody credited while it lasted gets its year-end carry: the
\* replay commits it on its last day, which carries every row it read.
THEOREM MissedDecembersRepaired == Spec => []MissedDecemberCarries
<1>1. RInv => MissedDecemberCarries
  <2> SUFFICES ASSUME RInv, NEW m \in Decembers, NEW p \in active,
                      lastRun # NoDay, m < MonthOf(lastRun), m \notin early,
                      added[p] < m, start[p] <= m,
                      MonthOf(lastRun) - Lookback <= m, Policy[p].kind # "None"
               PROVE  m \in carried[p]
    BY DEF MissedDecemberCarries
  <2>1. m \in Months
    BY DayOfMonth, LeaveAssumption DEF RInv, Typed, TypeOK
  <2>2. p \in PEs /\ Carries(p, m)
    BY Numbered DEF RInv, Carries
  <2> QED BY <2>1, <2>2 DEF RInv, Repaired
<1> QED BY <1>1, InitRInv, NextRInv, PTL DEF Spec
=============================================================================
