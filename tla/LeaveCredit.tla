---------------------------- MODULE LeaveCredit ----------------------------
(***************************************************************************)
(* The daily leave-credit job (services/scheduler.py, job 4, and           *)
(* services/project_employee_leave_credit.py) on the leave rows of project *)
(* employees (services/project_employees.py), with the leave applications  *)
(* that draw on the same rows (routers/crm/leave_applications.py).         *)
(*                                                                         *)
(* A month has two days here: an early one (even) and its last one (odd).  *)
(* Nobody locks a leave row: the job reads every row of a period, and its  *)
(* commit writes back the absolute balances it computed from what it read. *)
(***************************************************************************)
EXTENDS Integers, FiniteSets, Sequences

CONSTANTS
    PEs,             \* project employees, one leave row each
    Runners,         \* threads that may run the job: the loop, "Run now"
    Policy,          \* the crediting policy of each row
    NoLimit,         \* an unset max_limit or maximum_carry_forward
    NoDay,           \* no readable last-run stamp
    Decembers,       \* the months that end a policy year
    QuarterStarts,   \* January, April, July, October
    Horizon,         \* bound: the last day
    Lookback,        \* scheduler.pe_leave_credit_lookback, in months
    StampGaps,       \* repaired months a 255 character stamp has room for
    MaxFailures,     \* bound: failed or killed job runs
    CompOffPEs,      \* rows of a comp-off type, credited by approvals
    Applicants,      \* bound: rows somebody applies for leave from
    StartMonths,     \* bound: months a row may start to accrue in
    MaxTaken,        \* bound: days taken from a row
    MaxEarned        \* bound: comp-off days earned on a row

Months == 0 .. (Horizon \div 2)
Days   == 0 .. Horizon

\* Mutant: the first day of the month.
month_start(m) == 2 * m
month_end(m) == 2 * m + 1
MonthOf(d)   == d \div 2
YearEndDay(d) == MonthOf(d) \in Decembers /\ d = month_end(MonthOf(d))

ASSUME LeaveAssumption ==
    /\ Horizon \in Nat /\ Lookback \in Nat /\ StampGaps \in Nat
    /\ MaxFailures \in Nat /\ MaxTaken \in Nat /\ MaxEarned \in Nat
    /\ IsFiniteSet(PEs) /\ CompOffPEs \subseteq PEs
    /\ Applicants \subseteq PEs /\ StartMonths \subseteq Months
    /\ Decembers \subseteq Nat
    /\ Policy \in [PEs -> [kind    : {"Monthly", "Upfront", "None"},
                           initial : Nat, amount : Nat,
                           expire  : {"Month", "Quarter", "Year", "Never"},
                           cap     : Nat \cup {NoLimit},
                           limit   : Nat \cup {NoLimit}]]
    /\ NoLimit \notin Nat /\ NoDay \notin Nat

VARIABLES
    now,        \* today
    added,      \* [PEs -> month the row was seeded in, or NoDay]
    active,     \* project employees neither exited nor deactivated
    start,      \* accrual_start of each row
    balance,    \* leave_balance
    accrual,    \* leave_accrual: a deferred grant, or comp-off days earned
    taken,      \* leave_consumed
    earned,     \* comp-off days approved for the row
    pending,    \* rows with a leave application nobody has decided
    credits,    \* how many pe_credit:{pe}:{type}:{month} events there are
    cycled,     \* months with a pe_cycle_expire event
    granted,    \* how often the upfront grant was given, by seed or by job
    carried,    \* policy years whose year-end carry was applied
    early,      \* months credited by a run before their last day
    lastRun,    \* scheduler.last_run of the job
    failures,   \* job runs that failed or died
    runner      \* what each thread is doing

rows == <<added, active, start, balance, accrual, taken, earned, pending>>
ledger == <<credits, cycled, granted, carried, early>>
vars == <<now, rows, ledger, lastRun, failures, runner>>

Idle == [phase |-> "Idle", today |-> 0, todo |-> <<>>, gaps |-> 0,
         plan |-> <<>>]

Init ==
    /\ now = 0
    /\ added = [p \in PEs |-> NoDay]
    /\ active = {}
    /\ start = [p \in PEs |-> 0]
    /\ balance = [p \in PEs |-> 0] /\ accrual = [p \in PEs |-> 0]
    /\ taken = [p \in PEs |-> 0] /\ earned = [p \in PEs |-> 0]
    /\ pending = {}
    /\ credits = [p \in PEs |-> [m \in Months |-> 0]]
    /\ cycled = [p \in PEs |-> {}]
    /\ granted = [p \in PEs |-> 0]
    /\ carried = [p \in PEs |-> {}]
    /\ early = {}
    /\ lastRun = NoDay
    /\ failures = 0
    /\ runner = [r \in Runners |-> Idle]

Smaller(a, b) == IF a <= b THEN a ELSE b
Capped(x, cap) == IF cap = NoLimit THEN x ELSE Smaller(x, cap)

(***************************************************************************)
(* What one period does to one row.                                        *)
(***************************************************************************)
\* _apply_cycle_expiry: the remainder of a use-it-or-lose-it cycle expires,
\* once per period, except in the month the row started to accrue.
CycleExpires(p, m) ==
    /\ \/ Policy[p].expire = "Month"
       \/ Policy[p].expire = "Quarter" /\ m \in QuarterStarts
    /\ start[p] # m
    /\ balance[p] > 0
    /\ m \notin cycled[p]

\* The days a period would grant: the policy's, a deferred upfront grant, or,
\* on a row without a policy, whatever leave_accrual holds.
DueDays(p, m) ==
    IF start[p] > m THEN 0
    ELSE IF Policy[p].kind = "Monthly" THEN Policy[p].amount ELSE accrual[p]

WithinLimit(p, days, bal) ==
    IF Policy[p].limit = NoLimit THEN days
    ELSE IF bal >= Policy[p].limit THEN 0
    ELSE Smaller(days, Policy[p].limit - bal)

\* A row is credited once per month. Mutant: the source key is not looked up.
DueAgain(p, m) == p \in active
Due(p, m) == p \in active /\ credits[p][m] = 0

\* credit_one_pe_leave_row, then apply_year_end_carry, on one row.
RowPlan(p, d) ==
    LET m      == MonthOf(d)
        due    == Due(p, m)
        cycle  == due /\ CycleExpires(p, m)
        before == IF cycle THEN 0 ELSE balance[p]
        days   == IF due THEN WithinLimit(p, DueDays(p, m), before) ELSE 0
        carry  == p \in active /\ YearEndDay(d) /\ Policy[p].kind # "None"
    IN [read    |-> balance[p],
        balance |-> IF carry THEN Capped(before + days, Policy[p].cap)
                             ELSE before + days,
        days    |-> days, cycle |-> cycle, carry |-> carry,
        release |-> days > 0 /\ Policy[p].kind = "Upfront"]

(***************************************************************************)
(* The job.                                                                *)
(***************************************************************************)
EarliestStart == CHOOSE m \in {start[p] : p \in active} :
                    \A p \in active : m <= start[p]

\* missing_credit_periods: closed months in the window with no credit event
\* of any row at all.
Uncredited(d, months) ==
    IF active = {} THEN {}
    ELSE {m \in Months \cap months : /\ EarliestStart <= m
                                     /\ MonthOf(d) - Lookback <= m
                                     /\ \A p \in PEs : credits[p][m] = 0}

\* Mutants: the open month is replayed too, the last closed one is not.
MissingPeriodsOpen(d) == Uncredited(d, 0 .. MonthOf(d))
MissingPeriodsButLast(d) == Uncredited(d, 0 .. MonthOf(d) - 2)
MissingPeriods(d) == Uncredited(d, 0 .. MonthOf(d) - 1)

\* Oldest period first, today's last.
Begin(r) ==
    LET gaps == MissingPeriods(now)
        n    == Cardinality(gaps)
    IN /\ runner[r].phase = "Idle"
       /\ \E s \in [1 .. n -> gaps] :
            /\ \A i, j \in 1 .. n : i < j => s[i] < s[j]
            /\ runner' = [runner EXCEPT ![r] =
                 [phase |-> "Period", today |-> now,
                  todo  |-> Append([i \in 1 .. n |-> month_end(s[i])], now),
                  gaps  |-> n, plan |-> <<>>]]
       /\ UNCHANGED <<now, rows, ledger, lastRun, failures>>

\* run_due_jobs: skipped when the job's stamp is of today.
StartDaily(r) == lastRun # now /\ Begin(r)

\* The admin "Run now" button ignores the stamp.
RunNow(r) == lastRun = now /\ Begin(r)

\* run_pe_leave_credit reads the rows of the first period left to do ...
ReadPeriod(r) ==
    /\ runner[r].phase = "Period" /\ runner[r].todo # <<>>
    /\ runner' = [runner EXCEPT
          ![r].phase = "Staged",
          ![r].plan = [p \in PEs |-> RowPlan(p, Head(runner[r].todo))]]
    /\ UNCHANGED <<now, rows, ledger, lastRun, failures>>

\* ... and commits: rows whose balance changed are overwritten, the period's
\* events are inserted.
CommitPeriod(r) ==
    LET d    == Head(runner[r].todo)
        m    == MonthOf(d)
        plan == runner[r].plan
    IN /\ runner[r].phase = "Staged"
       /\ balance' = [p \in PEs |->
             IF plan[p].balance # plan[p].read THEN plan[p].balance
                                               ELSE balance[p]]
       /\ accrual' = [p \in PEs |-> IF plan[p].release THEN 0 ELSE accrual[p]]
       /\ credits' = [p \in PEs |-> [credits[p] EXCEPT
             ![m] = @ + (IF plan[p].days > 0 THEN 1 ELSE 0)]]
       /\ cycled' = [p \in PEs |->
             IF plan[p].cycle THEN cycled[p] \cup {m} ELSE cycled[p]]
       /\ granted' = [p \in PEs |->
             granted[p] + (IF plan[p].release THEN 1 ELSE 0)]
       /\ carried' = [p \in PEs |->
             IF plan[p].carry THEN carried[p] \cup {m} ELSE carried[p]]
       /\ early' = IF d # month_end(m) /\ \E p \in PEs : plan[p].days > 0
                   THEN early \cup {m} ELSE early
       /\ runner' = [runner EXCEPT ![r].phase = "Period",
                                   ![r].todo = Tail(@), ![r].plan = <<>>]
       /\ UNCHANGED <<now, added, active, start, taken, earned, pending,
                      lastRun, failures>>

\* _record_run stamps the moment the job ended; a summary that names too many
\* repaired months is cut off, and the stamp no longer parses.
RecordRun(r) ==
    /\ runner[r].phase = "Period" /\ runner[r].todo = <<>>
    /\ lastRun' = IF runner[r].gaps <= StampGaps THEN now ELSE NoDay
    /\ runner' = [runner EXCEPT ![r] = Idle]
    /\ UNCHANGED <<now, rows, ledger, failures>>

\* The process dies, or the job raises and run_due_jobs rolls back: what was
\* committed stays, the run is not recorded.
FailJob(r) ==
    /\ runner[r].phase # "Idle" /\ failures < MaxFailures
    /\ failures' = failures + 1
    /\ runner' = [runner EXCEPT ![r] = Idle]
    /\ UNCHANGED <<now, rows, ledger, lastRun>>

(***************************************************************************)
(* What happens to the rows meanwhile.                                     *)
(***************************************************************************)
\* add_project_employee and seed_leave_details_from_customer_policy: the
\* accrual may start in the past or in the future; a grant of the future is
\* stashed on leave_accrual (upfront) or left to the job (monthly).
AddEmployee(p) ==
    /\ added[p] = NoDay
    /\ \E s \in StartMonths :
         LET deferred == s > MonthOf(now)
             opening  == IF deferred \/ Policy[p].kind = "None"
                         THEN Policy[p].initial
                         ELSE Policy[p].initial + Policy[p].amount
         IN /\ start' = [start EXCEPT ![p] = s]
            /\ balance' = [balance EXCEPT
                  ![p] = Capped(opening, Policy[p].limit)]
            /\ accrual' = [accrual EXCEPT
                  ![p] = IF deferred /\ Policy[p].kind = "Upfront"
                         THEN Policy[p].amount ELSE 0]
            /\ granted' = [granted EXCEPT
                  ![p] = IF deferred \/ Policy[p].kind # "Upfront"
                         THEN 0 ELSE 1]
    /\ added' = [added EXCEPT ![p] = MonthOf(now)]
    /\ active' = active \cup {p}
    /\ UNCHANGED <<now, taken, earned, pending, credits, cycled, carried, early,
                   lastRun, failures, runner>>

\* exit_project_employee.
ExitEmployee(p) ==
    /\ p \in active
    /\ active' = active \ {p}
    /\ UNCHANGED <<now, added, start, balance, accrual, taken, earned, pending,
                   ledger, lastRun, failures, runner>>

\* create_leave_application: the balance is checked, nothing is reserved.
ApplyLeave(p) ==
    /\ p \in (active \cap Applicants) \ pending /\ taken[p] < MaxTaken
    /\ balance[p] >= 1 \/ p \in CompOffPEs
    /\ pending' = pending \cup {p}
    /\ UNCHANGED <<now, added, active, start, balance, accrual, taken, earned,
                   ledger, lastRun, failures, runner>>

\* approve_leave_application with consume_pe_leave: the balance is checked
\* again; only a comp-off type may go below zero.
ApproveLeave(p) ==
    /\ p \in pending
    /\ balance[p] >= 1 \/ p \in CompOffPEs
    /\ pending' = pending \ {p}
    /\ balance' = [balance EXCEPT ![p] = @ - 1]
    /\ taken' = [taken EXCEPT ![p] = @ + 1]
    /\ UNCHANGED <<now, added, active, start, accrual, earned,
                   ledger, lastRun, failures, runner>>

\* A pending application is rejected, cancelled or deleted; an approved one
\* never is.
CloseLeave(p) ==
    /\ p \in pending
    /\ pending' = pending \ {p}
    /\ UNCHANGED <<now, added, active, start, balance, accrual, taken, earned,
                   ledger, lastRun, failures, runner>>

\* The approval of a comp-off day earned, with credit_pe_leave: the day goes
\* to the balance and to leave_accrual.
EarnCompOff(p) ==
    /\ p \in active \cap CompOffPEs /\ earned[p] < MaxEarned
    /\ balance' = [balance EXCEPT ![p] = @ + 1]
    /\ accrual' = [accrual EXCEPT ![p] = @ + 1]
    /\ earned' = [earned EXCEPT ![p] = @ + 1]
    /\ UNCHANGED <<now, added, active, start, taken, pending,
                   ledger, lastRun, failures, runner>>

\* Bound: a job outlives one midnight at most.
Tick ==
    /\ now < Horizon
    /\ \A r \in Runners : runner[r].phase = "Idle" \/ runner[r].today = now
    /\ now' = now + 1
    /\ UNCHANGED <<rows, ledger, lastRun, failures, runner>>

JobStep(r) == StartDaily(r) \/ ReadPeriod(r) \/ CommitPeriod(r) \/ RecordRun(r)

RowStep(p) ==
    \/ AddEmployee(p) \/ ExitEmployee(p) \/ ApplyLeave(p) \/ ApproveLeave(p)
    \/ CloseLeave(p) \/ EarnCompOff(p)

Next ==
    \/ \E r \in Runners : JobStep(r) \/ RunNow(r) \/ FailJob(r)
    \/ \E p \in PEs : RowStep(p)
    \/ Tick

Spec == Init /\ [][Next]_vars

(***************************************************************************)
(* Properties.                                                             *)
(***************************************************************************)
TypeOK ==
    /\ now \in Days
    /\ added \in [PEs -> Months \cup {NoDay}]
    /\ active \subseteq PEs
    /\ start \in [PEs -> Months]
    /\ balance \in [PEs -> Int] /\ accrual \in [PEs -> Nat]
    /\ taken \in [PEs -> Nat] /\ earned \in [PEs -> Nat]
    /\ pending \subseteq PEs
    /\ credits \in [PEs -> [Months -> Nat]]
    /\ cycled \in [PEs -> SUBSET Months] /\ carried \in [PEs -> SUBSET Months]
    /\ granted \in [PEs -> Nat]
    /\ early \subseteq Months
    /\ lastRun \in Days \cup {NoDay}
    /\ failures \in 0 .. MaxFailures
    /\ \A r \in Runners : /\ runner[r].phase \in {"Idle", "Period", "Staged"}
                          /\ runner[r].todo \in Seq(Days)

\* A month is granted once to a row, and an upfront grant is given once, by the
\* seed or by the job, whatever is replayed, forced, killed or repeated (a
\* comp-off row's leave_accrual is filled again by every day earned).
GrantedOnce ==
    \A p \in PEs : /\ \A m \in Months : credits[p][m] <= 1
                   /\ granted[p] <= 1 \/ p \in CompOffPEs

\* A December nobody credited while it lasted gets its year-end carry from the
\* replay: once a job has ended in a later month, every row that was there
\* before that December has been carried over.
MissedDecemberCarries ==
    \A d \in Decembers, p \in active :
        (/\ lastRun # NoDay /\ d < MonthOf(lastRun)
         /\ d \notin early /\ added[p] < d /\ start[p] <= d
         /\ MonthOf(lastRun) - Lookback <= d
         /\ Policy[p].kind # "None")
        => d \in carried[p]

\* A month-long outage does not cost an employee the month: once a job has
\* ended in a later month, whoever was there before the month began has been
\* credited for it.
MissedMonthCredited ==
    \A p \in active, m \in Months :
        (/\ lastRun # NoDay /\ m < MonthOf(lastRun)
         /\ added[p] < m /\ start[p] <= m
         /\ MonthOf(lastRun) - Lookback <= m
         /\ Policy[p].kind = "Monthly" /\ Policy[p].limit = NoLimit
         /\ Policy[p].amount > 0)
        => credits[p][m] > 0

\* "Use it in the cycle or lose it": a period's expiry takes what was left from
\* earlier periods, never what a later period has granted already.
ExpiryTakesOnlyPrior ==
    [][\A p \in PEs, m \in Months :
          m \in cycled'[p] \ cycled[p] =>
            \A k \in Months : k > m => credits[p][k] = 0]_vars
=============================================================================
