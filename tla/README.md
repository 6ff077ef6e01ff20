# A verification project for the Karnex CRM backend

TLA+ modules that model the concurrent and money-bearing core of the CRM under
`src/backend`, TLC runs that check them on small instances, and TLAPS proofs
of the most important invariants for every value of the constants.
`PROJECT.json` maps every definition to the lines it models.

## The system

The CRM is a FastAPI application (`routers/crm`) over services (`services`) and
SQLAlchemy models (`models`) on PostgreSQL, deployed as several uvicorn
processes. Each process also runs two daemon threads: the outbox worker and the
scheduler. The older AI interview platform (`main.py`) lives in the same
processes with a database of its own (`auth_db.py`), sessions in memory and a
recovery worker. Requests to the CRM share nothing but the database:

* a request is one transaction at READ COMMITTED, with `autoflush=False` and
  `expire_on_commit=False` (`crm_db.py`), so what it has changed is not visible
  to its own later queries until a flush;
* the ORM writes only the columns whose value changed, as absolute values, so
  an overlapping request's update of the same column is lost;
* rows are locked in three places only: the outbox claim (`FOR UPDATE SKIP
  LOCKED`), the leave balances a timesheet consumes, and the slot being
  confirmed. Everything else relies on an unlocked check, a UNIQUE column or a
  foreign key.

That is where the behaviours worth modelling come from.

### Inventory

| Component | State | Operations | Interacts with | What makes it correct |
|---|---|---|---|---|
| Email outbox | `email_outbox` rows: status, attempts, next try, dedupe key; switches | queue, claim, send, fail and back off, commit or lose a batch, admin retry, drain endpoint | every business transaction, SMTP | a row is claimed once, a mail accepted once, the status is true, nothing waits for ever |
| Timesheet workflow | timesheets, entries, accrual column, frozen figures | create, save, submit, approve, reject, delete, invoice | leave rows and events, invoices, outbox | every leave day charged once, balances conserved, decided sheets untouched |
| Slot booking | slots with a seat counter, bookings, interview links | create and delete slots, send links, confirm, delete resumes | AI interview platform (own commit), resumes | no seat sold twice, a booking keeps slot and interview |
| Finance | purchase orders, invoices, payments, TDS, credit notes | create, update, cancel, delete, pay, credit, settle, re-rate | timesheets, scheduler | the balances and statuses agree with the recorded documents |
| Scheduler | last-run records | four daily jobs | all of the above | each job once a day, its messages once ever |
| PE leave credit | leave balances, accrual events | monthly credit, expiry, carry, backfill | timesheets, leave applications | each period credited once, a missed month made up, replays harmless |
| Project employees | leave rows, accrual start | seed, exit | policies, the credit job | a grant is given by the seed or by the job |
| Leave applications | applications, balances | create, approve, reject, cancel, delete | leave rows | an application moves a balance once |
| AI interview bridge | links, results, HR decisions | trigger, schedule, cancel, sync, heal | interview engine, pipeline | a verdict is written back once and only on its own profile |
| Candidate pipeline | requirement, application and profile stages, offers | advance, apply, scan, move, join, fulfil | bridge, slots, outbox | stages are entered on their precondition, Fulfilled is earned |
| AI interview engine | session in memory, checkpoint, record, schedule row | invite, login, next, answer, submit, recover, clean up | bridge | four copies agree, every interview begun gets its report |
| Template requests, access templates, RBAC | requests, grants | approve, deny, assign | all routers | only refusals |
| Customers, masters, employees, holidays, policies | reference records | edit | timesheets, finance | configuration |
| Reports, dashboards, payroll, PDFs, AI help, ATS scoring | none | reads | all | formatting and scoring |
| Interview rounds, calendar, notifications | rows beside a stage move | insert | pipeline, outbox | never read back by a decision |
| Auth, caches, migrations, scripts | own stores | own | all | infrastructure |

## Modules

| Module | Role |
|---|---|
| `EmailOutbox` | the outbox, its workers and its admins |
| `MailDelivery` | what the outbox promises: a fact is posted once, a batch settles or is lost together, its verdicts are true |
| `EmailOutboxProof` | inductive invariant, exclusive claims, delivery, true statuses, retries, the refinement of `MailDelivery` |
| `TimesheetLedger` | the timesheet workflow and the leave ledger |
| `LeaveAccount` | what the ledger promises: one balance, charged at once, never overdrawn |
| `TimesheetLedgerProof` | paid leave conserved and `LeaveAccount` implemented under overlap; the accounts of leave days and comp-off under overlap on different sheets; the Comp-Off balance with one request at a time |
| `LeaveCredit` | the daily leave-credit job, on rows that applications draw on |
| `LeaveCreditProof` | types and repaired months and Decembers for any number of runs; a grant given once, with one run at a time |
| `SlotBooking` | interview slots and their confirmation |
| `SeatAllocation` | what slot booking promises: seats given out one at a time, never more than there are |
| `SlotBookingProof` | inductive invariants, the seat bound, interviews of bookings, the refinement of `SeatAllocation` and its own bound |
| `Invoicing` | purchase orders, invoices, payments, TDS and credit notes |
| `InvoicingProof` | types under overlapping clerks; statuses, balances, payments and consumption with one at a time |
| `HiringPipeline` | requirements, applications, profiles, AI interview links |
| `HiringPipelineProof` | every property of the run `hiring_races`, for any number of everything |
| `InterviewSession` | one invited candidate's AI interview, from invite to report |
| `InterviewSessionProof` | types, reports behind ready checkpoints, invites closed by reports |
| `FiniteSums` | lemmas about the sum of a function over a finite set |
| `MC*` | definitions the `.cfg` files give to constants |

A module has one action per endpoint or worker step. Requests that can overlap
are processes with a phase: the action that loads rows and checks them, and the
one that writes and commits. Operators whose name says what is broken and whose
comment starts with *Mutant* are not part of a specification; each stands for a
plausible bug and is used to see that a property notices it.

### EmailOutbox and MailDelivery

`QueueEmail`, `CommitRequest`, `RollbackRequest` are the business transaction
with its row; `Claim` takes the locks of one batch; `Skip`, `SendOk`,
`SendFails`, `SendRaises` handle one mail of the batch in the session;
`CommitBatch` writes the whole batch, `Crash` loses it. `RetryRead` and
`RetryWrite` are the two halves of `retry_one`. The drain endpoint is another
worker. `copies` is a history variable: how often SMTP accepted a mail, less the
acceptances that a lost batch or a reopened row has disowned; without it "at
most once" would be false by design, since the code documents that a crash
between SMTP and commit repeats a mail. The order of a claim is abstracted to
any set of due rows up to the batch size; templates, headers and logging are
left out; a lost SMTP acknowledgement is a failure.

`MailDelivery` knows only what the table tells of a mail and which mails the
server has accepted: locks, sessions, attempts, switches and the time of the next
try are gone. A mail is posted if no other of its key was, accepted while it is
Queued, and settled with a whole batch by a verdict that says whether it was
accepted; a lost batch forgets what it had sent, and an admin may reopen a settled
mail. The refinement reads `told` off the committed rows and takes as accepted
the mails with a copy.

### TimesheetLedger and LeaveAccount

Sheets of one assignment share the balance of one paid leave type and of
Comp-Off. `Load` is the unlocked read with the endpoint's checks, `ReadPrior`
the read of the sheet's earlier consumption before the balance rows are locked;
the step after the lock is one action per endpoint, because every other writer
of the balance waits for the lock until the commit. The sheet's own row is never
locked, so `Written` changes only the columns the request changed.
`AvailableAfterConsume` is the balance object already debited while the ledger
event is not flushed, which classifies leave wrongly after a consumption. Balance rows exist from
the start; half days, absences, billable totals and the branch for employees
without an assignment are left out; a period edit is an upsert; a leave credit
is one step. Decision mails are the outbox's business.

`LeaveAccount` has a balance and the charge of each holder; a charge is replaced
in one step by another that the balance can pay for. Under the refinement a
sheet is a holder and its consumption events its charge: whatever a request read
before the lock, its commit is one such step.

### SlotBooking and SeatAllocation

`Load`, `LockSlot`, `Schedule`, `Commit`, `Abort` are the confirmation: the
unlocked read of the booking, the slot under `FOR UPDATE`, the interview
inserted and committed in the platform's own connection, the CRM's commit. A
crash or failure after `Schedule` leaves an orphan interview session, which the
model has. `CheckRemoval` and `DeleteSlot` are the two halves of `delete_slot`,
with the foreign key as the database's answer; `DeleteResume` unlinks and
deletes; `ScheduleDirectly` is TA's own scheduling; `SlotPasses` is time.
`SeatAllocation` knows slots, seats and holders only. The refinement maps a
slot's holders to the confirmed bookings that name it and its taken seats to
`booked_count`, which only grows: deleting a resume or confirming a booking twice
loses a seat, so exact accounting does not hold and is not claimed, and only
overselling is excluded.

### Invoicing

`db` is the committed database; each request is computed on the rows it loads
(`Serve`), and `Commit` merges it: `Columns` keeps what the request did not
change, `Sums` adds inserted payment rows, `NoRowGone` and `Referential` are the
errors of the ORM and of the foreign keys. A request loads its rows at one
moment, which leaves out some overlaps and adds none. `received` and `remitted`
are the sums of the payment rows; `drift` is a history variable: what re-rating
an invoice (`update_invoice` with a state code) has added to the invoices of an
order without telling the order. The three ways to raise an invoice (the
endpoint, from a timesheet, the recurring job) are one action, since a balance
that covers the total implies an Active order; expiry dates, numbers and input
validation only refuse, which `Rollback` covers. Renewal and
one-click creation are `CreatePo`. Project allocations are not modelled.

### LeaveCredit

`Begin` is the start of a job run (`StartDaily` by the loop, `RunNow` by the
button) with the months `missing_credit_periods` finds, in ascending order and
today's month last; `ReadPeriod` computes
`RowPlan` for every row from what it reads, `CommitPeriod` writes the absolute
balances and inserts the events of that period; `RecordRun` stamps the run, and
`FailJob` is an exception or a killed process anywhere in between. `RowPlan` is
one row's cycle expiry, credit or deferred upfront grant, limit and year-end
carry. `AddEmployee` seeds a row, `ExitEmployee` ends it; `ApplyLeave`,
`ApproveLeave`, `CloseLeave` and `EarnCompOff` are the applications. A month has
two days, an early one and its last, which is what the code tells apart;
`StampGaps` is how many repaired months the 255 characters of the stamp hold, a
longer summary being cut and unreadable. `granted`, `carried` and `early` are
history variables. Left out: reactivation, proration, quarterly and yearly
amounts and project-level policies.

### HiringPipeline

Each endpoint of requirements, applications, profiles and interview links is one
action. Nothing is locked and no row has a version, so a request writes on what
it read: `ReadMove`/`CommitMove` and `ReadSync`/`CommitSync` split the two
transactions that write a stage, and `flight` is the one that has read and not
yet committed. While it waits every other request runs to its end, which is every
interleaving of two transactions. `PersistReport` gives an interview a report,
the instant fallback or the model's later one, and any report may be synced at
any later time, by a thread or by a reader's request. `SpawnRequirement` stands
for the approval of an opportunity that has no requirement yet; there is one
application per candidate and requirement; a token may be used again once its link
is gone. `JoinedCount` is evaluated without the unflushed join, as the code does
with `autoflush=False`. `reviewed`, `joined` and `merit` are history variables.
Left out: HR's own verdict (`sync_hr_decision`), customer rounds and their dates,
opportunity stages, two-step uploads, `update_ai_interview`.

### InterviewSession

The four copies of an interview are `mem`, `prog`, `rec` and `sched`.
`Lookup`, `Verify`, `Login`, `NextQuestion`, `Answer`, `Warn`, `Terminate` and
`Submit` are the candidate's requests. `Answer` appends under the session lock,
`AnswerSaved` is its checkpoint after the lock; a `Submit` takes a snapshot, then
`FastRecord` and `FastReport` write the report and the row, and `Upgrade` is the
background task that rewrites them. `RecoveryScan` to `RecoveryEnd` are the
recovery worker's steps, `Cleanup*` those of the integrity page; each finalizes
what it read earlier. `Crash` loses the memory, the handlers, the tasks and the
workers' reads. An answer is the number of the question on the candidate's
screen, so a transcript is sound when the i-th answer is i. Left out: what the
language model says, HR's own practice sessions, time limits, a synchronous
`/submit` of somebody who is not a candidate.

## Runs

| Run | Question | Bounds |
|---|---|---|
| `outbox_safety` | is a mail claimed and accepted once, is its row true, and does it implement `MailDelivery`? | 2 mails of one event, one of which may raise, 2 workers, 2 admins, 1 crash, 2 attempts, batches of 2 |
| `outbox_liveness` | is every queued mail settled, and given up only in time? | 2 mails under one key, 2 workers, 1 crash, no admins, batches of 1 |
| `ledger_serial` | does any sequence of requests keep the ledger? | 2 sheets, one request at a time, up to 2 leave and 2 worked days each, 1 day opening, up to 2 credited |
| `ledger_concurrent` | is paid leave conserved under overlap? | 2 requests over 2 sheets, one sheet open to both, 2 leave days each on 1 day of balance |
| `leave_safety` | is a grant given once and a missed month made up? | a yearly row with a carry cap and comp-off, an upfront row; 3 months of 2 days, December the second; 1 runner, 1 failure, a stamp with room for 1 month |
| `leave_expiry_replay` (violated) | does an expiry take only what earlier periods left? | a monthly use-it-or-lose-it row and an upfront one, 3 months, no failure |
| `slot_safety` | are seats sold once, and does it implement `SeatAllocation`? | slots of 1 and 2 seats, 2 resumes, 2 clients, 1 recruiter, deletions, 2 interviews per resume |
| `invoicing_books` | do the books agree after any sequence of requests? | 1 order of 2 or 3 units, 2 invoices, 1 credit note, TDS of 1, one clerk |
| `hiring_races` | are stages entered on their precondition, and do verdicts and rejections stay? | 1 requirement with 1 position, 1 candidate, 1 interview token, 1 earlier join; the stages of `Ladder` |
| `hiring_unfilled` (violated) | does the last join fulfil the requirement? | as above, no interview, no earlier join |
| `interview_safety` | do the four copies agree, and is every interview settled? | 1 invite, 1 question, 1 crash, 1 login (and 1 more per crash), 1 submission, 1 cleanup |
| `interview_resend` (violated) | does an answer stay at the question it was given to? | 1 invite, 2 questions, 2 logins, no crash |

The bounds are the smallest at which the contended things are contended: two
actors for each race, two documents that share one balance, one unit fewer than
they need together, attempts and crashes enough to reach the last attempt and to
lose a batch, three months so that one can be missed, replayed and followed, a
join before and a join after. Amounts are small integers because the code only
adds, subtracts and compares them. `ledger_serial` and `invoicing_books` take one
request at a time on purpose: with overlapping requests the unlocked checks are
passed and the properties fail; what they establish is that no *sequence* of legal
calls breaks the books. For the same reason `leave_safety` has one runner.
`hiring_races` has one candidate because profiles meet only in the count of
joins, which `Earlier` varies; its properties are proved for any number.
`Ladder` leaves out stages that repeat another stage's moves. With two
questions `interview_safety` would meet the resent answer of `interview_resend`
everywhere; what it asks is what a crash, the recovery, the cleanup and a
submission do to one transcript. It has one invite, so the recovery batch always
has room; with more invites than the batch holds `EveryInterviewSettled` fails
(below), and its other properties are proved for any number of invites.
Deadlock is not checked: rows are used once and the bounds run out, so each system
may come to rest.

Fairness is assumed in two runs. In `outbox_liveness` a worker thread loops for
ever (`_worker_loop`), so each worker keeps taking a step it can take, and time
passes, so a backed-off row becomes due; nothing is assumed of requests, crashes
or admins. The run leaves out mails on which sending raises (see below) and
admins, who can reset attempts for ever. In `interview_safety` the recovery
worker loops for ever (`_recovery_worker_loop`), a request the server has
accepted and a task it has started run to their end, and a checkpoint nobody
touches grows old (`GoIdle`); candidates and HR owe nothing, so the report of an
abandoned interview is the recovery worker's alone. Candidates who return after
having gone idle are left out there (`MaxReturns` is 0): one who returns again
and again postpones the report for ever.

## What the violated runs show

Each is a disagreement between the code and its own words, quoted in
`PROJECT.json`.

* `leave_expiry_replay`: a closed month without any credit is replayed by every
  later run, and its use-it-or-lose-it expiry takes the *whole* balance of a row
  whose accrual started in another month, the credit of a later month with it;
  that credit is never given again. It needs no failure: a month in which only
  upfront rows were active stays without a credit, and a row seeded with an
  accrual start in the past brings such months into the window (the trace).
* `interview_resend`: `/answer` names no question. An answer that is sent twice, by a
  client that saw no response or because the typed answer also comes with
  `/submit` (the trace), is recorded the second time as the answer of the next
  question.
* `hiring_unfilled`: the join that fills the last position is counted before it
  is flushed, so the requirement stays In_Progress.

Seen while modelling, without a run of their own (most are in the hazards):

* Outbox: an admin's retry can re-open a Sent row or leave a Failed one with
  attempts 0; a mail on which `send_email` raises rolls its batch back for ever;
  two transactions that miss each other's dedupe key make the second one's
  business commit fail.
* Timesheets: submit claws back comp-off for days that paid leave covers; figures
  frozen at approval may differ from the ledger; with two requests on one sheet an
  invoiced sheet can be rejected, late entries land in a Submitted sheet, and one
  comp-off delta is applied twice; the dedupe key of a decision mail holds only
  the length of the reason.
* Leave: two overlapping job runs (Run now beside the loop, a second process)
  both miss the source key, which no constraint makes unique, and leave two events
  of one month; the job overwrites balances that a timesheet or an application
  changed after it read them; a comp-off day is credited again monthly on a row
  without a policy.
* Slots: one booking link can be confirmed twice at once; a deleted resume does not
  give its seat back.
* Finance: an invoice can be overpaid by two cashiers; a settled credit note is
  forgotten by the next payment; credit notes are capped one by one; settle and
  cancel overlap; a cancelled order is re-activated when an invoice that raced the
  cancellation is deleted; the numbers of two documents created at once collide.
* Hiring: two triggers create two pending interviews; a move that read a profile
  before its rejection revives it.
* Interviews: after a restart a login may start a fresh session over answers that
  were not yet reported. `list_recoverable_interview_progress` orders by age,
  takes at most 100 rows and keeps every row whose status is terminated, abandoned
  or partially_completed, its report ready or not: a hundred such rows, and the
  recovery worker never reaches another interview (the model with two invites and
  a batch of one shows it).

## Proofs

All hold for every value of the constants that satisfies the named assumption of
the module, and of what a theorem's own ASSUME adds.

* `EmailOutboxProof`. The invariants are not inductive: that a held row is
  Queued does not say why an admin's write cannot change it, nor what a worker's
  session will commit. `IInv` adds that the locks exclude admins and other
  workers, that a session's object for a handled row agrees with the copies
  sent, and that objects of unhandled rows are the row. `Invariance` proves it
  by one lemma per group of actions; `TypeCorrect`, `Exclusive`, `Delivery` and
  `StatusTold` follow. `GivenUpInTime` and `SentForGood` assume that there are no
  admins, and need `AttemptsInv` besides: rows *and* the objects in the workers'
  sessions are given up exactly when their attempts are used up. `Implements` maps
  every step to `MailDelivery` (`HeldMail` is what it needs of `IInv`: a row of a
  batch is still Queued, and its object says Sent exactly if the mail was
  accepted), and `OutboxTold` carries over what is proved of the abstract delivery
  by `Truthful`: rows tell which mails were accepted, and no two mails of one fact
  are in the table, even when two transactions miss each other's key.
* `SlotBookingProof`. `IInv` adds that the slot lock has one holder, that the
  count a session read under the lock is still the committed one, and that a
  confirmed booking's slot cannot be deleted under the foreign key.
  `SlotsOfBookingsExist` follows at once; `SlotsNeverOversold` needs the number
  of holders to be at most `booked_count`, by a cardinality argument on the one
  booking a commit adds. `InterviewsExist` needs `Backed`: the links of a resume
  together with the confirmations that have scheduled and not yet committed are
  no more than its interviews, or two of them could share one. `Implements` maps
  the initial state and each step to `SeatAllocation`: a commit takes a seat,
  deletions withdraw or close, every other step stutters. `SeatsAlwaysFit` is the
  bound of the abstract specification, `BookedSeatsFit` the same bound of the
  bookings under the refinement.
* `HiringPipelineProof`. `TInv` is the types with `SyncSound`: the link and the
  report of a write-back in flight are still there when it commits, which is why a
  commit recreates nothing. `OInv` adds to `OfferBeforeApproval` that a move in
  flight towards the customer's approval has its offer, or it would be lost
  between check and write. `MInv` adds that every passing report, and every
  hand-over in flight, belongs to a profile that has earned it. `EInv` adds that a
  requirement in sourcing was reviewed, that who is Joined is in `joined`, and that
  the requirements a move in flight will fulfil were earned when it read.
  `RejectionHolds` and `VerdictHolds` are action properties, proved step by step
  from `TInv`. Together they cover every property of the run.
* `LeaveCreditProof`. `GrantsGivenOnce` assumes one run at a time. `LInv` says that
  what a period has planned is still due when it is committed (the month has no
  event, the stash is full), although rows are added, exited, credited and debited
  meanwhile, and that a grant that has been given is no longer stashed. A row
  seeded between read and commit is the case that needs the plan of an absent row
  to be empty. `LeaveTyped`, `MissedMonthsRepaired` and `MissedDecembersRepaired`
  hold for any number of runs at once, failing and killed ones included. They rest
  on the one thing that makes the coarse test for a missing month right for the
  rows in question, `CreditedToAll`: a month credited to anyone was committed as a
  whole, so it was credited to every row that accrues in it. `RInv` adds that a
  staged period will do the same (`PlanForAll`), that a run in progress has done or
  still has in `todo` every month of its window (`NothingForgotten`), that nothing
  is dated in the future (`InTime`), and that the last recorded run left nothing to
  do (`Repaired`).
* `InterviewSessionProof`. `TInv` is the types with `HeldInMemory`: an `/answer`
  that works on the session in memory finds it there, because whoever drops the
  session hands it over. `Backed` says of each of the eight places a session or a
  writer can be in (memory, checkpoint, an unlocked `/answer`, a submission, the
  queued upgrades, the recovery worker's reads, the two finalizers) that it claims
  a result only if there is a report; `ReadyHasReport` follows. `ClosedOrOwed`
  says that a report without a closed invite is owed by the writer that has just
  made it, until the process dies; it needs `Backed`, or an upgrade could be the
  first to write a report. It gives `ReportClosed`.
* `InvoicingProof`. The types hold for any clerks: `TInv` adds that a request never
  takes back a recorded payment (`Grows`), so that merging it into books that moved
  on keeps the sums non-negative. The other theorems assume one clerk at a time.
  `BInv` says that a request in progress has read the committed books and that what
  it will write is `Sound` (the statuses, balances and payment sums of every row
  agree) and a legal `Change`; a commit nothing overtook writes exactly that
  (`MergeAlone`). It needs the foreign keys, `Referential`, for an invoice inserted
  under an id with payments left behind. `ConsumptionInvoiced` adds `Balanced`: the
  consumption of every live order, with the drift the model keeps beside it, is the
  sum of what its live invoices bill, and an order that is gone has no drift.
  `CInv` says so of the committed books and of the books each request in progress
  will write.
* `TimesheetLedgerProof`. `LeaveConserved` holds for any number of overlapping
  requests and is inductive with `used >= 0` alone: it rests on the check made under
  the row lock, whatever was read before it. `Implements` says the same of steps:
  each commit is one charge of `LeaveAccount`. The accounts of a sheet
  (`DaysChargedOnce`, `CompOffToldOnce`, `CompOffBounded`) hold while no two actors
  serve one sheet (`Disjoint`), however many requests overlap: `RowInv` says that a
  request at work has read its sheet as it still is, which is what a second request
  on that sheet breaks. The Comp-Off balance (`CompOffKept`) needs one request at a
  time: an approval or an update of entries writes back a balance read before the
  lock, and an overlapping request on another sheet loses its grant. `CompInv` adds
  to `RowInv` that the balance read is the balance still.
* `FiniteSums`. Balances are sums over sheets and over invoices, folded by the
  library. The module proves that such a sum is defined, moves by the change of one
  summand, and is 0 of zeros, by the least counterexample among finite subsets.

The assumptions are those of the modules that declare the constants. Two are there
for the proofs alone, and the code justifies both: a month is a natural number, the
Decembers too (`LeaveAssumption`), and there are finitely many invoice ids
(`ConstantsAssumption` of `Invoicing`).

Every safety invariant and action property of the passing runs is a theorem. Only
model-checked are the two liveness properties, `QueuedIsSettled` and
`EveryInterviewSettled`, since liveness under fairness is out of the prover's
reach; the properties of the violated runs are false. `AccountKept` is proved and
belongs to no run.

## Not modelled

Template requests, roles and permissions, authentication and caches only refuse
or speed up requests. Customers, masters, policies and holidays are configuration
that reaches a decision as a constant. Reports, dashboards, payroll, tax invoices
and PDFs are read-only; ATS scoring and AI help are functions of free text.
Interview rounds, the calendar and notifications write rows that no decision
reads. Migrations, importers and proxies are tools. The largest files
(`main.py`, `ai.py`, `auth_db.py`) are mostly prompts, pages and queries around
the interview modelled in `InterviewSession`, which is why the mapped lines are a
small part of the whole.

## Plan

Done: the outbox, slot booking, hiring, timesheets, finance, leave credit and the
interview engine, each checked and with proofs. Next:

1. `InterviewSession`: time limits, HR's practice sessions, two questions with the
   recovery worker.
2. `TimesheetLedger`: half days and absences, period edits of their own.
3. `Invoicing`: project allocations.
4. `LeaveCredit`: reactivation and proration.
5. `HiringPipeline`: opportunity stages, `sync_hr_decision`, customer rounds.
6. The other three daily jobs, composed with the outbox's dedupe keys.

Three abstract specifications are stated: `SeatAllocation`, `MailDelivery` and
`LeaveAccount`. An order of `Invoicing` is an account too, but for the drift that
re-rating leaves; what an interview promises its candidate (begun, answered,
reported once) is worth one as well.
