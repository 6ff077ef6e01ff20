-------------------------- MODULE TimesheetLedger --------------------------
(***************************************************************************)
(* The timesheet workflow and the leave ledger behind it:                  *)
(* backend/routers/crm/timesheets.py and backend/services/timesheets.py.   *)
(*                                                                         *)
(* Sheets of one project assignment share a paid-leave balance and a       *)
(* comp-off balance.  A request loads its sheet without a lock, reads the  *)
(* sheet's earlier consumption, and only then locks the balance rows; what *)
(* follows the lock up to the commit is one step here, because every other *)
(* writer of those rows waits for it.  What was read before the lock may   *)
(* be stale by then, and the sheet's own row is never locked at all.       *)
(***************************************************************************)
EXTENDS Integers, FiniteSets, FiniteSetsExt

CONSTANTS Sheets,
          Actors,         \* concurrent requests
          Serves,         \* the sheets an actor's requests are about
          Operations,     \* the operations the actors perform
          Opening,        \* opening paid-leave balance
          MaxGranted,     \* bound on the days ever granted
          MaxLeave,       \* bound on a sheet's leave days
          MaxWork         \* bound on a sheet's worked week-offs

ASSUME ConstantsAssumption ==
    /\ IsFiniteSet(Sheets) /\ Sheets # {}
    /\ Serves \in [Actors -> SUBSET Sheets]
    /\ Operations \subseteq {"create", "upsert", "submit", "approve", "reject",
                             "delete", "invoice", "credit"}
    /\ Opening \in Nat /\ MaxGranted \in Nat
    /\ MaxLeave \in Nat /\ MaxWork \in Nat

VARIABLES
    sheet,     \* timesheets and their entries
    used,      \* paid days consumed: Consumption events of timesheet:{id}
    lop,       \* Loss-of-Pay days consumed, same source
    granted,   \* paid days ever credited
    balance,   \* leave_balance of the paid type
    comp,      \* leave_balance of Comp-Off
    compEvents,\* comp-off days moved by events of timesheet:{id}
    frozen,    \* loss_of_pay_from_leave in approved_figures
    invoice,   \* sheets with an invoice
    request    \* what each actor's request has read so far

vars == <<sheet, used, lop, granted, balance, comp, compEvents, frozen,
          invoice, request>>
ledger == <<used, lop, granted, balance, comp, compEvents>>

Entries == (0..MaxLeave) \X (0..MaxWork)
EDITABLE_STATUSES == {"Draft", "Rejected"}
SheetType == [status : {"Absent", "Draft", "Submitted", "Approved", "Rejected",
                        "Deleted"},
              accrued : Int,    \* comp_off_accrued
              leave : 0..MaxLeave,    \* days of paid-type leave among the entries
              work : 0..MaxWork]  \* unbilled worked week-off or holiday days
NoSheet == [status |-> "Absent", accrued |-> 0, leave |-> 0, work |-> 0]

\* to: the entries an upsert writes; linked: an invoice was there; prior: consumption read before the lock;
\* earned, comp: what an accrual computed and read before the lock
RequestType == [op : Operations \cup {"none"}, on : Sheets, seen : SheetType,
                phase : {"idle", "loaded", "read"}, to : Entries,
                linked : BOOLEAN,
                prior : Int, earned : Int, comp : Int]
NoRequest == [op |-> "none", on |-> CHOOSE s \in Sheets : TRUE,
              seen |-> NoSheet, phase |-> "idle", to |-> <<0, 0>>,
              linked |-> FALSE,
              prior |-> 0, earned |-> 0, comp |-> 0]

TypeOK ==
    /\ sheet \in [Sheets -> SheetType]
    /\ used \in [Sheets -> Int] /\ lop \in [Sheets -> Int]
    /\ granted \in Nat /\ balance \in Int /\ comp \in Int
    /\ compEvents \in [Sheets -> Int]
    /\ frozen \in [Sheets -> Nat]
    /\ invoice \subseteq Sheets
    /\ request \in [Actors -> RequestType]

Init ==
    /\ sheet = [s \in Sheets |-> NoSheet]
    /\ used = [s \in Sheets |-> 0] /\ lop = [s \in Sheets |-> 0]
    /\ granted = Opening /\ balance = Opening /\ comp = 0
    /\ compEvents = [s \in Sheets |-> 0]
    /\ frozen = [s \in Sheets |-> 0]
    /\ invoice = {}
    /\ request = [a \in Actors |-> NoRequest]
----------------------------------------------------------------------------
(* Classification of a sheet's leave and of its worked week-offs.          *)

AtLeast0(n) == IF n < 0 THEN 0 ELSE n
Smaller(m, n) == IF m < n THEN m ELSE n

\* Mutants: every available day is taken; a comp-off that may go negative.
PaidDaysUncapped(leave, available) == AtLeast0(available)
NetCompOffNoFloor(work, lopDays) == work - lopDays

\* Days paid out of what was available before the sheet's own consumption.
PaidDays(leave, available) == Smaller(leave, AtLeast0(available))
LopDays(leave, available) == leave - PaidDays(leave, available)

\* Worked week-offs net of the Loss-of-Pay days they make up.
NetCompOff(work, lopDays) == work - Smaller(work, lopDays)
----------------------------------------------------------------------------
(* Loading a request: the unlocked reads and the checks made on them.      *)

Rejectable(s) == \/ sheet[s].status = "Submitted"
                 \/ sheet[s].status = "Approved" /\ s \notin invoice
Editable(s) == sheet[s].status \in EDITABLE_STATUSES

Allowed(op, s) ==
    CASE op = "create"  -> sheet[s].status = "Absent"
      [] op = "upsert"  -> Editable(s)
      [] op = "submit"  -> sheet[s].status \in EDITABLE_STATUSES
      [] op = "approve" -> sheet[s].status = "Submitted"
      [] op = "reject"  -> Rejectable(s)
      [] op = "delete"  -> sheet[s].status \notin {"Absent", "Deleted"}
      [] op = "invoice" -> sheet[s].status = "Approved" /\ s \notin invoice
      [] OTHER          -> FALSE

Begin(a, op, s, to) ==
    request' = [request EXCEPT ![a] =
        [NoRequest EXCEPT !.op = op, !.on = s, !.seen = sheet[s],
                          !.phase = "loaded", !.to = to,
                          !.linked = s \in invoice]]

Load(a) ==
    /\ request[a].phase = "idle"
    /\ \E s \in Serves[a], op \in Operations \ {"credit"} :
          /\ Allowed(op, s)
          /\ \E to \in (IF op = "upsert" THEN Entries ELSE {<<0, 0>>}) :
                Begin(a, op, s, to)
    /\ UNCHANGED <<sheet, ledger, frozen, invoice>>

\* _timesheet_prior_consumption, read before the balance rows are locked; an
\* approve or an upsert computes its comp-off accrual here as well.
ReadPrior(a) ==
    LET r == request[a]
        s == r.on
        leave == IF r.op = "upsert" THEN r.to[1] ELSE r.seen.leave
        work == IF r.op = "upsert" THEN r.to[2] ELSE r.seen.work
    IN /\ r.phase = "loaded" /\ r.op \in {"submit", "approve", "upsert"}
       /\ request' = [request EXCEPT
             ![a].phase = "read",
             ![a].prior = used[s],
             ![a].earned = NetCompOff(work, LopDays(leave, balance + used[s])),
             ![a].comp = comp]
       /\ UNCHANGED <<sheet, ledger, frozen, invoice>>

Finish(a) == request' = [request EXCEPT ![a] = NoRequest]

\* The request fails: an HTTPException, or an UPDATE that finds no row.
Abort(a) ==
    /\ Finish(a)
    /\ UNCHANGED <<sheet, ledger, frozen, invoice>>

Exists(s) == sheet[s].status \notin {"Absent", "Deleted"}
----------------------------------------------------------------------------
(* The ledger operations, under the lock on the balance rows.              *)

\* Mutants: the balance is not checked; the accrual adds its target; a
\* half-done reversal.
InsufficientNever(s, paid) == FALSE
AccrueWithoutDelta(s, seen, earned, from) ==
    IF earned = seen.accrued THEN UNCHANGED <<comp, compEvents>>
    ELSE /\ comp' = from + earned
         /\ compEvents' = [compEvents EXCEPT ![s] = @ + earned]
ReverseCompOffOnly(s, seen) ==
    /\ comp' = comp - seen.accrued
    /\ compEvents' = [compEvents EXCEPT ![s] = @ - seen.accrued]
    /\ UNCHANGED <<used, lop, balance>>
ReverseLeaveOnly(s, seen) ==
    /\ used' = [used EXCEPT ![s] = 0] /\ lop' = [lop EXCEPT ![s] = 0]
    /\ balance' = balance + used[s]
    /\ UNCHANGED <<comp, compEvents>>

\* consume_timesheet_leaves: move the sheet's consumption to paid and lopDays.
\* Consuming more than the balance raises; a reversal is floored at zero.
Consume(s, paid, lopDays) ==
    /\ used' = [used EXCEPT ![s] = paid]
    /\ lop' = [lop EXCEPT ![s] = lopDays]
    /\ balance' = AtLeast0(balance - (paid - used[s]))
Insufficient(s, paid) == paid - used[s] > balance /\ paid > used[s]

\* accrue_comp_off: move what the sheet granted to earned.  The delta is taken
\* against comp_off_accrued as loaded and added to the Comp-Off row as read.
Accrue(s, seen, earned, from) ==
    LET delta == earned - seen.accrued
    IN IF delta = 0 THEN UNCHANGED <<comp, compEvents>>
       ELSE /\ comp' = from + delta
            /\ compEvents' = [compEvents EXCEPT ![s] = @ + delta]

\* Only changed columns are written back to the sheet.
Written(s, seen, status, earned) ==
    [sheet[s] EXCEPT !.status = IF status = seen.status THEN @ ELSE status,
                     !.accrued = IF earned = seen.accrued THEN @ ELSE earned]
----------------------------------------------------------------------------
Create(a) ==
    LET s == request[a].on
    IN /\ request[a].op = "create"
       /\ sheet' = IF sheet[s].status = "Absent"
                   THEN [sheet EXCEPT ![s].status = "Draft"] ELSE sheet
       /\ Finish(a)
       /\ UNCHANGED <<ledger, frozen, invoice>>

\* upsert_entries and update_period: entries and the real-time comp-off.
Upsert(a) ==
    LET r == request[a]
        s == r.on
    IN /\ r.op = "upsert" /\ r.phase = "read" /\ Exists(s)
       /\ sheet' = [sheet EXCEPT ![s] =
             [Written(s, r.seen, r.seen.status, r.earned)
                 EXCEPT !.leave = r.to[1], !.work = r.to[2]]]
       /\ Accrue(s, r.seen, r.earned, r.comp)
       /\ Finish(a)
       /\ UNCHANGED <<used, lop, granted, balance, frozen, invoice>>

\* The session's balance object already holds the new consumption while the
\* ledger event for it is not flushed: what a classification made after
\* Consume in the same transaction takes as available.
AvailableAfterConsume(s) == balance' + used[s]

Submit(a) ==
    LET r == request[a]
        s == r.on
        paid == PaidDays(r.seen.leave, balance + r.prior)
        earned == NetCompOff(r.seen.work,
                             LopDays(r.seen.leave, AvailableAfterConsume(s)))
    IN /\ r.op = "submit" /\ r.phase = "read" /\ Exists(s)
       /\ ~Insufficient(s, paid)
       /\ Consume(s, paid, r.seen.leave - paid)
       /\ Accrue(s, r.seen, earned, comp)
       /\ sheet' = [sheet EXCEPT ![s] = Written(s, r.seen, "Submitted", earned)]
       /\ Finish(a)
       /\ UNCHANGED <<granted, frozen, invoice>>

Approve(a) ==
    LET r == request[a]
        s == r.on
        paid == PaidDays(r.seen.leave, balance + r.prior)
    IN /\ r.op = "approve" /\ r.phase = "read" /\ Exists(s)
       /\ ~Insufficient(s, paid)
       /\ Consume(s, paid, r.seen.leave - paid)
       /\ Accrue(s, r.seen, r.earned, r.comp)
       /\ frozen' = [frozen EXCEPT ![s] =
                        LopDays(r.seen.leave, AvailableAfterConsume(s))]
       /\ sheet' = [sheet EXCEPT ![s] = Written(s, r.seen, "Approved", r.earned)]
       /\ Finish(a)
       /\ UNCHANGED <<granted, invoice>>

\* reverse_timesheet_ledger_effects.
Reverse(s, seen) ==
    /\ Consume(s, 0, 0)
    /\ Accrue(s, seen, 0, comp)

Reject(a) ==
    LET r == request[a]
        s == r.on
    IN /\ r.op = "reject" /\ Exists(s)
       /\ Reverse(s, r.seen)
       /\ sheet' = [sheet EXCEPT ![s] = Written(s, r.seen, "Rejected", 0)]
       /\ frozen' = [frozen EXCEPT ![s] = 0]
       /\ Finish(a)
       /\ UNCHANGED <<granted, invoice>>

\* A linked invoice was seen and force cascades it (without force the request
\* ends at the load); the foreign key refuses an invoice added since.
Delete(a) ==
    LET r == request[a]
        s == r.on
    IN /\ r.op = "delete" /\ Exists(s)
       /\ Reverse(s, r.seen)
       /\ s \in invoice => r.linked
       /\ invoice' = invoice \ {s}
       /\ sheet' = [sheet EXCEPT ![s] = [NoSheet EXCEPT !.status = "Deleted"]]
       /\ frozen' = [frozen EXCEPT ![s] = 0]
       /\ Finish(a)
       /\ UNCHANGED granted

\* uq_invoice_timesheet and the foreign key decide at the flush.
GenerateInvoice(a) ==
    LET s == request[a].on
    IN /\ request[a].op = "invoice" /\ Exists(s) /\ s \notin invoice
       /\ invoice' = invoice \cup {s}
       /\ Finish(a)
       /\ UNCHANGED <<sheet, ledger, frozen>>

Refused(a) ==
    LET r == request[a]
        s == r.on
    IN /\ r.phase # "idle"
       /\ \/ r.op # "create" /\ ~Exists(s)
          \/ /\ r.op \in {"submit", "approve"} /\ r.phase = "read"
             /\ Insufficient(s, PaidDays(r.seen.leave, balance + r.prior))
          \/ r.op = "delete" /\ s \in invoice /\ ~r.linked
          \/ r.op = "invoice" /\ s \in invoice
       /\ Abort(a)

\* Another leave is credited (the leave-credit job, here one step).
Credit(a) ==
    /\ "credit" \in Operations /\ request[a].phase = "idle"
    /\ granted < MaxGranted
    /\ granted' = granted + 1 /\ balance' = balance + 1
    /\ UNCHANGED <<sheet, used, lop, comp, compEvents, frozen, invoice,
                   request>>
----------------------------------------------------------------------------
Next ==
    \E a \in Actors :
        \/ Load(a) \/ ReadPrior(a)
        \/ Create(a) \/ Upsert(a) \/ Submit(a) \/ Approve(a) \/ Reject(a)
        \/ Delete(a) \/ GenerateInvoice(a) \/ Refused(a) \/ Credit(a)

Spec == Init /\ [][Next]_vars
----------------------------------------------------------------------------
(* Properties.                                                             *)

Decided == {"Submitted", "Approved"}
Total(days) == MapThenSumSet(LAMBDA s : days[s], Sheets)

\* Paid leave is neither lost nor created: the balance is what was granted
\* less what the sheets consumed, and never negative
\* (services/timesheets.py:966-968, "concurrent submit/approve of two sheets
\* cannot over-consume the same balance").
PaidLeaveConserved ==
    /\ balance = granted - Total(used)
    /\ balance >= 0

\* A submitted or approved sheet has charged every leave day once, as paid or
\* as Loss of Pay; any other sheet charges nothing (reject and delete reverse).
EachDayChargedOnce ==
    \A s \in Sheets :
        IF sheet[s].status \in Decided
        THEN used[s] + lop[s] = sheet[s].leave /\ used[s] >= 0 /\ lop[s] >= 0
        ELSE used[s] = 0 /\ lop[s] = 0

\* The events of a sheet add up to the comp-off its column says it granted
\* (services/timesheets.py:1536-1537, "never double-credits").
CompOffCreditedOnce == \A s \in Sheets : compEvents[s] = sheet[s].accrued

\* The Comp-Off balance is what the sheets granted.
CompOffConserved == comp = Total([s \in Sheets |-> sheet[s].accrued])

\* Comp-off is granted for worked days only, never more than were worked.
CompOffWithinWork ==
    \A s \in Sheets : sheet[s].accrued >= 0 /\ sheet[s].accrued <= sheet[s].work

\* However many requests overlap, the paid leave behaves as one account that
\* is charged at once and never overdrawn.
Account == INSTANCE LeaveAccount WITH
               Holders <- Sheets, Days <- 0..MaxLeave, charged <- used
AccountKept == Account!Spec
============================================================================
