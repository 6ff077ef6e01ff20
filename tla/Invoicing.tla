------------------------------ MODULE Invoicing ------------------------------
(***************************************************************************)
(* Purchase orders, invoices, payments, TDS and credit notes:              *)
(* backend/routers/crm/finance.py, routers/crm/credit_notes.py,            *)
(* services/tax.py and services/crm_delete.py.                             *)
(*                                                                         *)
(* No finance request locks a row.  A request loads its rows, checks them, *)
(* computes new column values and commits; the ORM writes the columns whose *)
(* value changed, so a request that overlaps another one overwrites it.    *)
(* The database refuses a commit that breaks a foreign key or updates a    *)
(* row that is gone.                                                       *)
(***************************************************************************)
EXTENDS Integers, FiniteSetsExt

CONSTANTS Pos, Invoices, Notes, Clerks,
          Serves,      \* the operations each clerk's client calls
          Totals,      \* total_value of a purchase order
          SubTotals,   \* sub_total of an invoice
          Amounts,     \* payments and credit note totals
          TdsAmounts,  \* amounts and payments of a TDS record
          Tax,         \* GST of an invoice that can be rated
          NoPo, NoInvoice, Idle

Operations == {"po", "invoice", "rerate", "payment", "tds", "tds_payment",
               "note", "settle", "delete"}

ASSUME ConstantsAssumption ==
    /\ Totals \cup SubTotals \cup Amounts \cup TdsAmounts \subseteq Nat \ {0}
    /\ Tax \in Nat
    /\ Serves \in [Clerks -> SUBSET Operations]
    /\ NoPo \notin Pos /\ NoInvoice \notin Invoices
    /\ IsFiniteSet(Invoices)

VARIABLES
    db,       \* the committed rows
    request   \* what each clerk's request loaded and what it will write

vars == <<db, request>>

\* A row is Absent before its INSERT and Deleted after its DELETE.
PoRow == [status : {"Absent", "Active", "Exhausted", "Cancelled", "Deleted"},
          total : Nat, consumed : Int, balance : Nat]
InvoiceRow == [status : {"Absent", "Unpaid", "Partially_Paid", "Paid", "Deleted"},
               po : Pos \cup {NoPo}, sub : Nat, grand : Nat, paid : Nat, balance : Nat]
TdsRow == [status : {"Absent", "Pending", "Partially_Paid", "Paid"},
           amount : Nat, paid : Nat, balance : Nat]
NoteRow == [status : {"Absent", "Draft", "Approved", "Settled", "Cancelled"},
            invoice : Invoices \cup {NoInvoice}, total : Nat, adjusts : BOOLEAN]

\* received and remitted: sums of the invoice_payments and tds_payments rows.
\* drift (history): what re-rating has added to the invoices of a PO.
DbType == [po : [Pos -> PoRow], invoice : [Invoices -> InvoiceRow],
           tds : [Invoices -> TdsRow], note : [Notes -> NoteRow],
           received : [Invoices -> Nat], remitted : [Invoices -> Nat],
           drift : [Pos -> Int]]

TypeOK ==
    /\ db \in DbType
    /\ request \in [Clerks -> [before : DbType, after : DbType] \cup {Idle}]

NoPoRow == [status |-> "Absent", total |-> 0, consumed |-> 0, balance |-> 0]
NoInvoiceRow == [status |-> "Absent", po |-> NoPo, sub |-> 0, grand |-> 0,
                 paid |-> 0, balance |-> 0]
DeletedPo == [NoPoRow EXCEPT !.status = "Deleted"]
DeletedInvoice == [NoInvoiceRow EXCEPT !.status = "Deleted"]
NoTds == [status |-> "Absent", amount |-> 0, paid |-> 0, balance |-> 0]
NoNote == [status |-> "Absent", invoice |-> NoInvoice, total |-> 0, adjusts |-> FALSE]

Init ==
    /\ db = [po |-> [p \in Pos |-> NoPoRow],
             invoice |-> [i \in Invoices |-> NoInvoiceRow],
             tds |-> [i \in Invoices |-> NoTds],
             note |-> [n \in Notes |-> NoNote],
             received |-> [i \in Invoices |-> 0],
             remitted |-> [i \in Invoices |-> 0],
             drift |-> [p \in Pos |-> 0]]
    /\ request = [c \in Clerks |-> Idle]

Live(row) == row.status \notin {"Absent", "Deleted"}
InvoicesOf(d, p) == {i \in Invoices : Live(d.invoice[i]) /\ d.invoice[i].po = p}
NotesOf(d, i) == {n \in Notes : d.note[n].invoice = i}

\* A row id no other request in progress is inserting.
FreshPo(p) == /\ db.po[p].status = "Absent"
              /\ \A c \in Clerks : request[c] # Idle => ~Live(request[c].after.po[p])
FreshInvoice(i) == /\ db.invoice[i].status = "Absent"
                   /\ \A c \in Clerks :
                        request[c] # Idle => ~Live(request[c].after.invoice[i])
FreshNote(n) == /\ db.note[n].status = "Absent"
                /\ \A c \in Clerks : request[c] # Idle => ~Live(request[c].after.note[n])
----------------------------------------------------------------------------
(* services/tax.py: the balances are recomputed from the totals.           *)

\* Mutant: the balance is not clamped at 0.
Unclamped(n) == n
NonNegative(n) == IF n < 0 THEN 0 ELSE n

PaymentStatus(unpaid, paid, owed) ==
    CASE owed <= 0 -> "Paid"
      [] owed > 0 /\ paid > 0 -> "Partially_Paid"
      [] OTHER -> unpaid

\* Mutant: a payment replaces the paid amount instead of adding to it.
ApplyInvoicePaymentReplaces(row, a) ==
    LET owed == row.grand - a
    IN  [row EXCEPT !.paid = a, !.balance = NonNegative(owed),
                    !.status = PaymentStatus("Unpaid", a, owed)]

ApplyInvoicePayment(row, a) ==
    LET owed == row.grand - (row.paid + a)
    IN  [row EXCEPT !.paid = @ + a, !.balance = NonNegative(owed),
                    !.status = PaymentStatus("Unpaid", row.paid + a, owed)]

ApplyTdsPayment(row, a) ==
    LET owed == row.amount - (row.paid + a)
    IN  [row EXCEPT !.paid = @ + a, !.balance = NonNegative(owed),
                    !.status = PaymentStatus("Pending", row.paid + a, owed)]

\* Mutant: an exhausted order stays so when value comes back.
ApplyPoConsumptionSticky(row, delta) ==
    LET left == row.total - (row.consumed + delta)
    IN  [row EXCEPT !.consumed = @ + delta, !.balance = NonNegative(left),
                    !.status = IF left <= 0 THEN "Exhausted" ELSE @]

\* str(po.status) is "POStatus.CANCELLED" for a loaded row, so the test that
\* should keep a cancelled order cancelled never holds.
ApplyPoConsumption(row, delta) ==
    LET left == row.total - (row.consumed + delta)
    IN  [row EXCEPT !.consumed = @ + delta, !.balance = NonNegative(left),
                    !.status = IF left <= 0 THEN "Exhausted" ELSE "Active"]
----------------------------------------------------------------------------
(* A request: load and check at Serve, write at Commit.                    *)

Serve(c, op, after) ==
    /\ op \in Serves[c]
    /\ request[c] = Idle
    /\ request' = [request EXCEPT ![c] = [before |-> db, after |-> after]]
    /\ UNCHANGED db

\* create_purchase_order, renew_purchase_order, create_po_from_project
CreatePo(c, p, t) ==
    /\ FreshPo(p)
    /\ Serve(c, "po", [db EXCEPT !.po[p] =
            [status |-> "Active", total |-> t, consumed |-> 0, balance |-> t]])

\* update_purchase_order with a total_value
UpdatePo(c, p, t) ==
    /\ db.po[p].status \in {"Active", "Exhausted"}
    /\ t >= db.po[p].consumed
    /\ Serve(c, "po", [db EXCEPT !.po[p] =
            ApplyPoConsumption([@ EXCEPT !.total = t], 0)])

\* Mutant: an order with invoices can be cancelled.
PoCancellableInvoiced(p) == Live(db.po[p])
PoCancellable(p) == Live(db.po[p]) /\ InvoicesOf(db, p) = {}

CancelPo(c, p) ==
    /\ PoCancellable(p)
    /\ Serve(c, "po", [db EXCEPT !.po[p].status = "Cancelled"])

\* create_invoice wants an Active order; a timesheet's invoice any order that
\* is not cancelled; both an order whose balance covers the grand total.
Covers(p, grand) ==
    /\ db.po[p].status \in {"Active", "Exhausted"}
    /\ db.po[p].balance >= grand

\* create_invoice, generate_invoice_from_timesheet, the recurring job
CreateInvoice(c, i, p, sub, grand) ==
    /\ FreshInvoice(i)
    /\ p # NoPo => Covers(p, grand)
    /\ LET row == [status |-> "Unpaid", po |-> p, sub |-> sub, grand |-> grand,
                   paid |-> 0, balance |-> grand]
           raised == [db EXCEPT !.invoice[i] = row]
       IN  Serve(c, "invoice",
                 IF p = NoPo THEN raised
                 ELSE [raised EXCEPT !.po[p] = ApplyPoConsumption(@, grand)])

\* update_invoice with a buyer_state_code: the invoice is rated again and the
\* purchase order is not told.
UpdateInvoice(c, i, grand) ==
    /\ Live(db.invoice[i])
    /\ LET row == db.invoice[i]
           rerated == [db EXCEPT !.invoice[i] =
                            ApplyInvoicePayment([row EXCEPT !.grand = grand], 0)]
       IN  Serve(c, "rerate",
                 IF row.po = NoPo THEN rerated
                 ELSE [rerated EXCEPT !.drift[row.po] = @ + grand - row.grand])

\* Mutant: a payment may exceed the balance.
PayableAnyAmount(row, a) == Live(row)
Payable(row, a) == Live(row) /\ a <= row.balance

RecordPayment(c, i, a) ==
    /\ Payable(db.invoice[i], a)
    /\ Serve(c, "payment", [db EXCEPT !.invoice[i] = ApplyInvoicePayment(@, a),
                                      !.received[i] = @ + a])

RecordTds(c, i, a) ==
    /\ Live(db.invoice[i])
    /\ ~Live(db.tds[i])
    /\ Serve(c, "tds", [db EXCEPT !.tds[i] =
            [status |-> "Pending", amount |-> a, paid |-> 0, balance |-> a]])

TdsPayment(c, i, a) ==
    /\ Payable(db.tds[i], a)
    /\ Serve(c, "tds_payment", [db EXCEPT !.tds[i] = ApplyTdsPayment(@, a),
                                          !.remitted[i] = @ + a])

DeleteTds(c, i) ==
    /\ Live(db.tds[i])
    /\ db.tds[i].paid = 0 /\ db.remitted[i] = 0
    /\ Serve(c, "tds", [db EXCEPT !.tds[i] = NoTds])

\* Each note is capped by the grand total on its own.
CreateCreditNote(c, n, i, a) ==
    /\ FreshNote(n)
    /\ Live(db.invoice[i])
    /\ a <= db.invoice[i].grand
    /\ Serve(c, "note", [db EXCEPT !.note[n] =
            [status |-> "Draft", invoice |-> i, total |-> a, adjusts |-> FALSE]])

ApproveCreditNote(c, n) ==
    /\ db.note[n].status = "Draft"
    /\ Serve(c, "note", [db EXCEPT !.note[n].status = "Approved"])

CancelCreditNote(c, n) ==
    /\ db.note[n].status \in {"Draft", "Approved"}
    /\ Serve(c, "note", [db EXCEPT !.note[n].status = "Cancelled"])

\* Mutant: a credit that clears the balance does not mark the invoice Paid.
CreditedUnflagged(row, total) == [row EXCEPT !.balance = NonNegative(row.balance - total)]

\* Adjust_Balance takes the note off the balance; Refund only records it.
Credited(row, total) ==
    LET left == NonNegative(row.balance - total)
    IN  [row EXCEPT !.balance = left, !.status = IF left = 0 THEN "Paid" ELSE @]

SettleCreditNote(c, n, adjusts) ==
    /\ db.note[n].status = "Approved"
    /\ LET settled == [db EXCEPT !.note[n] = [@ EXCEPT !.status = "Settled",
                                                    !.adjusts = adjusts]]
       IN  Serve(c, "settle",
                 IF adjusts THEN [settled EXCEPT !.invoice[db.note[n].invoice] =
                                        Credited(@, db.note[n].total)]
                 ELSE settled)

\* services/crm_delete.py: money and credit notes block the delete.
InvoiceDeletable(i) ==
    /\ db.received[i] = 0
    /\ db.tds[i].paid = 0 /\ db.remitted[i] = 0
    /\ NotesOf(db, i) = {}

RemoveInvoices(d, gone) ==
    LET Without(rows, row) == [i \in Invoices |-> IF i \in gone THEN row ELSE rows[i]]
    IN  [d EXCEPT !.invoice = Without(d.invoice, DeletedInvoice),
                  !.tds = Without(d.tds, NoTds),
                  !.received = Without(d.received, 0),
                  !.remitted = Without(d.remitted, 0)]

\* Mutant: deleting an invoice does not give its total back to the order.
CascadeKeepsConsumption(d, i) == RemoveInvoices(d, {i})

\* The ORM deletes the rows an invoice owns and takes its total off the PO.
Cascade(d, i) ==
    LET row == d.invoice[i]
        gone == RemoveInvoices(d, {i})
    IN  IF row.po = NoPo THEN gone
        ELSE [gone EXCEPT !.po[row.po] = ApplyPoConsumption(@, -row.grand)]

DeleteInvoice(c, i) ==
    /\ Live(db.invoice[i])
    /\ InvoiceDeletable(i)
    /\ Serve(c, "delete", Cascade(db, i))

\* The order goes with its invoices: what they billed goes back to it first,
\* which nothing sees any more.
DeletePo(c, p) ==
    LET gone == InvoicesOf(db, p) IN
    /\ Live(db.po[p])
    /\ \A i \in gone : InvoiceDeletable(i)
    /\ Serve(c, "delete", [RemoveInvoices(db, gone) EXCEPT !.po[p] = DeletedPo])
----------------------------------------------------------------------------
(* Commit: UPDATE writes the columns the request changed.                  *)

Columns(now, old, new) ==
    IF new.status = "Deleted" THEN new
    ELSE [k \in DOMAIN new |-> IF new[k] = old[k] THEN now[k] ELSE new[k]]

Rows(now, old, new) == [r \in DOMAIN new |-> Columns(now[r], old[r], new[r])]

\* Inserted and deleted payment rows change the sums.
Sums(now, old, new) == [r \in DOMAIN new |-> now[r] + new[r] - old[r]]

Merge(now, old, new) ==
    [po |-> Rows(now.po, old.po, new.po),
     invoice |-> Rows(now.invoice, old.invoice, new.invoice),
     tds |-> Rows(now.tds, old.tds, new.tds),
     note |-> Rows(now.note, old.note, new.note),
     received |-> Sums(now.received, old.received, new.received),
     remitted |-> Sums(now.remitted, old.remitted, new.remitted),
     drift |-> Sums(now.drift, old.drift, new.drift)]

\* Every row a request updates or deletes is still there.
NothingGone(now, old, new) ==
    \A r \in DOMAIN new : Live(old[r]) /\ new[r] # old[r] => Live(now[r])

NoRowGone(now, old, new) ==
    /\ NothingGone(now.po, old.po, new.po)
    /\ NothingGone(now.invoice, old.invoice, new.invoice)
    /\ NothingGone(now.tds, old.tds, new.tds)
    /\ NothingGone(now.note, old.note, new.note)

\* The foreign keys between the rows.
Referential(d) ==
    /\ \A i \in Invoices :
        /\ Live(d.invoice[i]) /\ d.invoice[i].po # NoPo => Live(d.po[d.invoice[i].po])
        /\ ~Live(d.invoice[i]) =>
             ~Live(d.tds[i]) /\ d.received[i] = 0 /\ NotesOf(d, i) = {}
        /\ ~Live(d.tds[i]) => d.remitted[i] = 0

Written(c) == Merge(db, request[c].before, request[c].after)

Commit(c) ==
    /\ request[c] # Idle
    /\ NoRowGone(db, request[c].before, request[c].after)
    /\ Referential(Written(c))
    /\ db' = Written(c)
    /\ request' = [request EXCEPT ![c] = Idle]

\* A constraint, a failed validation or a lost connection.
Rollback(c) ==
    /\ request[c] # Idle
    /\ request' = [request EXCEPT ![c] = Idle]
    /\ UNCHANGED db

PoRequest(c) ==
    \E p \in Pos :
        \/ \E t \in Totals : CreatePo(c, p, t) \/ UpdatePo(c, p, t)
        \/ CancelPo(c, p)
        \/ DeletePo(c, p)

InvoiceRequest(c) ==
    \E i \in Invoices :
        \/ \E p \in Pos \cup {NoPo}, sub \in SubTotals, tax \in {0, Tax} :
                CreateInvoice(c, i, p, sub, sub + tax)
        \/ \E tax \in {0, Tax} : UpdateInvoice(c, i, db.invoice[i].sub + tax)
        \/ \E a \in Amounts : RecordPayment(c, i, a)
        \/ \E a \in TdsAmounts : RecordTds(c, i, a) \/ TdsPayment(c, i, a)
        \/ DeleteTds(c, i)
        \/ DeleteInvoice(c, i)

NoteRequest(c) ==
    \E n \in Notes :
        \/ \E i \in Invoices, a \in Amounts : CreateCreditNote(c, n, i, a)
        \/ ApproveCreditNote(c, n)
        \/ CancelCreditNote(c, n)
        \/ \E adjusts \in BOOLEAN : SettleCreditNote(c, n, adjusts)

Next == \E c \in Clerks :
            PoRequest(c) \/ InvoiceRequest(c) \/ NoteRequest(c) \/ Commit(c) \/ Rollback(c)

Spec == Init /\ [][Next]_vars
----------------------------------------------------------------------------
(* What the books promise.                                                 *)

\* What each invoice bills to order p.
Billed(d, p) == [i \in Invoices |->
                    IF i \in InvoicesOf(d, p) THEN d.invoice[i].grand ELSE 0]

\* What an order has consumed is what its live invoices bill, but for what
\* update_invoice re-rated without posting it to the order.
ConsumedIsInvoiced ==
    \A p \in Pos : Live(db.po[p]) =>
        db.po[p].consumed + db.drift[p]
            = MapThenSumSet(LAMBDA i : Billed(db, p)[i], Invoices)

\* balance_value is what is left of the total, never below 0, and an order that
\* is not cancelled is Exhausted exactly when nothing is left (tax.py).
PoStatusAgrees ==
    \A p \in Pos : Live(db.po[p]) =>
        /\ db.po[p].balance = NonNegative(db.po[p].total - db.po[p].consumed)
        /\ db.po[p].status = "Exhausted" => db.po[p].balance = 0
        /\ db.po[p].status = "Active" => db.po[p].balance > 0

\* paid_amount and tds_paid are the sums of the recorded payments.
PaidMatchesReceipts ==
    \A i \in Invoices :
        /\ Live(db.invoice[i]) => db.invoice[i].paid = db.received[i]
        /\ Live(db.tds[i]) => db.tds[i].paid = db.remitted[i]

\* An invoice is Paid exactly when nothing is owed, whether it was paid,
\* credited or rated again; an Unpaid one has received nothing, and none asks
\* for more than its total less what was paid.
InvoiceStatusAgrees ==
    \A i \in Invoices : LET row == db.invoice[i] IN Live(row) =>
        /\ row.status = "Paid" <=> row.balance = 0
        /\ row.status = "Unpaid" => db.received[i] = 0
        /\ row.balance <= NonNegative(row.grand - row.paid)

\* No payment takes what was received for an invoice above its total
\* (record_payment: "not exceed the balance amount").
NoOvercollection ==
    [][\A i \in Invoices : db'.received[i] > db.received[i] =>
            db'.received[i] <= db'.invoice[i].grand]_vars

\* A cancelled purchase order carries no invoice and never comes back.
CancelledIsFinal ==
    [][\A p \in Pos : db.po[p].status = "Cancelled" =>
            /\ InvoicesOf(db, p) = {}
            /\ db'.po[p].status \in {"Cancelled", "Deleted"}]_vars
=============================================================================
