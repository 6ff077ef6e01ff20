--------------------------- MODULE InvoicingProof ---------------------------
(* What the books promise, for any number of orders, invoices, credit notes *)
(* and amounts: types with any number of overlapping clerks, the agreement  *)
(* of statuses, balances and payments with one clerk at a time.             *)
EXTENDS Invoicing, FiniteSums

(***************************************************************************)
(* Types.                                                                  *)
(***************************************************************************)
LEMMA NonNegativeType ==
    ASSUME NEW n \in Int
    PROVE  /\ NonNegative(n) \in Nat
           /\ n <= 0 => NonNegative(n) = 0
           /\ n > 0 => NonNegative(n) = n
BY DEF NonNegative

LEMMA PaymentStatusType ==
    ASSUME NEW u, NEW m, NEW n
    PROVE  PaymentStatus(u, m, n) \in {u, "Partially_Paid", "Paid"}
BY DEF PaymentStatus

LEMMA RowTypes ==
    /\ NoPoRow \in PoRow /\ DeletedPo \in PoRow
    /\ NoInvoiceRow \in InvoiceRow /\ DeletedInvoice \in InvoiceRow
    /\ NoTds \in TdsRow /\ NoNote \in NoteRow
BY DEF NoPoRow, DeletedPo, NoInvoiceRow, DeletedInvoice, NoTds, NoNote, PoRow,
       InvoiceRow, TdsRow, NoteRow

LEMMA ConsumptionType ==
    ASSUME NEW row \in PoRow, NEW delta \in Int
    PROVE  ApplyPoConsumption(row, delta) \in PoRow
<1>1. row.total - (row.consumed + delta) \in Int /\ row.consumed + delta \in Int
  BY DEF PoRow
<1>2. NonNegative(row.total - (row.consumed + delta)) \in Nat
  BY <1>1, NonNegativeType
<1> QED BY <1>1, <1>2 DEF ApplyPoConsumption, PoRow

LEMMA InvoicePaymentType ==
    ASSUME NEW row \in InvoiceRow, NEW a \in Nat
    PROVE  ApplyInvoicePayment(row, a) \in InvoiceRow
<1>1. row.grand - (row.paid + a) \in Int /\ row.paid + a \in Nat
  BY DEF InvoiceRow
<1>2. NonNegative(row.grand - (row.paid + a)) \in Nat
  BY <1>1, NonNegativeType
<1>3. PaymentStatus("Unpaid", row.paid + a, row.grand - (row.paid + a))
        \in {"Unpaid", "Partially_Paid", "Paid"}
  BY PaymentStatusType
<1> QED BY <1>1, <1>2, <1>3 DEF ApplyInvoicePayment, InvoiceRow

LEMMA TdsPaymentType ==
    ASSUME NEW row \in TdsRow, NEW a \in Nat
    PROVE  ApplyTdsPayment(row, a) \in TdsRow
<1>1. row.amount - (row.paid + a) \in Int /\ row.paid + a \in Nat
  BY DEF TdsRow
<1>2. NonNegative(row.amount - (row.paid + a)) \in Nat
  BY <1>1, NonNegativeType
<1>3. PaymentStatus("Pending", row.paid + a, row.amount - (row.paid + a))
        \in {"Pending", "Partially_Paid", "Paid"}
  BY PaymentStatusType
<1> QED BY <1>1, <1>2, <1>3 DEF ApplyTdsPayment, TdsRow

LEMMA CreditedType ==
    ASSUME NEW row \in InvoiceRow, NEW n \in Nat
    PROVE  Credited(row, n) \in InvoiceRow
<1>1. NonNegative(row.balance - n) \in Nat
  BY NonNegativeType DEF InvoiceRow
<1> QED BY <1>1 DEF Credited, InvoiceRow

\* A request never takes back a payment that others may be adding to.
Grows(d, e) == \A i \in Invoices : /\ e.received[i] >= d.received[i]
                                   /\ e.remitted[i] >= d.remitted[i]

TInv == TypeOK /\ \A c \in Clerks : request[c] # Idle =>
                      Grows(request[c].before, request[c].after)

\* What an operation may leave for its commit.
Legal(d, e) == e \in DbType /\ Grows(d, e)

\* Invoices that have received nothing may go, with what they own.
LEMMA RemoveType ==
    ASSUME NEW d \in DbType, NEW gone,
           \A i \in gone : d.received[i] = 0 /\ d.remitted[i] = 0
    PROVE  LET e == RemoveInvoices(d, gone) IN
           /\ Legal(d, e)
           /\ e.po = d.po /\ e.note = d.note /\ e.drift = d.drift
           /\ \A i \in Invoices :
                /\ e.invoice[i] = IF i \in gone THEN DeletedInvoice ELSE d.invoice[i]
                /\ e.tds[i] = IF i \in gone THEN NoTds ELSE d.tds[i]
                /\ e.received[i] = d.received[i] /\ e.remitted[i] = d.remitted[i]
<1> DEFINE inv == [i \in Invoices |-> IF i \in gone THEN DeletedInvoice ELSE d.invoice[i]]
           tds == [i \in Invoices |-> IF i \in gone THEN NoTds ELSE d.tds[i]]
           rcv == [i \in Invoices |-> IF i \in gone THEN 0 ELSE d.received[i]]
           rem == [i \in Invoices |-> IF i \in gone THEN 0 ELSE d.remitted[i]]
           e == RemoveInvoices(d, gone)
<1>1. e = [po |-> d.po, invoice |-> inv, tds |-> tds, note |-> d.note,
           received |-> rcv, remitted |-> rem, drift |-> d.drift]
  <2> HIDE DEF inv, tds, rcv, rem
  <2>1. e = [d EXCEPT !.invoice = inv, !.tds = tds, !.received = rcv,
                      !.remitted = rem]
    BY DEF RemoveInvoices, inv, tds, rcv, rem
  <2> HIDE DEF e
  <2> QED BY <2>1 DEF DbType
<1>2. /\ inv \in [Invoices -> InvoiceRow] /\ tds \in [Invoices -> TdsRow]
      /\ rcv \in [Invoices -> Nat] /\ rem \in [Invoices -> Nat]
  BY RowTypes DEF DbType
<1>3. \A i \in Invoices : rcv[i] = d.received[i] /\ rem[i] = d.remitted[i]
  OBVIOUS
<1>4. \A i \in Invoices :
        /\ inv[i] = IF i \in gone THEN DeletedInvoice ELSE d.invoice[i]
        /\ tds[i] = IF i \in gone THEN NoTds ELSE d.tds[i]
  OBVIOUS
<1> HIDE DEF e, inv, tds, rcv, rem
<1>5. e \in DbType
  BY <1>1, <1>2 DEF DbType
<1>6. /\ e.po = d.po /\ e.note = d.note /\ e.drift = d.drift
      /\ e.invoice = inv /\ e.tds = tds /\ e.received = rcv /\ e.remitted = rem
  BY <1>1
<1>7. Grows(d, e)
  BY <1>2, <1>3, <1>6 DEF Grows
<1> QED BY <1>3, <1>4, <1>5, <1>6, <1>7 DEF Legal, e

LEMMA TypePo ==
    ASSUME TypeOK, NEW p \in Pos, NEW row \in PoRow
    PROVE  Legal(db, [db EXCEPT !.po[p] = row])
BY DEF TypeOK, Legal, Grows, DbType

LEMMA TypePoRequest ==
    ASSUME TypeOK, NEW c \in Clerks, PoRequest(c)
    PROVE  Legal(db, request'[c].after) /\ request'[c].before = db
<1> DEFINE served(e) == request' = [request EXCEPT ![c] = [before |-> db, after |-> e]]
<1>1. ASSUME NEW p \in Pos, NEW t \in Totals, CreatePo(c, p, t) \/ UpdatePo(c, p, t)
      PROVE  \E row \in PoRow : served([db EXCEPT !.po[p] = row])
  <2>1. t \in Nat
    BY ConstantsAssumption
  <2>2. [status |-> "Active", total |-> t, consumed |-> 0, balance |-> t] \in PoRow
    BY <2>1 DEF PoRow
  <2>3. ApplyPoConsumption([db.po[p] EXCEPT !.total = t], 0) \in PoRow
    <3>1. [db.po[p] EXCEPT !.total = t] \in PoRow
      BY <2>1 DEF TypeOK, DbType, PoRow
    <3> QED BY <3>1, ConsumptionType
  <2> QED BY <1>1, <2>2, <2>3 DEF CreatePo, UpdatePo, Serve
<1>2. ASSUME NEW p \in Pos, CancelPo(c, p)
      PROVE  \E row \in PoRow : served([db EXCEPT !.po[p] = row])
  <2>1. [db.po[p] EXCEPT !.status = "Cancelled"] \in PoRow
    BY DEF TypeOK, DbType, PoRow
  <2> QED BY <1>2, <2>1 DEF CancelPo, Serve
<1>3. ASSUME NEW p \in Pos, DeletePo(c, p)
      PROVE  \E e : served(e) /\ Legal(db, e)
  <2> DEFINE gone == InvoicesOf(db, p)
             e == [RemoveInvoices(db, gone) EXCEPT !.po[p] = DeletedPo]
  <2>1. served(e)
    BY <1>3 DEF DeletePo, Serve
  <2>2. \A i \in gone : db.received[i] = 0 /\ db.remitted[i] = 0
    BY <1>3 DEF DeletePo, InvoiceDeletable
  <2> HIDE DEF gone
  <2>3. Legal(db, RemoveInvoices(db, gone))
    BY <2>2, RemoveType DEF TypeOK
  <2> DEFINE r == RemoveInvoices(db, gone)
  <2> HIDE DEF r
  <2>4. Legal(db, [r EXCEPT !.po[p] = DeletedPo])
    BY <2>3, RowTypes DEF r, Legal, Grows, DbType
  <2>5. Legal(db, e)
    BY <2>4 DEF r
  <2> QED BY <2>1, <2>5
<1>4. \E e : served(e) /\ Legal(db, e)
  BY <1>1, <1>2, <1>3, TypePo DEF PoRequest
<1> QED BY <1>4 DEF TypeOK

\* An operation that rewrites one row, and perhaps adds to one sum.
LEMMA TypeInvoice ==
    ASSUME NEW d \in DbType, NEW i, NEW row \in InvoiceRow, NEW n \in Nat
    PROVE  /\ Legal(d, [d EXCEPT !.invoice[i] = row])
           /\ Legal(d, [d EXCEPT !.invoice[i] = row, !.received[i] = @ + n])
<1> DEFINE sum == [d.received EXCEPT ![i] = @ + n]
<1>1. [d.invoice EXCEPT ![i] = row] \in [Invoices -> InvoiceRow]
  BY DEF DbType
<1>2. \A j \in Invoices : d.received[j] \in Nat /\ d.received[j] + n \in Nat
  BY DEF DbType
<1>3. sum \in [Invoices -> Nat]
  BY <1>2 DEF DbType
<1>4. \A j \in Invoices : sum[j] >= d.received[j]
  BY <1>2 DEF DbType
<1> HIDE DEF sum
<1>5. Legal(d, [d EXCEPT !.invoice[i] = row])
  BY <1>1 DEF DbType, Legal, Grows
<1>6. Legal(d, [d EXCEPT !.invoice[i] = row, !.received = sum])
  <2> DEFINE e == [d EXCEPT !.invoice[i] = row, !.received = sum]
  <2>1. e \in DbType
    BY <1>1, <1>3 DEF DbType
  <2>2. \A j \in Invoices : d.received[j] \in Nat /\ d.remitted[j] \in Nat
    BY DEF DbType
  <2>3. Grows(d, e)
    BY <1>4, <2>2 DEF DbType, Grows
  <2> QED BY <2>1, <2>3 DEF Legal
<1> QED BY <1>5, <1>6 DEF sum

LEMMA TypeTds ==
    ASSUME NEW d \in DbType, NEW i, NEW row \in TdsRow, NEW n \in Nat
    PROVE  /\ Legal(d, [d EXCEPT !.tds[i] = row])
           /\ Legal(d, [d EXCEPT !.tds[i] = row, !.remitted[i] = @ + n])
<1> DEFINE sum == [d.remitted EXCEPT ![i] = @ + n]
<1>1. [d.tds EXCEPT ![i] = row] \in [Invoices -> TdsRow]
  BY DEF DbType
<1>2. \A j \in Invoices : d.remitted[j] \in Nat /\ d.remitted[j] + n \in Nat
  BY DEF DbType
<1>3. sum \in [Invoices -> Nat]
  BY <1>2 DEF DbType
<1>4. \A j \in Invoices : sum[j] >= d.remitted[j]
  BY <1>2 DEF DbType
<1> HIDE DEF sum
<1>5. Legal(d, [d EXCEPT !.tds[i] = row])
  BY <1>1 DEF DbType, Legal, Grows
<1>6. Legal(d, [d EXCEPT !.tds[i] = row, !.remitted = sum])
  <2> DEFINE e == [d EXCEPT !.tds[i] = row, !.remitted = sum]
  <2>1. e \in DbType
    BY <1>1, <1>3 DEF DbType
  <2>2. \A j \in Invoices : d.received[j] \in Nat /\ d.remitted[j] \in Nat
    BY DEF DbType
  <2>3. Grows(d, e)
    BY <1>4, <2>2 DEF DbType, Grows
  <2> QED BY <2>1, <2>3 DEF Legal
<1> QED BY <1>5, <1>6 DEF sum

LEMMA TypeNote ==
    ASSUME NEW d \in DbType, NEW n, NEW row \in NoteRow
    PROVE  Legal(d, [d EXCEPT !.note[n] = row])
BY DEF Legal, Grows, DbType

LEMMA CascadeType ==
    ASSUME NEW d \in DbType, NEW i \in Invoices,
           d.received[i] = 0, d.remitted[i] = 0
    PROVE  Legal(d, Cascade(d, i))
<1> DEFINE r == RemoveInvoices(d, {i})
           row == d.invoice[i]
<1>1. Legal(d, r)
  BY RemoveType
<1>2. -row.grand \in Int
  BY DEF DbType, InvoiceRow
<1> HIDE DEF r
<1>3. CASE row.po = NoPo
  BY <1>1, <1>3 DEF Cascade, r
<1>4. CASE row.po # NoPo
  <2>1. ApplyPoConsumption(r.po[row.po], -row.grand) \in PoRow \/ row.po \notin Pos
    BY <1>1, <1>2, ConsumptionType DEF Legal, DbType
  <2>2. Cascade(d, i) = [r EXCEPT !.po[row.po] =
                            ApplyPoConsumption(r.po[row.po], -row.grand)]
    BY <1>4 DEF Cascade, r
  <2> DEFINE v == ApplyPoConsumption(r.po[row.po], -row.grand)
  <2> HIDE DEF v, row
  <2>3. Legal(d, [r EXCEPT !.po[row.po] = v])
    <3>1. [r.po EXCEPT ![row.po] = v] \in [Pos -> PoRow]
      BY <1>1, <2>1 DEF Legal, DbType, v
    <3> QED BY <1>1, <3>1 DEF Legal, Grows, DbType
  <2> QED BY <2>2, <2>3 DEF v
<1> QED BY <1>3, <1>4

LEMMA TypeInvoiceRequest ==
    ASSUME TypeOK, NEW c \in Clerks, InvoiceRequest(c)
    PROVE  Legal(db, request'[c].after) /\ request'[c].before = db
<1> DEFINE served(e) == request' = [request EXCEPT ![c] = [before |-> db, after |-> e]]
<1> USE DEF TypeOK
<1>1. ASSUME NEW i \in Invoices, NEW p \in Pos \cup {NoPo}, NEW sub \in SubTotals,
             NEW tax \in {0, Tax}, CreateInvoice(c, i, p, sub, sub + tax)
      PROVE  \E e : served(e) /\ Legal(db, e)
  <2> DEFINE row == [status |-> "Unpaid", po |-> p, sub |-> sub,
                     grand |-> sub + tax, paid |-> 0, balance |-> sub + tax]
             raised == [db EXCEPT !.invoice[i] = row]
  <2>1. row \in InvoiceRow /\ sub + tax \in Int
    BY ConstantsAssumption DEF InvoiceRow
  <2>2. served(IF p = NoPo THEN raised
               ELSE [raised EXCEPT !.po[p] = ApplyPoConsumption(@, sub + tax)])
    BY <1>1 DEF CreateInvoice, Serve
  <2> HIDE DEF row
  <2>3. Legal(db, raised)
    BY <2>1, TypeInvoice
  <2> HIDE DEF raised
  <2>4. ASSUME p # NoPo
        PROVE  Legal(db, [raised EXCEPT !.po[p] = ApplyPoConsumption(@, sub + tax)])
    <3>1. ApplyPoConsumption(raised.po[p], sub + tax) \in PoRow
      BY <2>1, <2>3, <2>4, ConsumptionType DEF Legal, DbType
    <3> DEFINE v == ApplyPoConsumption(raised.po[p], sub + tax)
    <3>2. Legal(db, [raised EXCEPT !.po[p] = v])
      <4> HIDE DEF v
      <4> QED BY <2>3, <3>1 DEF Legal, Grows, DbType, v
    <3> QED BY <3>2
  <2> QED BY <2>2, <2>3, <2>4
<1>2. ASSUME NEW i \in Invoices, NEW tax \in {0, Tax},
             UpdateInvoice(c, i, db.invoice[i].sub + tax)
      PROVE  \E e : served(e) /\ Legal(db, e)
  <2> DEFINE row == db.invoice[i]
             grand == row.sub + tax
             v == ApplyInvoicePayment([row EXCEPT !.grand = grand], 0)
             rerated == [db EXCEPT !.invoice[i] = v]
  <2>1. served(IF row.po = NoPo THEN rerated
               ELSE [rerated EXCEPT !.drift[row.po] = @ + grand - row.grand])
    BY <1>2 DEF UpdateInvoice, Serve
  <2>2. grand \in Nat /\ row.grand \in Nat /\ [row EXCEPT !.grand = grand] \in InvoiceRow
    <3>1. row \in InvoiceRow
      BY DEF DbType
    <3> HIDE DEF row
    <3>2. grand \in Nat /\ row.grand \in Nat
      BY <3>1, ConstantsAssumption DEF InvoiceRow
    <3> HIDE DEF grand
    <3> QED BY <3>1, <3>2 DEF InvoiceRow
  <2>3. v \in InvoiceRow
    BY <2>2, InvoicePaymentType
  <2> HIDE DEF v, grand, row
  <2>4. Legal(db, rerated)
    BY <2>3, TypeInvoice
  <2> HIDE DEF rerated
  <2>5. Legal(db, [rerated EXCEPT !.drift[row.po] = @ + grand - row.grand])
    <3>0. \A q \in Pos : rerated.drift[q] + grand - row.grand \in Int
      BY <2>2, <2>4 DEF Legal, DbType
    <3>1. [rerated.drift EXCEPT ![row.po] = @ + grand - row.grand] \in [Pos -> Int]
      BY <2>4, <3>0 DEF Legal, DbType
    <3> QED BY <2>4, <3>1 DEF Legal, Grows, DbType
  <2> QED BY <2>1, <2>4, <2>5
<1>3. ASSUME NEW i \in Invoices, NEW a \in Amounts, RecordPayment(c, i, a)
      PROVE  \E e : served(e) /\ Legal(db, e)
  <2>1. a \in Nat /\ db.invoice[i] \in InvoiceRow
    BY ConstantsAssumption DEF DbType
  <2>2. ApplyInvoicePayment(db.invoice[i], a) \in InvoiceRow
    BY <2>1, InvoicePaymentType
  <2>3. served([db EXCEPT !.invoice[i] = ApplyInvoicePayment(db.invoice[i], a),
                          !.received[i] = @ + a])
    BY <1>3 DEF RecordPayment, Serve
  <2> QED BY <2>1, <2>2, <2>3, TypeInvoice
<1>4. ASSUME NEW i \in Invoices, NEW a \in TdsAmounts,
             RecordTds(c, i, a) \/ TdsPayment(c, i, a)
      PROVE  \E e : served(e) /\ Legal(db, e)
  <2>1. a \in Nat /\ db.tds[i] \in TdsRow
    BY ConstantsAssumption DEF DbType
  <2>2. /\ [status |-> "Pending", amount |-> a, paid |-> 0, balance |-> a] \in TdsRow
        /\ ApplyTdsPayment(db.tds[i], a) \in TdsRow
    BY <2>1, TdsPaymentType DEF TdsRow
  <2>3. \/ served([db EXCEPT !.tds[i] = [status |-> "Pending", amount |-> a,
                                         paid |-> 0, balance |-> a]])
        \/ served([db EXCEPT !.tds[i] = ApplyTdsPayment(db.tds[i], a),
                             !.remitted[i] = @ + a])
    BY <1>4 DEF RecordTds, TdsPayment, Serve
  <2> QED BY <2>1, <2>2, <2>3, TypeTds
<1>5. ASSUME NEW i \in Invoices, DeleteTds(c, i) \/ DeleteInvoice(c, i)
      PROVE  \E e : served(e) /\ Legal(db, e)
  <2>1. \/ served([db EXCEPT !.tds[i] = NoTds])
        \/ served(Cascade(db, i)) /\ InvoiceDeletable(i)
    BY <1>5 DEF DeleteTds, DeleteInvoice, Serve
  <2> QED BY <2>1, RowTypes, TypeTds, CascadeType DEF InvoiceDeletable
<1>6. \E e : served(e) /\ Legal(db, e)
  BY <1>1, <1>2, <1>3, <1>4, <1>5 DEF InvoiceRequest
<1> QED BY <1>6

LEMMA TypeNoteRequest ==
    ASSUME TypeOK, NEW c \in Clerks, NoteRequest(c)
    PROVE  Legal(db, request'[c].after) /\ request'[c].before = db
<1> DEFINE served(e) == request' = [request EXCEPT ![c] = [before |-> db, after |-> e]]
<1> USE DEF TypeOK
<1>1. ASSUME NEW n \in Notes, NEW i \in Invoices, NEW a \in Amounts,
             CreateCreditNote(c, n, i, a)
      PROVE  \E e : served(e) /\ Legal(db, e)
  <2>1. [status |-> "Draft", invoice |-> i, total |-> a, adjusts |-> FALSE] \in NoteRow
    BY ConstantsAssumption DEF NoteRow
  <2> QED BY <1>1, <2>1, TypeNote DEF CreateCreditNote, Serve
<1>2. ASSUME NEW n \in Notes, ApproveCreditNote(c, n) \/ CancelCreditNote(c, n)
      PROVE  \E e : served(e) /\ Legal(db, e)
  <2>1. /\ [db.note[n] EXCEPT !.status = "Approved"] \in NoteRow
        /\ [db.note[n] EXCEPT !.status = "Cancelled"] \in NoteRow
    BY DEF DbType, NoteRow
  <2>2. \E row \in NoteRow : served([db EXCEPT !.note[n] = row])
    BY <1>2, <2>1 DEF ApproveCreditNote, CancelCreditNote, Serve
  <2> QED BY <2>2, TypeNote
<1>3. ASSUME NEW n \in Notes, NEW adjusts \in BOOLEAN, SettleCreditNote(c, n, adjusts)
      PROVE  \E e : served(e) /\ Legal(db, e)
  <2> DEFINE row == [db.note[n] EXCEPT !.status = "Settled", !.adjusts = adjusts]
             settled == [db EXCEPT !.note[n] = row]
             i == db.note[n].invoice
             v == Credited(settled.invoice[i], db.note[n].total)
  <2>1. row \in NoteRow
    <3>1. db.note[n] \in NoteRow
      BY DEF DbType
    <3> QED BY <3>1 DEF NoteRow
  <2>2. served(IF adjusts THEN [settled EXCEPT !.invoice[i] = v] ELSE settled)
    BY <1>3 DEF SettleCreditNote, Serve
  <2> HIDE DEF row
  <2>3. Legal(db, settled)
    BY <2>1, TypeNote
  <2> HIDE DEF settled
  <2>4. v \in InvoiceRow \/ i \notin Invoices
    BY <2>3, CreditedType DEF Legal, DbType, NoteRow
  <2> HIDE DEF v, i
  <2>5. Legal(db, [settled EXCEPT !.invoice[i] = v])
    <3>1. [settled.invoice EXCEPT ![i] = v] \in [Invoices -> InvoiceRow]
      BY <2>3, <2>4 DEF Legal, DbType
    <3> QED BY <2>3, <3>1 DEF Legal, Grows, DbType
  <2> QED BY <2>2, <2>3, <2>5
<1>4. \E e : served(e) /\ Legal(db, e)
  BY <1>1, <1>2, <1>3 DEF NoteRequest
<1> QED BY <1>4

LEMMA ColumnsTypes ==
    /\ \A a, b, e \in PoRow : Columns(a, b, e) \in PoRow
    /\ \A a, b, e \in InvoiceRow : Columns(a, b, e) \in InvoiceRow
    /\ \A a, b, e \in TdsRow : Columns(a, b, e) \in TdsRow
    /\ \A a, b, e \in NoteRow : Columns(a, b, e) \in NoteRow
<1>1. \A a, b, e \in PoRow : Columns(a, b, e) \in PoRow
  BY DEF Columns, PoRow
<1>2. \A a, b, e \in InvoiceRow : Columns(a, b, e) \in InvoiceRow
  BY DEF Columns, InvoiceRow
<1>3. \A a, b, e \in TdsRow : Columns(a, b, e) \in TdsRow
  BY DEF Columns, TdsRow
<1>4. \A a, b, e \in NoteRow : Columns(a, b, e) \in NoteRow
  BY DEF Columns, NoteRow
<1> QED BY <1>1, <1>2, <1>3, <1>4

LEMMA MergeType ==
    ASSUME NEW d \in DbType, NEW b \in DbType, NEW e \in DbType, Grows(b, e)
    PROVE  Merge(d, b, e) \in DbType
<1>1. Rows(d.po, b.po, e.po) \in [Pos -> PoRow]
  BY ColumnsTypes DEF DbType, Rows
<1>2. Rows(d.invoice, b.invoice, e.invoice) \in [Invoices -> InvoiceRow]
  BY ColumnsTypes DEF DbType, Rows
<1>3. Rows(d.tds, b.tds, e.tds) \in [Invoices -> TdsRow]
  BY ColumnsTypes DEF DbType, Rows
<1>4. Rows(d.note, b.note, e.note) \in [Notes -> NoteRow]
  BY ColumnsTypes DEF DbType, Rows
<1>5. /\ Sums(d.received, b.received, e.received) \in [Invoices -> Nat]
      /\ Sums(d.remitted, b.remitted, e.remitted) \in [Invoices -> Nat]
  <2>1. \A i \in Invoices : /\ d.received[i] + e.received[i] - b.received[i] \in Nat
                            /\ d.remitted[i] + e.remitted[i] - b.remitted[i] \in Nat
    BY DEF DbType, Grows
  <2>2. DOMAIN e.received = Invoices /\ DOMAIN e.remitted = Invoices
    BY DEF DbType
  <2> QED BY <2>1, <2>2 DEF Sums
<1>6. Sums(d.drift, b.drift, e.drift) \in [Pos -> Int]
  BY DEF DbType, Sums
<1> QED BY <1>1, <1>2, <1>3, <1>4, <1>5, <1>6 DEF Merge, DbType

LEMMA TInvInit == Init => TInv
<1> SUFFICES ASSUME Init PROVE TInv
  OBVIOUS
<1>1. db \in DbType
  BY RowTypes DEF Init, DbType
<1> QED BY <1>1 DEF Init, TInv, TypeOK

\* A request that is served changes nothing but the clerk's own slot.
LEMMA ServedSlot ==
    ASSUME NEW c \in Clerks, PoRequest(c) \/ InvoiceRequest(c) \/ NoteRequest(c)
    PROVE  /\ UNCHANGED db /\ request[c] = Idle
           /\ \E e : request' = [request EXCEPT ![c] = [before |-> db, after |-> e]]
<1>1. PICK op, e : Serve(c, op, e)
  <2>1. CASE PoRequest(c)
    BY <2>1 DEF PoRequest, CreatePo, UpdatePo, CancelPo, DeletePo
  <2>2. CASE InvoiceRequest(c)
    <3>1. \A i, p, sub, grand : CreateInvoice(c, i, p, sub, grand)
                                  => \E op, e : Serve(c, op, e)
      BY DEF CreateInvoice
    <3>2. \A i, grand : UpdateInvoice(c, i, grand) => \E op, e : Serve(c, op, e)
      BY DEF UpdateInvoice
    <3>3. \A i, a : RecordPayment(c, i, a) \/ RecordTds(c, i, a) \/ TdsPayment(c, i, a)
                      => \E op, e : Serve(c, op, e)
      BY DEF RecordPayment, RecordTds, TdsPayment
    <3>4. \A i : DeleteTds(c, i) \/ DeleteInvoice(c, i) => \E op, e : Serve(c, op, e)
      BY DEF DeleteTds, DeleteInvoice
    <3> QED BY <2>2, <3>1, <3>2, <3>3, <3>4 DEF InvoiceRequest
  <2>3. CASE NoteRequest(c)
    BY <2>3 DEF NoteRequest, CreateCreditNote, ApproveCreditNote,
                CancelCreditNote, SettleCreditNote
  <2> QED BY <2>1, <2>2, <2>3
<1> QED BY <1>1 DEF Serve

LEMMA TInvStep == TInv /\ [Next]_vars => TInv'
<1> SUFFICES ASSUME TInv, [Next]_vars PROVE TInv'
  OBVIOUS
<1>1. TypeOK
  BY DEF TInv
<1>2. ASSUME NEW c \in Clerks, PoRequest(c) \/ InvoiceRequest(c) \/ NoteRequest(c)
      PROVE  TInv'
  <2>1. PICK e : request' = [request EXCEPT ![c] = [before |-> db, after |-> e]]
    BY <1>2, ServedSlot
  <2>2. Legal(db, e)
    <3>1. Legal(db, request'[c].after)
      BY <1>1, <1>2, TypePoRequest, TypeInvoiceRequest, TypeNoteRequest
    <3> QED BY <1>1, <2>1, <3>1 DEF TypeOK
  <2>3. UNCHANGED db
    BY <1>2, ServedSlot
  <2>4. TypeOK'
    BY <1>1, <2>1, <2>2, <2>3 DEF TypeOK, Legal
  <2> QED BY <1>1, <2>1, <2>2, <2>4 DEF TInv, TypeOK, Legal
<1>3. ASSUME NEW c \in Clerks, Commit(c)
      PROVE  TInv'
  <2>1. /\ request[c].before \in DbType /\ request[c].after \in DbType
        /\ Grows(request[c].before, request[c].after)
    BY <1>1, <1>3 DEF Commit, TInv, TypeOK
  <2>2. db' \in DbType
    BY <1>1, <1>3, <2>1, MergeType DEF Commit, Written, TypeOK
  <2>3. request' = [request EXCEPT ![c] = Idle]
    BY <1>3 DEF Commit
  <2> QED BY <1>1, <2>2, <2>3 DEF TInv, TypeOK
<1>4. ASSUME NEW c \in Clerks, Rollback(c)
      PROVE  TInv'
  BY <1>1, <1>4 DEF Rollback, TInv, TypeOK
<1>5. CASE UNCHANGED vars
  BY <1>5 DEF vars, TInv, TypeOK
<1> QED BY <1>2, <1>3, <1>4, <1>5 DEF Next

\* Whatever requests overlap, every column keeps its type: no sum, amount or
\* balance a clerk writes over another's goes below zero.
THEOREM TypeCorrect == Spec => []TypeOK
<1>1. TInv => TypeOK
  BY DEF TInv
<1> QED BY <1>1, TInvInit, TInvStep, PTL DEF Spec

(***************************************************************************)
(* One clerk at a time: what each row says of itself and of its payments.  *)
(***************************************************************************)
PoGood(row) == Live(row) =>
    /\ row.balance = NonNegative(row.total - row.consumed)
    /\ row.status = "Exhausted" => row.balance = 0
    /\ row.status = "Active" => row.balance > 0

InvoiceGood(row, received) == Live(row) =>
    /\ row.paid = received
    /\ row.status = "Paid" <=> row.balance = 0
    /\ row.status = "Unpaid" => received = 0
    /\ row.balance <= NonNegative(row.grand - row.paid)

TdsGood(row, remitted) == Live(row) => row.paid = remitted

CancelledBare(d) == \A p \in Pos, i \in Invoices :
    d.po[p].status = "Cancelled" /\ Live(d.invoice[i]) => d.invoice[i].po # p

Sound(d) == /\ \A p \in Pos : PoGood(d.po[p])
            /\ \A i \in Invoices : InvoiceGood(d.invoice[i], d.received[i])
            /\ \A i \in Invoices : TdsGood(d.tds[i], d.remitted[i])
            /\ CancelledBare(d)

\* What one request may do to the books it found.
Change(d, e) ==
    /\ \A i \in Invoices : e.received[i] > d.received[i] =>
            e.received[i] <= e.invoice[i].grand
    /\ \A p \in Pos : d.po[p].status = "Cancelled" =>
            e.po[p].status \in {"Cancelled", "Deleted"}

Good(d, e) == Sound(e) /\ Change(d, e)

LEMMA DeletedRows ==
    /\ ~Live(NoPoRow) /\ ~Live(DeletedPo) /\ ~Live(NoInvoiceRow)
    /\ ~Live(DeletedInvoice) /\ ~Live(NoTds)
    /\ NoPoRow.status # "Cancelled" /\ DeletedPo.status = "Deleted"
BY DEF Live, NoPoRow, DeletedPo, NoInvoiceRow, DeletedInvoice, NoTds

LEMMA PaymentStatusIs ==
    ASSUME NEW u, NEW m \in Nat, NEW n \in Int
    PROVE  /\ n <= 0 => PaymentStatus(u, m, n) = "Paid"
           /\ n > 0 /\ m > 0 => PaymentStatus(u, m, n) = "Partially_Paid"
           /\ n > 0 /\ m = 0 => PaymentStatus(u, m, n) = u
BY DEF PaymentStatus

LEMMA ConsumptionGood ==
    ASSUME NEW row \in PoRow, NEW delta \in Int
    PROVE  /\ PoGood(ApplyPoConsumption(row, delta))
           /\ ApplyPoConsumption(row, delta).status \in {"Active", "Exhausted"}
<1> DEFINE left == row.total - (row.consumed + delta)
           new == ApplyPoConsumption(row, delta)
<1>1. left \in Int
  BY DEF PoRow
<1>2. /\ new.total = row.total /\ new.consumed = row.consumed + delta
      /\ new.balance = NonNegative(left)
      /\ new.status = IF left <= 0 THEN "Exhausted" ELSE "Active"
  BY DEF ApplyPoConsumption, PoRow
<1> HIDE DEF new
<1>3. left = new.total - new.consumed
  BY <1>2
<1> HIDE DEF left
<1> QED BY <1>1, <1>2, <1>3, NonNegativeType DEF PoGood, new

LEMMA InvoicePaymentGood ==
    ASSUME NEW row \in InvoiceRow, NEW a \in Nat, NEW received \in Nat,
           row.paid = received
    PROVE  /\ InvoiceGood(ApplyInvoicePayment(row, a), received + a)
           /\ ApplyInvoicePayment(row, a).po = row.po
           /\ ApplyInvoicePayment(row, a).grand = row.grand
<1> DEFINE owed == row.grand - (row.paid + a)
           new == ApplyInvoicePayment(row, a)
<1>1. owed \in Int /\ row.paid + a \in Nat
  BY DEF InvoiceRow
<1>2. /\ new.grand = row.grand /\ new.paid = row.paid + a /\ new.po = row.po
      /\ new.balance = NonNegative(owed)
      /\ new.status = PaymentStatus("Unpaid", row.paid + a, owed)
  BY DEF ApplyInvoicePayment, InvoiceRow
<1> HIDE DEF new
<1>3. owed = new.grand - new.paid
  BY <1>2
<1> HIDE DEF owed
<1>4. CASE owed <= 0
  BY <1>1, <1>2, <1>3, <1>4, NonNegativeType, PaymentStatusIs DEF InvoiceGood, new
<1>5. CASE owed > 0
  BY <1>1, <1>2, <1>3, <1>5, NonNegativeType, PaymentStatusIs DEF InvoiceGood, new
<1> QED BY <1>1, <1>4, <1>5

LEMMA CreditedGood ==
    ASSUME NEW row \in InvoiceRow, NEW n \in Nat, NEW received \in Nat,
           Live(row), InvoiceGood(row, received)
    PROVE  /\ InvoiceGood(Credited(row, n), received)
           /\ Credited(row, n).po = row.po
<1> DEFINE left == NonNegative(row.balance - n)
           new == Credited(row, n)
<1>1. left \in Nat /\ left <= row.balance
  <2>1. row.balance \in Nat
    BY DEF InvoiceRow
  <2>2. row.balance - n \in Int
    BY <2>1
  <2> QED BY <2>1, <2>2, NonNegativeType
<1>2. /\ new.paid = row.paid /\ new.grand = row.grand /\ new.po = row.po
      /\ new.balance = left
      /\ new.status = IF left = 0 THEN "Paid" ELSE row.status
  BY DEF Credited, InvoiceRow
<1>3. row.balance \in Nat /\ NonNegative(row.grand - row.paid) \in Nat
  BY NonNegativeType DEF InvoiceRow
<1> HIDE DEF new, left
<1> QED BY <1>1, <1>2, <1>3 DEF InvoiceGood, Live, new

\* Only purchase orders change.
LEMMA GoodPo ==
    ASSUME NEW d \in DbType, Sound(d), NEW p \in Pos, NEW row \in PoRow, PoGood(row),
           row.status = "Cancelled" => InvoicesOf(d, p) = {},
           d.po[p].status = "Cancelled" => row.status \in {"Cancelled", "Deleted"}
    PROVE  Good(d, [d EXCEPT !.po[p] = row])
<1> DEFINE e == [d EXCEPT !.po[p] = row]
<1>1. /\ e.invoice = d.invoice /\ e.tds = d.tds /\ e.received = d.received
      /\ e.remitted = d.remitted
      /\ \A q \in Pos : e.po[q] = IF q = p THEN row ELSE d.po[q]
  BY DEF DbType
<1>2. \A i \in Invoices : d.received[i] \in Nat
  BY DEF DbType
<1> HIDE DEF e
<1>3. CancelledBare(e)
  BY <1>1 DEF CancelledBare, Sound, InvoicesOf
<1>4. Sound(e)
  BY <1>1, <1>3 DEF Sound
<1>5. Change(d, e)
  BY <1>1, <1>2 DEF Change
<1> QED BY <1>4, <1>5 DEF Good, e

\* Invoices that go take their order's claim with them.
LEMMA GoodRemove ==
    ASSUME NEW d \in DbType, Sound(d), NEW gone,
           \A i \in gone : d.received[i] = 0 /\ d.remitted[i] = 0
    PROVE  Good(d, RemoveInvoices(d, gone))
<1> DEFINE e == RemoveInvoices(d, gone)
<1>1. /\ e.po = d.po
      /\ \A i \in Invoices :
           /\ e.invoice[i] = IF i \in gone THEN DeletedInvoice ELSE d.invoice[i]
           /\ e.tds[i] = IF i \in gone THEN NoTds ELSE d.tds[i]
           /\ e.received[i] = d.received[i] /\ e.remitted[i] = d.remitted[i]
  BY RemoveType
<1>2. \A i \in Invoices : d.received[i] \in Nat
  BY DEF DbType
<1> HIDE DEF e
<1>3. Sound(e)
  BY <1>1, DeletedRows DEF Sound, InvoiceGood, TdsGood, CancelledBare
<1>4. Change(d, e)
  BY <1>1, <1>2 DEF Change
<1> QED BY <1>3, <1>4 DEF Good, e

\* One invoice changes, and what it has received.
LEMMA GoodInvoice ==
    ASSUME NEW d \in DbType, Sound(d), NEW e, NEW i \in Invoices, NEW row,
           NEW n \in Nat,
           e.po = d.po, e.tds = d.tds, e.remitted = d.remitted,
           e.invoice = [d.invoice EXCEPT ![i] = row],
           e.received = [d.received EXCEPT ![i] = n],
           InvoiceGood(row, n), n > d.received[i] => n <= row.grand,
           \/ Live(d.invoice[i]) /\ row.po = d.invoice[i].po
           \/ \A p \in Pos : d.po[p].status = "Cancelled" => row.po # p
    PROVE  Good(d, e)
<1>1. /\ \A j \in Invoices : e.invoice[j] = IF j = i THEN row ELSE d.invoice[j]
      /\ \A j \in Invoices : e.received[j] = IF j = i THEN n ELSE d.received[j]
      /\ \A j \in Invoices : d.received[j] \in Nat
  BY DEF DbType
<1>2. CancelledBare(e)
  BY <1>1 DEF Sound, CancelledBare
<1>3. Sound(e)
  BY <1>1, <1>2 DEF Sound
<1>4. Change(d, e)
  BY <1>1 DEF Change
<1> QED BY <1>3, <1>4 DEF Good

LEMMA GoodTds ==
    ASSUME NEW d \in DbType, Sound(d), NEW e, NEW i \in Invoices, NEW row,
           NEW n \in Nat,
           e.po = d.po, e.invoice = d.invoice, e.received = d.received,
           e.tds = [d.tds EXCEPT ![i] = row],
           e.remitted = [d.remitted EXCEPT ![i] = n], TdsGood(row, n)
    PROVE  Good(d, e)
<1>1. /\ \A j \in Invoices : e.tds[j] = IF j = i THEN row ELSE d.tds[j]
      /\ \A j \in Invoices : e.remitted[j] = IF j = i THEN n ELSE d.remitted[j]
      /\ \A j \in Invoices : d.received[j] \in Nat
  BY DEF DbType
<1> QED BY <1>1 DEF Good, Sound, CancelledBare, Change

\* Nothing that the books agree about changes.
LEMMA GoodSame ==
    ASSUME NEW d \in DbType, Sound(d), NEW e,
           e.po = d.po, e.invoice = d.invoice, e.tds = d.tds,
           e.received = d.received, e.remitted = d.remitted
    PROVE  Good(d, e)
<1>1. \A j \in Invoices : d.received[j] \in Nat
  BY DEF DbType
<1> QED BY <1>1 DEF Good, Sound, CancelledBare, Change

LEMMA GoodPoRequest ==
    ASSUME TypeOK, Sound(db), NEW c \in Clerks, PoRequest(c)
    PROVE  Good(db, request'[c].after)
<1> DEFINE served(e) == request' = [request EXCEPT ![c] = [before |-> db, after |-> e]]
<1> USE DEF TypeOK
<1>1. ASSUME NEW p \in Pos, NEW t \in Totals, CreatePo(c, p, t)
      PROVE  \E e : served(e) /\ Good(db, e)
  <2> DEFINE row == [status |-> "Active", total |-> t, consumed |-> 0, balance |-> t]
  <2>1. t \in Nat /\ t > 0
    BY ConstantsAssumption
  <2>2. row \in PoRow /\ PoGood(row) /\ row.status # "Cancelled"
    BY <2>1 DEF PoRow, PoGood, NonNegative
  <2>3. served([db EXCEPT !.po[p] = row]) /\ db.po[p].status = "Absent"
    BY <1>1 DEF CreatePo, Serve, FreshPo
  <2> HIDE DEF row
  <2> QED BY <2>2, <2>3, GoodPo
<1>2. ASSUME NEW p \in Pos, NEW t \in Totals, UpdatePo(c, p, t)
      PROVE  \E e : served(e) /\ Good(db, e)
  <2> DEFINE row == ApplyPoConsumption([db.po[p] EXCEPT !.total = t], 0)
  <2>0. t \in Nat
    BY ConstantsAssumption
  <2>1. [db.po[p] EXCEPT !.total = t] \in PoRow
    BY <2>0 DEF DbType, PoRow
  <2>2. row \in PoRow /\ PoGood(row) /\ row.status \in {"Active", "Exhausted"}
    BY <2>1, ConsumptionType, ConsumptionGood
  <2>3. served([db EXCEPT !.po[p] = row]) /\ db.po[p].status # "Cancelled"
    BY <1>2 DEF UpdatePo, Serve
  <2> HIDE DEF row
  <2> QED BY <2>2, <2>3, GoodPo
<1>3. ASSUME NEW p \in Pos, CancelPo(c, p)
      PROVE  \E e : served(e) /\ Good(db, e)
  <2> DEFINE row == [db.po[p] EXCEPT !.status = "Cancelled"]
  <2>1. db.po[p] \in PoRow /\ PoGood(db.po[p]) /\ Live(db.po[p])
    BY <1>3 DEF DbType, Sound, CancelPo, PoCancellable
  <2>2. row \in PoRow /\ PoGood(row) /\ row.status = "Cancelled"
    BY <2>1 DEF PoRow, PoGood, Live
  <2>3. served([db EXCEPT !.po[p] = row]) /\ InvoicesOf(db, p) = {}
    BY <1>3 DEF CancelPo, PoCancellable, Serve
  <2> HIDE DEF row
  <2> QED BY <2>2, <2>3, GoodPo
<1>4. ASSUME NEW p \in Pos, DeletePo(c, p)
      PROVE  \E e : served(e) /\ Good(db, e)
  <2> DEFINE gone == InvoicesOf(db, p)
             r == RemoveInvoices(db, gone)
             e == [r EXCEPT !.po[p] = DeletedPo]
  <2>1. served(e)
    BY <1>4 DEF DeletePo, Serve
  <2>2. \A i \in gone : db.received[i] = 0 /\ db.remitted[i] = 0
    BY <1>4 DEF DeletePo, InvoiceDeletable
  <2> HIDE DEF gone
  <2>3. r \in DbType /\ Good(db, r) /\ r.po = db.po
        /\ \A i \in Invoices : r.received[i] = db.received[i]
    BY <2>2, RemoveType, GoodRemove DEF Legal
  <2> HIDE DEF r
  <2>4. Good(r, e)
    BY <2>3, RowTypes, DeletedRows, GoodPo DEF Good, PoGood
  <2>5. e.received = r.received
    BY <2>3 DEF DbType
  <2> HIDE DEF e
  <2>6. Good(db, e)
    BY <2>3, <2>4, <2>5 DEF Good, Change
  <2> QED BY <2>1, <2>6
<1>5. \E e : served(e) /\ Good(db, e)
  BY <1>1, <1>2, <1>3, <1>4 DEF PoRequest
<1> QED BY <1>5

\* Raising and removing an invoice posts to an order that is not cancelled.
LEMMA GoodPosting ==
    ASSUME NEW d \in DbType, NEW m \in DbType, Good(d, m), m.po = d.po,
           NEW p \in Pos, d.po[p].status # "Cancelled", NEW delta \in Int
    PROVE  Good(d, [m EXCEPT !.po[p] = ApplyPoConsumption(@, delta)])
<1> DEFINE row == ApplyPoConsumption(m.po[p], delta)
           e == [m EXCEPT !.po[p] = row]
<1>1. m.po[p] \in PoRow
  BY DEF DbType
<1>2. row \in PoRow /\ PoGood(row) /\ row.status \in {"Active", "Exhausted"}
  BY <1>1, ConsumptionType, ConsumptionGood
<1> HIDE DEF row
<1>3. Good(m, e)
  BY <1>2, GoodPo DEF Good
<1>4. e.received = m.received /\ e.invoice = m.invoice
  BY DEF DbType
<1> HIDE DEF e
<1>5. Good(d, e)
  BY <1>3, <1>4 DEF Good, Change
<1> QED BY <1>5 DEF e, row

LEMMA GoodInvoiceRequest ==
    ASSUME TypeOK, Referential(db), Sound(db), NEW c \in Clerks, InvoiceRequest(c)
    PROVE  Good(db, request'[c].after)
<1> DEFINE served(e) == request' = [request EXCEPT ![c] = [before |-> db, after |-> e]]
<1> USE DEF TypeOK
<1>1. ASSUME NEW i \in Invoices, NEW p \in Pos \cup {NoPo}, NEW sub \in SubTotals,
             NEW tax \in {0, Tax}, CreateInvoice(c, i, p, sub, sub + tax)
      PROVE  \E e : served(e) /\ Good(db, e)
  <2> DEFINE row == [status |-> "Unpaid", po |-> p, sub |-> sub,
                     grand |-> sub + tax, paid |-> 0, balance |-> sub + tax]
             raised == [db EXCEPT !.invoice[i] = row]
  <2>1. row \in InvoiceRow /\ sub + tax \in Int /\ sub + tax > 0
    BY ConstantsAssumption DEF InvoiceRow
  <2>2. served(IF p = NoPo THEN raised
               ELSE [raised EXCEPT !.po[p] = ApplyPoConsumption(@, sub + tax)])
    BY <1>1 DEF CreateInvoice, Serve
  <2>3. db.received[i] = 0
    BY <1>1 DEF CreateInvoice, FreshInvoice, Referential, Live
  <2>4. InvoiceGood(row, 0) /\ row.po = p
    BY <2>1 DEF InvoiceGood, NonNegative
  <2>5. p # NoPo => p \in Pos /\ db.po[p].status # "Cancelled"
    BY <1>1 DEF CreateInvoice, Covers
  <2>6. \A q \in Pos : db.po[q].status = "Cancelled" => row.po # q
    BY <2>4, <2>5, ConstantsAssumption
  <2> HIDE DEF row
  <2>7. raised \in DbType /\ raised.po = db.po
    BY <2>1 DEF DbType
  <2>8. Good(db, raised)
    <3>1. /\ raised.po = db.po /\ raised.tds = db.tds
          /\ raised.remitted = db.remitted
          /\ raised.invoice = [db.invoice EXCEPT ![i] = row]
          /\ raised.received = [db.received EXCEPT ![i] = 0]
      BY <2>3 DEF DbType
    <3>2. ~(0 > db.received[i])
      BY <2>3
    <3> HIDE DEF raised
    <3> QED BY <2>4, <2>6, <3>1, <3>2, GoodInvoice
  <2> HIDE DEF raised
  <2> QED BY <2>1, <2>2, <2>5, <2>7, <2>8, GoodPosting
<1>2. ASSUME NEW i \in Invoices, NEW tax \in {0, Tax},
             UpdateInvoice(c, i, db.invoice[i].sub + tax)
      PROVE  \E e : served(e) /\ Good(db, e)
  <2> DEFINE row == db.invoice[i]
             grand == row.sub + tax
             v == ApplyInvoicePayment([row EXCEPT !.grand = grand], 0)
             rerated == [db EXCEPT !.invoice[i] = v]
  <2>1. served(IF row.po = NoPo THEN rerated
               ELSE [rerated EXCEPT !.drift[row.po] = @ + grand - row.grand])
        /\ Live(row)
    BY <1>2 DEF UpdateInvoice, Serve
  <2>2. row \in InvoiceRow /\ InvoiceGood(row, db.received[i])
        /\ db.received[i] \in Nat
    BY DEF DbType, Sound
  <2>3. /\ [row EXCEPT !.grand = grand] \in InvoiceRow
        /\ [row EXCEPT !.grand = grand].paid = row.paid
        /\ [row EXCEPT !.grand = grand].po = row.po
    <3> HIDE DEF row
    <3>1. grand \in Nat
      BY <2>2, ConstantsAssumption DEF InvoiceRow
    <3> HIDE DEF grand
    <3> QED BY <2>2, <3>1 DEF InvoiceRow
  <2>4. InvoiceGood(v, db.received[i]) /\ v.po = row.po /\ v \in InvoiceRow
    <3>1. row.paid = db.received[i]
      BY <2>1, <2>2 DEF InvoiceGood
    <3>2. db.received[i] + 0 = db.received[i]
      BY <2>2
    <3> DEFINE at == [row EXCEPT !.grand = grand]
    <3> HIDE DEF row, grand, at
    <3>3. at \in InvoiceRow /\ at.paid = db.received[i] /\ at.po = row.po
      BY <2>3, <3>1 DEF at
    <3>4. /\ InvoiceGood(ApplyInvoicePayment(at, 0), db.received[i] + 0)
          /\ ApplyInvoicePayment(at, 0).po = at.po
          /\ ApplyInvoicePayment(at, 0) \in InvoiceRow
      BY <2>2, <3>3, InvoicePaymentGood, InvoicePaymentType
    <3> QED BY <3>2, <3>3, <3>4 DEF at
  <2> DEFINE moved(x) == /\ x.po = db.po /\ x.tds = db.tds
                         /\ x.remitted = db.remitted
                         /\ x.invoice = [db.invoice EXCEPT ![i] = v]
                         /\ x.received = [db.received EXCEPT ![i] = db.received[i]]
  <2> HIDE DEF v
  <2>5. moved(rerated) /\ \A k, n : moved([rerated EXCEPT !.drift[k] = n])
    BY DEF DbType
  <2>6. \A x : moved(x) => Good(db, x)
    BY <2>1, <2>2, <2>4, GoodInvoice
  <2> HIDE DEF moved, rerated, grand
  <2>7. \E x : served(x) /\ moved(x)
    BY <2>1, <2>5
  <2> QED BY <2>6, <2>7
<1>3. ASSUME NEW i \in Invoices, NEW a \in Amounts, RecordPayment(c, i, a)
      PROVE  \E e : served(e) /\ Good(db, e)
  <2> DEFINE row == db.invoice[i]
             v == ApplyInvoicePayment(row, a)
             e == [db EXCEPT !.invoice[i] = v, !.received[i] = @ + a]
  <2>1. /\ a \in Nat /\ a > 0 /\ row \in InvoiceRow /\ db.received[i] \in Nat
        /\ InvoiceGood(row, db.received[i])
    BY ConstantsAssumption DEF DbType, Sound
  <2>2. Live(row) /\ a <= row.balance /\ served(e)
    BY <1>3 DEF RecordPayment, Payable, Serve
  <2>3. /\ InvoiceGood(v, db.received[i] + a) /\ v.po = row.po
        /\ v.grand = row.grand
    BY <2>1, <2>2, InvoicePaymentGood DEF InvoiceGood
  <2>4. db.received[i] + a <= v.grand
    <3>1. /\ row.paid = db.received[i] /\ row.balance > 0
          /\ row.balance <= NonNegative(row.grand - row.paid)
          /\ row.grand \in Nat /\ row.paid \in Nat /\ row.balance \in Nat
      BY <2>1, <2>2 DEF InvoiceGood, InvoiceRow
    <3> HIDE DEF row, v
    <3>2. row.grand - row.paid > 0 /\ a <= row.grand - row.paid
      BY <2>1, <2>2, <3>1 DEF NonNegative
    <3> QED BY <2>1, <2>3, <3>1, <3>2
  <2> HIDE DEF v
  <2>5. /\ e.po = db.po /\ e.tds = db.tds /\ e.remitted = db.remitted
        /\ e.invoice = [db.invoice EXCEPT ![i] = v]
        /\ e.received = [db.received EXCEPT ![i] = db.received[i] + a]
    BY DEF DbType
  <2> HIDE DEF e
  <2>6. db.received[i] + a \in Nat
    BY <2>1
  <2> QED BY <2>2, <2>3, <2>4, <2>5, <2>6, GoodInvoice
<1>4. ASSUME NEW i \in Invoices, NEW a \in TdsAmounts, RecordTds(c, i, a)
      PROVE  \E e : served(e) /\ Good(db, e)
  <2> DEFINE row == [status |-> "Pending", amount |-> a, paid |-> 0, balance |-> a]
             e == [db EXCEPT !.tds[i] = row]
  <2>1. served(e) /\ ~Live(db.tds[i])
    BY <1>4 DEF RecordTds, Serve
  <2>2. db.remitted[i] = 0
    BY <2>1 DEF Referential
  <2>3. TdsGood(row, 0)
    BY DEF TdsGood
  <2> HIDE DEF row
  <2>4. /\ e.po = db.po /\ e.invoice = db.invoice /\ e.received = db.received
        /\ e.tds = [db.tds EXCEPT ![i] = row]
        /\ e.remitted = [db.remitted EXCEPT ![i] = 0]
    BY <2>2 DEF DbType
  <2> HIDE DEF e
  <2> QED BY <2>1, <2>3, <2>4, GoodTds
<1>5. ASSUME NEW i \in Invoices, NEW a \in TdsAmounts, TdsPayment(c, i, a)
      PROVE  \E e : served(e) /\ Good(db, e)
  <2> DEFINE row == ApplyTdsPayment(db.tds[i], a)
             e == [db EXCEPT !.tds[i] = row, !.remitted[i] = @ + a]
  <2>1. served(e) /\ Live(db.tds[i])
    BY <1>5 DEF TdsPayment, Payable, Serve
  <2>2. /\ a \in Nat /\ db.tds[i] \in TdsRow /\ db.remitted[i] \in Nat
        /\ TdsGood(db.tds[i], db.remitted[i])
    BY ConstantsAssumption DEF DbType, Sound
  <2>3. row.paid = db.tds[i].paid + a
    BY <2>2 DEF ApplyTdsPayment, TdsRow
  <2>4. TdsGood(row, db.remitted[i] + a)
    BY <2>1, <2>2, <2>3 DEF TdsGood
  <2> HIDE DEF row
  <2>5. /\ e.po = db.po /\ e.invoice = db.invoice /\ e.received = db.received
        /\ e.tds = [db.tds EXCEPT ![i] = row]
        /\ e.remitted = [db.remitted EXCEPT ![i] = db.remitted[i] + a]
    BY DEF DbType
  <2> HIDE DEF e
  <2>6. db.remitted[i] + a \in Nat
    BY <2>2
  <2> QED BY <2>1, <2>4, <2>5, <2>6, GoodTds
<1>6. ASSUME NEW i \in Invoices, DeleteTds(c, i)
      PROVE  \E e : served(e) /\ Good(db, e)
  <2> DEFINE e == [db EXCEPT !.tds[i] = NoTds]
  <2>1. served(e)
    BY <1>6 DEF DeleteTds, Serve
  <2>2. /\ e.po = db.po /\ e.invoice = db.invoice /\ e.received = db.received
        /\ e.tds = [db.tds EXCEPT ![i] = NoTds]
        /\ e.remitted = [db.remitted EXCEPT ![i] = db.remitted[i]]
        /\ db.remitted[i] \in Nat
    BY DEF DbType
  <2>3. TdsGood(NoTds, db.remitted[i])
    BY DeletedRows DEF TdsGood
  <2> HIDE DEF e
  <2> QED BY <2>1, <2>2, <2>3, GoodTds
<1>7. ASSUME NEW i \in Invoices, DeleteInvoice(c, i)
      PROVE  \E e : served(e) /\ Good(db, e)
  <2> DEFINE r == RemoveInvoices(db, {i})
             row == db.invoice[i]
  <2>1. /\ served(Cascade(db, i)) /\ Live(row)
        /\ db.received[i] = 0 /\ db.remitted[i] = 0
    BY <1>7 DEF DeleteInvoice, InvoiceDeletable, Serve
  <2>2. r \in DbType /\ Good(db, r) /\ r.po = db.po
    BY <2>1, RemoveType, GoodRemove DEF Legal
  <2> HIDE DEF r
  <2>3. CASE row.po = NoPo
    BY <2>1, <2>2, <2>3 DEF Cascade, r
  <2>4. CASE row.po # NoPo
    <3>1. row.po \in Pos /\ -row.grand \in Int
      BY <2>4 DEF DbType, InvoiceRow
    <3>2. db.po[row.po].status # "Cancelled"
      BY <2>1, <3>1 DEF Sound, CancelledBare
    <3>3. Good(db, [r EXCEPT !.po[row.po] = ApplyPoConsumption(@, -row.grand)])
      BY <2>2, <3>1, <3>2, GoodPosting
    <3>4. Cascade(db, i) = [r EXCEPT !.po[row.po] = ApplyPoConsumption(@, -row.grand)]
      BY <2>4 DEF Cascade, r
    <3> QED BY <2>1, <3>3, <3>4
  <2> QED BY <2>3, <2>4
<1>8. \E e : served(e) /\ Good(db, e)
  BY <1>1, <1>2, <1>3, <1>4, <1>5, <1>6, <1>7 DEF InvoiceRequest
<1> QED BY <1>8

LEMMA GoodNoteRequest ==
    ASSUME TypeOK, Referential(db), Sound(db), NEW c \in Clerks, NoteRequest(c)
    PROVE  Good(db, request'[c].after)
<1> DEFINE served(e) == request' = [request EXCEPT ![c] = [before |-> db, after |-> e]]
           same(e) == /\ e.po = db.po /\ e.invoice = db.invoice /\ e.tds = db.tds
                      /\ e.received = db.received /\ e.remitted = db.remitted
<1> USE DEF TypeOK
<1>1. \A n, v : same([db EXCEPT !.note[n] = v])
  BY DEF DbType
<1>2. \A e : same(e) => Good(db, e)
  BY GoodSame
<1>3. ASSUME NEW n \in Notes,
             \/ \E i \in Invoices, a \in Amounts : CreateCreditNote(c, n, i, a)
             \/ ApproveCreditNote(c, n) \/ CancelCreditNote(c, n)
      PROVE  \E e : served(e) /\ Good(db, e)
  <2>1. \E v : served([db EXCEPT !.note[n] = v])
    BY <1>3 DEF CreateCreditNote, ApproveCreditNote, CancelCreditNote, Serve
  <2> HIDE DEF same
  <2> QED BY <1>1, <1>2, <2>1
<1>4. ASSUME NEW n \in Notes, NEW adjusts \in BOOLEAN, SettleCreditNote(c, n, adjusts)
      PROVE  \E e : served(e) /\ Good(db, e)
  <2> DEFINE row == [db.note[n] EXCEPT !.status = "Settled", !.adjusts = adjusts]
             settled == [db EXCEPT !.note[n] = row]
             i == db.note[n].invoice
             v == Credited(db.invoice[i], db.note[n].total)
  <2>1. served(IF adjusts THEN [settled EXCEPT !.invoice[i] = Credited(@, db.note[n].total)]
               ELSE settled)
    BY <1>4 DEF SettleCreditNote, Serve
  <2> HIDE DEF row
  <2>2. same(settled)
    BY <1>1
  <2>3. settled.invoice = db.invoice
    BY <2>2
  <2>4. served([settled EXCEPT !.invoice[i] = v]) \/ served(settled)
    BY <2>1, <2>3
  <2>5. CASE i \notin Invoices
    <3>1. same([settled EXCEPT !.invoice[i] = v])
      BY <2>5 DEF DbType
    <3> HIDE DEF same, settled
    <3> QED BY <1>2, <2>2, <2>4, <3>1
  <2>6. CASE i \in Invoices
    <3>1. Live(db.invoice[i])
      BY <2>6 DEF Referential, NotesOf
    <3>2. /\ db.invoice[i] \in InvoiceRow /\ db.note[n].total \in Nat
          /\ db.received[i] \in Nat /\ InvoiceGood(db.invoice[i], db.received[i])
      BY <2>6 DEF DbType, NoteRow, Sound
    <3>3. InvoiceGood(v, db.received[i]) /\ v.po = db.invoice[i].po
      BY <3>1, <3>2, CreditedGood
    <3> DEFINE e == [settled EXCEPT !.invoice[i] = v]
    <3> HIDE DEF v
    <3>4. /\ e.po = db.po /\ e.tds = db.tds /\ e.remitted = db.remitted
          /\ e.invoice = [db.invoice EXCEPT ![i] = v]
          /\ e.received = [db.received EXCEPT ![i] = db.received[i]]
      BY <3>2 DEF DbType
    <3> HIDE DEF e, i
    <3>5. Good(db, e)
      BY <2>6, <3>1, <3>2, <3>3, <3>4, GoodInvoice
    <3> QED BY <1>2, <2>2, <2>4, <3>5 DEF e
  <2> QED BY <2>5, <2>6
<1>5. \E e : served(e) /\ Good(db, e)
  BY <1>3, <1>4 DEF NoteRequest
<1> QED BY <1>5

\* A commit that nothing overtook writes what the request computed.
LEMMA MergeAlone ==
    ASSUME NEW d \in DbType, NEW e \in DbType
    PROVE  Merge(d, d, e) = e
<1>1. /\ \A a, b \in PoRow : Columns(a, a, b) = b
      /\ \A a, b \in InvoiceRow : Columns(a, a, b) = b
      /\ \A a, b \in TdsRow : Columns(a, a, b) = b
      /\ \A a, b \in NoteRow : Columns(a, a, b) = b
  <2>1. \A a, b \in PoRow : Columns(a, a, b) = b
    BY DEF Columns, PoRow
  <2>2. \A a, b \in InvoiceRow : Columns(a, a, b) = b
    BY DEF Columns, InvoiceRow
  <2>3. \A a, b \in TdsRow : Columns(a, a, b) = b
    BY DEF Columns, TdsRow
  <2>4. \A a, b \in NoteRow : Columns(a, a, b) = b
    BY DEF Columns, NoteRow
  <2> QED BY <2>1, <2>2, <2>3, <2>4
<1>2. Rows(d.po, d.po, e.po) = e.po
  BY <1>1 DEF Rows, DbType
<1>3. Rows(d.invoice, d.invoice, e.invoice) = e.invoice
  BY <1>1 DEF Rows, DbType
<1>4. Rows(d.tds, d.tds, e.tds) = e.tds
  BY <1>1 DEF Rows, DbType
<1>5. Rows(d.note, d.note, e.note) = e.note
  BY <1>1 DEF Rows, DbType
<1>6. /\ Sums(d.received, d.received, e.received) = e.received
      /\ Sums(d.remitted, d.remitted, e.remitted) = e.remitted
      /\ Sums(d.drift, d.drift, e.drift) = e.drift
  BY DEF Sums, DbType
<1> QED BY <1>2, <1>3, <1>4, <1>5, <1>6 DEF Merge, DbType

BInv == /\ TInv /\ Referential(db) /\ Sound(db)
        /\ \A c \in Clerks : request[c] # Idle =>
              request[c].before = db /\ Good(db, request[c].after)

Alone == \A b, c \in Clerks : b = c

LEMMA BInvInit == Init => BInv
<1> SUFFICES ASSUME Init PROVE BInv
  OBVIOUS
<1>1. TInv
  BY TInvInit
<1>2. Referential(db)
  BY ConstantsAssumption DEF Init, Referential, Live, NoInvoiceRow, NoTds, NoNote, NotesOf
<1>3. Sound(db)
  BY DeletedRows DEF Init, Sound, PoGood, InvoiceGood, TdsGood, CancelledBare
<1> QED BY <1>1, <1>2, <1>3 DEF BInv, Init

LEMMA BInvStep ==
    ASSUME Alone, BInv, [Next]_vars
    PROVE  BInv' /\ (UNCHANGED db \/ Change(db, db'))
<1>1. TInv' /\ TypeOK
  BY TInvStep DEF BInv, TInv
<1>2. ASSUME NEW c \in Clerks, PoRequest(c) \/ InvoiceRequest(c) \/ NoteRequest(c)
      PROVE  BInv' /\ UNCHANGED db
  <2>1. UNCHANGED db
    BY <1>2, ServedSlot
  <2>2. PICK e : request' = [request EXCEPT ![c] = [before |-> db, after |-> e]]
    BY <1>2, ServedSlot
  <2>3. Good(db, request'[c].after)
    BY <1>1, <1>2, GoodPoRequest, GoodInvoiceRequest, GoodNoteRequest DEF BInv
  <2>4. \A b \in Clerks : b = c
    BY DEF Alone
  <2>5. request'[c].before = db
    BY <1>1, <2>2 DEF TypeOK
  <2> QED BY <1>1, <2>1, <2>3, <2>4, <2>5 DEF BInv
<1>3. ASSUME NEW c \in Clerks, Commit(c)
      PROVE  BInv' /\ Change(db, db')
  <2>1. /\ request[c].before = db /\ Good(db, request[c].after)
        /\ request[c].after \in DbType /\ db \in DbType
    BY <1>1, <1>3 DEF Commit, BInv, TypeOK
  <2>2. db' = request[c].after /\ Referential(db')
    BY <1>3, <2>1, MergeAlone DEF Commit, Written
  <2>3. \A b \in Clerks : request'[b] = Idle
    BY <1>1, <1>3 DEF Commit, Alone, TypeOK
  <2> QED BY <1>1, <2>1, <2>2, <2>3 DEF BInv, Good
<1>4. ASSUME NEW c \in Clerks, Rollback(c)
      PROVE  BInv' /\ UNCHANGED db
  BY <1>1, <1>4 DEF Rollback, BInv, TypeOK
<1>5. CASE UNCHANGED vars
  BY <1>1, <1>5 DEF vars, BInv
<1> QED BY <1>2, <1>3, <1>4, <1>5 DEF Next

LEMMA BooksInvariance ==
    ASSUME Alone
    PROVE  Spec => []BInv
<1>1. BInv /\ [Next]_vars => BInv'
  BY BInvStep
<1> QED BY <1>1, BInvInit, PTL DEF Spec

\* With one clerk at a time an order's balance and status agree with what it has
\* consumed, through renewals, cancellations and invoices that come and go.
THEOREM OrdersAgree == ASSUME Alone PROVE Spec => []PoStatusAgrees
<1>1. BInv => PoStatusAgrees
  BY DEF BInv, Sound, PoGood, PoStatusAgrees
<1> QED BY <1>1, BooksInvariance, PTL

\* With one clerk at a time the paid columns are the sums of the payments.
THEOREM PaymentsAgree == ASSUME Alone PROVE Spec => []PaidMatchesReceipts
<1>1. BInv => PaidMatchesReceipts
  BY DEF BInv, Sound, InvoiceGood, TdsGood, PaidMatchesReceipts
<1> QED BY <1>1, BooksInvariance, PTL

\* With one clerk at a time an invoice is Paid exactly when nothing is owed,
\* whether it was paid, credited or rated again.
THEOREM InvoicesAgree == ASSUME Alone PROVE Spec => []InvoiceStatusAgrees
<1>1. BInv => InvoiceStatusAgrees
  BY DEF BInv, Sound, InvoiceGood, InvoiceStatusAgrees
<1> QED BY <1>1, BooksInvariance, PTL

\* With one clerk at a time no payment collects more than the invoice's total,
\* although a settled credit note is forgotten by the payments after it.
THEOREM NeverOvercollected == ASSUME Alone PROVE Spec => NoOvercollection
<1>1. BInv /\ [Next]_vars =>
        [\A i \in Invoices : db'.received[i] > db.received[i] =>
            db'.received[i] <= db'.invoice[i].grand]_vars
  BY BInvStep DEF Change, BInv, TInv, TypeOK, DbType
<1> QED BY <1>1, BooksInvariance, PTL DEF Spec, NoOvercollection

\* With one clerk at a time a cancelled order has no invoices and stays
\* cancelled, whatever is created or deleted around it.
THEOREM CancelledForGood == ASSUME Alone PROVE Spec => CancelledIsFinal
<1>1. BInv /\ [Next]_vars =>
        [\A p \in Pos : db.po[p].status = "Cancelled" =>
            /\ InvoicesOf(db, p) = {}
            /\ db'.po[p].status \in {"Cancelled", "Deleted"}]_vars
  BY BInvStep DEF Change, BInv, Sound, CancelledBare, InvoicesOf
<1> QED BY <1>1, BooksInvariance, PTL DEF Spec, CancelledIsFinal
(***************************************************************************)
(* One clerk at a time: what an order has consumed is what its invoices    *)
(* bill.  An order not yet created has no drift, which its creation needs. *)
(***************************************************************************)
BalancedAt(d, p) ==
    /\ Live(d.po[p]) =>
         d.po[p].consumed + d.drift[p] = SumOver(Invoices, Billed(d, p))
    /\ d.po[p].status = "Absent" => d.drift[p] = 0

Balanced(d) == \A p \in Pos : BalancedAt(d, p)

LEMMA BilledIs ==
    ASSUME NEW d \in DbType, NEW p
    PROVE  /\ Billed(d, p) \in [Invoices -> Int]
           /\ \A i \in Invoices : Billed(d, p)[i] =
                IF Live(d.invoice[i]) /\ d.invoice[i].po = p
                THEN d.invoice[i].grand ELSE 0
BY DEF Billed, InvoicesOf, DbType, InvoiceRow

\* No invoice is touched, and the order's own account is.
LEMMA SameBills ==
    ASSUME NEW d \in DbType, NEW e \in DbType, NEW p \in Pos, BalancedAt(d, p),
           \A i \in Invoices : Billed(e, p)[i] = Billed(d, p)[i],
           Live(e.po[p]) =>
              /\ Live(d.po[p])
              /\ e.po[p].consumed + e.drift[p] = d.po[p].consumed + d.drift[p],
           e.po[p].status = "Absent" =>
              d.po[p].status = "Absent" /\ e.drift[p] = d.drift[p]
    PROVE  BalancedAt(e, p)
<1>1. Billed(e, p) = Billed(d, p)
  BY BilledIs
<1> QED BY <1>1 DEF BalancedAt

\* One invoice changes, and the account moves by as much as its bill does.
LEMMA OneBill ==
    ASSUME NEW d \in DbType, NEW e \in DbType, NEW p \in Pos, BalancedAt(d, p),
           NEW i \in Invoices,
           \A j \in Invoices \ {i} : Billed(e, p)[j] = Billed(d, p)[j],
           Live(e.po[p]) =>
              /\ Live(d.po[p])
              /\ e.po[p].consumed + e.drift[p] =
                    d.po[p].consumed + d.drift[p]
                        + (Billed(e, p)[i] - Billed(d, p)[i]),
           e.po[p].status = "Absent" =>
              d.po[p].status = "Absent" /\ e.drift[p] = d.drift[p]
    PROVE  BalancedAt(e, p)
<1>1. SumOver(Invoices, Billed(e, p)) =
        SumOver(Invoices, Billed(d, p)) + (Billed(e, p)[i] - Billed(d, p)[i])
  BY BilledIs, SumChanged, ConstantsAssumption
<1> QED BY <1>1 DEF BalancedAt

\* An order that does not exist is billed nothing.
LEMMA NothingBilled ==
    ASSUME NEW d \in DbType, Referential(d), NEW p \in Pos, ~Live(d.po[p])
    PROVE  \A i \in Invoices : Billed(d, p)[i] = 0
<1> SUFFICES ASSUME NEW i \in Invoices, Live(d.invoice[i]), d.invoice[i].po = p
             PROVE  FALSE
  BY BilledIs
<1> QED BY ConstantsAssumption DEF Referential

LEMMA BalancedPoRequest ==
    ASSUME TypeOK, Referential(db), Balanced(db), NEW c \in Clerks, PoRequest(c)
    PROVE  Balanced(request'[c].after)
<1> DEFINE served(e) == request' = [request EXCEPT ![c] = [before |-> db, after |-> e]]
<1>0. db \in DbType /\ request'[c].after \in DbType
  BY TypePoRequest DEF TypeOK, Legal
<1>1. ASSUME NEW p \in Pos, NEW row \in PoRow,
             served([db EXCEPT !.po[p] = row]),
             BalancedAt([db EXCEPT !.po[p] = row], p)
      PROVE  Balanced(request'[c].after)
  <2> DEFINE e == [db EXCEPT !.po[p] = row]
  <2>1. e \in DbType /\ request'[c].after = e
    BY <1>0, <1>1 DEF TypeOK, DbType
  <2>2. /\ e.invoice = db.invoice /\ e.drift = db.drift
        /\ \A q \in Pos \ {p} : e.po[q] = db.po[q]
    BY <1>0 DEF DbType
  <2>3. BalancedAt(e, p) BY <1>1
  <2> HIDE DEF e
  <2>4. \A q : \A i \in Invoices : Billed(e, q)[i] = Billed(db, q)[i]
    BY <1>0, <2>1, <2>2, BilledIs
  <2>5. ASSUME NEW q \in Pos, q # p PROVE BalancedAt(e, q)
    BY <1>0, <2>1, <2>2, <2>4, <2>5, SameBills DEF Balanced
  <2> QED BY <2>1, <2>3, <2>5 DEF Balanced
<1>2. ASSUME NEW p \in Pos, NEW t \in Totals, CreatePo(c, p, t)
      PROVE  Balanced(request'[c].after)
  <2> DEFINE row == [status |-> "Active", total |-> t, consumed |-> 0, balance |-> t]
             e == [db EXCEPT !.po[p] = row]
  <2>1. t \in Nat /\ row \in PoRow
    BY ConstantsAssumption DEF PoRow
  <2>2. served(e) /\ db.po[p].status = "Absent"
    BY <1>2 DEF CreatePo, Serve, FreshPo
  <2>3. /\ e \in DbType /\ e.invoice = db.invoice /\ e.drift = db.drift
        /\ e.po[p] = row /\ row.consumed = 0 /\ row.status = "Active"
    BY <1>0, <2>1 DEF DbType
  <2> HIDE DEF row
  <2>4. db.drift[p] = 0 /\ ~Live(db.po[p])
    BY <2>2 DEF Balanced, BalancedAt, Live
  <2> HIDE DEF e
  <2>5. \A i \in Invoices : Billed(e, p)[i] = 0
    <3>1. \A i \in Invoices : Billed(db, p)[i] = 0
      BY <1>0, <2>4, NothingBilled
    <3> QED BY <1>0, <2>3, <3>1, BilledIs
  <2>6. SumOver(Invoices, Billed(e, p)) = 0
    <3>1. Billed(e, p) = [i \in Invoices |-> 0]
      BY <2>3, <2>5, BilledIs
    <3> QED BY <3>1, SumOfZeros, ConstantsAssumption
  <2>7. BalancedAt(e, p)
    BY <2>3, <2>4, <2>6 DEF BalancedAt
  <2> QED BY <1>1, <2>1, <2>2, <2>7 DEF e
<1>3. ASSUME NEW p \in Pos, NEW row \in PoRow, served([db EXCEPT !.po[p] = row]),
             Live(db.po[p]), row.consumed = db.po[p].consumed, row.status # "Absent"
      PROVE  Balanced(request'[c].after)
  <2> DEFINE e == [db EXCEPT !.po[p] = row]
  <2>1. /\ e \in DbType /\ e.invoice = db.invoice /\ e.drift = db.drift
        /\ e.po[p] = row
    BY <1>0 DEF DbType
  <2> HIDE DEF e
  <2>2. \A i \in Invoices : Billed(e, p)[i] = Billed(db, p)[i]
    BY <1>0, <2>1, BilledIs
  <2>3. BalancedAt(e, p)
    BY <1>0, <1>3, <2>1, <2>2, SameBills DEF Balanced
  <2> QED BY <1>1, <1>3, <2>3 DEF e
<1>4. ASSUME NEW p \in Pos, NEW t \in Totals, UpdatePo(c, p, t)
      PROVE  Balanced(request'[c].after)
  <2> DEFINE at == [db.po[p] EXCEPT !.total = t]
             row == ApplyPoConsumption(at, 0)
  <2>1. t \in Nat
    BY ConstantsAssumption
  <2>2. at \in PoRow /\ at.consumed = db.po[p].consumed /\ at.consumed \in Int
    BY <1>0, <2>1 DEF DbType, PoRow
  <2>3. served([db EXCEPT !.po[p] = row]) /\ Live(db.po[p])
    BY <1>4 DEF UpdatePo, Serve, Live
  <2> HIDE DEF at
  <2>4. row \in PoRow /\ row.consumed = at.consumed /\ row.status # "Absent"
    <3>1. row.consumed = at.consumed + 0
      BY <2>2 DEF ApplyPoConsumption, PoRow
    <3>2. row \in PoRow /\ row.status \in {"Active", "Exhausted"}
      BY <2>2, ConsumptionType, ConsumptionGood
    <3> QED BY <2>2, <3>1, <3>2
  <2> HIDE DEF row
  <2> QED BY <1>3, <2>2, <2>3, <2>4
<1>5. ASSUME NEW p \in Pos, CancelPo(c, p)
      PROVE  Balanced(request'[c].after)
  <2> DEFINE row == [db.po[p] EXCEPT !.status = "Cancelled"]
  <2>1. row \in PoRow /\ row.consumed = db.po[p].consumed /\ row.status # "Absent"
    BY <1>0 DEF DbType, PoRow
  <2>2. served([db EXCEPT !.po[p] = row]) /\ Live(db.po[p])
    BY <1>5 DEF CancelPo, PoCancellable, Serve
  <2> HIDE DEF row
  <2> QED BY <1>3, <2>1, <2>2
<1>6. ASSUME NEW p \in Pos, DeletePo(c, p)
      PROVE  Balanced(request'[c].after)
  <2> DEFINE gone == InvoicesOf(db, p)
             r == RemoveInvoices(db, gone)
             e == [r EXCEPT !.po[p] = DeletedPo]
  <2>1. served(e)
    BY <1>6 DEF DeletePo, Serve
  <2>2. \A i \in gone : db.received[i] = 0 /\ db.remitted[i] = 0
    BY <1>6 DEF DeletePo, InvoiceDeletable
  <2>3. \A i \in gone : db.invoice[i].po = p
    BY DEF InvoicesOf
  <2> HIDE DEF gone
  <2>4. /\ r \in DbType /\ r.po = db.po /\ r.drift = db.drift
        /\ \A i \in Invoices :
             r.invoice[i] = IF i \in gone THEN DeletedInvoice ELSE db.invoice[i]
    BY <1>0, <2>2, RemoveType DEF Legal
  <2> HIDE DEF r
  <2>5. /\ e \in DbType /\ e.invoice = r.invoice /\ e.drift = db.drift
        /\ \A q \in Pos : e.po[q] = IF q = p THEN DeletedPo ELSE db.po[q]
    BY <2>4, RowTypes DEF DbType
  <2>6. request'[c].after = e
    BY <2>1 DEF TypeOK
  <2> HIDE DEF e
  <2>7. BalancedAt(e, p)
    BY <2>5, DeletedRows DEF BalancedAt
  <2>8. ASSUME NEW q \in Pos, q # p PROVE BalancedAt(e, q)
    <3>1. \A i \in Invoices : Billed(e, q)[i] = Billed(db, q)[i]
      BY <1>0, <2>3, <2>4, <2>5, <2>8, BilledIs, DeletedRows
    <3> QED BY <1>0, <2>5, <2>8, <3>1, SameBills DEF Balanced
  <2> QED BY <2>6, <2>7, <2>8 DEF Balanced
<1> QED BY <1>2, <1>4, <1>5, <1>6 DEF PoRequest

\* Requests that leave the orders, and what each invoice bills, alone.
LEMMA BillsUntouched ==
    ASSUME NEW d \in DbType, NEW e \in DbType, Balanced(d),
           e.po = d.po, e.drift = d.drift,
           \A i \in Invoices : /\ Live(e.invoice[i]) <=> Live(d.invoice[i])
                               /\ e.invoice[i].po = d.invoice[i].po
                               /\ e.invoice[i].grand = d.invoice[i].grand
    PROVE  Balanced(e)
<1> SUFFICES ASSUME NEW p \in Pos PROVE BalancedAt(e, p)
  BY DEF Balanced
<1>1. \A i \in Invoices : Billed(e, p)[i] = Billed(d, p)[i]
  BY BilledIs
<1> QED BY <1>1, SameBills DEF Balanced

\* A payment and a credit note leave an invoice its order and its total.
LEMMA InvoiceKept ==
    ASSUME NEW d \in DbType, NEW e \in DbType, Balanced(d),
           e.po = d.po, e.drift = d.drift, NEW i \in Invoices, NEW row,
           e.invoice = [d.invoice EXCEPT ![i] = row], Live(d.invoice[i]), Live(row),
           row.po = d.invoice[i].po, row.grand = d.invoice[i].grand
    PROVE  Balanced(e)
<1>1. \A j \in Invoices : e.invoice[j] = IF j = i THEN row ELSE d.invoice[j]
  BY DEF DbType
<1> QED BY <1>1, BillsUntouched

LEMMA PaidInvoice ==
    ASSUME NEW row \in InvoiceRow, NEW a \in Nat
    PROVE  /\ Live(ApplyInvoicePayment(row, a))
           /\ ApplyInvoicePayment(row, a).po = row.po
           /\ ApplyInvoicePayment(row, a).grand = row.grand
<1> DEFINE owed == row.grand - (row.paid + a)
           new == ApplyInvoicePayment(row, a)
<1>1. new.status = PaymentStatus("Unpaid", row.paid + a, owed)
      /\ new.po = row.po /\ new.grand = row.grand
  BY DEF ApplyInvoicePayment, InvoiceRow
<1>2. PaymentStatus("Unpaid", row.paid + a, owed)
        \in {"Unpaid", "Partially_Paid", "Paid"}
  BY PaymentStatusType
<1> QED BY <1>1, <1>2 DEF Live

LEMMA CreditedInvoice ==
    ASSUME NEW row \in InvoiceRow, NEW n \in Nat, Live(row)
    PROVE  /\ Live(Credited(row, n))
           /\ Credited(row, n).po = row.po /\ Credited(row, n).grand = row.grand
BY DEF Credited, InvoiceRow, Live

\* The row an order has after posting delta to it.
LEMMA Posted ==
    ASSUME NEW row \in PoRow, NEW delta \in Int
    PROVE  /\ Live(ApplyPoConsumption(row, delta))
           /\ ApplyPoConsumption(row, delta).status # "Absent"
           /\ ApplyPoConsumption(row, delta).consumed = row.consumed + delta
<1>1. ApplyPoConsumption(row, delta).status \in {"Active", "Exhausted"}
  BY ConsumptionGood
<1>2. ApplyPoConsumption(row, delta).consumed = row.consumed + delta
  BY DEF ApplyPoConsumption, PoRow
<1> QED BY <1>1, <1>2 DEF Live

\* Raising, re-rating and deleting an invoice move its order's account by as
\* much as its bill.
LEMMA InvoicePosted ==
    ASSUME NEW d \in DbType, NEW e \in DbType, Balanced(d), NEW i \in Invoices,
           \A j \in Invoices \ {i} : e.invoice[j] = d.invoice[j],
           \A p \in Pos :
              \/ e.po[p] = d.po[p] /\ e.drift[p] = d.drift[p]
                    /\ Billed(e, p)[i] = Billed(d, p)[i]
              \/ /\ Live(d.po[p]) /\ Live(e.po[p])
                 /\ e.po[p].consumed + e.drift[p] =
                      d.po[p].consumed + d.drift[p]
                          + (Billed(e, p)[i] - Billed(d, p)[i])
    PROVE  Balanced(e)
<1> SUFFICES ASSUME NEW p \in Pos PROVE BalancedAt(e, p)
  BY DEF Balanced
<1>1. \A j \in Invoices \ {i} : Billed(e, p)[j] = Billed(d, p)[j]
  BY BilledIs
<1>2. CASE e.po[p] = d.po[p] /\ e.drift[p] = d.drift[p]
              /\ Billed(e, p)[i] = Billed(d, p)[i]
  BY <1>1, <1>2, SameBills DEF Balanced
<1>3. CASE /\ Live(d.po[p]) /\ Live(e.po[p])
           /\ e.po[p].consumed + e.drift[p] =
                d.po[p].consumed + d.drift[p] + (Billed(e, p)[i] - Billed(d, p)[i])
  <2>1. e.po[p].status # "Absent"
    BY <1>3 DEF Live
  <2> QED BY <1>1, <1>3, <2>1, OneBill DEF Balanced
<1> QED BY <1>2, <1>3

LEMMA BalancedCreation ==
    ASSUME TypeOK, Referential(db), Balanced(db), NEW c \in Clerks,
           NEW i \in Invoices, NEW p \in Pos \cup {NoPo}, NEW sub \in SubTotals,
           NEW grand \in Nat, CreateInvoice(c, i, p, sub, grand),
           request'[c].after \in DbType
    PROVE  Balanced(request'[c].after)
<1> DEFINE row == [status |-> "Unpaid", po |-> p, sub |-> sub,
                   grand |-> grand, paid |-> 0, balance |-> grand]
           raised == [db EXCEPT !.invoice[i] = row]
           e == request'[c].after
<1>0. db \in DbType
  BY DEF TypeOK
<1>1. /\ e = IF p = NoPo THEN raised
             ELSE [raised EXCEPT !.po[p] = ApplyPoConsumption(@, grand)]
      /\ db.invoice[i].status = "Absent"
      /\ p # NoPo => Live(db.po[p])
  BY DEF CreateInvoice, Serve, FreshInvoice, TypeOK, Covers, Live
<1>2. Live(row) /\ row.po = p /\ row.grand = grand /\ ~Live(db.invoice[i])
  BY <1>1 DEF Live
<1> HIDE DEF row
<1>3. /\ raised.po = db.po /\ raised.drift = db.drift
      /\ raised.invoice = [db.invoice EXCEPT ![i] = row]
      /\ DOMAIN raised = DOMAIN db
  BY <1>0 DEF DbType
<1>4. /\ e.drift = db.drift /\ e.invoice = [db.invoice EXCEPT ![i] = row]
      /\ \A q \in Pos : e.po[q] = IF q = p THEN ApplyPoConsumption(db.po[q], grand)
                                  ELSE db.po[q]
  BY <1>0, <1>1, <1>3, ConstantsAssumption DEF DbType
<1> HIDE DEF raised, e
<1>5. /\ e.invoice[i] = row
      /\ \A j \in Invoices \ {i} : e.invoice[j] = db.invoice[j]
  BY <1>0, <1>4 DEF DbType
<1>6. e \in DbType
  BY DEF e
<1>7. \A q \in Pos : /\ Billed(db, q)[i] = 0
                     /\ Billed(e, q)[i] = IF q = p THEN grand ELSE 0
  BY <1>0, <1>2, <1>5, <1>6, BilledIs
<1>8. ASSUME NEW q \in Pos
      PROVE  \/ e.po[q] = db.po[q] /\ e.drift[q] = db.drift[q]
                    /\ Billed(e, q)[i] = Billed(db, q)[i]
             \/ /\ Live(db.po[q]) /\ Live(e.po[q])
                /\ e.po[q].consumed + e.drift[q] =
                      db.po[q].consumed + db.drift[q]
                          + (Billed(e, q)[i] - Billed(db, q)[i])
  <2>1. CASE q # p
    BY <1>4, <1>7, <2>1
  <2>2. CASE q = p
    <3>1. db.po[q] \in PoRow /\ db.po[q].consumed \in Int /\ db.drift[q] \in Int
      BY <1>0 DEF DbType, PoRow
    <3>2. Live(e.po[q]) /\ e.po[q].consumed = db.po[q].consumed + grand
      BY <1>4, <2>2, <3>1, Posted
    <3>3. Live(db.po[q])
      BY <1>1, <2>2, ConstantsAssumption
    <3> QED BY <1>4, <1>7, <2>2, <3>1, <3>2, <3>3
  <2> QED BY <2>1, <2>2
<1>9. Balanced(e)
  BY <1>0, <1>5, <1>6, <1>8, InvoicePosted
<1> QED BY <1>9 DEF e

LEMMA BalancedRerating ==
    ASSUME TypeOK, Referential(db), Balanced(db), NEW c \in Clerks,
           NEW i \in Invoices, NEW grand \in Nat, UpdateInvoice(c, i, grand),
           request'[c].after \in DbType
    PROVE  Balanced(request'[c].after)
<1> DEFINE row == db.invoice[i]
           at == [row EXCEPT !.grand = grand]
           v == ApplyInvoicePayment(at, 0)
           rerated == [db EXCEPT !.invoice[i] = v]
           e == request'[c].after
<1>0. db \in DbType
  BY DEF TypeOK
<1>1. /\ e = IF row.po = NoPo THEN rerated
             ELSE [rerated EXCEPT !.drift[row.po] = @ + grand - row.grand]
      /\ Live(row)
  BY DEF UpdateInvoice, Serve, TypeOK
<1>2. /\ row \in InvoiceRow /\ row.grand \in Nat
      /\ at \in InvoiceRow /\ at.po = row.po /\ at.grand = grand
  <2>1. row \in InvoiceRow
    BY <1>0 DEF DbType
  <2> HIDE DEF row
  <2> QED BY <2>1 DEF InvoiceRow
<1> HIDE DEF at, row
<1>3. Live(v) /\ v.po = row.po /\ v.grand = grand
  BY <1>2, PaidInvoice
<1> HIDE DEF v
<1>4. /\ rerated.po = db.po /\ rerated.drift = db.drift
      /\ rerated.invoice = [db.invoice EXCEPT ![i] = v]
      /\ DOMAIN rerated = DOMAIN db
  BY <1>0 DEF DbType
<1>5. row.po = NoPo \/ row.po \in Pos
  BY <1>2 DEF InvoiceRow
<1>6. /\ e.po = db.po /\ e.invoice = [db.invoice EXCEPT ![i] = v]
      /\ \A q \in Pos : e.drift[q] = IF q = row.po
                                     THEN db.drift[q] + grand - row.grand
                                     ELSE db.drift[q]
  BY <1>0, <1>1, <1>4, <1>5, ConstantsAssumption DEF DbType
<1> HIDE DEF rerated, e
<1>7. e.invoice[i] = v /\ \A j \in Invoices \ {i} : e.invoice[j] = db.invoice[j]
  BY <1>0, <1>6 DEF DbType
<1>8. e \in DbType
  BY DEF e
<1>9. \A q \in Pos : /\ Billed(db, q)[i] = IF q = row.po THEN row.grand ELSE 0
                     /\ Billed(e, q)[i] = IF q = row.po THEN grand ELSE 0
  <2>1. \A q \in Pos : Billed(e, q)[i] = IF q = row.po THEN grand ELSE 0
    BY <1>3, <1>7, <1>8, BilledIs
  <2>2. \A q \in Pos : Billed(db, q)[i] = IF q = row.po THEN row.grand ELSE 0
    BY <1>0, <1>1, BilledIs DEF row
  <2> QED BY <2>1, <2>2
<1>10. ASSUME NEW q \in Pos
       PROVE  \/ e.po[q] = db.po[q] /\ e.drift[q] = db.drift[q]
                    /\ Billed(e, q)[i] = Billed(db, q)[i]
              \/ /\ Live(db.po[q]) /\ Live(e.po[q])
                 /\ e.po[q].consumed + e.drift[q] =
                      db.po[q].consumed + db.drift[q]
                          + (Billed(e, q)[i] - Billed(db, q)[i])
  <2>1. CASE q # row.po
    BY <1>6, <1>9, <2>1
  <2>2. CASE q = row.po
    <3>1. db.po[q].consumed \in Int /\ db.drift[q] \in Int
      BY <1>0 DEF DbType, PoRow
    <3>2. Live(db.po[q])
      BY <1>1, <2>2, ConstantsAssumption DEF Referential, row
    <3> QED BY <1>2, <1>6, <1>9, <2>2, <3>1, <3>2
  <2> QED BY <2>1, <2>2
<1>11. Balanced(e)
  BY <1>0, <1>7, <1>8, <1>10, InvoicePosted
<1> QED BY <1>11 DEF e

LEMMA BalancedDeletion ==
    ASSUME TypeOK, Referential(db), Balanced(db), NEW c \in Clerks,
           NEW i \in Invoices, DeleteInvoice(c, i), request'[c].after \in DbType
    PROVE  Balanced(request'[c].after)
<1> DEFINE row == db.invoice[i]
           r == RemoveInvoices(db, {i})
           e == request'[c].after
<1>0. db \in DbType
  BY DEF TypeOK
<1>1. e = Cascade(db, i) /\ Live(row) /\ db.received[i] = 0 /\ db.remitted[i] = 0
  BY DEF DeleteInvoice, InvoiceDeletable, Serve, TypeOK
<1>2. /\ r \in DbType /\ r.po = db.po /\ r.drift = db.drift
      /\ \A j \in Invoices :
           r.invoice[j] = IF j = i THEN DeletedInvoice ELSE db.invoice[j]
  BY <1>0, <1>1, RemoveType DEF Legal
<1>3. e = IF row.po = NoPo THEN r
          ELSE [r EXCEPT !.po[row.po] = ApplyPoConsumption(@, -row.grand)]
  BY <1>1 DEF Cascade
<1>4. row.grand \in Nat /\ (row.po = NoPo \/ row.po \in Pos)
  BY <1>0 DEF DbType, InvoiceRow
<1> HIDE DEF r, row
<1>5. /\ e.drift = db.drift /\ e.invoice = r.invoice
      /\ \A q \in Pos : e.po[q] = IF q = row.po
                                  THEN ApplyPoConsumption(db.po[q], -row.grand)
                                  ELSE db.po[q]
  BY <1>2, <1>3, <1>4, ConstantsAssumption DEF DbType
<1> HIDE DEF e
<1>6. e \in DbType
  BY DEF e
<1>7. \A q \in Pos : /\ Billed(db, q)[i] = IF q = row.po THEN row.grand ELSE 0
                     /\ Billed(e, q)[i] = 0
  BY <1>0, <1>1, <1>2, <1>5, <1>6, BilledIs, DeletedRows DEF row
<1>8. ASSUME NEW q \in Pos
      PROVE  \/ e.po[q] = db.po[q] /\ e.drift[q] = db.drift[q]
                    /\ Billed(e, q)[i] = Billed(db, q)[i]
             \/ /\ Live(db.po[q]) /\ Live(e.po[q])
                /\ e.po[q].consumed + e.drift[q] =
                      db.po[q].consumed + db.drift[q]
                          + (Billed(e, q)[i] - Billed(db, q)[i])
  <2>1. CASE q # row.po
    BY <1>5, <1>7, <2>1
  <2>2. CASE q = row.po
    <3>1. /\ db.po[q] \in PoRow /\ db.po[q].consumed \in Int
          /\ db.drift[q] \in Int /\ -row.grand \in Int
      BY <1>0, <1>4 DEF DbType, PoRow
    <3>2. Live(e.po[q]) /\ e.po[q].consumed = db.po[q].consumed + (-row.grand)
      BY <1>5, <2>2, <3>1, Posted
    <3>3. Live(db.po[q])
      BY <1>1, <2>2, ConstantsAssumption DEF Referential, row
    <3> QED BY <1>4, <1>5, <1>7, <2>2, <3>1, <3>2, <3>3
  <2> QED BY <2>1, <2>2
<1>9. Balanced(e)
  BY <1>0, <1>2, <1>5, <1>6, <1>8, InvoicePosted
<1> QED BY <1>9 DEF e

LEMMA BalancedInvoiceRequest ==
    ASSUME TypeOK, Referential(db), Balanced(db), NEW c \in Clerks, InvoiceRequest(c)
    PROVE  Balanced(request'[c].after)
<1> DEFINE e == request'[c].after
<1>0. db \in DbType /\ e \in DbType
  BY TypeInvoiceRequest DEF TypeOK, Legal
<1>1. ASSUME NEW i \in Invoices, NEW p \in Pos \cup {NoPo}, NEW sub \in SubTotals,
             NEW tax \in {0, Tax}, CreateInvoice(c, i, p, sub, sub + tax)
      PROVE  Balanced(e)
  <2>1. sub + tax \in Nat
    BY ConstantsAssumption
  <2> QED BY <1>0, <1>1, <2>1, BalancedCreation
<1>2. ASSUME NEW i \in Invoices, NEW tax \in {0, Tax},
             UpdateInvoice(c, i, db.invoice[i].sub + tax)
      PROVE  Balanced(e)
  <2>1. db.invoice[i].sub + tax \in Nat
    BY <1>0, ConstantsAssumption DEF DbType, InvoiceRow
  <2> QED BY <1>0, <1>2, <2>1, BalancedRerating
<1>3. ASSUME NEW i \in Invoices, NEW a \in Amounts, RecordPayment(c, i, a)
      PROVE  Balanced(e)
  <2> DEFINE row == ApplyInvoicePayment(db.invoice[i], a)
  <2>1. /\ e = [db EXCEPT !.invoice[i] = row, !.received[i] = @ + a]
        /\ Live(db.invoice[i])
    BY <1>3 DEF RecordPayment, Payable, Serve, TypeOK
  <2>2. a \in Nat /\ db.invoice[i] \in InvoiceRow
    BY <1>0, ConstantsAssumption DEF DbType
  <2>3. Live(row) /\ row.po = db.invoice[i].po /\ row.grand = db.invoice[i].grand
    BY <2>2, PaidInvoice
  <2> HIDE DEF row
  <2>4. /\ e.po = db.po /\ e.drift = db.drift
        /\ e.invoice = [db.invoice EXCEPT ![i] = row]
    BY <1>0, <2>1 DEF DbType
  <2> HIDE DEF e
  <2> QED BY <1>0, <2>1, <2>3, <2>4, InvoiceKept
<1>4. ASSUME NEW i \in Invoices,
             \/ \E a \in TdsAmounts : RecordTds(c, i, a) \/ TdsPayment(c, i, a)
             \/ DeleteTds(c, i)
      PROVE  Balanced(e)
  <2>1. ASSUME NEW a \in TdsAmounts, RecordTds(c, i, a)
        PROVE  \E row : e = [db EXCEPT !.tds[i] = row]
    BY <2>1 DEF RecordTds, Serve, TypeOK
  <2>2. ASSUME NEW a \in TdsAmounts, TdsPayment(c, i, a)
        PROVE  \E row : e = [db EXCEPT !.tds[i] = row, !.remitted[i] = @ + a]
    BY <2>2 DEF TdsPayment, Serve, TypeOK
  <2>3. ASSUME DeleteTds(c, i)
        PROVE  \E row : e = [db EXCEPT !.tds[i] = row]
    BY <2>3 DEF DeleteTds, Serve, TypeOK
  <2>4. e.po = db.po /\ e.drift = db.drift /\ e.invoice = db.invoice
    BY <1>0, <1>4, <2>1, <2>2, <2>3 DEF DbType
  <2> HIDE DEF e
  <2> QED BY <1>0, <2>4, BillsUntouched
<1>5. ASSUME NEW i \in Invoices, DeleteInvoice(c, i)
      PROVE  Balanced(e)
  BY <1>0, <1>5, BalancedDeletion
<1> HIDE DEF e
<1>6. Balanced(e)
  BY <1>1, <1>2, <1>3, <1>4, <1>5 DEF InvoiceRequest
<1> QED BY <1>6 DEF e

LEMMA BalancedNoteRequest ==
    ASSUME TypeOK, Referential(db), Balanced(db), NEW c \in Clerks, NoteRequest(c)
    PROVE  Balanced(request'[c].after)
<1> DEFINE e == request'[c].after
<1>0. db \in DbType /\ e \in DbType
  BY TypeNoteRequest DEF TypeOK, Legal
<1>1. ASSUME NEW n \in Notes,
             \/ \E i \in Invoices, a \in Amounts : CreateCreditNote(c, n, i, a)
             \/ ApproveCreditNote(c, n) \/ CancelCreditNote(c, n)
      PROVE  Balanced(e)
  <2>1. \E v : e = [db EXCEPT !.note[n] = v]
    <3>1. ASSUME NEW i \in Invoices, NEW a \in Amounts, CreateCreditNote(c, n, i, a)
          PROVE  \E v : e = [db EXCEPT !.note[n] = v]
      BY <3>1 DEF CreateCreditNote, Serve, TypeOK
    <3>2. ASSUME ApproveCreditNote(c, n)
          PROVE  \E v : e = [db EXCEPT !.note[n] = v]
      BY <3>2 DEF ApproveCreditNote, Serve, TypeOK
    <3>3. ASSUME CancelCreditNote(c, n)
          PROVE  \E v : e = [db EXCEPT !.note[n] = v]
      BY <3>3 DEF CancelCreditNote, Serve, TypeOK
    <3> QED BY <1>1, <3>1, <3>2, <3>3
  <2>2. e.po = db.po /\ e.drift = db.drift /\ e.invoice = db.invoice
    BY <1>0, <2>1 DEF DbType
  <2> HIDE DEF e
  <2> QED BY <1>0, <2>2, BillsUntouched
<1>2. ASSUME NEW n \in Notes, NEW adjusts \in BOOLEAN, SettleCreditNote(c, n, adjusts)
      PROVE  Balanced(e)
  <2> DEFINE row == [db.note[n] EXCEPT !.status = "Settled", !.adjusts = adjusts]
             settled == [db EXCEPT !.note[n] = row]
             i == db.note[n].invoice
             v == Credited(db.invoice[i], db.note[n].total)
  <2>1. e = IF adjusts
            THEN [settled EXCEPT !.invoice[i] = Credited(@, db.note[n].total)]
            ELSE settled
    BY <1>2 DEF SettleCreditNote, Serve, TypeOK
  <2> HIDE DEF row
  <2>2. /\ settled.po = db.po /\ settled.drift = db.drift
        /\ settled.invoice = db.invoice /\ DOMAIN settled = DOMAIN db
    BY <1>0 DEF DbType
  <2> HIDE DEF settled
  <2>3. CASE ~adjusts \/ i \notin Invoices
    <3>1. e.po = db.po /\ e.drift = db.drift /\ e.invoice = db.invoice
      BY <1>0, <2>1, <2>2, <2>3 DEF DbType
    <3> HIDE DEF e
    <3> QED BY <1>0, <3>1, BillsUntouched
  <2>4. CASE adjusts /\ i \in Invoices
    <3>1. Live(db.invoice[i])
      BY <2>4 DEF Referential, NotesOf
    <3>2. db.invoice[i] \in InvoiceRow /\ db.note[n].total \in Nat
      BY <1>0, <2>4 DEF DbType, NoteRow
    <3>3. Live(v) /\ v.po = db.invoice[i].po /\ v.grand = db.invoice[i].grand
      BY <3>1, <3>2, CreditedInvoice
    <3>4. /\ e.po = db.po /\ e.drift = db.drift
          /\ e.invoice = [db.invoice EXCEPT ![i] = v]
      BY <1>0, <2>1, <2>2, <2>4 DEF DbType
    <3> HIDE DEF e, v, i
    <3> QED BY <1>0, <2>4, <3>1, <3>3, <3>4, InvoiceKept
  <2> QED BY <2>3, <2>4
<1> HIDE DEF e
<1>3. Balanced(e)
  BY <1>1, <1>2 DEF NoteRequest
<1> QED BY <1>3 DEF e

\* The books balance, and so will what a request in progress writes.
CInv == /\ BInv /\ Balanced(db)
        /\ \A c \in Clerks : request[c] # Idle => Balanced(request[c].after)

LEMMA CInvInit == Init => CInv
<1> SUFFICES ASSUME Init PROVE CInv
  OBVIOUS
<1>1. ASSUME NEW p \in Pos PROVE BalancedAt(db, p)
  BY <1>1, DeletedRows DEF Init, BalancedAt
<1> QED BY <1>1, BInvInit DEF CInv, Balanced, Init

LEMMA CInvStep == ASSUME Alone, CInv, [Next]_vars PROVE CInv'
<1>1. BInv' /\ TypeOK
  BY BInvStep DEF CInv, BInv, TInv
<1>2. ASSUME NEW c \in Clerks, PoRequest(c) \/ InvoiceRequest(c) \/ NoteRequest(c)
      PROVE  CInv'
  <2>1. UNCHANGED db /\ \A b \in Clerks : b = c
    BY <1>2, ServedSlot DEF Alone
  <2>2. Balanced(request'[c].after)
    BY <1>1, <1>2, BalancedPoRequest, BalancedInvoiceRequest, BalancedNoteRequest
    DEF CInv, BInv
  <2>3. Balanced(db)'
    BY <2>1 DEF CInv, Balanced, BalancedAt, Billed, InvoicesOf
  <2> QED BY <1>1, <2>1, <2>2, <2>3 DEF CInv
<1>3. ASSUME NEW c \in Clerks, Commit(c)
      PROVE  CInv'
  <2>1. /\ request[c].before = db /\ Balanced(request[c].after)
        /\ request[c].after \in DbType /\ db \in DbType
    BY <1>1, <1>3 DEF Commit, CInv, BInv, TypeOK
  <2>2. db' = request[c].after
    BY <1>3, <2>1, MergeAlone DEF Commit, Written
  <2>3. \A b \in Clerks : request'[b] = Idle
    BY <1>1, <1>3 DEF Commit, Alone, TypeOK
  <2> QED BY <1>1, <2>1, <2>2, <2>3 DEF CInv
<1>4. ASSUME NEW c \in Clerks, Rollback(c)
      PROVE  CInv'
  BY <1>1, <1>4 DEF Rollback, CInv, TypeOK
<1>5. CASE UNCHANGED vars
  BY <1>1, <1>5 DEF vars, CInv
<1> QED BY <1>2, <1>3, <1>4, <1>5 DEF Next

\* With one clerk at a time what an order has consumed is what its live invoices
\* bill, however they are raised, re-rated, paid, credited and deleted.
THEOREM ConsumptionInvoiced == ASSUME Alone PROVE Spec => []ConsumedIsInvoiced
<1>1. CInv => ConsumedIsInvoiced
  BY DEF CInv, Balanced, BalancedAt, ConsumedIsInvoiced, SumOver
<1>2. CInv /\ [Next]_vars => CInv'
  BY CInvStep
<1> QED BY <1>1, <1>2, CInvInit, PTL DEF Spec
=============================================================================
