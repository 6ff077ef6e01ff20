-------------------------- MODULE EmailOutboxProof --------------------------
(* Machine-checked safety of EmailOutbox, for any number of requests,       *)
(* workers and admins and any batch size.                                   *)
EXTENDS EmailOutbox, TLAPS

\* A transaction works only on rows it holds; what it has not handled yet is
\* as it was claimed.
TxnShape ==
    \A w \in Workers :
        /\ txn[w].todo \subseteq txn[w].held
        /\ \A q \in txn[w].held : txn[w].new[q].status # "Absent"
        /\ \A q \in txn[w].todo : txn[w].new[q].status = "Queued"

\* A row exists only once its request has committed, and admins retry only
\* rows that exist.
RowsComeFromRequests ==
    /\ \A q \in Requests : req[q] # "committed" => row[q].status = "Absent"
    /\ \A a \in Admins :
          Idle(a) \/ row[admin[a].target].status # "Absent"

\* Accepted by SMTP according to the table or to a transaction in progress.
MarkedSent(q) ==
    \/ row[q].status = "Sent"
    \/ \E w \in Workers : q \in txn[w].held /\ txn[w].new[q].status = "Sent"

\* Each accepted copy is marked exactly once.
Accounting ==
    \A q \in Requests : copies[q] = IF MarkedSent(q) THEN 1 ELSE 0

IInv == /\ TypeOK
        /\ ClaimsAreExclusive
        /\ TxnShape
        /\ RowsComeFromRequests
        /\ Accounting

\* The initial states satisfy the inductive invariant.
LEMMA InitIInv == Init => IInv
<1> SUFFICES ASSUME Init PROVE IInv
  OBVIOUS
<1>1. NoRow \in RowType
  BY DEF NoRow, RowType, Statuses
<1>2. NoTxn \in TxnType /\ NoTxn.held = {} /\ NoTxn.todo = {}
  BY <1>1 DEF NoTxn, TxnType
<1>3. NoRetry \in AdminType /\ NoRetry.seen = NoRow
  BY <1>1, ConstantsAssumption DEF NoRetry, AdminType
<1>4. TypeOK
  BY <1>1, <1>2, <1>3 DEF Init, TypeOK
<1>5. ClaimsAreExclusive /\ TxnShape
  BY <1>2 DEF Init, ClaimsAreExclusive, TxnShape
<1>6. RowsComeFromRequests /\ Accounting
  BY <1>2, <1>3
  DEF Init, RowsComeFromRequests, Idle, Accounting, MarkedSent, NoRow
<1> QED BY <1>4, <1>5, <1>6 DEF IInv

\* Queueing, switches and the clock touch no transaction.
LEMMA RequestSteps ==
    ASSUME IInv,
           \/ \E q \in Requests : \/ QueueEmail(q) \/ CommitRequest(q)
                                  \/ RollbackRequest(q) \/ BecomeDue(q)
           \/ \E e \in Events : ToggleEvent(e)
           \/ ToggleMaster
    PROVE IInv'
<1>1. ASSUME NEW q \in Requests, QueueEmail(q) PROVE IInv'
  BY <1>1 DEF QueueEmail, IInv, TypeOK, ClaimsAreExclusive, TxnShape,
     RowsComeFromRequests, Accounting, MarkedSent, Idle
<1>2. ASSUME NEW q \in Requests, CommitRequest(q) PROVE IInv'
  <2>0. row[q].status = "Absent" /\ \A w \in Workers : q \notin txn[w].held
    BY <1>2 DEF CommitRequest, IInv, RowsComeFromRequests, ClaimsAreExclusive
  <2>1. TypeOK'
    BY <1>2 DEF CommitRequest, IInv, TypeOK, RowType, NewRow, Statuses
  <2>2. row' = row \/ row' = [row EXCEPT ![q] = NewRow]
    BY <1>2 DEF CommitRequest
  <2>3. ClaimsAreExclusive' /\ TxnShape'
    BY <1>2, <2>0, <2>2
    DEF CommitRequest, IInv, TypeOK, ClaimsAreExclusive, TxnShape
  <2>4. RowsComeFromRequests'
    BY <1>2, <2>0
    DEF CommitRequest, IInv, TypeOK, RowsComeFromRequests, Idle, NewRow, AdminType
  <2>5. Accounting'
    BY <1>2, <2>0, <2>2
    DEF CommitRequest, IInv, TypeOK, Accounting, MarkedSent, NewRow
  <2> QED BY <2>1, <2>3, <2>4, <2>5 DEF IInv
<1>3. ASSUME NEW q \in Requests, RollbackRequest(q) PROVE IInv'
  BY <1>3 DEF RollbackRequest, IInv, TypeOK, ClaimsAreExclusive, TxnShape,
     RowsComeFromRequests, Accounting, MarkedSent, Idle
<1>4. ASSUME NEW q \in Requests, BecomeDue(q) PROVE IInv'
  <2>1. TypeOK'
    BY <1>4 DEF BecomeDue, IInv, TypeOK, RowType
  <2>2. \A p \in Requests : row'[p].status = row[p].status
    BY <1>4 DEF BecomeDue, IInv, TypeOK, RowType
  <2>3. ClaimsAreExclusive' /\ TxnShape'
    BY <1>4, <2>2 DEF BecomeDue, IInv, TypeOK, TxnType, ClaimsAreExclusive, TxnShape
  <2>4. RowsComeFromRequests' /\ Accounting'
    BY <1>4, <2>2
    DEF BecomeDue, IInv, TypeOK, AdminType, RowsComeFromRequests, Idle,
        Accounting, MarkedSent
  <2> QED BY <2>1, <2>3, <2>4 DEF IInv
<1>5. ASSUME NEW e \in Events, ToggleEvent(e) PROVE IInv'
  BY <1>5 DEF ToggleEvent, IInv, TypeOK, ClaimsAreExclusive, TxnShape,
     RowsComeFromRequests, Accounting, MarkedSent, Idle
<1>6. CASE ToggleMaster
  BY <1>6 DEF ToggleMaster, IInv, TypeOK, ClaimsAreExclusive, TxnShape,
     RowsComeFromRequests, Accounting, MarkedSent, Idle
<1> QED BY <1>1, <1>2, <1>3, <1>4, <1>5, <1>6

\* Claiming: the rows taken are Queued and free, so they become exclusive.
LEMMA ClaimStep ==
    ASSUME IInv, NEW w \in Workers, Claim(w) PROVE IInv'
<1>1. PICK S \in SUBSET Requests :
        /\ Claims(S)
        /\ txn' = [txn EXCEPT ![w] =
              [held |-> S, todo |-> S, master |-> master,
               new |-> [q \in Requests |-> IF q \in S THEN row[q] ELSE NoRow]]]
  BY DEF Claim
<1>2. \A q \in S : row[q].status = "Queued" /\ ~Held(q)
  BY <1>1 DEF Claims, Claimable
<1>3. TypeOK'
  BY <1>1 DEF Claim, IInv, TypeOK, TxnType, RowType, NoRow, Statuses
<1>4. ClaimsAreExclusive'
  BY <1>1, <1>2 DEF Claim, IInv, TypeOK, TxnType, ClaimsAreExclusive, Held
<1>5. TxnShape'
  BY <1>1, <1>2 DEF Claim, IInv, TypeOK, TxnType, TxnShape
<1>6. RowsComeFromRequests'
  BY DEF Claim, IInv, RowsComeFromRequests, Idle
<1>7. \A q \in Requests : MarkedSent(q)' <=> MarkedSent(q)
  BY <1>1, <1>2 DEF Claim, IInv, TypeOK, TxnType, MarkedSent, Held
<1>8. Accounting'
  BY <1>7 DEF Claim, IInv, Accounting
<1> QED BY <1>3, <1>4, <1>5, <1>6, <1>8 DEF IInv

\* The objects a sending and a failing attempt leave in the session.
LEMMA SentObject ==
    ASSUME NEW n \in RowType,
           NEW r, r = [n EXCEPT !.status = "Sent", !.attempts = @ + 1]
    PROVE r \in RowType /\ r.status = "Sent"
<1>1. r = [status |-> "Sent", attempts |-> n.attempts + 1, due |-> n.due]
  BY DEF RowType
<1> QED BY <1>1 DEF RowType, Statuses

LEMMA FailedObject ==
    ASSUME NEW n \in RowType, n.status = "Queued",
           NEW r, r = AfterFailure(n)
    PROVE r \in RowType /\ r.status \in {"Queued", "Failed"}
<1>1. CASE n.attempts + 1 >= MaxAttempts
  <2>1. r = [status |-> "Failed", attempts |-> n.attempts + 1, due |-> n.due]
    BY <1>1 DEF AfterFailure, RowType
  <2> QED BY <2>1 DEF RowType, Statuses
<1>2. CASE ~(n.attempts + 1 >= MaxAttempts)
  <2>1. r = [status |-> n.status, attempts |-> n.attempts + 1, due |-> FALSE]
    BY <1>2 DEF AfterFailure, RowType
  <2> QED BY <2>1 DEF RowType, Statuses
<1> QED BY <1>1, <1>2

\* Handling one row of the batch: the session's copy changes, nothing else.
LEMMA HandleStep ==
    ASSUME IInv, NEW w \in Workers, NEW q \in txn[w].todo, NEW r \in RowType,
           Handle(w, q, r), r.status # "Absent",
           UNCHANGED <<row, req, disabled, master, admin, crashes>>,
           copies' = IF r.status = "Sent"
                     THEN [copies EXCEPT ![q] = @ + 1] ELSE copies
    PROVE IInv'
<1>0. q \in txn[w].held /\ q \in Requests /\ txn[w].new[q].status = "Queued"
  BY DEF IInv, TypeOK, TxnType, TxnShape
<1>1. /\ txn[w] \in TxnType
      /\ txn' = [txn EXCEPT ![w] =
           [txn[w] EXCEPT !.todo = @ \ {q}, !.new = [@ EXCEPT ![q] = r]]]
  BY DEF Handle, IInv, TypeOK, TxnType
<1>2. /\ txn'[w].held = txn[w].held
      /\ txn'[w].todo = txn[w].todo \ {q}
      /\ txn'[w].new = [txn[w].new EXCEPT ![q] = r]
      /\ \A v \in Workers \ {w} : txn'[v] = txn[v]
  BY <1>1 DEF IInv, TypeOK, TxnType
<1>3. TypeOK'
  <2>1. [txn[w] EXCEPT !.todo = @ \ {q}, !.new = [@ EXCEPT ![q] = r]] \in TxnType
    BY <1>0, <1>1 DEF TxnType
  <2>2. txn' \in [Workers -> TxnType]
    BY <1>1, <2>1 DEF IInv, TypeOK
  <2> QED BY <1>0, <2>2 DEF IInv, TypeOK
<1>4. ClaimsAreExclusive'
  BY <1>2 DEF IInv, ClaimsAreExclusive
<1>5. TxnShape'
  <2>1. \A p \in Requests : txn'[w].new[p] = IF p = q THEN r ELSE txn[w].new[p]
    BY <1>1, <1>2 DEF TxnType
  <2>2. \A v \in Workers : txn[v].held \subseteq Requests /\ txn[v].todo \subseteq Requests
    BY DEF IInv, TypeOK, TxnType
  <2>3. /\ txn[w].todo \subseteq txn[w].held
        /\ \A p \in txn[w].held : txn[w].new[p].status # "Absent"
        /\ \A p \in txn[w].todo : txn[w].new[p].status = "Queued"
    BY DEF IInv, TxnShape
  <2>4. /\ txn'[w].todo \subseteq txn'[w].held
        /\ \A p \in txn'[w].held : txn'[w].new[p].status # "Absent"
        /\ \A p \in txn'[w].todo : txn'[w].new[p].status = "Queued"
    BY <1>2, <2>1, <2>2, <2>3
  <2>5. ASSUME NEW v \in Workers \ {w}
        PROVE  /\ txn'[v].todo \subseteq txn'[v].held
               /\ \A p \in txn'[v].held : txn'[v].new[p].status # "Absent"
               /\ \A p \in txn'[v].todo : txn'[v].new[p].status = "Queued"
    <3>1. txn'[v] = txn[v]
      BY <1>2
    <3> QED BY <3>1 DEF IInv, TxnShape
  <2> QED BY <2>4, <2>5 DEF TxnShape
<1>6. RowsComeFromRequests'
  BY DEF IInv, RowsComeFromRequests, Idle
<1>7. Accounting'
  <2>1. row[q].status = "Queued" /\ \A v \in Workers \ {w} : q \notin txn[v].held
    BY <1>0 DEF IInv, ClaimsAreExclusive
  <2>2. ~MarkedSent(q) /\ (MarkedSent(q)' <=> r.status = "Sent")
    BY <1>0, <1>2, <2>1 DEF MarkedSent, IInv, TypeOK, TxnType
  <2>3. \A p \in Requests \ {q} : MarkedSent(p)' <=> MarkedSent(p)
    BY <1>1, <1>2 DEF MarkedSent, IInv, TypeOK, TxnType
  <2>4. copies[q] = 0
    BY <1>0, <2>2 DEF IInv, Accounting
  <2> QED BY <1>0, <2>2, <2>3, <2>4 DEF IInv, TypeOK, Accounting
<1> QED BY <1>3, <1>4, <1>5, <1>6, <1>7 DEF IInv

\* Losing a transaction disowns the copies it had sent.
LEMMA RollbackStep ==
    ASSUME IInv, NEW w \in Workers, RollbackBatch(w),
           crashes' = crashes \/ crashes' = crashes + 1
    PROVE IInv'
<1>1. /\ txn' = [txn EXCEPT ![w] = NoTxn]
      /\ txn'[w].held = {} /\ txn'[w].todo = {}
      /\ \A v \in Workers \ {w} : txn'[v] = txn[v]
  BY DEF RollbackBatch, IInv, TypeOK, NoTxn
<1>2. \A q \in Requests :
        copies'[q] = IF q \in txn[w].held /\ txn[w].new[q].status = "Sent"
                     THEN copies[q] - 1 ELSE copies[q]
  BY DEF RollbackBatch
<1>3. ASSUME NEW q \in Requests PROVE copies'[q] = IF MarkedSent(q)' THEN 1 ELSE 0
  <2>1. CASE q \in txn[w].held
    <3>1. row[q].status = "Queued" /\ \A v \in Workers \ {w} : q \notin txn[v].held
      BY <2>1 DEF IInv, ClaimsAreExclusive
    <3>2. ~MarkedSent(q)'
      BY <1>1, <3>1 DEF MarkedSent, RollbackBatch
    <3>3. MarkedSent(q) <=> txn[w].new[q].status = "Sent"
      BY <2>1, <3>1 DEF MarkedSent
    <3> QED BY <1>2, <2>1, <3>2, <3>3 DEF IInv, Accounting
  <2>2. CASE q \notin txn[w].held
    <3>1. MarkedSent(q)' <=> MarkedSent(q)
      BY <1>1, <2>2 DEF MarkedSent, RollbackBatch
    <3> QED BY <1>2, <2>2, <3>1 DEF IInv, Accounting
  <2> QED BY <2>1, <2>2
<1>4. copies' = [q \in Requests |-> copies'[q]] /\ \A q \in Requests : copies'[q] \in Nat
  BY <1>3 DEF RollbackBatch
<1>5. NoTxn \in TxnType
  BY DEF NoTxn, TxnType, NoRow, RowType, Statuses
<1>6. TypeOK'
  BY <1>1, <1>4, <1>5 DEF RollbackBatch, IInv, TypeOK
<1>7. ClaimsAreExclusive' /\ TxnShape'
  BY <1>1 DEF RollbackBatch, IInv, ClaimsAreExclusive, TxnShape
<1>8. RowsComeFromRequests'
  BY DEF RollbackBatch, IInv, RowsComeFromRequests, Idle
<1>9. Accounting'
  BY <1>3 DEF Accounting
<1> QED BY <1>6, <1>7, <1>8, <1>9 DEF IInv

\* The commit turns the session's marks into the table's.
LEMMA CommitStep ==
    ASSUME IInv, NEW w \in Workers, CommitBatch(w) PROVE IInv'
<1>1. /\ txn' = [txn EXCEPT ![w] = NoTxn]
      /\ txn'[w].held = {} /\ txn'[w].todo = {}
      /\ \A v \in Workers \ {w} : txn'[v] = txn[v]
  BY DEF CommitBatch, IInv, TypeOK, NoTxn
<1>2. \A q \in Requests :
        row'[q] = IF q \in txn[w].held THEN txn[w].new[q] ELSE row[q]
  BY DEF CommitBatch
<1>3. TypeOK'
  <2>1. NoTxn \in TxnType
    BY DEF NoTxn, TxnType, NoRow, RowType, Statuses
  <2>2. row' \in [Requests -> RowType]
    BY DEF CommitBatch, IInv, TypeOK, TxnType
  <2> QED BY <1>1, <2>1, <2>2 DEF CommitBatch, IInv, TypeOK
<1>4. ClaimsAreExclusive' /\ TxnShape'
  BY <1>1, <1>2 DEF IInv, TypeOK, TxnType, ClaimsAreExclusive, TxnShape
<1>5. \A q \in txn[w].held : row[q].status = "Queued" /\ row'[q].status # "Absent"
  BY <1>2 DEF IInv, TypeOK, TxnType, ClaimsAreExclusive, TxnShape
<1>6. RowsComeFromRequests'
  BY <1>2, <1>5 DEF CommitBatch, IInv, TypeOK, AdminType, RowsComeFromRequests, Idle
<1>7. \A q \in Requests : MarkedSent(q)' <=> MarkedSent(q)
  BY <1>1, <1>2, <1>5 DEF IInv, ClaimsAreExclusive, MarkedSent
<1>8. Accounting'
  BY <1>7 DEF CommitBatch, IInv, Accounting
<1> QED BY <1>3, <1>4, <1>6, <1>8 DEF IInv

\* What an admin's UPDATE leaves in the row.
LEMMA RewrittenObject ==
    ASSUME NEW seen \in RowType, NEW r \in RowType
    PROVE /\ Rewritten(seen, r) \in RowType
          /\ \/ Rewritten(seen, r).status = "Queued"
             \/ Rewritten(seen, r).status = r.status
  BY DEF Rewritten, RowType, Statuses

\* An admin's retry: it writes only rows no worker holds.
LEMMA RetrySteps ==
    ASSUME IInv, NEW a \in Admins,
           RetryWrite(a) \/ \E q \in Requests : RetryRead(a, q)
    PROVE IInv'
<1>1. ASSUME NEW q \in Requests, RetryRead(a, q) PROVE IInv'
  BY <1>1 DEF RetryRead, IInv, TypeOK, AdminType, ClaimsAreExclusive, TxnShape,
     RowsComeFromRequests, Accounting, MarkedSent, Idle
<1>2. CASE RetryWrite(a)
  <2>1. PICK q \in Requests : q = admin[a].target
    BY DEF IInv, TypeOK, AdminType
  <2>2. PICK r \in RowType : /\ r = Rewritten(admin[a].seen, row[q])
                             /\ r.status = "Queued" \/ r.status = row[q].status
    <3>1. row[q] \in RowType /\ admin[a].seen \in RowType
      BY DEF IInv, TypeOK, AdminType
    <3> QED BY <3>1, RewrittenObject
  <2>0. /\ ~Idle(a) /\ \A w \in Workers : q \notin txn[w].held
        /\ row' = [row EXCEPT ![q] = r]
        /\ row'[q] = r
        /\ \A p \in Requests \ {q} : row'[p] = row[p] /\ copies'[p] = copies[p]
        /\ admin' = [admin EXCEPT ![a] = NoRetry]
        /\ copies'[q] = IF row[q].status = "Sent" /\ r.status # "Sent"
                        THEN copies[q] - 1 ELSE copies[q]
        /\ copies' = [copies EXCEPT ![q] =
                        IF row[q].status = "Sent" /\ r.status # "Sent"
                        THEN @ - 1 ELSE @]
        /\ UNCHANGED <<req, disabled, master, txn, crashes>>
    BY <1>2, <2>1, <2>2 DEF RetryWrite, Held, IInv, TypeOK
  <2>3. row[q].status # "Absent" /\ r.status # "Absent"
    BY <2>0, <2>1, <2>2 DEF IInv, RowsComeFromRequests
  <2>4. MarkedSent(q) <=> row[q].status = "Sent"
    BY <2>0 DEF MarkedSent
  <2>5. MarkedSent(q)' <=> r.status = "Sent"
    BY <2>0 DEF MarkedSent
  <2>6. \A p \in Requests \ {q} : MarkedSent(p)' <=> MarkedSent(p)
    BY <2>0 DEF MarkedSent
  <2>7. copies[q] = IF row[q].status = "Sent" THEN 1 ELSE 0
    BY <2>4 DEF IInv, Accounting
  <2>8. copies'[q] = IF r.status = "Sent" THEN 1 ELSE 0
    BY <2>0, <2>2, <2>7 DEF IInv, TypeOK
  <2>9. TypeOK'
    <3>1. NoRetry \in AdminType
      BY ConstantsAssumption DEF NoRetry, AdminType, NoRow, RowType, Statuses
    <3> QED BY <2>0, <2>8, <3>1 DEF IInv, TypeOK
  <2>10. ClaimsAreExclusive' /\ TxnShape'
    BY <2>0 DEF IInv, TypeOK, ClaimsAreExclusive, TxnShape
  <2>11. RowsComeFromRequests'
    BY <2>0, <2>1, <2>3
    DEF IInv, TypeOK, AdminType, RowsComeFromRequests, Idle, NoRetry
  <2>12. Accounting'
    BY <2>0, <2>5, <2>6, <2>8 DEF IInv, Accounting
  <2> QED BY <2>9, <2>10, <2>11, <2>12 DEF IInv
<1> QED BY <1>1, <1>2

\* Every step preserves the inductive invariant.
LEMMA NextIInv == IInv /\ [Next]_vars => IInv'
<1> SUFFICES ASSUME IInv, [Next]_vars PROVE IInv'
  OBVIOUS
<1>1. ASSUME NEW w \in Workers, WorkerStep(w) PROVE IInv'
  <2>1. CASE Claim(w)
    BY <2>1, ClaimStep
  <2>2. CASE CommitBatch(w)
    BY <2>2, CommitStep
  <2>3. ASSUME NEW q \in Requests, Skip(w, q) PROVE IInv'
    <3>1. q \in txn[w].todo /\ txn[w].new[q] \in RowType
      BY <2>3 DEF Skip, IInv, TypeOK, TxnType
    <3> DEFINE r == [txn[w].new[q] EXCEPT !.status = "Skipped"]
    <3>2. r \in RowType /\ r.status = "Skipped"
      BY <3>1 DEF RowType, Statuses
    <3> HIDE DEF r
    <3>3. Handle(w, q, r)
      BY <2>3 DEF Skip, r
    <3> QED BY <2>3, <3>1, <3>2, <3>3, HandleStep DEF Skip
  <2>4. ASSUME NEW q \in Requests, SendOk(w, q) PROVE IInv'
    <3>1. q \in txn[w].todo /\ txn[w].new[q] \in RowType
      BY <2>4 DEF SendOk, Sends, IInv, TypeOK, TxnType
    <3> DEFINE r == [txn[w].new[q] EXCEPT !.status = "Sent", !.attempts = @ + 1]
    <3>2. r \in RowType /\ r.status = "Sent"
      BY <3>1, SentObject
    <3>3. Handle(w, q, r)
      BY <2>4 DEF SendOk
    <3> HIDE DEF r
    <3> QED BY <2>4, <3>1, <3>2, <3>3, HandleStep DEF SendOk
  <2>5. ASSUME NEW q \in Requests, SendFails(w, q) PROVE IInv'
    <3>1. q \in txn[w].todo /\ txn[w].new[q] \in RowType
      BY <2>5 DEF SendFails, Sends, IInv, TypeOK, TxnType
    <3> DEFINE r == AfterFailure(txn[w].new[q])
    <3>2. txn[w].new[q].status = "Queued"
      BY <3>1 DEF IInv, TxnShape
    <3>3. r \in RowType /\ r.status \in {"Queued", "Failed"}
      BY <3>1, <3>2, FailedObject
    <3>4. Handle(w, q, r)
      BY <2>5 DEF SendFails
    <3> HIDE DEF r
    <3> QED BY <2>5, <3>1, <3>3, <3>4, HandleStep DEF SendFails
  <2>6. ASSUME NEW q \in Requests, SendRaises(w, q) PROVE IInv'
    BY <2>6, RollbackStep DEF SendRaises
  <2> QED BY <1>1, <2>1, <2>2, <2>3, <2>4, <2>5, <2>6 DEF WorkerStep
<1>2. ASSUME NEW w \in Workers, Crash(w) PROVE IInv'
  BY <1>2, RollbackStep DEF Crash
<1>3. CASE UNCHANGED vars
  BY <1>3 DEF vars, IInv, TypeOK, ClaimsAreExclusive, TxnShape,
     RowsComeFromRequests, Accounting, MarkedSent, Idle
<1> QED BY <1>1, <1>2, <1>3, RequestSteps, RetrySteps DEF Next

\* The inductive invariant holds in every reachable state.
THEOREM Invariance == Spec => []IInv
  BY InitIInv, NextIInv, PTL DEF Spec

\* Type correctness of the outbox.
THEOREM TypeCorrect == Spec => []TypeOK
<1>1. IInv => TypeOK
  BY DEF IInv
<1> QED BY <1>1, Invariance, PTL

\* SKIP LOCKED keeps every claimed row with one worker and out of the reach
\* of the retry endpoint (email_outbox.py:7-9, 372-380).
THEOREM Exclusive == Spec => []ClaimsAreExclusive
<1>1. IInv => ClaimsAreExclusive
  BY DEF IInv
<1> QED BY <1>1, Invariance, PTL

\* A mail leaves at most once, apart from what a lost batch or a reopened
\* Sent row accounts for (email_outbox.py:388-460).
THEOREM Delivery == Spec => []AtMostOnce
<1>1. IInv => AtMostOnce
  BY DEF IInv, Accounting, AtMostOnce
<1> QED BY <1>1, Invariance, PTL

\* The status of a row tells whether its mail has left.
THEOREM StatusTold == Spec => []StatusTellsDelivery
<1>1. IInv => StatusTellsDelivery
  BY DEF IInv, Accounting, MarkedSent, ClaimsAreExclusive, StatusTellsDelivery
<1> QED BY <1>1, Invariance, PTL
----------------------------------------------------------------------------
(* Without retries by admins.                                              *)

\* An attempt is left exactly as long as the row waits.
Tried(r) ==
    /\ r.status = "Failed" => r.attempts >= MaxAttempts
    /\ r.status = "Queued" => r.attempts < MaxAttempts

\* So it is with the rows, and with what the sessions will make of them.
AttemptsInv ==
    /\ \A q \in Requests : Tried(row[q])
    /\ \A w \in Workers : \A q \in txn[w].held : Tried(txn[w].new[q])

LEMMA FailureTried ==
    ASSUME NEW n \in RowType, n.status = "Queued", Tried(n),
           NEW r, r = AfterFailure(n)
    PROVE  Tried(r)
<1>1. CASE n.attempts + 1 >= MaxAttempts
  <2>1. r = [status |-> "Failed", attempts |-> n.attempts + 1, due |-> n.due]
    BY <1>1 DEF AfterFailure, RowType
  <2> QED BY <1>1, <2>1 DEF Tried
<1>2. CASE ~(n.attempts + 1 >= MaxAttempts)
  <2>1. r = [status |-> n.status, attempts |-> n.attempts + 1, due |-> FALSE]
    BY <1>2 DEF AfterFailure, RowType
  <2> QED BY <1>2, <2>1, ConstantsAssumption DEF Tried, RowType
<1> QED BY <1>1, <1>2

\* Handling one mail leaves a tried object in the session.
LEMMA HandleTried ==
    ASSUME IInv, AttemptsInv, NEW w \in Workers, NEW q \in txn[w].todo,
           NEW r, Handle(w, q, r), Tried(r), UNCHANGED row
    PROVE  AttemptsInv'
<1>1. /\ txn[w] \in TxnType /\ q \in Requests
      /\ txn' = [txn EXCEPT ![w] =
           [txn[w] EXCEPT !.todo = @ \ {q}, !.new = [@ EXCEPT ![q] = r]]]
  BY DEF Handle, IInv, TypeOK, TxnType
<1>2. /\ txn'[w].held = txn[w].held
      /\ txn'[w].new = [txn[w].new EXCEPT ![q] = r]
      /\ \A v \in Workers \ {w} : txn'[v] = txn[v]
  BY <1>1 DEF IInv, TypeOK, TxnType
<1>3. \A p \in txn[w].held : Tried(txn'[w].new[p])
  BY <1>1, <1>2 DEF AttemptsInv, TxnType
<1>4. \A v \in Workers : \A p \in txn'[v].held : Tried(txn'[v].new[p])
  BY <1>2, <1>3 DEF AttemptsInv
<1> QED BY <1>4 DEF AttemptsInv

LEMMA AttemptsStep ==
    ASSUME Admins = {}, IInv, AttemptsInv, [Next]_vars PROVE AttemptsInv'
<1>1. CASE UNCHANGED <<row, txn>>
  BY <1>1 DEF AttemptsInv
<1>2. ASSUME NEW q \in Requests,
             QueueEmail(q) \/ CommitRequest(q) \/ RollbackRequest(q) \/ BecomeDue(q)
      PROVE  AttemptsInv'
  <2>1. CASE QueueEmail(q) \/ RollbackRequest(q)
    BY <1>1, <2>1 DEF QueueEmail, RollbackRequest
  <2>2. CASE CommitRequest(q)
    <3>1. Tried(NewRow)
      BY ConstantsAssumption DEF Tried, NewRow
    <3>2. txn' = txn /\ (row' = row \/ row' = [row EXCEPT ![q] = NewRow])
      BY <2>2 DEF CommitRequest
    <3> QED BY <3>1, <3>2 DEF AttemptsInv, IInv, TypeOK
  <2>3. CASE BecomeDue(q)
    <3>1. /\ row' = [row EXCEPT ![q] = [row[q] EXCEPT !.due = TRUE]]
          /\ txn' = txn /\ row[q] \in RowType
      BY <2>3 DEF BecomeDue, IInv, TypeOK
    <3>2. \A p \in Requests : /\ row'[p].status = row[p].status
                              /\ row'[p].attempts = row[p].attempts
      BY <3>1 DEF IInv, TypeOK, RowType
    <3> QED BY <3>1, <3>2 DEF AttemptsInv, Tried
  <2> QED BY <1>2, <2>1, <2>2, <2>3
<1>3. ASSUME NEW w \in Workers, Claim(w) PROVE AttemptsInv'
  <2>1. PICK S \in SUBSET Requests :
          txn' = [txn EXCEPT ![w] =
              [held |-> S, todo |-> S, master |-> master,
               new |-> [q \in Requests |-> IF q \in S THEN row[q] ELSE NoRow]]]
    BY <1>3 DEF Claim
  <2>2. /\ txn'[w].held = S /\ \A q \in S : txn'[w].new[q] = row[q]
        /\ \A v \in Workers \ {w} : txn'[v] = txn[v]
    BY <2>1 DEF IInv, TypeOK
  <2>3. row' = row
    BY <1>3 DEF Claim
  <2> QED BY <2>2, <2>3 DEF AttemptsInv
<1>4. ASSUME NEW w \in Workers, NEW q \in Requests,
             Skip(w, q) \/ SendOk(w, q) \/ SendFails(w, q)
      PROVE  AttemptsInv'
  <2>1. /\ q \in txn[w].todo /\ txn[w].new[q] \in RowType /\ row' = row
        /\ txn[w].new[q].status = "Queued" /\ Tried(txn[w].new[q])
    BY <1>4 DEF Skip, SendOk, SendFails, Sends, IInv, TypeOK, TxnType, TxnShape,
       AttemptsInv
  <2>2. CASE Skip(w, q)
    <3>1. Tried([txn[w].new[q] EXCEPT !.status = "Skipped"])
      BY <2>1 DEF RowType, Tried
    <3> QED BY <2>1, <2>2, <3>1, HandleTried DEF Skip
  <2>3. CASE SendOk(w, q)
    <3>1. Tried([txn[w].new[q] EXCEPT !.status = "Sent", !.attempts = @ + 1])
      BY <2>1, SentObject DEF Tried
    <3> QED BY <2>1, <2>3, <3>1, HandleTried DEF SendOk
  <2>4. CASE SendFails(w, q)
    <3>1. Tried(AfterFailure(txn[w].new[q]))
      BY <2>1, FailureTried
    <3> QED BY <2>1, <2>4, <3>1, HandleTried DEF SendFails
  <2> QED BY <1>4, <2>2, <2>3, <2>4
<1>5. ASSUME NEW w \in Workers, RollbackBatch(w) PROVE AttemptsInv'
  <2>1. /\ txn'[w].held = {} /\ \A v \in Workers \ {w} : txn'[v] = txn[v]
        /\ row' = row
    BY <1>5 DEF RollbackBatch, IInv, TypeOK, NoTxn
  <2> QED BY <2>1 DEF AttemptsInv
<1>6. ASSUME NEW w \in Workers, CommitBatch(w) PROVE AttemptsInv'
  <2>1. /\ txn'[w].held = {} /\ \A v \in Workers \ {w} : txn'[v] = txn[v]
        /\ \A q \in Requests :
              row'[q] = IF q \in txn[w].held THEN txn[w].new[q] ELSE row[q]
    BY <1>6 DEF CommitBatch, IInv, TypeOK, NoTxn
  <2> QED BY <2>1 DEF AttemptsInv
<1>7. CASE (\E e \in Events : ToggleEvent(e)) \/ ToggleMaster \/ UNCHANGED vars
  BY <1>1, <1>7 DEF ToggleEvent, ToggleMaster, vars
<1> QED BY <1>2, <1>3, <1>4, <1>5, <1>6, <1>7
        DEF Next, WorkerStep, SendRaises, Crash

\* Unless an admin retries it, a row is given up only after MAX_ATTEMPTS, and
\* waits only while it has an attempt left (email_outbox.py:437-452).
THEOREM GivenUpInTime ==
    ASSUME Admins = {} PROVE Spec => []FailedMeansExhausted
<1>1. Init => AttemptsInv
  BY DEF Init, AttemptsInv, Tried, NoRow, NoTxn
<1>2. IInv /\ AttemptsInv /\ [Next]_vars => AttemptsInv'
  BY AttemptsStep
<1>3. AttemptsInv => FailedMeansExhausted
  BY DEF AttemptsInv, Tried, FailedMeansExhausted
<1> QED BY <1>1, <1>2, <1>3, Invariance, PTL DEF Spec

\* Unless an admin retries it, a row that says Sent says so for ever.
THEOREM SentForGood == ASSUME Admins = {} PROVE Spec => SentStaysSent
<1> DEFINE Stays == \A q \in Requests :
                       row[q].status = "Sent" => row'[q].status = "Sent"
<1>1. IInv /\ [Next]_vars => Stays
  <2> SUFFICES ASSUME IInv, [Next]_vars PROVE Stays
    OBVIOUS
  <2>1. CASE UNCHANGED row
    BY <2>1
  <2>2. ASSUME NEW q \in Requests, CommitRequest(q) PROVE Stays
    <3>1. row[q].status = "Absent"
      BY <2>2 DEF CommitRequest, IInv, RowsComeFromRequests
    <3> QED BY <2>2, <3>1 DEF CommitRequest, IInv, TypeOK
  <2>3. ASSUME NEW q \in Requests, BecomeDue(q) PROVE Stays
    BY <2>3 DEF BecomeDue, IInv, TypeOK, RowType
  <2>4. ASSUME NEW w \in Workers, CommitBatch(w) PROVE Stays
    <3>1. \A q \in txn[w].held : row[q].status = "Queued"
      BY DEF IInv, ClaimsAreExclusive
    <3> QED BY <2>4, <3>1 DEF CommitBatch
  <2>5. ASSUME NEW w \in Workers, WorkerStep(w) \/ Crash(w), ~CommitBatch(w)
        PROVE  UNCHANGED row
    BY <2>5 DEF WorkerStep, Crash, Claim, Skip, SendOk, SendFails, SendRaises,
       RollbackBatch
  <2>6. ASSUME NEW q \in Requests, QueueEmail(q) \/ RollbackRequest(q)
        PROVE  UNCHANGED row
    BY <2>6 DEF QueueEmail, RollbackRequest
  <2>7. ASSUME (\E e \in Events : ToggleEvent(e)) \/ ToggleMaster \/ UNCHANGED vars
        PROVE  UNCHANGED row
    BY <2>7 DEF ToggleEvent, ToggleMaster, vars
  <2> HIDE DEF Stays
  <2> QED BY <2>1, <2>2, <2>3, <2>4, <2>5, <2>6, <2>7 DEF Next
<1>2. IInv /\ [Next]_vars => [Stays]_vars
  BY <1>1
<1> QED BY <1>2, Invariance, PTL DEF Spec, SentStaysSent
----------------------------------------------------------------------------
(* The refinement.                                                         *)

Told == [q \in Requests |-> row[q].status]
Accepted == {q \in Requests : copies[q] > 0}

LEMMA InitDelivers == Init => Delivered!MailInit
  BY DEF Init, NoRow, Delivered!MailInit

\* What is accepted but not yet told is in the one batch that holds the mail.
LEMMA HeldMail ==
    ASSUME IInv, NEW w \in Workers, NEW q \in txn[w].held
    PROVE  /\ q \in Requests /\ row[q].status = "Queued"
           /\ q \in Accepted <=> txn[w].new[q].status = "Sent"
<1>1. q \in Requests
  BY DEF IInv, TypeOK, TxnType
<1>2. row[q].status = "Queued" /\ \A v \in Workers \ {w} : q \notin txn[v].held
  BY DEF IInv, ClaimsAreExclusive
<1>3. MarkedSent(q) <=> txn[w].new[q].status = "Sent"
  BY <1>2 DEF MarkedSent
<1>4. copies[q] = IF MarkedSent(q) THEN 1 ELSE 0
  BY <1>1 DEF IInv, Accounting
<1> QED BY <1>1, <1>2, <1>3, <1>4 DEF Accepted

LEMMA CommitRequestDelivers ==
    ASSUME IInv, NEW q \in Requests, CommitRequest(q)
    PROVE  (Told' = Told /\ Accepted' = Accepted) \/ Delivered!Post(q)
<1>1. Accepted' = Accepted
  BY DEF CommitRequest, Accepted
<1>2. CASE row' = row
  BY <1>1, <1>2 DEF Told
<1>3. CASE row' # row
  <2>1. row' = [row EXCEPT ![q] = NewRow] /\ ~Duplicate(q)
    BY <1>3 DEF CommitRequest
  <2>2. row[q].status = "Absent"
    BY DEF CommitRequest, IInv, RowsComeFromRequests
  <2>3. Told' = [Told EXCEPT ![q] = "Queued"]
    BY <2>1 DEF Told, NewRow, IInv, TypeOK
  <2>4. KeyOf[q] # NoKey =>
          \A n \in Requests : KeyOf[n] = KeyOf[q] => row[n].status = "Absent"
    BY <2>1 DEF Duplicate
  <2> QED BY <1>1, <2>2, <2>3, <2>4 DEF Told, Accepted, Delivered!Post
<1> QED BY <1>2, <1>3

LEMMA SendDelivers ==
    ASSUME IInv, NEW w \in Workers, NEW q \in Requests, SendOk(w, q)
    PROVE  Delivered!Accept(q)
<1>1. q \in txn[w].held /\ txn[w].new[q].status = "Queued"
  BY DEF SendOk, Sends, IInv, TxnShape
<1>2. row[q].status = "Queued" /\ q \notin Accepted
  BY <1>1, HeldMail
<1>3. /\ Told' = Told
      /\ copies' = [copies EXCEPT ![q] = @ + 1] /\ copies[q] \in Nat
      /\ \A p \in Requests : copies[p] \in Nat
  BY DEF SendOk, Told, IInv, TypeOK
<1>4. \A p \in Requests : copies'[p] > 0 <=> p = q \/ copies[p] > 0
  BY <1>3 DEF IInv, TypeOK
<1>5. Accepted' = Accepted \cup {q}
  BY <1>4 DEF Accepted
<1> QED BY <1>2, <1>3, <1>5 DEF Told, Accepted, Delivered!Accept, Delivered!Queued

LEMMA CommitBatchDelivers ==
    ASSUME IInv, NEW w \in Workers, CommitBatch(w)
    PROVE  \E S \in SUBSET Requests : Delivered!Settle(S)
<1>0. PICK S \in SUBSET Requests : S = txn[w].held
  BY DEF IInv, TypeOK, TxnType
<1> DEFINE verdict == [q \in S |-> txn[w].new[q].status]
<1>1. S \subseteq Requests /\ \A q \in S : row[q].status = "Queued"
  BY <1>0, HeldMail
<1>2. verdict \in [S -> {"Sent", "Failed", "Skipped"} \cup {"Queued"}]
  BY <1>0, <1>1 DEF IInv, TypeOK, TxnType, RowType, Statuses, TxnShape
<1>3. \A q \in S : verdict[q] = "Sent" <=> q \in Accepted
  BY <1>0, HeldMail
<1>4. Told' = [q \in Requests |-> IF q \in S THEN verdict[q] ELSE Told[q]]
  BY <1>0 DEF CommitBatch, Told
<1>5. Accepted' = Accepted
  BY DEF CommitBatch, Accepted
<1>6. S \subseteq {q \in Requests : Told[q] = "Queued"}
  BY <1>1 DEF Told
<1> HIDE DEF verdict
<1>7. Delivered!Settle(S)
  BY <1>2, <1>3, <1>4, <1>5, <1>6
  DEF Told, Accepted, Delivered!Settle, Delivered!Queued, Delivered!Verdicts
<1> QED BY <1>7, Zenon

LEMMA RollbackDelivers ==
    ASSUME IInv, NEW w \in Workers, RollbackBatch(w)
    PROVE  \E S \in SUBSET Requests : Delivered!Lose(S)
<1>0. PICK S \in SUBSET Requests :
        S = {q \in txn[w].held : txn[w].new[q].status = "Sent"}
  BY DEF IInv, TypeOK, TxnType
<1>1. S \subseteq Requests /\ \A q \in S : row[q].status = "Queued" /\ q \in Accepted
  BY <1>0, HeldMail
<1>2. ASSUME NEW q \in Requests
      PROVE  copies'[q] > 0 <=> copies[q] > 0 /\ q \notin S
  <2>1. copies[q] \in {0, 1}
    BY DEF IInv, Accounting
  <2>2. copies'[q] = IF q \in S THEN copies[q] - 1 ELSE copies[q]
    BY <1>0 DEF RollbackBatch
  <2>3. q \in S => copies[q] = 1
    BY <1>1, <2>1 DEF Accepted
  <2> QED BY <2>1, <2>2, <2>3
<1>3. Told' = Told
  BY DEF RollbackBatch, Told
<1>4. Accepted' = Accepted \ S
  BY <1>2 DEF Accepted
<1>5. S \subseteq {q \in Requests : Told[q] = "Queued"} \cap Accepted
  BY <1>1 DEF Told
<1>6. Delivered!Lose(S)
  BY <1>3, <1>4, <1>5 DEF Told, Accepted, Delivered!Lose, Delivered!Queued
<1> QED BY <1>6, Zenon

LEMMA RetryDelivers ==
    ASSUME IInv, NEW a \in Admins, RetryWrite(a)
    PROVE  (Told' = Told /\ Accepted' = Accepted)
              \/ \E q \in Requests : Delivered!Reopen(q)
<1>1. PICK q \in Requests : q = admin[a].target
  BY DEF IInv, TypeOK, AdminType
<1>2. PICK r \in RowType : /\ r = Rewritten(admin[a].seen, row[q])
                           /\ r.status = "Queued" \/ r.status = row[q].status
  <2>1. row[q] \in RowType /\ admin[a].seen \in RowType
    BY DEF IInv, TypeOK, AdminType
  <2> QED BY <2>1, RewrittenObject
<1>3. /\ row' = [row EXCEPT ![q] = r] /\ row[q].status # "Absent"
      /\ copies' = [copies EXCEPT ![q] =
                      IF row[q].status = "Sent" /\ r.status # "Sent"
                      THEN @ - 1 ELSE @]
      /\ \A w \in Workers : q \notin txn[w].held
  BY <1>1, <1>2 DEF RetryWrite, Held, IInv, RowsComeFromRequests
<1>4. Told' = [Told EXCEPT ![q] = r.status]
  BY <1>3 DEF Told, IInv, TypeOK
<1>5. copies[q] = IF row[q].status = "Sent" THEN 1 ELSE 0
  BY <1>3 DEF IInv, Accounting, MarkedSent
<1>6. \A p \in Requests : copies[p] \in Nat /\ (p # q => copies'[p] = copies[p])
  BY <1>3 DEF IInv, TypeOK
<1>7. CASE r.status = row[q].status
  <2>1. Told' = Told
    BY <1>4, <1>7 DEF Told
  <2>2. copies' = copies
    BY <1>3, <1>7 DEF IInv, TypeOK
  <2> QED BY <2>1, <2>2 DEF Accepted
<1>8. CASE r.status # row[q].status
  <2>1. r.status = "Queued"
    BY <1>2, <1>8
  <2>2. copies'[q] = 0
    BY <1>3, <1>5, <2>1 DEF IInv, TypeOK
  <2>3. Accepted' = Accepted \ {q}
    BY <1>6, <2>2 DEF Accepted
  <2>4. row[q].status \in {"Sent", "Failed", "Skipped"}
    BY <1>3, <1>8, <2>1 DEF IInv, TypeOK, RowType, Statuses
  <2>5. Delivered!Reopen(q)
    BY <1>4, <2>1, <2>3, <2>4
    DEF Told, Accepted, Delivered!Reopen, Delivered!Verdicts
  <2> QED BY <2>5
<1> QED BY <1>7, <1>8

LEMMA StepDelivers ==
    ASSUME IInv, [Next]_vars PROVE [Delivered!MailNext]_Delivered!mailVars
<1> DEFINE Same == Told' = Told /\ Accepted' = Accepted
<1>1. Same => UNCHANGED Delivered!mailVars
  BY DEF Told, Accepted, Delivered!mailVars
<1>2. ASSUME UNCHANGED <<row, copies>> PROVE Same
  BY <1>2 DEF Told, Accepted
<1>3. ASSUME NEW q \in Requests, QueueEmail(q) \/ RollbackRequest(q) PROVE Same
  BY <1>2, <1>3 DEF QueueEmail, RollbackRequest
<1>4. ASSUME NEW q \in Requests, BecomeDue(q) PROVE Same
  <2>1. \A p \in Requests : row'[p].status = row[p].status
    BY <1>4 DEF BecomeDue, IInv, TypeOK, RowType
  <2>2. copies' = copies
    BY <1>4 DEF BecomeDue
  <2> QED BY <2>1, <2>2 DEF Told, Accepted
<1>5. ASSUME NEW q \in Requests, CommitRequest(q)
      PROVE  Same \/ Delivered!MailNext
  BY <1>5, CommitRequestDelivers DEF Delivered!MailNext
<1>6. ASSUME (\E e \in Events : ToggleEvent(e)) \/ ToggleMaster \/ UNCHANGED vars
      PROVE  Same
  <2>1. UNCHANGED <<row, copies>>
    BY <1>6 DEF ToggleEvent, ToggleMaster, vars
  <2> HIDE DEF Same
  <2> QED BY <1>2, <2>1
<1>7. ASSUME NEW w \in Workers, WorkerStep(w) \/ Crash(w)
      PROVE  Same \/ Delivered!MailNext
  <2>1. CASE Claim(w)
    BY <1>2, <2>1 DEF Claim
  <2>2. CASE CommitBatch(w)
    BY <2>2, CommitBatchDelivers DEF Delivered!MailNext
  <2>3. ASSUME NEW q \in Requests, Skip(w, q) \/ SendFails(w, q) PROVE Same
    BY <1>2, <2>3 DEF Skip, SendFails
  <2>4. ASSUME NEW q \in Requests, SendOk(w, q) PROVE Delivered!MailNext
    BY <2>4, SendDelivers DEF Delivered!MailNext
  <2>5. ASSUME RollbackBatch(w) PROVE Delivered!MailNext
    BY <2>5, RollbackDelivers DEF Delivered!MailNext
  <2> HIDE DEF Same
  <2> QED BY <1>7, <2>1, <2>2, <2>3, <2>4, <2>5 DEF WorkerStep, SendRaises, Crash
<1>8. ASSUME NEW a \in Admins, NEW q \in Requests, RetryRead(a, q) PROVE Same
  BY <1>2, <1>8 DEF RetryRead
<1>9. ASSUME NEW a \in Admins, RetryWrite(a) PROVE Same \/ Delivered!MailNext
  BY <1>9, RetryDelivers DEF Delivered!MailNext
<1> HIDE DEF Same
<1>10. Same \/ Delivered!MailNext
  BY <1>3, <1>4, <1>5, <1>6, <1>7, <1>8, <1>9 DEF Next
<1> QED BY <1>1, <1>10

\* The outbox implements mail delivery: it posts a fact once, settles a whole
\* batch by what the server said, and forgets what a lost batch had sent.
THEOREM Implements == Spec => MailsDelivered
<1>1. IInv /\ [Next]_vars => [Delivered!MailNext]_Delivered!mailVars
  BY StepDelivers
<1> QED BY <1>1, InitDelivers, Invariance, PTL
        DEF Spec, MailsDelivered, Delivered!Spec
----------------------------------------------------------------------------
(* What mail delivery guarantees, and so the outbox.                       *)

\* What the table says, mail by mail, of what was accepted.
Truthful ==
    /\ Told \in [Requests -> {"Absent", "Queued", "Sent", "Failed", "Skipped"}]
    /\ \A m \in Requests :
          /\ Told[m] = "Sent" => m \in Accepted
          /\ Told[m] \in {"Absent", "Failed", "Skipped"} => m \notin Accepted
          /\ \A n \in Requests \ {m} : KeyOf[m] = KeyOf[n] /\ KeyOf[m] # NoKey
                => Told[m] = "Absent" \/ Told[n] = "Absent"

\* Delivery keeps the table truthful, once for each fact.
LEMMA DeliveryTold == Delivered!Spec => []Delivered!ToldTrue
<1>1. Delivered!MailInit => Truthful
  <2>1. Delivered!MailInit
          => Told = [m \in Requests |-> "Absent"] /\ Accepted = {}
    BY DEF Delivered!MailInit, Told, Accepted
  <2> QED BY <2>1 DEF Truthful
<1>2. ASSUME Truthful, [Delivered!MailNext]_Delivered!mailVars PROVE Truthful'
  <2>1. ASSUME NEW m \in Requests, Delivered!Post(m) PROVE Truthful'
    <3>1. /\ Told[m] = "Absent"
          /\ KeyOf[m] # NoKey =>
                \A n \in Requests : KeyOf[n] = KeyOf[m] => Told[n] = "Absent"
          /\ Told' = [Told EXCEPT ![m] = "Queued"]
          /\ Accepted' = Accepted
      BY <2>1 DEF Delivered!Post, Told, Accepted
    <3> QED BY <1>2, <3>1 DEF Truthful
  <2>2. ASSUME NEW m \in Requests, Delivered!Accept(m) PROVE Truthful'
    <3>1. Told[m] = "Queued" /\ Told' = Told /\ Accepted' = Accepted \cup {m}
      BY <2>2 DEF Delivered!Accept, Delivered!Queued, Told, Accepted
    <3> QED BY <1>2, <3>1 DEF Truthful
  <2>3. ASSUME NEW m \in Requests, Delivered!Reopen(m) PROVE Truthful'
    <3>1. /\ Told[m] \in {"Sent", "Failed", "Skipped"}
          /\ Told' = [Told EXCEPT ![m] = "Queued"]
          /\ Accepted' = Accepted \ {m}
      BY <2>3 DEF Delivered!Reopen, Delivered!Verdicts, Told, Accepted
    <3> QED BY <1>2, <3>1 DEF Truthful
  <2>4. ASSUME NEW S \in SUBSET Requests, Delivered!Settle(S) PROVE Truthful'
    <3>1. PICK verdict \in [S -> {"Sent", "Failed", "Skipped", "Queued"}] :
            /\ \A m \in S : verdict[m] = "Sent" <=> m \in Accepted
            /\ Told' = [m \in Requests |-> IF m \in S THEN verdict[m] ELSE Told[m]]
      BY <2>4 DEF Delivered!Settle, Delivered!Verdicts, Told, Accepted
    <3>2. \A m \in S : Told[m] = "Queued"
      BY <2>4 DEF Delivered!Settle, Delivered!Queued, Told
    <3>3. Accepted' = Accepted
      BY <2>4 DEF Delivered!Settle, Accepted
    <3> QED BY <1>2, <3>1, <3>2, <3>3 DEF Truthful
  <2>5. ASSUME NEW S \in SUBSET Requests, Delivered!Lose(S) PROVE Truthful'
    <3>1. /\ \A m \in S : Told[m] = "Queued"
          /\ Told' = Told /\ Accepted' = Accepted \ S
      BY <2>5 DEF Delivered!Lose, Delivered!Queued, Told, Accepted
    <3> QED BY <1>2, <3>1 DEF Truthful
  <2>6. CASE UNCHANGED Delivered!mailVars
    <3>1. Told' = Told /\ Accepted' = Accepted
      BY <2>6 DEF Delivered!mailVars, Told, Accepted
    <3> QED BY <1>2, <3>1 DEF Truthful
  <2> QED BY <1>2, <2>1, <2>2, <2>3, <2>4, <2>5, <2>6 DEF Delivered!MailNext
<1>3. Truthful => Delivered!ToldTrue
  BY DEF Truthful, Told, Accepted, Delivered!ToldTrue
<1> QED BY <1>1, <1>2, <1>3, PTL DEF Delivered!Spec

\* So the rows of the outbox tell the truth, and tell it once for each fact.
THEOREM OutboxTold == Spec => []Delivered!ToldTrue
  BY Implements, DeliveryTold, PTL DEF MailsDelivered
============================================================================
