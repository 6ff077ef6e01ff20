---------------------------- MODULE EmailOutbox ----------------------------
(***************************************************************************)
(* The durable e-mail outbox: backend/services/email_outbox.py and the     *)
(* admin endpoints of backend/routers/crm/email_outbox.py.                 *)
(*                                                                         *)
(* A business request queues at most one mail, in its own transaction; the *)
(* row is named by the request.  Workers (the daemon thread of every       *)
(* uvicorn process and every call of the drain endpoint) claim due rows    *)
(* with FOR UPDATE SKIP LOCKED, send them one by one and commit the whole  *)
(* batch at its end.  Admins retry rows with an unlocked read and a later  *)
(* write of the changed columns.                                           *)
(***************************************************************************)
EXTENDS Naturals, FiniteSets

CONSTANTS Requests,       \* business requests, each queues at most one mail
          Workers,        \* drain_once callers
          Admins,         \* callers of the retry endpoint
          Events, EventOf,    \* event of each request's mail
          Keys, KeyOf, NoKey, \* dedupe_key of each request's mail, or NoKey
          Poison,         \* mails on which send_email may raise
          MaxAttempts,    \* MAX_ATTEMPTS
          Batch,          \* LIMIT of the claim
          SmtpConfigured, \* smtp_configured()
          MaxCrashes      \* bound on process deaths

ASSUME ConstantsAssumption ==
    /\ Requests # {}
    /\ EventOf \in [Requests -> Events]
    /\ NoKey \notin Keys
    /\ KeyOf \in [Requests -> Keys \cup {NoKey}]
    /\ Poison \subseteq Requests
    /\ MaxAttempts \in Nat \ {0}
    /\ Batch \in Nat \ {0}
    /\ SmtpConfigured \in BOOLEAN
    /\ MaxCrashes \in Nat

VARIABLES
    row,      \* committed row of each request: status, attempts, due
    req,      \* where the business transaction stands
    disabled, \* events switched off in app_settings
    master,   \* email_notifications_enabled
    txn,      \* each worker's open transaction
    admin,    \* each admin's retry in progress
    crashes,  \* process deaths so far
    copies    \* history: accepted mails no rollback or reopening disowned

vars == <<row, req, disabled, master, txn, admin, crashes, copies>>

Statuses == {"Absent", "Queued", "Sent", "Failed", "Skipped"}
RowType == [status : Statuses, attempts : Nat, due : BOOLEAN]
NoRow == [status |-> "Absent", attempts |-> 0, due |-> FALSE]
NewRow == [status |-> "Queued", attempts |-> 0, due |-> TRUE]

\* held: rows locked; todo: those not handled yet; new: the session's objects
TxnType == [held : SUBSET Requests, todo : SUBSET Requests,
            master : BOOLEAN, new : [Requests -> RowType]]
NoTxn == [held |-> {}, todo |-> {}, master |-> TRUE,
          new |-> [q \in Requests |-> NoRow]]

\* seen: the row as the admin's session read it, NoRow when idle
AdminType == [target : Requests, seen : RowType]
NoRetry == [target |-> CHOOSE q \in Requests : TRUE, seen |-> NoRow]
Idle(a) == admin[a].seen = NoRow

Held(q) == \E w \in Workers : q \in txn[w].held

TypeOK ==
    /\ row \in [Requests -> RowType]
    /\ req \in [Requests -> {"new", "pending", "quiet", "committed",
                             "refused", "rolledback"}]
    /\ disabled \subseteq Events
    /\ master \in BOOLEAN
    /\ txn \in [Workers -> TxnType]
    /\ admin \in [Admins -> AdminType]
    /\ crashes \in Nat
    /\ copies \in [Requests -> Nat]

Init ==
    /\ row = [q \in Requests |-> NoRow]
    /\ req = [q \in Requests |-> "new"]
    /\ disabled = {}
    /\ master = TRUE
    /\ txn = [w \in Workers |-> NoTxn]
    /\ admin = [a \in Admins |-> NoRetry]
    /\ crashes = 0
    /\ copies = [q \in Requests |-> 0]
----------------------------------------------------------------------------
(* Queueing, inside a business transaction.                                *)

Enabled(q) == master /\ EventOf[q] \notin disabled

\* A row with the same dedupe_key is committed.
Duplicate(q) ==
    /\ KeyOf[q] # NoKey
    /\ \E p \in Requests : KeyOf[p] = KeyOf[q] /\ row[p].status # "Absent"

\* queue_email: suppressed or duplicate mails are not added to the session.
QueueEmail(q) ==
    /\ req[q] = "new"
    /\ req' = [req EXCEPT ![q] =
                  IF Enabled(q) /\ ~Duplicate(q) THEN "pending" ELSE "quiet"]
    /\ UNCHANGED <<row, disabled, master, txn, admin, crashes, copies>>

\* The caller commits; the UNIQUE dedupe_key may refuse the whole transaction.
CommitRequest(q) ==
    /\ req[q] \in {"pending", "quiet"}
    /\ LET added == req[q] = "pending" /\ ~Duplicate(q)
       IN /\ row' = IF added THEN [row EXCEPT ![q] = NewRow] ELSE row
          /\ req' = [req EXCEPT ![q] =
                        IF added \/ @ = "quiet" THEN "committed" ELSE "refused"]
    /\ UNCHANGED <<disabled, master, txn, admin, crashes, copies>>

\* The business change fails for its own reasons and takes the mail with it.
RollbackRequest(q) ==
    /\ req[q] \in {"pending", "quiet"}
    /\ req' = [req EXCEPT ![q] = "rolledback"]
    /\ UNCHANGED <<row, disabled, master, txn, admin, crashes, copies>>

\* An admin flips a switch in app_settings.
ToggleEvent(e) ==
    /\ disabled' = IF e \in disabled THEN disabled \ {e} ELSE disabled \cup {e}
    /\ UNCHANGED <<row, req, master, txn, admin, crashes, copies>>

ToggleMaster ==
    /\ master' = ~master
    /\ UNCHANGED <<row, req, disabled, txn, admin, crashes, copies>>

\* The next_attempt_at of a backed-off row passes.
BecomeDue(q) ==
    /\ row[q].status = "Queued" /\ ~row[q].due
    /\ row' = [row EXCEPT ![q].due = TRUE]
    /\ UNCHANGED <<req, disabled, master, txn, admin, crashes, copies>>
----------------------------------------------------------------------------
(* drain_once.                                                             *)

\* Mutants: a claim without SKIP LOCKED, and one without the status filter.
ClaimableUnlocked ==
    {q \in Requests : row[q].status = "Queued" /\ row[q].due}
ClaimableAnyStatus ==
    {q \in Requests : row[q].status # "Absent" /\ row[q].due /\ ~Held(q)}

Claimable == {q \in Requests : /\ row[q].status = "Queued"
                               /\ row[q].due
                               /\ ~Held(q)}

\* A LIMITed claim takes all it can find, up to the limit.
Claims(S) == /\ S # {} /\ S \subseteq Claimable
             /\ Cardinality(S) <= Batch
             /\ Cardinality(S) < Batch => S = Claimable

Claim(w) ==
    /\ SmtpConfigured
    /\ txn[w].held = {}
    /\ \E S \in SUBSET Requests :
          /\ Claims(S)
          /\ txn' = [txn EXCEPT ![w] =
                [held |-> S, todo |-> S, master |-> master,
                 new |-> [q \in Requests |-> IF q \in S THEN row[q] ELSE NoRow]]]
    /\ UNCHANGED <<row, req, disabled, master, admin, crashes, copies>>

\* The session's object for q becomes r.
Handle(w, q, r) ==
    txn' = [txn EXCEPT ![w].todo = @ \ {q}, ![w].new[q] = r]

\* Suppressed by the master switch read with the claim, or by the event switch.
Skip(w, q) ==
    /\ q \in txn[w].todo
    /\ ~txn[w].master \/ EventOf[q] \in disabled
    /\ Handle(w, q, [txn[w].new[q] EXCEPT !.status = "Skipped"])
    /\ UNCHANGED <<row, req, disabled, master, admin, crashes, copies>>

Sends(w, q) == /\ q \in txn[w].todo
               /\ txn[w].master /\ EventOf[q] \notin disabled

SendOk(w, q) ==
    /\ Sends(w, q)
    /\ Handle(w, q, [txn[w].new[q] EXCEPT !.status = "Sent", !.attempts = @ + 1])
    /\ copies' = [copies EXCEPT ![q] = @ + 1]
    /\ UNCHANGED <<row, req, disabled, master, admin, crashes>>

\* Mutants: a status outside the enum, an off-by-one in the limit, an attempt
\* that is not counted.
AfterFailureNoEnum(r) ==
    IF r.attempts + 1 >= MaxAttempts
    THEN [r EXCEPT !.attempts = @ + 1, !.status = "GaveUp"]
    ELSE [r EXCEPT !.attempts = @ + 1, !.due = FALSE]
AfterFailureLate(r) ==
    IF r.attempts + 1 > MaxAttempts
    THEN [r EXCEPT !.attempts = @ + 1, !.status = "Failed"]
    ELSE [r EXCEPT !.attempts = @ + 1, !.due = FALSE]
AfterFailureUncounted(r) == [r EXCEPT !.due = FALSE]

AfterFailure(r) ==
    IF r.attempts + 1 >= MaxAttempts
    THEN [r EXCEPT !.attempts = @ + 1, !.status = "Failed"]
    ELSE [r EXCEPT !.attempts = @ + 1, !.due = FALSE]

SendFails(w, q) ==
    /\ Sends(w, q)
    /\ Handle(w, q, AfterFailure(txn[w].new[q]))
    /\ UNCHANGED <<row, req, disabled, master, admin, crashes, copies>>

\* The single commit after the batch.
CommitBatch(w) ==
    /\ txn[w].held # {} /\ txn[w].todo = {}
    /\ row' = [q \in Requests |->
                  IF q \in txn[w].held THEN txn[w].new[q] ELSE row[q]]
    /\ txn' = [txn EXCEPT ![w] = NoTxn]
    /\ UNCHANGED <<req, disabled, master, admin, crashes, copies>>

\* The transaction is lost: its rows are as they were, what it sent is sent.
RollbackBatch(w) ==
    /\ txn[w].held # {}
    /\ txn' = [txn EXCEPT ![w] = NoTxn]
    /\ copies' = [q \in Requests |->
                    IF q \in txn[w].held /\ txn[w].new[q].status = "Sent"
                    THEN copies[q] - 1 ELSE copies[q]]
    /\ UNCHANGED <<row, req, disabled, master, admin>>

\* send_email raises: drain_once rolls the batch back.
SendRaises(w, q) ==
    /\ Sends(w, q) /\ q \in Poison
    /\ RollbackBatch(w)
    /\ UNCHANGED crashes

\* The process dies, or the commit itself fails.
Crash(w) ==
    /\ crashes < MaxCrashes
    /\ crashes' = crashes + 1
    /\ RollbackBatch(w)
----------------------------------------------------------------------------
(* retry_one.                                                              *)

RetryRead(a, q) ==
    /\ Idle(a)
    /\ row[q].status \notin {"Absent", "Sent"}
    /\ admin' = [admin EXCEPT ![a] = [target |-> q, seen |-> row[q]]]
    /\ UNCHANGED <<row, req, disabled, master, txn, crashes, copies>>

\* The UPDATE names only the columns that differ from what was read.
Rewritten(seen, r) ==
    [status   |-> IF seen.status # "Queued" THEN "Queued" ELSE r.status,
     attempts |-> IF seen.attempts # 0 THEN 0 ELSE r.attempts,
     due      |-> TRUE]

\* It waits for the row lock of a worker; a Sent row it reopens is disowned.
RetryWrite(a) ==
    LET q == admin[a].target
        r == Rewritten(admin[a].seen, row[q])
    IN /\ ~Idle(a) /\ ~Held(q)
       /\ row' = [row EXCEPT ![q] = r]
       /\ admin' = [admin EXCEPT ![a] = NoRetry]
       /\ copies' = [copies EXCEPT ![q] =
                        IF row[q].status = "Sent" /\ r.status # "Sent"
                        THEN @ - 1 ELSE @]
       /\ UNCHANGED <<req, disabled, master, txn, crashes>>
----------------------------------------------------------------------------
WorkerStep(w) == \/ Claim(w)
                 \/ CommitBatch(w)
                 \/ \E q \in Requests : \/ Skip(w, q)
                                        \/ SendOk(w, q)
                                        \/ SendFails(w, q)
                                        \/ SendRaises(w, q)

Next ==
    \/ \E q \in Requests : \/ QueueEmail(q)
                           \/ CommitRequest(q)
                           \/ RollbackRequest(q)
                           \/ BecomeDue(q)
    \/ \E e \in Events : ToggleEvent(e)
    \/ ToggleMaster
    \/ \E w \in Workers : WorkerStep(w) \/ Crash(w)
    \/ \E a \in Admins : RetryWrite(a) \/ \E q \in Requests : RetryRead(a, q)

Spec == Init /\ [][Next]_vars

\* Every worker loops for ever and time passes; nothing else is promised.
FairSpec ==
    /\ Spec
    /\ \A w \in Workers : WF_vars(WorkerStep(w))
    /\ \A q \in Requests : WF_vars(BecomeDue(q))
----------------------------------------------------------------------------
(* Properties.                                                             *)

\* No two workers hold the same row and a held row is still Queued in the
\* table, so an admin's retry cannot slip between the claim and its commit.
ClaimsAreExclusive ==
    \A w \in Workers : \A q \in txn[w].held :
        /\ row[q].status = "Queued"
        /\ \A v \in Workers \ {w} : q \notin txn[v].held

\* Whatever the interleaving, a mail is accepted by the SMTP server once,
\* but for the copies a lost batch or a reopened Sent row accounts for
\* (email_outbox.py:7-9).
AtMostOnce == \A q \in Requests : copies[q] <= 1

\* A mail whose row says Failed or Skipped was never accepted, and one whose
\* row says Sent was.
StatusTellsDelivery ==
    \A q \in Requests :
        /\ row[q].status = "Sent" => copies[q] = 1
        /\ row[q].status \in {"Absent", "Failed", "Skipped"} => copies[q] = 0

\* A row waits only while it has an attempt left, and is given up only when
\* it has none (models/email_outbox.py:27).
FailedMeansExhausted ==
    \A q \in Requests :
        /\ row[q].status = "Failed" => row[q].attempts >= MaxAttempts
        /\ row[q].status = "Queued" => row[q].attempts < MaxAttempts

\* A Sent row stays Sent: nothing re-queues a delivered mail.
SentStaysSent ==
    [][\A q \in Requests : row[q].status = "Sent" => row'[q].status = "Sent"]_vars

\* Every queued mail is eventually sent, skipped or given up.
QueuedIsSettled ==
    \A q \in Requests : row[q].status = "Queued" ~> row[q].status # "Queued"

\* What the outbox promises the business, mail by mail: it implements the
\* abstract delivery, whatever is claimed, lost, retried or switched off.
Delivered == INSTANCE MailDelivery WITH
                 Mails <- Requests,
                 told <- [q \in Requests |-> row[q].status],
                 accepted <- {q \in Requests : copies[q] > 0}
MailsDelivered == Delivered!Spec
============================================================================
