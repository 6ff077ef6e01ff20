-------------------------- MODULE InterviewSession --------------------------
(***************************************************************************)
(* The AI interview engine (main.py): one invited candidate's session from *)
(* the invite to the report.                                               *)
(*                                                                         *)
(* Four copies of an interview live side by side: the session in memory,   *)
(* the interview_progress checkpoint, the interview_records report and the *)
(* schedule row behind the invite.  /answer holds a lock per session;      *)
(* /next, /submit, the violation reports, the background upgrade, the      *)
(* recovery worker and the integrity cleanup do not.  A crash loses what   *)
(* is in memory: sessions, handlers and background tasks.                  *)
(*                                                                         *)
(* An answer is the number of the question the candidate was looking at    *)
(* when answering, so <<1, 2>> is a sound transcript and <<1, 1>> is not.  *)
(***************************************************************************)
EXTENDS Integers, Sequences, FiniteSets

CONSTANTS
    Tokens,        \* invites
    NoRow,         \* no such row, session or task
    InMemory,      \* an /answer whose session is still the one in memory
    NumQuestions,  \* questions of a session
    RecoveryBatch, \* limit of list_recoverable_interview_progress
    Resends,       \* may a client send again an answer it saw no response to?
    MaxReturns,    \* bound: times a candidate comes back after going idle
    MaxCrashes,    \* bound: restarts of the process
    MaxVisits,     \* bound: logins to an invite, one more per restart
    MaxSubmits,    \* bound: submissions
    MaxSweeps      \* bound: integrity pages HR opens on overdue interviews

Closed == {"completed", "terminated"}
Final == {"completed", "terminated", "partially_completed", "recovered",
          "abandoned"}
ProgressStatuses == {"started", "in_progress", "submitting"} \cup Final
Questions == 1 .. NumQuestions

Session == [answers : Seq(Questions), current : 0 .. NumQuestions,
            finalizing : BOOLEAN, completed : BOOLEAN, ended : BOOLEAN,
            result : BOOLEAN]
Checkpoints == [status : ProgressStatuses, saved : Session,
                report : {"", "pending", "generating", "ready"}]

Snapshot == [saved : Session, status : ProgressStatuses]
Submission == [saved : Session, status : ProgressStatuses, recorded : BOOLEAN]
Finalization == [token : Tokens, saved : Session, status : ProgressStatuses,
                 recorded : BOOLEAN]

ASSUME InterviewAssumption ==
    /\ NumQuestions \in Nat \ {0} /\ RecoveryBatch \in Nat \ {0}
    /\ MaxReturns \in Nat /\ MaxCrashes \in Nat /\ MaxVisits \in Nat
    /\ MaxSubmits \in Nat /\ MaxSweeps \in Nat
    /\ Resends \in BOOLEAN
    /\ NoRow \notin Session /\ NoRow \notin Seq(Questions)
    /\ NoRow \notin Submission /\ NoRow \notin Finalization
    /\ InMemory \notin Session \cup {NoRow}

VARIABLES
    sched,      \* session_status of the schedule row
    prog,       \* interview_progress
    idle,       \* no activity on the checkpoint for the recovery delay
    order,      \* pairs of progress rows, the first inactive for longer
    rec,        \* interview_records: the answers the report is about
    mem,        \* sessions: the session in memory
    warm,       \* the invite was prewarmed by this process
    turn,       \* an /answer between saving the answer and its checkpoint
    sub,        \* a /submit between taking its snapshot and its report
    tasks,      \* background report upgrades
    scan,       \* rows the recovery worker has read and not finished
    worker,     \* the finalization the recovery worker is evaluating
    cleanup,    \* the finalization an integrity-logs request is evaluating
    shown,      \* question on the candidate's screen, 0 for none
    used        \* how often each bounded event has happened

rows == <<sched, prog, idle, order, rec>>
procs == <<turn, sub, tasks, scan, worker, cleanup>>
vars == <<rows, mem, warm, procs, shown, used>>

LoggedOut == -1

NewSession == [answers |-> <<>>, current |-> 0, finalizing |-> FALSE,
               completed |-> FALSE, ended |-> FALSE, result |-> FALSE]

Init ==
    /\ sched = [t \in Tokens |-> "pending"]
    /\ prog = [t \in Tokens |-> NoRow]
    /\ idle = [t \in Tokens |-> FALSE]
    /\ order = {}
    /\ rec = [t \in Tokens |-> NoRow]
    /\ mem = [t \in Tokens |-> NoRow]
    /\ warm = [t \in Tokens |-> FALSE]
    /\ turn = [t \in Tokens |-> NoRow]
    /\ sub = [t \in Tokens |-> NoRow]
    /\ tasks = [t \in Tokens |-> {}]
    /\ scan = {} /\ worker = NoRow /\ cleanup = NoRow
    /\ shown = [t \in Tokens |-> LoggedOut]
    /\ used = [returns |-> 0, crashes |-> 0, visits |-> 0, submits |-> 0,
               sweeps |-> 0]

(***************************************************************************)
(* The checkpoint.                                                         *)
(***************************************************************************)
ProgressStatus(s) ==
    IF s.ended THEN "terminated"
    ELSE IF s.completed THEN "completed"
    ELSE IF s.answers # <<>> THEN "in_progress" ELSE "started"

\* Mutant: a session that is over counts as reported.
DerivedReportOver(s, status) ==
    IF s.result \/ s.completed THEN "ready"
    ELSE IF status \in Final THEN "pending" ELSE ""

\* The report_status _persist_interview_progress derives when given none.
DerivedReport(s, status) ==
    IF s.result THEN "ready"
    ELSE IF status \in (Final \ {"recovered"}) \cup {"submitting"}
         THEN "pending" ELSE ""

\* _persist_interview_progress: the row is overwritten whatever it held.
Persist(t, s, status, report) ==
    /\ prog' = [prog EXCEPT ![t] =
                  [status |-> status, report |-> report, saved |-> s]]
    /\ idle' = [idle EXCEPT ![t] = FALSE]
    /\ order' = {o \in order : t \notin {o[1], o[2]}}
                 \cup ({u \in Tokens \ {t} : prog[u] # NoRow} \X {t})

Checkpoint(t, s, status) == Persist(t, s, status, DerivedReport(s, status))

\* The session a request works on: the one in memory, else the checkpoint's.
SessionOf(t) == IF mem[t] # NoRow THEN mem[t]
                ELSE IF prog[t] # NoRow THEN prog[t].saved ELSE NoRow

\* A candidate who was idle is back: a bounded number of times.
MayReturn(t) == idle[t] => used.returns < MaxReturns

Back(t) == IF idle[t] THEN 1 ELSE 0

Returns(t) == MayReturn(t) /\ used' = [used EXCEPT !.returns = @ + Back(t)]

(***************************************************************************)
(* Invite, verification, login.                                            *)
(***************************************************************************)
\* _bootstrap_invite_interview_session: the session in memory, else the
\* checkpoint unless it is final, else new questions under the same interview.
Boot(t) ==
    IF mem[t] # NoRow THEN mem[t]
    ELSE IF prog[t] # NoRow /\ prog[t].status \notin Final
         THEN prog[t].saved ELSE NewSession

Fresh(t) == mem[t] = NoRow /\ (prog[t] = NoRow \/ prog[t].status \in Final)

\* _maybe_prewarm_invite_session: once per process, unless a session is there.
Prewarm(t) ==
    IF mem[t] # NoRow \/ warm[t]
    THEN UNCHANGED <<mem, warm, prog, idle, order>>
    ELSE /\ warm' = [warm EXCEPT ![t] = TRUE]
         /\ mem' = [mem EXCEPT ![t] = Boot(t)]
         /\ IF Fresh(t) THEN Persist(t, NewSession, "started", "")
                        ELSE UNCHANGED <<prog, idle, order>>

\* The candidate opens the link, and proves who they are on the page: the
\* schedule row is read once, then written.
Lookup(t) ==
    /\ sched[t] \notin Closed /\ Returns(t)
    /\ Prewarm(t)
    /\ shown' = [shown EXCEPT ![t] = LoggedOut]
    /\ UNCHANGED <<sched, rec, procs>>

Verify(t) ==
    /\ sched[t] \notin Closed /\ Returns(t)
    /\ sched' = [sched EXCEPT ![t] = "verified"]
    /\ Prewarm(t)
    /\ shown' = [shown EXCEPT ![t] = LoggedOut]
    /\ UNCHANGED <<rec, procs>>

Login(t) ==
    /\ sched[t] \in {"verified", "active"} /\ MayReturn(t)
    /\ used.visits < MaxVisits + used.crashes
    /\ used' = [used EXCEPT !.returns = @ + Back(t), !.visits = @ + 1]
    /\ sched' = [sched EXCEPT ![t] = "active"]
    /\ mem' = [mem EXCEPT ![t] = Boot(t)]
    /\ warm' = [warm EXCEPT ![t] = TRUE]
    /\ Checkpoint(t, Boot(t), "in_progress")
    /\ shown' = [shown EXCEPT ![t] = 0]
    /\ UNCHANGED <<rec, procs>>

(***************************************************************************)
(* Questions and answers.                                                  *)
(***************************************************************************)
\* next_question_payload: out of questions ends the session.
Asked(s) == IF s.current < NumQuestions
            THEN s ELSE [s EXCEPT !.completed = TRUE]

\* Mutant: the question is read without looking whether there is one.
OnScreenUnchecked(s) == s.current + 1
OnScreen(s) == IF s.current < NumQuestions THEN s.current + 1 ELSE 0

NextQuestion(t) ==
    LET s == SessionOf(t) IN
    /\ s # NoRow /\ shown[t] # LoggedOut /\ ~s.finalizing /\ Returns(t)
    /\ turn[t] = NoRow /\ sub[t] = NoRow
    /\ Checkpoint(t, s, ProgressStatus(s))
    /\ mem' = [mem EXCEPT ![t] = Asked(s)]
    /\ shown' = [shown EXCEPT ![t] = OnScreen(s)]
    /\ UNCHANGED <<warm, sched, rec, procs>>

\* /answer up to the saved answer; the lock is kept while follow-up questions
\* are generated.
Answer(t) ==
    LET s == SessionOf(t) IN
    /\ shown[t] > 0 /\ turn[t] = NoRow /\ sub[t] = NoRow
    /\ s # NoRow /\ ~s.finalizing /\ ~s.completed
    /\ s.current < NumQuestions /\ Len(s.answers) <= s.current
    /\ mem' = [mem EXCEPT ![t] = [s EXCEPT !.answers = Append(@, shown[t]),
                                           !.current = @ + 1]]
    /\ turn' = [turn EXCEPT ![t] = InMemory]
    /\ UNCHANGED <<warm, rows, sub, tasks, scan, worker, cleanup, shown, used>>

\* /answer on a session that is over, or whose turn is already recorded.
AnswerRefused(t) ==
    LET s == SessionOf(t) IN
    /\ shown[t] > 0 /\ turn[t] = NoRow /\ s # NoRow
    /\ \/ s.finalizing \/ s.completed
       \/ s.current < NumQuestions /\ Len(s.answers) > s.current
    /\ mem' = [mem EXCEPT ![t] = s]
    /\ shown' = [shown EXCEPT ![t] = 0]
    /\ UNCHANGED <<warm, rows, procs, used>>

\* /answer after the last question.
AnswerBeyond(t) ==
    LET s == SessionOf(t)
        over == [s EXCEPT !.completed = TRUE]
    IN /\ shown[t] > 0 /\ turn[t] = NoRow /\ sub[t] = NoRow /\ Returns(t)
       /\ s # NoRow /\ ~s.finalizing /\ ~s.completed
       /\ s.current = NumQuestions
       /\ mem' = [mem EXCEPT ![t] = over]
       /\ Checkpoint(t, over, "completed")
       /\ shown' = [shown EXCEPT ![t] = 0]
       /\ UNCHANGED <<warm, sched, rec, procs>>

\* The rest of /answer: the checkpoint says in_progress whatever happened to
\* the session meanwhile, unless /submit came before the follow-ups.
AnswerSaved(t) ==
    LET s == IF turn[t] = InMemory THEN mem[t] ELSE turn[t] IN
    /\ turn[t] # NoRow /\ Returns(t)
    /\ \E status \in {"in_progress"} \cup
                     (IF s.finalizing THEN {"submitting"} ELSE {}) :
         Checkpoint(t, s, status)
    /\ turn' = [turn EXCEPT ![t] = NoRow]
    /\ IF turn[t] = InMemory /\ ~s.finalizing
       THEN mem' = [mem EXCEPT ![t] = Asked(s)]
       ELSE UNCHANGED mem
    /\ \/ shown' = [shown EXCEPT ![t] =
             IF @ <= 0 THEN @ ELSE IF s.finalizing THEN 0 ELSE OnScreen(s)]
       \/ Resends /\ UNCHANGED shown
    /\ UNCHANGED <<warm, sched, rec, sub, tasks, scan, worker, cleanup>>

\* /interview/violation: a warning only checkpoints; more than MAX_WARNINGS close
\* the invite at once, the session stays answerable for the last answer.
Warn(t) ==
    /\ mem[t] # NoRow /\ shown[t] # LoggedOut /\ Returns(t)
    /\ Checkpoint(t, mem[t], ProgressStatus(mem[t]))
    /\ UNCHANGED <<warm, sched, rec, mem, procs, shown>>

Terminate(t) ==
    LET over == [mem[t] EXCEPT !.ended = TRUE] IN
    /\ mem[t] # NoRow /\ shown[t] # LoggedOut /\ Returns(t)
    /\ mem' = [mem EXCEPT ![t] = over]
    /\ sched' = [sched EXCEPT ![t] = "terminated"]
    /\ Checkpoint(t, over, "terminated")
    /\ UNCHANGED <<warm, rec, procs, shown>>

(***************************************************************************)
(* Submission.                                                             *)
(***************************************************************************)
\* _append_pending_answer_on_submit: the answer goes to the open question and
\* the session does not advance.
WithPending(s, q) ==
    IF q = 0 \/ s.completed \/ s.current >= NumQuestions
             \/ Len(s.answers) > s.current
    THEN s ELSE [s EXCEPT !.answers = Append(@, q)]

\* A client that ends the interview sends along the answer on its screen,
\* unless it has already gone to /answer.
PendingAnswers(t) ==
    IF shown[t] <= 0 \/ (turn[t] # NoRow /\ ~Resends) THEN {0}
    ELSE {0, shown[t]}

SubmitStatus(s) ==
    IF s.ended THEN "terminated"
    ELSE IF s.current < NumQuestions THEN "partially_completed"
    ELSE "completed"

Submit(t) ==
    LET s == SessionOf(t) IN
    /\ s # NoRow /\ sub[t] = NoRow /\ shown[t] # LoggedOut
    /\ MayReturn(t) /\ used.submits < MaxSubmits
    /\ used' = [used EXCEPT !.submits = @ + 1]
    /\ ~(s.finalizing /\ s.result)
    /\ \E q \in PendingAnswers(t) :
         LET done == [WithPending(s, q) EXCEPT !.finalizing = TRUE] IN
         /\ mem' = [mem EXCEPT ![t] = done]
         /\ sub' = [sub EXCEPT ![t] =
                      [saved |-> done, status |-> SubmitStatus(done),
                       recorded |-> FALSE]]
    /\ shown' = [shown EXCEPT ![t] = 0]
    /\ UNCHANGED <<warm, rows, turn, tasks, scan, worker, cleanup>>

Over(saved) == [saved EXCEPT !.completed = TRUE, !.result = TRUE]

\* Mutant: an interview finished for the candidate stays open.
ClosedByCandidate(status) ==
    IF status \in {"recovered", "abandoned"} THEN "active" ELSE "completed"
ClosedBy(status) ==
    IF status = "terminated" THEN "terminated" ELSE "completed"

\* The end of the handler: the upgrade is queued on the snapshot.
Submitted(t) ==
    /\ tasks' = [tasks EXCEPT ![t] =
                   @ \cup {[saved |-> sub[t].saved, status |-> sub[t].status]}]
    /\ sub' = [sub EXCEPT ![t] = NoRow]

\* _persist_fast_final_report: the record first, in a database of its own
\* commits, then the schedule row and the checkpoint.
FastRecord(t) ==
    /\ sub[t] # NoRow /\ rec[t] = NoRow
    /\ rec' = [rec EXCEPT ![t] = sub[t].saved.answers]
    /\ sub' = [sub EXCEPT ![t].recorded = TRUE]
    /\ UNCHANGED <<sched, prog, idle, order, mem, warm, turn, tasks, scan,
                   worker, cleanup, shown, used>>

FastReport(t) ==
    /\ sub[t] # NoRow /\ sub[t].recorded
    /\ sched' = [sched EXCEPT ![t] = ClosedBy(sub[t].status)]
    /\ Persist(t, Over(sub[t].saved), sub[t].status, "generating")
    /\ mem' = [mem EXCEPT ![t] = IF @ = NoRow THEN NoRow ELSE Over(@)]
    /\ Submitted(t)
    /\ UNCHANGED <<rec, warm, turn, scan, worker, cleanup, shown, used>>

\* The interview already has a report: only the checkpoint is written.
ReportReused(t) ==
    /\ sub[t] # NoRow /\ ~sub[t].recorded /\ rec[t] # NoRow
    /\ Persist(t, sub[t].saved, sub[t].status, "ready")
    /\ Submitted(t)
    /\ UNCHANGED <<sched, rec, mem, warm, turn, scan, worker, cleanup, shown,
                   used>>

\* sessions.pop: a handler that still holds the session goes on with it.
Forget(t) ==
    /\ mem' = [mem EXCEPT ![t] = NoRow]
    /\ turn' = [turn EXCEPT ![t] = IF @ = InMemory THEN mem[t] ELSE @]

\* _upgrade_interview_report_background: the record is rewritten from the
\* snapshot; an exception leaves everything as it is.
Upgrade(t) ==
    \E k \in tasks[t] :
      /\ tasks' = [tasks EXCEPT ![t] = @ \ {k}]
      /\ \/ /\ rec' = [rec EXCEPT ![t] = k.saved.answers]
            /\ Persist(t, [k.saved EXCEPT !.result = TRUE], k.status, "ready")
            /\ Forget(t)
         \/ UNCHANGED <<rec, prog, idle, order, mem, turn>>
      /\ UNCHANGED <<warm, sched, sub, scan, worker, cleanup, shown, used>>

(***************************************************************************)
(* Finalization without the candidate.                                     *)
(***************************************************************************)
\* The first half of _finalize_interview_snapshot: an interview that has a
\* report only gets its checkpoint closed; another is evaluated.
NeedsReport(t) == rec[t] = NoRow

FinalizeAgain(t, s, status) == Persist(t, s, status, "ready")

FinalizeBegin(t, s) ==
    Persist(t, [s EXCEPT !.completed = TRUE], "submitting", "generating")

\* The second half: the record, evaluated by the model or by the fallback, and
\* then the schedule row and the checkpoint.
FinalizeRecord(f) ==
    rec' = [rec EXCEPT ![f.token] = f.saved.answers]

FinalizeEnd(f) ==
    /\ sched' = [sched EXCEPT ![f.token] = ClosedBy(f.status)]
    /\ Persist(f.token, Over(f.saved), f.status, "ready")
    /\ Forget(f.token)

Recoverable(t) ==
    \/ prog[t].report # "ready"
    \/ prog[t].status \in {"started", "in_progress", "submitting",
                           "terminated", "abandoned", "partially_completed"}

\* Mutant: only a session that is over is recovered, not an idle one.
ShouldRecoverOver(t) ==
    prog[t].report # "ready" /\ prog[t].status \in Final \cup {"submitting"}

\* _should_recover_progress, on the row as it was read.
ShouldRecover(t) ==
    /\ prog[t].report # "ready"
    /\ prog[t].status \in Final \cup {"submitting"} \/ idle[t]

RecoveryStatus(row) ==
    IF row.status = "terminated" THEN "terminated"
    ELSE IF row.saved.answers # <<>> THEN "recovered" ELSE "abandoned"

\* _recover_interviews_once reads a batch of the rows with the oldest activity
\* and goes through the ones to recover, however long each of them takes.
RecoveryScan ==
    LET found == {t \in Tokens : prog[t] # NoRow /\ Recoverable(t)}
        batch == {t \in found : Cardinality({u \in found : <<u, t>> \in order})
                                   < RecoveryBatch}
        taken == {t \in batch : ShouldRecover(t)}
    IN /\ scan = {} /\ worker = NoRow /\ taken # {}
       /\ scan' = {[token |-> t, row |-> prog[t],
                    after |-> {u \in taken : <<u, t>> \in order}] : t \in taken}
       /\ UNCHANGED <<warm, rows, mem, turn, sub, tasks, worker, cleanup,
                      shown, used>>

RecoveryBegin ==
    /\ worker = NoRow
    /\ \E x \in scan :
         LET t == x.token IN
         /\ \A y \in scan : y.token \notin x.after
         /\ scan' = scan \ {x}
         /\ IF NeedsReport(t)
            THEN /\ FinalizeBegin(t, x.row.saved)
                 /\ worker' = [token |-> t, saved |-> x.row.saved,
                               status |-> RecoveryStatus(x.row),
                               recorded |-> FALSE]
                 /\ UNCHANGED <<mem, turn>>
            ELSE /\ FinalizeAgain(t, x.row.saved, RecoveryStatus(x.row))
                 /\ Forget(t)
                 /\ UNCHANGED worker
    /\ UNCHANGED <<warm, sched, rec, sub, tasks, cleanup, shown, used>>

RecoveryRecord ==
    /\ worker # NoRow /\ ~worker.recorded
    /\ FinalizeRecord(worker)
    /\ worker' = [worker EXCEPT !.recorded = TRUE]
    /\ UNCHANGED <<sched, prog, idle, order, mem, warm, turn, sub, tasks, scan,
                   cleanup, shown, used>>

RecoveryEnd ==
    /\ worker # NoRow /\ worker.recorded
    /\ FinalizeEnd(worker)
    /\ worker' = NoRow
    /\ UNCHANGED <<rec, warm, sub, tasks, scan, cleanup, shown, used>>

\* _cleanup_expired_integrity_rows on an active invite past its time limit:
\* the live session is finalized, the candidate in it or not.
CleanupBegin(t) ==
    LET s == IF SessionOf(t).answers = <<>> THEN WithPending(SessionOf(t), 1)
                                            ELSE SessionOf(t)
    IN /\ used.sweeps < MaxSweeps
       /\ used' = [used EXCEPT !.sweeps = @ + 1]
       /\ cleanup = NoRow /\ sched[t] = "active" /\ SessionOf(t) # NoRow
       /\ IF NeedsReport(t)
          THEN /\ FinalizeBegin(t, s)
               /\ cleanup' = [token |-> t, saved |-> s,
                              status |-> "recovered",
                              recorded |-> FALSE]
               /\ mem' = [mem EXCEPT ![t] = IF @ = NoRow THEN NoRow
                             ELSE [s EXCEPT !.completed = TRUE]]
               /\ UNCHANGED turn
          ELSE /\ FinalizeAgain(t, s, "recovered")
               /\ Forget(t)
               /\ UNCHANGED cleanup
       /\ UNCHANGED <<warm, sched, rec, sub, tasks, scan, worker, shown>>

CleanupRecord ==
    /\ cleanup # NoRow /\ ~cleanup.recorded
    /\ FinalizeRecord(cleanup)
    /\ cleanup' = [cleanup EXCEPT !.recorded = TRUE]
    /\ UNCHANGED <<sched, prog, idle, order, mem, warm, turn, sub, tasks, scan,
                   worker, shown, used>>

CleanupEnd ==
    /\ cleanup # NoRow /\ cleanup.recorded
    /\ FinalizeEnd(cleanup)
    /\ cleanup' = NoRow
    /\ UNCHANGED <<rec, warm, sub, tasks, scan, worker, shown, used>>

\* The same cleanup on an invite nobody used for a day.
ExpireInvite(t) ==
    /\ sched[t] \in {"pending", "verified"}
    /\ sched' = [sched EXCEPT ![t] = "terminated"]
    /\ UNCHANGED <<warm, prog, idle, order, rec, mem, procs, shown, used>>

(***************************************************************************)
(* Time and faults.                                                        *)
(***************************************************************************)
GoIdle(t) ==
    /\ prog[t] # NoRow /\ ~idle[t] /\ turn[t] = NoRow /\ sub[t] = NoRow
    /\ idle' = [idle EXCEPT ![t] = TRUE]
    /\ UNCHANGED <<warm, sched, prog, order, rec, mem, procs, shown, used>>

\* A restart of the process; a client whose /answer was cut off asks where it
\* stands, or sends the answer again.
Crash ==
    /\ used.crashes < MaxCrashes
    /\ used' = [used EXCEPT !.crashes = @ + 1]
    /\ mem' = [t \in Tokens |-> NoRow]
    /\ turn' = [t \in Tokens |-> NoRow]
    /\ sub' = [t \in Tokens |-> NoRow]
    /\ tasks' = [t \in Tokens |-> {}]
    /\ scan' = {} /\ worker' = NoRow /\ cleanup' = NoRow
    /\ warm' = [t \in Tokens |-> FALSE]
    /\ shown' = [t \in Tokens |-> IF turn[t] # NoRow /\ shown[t] > 0 /\ ~Resends
                                  THEN 0 ELSE shown[t]]
    /\ UNCHANGED rows

Candidate(t) ==
    \/ Lookup(t) \/ Verify(t) \/ Login(t) \/ NextQuestion(t)
    \/ Answer(t) \/ AnswerRefused(t) \/ AnswerBeyond(t)
    \/ Warn(t) \/ Terminate(t) \/ Submit(t)

Handler(t) == \/ AnswerSaved(t) \/ FastRecord(t) \/ FastReport(t)
              \/ ReportReused(t) \/ Upgrade(t)

Recovery == \/ RecoveryScan \/ RecoveryBegin
            \/ RecoveryRecord \/ RecoveryEnd

Cleanup == CleanupRecord \/ CleanupEnd

Next ==
    \/ \E t \in Tokens : \/ Candidate(t) \/ Handler(t) \/ GoIdle(t)
                         \/ CleanupBegin(t) \/ ExpireInvite(t)
    \/ Recovery \/ Cleanup \/ Crash

Spec == Init /\ [][Next]_vars

\* A request that was accepted runs to its end, the recovery worker loops for
\* ever, and time passes; candidates and HR owe nothing.
FairSpec ==
    /\ Spec /\ WF_vars(Recovery) /\ WF_vars(Cleanup)
    /\ \A t \in Tokens : WF_vars(Handler(t)) /\ WF_vars(GoIdle(t))

(***************************************************************************)
(* Properties.                                                             *)
(***************************************************************************)
TypeOK ==
    /\ sched \in [Tokens -> {"pending", "verified", "active"} \cup Closed]
    /\ prog \in [Tokens -> Checkpoints \cup {NoRow}]
    /\ mem \in [Tokens -> Session \cup {NoRow}]
    /\ rec \in [Tokens -> Seq(Questions) \cup {NoRow}]
    /\ turn \in [Tokens -> Session \cup {NoRow, InMemory}]
    /\ sub \in [Tokens -> Submission \cup {NoRow}]
    /\ tasks \in [Tokens -> SUBSET Snapshot]
    /\ \A x \in scan : x.token \in Tokens /\ x.row \in Checkpoints
    /\ worker \in Finalization \cup {NoRow}
    /\ cleanup \in Finalization \cup {NoRow}
    /\ shown \in [Tokens -> {LoggedOut, 0} \cup Questions]
    /\ used \in [returns : Nat, crashes : Nat, visits : Nat, submits : Nat,
                 sweeps : Nat]
    /\ used.crashes <= MaxCrashes

\* The recovery worker never looks again at a checkpoint that says "ready", so
\* one that does has its report in interview_records, whichever of the seven
\* writers of the row said so.
ReadyMeansReport ==
    \A t \in Tokens :
        prog[t] # NoRow /\ prog[t].report = "ready" => rec[t] # NoRow

\* Once the writer of a report is done, the invite is closed and the interview
\* cannot be entered again, unless the process died between the two writes.
Writing(t) == \/ sub[t] # NoRow /\ sub[t].recorded
              \/ worker # NoRow /\ worker.token = t
              \/ cleanup # NoRow /\ cleanup.token = t

ReportClosesInvite ==
    \A t \in Tokens : (rec[t] # NoRow /\ ~Writing(t)) =>
                          (sched[t] \in Closed \/ used.crashes > 0)

\* Every answer in a transcript stands at the question it was given to, in the
\* session, in the checkpoint and in the report, across restarts and restores.
InPlace(answers) == \A i \in DOMAIN answers : answers[i] = i

AnswersInPlace ==
    \A t \in Tokens : /\ mem[t] # NoRow => InPlace(mem[t].answers)
                      /\ prog[t] # NoRow => InPlace(prog[t].saved.answers)
                      /\ rec[t] # NoRow => InPlace(rec[t])

\* No interview that was started is forgotten: submitted or abandoned, with or
\* without a restart, it gets its report and the recovery worker lets go of it.
EveryInterviewSettled ==
    \A t \in Tokens : prog[t] # NoRow ~>
                        (rec[t] # NoRow /\ prog[t].report = "ready")
=============================================================================
