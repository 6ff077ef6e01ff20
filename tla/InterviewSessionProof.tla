----------------------- MODULE InterviewSessionProof -----------------------
(* What the copies of an interview say of each other, for any number of     *)
(* invites, questions, restarts, logins, submissions and sweeps.            *)
EXTENDS InterviewSession, TLAPS

(***************************************************************************)
(* Types.                                                                  *)
(***************************************************************************)
LEMMA NewSessionType == NewSession \in Session
BY InterviewAssumption DEF NewSession, Session, Questions

LEMMA SessionEdits ==
    ASSUME NEW s \in Session
    PROVE  /\ [s EXCEPT !.completed = TRUE] \in Session
           /\ [s EXCEPT !.completed = TRUE].result = s.result
           /\ [s EXCEPT !.ended = TRUE] \in Session
           /\ [s EXCEPT !.ended = TRUE].result = s.result
           /\ [s EXCEPT !.finalizing = TRUE] \in Session
           /\ [s EXCEPT !.finalizing = TRUE].result = s.result
           /\ [s EXCEPT !.result = TRUE] \in Session
           /\ Over(s) \in Session
BY DEF Session, Over

LEMMA AskedType ==
    ASSUME NEW s \in Session
    PROVE  Asked(s) \in Session /\ Asked(s).result = s.result
BY SessionEdits DEF Asked

LEMMA OnScreenType ==
    ASSUME NEW s \in Session
    PROVE  OnScreen(s) \in {0} \cup Questions
BY InterviewAssumption DEF OnScreen, Session, Questions

LEMMA WithPendingType ==
    ASSUME NEW s \in Session, NEW q \in {0} \cup Questions
    PROVE  WithPending(s, q) \in Session /\ WithPending(s, q).result = s.result
<1>1. CASE q = 0
  BY <1>1 DEF WithPending
<1>2. CASE q \in Questions
  <2>1. Append(s.answers, q) \in Seq(Questions)
    BY <1>2 DEF Session
  <2>2. [s EXCEPT !.answers = Append(@, q)] \in Session
    BY <2>1 DEF Session
  <2>3. [s EXCEPT !.answers = Append(@, q)].result = s.result
    BY DEF Session
  <2> QED BY <2>2, <2>3 DEF WithPending
<1> QED BY <1>1, <1>2

LEMMA StatusTypes ==
    ASSUME NEW s, NEW row \in Checkpoints, NEW status
    PROVE  /\ ProgressStatus(s) \in ProgressStatuses
           /\ SubmitStatus(s) \in ProgressStatuses
           /\ RecoveryStatus(row) \in ProgressStatuses
           /\ ClosedBy(status) \in Closed
           /\ DerivedReport(s, status) \in {"", "pending", "generating", "ready"}
BY DEF ProgressStatus, SubmitStatus, RecoveryStatus, ClosedBy, DerivedReport,
       ProgressStatuses, Final, Closed

LEMMA PersistType ==
    ASSUME TypeOK, NEW t \in Tokens, NEW s \in Session,
           NEW status \in ProgressStatuses,
           NEW report \in {"", "pending", "generating", "ready"},
           Persist(t, s, status, report)
    PROVE  prog' \in [Tokens -> Checkpoints \cup {NoRow}]
BY DEF Persist, TypeOK, Checkpoints

LEMMA CheckpointType ==
    ASSUME TypeOK, NEW t \in Tokens, NEW s \in Session,
           NEW status \in ProgressStatuses, Checkpoint(t, s, status)
    PROVE  prog' \in [Tokens -> Checkpoints \cup {NoRow}]
<1>1. DerivedReport(s, status) \in {"", "pending", "generating", "ready"}
  BY DEF DerivedReport
<1> QED BY <1>1, PersistType DEF Checkpoint

LEMMA SessionOfType ==
    ASSUME TypeOK, NEW t \in Tokens, SessionOf(t) # NoRow
    PROVE  SessionOf(t) \in Session
BY DEF SessionOf, TypeOK, Checkpoints

LEMMA BootType ==
    ASSUME TypeOK, NEW t \in Tokens
    PROVE  Boot(t) \in Session
BY NewSessionType DEF Boot, TypeOK, Checkpoints

LEMMA InitTypeOK == Init => TypeOK
BY InterviewAssumption DEF Init, TypeOK, LoggedOut, Closed

Counters == [returns : Nat, crashes : Nat, visits : Nat, submits : Nat,
             sweeps : Nat]

\* A handler that works on the session in memory finds it there.
HeldInMemory == \A t \in Tokens : turn[t] = InMemory => mem[t] # NoRow

\* Counting an event keeps the counters.
LEMMA UsedTypes ==
    ASSUME TypeOK, NEW t \in Tokens
    PROVE  /\ Returns(t) =>
                /\ used' \in Counters
                /\ used'.crashes <= MaxCrashes
           /\ Back(t) \in Nat
BY DEF Returns, Back, TypeOK, Counters

LEMMA PrewarmType ==
    ASSUME TypeOK, NEW t \in Tokens, Prewarm(t)
    PROVE  /\ prog' \in [Tokens -> Checkpoints \cup {NoRow}]
           /\ mem' \in [Tokens -> Session \cup {NoRow}]
<1>1. CASE mem[t] # NoRow \/ warm[t]
  BY <1>1 DEF Prewarm, TypeOK
<1>2. CASE ~(mem[t] # NoRow \/ warm[t])
  <2>1. mem' = [mem EXCEPT ![t] = Boot(t)]
    BY <1>2 DEF Prewarm
  <2>2. Persist(t, NewSession, "started", "") \/ UNCHANGED prog
    BY <1>2 DEF Prewarm
  <2>3. "started" \in ProgressStatuses
    BY DEF ProgressStatuses
  <2>4. prog' \in [Tokens -> Checkpoints \cup {NoRow}]
    BY <2>2, <2>3, NewSessionType, PersistType DEF TypeOK
  <2> QED BY <2>1, <2>4, BootType DEF TypeOK
<1> QED BY <1>1, <1>2

LEMMA TypeEntry ==
    ASSUME TypeOK, NEW t \in Tokens, Lookup(t) \/ Verify(t) \/ Login(t)
    PROVE  TypeOK'
<1>1. CASE Lookup(t)
  BY <1>1, PrewarmType, UsedTypes DEF Lookup, TypeOK, Counters, procs
<1>2. CASE Verify(t)
  BY <1>2, PrewarmType, UsedTypes DEF Verify, TypeOK, Counters, procs
<1>3. CASE Login(t)
  <2>1. "in_progress" \in ProgressStatuses
    BY DEF ProgressStatuses
  <2>2. prog' \in [Tokens -> Checkpoints \cup {NoRow}]
    BY <1>3, <2>1, BootType, CheckpointType DEF Login
  <2>3. mem' \in [Tokens -> Session \cup {NoRow}]
    BY <1>3, BootType DEF Login, TypeOK
  <2>4. /\ used' \in Counters
        /\ used'.crashes <= MaxCrashes
    <3>1. Back(t) \in Nat
      BY DEF Back
    <3>2. used' = [used EXCEPT !.returns = @ + Back(t), !.visits = @ + 1]
      BY <1>3 DEF Login
    <3> HIDE DEF Counters
    <3>3. used \in Counters /\ used.crashes <= MaxCrashes
      BY DEF TypeOK, Counters
    <3>4. used.returns + Back(t) \in Nat /\ used.visits + 1 \in Nat
      BY <3>1, <3>3 DEF Counters
    <3>5. used' = [returns |-> used.returns + Back(t), crashes |-> used.crashes,
                   visits |-> used.visits + 1, submits |-> used.submits,
                   sweeps |-> used.sweeps]
      BY <3>2, <3>3 DEF Counters
    <3> QED BY <3>3, <3>4, <3>5 DEF Counters
  <2> QED BY <1>3, <2>2, <2>3, <2>4 DEF Login, TypeOK, Counters, procs
<1> QED BY <1>1, <1>2, <1>3

LEMMA TypeQuestions ==
    ASSUME TypeOK, HeldInMemory, NEW t \in Tokens,
           \/ NextQuestion(t) \/ Answer(t) \/ AnswerRefused(t)
           \/ AnswerBeyond(t) \/ AnswerSaved(t)
    PROVE  TypeOK'
<1> DEFINE s == SessionOf(t)
<1>1. CASE NextQuestion(t)
  <2>1. s \in Session
    BY <1>1, SessionOfType DEF NextQuestion
  <2>2. prog' \in [Tokens -> Checkpoints \cup {NoRow}]
    BY <1>1, <2>1, StatusTypes, CheckpointType DEF NextQuestion, ProgressStatus, ProgressStatuses, Final
  <2> HIDE DEF s
  <2>3. mem' \in [Tokens -> Session \cup {NoRow}]
    BY <1>1, <2>1, AskedType DEF NextQuestion, TypeOK, s
  <2>4. shown' \in [Tokens -> {LoggedOut, 0} \cup Questions]
    BY <1>1, <2>1, OnScreenType DEF NextQuestion, TypeOK, s
  <2> QED BY <1>1, <2>2, <2>3, <2>4, UsedTypes DEF NextQuestion, TypeOK, Counters, procs
<1>2. CASE Answer(t)
  <2>1. s \in Session
    BY <1>2, SessionOfType DEF Answer
  <2>2. shown[t] \in Questions /\ s.current < NumQuestions
    BY <1>2 DEF Answer, TypeOK, LoggedOut
  <2>3. mem' = [mem EXCEPT ![t] = [s EXCEPT !.answers = Append(@, shown[t]),
                                           !.current = @ + 1]]
    BY <1>2 DEF Answer
  <2> HIDE DEF s
  <2>4. Append(s.answers, shown[t]) \in Seq(Questions)
    BY <2>1, <2>2 DEF Session
  <2>5. s.current + 1 \in 0 .. NumQuestions
    BY <2>1, <2>2, InterviewAssumption DEF Session
  <2>6. [s EXCEPT !.answers = Append(@, shown[t]), !.current = @ + 1] \in Session
    BY <2>1, <2>4, <2>5 DEF Session
  <2> QED BY <1>2, <2>3, <2>6 DEF Answer, TypeOK, rows
<1>3. CASE AnswerRefused(t)
  <2>1. s \in Session
    BY <1>3, SessionOfType DEF AnswerRefused
  <2> QED BY <1>3, <2>1 DEF AnswerRefused, TypeOK, rows, procs
<1>4. CASE AnswerBeyond(t)
  <2>1. s \in Session
    BY <1>4, SessionOfType DEF AnswerBeyond
  <2>2. [s EXCEPT !.completed = TRUE] \in Session
    BY <2>1, SessionEdits
  <2>3. "completed" \in ProgressStatuses
    BY DEF ProgressStatuses, Final
  <2>4. prog' \in [Tokens -> Checkpoints \cup {NoRow}]
    BY <1>4, <2>2, <2>3, CheckpointType DEF AnswerBeyond
  <2> QED BY <1>4, <2>2, <2>4, UsedTypes DEF AnswerBeyond, TypeOK, Counters, procs
<1>5. CASE AnswerSaved(t)
  <2> DEFINE a == IF turn[t] = InMemory THEN mem[t] ELSE turn[t]
  <2>1. a \in Session
    BY <1>5 DEF AnswerSaved, TypeOK, HeldInMemory
  <2>2. PICK status \in {"in_progress", "submitting"} : Checkpoint(t, a, status)
    BY <1>5 DEF AnswerSaved
  <2>3. prog' \in [Tokens -> Checkpoints \cup {NoRow}]
    BY <2>1, <2>2, CheckpointType DEF ProgressStatuses
  <2>4. mem' \in [Tokens -> Session \cup {NoRow}]
    BY <1>5, <2>1, AskedType DEF AnswerSaved, TypeOK
  <2>5. shown' \in [Tokens -> {LoggedOut, 0} \cup Questions]
    BY <1>5, <2>1, OnScreenType DEF AnswerSaved, TypeOK, LoggedOut
  <2>6. turn' \in [Tokens -> Session \cup {NoRow, InMemory}]
    BY <1>5 DEF AnswerSaved, TypeOK
  <2> QED BY <1>5, <2>3, <2>4, <2>5, <2>6, UsedTypes
          DEF AnswerSaved, TypeOK, Counters
<1> QED BY <1>1, <1>2, <1>3, <1>4, <1>5

LEMMA TypeViolations ==
    ASSUME TypeOK, NEW t \in Tokens, Warn(t) \/ Terminate(t)
    PROVE  TypeOK'
<1>1. mem[t] \in Session
  BY DEF Warn, Terminate, TypeOK
<1>2. CASE Warn(t)
  <2>1. prog' \in [Tokens -> Checkpoints \cup {NoRow}]
    BY <1>1, <1>2, StatusTypes, CheckpointType
       DEF Warn, ProgressStatus, ProgressStatuses, Final
  <2> QED BY <1>2, <2>1, UsedTypes DEF Warn, TypeOK, Counters, procs
<1>3. CASE Terminate(t)
  <2>1. [mem[t] EXCEPT !.ended = TRUE] \in Session
    BY <1>1, SessionEdits
  <2>2. "terminated" \in ProgressStatuses
    BY DEF ProgressStatuses, Final
  <2>3. prog' \in [Tokens -> Checkpoints \cup {NoRow}]
    BY <1>3, <2>1, <2>2, CheckpointType DEF Terminate
  <2> QED BY <1>3, <2>1, <2>3, UsedTypes
          DEF Terminate, TypeOK, Counters, procs, Closed
<1> QED BY <1>2, <1>3

LEMMA SubmitType ==
    ASSUME TypeOK, NEW t \in Tokens, Submit(t)
    PROVE  TypeOK'
<1> DEFINE s == SessionOf(t)
           done(q) == [WithPending(s, q) EXCEPT !.finalizing = TRUE]
<1>1. PICK q \in PendingAnswers(t) :
         /\ mem' = [mem EXCEPT ![t] = done(q)]
         /\ sub' = [sub EXCEPT ![t] =
                      [saved |-> done(q), status |-> SubmitStatus(done(q)),
                       recorded |-> FALSE]]
  BY DEF Submit
<1>2. q \in {0} \cup Questions
  BY DEF PendingAnswers, TypeOK, LoggedOut
<1>3. done(q) \in Session
  BY <1>2, WithPendingType, SessionEdits, SessionOfType DEF Submit
<1>4. SubmitStatus(done(q)) \in ProgressStatuses
  BY DEF SubmitStatus, ProgressStatuses, Final
<1>5. used' \in Counters /\ used'.crashes <= MaxCrashes
  BY DEF Submit, TypeOK, Counters
<1>6. /\ UNCHANGED <<warm, rows, turn, tasks, scan, worker, cleanup>>
      /\ shown' = [shown EXCEPT ![t] = 0]
  BY DEF Submit
<1> HIDE DEF done
<1>7. /\ mem' \in [Tokens -> Session \cup {NoRow}]
      /\ sub' \in [Tokens -> Submission \cup {NoRow}]
      /\ shown' \in [Tokens -> {LoggedOut, 0} \cup Questions]
  BY <1>1, <1>3, <1>4, <1>6 DEF TypeOK, Submission
<1> QED BY <1>5, <1>6, <1>7 DEF TypeOK, Counters, rows

LEMMA ForgetType ==
    ASSUME TypeOK, NEW t \in Tokens, Forget(t)
    PROVE  /\ mem' \in [Tokens -> Session \cup {NoRow}]
           /\ turn' \in [Tokens -> Session \cup {NoRow, InMemory}]
BY DEF Forget, TypeOK

LEMMA TypeReport ==
    ASSUME TypeOK, NEW t \in Tokens,
           FastRecord(t) \/ FastReport(t) \/ ReportReused(t) \/ Upgrade(t)
    PROVE  TypeOK'
<1>1. CASE FastRecord(t)
  <2>1. sub[t] \in Submission /\ sub[t].saved.answers \in Seq(Questions)
    BY <1>1 DEF FastRecord, TypeOK, Submission, Session
  <2>2. rec' \in [Tokens -> Seq(Questions) \cup {NoRow}]
    BY <1>1, <2>1 DEF FastRecord, TypeOK
  <2>3. sub' \in [Tokens -> Submission \cup {NoRow}]
    BY <1>1, <2>1 DEF FastRecord, TypeOK, Submission
  <2> QED BY <1>1, <2>2, <2>3 DEF FastRecord, TypeOK, Counters
<1>2. ASSUME FastReport(t) \/ ReportReused(t)
      PROVE  /\ sub' \in [Tokens -> Submission \cup {NoRow}]
             /\ tasks' \in [Tokens -> SUBSET Snapshot]
             /\ sub[t] \in Submission
  <2>1. sub[t] \in Submission
    BY <1>2 DEF FastReport, ReportReused, TypeOK
  <2>2. [saved |-> sub[t].saved, status |-> sub[t].status] \in Snapshot
    BY <2>1 DEF Submission, Snapshot
  <2> QED BY <1>2, <2>1, <2>2 DEF FastReport, ReportReused, Submitted, TypeOK
<1>3. CASE FastReport(t)
  <2>1. Over(sub[t].saved) \in Session /\ sub[t].status \in ProgressStatuses
    BY <1>2, <1>3, SessionEdits DEF Submission
  <2>2. prog' \in [Tokens -> Checkpoints \cup {NoRow}]
    BY <1>3, <2>1, PersistType DEF FastReport
  <2>3. mem' \in [Tokens -> Session \cup {NoRow}]
    <3>1. CASE mem[t] = NoRow
      BY <1>3, <3>1 DEF FastReport, TypeOK
    <3>2. CASE mem[t] \in Session
      <4>1. Over(mem[t]) \in Session
        BY <3>2, SessionEdits
      <4> QED BY <1>3, <4>1 DEF FastReport, TypeOK
    <3> QED BY <3>1, <3>2 DEF TypeOK
  <2>4. sched' \in [Tokens -> {"pending", "verified", "active"} \cup Closed]
    BY <1>3 DEF FastReport, TypeOK, ClosedBy, Closed
  <2> QED BY <1>2, <1>3, <2>2, <2>3, <2>4 DEF FastReport, TypeOK, Counters
<1>4. CASE ReportReused(t)
  <2>1. prog' \in [Tokens -> Checkpoints \cup {NoRow}]
    BY <1>2, <1>4, PersistType DEF ReportReused, Submission
  <2> QED BY <1>2, <1>4, <2>1 DEF ReportReused, TypeOK, Counters
<1>5. CASE Upgrade(t)
  <2>1. PICK k \in tasks[t] :
      /\ tasks' = [tasks EXCEPT ![t] = @ \ {k}]
      /\ \/ /\ rec' = [rec EXCEPT ![t] = k.saved.answers]
            /\ Persist(t, [k.saved EXCEPT !.result = TRUE], k.status, "ready")
            /\ Forget(t)
         \/ UNCHANGED <<rec, prog, idle, order, mem, turn>>
    BY <1>5 DEF Upgrade
  <2>2. k \in Snapshot
    BY DEF TypeOK
  <2>3. /\ tasks' \in [Tokens -> SUBSET Snapshot]
        /\ UNCHANGED <<warm, sched, sub, scan, worker, cleanup, shown, used>>
    BY <1>5, <2>1 DEF Upgrade, TypeOK
  <2>4. CASE /\ rec' = [rec EXCEPT ![t] = k.saved.answers]
             /\ Persist(t, [k.saved EXCEPT !.result = TRUE], k.status, "ready")
             /\ Forget(t)
    <3>1. [k.saved EXCEPT !.result = TRUE] \in Session
      BY <2>2, SessionEdits DEF Snapshot
    <3>2. prog' \in [Tokens -> Checkpoints \cup {NoRow}]
      BY <2>2, <2>4, <3>1, PersistType DEF Snapshot
    <3>3. rec' \in [Tokens -> Seq(Questions) \cup {NoRow}]
      BY <2>2, <2>4 DEF TypeOK, Snapshot, Session
    <3> QED BY <2>3, <2>4, <3>2, <3>3, ForgetType DEF TypeOK, Counters
  <2>5. CASE UNCHANGED <<rec, prog, idle, order, mem, turn>>
    BY <2>3, <2>5 DEF TypeOK, Counters
  <2> QED BY <2>1, <2>4, <2>5
<1> QED BY <1>1, <1>3, <1>4, <1>5

\* What the recovery worker and the cleanup share.
LEMMA FinalizeType ==
    ASSUME TypeOK, NEW f \in Finalization
    PROVE  /\ FinalizeRecord(f) => rec' \in [Tokens -> Seq(Questions) \cup {NoRow}]
           /\ [f EXCEPT !.recorded = TRUE] \in Finalization
           /\ FinalizeEnd(f) =>
                /\ sched' \in [Tokens -> {"pending", "verified", "active"} \cup Closed]
                /\ prog' \in [Tokens -> Checkpoints \cup {NoRow}]
                /\ mem' \in [Tokens -> Session \cup {NoRow}]
                /\ turn' \in [Tokens -> Session \cup {NoRow, InMemory}]
<1>1. /\ f.token \in Tokens /\ f.saved \in Session
      /\ f.status \in ProgressStatuses /\ f.saved.answers \in Seq(Questions)
  BY DEF Finalization, Session
<1>2. Over(f.saved) \in Session
  BY <1>1, SessionEdits
<1>3. ASSUME FinalizeRecord(f)
      PROVE  rec' \in [Tokens -> Seq(Questions) \cup {NoRow}]
  BY <1>1, <1>3 DEF FinalizeRecord, TypeOK
<1>4. ASSUME FinalizeEnd(f)
      PROVE  sched' \in [Tokens -> {"pending", "verified", "active"} \cup Closed]
  BY <1>1, <1>4 DEF FinalizeEnd, TypeOK, ClosedBy, Closed
<1>5. ASSUME FinalizeEnd(f)
      PROVE  prog' \in [Tokens -> Checkpoints \cup {NoRow}]
  BY <1>1, <1>2, <1>5, PersistType DEF FinalizeEnd
<1>6. [f EXCEPT !.recorded = TRUE] \in Finalization
  BY DEF Finalization
<1> QED BY <1>1, <1>3, <1>4, <1>5, <1>6, ForgetType DEF FinalizeEnd

LEMMA BeginType ==
    ASSUME TypeOK, NEW t \in Tokens, NEW s \in Session,
           NEW status \in ProgressStatuses
    PROVE  /\ FinalizeBegin(t, s) => prog' \in [Tokens -> Checkpoints \cup {NoRow}]
           /\ FinalizeAgain(t, s, status) =>
                prog' \in [Tokens -> Checkpoints \cup {NoRow}]
<1>1. [s EXCEPT !.completed = TRUE] \in Session
  BY SessionEdits
<1>2. "submitting" \in ProgressStatuses
  BY DEF ProgressStatuses
<1> QED BY <1>1, <1>2, PersistType DEF FinalizeBegin, FinalizeAgain

LEMMA TypeRecovery == ASSUME TypeOK, Recovery PROVE TypeOK'
<1>1. CASE RecoveryScan
  <2>1. \A x \in scan' : x.token \in Tokens /\ x.row \in Checkpoints
    <3>1. \A x \in scan' : \E t \in Tokens :
             prog[t] # NoRow /\ x.token = t /\ x.row = prog[t]
      <4> DEFINE found == {t \in Tokens : prog[t] # NoRow /\ Recoverable(t)}
                 batch == {t \in found : Cardinality({u \in found : <<u, t>> \in order})
                                            < RecoveryBatch}
                 taken == {t \in batch : ShouldRecover(t)}
      <4>1. scan' = {[token |-> t, row |-> prog[t],
                      after |-> {u \in taken : <<u, t>> \in order}] : t \in taken}
        BY <1>1 DEF RecoveryScan
      <4>2. \A t \in taken : t \in Tokens /\ prog[t] # NoRow
        OBVIOUS
      <4> HIDE DEF taken
      <4> QED BY <4>1, <4>2
    <3> QED BY <3>1 DEF TypeOK
  <2> QED BY <1>1, <2>1 DEF RecoveryScan, TypeOK, rows
<1>2. CASE RecoveryBegin
  <2>1. PICK x \in scan :
         LET t == x.token IN
         /\ scan' = scan \ {x}
         /\ IF NeedsReport(t)
            THEN /\ FinalizeBegin(t, x.row.saved)
                 /\ worker' = [token |-> t, saved |-> x.row.saved,
                               status |-> RecoveryStatus(x.row),
                               recorded |-> FALSE]
                 /\ UNCHANGED <<mem, turn>>
            ELSE /\ FinalizeAgain(t, x.row.saved, RecoveryStatus(x.row))
                 /\ Forget(t)
                 /\ UNCHANGED worker
    BY <1>2 DEF RecoveryBegin
  <2>2. /\ x.token \in Tokens /\ x.row \in Checkpoints
        /\ x.row.saved \in Session /\ RecoveryStatus(x.row) \in ProgressStatuses
    BY StatusTypes DEF TypeOK, Checkpoints
  <2>3. UNCHANGED <<warm, sched, rec, sub, tasks, cleanup, shown, used>>
    BY <1>2 DEF RecoveryBegin
  <2>4. prog' \in [Tokens -> Checkpoints \cup {NoRow}]
    BY <2>1, <2>2, BeginType
  <2>5. worker' \in Finalization \cup {NoRow}
    <3>1. [token |-> x.token, saved |-> x.row.saved,
            status |-> RecoveryStatus(x.row), recorded |-> FALSE] \in Finalization
      BY <2>2 DEF Finalization
    <3> QED BY <2>1, <3>1 DEF TypeOK
  <2>6. /\ mem' \in [Tokens -> Session \cup {NoRow}]
        /\ turn' \in [Tokens -> Session \cup {NoRow, InMemory}]
    BY <2>1, <2>2, ForgetType DEF TypeOK
  <2> QED BY <2>1, <2>3, <2>4, <2>5, <2>6 DEF TypeOK
<1>3. CASE RecoveryRecord
  <2>1. worker \in Finalization
    BY <1>3 DEF RecoveryRecord, TypeOK
  <2> QED BY <1>3, <2>1, FinalizeType DEF RecoveryRecord, TypeOK
<1>4. CASE RecoveryEnd
  <2>1. worker \in Finalization
    BY <1>4 DEF RecoveryEnd, TypeOK
  <2> QED BY <1>4, <2>1, FinalizeType DEF RecoveryEnd, TypeOK
<1> QED BY <1>1, <1>2, <1>3, <1>4 DEF Recovery

LEMMA TypeCleanup ==
    ASSUME TypeOK, Cleanup \/ \E t \in Tokens : CleanupBegin(t)
    PROVE  TypeOK'
<1>1. CASE CleanupRecord
  <2>1. cleanup \in Finalization
    BY <1>1 DEF CleanupRecord, TypeOK
  <2> QED BY <1>1, <2>1, FinalizeType DEF CleanupRecord, TypeOK
<1>2. CASE CleanupEnd
  <2>1. cleanup \in Finalization
    BY <1>2 DEF CleanupEnd, TypeOK
  <2> QED BY <1>2, <2>1, FinalizeType DEF CleanupEnd, TypeOK
<1>3. ASSUME NEW t \in Tokens, CleanupBegin(t)
      PROVE  TypeOK'
  <2> DEFINE s == IF SessionOf(t).answers = <<>> THEN WithPending(SessionOf(t), 1)
                                                ELSE SessionOf(t)
  <2>1. /\ used' = [used EXCEPT !.sweeps = @ + 1]
        /\ IF NeedsReport(t)
          THEN /\ FinalizeBegin(t, s)
               /\ cleanup' = [token |-> t, saved |-> s,
                              status |-> "recovered",
                              recorded |-> FALSE]
               /\ mem' = [mem EXCEPT ![t] = IF @ = NoRow THEN NoRow
                             ELSE [s EXCEPT !.completed = TRUE]]
               /\ UNCHANGED turn
          ELSE /\ FinalizeAgain(t, s, "recovered")
               /\ Forget(t)
               /\ UNCHANGED cleanup
        /\ UNCHANGED <<warm, sched, rec, sub, tasks, scan, worker, shown>>
    BY <1>3 DEF CleanupBegin
  <2>2. 1 \in {0} \cup Questions
    BY InterviewAssumption DEF Questions
  <2>3. s \in Session
    BY <1>3, <2>2, SessionOfType, WithPendingType DEF CleanupBegin
  <2>4. "recovered" \in ProgressStatuses
    BY DEF ProgressStatuses, Final
  <2> HIDE DEF s
  <2>5. prog' \in [Tokens -> Checkpoints \cup {NoRow}]
    BY <2>1, <2>3, <2>4, BeginType
  <2>6. /\ mem' \in [Tokens -> Session \cup {NoRow}]
        /\ turn' \in [Tokens -> Session \cup {NoRow, InMemory}]
    <3>1. [s EXCEPT !.completed = TRUE] \in Session
      BY <2>3, SessionEdits
    <3>2. CASE NeedsReport(t)
      BY <2>1, <3>1, <3>2 DEF TypeOK
    <3>3. CASE ~NeedsReport(t)
      BY <2>1, <3>3, ForgetType
    <3> QED BY <3>2, <3>3
  <2>7. cleanup' \in Finalization \cup {NoRow}
    <3>1. [token |-> t, saved |-> s, status |-> "recovered", recorded |-> FALSE]
            \in Finalization
      BY <2>3, <2>4 DEF Finalization
    <3> QED BY <2>1, <3>1 DEF TypeOK
  <2>8. used' \in Counters /\ used'.crashes <= MaxCrashes
    BY <2>1 DEF TypeOK, Counters
  <2> QED BY <2>1, <2>5, <2>6, <2>7, <2>8 DEF TypeOK, Counters
<1> QED BY <1>1, <1>2, <1>3 DEF Cleanup

LEMMA TypeFaults ==
    ASSUME TypeOK,
           Crash \/ (\E t \in Tokens : ExpireInvite(t) \/ GoIdle(t))
             \/ UNCHANGED vars
    PROVE  TypeOK'
<1>1. CASE Crash
  <2>1. used' \in Counters /\ used'.crashes <= MaxCrashes
    <3>1. used.crashes < MaxCrashes /\ used' = [used EXCEPT !.crashes = @ + 1]
      BY <1>1 DEF Crash
    <3>2. used \in Counters /\ used.crashes + 1 \in Nat
      BY DEF TypeOK, Counters
    <3>3. used.crashes + 1 <= MaxCrashes
      BY <3>1, <3>2, InterviewAssumption DEF Counters
    <3> QED BY <3>1, <3>2, <3>3 DEF Counters
  <2>2. shown' \in [Tokens -> {LoggedOut, 0} \cup Questions]
    BY <1>1 DEF Crash, TypeOK
  <2> QED BY <1>1, <2>1, <2>2 DEF Crash, TypeOK, Counters, rows
<1>2. ASSUME NEW t \in Tokens, ExpireInvite(t) \/ GoIdle(t)
      PROVE  TypeOK'
  BY <1>2 DEF ExpireInvite, GoIdle, TypeOK, procs, Closed
<1>3. CASE UNCHANGED vars
  BY <1>3 DEF vars, rows, procs, TypeOK
<1> QED BY <1>1, <1>2, <1>3

LEMMA TypeStep ==
    ASSUME TypeOK, HeldInMemory, [Next]_vars
    PROVE  TypeOK'
<1>1. CASE UNCHANGED vars
  BY <1>1, TypeFaults
<1>2. CASE Recovery \/ Cleanup \/ Crash
  BY <1>2, TypeRecovery, TypeCleanup, TypeFaults
<1>3. ASSUME NEW t \in Tokens,
             \/ Candidate(t) \/ Handler(t) \/ GoIdle(t)
             \/ CleanupBegin(t) \/ ExpireInvite(t)
      PROVE  TypeOK'
  <2>1. CASE Candidate(t) \/ Handler(t)
    BY <2>1, TypeEntry, TypeQuestions, TypeViolations, SubmitType, TypeReport
       DEF Candidate, Handler
  <2>2. CASE GoIdle(t) \/ CleanupBegin(t) \/ ExpireInvite(t)
    BY <2>2, TypeCleanup, TypeFaults
  <2> QED BY <1>3, <2>1, <2>2
<1> QED BY <1>1, <1>2, <1>3 DEF Next

\* No handler is left without its session: whoever drops a session from memory
\* hands it to the handler that is working on it.
LEMMA HeldForget ==
    ASSUME TypeOK, HeldInMemory, NEW t \in Tokens, Forget(t)
    PROVE  HeldInMemory'
BY InterviewAssumption DEF Forget, HeldInMemory, TypeOK

\* A step that sets the session of one invite to a session, or leaves it.
LEMMA HeldKept ==
    ASSUME TypeOK, HeldInMemory, UNCHANGED turn, NEW t \in Tokens,
           \/ UNCHANGED mem
           \/ \E s \in Session : mem' = [mem EXCEPT ![t] = s]
           \/ \E s \in Session :
                 mem' = [mem EXCEPT ![t] = IF mem[t] = NoRow THEN NoRow ELSE s]
    PROVE  HeldInMemory'
BY InterviewAssumption DEF HeldInMemory, TypeOK

LEMMA HeldCandidate ==
    ASSUME TypeOK, HeldInMemory, NEW t \in Tokens, Candidate(t)
    PROVE  HeldInMemory'
<1> DEFINE s == SessionOf(t)
<1>1. CASE Lookup(t) \/ Verify(t) \/ Login(t)
  <2>1. UNCHANGED mem \/ mem' = [mem EXCEPT ![t] = Boot(t)]
    BY <1>1 DEF Lookup, Verify, Login, Prewarm
  <2>2. UNCHANGED turn
    BY <1>1 DEF Lookup, Verify, Login, procs
  <2> QED BY <2>1, <2>2, BootType, HeldKept
<1>2. CASE NextQuestion(t)
  <2>1. UNCHANGED turn /\ mem' = [mem EXCEPT ![t] = Asked(s)] /\ s \in Session
    BY <1>2, SessionOfType DEF NextQuestion, procs
  <2> HIDE DEF s
  <2> QED BY <2>1, AskedType, HeldKept
<1>3. CASE Answer(t)
  <2>1. shown[t] \in Questions /\ s.current < NumQuestions /\ s \in Session
    BY <1>3, SessionOfType DEF Answer, TypeOK, LoggedOut
  <2>2. /\ mem' = [mem EXCEPT ![t] = [s EXCEPT !.answers = Append(@, shown[t]),
                                             !.current = @ + 1]]
        /\ turn' = [turn EXCEPT ![t] = InMemory]
    BY <1>3 DEF Answer
  <2> HIDE DEF s
  <2>3. Append(s.answers, shown[t]) \in Seq(Questions)
    BY <2>1 DEF Session
  <2>4. s.current + 1 \in 0 .. NumQuestions
    BY <2>1, InterviewAssumption DEF Session
  <2>5. [s EXCEPT !.answers = Append(@, shown[t]), !.current = @ + 1] \in Session
    BY <2>1, <2>3, <2>4 DEF Session
  <2> QED BY <2>2, <2>5, InterviewAssumption DEF HeldInMemory, TypeOK
<1>4. CASE AnswerRefused(t) \/ AnswerBeyond(t)
  <2>1. s \in Session /\ UNCHANGED turn
    BY <1>4, SessionOfType DEF AnswerRefused, AnswerBeyond, procs
  <2>2. \/ mem' = [mem EXCEPT ![t] = s]
        \/ mem' = [mem EXCEPT ![t] = [s EXCEPT !.completed = TRUE]]
    BY <1>4 DEF AnswerRefused, AnswerBeyond
  <2> HIDE DEF s
  <2> QED BY <2>1, <2>2, SessionEdits, HeldKept
<1>5. CASE Warn(t)
  BY <1>5, HeldKept DEF Warn, procs
<1>6. CASE Terminate(t)
  <2>1. mem[t] \in Session /\ UNCHANGED turn
    BY <1>6 DEF Terminate, TypeOK, procs
  <2>2. mem' = [mem EXCEPT ![t] = [mem[t] EXCEPT !.ended = TRUE]]
    BY <1>6 DEF Terminate
  <2>3. [mem[t] EXCEPT !.ended = TRUE] \in Session
    BY <2>1, SessionEdits
  <2> QED BY <2>1, <2>2, <2>3, HeldKept
<1>7. CASE Submit(t)
  <2>1. PICK q \in PendingAnswers(t) :
          mem' = [mem EXCEPT ![t] = [WithPending(s, q) EXCEPT !.finalizing = TRUE]]
    BY <1>7 DEF Submit
  <2>2. q \in {0} \cup Questions /\ s \in Session /\ UNCHANGED turn
    BY <1>7, SessionOfType DEF PendingAnswers, TypeOK, LoggedOut, Submit
  <2> HIDE DEF s
  <2>3. [WithPending(s, q) EXCEPT !.finalizing = TRUE] \in Session
    BY <2>2, WithPendingType, SessionEdits
  <2> QED BY <2>1, <2>2, <2>3, HeldKept
<1> QED BY <1>1, <1>2, <1>3, <1>4, <1>5, <1>6, <1>7 DEF Candidate

LEMMA HeldOther ==
    ASSUME TypeOK, HeldInMemory, [Next]_vars,
           \A t \in Tokens : ~Candidate(t)
    PROVE  HeldInMemory'
<1>1. ASSUME NEW t \in Tokens, Handler(t)
      PROVE  HeldInMemory'
  <2>1. CASE AnswerSaved(t)
    <3> DEFINE a == IF turn[t] = InMemory THEN mem[t] ELSE turn[t]
    <3>1. a \in Session
      BY <2>1 DEF AnswerSaved, TypeOK, HeldInMemory
    <3>2. turn' = [turn EXCEPT ![t] = NoRow]
      BY <2>1 DEF AnswerSaved
    <3>3. UNCHANGED mem \/ mem' = [mem EXCEPT ![t] = Asked(a)]
      BY <2>1 DEF AnswerSaved
    <3> HIDE DEF a
    <3> QED BY <3>1, <3>2, <3>3, AskedType, InterviewAssumption
            DEF HeldInMemory, TypeOK
  <2>2. CASE FastRecord(t) \/ ReportReused(t)
    BY <2>2, HeldKept DEF FastRecord, ReportReused
  <2>3. CASE FastReport(t)
    <3>1. /\ mem' = [mem EXCEPT ![t] = IF @ = NoRow THEN NoRow ELSE Over(@)]
          /\ UNCHANGED turn
      BY <2>3 DEF FastReport
    <3>2. CASE mem[t] = NoRow
      BY <3>1, <3>2 DEF HeldInMemory, TypeOK
    <3>3. CASE mem[t] \in Session
      BY <3>1, <3>3, SessionEdits, HeldKept
    <3> QED BY <3>2, <3>3 DEF TypeOK
  <2>4. CASE Upgrade(t)
    <3>1. Forget(t) \/ UNCHANGED <<mem, turn>>
      BY <2>4 DEF Upgrade
    <3> QED BY <3>1, HeldForget, HeldKept
  <2> QED BY <1>1, <2>1, <2>2, <2>3, <2>4 DEF Handler
<1>2. CASE Recovery \/ Cleanup
  <2>1. \/ UNCHANGED <<mem, turn>>
        \/ \E x \in scan : Forget(x.token)
        \/ worker # NoRow /\ Forget(worker.token)
        \/ cleanup # NoRow /\ Forget(cleanup.token)
    BY <1>2 DEF Recovery, RecoveryScan, RecoveryBegin, RecoveryRecord,
                RecoveryEnd, Cleanup, CleanupRecord, CleanupEnd, FinalizeEnd
  <2>2. /\ \A x \in scan : x.token \in Tokens
        /\ worker # NoRow => worker.token \in Tokens
        /\ cleanup # NoRow => cleanup.token \in Tokens
    BY DEF TypeOK, Finalization
  <2> QED BY <2>1, <2>2, HeldForget DEF HeldInMemory
<1>3. ASSUME NEW t \in Tokens, CleanupBegin(t)
      PROVE  HeldInMemory'
  <2> DEFINE s == IF SessionOf(t).answers = <<>> THEN WithPending(SessionOf(t), 1)
                                                ELSE SessionOf(t)
  <2>1. 1 \in {0} \cup Questions
    BY InterviewAssumption DEF Questions
  <2>2. s \in Session
    BY <1>3, <2>1, SessionOfType, WithPendingType DEF CleanupBegin
  <2>3. \/ /\ mem' = [mem EXCEPT ![t] = IF @ = NoRow THEN NoRow
                                         ELSE [s EXCEPT !.completed = TRUE]]
           /\ UNCHANGED turn
        \/ Forget(t)
    BY <1>3 DEF CleanupBegin
  <2> HIDE DEF s
  <2> QED BY <2>2, <2>3, SessionEdits, HeldKept, HeldForget
<1>4. CASE Crash
  BY <1>4, InterviewAssumption DEF Crash, HeldInMemory
<1>5. CASE UNCHANGED vars
  BY <1>5 DEF vars, procs, HeldInMemory
<1>6. ASSUME NEW t \in Tokens, GoIdle(t) \/ ExpireInvite(t)
      PROVE  HeldInMemory'
  BY <1>6 DEF GoIdle, ExpireInvite, procs, HeldInMemory
<1> QED BY <1>1, <1>2, <1>3, <1>4, <1>5, <1>6 DEF Next

TInv == TypeOK /\ HeldInMemory

LEMMA TInvInit == Init => TInv
BY InitTypeOK, InterviewAssumption DEF TInv, Init, HeldInMemory

LEMMA TInvStep == TInv /\ [Next]_vars => TInv'
BY TypeStep, HeldCandidate, HeldOther DEF TInv

\* Every reachable state is well typed: no step of any of the processes works
\* on a session that has been dropped under it.
THEOREM TypeCorrect == Spec => []TypeOK
<1>1. TInv => TypeOK
  BY DEF TInv
<1> QED BY <1>1, TInvInit, TInvStep, PTL DEF Spec

(***************************************************************************)
(* Reports.                                                                *)
(***************************************************************************)
\* A copy of the session that says it has a result, a checkpoint that says
\* "ready", a writer past its record and a queued upgrade all have a report.
MemBacked == \A t \in Tokens :
    mem[t] # NoRow /\ mem[t].result => rec[t] # NoRow
ProgBacked == \A t \in Tokens :
    prog[t] # NoRow /\ (prog[t].saved.result \/ prog[t].report = "ready")
        => rec[t] # NoRow
TurnBacked == \A t \in Tokens :
    turn[t] \in Session /\ turn[t].result => rec[t] # NoRow
SubBacked == \A t \in Tokens :
    sub[t] # NoRow /\ (sub[t].saved.result \/ sub[t].recorded)
        => rec[t] # NoRow
TasksBacked == \A t \in Tokens : tasks[t] # {} => rec[t] # NoRow
ScanBacked == \A x \in scan : x.row.saved.result => rec[x.token] # NoRow
WorkerBacked == worker # NoRow /\ (worker.saved.result \/ worker.recorded)
                    => rec[worker.token] # NoRow
CleanupBacked == cleanup # NoRow /\ (cleanup.saved.result \/ cleanup.recorded)
                    => rec[cleanup.token] # NoRow

Backed == /\ MemBacked /\ ProgBacked /\ TurnBacked /\ SubBacked /\ TasksBacked
          /\ ScanBacked /\ WorkerBacked /\ CleanupBacked

RecKept == \A t \in Tokens : rec[t] # NoRow => rec'[t] # NoRow

\* The writers of the checkpoint.
LEMMA PersistBacked ==
    ASSUME TypeOK, ProgBacked, RecKept, NEW t \in Tokens, NEW s \in Session,
           NEW status, NEW report, Persist(t, s, status, report),
           s.result \/ report = "ready" => rec'[t] # NoRow
    PROVE  ProgBacked'
BY DEF Persist, ProgBacked, RecKept, TypeOK

LEMMA CheckpointBacked ==
    ASSUME TypeOK, ProgBacked, RecKept, NEW t \in Tokens, NEW s \in Session,
           NEW status, Checkpoint(t, s, status), s.result => rec'[t] # NoRow
    PROVE  ProgBacked'
<1>1. DerivedReport(s, status) = "ready" => s.result
  BY DEF DerivedReport
<1> QED BY <1>1, PersistBacked DEF Checkpoint

\* Whatever a step leaves alone stays backed when no report is deleted.
LEMMA BackedFrame ==
    ASSUME TypeOK, Backed, RecKept
    PROVE  /\ UNCHANGED mem => MemBacked'
           /\ UNCHANGED prog => ProgBacked'
           /\ UNCHANGED turn => TurnBacked'
           /\ UNCHANGED sub => SubBacked'
           /\ UNCHANGED tasks => TasksBacked'
           /\ UNCHANGED scan => ScanBacked'
           /\ UNCHANGED worker => WorkerBacked'
           /\ UNCHANGED cleanup => CleanupBacked'
BY DEF Backed, RecKept, TypeOK, Finalization, MemBacked, ProgBacked, TurnBacked,
       SubBacked, TasksBacked, ScanBacked, WorkerBacked, CleanupBacked

\* A step that puts a session into memory.
LEMMA MemSetBacked ==
    ASSUME TypeOK, MemBacked, RecKept, NEW t \in Tokens, NEW s,
           s = NoRow \/ s \in Session, mem' = [mem EXCEPT ![t] = s],
           s \in Session /\ s.result => rec'[t] # NoRow
    PROVE  MemBacked'
BY InterviewAssumption DEF MemBacked, RecKept, TypeOK

LEMMA ForgetBacked ==
    ASSUME TypeOK, Backed, RecKept, NEW t \in Tokens, Forget(t)
    PROVE  MemBacked' /\ TurnBacked'
BY InterviewAssumption
   DEF Forget, Backed, MemBacked, TurnBacked, RecKept, TypeOK

LEMMA SessionOfBacked ==
    ASSUME TypeOK, Backed, NEW t \in Tokens
    PROVE  /\ SessionOf(t) # NoRow /\ SessionOf(t).result => rec[t] # NoRow
           /\ Boot(t).result => rec[t] # NoRow
BY DEF SessionOf, Boot, NewSession, Backed, MemBacked, ProgBacked

LEMMA BackedEntry ==
    ASSUME TypeOK, Backed, NEW t \in Tokens, Lookup(t) \/ Verify(t) \/ Login(t)
    PROVE  Backed'
<1>1. UNCHANGED <<rec, turn, sub, tasks, scan, worker, cleanup>>
  BY DEF Lookup, Verify, Login, procs
<1>2. RecKept
  BY <1>1 DEF RecKept
<1>0. \/ Prewarm(t)
      \/ /\ mem' = [mem EXCEPT ![t] = Boot(t)]
         /\ Checkpoint(t, Boot(t), "in_progress")
  BY DEF Lookup, Verify, Login
<1>3. UNCHANGED mem \/ mem' = [mem EXCEPT ![t] = Boot(t)]
  BY <1>0 DEF Prewarm
<1>4. Boot(t) \in Session /\ (Boot(t).result => rec'[t] # NoRow)
  BY <1>1, BootType, SessionOfBacked
<1>5. MemBacked'
  BY <1>2, <1>3, <1>4, MemSetBacked, BackedFrame DEF Backed
<1>6. \/ UNCHANGED prog
      \/ Persist(t, NewSession, "started", "")
      \/ Checkpoint(t, Boot(t), "in_progress")
  BY <1>0 DEF Prewarm
<1>7. ~NewSession.result
  BY DEF NewSession
<1>8. ProgBacked'
  BY <1>2, <1>4, <1>6, <1>7, NewSessionType, PersistBacked, CheckpointBacked,
     BackedFrame DEF Backed
<1> QED BY <1>1, <1>2, <1>5, <1>8, BackedFrame DEF Backed

LEMMA BackedQuestions ==
    ASSUME TypeOK, HeldInMemory, Backed, NEW t \in Tokens,
           \/ NextQuestion(t) \/ Answer(t) \/ AnswerRefused(t)
           \/ AnswerBeyond(t) \/ AnswerSaved(t) \/ Warn(t) \/ Terminate(t)
    PROVE  Backed'
<1> DEFINE s == SessionOf(t)
<1>1. /\ UNCHANGED <<rec, sub, tasks, scan, worker, cleanup>>
      /\ RecKept
  BY DEF NextQuestion, Answer, AnswerRefused, AnswerBeyond, AnswerSaved, Warn,
         Terminate, rows, procs, RecKept
<1>2. ASSUME NextQuestion(t) \/ Answer(t) \/ AnswerRefused(t) \/ AnswerBeyond(t)
      PROVE  s \in Session /\ (s.result => rec'[t] # NoRow)
  BY <1>1, <1>2, SessionOfType, SessionOfBacked
     DEF NextQuestion, Answer, AnswerRefused, AnswerBeyond
<1>3. CASE NextQuestion(t)
  <2>1. /\ mem' = [mem EXCEPT ![t] = Asked(s)] /\ UNCHANGED turn
        /\ Checkpoint(t, s, ProgressStatus(s))
    BY <1>3 DEF NextQuestion, procs
  <2>2. s \in Session /\ (s.result => rec'[t] # NoRow)
    BY <1>2, <1>3
  <2> HIDE DEF s
  <2>3. MemBacked'
    BY <1>1, <2>1, <2>2, AskedType, MemSetBacked DEF Backed
  <2>4. ProgBacked'
    BY <1>1, <2>1, <2>2, CheckpointBacked DEF Backed
  <2> QED BY <1>1, <2>1, <2>3, <2>4, BackedFrame DEF Backed
<1>4. CASE Answer(t)
  <2> DEFINE n == [s EXCEPT !.answers = Append(@, shown[t]), !.current = @ + 1]
  <2>1. /\ mem' = [mem EXCEPT ![t] = n] /\ UNCHANGED prog
        /\ turn' = [turn EXCEPT ![t] = InMemory]
    BY <1>4 DEF Answer, rows
  <2>2. s \in Session /\ (s.result => rec'[t] # NoRow)
    BY <1>2, <1>4
  <2>3. mem'[t] \in Session
    BY <1>4, TypeQuestions, HeldCandidate, InterviewAssumption, <2>1
       DEF TypeOK, HeldInMemory, Candidate
  <2>4. n \in Session
    BY <2>1, <2>3 DEF TypeOK
  <2> HIDE DEF s
  <2>5. n.result = s.result
    BY <2>2 DEF Session
  <2> HIDE DEF n
  <2>6. MemBacked'
    BY <1>1, <2>1, <2>2, <2>4, <2>5, MemSetBacked DEF Backed
  <2>7. TurnBacked'
    BY <1>1, <2>1, InterviewAssumption DEF Backed, TurnBacked, TypeOK
  <2> QED BY <1>1, <2>1, <2>6, <2>7, BackedFrame DEF Backed
<1>5. CASE AnswerRefused(t)
  <2>1. mem' = [mem EXCEPT ![t] = s] /\ UNCHANGED <<prog, turn>>
    BY <1>5 DEF AnswerRefused, rows, procs
  <2>2. s \in Session /\ (s.result => rec'[t] # NoRow)
    BY <1>2, <1>5
  <2> HIDE DEF s
  <2> QED BY <1>1, <2>1, <2>2, MemSetBacked, BackedFrame DEF Backed
<1>6. CASE AnswerBeyond(t)
  <2> DEFINE n == [s EXCEPT !.completed = TRUE]
  <2>1. /\ mem' = [mem EXCEPT ![t] = n] /\ UNCHANGED turn
        /\ Checkpoint(t, n, "completed")
    BY <1>6 DEF AnswerBeyond, procs
  <2>2. s \in Session /\ (s.result => rec'[t] # NoRow)
    BY <1>2, <1>6
  <2> HIDE DEF s
  <2>3. n \in Session /\ (n.result => rec'[t] # NoRow)
    BY <2>2, SessionEdits
  <2> HIDE DEF n
  <2>4. MemBacked' /\ ProgBacked'
    BY <1>1, <2>1, <2>3, MemSetBacked, CheckpointBacked DEF Backed
  <2> QED BY <1>1, <2>1, <2>4, BackedFrame DEF Backed
<1>7. CASE AnswerSaved(t)
  <2> DEFINE a == IF turn[t] = InMemory THEN mem[t] ELSE turn[t]
  <2>1. a \in Session /\ (a.result => rec'[t] # NoRow)
    BY <1>1, <1>7
       DEF AnswerSaved, TypeOK, HeldInMemory, Backed, MemBacked, TurnBacked
  <2>2. PICK status \in {"in_progress", "submitting"} : Checkpoint(t, a, status)
    BY <1>7 DEF AnswerSaved
  <2>3. /\ turn' = [turn EXCEPT ![t] = NoRow]
        /\ UNCHANGED mem \/ mem' = [mem EXCEPT ![t] = Asked(a)]
    BY <1>7 DEF AnswerSaved
  <2> HIDE DEF a
  <2>4. ProgBacked'
    BY <1>1, <2>1, <2>2, CheckpointBacked DEF Backed
  <2>5. MemBacked'
    BY <1>1, <2>1, <2>3, AskedType, MemSetBacked, BackedFrame DEF Backed
  <2>6. TurnBacked'
    BY <1>1, <2>3, InterviewAssumption DEF Backed, TurnBacked, TypeOK
  <2> QED BY <1>1, <2>4, <2>5, <2>6, BackedFrame DEF Backed
<1>8. CASE Warn(t)
  <2>1. mem[t] \in Session /\ (mem[t].result => rec'[t] # NoRow)
    BY <1>1, <1>8 DEF Warn, TypeOK, Backed, MemBacked
  <2>2. /\ Checkpoint(t, mem[t], ProgressStatus(mem[t]))
        /\ UNCHANGED <<mem, turn>>
    BY <1>8 DEF Warn, procs
  <2>3. ProgBacked'
    BY <1>1, <2>1, <2>2, CheckpointBacked DEF Backed
  <2> QED BY <1>1, <2>2, <2>3, BackedFrame DEF Backed
<1>9. CASE Terminate(t)
  <2> DEFINE n == [mem[t] EXCEPT !.ended = TRUE]
  <2>1. mem[t] \in Session /\ (mem[t].result => rec'[t] # NoRow)
    BY <1>1, <1>9 DEF Terminate, TypeOK, Backed, MemBacked
  <2>2. n \in Session /\ (n.result => rec'[t] # NoRow)
    BY <2>1, SessionEdits
  <2>3. /\ mem' = [mem EXCEPT ![t] = n] /\ UNCHANGED turn
        /\ Checkpoint(t, n, "terminated")
    BY <1>9 DEF Terminate, procs
  <2> HIDE DEF n
  <2>4. MemBacked' /\ ProgBacked'
    BY <1>1, <2>2, <2>3, MemSetBacked, CheckpointBacked DEF Backed
  <2> QED BY <1>1, <2>3, <2>4, BackedFrame DEF Backed
<1> QED BY <1>3, <1>4, <1>5, <1>6, <1>7, <1>8, <1>9


LEMMA BackedSubmit ==
    ASSUME TypeOK, Backed, NEW t \in Tokens, Submit(t)
    PROVE  Backed'
<1> DEFINE s == SessionOf(t)
           done(q) == [WithPending(s, q) EXCEPT !.finalizing = TRUE]
<1>1. PICK q \in PendingAnswers(t) :
         /\ mem' = [mem EXCEPT ![t] = done(q)]
         /\ sub' = [sub EXCEPT ![t] =
                      [saved |-> done(q), status |-> SubmitStatus(done(q)),
                       recorded |-> FALSE]]
  BY DEF Submit
<1>2. q \in {0} \cup Questions
  BY DEF PendingAnswers, TypeOK, LoggedOut
<1>3. UNCHANGED <<rec, prog, turn, tasks, scan, worker, cleanup>> /\ RecKept
  BY DEF Submit, rows, RecKept
<1>4. s \in Session /\ (s.result => rec'[t] # NoRow)
  BY <1>3, SessionOfType, SessionOfBacked DEF Submit
<1> HIDE DEF s
<1>5. done(q) \in Session /\ (done(q).result => rec'[t] # NoRow)
  <2>1. WithPending(s, q) \in Session /\ WithPending(s, q).result = s.result
    BY <1>2, <1>4, WithPendingType
  <2>2. done(q) \in Session /\ done(q).result = WithPending(s, q).result
    BY <2>1, SessionEdits
  <2> QED BY <1>4, <2>1, <2>2
<1> HIDE DEF done
<1>6. MemBacked'
  BY <1>1, <1>3, <1>5, MemSetBacked DEF Backed
<1>7. SubBacked'
  BY <1>1, <1>3, <1>5 DEF Backed, SubBacked, TypeOK
<1> QED BY <1>3, <1>6, <1>7, BackedFrame DEF Backed

LEMMA BackedReport ==
    ASSUME TypeOK, Backed, NEW t \in Tokens,
           FastRecord(t) \/ FastReport(t) \/ ReportReused(t) \/ Upgrade(t)
    PROVE  Backed'
<1>1. CASE FastRecord(t)
  <2>1. /\ rec' = [rec EXCEPT ![t] = sub[t].saved.answers]
        /\ sub' = [sub EXCEPT ![t].recorded = TRUE]
        /\ UNCHANGED <<prog, mem, turn, tasks, scan, worker, cleanup>>
    BY <1>1 DEF FastRecord
  <2>2. sub[t].saved.answers \in Seq(Questions)
    BY <1>1 DEF FastRecord, TypeOK, Submission, Session
  <2>3. RecKept /\ rec'[t] # NoRow
    BY <2>1, <2>2, InterviewAssumption DEF RecKept, TypeOK
  <2>4. SubBacked'
    BY <2>1, <2>3 DEF Backed, SubBacked, RecKept, TypeOK, Submission
  <2> QED BY <2>1, <2>3, <2>4, BackedFrame DEF Backed
<1>2. ASSUME FastReport(t) \/ ReportReused(t)
      PROVE  /\ sub[t] \in Submission /\ rec'[t] # NoRow /\ RecKept
             /\ SubBacked' /\ TasksBacked'
             /\ UNCHANGED <<rec, turn, scan, worker, cleanup>>
  <2>1. sub[t] \in Submission /\ rec[t] # NoRow
    BY <1>2 DEF FastReport, ReportReused, TypeOK, Backed, SubBacked
  <2>2. UNCHANGED <<rec, turn, scan, worker, cleanup>> /\ RecKept
    BY <1>2 DEF FastReport, ReportReused, RecKept
  <2>3. /\ sub' = [sub EXCEPT ![t] = NoRow]
        /\ \A u \in Tokens : u # t => tasks'[u] = tasks[u]
    BY <1>2 DEF FastReport, ReportReused, Submitted, TypeOK
  <2> QED BY <2>1, <2>2, <2>3 DEF Backed, SubBacked, TasksBacked, TypeOK
<1>3. CASE FastReport(t)
  <2>1. Over(sub[t].saved) \in Session
    BY <1>2, <1>3, SessionEdits DEF Submission
  <2>2. ProgBacked'
    BY <1>2, <1>3, <2>1, PersistBacked DEF FastReport, Backed
  <2>3. MemBacked'
    BY <1>2, <1>3 DEF FastReport, Backed, MemBacked, TypeOK
  <2> QED BY <1>2, <1>3, <2>2, <2>3, BackedFrame DEF Backed
<1>4. CASE ReportReused(t)
  <2>1. sub[t].saved \in Session
    BY <1>2, <1>4 DEF Submission
  <2>2. ProgBacked'
    BY <1>2, <1>4, <2>1, PersistBacked DEF ReportReused, Backed
  <2>3. UNCHANGED mem
    BY <1>4 DEF ReportReused
  <2> QED BY <1>2, <1>4, <2>2, <2>3, BackedFrame DEF Backed
<1>5. CASE Upgrade(t)
  <2>1. PICK k \in tasks[t] :
      /\ tasks' = [tasks EXCEPT ![t] = @ \ {k}]
      /\ \/ /\ rec' = [rec EXCEPT ![t] = k.saved.answers]
            /\ Persist(t, [k.saved EXCEPT !.result = TRUE], k.status, "ready")
            /\ Forget(t)
         \/ UNCHANGED <<rec, prog, idle, order, mem, turn>>
    BY <1>5 DEF Upgrade
  <2>2. k \in Snapshot /\ UNCHANGED <<sub, scan, worker, cleanup>>
    BY <1>5 DEF TypeOK, Upgrade
  <2>3. k.saved \in Session /\ k.saved.answers \in Seq(Questions)
    BY <2>2 DEF Snapshot, Session
  <2>4. RecKept /\ rec'[t] # NoRow
    <3>1. rec[t] # NoRow
      BY DEF Backed, TasksBacked, Upgrade
    <3> QED BY <2>1, <2>3, <3>1, InterviewAssumption DEF RecKept, TypeOK
  <2>5. TasksBacked'
    BY <2>1, <2>4 DEF Backed, TasksBacked, RecKept, TypeOK
  <2>6. CASE UNCHANGED <<rec, prog, idle, order, mem, turn>>
    BY <2>2, <2>4, <2>5, <2>6, BackedFrame DEF Backed
  <2>7. CASE /\ Persist(t, [k.saved EXCEPT !.result = TRUE], k.status, "ready")
             /\ Forget(t)
    <3>1. [k.saved EXCEPT !.result = TRUE] \in Session
      BY <2>3, SessionEdits
    <3>2. ProgBacked'
      BY <2>4, <2>7, <3>1, PersistBacked DEF Backed
    <3>3. MemBacked' /\ TurnBacked'
      BY <2>4, <2>7, ForgetBacked
    <3> QED BY <2>2, <2>4, <2>5, <3>2, <3>3, BackedFrame DEF Backed
  <2> QED BY <2>1, <2>6, <2>7
<1> QED BY <1>1, <1>3, <1>4, <1>5

\* Recovery and cleanup, the parts they share.
LEMMA FinalizeBacked ==
    ASSUME TypeOK, Backed, NEW f \in Finalization
    PROVE  /\ FinalizeRecord(f) =>
                /\ RecKept /\ rec'[f.token] # NoRow
           /\ FinalizeEnd(f) /\ UNCHANGED rec /\ rec[f.token] # NoRow =>
                ProgBacked' /\ MemBacked' /\ TurnBacked'
<1>1. /\ f.token \in Tokens /\ f.saved \in Session
      /\ f.status \in ProgressStatuses /\ f.saved.answers \in Seq(Questions)
  BY DEF Finalization, Session
<1>2. ASSUME FinalizeRecord(f)
      PROVE  RecKept /\ rec'[f.token] # NoRow
  BY <1>1, <1>2, InterviewAssumption DEF FinalizeRecord, RecKept, TypeOK
<1>3. ASSUME FinalizeEnd(f), UNCHANGED rec, rec[f.token] # NoRow
      PROVE  ProgBacked' /\ MemBacked' /\ TurnBacked'
  <2>1. RecKept /\ Over(f.saved) \in Session /\ rec'[f.token] # NoRow
    BY <1>1, <1>3, SessionEdits DEF RecKept
  <2>2. /\ Persist(f.token, Over(f.saved), f.status, "ready")
        /\ Forget(f.token)
    BY <1>3 DEF FinalizeEnd
  <2> QED BY <1>1, <2>1, <2>2, PersistBacked, ForgetBacked DEF Backed
<1> QED BY <1>2, <1>3

LEMMA BeginBacked ==
    ASSUME TypeOK, Backed, UNCHANGED rec, NEW t \in Tokens, NEW s \in Session,
           NEW status
    PROVE  /\ FinalizeBegin(t, s) /\ (s.result => rec[t] # NoRow) => ProgBacked'
           /\ FinalizeAgain(t, s, status) /\ ~NeedsReport(t) => ProgBacked'
<1>1. RecKept
  BY DEF RecKept
<1>2. /\ [s EXCEPT !.completed = TRUE] \in Session
      /\ [s EXCEPT !.completed = TRUE].result = s.result
  BY SessionEdits
<1>3. ASSUME FinalizeBegin(t, s), s.result => rec[t] # NoRow
      PROVE  ProgBacked'
  BY <1>1, <1>2, <1>3, PersistBacked DEF FinalizeBegin, Backed
<1>4. ASSUME FinalizeAgain(t, s, status), ~NeedsReport(t)
      PROVE  ProgBacked'
  BY <1>1, <1>4, PersistBacked DEF FinalizeAgain, NeedsReport, Backed
<1> QED BY <1>3, <1>4

LEMMA BackedRecovery ==
    ASSUME TypeOK, Backed, Recovery
    PROVE  Backed'
<1>1. CASE RecoveryScan
  <2>1. /\ UNCHANGED <<rec, prog, mem, turn, sub, tasks, worker, cleanup>>
        /\ RecKept
    BY <1>1 DEF RecoveryScan, rows, RecKept
  <2>2. \A x \in scan' : \E t \in Tokens :
           prog[t] # NoRow /\ x.token = t /\ x.row = prog[t]
    <3> DEFINE found == {t \in Tokens : prog[t] # NoRow /\ Recoverable(t)}
               batch == {t \in found : Cardinality({u \in found : <<u, t>> \in order})
                                          < RecoveryBatch}
               taken == {t \in batch : ShouldRecover(t)}
    <3>1. scan' = {[token |-> t, row |-> prog[t],
                    after |-> {u \in taken : <<u, t>> \in order}] : t \in taken}
      BY <1>1 DEF RecoveryScan
    <3>2. \A t \in taken : t \in Tokens /\ prog[t] # NoRow
      OBVIOUS
    <3> HIDE DEF taken
    <3> QED BY <3>1, <3>2
  <2>3. ScanBacked'
    BY <2>1, <2>2 DEF Backed, ScanBacked, ProgBacked
  <2> QED BY <2>1, <2>3, BackedFrame DEF Backed
<1>2. CASE RecoveryBegin
  <2>1. PICK x \in scan :
         LET t == x.token IN
         /\ scan' = scan \ {x}
         /\ IF NeedsReport(t)
            THEN /\ FinalizeBegin(t, x.row.saved)
                 /\ worker' = [token |-> t, saved |-> x.row.saved,
                               status |-> RecoveryStatus(x.row),
                               recorded |-> FALSE]
                 /\ UNCHANGED <<mem, turn>>
            ELSE /\ FinalizeAgain(t, x.row.saved, RecoveryStatus(x.row))
                 /\ Forget(t)
                 /\ UNCHANGED worker
    BY <1>2 DEF RecoveryBegin
  <2>2. /\ x.token \in Tokens /\ x.row.saved \in Session
        /\ (x.row.saved.result => rec[x.token] # NoRow)
    BY DEF TypeOK, Checkpoints, Backed, ScanBacked
  <2>3. UNCHANGED <<rec, sub, tasks, cleanup>> /\ RecKept
    BY <1>2 DEF RecoveryBegin, RecKept
  <2>4. ProgBacked'
    BY <2>1, <2>2, <2>3, BeginBacked
  <2>5. WorkerBacked'
    BY <2>1, <2>2, <2>3 DEF Backed, WorkerBacked
  <2>6. MemBacked' /\ TurnBacked'
    BY <2>1, <2>2, <2>3, ForgetBacked, BackedFrame
  <2>7. ScanBacked'
    BY <2>1, <2>3 DEF Backed, ScanBacked
  <2> QED BY <2>3, <2>4, <2>5, <2>6, <2>7, BackedFrame DEF Backed
<1>3. CASE RecoveryRecord
  <2>1. /\ worker \in Finalization /\ FinalizeRecord(worker)
        /\ worker' = [worker EXCEPT !.recorded = TRUE]
        /\ UNCHANGED <<prog, mem, turn, sub, tasks, scan, cleanup>>
    BY <1>3 DEF RecoveryRecord, TypeOK
  <2>2. RecKept /\ rec'[worker.token] # NoRow
    BY <2>1, FinalizeBacked
  <2>3. worker'.token = worker.token
    BY <2>1 DEF Finalization
  <2> QED BY <2>1, <2>2, <2>3, BackedFrame DEF Backed, WorkerBacked
<1>4. CASE RecoveryEnd
  <2>1. /\ worker \in Finalization /\ FinalizeEnd(worker)
        /\ rec[worker.token] # NoRow /\ worker' = NoRow
        /\ UNCHANGED <<rec, sub, tasks, scan, cleanup>> /\ RecKept
    BY <1>4 DEF RecoveryEnd, TypeOK, Backed, WorkerBacked, RecKept
  <2> QED BY <2>1, FinalizeBacked, BackedFrame DEF Backed, WorkerBacked
<1> QED BY <1>1, <1>2, <1>3, <1>4 DEF Recovery

LEMMA BackedCleanup ==
    ASSUME TypeOK, Backed, Cleanup \/ \E t \in Tokens : CleanupBegin(t)
    PROVE  Backed'
<1>1. CASE CleanupRecord
  <2>1. /\ cleanup \in Finalization /\ FinalizeRecord(cleanup)
        /\ cleanup' = [cleanup EXCEPT !.recorded = TRUE]
        /\ UNCHANGED <<prog, mem, turn, sub, tasks, scan, worker>>
    BY <1>1 DEF CleanupRecord, TypeOK
  <2>2. RecKept /\ rec'[cleanup.token] # NoRow
    BY <2>1, FinalizeBacked
  <2>3. cleanup'.token = cleanup.token
    BY <2>1 DEF Finalization
  <2> QED BY <2>1, <2>2, <2>3, BackedFrame DEF Backed, CleanupBacked
<1>2. CASE CleanupEnd
  <2>1. /\ cleanup \in Finalization /\ FinalizeEnd(cleanup)
        /\ rec[cleanup.token] # NoRow /\ cleanup' = NoRow
        /\ UNCHANGED <<rec, sub, tasks, scan, worker>> /\ RecKept
    BY <1>2 DEF CleanupEnd, TypeOK, Backed, CleanupBacked, RecKept
  <2> QED BY <2>1, FinalizeBacked, BackedFrame DEF Backed, CleanupBacked
<1>3. ASSUME NEW t \in Tokens, CleanupBegin(t)
      PROVE  Backed'
  <2> DEFINE s == IF SessionOf(t).answers = <<>> THEN WithPending(SessionOf(t), 1)
                                                ELSE SessionOf(t)
  <2>1. /\ IF NeedsReport(t)
           THEN /\ FinalizeBegin(t, s)
                /\ cleanup' = [token |-> t, saved |-> s,
                               status |-> "recovered",
                               recorded |-> FALSE]
                /\ mem' = [mem EXCEPT ![t] = IF @ = NoRow THEN NoRow
                              ELSE [s EXCEPT !.completed = TRUE]]
                /\ UNCHANGED turn
           ELSE /\ FinalizeAgain(t, s, "recovered")
                /\ Forget(t)
                /\ UNCHANGED cleanup
        /\ UNCHANGED <<rec, sub, tasks, scan, worker>> /\ RecKept
    BY <1>3 DEF CleanupBegin, RecKept
  <2>2. 1 \in {0} \cup Questions
    BY InterviewAssumption DEF Questions
  <2>3. s \in Session /\ (s.result => rec[t] # NoRow)
    BY <1>3, <2>2, SessionOfType, SessionOfBacked, WithPendingType
       DEF CleanupBegin
  <2> HIDE DEF s
  <2>4. ProgBacked'
    BY <2>1, <2>3, BeginBacked
  <2>5. CleanupBacked'
    BY <2>1, <2>3 DEF Backed, CleanupBacked
  <2>6. MemBacked' /\ TurnBacked'
    <3>1. CASE NeedsReport(t)
      <4>1. /\ [s EXCEPT !.completed = TRUE] \in Session
            /\ [s EXCEPT !.completed = TRUE].result = s.result
        BY <2>3, SessionEdits
      <4> QED BY <2>1, <2>3, <3>1, <4>1, BackedFrame
              DEF Backed, MemBacked, TypeOK
    <3>2. CASE ~NeedsReport(t)
      BY <2>1, <3>2, ForgetBacked
    <3> QED BY <3>1, <3>2
  <2> QED BY <2>1, <2>4, <2>5, <2>6, BackedFrame DEF Backed
<1> QED BY <1>1, <1>2, <1>3 DEF Cleanup

LEMMA BackedFaults ==
    ASSUME TypeOK, Backed,
           Crash \/ (\E t \in Tokens : ExpireInvite(t) \/ GoIdle(t))
             \/ UNCHANGED vars
    PROVE  Backed'
<1>1. CASE Crash
  BY <1>1, InterviewAssumption
     DEF Crash, rows, Backed, MemBacked, ProgBacked, TurnBacked, SubBacked,
         TasksBacked, ScanBacked, WorkerBacked, CleanupBacked
<1>2. CASE (\E t \in Tokens : ExpireInvite(t) \/ GoIdle(t)) \/ UNCHANGED vars
  <2>1. UNCHANGED <<rec, mem, prog, turn, sub, tasks, scan, worker, cleanup>>
    BY <1>2 DEF ExpireInvite, GoIdle, vars, rows, procs
  <2>2. RecKept
    BY <2>1 DEF RecKept
  <2> QED BY <2>1, <2>2, BackedFrame DEF Backed
<1> QED BY <1>1, <1>2

LEMMA BackedStep ==
    ASSUME TInv, Backed, [Next]_vars
    PROVE  Backed'
<1>1. TypeOK /\ HeldInMemory
  BY DEF TInv
<1>2. CASE Recovery \/ Cleanup \/ Crash \/ UNCHANGED vars
  BY <1>1, <1>2, BackedRecovery, BackedCleanup, BackedFaults
<1>3. ASSUME NEW t \in Tokens,
             \/ Candidate(t) \/ Handler(t) \/ GoIdle(t)
             \/ CleanupBegin(t) \/ ExpireInvite(t)
      PROVE  Backed'
  <2>1. CASE Candidate(t) \/ Handler(t)
    BY <1>1, <2>1, BackedEntry, BackedQuestions, BackedSubmit, BackedReport
       DEF Candidate, Handler
  <2>2. CASE GoIdle(t) \/ CleanupBegin(t) \/ ExpireInvite(t)
    BY <1>1, <2>2, BackedCleanup, BackedFaults
  <2> QED BY <1>3, <2>1, <2>2
<1> QED BY <1>2, <1>3 DEF Next

LEMMA BackedInit == Init => Backed
BY InterviewAssumption
   DEF Init, Backed, MemBacked, ProgBacked, TurnBacked, SubBacked, TasksBacked,
       ScanBacked, WorkerBacked, CleanupBacked

\* The recovery worker lets go of a checkpoint only when its interview has a
\* report: no interleaving of the seven writers of the row can hide one from it
\* that has none.
THEOREM ReadyHasReport == Spec => []ReadyMeansReport
<1>1. Init => TInv /\ Backed
  BY TInvInit, BackedInit
<1>2. (TInv /\ Backed) /\ [Next]_vars => (TInv /\ Backed)'
  BY TInvStep, BackedStep
<1>3. Backed => ReadyMeansReport
  BY DEF Backed, ProgBacked, ReadyMeansReport
<1> QED BY <1>1, <1>2, <1>3, PTL DEF Spec

(***************************************************************************)
(* Invites.                                                                *)
(***************************************************************************)
\* A writer of the first report of an interview still has to close its invite.
Owed(t) == \/ sub[t] # NoRow /\ sub[t].recorded
           \/ worker # NoRow /\ worker.token = t /\ worker.recorded
           \/ cleanup # NoRow /\ cleanup.token = t /\ cleanup.recorded

ClosedOrOwed ==
    \A t \in Tokens : rec[t] # NoRow =>
        sched[t] \in Closed \/ used.crashes > 0 \/ Owed(t)

\* A step that writes no report, reopens no invite and drops no writer that owes.
LEMMA OwedKept ==
    ASSUME ClosedOrOwed,
           \A t \in Tokens : rec'[t] # NoRow => rec[t] # NoRow,
           \A t \in Tokens : sched[t] \in Closed => sched'[t] \in Closed,
           \A t \in Tokens : Owed(t) => Owed(t)' \/ sched'[t] \in Closed,
           used.crashes > 0 => used'.crashes > 0
    PROVE  ClosedOrOwed'
BY DEF ClosedOrOwed

LEMMA ClosedCandidate ==
    ASSUME TInv, ClosedOrOwed, NEW t \in Tokens, Candidate(t)
    PROVE  ClosedOrOwed'
<1>1. TypeOK
  BY DEF TInv
<1>2. UNCHANGED <<rec, worker, cleanup>>
  BY DEF Candidate, Lookup, Verify, Login, NextQuestion, Answer, AnswerRefused,
         AnswerBeyond, Warn, Terminate, Submit, rows, procs
<1>3. \A u \in Tokens : sched[u] \in Closed => sched'[u] \in Closed
  <2>1. CASE Lookup(t) \/ Verify(t) \/ Login(t)
    BY <1>1, <2>1 DEF Lookup, Verify, Login, TypeOK, Closed
  <2>2. CASE Terminate(t)
    BY <1>1, <2>2 DEF Terminate, TypeOK, Closed
  <2>3. CASE \/ NextQuestion(t) \/ Answer(t) \/ AnswerRefused(t)
             \/ AnswerBeyond(t) \/ Warn(t) \/ Submit(t)
    BY <2>3 DEF NextQuestion, Answer, AnswerRefused, AnswerBeyond, Warn, Submit,
                rows
  <2> QED BY <2>1, <2>2, <2>3 DEF Candidate
<1>4. \A u \in Tokens : Owed(u) => Owed(u)'
  <2>1. CASE Submit(t)
    <3>1. sub[t] = NoRow /\ \A u \in Tokens : u # t => sub'[u] = sub[u]
      BY <1>1, <2>1 DEF Submit, TypeOK
    <3> QED BY <1>2, <3>1 DEF Owed
  <2>2. CASE ~Submit(t)
    <3>1. UNCHANGED sub
      BY <2>2 DEF Candidate, Lookup, Verify, Login, NextQuestion, Answer,
                  AnswerRefused, AnswerBeyond, Warn, Terminate, procs
    <3> QED BY <1>2, <3>1 DEF Owed
  <2> QED BY <2>1, <2>2
<1>5. used'.crashes = used.crashes
  <2>1. \/ Returns(t) \/ UNCHANGED used
        \/ used' = [used EXCEPT !.returns = @ + Back(t), !.visits = @ + 1]
        \/ used' = [used EXCEPT !.submits = @ + 1]
    BY DEF Candidate, Lookup, Verify, Login, NextQuestion, Answer,
           AnswerRefused, AnswerBeyond, Warn, Terminate, Submit
  <2> QED BY <1>1, <2>1 DEF Returns, TypeOK
<1> QED BY <1>2, <1>3, <1>4, <1>5, OwedKept

LEMMA ClosedHandler ==
    ASSUME TInv, Backed, ClosedOrOwed, NEW t \in Tokens, Handler(t)
    PROVE  ClosedOrOwed'
<1>1. TypeOK
  BY DEF TInv
<1>2. UNCHANGED <<worker, cleanup>>
  BY DEF Handler, AnswerSaved, FastRecord, FastReport, ReportReused, Upgrade
<1>3. used'.crashes = used.crashes
  BY <1>1 DEF Handler, AnswerSaved, FastRecord, FastReport, ReportReused,
              Upgrade, Returns, TypeOK
<1>4. CASE AnswerSaved(t)
  BY <1>3, <1>4, OwedKept DEF AnswerSaved, Owed
<1>5. CASE FastRecord(t)
  <2>1. sub' = [sub EXCEPT ![t].recorded = TRUE] /\ sub[t] \in Submission
    BY <1>1, <1>5 DEF FastRecord, TypeOK
  <2>2. Owed(t)' /\ \A u \in Tokens : Owed(u) => Owed(u)'
    <3>1. /\ [sub[t] EXCEPT !.recorded = TRUE] \in Submission
          /\ [sub[t] EXCEPT !.recorded = TRUE].recorded
      BY <2>1 DEF Submission
    <3>2. /\ sub'[t] = [sub[t] EXCEPT !.recorded = TRUE]
          /\ \A u \in Tokens : u # t => sub'[u] = sub[u]
      BY <1>1, <2>1 DEF TypeOK
    <3>3. sub'[t] # NoRow /\ sub'[t].recorded
      BY <3>1, <3>2, InterviewAssumption
    <3> QED BY <1>2, <3>2, <3>3 DEF Owed
  <2>3. UNCHANGED sched /\ \A u \in Tokens : u # t => rec'[u] = rec[u]
    BY <1>1, <1>5 DEF FastRecord, TypeOK
  <2> QED BY <1>3, <2>2, <2>3 DEF ClosedOrOwed
<1>6. CASE FastReport(t)
  <2>1. sched' = [sched EXCEPT ![t] = ClosedBy(sub[t].status)]
    BY <1>6 DEF FastReport
  <2>2. sched'[t] \in Closed /\ \A u \in Tokens : u # t => sched'[u] = sched[u]
    BY <1>1, <2>1 DEF TypeOK, ClosedBy, Closed
  <2>3. UNCHANGED rec /\ \A u \in Tokens : u # t => sub'[u] = sub[u]
    BY <1>1, <1>6 DEF FastReport, Submitted, TypeOK
  <2> QED BY <1>2, <1>3, <2>2, <2>3, OwedKept DEF Owed
<1>7. CASE ReportReused(t)
  <2>1. ~sub[t].recorded /\ \A u \in Tokens : u # t => sub'[u] = sub[u]
    BY <1>1, <1>7 DEF ReportReused, Submitted, TypeOK
  <2>2. UNCHANGED <<rec, sched>>
    BY <1>7 DEF ReportReused
  <2> QED BY <1>2, <1>3, <2>1, <2>2, OwedKept DEF Owed
<1>8. CASE Upgrade(t)
  <2>1. UNCHANGED <<sched, sub>>
    BY <1>8 DEF Upgrade
  <2>2. rec[t] # NoRow
    BY <1>8 DEF Upgrade, Backed, TasksBacked
  <2>3. \A u \in Tokens : u # t => rec'[u] = rec[u]
    BY <1>1, <1>8 DEF Upgrade, TypeOK
  <2> QED BY <1>2, <1>3, <2>1, <2>2, <2>3, OwedKept DEF Owed
<1> QED BY <1>4, <1>5, <1>6, <1>7, <1>8 DEF Handler

LEMMA ClosedFinalizers ==
    ASSUME TInv, ClosedOrOwed,
           Recovery \/ Cleanup \/ \E t \in Tokens : CleanupBegin(t)
    PROVE  ClosedOrOwed'
<1>1. TypeOK
  BY DEF TInv
<1>2. UNCHANGED sub /\ used'.crashes = used.crashes
  BY <1>1 DEF Recovery, RecoveryScan, RecoveryBegin, RecoveryRecord, RecoveryEnd,
              Cleanup, CleanupRecord, CleanupEnd, CleanupBegin, TypeOK
<1>3. CASE \/ RecoveryScan \/ RecoveryBegin \/ \E t \in Tokens : CleanupBegin(t)
  <2>1. UNCHANGED <<sched, rec>>
    BY <1>3 DEF RecoveryScan, RecoveryBegin, CleanupBegin, rows
  <2>2. /\ UNCHANGED worker \/ worker = NoRow
        /\ UNCHANGED cleanup \/ cleanup = NoRow
    BY <1>3 DEF RecoveryScan, RecoveryBegin, CleanupBegin
  <2> QED BY <1>2, <2>1, <2>2, OwedKept DEF Owed
<1>4. ASSUME RecoveryRecord \/ CleanupRecord
      PROVE  ClosedOrOwed'
  <2>1. PICK f \in Finalization :
          /\ FinalizeRecord(f) /\ UNCHANGED sched
          /\ \/ /\ f = worker /\ worker' = [worker EXCEPT !.recorded = TRUE]
                /\ UNCHANGED cleanup
             \/ /\ f = cleanup /\ cleanup' = [cleanup EXCEPT !.recorded = TRUE]
                /\ UNCHANGED worker
    BY <1>1, <1>4 DEF RecoveryRecord, CleanupRecord, TypeOK
  <2>2. /\ f \in Finalization /\ [f EXCEPT !.recorded = TRUE].recorded
        /\ [f EXCEPT !.recorded = TRUE].token = f.token
        /\ [f EXCEPT !.recorded = TRUE] # NoRow
    BY InterviewAssumption DEF Finalization
  <2>3. \A u \in Tokens : u # f.token => rec'[u] = rec[u]
    BY <1>1, <2>1 DEF FinalizeRecord, TypeOK
  <2>4. \A u \in Tokens : u # f.token /\ Owed(u) => Owed(u)'
    BY <1>2, <2>1, <2>2 DEF Owed
  <2>5. Owed(f.token)'
    BY <2>1, <2>2 DEF Owed
  <2> QED BY <1>2, <2>1, <2>3, <2>4, <2>5 DEF ClosedOrOwed
<1>5. ASSUME RecoveryEnd \/ CleanupEnd
      PROVE  ClosedOrOwed'
  <2>1. PICK f \in Finalization :
          /\ FinalizeEnd(f) /\ UNCHANGED rec
          /\ \/ f = worker /\ worker' = NoRow /\ UNCHANGED cleanup
             \/ f = cleanup /\ cleanup' = NoRow /\ UNCHANGED worker
    BY <1>1, <1>5 DEF RecoveryEnd, CleanupEnd, TypeOK
  <2>2. f.token \in Tokens
    BY DEF Finalization
  <2>3. /\ sched'[f.token] \in Closed
        /\ \A u \in Tokens : u # f.token => sched'[u] = sched[u]
    BY <1>1, <2>1, <2>2 DEF FinalizeEnd, TypeOK, ClosedBy, Closed
  <2>4. \A u \in Tokens : u # f.token /\ Owed(u) => Owed(u)'
    BY <1>2, <2>1 DEF Owed
  <2> QED BY <1>2, <2>1, <2>3, <2>4, OwedKept
<1> QED BY <1>3, <1>4, <1>5 DEF Recovery, Cleanup

LEMMA ClosedFaults ==
    ASSUME TInv, ClosedOrOwed,
           Crash \/ (\E t \in Tokens : ExpireInvite(t) \/ GoIdle(t))
             \/ UNCHANGED vars
    PROVE  ClosedOrOwed'
<1>1. TypeOK
  BY DEF TInv
<1>2. CASE Crash
  <2>1. used'.crashes > 0
    BY <1>1, <1>2 DEF Crash, TypeOK
  <2> QED BY <2>1 DEF ClosedOrOwed
<1>3. ASSUME NEW t \in Tokens, ExpireInvite(t)
      PROVE  ClosedOrOwed'
  BY <1>1, <1>3, OwedKept DEF ExpireInvite, Owed, TypeOK, Closed, procs
<1>4. CASE (\E t \in Tokens : GoIdle(t)) \/ UNCHANGED vars
  <2>1. UNCHANGED <<rec, sched, sub, worker, cleanup, used>>
    BY <1>4 DEF GoIdle, vars, rows, procs
  <2> QED BY <2>1, OwedKept DEF Owed
<1> QED BY <1>2, <1>3, <1>4

LEMMA ClosedStep ==
    ASSUME TInv, Backed, ClosedOrOwed, [Next]_vars
    PROVE  ClosedOrOwed'
<1>1. CASE Recovery \/ Cleanup \/ Crash \/ UNCHANGED vars
  BY <1>1, ClosedFinalizers, ClosedFaults
<1>2. ASSUME NEW t \in Tokens,
             \/ Candidate(t) \/ Handler(t) \/ GoIdle(t)
             \/ CleanupBegin(t) \/ ExpireInvite(t)
      PROVE  ClosedOrOwed'
  BY <1>2, ClosedCandidate, ClosedHandler, ClosedFinalizers, ClosedFaults
<1> QED BY <1>1, <1>2 DEF Next

\* An interview with a report cannot be entered again once the writer of the
\* first report is done, as long as the process has not died: neither the two
\* finalizers, nor a submission that finds the report there, nor a background
\* upgrade leaves one behind an open invite.
THEOREM ReportClosed == Spec => []ReportClosesInvite
<1>1. Init => TInv /\ Backed /\ ClosedOrOwed
  BY TInvInit, BackedInit DEF Init, ClosedOrOwed
<1>2. (TInv /\ Backed /\ ClosedOrOwed) /\ [Next]_vars
        => (TInv /\ Backed /\ ClosedOrOwed)'
  BY TInvStep, BackedStep, ClosedStep
<1>3. ClosedOrOwed => ReportClosesInvite
  BY DEF ClosedOrOwed, Owed, Writing, ReportClosesInvite
<1> QED BY <1>1, <1>2, <1>3, PTL DEF Spec
============================================================================
