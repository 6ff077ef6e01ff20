------------------------ MODULE HiringPipelineProof ------------------------
(* The pipeline's invariants for any number of requirements, candidates,   *)
(* interviews and positions, with one transaction overtaken by the others. *)
EXTENDS HiringPipeline, FiniteSetTheorems, TLAPS

LEMMA StageMoves ==
    ASSUME NEW from \in Stages \ Terminal, NEW to \in TransitionMap[from]
    PROVE  /\ to \in Stages
           /\ to \in {"Preboarding", "Joined"}
                => from \in {"Customer_Approval", "Preboarding"}
           /\ from \in {"Sourcing", "Technical_Screening"}
                => to \in Terminal \cup {"Technical_Screening", "RMG_Review"}
<1>1. TransitionMap[from] =
        {s \in Stages : <<from, s>> \in Forward \cup Back \cup Drop}
          \cup (IF from = "Customer_Screening" THEN {}
                ELSE {"Self_Withdrawn", "Rejected"})
  BY DEF TransitionMap
<1>2. CASE to \in {"Self_Withdrawn", "Rejected"}
  BY <1>2 DEF Stages, Terminal
<1>3. CASE to \in Stages /\ <<from, to>> \in Forward
  BY <1>3 DEF Forward, Stages, Terminal
<1>4. CASE to \in Stages /\ <<from, to>> \in Back
  BY <1>4 DEF Back
<1>5. CASE to \in Stages /\ <<from, to>> \in Drop
  BY <1>5 DEF Drop, SeenByCustomer, Terminal
<1> QED BY <1>1, <1>2, <1>3, <1>4, <1>5

\* A write-back in flight belongs to the link its profile still has: deleting
\* the profile or cancelling the interview takes the transaction with it.
SyncSound ==
    flight # Idle /\ flight.kind = "sync" =>
        /\ link[flight.interview] # NoRow
        /\ link[flight.interview].cand = flight.cand
        /\ flight.report \in link[flight.interview].reports

TInv == TypeOK /\ SyncSound

LEMMA TInvInit == Init => TInv
BY PipelineAssumption DEF Init, TInv, TypeOK, SyncSound

\* A requirement's step changes its status and the record of reviews only.
LEMMA TypeRequirement ==
    ASSUME TInv, NEW r \in Reqs,
           \/ CreateRequirement(r) \/ SpawnRequirement(r) \/ SubmitRequirement(r)
           \/ SalesHeadDecides(r) \/ EngineeringApprove(r)
           \/ EngineeringReject(r) \/ EndRequirement(r) \/ AddJobPosting(r)
    PROVE  TInv'
<1>1. /\ \E to \in ReqStatuses : req' = [req EXCEPT ![r] = to]
      /\ reviewed' \in {reviewed, reviewed \cup {r}}
      /\ UNCHANGED <<app, profile, offers, link, flight, joined, merit>>
  BY DEF CreateRequirement, SpawnRequirement, SubmitRequirement,
     SalesHeadDecides, EngineeringApprove, EngineeringReject, EndRequirement,
     AddJobPosting, Advance, ReqStatuses
<1> QED BY <1>1 DEF TInv, TypeOK, SyncSound

LEMMA TypeApplication ==
    ASSUME TInv, NEW r \in Reqs, NEW c \in Candidates,
           \/ UploadResume(r, c) \/ SubmitApplication(r, c)
           \/ ApplyCandidate(r, c) \/ ScanResume(r, c) \/ ShortlistResume(r, c)
           \/ RejectResume(r, c) \/ DeleteResume(r, c)
    PROVE  TInv'
<1>1. /\ \E row \in Applications \cup {NoRow} :
             app' = [app EXCEPT ![r] = [app[r] EXCEPT ![c] = row]]
      /\ \E to \in ReqStatuses : req' \in {req, [req EXCEPT ![r] = to]}
      /\ UNCHANGED <<profile, offers, link, flight, history>>
  <2>1. CASE UploadResume(r, c) \/ SubmitApplication(r, c) \/ ApplyCandidate(r, c)
    <3>1. Pending \in Applications /\ Scored("Scored") \in Applications
      BY DEF Pending, Scored, Applications
    <3>2. PICK row \in Applications, starts \in BOOLEAN : Receive(r, c, row, starts)
      BY <2>1, <3>1 DEF UploadResume, SubmitApplication, ApplyCandidate
    <3>3. app' = [app EXCEPT ![r] = [app[r] EXCEPT ![c] = row]]
      BY <3>2 DEF Receive, TInv, TypeOK
    <3>4. \E to \in ReqStatuses : req' \in {req, [req EXCEPT ![r] = to]}
      BY <3>2 DEF Receive, Sourceable, Sourcing, ReqStatuses, TInv, TypeOK
    <3> QED BY <3>2, <3>3, <3>4 DEF Receive
  <2>2. CASE ScanResume(r, c) \/ ShortlistResume(r, c) \/ RejectResume(r, c)
               \/ DeleteResume(r, c)
    <3>1. Scored("Scored") \in Applications /\ Scored("Shortlisted") \in Applications
      BY DEF Scored, Applications
    <3>2. RejectResume(r, c) =>
            [app[r][c] EXCEPT !.ats = "Rejected"] \in Applications
      BY DEF RejectResume, Applications, TInv, TypeOK
    <3>3. PICK row \in Applications \cup {NoRow} : Decide(r, c, row)
      BY <2>2, <3>1, <3>2 DEF ScanResume, ShortlistResume, RejectResume, DeleteResume
    <3>4. "Draft" \in ReqStatuses
      BY DEF ReqStatuses
    <3> QED BY <3>3, <3>4 DEF Decide, TInv, TypeOK
  <2> QED BY <2>1, <2>2
<1>2. app' \in [Reqs -> [Candidates -> Applications \cup {NoRow}]]
  BY <1>1 DEF TInv, TypeOK
<1> QED BY <1>1, <1>2 DEF history, TInv, TypeOK, SyncSound

LEMMA TypeSchedule ==
    ASSUME TInv, NEW i \in Interviews, NEW c \in Candidates,
           \/ \E r \in Reqs : ScheduleFromResume(r, i, c)
           \/ TriggerInterview(i, c) \/ LinkSchedule(i, c)
    PROVE  TInv'
<1>1. /\ link[i] = NoRow
      /\ link' = [link EXCEPT ![i] = [cand |-> c, started |-> FALSE,
                                      reports |-> {}, synced |-> NoReport]]
      /\ \E s \in Stages : profile' = [profile EXCEPT ![c] = s]
      /\ UNCHANGED <<req, app, offers, flight, history>>
  <2>1. profile = [profile EXCEPT ![c] = profile[c]]
    BY DEF TInv, TypeOK
  <2> QED BY <2>1 DEF ScheduleFromResume, TriggerInterview, LinkSchedule,
             Schedule, TInv, TypeOK, Stages
<1>2. [cand |-> c, started |-> FALSE, reports |-> {}, synced |-> NoReport]
        \in Links
  BY DEF Links
<1>3. TypeOK'
  BY <1>1, <1>2, PipelineAssumption DEF TInv, TypeOK, history
<1>4. SyncSound'
  BY <1>1 DEF TInv, TypeOK, SyncSound, Flights
<1> QED BY <1>3, <1>4 DEF TInv

LEMMA MoveType ==
    ASSUME TInv, NEW c \in Candidates, NEW to \in Targets,
           NEW offer \in BOOLEAN, MayMove(c, to, offer)
    PROVE  /\ Transition(c, to, offer) \in Flights
           /\ profile[c] # NoRow
<1>1. to \in Stages /\ Fulfils(to) \subseteq Reqs
  BY StageMoves DEF MayMove, Fulfils
<1>2. profile[c] # NoRow
  BY PipelineAssumption DEF MayMove
<1> QED BY <1>1, <1>2 DEF Transition, Flights

LEMMA WriteType ==
    ASSUME TInv, NEW m \in Flights, m.kind = "move", profile[m.cand] # NoRow,
           flight' \in {flight, Idle}, WriteMove(m)
    PROVE  TInv'
<1>1. /\ m.cand \in Candidates /\ m.to \in Stages /\ m.fulfils \subseteq Reqs
  BY DEF Flights
<1>2. TypeOK'
  BY <1>1, PipelineAssumption DEF WriteMove, TInv, TypeOK, ReqStatuses
<1>3. SyncSound'
  BY DEF WriteMove, TInv, SyncSound
<1> QED BY <1>2, <1>3 DEF TInv

LEMMA TypeProfile ==
    ASSUME TInv,
           \/ \E c \in Candidates : \/ CreateProfile(c) \/ CreateOffer(c)
                                    \/ DeleteProfile(c) \/ Move(c)
                                    \/ ReadMove(c) \/ HealProfile(c)
           \/ CommitMove
    PROVE  TInv'
<1>1. ASSUME NEW c \in Candidates, CreateProfile(c) \/ HealProfile(c)
      PROVE  TInv'
  <2>1. /\ \E s \in Stages : profile' = [profile EXCEPT ![c] = s]
        /\ UNCHANGED <<req, app, offers, link, flight, history>>
    BY <1>1 DEF CreateProfile, HealProfile, Stages
  <2> QED BY <2>1, PipelineAssumption DEF TInv, TypeOK, SyncSound, history
<1>2. ASSUME NEW c \in Candidates, CreateOffer(c) PROVE TInv'
  BY <1>2 DEF CreateOffer, TInv, TypeOK, SyncSound, history
<1>3. ASSUME NEW c \in Candidates, DeleteProfile(c) PROVE TInv'
  <2>1. TypeOK'
    BY <1>3 DEF DeleteProfile, DeleteProfileOnly, TInv, TypeOK
  <2>2. flight' \in {flight, Idle}
    BY <1>3 DEF DeleteProfile, DeleteProfileOnly
  <2>3. SyncSound'
    BY <1>3, <2>2 DEF DeleteProfile, DeleteProfileOnly, TInv, TypeOK, SyncSound,
       Flights
  <2> QED BY <2>1, <2>3 DEF TInv
<1>4. ASSUME NEW c \in Candidates, Move(c) PROVE TInv'
  <2>1. PICK to \in Targets, offer \in BOOLEAN :
            MayMove(c, to, offer) /\ WriteMove(Transition(c, to, offer))
    BY <1>4 DEF Move
  <2>2. /\ Transition(c, to, offer).kind = "move"
        /\ Transition(c, to, offer).cand = c
    BY DEF Transition
  <2> QED BY <1>4, <2>1, <2>2, MoveType, WriteType DEF Move
<1>5. ASSUME NEW c \in Candidates, ReadMove(c) PROVE TInv'
  <2>1. PICK to \in Targets, offer \in BOOLEAN :
            MayMove(c, to, offer) /\ flight' = Transition(c, to, offer)
    BY <1>5 DEF ReadMove
  <2>2. /\ Transition(c, to, offer).kind = "move"
        /\ Transition(c, to, offer).cand = c
    BY DEF Transition
  <2>3. flight' \in Flights /\ profile[c] # NoRow
    BY <2>1, MoveType
  <2> QED BY <1>5, <2>1, <2>2, <2>3 DEF ReadMove, TInv, TypeOK, SyncSound, history
<1>6. CASE CommitMove
  BY <1>6, WriteType DEF CommitMove, TInv, TypeOK
<1> QED BY <1>1, <1>2, <1>3, <1>4, <1>5, <1>6

LEMMA SyncType ==
    ASSUME TInv, NEW i \in Interviews, NEW rep \in Report, MaySync(i, rep)
    PROVE  /\ Sync(i, rep) \in Flights
           /\ link[i] # NoRow /\ link[i] \in Links
           /\ rep \in link[i].reports
           /\ profile[link[i].cand] # NoRow
<1>1. link[i] # NoRow /\ link[i] \in Links /\ rep \in link[i].reports
  BY DEF MaySync, TInv, TypeOK
<1>2. link[i].cand \in Candidates /\ HandsOver(link[i].cand, rep) \in BOOLEAN
  BY <1>1 DEF Links, HandsOver, Report
<1>3. profile[link[i].cand] # NoRow
  BY <1>1 DEF TInv, TypeOK
<1> QED BY <1>1, <1>2, <1>3 DEF Sync, Flights

LEMMA WriteSyncType ==
    ASSUME TInv, NEW s \in Flights, s.kind = "sync",
           link[s.interview] # NoRow, link[s.interview].cand = s.cand,
           s.report \in link[s.interview].reports,
           flight' \in {flight, Idle}, WriteSync(s)
    PROVE  TInv'
<1>1. /\ s.cand \in Candidates /\ s.interview \in Interviews
      /\ s.report \in Report
  BY DEF Flights
<1> DEFINE j == s.interview
           row == [link[j] EXCEPT !.synced = s.report]
<1>2. link[j] \in Links /\ profile[s.cand] # NoRow
  BY <1>1 DEF TInv, TypeOK
<1>3. row \in Links /\ row.cand = link[j].cand /\ row.reports = link[j].reports
  BY <1>1, <1>2 DEF Links
<1>4. link' = [link EXCEPT ![j] = row]
  BY DEF WriteSync
<1>5. \/ profile' = profile
      \/ profile' = [profile EXCEPT ![s.cand] = "RMG_Review"]
  BY DEF WriteSync
<1>6. UNCHANGED <<req, app, offers, reviewed, joined, merit>>
  BY DEF WriteSync, history
<1> HIDE DEF j, row
<1>7. link' \in [Interviews -> Links \cup {NoRow}]
  BY <1>3, <1>4 DEF TInv, TypeOK
<1>8. \A i \in Interviews : link'[i] # NoRow =>
          link[i] # NoRow /\ link'[i].cand = link[i].cand
  BY <1>1, <1>2, <1>3, <1>4, PipelineAssumption DEF TInv, TypeOK, j
<1>9. profile' \in [Candidates -> Stages \cup {NoRow}]
      /\ \A c \in Candidates : profile[c] # NoRow => profile'[c] # NoRow
  BY <1>1, <1>5, PipelineAssumption DEF TInv, TypeOK, Stages
<1>10. TypeOK'
  <2>1. \A i \in Interviews : link'[i] # NoRow => profile'[link'[i].cand] # NoRow
    BY <1>7, <1>8, <1>9 DEF TInv, TypeOK, Links
  <2>2. flight' # Idle => profile'[flight'.cand] # NoRow
    BY <1>9 DEF TInv, TypeOK, Flights
  <2> QED BY <1>6, <1>7, <1>9, <2>1, <2>2 DEF TInv, TypeOK
<1>11. SyncSound'
  <2> SUFFICES ASSUME flight' # Idle, flight'.kind = "sync" PROVE SyncSound'
    BY DEF SyncSound
  <2>1. flight' = flight /\ flight.interview \in Interviews
    BY DEF TInv, TypeOK, Flights
  <2> QED BY <2>1, <1>1, <1>2, <1>3, <1>4, PipelineAssumption
          DEF TInv, TypeOK, SyncSound
<1> QED BY <1>10, <1>11 DEF TInv

LEMMA TypeInterview ==
    ASSUME TInv,
           \/ \E i \in Interviews : \/ CancelInterview(i) \/ StartInterview(i)
                                     \/ PersistReport(i) \/ SyncInterview(i)
                                     \/ ReadSync(i)
           \/ CommitSync \/ LoseFlight
    PROVE  TInv'
<1>1. ASSUME NEW i \in Interviews, CancelInterview(i) PROVE TInv'
  <2>1. TypeOK'
    BY <1>1 DEF CancelInterview, TInv, TypeOK, history
  <2>2. SyncSound'
    BY <1>1 DEF CancelInterview, TInv, TypeOK, SyncSound, Flights
  <2> QED BY <2>1, <2>2 DEF TInv
<1>2. ASSUME NEW i \in Interviews, StartInterview(i) \/ PersistReport(i)
      PROVE  TInv'
  <2>1. link[i] # NoRow /\ link[i] \in Links
    BY <1>2 DEF StartInterview, PersistReport, TInv, TypeOK
  <2>2. PICK row \in Links :
            /\ link' = [link EXCEPT ![i] = row]
            /\ row.cand = link[i].cand /\ link[i].reports \subseteq row.reports
    <3>1. CASE StartInterview(i)
      <4>1. [link[i] EXCEPT !.started = TRUE] \in Links
        BY <2>1 DEF Links
      <4> QED BY <2>1, <3>1, <4>1 DEF StartInterview, Links
    <3>2. CASE PersistReport(i)
      <4>1. PICK rep \in Report :
              link' = [link EXCEPT ![i].reports = @ \cup {rep}]
        BY <3>2 DEF PersistReport
      <4>2. [link[i] EXCEPT !.reports = @ \cup {rep}] \in Links
        BY <2>1 DEF Links
      <4> QED BY <2>1, <4>1, <4>2 DEF Links
    <3> QED BY <1>2, <3>1, <3>2
  <2>3. /\ merit' \subseteq Candidates
        /\ UNCHANGED <<req, app, profile, offers, flight, reviewed, joined>>
    BY <1>2, <2>1 DEF StartInterview, PersistReport, history, TInv, TypeOK, Links
  <2>4. row # NoRow
    BY PipelineAssumption
  <2>5. TypeOK'
    BY <2>1, <2>2, <2>3, <2>4 DEF TInv, TypeOK
  <2>6. SyncSound'
    BY <2>1, <2>2, <2>3, <2>4 DEF TInv, TypeOK, SyncSound, Flights
  <2> QED BY <2>5, <2>6 DEF TInv
<1>3. ASSUME NEW i \in Interviews, SyncInterview(i) PROVE TInv'
  <2>1. PICK rep \in Report : MaySync(i, rep) /\ WriteSync(Sync(i, rep))
    BY <1>3 DEF SyncInterview
  <2>2. /\ Sync(i, rep).kind = "sync" /\ Sync(i, rep).interview = i
        /\ Sync(i, rep).cand = link[i].cand /\ Sync(i, rep).report = rep
    BY DEF Sync
  <2> QED BY <1>3, <2>1, <2>2, SyncType, WriteSyncType DEF SyncInterview
<1>4. ASSUME NEW i \in Interviews, ReadSync(i) PROVE TInv'
  <2>1. PICK rep \in Report : MaySync(i, rep) /\ flight' = Sync(i, rep)
    BY <1>4 DEF ReadSync
  <2>2. /\ Sync(i, rep).kind = "sync" /\ Sync(i, rep).interview = i
        /\ Sync(i, rep).cand = link[i].cand /\ Sync(i, rep).report = rep
    BY DEF Sync
  <2>3. /\ flight' \in Flights /\ link[i] # NoRow /\ rep \in link[i].reports
        /\ profile[link[i].cand] # NoRow
    BY <2>1, SyncType
  <2> QED BY <1>4, <2>1, <2>2, <2>3 DEF ReadSync, TInv, TypeOK, SyncSound, history
<1>5. CASE CommitSync
  <2>1. flight \in Flights /\ flight.kind = "sync" /\ WriteSync(flight)
        /\ flight' = Idle
    BY <1>5 DEF CommitSync, TInv, TypeOK
  <2> QED BY <1>5, <2>1, WriteSyncType DEF CommitSync, TInv, SyncSound
<1>6. CASE LoseFlight
  BY <1>6 DEF LoseFlight, TInv, TypeOK, SyncSound, history
<1> QED BY <1>1, <1>2, <1>3, <1>4, <1>5, <1>6

LEMMA TInvStep == TInv /\ [Next]_vars => TInv'
<1> SUFFICES ASSUME TInv, [Next]_vars PROVE TInv'
  OBVIOUS
<1>1. CASE UNCHANGED vars
  BY <1>1 DEF vars, TInv, TypeOK, SyncSound
<1>2. CASE Next
  BY <1>2, TypeRequirement, TypeApplication, TypeSchedule, TypeProfile,
     TypeInterview DEF Next
<1> QED BY <1>1, <1>2

\* Types, and what hangs on a profile goes with it, in every reachable state.
THEOREM TypeCorrect == Spec => []TypeOK
<1>1. Spec => []TInv
  BY TInvInit, TInvStep, PTL DEF Spec
<1>2. TInv => TypeOK
  BY DEF TInv
<1> QED BY <1>1, <1>2, PTL

\* A step of a requirement or of an application.
DeskStep ==
    \/ \E r \in Reqs :
        \/ CreateRequirement(r) \/ SpawnRequirement(r) \/ SubmitRequirement(r)
        \/ SalesHeadDecides(r) \/ EngineeringApprove(r)
        \/ EngineeringReject(r) \/ EndRequirement(r) \/ AddJobPosting(r)
    \/ \E r \in Reqs, c \in Candidates :
        \/ UploadResume(r, c) \/ SubmitApplication(r, c)
        \/ ApplyCandidate(r, c) \/ ScanResume(r, c) \/ ShortlistResume(r, c)
        \/ RejectResume(r, c) \/ DeleteResume(r, c)

LEMMA DeskLeavesProfiles ==
    DeskStep => UNCHANGED <<profile, offers, link, flight, joined, merit>>
BY DEF DeskStep, CreateRequirement, SpawnRequirement, SubmitRequirement,
   SalesHeadDecides, EngineeringApprove, EngineeringReject, EndRequirement,
   AddJobPosting, Advance, UploadResume, SubmitApplication, ApplyCandidate,
   Receive, ScanResume, ShortlistResume, RejectResume, DeleteResume, Decide,
   history

-----------------------------------------------------------------------------
(* Offers.                                                                 *)
Approved == {"Customer_Approval", "Preboarding", "Joined"}

\* A move in flight to a stage that takes an offer brings it or has seen it.
OfferSound ==
    flight # Idle /\ flight.kind = "move" /\ flight.to \in Approved =>
        flight.offer \/ flight.cand \in offers

OInv == OfferBeforeApproval /\ OfferSound

\* What a move has checked when it is read.
LEMMA MoveHasOffer ==
    ASSUME TInv, OInv, NEW c \in Candidates, NEW to \in Targets,
           NEW offer \in BOOLEAN, MayMove(c, to, offer), to \in Approved
    PROVE  offer \/ c \in offers
<1>1. CASE to = "Customer_Approval"
  BY <1>1 DEF MayMove, EntryMet
<1>2. CASE to \in {"Preboarding", "Joined"}
  <2>1. profile[c] \in {"Customer_Approval", "Preboarding"}
    BY <1>2, StageMoves DEF MayMove
  <2> QED BY <2>1 DEF OInv, OfferBeforeApproval
<1> QED BY <1>1, <1>2 DEF Approved

LEMMA WriteKeepsOffers ==
    ASSUME TInv, OInv, NEW m \in Flights, m.kind = "move", WriteMove(m),
           m.to \in Approved => m.offer \/ m.cand \in offers,
           flight' \in {flight, Idle}
    PROVE  OInv'
<1>1. m.cand \in Candidates
  BY DEF Flights
<1> QED BY <1>1 DEF WriteMove, OInv, OfferBeforeApproval, OfferSound, TInv,
           TypeOK, Approved

LEMMA OfferStep == TInv /\ OInv /\ [Next]_vars => OInv'
<1> SUFFICES ASSUME TInv, OInv, [Next]_vars PROVE OInv'
  OBVIOUS
<1>1. CASE UNCHANGED <<profile, offers, flight>>
  BY <1>1 DEF OInv, OfferBeforeApproval, OfferSound
<1>2. ASSUME NEW c \in Candidates, NEW s \in Stages \ Approved,
             profile' = [profile EXCEPT ![c] = s],
             UNCHANGED <<offers, flight>>
      PROVE  OInv'
  BY <1>2 DEF OInv, OfferBeforeApproval, OfferSound, TInv, TypeOK, Approved
<1>3. CASE DeskStep
  BY <1>3, <1>1, DeskLeavesProfiles
<1>5. ASSUME NEW i \in Interviews, NEW c \in Candidates,
             \/ \E r \in Reqs : ScheduleFromResume(r, i, c)
             \/ TriggerInterview(i, c) \/ LinkSchedule(i, c)
      PROVE  OInv'
  <2>1. UNCHANGED <<offers, flight>>
    BY <1>5 DEF ScheduleFromResume, TriggerInterview, LinkSchedule, Schedule
  <2>2. \/ UNCHANGED profile
        \/ profile' = [profile EXCEPT ![c] = "Technical_Screening"]
    BY <1>5 DEF ScheduleFromResume, TriggerInterview, LinkSchedule, TInv, TypeOK
  <2>3. "Technical_Screening" \in Stages \ Approved
    BY DEF Stages, Approved
  <2> QED BY <2>1, <2>2, <2>3, <1>1, <1>2
<1>6. ASSUME NEW c \in Candidates, CreateProfile(c) \/ HealProfile(c)
      PROVE  OInv'
  <2>1. "Sourcing" \in Stages \ Approved /\ "RMG_Review" \in Stages \ Approved
    BY DEF Stages, Approved
  <2> QED BY <1>6, <2>1, <1>2 DEF CreateProfile, HealProfile
<1>7. ASSUME NEW c \in Candidates, CreateOffer(c) PROVE OInv'
  BY <1>7 DEF CreateOffer, OInv, OfferBeforeApproval, OfferSound
<1>8. ASSUME NEW c \in Candidates, DeleteProfile(c) PROVE OInv'
  BY <1>8, PipelineAssumption DEF DeleteProfile, DeleteProfileOnly, OInv,
     OfferBeforeApproval, OfferSound, TInv, TypeOK, Stages, Terminal
<1>9. ASSUME NEW c \in Candidates, Move(c) PROVE OInv'
  <2>1. PICK to \in Targets, offer \in BOOLEAN :
            MayMove(c, to, offer) /\ WriteMove(Transition(c, to, offer))
    BY <1>9 DEF Move
  <2>2. /\ Transition(c, to, offer).kind = "move"
        /\ Transition(c, to, offer).cand = c
        /\ Transition(c, to, offer).to = to
        /\ Transition(c, to, offer).offer = offer
    BY DEF Transition
  <2>3. Transition(c, to, offer) \in Flights
    BY <2>1, MoveType
  <2>4. to \in Approved => offer \/ c \in offers
    BY <2>1, MoveHasOffer
  <2> QED BY <1>9, <2>1, <2>2, <2>3, <2>4, WriteKeepsOffers DEF Move
<1>10. ASSUME NEW c \in Candidates, ReadMove(c) PROVE OInv'
  <2>1. PICK to \in Targets, offer \in BOOLEAN :
            MayMove(c, to, offer) /\ flight' = Transition(c, to, offer)
    BY <1>10 DEF ReadMove
  <2>2. /\ Transition(c, to, offer).cand = c
        /\ Transition(c, to, offer).to = to
        /\ Transition(c, to, offer).offer = offer
    BY DEF Transition
  <2>3. to \in Approved => offer \/ c \in offers
    BY <2>1, MoveHasOffer
  <2> QED BY <1>10, <2>1, <2>2, <2>3 DEF ReadMove, OInv, OfferBeforeApproval,
             OfferSound
<1>11. CASE CommitMove
  <2>1. flight \in Flights /\ flight.kind = "move" /\ WriteMove(flight)
        /\ flight' = Idle
    BY <1>11 DEF CommitMove, TInv, TypeOK
  <2>2. flight.to \in Approved => flight.offer \/ flight.cand \in offers
    BY <1>11 DEF CommitMove, OInv, OfferSound
  <2> QED BY <2>1, <2>2, WriteKeepsOffers
<1>12. ASSUME NEW i \in Interviews, CancelInterview(i) PROVE OInv'
  BY <1>12 DEF CancelInterview, OInv, OfferBeforeApproval, OfferSound
<1>13. ASSUME NEW i \in Interviews, StartInterview(i) \/ PersistReport(i)
       PROVE  OInv'
  BY <1>13, <1>1 DEF StartInterview, PersistReport
<1>14. ASSUME NEW s \in Flights, s.kind = "sync", WriteSync(s),
              flight' \in {flight, Idle}
       PROVE  OInv'
  <2>1. s.cand \in Candidates /\ UNCHANGED offers
    BY <1>14 DEF WriteSync, Flights
  <2>2. \/ UNCHANGED profile
        \/ profile' = [profile EXCEPT ![s.cand] = "RMG_Review"]
    BY <1>14 DEF WriteSync
  <2> QED BY <1>14, <2>1, <2>2 DEF OInv, OfferBeforeApproval, OfferSound, TInv,
             TypeOK
<1>15. ASSUME NEW i \in Interviews, SyncInterview(i) PROVE OInv'
  <2>1. PICK rep \in Report : MaySync(i, rep) /\ WriteSync(Sync(i, rep))
    BY <1>15 DEF SyncInterview
  <2>2. Sync(i, rep).kind = "sync"
    BY DEF Sync
  <2> QED BY <1>15, <2>1, <2>2, SyncType, <1>14 DEF SyncInterview
<1>16. ASSUME NEW i \in Interviews, ReadSync(i) PROVE OInv'
  BY <1>16 DEF ReadSync, Sync, OInv, OfferBeforeApproval, OfferSound
<1>17. CASE CommitSync
  BY <1>17, <1>14 DEF CommitSync, TInv, TypeOK
<1>18. CASE LoseFlight
  BY <1>18 DEF LoseFlight, OInv, OfferBeforeApproval, OfferSound
<1>19. CASE UNCHANGED vars
  BY <1>19, <1>1 DEF vars
<1> QED BY <1>3, <1>5, <1>6, <1>7, <1>8, <1>9, <1>10, <1>11, <1>12, <1>13,
           <1>15, <1>16, <1>17, <1>18, <1>19 DEF Next, DeskStep

\* Whatever requests overlap, nobody is approved, preboarded or joins without
\* an offer on record (ENTRY_REQUIREMENTS of services/candidate_profiles.py).
THEOREM OffersFirst == Spec => []OfferBeforeApproval
<1>1. Init => OInv
  BY PipelineAssumption DEF Init, OInv, OfferBeforeApproval, OfferSound, Stages,
     Terminal
<1>2. Spec => [](TInv /\ OInv)
  BY <1>1, TInvInit, TInvStep, OfferStep, PTL DEF Spec
<1>3. TInv /\ OInv => OfferBeforeApproval
  BY DEF OInv
<1> QED BY <1>2, <1>3, PTL

-----------------------------------------------------------------------------
(* What a step may never do.                                               *)

\* No request, sync or healing revives a rejected, withdrawn or joined
\* profile, unless it had read the profile before.
THEOREM RejectionHolds == Spec => RejectedStaysOut
<1> DEFINE Out(c) == profile[c] \in Terminal /\ (flight = Idle \/ flight.cand # c)
           Stays(c) == profile'[c] \in {profile[c], NoRow}
<1>1. ASSUME TInv, [Next]_vars, NEW c \in Candidates, Out(c) PROVE Stays(c)
  <2>0. profile[c] \notin {NoRow, "Sourcing", "Technical_Screening"}
    BY <1>1, PipelineAssumption DEF Terminal, Stages
  <2>1. CASE UNCHANGED profile
    BY <2>1
  <2>2. ASSUME NEW d \in Candidates, NEW v, profile' = [profile EXCEPT ![d] = v],
               d = c => v \in {NoRow, profile[c]}
        PROVE  Stays(c)
    BY <2>2, <1>1 DEF TInv, TypeOK
  <2>3. CASE DeskStep
    BY <2>3, <2>1, DeskLeavesProfiles
  <2>5. ASSUME NEW i \in Interviews, NEW d \in Candidates,
               \/ \E r \in Reqs : ScheduleFromResume(r, i, d)
               \/ TriggerInterview(i, d) \/ LinkSchedule(i, d)
        PROVE  Stays(c)
    BY <2>5, <2>0, <1>1 DEF ScheduleFromResume, TriggerInterview, LinkSchedule,
       TInv, TypeOK
  <2>6. ASSUME NEW d \in Candidates, CreateProfile(d) \/ HealProfile(d)
        PROVE  Stays(c)
    BY <2>6, <2>0, <2>2 DEF CreateProfile, HealProfile
  <2>7. ASSUME NEW d \in Candidates, CreateOffer(d) \/ ReadMove(d) PROVE Stays(c)
    BY <2>7, <2>1 DEF CreateOffer, ReadMove
  <2>8. ASSUME NEW d \in Candidates, DeleteProfile(d) PROVE Stays(c)
    BY <2>8, <2>2 DEF DeleteProfile, DeleteProfileOnly
  <2>9. ASSUME NEW d \in Candidates, Move(d) PROVE Stays(c)
    <3>1. PICK to \in Targets, offer \in BOOLEAN :
              MayMove(d, to, offer) /\ WriteMove(Transition(d, to, offer))
      BY <2>9 DEF Move
    <3>2. d # c
      BY <3>1, <1>1 DEF MayMove
    <3> QED BY <3>1, <3>2, <2>2 DEF WriteMove, Transition
  <2>10. CASE CommitMove
    <3>1. flight.cand # c /\ flight.cand \in Candidates
      BY <2>10, <1>1 DEF CommitMove, TInv, TypeOK, Flights
    <3> QED BY <2>10, <3>1, <2>2 DEF CommitMove, WriteMove
  <2>11. ASSUME NEW i \in Interviews,
                \/ CancelInterview(i) \/ StartInterview(i) \/ PersistReport(i)
                \/ ReadSync(i)
         PROVE  Stays(c)
    BY <2>11, <2>1 DEF CancelInterview, StartInterview, PersistReport, ReadSync
  <2>12. ASSUME NEW i \in Interviews, SyncInterview(i) PROVE Stays(c)
    <3>1. PICK rep \in Report : MaySync(i, rep) /\ WriteSync(Sync(i, rep))
      BY <2>12 DEF SyncInterview
    <3>2. link[i].cand \in Candidates
      BY <3>1, <1>1, SyncType DEF Links
    <3> QED BY <3>1, <3>2, <2>0, <2>1, <2>2 DEF WriteSync, Sync, HandsOver
  <2>13. CASE CommitSync
    <3>1. flight.cand # c /\ flight.cand \in Candidates
      BY <2>13, <1>1 DEF CommitSync, TInv, TypeOK, Flights
    <3> QED BY <2>13, <3>1, <2>1, <2>2 DEF CommitSync, WriteSync
  <2>14. CASE LoseFlight \/ UNCHANGED vars
    BY <2>14, <2>1 DEF LoseFlight, vars
  <2> HIDE DEF Out, Stays
  <2> QED BY <1>1, <2>3, <2>5, <2>6, <2>7, <2>8, <2>9, <2>10, <2>11, <2>12,
             <2>13, <2>14 DEF Next, DeskStep
<1>2. Spec => []TInv
  BY TInvInit, TInvStep, PTL DEF Spec
<1>3. TInv /\ [Next]_vars =>
        [\A c \in Candidates : Out(c) => Stays(c)]_vars
  BY <1>1
<1> QED BY <1>2, <1>3, PTL DEF Spec, RejectedStaysOut

\* An interview that has begun is not cancelled, and its verdict not withdrawn.
THEOREM VerdictHolds == Spec => VerdictStays
<1> DEFINE Begun(i) == link[i] # NoRow /\ link[i].started
           Kept(i) == \/ /\ link'[i] # NoRow /\ link'[i].started
                         /\ link[i].synced # NoReport => link'[i].synced # NoReport
                      \/ profile'[link[i].cand] = NoRow
<1>1. ASSUME TInv, [Next]_vars, NEW i \in Interviews, Begun(i) PROVE Kept(i)
  <2>0. link[i] \in Links /\ link[i] # NoRow
    BY <1>1 DEF TInv, TypeOK
  <2>1. CASE UNCHANGED link
    BY <2>1, <1>1
  <2>2. ASSUME NEW j \in Interviews, NEW v, link' = [link EXCEPT ![j] = v],
               j = i => /\ v # NoRow /\ v.started
                        /\ link[i].synced # NoReport => v.synced # NoReport
        PROVE  Kept(i)
    BY <2>2, <1>1 DEF TInv, TypeOK
  <2>3. CASE DeskStep
    BY <2>3, <2>1, DeskLeavesProfiles
  <2>4. ASSUME NEW j \in Interviews, NEW d \in Candidates,
               \/ \E r \in Reqs : ScheduleFromResume(r, j, d)
               \/ TriggerInterview(j, d) \/ LinkSchedule(j, d)
        PROVE  Kept(i)
    <3>1. Schedule(j, d)
      BY <2>4 DEF ScheduleFromResume, TriggerInterview, LinkSchedule
    <3> QED BY <3>1, <2>0, <2>2 DEF Schedule
  <2>5. ASSUME NEW d \in Candidates,
               \/ CreateProfile(d) \/ HealProfile(d) \/ CreateOffer(d)
               \/ Move(d) \/ ReadMove(d)
        PROVE  Kept(i)
    BY <2>5, <2>1 DEF CreateProfile, HealProfile, CreateOffer, Move, ReadMove,
       WriteMove
  <2>6. ASSUME NEW d \in Candidates, DeleteProfile(d) PROVE Kept(i)
    <3>1. link'[i] = IF link[i].cand = d THEN NoRow ELSE link[i]
      BY <2>6, <2>0 DEF DeleteProfile, DeleteProfileOnly
    <3>2. profile'[d] = NoRow
      BY <2>6, <1>1 DEF DeleteProfile, DeleteProfileOnly, TInv, TypeOK
    <3> QED BY <3>1, <3>2, <1>1
  <2>7. CASE CommitMove \/ LoseFlight \/ UNCHANGED vars
    BY <2>7, <2>1 DEF CommitMove, WriteMove, LoseFlight, vars
  <2>8. ASSUME NEW j \in Interviews, CancelInterview(j) PROVE Kept(i)
    BY <2>8, <1>1, <2>2 DEF CancelInterview, Cancellable
  <2>9. ASSUME NEW j \in Interviews, StartInterview(j) \/ PersistReport(j)
        PROVE  Kept(i)
    <3>1. link[j] \in Links
      BY <2>9, <1>1 DEF StartInterview, PersistReport, TInv, TypeOK
    <3>2. PICK v : /\ link' = [link EXCEPT ![j] = v]
                   /\ v \in Links /\ v.started /\ v.synced = link[j].synced
      <4>1. CASE StartInterview(j)
        <5>1. link' = [link EXCEPT ![j] = [link[j] EXCEPT !.started = TRUE]]
          BY <4>1 DEF StartInterview
        <5>2. /\ [link[j] EXCEPT !.started = TRUE] \in Links
              /\ [link[j] EXCEPT !.started = TRUE].started
              /\ [link[j] EXCEPT !.started = TRUE].synced = link[j].synced
          BY <3>1 DEF Links
        <5> QED BY <5>1, <5>2
      <4>2. CASE PersistReport(j)
        <5>1. PICK rep \in Report : link' =
                [link EXCEPT ![j] = [link[j] EXCEPT !.reports = @ \cup {rep}]]
          BY <4>2 DEF PersistReport
        <5>2. link[j].started
          BY <4>2 DEF PersistReport
        <5>3. /\ [link[j] EXCEPT !.reports = @ \cup {rep}] \in Links
              /\ [link[j] EXCEPT !.reports = @ \cup {rep}].started
              /\ [link[j] EXCEPT !.reports = @ \cup {rep}].synced = link[j].synced
          BY <3>1, <5>2 DEF Links
        <5> QED BY <5>1, <5>3
      <4> QED BY <2>9, <4>1, <4>2
    <3>3. v # NoRow
      BY <3>2, PipelineAssumption
    <3> QED BY <3>2, <3>3, <2>2
  <2>10. ASSUME NEW j \in Interviews, ReadSync(j) PROVE Kept(i)
    BY <2>10, <2>1 DEF ReadSync
  <2>11. ASSUME NEW s \in Flights, s.kind = "sync", WriteSync(s) PROVE Kept(i)
    <3>1. s.interview \in Interviews /\ s.report \in Report
      BY <2>11 DEF Flights
    <3>2. s.report # NoReport
      BY <3>1 DEF Report, NoReport
    <3>3. link' = [link EXCEPT ![s.interview] =
                     [link[s.interview] EXCEPT !.synced = s.report]]
      BY <2>11 DEF WriteSync
    <3>4. CASE s.interview = i
      <4>1. link'[i] = [link[i] EXCEPT !.synced = s.report]
        BY <3>3, <3>4, <1>1 DEF TInv, TypeOK
      <4>2. [link[i] EXCEPT !.synced = s.report] \in Links
        BY <2>0, <3>1 DEF Links
      <4>3. link'[i].started /\ link'[i].synced = s.report
        BY <4>1, <2>0, <1>1 DEF Links
      <4> QED BY <4>1, <4>2, <4>3, <3>2, PipelineAssumption
    <3>5. CASE s.interview # i
      BY <3>3, <3>5, <1>1 DEF TInv, TypeOK
    <3> QED BY <3>4, <3>5
  <2>12. ASSUME NEW j \in Interviews, SyncInterview(j) PROVE Kept(i)
    <3>1. PICK rep \in Report : MaySync(j, rep) /\ WriteSync(Sync(j, rep))
      BY <2>12 DEF SyncInterview
    <3>2. Sync(j, rep) \in Flights
      BY <3>1, <1>1, SyncType
    <3>3. Sync(j, rep).kind = "sync"
      BY DEF Sync
    <3> QED BY <3>1, <3>2, <3>3, <2>11
  <2>13. CASE CommitSync
    BY <2>13, <2>11, <1>1 DEF CommitSync, TInv, TypeOK
  <2> HIDE DEF Begun, Kept
  <2> QED BY <1>1, <2>3, <2>4, <2>5, <2>6, <2>7, <2>8, <2>9, <2>10, <2>12,
             <2>13 DEF Next, DeskStep
<1>2. Spec => []TInv
  BY TInvInit, TInvStep, PTL DEF Spec
<1>3. TInv /\ [Next]_vars => [\A i \in Interviews : Begun(i) => Kept(i)]_vars
  BY <1>1
<1> QED BY <1>2, <1>3, PTL DEF Spec, VerdictStays

-----------------------------------------------------------------------------
(* Merit.                                                                  *)
Forwarded ==
    Stages \ (Terminal \cup {"Sourcing", "Technical_Screening"})

\* A passing report has earned its candidate the merit, and a link's verdict is
\* one of its reports.
ReportMerit ==
    \A i \in Interviews : link[i] # NoRow =>
        /\ link[i].synced \in link[i].reports \cup {NoReport}
        /\ \A rep \in link[i].reports : rep.passed => link[i].cand \in merit

\* A move in flight within the forwarded stages started there; a write-back
\* that hands over has a passing report.
FlightMerit ==
    flight # Idle =>
        /\ flight.kind = "move" /\ flight.to \in Forwarded \ {"RMG_Review"}
             => flight.cand \in merit
        /\ flight.kind = "sync" /\ flight.forward => flight.report.passed

MInv == ForwardedOnMerit /\ ReportMerit /\ FlightMerit

LEMMA MoveOnMerit ==
    ASSUME TInv, MInv, NEW c \in Candidates, NEW to \in Targets,
           NEW offer \in BOOLEAN, MayMove(c, to, offer),
           to \in Forwarded \ {"RMG_Review"}
    PROVE  c \in merit
<1>1. profile[c] \in Forwarded
  BY StageMoves DEF MayMove, Forwarded
<1> QED BY <1>1 DEF MInv, ForwardedOnMerit, Forwarded

LEMMA WriteOnMerit ==
    ASSUME TInv, MInv, NEW m \in Flights, m.kind = "move", WriteMove(m),
           m.to \in Forwarded \ {"RMG_Review"} => m.cand \in merit,
           flight' \in {flight, Idle}
    PROVE  MInv'
<1>1. m.cand \in Candidates /\ m.to \in Stages
  BY DEF Flights
<1>2. merit \subseteq merit' /\ (m.to = "RMG_Review" => m.cand \in merit')
  BY DEF WriteMove
<1>3. ForwardedOnMerit'
  BY <1>1, <1>2 DEF WriteMove, MInv, ForwardedOnMerit, Forwarded, TInv, TypeOK
<1>4. ReportMerit' /\ FlightMerit'
  BY <1>2 DEF WriteMove, MInv, ReportMerit, FlightMerit
<1> QED BY <1>3, <1>4 DEF MInv

LEMMA WriteSyncOnMerit ==
    ASSUME TInv, MInv, NEW s \in Flights, s.kind = "sync", WriteSync(s),
           link[s.interview] # NoRow, link[s.interview].cand = s.cand,
           s.report \in link[s.interview].reports,
           s.forward => s.report.passed, flight' \in {flight, Idle}
    PROVE  MInv'
<1>1. s.interview \in Interviews /\ s.cand \in Candidates
  BY DEF Flights
<1>2. s.forward => s.cand \in merit
  BY <1>1 DEF MInv, ReportMerit
<1>3. /\ \/ UNCHANGED profile
         \/ s.forward /\ profile' = [profile EXCEPT ![s.cand] = "RMG_Review"]
      /\ UNCHANGED merit
  BY DEF WriteSync, history
<1>4. ForwardedOnMerit'
  BY <1>1, <1>2, <1>3 DEF MInv, ForwardedOnMerit, TInv, TypeOK
<1>5. ReportMerit'
  <2> DEFINE row == [link[s.interview] EXCEPT !.synced = s.report]
  <2>1. link' = [link EXCEPT ![s.interview] = row]
    BY DEF WriteSync
  <2>2. link[s.interview] \in Links
    BY <1>1 DEF TInv, TypeOK
  <2>3. /\ row.synced = s.report /\ row.cand = link[s.interview].cand
        /\ row.reports = link[s.interview].reports
    BY <2>2 DEF Links
  <2> HIDE DEF row
  <2> QED BY <1>1, <1>3, <2>1, <2>2, <2>3 DEF MInv, ReportMerit, TInv, TypeOK
<1>6. FlightMerit'
  BY <1>3 DEF MInv, FlightMerit
<1> QED BY <1>4, <1>5, <1>6 DEF MInv

LEMMA MeritStep == TInv /\ MInv /\ [Next]_vars => MInv'
<1> SUFFICES ASSUME TInv, MInv, [Next]_vars PROVE MInv'
  OBVIOUS
<1>1. CASE UNCHANGED <<profile, link, flight, merit>>
  BY <1>1 DEF MInv, ForwardedOnMerit, ReportMerit, FlightMerit
<1>2. CASE DeskStep
  BY <1>2, <1>1, DeskLeavesProfiles
<1>3. ASSUME NEW i \in Interviews, NEW c \in Candidates,
             \/ \E r \in Reqs : ScheduleFromResume(r, i, c)
             \/ TriggerInterview(i, c) \/ LinkSchedule(i, c)
      PROVE  MInv'
  <2>1. Schedule(i, c)
    BY <1>3 DEF ScheduleFromResume, TriggerInterview, LinkSchedule
  <2>2. \/ UNCHANGED profile
        \/ profile' = [profile EXCEPT ![c] = "Technical_Screening"]
    BY <1>3 DEF ScheduleFromResume, TriggerInterview, LinkSchedule, TInv, TypeOK
  <2>3. ForwardedOnMerit'
    BY <2>1, <2>2 DEF Schedule, history, MInv, ForwardedOnMerit, TInv, TypeOK
  <2>4. ReportMerit' /\ FlightMerit'
    BY <2>1 DEF Schedule, history, MInv, ReportMerit, FlightMerit, TInv, TypeOK
  <2> QED BY <2>3, <2>4 DEF MInv
<1>4. ASSUME NEW c \in Candidates, CreateProfile(c) PROVE MInv'
  BY <1>4 DEF CreateProfile, history, MInv, ForwardedOnMerit, ReportMerit,
     FlightMerit, TInv, TypeOK
<1>5. ASSUME NEW c \in Candidates, HealProfile(c) PROVE MInv'
  <2>1. PICK i \in Linked(c) : link[i].synced.passed
    BY <1>5 DEF HealProfile
  <2>2. i \in Interviews /\ link[i] # NoRow /\ link[i].cand = c
    BY DEF Linked
  <2>3. c \in merit
    BY <2>1, <2>2 DEF MInv, ReportMerit, NoReport
  <2> QED BY <1>5, <2>3 DEF HealProfile, history, MInv, ForwardedOnMerit,
             ReportMerit, FlightMerit, TInv, TypeOK
<1>6. ASSUME NEW c \in Candidates, CreateOffer(c) PROVE MInv'
  BY <1>6, <1>1 DEF CreateOffer, history
<1>7. ASSUME NEW c \in Candidates, DeleteProfile(c) PROVE MInv'
  <2>1. ForwardedOnMerit'
    BY <1>7, PipelineAssumption DEF DeleteProfile, DeleteProfileOnly, MInv,
       ForwardedOnMerit, TInv, TypeOK
  <2>2. ReportMerit'
    BY <1>7 DEF DeleteProfile, DeleteProfileOnly, MInv, ReportMerit, TInv, TypeOK
  <2>3. FlightMerit'
    BY <1>7 DEF DeleteProfile, DeleteProfileOnly, MInv, FlightMerit
  <2> QED BY <2>1, <2>2, <2>3 DEF MInv
<1>8. ASSUME NEW c \in Candidates, Move(c) PROVE MInv'
  <2>1. PICK to \in Targets, offer \in BOOLEAN :
            MayMove(c, to, offer) /\ WriteMove(Transition(c, to, offer))
    BY <1>8 DEF Move
  <2>2. /\ Transition(c, to, offer).kind = "move"
        /\ Transition(c, to, offer).cand = c
        /\ Transition(c, to, offer).to = to
    BY DEF Transition
  <2> QED BY <1>8, <2>1, <2>2, MoveType, MoveOnMerit, WriteOnMerit DEF Move
<1>9. ASSUME NEW c \in Candidates, ReadMove(c) PROVE MInv'
  <2>1. PICK to \in Targets, offer \in BOOLEAN :
            MayMove(c, to, offer) /\ flight' = Transition(c, to, offer)
    BY <1>9 DEF ReadMove
  <2>2. /\ Transition(c, to, offer).kind = "move"
        /\ Transition(c, to, offer).cand = c
        /\ Transition(c, to, offer).to = to
    BY DEF Transition
  <2> QED BY <1>9, <2>1, <2>2, MoveOnMerit DEF ReadMove, history, MInv,
             ForwardedOnMerit, ReportMerit, FlightMerit
<1>10. CASE CommitMove
  <2>1. flight \in Flights /\ flight.kind = "move" /\ WriteMove(flight)
        /\ flight' = Idle
    BY <1>10 DEF CommitMove, TInv, TypeOK
  <2> QED BY <1>10, <2>1, WriteOnMerit DEF CommitMove, MInv, FlightMerit
<1>11. ASSUME NEW i \in Interviews, CancelInterview(i) PROVE MInv'
  BY <1>11 DEF CancelInterview, history, MInv, ForwardedOnMerit, ReportMerit,
     FlightMerit, TInv, TypeOK
<1>12. ASSUME NEW i \in Interviews, StartInterview(i) \/ PersistReport(i)
       PROVE  MInv'
  <2>1. link[i] \in Links /\ link[i] # NoRow
    BY <1>12 DEF StartInterview, PersistReport, TInv, TypeOK
  <2>2. CASE StartInterview(i)
    <3>1. link' = [link EXCEPT ![i] = [link[i] EXCEPT !.started = TRUE]]
      BY <2>2 DEF StartInterview
    <3>2. /\ link'[i].cand = link[i].cand /\ link'[i].reports = link[i].reports
          /\ link'[i].synced = link[i].synced
          /\ \A j \in Interviews \ {i} : link'[j] = link[j]
      BY <3>1, <2>1 DEF Links, TInv, TypeOK
    <3> QED BY <2>1, <2>2, <3>2 DEF StartInterview, history, MInv,
               ForwardedOnMerit, ReportMerit, FlightMerit
  <2>3. CASE PersistReport(i)
    <3>1. PICK rep \in Report :
            /\ link' = [link EXCEPT ![i] = [link[i] EXCEPT !.reports = @ \cup {rep}]]
            /\ merit' = IF rep.passed THEN merit \cup {link[i].cand} ELSE merit
      BY <2>3 DEF PersistReport
    <3>2. /\ link'[i].cand = link[i].cand
          /\ link'[i].reports = link[i].reports \cup {rep}
          /\ link'[i].synced = link[i].synced
          /\ \A j \in Interviews \ {i} : link'[j] = link[j]
      BY <3>1, <2>1 DEF Links, TInv, TypeOK
    <3>3. UNCHANGED <<profile, flight>> /\ merit \subseteq merit'
      BY <2>3, <3>1 DEF PersistReport
    <3>4. ReportMerit'
      BY <2>1, <3>1, <3>2 DEF MInv, ReportMerit
    <3> QED BY <3>3, <3>4 DEF MInv, ForwardedOnMerit, FlightMerit
  <2> QED BY <1>12, <2>2, <2>3
<1>13. ASSUME NEW i \in Interviews, SyncInterview(i) PROVE MInv'
  <2>1. PICK rep \in Report : MaySync(i, rep) /\ WriteSync(Sync(i, rep))
    BY <1>13 DEF SyncInterview
  <2>2. /\ Sync(i, rep).kind = "sync" /\ Sync(i, rep).interview = i
        /\ Sync(i, rep).cand = link[i].cand /\ Sync(i, rep).report = rep
        /\ Sync(i, rep).forward => rep.passed
    BY DEF Sync, HandsOver
  <2> QED BY <1>13, <2>1, <2>2, SyncType, WriteSyncOnMerit DEF SyncInterview
<1>14. ASSUME NEW i \in Interviews, ReadSync(i) PROVE MInv'
  <2>1. PICK rep \in Report : flight' = Sync(i, rep)
    BY <1>14 DEF ReadSync
  <2>2. /\ Sync(i, rep).kind = "sync" /\ Sync(i, rep).report = rep
        /\ Sync(i, rep).forward => rep.passed
    BY DEF Sync, HandsOver
  <2> QED BY <1>14, <2>1, <2>2 DEF ReadSync, history, MInv, ForwardedOnMerit,
             ReportMerit, FlightMerit
<1>15. CASE CommitSync
  <2>1. flight \in Flights /\ flight # Idle /\ flight.kind = "sync"
        /\ WriteSync(flight) /\ flight' = Idle
    BY <1>15 DEF CommitSync, TInv, TypeOK
  <2> QED BY <2>1, WriteSyncOnMerit DEF TInv, SyncSound, MInv, FlightMerit
<1>16. CASE LoseFlight
  BY <1>16 DEF LoseFlight, history, MInv, ForwardedOnMerit, ReportMerit,
     FlightMerit
<1>17. CASE UNCHANGED vars
  BY <1>17, <1>1 DEF vars
<1> QED BY <1>2, <1>3, <1>4, <1>5, <1>6, <1>7, <1>8, <1>9, <1>10, <1>11,
           <1>12, <1>13, <1>14, <1>15, <1>16, <1>17 DEF Next, DeskStep

\* A profile is past the technical screening only by TA's move or by a passing
\* report of one of its own interviews, however late its write-back comes.
THEOREM MeritFirst == Spec => []ForwardedOnMerit
<1>1. Init => MInv
  BY PipelineAssumption DEF Init, MInv, ForwardedOnMerit, ReportMerit, FlightMerit
<1>2. Spec => [](TInv /\ MInv)
  BY <1>1, TInvInit, TInvStep, MeritStep, PTL DEF Spec
<1>3. TInv /\ MInv => ForwardedOnMerit
  BY DEF MInv
<1> QED BY <1>2, <1>3, PTL

-----------------------------------------------------------------------------
(* Fulfilment.                                                             *)
JoinedNow == {c \in Candidates : profile[c] = "Joined"}

\* What an order to fulfil a requirement rests on: RMG's approval, and joins
\* enough without the one that gives it.
Earned(m, everJoined) ==
    /\ m.fulfils \subseteq reviewed
    /\ m.fulfils # {} =>
         /\ m.to = "Joined"
         /\ Earlier + Cardinality(everJoined \cup {m.cand}) > Positions

EInv ==
    /\ FulfilledWasEarned
    /\ \A r \in Reqs : req[r] \in Sourcing => r \in reviewed
    /\ JoinedNow \subseteq joined
    /\ flight # Idle /\ flight.kind = "move" => Earned(flight, joined)

LEMMA MoreJoined ==
    ASSUME TInv, NEW S \in SUBSET Candidates, NEW T \in SUBSET Candidates,
           S \subseteq T
    PROVE  /\ IsFiniteSet(T) /\ Cardinality(S) <= Cardinality(T)
           /\ Cardinality(S) \in Nat /\ Cardinality(T) \in Nat
BY PipelineAssumption, FS_Subset, FS_CardinalityType

\* When a move is read, the joiner is not among those counted.
LEMMA ReadEarned ==
    ASSUME TInv, EInv, NEW c \in Candidates, NEW to \in Targets,
           NEW offer \in BOOLEAN, MayMove(c, to, offer)
    PROVE  Earned(Transition(c, to, offer), joined)
<1> DEFINE m == Transition(c, to, offer)
<1>1. m.cand = c /\ m.to = to /\ m.fulfils = Fulfils(to)
  BY DEF Transition
<1>2. Fulfils(to) \subseteq reviewed
  BY DEF Fulfils, EInv, Sourcing
<1>3. ASSUME Fulfils(to) # {}
      PROVE  to = "Joined" /\ Earlier + Cardinality(joined \cup {c}) > Positions
  <2>1. to = "Joined" /\ Earlier + Cardinality(JoinedNow) >= Positions
    BY <1>3 DEF Fulfils, JoinedCount, JoinedNow
  <2>2. c \notin JoinedNow
    BY DEF MayMove, JoinedNow, Terminal
  <2>3. /\ IsFiniteSet(JoinedNow) /\ Cardinality(JoinedNow) \in Nat
    BY MoreJoined DEF JoinedNow
  <2>4. Cardinality(JoinedNow \cup {c}) = Cardinality(JoinedNow) + 1
    BY <2>2, <2>3, FS_AddElement
  <2>5. /\ Cardinality(JoinedNow \cup {c}) <= Cardinality(joined \cup {c})
        /\ Cardinality(joined \cup {c}) \in Nat
    <3>1. /\ JoinedNow \cup {c} \subseteq joined \cup {c}
          /\ joined \cup {c} \in SUBSET Candidates
          /\ JoinedNow \cup {c} \in SUBSET Candidates
      BY DEF EInv, JoinedNow, TInv, TypeOK
    <3> QED BY <3>1, MoreJoined
  <2> QED BY <2>1, <2>3, <2>4, <2>5, PipelineAssumption
<1> HIDE DEF m
<1> QED BY <1>1, <1>2, <1>3 DEF Earned, m

LEMMA WriteEarned ==
    ASSUME TInv, EInv, NEW m \in Flights, m.kind = "move", WriteMove(m),
           Earned(m, joined), flight' \in {flight, Idle}
    PROVE  EInv'
<1>1. m.cand \in Candidates /\ m.to \in Stages /\ m.fulfils \subseteq Reqs
  BY DEF Flights
<1>2. /\ joined \subseteq joined' /\ joined' \subseteq Candidates
      /\ (m.to = "Joined" => joined' = joined \cup {m.cand})
      /\ reviewed' = reviewed /\ app' = app
  BY <1>1 DEF WriteMove, TInv, TypeOK
<1>3. /\ Cardinality(joined) <= Cardinality(joined')
      /\ Cardinality(joined) \in Nat /\ Cardinality(joined') \in Nat
  BY <1>2, MoreJoined DEF TInv, TypeOK
<1>4. \A r \in Reqs : req'[r] = IF r \in m.fulfils THEN "Fulfilled" ELSE req[r]
  BY DEF WriteMove
<1>5. FulfilledWasEarned'
  <2> SUFFICES ASSUME NEW r \in Reqs
               PROVE  /\ Received(r)' # {} \/ req'[r] = "Fulfilled" => r \in reviewed'
                      /\ req'[r] = "Fulfilled" =>
                            Earlier + Cardinality(joined') > Positions
    BY DEF FulfilledWasEarned
  <2>1. Received(r)' = Received(r)
    BY <1>2 DEF Received
  <2>2. CASE r \in m.fulfils
    BY <1>2, <2>2 DEF Earned
  <2>3. CASE r \notin m.fulfils
    BY <1>2, <1>3, <1>4, <2>1, <2>3, PipelineAssumption DEF EInv, FulfilledWasEarned
  <2> QED BY <2>2, <2>3
<1>6. \A r \in Reqs : req'[r] \in Sourcing => r \in reviewed'
  BY <1>2, <1>4 DEF EInv, Sourcing
<1>7. JoinedNow' \subseteq joined'
  BY <1>1, <1>2 DEF WriteMove, EInv, JoinedNow, TInv, TypeOK
<1>8. flight' # Idle /\ flight'.kind = "move" => Earned(flight', joined')
  <2> SUFFICES ASSUME flight' # Idle, flight'.kind = "move"
               PROVE  Earned(flight, joined')
    OBVIOUS
  <2>1. flight' = flight /\ Earned(flight, joined) /\ flight.cand \in Candidates
    BY DEF EInv, TInv, TypeOK, Flights
  <2>2. /\ joined \cup {flight.cand} \in SUBSET Candidates
        /\ joined' \cup {flight.cand} \in SUBSET Candidates
        /\ joined \cup {flight.cand} \subseteq joined' \cup {flight.cand}
    BY <1>2, <2>1
  <2>3. Cardinality(joined \cup {flight.cand})
            <= Cardinality(joined' \cup {flight.cand})
    BY <2>2, MoreJoined
  <2>4. /\ Cardinality(joined \cup {flight.cand}) \in Nat
        /\ Cardinality(joined' \cup {flight.cand}) \in Nat
    BY <2>2, MoreJoined
  <2> QED BY <2>1, <2>3, <2>4, PipelineAssumption DEF Earned
<1> QED BY <1>2, <1>5, <1>6, <1>7, <1>8 DEF EInv, Earned

\* What keeps EInv when no profile and no record of a join is touched.
LEMMA DeskEarns ==
    ASSUME TInv, EInv, UNCHANGED <<profile, flight, joined>>,
           reviewed \subseteq reviewed',
           \A r \in Reqs : \/ req'[r] = req[r]
                           \/ req'[r] \notin Sourcing \cup {"Fulfilled"}
                           \/ req'[r] \in Sourcing /\ r \in reviewed',
           \A r \in Reqs : Received(r)' # {} => r \in reviewed'
    PROVE  EInv'
<1>1. FulfilledWasEarned'
  <2> SUFFICES ASSUME NEW r \in Reqs, req'[r] = "Fulfilled"
               PROVE  r \in reviewed' /\ Earlier + Cardinality(joined') > Positions
    BY DEF FulfilledWasEarned, Received
  <2>1. req[r] = "Fulfilled"
    BY DEF Sourcing
  <2> QED BY <2>1 DEF EInv, FulfilledWasEarned
<1>2. \A r \in Reqs : req'[r] \in Sourcing => r \in reviewed'
  BY DEF EInv
<1>3. JoinedNow' \subseteq joined' /\ JoinedNow' = JoinedNow
  BY DEF EInv, JoinedNow
<1>4. (flight # Idle /\ flight.kind = "move" => Earned(flight, joined))'
  BY DEF EInv, Earned
<1> QED BY <1>1, <1>2, <1>3, <1>4 DEF EInv

LEMMA DeskEarnsStep == TInv /\ EInv /\ DeskStep => EInv'
<1> SUFFICES ASSUME TInv, EInv, DeskStep PROVE EInv'
  OBVIOUS
<1>1. ASSUME NEW r \in Reqs,
             \/ CreateRequirement(r) \/ SpawnRequirement(r) \/ SubmitRequirement(r)
             \/ SalesHeadDecides(r) \/ EngineeringApprove(r)
             \/ EngineeringReject(r) \/ EndRequirement(r) \/ AddJobPosting(r)
      PROVE  EInv'
  <2>1. /\ UNCHANGED <<app, profile, flight, joined>>
        /\ reviewed \subseteq reviewed'
        /\ \/ \E to \in ReqStatuses \ (Sourcing \cup {"Fulfilled"}) :
                req' = [req EXCEPT ![r] = to]
           \/ \E to \in Sourcing : req' = [req EXCEPT ![r] = to] /\ r \in reviewed'
    <3>1. CASE AddJobPosting(r)
      <4>1. r \in reviewed
        BY <3>1 DEF AddJobPosting, Advance, EInv, Sourcing
      <4> QED BY <3>1, <4>1 DEF AddJobPosting, Advance, Sourcing
    <3>2. CASE EngineeringApprove(r)
      BY <3>2 DEF EngineeringApprove, Advance, Sourcing
    <3>3. CASE \/ CreateRequirement(r) \/ SpawnRequirement(r)
               \/ SubmitRequirement(r) \/ SalesHeadDecides(r)
               \/ EngineeringReject(r) \/ EndRequirement(r)
      BY <3>3 DEF CreateRequirement, SpawnRequirement, SubmitRequirement,
         SalesHeadDecides, EngineeringReject, EndRequirement, Advance,
         ReqStatuses, Sourcing
    <3> QED BY <1>1, <3>1, <3>2, <3>3
  <2>2. \A s \in Reqs : Received(s)' # {} => s \in reviewed'
    BY <2>1 DEF Received, EInv, FulfilledWasEarned
  <2>3. \A s \in Reqs : \/ req'[s] = req[s]
                        \/ req'[s] \notin Sourcing \cup {"Fulfilled"}
                        \/ req'[s] \in Sourcing /\ s \in reviewed'
    BY <2>1 DEF TInv, TypeOK
  <2> QED BY <2>1, <2>2, <2>3, DeskEarns
<1>2. ASSUME NEW r \in Reqs, NEW c \in Candidates,
             UploadResume(r, c) \/ SubmitApplication(r, c) \/ ApplyCandidate(r, c)
      PROVE  EInv'
  <2>1. PICK row, starts : Receive(r, c, row, starts)
    BY <1>2 DEF UploadResume, SubmitApplication, ApplyCandidate
  <2>2. r \in reviewed
    BY <2>1 DEF Receive, Sourceable, EInv
  <2>3. \A s \in Reqs \ {r} : Received(s)' = Received(s)
    BY <2>1 DEF Receive, Received, TInv, TypeOK
  <2>4. /\ UNCHANGED <<profile, flight, joined, reviewed>>
        /\ \A s \in Reqs : \/ req'[s] = req[s]
                           \/ req'[s] \in Sourcing /\ s \in reviewed'
    BY <2>1, <2>2 DEF Receive, history, Sourcing, TInv, TypeOK
  <2>5. \A s \in Reqs : Received(s)' # {} => s \in reviewed'
    BY <2>2, <2>3, <2>4 DEF EInv, FulfilledWasEarned
  <2> QED BY <2>4, <2>5, DeskEarns
<1>3. ASSUME NEW r \in Reqs, NEW c \in Candidates,
             \/ ScanResume(r, c) \/ ShortlistResume(r, c) \/ RejectResume(r, c)
             \/ DeleteResume(r, c)
      PROVE  EInv'
  <2>1. PICK row : Decide(r, c, row)
    BY <1>3 DEF ScanResume, ShortlistResume, RejectResume, DeleteResume
  <2>2. \A s \in Reqs : Received(s)' # {} => Received(s) # {}
    BY <2>1 DEF Decide, Received, TInv, TypeOK
  <2>3. UNCHANGED <<req, profile, flight, joined, reviewed>>
    BY <2>1 DEF Decide, history
  <2>4. \A s \in Reqs : Received(s)' # {} => s \in reviewed'
    BY <2>2, <2>3 DEF EInv, FulfilledWasEarned
  <2> QED BY <2>3, <2>4, DeskEarns
<1> QED BY <1>1, <1>2, <1>3 DEF DeskStep

\* What keeps EInv when only profiles, none of which joins, and the flight change.
LEMMA ProfileEarns ==
    ASSUME TInv, EInv, UNCHANGED <<req, app, reviewed, joined>>,
           \A c \in Candidates : profile'[c] = "Joined" => profile[c] = "Joined",
           \/ flight' \in {flight, Idle}
           \/ flight'.kind = "move" => Earned(flight', joined)
    PROVE  EInv'
<1>1. FulfilledWasEarned'
  BY DEF EInv, FulfilledWasEarned, Received
<1>2. \A r \in Reqs : req'[r] \in Sourcing => r \in reviewed'
  BY DEF EInv
<1>3. JoinedNow' \subseteq joined'
  BY DEF EInv, JoinedNow
<1>4. (flight # Idle /\ flight.kind = "move" => Earned(flight, joined))'
  <2>1. flight' # Idle /\ flight'.kind = "move" => Earned(flight', joined)
    BY DEF EInv
  <2> QED BY <2>1 DEF Earned
<1> QED BY <1>1, <1>2, <1>3, <1>4 DEF EInv

LEMMA EarnStep == TInv /\ EInv /\ [Next]_vars => EInv'
<1> SUFFICES ASSUME TInv, EInv, [Next]_vars PROVE EInv'
  OBVIOUS
<1>1. CASE DeskStep
  BY <1>1, DeskEarnsStep
<1>2. ASSUME NEW i \in Interviews, NEW c \in Candidates,
             \/ \E r \in Reqs : ScheduleFromResume(r, i, c)
             \/ TriggerInterview(i, c) \/ LinkSchedule(i, c)
      PROVE  EInv'
  <2>1. Schedule(i, c)
    BY <1>2 DEF ScheduleFromResume, TriggerInterview, LinkSchedule
  <2>2. \/ UNCHANGED profile
        \/ profile' = [profile EXCEPT ![c] = "Technical_Screening"]
    BY <1>2 DEF ScheduleFromResume, TriggerInterview, LinkSchedule, TInv, TypeOK
  <2> QED BY <2>1, <2>2, ProfileEarns DEF Schedule, history, TInv, TypeOK
<1>3. ASSUME NEW c \in Candidates,
             CreateProfile(c) \/ HealProfile(c) \/ CreateOffer(c)
      PROVE  EInv'
  BY <1>3, ProfileEarns DEF CreateProfile, HealProfile, CreateOffer, history,
     TInv, TypeOK
<1>4. ASSUME NEW c \in Candidates, DeleteProfile(c) PROVE EInv'
  <2>1. /\ UNCHANGED <<req, app, reviewed, joined>>
        /\ profile' = [profile EXCEPT ![c] = NoRow]
        /\ flight' \in {flight, Idle}
    BY <1>4 DEF DeleteProfile, DeleteProfileOnly
  <2>2. NoRow # "Joined"
    BY PipelineAssumption DEF Stages, Terminal
  <2>3. \A d \in Candidates : profile'[d] = "Joined" => profile[d] = "Joined"
    BY <2>1, <2>2 DEF TInv, TypeOK
  <2> QED BY <2>1, <2>3, ProfileEarns
<1>5. ASSUME NEW c \in Candidates, Move(c) PROVE EInv'
  <2>1. PICK to \in Targets, offer \in BOOLEAN :
            MayMove(c, to, offer) /\ WriteMove(Transition(c, to, offer))
    BY <1>5 DEF Move
  <2>2. Transition(c, to, offer).kind = "move"
    BY DEF Transition
  <2> QED BY <1>5, <2>1, <2>2, MoveType, ReadEarned, WriteEarned DEF Move
<1>6. ASSUME NEW c \in Candidates, ReadMove(c) PROVE EInv'
  <2>1. PICK to \in Targets, offer \in BOOLEAN :
            MayMove(c, to, offer) /\ flight' = Transition(c, to, offer)
    BY <1>6 DEF ReadMove
  <2>2. Earned(flight', joined)
    BY <2>1, ReadEarned
  <2> QED BY <1>6, <2>2, ProfileEarns DEF ReadMove, history
<1>7. CASE CommitMove
  <2>1. flight \in Flights /\ flight.kind = "move" /\ WriteMove(flight)
        /\ flight' = Idle /\ Earned(flight, joined)
    BY <1>7 DEF CommitMove, EInv, TInv, TypeOK
  <2> QED BY <2>1, WriteEarned
<1>8. ASSUME NEW i \in Interviews,
             CancelInterview(i) \/ StartInterview(i) \/ PersistReport(i)
      PROVE  EInv'
  <2>1. UNCHANGED <<req, app, profile, reviewed, joined>>
        /\ flight' \in {flight, Idle}
    BY <1>8 DEF CancelInterview, StartInterview, PersistReport, history
  <2> QED BY <2>1, ProfileEarns
<1>9. ASSUME NEW s, WriteSync(s), flight' \in {flight, Idle} PROVE EInv'
  <2>1. /\ UNCHANGED <<req, app, reviewed, joined>>
        /\ profile' \in {profile, [profile EXCEPT ![s.cand] = "RMG_Review"]}
    BY <1>9 DEF WriteSync, history
  <2>2. \A d \in Candidates : profile'[d] = "Joined" => profile[d] = "Joined"
    BY <2>1 DEF TInv, TypeOK
  <2> QED BY <1>9, <2>1, <2>2, ProfileEarns
<1>10. ASSUME NEW i \in Interviews, SyncInterview(i) PROVE EInv'
  BY <1>9, <1>10 DEF SyncInterview
<1>11. ASSUME NEW i \in Interviews, ReadSync(i) PROVE EInv'
  <2>1. PICK rep \in Report : flight' = Sync(i, rep)
    BY <1>11 DEF ReadSync
  <2>2. flight'.kind # "move"
    BY <2>1 DEF Sync
  <2> QED BY <1>11, <2>2, ProfileEarns DEF ReadSync, history
<1>12. CASE CommitSync
  BY <1>9, <1>12 DEF CommitSync
<1>13. CASE LoseFlight
  BY <1>13, ProfileEarns DEF LoseFlight, history
<1>14. CASE UNCHANGED vars
  BY <1>14, ProfileEarns DEF vars
<1> QED BY <1>1, <1>2, <1>3, <1>4, <1>5, <1>6, <1>7, <1>8, <1>10, <1>11,
           <1>12, <1>13, <1>14 DEF Next, DeskStep

\* A requirement is Fulfilled only after RMG's approval and by a candidate who
\* joined when as many as it has positions had joined before.
THEOREM FulfilmentEarned == Spec => []FulfilledWasEarned
<1>1. Init => EInv
  <2> SUFFICES ASSUME Init PROVE EInv
    OBVIOUS
  <2>1. NoRow \notin ReqStatuses /\ NoRow \notin Stages
    BY PipelineAssumption
  <2>2. \A r \in Reqs : Received(r) = {} /\ req[r] # "Fulfilled"
                          /\ req[r] \notin Sourcing
    BY <2>1 DEF Init, Received, ReqStatuses, Sourcing
  <2>3. JoinedNow = {}
    BY <2>1 DEF Init, JoinedNow, Stages, Terminal
  <2>4. flight = Idle
    BY DEF Init
  <2> QED BY <2>2, <2>3, <2>4 DEF EInv, FulfilledWasEarned
<1>2. Spec => [](TInv /\ EInv)
  BY <1>1, TInvInit, TInvStep, EarnStep, PTL DEF Spec
<1>3. TInv /\ EInv => FulfilledWasEarned
  BY DEF EInv
<1> QED BY <1>2, <1>3, PTL
=============================================================================
