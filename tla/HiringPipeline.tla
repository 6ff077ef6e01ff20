--------------------------- MODULE HiringPipeline ---------------------------
(***************************************************************************)
(* The hiring pipeline of one opportunity: its requirements, the           *)
(* applications to them, the candidates' profiles and the AI L1 interviews *)
(* whose results a background thread writes back into the CRM.             *)
(*                                                                         *)
(* The CRM opens its sessions with autoflush off and no row has a version: *)
(* a request sees what was committed when it read, and its UPDATE wins     *)
(* over whatever was committed since.  One transaction at a time may be    *)
(* stopped between its reads and its commit (variable flight) while others *)
(* run to their end, which gives every interleaving of two transactions.   *)
(***************************************************************************)
EXTENDS Integers, FiniteSets

CONSTANTS
    Reqs,       \* requirements of the opportunity
    Candidates,
    Interviews, \* invite tokens of AI interviews
    Positions,  \* no_of_positions of a requirement
    Targets,    \* bound: the stages requests ask for
    Earlier,    \* profiles of the opportunity that joined before
    NoRow,      \* no such row
    Idle        \* no transaction in flight

VARIABLES
    req,        \* status of a requirement
    app,        \* the application of a candidate to a requirement
    profile,    \* pipeline_status of a candidate's profile
    offers,     \* candidates whose profile has an offer on record
    link,       \* the AiInterviewLink of a token and the reports behind it
    flight,     \* the transaction that has read and not yet committed
    reviewed,   \* history: requirements RMG has approved
    joined,     \* history: candidates who have ever joined
    merit       \* history: candidates whose profile has a passing report
                \* or was handed to RMG by TA

vars == <<req, app, profile, offers, link, flight, reviewed, joined, merit>>
history == <<reviewed, joined, merit>>

ReqStatuses ==
    {"Draft", "Pending_Sales_Head_Approval", "Sales_Head_Rejected",
     "Pending_Engineering_Review", "Engineering_Rejected",
     "Open_For_Sourcing", "Posted_On_Portals", "In_Progress",
     "Fulfilled", "Closed", "Cancelled"}
Editable == {"Draft", "Sales_Head_Rejected", "Engineering_Rejected"}
Sourcing == {"Open_For_Sourcing", "Posted_On_Portals", "In_Progress"}
Over == {"Fulfilled", "Closed", "Cancelled"}

Terminal == {"Joined", "Sales_Rejected", "RMG_Rejected", "Customer_Rejected",
             "Self_Withdrawn", "Rejected"}
Stages == Terminal \cup
    {"Sourcing", "Technical_Screening", "RMG_Review", "Sales_Screening",
     "Customer_Screening", "Customer_Interview", "L1_Feedback",
     "L2_Feedback", "Shortlisted", "Customer_Approval", "Preboarding"}

\* The AI's verdict: an instant fallback report, later one by the model.
Report == [by : {"fallback", "ai"}, passed : BOOLEAN]
NoReport == [by |-> "nobody", passed |-> FALSE]

Applications ==
    [ats : {"Pending_Scan", "Scored", "Shortlisted", "Rejected"},
     scored : BOOLEAN]
Links ==
    [cand : Candidates, started : BOOLEAN, reports : SUBSET Report,
     synced : Report \cup {NoReport}]

\* What a transaction that has read its rows is going to write.
Flights ==
    [kind : {"move"}, cand : Candidates, to : Stages, offer : BOOLEAN,
     fulfils : SUBSET Reqs]
    \cup [kind : {"sync"}, cand : Candidates, interview : Interviews,
          report : Report, forward : BOOLEAN]

ASSUME PipelineAssumption ==
    /\ Positions \in Nat \ {0} /\ Earlier \in Nat
    /\ Targets \subseteq Stages
    /\ NoRow \notin ReqStatuses \cup Stages /\ NoRow \notin Applications
    /\ NoRow \notin Links /\ Idle \notin Flights
    /\ IsFiniteSet(Candidates)

Init ==
    /\ req = [r \in Reqs |-> NoRow]
    /\ app = [r \in Reqs |-> [c \in Candidates |-> NoRow]]
    /\ profile = [c \in Candidates |-> NoRow]
    /\ offers = {}
    /\ link = [i \in Interviews |-> NoRow]
    /\ flight = Idle
    /\ reviewed = {} /\ joined = {} /\ merit = {}

(***************************************************************************)
(* Requirements (routers/crm/requirements.py).                             *)
(***************************************************************************)
Advance(r, from, to) ==
    /\ req[r] \in from
    /\ req' = [req EXCEPT ![r] = to]
    /\ UNCHANGED <<app, profile, offers, link, flight, joined, merit>>

CreateRequirement(r) == Advance(r, {NoRow}, "Draft") /\ UNCHANGED reviewed

\* approve_opportunity: the requirement skips Sales Head, who just approved.
SpawnRequirement(r) ==
    /\ \A other \in Reqs : req[other] = NoRow
    /\ Advance(r, {NoRow}, "Pending_Engineering_Review")
    /\ UNCHANGED reviewed

SubmitRequirement(r) ==
    Advance(r, Editable, "Pending_Sales_Head_Approval") /\ UNCHANGED reviewed

SalesHeadDecides(r) ==
    /\ \E to \in {"Pending_Engineering_Review", "Sales_Head_Rejected"} :
           Advance(r, {"Pending_Sales_Head_Approval"}, to)
    /\ UNCHANGED reviewed

EngineeringApprove(r) ==
    /\ Advance(r, {"Pending_Engineering_Review"}, "Open_For_Sourcing")
    /\ reviewed' = reviewed \cup {r}

EngineeringReject(r) ==
    /\ Advance(r, {"Pending_Engineering_Review"}, "Engineering_Rejected")
    /\ UNCHANGED reviewed

\* _manual_terminal: from any status that is not already terminal.
EndRequirement(r) ==
    /\ \E to \in {"Closed", "Cancelled"} : Advance(r, ReqStatuses \ Over, to)
    /\ UNCHANGED reviewed

AddJobPosting(r) ==
    /\ Advance(r, {"Open_For_Sourcing"}, "Posted_On_Portals")
    /\ UNCHANGED reviewed

(***************************************************************************)
(* Applications (routers/crm/resumes.py, apply.py and candidates.py), one  *)
(* per candidate and requirement.                                          *)
(***************************************************************************)
Sourceable(r) == req[r] \in Sourcing

Received(r) == {c \in Candidates : app[r][c] # NoRow}

\* A new resume, and whether it is the one that starts the work.
Receive(r, c, row, starts) ==
    /\ Sourceable(r) /\ app[r][c] = NoRow
    /\ app' = [app EXCEPT ![r][c] = row]
    /\ req' = [req EXCEPT ![r] =
                 IF req[r] = "Posted_On_Portals" /\ starts THEN "In_Progress"
                 ELSE req[r]]
    /\ UNCHANGED <<profile, offers, link, flight, history>>

Pending == [ats |-> "Pending_Scan", scored |-> FALSE]
Scored(status) == [ats |-> status, scored |-> TRUE]

UploadResume(r, c) == Receive(r, c, Pending, Received(r) = {})

\* submit_application counts after the insert, so no application is the first.
SubmitApplication(r, c) == Receive(r, c, Pending, FALSE)

\* TA's fast track scans at once; a scan that fails leaves the row pending.
ApplyCandidate(r, c) ==
    \E row \in {Pending, Scored("Scored")} : Receive(r, c, row, TRUE)

Decide(r, c, row) ==
    /\ app[r][c] # NoRow
    /\ app' = [app EXCEPT ![r][c] = row]
    /\ UNCHANGED <<req, profile, offers, link, flight, history>>

\* ats_scan and its threshold hook, on a row of any status.
ScanResume(r, c) ==
    \E status \in {"Scored", "Shortlisted"} : Decide(r, c, Scored(status))

ShortlistResume(r, c) ==
    /\ app[r][c] # NoRow /\ app[r][c].scored
    /\ Decide(r, c, Scored("Shortlisted"))

RejectResume(r, c) ==
    /\ app[r][c] # NoRow
    /\ Decide(r, c, [app[r][c] EXCEPT !.ats = "Rejected"])

DeleteResume(r, c) == Decide(r, c, NoRow)

(***************************************************************************)
(* Profiles: services/candidate_profiles.py and its router.                *)
(***************************************************************************)
Forward == {<<"Sourcing", "Technical_Screening">>,
            <<"Technical_Screening", "RMG_Review">>,
            <<"RMG_Review", "Sales_Screening">>,
            <<"Sales_Screening", "Customer_Screening">>,
            <<"Customer_Screening", "Customer_Interview">>,
            <<"Customer_Interview", "L1_Feedback">>,
            <<"L1_Feedback", "L2_Feedback">>, <<"L1_Feedback", "Shortlisted">>,
            <<"L2_Feedback", "Shortlisted">>,
            <<"Shortlisted", "Customer_Approval">>,
            <<"Customer_Approval", "Preboarding">>,
            <<"Preboarding", "Joined">>}

Back == {<<"Customer_Screening", "Sales_Screening">>,
         <<"Customer_Interview", "Customer_Screening">>,
         <<"L1_Feedback", "Customer_Interview">>,
         <<"L2_Feedback", "L1_Feedback">>}

SeenByCustomer == {"Customer_Screening", "Customer_Interview", "L1_Feedback",
                   "L2_Feedback", "Shortlisted", "Customer_Approval"}
Drop == {<<"RMG_Review", "RMG_Rejected">>,
         <<"Sales_Screening", "Sales_Rejected">>,
         <<"Customer_Screening", "Sales_Rejected">>}
        \cup (SeenByCustomer \X {"Customer_Rejected"})

\* Customer_Screening's list has no generic exits.
TransitionMap ==
    [from \in Stages \ Terminal |->
        {to \in Stages : <<from, to>> \in Forward \cup Back \cup Drop}
          \cup (IF from = "Customer_Screening" THEN {}
                ELSE {"Self_Withdrawn", "Rejected"})]

\* Mutant: no entry requirement.
EntryUnchecked(c, to, offer) == TRUE
\* _check_entry_requirement, the offer sent with the move included.
EntryMet(c, to, offer) == to # "Customer_Approval" \/ offer \/ c \in offers

\* The count of check_and_mark_fulfilled: without autoflush it does not see
\* the Joined its own request has just set.
JoinedCount == Earlier + Cardinality({c \in Candidates : profile[c] = "Joined"})

\* Mutant: whatever the requirement's status.
FulfilsAnyStatus(to) ==
    {r \in Reqs : to = "Joined" /\ JoinedCount >= Positions}
Fulfils(to) ==
    {r \in Reqs : to = "Joined" /\ req[r] = "In_Progress"
                    /\ JoinedCount >= Positions}

\* status_transition up to its commit: all it checked, and what it will write.
Transition(c, to, offer) ==
    [kind |-> "move", cand |-> c, to |-> to, offer |-> offer,
     fulfils |-> Fulfils(to)]

MayMove(c, to, offer) ==
    /\ profile[c] \in Stages \ Terminal
    /\ to \in TransitionMap[profile[c]]
    /\ offer => to = "Customer_Approval"
    /\ EntryMet(c, to, offer)

WriteMove(m) ==
    /\ profile' = [profile EXCEPT ![m.cand] = m.to]
    /\ offers' = IF m.offer THEN offers \cup {m.cand} ELSE offers
    /\ req' = [r \in Reqs |-> IF r \in m.fulfils THEN "Fulfilled" ELSE req[r]]
    /\ joined' = IF m.to = "Joined" THEN joined \cup {m.cand} ELSE joined
    /\ merit' = IF m.to = "RMG_Review" THEN merit \cup {m.cand} ELSE merit
    /\ UNCHANGED <<app, link, reviewed>>

Move(c) ==
    /\ \E to \in Targets, offer \in BOOLEAN :
           MayMove(c, to, offer) /\ WriteMove(Transition(c, to, offer))
    /\ UNCHANGED flight

ReadMove(c) ==
    /\ flight = Idle
    /\ \E to \in Targets, offer \in BOOLEAN :
           MayMove(c, to, offer) /\ flight' = Transition(c, to, offer)
    /\ UNCHANGED <<req, app, profile, offers, link, history>>

CommitMove ==
    /\ flight # Idle /\ flight.kind = "move"
    /\ WriteMove(flight)
    /\ flight' = Idle

CreateProfile(c) ==
    /\ profile[c] = NoRow
    /\ profile' = [profile EXCEPT ![c] = "Sourcing"]
    /\ UNCHANGED <<req, app, offers, link, flight, history>>

CreateOffer(c) ==
    /\ profile[c] # NoRow
    /\ offers' = offers \cup {c}
    /\ UNCHANGED <<req, app, profile, link, flight, history>>

\* Links go with the profile, offers by the foreign key; a transaction that
\* has read the rows finds nothing to update and fails.
DeleteProfileOnly(c, links) ==
    /\ profile[c] # NoRow
    /\ profile' = [profile EXCEPT ![c] = NoRow]
    /\ offers' = offers \ {c}
    /\ link' = links
    /\ flight' = IF flight # Idle /\ flight.cand = c THEN Idle ELSE flight
    /\ merit' = merit \ {c}
    /\ UNCHANGED <<req, app, reviewed, joined>>

\* Mutant: the loop over the profile's links is missing.
DeleteProfileKeepsLinks(c) == DeleteProfileOnly(c, link)
DeleteProfile(c) ==
    DeleteProfileOnly(c, [i \in Interviews |->
        IF link[i] # NoRow /\ link[i].cand = c THEN NoRow ELSE link[i]])

(***************************************************************************)
(* AI interviews (services/ai_interview_bridge.py and its callers).        *)
(***************************************************************************)
Linked(c) == {i \in Interviews : link[i] # NoRow /\ link[i].cand = c}

\* schedule_l1_interview.  A token that loses its link is scheduled again
\* under the same name: its interview, if it goes on, reaches nobody.
Schedule(i, c) ==
    /\ link[i] = NoRow
    /\ link' = [link EXCEPT ![i] = [cand |-> c, started |-> FALSE,
                                    reports |-> {}, synced |-> NoReport]]
    /\ UNCHANGED <<req, app, offers, flight, history>>

\* get_or_create_profile.
ScheduleFromResume(r, i, c) ==
    /\ app[r][c] # NoRow /\ app[r][c].ats = "Shortlisted"
    /\ profile' = [profile EXCEPT ![c] =
                     IF @ \in {NoRow, "Sourcing"} THEN "Technical_Screening"
                     ELSE @]
    /\ Schedule(i, c)

TriggerInterview(i, c) ==
    /\ profile[c] # NoRow
    /\ \A j \in Linked(c) : link[j].synced # NoReport
    /\ Schedule(i, c) /\ UNCHANGED profile

\* link_schedule_to_crm: HR's own scheduling page.
LinkSchedule(i, c) ==
    /\ profile' = [profile EXCEPT ![c] =
                     IF @ = NoRow THEN "Technical_Screening" ELSE @]
    /\ Schedule(i, c)

\* Mutant: only the result is looked at, not whether the candidate started.
CancellableStarted(i) == link[i].synced = NoReport
Cancellable(i) == link[i].synced = NoReport /\ ~link[i].started

CancelInterview(i) ==
    /\ link[i] # NoRow /\ Cancellable(i)
    /\ link' = [link EXCEPT ![i] = NoRow]
    /\ flight' = IF flight # Idle /\ flight.kind = "sync"
                      /\ flight.interview = i THEN Idle ELSE flight
    /\ UNCHANGED <<req, app, profile, offers, history>>

StartInterview(i) ==
    /\ link[i] # NoRow /\ ~link[i].started
    /\ link' = [link EXCEPT ![i].started = TRUE]
    /\ UNCHANGED <<req, app, profile, offers, flight, history>>

\* _persist_hr_record_mirror: every persist starts a sync thread, so a thread
\* with any report the record has held may run now or much later.
PersistReport(i) ==
    /\ link[i] # NoRow /\ link[i].started
    /\ \E rep \in Report :
        /\ \A old \in link[i].reports : old.by = "fallback" /\ rep.by = "ai"
        /\ link' = [link EXCEPT ![i].reports = @ \cup {rep}]
        /\ merit' = IF rep.passed THEN merit \cup {link[i].cand} ELSE merit
    /\ UNCHANGED <<req, app, profile, offers, flight, reviewed, joined>>

\* Mutants: from any stage, and on any verdict.
HandsOverAnyStage(c, rep) == rep.passed
HandsOverAnyVerdict(c, rep) == profile[c] = "Technical_Screening"
\* sync_completed_interview hands a passed profile over to RMG.
HandsOver(c, rep) == rep.passed /\ profile[c] = "Technical_Screening"

Sync(i, rep) ==
    [kind |-> "sync", cand |-> link[i].cand, interview |-> i, report |-> rep,
     forward |-> HandsOver(link[i].cand, rep)]

\* A report already synced with the same verdict is left alone.
MaySync(i, rep) == link[i] # NoRow /\ rep \in link[i].reports \ {link[i].synced}

WriteSync(s) ==
    /\ link' = [link EXCEPT ![s.interview].synced = s.report]
    /\ profile' = IF s.forward THEN [profile EXCEPT ![s.cand] = "RMG_Review"]
                  ELSE profile
    /\ UNCHANGED <<req, app, offers, history>>

SyncInterview(i) ==
    /\ \E rep \in Report : MaySync(i, rep) /\ WriteSync(Sync(i, rep))
    /\ UNCHANGED flight

ReadSync(i) ==
    /\ flight = Idle
    /\ \E rep \in Report : MaySync(i, rep) /\ flight' = Sync(i, rep)
    /\ UNCHANGED <<req, app, profile, offers, link, history>>

CommitSync ==
    /\ flight # Idle /\ flight.kind = "sync"
    /\ WriteSync(flight)
    /\ flight' = Idle

\* The request or the thread fails before its commit (the CRM is down).
LoseFlight ==
    /\ flight # Idle
    /\ flight' = Idle
    /\ UNCHANGED <<req, app, profile, offers, link, history>>

\* Opening a profile, or a list of resumes, moves a passed one to RMG.
HealProfile(c) ==
    /\ profile[c] = "Technical_Screening"
    /\ \E i \in Linked(c) : link[i].synced.passed
    /\ profile' = [profile EXCEPT ![c] = "RMG_Review"]
    /\ UNCHANGED <<req, app, offers, link, flight, history>>

Next ==
    \/ \E r \in Reqs :
        \/ CreateRequirement(r) \/ SpawnRequirement(r) \/ SubmitRequirement(r)
        \/ SalesHeadDecides(r) \/ EngineeringApprove(r)
        \/ EngineeringReject(r) \/ EndRequirement(r) \/ AddJobPosting(r)
    \/ \E r \in Reqs, c \in Candidates :
        \/ UploadResume(r, c) \/ SubmitApplication(r, c)
        \/ ApplyCandidate(r, c) \/ ScanResume(r, c) \/ ShortlistResume(r, c)
        \/ RejectResume(r, c) \/ DeleteResume(r, c)
        \/ \E i \in Interviews : ScheduleFromResume(r, i, c)
    \/ \E c \in Candidates :
        \/ CreateProfile(c) \/ CreateOffer(c) \/ DeleteProfile(c)
        \/ Move(c) \/ ReadMove(c) \/ HealProfile(c)
    \/ \E i \in Interviews, c \in Candidates :
        TriggerInterview(i, c) \/ LinkSchedule(i, c)
    \/ \E i \in Interviews :
        \/ CancelInterview(i) \/ StartInterview(i) \/ PersistReport(i)
        \/ SyncInterview(i) \/ ReadSync(i)
    \/ CommitMove \/ CommitSync \/ LoseFlight

Spec == Init /\ [][Next]_vars

-----------------------------------------------------------------------------
\* Types, and the rows that hang on a profile: no offer, interview link or
\* unfinished transaction outlives it (delete_profile).
TypeOK ==
    /\ req \in [Reqs -> ReqStatuses \cup {NoRow}]
    /\ app \in [Reqs -> [Candidates -> Applications \cup {NoRow}]]
    /\ profile \in [Candidates -> Stages \cup {NoRow}]
    /\ link \in [Interviews -> Links \cup {NoRow}]
    /\ flight \in Flights \cup {Idle}
    /\ reviewed \subseteq Reqs /\ joined \subseteq Candidates
    /\ merit \subseteq Candidates /\ offers \subseteq Candidates
    /\ \A c \in offers : profile[c] # NoRow
    /\ \A i \in Interviews : link[i] # NoRow => profile[link[i].cand] # NoRow
    /\ flight # Idle => profile[flight.cand] # NoRow

\* Sales Head is never asked to approve, and nobody is preboarded or joins,
\* without an offer on record, whatever requests overlap (ENTRY_REQUIREMENTS).
OfferBeforeApproval ==
    \A c \in Candidates :
        profile[c] \in {"Customer_Approval", "Preboarding", "Joined"}
          => c \in offers

\* A requirement that has an application or is Fulfilled was approved by RMG,
\* and it is Fulfilled only by a candidate who joined when as many as it has
\* positions had joined before (check_and_mark_fulfilled).
FulfilledWasEarned ==
    \A r \in Reqs :
        /\ Received(r) # {} \/ req[r] = "Fulfilled" => r \in reviewed
        /\ req[r] = "Fulfilled" => Earlier + Cardinality(joined) > Positions

\* A profile gets past the technical screening only by TA's own move or by a
\* passing report of an interview of this very profile: never by a failed
\* one, nor by one of a profile deleted since.
ForwardedOnMerit ==
    \A c \in Candidates :
        profile[c] \in Stages \ (Terminal \cup {"Sourcing",
                                               "Technical_Screening"})
          => c \in merit

\* A rejected, withdrawn or joined profile that no unfinished transaction has
\* read stays as it is or is deleted: no scheduling, sync or healing
\* revives it.
RejectedStaysOut ==
    [][\A c \in Candidates :
          profile[c] \in Terminal /\ (flight = Idle \/ flight.cand # c)
            => profile'[c] \in {profile[c], NoRow}]_vars

\* An interview that has begun keeps its link, and a verdict on it never goes
\* back to Pending, until the profile is deleted.
VerdictStays ==
    [][\A i \in Interviews :
          link[i] # NoRow /\ link[i].started
            => \/ /\ link'[i] # NoRow /\ link'[i].started
                  /\ link[i].synced # NoReport => link'[i].synced # NoReport
               \/ profile'[link[i].cand] = NoRow]_vars

\* The join that fills the last position of an In_Progress requirement marks
\* it Fulfilled (docstring of check_and_mark_fulfilled).
FilledIsFulfilled ==
    [][\A c \in Candidates, r \in Reqs :
          /\ profile[c] # "Joined" /\ profile'[c] = "Joined"
          /\ req[r] = "In_Progress" /\ JoinedCount' >= Positions
          => req'[r] = "Fulfilled"]_vars
=============================================================================
