----------------------------- MODULE SlotBooking -----------------------------
(***************************************************************************)
(* Interview slot booking: backend/routers/crm/slots.py and                *)
(* backend/services/slot_booking.py.                                       *)
(*                                                                         *)
(* A resume has one booking link.  A confirmation reads the booking without *)
(* a lock, locks the slot row until its commit, creates the AI interview   *)
(* in the interview platform's own connection (which commits at once), and *)
(* then writes the booking and the seat counter.                           *)
(***************************************************************************)
EXTENDS Integers, FiniteSets

CONSTANTS Slots,
          Resumes,      \* each names its booking too
          Clients,      \* concurrent confirmations
          Recruiters,   \* concurrent slot deletions
          Capacity,     \* seats of each slot
          Deletable,    \* resumes a recruiter may delete
          MaxSessions,  \* bound on AI interviews per resume
          NoSlot, NoResume

ASSUME ConstantsAssumption ==
    /\ IsFiniteSet(Resumes)
    /\ Capacity \in [Slots -> Nat \ {0}]
    /\ Deletable \subseteq Resumes
    /\ MaxSessions \in Nat
    /\ NoSlot \notin Slots /\ NoResume \notin Resumes

VARIABLES
    slot,      \* state and booked_count of each slot
    booking,   \* status and slot of each booking
    sessions,  \* AI interviews created in the interview platform
    links,     \* AiInterviewLink rows of the CRM
    confirm,   \* each client's confirmation in progress
    removal    \* the slot a recruiter is about to delete

vars == <<slot, booking, sessions, links, confirm, removal>>

SlotType == [state : {"none", "open", "past", "deleted"}, count : Nat]
BookingType == [status : {"None", "Pending", "Confirmed", "Gone"},
                slot : Slots \cup {NoSlot}]
Unbooked == [status |-> "None", slot |-> NoSlot]

\* count: booked_count as the session read it under the lock
ConfirmType == [phase : {"idle", "loaded", "locked", "scheduled"},
                b : Resumes \cup {NoResume}, s : Slots \cup {NoSlot},
                count : Nat]
Idle == [phase |-> "idle", b |-> NoResume, s |-> NoSlot, count |-> 0]

TypeOK ==
    /\ slot \in [Slots -> SlotType]
    /\ booking \in [Resumes -> BookingType]
    /\ sessions \in [Resumes -> Nat]
    /\ links \in [Resumes -> Nat]
    /\ confirm \in [Clients -> ConfirmType]
    /\ removal \in [Recruiters -> Slots \cup {NoSlot}]

Init ==
    /\ slot = [s \in Slots |-> [state |-> "none", count |-> 0]]
    /\ booking = [b \in Resumes |-> Unbooked]
    /\ sessions = [b \in Resumes |-> 0]
    /\ links = [b \in Resumes |-> 0]
    /\ confirm = [c \in Clients |-> Idle]
    /\ removal = [t \in Recruiters |-> NoSlot]

\* The row lock on s, from SELECT ... FOR UPDATE to the end of the transaction.
HoldsLock(c, s) == confirm[c].phase \in {"locked", "scheduled"} /\ confirm[c].s = s
Locked(s) == \E c \in Clients : HoldsLock(c, s)

\* A flushed AiInterviewLink keeps the resume from being deleted.
Pinned(b) == \E c \in Clients : confirm[c].phase = "scheduled" /\ confirm[c].b = b

Holders(s) == {b \in Resumes : booking[b].status = "Confirmed" /\ booking[b].slot = s}
----------------------------------------------------------------------------
(* The recruiters' side.                                                   *)

CreateSlot(s) ==
    /\ slot[s].state = "none"
    /\ slot' = [slot EXCEPT ![s] = [state |-> "open", count |-> 0]]
    /\ UNCHANGED <<booking, sessions, links, confirm, removal>>

\* slot_at passes.
SlotPasses(s) ==
    /\ slot[s].state = "open"
    /\ slot' = [slot EXCEPT ![s].state = "past"]
    /\ UNCHANGED <<booking, sessions, links, confirm, removal>>

\* send_slot_invite: one booking per resume, created once.
SendInvite(b) ==
    /\ booking[b].status = "None"
    /\ booking' = [booking EXCEPT ![b].status = "Pending"]
    /\ UNCHANGED <<slot, sessions, links, confirm, removal>>

\* delete_slot: the check for confirmed bookings, then the DELETE.
CheckRemoval(t, s) ==
    /\ removal[t] = NoSlot
    /\ slot[s].state \in {"open", "past"}
    /\ Holders(s) = {}
    /\ removal' = [removal EXCEPT ![t] = s]
    /\ UNCHANGED <<slot, booking, sessions, links, confirm>>

\* Mutant: no foreign key from the bookings to the slot.
ReferencedNever(s) == FALSE

\* slot_bookings.slot_id
Referenced(s) == \E b \in Resumes : booking[b].slot = s

\* The DELETE waits for the row lock and the foreign key may refuse it.
DeleteSlot(t) ==
    LET s == removal[t]
    IN /\ s # NoSlot /\ ~Locked(s)
       /\ slot' = IF Referenced(s) THEN slot
                  ELSE [slot EXCEPT ![s].state = "deleted"]
       /\ removal' = [removal EXCEPT ![t] = NoSlot]
       /\ UNCHANGED <<booking, sessions, links, confirm>>

\* Mutant: a link taken off whether there is one or not.
DeleteResumeUnlinksOne(b) ==
    /\ b \in Deletable /\ booking[b].status # "Gone" /\ ~Pinned(b)
    /\ booking' = [booking EXCEPT ![b] = [status |-> "Gone", slot |-> NoSlot]]
    /\ links' = [links EXCEPT ![b] = @ - 1]
    /\ UNCHANGED <<slot, sessions, confirm, removal>>

\* delete_resume removes the booking, confirmed or not, and unlinks the
\* interviews; the seat is not given back.
DeleteResume(b) ==
    /\ b \in Deletable /\ booking[b].status # "Gone" /\ ~Pinned(b)
    /\ booking' = [booking EXCEPT ![b] = [status |-> "Gone", slot |-> NoSlot]]
    /\ links' = [links EXCEPT ![b] = 0]
    /\ UNCHANGED <<slot, sessions, confirm, removal>>

\* schedule_ai_interview: a recruiter schedules without any slot.  The
\* platform's insert is committed even when the CRM's transaction is not.
ScheduleDirectly(b) ==
    /\ booking[b].status # "Gone" /\ sessions[b] < MaxSessions
    /\ sessions' = [sessions EXCEPT ![b] = @ + 1]
    /\ \/ links' = [links EXCEPT ![b] = @ + 1]
       \/ UNCHANGED links
    /\ UNCHANGED <<slot, booking, confirm, removal>>
----------------------------------------------------------------------------
(* confirm_booking.                                                        *)

\* The booking is read, without a lock; the candidate picked a slot.
Load(c, b, s) ==
    /\ confirm[c].phase = "idle"
    /\ booking[b].status = "Pending"
    /\ confirm' = [confirm EXCEPT ![c] =
                      [phase |-> "loaded", b |-> b, s |-> s, count |-> 0]]
    /\ UNCHANGED <<slot, booking, sessions, links, removal>>

\* Mutants: an off-by-one, and a slot row that is not locked.
HasSeatOffByOne(s) == slot[s].state = "open" /\ slot[s].count <= Capacity[s]
AvailableUnlocked(s) == TRUE

HasSeat(s) == slot[s].state = "open" /\ slot[s].count < Capacity[s]
Available(s) == ~Locked(s)

LockSlot(c) ==
    LET r == confirm[c]
    IN /\ r.phase = "loaded" /\ Available(r.s)
       /\ HasSeat(r.s) /\ booking[r.b].status # "Gone"
       /\ confirm' = [confirm EXCEPT ![c].phase = "locked",
                                     ![c].count = slot[r.s].count]
       /\ UNCHANGED <<slot, booking, sessions, links, removal>>

Release(c) == confirm' = [confirm EXCEPT ![c] = Idle]

\* No such slot, past, full, or the application is gone.
Refuse(c) ==
    LET r == confirm[c]
    IN /\ r.phase = "loaded" /\ Available(r.s)
       /\ ~HasSeat(r.s) \/ booking[r.b].status = "Gone"
       /\ Release(c)
       /\ UNCHANGED <<slot, booking, sessions, links, removal>>

\* schedule_l1_interview: the interview is committed by its own connection,
\* then the link to the resume is flushed, which fails if the resume is gone.
Schedule(c) ==
    LET r == confirm[c]
    IN /\ r.phase = "locked" /\ sessions[r.b] < MaxSessions
       /\ sessions' = [sessions EXCEPT ![r.b] = @ + 1]
       /\ confirm' = [confirm EXCEPT ![c] =
             IF booking[r.b].status = "Gone" THEN Idle
             ELSE [@ EXCEPT !.phase = "scheduled"]]
       /\ UNCHANGED <<slot, booking, links, removal>>

\* Mutant: a confirmation that does not link the interview.
CommitUnlinked(c) ==
    LET r == confirm[c]
    IN /\ r.phase = "scheduled"
       /\ booking' = [booking EXCEPT ![r.b] = [status |-> "Confirmed", slot |-> r.s]]
       /\ slot' = [slot EXCEPT ![r.s].count = r.count + 1]
       /\ Release(c)
       /\ UNCHANGED <<sessions, links, removal>>

Commit(c) ==
    LET r == confirm[c]
    IN /\ r.phase = "scheduled"
       /\ booking' = [booking EXCEPT ![r.b] = [status |-> "Confirmed", slot |-> r.s]]
       /\ slot' = [slot EXCEPT ![r.s].count = r.count + 1]
       /\ links' = [links EXCEPT ![r.b] = @ + 1]
       /\ Release(c)
       /\ UNCHANGED <<sessions, removal>>

\* The platform refuses (502), the process dies or the commit fails: the
\* transaction and its lock are gone, an interview already created stays.
Abort(c) ==
    /\ confirm[c].phase \in {"locked", "scheduled"}
    /\ Release(c)
    /\ UNCHANGED <<slot, booking, sessions, links, removal>>
----------------------------------------------------------------------------
Next ==
    \/ \E s \in Slots : CreateSlot(s) \/ SlotPasses(s)
    \/ \E b \in Resumes : SendInvite(b) \/ DeleteResume(b) \/ ScheduleDirectly(b)
    \/ \E t \in Recruiters : DeleteSlot(t) \/ \E s \in Slots : CheckRemoval(t, s)
    \/ \E c \in Clients : \/ \E b \in Resumes, s \in Slots : Load(c, b, s)
                          \/ LockSlot(c) \/ Refuse(c) \/ Schedule(c)
                          \/ Commit(c) \/ Abort(c)

Spec == Init /\ [][Next]_vars
----------------------------------------------------------------------------
(* Properties.                                                             *)

\* A slot is never oversold: the confirmed bookings fit the seats counted, and
\* those the capacity (slots.py:358, "so two candidates can't take the last
\* seat concurrently").
NeverOversold ==
    \A s \in Slots : /\ Cardinality(Holders(s)) <= slot[s].count
                     /\ slot[s].count <= Capacity[s]

\* The slot of a confirmed booking is not deleted under it (slots.py:170-172).
ConfirmedSlotExists ==
    \A b \in Resumes : booking[b].status = "Confirmed" =>
        /\ booking[b].slot \in Slots
        /\ slot[booking[b].slot].state \in {"open", "past"}

\* A confirmed booking has its AI interview, and no CRM link lacks one.
ConfirmedHasInterview ==
    \A b \in Resumes : /\ booking[b].status = "Confirmed" => links[b] > 0
                       /\ links[b] <= sessions[b]

\* What the candidates were promised, seat by seat.
Seats == INSTANCE SeatAllocation WITH
            left <- [s \in Slots |-> Capacity[s] - slot[s].count],
            closed <- {s \in Slots : slot[s].state = "deleted"},
            held <- [b \in Resumes |-> IF booking[b].status = "Confirmed"
                                       THEN booking[b].slot ELSE NoSlot]
SeatsAllocated == Seats!Spec
============================================================================
