-------------------------- MODULE SlotBookingProof --------------------------
(* Slot booking implements SeatAllocation, for any number of slots, seats,  *)
(* candidates and concurrent confirmations.                                 *)
EXTENDS SlotBooking, FiniteSetTheorems, TLAPS

InTransaction(c) == confirm[c].phase \in {"locked", "scheduled"}

\* A confirmation in progress names a booking and a slot; the row it locked is
\* nobody else's, still exists, and still has the seat it saw.
LockInv ==
    /\ \A c \in Clients : confirm[c].phase # "idle" =>
          confirm[c].b \in Resumes /\ confirm[c].s \in Slots
    /\ \A c \in Clients : InTransaction(c) =>
          /\ slot[confirm[c].s].state \in {"open", "past"}
          /\ slot[confirm[c].s].count = confirm[c].count
          /\ confirm[c].count < Capacity[confirm[c].s]
    /\ \A c, d \in Clients :
          InTransaction(c) /\ InTransaction(d) /\ confirm[c].s = confirm[d].s
          => c = d

SlotInv ==
    \A s \in Slots : /\ slot[s].count <= Capacity[s]
                     /\ slot[s].state = "none" => slot[s].count = 0

IInv == TypeOK /\ LockInv /\ SlotInv /\ ConfirmedSlotExists

LEMMA InitIInv == Init => IInv
<1> SUFFICES ASSUME Init PROVE IInv
  OBVIOUS
<1>1. TypeOK
  BY ConstantsAssumption DEF Init, TypeOK, SlotType, BookingType, Unbooked,
     ConfirmType, Idle
<1>2. LockInv
  BY DEF Init, LockInv, InTransaction, Idle
<1>3. SlotInv /\ ConfirmedSlotExists
  BY ConstantsAssumption DEF Init, SlotInv, ConfirmedSlotExists, Unbooked
<1> QED BY <1>1, <1>2, <1>3 DEF IInv

\* The recruiters' steps.
LEMMA RecruiterSteps ==
    ASSUME IInv,
           \/ \E s \in Slots : CreateSlot(s) \/ SlotPasses(s)
           \/ \E b \in Resumes : SendInvite(b) \/ DeleteResume(b) \/ ScheduleDirectly(b)
           \/ \E t \in Recruiters : DeleteSlot(t) \/ \E s \in Slots : CheckRemoval(t, s)
    PROVE  IInv'
<1>1. ASSUME NEW s \in Slots, CreateSlot(s) PROVE IInv'
  <2>1. TypeOK'
    BY <1>1 DEF CreateSlot, IInv, TypeOK, SlotType
  <2>2. \A c \in Clients : InTransaction(c) => confirm[c].s # s
    BY <1>1 DEF CreateSlot, IInv, LockInv
  <2>3. LockInv'
    BY <1>1, <2>2 DEF CreateSlot, IInv, TypeOK, LockInv, InTransaction
  <2>4. SlotInv'
    BY <1>1, ConstantsAssumption DEF CreateSlot, IInv, TypeOK, SlotInv
  <2>5. ConfirmedSlotExists'
    BY <1>1 DEF CreateSlot, IInv, TypeOK, ConfirmedSlotExists
  <2> QED BY <2>1, <2>3, <2>4, <2>5 DEF IInv
<1>2. ASSUME NEW s \in Slots, SlotPasses(s) PROVE IInv'
  <2>1. TypeOK'
    BY <1>2 DEF SlotPasses, IInv, TypeOK, SlotType
  <2>2. LockInv'
    BY <1>2 DEF SlotPasses, IInv, TypeOK, SlotType, LockInv, InTransaction
  <2>3. SlotInv' /\ ConfirmedSlotExists'
    BY <1>2 DEF SlotPasses, IInv, TypeOK, SlotType, SlotInv, ConfirmedSlotExists
  <2> QED BY <2>1, <2>2, <2>3 DEF IInv
<1>3. ASSUME NEW b \in Resumes, SendInvite(b) PROVE IInv'
  BY <1>3 DEF SendInvite, IInv, TypeOK, BookingType, LockInv, InTransaction,
     SlotInv, ConfirmedSlotExists
<1>4. ASSUME NEW b \in Resumes, DeleteResume(b) PROVE IInv'
  BY <1>4 DEF DeleteResume, IInv, TypeOK, BookingType, LockInv, InTransaction,
     SlotInv, ConfirmedSlotExists
<1>5. ASSUME NEW b \in Resumes, ScheduleDirectly(b) PROVE IInv'
  BY <1>5 DEF ScheduleDirectly, IInv, TypeOK, LockInv, InTransaction, SlotInv,
     ConfirmedSlotExists
<1>6. ASSUME NEW t \in Recruiters, DeleteSlot(t) PROVE IInv'
  <2> DEFINE s == removal[t]
  <2>0. s \in Slots
    BY <1>6 DEF DeleteSlot, IInv, TypeOK
  <2>1. TypeOK'
    BY <1>6, <2>0 DEF DeleteSlot, IInv, TypeOK, SlotType
  <2>2. \A c \in Clients : InTransaction(c) => confirm[c].s # s
    BY <1>6 DEF DeleteSlot, Locked, HoldsLock, InTransaction
  <2>3. LockInv'
    BY <1>6, <2>0, <2>2 DEF DeleteSlot, IInv, TypeOK, SlotType, LockInv, InTransaction
  <2>4. SlotInv'
    BY <1>6, <2>0 DEF DeleteSlot, IInv, TypeOK, SlotType, SlotInv
  <2>5. ConfirmedSlotExists'
    BY <1>6, <2>0 DEF DeleteSlot, Referenced, IInv, TypeOK, SlotType, ConfirmedSlotExists
  <2> QED BY <2>1, <2>3, <2>4, <2>5 DEF IInv
<1>7. ASSUME NEW t \in Recruiters, NEW s \in Slots, CheckRemoval(t, s) PROVE IInv'
  BY <1>7 DEF CheckRemoval, IInv, TypeOK, LockInv, InTransaction, SlotInv,
     ConfirmedSlotExists
<1> QED BY <1>1, <1>2, <1>3, <1>4, <1>5, <1>6, <1>7

\* The confirmation's steps.
LEMMA ConfirmationSteps ==
    ASSUME IInv, NEW c \in Clients,
           \/ \E b \in Resumes, s \in Slots : Load(c, b, s)
           \/ LockSlot(c) \/ Refuse(c) \/ Schedule(c) \/ Commit(c) \/ Abort(c)
    PROVE  IInv'
<1>1. ASSUME NEW b \in Resumes, NEW s \in Slots, Load(c, b, s) PROVE IInv'
  <2>1. TypeOK'
    BY <1>1 DEF Load, IInv, TypeOK, ConfirmType
  <2>2. LockInv'
    BY <1>1 DEF Load, IInv, TypeOK, ConfirmType, LockInv, InTransaction
  <2>3. SlotInv' /\ ConfirmedSlotExists'
    BY <1>1 DEF Load, IInv, SlotInv, ConfirmedSlotExists
  <2> QED BY <2>1, <2>2, <2>3 DEF IInv
<1>2. CASE LockSlot(c)
  <2>0. confirm[c].s \in Slots /\ slot[confirm[c].s].count \in Nat
    BY <1>2 DEF LockSlot, IInv, TypeOK, SlotType, LockInv
  <2>1. TypeOK'
    BY <1>2, <2>0 DEF LockSlot, IInv, TypeOK, ConfirmType
  <2>2. /\ confirm[c].s \in Slots /\ confirm[c].b \in Resumes
        /\ \A d \in Clients : InTransaction(d) => confirm[d].s # confirm[c].s
    BY <1>2 DEF LockSlot, Available, Locked, HoldsLock, IInv, LockInv, InTransaction
  <2>3. LockInv'
    BY <1>2, <2>2
    DEF LockSlot, HasSeat, IInv, TypeOK, ConfirmType, SlotType, LockInv, InTransaction
  <2>4. SlotInv' /\ ConfirmedSlotExists'
    BY <1>2 DEF LockSlot, IInv, SlotInv, ConfirmedSlotExists
  <2> QED BY <2>1, <2>3, <2>4 DEF IInv
<1>3. CASE Refuse(c) \/ Abort(c)
  <2>1. TypeOK'
    BY <1>3 DEF Refuse, Abort, Release, Idle, IInv, TypeOK, ConfirmType
  <2>2. LockInv'
    <3>1. /\ confirm'[c].phase = "idle"
          /\ \A d \in Clients \ {c} : confirm'[d] = confirm[d]
          /\ slot' = slot
      BY <1>3 DEF Refuse, Abort, Release, Idle, IInv, TypeOK
    <3> QED BY <3>1 DEF IInv, LockInv, InTransaction
  <2>3. SlotInv' /\ ConfirmedSlotExists'
    BY <1>3 DEF Refuse, Abort, IInv, SlotInv, ConfirmedSlotExists
  <2> QED BY <2>1, <2>2, <2>3 DEF IInv
<1>4. CASE Schedule(c)
  <2>1. TypeOK'
    BY <1>4 DEF Schedule, Idle, IInv, TypeOK, ConfirmType, LockInv
  <2>2. LockInv'
    BY <1>4 DEF Schedule, Idle, IInv, TypeOK, ConfirmType, LockInv, InTransaction
  <2>3. SlotInv' /\ ConfirmedSlotExists'
    BY <1>4 DEF Schedule, IInv, SlotInv, ConfirmedSlotExists
  <2> QED BY <2>1, <2>2, <2>3 DEF IInv
<1>5. CASE Commit(c)
  <2> DEFINE s == confirm[c].s
  <2>0. /\ s \in Slots /\ confirm[c].b \in Resumes /\ InTransaction(c)
        /\ slot[s].state \in {"open", "past"}
        /\ slot[s].count = confirm[c].count /\ confirm[c].count < Capacity[s]
    BY <1>5 DEF Commit, IInv, LockInv, InTransaction
  <2>1. TypeOK'
    BY <1>5, <2>0
    DEF Commit, Release, Idle, IInv, TypeOK, ConfirmType, SlotType, BookingType
  <2>2. \A d \in Clients \ {c} : InTransaction(d) => confirm[d].s # s
    BY <2>0 DEF IInv, LockInv
  <2>3. LockInv'
    BY <1>5, <2>0, <2>2
    DEF Commit, Release, Idle, IInv, TypeOK, ConfirmType, SlotType, LockInv, InTransaction
  <2>4. SlotInv'
    <3>1. /\ slot'[s].count = confirm[c].count + 1
          /\ slot'[s].state = slot[s].state
          /\ \A t \in Slots \ {s} : slot'[t] = slot[t]
      BY <1>5, <2>0 DEF Commit, IInv, TypeOK, SlotType
    <3>2. Capacity[s] \in Nat /\ confirm[c].count \in Nat
      BY <2>0, ConstantsAssumption DEF IInv, TypeOK, ConfirmType
    <3> QED BY <2>0, <3>1, <3>2 DEF IInv, SlotInv
  <2>5. ConfirmedSlotExists'
    BY <1>5, <2>0 DEF Commit, IInv, TypeOK, SlotType, BookingType, ConfirmedSlotExists
  <2> QED BY <2>1, <2>3, <2>4, <2>5 DEF IInv
<1> QED BY <1>1, <1>2, <1>3, <1>4, <1>5

\* The inductive invariant: types, the row lock's protection, and the slots.
THEOREM Invariance == Spec => []IInv
<1>1. ASSUME IInv, [Next]_vars PROVE IInv'
  <2>1. CASE UNCHANGED vars
    BY <1>1, <2>1 DEF vars, IInv, TypeOK, LockInv, InTransaction, SlotInv,
       ConfirmedSlotExists
  <2> QED BY <1>1, <2>1, RecruiterSteps, ConfirmationSteps DEF Next
<1> QED BY <1>1, InitIInv, PTL DEF Spec

\* Every variable keeps its type.
THEOREM TypeCorrect == Spec => []TypeOK
BY Invariance, PTL DEF IInv

\* A recruiter's delete cannot take the slot of a confirmed booking, however
\* it races the confirmation.
THEOREM SlotsOfBookingsExist == Spec => []ConfirmedSlotExists
BY Invariance, PTL DEF IInv
-----------------------------------------------------------------------------
(* The AI interview of a confirmed booking.                                *)

\* Confirmations of b that have created its interview and not yet linked it.
Scheduling(b) ==
    {c \in Clients : confirm[c].phase = "scheduled" /\ confirm[c].b = b}

\* Every link, and every confirmation about to make one, has an interview of
\* its own.
BackedFor(b) ==
    /\ booking[b].status = "Confirmed" => links[b] > 0
    /\ IsFiniteSet(Scheduling(b))
    /\ links[b] + Cardinality(Scheduling(b)) <= sessions[b]

Backed == \A b \in Resumes : BackedFor(b)

LEMMA BackedNumbers ==
    ASSUME IInv, Backed, NEW b \in Resumes
    PROVE  /\ links[b] \in Nat /\ sessions[b] \in Nat
           /\ IsFiniteSet(Scheduling(b)) /\ Cardinality(Scheduling(b)) \in Nat
           /\ links[b] + Cardinality(Scheduling(b)) <= sessions[b]
           /\ booking[b].status = "Confirmed" => links[b] > 0
BY FS_CardinalityType DEF Backed, BackedFor, IInv, TypeOK

\* A step that schedules nothing keeps the interviews backed.
LEMMA BackedKept ==
    ASSUME IInv, Backed,
           \A b \in Resumes :
              /\ Scheduling(b)' = Scheduling(b)
              /\ links'[b] \in {links[b], 0}
              /\ sessions'[b] = sessions[b]
              /\ booking'[b].status = "Confirmed" =>
                    booking[b].status = "Confirmed" /\ links'[b] = links[b]
    PROVE  Backed'
<1> SUFFICES ASSUME NEW b \in Resumes PROVE BackedFor(b)'
  BY DEF Backed
<1> QED BY BackedNumbers DEF BackedFor

\* A confirmation that ends is no longer scheduling.
LEMMA Leaves ==
    ASSUME IInv, Backed, NEW c \in Clients, NEW b \in Resumes, Release(c)
    PROVE  /\ IsFiniteSet(Scheduling(b)') /\ Cardinality(Scheduling(b)') \in Nat
           /\ Cardinality(Scheduling(b)') =
                IF c \in Scheduling(b) THEN Cardinality(Scheduling(b)) - 1
                                       ELSE Cardinality(Scheduling(b))
<1>1. Scheduling(b)' = Scheduling(b) \ {c}
  BY DEF Release, Scheduling, Idle, IInv, TypeOK
<1>2. IsFiniteSet(Scheduling(b))
  BY BackedNumbers
<1> QED BY <1>1, <1>2, FS_RemoveElement, FS_CardinalityType

LEMMA BackedStep == ASSUME IInv, Backed, [Next]_vars PROVE Backed'
<1>1. CASE UNCHANGED <<booking, sessions, links, confirm>>
  <2>1. \A b \in Resumes : Scheduling(b)' = Scheduling(b)
    BY <1>1 DEF Scheduling
  <2> QED BY <1>1, <2>1, BackedKept
<1>2. ASSUME \/ \E s \in Slots : CreateSlot(s) \/ SlotPasses(s)
             \/ \E t \in Recruiters :
                   DeleteSlot(t) \/ \E s \in Slots : CheckRemoval(t, s)
             \/ UNCHANGED vars
      PROVE  Backed'
  BY <1>1, <1>2 DEF CreateSlot, SlotPasses, DeleteSlot, CheckRemoval, vars
<1>3. ASSUME NEW b \in Resumes, SendInvite(b) \/ DeleteResume(b) PROVE Backed'
  <2>1. UNCHANGED <<sessions, confirm>>
    BY <1>3 DEF SendInvite, DeleteResume
  <2>2. \A d \in Resumes : Scheduling(d)' = Scheduling(d)
    BY <2>1 DEF Scheduling
  <2>3. \A d \in Resumes :
          /\ links'[d] \in {links[d], 0}
          /\ booking'[d].status = "Confirmed" =>
                booking[d].status = "Confirmed" /\ links'[d] = links[d]
    BY <1>3 DEF SendInvite, DeleteResume, IInv, TypeOK, BookingType
  <2> QED BY <2>1, <2>2, <2>3, BackedKept
<1>4. ASSUME NEW b \in Resumes, ScheduleDirectly(b) PROVE Backed'
  <2> SUFFICES ASSUME NEW d \in Resumes PROVE BackedFor(d)'
    BY DEF Backed
  <2>1. Scheduling(d)' = Scheduling(d) /\ booking' = booking
    BY <1>4 DEF ScheduleDirectly, Scheduling
  <2>2. \/ links'[d] = links[d] /\ sessions'[d] \in {sessions[d], sessions[d] + 1}
        \/ links'[d] = links[d] + 1 /\ sessions'[d] = sessions[d] + 1
    BY <1>4 DEF ScheduleDirectly, IInv, TypeOK
  <2> QED BY <2>1, <2>2, BackedNumbers DEF BackedFor
<1>5. ASSUME NEW c \in Clients,
             \/ \E b \in Resumes, s \in Slots : Load(c, b, s)
             \/ LockSlot(c)
      PROVE  Backed'
  <2>1. /\ UNCHANGED <<booking, sessions, links>>
        /\ confirm[c].phase # "scheduled" /\ confirm'[c].phase # "scheduled"
        /\ \A d \in Clients \ {c} : confirm'[d] = confirm[d]
    BY <1>5 DEF Load, LockSlot, IInv, TypeOK, ConfirmType
  <2>2. \A b \in Resumes : Scheduling(b)' = Scheduling(b)
    BY <2>1 DEF Scheduling
  <2> QED BY <2>1, <2>2, BackedKept
<1>6. ASSUME NEW c \in Clients, Refuse(c) \/ Abort(c) PROVE Backed'
  <2> SUFFICES ASSUME NEW b \in Resumes PROVE BackedFor(b)'
    BY DEF Backed
  <2>1. Release(c) /\ UNCHANGED <<booking, sessions, links>>
    BY <1>6 DEF Refuse, Abort
  <2> QED BY <2>1, Leaves, BackedNumbers DEF BackedFor
<1>7. ASSUME NEW c \in Clients, Schedule(c) PROVE Backed'
  <2> DEFINE e == confirm[c].b
  <2>1. /\ e \in Resumes /\ UNCHANGED <<booking, links>>
        /\ sessions' = [sessions EXCEPT ![e] = @ + 1]
    BY <1>7 DEF Schedule, IInv, LockInv
  <2>2. ASSUME NEW b \in Resumes
        PROVE  \/ Scheduling(b)' = Scheduling(b)
               \/ b = e /\ Scheduling(b)' = Scheduling(b) \cup {c}
    BY <1>7, <2>1 DEF Schedule, Scheduling, Idle, IInv, TypeOK, ConfirmType
  <2> HIDE DEF e
  <2> SUFFICES ASSUME NEW b \in Resumes PROVE BackedFor(b)'
    BY DEF Backed
  <2>3. sessions'[b] = IF b = e THEN sessions[b] + 1 ELSE sessions[b]
    BY <2>1 DEF IInv, TypeOK
  <2>4. /\ IsFiniteSet(Scheduling(b)') /\ Cardinality(Scheduling(b)') \in Nat
        /\ Cardinality(Scheduling(b)') <=
             Cardinality(Scheduling(b)) + (IF b = e THEN 1 ELSE 0)
    <3>1. /\ IsFiniteSet(Scheduling(b)) /\ Cardinality(Scheduling(b)) \in Nat
      BY BackedNumbers
    <3>2. CASE Scheduling(b)' = Scheduling(b)
      BY <3>1, <3>2
    <3>3. CASE b = e /\ Scheduling(b)' = Scheduling(b) \cup {c}
      <4>1. /\ IsFiniteSet(Scheduling(b) \cup {c})
            /\ Cardinality(Scheduling(b) \cup {c}) \in
                 {Cardinality(Scheduling(b)), Cardinality(Scheduling(b)) + 1}
        BY <3>1, FS_AddElement
      <4> QED BY <3>1, <3>3, <4>1
    <3> QED BY <2>2, <3>2, <3>3
  <2> QED BY <2>1, <2>3, <2>4, BackedNumbers DEF BackedFor
<1>8. ASSUME NEW c \in Clients, Commit(c) PROVE Backed'
  <2> DEFINE e == confirm[c].b
  <2>1. /\ e \in Resumes /\ Release(c) /\ UNCHANGED sessions
        /\ links' = [links EXCEPT ![e] = @ + 1]
        /\ \A b \in Resumes \ {e} : booking'[b] = booking[b]
        /\ \A b \in Resumes : c \in Scheduling(b) <=> b = e
    BY <1>8 DEF Commit, IInv, LockInv, TypeOK, Scheduling
  <2> HIDE DEF e
  <2> SUFFICES ASSUME NEW b \in Resumes PROVE BackedFor(b)'
    BY DEF Backed
  <2>2. links'[b] = IF b = e THEN links[b] + 1 ELSE links[b]
    BY <2>1 DEF IInv, TypeOK
  <2>3. /\ IsFiniteSet(Scheduling(b)') /\ Cardinality(Scheduling(b)') \in Nat
        /\ Cardinality(Scheduling(b)') =
             IF b = e THEN Cardinality(Scheduling(b)) - 1
                      ELSE Cardinality(Scheduling(b))
    <3>1. c \in Scheduling(b) <=> b = e
      BY <2>1
    <3> QED BY <2>1, <3>1, Leaves
  <2>4. /\ links[b] \in Nat /\ sessions'[b] = sessions[b]
        /\ Cardinality(Scheduling(b)) \in Nat /\ sessions[b] \in Nat
        /\ links[b] + Cardinality(Scheduling(b)) <= sessions[b]
    BY <2>1, BackedNumbers
  <2>5. links'[b] + Cardinality(Scheduling(b)') <= sessions'[b]
    BY <2>2, <2>3, <2>4
  <2>6. booking'[b].status = "Confirmed" => links'[b] > 0
    <3>1. CASE b = e
      BY <2>2, <2>4, <3>1
    <3>2. CASE b # e
      BY <2>1, <2>2, <3>2, BackedNumbers
    <3> QED BY <3>1, <3>2
  <2> QED BY <2>3, <2>5, <2>6 DEF BackedFor
<1> QED BY <1>2, <1>3, <1>4, <1>5, <1>6, <1>7, <1>8 DEF Next

\* A confirmed booking has its AI interview and no link lacks one, whatever
\* confirmations of one booking overlap and wherever one of them dies
\* (slots.py:377-411).
THEOREM InterviewsExist == Spec => []ConfirmedHasInterview
<1>1. Init => Backed
  <2> SUFFICES ASSUME Init PROVE Backed
    OBVIOUS
  <2>1. \A b \in Resumes : Scheduling(b) = {}
    BY DEF Init, Scheduling, Idle
  <2> QED BY <2>1, FS_EmptySet DEF Init, Backed, BackedFor, Unbooked
<1>2. IInv /\ Backed => ConfirmedHasInterview
  BY BackedNumbers DEF ConfirmedHasInterview
<1>3. IInv /\ Backed /\ [Next]_vars => Backed'
  BY BackedStep
<1> QED BY <1>1, <1>2, <1>3, Invariance, PTL DEF Spec
----------------------------------------------------------------------------
(* Seats.                                                                  *)

Counted == \A s \in Slots : Cardinality(Holders(s)) <= slot[s].count

LEMMA HoldersFinite ==
    ASSUME NEW s
    PROVE  IsFiniteSet(Holders(s)) /\ Cardinality(Holders(s)) \in Nat
BY ConstantsAssumption, FS_Subset, FS_CardinalityType DEF Holders

\* Fewer holders and no fewer seats counted is still within the count.
LEMMA FewerHolders ==
    ASSUME IInv, IInv', Counted, NEW s \in Slots,
           Holders(s)' \subseteq Holders(s), slot[s].count <= slot'[s].count
    PROVE  Cardinality(Holders(s)') <= slot'[s].count
<1>1. /\ Cardinality(Holders(s)') <= Cardinality(Holders(s))
      /\ Cardinality(Holders(s)') \in Nat /\ Cardinality(Holders(s)) \in Nat
  BY HoldersFinite, FS_Subset, FS_CardinalityType
<1>2. slot[s].count \in Nat /\ slot'[s].count \in Nat
  BY DEF IInv, TypeOK, SlotType
<1> QED BY <1>1, <1>2 DEF Counted

\* A commit adds one holder at most and counts one seat.
LEMMA CommitCounts ==
    ASSUME IInv, IInv', Counted, NEW c \in Clients, Commit(c)
    PROVE  Counted'
<1> SUFFICES ASSUME NEW s \in Slots
             PROVE  Cardinality(Holders(s)') <= slot'[s].count
  BY DEF Counted
<1>0. /\ confirm[c].s \in Slots /\ confirm[c].b \in Resumes
      /\ slot[confirm[c].s].count = confirm[c].count
  BY DEF Commit, IInv, LockInv, InTransaction
<1>1. CASE s # confirm[c].s
  <2>1. Holders(s)' \subseteq Holders(s) /\ slot'[s] = slot[s]
    BY <1>0, <1>1 DEF Holders, Commit, IInv, TypeOK, BookingType
  <2>2. slot[s].count <= slot'[s].count
    BY <2>1 DEF IInv, TypeOK, SlotType
  <2> QED BY <2>1, <2>2, FewerHolders
<1>2. CASE s = confirm[c].s
  <2> DEFINE b == confirm[c].b
  <2>1. Holders(s)' \subseteq Holders(s) \cup {b}
    BY <1>0 DEF Holders, Commit, IInv, TypeOK, BookingType
  <2>2. IsFiniteSet(Holders(s)) /\ Cardinality(Holders(s)) \in Nat
    BY HoldersFinite
  <2>3. /\ IsFiniteSet(Holders(s) \cup {b})
        /\ Cardinality(Holders(s) \cup {b}) <= Cardinality(Holders(s)) + 1
    <3>1. /\ IsFiniteSet(Holders(s) \cup {b})
          /\ Cardinality(Holders(s) \cup {b}) =
                IF b \in Holders(s) THEN Cardinality(Holders(s))
                ELSE Cardinality(Holders(s)) + 1
      BY <2>2, FS_AddElement
    <3> QED BY <2>2, <3>1
  <2>4. /\ Cardinality(Holders(s)') <= Cardinality(Holders(s) \cup {b})
        /\ Cardinality(Holders(s)') \in Nat
        /\ Cardinality(Holders(s) \cup {b}) \in Nat
    BY <2>1, <2>3, FS_Subset, FS_CardinalityType
  <2>5. slot'[s].count = slot[s].count + 1 /\ slot[s].count \in Nat
    BY <1>0, <1>2 DEF Commit, IInv, TypeOK, SlotType
  <2>6. Cardinality(Holders(s)) <= slot[s].count
    BY DEF Counted
  <2> QED BY <2>2, <2>3, <2>4, <2>5, <2>6
<1> QED BY <1>1, <1>2

\* Any other step adds no holder and takes no seat off the count.
LEMMA OtherStepsCount ==
    ASSUME IInv, IInv', Counted, [Next]_vars, \A c \in Clients : ~Commit(c)
    PROVE  Counted'
<1> DEFINE Shrinks == \A s \in Slots : Holders(s)' \subseteq Holders(s)
           Keeps == \A s \in Slots : slot'[s].count = slot[s].count
<1>1. ASSUME NEW s \in Slots, CreateSlot(s) \/ SlotPasses(s) PROVE Shrinks /\ Keeps
  BY <1>1 DEF CreateSlot, SlotPasses, Holders, IInv, TypeOK, SlotType, SlotInv
<1>2. ASSUME NEW b \in Resumes, SendInvite(b) \/ DeleteResume(b) PROVE Shrinks /\ Keeps
  BY <1>2 DEF SendInvite, DeleteResume, Holders, IInv, TypeOK, BookingType
<1>3. ASSUME NEW t \in Recruiters, DeleteSlot(t) PROVE Shrinks /\ Keeps
  <2>1. removal[t] \in Slots
    BY <1>3 DEF DeleteSlot, IInv, TypeOK
  <2> QED BY <1>3, <2>1 DEF DeleteSlot, Holders, IInv, TypeOK, SlotType
<1>4. ASSUME \/ \E b \in Resumes : ScheduleDirectly(b)
             \/ \E t \in Recruiters, s \in Slots : CheckRemoval(t, s)
             \/ \E c \in Clients :
                   \/ \E b \in Resumes, s \in Slots : Load(c, b, s)
                   \/ LockSlot(c) \/ Refuse(c) \/ Schedule(c) \/ Abort(c)
             \/ UNCHANGED vars
      PROVE  Shrinks /\ Keeps
  BY <1>4 DEF Holders, ScheduleDirectly, CheckRemoval, Load, LockSlot, Refuse,
     Schedule, Abort, vars
<1>5. Shrinks /\ Keeps
  <2> HIDE DEF Shrinks, Keeps
  <2> QED BY <1>1, <1>2, <1>3, <1>4 DEF Next
<1>6. ASSUME NEW s \in Slots PROVE slot[s].count <= slot'[s].count
  BY <1>5 DEF IInv, TypeOK, SlotType
<1> QED BY <1>5, <1>6, FewerHolders DEF Counted

LEMMA CountedAlways == Spec => []Counted
<1>1. Init => Counted
  <2> SUFFICES ASSUME Init, NEW s \in Slots
               PROVE  Cardinality(Holders(s)) <= slot[s].count
    BY DEF Counted
  <2>1. Holders(s) = {} /\ slot[s].count = 0
    BY DEF Init, Unbooked, Holders
  <2> QED BY <2>1, FS_EmptySet
<1>2. IInv /\ IInv' /\ Counted /\ [Next]_vars => Counted'
  BY CommitCounts, OtherStepsCount
<1> QED BY <1>1, <1>2, Invariance, PTL DEF Spec

\* No slot is oversold, however many candidates confirm at once.
THEOREM SlotsNeverOversold == Spec => []NeverOversold
<1>1. IInv /\ Counted => NeverOversold
  BY DEF IInv, SlotInv, Counted, NeverOversold
<1> QED BY <1>1, CountedAlways, Invariance, PTL
----------------------------------------------------------------------------
(* The refinement.                                                         *)

Left == [s \in Slots |-> Capacity[s] - slot[s].count]
Closed == {s \in Slots : slot[s].state = "deleted"}
Held == [b \in Resumes |-> IF booking[b].status = "Confirmed"
                           THEN booking[b].slot ELSE NoSlot]

LEMMA InitRefines == Init => Seats!SeatInit
BY ConstantsAssumption DEF Init, Unbooked, Seats!SeatInit

\* A commit takes a seat that is left.
LEMMA CommitTakes ==
    ASSUME IInv, NEW c \in Clients, Commit(c),
           NEW b \in Resumes, b = confirm[c].b, NEW s \in Slots, s = confirm[c].s
    PROVE  Seats!Take(b, s)
<1>0. /\ s \in Slots /\ b \in Resumes
      /\ slot[s].state \in {"open", "past"}
      /\ slot[s].count = confirm[c].count /\ confirm[c].count < Capacity[s]
  BY DEF Commit, IInv, LockInv, InTransaction
<1>1. s \notin Closed /\ Left[s] > 0
  BY <1>0, ConstantsAssumption DEF Left, Closed, IInv, TypeOK, SlotType
<1>2. Left' = [Left EXCEPT ![s] = @ - 1]
  <2>1. /\ slot'[s].count = slot[s].count + 1
        /\ \A t \in Slots \ {s} : slot'[t].count = slot[t].count
    BY <1>0 DEF Commit, IInv, TypeOK, SlotType
  <2>2. \A t \in Slots : Capacity[t] \in Nat /\ slot[t].count \in Nat
    BY ConstantsAssumption DEF IInv, TypeOK, SlotType
  <2>3. Left'[s] = Left[s] - 1
    BY <1>0, <2>1, <2>2 DEF Left
  <2>4. \A t \in Slots \ {s} : Left'[t] = Left[t]
    BY <2>1, <2>2 DEF Left
  <2> QED BY <1>0, <2>3, <2>4 DEF Left
<1>3. Held' = [Held EXCEPT ![b] = s]
  BY <1>0 DEF Held, Commit, IInv, TypeOK, BookingType
<1>4. Closed' = Closed
  BY <1>0 DEF Closed, Commit, IInv, TypeOK, SlotType
<1> QED BY <1>1, <1>2, <1>3, <1>4 DEF Seats!Take, Left, Closed, Held

\* Every other step leaves the seats alone, withdraws a resume or closes a
\* slot nobody holds a seat of.
LEMMA StepRefines ==
    ASSUME IInv, [Next]_vars
    PROVE  [Seats!SeatNext]_Seats!seatVars
<1> DEFINE Same == Left' = Left /\ Closed' = Closed /\ Held' = Held
<1>0. Same => [Seats!SeatNext]_Seats!seatVars
  BY DEF Left, Closed, Held, Seats!seatVars
<1>1. ASSUME NEW s \in Slots, CreateSlot(s) \/ SlotPasses(s) PROVE Same
  <2>1. \A t \in Slots : /\ slot'[t].count = slot[t].count
                         /\ slot'[t].state = "deleted" <=> slot[t].state = "deleted"
    BY <1>1 DEF CreateSlot, SlotPasses, IInv, TypeOK, SlotType, SlotInv
  <2> QED BY <1>1, <2>1 DEF Left, Closed, Held, CreateSlot, SlotPasses
<1>2. ASSUME NEW b \in Resumes, SendInvite(b) PROVE Same
  BY <1>2 DEF SendInvite, Left, Closed, Held, IInv, TypeOK, BookingType
<1>3. ASSUME NEW b \in Resumes, DeleteResume(b) PROVE Seats!Withdraw(b)
  BY <1>3 DEF DeleteResume, IInv, TypeOK, BookingType, Seats!Withdraw
<1>4. ASSUME NEW t \in Recruiters, DeleteSlot(t)
      PROVE  Same \/ \E s \in Slots : Seats!Close(s)
  <2>0. PICK s \in Slots : s = removal[t]
    BY <1>4 DEF DeleteSlot, IInv, TypeOK
  <2>1. CASE Referenced(s)
    BY <1>4, <2>0, <2>1 DEF DeleteSlot, Left, Closed, Held
  <2>2. CASE ~Referenced(s)
    <3>1. \A b \in Resumes : Held[b] # s
      BY <2>0, <2>2, ConstantsAssumption DEF Held, Referenced
    <3>2. Left' = Left /\ Held' = Held
      BY <1>4, <2>0, <2>2 DEF DeleteSlot, Left, Held, IInv, TypeOK, SlotType
    <3>3. Closed' = Closed \cup {s}
      BY <1>4, <2>0, <2>2 DEF DeleteSlot, Closed, IInv, TypeOK, SlotType
    <3> QED BY <2>0, <3>1, <3>2, <3>3 DEF Seats!Close, Left, Closed, Held
  <2> QED BY <2>1, <2>2
<1>5. ASSUME NEW c \in Clients, Commit(c)
      PROVE  \E b \in Resumes, s \in Slots : Seats!Take(b, s)
  <2>1. PICK b \in Resumes, s \in Slots : b = confirm[c].b /\ s = confirm[c].s
    BY <1>5 DEF Commit, IInv, LockInv
  <2> QED BY <1>5, <2>1, CommitTakes
<1>6. ASSUME \/ \E b \in Resumes : ScheduleDirectly(b)
             \/ \E t \in Recruiters, s \in Slots : CheckRemoval(t, s)
             \/ \E c \in Clients :
                   \/ \E b \in Resumes, s \in Slots : Load(c, b, s)
                   \/ LockSlot(c) \/ Refuse(c) \/ Schedule(c) \/ Abort(c)
             \/ UNCHANGED vars
      PROVE  Same
  BY <1>6 DEF Left, Closed, Held, ScheduleDirectly, CheckRemoval, Load, LockSlot,
     Refuse, Schedule, Abort, vars
<1>7. CASE Next
  <2>1. ASSUME NEW b \in Resumes, DeleteResume(b) PROVE Seats!SeatNext
    BY <1>3, <2>1 DEF Seats!SeatNext
  <2>2. ASSUME NEW t \in Recruiters, DeleteSlot(t) PROVE Same \/ Seats!SeatNext
    BY <1>4, <2>2 DEF Seats!SeatNext
  <2>3. ASSUME NEW c \in Clients, Commit(c) PROVE Seats!SeatNext
    BY <1>5, <2>3 DEF Seats!SeatNext
  <2> HIDE DEF Same
  <2> QED BY <1>0, <1>1, <1>2, <1>6, <1>7, <2>1, <2>2, <2>3 DEF Next
<1> QED BY <1>0, <1>6, <1>7

\* Slot booking gives out seats as SeatAllocation says: never one of a full or
\* deleted slot, and one at a time.
THEOREM Implements == Spec => SeatsAllocated
<1>1. IInv /\ [Next]_vars => [Seats!SeatNext]_Seats!seatVars
  BY StepRefines
<1> QED BY <1>1, InitRefines, Invariance, PTL DEF Spec, SeatsAllocated, Seats!Spec
----------------------------------------------------------------------------
(* What the abstract specification guarantees, of any seats left, slots    *)
(* closed and seats held.                                                  *)
VARIABLES left, closed, held
Abstract == INSTANCE SeatAllocation

LEMMA SameFinite == \A S : Abstract!IsFiniteSet(S) <=> IsFiniteSet(S)
BY DEF Abstract!IsFiniteSet, IsFiniteSet

LEMMA SameCardinality == \A S : Abstract!Cardinality(S) = Cardinality(S)
BY Zenon DEF Abstract!Cardinality, Cardinality

Holding(s) == {b \in Resumes : held[b] = s}

SeatIInv == Abstract!SeatTypeOK /\ Abstract!SeatsFit

LEMMA HoldingFinite ==
    ASSUME Abstract!SeatAssumption, NEW s
    PROVE  IsFiniteSet(Holding(s)) /\ Cardinality(Holding(s)) \in Nat
BY Abstract!SeatAssumption, FS_Subset, FS_CardinalityType, SameFinite, SameCardinality
   DEF Abstract!SeatAssumption, Holding

LEMMA SeatInitIInv == ASSUME Abstract!SeatAssumption PROVE Abstract!SeatInit => SeatIInv
<1> SUFFICES ASSUME Abstract!SeatInit PROVE SeatIInv
  OBVIOUS
<1>1. Abstract!SeatTypeOK
  BY Abstract!SeatAssumption DEF Abstract!SeatAssumption, Abstract!SeatInit, Abstract!SeatTypeOK
<1>2. ASSUME NEW s \in Slots PROVE Holding(s) = {}
  BY Abstract!SeatAssumption DEF Abstract!SeatAssumption, Abstract!SeatInit, Holding
<1>3. ASSUME NEW s \in Slots
      PROVE  Cardinality(Holding(s)) <= Capacity[s] - left[s]
  BY <1>2, FS_EmptySet, Abstract!SeatAssumption DEF Abstract!SeatAssumption, Abstract!SeatInit
<1>4. Abstract!SeatsFit
  BY <1>3, SameFinite, SameCardinality
     DEF Abstract!SeatsFit, Abstract!SeatInit, Holding
<1> QED BY <1>1, <1>4 DEF SeatIInv

\* A seat is taken out of those left, and the holders grow by one at most.
LEMMA TakeStep ==
    ASSUME Abstract!SeatAssumption, SeatIInv, NEW b \in Resumes, NEW s \in Slots, Abstract!Take(b, s)
    PROVE  SeatIInv'
<1>1. Abstract!SeatTypeOK'
  BY DEF SeatIInv, Abstract!SeatTypeOK, Abstract!Take
<1>2. ASSUME NEW t \in Slots, t # s
      PROVE  /\ Cardinality(Holding(t)') <= Capacity[t] - left'[t]
             /\ t \in closed' => \A a \in Resumes : held'[a] # t
  <2>1. Holding(t)' \subseteq Holding(t) /\ left'[t] = left[t]
    BY <1>2 DEF Holding, Abstract!Take, SeatIInv, Abstract!SeatTypeOK
  <2>2. /\ Cardinality(Holding(t)') <= Cardinality(Holding(t))
        /\ Cardinality(Holding(t)') \in Nat
    BY <2>1, HoldingFinite, FS_Subset, FS_CardinalityType
  <2>3. Cardinality(Holding(t)') <= Capacity[t] - left'[t]
    <3>1. Cardinality(Holding(t)) <= Capacity[t] - left[t]
      BY SameFinite, SameCardinality DEF SeatIInv, Abstract!SeatsFit, Holding
    <3>2. Capacity[t] \in Nat /\ left[t] \in Nat
      BY Abstract!SeatAssumption DEF Abstract!SeatAssumption, SeatIInv, Abstract!SeatTypeOK
    <3>3. Cardinality(Holding(t)) \in Nat
      BY HoldingFinite
    <3> QED BY <2>1, <2>2, <3>1, <3>2, <3>3
  <2> QED BY <2>3, <1>2 DEF Abstract!Take, SeatIInv, Abstract!SeatTypeOK, Abstract!SeatsFit
<1>3. /\ Cardinality(Holding(s)') <= Capacity[s] - left'[s]
      /\ s \in closed' => \A a \in Resumes : held'[a] # s
  <2>1. Holding(s)' \subseteq Holding(s) \cup {b}
    BY DEF Holding, Abstract!Take, SeatIInv, Abstract!SeatTypeOK
  <2>0. IsFiniteSet(Holding(s)) /\ Cardinality(Holding(s)) \in Nat
    BY HoldingFinite
  <2>2. /\ IsFiniteSet(Holding(s) \cup {b})
        /\ Cardinality(Holding(s) \cup {b}) <= Cardinality(Holding(s)) + 1
    <3>1. /\ IsFiniteSet(Holding(s) \cup {b})
          /\ Cardinality(Holding(s) \cup {b}) =
                IF b \in Holding(s) THEN Cardinality(Holding(s))
                ELSE Cardinality(Holding(s)) + 1
      BY <2>0, FS_AddElement
    <3> QED BY <2>0, <3>1
  <2>3. Cardinality(Holding(s)') <= Cardinality(Holding(s) \cup {b})
    BY <2>1, <2>2, FS_Subset
  <2>4. /\ Cardinality(Holding(s)') \in Nat
        /\ Cardinality(Holding(s) \cup {b}) \in Nat
    BY <2>1, <2>2, FS_Subset, FS_CardinalityType
  <2>5. left'[s] = left[s] - 1 /\ left[s] \in Nat /\ Capacity[s] \in Nat
    BY Abstract!SeatAssumption DEF Abstract!SeatAssumption, Abstract!Take, SeatIInv, Abstract!SeatTypeOK
  <2>6. Cardinality(Holding(s)) <= Capacity[s] - left[s]
    BY SameFinite, SameCardinality DEF SeatIInv, Abstract!SeatsFit, Holding
  <2>7. Cardinality(Holding(s)') <= Capacity[s] - left'[s]
    BY <2>0, <2>2, <2>3, <2>4, <2>5, <2>6
  <2> QED BY <2>7 DEF Abstract!Take
<1>4. Abstract!SeatsFit'
  BY <1>2, <1>3, SameFinite, SameCardinality DEF Abstract!SeatsFit, Holding
<1> QED BY <1>1, <1>4 DEF SeatIInv

LEMMA WithdrawStep ==
    ASSUME Abstract!SeatAssumption, SeatIInv, NEW b \in Resumes, Abstract!Withdraw(b)
    PROVE  SeatIInv'
<1>1. Abstract!SeatTypeOK'
  BY DEF SeatIInv, Abstract!SeatTypeOK, Abstract!Withdraw
<1>2. ASSUME NEW t \in Slots
      PROVE  /\ Cardinality(Holding(t)') <= Capacity[t] - left'[t]
             /\ t \in closed' => \A a \in Resumes : held'[a] # t
  <2>1. Holding(t)' \subseteq Holding(t) /\ left'[t] = left[t]
    BY Abstract!SeatAssumption DEF Abstract!SeatAssumption, Holding, Abstract!Withdraw, SeatIInv, Abstract!SeatTypeOK
  <2>2. /\ Cardinality(Holding(t)') <= Cardinality(Holding(t))
        /\ Cardinality(Holding(t)') \in Nat
    BY <2>1, HoldingFinite, FS_Subset, FS_CardinalityType
  <2>3. Cardinality(Holding(t)') <= Capacity[t] - left'[t]
    <3>1. Cardinality(Holding(t)) <= Capacity[t] - left[t]
      BY SameFinite, SameCardinality DEF SeatIInv, Abstract!SeatsFit, Holding
    <3>2. Capacity[t] \in Nat /\ left[t] \in Nat
      BY Abstract!SeatAssumption DEF Abstract!SeatAssumption, SeatIInv, Abstract!SeatTypeOK
    <3>3. Cardinality(Holding(t)) \in Nat
      BY HoldingFinite
    <3> QED BY <2>1, <2>2, <3>1, <3>2, <3>3
  <2> QED BY <2>1, <2>3 DEF Abstract!Withdraw, SeatIInv, Abstract!SeatsFit, Holding
<1>3. Abstract!SeatsFit'
  BY <1>2, SameFinite, SameCardinality DEF Abstract!SeatsFit, Holding
<1> QED BY <1>1, <1>3 DEF SeatIInv

\* The inductive invariant of the seats: types and fit.
THEOREM SeatInvariance == ASSUME Abstract!SeatAssumption PROVE Abstract!Spec => []SeatIInv
<1>1. ASSUME SeatIInv, [Abstract!SeatNext]_Abstract!seatVars PROVE SeatIInv'
  <2>1. ASSUME NEW b \in Resumes, NEW s \in Slots, Abstract!Take(b, s) PROVE SeatIInv'
    BY <1>1, <2>1, TakeStep
  <2>2. ASSUME NEW b \in Resumes, Abstract!Withdraw(b) PROVE SeatIInv'
    BY <1>1, <2>2, WithdrawStep
  <2>3. ASSUME NEW s \in Slots, Abstract!Close(s) PROVE SeatIInv'
    BY <1>1, <2>3 DEF Abstract!Close, SeatIInv, Abstract!SeatTypeOK, Abstract!SeatsFit
  <2>4. CASE UNCHANGED Abstract!seatVars
    BY <1>1, <2>4 DEF Abstract!seatVars, SeatIInv, Abstract!SeatTypeOK, Abstract!SeatsFit
  <2> QED BY <1>1, <2>1, <2>2, <2>3, <2>4 DEF Abstract!SeatNext
<1> QED BY <1>1, SeatInitIInv, PTL DEF Abstract!Spec

\* No slot gives out more seats than it has, whatever the order of takers,
\* withdrawals and closures (the promise of confirm_booking, slots.py:358).
THEOREM SeatsAlwaysFit == ASSUME Abstract!SeatAssumption PROVE Abstract!Spec => []Abstract!SeatsFit
BY SeatInvariance, PTL DEF SeatIInv

LEMMA SeatCardinality == \A S : Seats!Cardinality(S) = Cardinality(S)
BY Zenon DEF Seats!Cardinality, Cardinality

\* So does slot booking: with the refinement mapping, what its rows count and
\* its bookings hold always fits, whatever requests overlap.
THEOREM BookedSeatsFit == Spec => []Seats!SeatsFit
<1>1. ASSUME IInv, Counted PROVE Seats!SeatsFit
  <2>1. ASSUME NEW s \in Slots
        PROVE  /\ Seats!Cardinality({b \in Resumes : Held[b] = s})
                     <= Capacity[s] - Left[s]
               /\ s \in Closed => \A b \in Resumes : Held[b] # s
    <3>1. {b \in Resumes : Held[b] = s} = Holders(s)
      BY <1>1, ConstantsAssumption DEF Held, Holders, IInv, TypeOK, BookingType
    <3>2. Capacity[s] - Left[s] = slot[s].count
      BY <1>1, ConstantsAssumption DEF Left, IInv, TypeOK, SlotType
    <3>3. s \in Closed => \A b \in Resumes : Held[b] # s
      BY <1>1, ConstantsAssumption
      DEF Closed, Held, IInv, ConfirmedSlotExists, TypeOK, BookingType
    <3>4. Seats!Cardinality(Holders(s)) = Cardinality(Holders(s))
      BY SeatCardinality
    <3>5. Cardinality(Holders(s)) <= slot[s].count
      BY <1>1 DEF Counted
    <3> HIDE DEF Holders
    <3> QED BY <3>1, <3>2, <3>3, <3>4, <3>5
  <2> QED BY Zenon, <2>1 DEF Seats!SeatsFit, Held, Left, Closed
<1> QED BY <1>1, CountedAlways, Invariance, PTL
============================================================================
