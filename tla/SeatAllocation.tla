--------------------------- MODULE SeatAllocation ---------------------------
(***************************************************************************)
(* What slot booking promises: a seat is given out once, a resume holds at *)
(* most one, and a slot somebody holds a seat of is not closed.  SlotBooking *)
(* implements it.                                                          *)
(***************************************************************************)
EXTENDS Integers, FiniteSets

CONSTANTS Slots, Resumes, Capacity, NoSlot

\* What the theorems about it suppose; SlotBooking assumes as much.
SeatAssumption ==
    /\ IsFiniteSet(Resumes)
    /\ Capacity \in [Slots -> Nat \ {0}]
    /\ NoSlot \notin Slots

VARIABLES left,    \* seats left in each slot
          closed,  \* slots withdrawn
          held     \* the slot each resume holds a seat of, or NoSlot

seatVars == <<left, closed, held>>

SeatTypeOK ==
    /\ left \in [Slots -> Nat]
    /\ closed \subseteq Slots
    /\ held \in [Resumes -> Slots \cup {NoSlot}]

SeatInit ==
    /\ left = Capacity
    /\ closed = {}
    /\ held = [b \in Resumes |-> NoSlot]

\* A resume takes a seat; a seat it held elsewhere is lost.
Take(b, s) ==
    /\ s \notin closed /\ left[s] > 0
    /\ left' = [left EXCEPT ![s] = @ - 1]
    /\ held' = [held EXCEPT ![b] = s]
    /\ UNCHANGED closed

\* A resume is withdrawn, its seat is lost.
Withdraw(b) ==
    /\ held' = [held EXCEPT ![b] = NoSlot]
    /\ UNCHANGED <<left, closed>>

Close(s) ==
    /\ \A b \in Resumes : held[b] # s
    /\ closed' = closed \cup {s}
    /\ UNCHANGED <<left, held>>

SeatNext ==
    \/ \E b \in Resumes : Withdraw(b) \/ \E s \in Slots : Take(b, s)
    \/ \E s \in Slots : Close(s)

Spec == SeatInit /\ [][SeatNext]_seatVars

\* Nobody holds a seat that does not exist, or of a slot withdrawn.
SeatsFit ==
    \A s \in Slots :
        /\ Cardinality({b \in Resumes : held[b] = s}) <= Capacity[s] - left[s]
        /\ s \in closed => \A b \in Resumes : held[b] # s
============================================================================
