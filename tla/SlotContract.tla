---------------------------- MODULE SlotContract ----------------------------
(***************************************************************************)
(* What the booking system promises about the hours of a garden, with no   *)
(* clock, no money and no table: a client asks for a set of cells (a cell  *)
(* is one tick of one garden) and holds it for a while; only somebody who  *)
(* asked may come to occupy cells; a cell is occupied by one reservation   *)
(* at most, and nobody is given cells that are held or occupied.  Whoever  *)
(* leaves never comes back.                                                *)
(***************************************************************************)
CONSTANTS Reservation, Cell

VARIABLES
    phase,      \* where a reservation is in its life
    slot        \* the cells it asked for

vars == <<phase, slot>>

Phases == {"absent", "held", "lapsed", "occupying", "gone"}

SlotTypeOK == /\ phase \in [Reservation -> Phases]
              /\ slot \in [Reservation -> SUBSET Cell]

Init == /\ phase = [r \in Reservation |-> "absent"]
        /\ slot = [r \in Reservation |-> {}]

In(S) == {r \in Reservation : phase[r] \in S}

Free(cells, S) == \A q \in In(S) : slot[q] \cap cells = {}

Ask(r, cells) ==
    /\ phase[r] = "absent"
    /\ Free(cells, {"held", "occupying"})
    /\ phase' = [phase EXCEPT ![r] = "held"]
    /\ slot' = [slot EXCEPT ![r] = cells]

\* The time to pay is over for these.
Lapse(R) ==
    /\ R \subseteq In({"held"})
    /\ phase' = [r \in Reservation |-> IF r \in R THEN "lapsed" ELSE phase[r]]
    /\ UNCHANGED slot

\* Paid, in time or late.  Late payers are let in while the cells are unoccupied.
Occupy(r) ==
    /\ phase[r] \in {"held", "lapsed"}
    /\ Free(slot[r], {"occupying"})
    /\ phase' = [phase EXCEPT ![r] = "occupying"]
    /\ UNCHANGED slot

Leave(R) ==
    /\ R \subseteq In({"held", "lapsed", "occupying"})
    /\ phase' = [r \in Reservation |-> IF r \in R THEN "gone" ELSE phase[r]]
    /\ UNCHANGED slot

Next ==
    \/ \E r \in Reservation : \E cells \in SUBSET Cell : Ask(r, cells)
    \/ \E r \in Reservation : Occupy(r)
    \/ \E R \in SUBSET Reservation : Lapse(R) \/ Leave(R)

Spec == Init /\ [][Next]_vars
=============================================================================
