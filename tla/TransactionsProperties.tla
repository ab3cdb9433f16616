----------------------- MODULE TransactionsProperties -----------------------
(***************************************************************************)
(* What the row locks are there for: properties of BookingTransactions.    *)
(***************************************************************************)
EXTENDS BookingTransactions

\* The clock and the table agree on who is entitled to the window: of the unexpired
\* holds, and the bookings admitted by a webhook that read the clock before they ran
\* out, there is one at most, however long the webhook took to commit.
EntitledOnce ==
    \A r, q \in Reservation :
        /\ LiveHold(r) \/ (Committed(r) /\ r \in timely)
        /\ LiveHold(q) \/ (Committed(q) /\ q \in timely)
        => r = q

\* A paid booking the host has not confirmed leaves that state for good only with the
\* client's money given back, whoever else is writing: the sweep never cancels it.
LeavesWithItsMoney ==
    [][\A r \in Reservation :
        status[r] = "awaiting_host" /\ status'[r] \in {"rejected", "cancelled"}
            => charge'[r] = "refunded"]_vars

-----------------------------------------------------------------------------
(* Deadlocks                                                               *)

Blocked(p) == txn[p].todo # <<>> /\ holder[Head(txn[p].todo)] \notin {p, Nobody}

WaitsFor(p) == holder[Head(txn[p].todo)]

Circle(S) == /\ S # {}
             /\ \A p \in S : Blocked(p)
             /\ {WaitsFor(p) : p \in S} = S

\* Requests about one reservation wait for each other in a circle only when one of them
\* is a webhook: paying, deciding and cancelling all take the reservation first.
CirclesOnOneReservationHaveAWebhook ==
    \A S \in SUBSET Process : \A r \in Reservation :
        Circle(S) /\ (\A p \in S : txn[p].r = r)
            => \E p \in S : txn[p].op \in Webhooks

-----------------------------------------------------------------------------
(* The abstract specification                                              *)

PhaseOf(r) ==
    CASE status[r] = "absent" -> "absent"
      [] LiveHold(r) -> "held"
      [] Stale(r) -> "lapsed"
      [] Committed(r) -> "occupying"
      [] status[r] \in {"rejected", "cancelled"} -> "gone"

Contract == INSTANCE SlotContract WITH
    Cell  <- {Nobody},
    phase <- [r \in Reservation |-> PhaseOf(r)],
    slot  <- [r \in Reservation |-> IF status[r] = "absent" THEN {} ELSE {Nobody}]

\* Interleaved transactions keep the promise Booking keeps with atomic ones.
TransactionsKeepSlotContract == Contract!Spec
=============================================================================
