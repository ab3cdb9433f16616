------------------------- MODULE BookingProperties --------------------------
(***************************************************************************)
(* What must hold of the bookings, and the mapping under which Booking     *)
(* implements SlotContract.                                                *)
(***************************************************************************)
EXTENDS Booking

-----------------------------------------------------------------------------
(* Windows                                                                 *)

\* The card was charged and the webhook processed before the hold ran out.
PaidInTime(row) == row.paid_at < row.created_at + TTL

\* A reservation that is entitled to its window: an unexpired hold, or a paid
\* booking that was paid while it was one.
Entitled(row) == LiveHold(row, now) \/ (Committed(row) /\ PaidInTime(row))

\* Two reservations that are entitled to their windows never overlap.  The only
\* way to collide with an unexpired hold is to pay for a hold that had expired:
\* create_reservation looks at the table under the garden's lock, a hold is never
\* prolonged, and expired holds are the only rows it looks past.
EntitledNeverOverlap ==
    \A r, q \in Reservation :
        r # q /\ Entitled(rows[r]) /\ Entitled(rows[q]) => ~Overlaps(rows[r], rows[q])

\* No two paid bookings of a garden overlap, late payers included: what the
\* exclusion constraint of the table is there for.
CommittedNeverOverlap ==
    \A r, q \in Reservation :
        r # q /\ Committed(rows[r]) /\ Committed(rows[q]) => ~Overlaps(rows[r], rows[q])

\* PLAN 7.4.2 as it is written: no window is held twice, unexpired holds included.
HeldWindowsNeverOverlap ==
    \A r, q \in Reservation :
        r # q /\ HoldsWindow(rows[r], now) /\ HoldsWindow(rows[q], now)
            => ~Overlaps(rows[r], rows[q])

-----------------------------------------------------------------------------
(* Money                                                                   *)

\* Nobody occupies a window for free and the database never claims money it was not
\* given: a booking that occupies its window has a payment that succeeded (or was
\* refunded behind its back); a payment that succeeded was charged; one marked
\* refunded was refunded by Stripe, whatever order the webhooks came in.
StripeBacksTheLedger ==
    \A r \in Reservation :
        /\ Committed(rows[r]) => payment[r] \in {"succeeded", "refunded"}
        /\ Committed(rows[r]) \/ payment[r] = "succeeded" => Charged(r)
        /\ payment[r] = "refunded" => charge[r] = "refunded"

\* The policy owes the client a refund: the host declined, or the client left
\* before the host decided or early enough.
RefundOwed(row) ==
    \/ row.status = "rejected"
    \/ /\ row.status = "cancelled"
       /\ row.paid_at # NoTime
       /\ ~row.decided \/ row.cancelled_at <= row.start_time - FreeCancel

\* Whenever the policy owes a refund for a booking that was paid, Stripe has made
\* it, whatever was rolled back or delivered twice on the way.
RefundOwedIsMade ==
    \A r \in Reservation : RefundOwed(rows[r]) => charge[r] = "refunded"

\* AD-5 as it is written: a booking that was rejected or cancelled keeps the
\* client's money only if it was confirmed and cancelled too late.
NobodyPaysForNothing ==
    \A r \in Reservation :
        rows[r].status \in {"rejected", "cancelled"} /\ charge[r] = "paid" /\ payment[r] = "succeeded"
            => rows[r].decided
               /\ rows[r].cancelled_at > rows[r].start_time - FreeCancel

\* Exactly the reservations that were admitted as paid have an invoice, and the
\* numbers given out so far are 1..last_number with no gap and no number twice.
InvoicesNumberPaidReservations ==
    /\ \A r \in Reservation : invoice[r] # 0 <=> rows[r].paid_at # NoTime
    /\ \A r, q \in Reservation : r # q /\ invoice[r] # 0 => invoice[r] # invoice[q]
    /\ {invoice[r] : r \in Reservation} \ {0} = 1 .. last_number

-----------------------------------------------------------------------------
(* Webhooks                                                                *)

\* The webhooks of r, delivered after the charge of r was processed once: the
\* succeeded event again, or the failure of an earlier card.
LateDelivery(r) == /\ rows[r].paid_at # NoTime
                   /\ MarkSucceeded(r) \/ MarkFailed(r)

\* "Idempotent end to end": delivering the event of a processed charge again
\* changes nothing.
RedeliveryChangesNothing ==
    [][\A r \in Reservation : LateDelivery(r) => UNCHANGED vars]_vars

\* Delivering the event of a processed charge again leaves the reservations and
\* the invoices alone: nobody is admitted or numbered twice because of it.
RedeliveryMovesNoReservation ==
    [][\A r \in Reservation : LateDelivery(r) => UNCHANGED <<rows, invoice, last_number>>]_vars

-----------------------------------------------------------------------------
(* Progress, under FairSpec                                                *)

\* A charge at Stripe reaches the ledger, even when the exclusion constraint
\* refuses the payer: the sweep ends the expired hold and the next delivery is
\* taken.
ChargeReachesTheLedger ==
    \A r \in Reservation :
        charge[r] = "paid" ~> payment[r] \in {"succeeded", "refunded"}

\* No reservation waits for its payment for ever: it is paid or it is swept.
HoldsEnd ==
    \A r \in Reservation :
        rows[r].status = "pending_payment" ~> rows[r].status # "pending_payment"

-----------------------------------------------------------------------------
(* The abstract specification                                              *)

Cells(w) == {w.garden} \X (w.start_time .. w.end_time - 1)

PhaseAt(row, at) ==
    CASE row.status = "absent" -> "absent"
      [] LiveHold(row, at)     -> "held"
      [] row.status = "pending_payment" /\ ~LiveHold(row, at) -> "lapsed"
      [] Committed(row)        -> "occupying"
      [] row.status \in {"rejected", "cancelled"} -> "gone"

Contract == INSTANCE SlotContract WITH
    Cell  <- UNION {Cells(req) : req \in Request},
    phase <- [r \in Reservation |-> PhaseAt(rows[r], now)],
    slot  <- [r \in Reservation |->
                IF rows[r].status = "absent" THEN {} ELSE Cells(rows[r])]

\* Booking keeps the promise of SlotContract: windows are asked for only while
\* nobody holds or occupies them, occupied one at a time, and never re-entered.
KeepsSlotContract == Contract!Spec
=============================================================================
