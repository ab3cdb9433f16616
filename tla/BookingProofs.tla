--------------------------- MODULE BookingProofs ----------------------------
(***************************************************************************)
(* The properties of BookingProperties, proved of Booking for any number   *)
(* of reservations, gardens and requests and for any TTL, refund deadline  *)
(* and clock bound.                                                        *)
(***************************************************************************)
EXTENDS BookingProperties, TLAPS

-----------------------------------------------------------------------------
(* Type correctness                                                        *)

\* What a row keeps and what it gets when it moves to a status.
MovedTo(row, new, target, when) ==
    /\ new \in RowType
    /\ new.status = target
    /\ new.garden = row.garden
    /\ new.start_time = row.start_time
    /\ new.end_time = row.end_time
    /\ new.created_at = row.created_at
    /\ new.paid_at = IF target = "awaiting_host" THEN when ELSE row.paid_at
    /\ new.decided = IF target \in {"confirmed", "rejected"} THEN TRUE ELSE row.decided
    /\ target = "cancelled" => new.cancelled_at = when

\* A row that moves along an edge is still a row, keeps what was booked, and
\* carries the new status and its stamp.
LEMMA TransitionedRow ==
    ASSUME NEW row \in RowType, NEW target \in Statuses, NEW when \in Nat,
           CanTransition(row, target)
    PROVE  MovedTo(row, Transitioned(row, target, when), target, when)
<1>. USE DEF MovedTo
<1>1. target \in {"awaiting_host", "confirmed", "rejected", "cancelled"}
  BY DEF CanTransition, AllowedTransitions, Statuses
<1>2. CASE target = "awaiting_host"
  BY <1>2 DEF Transitioned, RowType, Statuses, Time, NoTime
<1>3. CASE target \in {"confirmed", "rejected"}
  BY <1>3 DEF Transitioned, RowType, Statuses, Time, NoTime
<1>4. CASE target = "cancelled"
  BY <1>4 DEF Transitioned, RowType, Statuses, Time, NoTime
<1>. QED  BY <1>1, <1>2, <1>3, <1>4

\* Moving one row leaves a table of rows.
LEMMA MoveTypeOK ==
    ASSUME TypeOK, NEW r \in Reservation, NEW target \in Statuses, Move(r, target)
    PROVE  /\ rows' \in [Reservation -> RowType]
           /\ \A q \in Reservation \ {r} : rows'[q] = rows[q]
           /\ rows'[r] = Transitioned(rows[r], target, now)
<1>1. rows[r] \in RowType /\ now \in Nat
  BY DEF TypeOK
<1>2. Transitioned(rows[r], target, now) \in RowType
  BY <1>1, TransitionedRow DEF Move, MovedTo
<1>. QED  BY <1>2 DEF Move, TypeOK

\* The table, the ledger and the charges keep their types in every step.
LEMMA TypeStep == TypeOK /\ [Next]_vars => TypeOK'
<1>. SUFFICES ASSUME TypeOK, [Next]_vars PROVE TypeOK'
  OBVIOUS
<1>. USE DEF TypeOK
<1>1. CASE Tick
  BY <1>1 DEF Tick
<1>2. CASE ExpirePendingReservations
  <2>1. ASSUME NEW r \in Reservation, Stale(r)
        PROVE  Transitioned(rows[r], "cancelled", now) \in RowType
    BY <2>1, TransitionedRow
       DEF Stale, IsExpired, CanTransition, AllowedTransitions, Statuses, MovedTo
  <2>. QED  BY <1>2, <2>1 DEF ExpirePendingReservations
<1>3. ASSUME NEW g \in Garden, ModerateGarden(g) PROVE TypeOK'
  BY <1>3 DEF ModerateGarden
<1>4. ASSUME NEW r \in Reservation, HostStep(r) PROVE TypeOK'
  <2>. USE DEF PaymentStatuses, ChargeStates, Statuses
  <2>1. CASE AcceptReservation(r)
    BY <2>1, MoveTypeOK DEF AcceptReservation
  <2>2. CASE RejectReservation(r)
    BY <2>2, MoveTypeOK DEF RejectReservation, RefundIfPaid, GatewayRefund
  <2>3. CASE RejectRolledBack(r)
    BY <2>3 DEF RejectRolledBack, RefundThenRollBack, GatewayRefund
  <2>. QED  BY <1>4, <2>1, <2>2, <2>3 DEF HostStep
<1>5. ASSUME NEW r \in Reservation, ClientStep(r) PROVE TypeOK'
  <2>. USE DEF PaymentStatuses, ChargeStates
  <2>1. ASSUME NEW req \in Request, CreateReservation(r, req) PROVE TypeOK'
    <3>1. PendingRow(req) \in RowType
      BY BookingAssumption
         DEF PendingRow, RowType, RequestType, Time, NoTime, Statuses
    <3>. QED  BY <2>1, <3>1 DEF CreateReservation
  <2>2. CASE StartPayment(r)
    BY <2>2 DEF StartPayment
  <2>3. CASE CancelReservation(r)
    BY <2>3, MoveTypeOK DEF CancelReservation, RefundIfPaid, GatewayRefund, Statuses
  <2>4. CASE CancelRolledBack(r)
    BY <2>4 DEF CancelRolledBack, RefundThenRollBack, GatewayRefund
  <2>. QED  BY <1>5, <2>1, <2>2, <2>3, <2>4 DEF ClientStep
<1>6. ASSUME NEW r \in Reservation, StripeStep(r) PROVE TypeOK'
  BY <1>6 DEF StripeStep, CardCharged, ChargeStates
<1>7. ASSUME NEW r \in Reservation, WebhookStep(r) PROVE TypeOK'
  <2>. USE DEF PaymentStatuses
  <2>1. CASE MarkSucceeded(r)
    BY <2>1, MoveTypeOK DEF MarkSucceeded, AdmitPaid, GenerateInvoice, Statuses
  <2>2. CASE MarkFailed(r)
    BY <2>2 DEF MarkFailed
  <2>3. CASE MarkRefunded(r)
    BY <2>3 DEF MarkRefunded
  <2>. QED  BY <1>7, <2>1, <2>2, <2>3 DEF WebhookStep
<1>8. CASE UNCHANGED vars
  BY <1>8 DEF vars
<1>. QED
  BY <1>1, <1>2, <1>3, <1>4, <1>5, <1>6, <1>7, <1>8 DEF Next

\* Every row, payment and charge has the type of its column, in every state.
THEOREM TypeCorrect == Spec => []TypeOK
<1>1. Init => TypeOK
  BY DEF Init, TypeOK, NoRow, RowType, Statuses, Time, NoTime,
         PaymentStatuses, ChargeStates
<1>. QED  BY <1>1, TypeStep, PTL DEF Spec

-----------------------------------------------------------------------------
(* Rows                                                                    *)

\* What the columns of a row say about each other.
RowInv(row) ==
    /\ row.status = "absent" => row.paid_at = NoTime
    /\ row.status # "absent" =>
            /\ row.garden \in Garden
            /\ row.start_time \in Nat /\ row.end_time \in Nat /\ row.created_at \in Nat
    /\ row.status = "pending_payment" =>
            row.paid_at = NoTime /\ ~row.decided /\ row.expires_at = row.created_at + TTL
    /\ row.status = "awaiting_host" => row.paid_at \in Nat /\ ~row.decided
    /\ row.status = "confirmed" => row.paid_at \in Nat /\ row.decided

RowsInv == \A r \in Reservation : RowInv(rows[r])

\* The ways the table changes in one step: not at all, by one new row, by one paid
\* row, by a decision or a cancellation, by the sweep.
LEMMA RowSteps ==
    ASSUME TypeOK, [Next]_vars
    PROVE  \/ UNCHANGED rows /\ now' \in Nat /\ now <= now'
           \/ UNCHANGED now /\ \E r \in Reservation, req \in Request : CreateReservation(r, req)
           \/ UNCHANGED now /\ \E r \in Reservation : AdmitPaid(r)
           \/ UNCHANGED now /\ \E r \in Reservation :
                \E target \in {"confirmed", "rejected", "cancelled"} : Move(r, target)
           \/ UNCHANGED now /\ ExpirePendingReservations
<1>. USE DEF TypeOK
<1>1. CASE Tick
  BY <1>1 DEF Tick
<1>2. CASE ExpirePendingReservations
  BY <1>2 DEF ExpirePendingReservations
<1>3. ASSUME NEW g \in Garden, ModerateGarden(g) PROVE UNCHANGED <<rows, now>>
  BY <1>3 DEF ModerateGarden
<1>4. ASSUME NEW r \in Reservation, HostStep(r)
      PROVE  /\ UNCHANGED now
             /\ UNCHANGED rows \/ Move(r, "confirmed") \/ Move(r, "rejected")
  BY <1>4 DEF HostStep, AcceptReservation, RejectReservation, RejectRolledBack,
              RefundThenRollBack
<1>5. ASSUME NEW r \in Reservation, ClientStep(r)
      PROVE  /\ UNCHANGED now
             /\ \/ UNCHANGED rows
                \/ Move(r, "cancelled")
                \/ \E req \in Request : CreateReservation(r, req)
  BY <1>5 DEF ClientStep, CreateReservation, StartPayment, CancelReservation,
              CancelRolledBack, RefundThenRollBack
<1>6. ASSUME NEW r \in Reservation, StripeStep(r) PROVE UNCHANGED <<rows, now>>
  BY <1>6 DEF StripeStep, CardCharged
<1>7. ASSUME NEW r \in Reservation, WebhookStep(r)
      PROVE  UNCHANGED now /\ (UNCHANGED rows \/ AdmitPaid(r))
  BY <1>7 DEF WebhookStep, MarkSucceeded, MarkFailed, MarkRefunded
<1>8. CASE UNCHANGED vars
  BY <1>8 DEF vars
<1>. QED
  BY <1>1, <1>2, <1>3, <1>4, <1>5, <1>6, <1>7, <1>8 DEF Next

\* The sweep moves every stale hold to cancelled and no other row.
LEMMA SweptRow ==
    ASSUME TypeOK, ExpirePendingReservations, NEW r \in Reservation
    PROVE  \/ rows'[r] = rows[r]
           \/ /\ CanTransition(rows[r], "cancelled")
              /\ rows[r].status = "pending_payment"
              /\ rows'[r] = Transitioned(rows[r], "cancelled", now)
BY DEF ExpirePendingReservations, Stale, IsExpired, CanTransition,
       AllowedTransitions, TypeOK

\* A row that moves along an edge stays consistent.
LEMMA TransitionedRowInv ==
    ASSUME NEW row \in RowType, RowInv(row), NEW target \in Statuses, NEW when \in Nat,
           CanTransition(row, target)
    PROVE  RowInv(Transitioned(row, target, when))
<1>. SUFFICES ASSUME NEW new, MovedTo(row, new, target, when) PROVE RowInv(new)
  BY TransitionedRow
<1>. USE DEF MovedTo
<1>1. row.status \in Statuses /\ row.decided \in BOOLEAN
  BY DEF CanTransition, AllowedTransitions, Statuses, RowType
<1>2. CASE target = "awaiting_host"
  <2>1. row.status = "pending_payment"
    BY <1>2 DEF CanTransition, AllowedTransitions
  <2>2. ~new.decided
    BY <1>2, <2>1 DEF RowInv
  <2>. QED  BY <1>2, <2>1, <2>2 DEF RowInv
<1>3. CASE target = "confirmed"
  <2>1. row.status = "awaiting_host"
    BY <1>3 DEF CanTransition, AllowedTransitions
  <2>. QED  BY <1>3, <2>1 DEF RowInv
<1>4. CASE target \in {"rejected", "cancelled"}
  BY <1>1, <1>4 DEF RowInv, Statuses
<1>5. target # "pending_payment"
  BY DEF CanTransition, AllowedTransitions
<1>. QED
  BY <1>2, <1>3, <1>4, <1>5 DEF Statuses

LEMMA RowsStep == TypeOK /\ RowsInv /\ [Next]_vars => RowsInv'
<1>. SUFFICES ASSUME TypeOK, RowsInv, [Next]_vars, NEW r \in Reservation
              PROVE  RowInv(rows'[r])
  BY DEF RowsInv, RowInv
<1>. USE DEF RowsInv
<1>t. rows[r] \in RowType /\ now \in Nat
  BY DEF TypeOK
<1>m. ASSUME NEW target \in Statuses, NEW q \in Reservation, Move(q, target)
      PROVE  RowInv(rows'[r])
  BY <1>m, <1>t, MoveTypeOK, TransitionedRowInv DEF Move
<1>1. CASE UNCHANGED rows
  BY <1>1
<1>2. ASSUME NEW q \in Reservation, NEW req \in Request, CreateReservation(q, req)
      PROVE  RowInv(rows'[r])
  <2>1. RowInv(PendingRow(req))
    BY <1>t, BookingAssumption DEF RowInv, PendingRow, RequestType, NoTime
  <2>. QED  BY <1>2, <2>1 DEF CreateReservation, TypeOK
<1>3. ASSUME NEW q \in Reservation, AdmitPaid(q) PROVE RowInv(rows'[r])
  BY <1>3, <1>m DEF AdmitPaid, Statuses
<1>4. ASSUME NEW q \in Reservation, NEW target \in {"confirmed", "rejected", "cancelled"},
             Move(q, target)
      PROVE  RowInv(rows'[r])
  BY <1>4, <1>m DEF Statuses
<1>5. CASE ExpirePendingReservations
  BY <1>5, <1>t, SweptRow, TransitionedRowInv DEF Statuses
<1>. QED  BY <1>1, <1>2, <1>3, <1>4, <1>5, RowSteps

-----------------------------------------------------------------------------
(* Windows                                                                 *)

LEMMA OverlapsSymmetric == \A a, b : Overlaps(a, b) <=> Overlaps(b, a)
BY DEF Overlaps

\* A row that is not created in the step keeps its window.  It is entitled to it
\* afterwards only if it was before, and committed afterwards only if it was before
\* or was admitted by the step.
LEMMA ClaimsShrink ==
    ASSUME TypeOK, RowsInv, [Next]_vars, NEW r \in Reservation,
           ~\E req \in Request : CreateReservation(r, req)
    PROVE  /\ rows'[r].garden = rows[r].garden
           /\ rows'[r].start_time = rows[r].start_time
           /\ rows'[r].end_time = rows[r].end_time
           /\ Entitled(rows[r])' => Entitled(rows[r])
           /\ Committed(rows'[r]) => Committed(rows[r]) \/ AdmitPaid(r)
<1>. DEFINE Kept == /\ rows'[r].garden = rows[r].garden
                    /\ rows'[r].start_time = rows[r].start_time
                    /\ rows'[r].end_time = rows[r].end_time
                    /\ Entitled(rows[r])' => Entitled(rows[r])
                    /\ Committed(rows'[r]) => Committed(rows[r]) \/ AdmitPaid(r)
<1>. SUFFICES Kept
  OBVIOUS
<1>t. /\ rows[r] \in RowType /\ RowInv(rows[r])
      /\ now \in Nat /\ TTL \in Nat
  BY BookingAssumption DEF TypeOK, RowsInv
<1>1. CASE UNCHANGED rows /\ now' \in Nat /\ now <= now'
  BY <1>1, <1>t DEF Entitled, LiveHold, RowInv, PaidInTime, Committed
<1>2. CASE UNCHANGED now /\ UNCHANGED rows[r]
  BY <1>2 DEF Entitled, LiveHold, PaidInTime, Committed
<1>3. ASSUME UNCHANGED now, AdmitPaid(r) PROVE Kept
  <2>1. Move(r, "awaiting_host")
    BY <1>3 DEF AdmitPaid
  <2>2. rows[r].status = "pending_payment"
    BY <2>1 DEF Move, CanTransition, AllowedTransitions
  <2>3. MovedTo(rows[r], rows'[r], "awaiting_host", now)
    BY <1>t, <2>1, MoveTypeOK, TransitionedRow DEF Move, Statuses
  <2>4. Entitled(rows[r])' => now < rows[r].created_at + TTL
    BY <1>3, <2>3 DEF Entitled, LiveHold, PaidInTime, MovedTo
  <2>5. Entitled(rows[r])' => Entitled(rows[r])
    BY <1>t, <2>2, <2>4 DEF RowInv, Entitled, LiveHold
  <2>. QED  BY <1>3, <2>3, <2>5 DEF MovedTo
<1>4. ASSUME UNCHANGED now, NEW target \in {"confirmed", "rejected", "cancelled"},
             CanTransition(rows[r], target),
             rows'[r] = Transitioned(rows[r], target, now)
      PROVE  Kept
  <2>1. MovedTo(rows[r], rows'[r], target, now)
    BY <1>t, <1>4, TransitionedRow DEF Statuses
  <2>2. CASE target = "confirmed"
    <3>1. rows[r].status = "awaiting_host"
      BY <1>4, <2>2 DEF CanTransition, AllowedTransitions
    <3>. QED
      BY <1>4, <2>1, <2>2, <3>1
         DEF MovedTo, Entitled, LiveHold, PaidInTime, Committed, BlockingStatuses
  <2>3. CASE target \in {"rejected", "cancelled"}
    BY <1>4, <2>1, <2>3 DEF MovedTo, Entitled, LiveHold, Committed, BlockingStatuses
  <2>. QED  BY <2>2, <2>3
<1>5. ASSUME UNCHANGED now, NEW q \in Reservation, NEW target \in Statuses, Move(q, target),
             q # r
      PROVE  Kept
  BY <1>2, <1>5, MoveTypeOK
<1>6. ASSUME NEW q \in Reservation, NEW req \in Request, CreateReservation(q, req)
      PROVE  Kept
  BY <1>2, <1>6 DEF CreateReservation, TypeOK
<1>7. ASSUME UNCHANGED now, NEW q \in Reservation, AdmitPaid(q) PROVE Kept
  BY <1>3, <1>5, <1>7 DEF AdmitPaid, Statuses
<1>8. ASSUME UNCHANGED now, NEW q \in Reservation,
             NEW target \in {"confirmed", "rejected", "cancelled"}, Move(q, target)
      PROVE  Kept
  BY <1>4, <1>5, <1>8, MoveTypeOK DEF Statuses, Move
<1>9. CASE UNCHANGED now /\ ExpirePendingReservations
  BY <1>2, <1>4, <1>9, SweptRow
<1>. QED  BY <1>1, <1>6, <1>7, <1>8, <1>9, RowSteps

\* What the lock on the garden buys: a new row does not overlap an entitled one.
LEMMA CreatedWindowFree ==
    ASSUME TypeOK, RowsInv, NEW r \in Reservation, NEW req \in Request,
           CreateReservation(r, req), NEW q \in Reservation \ {r}
    PROVE  /\ rows'[q] = rows[q]
           /\ UNCHANGED now
           /\ ~Committed(rows'[r])
           /\ Entitled(rows[q]) => ~Overlaps(rows'[q], rows'[r])
<1>1. rows'[q] = rows[q] /\ rows'[r] = PendingRow(req) /\ UNCHANGED now
  BY DEF CreateReservation, TypeOK
<1>2. Entitled(rows[q]) => ~Overlaps(rows[q], req)
  BY DEF CreateReservation, HasCollision, HoldsWindow, Entitled
<1>3. Overlaps(rows[q], PendingRow(req)) <=> Overlaps(rows[q], req)
  BY DEF Overlaps, PendingRow
<1>4. ~Committed(PendingRow(req))
  BY DEF Committed, BlockingStatuses, PendingRow
<1>. QED  BY <1>1, <1>2, <1>3, <1>4

LEMMA EntitledStep ==
    TypeOK /\ RowsInv /\ EntitledNeverOverlap /\ [Next]_vars => EntitledNeverOverlap'
<1>. SUFFICES ASSUME TypeOK, RowsInv, EntitledNeverOverlap, [Next]_vars,
                     NEW r \in Reservation, NEW q \in Reservation, r # q,
                     Entitled(rows[r])', Entitled(rows[q])'
              PROVE  ~Overlaps(rows'[r], rows'[q])
  BY DEF EntitledNeverOverlap
<1>1. ASSUME NEW a \in Reservation, NEW b \in Reservation, a # b,
             NEW req \in Request, CreateReservation(a, req), Entitled(rows[b])'
      PROVE  ~Overlaps(rows'[b], rows'[a])
  <2>1. Entitled(rows[b])
    BY <1>1, CreatedWindowFree DEF Entitled, LiveHold, PaidInTime, Committed
  <2>. QED  BY <1>1, <2>1, CreatedWindowFree
<1>2. CASE \E req \in Request : CreateReservation(r, req)
  BY <1>1, <1>2, OverlapsSymmetric
<1>3. CASE \E req \in Request : CreateReservation(q, req)
  BY <1>1, <1>3
<1>4. CASE /\ ~\E req \in Request : CreateReservation(r, req)
           /\ ~\E req \in Request : CreateReservation(q, req)
  <2>1. Entitled(rows[r]) /\ Entitled(rows[q])
    BY <1>4, ClaimsShrink
  <2>2. ~Overlaps(rows[r], rows[q])
    BY <2>1 DEF EntitledNeverOverlap
  <2>. QED  BY <1>4, <2>2, ClaimsShrink DEF Overlaps
<1>. QED  BY <1>2, <1>3, <1>4

\* Whoever is admitted was let in by the exclusion constraint.
LEMMA AdmittedWindowFree ==
    ASSUME TypeOK, NEW r \in Reservation, AdmitPaid(r), NEW q \in Reservation \ {r}
    PROVE  /\ rows'[q] = rows[q]
           /\ rows'[r].garden = rows[r].garden
           /\ rows'[r].start_time = rows[r].start_time
           /\ rows'[r].end_time = rows[r].end_time
           /\ Committed(rows[q]) => ~Overlaps(rows'[q], rows'[r])
<1>1. Move(r, "awaiting_host") /\ rows[r] \in RowType /\ now \in Nat
  BY DEF AdmitPaid, TypeOK
<1>2. rows'[q] = rows[q] /\ MovedTo(rows[r], rows'[r], "awaiting_host", now)
  BY <1>1, MoveTypeOK, TransitionedRow DEF Move, Statuses
<1>3. Committed(rows[q]) => ~Overlaps(rows[q], rows[r])
  BY DEF AdmitPaid, NoOverlapConstraint
<1>. QED  BY <1>2, <1>3 DEF MovedTo, Overlaps

LEMMA CommittedStep ==
    TypeOK /\ RowsInv /\ CommittedNeverOverlap /\ [Next]_vars => CommittedNeverOverlap'
<1>. SUFFICES ASSUME TypeOK, RowsInv, CommittedNeverOverlap, [Next]_vars,
                     NEW r \in Reservation, NEW q \in Reservation, r # q,
                     Committed(rows'[r]), Committed(rows'[q])
              PROVE  ~Overlaps(rows'[r], rows'[q])
  BY DEF CommittedNeverOverlap, Committed
<1>1. ASSUME NEW a \in Reservation, NEW b \in Reservation, a # b,
             NEW req \in Request, CreateReservation(a, req)
      PROVE  ~Committed(rows'[a])
  BY <1>1, CreatedWindowFree
<1>2. /\ ~\E req \in Request : CreateReservation(r, req)
      /\ ~\E req \in Request : CreateReservation(q, req)
  BY <1>1
<1>3. CASE AdmitPaid(r)
  <2>1. Committed(rows[q])
    BY <1>3, AdmittedWindowFree
  <2>. QED  BY <1>3, <2>1, AdmittedWindowFree, OverlapsSymmetric
<1>4. CASE AdmitPaid(q)
  <2>1. Committed(rows[r])
    BY <1>4, AdmittedWindowFree
  <2>. QED  BY <1>4, <2>1, AdmittedWindowFree
<1>5. CASE ~AdmitPaid(r) /\ ~AdmitPaid(q)
  <2>1. Committed(rows[r]) /\ Committed(rows[q])
    BY <1>2, <1>5, ClaimsShrink
  <2>2. ~Overlaps(rows[r], rows[q])
    BY <2>1 DEF CommittedNeverOverlap
  <2>. QED  BY <1>2, <2>2, ClaimsShrink DEF Overlaps
<1>. QED  BY <1>3, <1>4, <1>5

LEMMA RowsCorrect == Spec => [](TypeOK /\ RowsInv)
<1>1. Init => RowsInv
  BY DEF Init, RowsInv, RowInv, NoRow
<1>. QED  BY <1>1, TypeCorrect, RowsStep, PTL DEF Spec

\* No two reservations that are entitled to their windows overlap: neither two
\* unexpired holds, nor a hold and a booking paid in time, nor two such bookings.
THEOREM EntitledWindowsDisjoint == Spec => []EntitledNeverOverlap
<1>1. Init => EntitledNeverOverlap
  BY DEF Init, NoRow, EntitledNeverOverlap, Entitled, LiveHold, Committed, BlockingStatuses
<1>. QED  BY <1>1, RowsCorrect, EntitledStep, PTL DEF Spec

\* No two paid bookings of a garden overlap, late payers included.
THEOREM CommittedWindowsDisjoint == Spec => []CommittedNeverOverlap
<1>1. Init => CommittedNeverOverlap
  BY DEF Init, NoRow, CommittedNeverOverlap, Committed, BlockingStatuses
<1>. QED  BY <1>1, RowsCorrect, CommittedStep, PTL DEF Spec

-----------------------------------------------------------------------------
(* Money                                                                   *)

\* What StripeBacksTheLedger and RefundOwedIsMade say of one reservation; neither
\* is inductive without the other's facts.
Backed(r) ==
    /\ Committed(rows[r]) => payment[r] \in {"succeeded", "refunded"}
    /\ Committed(rows[r]) \/ payment[r] = "succeeded" => Charged(r)
    /\ payment[r] = "refunded" => charge[r] = "refunded"
    /\ RefundOwed(rows[r]) => charge[r] = "refunded"

LEMMA BackedMeans ==
    (\A r \in Reservation : Backed(r)) <=> (StripeBacksTheLedger /\ RefundOwedIsMade)
BY DEF Backed, StripeBacksTheLedger, RefundOwedIsMade

\* A step that leaves a reservation, its payment and its charge alone leaves it backed.
LEMMA BackedFrame ==
    ASSUME NEW r \in Reservation, Backed(r),
           rows'[r] = rows[r], payment'[r] = payment[r], charge'[r] = charge[r]
    PROVE  Backed(r)'
BY DEF Backed, Charged, Committed, RefundOwed

LEMMA BackedHostStep ==
    ASSUME TypeOK, RowsInv, NEW r \in Reservation, Backed(r), HostStep(r)
    PROVE  Backed(r)'
<1>t. rows[r] \in RowType /\ now \in Nat /\ RowInv(rows[r])
  BY DEF TypeOK, RowsInv
<1>1. CASE AcceptReservation(r)
  <2>1. rows[r].status = "awaiting_host"
    BY <1>1 DEF AcceptReservation, Move, CanTransition, AllowedTransitions
  <2>2. rows'[r].status = "confirmed"
    BY <1>1, <1>t, MoveTypeOK, TransitionedRow DEF AcceptReservation, Move, Statuses, MovedTo
  <2>. QED
    BY <1>1, <2>1, <2>2
       DEF AcceptReservation, Backed, Charged, Committed, BlockingStatuses, RefundOwed
<1>2. CASE RejectReservation(r)
  <2>1. Committed(rows[r])
    BY <1>2 DEF RejectReservation, Move, CanTransition, AllowedTransitions,
                Committed, BlockingStatuses
  <2>2. rows'[r].status = "rejected"
    BY <1>2, <1>t, MoveTypeOK, TransitionedRow DEF RejectReservation, Move, Statuses, MovedTo
  <2>3. payment'[r] = "refunded" /\ charge'[r] = "refunded"
    BY <1>2, <2>1 DEF RejectReservation, RefundIfPaid, GatewayRefund, Backed, TypeOK
  <2>. QED  BY <2>2, <2>3 DEF Backed, Charged, Committed, BlockingStatuses
<1>3. CASE RejectRolledBack(r)
  <2>1. charge'[r] = "refunded" /\ UNCHANGED <<rows, payment>>
    BY <1>3 DEF RejectRolledBack, RefundThenRollBack, GatewayRefund, TypeOK
  <2>. QED  BY <2>1 DEF Backed, Charged, Committed, RefundOwed
<1>. QED  BY <1>1, <1>2, <1>3 DEF HostStep

LEMMA BackedClientStep ==
    ASSUME TypeOK, RowsInv, NEW r \in Reservation, Backed(r), ClientStep(r)
    PROVE  Backed(r)'
<1>t. rows[r] \in RowType /\ now \in Nat /\ RowInv(rows[r])
  BY DEF TypeOK, RowsInv
<1>1. ASSUME NEW req \in Request, CreateReservation(r, req) PROVE Backed(r)'
  <2>1. rows'[r].status = "pending_payment" /\ UNCHANGED <<payment, charge>>
    BY <1>1 DEF CreateReservation, PendingRow, TypeOK
  <2>. QED
    BY <2>1 DEF Backed, Charged, Committed, BlockingStatuses, RefundOwed
<1>2. CASE StartPayment(r)
  <2>1. /\ UNCHANGED rows /\ rows[r].status = "pending_payment"
        /\ payment'[r] = IF payment[r] = "none" THEN "pending" ELSE payment[r]
        /\ charge'[r] = IF charge[r] = "none" THEN "open" ELSE charge[r]
        /\ payment[r] # "succeeded"
    BY <1>2 DEF StartPayment, TypeOK
  <2>. QED
    BY <2>1 DEF Backed, Charged, Committed, BlockingStatuses, RefundOwed
<1>3. CASE CancelReservation(r)
  <2>1. /\ MovedTo(rows[r], rows'[r], "cancelled", now)
        /\ CanTransition(rows[r], "cancelled")
    BY <1>3, <1>t, MoveTypeOK, TransitionedRow DEF CancelReservation, Move, Statuses
  <2>2. /\ ~Committed(rows'[r])
        /\ rows'[r].paid_at = rows[r].paid_at
        /\ rows'[r].start_time = rows[r].start_time
        /\ rows'[r].decided = rows[r].decided
        /\ rows'[r].cancelled_at = now
    BY <2>1 DEF MovedTo, Committed, BlockingStatuses
  <2>3. RefundOwed(rows'[r]) => Committed(rows[r]) /\ ShouldRefundOnCancel(rows[r], now)
    <3>1. CASE rows[r].status = "pending_payment"
      BY <1>t, <2>1, <2>2, <3>1 DEF RefundOwed, RowInv, MovedTo
    <3>2. CASE rows[r].status = "awaiting_host"
      BY <3>2 DEF ShouldRefundOnCancel, Committed, BlockingStatuses
    <3>3. CASE rows[r].status = "confirmed"
      BY <1>t, <2>1, <2>2, <3>3
         DEF RefundOwed, RowInv, MovedTo, ShouldRefundOnCancel, Committed, BlockingStatuses
    <3>. QED  BY <2>1, <3>1, <3>2, <3>3 DEF CanTransition, AllowedTransitions
  <2>4. CASE ShouldRefundOnCancel(rows[r], now) /\ payment[r] = "succeeded"
    <3>1. payment'[r] = "refunded" /\ charge'[r] = "refunded"
      BY <1>3, <2>4 DEF CancelReservation, RefundIfPaid, GatewayRefund, TypeOK
    <3>. QED  BY <2>2, <3>1 DEF Backed, Charged
  <2>5. CASE ~(ShouldRefundOnCancel(rows[r], now) /\ payment[r] = "succeeded")
    <3>1. UNCHANGED <<payment, charge>>
      BY <1>3, <2>5 DEF CancelReservation, RefundIfPaid
    <3>. QED  BY <2>2, <2>3, <2>5, <3>1 DEF Backed, Charged
  <2>. QED  BY <2>4, <2>5
<1>4. CASE CancelRolledBack(r)
  <2>1. charge'[r] = "refunded" /\ UNCHANGED <<rows, payment>>
    BY <1>4 DEF CancelRolledBack, RefundThenRollBack, GatewayRefund, TypeOK
  <2>. QED  BY <2>1 DEF Backed, Charged, Committed, RefundOwed
<1>. QED  BY <1>1, <1>2, <1>3, <1>4 DEF ClientStep

LEMMA BackedStripeStep ==
    ASSUME TypeOK, NEW r \in Reservation, Backed(r), StripeStep(r) \/ WebhookStep(r)
    PROVE  Backed(r)'
<1>t. rows[r] \in RowType /\ now \in Nat
  BY DEF TypeOK
<1>1. CASE CardCharged(r)
  <2>1. /\ charge[r] = "open" /\ charge'[r] = "paid"
        /\ UNCHANGED <<rows, payment>>
    BY <1>1 DEF CardCharged, TypeOK
  <2>. QED  BY <2>1 DEF Backed, Charged, Committed, RefundOwed
<1>2. CASE MarkSucceeded(r) /\ payment[r] \in {"none", "succeeded"}
  BY <1>2, BackedFrame DEF MarkSucceeded
<1>3. CASE MarkSucceeded(r) /\ payment[r] \notin {"none", "succeeded"}
  <2>1. payment'[r] = "succeeded" /\ UNCHANGED charge /\ Charged(r)
    BY <1>3 DEF MarkSucceeded, TypeOK
  <2>2. UNCHANGED rows \/ Move(r, "awaiting_host")
    BY <1>3 DEF MarkSucceeded, AdmitPaid
  <2>3. RefundOwed(rows'[r]) => RefundOwed(rows[r])
    <3>1. ASSUME Move(r, "awaiting_host") PROVE rows'[r].status = "awaiting_host"
      <4>1. rows'[r] = Transitioned(rows[r], "awaiting_host", now)
        BY <3>1, MoveTypeOK DEF Statuses
      <4>2. MovedTo(rows[r], rows'[r], "awaiting_host", now)
        BY <1>t, <3>1, <4>1, TransitionedRow DEF Move, Statuses
      <4>. QED  BY <4>2 DEF MovedTo
    <3>. QED  BY <2>2, <3>1 DEF RefundOwed
  <2>. QED  BY <2>1, <2>3 DEF Backed, Charged
<1>4. CASE MarkFailed(r)
  <2>1. /\ UNCHANGED <<rows, charge>>
        /\ payment'[r] = IF payment[r] \in {"none", "succeeded", "refunded"}
                         THEN payment[r] ELSE "failed"
    BY <1>4 DEF MarkFailed, TypeOK
  <2>. QED  BY <2>1 DEF Backed, Charged, Committed, RefundOwed
<1>5. CASE MarkRefunded(r)
  <2>1. /\ UNCHANGED <<rows, charge>> /\ charge[r] = "refunded"
        /\ payment'[r] = IF payment[r] = "none" THEN "none" ELSE "refunded"
    BY <1>5 DEF MarkRefunded, TypeOK
  <2>. QED  BY <2>1 DEF Backed, Charged, Committed, RefundOwed
<1>. QED
  BY <1>1, <1>2, <1>3, <1>4, <1>5 DEF StripeStep, WebhookStep

LEMMA BackedSweep ==
    ASSUME TypeOK, RowsInv, NEW r \in Reservation, Backed(r), ExpirePendingReservations
    PROVE  Backed(r)'
<1>1. UNCHANGED <<payment, charge>>
  BY DEF ExpirePendingReservations
<1>2. CASE rows'[r] = rows[r]
  BY <1>1, <1>2, BackedFrame
<1>3. CASE /\ CanTransition(rows[r], "cancelled")
           /\ rows[r].status = "pending_payment"
           /\ rows'[r] = Transitioned(rows[r], "cancelled", now)
  <2>1. MovedTo(rows[r], rows'[r], "cancelled", now)
    BY <1>3, TransitionedRow DEF TypeOK, Statuses
  <2>2. rows[r].paid_at = NoTime
    BY <1>3 DEF RowsInv, RowInv
  <2>3. ~Committed(rows'[r]) /\ ~RefundOwed(rows'[r])
    BY <2>1, <2>2 DEF MovedTo, Committed, BlockingStatuses, RefundOwed
  <2>. QED  BY <1>1, <2>3 DEF Backed, Charged
<1>. QED  BY <1>2, <1>3, SweptRow

\* The operations on one reservation leave the others alone.
LEMMA OthersUntouched ==
    ASSUME TypeOK, NEW q \in Reservation, NEW r \in Reservation, q # r,
           HostStep(q) \/ ClientStep(q) \/ StripeStep(q) \/ WebhookStep(q)
    PROVE  rows'[r] = rows[r] /\ payment'[r] = payment[r] /\ charge'[r] = charge[r]
<1>. USE DEF TypeOK, Move, RefundIfPaid, GatewayRefund, RefundThenRollBack
<1>1. CASE HostStep(q)
  BY <1>1 DEF HostStep, AcceptReservation, RejectReservation, RejectRolledBack
<1>2. CASE ClientStep(q)
  BY <1>2 DEF ClientStep, CreateReservation, StartPayment, CancelReservation, CancelRolledBack
<1>3. CASE StripeStep(q)
  BY <1>3 DEF StripeStep, CardCharged
<1>4. CASE WebhookStep(q)
  BY <1>4 DEF WebhookStep, MarkSucceeded, MarkFailed, MarkRefunded, AdmitPaid
<1>. QED  BY <1>1, <1>2, <1>3, <1>4

LEMMA MoneyStep ==
    /\ TypeOK /\ RowsInv /\ [Next]_vars
    /\ StripeBacksTheLedger /\ RefundOwedIsMade
    => (StripeBacksTheLedger /\ RefundOwedIsMade)'
<1>. SUFFICES ASSUME TypeOK, RowsInv, [Next]_vars,
                     \A q \in Reservation : Backed(q),
                     NEW r \in Reservation
              PROVE  Backed(r)'
  BY BackedMeans DEF Backed, StripeBacksTheLedger, RefundOwedIsMade,
                     Charged, Committed, RefundOwed
<1>1. CASE Tick
  BY <1>1, BackedFrame DEF Tick
<1>2. CASE ExpirePendingReservations
  BY <1>2, BackedSweep
<1>3. ASSUME NEW g \in Garden, ModerateGarden(g) PROVE Backed(r)'
  BY <1>3, BackedFrame DEF ModerateGarden
<1>4. ASSUME NEW q \in Reservation,
             HostStep(q) \/ ClientStep(q) \/ StripeStep(q) \/ WebhookStep(q)
      PROVE  Backed(r)'
  <2>1. CASE q = r
    BY <1>4, <2>1, BackedHostStep, BackedClientStep, BackedStripeStep
  <2>2. CASE q # r
    BY <1>4, <2>2, OthersUntouched, BackedFrame
  <2>. QED  BY <2>1, <2>2
<1>5. CASE UNCHANGED vars
  BY <1>5, BackedFrame DEF vars
<1>. QED  BY <1>1, <1>2, <1>3, <1>4, <1>5 DEF Next

LEMMA MoneyCorrect == Spec => [](StripeBacksTheLedger /\ RefundOwedIsMade)
<1>1. Init => StripeBacksTheLedger /\ RefundOwedIsMade
  BY DEF Init, NoRow, StripeBacksTheLedger, RefundOwedIsMade, Committed,
         BlockingStatuses, RefundOwed, NoTime
<1>. QED  BY <1>1, RowsCorrect, MoneyStep, PTL DEF Spec

\* No booking occupies its window unpaid, and the ledger never claims a charge or a
\* refund that Stripe did not make, whatever the order of the webhooks.
THEOREM LedgerBackedByStripe == Spec => []StripeBacksTheLedger
BY MoneyCorrect, PTL

\* Every refund the cancellation policy owes for a paid booking has been made at
\* Stripe by the time the decision is in the database.
THEOREM OwedRefundsMade == Spec => []RefundOwedIsMade
BY MoneyCorrect, PTL

-----------------------------------------------------------------------------
(* Invoices                                                                *)

\* A step that admits nobody numbers no invoice.
LEMMA NumbersKept ==
    ASSUME [Next]_vars, ~\E r \in Reservation : AdmitPaid(r)
    PROVE  UNCHANGED <<invoice, last_number>>
<1>1. CASE Tick
  BY <1>1 DEF Tick
<1>2. CASE ExpirePendingReservations
  BY <1>2 DEF ExpirePendingReservations
<1>3. ASSUME NEW g \in Garden, ModerateGarden(g) PROVE UNCHANGED <<invoice, last_number>>
  BY <1>3 DEF ModerateGarden
<1>4. ASSUME NEW r \in Reservation, HostStep(r) PROVE UNCHANGED <<invoice, last_number>>
  BY <1>4 DEF HostStep, AcceptReservation, RejectReservation, RejectRolledBack,
              RefundThenRollBack
<1>5. ASSUME NEW r \in Reservation, ClientStep(r) PROVE UNCHANGED <<invoice, last_number>>
  BY <1>5 DEF ClientStep, CreateReservation, StartPayment, CancelReservation,
              CancelRolledBack, RefundThenRollBack
<1>6. ASSUME NEW r \in Reservation, StripeStep(r) PROVE UNCHANGED <<invoice, last_number>>
  BY <1>6 DEF StripeStep, CardCharged
<1>7. ASSUME NEW r \in Reservation, WebhookStep(r) PROVE UNCHANGED <<invoice, last_number>>
  BY <1>7 DEF WebhookStep, MarkSucceeded, MarkFailed, MarkRefunded
<1>8. CASE UNCHANGED vars
  BY <1>8 DEF vars
<1>. QED
  BY <1>1, <1>2, <1>3, <1>4, <1>5, <1>6, <1>7, <1>8 DEF Next

\* A step that admits nobody leaves every paid_at as it was.
LEMMA PaidAtKept ==
    ASSUME TypeOK, RowsInv, [Next]_vars, ~\E q \in Reservation : AdmitPaid(q),
           NEW r \in Reservation
    PROVE  rows'[r].paid_at = rows[r].paid_at
<1>t. rows[r] \in RowType /\ now \in Nat /\ RowInv(rows[r])
  BY DEF TypeOK, RowsInv
<1>1. CASE UNCHANGED rows
  BY <1>1
<1>2. ASSUME NEW q \in Reservation, NEW req \in Request, CreateReservation(q, req)
      PROVE  rows'[r].paid_at = rows[r].paid_at
  <2>1. CASE q = r
    BY <1>2, <2>1, <1>t DEF CreateReservation, PendingRow, RowInv, TypeOK
  <2>2. CASE q # r
    BY <1>2, <2>2 DEF CreateReservation, TypeOK
  <2>. QED  BY <2>1, <2>2
<1>3. ASSUME NEW target \in {"confirmed", "rejected", "cancelled"},
             CanTransition(rows[r], target),
             rows'[r] = Transitioned(rows[r], target, now)
      PROVE  rows'[r].paid_at = rows[r].paid_at
  <2>1. MovedTo(rows[r], rows'[r], target, now)
    BY <1>t, <1>3, TransitionedRow DEF Statuses
  <2>. QED  BY <2>1 DEF MovedTo
<1>4. ASSUME NEW q \in Reservation,
             NEW target \in {"confirmed", "rejected", "cancelled"}, Move(q, target)
      PROVE  rows'[r].paid_at = rows[r].paid_at
  BY <1>3, <1>4, MoveTypeOK DEF Statuses, Move
<1>5. CASE ExpirePendingReservations
  BY <1>3, <1>5, SweptRow
<1>. QED  BY <1>1, <1>2, <1>4, <1>5, RowSteps

\* Whoever is admitted had no invoice and gets the next number.
LEMMA AdmittedNumbered ==
    ASSUME TypeOK, RowsInv, InvoicesNumberPaidReservations,
           NEW q \in Reservation, AdmitPaid(q)
    PROVE  /\ invoice[q] = 0
           /\ last_number' = last_number + 1
           /\ invoice' = [invoice EXCEPT ![q] = last_number + 1]
           /\ rows'[q].paid_at # NoTime
           /\ \A r \in Reservation \ {q} : rows'[r] = rows[r]
<1>t. rows[q] \in RowType /\ now \in Nat /\ RowInv(rows[q])
  BY DEF TypeOK, RowsInv
<1>1. Move(q, "awaiting_host")
  BY DEF AdmitPaid
<1>2. rows[q].status = "pending_payment"
  BY <1>1 DEF Move, CanTransition, AllowedTransitions
<1>3. invoice[q] = 0
  BY <1>2, <1>t DEF InvoicesNumberPaidReservations, RowInv
<1>4. /\ last_number' = last_number + 1
      /\ invoice' = [invoice EXCEPT ![q] = last_number + 1]
  BY <1>3 DEF AdmitPaid, GenerateInvoice
<1>5. MovedTo(rows[q], rows'[q], "awaiting_host", now)
  BY <1>t, <1>1, MoveTypeOK, TransitionedRow DEF Move, Statuses
<1>6. rows'[q].paid_at # NoTime
  BY <1>t, <1>5 DEF MovedTo, NoTime
<1>. QED  BY <1>1, <1>3, <1>4, <1>6, MoveTypeOK DEF Statuses

LEMMA InvoicesStep ==
    TypeOK /\ RowsInv /\ InvoicesNumberPaidReservations /\ [Next]_vars
    => InvoicesNumberPaidReservations'
<1>. SUFFICES ASSUME TypeOK, RowsInv, InvoicesNumberPaidReservations, [Next]_vars
              PROVE  InvoicesNumberPaidReservations'
  OBVIOUS
<1>. DEFINE Numbers == {invoice[r] : r \in Reservation}
<1>t. invoice \in [Reservation -> Nat] /\ last_number \in Nat
  BY DEF TypeOK
<1>1. CASE ~\E q \in Reservation : AdmitPaid(q)
  <2>1. UNCHANGED <<invoice, last_number>>
    BY <1>1, NumbersKept
  <2>2. \A r \in Reservation : rows'[r].paid_at = rows[r].paid_at
    BY <1>1, PaidAtKept
  <2>. QED  BY <2>1, <2>2 DEF InvoicesNumberPaidReservations
<1>2. ASSUME NEW q \in Reservation, AdmitPaid(q)
      PROVE  InvoicesNumberPaidReservations'
  <2>1. /\ invoice[q] = 0
        /\ last_number' = last_number + 1
        /\ invoice' = [invoice EXCEPT ![q] = last_number + 1]
        /\ rows'[q].paid_at # NoTime
        /\ \A r \in Reservation \ {q} : rows'[r] = rows[r]
    BY <1>2, AdmittedNumbered
  <2>2. \A r \in Reservation : invoice[r] <= last_number
    BY <1>t DEF InvoicesNumberPaidReservations
  <2>3. \A r \in Reservation :
            invoice'[r] = IF r = q THEN last_number + 1 ELSE invoice[r]
    BY <1>t, <2>1
  <2>4. \A r \in Reservation : invoice'[r] # 0 <=> rows'[r].paid_at # NoTime
    BY <1>t, <2>1, <2>3 DEF InvoicesNumberPaidReservations
  <2>5. \A r, p \in Reservation : r # p /\ invoice'[r] # 0 => invoice'[r] # invoice'[p]
    BY <1>t, <2>2, <2>3 DEF InvoicesNumberPaidReservations
  <2>6. ASSUME NEW n \in 1 .. last_number'
        PROVE  \E r \in Reservation : n = invoice'[r]
    <3>1. CASE n = last_number + 1
      BY <2>3, <3>1
    <3>2. CASE n \in 1 .. last_number
      <4>1. PICK r \in Reservation : n = invoice[r]
        BY <3>2 DEF InvoicesNumberPaidReservations
      <4>2. r # q
        BY <2>1, <3>2, <4>1
      <4>. QED  BY <2>3, <4>1, <4>2
    <3>. QED  BY <1>t, <2>1, <3>1, <3>2
  <2>7. ASSUME NEW r \in Reservation, invoice'[r] # 0
        PROVE  invoice'[r] \in 1 .. last_number'
    BY <1>t, <2>1, <2>2, <2>3, <2>7
  <2>8. {invoice'[r] : r \in Reservation} \ {0} = 1 .. last_number'
    BY <1>t, <2>1, <2>6, <2>7
  <2>. QED  BY <2>4, <2>5, <2>8 DEF InvoicesNumberPaidReservations
<1>. QED  BY <1>1, <1>2

\* The reservations admitted as paid, and no others, have invoices, numbered from
\* one with no gap and no number twice.
THEOREM InvoicesGapFree == Spec => []InvoicesNumberPaidReservations
<1>1. Init => InvoicesNumberPaidReservations
  BY DEF Init, NoRow, InvoicesNumberPaidReservations
<1>. QED  BY <1>1, RowsCorrect, InvoicesStep, PTL DEF Spec

-----------------------------------------------------------------------------
(* Webhooks                                                                *)

\* A webhook of a reservation that was admitted once neither moves it again nor
\* numbers anything, however often and in whatever order it comes.
THEOREM RedeliveryHarmless == Spec => RedeliveryMovesNoReservation
<1>. DEFINE Harmless ==
        \A r \in Reservation : LateDelivery(r) => UNCHANGED <<rows, invoice, last_number>>
<1>1. ASSUME RowsInv PROVE Harmless
  <2>. SUFFICES ASSUME NEW r \in Reservation, LateDelivery(r)
                PROVE  UNCHANGED <<rows, invoice, last_number>>
    OBVIOUS
  <2>1. rows[r].status # "pending_payment"
    BY <1>1 DEF LateDelivery, RowsInv, RowInv
  <2>. QED  BY <2>1 DEF LateDelivery, MarkSucceeded, MarkFailed
<1>2. RowsInv => [Harmless]_vars
  BY <1>1
<1>. HIDE DEF Harmless
<1>3. Spec => [][Harmless]_vars
  BY <1>2, RowsCorrect, PTL
<1>. QED  BY <1>3 DEF Harmless, RedeliveryMovesNoReservation

-----------------------------------------------------------------------------
(* Booking implements SlotContract: every step of the backend, of Stripe   *)
(* and of the clock is a step of the contract or leaves its state alone.   *)

\* The refinement mapping of BookingProperties, by name.
PhaseMap == [r \in Reservation |-> PhaseAt(rows[r], now)]
SlotOf(row) == IF row.status = "absent" THEN {} ELSE Cells(row)
SlotMap == [r \in Reservation |-> SlotOf(rows[r])]

\* The overlap query of the selectors compares bounds; the contract intersects sets.
LEMMA DisjointCells ==
    ASSUME NEW a, NEW b, a.start_time \in Nat, a.end_time \in Nat,
           b.start_time \in Nat, b.end_time \in Nat, ~Overlaps(a, b)
    PROVE  Cells(a) \cap Cells(b) = {}
<1>. SUFFICES ASSUME NEW c \in Cells(a), c \in Cells(b) PROVE FALSE
  OBVIOUS
<1>1. /\ c[1] = a.garden /\ c[2] \in a.start_time .. a.end_time - 1
      /\ c[1] = b.garden /\ c[2] \in b.start_time .. b.end_time - 1
  BY DEF Cells
<1>. QED  BY <1>1 DEF Overlaps

\* The phase of a row is read off its status and, for a hold, the clock.
LEMMA PhaseOfStatus ==
    ASSUME NEW row \in RowType, NEW at
    PROVE  /\ row.status = "absent" <=> PhaseAt(row, at) = "absent"
           /\ LiveHold(row, at) <=> PhaseAt(row, at) = "held"
           /\ row.status = "pending_payment" /\ ~LiveHold(row, at) <=> PhaseAt(row, at) = "lapsed"
           /\ Committed(row) <=> PhaseAt(row, at) = "occupying"
           /\ row.status \in {"rejected", "cancelled"} <=> PhaseAt(row, at) = "gone"
<1>1. row.status \in Statuses \cup {"absent"}
  BY DEF RowType
<1>. QED
  BY <1>1 DEF PhaseAt, LiveHold, Committed, BlockingStatuses, Statuses

\* A row that keeps its window and stays in the table keeps its cells.
LEMMA SameSlot ==
    ASSUME NEW row, NEW new, row.garden = new.garden,
           row.start_time = new.start_time, row.end_time = new.end_time,
           row.status = "absent" <=> new.status = "absent"
    PROVE  SlotOf(new) = SlotOf(row)
BY DEF SlotOf, Cells

\* The clock moves: unexpired holds lapse, nothing else changes.
LEMMA ClockLapses ==
    ASSUME TypeOK, UNCHANGED rows, now' \in Nat, now <= now'
    PROVE  [Contract!Next]_(Contract!vars)
<1>. DEFINE R == {r \in Reservation : LiveHold(rows[r], now) /\ ~LiveHold(rows[r], now')}
<1>t. \A r \in Reservation : rows[r] \in RowType /\ rows[r].expires_at \in Int
  BY DEF TypeOK, RowType, Time, NoTime
<1>1. R \subseteq Contract!In({"held"})
  BY <1>t, PhaseOfStatus DEF Contract!In
<1>2. ASSUME NEW r \in Reservation
      PROVE  PhaseAt(rows[r], now)' = IF r \in R THEN "lapsed" ELSE PhaseAt(rows[r], now)
  <2>1. rows'[r] = rows[r] /\ rows[r] \in RowType /\ now \in Nat
    BY <1>t DEF TypeOK
  <2>2. PhaseAt(rows[r], now)' = PhaseAt(rows[r], now')
    BY <2>1
  <2>3. CASE r \in R
    <3>1. rows[r].status = "pending_payment" /\ ~LiveHold(rows[r], now')
      BY <2>3 DEF LiveHold
    <3>. QED  BY <2>1, <2>2, <2>3, <3>1, PhaseOfStatus
  <2>4. CASE r \notin R
    <3>1. LiveHold(rows[r], now') <=> LiveHold(rows[r], now)
      BY <1>t, <2>1, <2>4 DEF LiveHold
    <3>2. PhaseAt(rows[r], now') = PhaseAt(rows[r], now)
      <4>1. rows[r].status \in Statuses \cup {"absent"}
        BY <2>1 DEF RowType
      <4>. QED
        BY <2>1, <3>1, <4>1, PhaseOfStatus DEF Statuses, Committed, BlockingStatuses
    <3>. QED  BY <2>2, <2>4, <3>2
  <2>. QED  BY <2>3, <2>4
<1>3. SlotMap' = SlotMap
  BY DEF SlotMap, SlotOf
<1>4. Contract!Lapse(R)
  BY <1>1, <1>2, <1>3 DEF Contract!Lapse, SlotMap, SlotOf
<1>. QED  BY <1>4 DEF Contract!Next

\* A reservation is created: somebody asks for cells nobody holds or occupies.
LEMMA CreateAsks ==
    ASSUME TypeOK, RowsInv, NEW r \in Reservation, NEW req \in Request,
           CreateReservation(r, req)
    PROVE  Contract!Next
<1>t. /\ now \in Nat /\ TTL \in Nat \ {0}
      /\ req.start_time \in Nat /\ req.end_time \in Nat
      /\ \A q \in Reservation : rows[q] \in RowType /\ RowInv(rows[q])
  BY BookingAssumption DEF TypeOK, RowsInv, RequestType
<1>1. /\ rows[r].status = "absent"
      /\ rows' = [rows EXCEPT ![r] = PendingRow(req)]
      /\ UNCHANGED now
  BY DEF CreateReservation
<1>2. PhaseAt(rows[r], now) = "absent" /\ PhaseAt(rows[r], now)' = "held"
  <2>1. rows'[r] = PendingRow(req)
    BY <1>1 DEF TypeOK
  <2>2. LiveHold(rows'[r], now')
    BY <1>1, <1>t, <2>1 DEF LiveHold, PendingRow
  <2>3. rows'[r] \in RowType
    BY TypeStep DEF TypeOK, Next, ClientStep
  <2>. QED  BY <1>t, <1>1, <2>2, <2>3, PhaseOfStatus
<1>3. \A q \in Reservation \ {r} : rows'[q] = rows[q] /\ PhaseAt(rows[q], now)' = PhaseAt(rows[q], now)
  BY <1>1 DEF TypeOK, PhaseAt, LiveHold, Committed
<1>4. Contract!Free(Cells(req), {"held", "occupying"})
  <2>. SUFFICES ASSUME NEW q \in Reservation, PhaseAt(rows[q], now) \in {"held", "occupying"}
                PROVE  SlotOf(rows[q]) \cap Cells(req) = {}
    BY DEF Contract!Free, Contract!In, SlotOf
  <2>1. HoldsWindow(rows[q], now)
    BY <1>t, PhaseOfStatus DEF HoldsWindow
  <2>2. ~Overlaps(rows[q], req)
    BY <2>1 DEF CreateReservation, HasCollision
  <2>3. rows[q].status # "absent"
    BY <1>t, PhaseOfStatus
  <2>4. rows[q].start_time \in Nat /\ rows[q].end_time \in Nat
    BY <1>t, <2>3 DEF RowInv
  <2>. QED  BY <1>t, <2>2, <2>3, <2>4, DisjointCells DEF SlotOf
<1>5. PhaseMap' = [PhaseMap EXCEPT ![r] = "held"]
  BY <1>2, <1>3 DEF PhaseMap
<1>6. SlotMap' = [SlotMap EXCEPT ![r] = Cells(req)]
  <2>1. SlotOf(rows'[r]) = Cells(req)
    BY <1>1 DEF TypeOK, PendingRow, SlotOf, Cells
  <2>. QED  BY <1>3, <2>1 DEF SlotMap
<1>7. Cells(req) \in SUBSET UNION {Cells(q) : q \in Request}
  OBVIOUS
<1>8. Contract!Ask(r, Cells(req))
  BY <1>2, <1>4, <1>5, <1>6 DEF Contract!Ask, PhaseMap, SlotMap, SlotOf
<1>. QED  BY <1>7, <1>8 DEF Contract!Next


\* A row that moves along an edge keeps its cells.
LEMMA MovedSlot ==
    ASSUME NEW row \in RowType, NEW new, NEW target \in Statuses,
           CanTransition(row, target), MovedTo(row, new, target, now)
    PROVE  SlotOf(new) = SlotOf(row)
<1>1. row.status # "absent" /\ new.status # "absent"
  BY DEF CanTransition, AllowedTransitions, MovedTo, Statuses
<1>. QED  BY <1>1, SameSlot DEF MovedTo

\* A payment is admitted: a holder, in time or late, occupies free cells.
LEMMA AdmitOccupies ==
    ASSUME TypeOK, RowsInv, NEW r \in Reservation, AdmitPaid(r), UNCHANGED now
    PROVE  Contract!Next
<1>t. now \in Nat /\ \A q \in Reservation : rows[q] \in RowType /\ RowInv(rows[q])
  BY DEF TypeOK, RowsInv
<1>1. Move(r, "awaiting_host") /\ CanTransition(rows[r], "awaiting_host")
  BY DEF AdmitPaid, Move
<1>2. rows[r].status = "pending_payment"
  BY <1>1 DEF CanTransition, AllowedTransitions
<1>3. /\ \A q \in Reservation \ {r} : rows'[q] = rows[q]
      /\ MovedTo(rows[r], rows'[r], "awaiting_host", now)
  BY <1>t, <1>1, MoveTypeOK, TransitionedRow DEF Statuses
<1>4. PhaseAt(rows[r], now) \in {"held", "lapsed"}
  BY <1>t, <1>2, PhaseOfStatus
<1>5. PhaseAt(rows'[r], now) = "occupying"
  BY <1>3, PhaseOfStatus DEF MovedTo, Committed, BlockingStatuses
<1>6. Contract!Free(SlotOf(rows[r]), {"occupying"})
  <2>. SUFFICES ASSUME NEW q \in Reservation, PhaseAt(rows[q], now) = "occupying"
                PROVE  SlotOf(rows[q]) \cap SlotOf(rows[r]) = {}
    BY DEF Contract!Free, Contract!In, SlotOf
  <2>1. Committed(rows[q]) /\ q # r
    BY <1>t, <1>4, PhaseOfStatus
  <2>2. ~Overlaps(rows[q], rows[r])
    BY <2>1 DEF AdmitPaid, NoOverlapConstraint
  <2>3. rows[q].status # "absent"
    BY <2>1 DEF Committed, BlockingStatuses
  <2>. QED  BY <1>t, <1>2, <2>2, <2>3, DisjointCells DEF SlotOf, RowInv
<1>7. PhaseMap' = [PhaseMap EXCEPT ![r] = "occupying"]
  BY <1>3, <1>5 DEF PhaseMap
<1>8. SlotMap' = SlotMap
  <2>1. SlotOf(rows'[r]) = SlotOf(rows[r])
    BY <1>t, <1>1, <1>3, MovedSlot DEF Statuses
  <2>. QED  BY <1>3, <2>1 DEF SlotMap
<1>9. Contract!Occupy(r)
  BY <1>4, <1>6, <1>7, <1>8 DEF Contract!Occupy, PhaseMap, SlotMap, SlotOf
<1>. QED  BY <1>9 DEF Contract!Next

\* Rows that are rejected or cancelled leave; the others do not move.
LEMMA LeaversLeave ==
    ASSUME TypeOK, UNCHANGED now, NEW R \in SUBSET Reservation,
           \A r \in Reservation \ R : rows'[r] = rows[r],
           \A r \in R : \E target \in {"rejected", "cancelled"} :
                /\ CanTransition(rows[r], target)
                /\ rows'[r] = Transitioned(rows[r], target, now)
    PROVE  Contract!Next
<1>t. now \in Nat /\ \A q \in Reservation : rows[q] \in RowType
  BY DEF TypeOK
<1>1. ASSUME NEW r \in R
      PROVE  /\ PhaseAt(rows[r], now) \in {"held", "lapsed", "occupying"}
             /\ PhaseAt(rows'[r], now) = "gone"
             /\ SlotOf(rows'[r]) = SlotOf(rows[r])
  <2>1. PICK target \in {"rejected", "cancelled"} :
            /\ CanTransition(rows[r], target)
            /\ rows'[r] = Transitioned(rows[r], target, now)
    OBVIOUS
  <2>2. MovedTo(rows[r], rows'[r], target, now)
    BY <1>t, <2>1, TransitionedRow DEF Statuses
  <2>3. Committed(rows[r]) \/ rows[r].status = "pending_payment"
    BY <2>1 DEF CanTransition, AllowedTransitions, Committed, BlockingStatuses
  <2>4. PhaseAt(rows[r], now) \in {"held", "lapsed", "occupying"}
    BY <1>t, <2>3, PhaseOfStatus
  <2>5. PhaseAt(rows'[r], now) = "gone"
    BY <2>2, PhaseOfStatus DEF MovedTo
  <2>6. SlotOf(rows'[r]) = SlotOf(rows[r])
    BY <1>t, <2>1, <2>2, MovedSlot DEF Statuses
  <2>. QED  BY <2>4, <2>5, <2>6
<1>2. R \subseteq Contract!In({"held", "lapsed", "occupying"})
  BY <1>1 DEF Contract!In
<1>3. PhaseMap' = [r \in Reservation |-> IF r \in R THEN "gone" ELSE PhaseMap[r]]
  BY <1>1 DEF PhaseMap
<1>4. SlotMap' = SlotMap
  BY <1>1 DEF SlotMap
<1>5. Contract!Leave(R)
  BY <1>2, <1>3, <1>4 DEF Contract!Leave, PhaseMap, SlotMap, SlotOf
<1>. QED  BY <1>5 DEF Contract!Next

\* The host accepts: the cells stay occupied.
LEMMA AcceptStutters ==
    ASSUME TypeOK, UNCHANGED now, NEW r \in Reservation, Move(r, "confirmed")
    PROVE  UNCHANGED Contract!vars
<1>t. now \in Nat /\ rows[r] \in RowType
  BY DEF TypeOK
<1>1. /\ CanTransition(rows[r], "confirmed")
      /\ \A q \in Reservation \ {r} : rows'[q] = rows[q]
      /\ MovedTo(rows[r], rows'[r], "confirmed", now)
  BY <1>t, MoveTypeOK, TransitionedRow DEF Move, Statuses
<1>2. Committed(rows[r]) /\ Committed(rows'[r])
  BY <1>1 DEF CanTransition, AllowedTransitions, MovedTo, Committed, BlockingStatuses
<1>3. PhaseAt(rows[r], now) = "occupying" /\ PhaseAt(rows'[r], now) = "occupying"
  BY <1>t, <1>1, <1>2, PhaseOfStatus DEF MovedTo
<1>4. SlotOf(rows'[r]) = SlotOf(rows[r])
  BY <1>t, <1>1, MovedSlot DEF Statuses
<1>5. PhaseMap' = PhaseMap
  BY <1>1, <1>3 DEF PhaseMap
<1>6. SlotMap' = SlotMap
  BY <1>1, <1>4 DEF SlotMap
<1>. QED  BY <1>5, <1>6 DEF Contract!vars, PhaseMap, SlotMap, SlotOf

LEMMA ContractStep ==
    TypeOK /\ RowsInv /\ [Next]_vars => [Contract!Next]_(Contract!vars)
<1>. SUFFICES ASSUME TypeOK, RowsInv, [Next]_vars PROVE [Contract!Next]_(Contract!vars)
  OBVIOUS
<1>1. CASE UNCHANGED rows /\ now' \in Nat /\ now <= now'
  BY <1>1, ClockLapses
<1>2. ASSUME NEW r \in Reservation, NEW req \in Request, CreateReservation(r, req)
      PROVE  Contract!Next
  BY <1>2, CreateAsks
<1>3. ASSUME UNCHANGED now, NEW r \in Reservation, AdmitPaid(r) PROVE Contract!Next
  BY <1>3, AdmitOccupies
<1>4. ASSUME UNCHANGED now, NEW r \in Reservation,
             NEW target \in {"rejected", "cancelled"}, Move(r, target)
      PROVE  Contract!Next
  <2>1. /\ \A q \in Reservation \ {r} : rows'[q] = rows[q]
        /\ CanTransition(rows[r], target)
        /\ rows'[r] = Transitioned(rows[r], target, now)
    BY <1>4, MoveTypeOK DEF Move, Statuses
  <2>. QED  BY <1>4, <2>1, LeaversLeave
<1>5. ASSUME UNCHANGED now, NEW r \in Reservation, Move(r, "confirmed")
      PROVE  UNCHANGED Contract!vars
  BY <1>5, AcceptStutters
<1>6. CASE UNCHANGED now /\ ExpirePendingReservations
  <2>. DEFINE R == {r \in Reservation : rows'[r] # rows[r]}
  <2>1. \A r \in R : /\ CanTransition(rows[r], "cancelled")
                     /\ rows'[r] = Transitioned(rows[r], "cancelled", now)
    BY <1>6, SweptRow
  <2>. QED  BY <1>6, <2>1, LeaversLeave
<1>. QED  BY <1>1, <1>2, <1>3, <1>4, <1>5, <1>6, RowSteps

\* Booking implements SlotContract: windows are asked for only while nobody holds or
\* occupies them, occupied by one reservation at a time, and never re-entered.
THEOREM BookingImplementsSlotContract == Spec => KeepsSlotContract
<1>1. Init => Contract!Init
  <2>. SUFFICES ASSUME Init PROVE Contract!Init
    OBVIOUS
  <2>1. \A r \in Reservation : rows[r] \in RowType /\ rows[r].status = "absent"
    BY DEF Init, NoRow, RowType, Time
  <2>2. \A r \in Reservation : PhaseAt(rows[r], now) = "absent"
    BY <2>1, PhaseOfStatus
  <2>. QED  BY <2>1, <2>2 DEF Contract!Init
<1>. QED
  BY <1>1, RowsCorrect, ContractStep, PTL DEF Spec, KeepsSlotContract, Contract!Spec
=============================================================================
