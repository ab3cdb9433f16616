------------------------------ MODULE Booking -------------------------------
(***************************************************************************)
(* The life of bookings on the backend: the reservation rows, the payment  *)
(* that follows each of them, its invoice, and the Stripe charge and       *)
(* webhooks they are driven by.                                            *)
(*                                                                         *)
(* Every service function that changes state runs in one database          *)
(* transaction that locks the rows it decides on, so each is one action    *)
(* here; a transaction that raises leaves no trace and is no step at all,  *)
(* except for what it already asked of Stripe (see the RolledBack actions).*)
(* Stripe is external: a card may be charged at any moment once the client *)
(* holds the intent, and every webhook may arrive late, again, or after a  *)
(* younger one.                                                            *)
(***************************************************************************)
EXTENDS BookingRules, FiniteSets

CONSTANTS
    Reservation,    \* primary keys a reservation row may get
    Garden,         \* gardens
    NoGarden,       \* the garden of a row that does not exist
    Offer,          \* Offer[g]: opening hours and limits of garden g
    Request,        \* the calls to create_reservation that are tried
    TTL,            \* settings.RESERVATION_PAYMENT_TTL_MINUTES, in ticks
    MaxTime         \* bound on the clock

RequestType ==
    [garden: Garden, start_time: Nat, end_time: Nat, dogs_count: Nat,
     vaccinations_valid_until: Nat \cup {NoTime}]

ASSUME BookingAssumption ==
    /\ NoGarden \notin Garden
    /\ Request \subseteq RequestType
    /\ TTL \in Nat \ {0}
    /\ MaxTime \in Nat

VARIABLES
    now,            \* the clock of the backend
    bookable,       \* gardens that are approved and active
    rows,           \* the reservation table
    payment,        \* status of the payment row of a reservation, or "none"
    charge,         \* state of the PaymentIntent at Stripe (external)
    invoice,        \* number of the invoice of a reservation, 0 for none
    last_number     \* InvoiceSequence.last_number

vars == <<now, bookable, rows, payment, charge, invoice, last_number>>

Time == Nat \cup {NoTime}

RowType ==
    [status: Statuses \cup {"absent"}, garden: Garden \cup {NoGarden},
     start_time: Time, end_time: Time, created_at: Time, expires_at: Time,
     paid_at: Time, decided: BOOLEAN, cancelled_at: Time]

NoRow ==
    [status |-> "absent", garden |-> NoGarden,
     start_time |-> NoTime, end_time |-> NoTime, created_at |-> NoTime,
     expires_at |-> NoTime, paid_at |-> NoTime, decided |-> FALSE,
     cancelled_at |-> NoTime]

PaymentStatuses == {"none", "pending", "succeeded", "failed", "refunded"}
ChargeStates == {"none", "open", "paid", "refunded"}

TypeOK ==
    /\ now \in Nat
    /\ bookable \subseteq Garden
    /\ rows \in [Reservation -> RowType]
    /\ payment \in [Reservation -> PaymentStatuses]
    /\ charge \in [Reservation -> ChargeStates]
    /\ invoice \in [Reservation -> Nat]
    /\ last_number \in Nat

Init ==
    /\ now = 0
    /\ bookable = Garden
    /\ rows = [r \in Reservation |-> NoRow]
    /\ payment = [r \in Reservation |-> "none"]
    /\ charge = [r \in Reservation |-> "none"]
    /\ invoice = [r \in Reservation |-> 0]
    /\ last_number = 0

-----------------------------------------------------------------------------
(* The clock, and the garden moderation the bookings depend on.            *)

Tick ==
    /\ now < MaxTime
    /\ now' = now + 1
    /\ UNCHANGED <<bookable, rows, payment, charge, invoice, last_number>>

\* An administrator approves or rejects the garden, or its host deactivates it.
ModerateGarden(g) ==
    /\ bookable' = IF g \in bookable THEN bookable \ {g} ELSE bookable \cup {g}
    /\ UNCHANGED <<now, rows, payment, charge, invoice, last_number>>

-----------------------------------------------------------------------------
(* reservations.services                                                   *)

PendingRow(req) ==
    [status |-> "pending_payment", garden |-> req.garden,
     start_time |-> req.start_time, end_time |-> req.end_time,
     created_at |-> now, expires_at |-> now + TTL,
     paid_at |-> NoTime, decided |-> FALSE, cancelled_at |-> NoTime]

HasCollision(req) ==
    \E q \in Reservation : HoldsWindow(rows[q], now) /\ Overlaps(rows[q], req)

CreateReservation(r, req) ==
    /\ rows[r].status = "absent"
    /\ req.garden \in bookable
    /\ Acceptable(Offer[req.garden], req, now)
    /\ ~HasCollision(req)
    /\ rows' = [rows EXCEPT ![r] = PendingRow(req)]
    /\ UNCHANGED <<now, bookable, payment, charge, invoice, last_number>>

\* A row moves along an edge of the state machine; what else moves is up to
\* the operation.
Move(r, target) ==
    /\ CanTransition(rows[r], target)
    /\ rows' = [rows EXCEPT ![r] = Transitioned(rows[r], target, now)]

\* gateway.refund: Stripe refuses to refund an intent twice, and the call raises.
GatewayRefund(r) ==
    /\ charge[r] = "paid"
    /\ charge' = [charge EXCEPT ![r] = "refunded"]

\* payments.services.refund_if_paid, inside the caller's transaction.
RefundIfPaid(r) ==
    IF payment[r] = "succeeded"
    THEN /\ GatewayRefund(r)
         /\ payment' = [payment EXCEPT ![r] = "refunded"]
    ELSE UNCHANGED <<payment, charge>>

AcceptReservation(r) ==
    /\ Move(r, "confirmed")
    /\ UNCHANGED <<now, bookable, payment, charge, invoice, last_number>>

RejectReservation(r) ==
    /\ Move(r, "rejected")
    /\ RefundIfPaid(r)
    /\ UNCHANGED <<now, bookable, invoice, last_number>>

\* Slip: the refund is decided on the row after it moved.
CancelThenDecideRefund(r) ==
    /\ Move(r, "cancelled")
    /\ IF ShouldRefundOnCancel(rows'[r], now)
       THEN RefundIfPaid(r)
       ELSE UNCHANGED <<payment, charge>>
    /\ UNCHANGED <<now, bookable, invoice, last_number>>

CancelReservation(r) ==
    /\ Move(r, "cancelled")
    /\ IF ShouldRefundOnCancel(rows[r], now)
       THEN RefundIfPaid(r)
       ELSE UNCHANGED <<payment, charge>>
    /\ UNCHANGED <<now, bookable, invoice, last_number>>

\* The mail (or the commit) fails after gateway.refund: the transaction rolls
\* back, the refund at Stripe does not.
RefundThenRollBack(r) ==
    /\ payment[r] = "succeeded"
    /\ GatewayRefund(r)
    /\ UNCHANGED <<now, bookable, rows, payment, invoice, last_number>>

RejectRolledBack(r) ==
    /\ CanTransition(rows[r], "rejected")
    /\ RefundThenRollBack(r)

CancelRolledBack(r) ==
    /\ CanTransition(rows[r], "cancelled")
    /\ ShouldRefundOnCancel(rows[r], now)
    /\ RefundThenRollBack(r)

\* Slip: the sweep leaves holds alone once their client has opened the payment form.
StaleWithoutPayment(r) == IsExpired(rows[r], now) /\ payment[r] = "none"

\* The sweep is one transaction over every stale hold.
Stale(r) == IsExpired(rows[r], now)

\* Slip: a status of its own for holds that ran out.
ExpireToUnknownStatus ==
    /\ \E r \in Reservation : Stale(r)
    /\ rows' = [r \in Reservation |->
                    IF Stale(r) THEN [rows[r] EXCEPT !.status = "expired"] ELSE rows[r]]
    /\ UNCHANGED <<now, bookable, payment, charge, invoice, last_number>>

ExpirePendingReservations ==
    /\ \E r \in Reservation : Stale(r)
    /\ rows' = [r \in Reservation |->
                    IF Stale(r) THEN Transitioned(rows[r], "cancelled", now) ELSE rows[r]]
    /\ UNCHANGED <<now, bookable, payment, charge, invoice, last_number>>

-----------------------------------------------------------------------------
(* payments.services                                                       *)

\* The idempotency key makes a repeated call answer with the same intent.
StartPayment(r) ==
    /\ rows[r].status = "pending_payment"
    /\ ~IsExpired(rows[r], now)
    /\ payment[r] # "succeeded"
    /\ payment' = [payment EXCEPT ![r] = IF @ = "none" THEN "pending" ELSE @]
    /\ charge' = [charge EXCEPT ![r] = IF @ = "none" THEN "open" ELSE @]
    /\ UNCHANGED <<now, bookable, rows, invoice, last_number>>

\* Slip: the number is read before the counter is bumped.
InvoiceBeforeBump(r) ==
    IF invoice[r] # 0
    THEN UNCHANGED <<invoice, last_number>>
    ELSE /\ last_number' = last_number + 1
         /\ invoice' = [invoice EXCEPT ![r] = last_number]

\* invoices.services.generate_invoice: an invoice that exists is returned as it is.
GenerateInvoice(r) ==
    IF invoice[r] # 0
    THEN UNCHANGED <<invoice, last_number>>
    ELSE /\ last_number' = last_number + 1
         /\ invoice' = [invoice EXCEPT ![r] = last_number + 1]

\* Slip: the constraint covers accepted bookings only.
ConstraintOnConfirmed(r) ==
    \A q \in Reservation \ {r} :
        ~(rows[q].status = "confirmed" /\ Overlaps(rows[q], rows[r]))

\* The exclusion constraint of the table: the update of a row fails when the
\* row would be committed and overlap another committed one.
NoOverlapConstraint(r) ==
    \A q \in Reservation \ {r} : ~(Committed(rows[q]) /\ Overlaps(rows[q], rows[r]))

AdmitPaid(r) ==
    /\ NoOverlapConstraint(r)
    /\ Move(r, "awaiting_host")
    /\ GenerateInvoice(r)

\* Stripe has a payment_intent.succeeded event of a charge that went through, a
\* charge.refunded event of one it refunded and, of any intent, perhaps a
\* payment_failed event of a card it declined.  It may deliver each at any time after,
\* any number of times; a delivery whose handler raises is answered 500, changes
\* nothing and is tried again.
Charged(r) == charge[r] \in {"paid", "refunded"}

\* Slip: the status is written without passing the gate.
MarkSucceededUngated(r) ==
    /\ Charged(r)
    /\ IF payment[r] \in {"none", "succeeded"}
       THEN UNCHANGED <<rows, payment, invoice, last_number>>
       ELSE /\ payment' = [payment EXCEPT ![r] = "succeeded"]
            /\ rows' = [rows EXCEPT ![r] = Transitioned(@, "awaiting_host", now)]
            /\ GenerateInvoice(r)
    /\ UNCHANGED <<now, bookable, charge>>

\* Slip: the event is dropped when the reservation is not waiting for it.
MarkSucceededIfPending(r) ==
    /\ Charged(r)
    /\ rows[r].status = "pending_payment"
    /\ payment' = [payment EXCEPT ![r] = "succeeded"]
    /\ AdmitPaid(r)
    /\ UNCHANGED <<now, bookable, charge>>

MarkSucceeded(r) ==
    /\ Charged(r)
    /\ IF payment[r] \in {"none", "succeeded"}
       THEN UNCHANGED <<rows, payment, invoice, last_number>>
       ELSE /\ payment' = [payment EXCEPT ![r] = "succeeded"]
            /\ IF rows[r].status = "pending_payment"
               THEN AdmitPaid(r)
               ELSE UNCHANGED <<rows, invoice, last_number>>
    /\ UNCHANGED <<now, bookable, charge>>

\* Slip: a late failure of an earlier card overwrites the success.
MarkFailedAlways(r) ==
    /\ charge[r] # "none"
    /\ payment' = [payment EXCEPT ![r] = IF @ = "none" THEN @ ELSE "failed"]
    /\ UNCHANGED <<now, bookable, rows, charge, invoice, last_number>>

MarkFailed(r) ==
    /\ charge[r] # "none"
    /\ payment' = [payment EXCEPT ![r] =
                       IF @ \in {"none", "succeeded", "refunded"} THEN @ ELSE "failed"]
    /\ UNCHANGED <<now, bookable, rows, charge, invoice, last_number>>

MarkRefunded(r) ==
    /\ charge[r] = "refunded"
    /\ payment' = [payment EXCEPT ![r] = IF @ = "none" THEN @ ELSE "refunded"]
    /\ UNCHANGED <<now, bookable, rows, charge, invoice, last_number>>

-----------------------------------------------------------------------------
(* Stripe and the client's browser (external): nothing the backend decides *)
(* closes an intent, so the card may be charged after the hold is gone.    *)

CardCharged(r) ==
    /\ charge[r] = "open"
    /\ charge' = [charge EXCEPT ![r] = "paid"]
    /\ UNCHANGED <<now, bookable, rows, payment, invoice, last_number>>

-----------------------------------------------------------------------------

HostStep(r) == AcceptReservation(r) \/ RejectReservation(r) \/ RejectRolledBack(r)

ClientStep(r) ==
    \/ \E req \in Request : CreateReservation(r, req)
    \/ StartPayment(r)
    \/ CancelReservation(r)
    \/ CancelRolledBack(r)

StripeStep(r) == CardCharged(r)

WebhookStep(r) == MarkSucceeded(r) \/ MarkFailed(r) \/ MarkRefunded(r)

Next ==
    \/ Tick
    \/ ExpirePendingReservations
    \/ \E g \in Garden : ModerateGarden(g)
    \/ \E r \in Reservation :
        HostStep(r) \/ ClientStep(r) \/ StripeStep(r) \/ WebhookStep(r)

Spec == Init /\ [][Next]_vars

\* Time passes; the sweep command is run again and again; Stripe keeps
\* delivering the event of a charge until it is acknowledged.
FairSpec ==
    /\ Spec
    /\ WF_vars(Tick)
    /\ WF_vars(ExpirePendingReservations)
    /\ \A r \in Reservation : WF_vars(MarkSucceeded(r))
=============================================================================
