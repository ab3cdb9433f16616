---------------------------- MODULE BookingRules ----------------------------
(***************************************************************************)
(* The rules of a booking that look at one reservation row, or at two, and *)
(* at the clock, and change nothing: which windows may be asked for, which *)
(* rows hold a window, which status changes are edges of the state         *)
(* machine, when a cancellation is refunded.                               *)
(*                                                                         *)
(* Time is counted in ticks.  A wall-clock hour is Hour ticks and a day is *)
(* Day ticks, so "on a whole hour" and "on one day" are arithmetic.        *)
(***************************************************************************)
EXTENDS Integers

CONSTANTS
    Hour,           \* ticks in an hour
    Day,            \* ticks in a day
    FreeCancel      \* settings.FREE_CANCELLATION_HOURS, in ticks

ASSUME TimeUnits == /\ Hour \in Nat \ {0}
                    /\ Day \in Nat \ {0}
                    /\ FreeCancel \in Nat

\* A nullable timestamp column that is NULL.
NoTime == -1

Statuses == {"pending_payment", "awaiting_host", "confirmed", "rejected", "cancelled"}

\* The statuses the exclusion constraint of the reservation table covers.
BlockingStatuses == {"awaiting_host", "confirmed"}

\* Slip: a host may still accept what the client cancelled.
AllowedTransitionsReviving ==
    { <<"pending_payment", "awaiting_host">>, <<"pending_payment", "cancelled">>,
      <<"awaiting_host", "confirmed">>, <<"awaiting_host", "rejected">>,
      <<"awaiting_host", "cancelled">>, <<"confirmed", "cancelled">>,
      <<"cancelled", "confirmed">> }

AllowedTransitions ==
    { <<"pending_payment", "awaiting_host">>,
      <<"pending_payment", "cancelled">>,
      <<"awaiting_host", "confirmed">>,
      <<"awaiting_host", "rejected">>,
      <<"awaiting_host", "cancelled">>,
      <<"confirmed", "cancelled">> }

-----------------------------------------------------------------------------
(* What may be asked for.  A request carries the ids and times of the call;*)
(* offer is the garden's opening hours and limits.                         *)

WholeHour(t) == t % Hour = 0

HoursBetween(s, e) == (e - s) \div Hour

ValidWindow(offer, s, e, at) ==
    /\ s < e
    /\ WholeHour(s) /\ WholeHour(e)
    /\ at < s
    /\ s \div Day = e \div Day
    /\ offer.open_from <= s % Day
    /\ e % Day <= offer.open_to
    /\ offer.min_booking_hours <= HoursBetween(s, e)

ValidDogsCount(offer, count) == 1 <= count /\ count <= offer.max_dogs

\* validUntil is a day number, or NoTime for a dog with no vaccination date.
VaccinatedOn(validUntil, s) == validUntil # NoTime /\ s \div Day <= validUntil

Acceptable(offer, req, at) ==
    /\ ValidWindow(offer, req.start_time, req.end_time, at)
    /\ ValidDogsCount(offer, req.dogs_count)
    /\ VaccinatedOn(req.vaccinations_valid_until, req.start_time)

-----------------------------------------------------------------------------
(* Who holds a window.  Windows are half-open: back-to-back rows do not    *)
(* overlap.                                                                *)

Overlaps(a, b) ==
    /\ a.garden = b.garden
    /\ a.start_time < b.end_time
    /\ b.start_time < a.end_time

IsExpired(row, at) == /\ row.status = "pending_payment"
                      /\ row.expires_at # NoTime
                      /\ row.expires_at <= at

LiveHold(row, at) == row.status = "pending_payment" /\ at < row.expires_at

Committed(row) == row.status \in BlockingStatuses

\* Slip: unpaid holds do not count.
HoldsWindowOncePaid(row, at) == Committed(row)

\* The rows the overlap query of the selectors counts as holding their window.
HoldsWindow(row, at) == Committed(row) \/ LiveHold(row, at)

-----------------------------------------------------------------------------
(* The state machine and the refund policy.                                *)

\* The one gate of every status change: the edge must exist, and the target
\* says which audit column is stamped.
CanTransition(row, target) == <<row.status, target>> \in AllowedTransitions

Transitioned(row, target, when) ==
    CASE target = "awaiting_host" ->
            [row EXCEPT !.status = target, !.paid_at = when, !.expires_at = NoTime]
      [] target \in {"confirmed", "rejected"} ->
            [row EXCEPT !.status = target, !.decided = TRUE]
      [] target = "cancelled" ->
            [row EXCEPT !.status = target, !.cancelled_at = when]

ShouldRefundOnCancel(row, at) ==
    \/ row.status = "awaiting_host"
    \/ row.status = "confirmed" /\ at <= row.start_time - FreeCancel
=============================================================================
