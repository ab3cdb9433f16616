----------------------------- MODULE MCBooking ------------------------------
(* Booking on small instances: one garden open from tick 1 to tick 3, an   *)
(* hour of one tick, windows that overlap and windows that only touch.     *)
EXTENDS BookingProperties, TLC

CONSTANTS g1

MCOffer == [g \in Garden |-> [open_from |-> 1, open_to |-> 3,
                              min_booking_hours |-> 1, max_dogs |-> 2]]

Ask(s, e, n, v) == [garden |-> g1, start_time |-> s, end_time |-> e,
                    dogs_count |-> n, vaccinations_valid_until |-> v]

\* A window, and its two halves that touch each other; then a request after
\* the closing hour, one with too many dogs, one with no vaccination.
MCRequest == {Ask(1, 3, 1, 0), Ask(1, 2, 2, 0), Ask(2, 3, 1, 0),
              Ask(2, 4, 1, 0), Ask(1, 3, 3, 0), Ask(2, 3, 1, NoTime)}

\* Everybody wants the same window.
MCOneWindow == {Ask(2, 3, 1, 0)}
=============================================================================
