----------------------- MODULE MCBookingTransactions ------------------------
(* Two requests at a time over two bookings of one window by one client:   *)
(* they share the garden row and the row of the client.                    *)
EXTENDS TransactionsProperties, TLC

CONSTANTS c1

\* What Django 5.2 makes of the queries: fields are joined in the order of the model,
\* the one a filter names before the others.
MCClientFirst == Webhooks \cup {"cancel"}

MCClientOf == [r \in Reservation |-> c1]

Ids == Permutations(Reservation) \cup Permutations(Process)
=============================================================================
