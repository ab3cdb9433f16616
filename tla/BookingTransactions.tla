------------------------- MODULE BookingTransactions ------------------------
(***************************************************************************)
(* The bookings of one window of one garden as the database runs them:     *)
(* several requests at once, each a transaction that locks rows with       *)
(* SELECT ... FOR UPDATE one after the other, decides on what it then      *)
(* reads, and makes its writes visible when it commits.  Booking takes     *)
(* each of these transactions as one step; this is why it may.             *)
(*                                                                         *)
(* Of the database (READ COMMITTED), four rules are used: a lock is held   *)
(* to the end of its transaction; a row that had to be waited for is read  *)
(* again; a statement sees what was committed before it; transactions that *)
(* wait for each other in a circle are broken up by rolling one back.      *)
(* There is no clock: a hold lapses at any moment, also while transactions *)
(* are under way.                                                          *)
(***************************************************************************)
EXTENDS Naturals, Sequences, FiniteSets

CONSTANTS
    Process,        \* requests handled at the same time
    Reservation,    \* reservation rows, all for the same window
    Client,         \* clients
    ClientOf,       \* ClientOf[r]: who asks for reservation r
    ClientFirst,    \* requests whose SQL joins the client before the garden
    Nobody          \* the holder of a row nobody holds

ASSUME TransactionsAssumption ==
    /\ Nobody \notin Process \cup Reservation
    /\ IsFiniteSet(Reservation)
    /\ ClientOf \in [Reservation -> Client]

VARIABLES
    txn,            \* the transaction of a process
    holder,         \* the process whose transaction has locked a row
    status,         \* reservation.status, "absent" for no row
    lapsed,         \* unpaid holds whose expires_at is past
    timely,         \* paid bookings whose webhook saw them unexpired
    payment,        \* payment.status, "none" for no row
    charge          \* state of the PaymentIntent at Stripe (external)

vars == <<txn, holder, status, lapsed, timely, payment, charge>>
data == <<status, lapsed, timely, payment, charge>>

Webhooks == {"succeeded", "failed", "refunded"}
HostOps == {"accept", "reject"}
Ops == {"create", "start", "cancel", "sweep"} \cup HostOps \cup Webhooks

ReservationRow(r) == <<"reservation", r>>
PaymentRow(r) == <<"payment", r>>
UserRow(u) == <<"user", u>>
GardenRow == <<"garden", Nobody>>

Row == {ReservationRow(r) : r \in Reservation} \cup {PaymentRow(r) : r \in Reservation}
        \cup {UserRow(u) : u \in Client} \cup {GardenRow}

Statuses == {"absent", "pending_payment", "awaiting_host", "confirmed", "rejected", "cancelled"}
\* A failed payment is as unpaid as a pending one: nothing here tells them apart.
PaymentStatuses == {"none", "unpaid", "succeeded", "refunded"}
ChargeStates == {"none", "open", "paid", "refunded"}

\* idle; locking the rows of the first statement; having decided to write, locking
\* what later statements need; having had Stripe refund.
Steps == {"idle", "first", "later", "refunded"}

\* r: the reservation; todo: the rows still to be locked; fresh: it saw r unexpired;
\* due: it is to refund r; doomed: what a sweep is to cancel.
Idle == [op |-> "none", r |-> Nobody, step |-> "idle", todo |-> <<>>,
         fresh |-> FALSE, due |-> FALSE, doomed |-> {}]

TransactionsTypeOK ==
    /\ txn \in [Process -> [op : Ops \cup {"none"}, r : Reservation \cup {Nobody},
                            step : Steps, todo : Seq(Row), fresh : BOOLEAN,
                            due : BOOLEAN, doomed : SUBSET Reservation]]
    /\ holder \in [Row -> Process \cup {Nobody}]
    /\ status \in [Reservation -> Statuses]
    /\ lapsed \subseteq Reservation
    /\ timely \subseteq Reservation
    /\ payment \in [Reservation -> PaymentStatuses]
    /\ charge \in [Reservation -> ChargeStates]

Init ==
    /\ txn = [p \in Process |-> Idle]
    /\ holder = [x \in Row |-> Nobody]
    /\ status = [r \in Reservation |-> "absent"]
    /\ lapsed = {}
    /\ timely = {}
    /\ payment = [r \in Reservation |-> "none"]
    /\ charge = [r \in Reservation |-> "none"]

Committed(r) == status[r] \in {"awaiting_host", "confirmed"}
LiveHold(r) == status[r] = "pending_payment" /\ r \notin lapsed
Stale(r) == r \in lapsed

-----------------------------------------------------------------------------
(* Beginning and locking                                                   *)

\* The two rows a joined statement locks besides its reservation.  (It also locks the
\* user row of the host; as that is never locked without the garden, it is left out.)
SharedRows(op, r) ==
    IF op \in ClientFirst THEN <<UserRow(ClientOf[r]), GardenRow>>
                          ELSE <<GardenRow, UserRow(ClientOf[r])>>

\* Slip: the payment is locked first.
StartRowsPaymentFirst(r) == <<PaymentRow(r), ReservationRow(r)>>

StartRows(r) == <<ReservationRow(r)>>

\* Slip: select_for_update(of=...) with the payment and the reservation only.
WebhookRowsUnshared(op, r) == <<PaymentRow(r), ReservationRow(r)>>

WebhookRows(op, r) == <<PaymentRow(r), ReservationRow(r)>> \o SharedRows(op, r)

\* Slip: a host's decision and a cancellation read without a lock.
DecisionRowsUnlocked(op, r) == <<>>

DecisionRows(op, r) == <<ReservationRow(r)>> \o SharedRows(op, r)

\* The rows the first locking statement of a request takes, in the order of its joins.
FirstRows(op, r) ==
    CASE op = "create" -> <<GardenRow>>
      [] op = "start" -> StartRows(r)
      [] op \in Webhooks -> WebhookRows(op, r)
      [] op \in HostOps \cup {"cancel"} -> DecisionRows(op, r)

\* When a request may come in.  A client can only be charged for an intent whose
\* start_payment has committed, so a webhook always finds its payment.
Requested(op, r) ==
    CASE op = "create" ->
            status[r] = "absent" /\ \A p \in Process : ~(txn[p].op = "create" /\ txn[p].r = r)
      [] op = "succeeded" -> charge[r] \in {"paid", "refunded"}
      [] op = "failed"    -> charge[r] # "none"
      [] op = "refunded"  -> charge[r] = "refunded"
      [] op \in HostOps \cup {"start", "cancel"} -> status[r] # "absent"

Begin(p, op, r) ==
    /\ txn[p] = Idle
    /\ Requested(op, r)
    /\ txn' = [txn EXCEPT ![p] = [Idle EXCEPT !.op = op, !.r = r, !.step = "first",
                                              !.todo = FirstRows(op, r)]]
    /\ UNCHANGED <<holder, data>>

Orders(S) == {s \in [1 .. Cardinality(S) -> S] : {s[i] : i \in DOMAIN s} = S}

\* The sweep finds the stale rows and locks them by start time; these start at the
\* same time, so any order will do.
BeginSweep(p) ==
    /\ txn[p] = Idle
    /\ LET stale == {r \in Reservation : Stale(r)}
       IN  \E rs \in Orders(stale) :
            txn' = [txn EXCEPT ![p] = [Idle EXCEPT !.op = "sweep", !.step = "first",
                        !.todo = [i \in DOMAIN rs |-> ReservationRow(rs[i])],
                        !.doomed = stale]]
    /\ UNCHANGED <<holder, data>>

Lock(p) ==
    /\ txn[p].todo # <<>>
    /\ LET x == Head(txn[p].todo)
       IN  /\ holder[x] \in {p, Nobody}
           /\ holder' = [holder EXCEPT ![x] = p]
    /\ txn' = [txn EXCEPT ![p].todo = Tail(@)]
    /\ UNCHANGED data

\* The transaction ends; its locks are free.
Ends(p) ==
    /\ txn' = [txn EXCEPT ![p] = Idle]
    /\ holder' = [x \in Row |-> IF holder[x] = p THEN Nobody ELSE holder[x]]

-----------------------------------------------------------------------------
(* Deciding, with the rows of the first statement locked                   *)

\* Whether what a request reads lets it go on.
Allowed(op, r) ==
    CASE op = "create" -> \A q \in Reservation : ~(Committed(q) \/ LiveHold(q))
      [] op = "start" -> LiveHold(r)
      [] op = "succeeded" -> payment[r] # "succeeded"
      [] op = "failed" -> payment[r] \notin {"succeeded", "refunded"}
      [] op = "refunded" -> payment[r] # "refunded"
      [] op \in HostOps -> status[r] = "awaiting_host"
      [] op = "cancel" -> status[r] \in {"pending_payment", "awaiting_host", "confirmed"}

\* Whether its refund is due: a confirmed booking's client may be early or late.
RefundDue(op, r) ==
    CASE op = "reject" -> {TRUE}
      [] op = "cancel" -> IF status[r] = "confirmed" THEN BOOLEAN ELSE {status[r] = "awaiting_host"}
      [] OTHER -> {FALSE}

\* A new reservation's reference to its client is checked, under a lock of the client,
\* at the end; start_payment locks the payment if there is one, a refund locks it if
\* it has succeeded.
LaterRows(op, r, due) ==
    CASE op = "create" -> <<UserRow(ClientOf[r])>>
      [] op = "start" /\ payment[r] # "none" -> <<PaymentRow(r)>>
      [] due -> <<PaymentRow(r)>>
      [] OTHER -> <<>>

Ready(p, step) == txn[p].step = step /\ txn[p].todo = <<>>

Decide(p) ==
    /\ Ready(p, "first") /\ txn[p].op # "sweep"
    /\ LET op == txn[p].op
           r == txn[p].r
       IN  /\ Allowed(op, r)
           /\ \E owed \in RefundDue(op, r) :
                LET due == owed /\ payment[r] = "succeeded"
                IN  txn' = [txn EXCEPT ![p].step = "later",
                                       ![p].todo = LaterRows(op, r, due),
                                       ![p].fresh = (op = "succeeded" /\ LiveHold(r)),
                                       ![p].due = due]
    /\ UNCHANGED <<holder, data>>

\* Slip: the sweep cancels what it found, not what it locked.
DecideSweepBlindly(p) ==
    /\ Ready(p, "first") /\ txn[p].op = "sweep"
    /\ txn' = [txn EXCEPT ![p].step = "later"]
    /\ UNCHANGED <<holder, data>>

\* Rows of the sweep that are not stale any more are no longer in its result.
DecideSweep(p) ==
    /\ Ready(p, "first") /\ txn[p].op = "sweep"
    /\ txn' = [txn EXCEPT ![p].step = "later", ![p].doomed = {r \in @ : Stale(r)}]
    /\ UNCHANGED <<holder, data>>

\* 404, 409, 410, or a webhook with nothing to do.
Refuse(p) ==
    /\ \/ Ready(p, "first") /\ txn[p].op # "sweep" /\ ~Allowed(txn[p].op, txn[p].r)
       \/ Ready(p, "later") /\ txn[p].op = "start" /\ payment[txn[p].r] = "succeeded"
    /\ Ends(p)
    /\ UNCHANGED data

-----------------------------------------------------------------------------
(* Writing                                                                 *)

Open(p, op) == txn[p].op = op /\ Ready(p, "later")

Becomes(f, r, v) == f' = [f EXCEPT ![r] = v]

CommitCreate(p) ==
    /\ Open(p, "create")
    /\ Becomes(status, txn[p].r, "pending_payment")
    /\ UNCHANGED <<lapsed, timely, payment, charge>>

CommitStart(p) ==
    LET r == txn[p].r
    IN  /\ Open(p, "start")
        /\ payment[r] # "succeeded"
        /\ Becomes(payment, r, IF payment[r] = "none" THEN "unpaid" ELSE payment[r])
        /\ Becomes(charge, r, IF charge[r] = "none" THEN "open" ELSE charge[r])
        /\ UNCHANGED <<status, lapsed, timely>>

\* The exclusion constraint refuses a second committed row of the window.
CommitSucceeded(p) ==
    LET r == txn[p].r
    IN  /\ Open(p, "succeeded")
        /\ Becomes(payment, r, "succeeded")
        /\ IF status[r] = "pending_payment"
           THEN /\ \A q \in Reservation : ~Committed(q)
                /\ Becomes(status, r, "awaiting_host")
                /\ timely' = IF txn[p].fresh THEN timely \cup {r} ELSE timely
                /\ lapsed' = lapsed \ {r}
           ELSE UNCHANGED <<status, timely, lapsed>>
        /\ UNCHANGED charge

CommitPayment(p) ==
    /\ \/ Open(p, "failed") /\ Becomes(payment, txn[p].r, "unpaid")
       \/ Open(p, "refunded") /\ Becomes(payment, txn[p].r, "refunded")
    /\ UNCHANGED <<status, lapsed, timely, charge>>

\* gateway.refund, which Stripe refuses for an intent it has refunded.
Refund(p) ==
    /\ Ready(p, "later") /\ txn[p].due
    /\ payment[txn[p].r] = "succeeded"
    /\ charge[txn[p].r] = "paid"
    /\ Becomes(charge, txn[p].r, "refunded")
    /\ txn' = [txn EXCEPT ![p].step = "refunded"]
    /\ UNCHANGED <<holder, status, lapsed, timely, payment>>

Decision(op) == CASE op = "accept" -> "confirmed"
                  [] op = "reject" -> "rejected"
                  [] op = "cancel" -> "cancelled"

\* Without a refund, or with the one just made.
CommitDecision(p) ==
    /\ txn[p].op \in HostOps \cup {"cancel"}
    /\ \/ Ready(p, "later") /\ (txn[p].due => payment[txn[p].r] # "succeeded")
          /\ UNCHANGED payment
       \/ Ready(p, "refunded") /\ Becomes(payment, txn[p].r, "refunded")
    /\ LET r == txn[p].r
       IN  /\ Becomes(status, r, Decision(txn[p].op))
           /\ lapsed' = lapsed \ {r}
           /\ timely' = IF txn[p].op = "accept" THEN timely ELSE timely \ {r}
    /\ UNCHANGED charge

CommitSweep(p) ==
    /\ Open(p, "sweep")
    /\ status' = [r \in Reservation |->
                    IF r \in txn[p].doomed THEN "cancelled" ELSE status[r]]
    /\ lapsed' = lapsed \ txn[p].doomed
    /\ timely' = timely \ txn[p].doomed
    /\ UNCHANGED <<payment, charge>>

Commit(p) ==
    /\ \/ CommitCreate(p)
       \/ CommitStart(p)
       \/ CommitSucceeded(p)
       \/ CommitPayment(p)
       \/ CommitDecision(p)
       \/ CommitSweep(p)
    /\ Ends(p)

\* Slip: a request that raised leaves its transaction open.
RollBackHalf(p) ==
    /\ txn[p] # Idle
    /\ txn' = [txn EXCEPT ![p].step = "broken"]
    /\ UNCHANGED <<holder, data>>

\* The mail, Stripe or the constraint raises, or the database breaks up a circle.
RollBack(p) ==
    /\ txn[p] # Idle
    /\ Ends(p)
    /\ UNCHANGED data

-----------------------------------------------------------------------------
(* Time and Stripe (external)                                              *)

Lapse(r) ==
    /\ LiveHold(r)
    /\ lapsed' = lapsed \cup {r}
    /\ UNCHANGED <<txn, holder, status, timely, payment, charge>>

CardCharged(r) ==
    /\ charge[r] = "open"
    /\ Becomes(charge, r, "paid")
    /\ UNCHANGED <<txn, holder, status, lapsed, timely, payment>>

Next ==
    \/ \E r \in Reservation : Lapse(r) \/ CardCharged(r)
    \/ \E p \in Process :
        \/ \E op \in Ops \ {"sweep"}, r \in Reservation : Begin(p, op, r)
        \/ BeginSweep(p)
        \/ Lock(p)
        \/ Decide(p) \/ DecideSweep(p) \/ Refuse(p)
        \/ Refund(p) \/ Commit(p) \/ RollBack(p)

Spec == Init /\ [][Next]_vars
=============================================================================
