-------------------------- MODULE InvoiceNumbering --------------------------
(***************************************************************************)
(* How invoices get their numbers when several webhooks are handled at     *)
(* once: the steps of generate_invoice and _next_number inside             *)
(* transactions of a READ COMMITTED database.  There is one transaction    *)
(* per reservation at a time, because the webhook holds the lock of its    *)
(* payment row; a transaction that raises is rolled back and its event is  *)
(* delivered again.                                                        *)
(*                                                                         *)
(* Of the database, three rules are used: a statement sees what was        *)
(* committed before it and what its own transaction wrote; SELECT ... FOR  *)
(* UPDATE and the insertion of a duplicate key wait for the transaction    *)
(* that wrote the row; both go on when it commits or rolls back.           *)
(***************************************************************************)
EXTENDS Naturals

CONSTANTS
    Reservation,    \* reservations whose payment succeeds
    LastMonth,      \* bound on the calendar: months are 1 .. LastMonth
    Nobody          \* the holder of a row nobody holds

ASSUME NumberingAssumption == /\ LastMonth \in Nat \ {0}
                              /\ Nobody \notin Reservation

Month == 1 .. LastMonth

VARIABLES
    today,      \* the current month, Europe/Warsaw
    rowed,      \* months with a committed InvoiceSequence row
    sequence,   \* last_number of the committed row, 0 when there is none
    holder,     \* the transaction that wrote or locked the row of a month
    pc,         \* where the transaction of a reservation stands
    month,      \* the month its transaction took from issued_at
    number,     \* the number its transaction allocated
    invoice     \* the committed invoice of a reservation

vars == <<today, rowed, sequence, holder, pc, month, number, invoice>>

Steps == {"idle", "get", "create", "lock", "save", "issued"}
InFlight == {"get", "create", "lock", "save"}

NoInvoice == [month |-> 0, number |-> 0]

NumberingTypeOK ==
    /\ today \in Month
    /\ rowed \subseteq Month
    /\ sequence \in [Month -> Nat]
    /\ holder \in [Month -> Reservation \cup {Nobody}]
    /\ pc \in [Reservation -> Steps]
    /\ month \in [Reservation -> Month]
    /\ number \in [Reservation -> Nat]
    /\ invoice \in [Reservation -> [month : Month \cup {0}, number : Nat]]

Init ==
    /\ today = 1
    /\ rowed = {}
    /\ sequence = [m \in Month |-> 0]
    /\ holder = [m \in Month |-> Nobody]
    /\ pc = [r \in Reservation |-> "idle"]
    /\ month = [r \in Reservation |-> 1]
    /\ number = [r \in Reservation |-> 0]
    /\ invoice = [r \in Reservation |-> NoInvoice]

Goes(r, from, to) == pc[r] = from /\ pc' = [pc EXCEPT ![r] = to]

-----------------------------------------------------------------------------

NextMonth ==
    /\ today < LastMonth
    /\ today' = today + 1
    /\ UNCHANGED <<rowed, sequence, holder, pc, month, number, invoice>>

\* generate_invoice finds no invoice and takes the month from the clock.
Begin(r) ==
    /\ Goes(r, "idle", "get")
    /\ invoice[r] = NoInvoice
    /\ month' = [month EXCEPT ![r] = today]
    /\ UNCHANGED <<today, rowed, sequence, holder, number, invoice>>

\* get_or_create: the SELECT.
GetSequence(r) ==
    /\ Goes(r, "get", IF month[r] \in rowed THEN "lock" ELSE "create")
    /\ UNCHANGED <<today, rowed, sequence, holder, month, number, invoice>>

\* Slip: a duplicate key is not followed by another read.
CreateWithoutReread(r) ==
    /\ Goes(r, "create", "lock")
    /\ month[r] \notin rowed /\ holder[month[r]] = Nobody
    /\ holder' = [holder EXCEPT ![month[r]] = r]
    /\ UNCHANGED <<today, rowed, sequence, month, number, invoice>>

\* get_or_create: the INSERT.  It waits for whoever is inserting the same month; a
\* row that is there by now is a duplicate key, and it is read again instead.
CreateSequence(r) ==
    /\ Goes(r, "create", "lock")
    /\ IF month[r] \in rowed
       THEN UNCHANGED holder
       ELSE /\ holder[month[r]] = Nobody
            /\ holder' = [holder EXCEPT ![month[r]] = r]
    /\ UNCHANGED <<today, rowed, sequence, month, number, invoice>>

\* Slip: the row is read without FOR UPDATE.
BumpUnlocked(r) ==
    /\ Goes(r, "lock", "save")
    /\ holder' = [holder EXCEPT ![month[r]] = r]
    /\ number' = [number EXCEPT ![r] = sequence[month[r]] + 1]
    /\ UNCHANGED <<today, rowed, sequence, month, invoice>>

\* Slip: the counter is bumped in a transaction of its own.
BumpAndCommit(r) ==
    /\ Goes(r, "lock", "save")
    /\ holder[month[r]] \in {r, Nobody}
    /\ sequence' = [sequence EXCEPT ![month[r]] = @ + 1]
    /\ number' = [number EXCEPT ![r] = sequence[month[r]] + 1]
    /\ UNCHANGED <<today, rowed, holder, month, invoice>>

\* SELECT ... FOR UPDATE, then the counter is bumped and the row saved.
LockAndBump(r) ==
    /\ Goes(r, "lock", "save")
    /\ holder[month[r]] \in {r, Nobody}
    /\ holder' = [holder EXCEPT ![month[r]] = r]
    /\ number' = [number EXCEPT ![r] = sequence[month[r]] + 1]
    /\ UNCHANGED <<today, rowed, sequence, month, invoice>>

Released(r) == [m \in Month |-> IF holder[m] = r THEN Nobody ELSE holder[m]]

\* Slip: the number is written with the month it is saved in.
CommitToday(r) ==
    /\ Goes(r, "save", "issued")
    /\ rowed' = rowed \cup {month[r]}
    /\ sequence' = [sequence EXCEPT ![month[r]] = number[r]]
    /\ invoice' = [invoice EXCEPT ![r] = [month |-> today, number |-> number[r]]]
    /\ holder' = Released(r)
    /\ UNCHANGED <<today, month, number>>

\* The invoice is saved, the mail is sent and the transaction commits.
Commit(r) ==
    /\ Goes(r, "save", "issued")
    /\ rowed' = rowed \cup {month[r]}
    /\ sequence' = [sequence EXCEPT ![month[r]] = number[r]]
    /\ invoice' = [invoice EXCEPT ![r] = [month |-> month[r], number |-> number[r]]]
    /\ holder' = Released(r)
    /\ UNCHANGED <<today, month, number>>

\* Slip: a request that failed is put aside in a state nothing knows.
RollBackToFailed(r) ==
    /\ pc[r] \in InFlight
    /\ pc' = [pc EXCEPT ![r] = "failed"]
    /\ holder' = Released(r)
    /\ UNCHANGED <<today, rowed, sequence, month, number, invoice>>

\* The rendering, the mail or the database fails: nothing was written.
RollBack(r) ==
    /\ pc[r] \in InFlight
    /\ pc' = [pc EXCEPT ![r] = "idle"]
    /\ holder' = Released(r)
    /\ UNCHANGED <<today, rowed, sequence, month, number, invoice>>

Transact(r) ==
    GetSequence(r) \/ CreateSequence(r) \/ LockAndBump(r) \/ Commit(r)

Next ==
    \/ NextMonth
    \/ \E r \in Reservation : Begin(r) \/ Transact(r) \/ RollBack(r)

Spec == Init /\ [][Next]_vars

\* A transaction that can go on does; one that waits for a row is served in the end.
FairSpec ==
    Spec /\ \A r \in Reservation : SF_vars(Transact(r))

-----------------------------------------------------------------------------
(* Properties                                                              *)

\* "Concurrent issues serialise and can never share a number": no two transactions
\* under way hold the same number of the same month, so none ever fails on the
\* uniqueness of the number.
NumbersInFlightDistinct ==
    \A r, q \in Reservation :
        r # q /\ pc[r] = "save" /\ pc[q] = "save" /\ month[r] = month[q]
            => number[r] # number[q]

\* The numbers of a month's invoices are 1..last_number, no gap and none twice,
\* however many transactions were rolled back.
MonthsGapFree ==
    /\ \A m \in Month :
        {invoice[r].number : r \in {q \in Reservation : invoice[q].month = m}}
            = 1 .. sequence[m]
    /\ \A r, q \in Reservation :
        r # q /\ invoice[r] # NoInvoice => invoice[r] # invoice[q]

Dispenser == INSTANCE NumberDispenser WITH issued <- sequence

\* The transactions together behave as one counter per month.
ActsAsDispenser == Dispenser!Spec

\* Waiting for the row of a month never blocks a webhook for good.
TransactionsEnd ==
    \A r \in Reservation : pc[r] \in InFlight ~> pc[r] \notin InFlight
=============================================================================
