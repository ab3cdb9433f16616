--------------------------- MODULE NumberDispenser --------------------------
(***************************************************************************)
(* What the invoice numbering promises: in every month the invoices are    *)
(* numbered one after the other from one, a reservation gets at most one,  *)
(* and an invoice that was issued is never renumbered or withdrawn.        *)
(***************************************************************************)
EXTENDS Naturals

CONSTANTS Reservation, Month

VARIABLES
    issued,     \* issued[m]: how many invoices month m has
    invoice     \* invoice[r]: month and number, or NoInvoice

vars == <<issued, invoice>>

NoInvoice == [month |-> 0, number |-> 0]

Init == /\ issued = [m \in Month |-> 0]
        /\ invoice = [r \in Reservation |-> NoInvoice]

Issue(r, m) ==
    /\ invoice[r] = NoInvoice
    /\ issued' = [issued EXCEPT ![m] = @ + 1]
    /\ invoice' = [invoice EXCEPT ![r] = [month |-> m, number |-> issued[m] + 1]]

Next == \E r \in Reservation, m \in Month : Issue(r, m)

Spec == Init /\ [][Next]_vars
=============================================================================
