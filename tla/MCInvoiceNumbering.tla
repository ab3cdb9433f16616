------------------------- MODULE MCInvoiceNumbering -------------------------
(* Three webhooks over two months: two meet on the first row of a month    *)
(* while the third already takes the next month's number.                  *)
EXTENDS InvoiceNumbering
=============================================================================
