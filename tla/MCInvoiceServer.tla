--------------------------- MODULE MCInvoiceServer ---------------------------
(***************************************************************************)
(* Some calls on the server.  A quote of 3 satoshis makes an invoice of 2, *)
(* or of 0 when the body of the quote is cut.                              *)
(***************************************************************************)
EXTENDS InvoiceServerRefinement, TLC

CONSTANTS c1, c2, c3, junk

\* No property tells the calls apart.
MCSymmetry == Permutations(Calls)

MCShortQuotes == {3, 6, 12, 24, 29, 48, 58, 59}
=============================================================================
