--------------------------- MODULE MCInvoiceSystem ---------------------------
(***************************************************************************)
(* Browsers whose users type different amounts.  To see that invoices are  *)
(* not exchanged: two browsers, each with one call on its way at a time,   *)
(* and two addresses.  To see that pages settle: one browser with two      *)
(* calls at a time and one address, so that the second create fails.       *)
(***************************************************************************)
EXTENDS InvoiceSystem, TLC

CONSTANTS b1, b2

MCLines    == {<<b1, 1>>, <<b2, 1>>}
MCTwoLines == {<<b1, 1>>, <<b1, 2>>}

MCAmount == [b \in Browsers |-> IF b = b1 THEN 1 ELSE 2]

MCAddresses  == <<"a1", "a2">>
MCOneAddress == <<"a1">>
=============================================================================
