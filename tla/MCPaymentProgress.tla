-------------------------- MODULE MCPaymentProgress --------------------------
(***************************************************************************)
(* Every quote up to 5 intervals of two percent, and payments up to one    *)
(* interval beyond the largest overpayment limit.                          *)
(***************************************************************************)
EXTENDS PaymentProgress

MCQuotes == 1 .. 260

MCAmounts == {1, 7, 50}

\* The quotes up to 260 that lose a satoshi in IEEE double arithmetic.
MCShortQuotes == {3, 6, 12, 24, 29, 48, 58, 59, 96, 105, 107, 116, 118, 127, 192,
                  201, 205, 210, 214, 223, 232, 236, 241, 245, 254}
=============================================================================
