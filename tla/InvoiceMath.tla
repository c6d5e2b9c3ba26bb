----------------------------- MODULE InvoiceMath -----------------------------
(***************************************************************************)
(* The arithmetic of the invoice server: how a quote of the price service  *)
(* becomes the satoshi amount of an invoice (getPrice), and how an amount  *)
(* received by its address becomes a status (CheckInvoice).  All amounts   *)
(* are satoshis.                                                           *)
(***************************************************************************)
EXTENDS Integers

CONSTANT ShortQuotes  \* quotes whose decimal, times 10^8, falls just below an integer

ASSUME ShortQuotesAssumption == ShortQuotes \subseteq Nat \ {0}

-----------------------------------------------------------------------------
\* Variant: every quote is rounded down below itself.
SatoshisBelow(q) == q - 1

(***************************************************************************)
(* The price.  The service answers with a decimal number of bitcoins; q is *)
(* that number in satoshis, below one bitcoin.  strconv.ParseFloat yields  *)
(* the nearest double, the product with 10^8 is rounded once more, and the *)
(* conversion to int64 truncates: for the quotes in ShortQuotes (3, 6, 12, *)
(* 24, 29, 48, 58, 59, ... for IEEE doubles) a satoshi is lost.            *)
(***************************************************************************)
Satoshis(q) == IF q \in ShortQuotes THEN q - 1 ELSE q

\* The places at which the eight decimals of a body can be cut.
DecimalPlaces == {1, 10, 100, 1000, 10000, 100000, 1000000, 10000000, 100000000}

(***************************************************************************)
(* ioutil.ReadAll's error is discarded, so a body cut short is parsed for  *)
(* what it holds: a prefix of the decimals of q.                           *)
(***************************************************************************)
BodyReadings(q) == {q - (q % p) : p \in DecimalPlaces}

DigitalValues(q) == {Satoshis(b) : b \in BodyReadings(q)}

-----------------------------------------------------------------------------
Statuses == {"paid", "unpaid", "partially_paid", "over_paid", "expired"}

\* Variant: the interval is rounded up.
AllowedIntervalUp(amountToPay) == (amountToPay + 49) \div 50

\* int64(float64(amountToPay) * 0.02), which is exact below 2^53.
AllowedInterval(amountToPay) == amountToPay \div 50

LowestPaid(amountToPay)  == amountToPay - AllowedInterval(amountToPay)
HighestPaid(amountToPay) == amountToPay + AllowedInterval(amountToPay)

InRange(amountToPay, amountPaid) ==
  amountPaid \in LowestPaid(amountToPay) .. HighestPaid(amountToPay)

\* Variant: the branch for overpayment is missing.
StatusNeverOver(amountToPay, amountPaid) ==
  IF InRange(amountToPay, amountPaid) THEN "paid"
  ELSE IF amountPaid = 0 THEN "unpaid" ELSE "partially_paid"

\* Variant: any payment settles the invoice.
StatusAnyPayment(amountToPay, amountPaid) == IF amountPaid = 0 THEN "unpaid" ELSE "paid"

\* The branches in the order in which the handler tries them.
Status(amountToPay, amountPaid) ==
  CASE InRange(amountToPay, amountPaid) -> "paid"
    [] ~InRange(amountToPay, amountPaid) /\ amountPaid = 0 -> "unpaid"
    [] amountPaid # 0 /\ amountPaid < LowestPaid(amountToPay) -> "partially_paid"
    [] amountPaid # 0 /\ amountPaid > HighestPaid(amountToPay) -> "over_paid"

\* Variant: the remaining amount is not cleared when the invoice is paid.
RemainingUncleared(amountToPay, amountPaid) == amountToPay - amountPaid

\* DigitalValueRemaining of the response.
Remaining(amountToPay, amountPaid) ==
  IF Status(amountToPay, amountPaid) \in {"unpaid", "partially_paid"}
  THEN amountToPay - amountPaid
  ELSE 0

\* How far the payment of an invoice that has not expired has come.
Rank(s) == CASE s = "unpaid" -> 0 [] s = "partially_paid" -> 1
             [] s = "paid" -> 2   [] s = "over_paid" -> 3
=============================================================================
