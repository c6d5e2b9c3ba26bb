--------------------------- MODULE PaymentProgress ---------------------------
(***************************************************************************)
(* One invoice from the moment it is priced, receiving payments: the       *)
(* status that CheckInvoice derives from what its address has received.    *)
(***************************************************************************)
EXTENDS InvoiceMath

CONSTANTS
  Quotes,      \* satoshi amounts the price service may quote
  Amounts,     \* the value of one payment
  MaxReceived  \* bound of the model on the sum of the payments

ASSUME ProgressAssumption ==
  /\ Quotes \subseteq Nat
  /\ Amounts \subseteq Nat \ {0}
  /\ MaxReceived \in Nat

VARIABLES
  digitalValue,  \* Invoice.DigitalValue
  received       \* what GetReceivedAmount answers for its address

vars == <<digitalValue, received>>

TypeOK == digitalValue \in Nat /\ received \in Nat

Init ==
  /\ \E q \in Quotes : digitalValue \in DigitalValues(q)
  /\ received = 0

\* A payment reaches the address index of the node.
Receive(v) ==
  /\ received + v <= MaxReceived
  /\ received' = received + v
  /\ UNCHANGED digitalValue

Next == \E v \in Amounts : Receive(v)

Spec == Init /\ [][Next]_vars

-----------------------------------------------------------------------------
status == Status(digitalValue, received)

(***************************************************************************)
(* The interval test, done on truncated integers, is the rational rule     *)
(* "within two percent" (api.go:164, 188), and the remaining branches say  *)
(* on which side of it the amount lies.                                    *)
(***************************************************************************)
TwoPercentRule ==
  /\ status = "paid" <=> /\ 50 * received >= 49 * digitalValue
                         /\ 50 * received =< 51 * digitalValue
  /\ status = "over_paid" <=> 50 * received > 51 * digitalValue
  /\ status \in {"unpaid", "partially_paid"} <=> 50 * received < 49 * digitalValue

(***************************************************************************)
(* A payer who sends exactly the remaining amount he is shown settles the  *)
(* invoice, and a settled invoice asks for nothing more (api.go:188-201).  *)
(***************************************************************************)
RemainingSettles ==
  LET r == Remaining(digitalValue, received) IN
  /\ Status(digitalValue, received + r) \in {"paid", "over_paid"}
  /\ r = 0 <=> status \in {"paid", "over_paid"}

(***************************************************************************)
(* More money never moves an invoice back to an earlier status, and the    *)
(* remaining amount never grows (the order of the tests, api.go:189-201).  *)
(***************************************************************************)
StatusAdvances ==
  [][/\ Rank(status) <= Rank(status')
     /\ Remaining(digitalValue, received)' <= Remaining(digitalValue, received)]_vars

(***************************************************************************)
(* "not paid at all" (api.go:193): nothing received is unpaid, however     *)
(* small the amount and its tolerance are - unless the body of the price   *)
(* was cut to zeros, for then the invoice is over nothing and is paid.     *)
(***************************************************************************)
NotPaidAtAll == digitalValue # 0 /\ received = 0 => status = "unpaid"
=============================================================================
