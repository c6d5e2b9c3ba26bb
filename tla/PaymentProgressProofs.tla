------------------------ MODULE PaymentProgressProofs ------------------------
(***************************************************************************)
(* What holds of an invoice that receives payments, for every quote,       *)
(* payment and set of short quotes.                                        *)
(***************************************************************************)
EXTENDS PaymentProgress, InvoiceMathProofs

(***************************************************************************)
(* The invoice and what it received are natural numbers of satoshis, for   *)
(* every quote, cut body and payment.                                      *)
(***************************************************************************)
THEOREM TypeCorrect == Spec => []TypeOK
<1>1. Init => TypeOK
  BY DigitalValuesAreNat, ProgressAssumption DEF Init, TypeOK
<1>2. TypeOK /\ [Next]_vars => TypeOK'
  BY ProgressAssumption DEF TypeOK, Next, Receive, vars
<1> QED
  BY <1>1, <1>2, PTL DEF Spec

(***************************************************************************)
(* For every amount due, the truncated interval test is the rule "within   *)
(* two percent", and the other branches tell on which side the amount is.  *)
(***************************************************************************)
THEOREM TwoPercent == Spec => []TwoPercentRule
<1>1. TypeOK => TwoPercentRule
  <2> SUFFICES ASSUME TypeOK
               PROVE  TwoPercentRule
    OBVIOUS
  <2>1. digitalValue \in Nat /\ received \in Nat
    BY DEF TypeOK
  <2> QED
    BY <2>1, StatusByAmount DEF TwoPercentRule, status
<1> QED
  BY <1>1, TypeCorrect, PTL

(***************************************************************************)
(* For every amount due, a payer who sends what he is told remains settles *)
(* the invoice, and only a settled invoice asks for nothing.               *)
(***************************************************************************)
THEOREM RemainderSettles == Spec => []RemainingSettles
<1>1. TypeOK => RemainingSettles
  <2> SUFFICES ASSUME TypeOK
               PROVE  RemainingSettles
    OBVIOUS
  <2> DEFINE r == Remaining(digitalValue, received)
  <2>1. digitalValue \in Nat /\ received \in Nat
    BY DEF TypeOK
  <2>2. r = IF 50 * received < 49 * digitalValue THEN digitalValue - received ELSE 0
    BY <2>1, RemainingByAmount
  <2>3. r \in Nat /\ (r = 0 <=> 50 * received >= 49 * digitalValue)
    BY <2>1, <2>2
  <2>4. received + r \in Nat /\ 50 * (received + r) >= 49 * digitalValue
    BY <2>1, <2>2
  <2> HIDE DEF r
  <2>5. Status(digitalValue, received + r) \in {"paid", "over_paid"}
    <3> DEFINE total == received + r
    <3>1. total \in Nat /\ 50 * total >= 49 * digitalValue
      BY <2>4
    <3> HIDE DEF total
    <3>2. Status(digitalValue, total) \in {"paid", "over_paid"}
      BY <2>1, <3>1, StatusByAmount
    <3> QED
      BY <3>2 DEF total
  <2>6. status \in {"paid", "over_paid"} <=> 50 * received >= 49 * digitalValue
    BY <2>1, StatusByAmount DEF status
  <2> QED
    BY <2>3, <2>5, <2>6 DEF RemainingSettles, r
<1> QED
  BY <1>1, TypeCorrect, PTL

(***************************************************************************)
(* Only an invoice over nothing, the kind a cut body makes, can be taken   *)
(* for paid when nothing was received (api.go:134, 189-193).               *)
(***************************************************************************)
THEOREM NothingReceivedIsUnpaid == Spec => []NotPaidAtAll
<1>1. TypeOK => NotPaidAtAll
  BY StatusByAmount DEF TypeOK, NotPaidAtAll, status
<1> QED
  BY <1>1, TypeCorrect, PTL

(***************************************************************************)
(* For every amount due and every payment, the status never goes back and  *)
(* the remaining amount never grows.                                       *)
(***************************************************************************)
THEOREM PaymentsAdvance == Spec => StatusAdvances
<1> DEFINE Advance == /\ Rank(status) <= Rank(status')
                      /\ Remaining(digitalValue, received)' <= Remaining(digitalValue, received)
<1>1. ASSUME TypeOK, NEW v \in Amounts, Receive(v)
      PROVE  Advance
  <2>1. /\ digitalValue \in Nat /\ digitalValue' = digitalValue
        /\ received \in Nat /\ received' \in Nat /\ received <= received'
    BY <1>1, ProgressAssumption DEF TypeOK, Receive
  <2> QED
    BY <2>1, AmountOrdersStatus DEF status
<1>2. TypeOK /\ [Next]_vars => [Advance]_vars
  BY <1>1 DEF Next
<1> QED
  BY <1>2, TypeCorrect, PTL DEF Spec, StatusAdvances
=============================================================================
