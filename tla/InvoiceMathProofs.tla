-------------------------- MODULE InvoiceMathProofs --------------------------
(***************************************************************************)
(* Lemmas about the arithmetic of the server, for every amount.            *)
(***************************************************************************)
EXTENDS InvoiceMath, TLAPS

\* The interval is the fiftieth part, rounded down (api.go:186).
LEMMA IntervalIsFiftieth ==
  ASSUME NEW due \in Nat
  PROVE  /\ AllowedInterval(due) \in Nat
         /\ 50 * AllowedInterval(due) <= due
         /\ due < 50 * AllowedInterval(due) + 50
BY DEF AllowedInterval

\* The tests of CheckInvoice, one after the other, as inequalities (api.go:189-201).
LEMMA StatusByAmount ==
  ASSUME NEW due \in Nat, NEW paid \in Nat
  PROVE  /\ Status(due, paid) = "paid" <=> /\ 50 * paid >= 49 * due
                                           /\ 50 * paid =< 51 * due
         /\ Status(due, paid) = "over_paid" <=> 50 * paid > 51 * due
         /\ Status(due, paid) = "unpaid" <=> 50 * paid < 49 * due /\ paid = 0
         /\ Status(due, paid) = "partially_paid" <=> 50 * paid < 49 * due /\ paid # 0
<1> DEFINE i == AllowedInterval(due)
<1>1. i \in Nat /\ 50 * i <= due /\ due < 50 * i + 50
  BY IntervalIsFiftieth
<1> HIDE DEF i
<1>2. /\ paid >= due - i <=> 50 * paid >= 49 * due
      /\ paid <= due + i <=> 50 * paid =< 51 * due
  BY <1>1
<1>3. /\ InRange(due, paid) <=> ~(paid < LowestPaid(due)) /\ ~(paid > HighestPaid(due))
      /\ paid < LowestPaid(due) <=> 50 * paid < 49 * due
      /\ paid > HighestPaid(due) <=> 50 * paid > 51 * due
      /\ ~(paid < LowestPaid(due) /\ paid > HighestPaid(due))
  BY <1>1, <1>2 DEF InRange, LowestPaid, HighestPaid, i
<1>4. CASE InRange(due, paid)
  <2>1. Status(due, paid) = "paid"
    BY <1>3, <1>4 DEF Status
  <2> QED
    BY <1>3, <1>4, <2>1
<1>5. CASE ~InRange(due, paid) /\ paid = 0
  <2>1. Status(due, paid) = "unpaid"
    BY <1>5 DEF Status
  <2>2. ~(50 * paid > 51 * due)
    BY <1>5
  <2> QED
    BY <1>3, <1>5, <2>1, <2>2
<1>6. CASE paid # 0 /\ paid < LowestPaid(due)
  <2>1. Status(due, paid) = "partially_paid"
    BY <1>3, <1>6 DEF Status
  <2> QED
    BY <1>3, <1>6, <2>1
<1>7. CASE paid # 0 /\ paid > HighestPaid(due)
  <2>1. Status(due, paid) = "over_paid"
    BY <1>3, <1>7 DEF Status
  <2> QED
    BY <1>3, <1>7, <2>1
<1> QED
  BY <1>3, <1>4, <1>5, <1>6, <1>7

\* CheckInvoice has a status for every amount.
LEMMA StatusIsStatus ==
  ASSUME NEW due \in Nat, NEW paid \in Nat
  PROVE  Status(due, paid) \in Statuses
<1>1. \/ 50 * paid >= 49 * due /\ 50 * paid =< 51 * due
      \/ 50 * paid > 51 * due
      \/ 50 * paid < 49 * due
  OBVIOUS
<1> QED
  BY <1>1, StatusByAmount DEF Statuses

\* Nothing remains of a settled invoice, and all that was not paid of another.
LEMMA RemainingByAmount ==
  ASSUME NEW due \in Nat, NEW paid \in Nat
  PROVE  Remaining(due, paid) = IF 50 * paid < 49 * due THEN due - paid ELSE 0
<1>1. Status(due, paid) \in {"unpaid", "partially_paid"} <=> 50 * paid < 49 * due
  BY StatusByAmount
<1> QED
  BY <1>1 DEF Remaining

\* A larger amount has no lower status, and leaves no more to pay.
LEMMA AmountOrdersStatus ==
  ASSUME NEW due \in Nat, NEW less \in Nat, NEW more \in Nat, less <= more
  PROVE  /\ Rank(Status(due, less)) <= Rank(Status(due, more))
         /\ Remaining(due, more) <= Remaining(due, less)
<1>1. /\ Rank("unpaid") = 0 /\ Rank("partially_paid") = 1
      /\ Rank("paid") = 2 /\ Rank("over_paid") = 3
  BY DEF Rank
<1>2. ASSUME NEW paid \in Nat
      PROVE  Rank(Status(due, paid)) = IF 50 * paid > 51 * due THEN 3
                                       ELSE IF 50 * paid >= 49 * due THEN 2
                                       ELSE IF paid # 0 THEN 1 ELSE 0
  <2>1. CASE 50 * paid > 51 * due
    BY <1>1, <2>1, StatusByAmount
  <2>2. CASE ~(50 * paid > 51 * due) /\ 50 * paid >= 49 * due
    BY <1>1, <2>2, StatusByAmount
  <2>3. CASE 50 * paid < 49 * due
    BY <1>1, <2>3, StatusByAmount
  <2> QED
    BY <2>1, <2>2, <2>3
<1>3. Rank(Status(due, less)) <= Rank(Status(due, more))
  BY <1>2
<1>4. Remaining(due, more) <= Remaining(due, less)
  BY RemainingByAmount
<1> QED
  BY <1>3, <1>4

\* Each status has a rank.
LEMMA RankIsNumber ==
  /\ Rank("unpaid") = 0 /\ Rank("partially_paid") = 1 /\ Rank("paid") = 2 /\ Rank("over_paid") = 3
  /\ \A status \in Statuses \ {"expired"} : Rank(status) \in Nat
<1>1. /\ Rank("unpaid") = 0 /\ Rank("partially_paid") = 1
      /\ Rank("paid") = 2 /\ Rank("over_paid") = 3
  BY DEF Rank
<1> QED
  BY <1>1 DEF Statuses

\* The status of an amount is no deadline, and what remains is a number.
LEMMA StatusOfAmount ==
  ASSUME NEW due \in Nat, NEW paid \in Nat
  PROVE  /\ Status(due, paid) \in Statuses \ {"expired"}
         /\ Rank(Status(due, paid)) \in Nat
         /\ Remaining(due, paid) \in Nat
         /\ Status(due, paid) \in {"paid", "over_paid"} => paid >= LowestPaid(due)
<1>1. Status(due, paid) \in {"paid", "unpaid", "partially_paid", "over_paid"}
  <2>1. \/ 50 * paid >= 49 * due /\ 50 * paid =< 51 * due
        \/ 50 * paid > 51 * due
        \/ 50 * paid < 49 * due
    OBVIOUS
  <2> QED
    BY <2>1, StatusByAmount
<1>2. Remaining(due, paid) \in Nat
  BY RemainingByAmount
<1>3. ASSUME Status(due, paid) \in {"paid", "over_paid"}
      PROVE  paid >= LowestPaid(due)
  <2> DEFINE i == AllowedInterval(due)
  <2>1. i \in Nat /\ 50 * i <= due /\ due < 50 * i + 50
    BY IntervalIsFiftieth
  <2>2. 50 * paid >= 49 * due
    BY <1>3, StatusByAmount
  <2> HIDE DEF i
  <2>3. paid >= due - i
    BY <2>1, <2>2
  <2> QED
    BY <2>3 DEF LowestPaid, i
<1>4. Status(due, paid) \in Statuses \ {"expired"}
  BY <1>1 DEF Statuses
<1> QED
  BY <1>2, <1>3, <1>4, RankIsNumber

-----------------------------------------------------------------------------
\* Whatever prefix of its body is read, a quote becomes a number of satoshis.
LEMMA DigitalValuesAreNat ==
  ASSUME NEW q \in Nat
  PROVE  DigitalValues(q) \subseteq Nat
<1>1. ASSUME NEW p \in DecimalPlaces
      PROVE  q - (q % p) \in Nat
  BY DEF DecimalPlaces
<1>2. BodyReadings(q) \subseteq Nat
  BY <1>1 DEF BodyReadings
<1>3. ASSUME NEW b \in Nat
      PROVE  Satoshis(b) \in Nat
  BY ShortQuotesAssumption DEF Satoshis
<1> QED
  BY <1>2, <1>3 DEF DigitalValues
=============================================================================
