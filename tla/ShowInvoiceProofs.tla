-------------------------- MODULE ShowInvoiceProofs --------------------------
(***************************************************************************)
(* The safety of the invoice page, for any number of checks on their way,  *)
(* of failures and of payments, and for every amount.                      *)
(***************************************************************************)
EXTENDS ShowInvoice, InvoiceMathProofs

\* What the server judges at some moment is a status and a number.
LEMMA JudgementIsTyped ==
  ASSUME TypeOK
  PROVE  TrueStatus \in Statuses /\ TrueRemaining \in Nat
<1>1. Due \in Nat /\ received \in Nat /\ expired \in BOOLEAN
  BY PageAssumption DEF TypeOK
<1>2. Status(Due, received) \in Statuses /\ Remaining(Due, received) \in Nat
  BY <1>1, StatusOfAmount
<1>3. "expired" \in Statuses
  BY DEF Statuses
<1> QED
  BY <1>2, <1>3 DEF TrueStatus, TrueRemaining

\* The state of a call; its values are records, told apart by "at".
CheckStates == {Free, Sent, Failed} \cup Answered

LEMMA CallsAreRecords ==
  /\ Free \in CheckStates /\ Sent \in CheckStates /\ Failed \in CheckStates
  /\ \A c \in CheckStates : c.at = "answered" => c \in Answered
  /\ Free.at = "free" /\ Sent.at = "sent" /\ Failed.at = "failed"
  /\ \A c \in Answered : c.at = "answered" /\ c.status \in Statuses /\ c.remaining \in Nat
<1>1. Free.at = "free" /\ Sent.at = "sent" /\ Failed.at = "failed"
  BY DEF Free, Sent, Failed
<1>2. \A c \in Answered : c.at = "answered" /\ c.status \in Statuses /\ c.remaining \in Nat
  BY DEF Answered
<1> QED
  BY <1>1, <1>2 DEF CheckStates

LEMMA TypeInit == Init => TypeOK
<1> SUFFICES ASSUME Init PROVE TypeOK
  OBVIOUS
<1>1. status \in Statuses
  BY DEF Init, Statuses
<1>2. check \in [Slots -> {Free, Sent, Failed} \cup Answered]
  BY DEF Init
<1>3. /\ stage \in {"mounting", "filled", "polling", "failed"}
      /\ loading \in BOOLEAN /\ error \in BOOLEAN /\ loaded \in BOOLEAN /\ expired \in BOOLEAN
      /\ remaining \in Nat \cup {Undefined}
      /\ failures \in Nat /\ received \in Nat
  BY DEF Init
<1> QED
  BY <1>1, <1>2, <1>3 DEF TypeOK

LEMMA TypeStep == TypeOK /\ [Next]_vars => TypeOK'
<1> SUFFICES ASSUME TypeOK, [Next]_vars PROVE TypeOK'
  OBVIOUS
<1> USE CallsAreRecords DEF CheckStates
<1>1. CASE FillState \/ BeginPolling
  BY <1>1 DEF FillState, BeginPolling, TypeOK, Send, world
<1>2. CASE GetInvoiceFails
  BY <1>2 DEF GetInvoiceFails, TypeOK, world
<1>3. CASE IntervalFires
  BY <1>3 DEF IntervalFires, TypeOK, Send, state, world
<1>4. ASSUME NEW s \in Slots, ServerAnswers(s)
      PROVE  TypeOK'
  <2>1. [at |-> "answered", status |-> TrueStatus, remaining |-> TrueRemaining] \in Answered
    BY JudgementIsTyped DEF Answered
  <2> QED
    BY <1>4, <2>1 DEF ServerAnswers, TypeOK, state, world
<1>5. ASSUME NEW s \in Slots, CallFails(s)
      PROVE  TypeOK'
  BY <1>5 DEF CallFails, TypeOK, state, world
<1>6. ASSUME NEW s \in Slots, Deliver(s)
      PROVE  TypeOK'
  <2>1. check[s] \in Answered
    BY <1>6 DEF Deliver, TypeOK
  <2> QED
    BY <1>6, <2>1 DEF Deliver, TypeOK, world
<1>7. ASSUME NEW s \in Slots, DeliverError(s)
      PROVE  TypeOK'
  BY <1>7 DEF DeliverError, TypeOK, world
<1>8. ASSUME NEW v \in Payments, Pay(v)
      PROVE  TypeOK'
  <2>1. v \in Nat
    BY PageAssumption
  <2> QED
    BY <1>8, <2>1 DEF Pay, TypeOK, state
<1>9. CASE Expire
  BY <1>9 DEF Expire, TypeOK, state
<1>10. CASE UNCHANGED vars
  BY <1>10 DEF TypeOK, vars, state, world
<1> QED
  BY <1>1, <1>2, <1>3, <1>4, <1>5, <1>6, <1>7, <1>8, <1>9, <1>10 DEF Next

(***************************************************************************)
(* The page keeps its types, whatever is answered, lost and paid           *)
(* (ShowInvoice/index.jsx:14-27).                                          *)
(***************************************************************************)
THEOREM TypeCorrect == Spec => []TypeOK
BY TypeInit, TypeStep, PTL DEF Spec

-----------------------------------------------------------------------------
\* The two callbacks of getInvoice run in this order, and the second ends the loading.
LoadsFirst ==
  /\ loading \/ loaded
  /\ stage = "filled" => loaded
  /\ stage = "mounting" => loading

(***************************************************************************)
(* No receipt is shown before the invoice is in the state: loading ends    *)
(* only after the callback that fills it (ShowInvoice/index.jsx:41, 78;    *)
(* Receipt/index.jsx:10).                                                  *)
(***************************************************************************)
THEOREM ReceiptsAreFilled == Spec => []ReceiptIsFilled
<1>1. Init => LoadsFirst
  BY DEF Init, LoadsFirst
<1>2. LoadsFirst /\ [Next]_vars => LoadsFirst'
  <2> SUFFICES ASSUME LoadsFirst, [Next]_vars PROVE LoadsFirst'
    OBVIOUS
  <2>1. CASE FillState
    BY <2>1 DEF FillState, LoadsFirst
  <2>2. CASE BeginPolling
    BY <2>2 DEF BeginPolling, LoadsFirst
  <2>3. CASE GetInvoiceFails
    BY <2>3 DEF GetInvoiceFails, LoadsFirst
  <2>4. CASE UNCHANGED <<stage, loading, loaded>>
    BY <2>4 DEF LoadsFirst
  <2> QED
    BY <2>1, <2>2, <2>3, <2>4 DEF Next, IntervalFires, ServerAnswers, CallFails,
                                  Deliver, DeliverError, Pay, Expire, vars, state
<1>3. TypeOK /\ LoadsFirst => ReceiptIsFilled
  <2> SUFFICES ASSUME TypeOK, LoadsFirst, ~loaded PROVE Screen # "Receipt"
    BY DEF ReceiptIsFilled
  <2>1. loading /\ status \in Statuses /\ error \in BOOLEAN
    BY DEF LoadsFirst, TypeOK
  <2>2. CASE status = "over_paid"
    BY <2>2 DEF Screen
  <2>3. CASE status = "paid"
    BY <2>3 DEF Screen
  <2>4. CASE status \notin {"over_paid", "paid"} /\ error
    BY <2>1, <2>4 DEF Screen
  <2>5. CASE status \notin {"over_paid", "paid"} /\ ~error
    BY <2>1, <2>5 DEF Screen
  <2> QED
    BY <2>1, <2>2, <2>3, <2>4, <2>5
<1> QED
  BY <1>1, <1>2, <1>3, TypeCorrect, PTL DEF Spec

-----------------------------------------------------------------------------
\* A claim about the invoice that is not ahead of what has happened to it.
Behind(claim, paid, over) ==
  /\ claim = "expired" => over
  /\ claim # "expired" => Rank(claim) <= Rank(Status(Due, paid))

\* Every answer on its way is such a claim: this is what makes reordering harmless.
AnswersBehind == \A s \in Slots : check[s].at = "answered" => Behind(check[s].status, received, expired)

\* Payments and the clock leave claims behind: both only go forward.
LEMMA BehindStays ==
  ASSUME NEW claim \in Statuses, NEW less \in Nat, NEW more \in Nat, less <= more,
         NEW before \in BOOLEAN, NEW after \in BOOLEAN, before => after,
         Behind(claim, less, before)
  PROVE  Behind(claim, more, after)
<1>1. claim = "expired" => after
  BY DEF Behind
<1>2. ASSUME claim # "expired"
      PROVE  Rank(claim) <= Rank(Status(Due, more))
  <2>1. /\ Rank(claim) \in Nat
        /\ Rank(Status(Due, less)) \in Nat /\ Rank(Status(Due, more)) \in Nat
    BY <1>2, PageAssumption, RankIsNumber, StatusOfAmount
  <2>2. Rank(Status(Due, less)) <= Rank(Status(Due, more))
    BY PageAssumption, AmountOrdersStatus
  <2>3. Rank(claim) <= Rank(Status(Due, less))
    BY <1>2 DEF Behind
  <2> QED
    BY <2>1, <2>2, <2>3
<1> QED
  BY <1>1, <1>2 DEF Behind

\* The world goes forward in every step.
LEMMA WorldForward ==
  ASSUME TypeOK, [Next]_vars
  PROVE  received' >= received /\ (expired => expired')
<1>1. ASSUME NEW v \in Payments, Pay(v)
      PROVE  received' >= received /\ expired' = expired
  <2>1. v \in Nat /\ received \in Nat
    BY PageAssumption DEF TypeOK
  <2> QED
    BY <1>1, <2>1 DEF Pay
<1>2. CASE Expire
  BY <1>2 DEF Expire, TypeOK
<1>3. CASE UNCHANGED world
  BY <1>3 DEF world, TypeOK
<1> QED
  BY <1>1, <1>2, <1>3 DEF Next, FillState, BeginPolling, GetInvoiceFails, IntervalFires, ServerAnswers,
                          CallFails, Deliver, DeliverError, vars, TypeOK

\* What the server judges now is not ahead of now.
LEMMA JudgementIsBehind == TypeOK => Behind(TrueStatus, received, expired)
<1> SUFFICES ASSUME TypeOK PROVE Behind(TrueStatus, received, expired)
  OBVIOUS
<1>1. Due \in Nat /\ received \in Nat /\ expired \in BOOLEAN
  BY PageAssumption DEF TypeOK
<1>2. Status(Due, received) # "expired" /\ Rank(Status(Due, received)) \in Nat
  BY <1>1, StatusOfAmount
<1> QED
  BY <1>1, <1>2 DEF TrueStatus, Behind

(***************************************************************************)
(* However answers are delayed or reordered, the page is never ahead of    *)
(* the server (ShowInvoice/index.jsx:64-67, 87-96).                        *)
(***************************************************************************)
THEOREM PageIsBehind == Spec => []NeverAheadOfServer
<1> DEFINE Inv == NeverAheadOfServer /\ AnswersBehind
<1>1. Init => Inv
  <2> SUFFICES ASSUME Init PROVE Inv
    OBVIOUS
  <2>1. status = "unpaid" /\ received = 0 /\ \A s \in Slots : check[s].at = "free"
    BY DEF Init, Free
  <2>2. Rank("unpaid") = 0 /\ Rank(Status(Due, 0)) \in Nat
    <3>1. Due \in Nat /\ 0 \in Nat
      BY PageAssumption
    <3> QED
      BY <3>1, RankIsNumber, StatusOfAmount
  <2> QED
    BY <2>1, <2>2 DEF NeverAheadOfServer, AnswersBehind
<1>2. TypeOK /\ TypeOK' /\ Inv /\ [Next]_vars => Inv'
  <2> SUFFICES ASSUME TypeOK, TypeOK', Inv, [Next]_vars PROVE Inv'
    OBVIOUS
  <2>1. ASSUME NEW claim \in Statuses, Behind(claim, received, expired)
        PROVE  Behind(claim, received', expired')
    <3>1. /\ received \in Nat /\ received' \in Nat /\ received <= received'
          /\ expired \in BOOLEAN /\ expired' \in BOOLEAN /\ (expired => expired')
      BY WorldForward DEF TypeOK
    <3> QED
      BY <2>1, <3>1, BehindStays
  <2>2. ASSUME NEW s \in Slots, check[s].at = "answered"
        PROVE  check[s].status \in Statuses /\ Behind(check[s].status, received', expired')
    <3>1. check[s].status \in Statuses
      BY <2>2, CallsAreRecords DEF TypeOK, CheckStates
    <3> QED
      BY <2>1, <2>2, <3>1 DEF AnswersBehind
  <2>3. Behind(status', received', expired')
    <3>1. CASE \E s \in Slots : Deliver(s)
      BY <2>2, <3>1 DEF Deliver
    <3>2. CASE status' = status
      <4>1. Behind(status, received, expired) /\ status \in Statuses
        BY DEF NeverAheadOfServer, Behind, TypeOK
      <4> QED
        BY <2>1, <3>2, <4>1
    <3> QED
      BY <3>1, <3>2 DEF Next, FillState, BeginPolling, GetInvoiceFails, IntervalFires, ServerAnswers,
                        CallFails, DeliverError, Pay, Expire, vars, state
  <2>4. AnswersBehind'
    <3> SUFFICES ASSUME NEW s \in Slots, (check[s].at = "answered")'
                 PROVE  Behind(check'[s].status, received', expired')
      BY DEF AnswersBehind
    <3>1. CASE ServerAnswers(s)
      <4>1. check'[s].status = TrueStatus
        BY <3>1 DEF ServerAnswers, TypeOK
      <4>2. TrueStatus \in Statuses /\ Behind(TrueStatus, received, expired)
        BY JudgementIsTyped, JudgementIsBehind
      <4>3. Behind(TrueStatus, received', expired')
        BY <2>1, <4>2
      <4> QED
        BY <4>1, <4>3
    <3>2. CASE check'[s] = check[s]
      BY <2>2, <3>2
    <3>3. CASE check'[s] \in {Free, Sent, Failed}
      BY <3>3, CallsAreRecords
    <3> QED
      BY <3>1, <3>2, <3>3 DEF Next, FillState, BeginPolling, GetInvoiceFails, IntervalFires, Send,
            ServerAnswers, CallFails, Deliver, DeliverError, Pay, Expire, vars, state, TypeOK
  <2> QED
    BY <2>3, <2>4 DEF NeverAheadOfServer, Behind
<1> QED
  BY <1>1, <1>2, TypeCorrect, PTL DEF Spec
=============================================================================
