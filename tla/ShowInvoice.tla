----------------------------- MODULE ShowInvoice -----------------------------
(***************************************************************************)
(* The invoice page of the client (client/src/components/ShowInvoice).     *)
(* After getInvoice has answered, the page asks for the status at once and *)
(* then every ten seconds, without waiting for the answer of the call      *)
(* before: answers may overtake one another.  A call is judged by the      *)
(* server at some moment between its sending and its answer.               *)
(***************************************************************************)
EXTENDS InvoiceMath

CONSTANTS
  Slots,        \* bound of the model: the calls that are on their way at once
  Due,          \* DigitalValue of the invoice
  Payments,     \* the value of one payment
  MaxReceived,  \* bound of the model on what the address receives
  MaxFailures,  \* bound of the model on the calls that fail
  Undefined     \* JavaScript's undefined

ASSUME PageAssumption ==
  /\ Due \in Nat
  /\ Payments \subseteq Nat \ {0}
  /\ MaxReceived \in Nat
  /\ MaxFailures \in Nat
  /\ Undefined \notin Nat

VARIABLES
  stage,      \* "mounting" until getInvoice answers, "filled", "polling"; or "failed"
  loading,    \* state.loading
  error,      \* state.error # null
  status,     \* state.status
  remaining,  \* state.digitalValueRemaining, or Undefined
  loaded,     \* are fiatValue, digitalValue, expiry and invoiceID in the state?
  check,      \* check[s]: the checkInvoice call in slot s
  failures,   \* how many calls have failed
  received,   \* what the address of the invoice has received
  expired     \* has the invoice expired?

state == <<stage, loading, error, status, remaining, loaded>>
world == <<received, expired>>
vars  == <<state, check, failures, world>>

Free   == [at |-> "free"]
Sent   == [at |-> "sent"]
Failed == [at |-> "failed"]
Answered == [at : {"answered"}, status : Statuses, remaining : Nat]

TypeOK ==
  /\ stage \in {"mounting", "filled", "polling", "failed"}
  /\ loading \in BOOLEAN /\ error \in BOOLEAN /\ loaded \in BOOLEAN
  /\ status \in Statuses
  /\ remaining \in Nat \cup {Undefined}
  /\ check \in [Slots -> {Free, Sent, Failed} \cup Answered]
  /\ failures \in Nat /\ received \in Nat /\ expired \in BOOLEAN

Init ==
  /\ stage = "mounting"
  /\ loading = TRUE
  /\ error = FALSE
  /\ status = "unpaid"
  /\ remaining = Undefined
  /\ loaded = FALSE
  /\ check = [s \in Slots |-> Free]
  /\ failures = 0
  /\ received = 0
  /\ expired = FALSE

-----------------------------------------------------------------------------
\* What the server answers to checkInvoice at this moment.
TrueStatus    == IF expired THEN "expired" ELSE Status(Due, received)
TrueRemaining == IF expired THEN 0 ELSE Remaining(Due, received)

Send(s) == check[s] = Free /\ check' = [check EXCEPT ![s] = Sent]

\* Variant: the loading screen goes before the invoice is in the state.
FillStateLate ==
  /\ stage = "mounting"
  /\ stage' = "filled"
  /\ loading' = FALSE
  /\ UNCHANGED <<error, status, remaining, loaded, check, failures, world>>

\* getInvoice answers: its callback puts the invoice into the state, ...
FillState ==
  /\ stage = "mounting"
  /\ stage' = "filled"
  /\ loaded' = TRUE
  /\ UNCHANGED <<loading, error, status, remaining, check, failures, world>>

\* ... and what is chained to it goes on: the first check is sent, the timer set.
BeginPolling ==
  /\ stage = "filled"
  /\ stage' = "polling"
  /\ loading' = FALSE
  /\ \E s \in Slots : Send(s)
  /\ UNCHANGED <<error, status, remaining, loaded, failures, world>>

\* getInvoice fails: there is no check and no timer.
GetInvoiceFails ==
  /\ stage = "mounting"
  /\ failures < MaxFailures
  /\ failures' = failures + 1
  /\ stage' = "failed"
  /\ error' = TRUE
  /\ UNCHANGED <<loading, status, remaining, loaded, check, world>>

\* Variant: the timer is cleared when the invoice is settled.
IntervalStopsPaid ==
  /\ stage = "polling"
  /\ status \notin {"paid", "over_paid"}
  /\ \E s \in Slots : Send(s)
  /\ UNCHANGED <<state, failures, world>>

\* The timer fires, whatever the status is; it is never cleared.
IntervalFires ==
  /\ stage = "polling"
  /\ \E s \in Slots : Send(s)
  /\ UNCHANGED <<state, failures, world>>

\* The server judges the invoice; the answer is on its way.
ServerAnswers(s) ==
  /\ check[s] = Sent
  /\ check' = [check EXCEPT ![s] = [at |-> "answered", status |-> TrueStatus,
                                    remaining |-> TrueRemaining]]
  /\ UNCHANGED <<state, failures, world>>

\* The call fails on its way there or back, or the server answers with an error.
CallFails(s) ==
  /\ check[s].at \in {"sent", "answered"}
  /\ failures < MaxFailures
  /\ failures' = failures + 1
  /\ check' = [check EXCEPT ![s] = Failed]
  /\ UNCHANGED <<state, world>>

\* The callback of checkInvoice, with an answer ...
Deliver(s) ==
  /\ check[s].at = "answered"
  /\ status' = check[s].status
  /\ remaining' = check[s].remaining
  /\ check' = [check EXCEPT ![s] = Free]
  /\ UNCHANGED <<stage, loading, error, loaded, failures, world>>

\* Variant: the error is put in the place of the status.
DeliverErrorAsStatus(s) ==
  /\ check[s] = Failed
  /\ status' = "error"
  /\ check' = [check EXCEPT ![s] = Free]
  /\ UNCHANGED <<stage, loading, error, remaining, loaded, failures, world>>

\* Variant: an invoice that cannot be checked counts as expired.
DeliverErrorExpires(s) ==
  /\ check[s] = Failed
  /\ status' = "expired"
  /\ check' = [check EXCEPT ![s] = Free]
  /\ UNCHANGED <<stage, loading, error, remaining, loaded, failures, world>>

\* ... or with an error.
DeliverError(s) ==
  /\ check[s] = Failed
  /\ error' = TRUE
  /\ check' = [check EXCEPT ![s] = Free]
  /\ UNCHANGED <<stage, loading, status, remaining, loaded, failures, world>>

Pay(v) ==
  /\ received + v <= MaxReceived
  /\ received' = received + v
  /\ UNCHANGED <<state, check, failures, expired>>

Expire ==
  /\ ~expired
  /\ expired' = TRUE
  /\ UNCHANGED <<state, check, failures, received>>

Next ==
  \/ FillState \/ GetInvoiceFails \/ BeginPolling \/ IntervalFires
  \/ \E s \in Slots : ServerAnswers(s) \/ CallFails(s) \/ Deliver(s) \/ DeliverError(s)
  \/ \E v \in Payments : Pay(v)
  \/ Expire

Spec == Init /\ [][Next]_vars

(***************************************************************************)
(* The timer fires as long as the page is open, and every call ends in a   *)
(* callback, as it does while the node answers.  Nobody need pay, no call  *)
(* need fail, and the page may be left before the invoice expires.         *)
(***************************************************************************)
Fairness ==
  /\ WF_vars(IntervalFires)
  /\ \A s \in Slots : /\ WF_vars(ServerAnswers(s))
                      /\ WF_vars(Deliver(s))
                      /\ WF_vars(DeliverError(s))

FairSpec == Spec /\ Fairness

-----------------------------------------------------------------------------
\* What render shows, in the order of its tests.
Screen ==
  CASE status = "over_paid" -> "OverPaid"
    [] status = "paid" -> "Paid"
    [] status \notin {"over_paid", "paid"} /\ error -> "Error"
    [] status \notin {"over_paid", "paid"} /\ ~error /\ loading -> "Invoice not found!"
    [] status = "expired" /\ ~error /\ ~loading -> "Expired!"
    [] status \in {"unpaid", "partially_paid"} /\ ~error /\ ~loading -> "Receipt"

\* The receipt of an invoice that is not settled, with what remains.
Shown == <<Screen, IF Screen = "Receipt" THEN remaining ELSE 0>>

\* What the page shows once it knows what the server knows.
ShouldShow ==
  CASE TrueStatus = "over_paid" -> <<"OverPaid", 0>>
    [] TrueStatus = "paid" -> <<"Paid", 0>>
    [] TrueStatus = "expired" -> <<"Expired!", 0>>
    [] TrueStatus \in {"unpaid", "partially_paid"} -> <<"Receipt", TrueRemaining>>

(***************************************************************************)
(* The receipt copies its props when it is mounted (Receipt/index.jsx:10), *)
(* so it must not be shown before the invoice is in the state.             *)
(***************************************************************************)
ReceiptIsFilled == Screen = "Receipt" => loaded

(***************************************************************************)
(* However answers are delayed or reordered, the page never claims more    *)
(* than has been received, and never an expiry that has not come           *)
(* (ShowInvoice/index.jsx:64-67, 87-96).                                   *)
(***************************************************************************)
NeverAheadOfServer ==
  /\ status = "expired" => expired
  /\ status # "expired" => Rank(status) <= Rank(Status(Due, received))

(***************************************************************************)
(* An answer that overtook a newer one does not stay: when payments have   *)
(* come to rest, in time or after the expiry, the state of a polling page  *)
(* is what the server answers, for good: unpaid, partially paid, paid,     *)
(* overpaid or expired (the timer is never cleared).                       *)
(***************************************************************************)
PageConverges ==
  (stage = "polling") ~> [](status = TrueStatus /\ remaining = TrueRemaining)

(***************************************************************************)
(* "Invoice balance updates as new payments arrive." (README.md:32): an    *)
(* open page comes to show what the server knows.                          *)
(***************************************************************************)
BalanceUpdates == (stage = "polling") ~> (Shown = ShouldShow)
=============================================================================
