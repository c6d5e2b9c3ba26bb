------------------------- MODULE InvoiceServerProofs -------------------------
(***************************************************************************)
(* Safety of the backend for every number of calls, every index at which   *)
(* derivation fails, and every price, payment and lifetime, whatever the   *)
(* interleaving, the races for the index and the map, the failures of the  *)
(* node, the aborts and the restarts.                                      *)
(***************************************************************************)
EXTENDS InvoiceServerRefinement, InvoiceMathProofs, FiniteSetTheorems

Creating == {"price", "derive", "load", "store", "insert", "inserting", "filling"}
Checking == {"deadline", "balance", "verdict"}

\* A call does what it was asked for, in the process that it was made in.
CallFits(c) ==
  /\ pc[c] = "idle" => request[c] = NoRequest
  /\ pc[c] \in Creating => request[c].op = "create"
  /\ pc[c] = "lookup" => request[c].op \in {"check", "get"}
  /\ pc[c] \in Checking => request[c].op = "check"
  /\ pc[c] # "done" => reply[c] = NoReply
  /\ reply[c].kind = "status" => request[c].op = "check"
  /\ reply[c].kind = "invoice" => request[c].op \in {"create", "get"}
  /\ born[c] <= restarts
  /\ InFlight(c) => up /\ born[c] = restarts

Fits == \A c \in Calls : CallFits(c)

\* A reply of kind "invoice" carries an invoice.
LEMMA InvoiceReplies ==
  ASSUME NEW r \in Reply, r.kind = "invoice"
  PROVE  r.invoice \in Invoice /\ r.invoice.InvoiceID \in Nat
BY DEF Reply, NoReply, Unavailable, ErrorReply, InvoiceReply, StatusReply, Invoice

\* What a request for an invoice to be created carries.
LEMMA CreateRequests ==
  ASSUME NEW r \in Request, r.op = "create"
  PROVE  r.value \in Int /\ r.value \in FiatValues
<1>1. r \in CreateRequest
  BY DEF Request, NoRequest, CreateRequest, IdRequest
<1> QED
  BY <1>1, ServerAssumption DEF CreateRequest

\* What the handlers answer are replies.
LEMMA Replies ==
  /\ \A cause \in {"value", "price", "derive", "id", "balance"} :
       [kind |-> "error", why |-> cause] \in Reply
  /\ Unavailable \in Reply
  /\ NoReply \in Reply
  /\ \A i \in Invoice : [kind |-> "invoice", invoice |-> i] \in Reply
  /\ \A s \in Statuses, n \in Int : [kind |-> "status", status |-> s, remaining |-> n] \in Reply
BY DEF Reply, NoReply, Unavailable, ErrorReply, InvoiceReply, StatusReply

\* A map that is updated at a key keeps its other entries.
LEMMA WithAt ==
  ASSUME NEW S, NEW f, f \in [DOMAIN f -> S], DOMAIN f \subseteq Nat,
         NEW key \in Nat, NEW value \in S
  PROVE  /\ DOMAIN With(f, key, value) = DOMAIN f \cup {key}
         /\ DOMAIN With(f, key, value) \subseteq Nat
         /\ With(f, key, value) \in [DOMAIN With(f, key, value) -> S]
         /\ With(f, key, value)[key] = value
         /\ \A k \in DOMAIN f : k # key => With(f, key, value)[k] = f[k]
BY DEF With

\* An entry that is placed has a value only if it had one before.
LEMMA PlacedAt ==
  ASSUME TypeOK, NEW key \in Nat
  PROVE  /\ DOMAIN Placed(key) = DOMAIN invoices \cup {key}
         /\ DOMAIN Placed(key) \subseteq Nat
         /\ Placed(key) \in [DOMAIN Placed(key) -> Invoice]
         /\ \A k \in DOMAIN invoices : Placed(key)[k] = invoices[k]
         /\ key \notin DOMAIN invoices => Placed(key)[key] = NoInvoice
<1>1. NoInvoice \in Invoice /\ invoices \in [DOMAIN invoices -> Invoice] /\ DOMAIN invoices \subseteq Nat
  BY DEF TypeOK, NoInvoice, Invoice
<1> QED
  BY <1>1 DEF Placed, With

\* What an address has received is a number.
LEMMA AmountsAreNat ==
  ASSUME TypeOK, NEW a
  PROVE  AmountAt(a) \in Nat
BY DEF TypeOK, AmountAt

-----------------------------------------------------------------------------
(***************************************************************************)
(* Types.                                                                  *)
(***************************************************************************)
LEMMA TypeInit == Init => TypeOK /\ Fits
BY Replies
   DEF Init, TypeOK, Fits, CallFits, Creating, Checking, InFlight, NoInvoice, Invoice, PC, EmptyMap,
       Request, NoReply, NoSearch, Search

LEMMA TypeStep == TypeOK /\ Fits /\ [Next]_vars => TypeOK' /\ Fits'
<1> SUFFICES ASSUME TypeOK, Fits, [Next]_vars
             PROVE  TypeOK' /\ Fits'
  OBVIOUS
<1>1. ASSUME NEW c \in Calls, CreateInvoice(c)
      PROVE  TypeOK' /\ Fits'
  <2>1. TypeOK'
    BY <1>1, Replies DEF TypeOK, PC, CreateInvoice, Made, Answer, GoTo, Fail, Request, CreateRequest, process, world
  <2>2. Fits'
    BY <1>1, Replies DEF TypeOK, Fits, CallFits, Creating, Checking, InFlight,
       CreateInvoice, Made, Answer, GoTo, Fail, NoReply, process, world
  <2> QED
    BY <2>1, <2>2
<1>2. ASSUME NEW c \in Calls, GetPrice(c)
      PROVE  TypeOK' /\ Fits'
  <2>1. request[c].value \in Int
    BY <1>2, CreateRequests DEF TypeOK, Fits, CallFits, Creating, GetPrice
  <2>2. terms' \in [Calls -> Invoice]
    BY <1>2, <2>1, DigitalValuesAreNat, ServerAssumption DEF TypeOK, GetPrice, Invoice
  <2> QED
    BY <1>2, <2>2, Replies DEF TypeOK, Fits, CallFits, Creating, Checking, InFlight, PC, GetPrice, Answer, GoTo, Fail,
       process, world
<1>3. ASSUME NEW c \in Calls, DeriveChild(c)
      PROVE  TypeOK' /\ Fits'
  <2>1. terms' \in [Calls -> Invoice]
    BY <1>3 DEF TypeOK, DeriveChild, ReadIndex, Invoice, AddressAt
  <2> QED
    BY <1>3, <2>1, Replies DEF TypeOK, Fits, CallFits, Creating, Checking, InFlight, PC, DeriveChild, ReadIndex, Answer,
       GoTo, Fail, process, world
<1>4. ASSUME NEW c \in Calls, LoadIndex(c)
      PROVE  TypeOK' /\ Fits'
  BY <1>4, Replies DEF TypeOK, Fits, CallFits, Creating, Checking, InFlight, PC,
     LoadIndex, GoTo, process, world
<1>5. ASSUME NEW c \in Calls, StoreIndex(c)
      PROVE  TypeOK' /\ Fits'
  BY <1>5, Replies DEF TypeOK, Fits, CallFits, Creating, Checking, InFlight, PC,
     StoreIndex, GoTo, world
<1>6. ASSUME NEW c \in Calls, BeginInsert(c)
      PROVE  TypeOK' /\ Fits'
  BY <1>6, Replies DEF TypeOK, Fits, CallFits, Creating, Checking, InFlight, PC,
     BeginInsert, GoTo, process, locals, world
<1>7. ASSUME NEW c \in Calls, PlaceKey(c)
      PROVE  TypeOK' /\ Fits'
  <2>1. terms[c].InvoiceID \in Nat
    BY DEF TypeOK, Invoice
  <2>2. DOMAIN invoices' \subseteq Nat /\ invoices' \in [DOMAIN invoices' -> Invoice]
    BY <1>7, <2>1, PlacedAt DEF PlaceKey
  <2> QED
    BY <1>7, <2>1, <2>2 DEF TypeOK, Fits, CallFits, Creating, Checking, InFlight, PC, PlaceKey, GoTo, world
<1>8. ASSUME NEW c \in Calls, NEW d \in Calls, PlaceOverlap(c, d)
      PROVE  TypeOK' /\ Fits'
  <2>1. \A k \in Calls : terms[k].InvoiceID \in Nat
    BY DEF TypeOK, Invoice
  <2>2. PICK k \in Calls : /\ invoices' = Placed(terms[k].InvoiceID)
                           /\ slot' = [slot EXCEPT ![c] = terms[k].InvoiceID, ![d] = terms[k].InvoiceID]
    BY <1>8 DEF PlaceOverlap
  <2>3. DOMAIN invoices' \subseteq Nat /\ invoices' \in [DOMAIN invoices' -> Invoice]
    BY <2>1, <2>2, PlacedAt
  <2> QED
    BY <1>8, <2>1, <2>2, <2>3 DEF TypeOK, Fits, CallFits, Creating, Checking, InFlight, PC, PlaceOverlap, world
<1>9. ASSUME NEW c \in Calls, MoveEntry(c)
      PROVE  TypeOK' /\ Fits'
  <2>1. DOMAIN invoices' \subseteq Nat /\ invoices' \in [DOMAIN invoices' -> Invoice]
    BY <1>9 DEF TypeOK, MoveEntry
  <2> QED
    BY <1>9, <2>1 DEF TypeOK, Fits, CallFits, Creating, Checking, InFlight, PC, MoveEntry, world
<1>10. ASSUME NEW c \in Calls, Fill(c)
      PROVE  TypeOK' /\ Fits'
  <2>1. terms[c] \in Invoice /\ slot[c] \in Nat
    BY DEF TypeOK
  <2>2. DOMAIN invoices' \subseteq Nat /\ invoices' \in [DOMAIN invoices' -> Invoice]
    BY <1>10, <2>1, WithAt DEF TypeOK, Fill
  <2> QED
    BY <1>10, <2>1, <2>2, Replies DEF TypeOK, Fits, CallFits, Creating, Checking, InFlight, PC, Fill, Answer, GoTo, world
<1>11. ASSUME NEW c \in Calls, CheckInvoice(c)
      PROVE  TypeOK' /\ Fits'
  <2>1. TypeOK'
    BY <1>11, Replies DEF TypeOK, PC, CheckInvoice, Made, Answer, GoTo, Fail, Request, IdRequest, process, world
  <2>2. Fits'
    BY <1>11, Replies DEF TypeOK, Fits, CallFits, Creating, Checking, InFlight,
       CheckInvoice, Made, Answer, GoTo, Fail, NoReply, process, world
  <2> QED
    BY <2>1, <2>2
<1>12. ASSUME NEW c \in Calls, GetInvoice(c)
      PROVE  TypeOK' /\ Fits'
  <2>1. TypeOK'
    BY <1>12, Replies DEF TypeOK, PC, GetInvoice, Made, GoTo, Request, IdRequest, process, world
  <2>2. Fits'
    BY <1>12, Replies DEF TypeOK, Fits, CallFits, Creating, Checking, InFlight,
       GetInvoice, Made, GoTo, NoReply, process, world
  <2> QED
    BY <2>1, <2>2
<1>13. ASSUME NEW c \in Calls, LookupCheck(c)
      PROVE  TypeOK' /\ Fits'
  BY <1>13, Replies DEF TypeOK, Fits, CallFits, Creating, Checking, InFlight, PC,
     LookupCheck, Finds, Answer, GoTo, Fail, process, world
<1>14. ASSUME NEW c \in Calls, LookupGet(c)
      PROVE  TypeOK' /\ Fits'
  <2>1. terms' \in [Calls -> Invoice]
    BY <1>14 DEF TypeOK, LookupGet, Finds
  <2>2. terms'[c] \in Invoice
    BY <2>1
  <2> QED
    BY <1>14, <2>1, <2>2, Replies DEF TypeOK, Fits, CallFits, Creating, Checking, InFlight, PC, LookupGet, Answer, GoTo, Fail,
       process, world
<1>15. ASSUME NEW c \in Calls, CheckDeadline(c)
      PROVE  TypeOK' /\ Fits'
  BY <1>15, Replies DEF TypeOK, Fits, CallFits, Creating, Checking, InFlight, PC, CheckDeadline, DeadlineTest, Answer, GoTo,
     Statuses, process, locals, world
<1>16. ASSUME NEW c \in Calls, GetReceivedAmount(c)
      PROVE  TypeOK' /\ Fits'
  <2>1. AmountAt(request[c].id) \in Nat
    BY AmountsAreNat
  <2>2. search' \in [Calls -> Search]
    BY <1>16, <2>1 DEF TypeOK, GetReceivedAmount, Search
  <2>3. TypeOK'
    <3>1. reply' \in [Calls -> Reply] /\ pc' \in [Calls -> PC]
      BY <1>16, Replies DEF TypeOK, PC, GetReceivedAmount, Answer, GoTo, Fail
    <3> QED
      BY <1>16, <2>2, <3>1 DEF TypeOK, GetReceivedAmount, process, world
  <2>4. Fits'
    BY <1>16, <2>2, Replies DEF TypeOK, Fits, CallFits, Creating, Checking, InFlight,
       GetReceivedAmount, Answer, GoTo, Fail, process, world
  <2> QED
    BY <2>3, <2>4
<1>17. ASSUME NEW c \in Calls, AnswerCheck(c)
      PROVE  TypeOK' /\ Fits'
  <2>1. terms[c].DigitalValue \in Nat /\ search[c].paid \in Nat
    BY DEF TypeOK, Invoice, Search
  <2>2. /\ Status(terms[c].DigitalValue, search[c].paid) \in Statuses
        /\ Remaining(terms[c].DigitalValue, search[c].paid) \in Int
    <3>1. \A due, paid \in Nat : Status(due, paid) \in Statuses /\ Remaining(due, paid) \in Int
      BY StatusIsStatus, RemainingByAmount
    <3> QED
      BY <2>1, <3>1
  <2>3. TypeOK'
    <3>1. reply' \in [Calls -> Reply] /\ pc' \in [Calls -> PC]
      BY <1>17, <2>2, Replies DEF TypeOK, PC, AnswerCheck, Answer, GoTo
    <3> QED
      BY <1>17, <3>1 DEF TypeOK, AnswerCheck, process, locals, world
  <2>4. Fits'
    BY <1>17, <2>2, Replies DEF TypeOK, Fits, CallFits, Creating, Checking, InFlight,
       AnswerCheck, Answer, GoTo, process, locals, world
  <2> QED
    BY <2>3, <2>4
<1>18. CASE Die
  BY <1>18, Replies DEF TypeOK, Fits, CallFits, Creating, Checking, InFlight, PC, Die, Unavailable, NoReply, locals, world
<1>19. CASE Restart
  BY <1>19 DEF TypeOK, Fits, CallFits, Creating, Checking, InFlight, PC, Restart, EmptyMap, call, locals
<1>20. CASE Tick
  BY <1>20 DEF TypeOK, Fits, CallFits, Creating, Checking, InFlight, PC, Tick, process, call, locals
<1>21. ASSUME NEW c \in Calls, NEW v \in Payments, Pay(c, v)
      PROVE  TypeOK' /\ Fits'
  <2> DEFINE a == reply[c].invoice.InvoiceID
  <2>1. a \in Nat /\ AmountAt(a) + v \in Nat
    BY <1>21, InvoiceReplies, AmountsAreNat, ServerAssumption DEF TypeOK, Pay
  <2>2. received' = With(received, a, AmountAt(a) + v)
    BY <1>21 DEF Pay
  <2> HIDE DEF a
  <2>3. DOMAIN received' \subseteq Nat /\ received' \in [DOMAIN received' -> Nat]
    BY <2>1, <2>2, WithAt DEF TypeOK
  <2> QED
    BY <1>21, <2>3 DEF TypeOK, Fits, CallFits, Creating, Checking, InFlight, PC, Pay, process, call, locals
<1>22. CASE UNCHANGED vars
  BY <1>22 DEF TypeOK, Fits, CallFits, Creating, Checking, InFlight, PC, vars, process, call, locals, world
<1> QED
  BY <1>1, <1>2, <1>3, <1>4, <1>5, <1>6, <1>7, <1>8, <1>9, <1>10, <1>11, <1>12, <1>13, <1>14, <1>15, <1>16, <1>17, <1>18, <1>19, <1>20, <1>21, <1>22
     DEF Next, Progress, MapFault, NilDereference, Kill

\* A call that is not done has no answer, and does what it was asked for.
LEMMA TypesFit == Spec => [](TypeOK /\ Fits)
BY TypeInit, TypeStep, PTL DEF Spec

(***************************************************************************)
(* Every variable keeps its type, however handlers race, fail and are cut  *)
(* off (the goroutines of api.go share Server without a lock).             *)
(***************************************************************************)
THEOREM TypeCorrect == Spec => []TypeOK
BY TypesFit, PTL


-----------------------------------------------------------------------------
(***************************************************************************)
(* What a step may change.                                                 *)
(***************************************************************************)
Places(c) == PlaceKey(c) \/ \E d \in Calls : PlaceOverlap(c, d) \/ PlaceOverlap(d, c)

Creates(c) ==
  \/ CreateInvoice(c) \/ GetPrice(c) \/ DeriveChild(c) \/ LoadIndex(c) \/ StoreIndex(c)
  \/ BeginInsert(c) \/ Places(c) \/ Fill(c)

Checks(c) ==
  \/ CheckInvoice(c) \/ GetInvoice(c) \/ LookupCheck(c) \/ LookupGet(c)
  \/ CheckDeadline(c) \/ GetReceivedAmount(c) \/ AnswerCheck(c)

Rests(c) ==
  /\ pc'[c] = pc[c] /\ request'[c] = request[c] /\ terms'[c] = terms[c] /\ loaded'[c] = loaded[c]
  /\ search'[c] = search[c] /\ born'[c] = born[c] /\ reply'[c] = reply[c]

\* A step is one of these.
LEMMA Steps ==
  ASSUME [Next]_vars
  PROVE  \/ \E c \in Calls : Creates(c) \/ Checks(c) \/ MoveEntry(c) \/ \E v \in Payments : Pay(c, v)
         \/ Die \/ Restart \/ Tick \/ UNCHANGED vars
BY DEF Next, Progress, MapFault, NilDereference, Kill, Creates, Checks, Places

\* A call rests, is cut off, or makes a step of its own.
LEMMA CallChanges ==
  ASSUME TypeOK, [Next]_vars, NEW c \in Calls
  PROVE  Rests(c) \/ (Die /\ InFlight(c)) \/ Creates(c) \/ Checks(c)
<1>0. /\ pc \in [Calls -> PC] /\ request \in [Calls -> Request] /\ terms \in [Calls -> Invoice]
      /\ loaded \in [Calls -> Nat] /\ search \in [Calls -> Search] /\ born \in [Calls -> Nat]
      /\ reply \in [Calls -> Reply]
  BY DEF TypeOK
<1>1. ASSUME NEW d \in Calls, d # c,
             \/ CreateInvoice(d) \/ GetPrice(d) \/ DeriveChild(d) \/ LoadIndex(d) \/ StoreIndex(d)
             \/ BeginInsert(d) \/ PlaceKey(d) \/ Fill(d)
      PROVE  Rests(c)
  BY <1>0, <1>1 DEF Rests, CreateInvoice, Made, GetPrice, DeriveChild, ReadIndex, LoadIndex, StoreIndex,
     BeginInsert, PlaceKey, Fill, Answer, GoTo, Fail, locals
<1>2. ASSUME NEW d \in Calls, NEW e \in Calls, d # c, e # c, PlaceOverlap(d, e)
      PROVE  Rests(c)
  BY <1>0, <1>2 DEF Rests, PlaceOverlap
<1>3. ASSUME NEW d \in Calls, d # c, Checks(d)
      PROVE  Rests(c)
  BY <1>0, <1>3 DEF Rests, Checks, CheckInvoice, GetInvoice, Made, LookupCheck, LookupGet, Finds,
     CheckDeadline, DeadlineTest, GetReceivedAmount, AnswerCheck, Answer, GoTo, Fail, locals
<1>4. CASE Die /\ ~InFlight(c)
  BY <1>0, <1>4 DEF Rests, Die, locals
<1>5. ASSUME \/ Restart \/ Tick \/ UNCHANGED vars \/ \E d \in Calls : MoveEntry(d)
             \/ \E d \in Calls, v \in Payments : Pay(d, v)
      PROVE  Rests(c)
  BY <1>5 DEF Rests, Restart, Tick, vars, MoveEntry, Pay, call, locals
<1> QED
  BY <1>1, <1>2, <1>3, <1>4, <1>5, Steps DEF Creates, Places

\* What a call asked for stays, and so does what it was answered.
LEMMA Steady ==
  ASSUME TypeOK, [Next]_vars, NEW c \in Calls
  PROVE  /\ pc[c] # "idle" => pc'[c] # "idle" /\ request'[c] = request[c] /\ born'[c] = born[c]
         /\ pc[c] = "done" => Rests(c)
<1>0. /\ pc \in [Calls -> PC] /\ request \in [Calls -> Request] /\ born \in [Calls -> Nat]
  BY DEF TypeOK
<1>1. CASE Rests(c)
  BY <1>1 DEF Rests
<1>2. CASE Die /\ InFlight(c)
  BY <1>0, <1>2 DEF Die, InFlight, locals
<1>3. CASE Creates(c)
  BY <1>0, <1>3 DEF Creates, Places, CreateInvoice, Made, GetPrice, DeriveChild, ReadIndex, LoadIndex,
     StoreIndex, BeginInsert, PlaceKey, PlaceOverlap, Fill, Answer, GoTo, Fail, locals
<1>4. CASE Checks(c)
  BY <1>0, <1>4 DEF Checks, CheckInvoice, GetInvoice, Made, LookupCheck, LookupGet, Finds,
     CheckDeadline, DeadlineTest, GetReceivedAmount, AnswerCheck, Answer, GoTo, Fail, locals
<1> QED
  BY <1>1, <1>2, <1>3, <1>4, CallChanges

\* The index is changed by the store of a create and by a restart, ...
LEMMA IndexChanges ==
  ASSUME [Next]_vars, derivationIndex' # derivationIndex
  PROVE  Restart \/ \E c \in Calls : StoreIndex(c)
BY DEF Next, Progress, MapFault, NilDereference, Kill, CreateInvoice, GetPrice, DeriveChild, LoadIndex,
   BeginInsert, PlaceKey, PlaceOverlap, MoveEntry, Fill, CheckInvoice, GetInvoice, LookupCheck,
   LookupGet, CheckDeadline, DeadlineTest, GetReceivedAmount, AnswerCheck, Die, Tick, Pay, vars, process

\* ... the map by an assignment to it, its growth and a restart, ...
LEMMA MapChanges ==
  ASSUME [Next]_vars, <<invoices, slot>>' # <<invoices, slot>>
  PROVE  Restart \/ \E c \in Calls : Places(c) \/ MoveEntry(c) \/ Fill(c)
BY DEF Next, Progress, MapFault, NilDereference, Kill, CreateInvoice, GetPrice, DeriveChild, LoadIndex,
   StoreIndex, BeginInsert, Places, CheckInvoice, GetInvoice, LookupCheck,
   LookupGet, CheckDeadline, DeadlineTest, GetReceivedAmount, AnswerCheck, Die, Tick, Pay, vars, process,
   call, locals

\* ... and the other data of the process and of the world as said here.
LEMMA WorldChanges ==
  ASSUME TypeOK, [Next]_vars
  PROVE  /\ up' = up \/ Die \/ Restart
         /\ restarts' = restarts \/ (Restart /\ restarts' = restarts + 1)
         /\ raced \subseteq raced' \/ Restart
         /\ now' >= now
         /\ \/ received' = received
            \/ \E c \in Calls, v \in Payments : Pay(c, v)
<1>0. raced \subseteq {"index", "map"} /\ now \in Nat /\ restarts \in Nat
  BY DEF TypeOK
<1>1. CASE \E c \in Calls : Creates(c)
  BY <1>0, <1>1 DEF Creates, Places, CreateInvoice, GetPrice, DeriveChild, ReadIndex, LoadIndex, StoreIndex,
     BeginInsert, PlaceKey, PlaceOverlap, Fill, process, world
<1>2. CASE \E c \in Calls : Checks(c) \/ MoveEntry(c)
  BY <1>0, <1>2 DEF Checks, CheckInvoice, GetInvoice, LookupCheck, LookupGet,
     CheckDeadline, DeadlineTest, GetReceivedAmount, AnswerCheck, MoveEntry, process, world
<1>3. CASE Die \/ Restart \/ Tick \/ UNCHANGED vars \/ \E c \in Calls, v \in Payments : Pay(c, v)
  BY <1>0, <1>3 DEF Die, Restart, Tick, Pay, vars, process, world
<1> QED
  BY <1>1, <1>2, <1>3, Steps

\* No address loses what it has received.
LEMMA AmountsGrow ==
  ASSUME TypeOK, [Next]_vars, NEW a
  PROVE  AmountAt(a) \in Nat /\ AmountAt(a)' \in Nat /\ AmountAt(a)' >= AmountAt(a)
<1>0. AmountAt(a) \in Nat
  BY AmountsAreNat
<1>1. CASE received' = received
  BY <1>0, <1>1 DEF AmountAt
<1>2. ASSUME NEW c \in Calls, NEW v \in Payments, Pay(c, v)
      PROVE  AmountAt(a)' \in Nat /\ AmountAt(a)' >= AmountAt(a)
  <2> DEFINE b == reply[c].invoice.InvoiceID
  <2>1. received' = With(received, b, AmountAt(b) + v) /\ v \in Nat
    BY <1>2, ServerAssumption DEF Pay
  <2>2. AmountAt(b) \in Nat
    BY AmountsAreNat
  <2> HIDE DEF b
  <2> QED
    BY <1>0, <2>1, <2>2 DEF AmountAt, With
<1> QED
  BY <1>0, <1>1, <1>2, WorldChanges

-----------------------------------------------------------------------------
(***************************************************************************)
(* Invoices that creates build.                                            *)
(***************************************************************************)
Holding == {"load", "store", "insert", "inserting", "filling"}

\* A create has a price before it has an address, and answers with both.
WellMade(c) ==
  /\ pc[c] = "price" => request[c].value > 0
  /\ pc[c] \in Holding \cup {"derive"} => terms[c].FiatValue > 0
  /\ pc[c] \in Holding => terms[c].InvoiceID > 0
  /\ Issued(c) => reply[c].invoice = terms[c] /\ terms[c].FiatValue > 0 /\ terms[c].InvoiceID > 0

AllWellMade == \A c \in Calls : WellMade(c)

LEMMA WellMadeStep ==
  ASSUME TypeOK, Fits, AllWellMade, [Next]_vars
  PROVE  AllWellMade'
<1> SUFFICES ASSUME NEW c \in Calls
             PROVE  WellMade(c)'
  BY DEF AllWellMade
<1>0. /\ pc \in [Calls -> PC] /\ request \in [Calls -> Request] /\ terms \in [Calls -> Invoice]
      /\ reply \in [Calls -> Reply] /\ derivationIndex \in Nat /\ CallFits(c) /\ WellMade(c)
  BY DEF TypeOK, Fits, AllWellMade
<1>1. CASE Rests(c)
  BY <1>0, <1>1 DEF Rests, WellMade, Issued
<1>2. CASE Die /\ InFlight(c)
  BY <1>0, <1>2 DEF Die, InFlight, WellMade, Holding, Issued, Unavailable
<1>3. CASE GetPrice(c)
  <2>1. request[c].op = "create" /\ request[c].value > 0
    BY <1>0, <1>3 DEF GetPrice, CallFits, Creating, WellMade
  <2> QED
    BY <1>0, <1>3, <2>1 DEF GetPrice, Answer, GoTo, Fail, WellMade, Holding, Issued, CallFits, NoReply
<1>4. CASE CreateInvoice(c)
  BY <1>0, <1>4 DEF CreateInvoice, Made, Answer, GoTo, Fail, WellMade, Holding, Issued, CallFits, NoReply
<1>5. CASE DeriveChild(c)
  BY <1>0, <1>5 DEF DeriveChild, ReadIndex, AddressAt, Invoice, Answer, GoTo, Fail, WellMade, Holding,
     Issued, CallFits, NoReply
<1>6. CASE LoadIndex(c) \/ StoreIndex(c) \/ BeginInsert(c) \/ Places(c)
  BY <1>0, <1>6 DEF LoadIndex, StoreIndex, BeginInsert, Places, PlaceKey, PlaceOverlap, GoTo, WellMade,
     Holding, Issued, CallFits, NoReply, locals
<1>7. CASE Fill(c)
  BY <1>0, <1>7 DEF Fill, Answer, GoTo, WellMade, Holding, Issued
<1>8. CASE Checks(c)
  BY <1>0, <1>8 DEF Checks, CheckInvoice, GetInvoice, Made, LookupCheck, LookupGet, Finds,
     CheckDeadline, DeadlineTest, GetReceivedAmount, AnswerCheck, Answer, GoTo, Fail, locals,
     WellMade, Holding, Issued, CallFits, Checking, NoReply
<1> QED
  BY <1>1, <1>2, <1>3, <1>4, <1>5, <1>6, <1>7, <1>8, CallChanges DEF Creates

-----------------------------------------------------------------------------
(***************************************************************************)
(* Addresses and indices.                                                  *)
(***************************************************************************)
\* The index moves on for one create at a time.
LEMMA IncrementedStep ==
  ASSUME TypeOK, Fits, [Next]_vars
  PROVE  /\ Restart => Incremented' = {}
         /\ Die => Incremented' \subseteq Incremented
         /\ ~Restart /\ ~Die =>
              \A d \in Calls : d \in Incremented' <=> d \in Incremented \/ StoreIndex(d)
<1>0. /\ pc \in [Calls -> PC] /\ request \in [Calls -> Request] /\ born \in [Calls -> Nat]
      /\ reply \in [Calls -> Reply] /\ restarts \in Nat
      /\ \A d \in Calls : CallFits(d)
  BY DEF TypeOK, Fits
<1>1. ASSUME Restart
      PROVE  Incremented' = {}
  <2>1. born' = born /\ restarts' = restarts + 1 /\ \A d \in Calls : born[d] <= restarts
    BY <1>0, <1>1 DEF Restart, call, locals, CallFits
  <2>2. \A d \in Calls : born'[d] # restarts'
    BY <1>0, <2>1
  <2> QED
    BY <2>2 DEF Incremented
<1>2. ASSUME Die
      PROVE  Incremented' \subseteq Incremented
  BY <1>0, <1>2 DEF Die, Incremented, Issued, InFlight, Unavailable, locals, world
<1>3. ASSUME ~Restart, ~Die, NEW d \in Calls
      PROVE  d \in Incremented' <=> d \in Incremented \/ StoreIndex(d)
  <2>0. restarts' = restarts /\ CallFits(d)
    BY <1>0, <1>3, WorldChanges
  <2>1. CASE Rests(d)
    <3>1. ~StoreIndex(d)
      BY <1>0, <2>1 DEF StoreIndex, GoTo, Rests
    <3> QED
      BY <2>0, <2>1, <3>1 DEF Incremented, Issued, Rests
  <2>2. CASE StoreIndex(d)
    BY <1>0, <2>0, <2>2 DEF StoreIndex, GoTo, Incremented, Issued, CallFits, Creating, InFlight
  <2>3. CASE CreateInvoice(d) \/ GetPrice(d) \/ DeriveChild(d) \/ LoadIndex(d)
    <3>1. ~StoreIndex(d)
      BY <1>0, <2>3 DEF StoreIndex, CreateInvoice, Made, GetPrice, DeriveChild, LoadIndex
    <3> QED
      BY <1>0, <2>0, <2>3, <3>1 DEF CreateInvoice, Made, GetPrice, DeriveChild, LoadIndex, Answer, GoTo, Fail,
         Incremented, Issued, CallFits, NoReply, process
  <2>4. CASE BeginInsert(d) \/ Places(d) \/ Fill(d)
    <3>1. ~StoreIndex(d)
      BY <1>0, <2>4 DEF StoreIndex, BeginInsert, Places, PlaceKey, PlaceOverlap, Fill
    <3> QED
      BY <1>0, <2>0, <2>4, <3>1 DEF BeginInsert, Places, PlaceKey, PlaceOverlap, Fill, Answer, GoTo,
         Incremented, Issued, CallFits, Creating, InFlight, locals
  <2>5. CASE Checks(d)
    <3>1. ~StoreIndex(d)
      BY <1>0, <2>5 DEF StoreIndex, Checks, CheckInvoice, GetInvoice, Made, LookupCheck, LookupGet,
         CheckDeadline, DeadlineTest, GetReceivedAmount, AnswerCheck
    <3>2. d \notin Incremented
      BY <1>0, <2>0, <2>5 DEF Checks, CheckInvoice, GetInvoice, Made, LookupCheck, LookupGet,
         CheckDeadline, DeadlineTest, GetReceivedAmount, AnswerCheck, Incremented, Issued, CallFits,
         Checking, NoReply
    <3>3. request'[d].op # "create"
      BY <1>0, <2>0, <2>5 DEF Checks, CheckInvoice, GetInvoice, Made, LookupCheck, LookupGet,
         CheckDeadline, DeadlineTest, GetReceivedAmount, AnswerCheck, CallFits, Checking, locals
    <3> QED
      BY <3>1, <3>2, <3>3 DEF Incremented
  <2> QED
    BY <1>3, <2>1, <2>2, <2>3, <2>4, <2>5, CallChanges DEF Creates
<1> QED
  BY <1>1, <1>2, <1>3

(***************************************************************************)
(* While no creates have raced for the index: at most one is between the   *)
(* read of the index and its increment, it holds the next address, and all *)
(* others hold addresses below, each its own.                              *)
(***************************************************************************)
Alone == \A c, d \in Calls : InWindow(c) /\ InWindow(d) => c = d

Next1(c) ==
  InWindow(c) => /\ terms[c].InvoiceID = AddressAt(derivationIndex)
                 /\ Derivable(derivationIndex)
                 /\ pc[c] = "store" => loaded[c] = derivationIndex

Below ==
  /\ \A c \in Incremented : terms[c].InvoiceID <= derivationIndex
  /\ \A c, d \in Incremented : c # d => terms[c].InvoiceID # terms[d].InvoiceID

AddressesHeld == "index" \notin raced => Alone /\ (\A c \in Calls : Next1(c)) /\ Below

\* Only a create reads the index, and says so if another is in the window.
LEMMA WindowStep ==
  ASSUME TypeOK, [Next]_vars, NEW c \in Calls, InWindow(c)'
  PROVE  \/ InWindow(c) /\ (Rests(c) \/ LoadIndex(c))
         \/ DeriveChild(c) /\ Derivable(derivationIndex)
            /\ ("index" \in raced' \/ \A d \in Calls : ~InWindow(d))
<1>0. pc \in [Calls -> PC]
  BY DEF TypeOK
<1>1. CASE Die /\ InFlight(c)
  BY <1>0, <1>1 DEF Die, InWindow
<1>2. CASE CreateInvoice(c) \/ GetPrice(c) \/ StoreIndex(c) \/ BeginInsert(c) \/ Places(c) \/ Fill(c)
  BY <1>0, <1>2 DEF InWindow, CreateInvoice, GetPrice, StoreIndex, BeginInsert, Places, PlaceKey,
     PlaceOverlap, Fill, Answer, GoTo, Fail
<1>3. CASE Checks(c)
  BY <1>0, <1>3 DEF InWindow, Checks, CheckInvoice, GetInvoice, LookupCheck, LookupGet,
     CheckDeadline, DeadlineTest, GetReceivedAmount, AnswerCheck, Answer, GoTo, Fail
<1>4. CASE DeriveChild(c)
  BY <1>0, <1>4 DEF InWindow, DeriveChild, ReadIndex, Answer, GoTo, Fail
<1>5. CASE Rests(c) \/ LoadIndex(c)
  BY <1>0, <1>5 DEF InWindow, Rests, LoadIndex
<1> QED
  BY <1>1, <1>2, <1>3, <1>4, <1>5, CallChanges DEF Creates

\* Terms that a create holds or has answered with stay.
LEMMA TermsStay ==
  ASSUME TypeOK, Fits, [Next]_vars, NEW c \in Calls,
         InWindow(c) \/ c \in Incremented \/ pc[c] \in Checking \cup {"done"}
  PROVE  terms'[c] = terms[c]
<1>0. pc \in [Calls -> PC] /\ terms \in [Calls -> Invoice] /\ CallFits(c)
  BY DEF TypeOK, Fits
<1>1. pc[c] \notin {"idle", "price", "derive", "lookup"}
  BY <1>0 DEF InWindow, Incremented, Issued, Checking, CallFits, NoReply
<1>2. CASE Rests(c) \/ Die
  BY <1>2 DEF Rests, Die, locals
<1>3. CASE Creates(c)
  BY <1>0, <1>1, <1>3 DEF Creates, CreateInvoice, Made, GetPrice, DeriveChild, LoadIndex, StoreIndex,
     BeginInsert, Places, PlaceKey, PlaceOverlap, Fill, locals
<1>4. CASE Checks(c)
  BY <1>0, <1>1, <1>4 DEF Checks, CheckInvoice, GetInvoice, Made, LookupCheck, LookupGet,
     CheckDeadline, DeadlineTest, GetReceivedAmount, AnswerCheck, locals
<1> QED
  BY <1>2, <1>3, <1>4, CallChanges

LEMMA AddressesHeldStep ==
  ASSUME TypeOK, Fits, AddressesHeld, [Next]_vars
  PROVE  AddressesHeld'
<1> SUFFICES ASSUME "index" \notin raced'
             PROVE  Alone' /\ (\A c \in Calls : Next1(c)') /\ Below'
  BY DEF AddressesHeld
<1>0. /\ pc \in [Calls -> PC] /\ terms \in [Calls -> Invoice] /\ loaded \in [Calls -> Nat]
      /\ derivationIndex \in Nat
      /\ \A c \in Calls : terms[c].InvoiceID \in Nat
  BY DEF TypeOK, Invoice
<1>1. CASE Restart
  <2>1. \A c \in Calls : ~InWindow(c)'
    BY <1>1 DEF Restart, call, InWindow, Fits, CallFits, InFlight
  <2>2. Incremented' = {}
    BY <1>1, IncrementedStep
  <2> QED
    BY <2>1, <2>2 DEF Alone, Next1, Below
<1>2. CASE ~Restart
  <2>1. Alone /\ (\A c \in Calls : Next1(c)) /\ Below
    BY <1>2, WorldChanges DEF AddressesHeld
  <2>2. Alone'
    <3> SUFFICES ASSUME NEW c \in Calls, NEW d \in Calls, InWindow(c)', InWindow(d)'
                 PROVE  c = d
      BY DEF Alone
    <3>1. CASE DeriveChild(c) /\ DeriveChild(d)
      BY <1>0, <3>1 DEF DeriveChild, GoTo, Answer, Fail
    <3>2. ASSUME NEW e \in Calls, InWindow(e)'
          PROVE  InWindow(e) \/ (DeriveChild(e) /\ \A f \in Calls : ~InWindow(f))
      BY <3>2, WindowStep
    <3> QED
      BY <2>1, <3>1, <3>2 DEF Alone
  <2>3. ASSUME NEW c \in Calls, StoreIndex(c)
        PROVE  /\ derivationIndex' = derivationIndex + 1
               /\ terms[c].InvoiceID = derivationIndex + 1
               /\ InWindow(c) /\ \A d \in Calls : ~InWindow(d)'
               /\ ~Die
    <3>1. /\ pc[c] = "store" /\ InWindow(c) /\ derivationIndex' = loaded[c] + 1
          /\ pc'[c] = "insert"
      BY <1>0, <2>3 DEF StoreIndex, InWindow, GoTo
    <3>2. \A d \in Calls : d # c => pc'[d] = pc[d] /\ ~InWindow(d)
      BY <1>0, <2>1, <2>3, <3>1 DEF StoreIndex, GoTo, Alone
    <3>3. ~Die
      BY <1>0, <3>1 DEF Die
    <3> QED
      BY <1>0, <2>1, <3>1, <3>2, <3>3 DEF Next1, AddressAt, InWindow
  <2>4. ASSUME NEW c \in Calls, InWindow(c)'
        PROVE  Next1(c)'
    <3>1. ~ \E d \in Calls : StoreIndex(d)
      BY <2>3, <2>4
    <3>2. derivationIndex' = derivationIndex
      BY <1>2, <3>1, IndexChanges
    <3>3. CASE InWindow(c) /\ (Rests(c) \/ LoadIndex(c))
      BY <1>0, <2>1, <3>2, <3>3 DEF Next1, Rests, LoadIndex, InWindow, GoTo, Derivable
    <3>4. CASE DeriveChild(c) /\ Derivable(derivationIndex)
      BY <1>0, <3>2, <3>4 DEF DeriveChild, ReadIndex, Next1, GoTo, Fail, Answer, AddressAt, Derivable, Invoice
    <3> QED
      BY <2>4, <3>3, <3>4, WindowStep
  <2>5. Below'
    <3>1. CASE \E c \in Calls : StoreIndex(c)
      <4>1. PICK c \in Calls : StoreIndex(c)
        BY <3>1
      <4>2. \A d \in Incremented' : d = c \/ d \in Incremented
        <5>1. \A d \in Calls : StoreIndex(d) => d = c
          BY <2>1, <2>3, <4>1 DEF Alone
        <5>2. Incremented' \subseteq Calls
          BY DEF Incremented
        <5> QED
          BY <1>2, <2>3, <4>1, <5>1, <5>2, IncrementedStep
      <4>3. \A d \in Incremented : d \in Calls /\ terms'[d] = terms[d]
        BY TermsStay DEF Incremented
      <4>4. terms'[c] = terms[c]
        BY <2>3, <4>1, TermsStay
      <4> QED
        BY <1>0, <2>1, <2>3, <4>1, <4>2, <4>3, <4>4 DEF Below
    <3>2. CASE ~ \E c \in Calls : StoreIndex(c)
      <4>1. derivationIndex' = derivationIndex
        BY <1>2, <3>2, IndexChanges
      <4>2. Incremented' \subseteq Incremented
        <5>1. Incremented' \subseteq Calls
          BY DEF Incremented
        <5> QED
          BY <1>2, <3>2, <5>1, IncrementedStep
      <4>3. \A d \in Incremented : d \in Calls /\ terms'[d] = terms[d]
        BY TermsStay DEF Incremented
      <4> QED
        BY <2>1, <4>1, <4>2, <4>3 DEF Below
    <3> QED
      BY <3>1, <3>2
  <2> QED
    BY <2>2, <2>4, <2>5 DEF Next1
<1> QED
  BY <1>1, <1>2

(***************************************************************************)
(* The invariants of this part, together.                                  *)
(***************************************************************************)
AddressInv == TypeOK /\ Fits /\ AllWellMade /\ AddressesHeld

LEMMA AddressesAlwaysHeld == Spec => []AddressInv
<1>1. Init => AddressInv
  <2> SUFFICES ASSUME Init
               PROVE  AllWellMade /\ AddressesHeld
    BY TypeInit DEF AddressInv
  <2> QED
    BY DEF Init, AllWellMade, WellMade, AddressesHeld, Alone, Next1, Below, InWindow, Incremented,
       Issued, Holding, NoReply, NoRequest
<1>2. AddressInv /\ [Next]_vars => AddressInv'
  BY TypeStep, WellMadeStep, AddressesHeldStep DEF AddressInv
<1> QED
  BY <1>1, <1>2, PTL DEF Spec

(***************************************************************************)
(* Creates that do not race for the index, however they overlap otherwise, *)
(* get different addresses (api.go:73, 88): the read of the index and its  *)
(* increment, three steps apart, are the only place where it can go wrong. *)
(***************************************************************************)
THEOREM AddressesAreUnique == Spec => []UniqueUnlessRaced
<1>1. AddressInv => UniqueUnlessRaced
  <2> SUFFICES ASSUME AddressInv, "index" \notin raced, NEW c \in Calls, NEW d \in Calls,
                      Ours(c), Ours(d), c # d
               PROVE  reply[c].invoice.InvoiceID # reply[d].invoice.InvoiceID
    BY DEF UniqueUnlessRaced
  <2>1. c \in Incremented /\ d \in Incremented
    BY DEF Ours, Issued, Incremented
  <2> QED
    BY <2>1 DEF AddressInv, AddressesHeld, Below, AllWellMade, WellMade, Ours
<1> QED
  BY <1>1, AddressesAlwaysHeld, PTL

-----------------------------------------------------------------------------
LEMMA IncrementedIsFinite ==
  /\ IsFiniteSet(Incremented) /\ Cardinality(Incremented) \in Nat
  /\ IsFiniteSet(Incremented') /\ Cardinality(Incremented') \in Nat
<1>1. Incremented \subseteq Calls /\ Incremented' \subseteq Calls
  BY DEF Incremented
<1>2. IsFiniteSet(Incremented) /\ IsFiniteSet(Incremented')
  BY <1>1, FS_Subset, ServerAssumption
<1> QED
  BY <1>2, FS_CardinalityType

\* What the increments in progress have loaded is not ahead either.
IndexCounts ==
  up => /\ derivationIndex <= Cardinality(Incremented)
        /\ \A c \in Calls : pc[c] = "store" => loaded[c] <= Cardinality(Incremented)
        /\ "index" \notin raced => derivationIndex = Cardinality(Incremented)

LEMMA IndexCountsStep ==
  ASSUME AddressInv, IndexCounts, [Next]_vars
  PROVE  IndexCounts'
<1> SUFFICES ASSUME up'
             PROVE  /\ derivationIndex' <= Cardinality(Incremented')
                    /\ \A c \in Calls : pc'[c] = "store" => loaded'[c] <= Cardinality(Incremented')
                    /\ "index" \notin raced' => derivationIndex' = Cardinality(Incremented')
  BY DEF IndexCounts
<1>0. /\ TypeOK /\ Fits /\ AddressesHeld
      /\ pc \in [Calls -> PC] /\ loaded \in [Calls -> Nat] /\ derivationIndex \in Nat
      /\ Cardinality(Incremented) \in Nat /\ Cardinality(Incremented') \in Nat
  BY IncrementedIsFinite DEF AddressInv, TypeOK
<1>1. CASE Restart
  <2>1. Incremented' = {} /\ Cardinality({}) = 0
    BY <1>0, <1>1, IncrementedStep, FS_EmptySet
  <2>2. derivationIndex' = 0 /\ \A c \in Calls : pc'[c] # "store"
    BY <1>0, <1>1 DEF Restart, call, Fits, CallFits, InFlight
  <2>3. Cardinality(Incremented') = 0
    BY <2>1
  <2> QED
    BY <2>2, <2>3
<1>2. CASE ~Restart
  <2>1. up /\ ~Die
    BY <1>0, <1>2, WorldChanges DEF Die
  <2>2. /\ derivationIndex <= Cardinality(Incremented)
        /\ \A c \in Calls : pc[c] = "store" => loaded[c] <= Cardinality(Incremented)
        /\ "index" \notin raced' => derivationIndex = Cardinality(Incremented)
    BY <1>0, <1>2, <2>1, WorldChanges DEF IndexCounts
  <2>3. Incremented \subseteq Calls /\ Incremented' \subseteq Calls
    BY DEF Incremented
  <2>4. \A d \in Calls : d \in Incremented' <=> d \in Incremented \/ StoreIndex(d)
    BY <1>0, <1>2, <2>1, IncrementedStep
  <2>5. CASE \E c \in Calls : StoreIndex(c)
    <3>1. PICK c \in Calls : StoreIndex(c)
      BY <2>5
    <3>2. /\ pc[c] = "store" /\ derivationIndex' = loaded[c] + 1
          /\ pc' = [pc EXCEPT ![c] = "insert"] /\ loaded' = [loaded EXCEPT ![c] = 0]
      BY <3>1 DEF StoreIndex, GoTo
    <3>3. \A d \in Calls : StoreIndex(d) => d = c
      BY <1>0, <3>2 DEF StoreIndex, GoTo, PC
    <3>4. c \notin Incremented
      BY <1>0, <3>2 DEF Incremented, Issued, Fits, CallFits, NoReply
    <3>5. Incremented' = Incremented \cup {c}
      BY <2>3, <2>4, <3>1, <3>3
    <3>6. Cardinality(Incremented') = Cardinality(Incremented) + 1
      BY <3>4, <3>5, FS_AddElement, IncrementedIsFinite
    <3>7. "index" \notin raced' => loaded[c] = derivationIndex
      BY <1>0, <1>2, <3>2, WorldChanges DEF AddressesHeld, Next1, InWindow
    <3> QED
      BY <1>0, <2>2, <3>2, <3>6, <3>7
  <2>6. CASE ~ \E c \in Calls : StoreIndex(c)
    <3>1. Incremented' = Incremented
      BY <2>3, <2>4, <2>6
    <3>2. derivationIndex' = derivationIndex
      BY <1>2, <2>6, IndexChanges
    <3>3. ASSUME NEW c \in Calls, pc'[c] = "store"
          PROVE  loaded'[c] <= Cardinality(Incremented)
      <4>1. Rests(c) \/ LoadIndex(c)
        <5>1. InWindow(c)'
          BY <3>3 DEF InWindow
        <5>2. ~DeriveChild(c)
          BY <1>0, <3>3 DEF DeriveChild, GoTo, Answer, Fail
        <5> QED
          BY <1>0, <5>1, <5>2, WindowStep
      <4> QED
        BY <1>0, <2>2, <3>3, <4>1 DEF Rests, LoadIndex
    <3> QED
      BY <1>0, <2>2, <3>1, <3>2, <3>3
  <2> QED
    BY <2>5, <2>6
<1> QED
  BY <1>1, <1>2

(***************************************************************************)
(* DerivationIndex is at most the number of the creates that incremented   *)
(* it, and exactly that number unless creates have raced (api.go:88).      *)
(***************************************************************************)
THEOREM IndexIsCount == Spec => []IndexCountsCreates
<1>1. Init => IndexCounts
  <2> SUFFICES ASSUME Init
               PROVE  IndexCounts
    OBVIOUS
  <2>1. Incremented = {} /\ derivationIndex = 0 /\ \A c \in Calls : pc[c] # "store"
    BY DEF Init, Incremented, Issued, NoRequest
  <2>2. Cardinality(Incremented) = 0
    BY <2>1, FS_EmptySet
  <2> QED
    BY <2>1, <2>2 DEF IndexCounts
<1>2. AddressInv /\ IndexCounts /\ [Next]_vars => IndexCounts'
  BY IndexCountsStep
<1>3. IndexCounts => IndexCountsCreates
  BY DEF IndexCounts, IndexCountsCreates
<1> QED
  BY <1>1, <1>2, <1>3, AddressesAlwaysHeld, PTL DEF Spec

-----------------------------------------------------------------------------
(***************************************************************************)
(* The index that cannot be derived.                                       *)
(***************************************************************************)
DeriveFailed(c) == reply[c] = [kind |-> "error", why |-> "derive"] /\ born[c] = restarts

\* After a call has failed to derive an index, none is past it and none is incrementing it.
Wedged ==
  "index" \notin raced /\ (\E c \in Calls : DeriveFailed(c)) =>
    ~Derivable(derivationIndex) /\ \A c \in Calls : ~InWindow(c)

\* Only a derivation that fails is answered so.
LEMMA FailureStep ==
  ASSUME TypeOK, Fits, [Next]_vars, ~Restart, NEW c \in Calls, DeriveFailed(c)'
  PROVE  DeriveFailed(c) \/ (DeriveChild(c) /\ ~Derivable(derivationIndex))
<1>0. /\ pc \in [Calls -> PC] /\ reply \in [Calls -> Reply] /\ born \in [Calls -> Nat]
      /\ restarts' = restarts /\ CallFits(c)
      /\ reply'[c] = [kind |-> "error", why |-> "derive"] /\ born'[c] = restarts'
  BY WorldChanges DEF TypeOK, Fits, DeriveFailed
<1>1. CASE Rests(c)
  BY <1>0, <1>1 DEF Rests, DeriveFailed
<1>2. CASE Die /\ InFlight(c)
  BY <1>0, <1>2 DEF Die, Unavailable
<1>3. CASE DeriveChild(c)
  BY <1>0, <1>3 DEF DeriveChild, Answer, GoTo, Fail, CallFits, NoReply
<1>4. CASE \/ CreateInvoice(c) \/ GetPrice(c) \/ LoadIndex(c) \/ StoreIndex(c)
           \/ BeginInsert(c) \/ Places(c) \/ Fill(c)
  BY <1>0, <1>4 DEF CreateInvoice, Made, GetPrice, LoadIndex, StoreIndex, BeginInsert, Places, PlaceKey,
     PlaceOverlap, Fill, Answer, GoTo, Fail, CallFits, NoReply
<1>5. CASE Checks(c)
  BY <1>0, <1>5 DEF Checks, CheckInvoice, GetInvoice, Made, LookupCheck, LookupGet, Finds,
     CheckDeadline, DeadlineTest, GetReceivedAmount, AnswerCheck, Answer, GoTo, Fail, CallFits, NoReply
<1> QED
  BY <1>1, <1>2, <1>3, <1>4, <1>5, CallChanges DEF Creates

LEMMA WedgedStep ==
  ASSUME AddressInv, Wedged, [Next]_vars, "index" \notin raced', \E c \in Calls : DeriveFailed(c)'
  PROVE  derivationIndex' = derivationIndex /\ Wedged'
<1>0. TypeOK /\ Fits /\ AddressesHeld /\ pc \in [Calls -> PC]
  BY DEF AddressInv, TypeOK
<1>1. ~Restart
  <2> SUFFICES ASSUME Restart
               PROVE  FALSE
    OBVIOUS
  <2>1. born' = born /\ restarts' = restarts + 1
    BY DEF Restart, call, locals
  <2>2. \A c \in Calls : born[c] <= restarts /\ born[c] \in Nat /\ restarts \in Nat
    BY <1>0 DEF Fits, CallFits, TypeOK
  <2> QED
    BY <2>1, <2>2 DEF DeriveFailed
<1>2. PICK c \in Calls : DeriveFailed(c)'
  OBVIOUS
<1>3. "index" \notin raced
  BY <1>0, <1>1, WorldChanges
<1>4. ~Derivable(derivationIndex) /\ \A d \in Calls : ~InWindow(d)
  <2>1. CASE DeriveFailed(c)
    BY <1>3, <2>1 DEF Wedged
  <2>2. CASE ~Derivable(derivationIndex)
    BY <1>0, <1>3, <2>2 DEF AddressesHeld, Next1
  <2> QED
    BY <1>0, <1>1, <1>2, <2>1, <2>2, FailureStep
<1>5. \A d \in Calls : ~StoreIndex(d)
  BY <1>4 DEF StoreIndex, InWindow
<1>6. derivationIndex' = derivationIndex
  BY <1>1, <1>5, IndexChanges
<1>7. \A d \in Calls : ~InWindow(d)'
  BY <1>0, <1>4, WindowStep
<1> QED
  BY <1>4, <1>6, <1>7 DEF Wedged, Derivable

(***************************************************************************)
(* An index that cannot be derived stops the service of this process,      *)
(* unless creates have raced for the index (deriveAddress, api.go:73-88).  *)
(***************************************************************************)
THEOREM FailedIndexStays == Spec => WedgeIsPermanent
<1>1. Init => Wedged
  BY DEF Init, Wedged, DeriveFailed, NoReply
<1>2. ASSUME AddressInv, Wedged, [Next]_vars
      PROVE  Wedged' /\ (/\ "index" \notin raced'
                         /\ \E c \in Calls : /\ reply'[c] = [kind |-> "error", why |-> "derive"]
                                             /\ born'[c] = restarts'
                         => derivationIndex' = derivationIndex)
  <2>1. CASE "index" \notin raced' /\ \E c \in Calls : DeriveFailed(c)'
    BY <1>2, <2>1, WedgedStep
  <2>2. CASE ~("index" \notin raced' /\ \E c \in Calls : DeriveFailed(c)')
    BY <2>2 DEF Wedged, DeriveFailed
  <2> QED
    BY <2>1, <2>2
<1> QED
  BY <1>1, <1>2, AddressesAlwaysHeld, PTL DEF Spec, WedgeIsPermanent

-----------------------------------------------------------------------------
(***************************************************************************)
(* The ledger.                                                             *)
(***************************************************************************)
\* An invoice that was returned is returned for ever.
LEMMA IssuedStays ==
  ASSUME TypeOK, Fits, [Next]_vars, NEW c \in Calls, Issued(c)
  PROVE  /\ Issued(c)' /\ pc[c] = "done"
         /\ reply'[c] = reply[c] /\ born'[c] = born[c] /\ terms'[c] = terms[c]
<1>1. pc[c] = "done"
  BY DEF Fits, CallFits, Issued, NoReply
<1> QED
  BY <1>1, Steady DEF Rests, Issued

LEMMA BuiltStays ==
  ASSUME TypeOK, Fits, [Next]_vars, NEW i, NEW p, Built(i, p)
  PROVE  Built(i, p)'
BY IssuedStays DEF Built

\* What was built is an invoice over something, with an address.
LEMMA BuiltIsWhole ==
  ASSUME TypeOK, AllWellMade, NEW i, NEW p, Built(i, p)
  PROVE  i \in Invoice /\ i.FiatValue > 0 /\ i.InvoiceID > 0 /\ i # NoInvoice
BY DEF TypeOK, AllWellMade, WellMade, Built, Invoice, NoInvoice

\* Fill returns the invoice that it stores.
LEMMA FillBuilds ==
  ASSUME TypeOK, Fits, AllWellMade, NEW c \in Calls, Fill(c)
  PROVE  /\ Built(terms[c], restarts)' /\ restarts' = restarts
         /\ raced' = raced /\ up' = up
         /\ invoices' = IF slot[c] = 0 THEN invoices ELSE With(invoices, slot[c], terms[c])
         /\ slot' = [slot EXCEPT ![c] = 0] /\ pc[c] = "filling" /\ pc' = [pc EXCEPT ![c] = "done"]
<1>0. pc \in [Calls -> PC] /\ reply \in [Calls -> Reply] /\ CallFits(c)
  BY DEF TypeOK, Fits
<1>1. /\ pc[c] = "filling" /\ request[c].op = "create" /\ born[c] = restarts
      /\ UNCHANGED <<request, born, restarts, raced, up>>
      /\ reply' = [reply EXCEPT ![c] = [kind |-> "invoice", invoice |-> terms[c]]]
  BY <1>0 DEF Fill, Answer, GoTo, CallFits, Creating, InFlight, world
<1>2. Issued(c)' /\ reply'[c].invoice = terms[c] /\ born'[c] = restarts'
  BY <1>0, <1>1 DEF Issued
<1>3. Built(terms[c], restarts)'
  <2>1. \E d \in Calls : Issued(d)' /\ born'[d] = restarts' /\ reply'[d].invoice = terms[c]
    BY <1>2
  <2>2. terms' = terms
    BY DEF Fill
  <2> QED
    BY <2>1, <2>2 DEF Built
<1> QED
  BY <1>1, <1>3 DEF Fill, Answer, GoTo

\* Where an assignment places the entry that it fills.
SlotFits(c) ==
  pc[c] = "filling" => /\ slot[c] = 0 \/ slot[c] \in DOMAIN invoices
                       /\ "map" \notin raced => slot[c] = terms[c].InvoiceID

SlotsFit == \A c \in Calls : SlotFits(c)

LEMMA SlotStep ==
  ASSUME TypeOK, Fits, SlotsFit, [Next]_vars
  PROVE  SlotsFit'
<1> SUFFICES ASSUME NEW c \in Calls, pc'[c] = "filling"
             PROVE  SlotFits(c)'
  BY DEF SlotsFit, SlotFits
<1>0. /\ pc \in [Calls -> PC] /\ slot \in [Calls -> Nat] /\ terms \in [Calls -> Invoice]
      /\ \A d \in Calls : terms[d].InvoiceID \in Nat
      /\ SlotFits(c) /\ CallFits(c)
  BY DEF TypeOK, Fits, SlotsFit, Invoice
<1>1. CASE Places(c)
  <2>1. CASE PlaceKey(c)
    BY <1>0, <2>1, PlacedAt DEF PlaceKey, GoTo, SlotFits
  <2>2. ASSUME NEW d \in Calls, NEW e \in Calls, PlaceOverlap(d, e), c \in {d, e}
        PROVE  SlotFits(c)'
    <3>1. PICK k \in Calls : /\ invoices' = Placed(terms[k].InvoiceID)
                             /\ slot' = [slot EXCEPT ![d] = terms[k].InvoiceID, ![e] = terms[k].InvoiceID]
      BY <2>2 DEF PlaceOverlap
    <3>2. slot'[c] \in DOMAIN invoices'
      BY <1>0, <2>2, <3>1, PlacedAt
    <3> QED
      BY <2>2, <3>2 DEF PlaceOverlap, SlotFits
  <2> QED
    BY <1>1, <2>1, <2>2 DEF Places
<1>2. CASE Rests(c)
  <2>0. pc[c] = "filling" /\ terms'[c] = terms[c] /\ ~Restart
    BY <1>0, <1>2 DEF Rests, CallFits, InFlight, Restart
  <2>1. CASE UNCHANGED <<invoices, slot>>
    BY <1>0, <2>0, <2>1, WorldChanges DEF SlotFits
  <2>2. ASSUME NEW d \in Calls, PlaceKey(d)
        PROVE  SlotFits(c)'
    <3>1. c # d
      BY <2>0, <2>2 DEF PlaceKey
    <3> QED
      BY <1>0, <2>0, <2>2, <3>1, PlacedAt DEF PlaceKey, SlotFits
  <2>3. ASSUME NEW d \in Calls, NEW e \in Calls, PlaceOverlap(d, e)
        PROVE  SlotFits(c)'
    <3>1. c # d /\ c # e
      BY <2>0, <2>3 DEF PlaceOverlap
    <3>2. PICK k \in Calls : /\ invoices' = Placed(terms[k].InvoiceID)
                             /\ slot' = [slot EXCEPT ![d] = terms[k].InvoiceID, ![e] = terms[k].InvoiceID]
      BY <2>3 DEF PlaceOverlap
    <3> QED
      BY <1>0, <2>0, <2>3, <3>1, <3>2, PlacedAt DEF PlaceOverlap, SlotFits
  <2>4. ASSUME NEW d \in Calls, MoveEntry(d)
        PROVE  SlotFits(c)'
    BY <1>0, <2>0, <2>4 DEF MoveEntry, SlotFits
  <2>5. ASSUME NEW d \in Calls, Fill(d)
        PROVE  SlotFits(c)'
    <3>1. c # d
      BY <1>0, <2>0, <2>5, <1>2 DEF Fill, Answer, GoTo, Rests
    <3> QED
      BY <1>0, <2>0, <2>5, <3>1 DEF Fill, With, SlotFits
  <2> QED
    BY <2>0, <2>1, <2>2, <2>3, <2>4, <2>5, MapChanges DEF Places
<1>3. CASE (Die /\ InFlight(c)) \/ Checks(c)
  BY <1>0, <1>3 DEF Die, InFlight, Checks, CheckInvoice, GetInvoice, LookupCheck, LookupGet,
     CheckDeadline, DeadlineTest, GetReceivedAmount, AnswerCheck, Answer, GoTo, Fail
<1>4. CASE \/ CreateInvoice(c) \/ GetPrice(c) \/ DeriveChild(c) \/ LoadIndex(c) \/ StoreIndex(c)
           \/ BeginInsert(c) \/ Fill(c)
  BY <1>0, <1>4 DEF CreateInvoice, GetPrice, DeriveChild, LoadIndex, StoreIndex, BeginInsert, Fill,
     Answer, GoTo, Fail
<1> QED
  BY <1>1, <1>2, <1>3, <1>4, CallChanges DEF Creates

\* A step of the process keeps the entries that are filled, or fills them anew.
LEMMA EntryStays ==
  ASSUME TypeOK, AllWellMade, SlotsFit, [Next]_vars, ~Restart,
         NEW id \in DOMAIN invoices, invoices[id] # NoInvoice
  PROVE  /\ id \in DOMAIN invoices'
         /\ \/ invoices'[id] = invoices[id]
            \/ \E c \in Calls : Fill(c) /\ slot[c] = id /\ invoices'[id] = terms[c]
<1>0. /\ pc \in [Calls -> PC] /\ terms \in [Calls -> Invoice]
      /\ \A d \in Calls : terms[d].InvoiceID \in Nat
  BY DEF TypeOK, Invoice
<1>1. CASE invoices' = invoices
  BY <1>1
<1>2. ASSUME NEW c \in Calls, Places(c)
      PROVE  id \in DOMAIN invoices' /\ invoices'[id] = invoices[id]
  <2>1. PICK k \in Calls : invoices' = Placed(terms[k].InvoiceID)
    BY <1>2 DEF Places, PlaceKey, PlaceOverlap
  <2> QED
    BY <1>0, <2>1, PlacedAt
<1>3. ASSUME NEW c \in Calls, MoveEntry(c)
      PROVE  id \in DOMAIN invoices' /\ invoices'[id] = invoices[id]
  BY <1>3 DEF MoveEntry
<1>4. ASSUME NEW c \in Calls, Fill(c)
      PROVE  /\ id \in DOMAIN invoices'
             /\ invoices'[id] = invoices[id] \/ (slot[c] = id /\ invoices'[id] = terms[c])
  BY <1>4 DEF Fill, With
<1> QED
  BY <1>1, <1>2, <1>3, <1>4, MapChanges

\* A create is answered with an invoice by Fill alone.
LEMMA IssuedByFill ==
  ASSUME TypeOK, Fits, [Next]_vars, NEW c \in Calls, Issued(c)'
  PROVE  Issued(c) \/ Fill(c)
<1>0. /\ pc \in [Calls -> PC] /\ reply \in [Calls -> Reply] /\ request \in [Calls -> Request] /\ CallFits(c)
  BY DEF TypeOK, Fits
<1>1. CASE Rests(c)
  BY <1>1 DEF Rests, Issued
<1>2. CASE Die /\ InFlight(c)
  BY <1>0, <1>2 DEF Die, Issued, Unavailable
<1>3. CASE \/ CreateInvoice(c) \/ GetPrice(c) \/ DeriveChild(c) \/ LoadIndex(c) \/ StoreIndex(c)
           \/ BeginInsert(c) \/ Places(c)
  BY <1>0, <1>3 DEF CreateInvoice, Made, GetPrice, DeriveChild, LoadIndex, StoreIndex, BeginInsert, Places, PlaceKey,
     PlaceOverlap, Answer, GoTo, Fail, CallFits, NoReply, Issued, locals
<1>4. CASE Checks(c)
  <2>1. request'[c].op # "create"
    BY <1>0, <1>4 DEF Checks, CheckInvoice, GetInvoice, Made, LookupCheck, LookupGet,
       CheckDeadline, DeadlineTest, GetReceivedAmount, AnswerCheck, CallFits, Checking, locals
  <2> QED
    BY <2>1 DEF Issued
<1> QED
  BY <1>1, <1>2, <1>3, <1>4, CallChanges DEF Creates

LEMMA EntriesStep ==
  ASSUME TypeOK, Fits, AllWellMade, SlotsFit, EntriesAreBuilt, [Next]_vars
  PROVE  EntriesAreBuilt'
<1> SUFFICES ASSUME NEW id \in DOMAIN invoices'
             PROVE  \/ /\ invoices'[id] = NoInvoice
                       /\ up' /\ "map" \notin raced' =>
                            \E c \in Calls : pc'[c] = "filling" /\ slot'[c] = id
                    \/ /\ Built(invoices[id], restarts)'
                       /\ "map" \notin raced' => invoices'[id].InvoiceID = id
  BY DEF EntriesAreBuilt
<1>0. /\ pc \in [Calls -> PC] /\ slot \in [Calls -> Nat] /\ terms \in [Calls -> Invoice]
      /\ \A d \in Calls : terms[d].InvoiceID \in Nat
  BY DEF TypeOK, Invoice
<1>1. CASE Restart
  BY <1>1 DEF Restart, EmptyMap
<1>2. CASE ~Restart
  <2>0. restarts' = restarts /\ raced \subseteq raced'
    BY <1>2, WorldChanges
  <2>1. ASSUME id \in DOMAIN invoices, invoices'[id] = invoices[id], invoices[id] # NoInvoice
        PROVE  /\ Built(invoices[id], restarts)'
               /\ "map" \notin raced' => invoices'[id].InvoiceID = id
    <3>1. Built(invoices[id], restarts) /\ ("map" \notin raced => invoices[id].InvoiceID = id)
      BY <2>1 DEF EntriesAreBuilt
    <3>2. \E c \in Calls : /\ Issued(c)' /\ born'[c] = restarts' /\ reply'[c].invoice = invoices[id]
      BY <2>0, <3>1, IssuedStays DEF Built
    <3> QED
      BY <2>0, <2>1, <3>1, <3>2 DEF Built
  <2>2. ASSUME id \in DOMAIN invoices, invoices[id] = NoInvoice, up', "map" \notin raced'
        PROVE  \E c \in Calls : pc[c] = "filling" /\ slot[c] = id
    <3>1. up
      BY <1>2, <2>2, WorldChanges DEF Die
    <3> QED
      BY <2>0, <2>2, <3>1, BuiltIsWhole DEF EntriesAreBuilt
  <2>3. ASSUME NEW c \in Calls, Fill(c)
        PROVE  \/ /\ invoices'[id] = NoInvoice
                  /\ up' /\ "map" \notin raced' =>
                       \E e \in Calls : pc'[e] = "filling" /\ slot'[e] = id
               \/ /\ Built(invoices[id], restarts)'
                  /\ "map" \notin raced' => invoices'[id].InvoiceID = id
    <3>1. /\ Built(terms[c], restarts)' /\ raced' = raced
          /\ invoices' = IF slot[c] = 0 THEN invoices ELSE With(invoices, slot[c], terms[c])
          /\ slot' = [slot EXCEPT ![c] = 0] /\ pc[c] = "filling" /\ pc' = [pc EXCEPT ![c] = "done"]
      BY <2>3, FillBuilds
    <3>2. "map" \notin raced => slot[c] = terms[c].InvoiceID /\ slot[c] # 0
      BY <1>0, <3>1 DEF SlotsFit, SlotFits, AllWellMade, WellMade, Holding
    <3>3. CASE slot[c] # 0 /\ id = slot[c]
      <4>1. invoices'[id] = terms[c] /\ terms' = terms
        BY <2>3, <3>1, <3>3 DEF With, Fill
      <4>2. Built(invoices[id], restarts)'
        BY <3>1, <4>1 DEF Built
      <4> QED
        BY <3>1, <3>2, <3>3, <4>1, <4>2
    <3>4. CASE ~(slot[c] # 0 /\ id = slot[c])
      <4>1. id \in DOMAIN invoices /\ invoices'[id] = invoices[id]
        BY <3>1, <3>4 DEF With
      <4>2. CASE invoices[id] # NoInvoice
        BY <2>1, <4>1, <4>2
      <4>3. CASE invoices[id] = NoInvoice
        <5> SUFFICES ASSUME up', "map" \notin raced'
                     PROVE  \E e \in Calls : pc'[e] = "filling" /\ slot'[e] = id
          BY <4>1, <4>3
        <5>1. PICK e \in Calls : pc[e] = "filling" /\ slot[e] = id
          BY <2>2, <4>1, <4>3
        <5>2. e # c
          BY <3>1, <3>2, <3>4, <5>1
        <5> QED
          BY <1>0, <3>1, <5>1, <5>2
      <4> QED
        BY <4>2, <4>3
    <3> QED
      BY <3>3, <3>4
  <2>4. ASSUME NEW c \in Calls, PlaceKey(c), id \notin DOMAIN invoices \/ invoices[id] = NoInvoice
        PROVE  /\ invoices'[id] = NoInvoice
               /\ up' /\ "map" \notin raced' =>
                    \E e \in Calls : pc'[e] = "filling" /\ slot'[e] = id
    <3>1. /\ invoices' = Placed(terms[c].InvoiceID) /\ pc[c] = "inserting"
          /\ slot' = [slot EXCEPT ![c] = terms[c].InvoiceID]
          /\ pc' = [pc EXCEPT ![c] = "filling"]
      BY <2>4 DEF PlaceKey, GoTo
    <3>2. invoices'[id] = NoInvoice /\ (id \in DOMAIN invoices \/ id = terms[c].InvoiceID)
      BY <1>0, <2>4, <3>1 DEF Placed, With
    <3>3. CASE id = terms[c].InvoiceID
      BY <1>0, <3>1, <3>2, <3>3
    <3>4. CASE id # terms[c].InvoiceID
      <4> SUFFICES ASSUME up', "map" \notin raced'
                   PROVE  \E e \in Calls : pc'[e] = "filling" /\ slot'[e] = id
        BY <3>2
      <4>1. PICK e \in Calls : pc[e] = "filling" /\ slot[e] = id
        BY <2>2, <2>4, <3>2, <3>4
      <4> QED
        BY <1>0, <3>1, <4>1
    <3> QED
      BY <3>3, <3>4
  <2>5. ASSUME NEW c \in Calls, NEW d \in Calls, PlaceOverlap(c, d),
               id \notin DOMAIN invoices \/ invoices[id] = NoInvoice
        PROVE  invoices'[id] = NoInvoice /\ "map" \in raced'
    <3>1. PICK k \in Calls : invoices' = Placed(terms[k].InvoiceID)
      BY <2>5 DEF PlaceOverlap
    <3> QED
      BY <2>5, <3>1 DEF PlaceOverlap, Placed, With
  <2>6. ASSUME NEW c \in Calls, Places(c)
        PROVE  \/ id \in DOMAIN invoices /\ invoices'[id] = invoices[id] /\ invoices[id] # NoInvoice
               \/ id \notin DOMAIN invoices \/ invoices[id] = NoInvoice
    <3>1. PICK k \in Calls : invoices' = Placed(terms[k].InvoiceID)
      BY <2>6 DEF Places, PlaceKey, PlaceOverlap
    <3> QED
      BY <1>0, <3>1, PlacedAt
  <2>7. ASSUME NEW c \in Calls, MoveEntry(c)
        PROVE  id \in DOMAIN invoices /\ invoices'[id] = invoices[id] /\ "map" \in raced'
    BY <2>7 DEF MoveEntry
  <2>8. CASE <<invoices, slot>>' = <<invoices, slot>> /\ \A c \in Calls : ~Fill(c)
    <3>1. CASE invoices[id] # NoInvoice
      BY <2>1, <2>8, <3>1
    <3>2. CASE invoices[id] = NoInvoice
      <4> SUFFICES ASSUME up', "map" \notin raced'
                   PROVE  \E e \in Calls : pc'[e] = "filling" /\ slot'[e] = id
        BY <2>8, <3>2
      <4>1. PICK e \in Calls : pc[e] = "filling" /\ slot[e] = id
        BY <2>2, <2>8, <3>2
      <4>2. ~Die
        BY DEF Die
      <4>3. ~Checks(e)
        BY <4>1 DEF Checks, CheckInvoice, GetInvoice, Made, LookupCheck, LookupGet,
           CheckDeadline, DeadlineTest, GetReceivedAmount, AnswerCheck
      <4>4. ~Creates(e)
        BY <2>8, <4>1 DEF Creates, CreateInvoice, Made, GetPrice, DeriveChild, LoadIndex, StoreIndex,
           BeginInsert, Places, PlaceKey, PlaceOverlap
      <4>5. Rests(e)
        BY <4>2, <4>3, <4>4, CallChanges
      <4> QED
        BY <2>8, <4>1, <4>5 DEF Rests
    <3> QED
      BY <3>1, <3>2
  <2> QED
    BY <1>2, <2>1, <2>3, <2>4, <2>5, <2>6, <2>7, <2>8, MapChanges DEF Places
<1> QED
  BY <1>1, <1>2

LEMMA LedgerStep ==
  ASSUME AddressInv, SlotsFit, EntriesAreBuilt, LedgerKeepsAnswers, [Next]_vars
  PROVE  LedgerKeepsAnswers'
<1> SUFFICES ASSUME NEW c \in Calls, Ours(c)', "map" \notin raced'
             PROVE  LET told == reply'[c].invoice IN
                    /\ told.InvoiceID \in DOMAIN invoices' /\ invoices'[told.InvoiceID].InvoiceID = told.InvoiceID
                    /\ raced' = {} => invoices'[told.InvoiceID] = told
  BY DEF LedgerKeepsAnswers
<1>0. /\ TypeOK /\ Fits /\ AllWellMade /\ AddressesHeld
      /\ pc \in [Calls -> PC] /\ reply \in [Calls -> Reply]
      /\ \A d \in Calls : born[d] <= restarts /\ born[d] \in Nat /\ restarts \in Nat
  BY DEF AddressInv, TypeOK, Fits, CallFits
<1>1. ~Restart
  BY <1>0 DEF Restart, call, locals, Ours
<1>2. raced \subseteq raced' /\ restarts' = restarts /\ "map" \notin raced
  BY <1>0, <1>1, WorldChanges
<1>3. CASE Fill(c)
  <2>1. /\ invoices' = IF slot[c] = 0 THEN invoices ELSE With(invoices, slot[c], terms[c])
        /\ slot[c] = terms[c].InvoiceID /\ slot[c] # 0
        /\ reply'[c].invoice = terms[c]
    <3>1. pc[c] = "filling" /\ reply'[c].invoice = terms[c]
      BY <1>0, <1>3 DEF Fill, Answer
    <3> QED
      BY <1>0, <1>2, <1>3, <3>1, FillBuilds DEF SlotsFit, SlotFits, AllWellMade, WellMade, Holding
  <2> QED
    BY <2>1 DEF With
<1>4. CASE Issued(c) /\ ~Fill(c)
  <2> DEFINE told == reply[c].invoice
             t == told.InvoiceID
  <2>1. reply'[c] = reply[c] /\ Ours(c) /\ pc[c] = "done"
    BY <1>0, <1>2, <1>4, IssuedStays DEF Ours
  <2>2. told = terms[c] /\ t > 0
    BY <1>0, <2>1 DEF AllWellMade, WellMade, Ours
  <2>3. /\ t \in DOMAIN invoices /\ invoices[t].InvoiceID = t
        /\ raced = {} => invoices[t] = told
    BY <1>2, <2>1 DEF LedgerKeepsAnswers
  <2>4. invoices[t] # NoInvoice
    BY <2>2, <2>3 DEF NoInvoice
  <2> HIDE DEF told, t
  <2>5. /\ t \in DOMAIN invoices'
        /\ \/ invoices'[t] = invoices[t]
           \/ \E d \in Calls : Fill(d) /\ slot[d] = t /\ invoices'[t] = terms[d]
    BY <1>0, <1>1, <2>3, <2>4, EntryStays
  <2>6. CASE invoices'[t] = invoices[t]
    BY <1>2, <2>1, <2>3, <2>5, <2>6 DEF told, t
  <2>7. ASSUME NEW d \in Calls, Fill(d), slot[d] = t, invoices'[t] = terms[d]
        PROVE  terms[d].InvoiceID = t /\ raced # {}
    <3>1. pc[d] = "filling" /\ slot[d] = terms[d].InvoiceID
      BY <1>2, <2>7 DEF Fill, SlotsFit, SlotFits
    <3>2. c \in Incremented /\ d \in Incremented /\ c # d
      BY <1>0, <2>1, <3>1 DEF Incremented, Ours, Issued, Fits, CallFits, Creating, InFlight
    <3>3. terms[c].InvoiceID = t
      BY <2>2 DEF t
    <3> QED
      BY <1>0, <2>7, <3>1, <3>2, <3>3 DEF AddressesHeld, Below
  <2> QED
    BY <1>2, <2>1, <2>5, <2>6, <2>7 DEF told, t
<1> QED
  BY <1>0, <1>3, <1>4, IssuedByFill DEF Ours

\* While no creates have raced, an entry that is filled stays.
LEMMA CalmEntryStays ==
  ASSUME AddressInv, SlotsFit, EntriesAreBuilt, [Next]_vars, ~Restart, raced' = {},
         NEW id \in DOMAIN invoices, invoices[id] # NoInvoice
  PROVE  id \in DOMAIN invoices' /\ invoices'[id] = invoices[id]
<1>0. /\ TypeOK /\ Fits /\ AllWellMade /\ AddressesHeld
      /\ pc \in [Calls -> PC] /\ raced = {}
  BY WorldChanges DEF AddressInv, TypeOK
<1>1. ASSUME NEW d \in Calls, Fill(d), slot[d] = id
      PROVE  FALSE
  <2>1. pc[d] = "filling" /\ terms[d].InvoiceID = id
    BY <1>0, <1>1 DEF Fill, SlotsFit, SlotFits
  <2>2. PICK e \in Calls : Issued(e) /\ born[e] = restarts /\ reply[e].invoice.InvoiceID = id
    BY <1>0 DEF EntriesAreBuilt, Built
  <2>3. d \in Incremented /\ e \in Incremented /\ d # e
    BY <1>0, <2>1, <2>2 DEF Incremented, Issued, Fits, CallFits, Creating, InFlight, NoReply
  <2>4. terms[e].InvoiceID = id
    BY <1>0, <2>2 DEF AllWellMade, WellMade
  <2> QED
    BY <1>0, <2>1, <2>3, <2>4 DEF AddressesHeld, Below
<1> QED
  BY <1>0, <1>1, EntryStays

(***************************************************************************)
(* The invariants of the ledger, together.                                 *)
(***************************************************************************)
MapInv == SlotsFit /\ EntriesAreBuilt /\ LedgerKeepsAnswers

LEMMA MapAlwaysFits == Spec => []MapInv
<1>1. Init => MapInv
  BY DEF Init, MapInv, SlotsFit, SlotFits, EntriesAreBuilt, LedgerKeepsAnswers, Ours, Issued, EmptyMap, NoReply
<1>2. AddressInv /\ MapInv /\ [Next]_vars => MapInv'
  BY SlotStep, EntriesStep, LedgerStep DEF MapInv, AddressInv
<1> QED
  BY <1>1, <1>2, AddressesAlwaysHeld, PTL DEF Spec

(***************************************************************************)
(* An entry of the map is nil or an invoice that a create of this process  *)
(* has built and returned, whatever the races; while assignments of the    *)
(* map have not overlapped, it is the invoice of its key (api.go:50-54).   *)
(***************************************************************************)
THEOREM EntriesAreWhole == Spec => []EntriesAreBuilt
BY MapAlwaysFits, PTL DEF MapInv

(***************************************************************************)
(* Without races the ledger keeps every invoice that this process has      *)
(* returned; with races for the index, one with the same address.          *)
(***************************************************************************)
THEOREM AnswersAreKept == Spec => []LedgerKeepsAnswers
BY MapAlwaysFits, PTL DEF MapInv

-----------------------------------------------------------------------------
(***************************************************************************)
(* Lookups.                                                                *)
(***************************************************************************)
\* c is past its lookup, or was answered after it.
Past(c) ==
  \/ pc[c] \in Checking \/ reply[c].kind = "status"
  \/ request[c].op = "get" /\ reply[c].kind = "invoice"

\* What a lookup found stays built, and stays in the ledger while nothing races.
LookedUp(c) ==
  Past(c) =>
    /\ terms[c] = NoInvoice \/ Built(terms[c], born[c])
    /\ pc[c] \in Checking /\ terms[c] # NoInvoice => SecondLookup(c)
    /\ born[c] = restarts /\ raced = {} /\ terms[c] # NoInvoice
         => request[c].id \in DOMAIN invoices /\ invoices[request[c].id] = terms[c]
    /\ request[c].op = "get" => terms[c] # NoInvoice /\ reply[c].invoice = terms[c]

AllLookedUp == \A c \in Calls : LookedUp(c)

\* A call that is past its lookup was so before, or has just found its entry.
LEMMA LookupStep ==
  ASSUME TypeOK, Fits, [Next]_vars, NEW c \in Calls, Past(c)'
  PROVE  /\ request'[c] = request[c] /\ born'[c] = born[c]
         /\ \/ Past(c) /\ terms'[c] = terms[c] /\ (pc'[c] \in Checking => pc[c] \in Checking)
               /\ (request[c].op = "get" => reply'[c] = reply[c])
            \/ LookupCheck(c) /\ Finds(c)
            \/ LookupGet(c) /\ Finds(c) /\ terms'[c] # NoInvoice /\ reply'[c].invoice = terms'[c]
<1>0. /\ pc \in [Calls -> PC] /\ reply \in [Calls -> Reply] /\ request \in [Calls -> Request]
      /\ terms \in [Calls -> Invoice] /\ born \in [Calls -> Nat] /\ CallFits(c)
  BY DEF TypeOK, Fits
<1>1. CASE Rests(c)
  BY <1>1 DEF Rests, Past
<1>2. CASE Die /\ InFlight(c)
  BY <1>0, <1>2 DEF Die, Past, Checking, InFlight, Unavailable, locals
<1>3. CASE Creates(c)
  <2>1. pc'[c] \notin Checking /\ reply'[c].kind # "status" /\ request'[c].op # "get"
    BY <1>0, <1>3 DEF Creates, Places, CreateInvoice, Made, GetPrice, DeriveChild, LoadIndex, StoreIndex,
       BeginInsert, PlaceKey, PlaceOverlap, Fill, Answer, GoTo, Fail, Checking, CallFits, Creating, NoReply, locals
  <2> QED
    BY <2>1 DEF Past
<1>4. CASE CheckInvoice(c) \/ GetInvoice(c)
  BY <1>0, <1>4 DEF CheckInvoice, GetInvoice, Made, Answer, GoTo, Fail, Past, Checking, CallFits, NoReply
<1>5. CASE LookupCheck(c)
  BY <1>0, <1>5 DEF LookupCheck, Finds, Answer, GoTo, Fail, Past, Checking, CallFits, NoReply
<1>6. CASE LookupGet(c)
  BY <1>0, <1>6 DEF LookupGet, Finds, Answer, GoTo, Fail, Past, Checking, CallFits, NoReply
<1>7. CASE CheckDeadline(c) \/ GetReceivedAmount(c) \/ AnswerCheck(c)
  BY <1>0, <1>7 DEF CheckDeadline, DeadlineTest, GetReceivedAmount, AnswerCheck, Answer, GoTo, Fail, Past,
     Checking, CallFits, NoReply, locals
<1> QED
  BY <1>1, <1>2, <1>3, <1>4, <1>5, <1>6, <1>7, CallChanges DEF Checks

LEMMA LookedUpStep ==
  ASSUME AddressInv, MapInv, AllLookedUp, [Next]_vars
  PROVE  AllLookedUp'
<1> SUFFICES ASSUME NEW c \in Calls, Past(c)'
             PROVE  LookedUp(c)'
  BY DEF AllLookedUp, LookedUp
<1>0. /\ TypeOK /\ Fits /\ AllWellMade /\ SlotsFit /\ EntriesAreBuilt
      /\ LookedUp(c) /\ CallFits(c)
      /\ pc \in [Calls -> PC] /\ restarts \in Nat /\ born \in [Calls -> Nat]
  BY DEF AddressInv, MapInv, AllLookedUp, TypeOK, Fits
<1>1. request'[c] = request[c] /\ born'[c] = born[c]
  BY <1>0, LookupStep
<1>2. CASE /\ Past(c) /\ terms'[c] = terms[c] /\ (pc'[c] \in Checking => pc[c] \in Checking)
           /\ (request[c].op = "get" => reply'[c] = reply[c])
  <2>1. terms'[c] = NoInvoice \/ Built(terms[c], born[c])'
    <3>1. CASE terms[c] = NoInvoice
      BY <1>2, <3>1
    <3>2. CASE Built(terms[c], born[c])
      <4>1. PICK e \in Calls : Issued(e) /\ born[e] = born[c] /\ reply[e].invoice = terms[c]
        BY <3>2 DEF Built
      <4>2. Issued(e)' /\ born'[e] = born'[c] /\ reply'[e].invoice = terms'[c]
        BY <1>0, <1>1, <1>2, <4>1, IssuedStays
      <4> QED
        BY <4>2 DEF Built
    <3> QED
      BY <1>0, <1>2, <3>1, <3>2 DEF LookedUp
  <2>2. ASSUME pc'[c] \in Checking, terms'[c] # NoInvoice
        PROVE  SecondLookup(c)'
    <3>1. SecondLookup(c) /\ pc[c] \in Checking
      BY <1>0, <1>2, <2>2 DEF LookedUp
    <3>2. ~Restart
      BY <1>0, <3>1 DEF Restart, CallFits, InFlight, Checking
    <3>3. /\ request[c].id \in DOMAIN invoices'
          /\ \/ invoices'[request[c].id] = invoices[request[c].id]
             \/ \E d \in Calls : Fill(d) /\ invoices'[request[c].id] = terms[d]
      BY <1>0, <3>1, <3>2, EntryStays DEF SecondLookup
    <3>4. ASSUME NEW d \in Calls, Fill(d)
          PROVE  terms[d] # NoInvoice
      BY <1>0, <3>4 DEF Fill, AllWellMade, WellMade, Holding, NoInvoice
    <3> QED
      BY <1>1, <3>1, <3>3, <3>4 DEF SecondLookup
  <2>3. ASSUME born'[c] = restarts', raced' = {}, terms'[c] # NoInvoice
        PROVE  request'[c].id \in DOMAIN invoices' /\ invoices'[request'[c].id] = terms'[c]
    <3>1. ~Restart
      BY <1>0, <1>1, <2>3 DEF Restart, CallFits
    <3>2. raced = {} /\ restarts' = restarts
      BY <1>0, <2>3, <3>1, WorldChanges
    <3>3. request[c].id \in DOMAIN invoices /\ invoices[request[c].id] = terms[c]
      BY <1>0, <1>1, <1>2, <2>3, <3>2 DEF LookedUp
    <3> QED
      BY <1>1, <1>2, <2>3, <3>1, <3>3, CalmEntryStays DEF MapInv
  <2>4. request'[c].op = "get" => terms'[c] # NoInvoice /\ reply'[c].invoice = terms'[c]
    BY <1>0, <1>1, <1>2 DEF LookedUp
  <2> QED
    BY <2>1, <2>2, <2>3, <2>4 DEF LookedUp
<1>3. CASE Finds(c) /\ (LookupCheck(c) \/ LookupGet(c))
  <2>0. /\ request[c].id \in DOMAIN invoices /\ terms'[c] = invoices[request[c].id]
        /\ UNCHANGED <<process, request, born, restarts, raced>>
        /\ pc[c] = "lookup"
    BY <1>0, <1>3 DEF Finds, LookupCheck, LookupGet, world, TypeOK
  <2>1. born[c] = restarts
    BY <1>0, <2>0 DEF CallFits, InFlight
  <2>2. terms'[c] = NoInvoice \/ Built(terms[c], born[c])'
    <3>1. CASE terms'[c] # NoInvoice
      <4>1. Built(invoices[request[c].id], restarts)
        BY <1>0, <2>0, <3>1 DEF EntriesAreBuilt
      <4>2. PICK e \in Calls : Issued(e) /\ born[e] = restarts /\ reply[e].invoice = invoices[request[c].id]
        BY <4>1 DEF Built
      <4>3. Issued(e)' /\ born'[e] = born'[c] /\ reply'[e].invoice = terms'[c]
        BY <1>0, <2>0, <2>1, <4>2, IssuedStays
      <4> QED
        BY <4>3 DEF Built
    <3> QED
      BY <3>1
  <2>3. /\ terms'[c] # NoInvoice => SecondLookup(c)'
        /\ request'[c].id \in DOMAIN invoices' /\ invoices'[request'[c].id] = terms'[c]
    BY <2>0 DEF SecondLookup, process
  <2>4. request'[c].op = "get" => terms'[c] # NoInvoice /\ reply'[c].invoice = terms'[c]
    <3>1. CASE LookupCheck(c)
      BY <2>0, <3>1 DEF LookupCheck
    <3>2. CASE ~LookupCheck(c)
      <4>1. pc'[c] \notin Checking /\ pc[c] # "done"
        BY <1>0, <1>3, <2>0, <3>2 DEF LookupGet, Answer, GoTo, Fail, Checking
      <4>2. ~Past(c)
        BY <1>0, <2>0, <4>1 DEF Past, Checking, CallFits, NoReply
      <4> QED
        BY <1>0, <3>2, <4>2, LookupStep
    <3> QED
      BY <3>1, <3>2
  <2> QED
    BY <2>2, <2>3, <2>4 DEF LookedUp
<1> QED
  BY <1>0, <1>2, <1>3, LookupStep

LEMMA LookupsAlwaysFit == Spec => []AllLookedUp
<1>1. Init => AllLookedUp
  BY DEF Init, AllLookedUp, LookedUp, Past, Checking, NoReply, NoRequest
<1>2. AddressInv /\ MapInv /\ AllLookedUp /\ [Next]_vars => AllLookedUp'
  BY LookedUpStep
<1> QED
  BY <1>1, <1>2, AddressesAlwaysHeld, MapAlwaysFits, PTL DEF Spec

(***************************************************************************)
(* A check that found an invoice at its first lookup never dereferences    *)
(* nil at its second (api.go:167, 174), whatever races, grows or fails.    *)
(***************************************************************************)
THEOREM SecondLookupAlwaysHits == Spec => []SecondLookupHits
<1>1. AllLookedUp => SecondLookupHits
  BY DEF AllLookedUp, LookedUp, SecondLookupHits, Past, Checking
<1> QED
  BY <1>1, LookupsAlwaysFit, PTL

-----------------------------------------------------------------------------
(***************************************************************************)
(* Verdicts.                                                               *)
(***************************************************************************)
(***************************************************************************)
(* What a search found was received; a status says where that stands, and  *)
(* what was expired is expired as long as nothing races.                   *)
(***************************************************************************)
Judged(c) ==
  /\ pc[c] = "verdict" => search[c].paid <= AmountAt(request[c].id)
  /\ StatusOf(c) \in Funding =>
       /\ terms[c] # NoInvoice
       /\ search[c].paid <= AmountAt(request[c].id)
       /\ StatusOf(c) = Status(terms[c].DigitalValue, search[c].paid)
  /\ StatusOf(c) = "expired" /\ raced = {} /\ born[c] = restarts
       => SecondLookup(c) /\ now > invoices[request[c].id].Expiry

AllJudged == \A c \in Calls : Judged(c)

\* A status is given by the deadline test or by the comparison of the amounts.
LEMMA StatusStep ==
  ASSUME TypeOK, Fits, [Next]_vars, NEW c \in Calls, reply'[c].kind = "status"
  PROVE  \/ Rests(c) /\ reply[c].kind = "status" /\ pc[c] = "done"
         \/ AnswerCheck(c) \/ CheckDeadline(c)
<1>0. /\ pc \in [Calls -> PC] /\ reply \in [Calls -> Reply] /\ CallFits(c)
  BY DEF TypeOK, Fits
<1>1. CASE Rests(c)
  BY <1>0, <1>1 DEF Rests, CallFits, NoReply
<1>2. CASE Die /\ InFlight(c)
  BY <1>0, <1>2 DEF Die, Unavailable
<1>3. CASE Creates(c)
  BY <1>0, <1>3 DEF Creates, Places, CreateInvoice, Made, GetPrice, DeriveChild, LoadIndex, StoreIndex,
     BeginInsert, PlaceKey, PlaceOverlap, Fill, Answer, GoTo, Fail, CallFits, NoReply, locals
<1>4. CASE Checks(c) /\ ~AnswerCheck(c) /\ ~CheckDeadline(c)
  BY <1>0, <1>4 DEF Checks, CheckInvoice, GetInvoice, Made, LookupCheck, LookupGet, GetReceivedAmount,
     Answer, GoTo, Fail, CallFits, NoReply
<1> QED
  BY <1>1, <1>2, <1>3, <1>4, CallChanges

\* A call waits for its verdict after the node has answered.
LEMMA VerdictStep ==
  ASSUME TypeOK, Fits, [Next]_vars, NEW c \in Calls, pc'[c] = "verdict"
  PROVE  /\ request'[c] = request[c] /\ terms'[c] = terms[c] /\ reply'[c] = NoReply
         /\ \/ pc[c] = "verdict" /\ search'[c] = search[c]
            \/ /\ GetReceivedAmount(c)
               /\ search'[c] \in {[err |-> "nil", paid |-> AmountAt(request[c].id)],
                                  [err |-> "failed", paid |-> 0]}
<1>0. /\ pc \in [Calls -> PC] /\ search \in [Calls -> Search] /\ CallFits(c) /\ Fits'
  BY TypeStep DEF TypeOK, Fits
<1>1. reply'[c] = NoReply
  BY <1>0 DEF Fits, CallFits
<1>2. CASE Rests(c)
  BY <1>1, <1>2 DEF Rests
<1>3. CASE GetReceivedAmount(c)
  BY <1>0, <1>1, <1>3 DEF GetReceivedAmount, Fail, Answer, GoTo
<1>4. CASE Die /\ InFlight(c)
  BY <1>0, <1>4 DEF Die
<1>5. CASE Creates(c)
  BY <1>0, <1>5 DEF Creates, Places, CreateInvoice, GetPrice, DeriveChild, LoadIndex, StoreIndex,
     BeginInsert, PlaceKey, PlaceOverlap, Fill, Answer, GoTo, Fail
<1>6. CASE Checks(c) /\ ~GetReceivedAmount(c)
  BY <1>0, <1>6 DEF Checks, CheckInvoice, GetInvoice, LookupCheck, LookupGet,
     CheckDeadline, DeadlineTest, AnswerCheck, Answer, GoTo, Fail
<1> QED
  BY <1>2, <1>3, <1>4, <1>5, <1>6, CallChanges

LEMMA JudgedStep ==
  ASSUME AddressInv, MapInv, AllLookedUp, AllJudged, [Next]_vars
  PROVE  AllJudged'
<1> SUFFICES ASSUME NEW c \in Calls
             PROVE  Judged(c)'
  BY DEF AllJudged
<1>0. /\ TypeOK /\ Fits /\ Judged(c) /\ CallFits(c)
      /\ pc \in [Calls -> PC] /\ search \in [Calls -> Search] /\ reply \in [Calls -> Reply]
      /\ terms[c] \in Invoice /\ search[c].paid \in Nat /\ terms[c].DigitalValue \in Nat
  BY DEF AddressInv, AllJudged, TypeOK, Fits, Search, Invoice
<1>1. ASSUME pc'[c] = "verdict"
      PROVE  search'[c].paid <= AmountAt(request[c].id)'
  <2> DEFINE id == request[c].id
  <2>1. AmountAt(id) \in Nat /\ AmountAt(id)' \in Nat /\ AmountAt(id)' >= AmountAt(id)
    <3>1. \A a : AmountAt(a) \in Nat
      BY <1>0, AmountsAreNat
    <3>2. request'[c] = request[c]
      BY <1>0, <1>1, VerdictStep
    <3>3. PICK a : a = id
      OBVIOUS
    <3>4. AmountAt(a) \in Nat /\ AmountAt(a)' \in Nat /\ AmountAt(a)' >= AmountAt(a)
      BY <1>0, AmountsGrow
    <3> QED
      BY <3>2, <3>3, <3>4
  <2>2. search'[c].paid <= AmountAt(id)
    BY <1>0, <1>1, <2>1, VerdictStep DEF Judged
  <2>3. search'[c].paid \in Int
    BY <1>0, <1>1, <2>1, VerdictStep
  <2> QED
    BY <2>1, <2>2, <2>3
<1>2. ASSUME StatusOf(c)' \in Funding
      PROVE  /\ terms'[c] # NoInvoice
             /\ search'[c].paid <= AmountAt(request[c].id)'
             /\ StatusOf(c)' = Status(terms'[c].DigitalValue, search'[c].paid)
  <2>0. reply'[c].kind = "status" /\ reply'[c].status # "expired" /\ StatusOf(c)' = reply'[c].status
    BY <1>2 DEF StatusOf, Funding
  <2>1. \/ /\ Rests(c) /\ StatusOf(c) = StatusOf(c)' /\ StatusOf(c) \in Funding
        \/ AnswerCheck(c) /\ UNCHANGED <<request, terms, search, received>>
           /\ StatusOf(c)' = Status(terms[c].DigitalValue, search[c].paid)
    <3>1. ~CheckDeadline(c)
      BY <1>0, <2>0 DEF CheckDeadline, DeadlineTest, Answer, GoTo, CallFits, NoReply
    <3>2. CASE Rests(c) /\ reply[c].kind = "status"
      BY <1>2, <2>0, <3>2 DEF Rests, StatusOf
    <3>3. CASE AnswerCheck(c)
      BY <1>0, <2>0, <3>3 DEF AnswerCheck, Answer, locals, world
    <3> QED
      BY <1>0, <2>0, <3>1, <3>2, <3>3, StatusStep
  <2>2. terms'[c] # NoInvoice /\ StatusOf(c)' = Status(terms'[c].DigitalValue, search'[c].paid)
    BY <1>0, <2>1 DEF Judged, Rests, AnswerCheck
  <2>3. request'[c] = request[c] /\ search'[c] = search[c] /\ search[c].paid <= AmountAt(request[c].id)
    BY <1>0, <2>1 DEF Judged, Rests, AnswerCheck
  <2>4. search'[c].paid <= AmountAt(request[c].id)'
    <3>1. PICK a : a = request[c].id
      OBVIOUS
    <3>2. AmountAt(a) \in Nat /\ AmountAt(a)' \in Nat /\ AmountAt(a)' >= AmountAt(a)
      BY <1>0, AmountsGrow
    <3> QED
      BY <1>0, <2>3, <3>1, <3>2
  <2> QED
    BY <2>2, <2>4
<1>3. ASSUME StatusOf(c)' = "expired", raced' = {}, born'[c] = restarts'
      PROVE  SecondLookup(c)' /\ now' > invoices'[request'[c].id].Expiry
  <2>0. reply'[c].kind = "status" /\ reply'[c].status = "expired"
    BY <1>3 DEF StatusOf
  <2>1. ~AnswerCheck(c)
    <3> SUFFICES ASSUME AnswerCheck(c)
                 PROVE  FALSE
      OBVIOUS
    <3>1. reply'[c].status = Status(terms[c].DigitalValue, search[c].paid)
      BY <1>0 DEF AnswerCheck, Answer
    <3> QED
      BY <1>0, <2>0, <3>1, StatusOfAmount
  <2>2. CASE CheckDeadline(c)
    <3>1. /\ SecondLookup(c) /\ now > invoices[request[c].id].Expiry
          /\ UNCHANGED <<invoices, request, now>>
      BY <1>0, <2>0, <2>2 DEF CheckDeadline, DeadlineTest, Answer, GoTo, CallFits, NoReply, process, locals, world
    <3> QED
      BY <3>1 DEF SecondLookup
  <2>3. CASE Rests(c) /\ reply[c].kind = "status" /\ pc[c] = "done"
    <3>1. ~Restart
      BY <1>0, <1>3 DEF Restart, call, locals, CallFits, TypeOK
    <3>2. raced = {} /\ restarts' = restarts
      BY <1>0, <1>3, <3>1, WorldChanges
    <3>3. SecondLookup(c) /\ now > invoices[request[c].id].Expiry
      BY <1>0, <1>3, <2>3, <3>2 DEF Judged, Rests, StatusOf
    <3>4. request'[c].id \in DOMAIN invoices' /\ invoices'[request'[c].id] = invoices[request[c].id]
      BY <1>3, <2>3, <3>1, <3>3, CalmEntryStays DEF MapInv, SecondLookup, Rests
    <3>5. now' >= now /\ now \in Nat /\ now' \in Nat /\ invoices[request[c].id].Expiry \in Nat
      BY <1>0, <3>3, TypeStep, WorldChanges DEF TypeOK, SecondLookup, Invoice
    <3> QED
      BY <3>3, <3>4, <3>5 DEF SecondLookup
  <2> QED
    BY <1>0, <2>0, <2>1, <2>2, <2>3, StatusStep
<1> QED
  BY <1>1, <1>2, <1>3 DEF Judged

LEMMA VerdictsAlwaysJudged == Spec => []AllJudged
<1>1. Init => AllJudged
  BY DEF Init, AllJudged, Judged, StatusOf, NoReply, Funding
<1>2. AddressInv /\ MapInv /\ AllLookedUp /\ AllJudged /\ [Next]_vars => AllJudged'
  BY JudgedStep
<1> QED
  BY <1>1, <1>2, AddressesAlwaysHeld, MapAlwaysFits, LookupsAlwaysFit, PTL DEF Spec

(***************************************************************************)
(* A call answers paid only if its address has received the lower limit of *)
(* an invoice that its process has built (api.go:185-191), whatever races, *)
(* fails or starts again; unless creates of this process have raced, it is *)
(* the invoice that the client was told.                                   *)
(***************************************************************************)
THEOREM PaidIsFunded == Spec => []PaidMeansFunded
<1>1. AddressInv /\ MapInv /\ AllLookedUp /\ AllJudged => PaidMeansFunded
  <2> SUFFICES ASSUME AddressInv, MapInv, AllLookedUp, AllJudged, NEW c \in Calls, StatusOf(c) = "paid"
               PROVE  /\ AmountAt(request[c].id) >= LowestPaid(terms[c].DigitalValue)
                      /\ Built(terms[c], born[c])
                      /\ \A d \in Calls :
                           raced = {} /\ born[c] = restarts /\ Ours(d) /\ reply[d].invoice.InvoiceID = request[c].id
                           => reply[d].invoice = terms[c]
    BY DEF PaidMeansFunded
  <2>0. TypeOK /\ terms[c].DigitalValue \in Nat /\ search[c].paid \in Nat
    BY DEF AddressInv, TypeOK, Invoice, Search
  <2>1. /\ terms[c] # NoInvoice /\ search[c].paid <= AmountAt(request[c].id)
        /\ Status(terms[c].DigitalValue, search[c].paid) = "paid"
    BY DEF AllJudged, Judged, Funding
  <2>2. /\ search[c].paid >= LowestPaid(terms[c].DigitalValue) /\ AmountAt(request[c].id) \in Nat
        /\ LowestPaid(terms[c].DigitalValue) \in Int
    <3>1. AllowedInterval(terms[c].DigitalValue) \in Nat
      BY <2>0, IntervalIsFiftieth
    <3>2. LowestPaid(terms[c].DigitalValue) \in Int
      BY <2>0, <3>1 DEF LowestPaid
    <3> QED
      BY <2>0, <2>1, <3>2, StatusOfAmount, AmountsAreNat
  <2>3. Past(c) /\ LookedUp(c)
    BY DEF AllLookedUp, Past, StatusOf
  <2>4. Built(terms[c], born[c])
    BY <2>1, <2>3 DEF LookedUp
  <2>5. ASSUME NEW d \in Calls, raced = {}, born[c] = restarts, Ours(d),
               reply[d].invoice.InvoiceID = request[c].id
        PROVE  reply[d].invoice = terms[c]
    BY <2>1, <2>3, <2>5 DEF LookedUp, MapInv, LedgerKeepsAnswers
  <2> QED
    BY <2>0, <2>1, <2>2, <2>4, <2>5
<1> QED
  BY <1>1, AddressesAlwaysHeld, MapAlwaysFits, LookupsAlwaysFit, VerdictsAlwaysJudged, PTL

(***************************************************************************)
(* After an invoice was reported expired, no check of this process passes  *)
(* the deadline test for it (api.go:174-177), unless creates have raced.   *)
(***************************************************************************)
THEOREM ExpiredStays == Spec => ExpiredIsFinal
<1>1. ASSUME AddressInv, AllJudged, [Next]_vars
      PROVE  \A c, d \in Calls :
               /\ raced = {} /\ born[d] = restarts
               /\ pc[c] = "deadline" /\ pc'[c] = "balance"
               /\ StatusOf(d) = "expired"
               => request[d].id # request[c].id
  <2> SUFFICES ASSUME NEW c \in Calls, NEW d \in Calls, raced = {}, born[d] = restarts,
                      pc[c] = "deadline", pc'[c] = "balance", StatusOf(d) = "expired",
                      request[d].id = request[c].id
               PROVE  FALSE
    OBVIOUS
  <2>0. pc \in [Calls -> PC] /\ TypeOK /\ now \in Nat
    BY <1>1 DEF AddressInv, TypeOK
  <2>1. SecondLookup(d) /\ now > invoices[request[d].id].Expiry
    BY <1>1 DEF AllJudged, Judged
  <2>2. CheckDeadline(c)
    <3>1. CASE Rests(c) \/ Creates(c) \/ (Die /\ InFlight(c))
      BY <2>0, <3>1 DEF Rests, Die, Creates, Places, CreateInvoice, Made, GetPrice, DeriveChild, LoadIndex,
         StoreIndex, BeginInsert, PlaceKey, PlaceOverlap, Fill
    <3>2. CASE Checks(c) /\ ~CheckDeadline(c)
      BY <3>2 DEF Checks, CheckInvoice, GetInvoice, Made, LookupCheck, LookupGet, GetReceivedAmount, AnswerCheck
    <3> QED
      BY <1>1, <2>0, <3>1, <3>2, CallChanges
  <2>3. ~(now > invoices[request[c].id].Expiry)
    BY <2>0, <2>2 DEF CheckDeadline, DeadlineTest, Answer, GoTo
  <2> QED
    BY <2>1, <2>3
<1> QED
  BY <1>1, AddressesAlwaysHeld, VerdictsAlwaysJudged, PTL DEF Spec, ExpiredIsFinal

(***************************************************************************)
(* A search that the node answers sees at least what any answer before it  *)
(* saw (api.go:180-203): its status ranks no lower, whatever failed, raced *)
(* or started again in between.                                            *)
(***************************************************************************)
THEOREM AnswersGoForward == Spec => AnswersAdvance
<1>1. ASSUME AddressInv, AllJudged, [Next]_vars
      PROVE  \A c, d \in Calls :
               /\ pc[c] = "balance" /\ pc'[c] = "verdict" /\ search'[c].err = "nil"
               /\ StatusOf(d) \in Funding
               /\ request[d].id = request[c].id
               /\ terms[d].DigitalValue = terms[c].DigitalValue
               => Rank(StatusOf(d)) <= Rank(Status(terms[c].DigitalValue, search'[c].paid))
  <2> SUFFICES ASSUME NEW c \in Calls, NEW d \in Calls,
                      pc[c] = "balance", pc'[c] = "verdict", search'[c].err = "nil",
                      StatusOf(d) \in Funding, request[d].id = request[c].id,
                      terms[d].DigitalValue = terms[c].DigitalValue
               PROVE  Rank(StatusOf(d)) <= Rank(Status(terms[c].DigitalValue, search'[c].paid))
    OBVIOUS
  <2>0. /\ TypeOK /\ Fits /\ terms[c].DigitalValue \in Nat /\ search[d].paid \in Nat
        /\ AmountAt(request[c].id) \in Nat
    BY <1>1, AmountsAreNat DEF AddressInv, TypeOK, Invoice, Search
  <2>1. search'[c].paid = AmountAt(request[c].id)
    BY <1>1, <2>0, VerdictStep
  <2>2. /\ search[d].paid <= AmountAt(request[c].id)
        /\ StatusOf(d) = Status(terms[c].DigitalValue, search[d].paid)
    BY <1>1 DEF AllJudged, Judged
  <2> QED
    BY <2>0, <2>1, <2>2, AmountOrdersStatus
<1> QED
  BY <1>1, AddressesAlwaysHeld, VerdictsAlwaysJudged, PTL DEF Spec, AnswersAdvance

-----------------------------------------------------------------------------
(***************************************************************************)
(* Expiries.  Invoices of a later process expire no earlier.               *)
(***************************************************************************)
Priced(c) == request[c].op = "create" /\ (pc[c] \in Holding \cup {"derive"} \/ Issued(c))

ExpiryFits(c) ==
  Priced(c) => /\ terms[c].Expiry <= now + InvoiceLifetime
               /\ \A e \in Calls : Priced(e) /\ born[c] < born[e]
                                   => terms[c].Expiry <= terms[e].Expiry

AllExpiriesFit == \A c \in Calls : ExpiryFits(c)

\* A create has its price before, or gets it now.
LEMMA PricedStep ==
  ASSUME TypeOK, Fits, [Next]_vars, NEW c \in Calls, Priced(c)'
  PROVE  /\ born'[c] = born[c]
         /\ \/ Priced(c) /\ terms'[c].Expiry = terms[c].Expiry
            \/ /\ GetPrice(c) /\ pc[c] = "price" /\ born[c] = restarts /\ restarts' = restarts
               /\ terms'[c].Expiry = now + InvoiceLifetime
<1>0. /\ pc \in [Calls -> PC] /\ terms \in [Calls -> Invoice] /\ reply \in [Calls -> Reply]
      /\ request \in [Calls -> Request] /\ born \in [Calls -> Nat] /\ CallFits(c)
  BY DEF TypeOK, Fits
<1>1. CASE Rests(c)
  BY <1>1 DEF Rests, Priced, Issued
<1>2. CASE Die /\ InFlight(c)
  BY <1>0, <1>2 DEF Die, Priced, Issued, Holding, Unavailable
<1>3. CASE Checks(c)
  <2>1. request'[c].op # "create"
    BY <1>0, <1>3 DEF Checks, CheckInvoice, GetInvoice, Made, LookupCheck, LookupGet,
       CheckDeadline, DeadlineTest, GetReceivedAmount, AnswerCheck, CallFits, Checking, locals
  <2> QED
    BY <2>1 DEF Priced
<1>4. CASE CreateInvoice(c)
  BY <1>0, <1>4 DEF CreateInvoice, Made, Answer, GoTo, Fail, Priced, Issued, Holding, CallFits, NoReply
<1>5. CASE GetPrice(c)
  <2>1. /\ pc[c] = "price" /\ UNCHANGED <<request, born, restarts>> /\ request[c].op = "create"
        /\ born[c] = restarts
    BY <1>0, <1>5 DEF GetPrice, CallFits, Creating, InFlight, world
  <2>2. pc'[c] # "done"
    BY <1>0, <1>5 DEF GetPrice, Answer, GoTo, Fail, Priced, Issued, Holding
  <2>3. terms'[c].Expiry = now + InvoiceLifetime
    BY <1>0, <1>5, <2>2 DEF GetPrice, Answer, GoTo, Fail
  <2> QED
    BY <1>5, <2>1, <2>3
<1>6. CASE DeriveChild(c)
  <2>1. /\ pc[c] = "derive" /\ UNCHANGED <<request, born>> /\ terms'[c].Expiry = terms[c].Expiry
    BY <1>0, <1>6 DEF DeriveChild, ReadIndex, Invoice
  <2> QED
    BY <1>0, <2>1 DEF Priced, CallFits, Creating
<1>7. CASE LoadIndex(c) \/ StoreIndex(c) \/ BeginInsert(c) \/ Places(c) \/ Fill(c)
  BY <1>0, <1>7 DEF LoadIndex, StoreIndex, BeginInsert, Places, PlaceKey, PlaceOverlap, Fill, Priced, Holding,
     CallFits, Creating, locals
<1> QED
  BY <1>1, <1>2, <1>3, <1>4, <1>5, <1>6, <1>7, CallChanges DEF Creates

LEMMA ExpiryStep ==
  ASSUME TypeOK, Fits, AllExpiriesFit, [Next]_vars
  PROVE  AllExpiriesFit'
<1> SUFFICES ASSUME NEW c \in Calls, Priced(c)'
             PROVE  /\ terms'[c].Expiry <= now' + InvoiceLifetime
                    /\ \A e \in Calls : Priced(e)' /\ born'[c] < born'[e]
                                        => terms'[c].Expiry <= terms'[e].Expiry
  BY DEF AllExpiriesFit, ExpiryFits
<1>0. /\ now \in Nat /\ now' \in Nat /\ now' >= now /\ InvoiceLifetime \in Nat
      /\ \A e \in Calls : terms[e].Expiry \in Nat /\ born[e] \in Nat /\ born[e] <= restarts
      /\ restarts \in Nat
  BY TypeStep, WorldChanges, ServerAssumption DEF TypeOK, Invoice, Fits, CallFits
<1>1. terms'[c].Expiry <= now' + InvoiceLifetime
  <2>1. CASE Priced(c) /\ terms'[c].Expiry = terms[c].Expiry
    BY <1>0, <2>1 DEF AllExpiriesFit, ExpiryFits
  <2>2. CASE terms'[c].Expiry = now + InvoiceLifetime
    BY <1>0, <2>2
  <2> QED
    BY <2>1, <2>2, PricedStep
<1>2. ASSUME NEW e \in Calls, Priced(e)', born'[c] < born'[e]
      PROVE  terms'[c].Expiry <= terms'[e].Expiry
  <2>1. born'[c] = born[c] /\ born'[e] = born[e]
    BY <1>2, PricedStep
  <2>2. Priced(c) /\ terms'[c].Expiry = terms[c].Expiry
    BY <1>0, <1>2, <2>1, PricedStep
  <2>3. CASE Priced(e) /\ terms'[e].Expiry = terms[e].Expiry
    BY <1>2, <2>1, <2>2, <2>3 DEF AllExpiriesFit, ExpiryFits
  <2>4. CASE terms'[e].Expiry = now + InvoiceLifetime
    BY <2>2, <2>4 DEF AllExpiriesFit, ExpiryFits
  <2> QED
    BY <1>2, <2>3, <2>4, PricedStep
<1> QED
  BY <1>1, <1>2

LEMMA ExpiriesAlwaysFit == Spec => []AllExpiriesFit
<1>1. Init => AllExpiriesFit
  BY DEF Init, AllExpiriesFit, ExpiryFits, Priced, NoRequest
<1>2. TypeOK /\ Fits /\ AllExpiriesFit /\ [Next]_vars => AllExpiriesFit'
  BY ExpiryStep
<1> QED
  BY <1>1, <1>2, TypesFit, PTL DEF Spec

(***************************************************************************)
(* Unless creates of this process have raced, "expired" is said only after *)
(* the expiry of every invoice that was issued with the address, by this   *)
(* process or by one before it (api.go:174).                               *)
(***************************************************************************)
THEOREM DeadlinesAreKept == Spec => []DeadlineKept
<1>1. AddressInv /\ MapInv /\ AllJudged /\ AllExpiriesFit => DeadlineKept
  <2> SUFFICES ASSUME AddressInv, MapInv, AllJudged, AllExpiriesFit,
                      NEW c \in Calls, NEW d \in Calls, raced = {}, born[d] = restarts,
                      Issued(c), StatusOf(d) = "expired", request[d].id = reply[c].invoice.InvoiceID
               PROVE  now > reply[c].invoice.Expiry
    BY DEF DeadlineKept
  <2> DEFINE id == request[d].id
  <2>0. /\ now \in Nat /\ born[c] \in Nat /\ restarts \in Nat /\ born[c] <= restarts
        /\ \A e \in Calls : terms[e].Expiry \in Nat
    BY DEF AddressInv, TypeOK, Invoice, Fits, CallFits
  <2>1. SecondLookup(d) /\ now > invoices[id].Expiry
    BY DEF AllJudged, Judged
  <2>2. CASE Ours(c)
    BY <2>1, <2>2 DEF MapInv, LedgerKeepsAnswers
  <2>3. CASE ~Ours(c)
    <3>1. PICK e \in Calls : Issued(e) /\ born[e] = restarts /\ reply[e].invoice = invoices[id]
      BY <2>1 DEF MapInv, EntriesAreBuilt, Built, SecondLookup
    <3>2. born[c] < born[e]
      BY <2>0, <2>3, <3>1 DEF Ours
    <3>3. Priced(c) /\ Priced(e) /\ reply[c].invoice = terms[c] /\ reply[e].invoice = terms[e]
      BY <3>1 DEF Priced, AddressInv, AllWellMade, WellMade, Issued
    <3>4. terms[c].Expiry <= terms[e].Expiry
      BY <3>2, <3>3 DEF AllExpiriesFit, ExpiryFits
    <3> QED
      BY <2>0, <2>1, <3>1, <3>3, <3>4
  <2> QED
    BY <2>2, <2>3
<1> QED
  BY <1>1, AddressesAlwaysHeld, MapAlwaysFits, VerdictsAlwaysJudged, ExpiriesAlwaysFit, PTL

-----------------------------------------------------------------------------
(***************************************************************************)
(* Payments.  Only an address that was issued receives anything.           *)
(***************************************************************************)
PaidWasIssued ==
  \A a \in DOMAIN received : \E c \in Calls : Issued(c) /\ reply[c].invoice.InvoiceID = a

LEMMA PaidWasIssuedStep ==
  ASSUME AddressInv, AllLookedUp, PaidWasIssued, [Next]_vars
  PROVE  PaidWasIssued'
<1> SUFFICES ASSUME NEW a \in DOMAIN received'
             PROVE  \E c \in Calls : Issued(c)' /\ reply'[c].invoice.InvoiceID = a
  BY DEF PaidWasIssued
<1>0. TypeOK /\ Fits
  BY DEF AddressInv
<1>1. \E c \in Calls : Issued(c) /\ reply[c].invoice.InvoiceID = a
  <2>1. CASE a \in DOMAIN received
    BY <2>1 DEF PaidWasIssued
  <2>2. CASE a \notin DOMAIN received
    <3>1. PICK c \in Calls : reply[c].kind = "invoice" /\ a = reply[c].invoice.InvoiceID
      BY <1>0, <2>2, WorldChanges DEF Pay, With
    <3>2. CASE Issued(c)
      BY <3>1, <3>2
    <3>3. CASE ~Issued(c)
      <4>1. request[c].op = "get"
        BY <1>0, <3>1, <3>3 DEF Issued, Fits, CallFits, TypeOK, Request, NoRequest, CreateRequest, IdRequest
      <4>2. Built(terms[c], born[c]) /\ reply[c].invoice = terms[c]
        BY <3>1, <4>1 DEF AllLookedUp, LookedUp, Past
      <4> QED
        BY <3>1, <4>2 DEF Built
    <3> QED
      BY <3>2, <3>3
  <2> QED
    BY <2>1, <2>2
<1> QED
  BY <1>0, <1>1, IssuedStays

LEMMA PaidAlwaysIssued == Spec => []PaidWasIssued
<1>1. Init => PaidWasIssued
  BY DEF Init, PaidWasIssued, EmptyMap
<1>2. AddressInv /\ AllLookedUp /\ PaidWasIssued /\ [Next]_vars => PaidWasIssued'
  BY PaidWasIssuedStep
<1> QED
  BY <1>1, <1>2, AddressesAlwaysHeld, LookupsAlwaysFit, PTL DEF Spec

(***************************************************************************)
(* Only a restart brings an address back that was paid before              *)
(* (main.go:33): in the first process, an invoice that is about to enter   *)
(* the ledger has received nothing, unless creates have raced for the      *)
(* index (api.go:73, 88).                                                  *)
(***************************************************************************)
THEOREM AddressesAreFresh == Spec => [](restarts = 0 => FreshAddress)
<1>1. AddressInv /\ PaidWasIssued => (restarts = 0 => FreshAddress)
  <2> SUFFICES ASSUME AddressInv, PaidWasIssued, restarts = 0, "index" \notin raced,
                      NEW c \in Calls,
                      pc[c] \in {"load", "store", "insert", "inserting", "filling"},
                      terms[c].InvoiceID \in DOMAIN received
               PROVE  FALSE
    BY DEF FreshAddress, AmountAt
  <2>0. /\ TypeOK /\ Fits /\ AllWellMade /\ AddressesHeld
        /\ derivationIndex \in Nat /\ \A d \in Calls : terms[d].InvoiceID \in Nat
        /\ \A d \in Calls : born[d] = 0
    <3>1. \A d \in Calls : born[d] \in Nat /\ born[d] <= 0
      BY DEF AddressInv, TypeOK, Fits, CallFits
    <3> QED
      BY <3>1 DEF AddressInv, TypeOK, Invoice
  <2>1. PICK d \in Calls : Issued(d) /\ reply[d].invoice.InvoiceID = terms[c].InvoiceID
    BY DEF PaidWasIssued
  <2>2. d \in Incremented /\ terms[d].InvoiceID = terms[c].InvoiceID /\ c # d
    BY <2>0, <2>1 DEF Incremented, Issued, AllWellMade, WellMade, Fits, CallFits, NoReply
  <2>3. terms[d].InvoiceID <= derivationIndex
    BY <2>0, <2>2 DEF AddressesHeld, Below
  <2>4. CASE InWindow(c)
    BY <2>0, <2>2, <2>3, <2>4 DEF AddressesHeld, Next1, AddressAt
  <2>5. CASE ~InWindow(c)
    <3>1. c \in Incremented
      BY <2>0, <2>5 DEF Incremented, InWindow, Fits, CallFits, Creating
    <3> QED
      BY <2>0, <2>2, <3>1 DEF AddressesHeld, Below
  <2> QED
    BY <2>4, <2>5
<1> QED
  BY <1>1, AddressesAlwaysHeld, PaidAlwaysIssued, PTL

-----------------------------------------------------------------------------
(***************************************************************************)
(* The handlers implement the ledger.                                      *)
(***************************************************************************)
\* The ledger computes statuses as the handlers do.
LEMMA SameMath ==
  \A due, paid : /\ Ledger!Status(due, paid) = Status(due, paid)
                 /\ Ledger!Remaining(due, paid) = Remaining(due, paid)
BY DEF Status, Remaining, InRange, LowestPaid, HighestPaid, AllowedInterval,
       Ledger!Status, Ledger!Remaining, Ledger!InRange, Ledger!LowestPaid, Ledger!HighestPaid,
       Ledger!AllowedInterval

\* What a step does that the ledger does not see in the call c.
Quiet(c) == CaseOf(c)' = CaseOf(c) /\ VerdictOf(c)' = VerdictOf(c)

LEMMA RestsIsQuiet ==
  ASSUME NEW c \in Calls, Rests(c)
  PROVE  Quiet(c)
BY DEF Rests, Quiet, CaseOf, VerdictOf

\* The cases and verdicts of the ledger are functions on the calls.
LEMMA CasesAreFunctions ==
  /\ Cases = [c \in Calls |-> CaseOf(c)] /\ Cases' = [c \in Calls |-> CaseOf(c)']
  /\ Verdicts = [c \in Calls |-> VerdictOf(c)] /\ Verdicts' = [c \in Calls |-> VerdictOf(c)']
BY DEF Cases, Verdicts

LEMMA QuietStep ==
  ASSUME \A c \in Calls : Quiet(c)
  PROVE  Cases' = Cases /\ Verdicts' = Verdicts
BY CasesAreFunctions DEF Quiet

\* A call that does not come near a verdict is not seen.
LEMMA FarIsQuiet ==
  ASSUME TypeOK, Fits, [Next]_vars, NEW c \in Calls,
         Creates(c) \/ CheckInvoice(c) \/ GetInvoice(c) \/ LookupCheck(c) \/ LookupGet(c)
  PROVE  Quiet(c)
<1>0. /\ pc \in [Calls -> PC] /\ reply \in [Calls -> Reply] /\ CallFits(c)
  BY DEF TypeOK, Fits
<1>1. /\ pc[c] \notin {"balance", "verdict"} /\ pc'[c] \notin {"balance", "verdict"}
      /\ reply[c].kind # "status" /\ reply'[c].kind # "status"
  <2>1. CASE Creates(c)
    BY <1>0, <2>1 DEF Creates, Places, CreateInvoice, Made, GetPrice, DeriveChild, LoadIndex, StoreIndex,
       BeginInsert, PlaceKey, PlaceOverlap, Fill, Answer, GoTo, Fail, CallFits, NoReply, locals
  <2>2. CASE CheckInvoice(c) \/ GetInvoice(c) \/ LookupCheck(c) \/ LookupGet(c)
    BY <1>0, <2>2 DEF CheckInvoice, GetInvoice, Made, LookupCheck, LookupGet,
       Answer, GoTo, Fail, CallFits, NoReply
  <2> QED
    BY <2>1, <2>2
<1> QED
  BY <1>1 DEF Quiet, CaseOf, VerdictOf

\* Entries are changed where the map is filled.
LEMMA EntriesChange ==
  ASSUME TypeOK, Fits, AllWellMade, SlotsFit, [Next]_vars, ~Restart
  PROVE  \/ Entries' = Entries
         \/ \E c \in Calls : Fill(c) /\ slot[c] # 0
<1>0. \A d \in Calls : terms[d].InvoiceID \in Nat
  BY DEF TypeOK, Invoice
<1>1. CASE invoices' = invoices
  BY <1>1 DEF Entries, Filled
<1>2. ASSUME NEW c \in Calls, Places(c)
      PROVE  Entries' = Entries
  <2>1. PICK k \in Calls : invoices' = Placed(terms[k].InvoiceID)
    BY <1>2 DEF Places, PlaceKey, PlaceOverlap
  <2>2. Filled' = Filled /\ \A id \in Filled : invoices'[id] = invoices[id]
    <3>1. PICK key \in Nat : invoices' = Placed(key)
      BY <1>0, <2>1
    <3> QED
      BY <3>1 DEF Placed, With, Filled
  <2> QED
    BY <2>2 DEF Entries
<1>3. ASSUME NEW c \in Calls, MoveEntry(c)
      PROVE  Entries' = Entries
  <2>1. \/ invoices' = invoices
        \/ /\ invoices[slot[c]] = NoInvoice
           /\ invoices' = [i \in DOMAIN invoices \ {slot[c]} |-> invoices[i]]
    BY <1>3 DEF MoveEntry
  <2>2. Filled' = Filled /\ \A id \in Filled : invoices'[id] = invoices[id]
    BY <2>1 DEF Filled
  <2> QED
    BY <2>2 DEF Entries
<1>4. ASSUME NEW c \in Calls, Fill(c)
      PROVE  slot[c] # 0 \/ invoices' = invoices
  BY <1>4 DEF Fill
<1> QED
  BY <1>1, <1>2, <1>3, <1>4, MapChanges

\* The invariants that the ledger rests on.
ServerInv == AddressInv /\ MapInv /\ AllLookedUp /\ AllJudged /\ AllExpiriesFit /\ PaidWasIssued

\* A fill is an issue.
LEMMA FillIssues ==
  ASSUME ServerInv, restarts = 0 => FreshAddress, [Next]_vars, NEW c \in Calls, Fill(c), slot[c] # 0
  PROVE  Ledger!Issue
<1> DEFINE a == slot[c]
<1>0. /\ TypeOK /\ Fits /\ AllWellMade /\ AddressesHeld /\ SlotsFit /\ EntriesAreBuilt
      /\ pc[c] = "filling" /\ terms[c] \in Invoice
  BY DEF ServerInv, AddressInv, MapInv, TypeOK, Fill
<1>1. /\ invoices' = With(invoices, a, terms[c]) /\ raced' = raced /\ restarts' = restarts
      /\ received' = received /\ now' = now
  BY <1>0 DEF Fill, world
<1>2. terms[c].FiatValue > 0 /\ terms[c] # NoInvoice
  BY <1>0 DEF AllWellMade, WellMade, Holding, NoInvoice
<1>3. terms[c].Expiry <= now + InvoiceLifetime
  BY <1>0 DEF ServerInv, AllExpiriesFit, ExpiryFits, Priced, Holding, Fits, CallFits, Creating
<1>4. ASSUME Calm
      PROVE  /\ a \notin Filled /\ terms[c].InvoiceID = a
             /\ ~Forgotten => Ledger!Received(a) = 0
  <2>1. terms[c].InvoiceID = a /\ raced = {}
    BY <1>0, <1>4 DEF Calm, SlotsFit, SlotFits
  <2>2. ASSUME a \in Filled
        PROVE  FALSE
    <3>1. PICK e \in Calls : Issued(e) /\ born[e] = restarts /\ reply[e].invoice.InvoiceID = a
      BY <1>0, <2>1, <2>2 DEF Filled, EntriesAreBuilt, Built
    <3>2. c \in Incremented /\ e \in Incremented /\ c # e
      BY <1>0, <3>1 DEF Incremented, Issued, Fits, CallFits, Creating, InFlight, NoReply
    <3>3. terms[e].InvoiceID = a
      BY <1>0, <3>1 DEF AllWellMade, WellMade
    <3> QED
      BY <1>0, <2>1, <3>2, <3>3 DEF AddressesHeld, Below
  <2>3. ASSUME ~Forgotten
        PROVE  Ledger!Received(a) = 0
    <3>1. restarts = 0
      BY <1>0, <2>3 DEF Forgotten, TypeOK
    <3>2. AmountAt(a) = 0
      BY <1>0, <2>1, <3>1 DEF FreshAddress
    <3> QED
      BY <3>2 DEF AmountAt, Ledger!Received
  <2> QED
    BY <2>1, <2>2, <2>3
<1>5. /\ DOMAIN Entries' = DOMAIN Entries \cup {a} /\ a \in DOMAIN Entries'
      /\ \A b \in DOMAIN Entries \ {a} : Entries'[b] = Entries[b]
      /\ Entries'[a] = terms[c]
  <2>1. Filled' = Filled \cup {a} /\ invoices'[a] = terms[c] /\ \A b \in Filled \ {a} : invoices'[b] = invoices[b]
    BY <1>1, <1>2 DEF With, Filled
  <2> QED
    BY <2>1 DEF Entries
<1>6. Cases' = Cases /\ Verdicts' = Verdicts
  <2>1. ASSUME NEW d \in Calls
        PROVE  Quiet(d)
    <3>1. CASE d = c
      BY <1>0, <3>1, FarIsQuiet DEF Creates
    <3>2. CASE d # c
      BY <1>0, <3>2, RestsIsQuiet DEF Fill, Answer, GoTo, Rests, TypeOK, world
    <3> QED
      BY <3>1, <3>2
  <2> QED
    BY <2>1, QuietStep
<1>7. Calm' = Calm /\ Forgotten' = Forgotten
  BY <1>1 DEF Calm, Forgotten
<1> HIDE DEF a
<1>8. DOMAIN Entries = Filled
  BY DEF Entries
<1> QED
  BY <1>1, <1>2, <1>3, <1>4, <1>5, <1>6, <1>7, <1>8 DEF Ledger!Issue

\* A call other than one that makes a step rests.
LEMMA OthersRest ==
  ASSUME TypeOK, NEW c \in Calls, NEW d \in Calls, d # c, Checks(c)
  PROVE  Rests(d)
BY DEF TypeOK, Rests, Checks, CheckInvoice, GetInvoice, Made, LookupCheck, LookupGet, Finds,
   CheckDeadline, DeadlineTest, GetReceivedAmount, AnswerCheck, Answer, GoTo, Fail, locals

\* What the ledger holds besides cases and verdicts is not touched by a check.
LEMMA ChecksKeep ==
  ASSUME NEW c \in Calls, Checks(c)
  PROVE  UNCHANGED <<Entries, received, now, Calm, Forgotten>>
<1>1. UNCHANGED <<invoices, received, now, raced, restarts>>
  BY DEF Checks, CheckInvoice, GetInvoice, LookupCheck, LookupGet,
     CheckDeadline, DeadlineTest, GetReceivedAmount, AnswerCheck, process, world
<1> QED
  BY <1>1 DEF Entries, Filled, Calm, Forgotten

\* The deadline test is a pass, an expiry, or not seen.
LEMMA DeadlineIsSeen ==
  ASSUME ServerInv, [Next]_vars, NEW c \in Calls, CheckDeadline(c)
  PROVE  [Ledger!Next]_(Ledger!vars)
<1> DEFINE a == request[c].id
<1>0. /\ TypeOK /\ Fits /\ pc \in [Calls -> PC] /\ reply \in [Calls -> Reply] /\ Checks(c)
      /\ pc[c] = "deadline" /\ CallFits(c) /\ LookedUp(c) /\ terms[c] \in Invoice
  BY DEF ServerInv, AddressInv, TypeOK, Fits, Checks, CheckDeadline, DeadlineTest, AllLookedUp
<1>1. /\ a \in Filled /\ DOMAIN Entries = Filled /\ Entries[a] = invoices[a]
      /\ now \in Nat /\ invoices[a].Expiry \in Nat
      /\ UNCHANGED <<request, terms, search>>
  BY <1>0 DEF CheckDeadline, DeadlineTest, SecondLookup, Filled, Entries, TypeOK, Invoice, locals
<1>2. UNCHANGED <<Entries, received, now, Calm, Forgotten>>
  BY <1>0, ChecksKeep
<1>3. \A d \in Calls \ {c} : CaseOf(d)' = CaseOf(d) /\ VerdictOf(d)' = VerdictOf(d)
  BY <1>0, OthersRest, RestsIsQuiet DEF Quiet
<1>4. Cases[c] = Ledger!NoCase /\ CaseOf(c) = Ledger!NoCase /\ VerdictOf(c) = Ledger!NoVerdict
  BY <1>0 DEF Cases, CaseOf, Ledger!NoCase, Ledger!Unread, VerdictOf, CallFits, NoReply, Ledger!NoVerdict
<1>5. CASE now > invoices[a].Expiry
  <2>1. /\ reply'[c] = [kind |-> "status", status |-> "expired", remaining |-> 0]
        /\ pc'[c] = "done"
    BY <1>0, <1>5 DEF CheckDeadline, DeadlineTest, Answer, GoTo
  <2>2. CaseOf(c)' = Ledger!NoCase /\ VerdictOf(c)' = [status |-> "expired", remaining |-> 0]
    BY <2>1 DEF CaseOf, VerdictOf, Ledger!NoCase, Ledger!Unread
  <2>3. Cases' = Cases
    BY <1>3, <1>4, <2>2, CasesAreFunctions
  <2>4. Verdicts' = [Verdicts EXCEPT ![c] = [status |-> "expired", remaining |-> 0]]
    BY <1>3, <2>2, CasesAreFunctions
  <2>5. Ledger!Expire(c, a)
    BY <1>1, <1>2, <1>4, <1>5, <2>3, <2>4 DEF Ledger!Expire
  <2> QED
    BY <1>1, <2>5 DEF Ledger!Next
<1>6. CASE ~(now > invoices[a].Expiry)
  <2>1. pc'[c] = "balance" /\ reply'[c] = reply[c]
    BY <1>0, <1>6 DEF CheckDeadline, DeadlineTest, GoTo
  <2>2. Verdicts' = Verdicts
    <3>1. VerdictOf(c)' = VerdictOf(c)
      BY <2>1 DEF VerdictOf
    <3> QED
      BY <1>3, <3>1, CasesAreFunctions
  <2>3. CASE terms[c] = NoInvoice
    <3>1. CaseOf(c)' = Ledger!NoCase
      BY <1>1, <2>3 DEF CaseOf, Ledger!NoCase, Ledger!Unread
    <3>2. Cases' = Cases
      BY <1>3, <1>4, <3>1, CasesAreFunctions
    <3> QED
      BY <1>2, <2>2, <3>2 DEF Ledger!vars
  <2>4. CASE terms[c] # NoInvoice
    <3> DEFINE case == [id |-> a, due |-> terms[c].DigitalValue, paid |-> -1]
    <3>1. CaseOf(c)' = case
      BY <1>1, <2>1, <2>4 DEF CaseOf
    <3>2. Calm => terms[c] = invoices[a]
      BY <1>0, <2>4 DEF Calm, LookedUp, Past, Checking, CallFits, InFlight
    <3> HIDE DEF case
    <3>3. Cases' = [Cases EXCEPT ![c] = case] /\ Cases'[c] = case
      BY <1>3, <3>1, CasesAreFunctions
    <3>4. Cases' = [Cases EXCEPT ![c] = Cases'[c]]
      BY <3>3
    <3>5. case = [id |-> a, due |-> case.due, paid |-> Ledger!Unread] /\ case.due = terms[c].DigitalValue
      BY DEF case, Ledger!Unread
    <3>6. now <= Entries[a].Expiry /\ (Calm => case.due = Entries[a].DigitalValue)
      BY <1>1, <1>6, <3>2, <3>5
    <3>7. Ledger!Pass(c, a)
      BY <1>2, <1>4, <2>2, <3>3, <3>4, <3>5, <3>6 DEF Ledger!Pass
    <3> QED
      BY <1>1, <3>7 DEF Ledger!Next
  <2> QED
    BY <2>3, <2>4
<1> QED
  BY <1>5, <1>6

\* The search is read, or gives the case up.
LEMMA SearchIsSeen ==
  ASSUME ServerInv, [Next]_vars, NEW c \in Calls, GetReceivedAmount(c)
  PROVE  [Ledger!Next]_(Ledger!vars)
<1>0. /\ TypeOK /\ Fits /\ pc \in [Calls -> PC] /\ reply \in [Calls -> Reply] /\ search \in [Calls -> Search]
      /\ Checks(c) /\ pc[c] = "balance" /\ CallFits(c) /\ LookedUp(c) /\ terms[c] \in Invoice
      /\ UNCHANGED <<request, terms>>
  BY DEF ServerInv, AddressInv, TypeOK, Fits, Checks, GetReceivedAmount, AllLookedUp
<1>2. UNCHANGED <<Entries, received, now, Calm, Forgotten>>
  BY <1>0, ChecksKeep
<1>3. \A d \in Calls \ {c} : CaseOf(d)' = CaseOf(d) /\ VerdictOf(d)' = VerdictOf(d)
  BY <1>0, OthersRest, RestsIsQuiet DEF Quiet
<1>4. Verdicts' = Verdicts
  <2>1. reply[c].kind # "status" /\ reply'[c].kind # "status"
    BY <1>0 DEF GetReceivedAmount, Answer, GoTo, Fail, CallFits, NoReply
  <2>2. VerdictOf(c)' = VerdictOf(c)
    BY <2>1 DEF VerdictOf
  <2> QED
    BY <1>3, <2>2, CasesAreFunctions
<1>5. CASE pc'[c] # "verdict"
  <2>1. CaseOf(c)' = Ledger!NoCase
    BY <1>0, <1>5 DEF GetReceivedAmount, Fail, Answer, GoTo, CaseOf, Ledger!NoCase, Ledger!Unread
  <2>2. \A d \in Calls : Cases'[d] \in {Cases[d], Ledger!NoCase}
    BY <1>3, <2>1, CasesAreFunctions
  <2>3. Cases' \in [Calls -> {Ledger!NoCase} \cup {Cases[d] : d \in Calls}]
    BY <2>2, CasesAreFunctions
  <2>4. Ledger!GiveUp
    BY <1>2, <1>4, <2>2, <2>3 DEF Ledger!GiveUp
  <2> QED
    BY <2>4 DEF Ledger!Next
<1>6. CASE pc'[c] = "verdict"
  <2>1. CASE terms[c] = NoInvoice
    <3>1. CaseOf(c)' = CaseOf(c)
      BY <1>0, <2>1 DEF CaseOf
    <3>2. Cases' = Cases
      BY <1>3, <3>1, CasesAreFunctions
    <3> QED
      BY <1>2, <1>4, <3>2 DEF Ledger!vars
  <2>2. CASE terms[c] # NoInvoice
    <3> DEFINE a == request[c].id
               p == search'[c].paid
    <3>1. p \in {AmountAt(a), 0}
      BY <1>0, <1>6, VerdictStep
    <3>2. a \in Nat
      BY <1>0, <2>2 DEF LookedUp, Past, Checking, SecondLookup, TypeOK
    <3>3. CaseOf(c) = [id |-> a, due |-> terms[c].DigitalValue, paid |-> -1]
      BY <1>0, <2>2 DEF CaseOf
    <3>4. CaseOf(c)' = [id |-> a, due |-> terms[c].DigitalValue, paid |-> p]
      BY <1>0, <1>6, <2>2 DEF CaseOf
    <3> HIDE DEF a, p
    <3>5. CaseOf(c) # Ledger!NoCase /\ CaseOf(c).paid = Ledger!Unread /\ CaseOf(c).id = a
      BY <3>2, <3>3 DEF Ledger!NoCase, Ledger!Unread
    <3>6. CaseOf(c)' = [CaseOf(c) EXCEPT !.paid = p]
      BY <3>3, <3>4
    <3>7. Cases' = [Cases EXCEPT ![c].paid = p]
      BY <1>3, <3>6, CasesAreFunctions
    <3>8. Ledger!Received(Cases[c].id) = AmountAt(a) /\ Cases[c] = CaseOf(c)
      BY <3>5, CasesAreFunctions DEF AmountAt, Ledger!Received
    <3>9. Ledger!Read(c)
      BY <1>2, <1>4, <3>1, <3>5, <3>7, <3>8 DEF Ledger!Read
    <3> QED
      BY <3>9 DEF Ledger!Next
  <2> QED
    BY <2>1, <2>2
<1> QED
  BY <1>5, <1>6

\* The comparison of the amounts is the judgement.
LEMMA AnswerIsSeen ==
  ASSUME ServerInv, NEW c \in Calls, AnswerCheck(c)
  PROVE  Ledger!Next
<1>0. /\ TypeOK /\ pc \in [Calls -> PC] /\ reply \in [Calls -> Reply] /\ search[c].paid \in Nat
      /\ Checks(c) /\ pc[c] = "verdict" /\ terms[c] # NoInvoice
  BY DEF ServerInv, AddressInv, TypeOK, Search, Checks, AnswerCheck
<1>1. UNCHANGED <<Entries, received, now, Calm, Forgotten>>
  BY <1>0, ChecksKeep
<1>2. \A d \in Calls \ {c} : CaseOf(d)' = CaseOf(d) /\ VerdictOf(d)' = VerdictOf(d)
  BY <1>0, OthersRest, RestsIsQuiet DEF Quiet
<1>3. CaseOf(c) = [id |-> request[c].id, due |-> terms[c].DigitalValue, paid |-> search[c].paid]
  BY <1>0 DEF CaseOf
<1>4. /\ pc'[c] = "done"
      /\ reply'[c] = [kind |-> "status",
                      status |-> Status(terms[c].DigitalValue, search[c].paid),
                      remaining |-> Remaining(terms[c].DigitalValue, search[c].paid)]
  BY <1>0 DEF AnswerCheck, Answer, GoTo
<1>5. CaseOf(c)' = Ledger!NoCase
  BY <1>4 DEF CaseOf, Ledger!NoCase, Ledger!Unread
<1>6. VerdictOf(c)' = [status |-> Ledger!Status(CaseOf(c).due, CaseOf(c).paid),
                       remaining |-> Ledger!Remaining(CaseOf(c).due, CaseOf(c).paid)]
  BY <1>3, <1>4, SameMath DEF VerdictOf
<1>7. Cases' = [Cases EXCEPT ![c] = Ledger!NoCase] /\ Cases[c] = CaseOf(c)
  BY <1>2, <1>5, CasesAreFunctions
<1>8. Verdicts' = [Verdicts EXCEPT ![c] = [status |-> Ledger!Status(CaseOf(c).due, CaseOf(c).paid),
                                           remaining |-> Ledger!Remaining(CaseOf(c).due, CaseOf(c).paid)]]
  BY <1>2, <1>6, CasesAreFunctions
<1>9. Cases[c].paid # Ledger!Unread
  BY <1>0, <1>3, <1>7 DEF Ledger!Unread
<1>10. Ledger!Judge(c)
  BY <1>1, <1>7, <1>8, <1>9 DEF Ledger!Judge
<1> QED
  BY <1>10 DEF Ledger!Next

\* When creates collide, the ledger is no longer calm; nothing else is seen.
LEMMA RaceIsSeen ==
  ASSUME TypeOK, [Next]_vars, ~Restart,
         UNCHANGED <<Entries, Cases, Verdicts, received, now>>
  PROVE  [Ledger!Next]_(Ledger!vars)
<1>1. raced \subseteq raced' /\ restarts' = restarts
  BY WorldChanges
<1>2. Forgotten' = Forgotten
  BY <1>1 DEF Forgotten
<1>3. CASE Calm' = Calm
  BY <1>2, <1>3 DEF Ledger!vars
<1>4. CASE Calm' # Calm
  <2>1. Calm' = FALSE
    BY <1>1, <1>4 DEF Calm
  <2>2. Ledger!Collide
    BY <1>2, <2>1 DEF Ledger!Collide
  <2> QED
    BY <2>2 DEF Ledger!Next
<1> QED
  BY <1>3, <1>4

\* The end of the process gives all cases up.
LEMMA EndIsSeen ==
  ASSUME ServerInv, Die
  PROVE  Ledger!Next
<1>0. TypeOK /\ Fits /\ pc \in [Calls -> PC] /\ reply \in [Calls -> Reply]
  BY DEF ServerInv, AddressInv, TypeOK
<1>1. UNCHANGED <<Entries, received, now, Calm, Forgotten>>
  BY DEF Die, world, Entries, Filled, Calm, Forgotten
<1>2. ASSUME NEW c \in Calls
      PROVE  CaseOf(c)' \in {CaseOf(c), Ledger!NoCase} /\ VerdictOf(c)' = VerdictOf(c)
  <2>1. CASE ~InFlight(c)
    BY <1>0, <2>1 DEF Die, CaseOf, VerdictOf, locals
  <2>2. CASE InFlight(c)
    <3>1. pc'[c] = "done" /\ reply'[c] = Unavailable /\ reply[c] = NoReply
      BY <1>0, <2>2 DEF Die, Fits, CallFits, InFlight
    <3> QED
      BY <3>1 DEF CaseOf, VerdictOf, Unavailable, NoReply, Ledger!NoCase, Ledger!Unread
  <2> QED
    BY <2>1, <2>2
<1>3. Verdicts' = Verdicts
  BY <1>2, CasesAreFunctions
<1>4. \A c \in Calls : Cases'[c] \in {Cases[c], Ledger!NoCase}
  BY <1>2, CasesAreFunctions
<1>5. Cases' \in [Calls -> {Ledger!NoCase} \cup {Cases[d] : d \in Calls}]
  BY <1>4, CasesAreFunctions
<1>6. Ledger!GiveUp
  BY <1>1, <1>3, <1>4, <1>5 DEF Ledger!GiveUp
<1> QED
  BY <1>6 DEF Ledger!Next

\* A process that starts again has forgotten its ledger.
LEMMA RestartIsSeen ==
  ASSUME ServerInv, Restart
  PROVE  Ledger!Next
<1>0. TypeOK /\ Fits /\ restarts \in Nat
  BY DEF ServerInv, AddressInv, TypeOK
<1>1. /\ UNCHANGED <<pc, request, terms, search, reply, received, now>>
      /\ invoices' = EmptyMap /\ raced' = {} /\ restarts' = restarts + 1 /\ ~up
  BY DEF Restart, call, locals
<1>2. ASSUME NEW c \in Calls
      PROVE  CaseOf(c)' = Ledger!NoCase /\ VerdictOf(c)' = VerdictOf(c)
  BY <1>0, <1>1, <1>2 DEF Fits, CallFits, InFlight, CaseOf, VerdictOf, Ledger!NoCase, Ledger!Unread
<1>3. Cases' = [c \in Calls |-> Ledger!NoCase] /\ Verdicts' = Verdicts
  BY <1>2, CasesAreFunctions
<1>4. Entries' = Ledger!EmptyLedger
  <2>1. Filled' = {}
    BY <1>1 DEF Filled, EmptyMap
  <2> QED
    BY <2>1 DEF Entries, Ledger!EmptyLedger
<1>5. Calm' = TRUE /\ Forgotten' = TRUE
  BY <1>0, <1>1 DEF Calm, Forgotten
<1>6. Ledger!Forget
  BY <1>1, <1>3, <1>4, <1>5 DEF Ledger!Forget
<1> QED
  BY <1>6 DEF Ledger!Next

\* Time and payments.
LEMMA WorldIsSeen ==
  ASSUME ServerInv, Tick \/ UNCHANGED vars \/ \E c \in Calls, v \in Payments : Pay(c, v)
  PROVE  [Ledger!Next]_(Ledger!vars)
<1>1. UNCHANGED <<process, call, restarts, raced>>
  BY DEF Tick, vars, Pay, world
<1>2. UNCHANGED <<Entries, Cases, Verdicts, Calm, Forgotten>>
  <2>1. UNCHANGED <<invoices, pc, request, terms, search, reply>>
    BY <1>1 DEF process, call, locals
  <2>2. \A c \in Calls : Quiet(c)
    BY <2>1 DEF Quiet, CaseOf, VerdictOf
  <2> QED
    BY <1>1, <2>1, <2>2, QuietStep DEF Entries, Filled, Calm, Forgotten
<1>3. CASE Tick
  <2>1. Ledger!Tick
    BY <1>2, <1>3 DEF Tick, Ledger!Tick
  <2> QED
    BY <2>1 DEF Ledger!Next
<1>4. CASE UNCHANGED vars
  BY <1>2, <1>4 DEF vars, world, Ledger!vars
<1>5. ASSUME NEW c \in Calls, NEW v \in Payments, Pay(c, v)
      PROVE  Ledger!Next
  <2> DEFINE a == reply[c].invoice.InvoiceID
  <2>1. received' = With(received, a, AmountAt(a) + v) /\ now' = now
    BY <1>5 DEF Pay
  <2> HIDE DEF a
  <2>2. a \in DOMAIN received' /\ received' = [x \in DOMAIN received \cup {a} |->
                                   IF x = a THEN Ledger!Received(a) + v ELSE received[x]]
    BY <2>1 DEF With, AmountAt, Ledger!Received
  <2>3. Ledger!Pay(v)
    BY <1>2, <2>1, <2>2 DEF Ledger!Pay
  <2> QED
    BY <2>3 DEF Ledger!Next
<1> QED
  BY <1>3, <1>4, <1>5

\* A step of the handlers, of the process or of the world is one of the ledger, or not seen.
LEMMA ImplementsStep ==
  ASSUME ServerInv, restarts = 0 => FreshAddress, [Next]_vars
  PROVE  [Ledger!Next]_(Ledger!vars)
<1>0. TypeOK /\ Fits /\ AllWellMade /\ SlotsFit
  BY DEF ServerInv, AddressInv, MapInv
<1>1. CASE Restart
  BY <1>1, RestartIsSeen
<1>2. CASE Die
  BY <1>2, EndIsSeen
<1>3. CASE Tick \/ UNCHANGED vars \/ \E c \in Calls, v \in Payments : Pay(c, v)
  BY <1>3, WorldIsSeen
<1>4. ASSUME NEW c \in Calls, CheckDeadline(c) \/ GetReceivedAmount(c) \/ AnswerCheck(c)
      PROVE  [Ledger!Next]_(Ledger!vars)
  BY <1>4, DeadlineIsSeen, SearchIsSeen, AnswerIsSeen
<1>5. ASSUME NEW c \in Calls, Fill(c), slot[c] # 0
      PROVE  [Ledger!Next]_(Ledger!vars)
  BY <1>5, FillIssues DEF Ledger!Next
<1>6. ASSUME ~Restart, ~Die, Entries' = Entries,
             NEW c \in Calls,
             \/ Creates(c) \/ MoveEntry(c)
             \/ CheckInvoice(c) \/ GetInvoice(c) \/ LookupCheck(c) \/ LookupGet(c)
      PROVE  [Ledger!Next]_(Ledger!vars)
  <2>1. received' = received /\ now' = now
    BY <1>6 DEF Creates, Places, CreateInvoice, GetPrice, DeriveChild, LoadIndex, StoreIndex, BeginInsert,
       PlaceKey, PlaceOverlap, Fill, MoveEntry, CheckInvoice, GetInvoice, LookupCheck, LookupGet, world
  <2>2. ASSUME NEW d \in Calls
        PROVE  Quiet(d)
    <3>1. CASE Rests(d)
      BY <3>1, RestsIsQuiet
    <3>2. CASE Creates(d) \/ CheckInvoice(d) \/ GetInvoice(d) \/ LookupCheck(d) \/ LookupGet(d)
      BY <1>0, <3>2, FarIsQuiet
    <3>3. ASSUME CheckDeadline(d) \/ GetReceivedAmount(d) \/ AnswerCheck(d), ~Rests(d)
          PROVE  FALSE
      <4>1. pc[d] \in Checking /\ UNCHANGED <<invoices, slot, loaded, born>> /\ Checks(d)
        BY <3>3 DEF CheckDeadline, DeadlineTest, GetReceivedAmount, AnswerCheck, process, locals, Checking, Checks
      <4>2. ~Creates(d) /\ ~MoveEntry(c)
        BY <1>0, <4>1 DEF TypeOK, Checking, Creates, Places, CreateInvoice, Made, GetPrice, DeriveChild, LoadIndex,
           StoreIndex, BeginInsert, PlaceKey, PlaceOverlap, Fill, MoveEntry
      <4>3. c # d
        BY <1>6, <4>1, <4>2 DEF CheckInvoice, GetInvoice, Made, LookupCheck, LookupGet, Checking
      <4>4. CASE Checks(c)
        BY <1>0, <3>3, <4>3, <4>4, OthersRest
      <4>5. CASE Creates(c)
        <5>1. pc'[d] # pc[d]
          BY <1>0, <3>3 DEF TypeOK, CheckDeadline, DeadlineTest, GetReceivedAmount, AnswerCheck, Answer, GoTo, Fail
        <5>2. pc'[d] = pc[d]
          BY <1>0, <4>1, <4>3, <4>5 DEF TypeOK, Checking, Creates, Places, CreateInvoice, Made, GetPrice, DeriveChild,
             LoadIndex, StoreIndex, BeginInsert, PlaceKey, PlaceOverlap, Fill, Answer, GoTo, Fail
        <5> QED
          BY <5>1, <5>2
      <4> QED
        BY <1>6, <4>2, <4>4, <4>5 DEF Checks
    <3> QED
      BY <1>0, <1>6, <3>1, <3>2, <3>3, CallChanges DEF Checks
  <2>3. Cases' = Cases /\ Verdicts' = Verdicts
    BY <2>2, QuietStep
  <2> QED
    BY <1>0, <1>6, <2>1, <2>3, RaceIsSeen
<1> QED
  <2>1. CASE \E c \in Calls : Fill(c) /\ slot[c] # 0
    BY <1>5, <2>1
  <2>2. CASE Entries' = Entries
    BY <1>1, <1>2, <1>3, <1>4, <1>6, <2>2, Steps DEF Checks
  <2> QED
    BY <1>0, <1>1, <2>1, <2>2, EntriesChange

(***************************************************************************)
(* The handlers of api.go implement the ledger, whatever the races, the    *)
(* failures of the node, the aborts and the restarts: until creates have   *)
(* collided, what clients see is explained by invoices that enter the      *)
(* ledger at once, under keys of their own, and by verdicts on them; after *)
(* that, by invoices that may take the place of others.                    *)
(***************************************************************************)
THEOREM HandlersImplementLedger == Spec => ImplementsLedger
<1>1. Init => Ledger!Init
  <2> SUFFICES ASSUME Init
               PROVE  Ledger!Init
    OBVIOUS
  <2>1. \A c \in Calls : CaseOf(c) = Ledger!NoCase /\ VerdictOf(c) = Ledger!NoVerdict
    BY DEF Init, CaseOf, VerdictOf, Ledger!NoCase, Ledger!Unread, Ledger!NoVerdict, NoReply
  <2>2. Cases = [c \in Calls |-> Ledger!NoCase] /\ Verdicts = [c \in Calls |-> Ledger!NoVerdict]
    BY <2>1, CasesAreFunctions
  <2>3. Entries = Ledger!EmptyLedger
    BY DEF Init, Entries, Filled, EmptyMap, Ledger!EmptyLedger
  <2>4. Calm = TRUE /\ Forgotten = FALSE
    BY DEF Init, Calm, Forgotten
  <2> QED
    BY <2>2, <2>3, <2>4 DEF Init, Ledger!Init, EmptyMap, Ledger!EmptyLedger
<1>2. ServerInv /\ (restarts = 0 => FreshAddress) /\ [Next]_vars => [Ledger!Next]_(Ledger!vars)
  BY ImplementsStep
<1>3. Spec => []ServerInv
  BY AddressesAlwaysHeld, MapAlwaysFits, LookupsAlwaysFit, VerdictsAlwaysJudged, ExpiriesAlwaysFit,
     PaidAlwaysIssued, PTL DEF ServerInv
<1> QED
  BY <1>1, <1>2, <1>3, AddressesAreFresh, PTL DEF Spec, ImplementsLedger, Ledger!Spec
=============================================================================
