---------------------------- MODULE InvoiceSystem ----------------------------
(***************************************************************************)
(* Browsers, the calls between them and the server, and the server.  A     *)
(* browser shows the form, or the page of an invoice, which it reached by  *)
(* creating the invoice or by a link; its calls carry messages, may be     *)
(* lost with their request or with their answer, and outlive the page that *)
(* made them.  CreateInvoice reads and increments the index in steps of    *)
(* its own, and CheckInvoice waits for the node, so that calls overlap in  *)
(* the server.  What happens inside the map is left to InvoiceServer.      *)
(***************************************************************************)
EXTENDS InvoiceMath, InvoiceMessages, Sequences

CONSTANTS
  Browsers,
  Lines,            \* bound of the model: <<b, k>>, the calls of b on their way at once
  Amount,           \* Amount[b]: what the user of browser b types into the form, in cents
  Quotes,           \* satoshi amounts the price service may quote
  Addresses,        \* the addresses of the extended key, by index
  InvoiceLifetime,  \* fifteen minutes
  Payments,         \* the value of one payment
  Undefined,        \* JavaScript's undefined
  MaxTime,          \* bound of the model on the clock
  MaxReceived,      \* bound of the model on what one address receives
  MaxLoads,         \* bound of the model on the pages that are loaded
  MaxRestarts       \* bound of the model on the restarts of the server

Ids == {Addresses[i] : i \in DOMAIN Addresses}

ASSUME SystemAssumption ==
  /\ Lines \subseteq Browsers \X Nat
  /\ Amount \in [Browsers -> Nat]
  /\ Quotes \subseteq Nat \ {0}
  /\ Addresses \in Seq(STRING)
  /\ Ids \cap {"/", ""} = {}
  /\ \A i, j \in DOMAIN Addresses : i # j => Addresses[i] # Addresses[j]
  /\ InvoiceLifetime \in Nat
  /\ Payments \subseteq Nat \ {0}
  /\ Undefined \notin Nat
  /\ Garbled \notin Nat
  /\ {MaxTime, MaxReceived, MaxLoads, MaxRestarts} \subseteq Nat

VARIABLES
  derivationIndex,  \* Server.DerivationIndex
  invoices,         \* Server.Invoices: a function on the ids that are in the map
  page,             \* page[b]: the location of browser b and what the components there hold
  wanted,           \* wanted[b]: the amount of the create that led b to its page, or 0
  call,             \* call[l]: the call on line l
  now,              \* the clock
  received,         \* what each address has received
  loads,            \* how many pages have been loaded
  restarts,         \* how often the server was started again
  creates           \* history: have creates "collided", on the index or the map, or stayed "apart"?

server == <<derivationIndex, invoices, restarts, creates>>
client == <<page, wanted, loads>>
world  == <<now, received>>
vars   == <<server, client, call, world>>

Terms == [fiatvalue : Nat, digitalvalue : Nat, expiry : Nat, invoiceId : Ids]

NoTerms == [fiatvalue |-> 0, digitalvalue |-> 0, expiry |-> 0, invoiceId |-> ""]

(***************************************************************************)
(* What a browser holds: the location; "refused", whether the application  *)
(* has an error; and the state of ShowInvoice.                             *)
(***************************************************************************)
Page == [path : Ids \cup {"/"}, refused : BOOLEAN, stage : {"none", "mounting", "open", "failed"},
         terms : Terms \cup {NoTerms}, status : Statuses, remaining : Nat \cup {Undefined},
         error : BOOLEAN]

\* What the components hold when the location is loaded, or redirected to.
Fresh(path) ==
  [path |-> path, refused |-> FALSE, stage |-> IF path = "/" THEN "none" ELSE "mounting",
   terms |-> NoTerms, status |-> "unpaid", remaining |-> Undefined, error |-> FALSE]

(***************************************************************************)
(* A call: on its way to the server ("request"), in the steps of the       *)
(* handler of creates ("derive", "load", "store", "insert") or waiting for *)
(* the node ("balance"), and on its way back ("response", or "failed" if   *)
(* the server has ended).  "asked" and "said" are what client and server   *)
(* put into their messages; "live" is whether somebody awaits the answer.  *)
(***************************************************************************)
Free == [at |-> "free"]

Sent(m, contents) ==
  [at |-> "request", method |-> m, bytes |-> Request(m, contents), asked |-> contents, live |-> TRUE]

Served(c, at, terms, loaded) ==
  [at |-> at, method |-> c.method, asked |-> c.asked, live |-> c.live, terms |-> terms, loaded |-> loaded]

Lost(c) == [at |-> "failed", method |-> c.method, live |-> TRUE]

Creating == {"derive", "load", "store", "insert"}

Stations == {"free", "request", "balance", "response", "failed"} \cup Creating

TypeOK ==
  /\ derivationIndex \in Nat
  /\ DOMAIN invoices \subseteq Ids
  /\ invoices \in [DOMAIN invoices -> Terms]
  /\ page \in [Browsers -> Page]
  /\ wanted \in [Browsers -> Nat]
  /\ DOMAIN call = Lines
  /\ \A l \in Lines : call[l].at \in Stations
  /\ now \in Nat /\ loads \in Nat /\ restarts \in Nat /\ creates \in {"apart", "collided"}
  /\ received \in [Ids -> Nat]

Init ==
  /\ derivationIndex = 0
  /\ invoices = [id \in {} |-> NoTerms]
  /\ page = [b \in Browsers |-> Fresh("/")]
  /\ wanted = [b \in Browsers |-> 0]
  /\ call = [l \in Lines |-> Free]
  /\ now = 0
  /\ received = [id \in Ids |-> 0]
  /\ loads = 0 /\ restarts = 0 /\ creates = "apart"

-----------------------------------------------------------------------------
(***************************************************************************)
(* The page.                                                               *)
(***************************************************************************)
\* What render shows: the application's error, its routes, and the tests of ShowInvoice.
Screen(b) ==
  LET p == page[b] IN
  IF p.refused THEN "Error"
  ELSE IF p.path = "/" THEN "Form"
  ELSE CASE p.status = "over_paid" -> "OverPaid"
         [] p.status = "paid" -> "Paid"
         [] p.status \notin {"over_paid", "paid"} /\ p.error -> "Error"
         [] p.status \notin {"over_paid", "paid"} /\ ~p.error /\ p.stage # "open" ->
              "Invoice not found!"
         [] p.status = "expired" /\ ~p.error /\ p.stage = "open" -> "Expired!"
         [] p.status \in {"unpaid", "partially_paid"} /\ ~p.error /\ p.stage = "open" -> "Receipt"

IdRequest(id) == [invoiceId |-> id]

\* The user submits the form.
Submit(l) ==
  /\ Screen(l[1]) = "Form"
  /\ Amount[l[1]] > 0
  /\ call[l] = Free
  /\ call' = [call EXCEPT ![l] = Sent(createInvoice, [value |-> Amount[l[1]]])]
  /\ UNCHANGED <<server, client, world>>

(***************************************************************************)
(* A location is loaded: by the link of the title, by loading the page     *)
(* anew, or by opening a link that was shared.  The callbacks of the old   *)
(* page are gone; a create that is on its way is not.                      *)
(***************************************************************************)
Abandoned(b) ==
  [l \in Lines |->
     IF l[1] # b THEN call[l]
     ELSE IF call[l].at \in {"request"} \cup Creating /\ call[l].method = createInvoice
          THEN [call[l] EXCEPT !.live = FALSE]
          ELSE Free]

Load(b, path) ==
  /\ loads < MaxLoads
  /\ loads' = loads + 1
  /\ page' = [page EXCEPT ![b] = Fresh(path)]
  /\ wanted' = [wanted EXCEPT ![b] = 0]
  /\ \/ path = "/" /\ call' = Abandoned(b)
     \/ /\ path # "/"
        /\ \E l \in Lines : /\ l[1] = b /\ Abandoned(b)[l] = Free
                            /\ call' = [Abandoned(b) EXCEPT ![l] = Sent(getInvoice, IdRequest(path))]
  /\ UNCHANGED <<server, world>>

\* Variant: the interval is not set again after the first check.
IntervalOnce(l) ==
  /\ page[l[1]].stage = "open"
  /\ page[l[1]].remaining = Undefined
  /\ call[l].at \in {"free", "balance"}
  /\ call' = [call EXCEPT ![l] = Sent(checkInvoice, IdRequest(page[l[1]].terms.invoiceId))]
  /\ UNCHANGED <<server, client, world>>

\* The timer of an open page; a check that waits for the node may give up its line.
IntervalFires(l) ==
  /\ page[l[1]].stage = "open"
  /\ call[l].at \in {"free", "balance"}
  /\ call' = [call EXCEPT ![l] = Sent(checkInvoice, IdRequest(page[l[1]].terms.invoiceId))]
  /\ UNCHANGED <<server, client, world>>

-----------------------------------------------------------------------------
(***************************************************************************)
(* The callbacks, with an answer ...                                       *)
(***************************************************************************)
Answered(l, method) == call[l].at = "response" /\ call[l].method = method

\* The message that a callback is given.
Incoming(l) == deserializeBinary(call[l].method.response, call[l].bytes)

\* createInvoice: the form is left for the page of the invoice, which asks for it.
DeliverCreate(l) ==
  /\ Answered(l, createInvoice)
  /\ \/ /\ Screen(l[1]) = "Form"
        /\ \E response \in {Incoming(l)} : \E invoice \in {Contents("InvoiceResponse", response)} :
             /\ page' = [page EXCEPT ![l[1]] = Fresh(invoice.invoiceId)]
             /\ call' = [call EXCEPT ![l] = Sent(getInvoice, IdRequest(invoice.invoiceId))]
        /\ wanted' = [wanted EXCEPT ![l[1]] = call[l].asked.value]
     \/ /\ Screen(l[1]) # "Form"
        /\ call' = [call EXCEPT ![l] = Free]
        /\ UNCHANGED <<page, wanted>>
  /\ UNCHANGED <<server, loads, world>>

\* getInvoice: the page is filled, and asks for the status.
DeliverGet(l) ==
  /\ Answered(l, getInvoice)
  /\ \E response \in {Incoming(l)} : \E invoice \in {Contents("InvoiceResponse", response)} :
       /\ page' = [page EXCEPT ![l[1]].stage = "open", ![l[1]].terms = invoice]
       /\ call' = [call EXCEPT ![l] = Sent(checkInvoice, IdRequest(invoice.invoiceId))]
  /\ UNCHANGED <<server, wanted, loads, world>>

\* checkInvoice: the status and what remains.
DeliverCheck(l) ==
  /\ Answered(l, checkInvoice)
  /\ \E response \in {Incoming(l)} : \E verdict \in {Contents("InvoiceCheckResponse", response)} :
       page' = [page EXCEPT ![l[1]].status = verdict.status,
                            ![l[1]].remaining = verdict.digitalvalueremaining]
  /\ call' = [call EXCEPT ![l] = Free]
  /\ UNCHANGED <<server, wanted, loads, world>>

(***************************************************************************)
(* ... or with an error, which no later answer clears.                     *)
(***************************************************************************)
ShowError(l) ==
  page' = IF ~call[l].live THEN page
          ELSE CASE call[l].method = createInvoice -> [page EXCEPT ![l[1]].refused = TRUE]
                 [] call[l].method = getInvoice ->
                      [page EXCEPT ![l[1]].stage = "failed", ![l[1]].error = TRUE]
                 [] call[l].method = checkInvoice -> [page EXCEPT ![l[1]].error = TRUE]

Fails(l) ==
  /\ ShowError(l)
  /\ call' = [call EXCEPT ![l] = Free]
  /\ UNCHANGED <<server, wanted, loads, world>>

DeliverError(l) == call[l].at = "failed" /\ Fails(l)

-----------------------------------------------------------------------------
(***************************************************************************)
(* The server.  An answer to a page that is gone reaches nobody.           *)
(***************************************************************************)
Reply(l, contents) ==
  LET c == call[l] IN
  call' = [call EXCEPT ![l] =
             IF c.live THEN [at |-> "response", method |-> c.method, asked |-> c.asked, live |-> TRUE,
                             bytes |-> Response(c.method, contents), said |-> contents]
                       ELSE Free]

Arrived(l, handler) == call[l].at = "request" /\ call[l].method.path = handler

In(l) == ReadRequest(call[l].method, call[l].bytes)

(***************************************************************************)
(* CreateInvoice.  The price service answers, but need not ever; a body    *)
(* that is cut is a smaller price.  Then the expiry is set.  The bound on  *)
(* the clock leaves each invoice the time to expire.                       *)
(***************************************************************************)
ServePrice(l) ==
  /\ Arrived(l, "CreateInvoice")
  /\ In(l).value > 0
  /\ now + InvoiceLifetime < MaxTime
  /\ \E q \in Quotes : \E d \in DigitalValues(q) :
       call' = [call EXCEPT ![l] =
                  Served(@, "derive", [fiatvalue |-> In(l).value, digitalvalue |-> d,
                                       expiry |-> now + InvoiceLifetime, invoiceId |-> ""], 0)]
  /\ UNCHANGED <<server, client, world>>

\* Between the read of the index and its increment.
InWindow(l) == call[l].at \in {"load", "store"}

\* deriveAddress reads the index, perhaps in the window of another create, ...
ServeDerive(l) ==
  /\ call[l].at = "derive"
  /\ derivationIndex < Len(Addresses)
  /\ call' = [call EXCEPT ![l] = Served(@, "load", [call[l].terms EXCEPT !.invoiceId =
                                                     Addresses[derivationIndex + 1]], 0)]
  /\ creates' = IF \E k \in Lines : InWindow(k) THEN "collided" ELSE creates
  /\ UNCHANGED <<derivationIndex, invoices, restarts, client, world>>

\* ... or fails on it.
ServeDeriveFails(l) ==
  /\ call[l].at = "derive"
  /\ derivationIndex >= Len(Addresses)
  /\ Fails(l)

\* DerivationIndex++ loads the index, ...
ServeLoad(l) ==
  /\ call[l].at = "load"
  /\ call' = [call EXCEPT ![l] = Served(@, "store", @.terms, derivationIndex)]
  /\ UNCHANGED <<server, client, world>>

\* Variant: the index is not incremented.
ServeStoreSame(l) ==
  /\ call[l].at = "store"
  /\ derivationIndex' = call[l].loaded
  /\ call' = [call EXCEPT ![l] = Served(@, "insert", @.terms, 0)]
  /\ UNCHANGED <<invoices, restarts, creates, client, world>>

\* ... and stores it.
ServeStore(l) ==
  /\ call[l].at = "store"
  /\ derivationIndex' = call[l].loaded + 1
  /\ call' = [call EXCEPT ![l] = Served(@, "insert", @.terms, 0)]
  /\ UNCHANGED <<invoices, restarts, creates, client, world>>

\* The invoice enters the map, perhaps with that of another create, and is sent.
ServeInsert(l) ==
  /\ call[l].at = "insert"
  /\ \E invoice \in {call[l].terms} :
       /\ invoices' = [i \in DOMAIN invoices \cup {invoice.invoiceId} |->
                         IF i = invoice.invoiceId THEN invoice ELSE invoices[i]]
       /\ Reply(l, invoice)
  /\ creates' = IF \E k \in Lines \ {l} : call[k].at = "insert" THEN "collided" ELSE creates
  /\ UNCHANGED <<derivationIndex, restarts, client, world>>

Replies(l, contents) == Reply(l, contents) /\ UNCHANGED <<server, client, world>>

ServeGet(l) ==
  /\ Arrived(l, "GetInvoice")
  /\ \E id \in {In(l).invoiceId} : \/ id \in DOMAIN invoices /\ Replies(l, invoices[id])
                                   \/ id \notin DOMAIN invoices /\ Fails(l)

(***************************************************************************)
(* CheckInvoice up to the node: the invoice is looked up, and the clock    *)
(* compared with its expiry.                                               *)
(***************************************************************************)
ServeCheck(l) ==
  /\ Arrived(l, "CheckInvoice")
  /\ \E id \in {In(l).invoiceId} :
       \/ id \notin DOMAIN invoices /\ Fails(l)
       \/ /\ id \in DOMAIN invoices /\ now > invoices[id].expiry
          /\ Replies(l, [status |-> "expired", digitalvalueremaining |-> 0])
       \/ /\ id \in DOMAIN invoices /\ now <= invoices[id].expiry
          /\ call' = [call EXCEPT ![l] = Served(@, "balance", invoices[id], 0)]
          /\ UNCHANGED <<server, client, world>>

Verdict(due, paid) ==
  [status |-> Status(due, paid), digitalvalueremaining |-> Remaining(due, paid)]

\* Variant: the amount is that of the address that was derived last.
NodeAnswersLatest(l) ==
  /\ call[l].at = "balance"
  /\ derivationIndex > 0
  /\ \E paid \in {received[Addresses[derivationIndex]], 0} :
     \E verdict \in {Verdict(call[l].terms.digitalvalue, paid)} : Replies(l, verdict)

(***************************************************************************)
(* The node answers, with what the address has received, or with an error, *)
(* which counts as nothing.  The amount is compared with the invoice that  *)
(* was looked up.                                                          *)
(***************************************************************************)
NodeAnswers(l) ==
  /\ call[l].at = "balance"
  /\ \E paid \in {received[call[l].terms.invoiceId], 0} :
     \E verdict \in {Verdict(call[l].terms.digitalvalue, paid)} : Replies(l, verdict)

-----------------------------------------------------------------------------
(***************************************************************************)
(* Failures.  A call fails before the server has handled it or after: the  *)
(* connection breaks, envoy does not reach the server, the price service   *)
(* answers with an error, or an output at the node does not parse.  Nobody *)
(* makes the call again.                                                   *)
(***************************************************************************)
CallFails(l) == call[l].at \notin {"free", "failed"} /\ Fails(l)

\* The client is told of an error, and the create goes on: its handler ignores the context.
CreateGoesOn(l) ==
  /\ call[l].at \in {"request"} \cup Creating
  /\ call[l].method = createInvoice
  /\ call[l].live
  /\ ShowError(l)
  /\ call' = [call EXCEPT ![l].live = FALSE]
  /\ UNCHANGED <<server, wanted, loads, world>>

\* The server starts again, with an empty ledger and at index 0; not before it matters.
Restart ==
  /\ restarts < MaxRestarts
  /\ derivationIndex > 0
  /\ restarts' = restarts + 1
  /\ derivationIndex' = 0
  /\ invoices' = [id \in {} |-> NoTerms]
  /\ call' = [l \in Lines |-> IF call[l].at \notin {"balance"} \cup Creating THEN call[l]
                              ELSE IF call[l].live THEN Lost(call[l]) ELSE Free]
  /\ UNCHANGED <<creates, client, world>>

\* Somebody pays to an address that a page shows or has shown.
Pay(b, v) ==
  /\ page[b].stage = "open"
  /\ LET id == page[b].terms.invoiceId IN
     /\ received[id] + v <= MaxReceived
     /\ received' = [received EXCEPT ![id] = @ + v]
  /\ UNCHANGED <<server, client, call, now>>

Tick ==
  /\ now < MaxTime
  /\ now' = now + 1
  /\ UNCHANGED <<server, client, call, received>>

Next ==
  \/ \E l \in Lines : \/ Submit(l) \/ IntervalFires(l)
                      \/ ServePrice(l) \/ ServeDerive(l) \/ ServeDeriveFails(l)
                      \/ ServeLoad(l) \/ ServeStore(l) \/ ServeInsert(l)
                      \/ ServeGet(l) \/ ServeCheck(l) \/ NodeAnswers(l)
                      \/ DeliverCreate(l) \/ DeliverGet(l) \/ DeliverCheck(l) \/ DeliverError(l)
                      \/ CallFails(l) \/ CreateGoesOn(l)
  \/ \E b \in Browsers : \/ \E path \in {"/"} \cup {page[x].path : x \in Browsers} : Load(b, path)
                         \/ \E v \in Payments : Pay(b, v)
  \/ Restart \/ Tick

Spec == Init /\ [][Next]_vars

(***************************************************************************)
(* The server answers whoever asks about an invoice, up to the node,       *)
(* callbacks and timers run, and time passes.  A create need never be      *)
(* answered: the request to the price service has no timeout, and neither  *)
(* has the call.  Nor need the node answer: the client of rpc.go:31-39     *)
(* holds a search while the connection is lost.                            *)
(***************************************************************************)
Serve(l) == ServeGet(l) \/ ServeCheck(l)

Deliver(l) == DeliverCreate(l) \/ DeliverGet(l) \/ DeliverCheck(l) \/ DeliverError(l)

Fairness ==
  /\ WF_vars(Tick)
  /\ \A l \in Lines : WF_vars(Serve(l)) /\ WF_vars(Deliver(l))
  /\ \A b \in Browsers : WF_vars(\E l \in Lines : l[1] = b /\ IntervalFires(l))

FairSpec == Spec /\ Fairness

-----------------------------------------------------------------------------
(***************************************************************************)
(* Nothing is lost or exchanged on the way: the handler of each call reads *)
(* what the client's setters were given, and the getters return what the   *)
(* handler said, zeros that take no bytes included (invoice_pb.js).        *)
(***************************************************************************)
Understood ==
  \A l \in Lines :
    /\ call[l].at = "request" => In(l) = call[l].asked
    /\ call[l].at = "response" => ReadResponse(call[l].method, call[l].bytes) = call[l].said

\* One server process, in which no two creates have collided.
Undisturbed == restarts = 0 /\ creates = "apart"

(***************************************************************************)
(* A browser that is led to a page by its own create sees the amount that  *)
(* its user asked for, however creates overlap, are lost, go on without    *)
(* their page and are made again meanwhile (Application/index.jsx:46-53,   *)
(* ShowInvoice/index.jsx:30-51) - as long as no create has read the index  *)
(* between another one's read and its increment (api.go:73, 88), and the   *)
(* server has not started again: then the address may be somebody else's.  *)
(***************************************************************************)
OwnAmount ==
  \A b \in Browsers : wanted[b] # 0 /\ page[b].stage = "open" /\ Undisturbed
                      => page[b].terms.fiatvalue = wanted[b]

(***************************************************************************)
(* Under the same conditions a receipt is about an invoice of the ledger,  *)
(* and never asks for less than is owed: what it says remains is at least  *)
(* what remains, and a status ahead of the payments is not shown, also     *)
(* when checks overtake one another or the node fails                      *)
(* (ShowInvoice/index.jsx:64-67, api.go:180-201).                          *)
(***************************************************************************)
ReceiptAgrees ==
  \A b \in Browsers : Screen(b) = "Receipt" /\ Undisturbed =>
    LET p == page[b]  id == p.terms.invoiceId IN
    /\ id = p.path /\ id \in DOMAIN invoices /\ invoices[id] = p.terms
    /\ Rank(p.status) <= Rank(Status(p.terms.digitalvalue, received[id]))
    /\ p.remaining # Undefined => p.remaining >= Remaining(p.terms.digitalvalue, received[id])

(***************************************************************************)
(* Under the same conditions no page says "Invoice Paid!" unless its       *)
(* address has received the lower limit of the amount that the page itself *)
(* was given: across lost calls, links and checks that overtake one        *)
(* another (ShowInvoice/index.jsx:137-141, api.go:189).  If the price was  *)
(* cut to zero (api.go:134), that is nothing.                              *)
(***************************************************************************)
PaidPageFunded ==
  \A b \in Browsers : page[b].status \in {"paid", "over_paid"} /\ Undisturbed =>
    /\ page[b].terms # NoTerms
    /\ received[page[b].path] >= LowestPaid(page[b].terms.digitalvalue)

(***************************************************************************)
(* No page waits or asks for money for ever: once nobody loads pages any   *)
(* more, each shows the form, an error, or the end of its invoice - also   *)
(* when the server has forgotten the invoice, when calls are lost, when    *)
(* creates have raced, while the node answers nothing, and while a create  *)
(* that nobody answers is on its way (api.go:121, 174-177,                 *)
(* ShowInvoice/index.jsx:30-62, 85-97).                                    *)
(***************************************************************************)
PagesSettle ==
  <>[](\A b \in Browsers : Screen(b) \in {"Form", "Error", "Paid", "OverPaid", "Expired!"})
=============================================================================
