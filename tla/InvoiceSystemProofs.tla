------------------------- MODULE InvoiceSystemProofs -------------------------
(***************************************************************************)
(* The safety of browsers and server together, for any number of browsers  *)
(* and of calls at once, and for every price, payment and lifetime.        *)
(***************************************************************************)
EXTENDS InvoiceSystem, InvoiceMathProofs, InvoiceMessagesProofs

-----------------------------------------------------------------------------
(***************************************************************************)
(* Calls: what is asked, what is said, and the bytes that carry it.        *)
(***************************************************************************)
Asked(m) == IF m = createInvoice THEN [value : Nat] ELSE [invoiceId : Ids]

Said(m) == IF m = checkInvoice THEN [status : Statuses, digitalvalueremaining : Nat] ELSE Terms

\* What a create builds, which has an address from deriveAddress on.
Draft == [fiatvalue : Nat, digitalvalue : Nat, expiry : Nat, invoiceId : Ids \cup {""}]

CallFits(c) ==
  \/ c = Free
  \/ c.at = "failed" /\ c.method \in Methods /\ c.live
  \/ /\ c.at \in Creating
     /\ c.method = createInvoice /\ c.asked \in Asked(createInvoice) /\ c.live \in BOOLEAN
     /\ c.terms \in Draft /\ (c.at # "derive" => c.terms \in Terms)
     /\ c.terms.fiatvalue = c.asked.value /\ c.loaded \in Nat
  \/ /\ c.at = "balance"
     /\ c.method = checkInvoice /\ c.asked \in Asked(checkInvoice) /\ c.live
     /\ c.terms \in Terms
  \/ /\ c.at \in {"request", "response"}
     /\ c.method \in Methods /\ c.asked \in Asked(c.method)
     /\ c.live \in BOOLEAN /\ (c.method # createInvoice => c.live)
     /\ c.at = "request" => c.bytes = Request(c.method, c.asked)
     /\ c.at = "response" => /\ c.live /\ c.said \in Said(c.method)
                             /\ c.bytes = Response(c.method, c.said)

\* The three methods, and their paths.
LEMMA ThreeMethods ==
  /\ createInvoice # getInvoice /\ createInvoice # checkInvoice /\ getInvoice # checkInvoice
  /\ \A m \in Methods : /\ m \in {createInvoice, getInvoice, checkInvoice}
                        /\ m.path = "CreateInvoice" <=> m = createInvoice
                        /\ m.path = "GetInvoice" <=> m = getInvoice
                        /\ m.path = "CheckInvoice" <=> m = checkInvoice
  /\ createInvoice \in Methods /\ getInvoice \in Methods /\ checkInvoice \in Methods
BY DEF Methods, createInvoice, getInvoice, checkInvoice

\* What is asked and said has the fields of the messages of its method.
LEMMA AskedAndSaid ==
  ASSUME NEW m \in Methods
  PROVE  /\ \A c \in Asked(m) : ContentsOf(m.request, c)
         /\ \A c \in Said(m) : ContentsOf(m.response, c)
<1>1. CASE m = createInvoice
  <2>1. m.request = "InvoiceRequest" /\ m.response = "InvoiceResponse" /\ m # checkInvoice
    BY <1>1, ThreeMethods DEF createInvoice
  <2> QED
    BY <1>1, <2>1, FieldsOfTypes DEF Asked, Said, Terms, ContentsOf
<1>2. CASE m = getInvoice
  <2>1. /\ m.request = "InvoiceGetRequest" /\ m.response = "InvoiceResponse"
        /\ m # checkInvoice /\ m # createInvoice
    BY <1>2, ThreeMethods DEF getInvoice
  <2> QED
    BY <2>1, FieldsOfTypes DEF Asked, Said, Terms, ContentsOf
<1>3. CASE m = checkInvoice
  <2>1. /\ m.request = "InvoiceCheckRequest" /\ m.response = "InvoiceCheckResponse"
        /\ m # createInvoice
    BY <1>3, ThreeMethods DEF checkInvoice
  <2> QED
    BY <1>3, <2>1, FieldsOfTypes DEF Asked, Said, ContentsOf
<1> QED
  BY <1>1, <1>2, <1>3, ThreeMethods

\* What fitting means at each station.
LEMMA FitsMeans ==
  ASSUME NEW c, CallFits(c)
  PROVE  /\ c.at = "request" =>
              /\ c.method \in Methods /\ c.asked \in Asked(c.method)
              /\ c.bytes = Request(c.method, c.asked)
         /\ c.at = "response" =>
              /\ c.method \in Methods /\ c.asked \in Asked(c.method) /\ c.said \in Said(c.method)
              /\ c.bytes = Response(c.method, c.said)
         /\ c.at \in Creating =>
              /\ c.method = createInvoice /\ c.asked \in Asked(createInvoice) /\ c.live \in BOOLEAN
              /\ c.terms \in Draft /\ (c.at # "derive" => c.terms \in Terms)
              /\ c.terms.fiatvalue = c.asked.value /\ c.loaded \in Nat
         /\ c.at = "balance" =>
              /\ c.method = checkInvoice /\ c.asked \in Asked(checkInvoice)
              /\ c.terms \in Terms
         /\ c.at # "free" => c.method \in Methods
<1>1. c.at = "request" =>
        /\ c.method \in Methods /\ c.asked \in Asked(c.method)
        /\ c.bytes = Request(c.method, c.asked)
  BY DEF CallFits, Free, Creating
<1>2. c.at = "response" =>
        /\ c.method \in Methods /\ c.asked \in Asked(c.method) /\ c.said \in Said(c.method)
        /\ c.bytes = Response(c.method, c.said)
  BY DEF CallFits, Free, Creating
<1>3. c.at \in Creating =>
        /\ c.method = createInvoice /\ c.asked \in Asked(createInvoice) /\ c.live \in BOOLEAN
        /\ c.terms \in Draft /\ (c.at # "derive" => c.terms \in Terms)
        /\ c.terms.fiatvalue = c.asked.value /\ c.loaded \in Nat
  BY DEF CallFits, Free, Creating
<1>4. c.at = "balance" =>
        /\ c.method = checkInvoice /\ c.asked \in Asked(checkInvoice)
        /\ c.terms \in Terms
  BY DEF CallFits, Free, Creating
<1>5. c.at # "free" => c.method \in Methods
  BY ThreeMethods DEF CallFits, Free
<1> QED
  BY <1>1, <1>2, <1>3, <1>4, <1>5

\* Both ends of a call read what the other has written.
LEMMA Heard ==
  ASSUME NEW l \in Lines, CallFits(call[l])
  PROVE  /\ call[l].at = "request" => In(l) = call[l].asked
         /\ call[l].at = "response" =>
              /\ Contents(call[l].method.response, Incoming(l)) = call[l].said
              /\ ReadResponse(call[l].method, call[l].bytes) = call[l].said
<1>1. CASE call[l].at = "request"
  <2>1. call[l].method \in Methods /\ call[l].bytes = Request(call[l].method, call[l].asked)
    BY <1>1, FitsMeans
  <2>2. ContentsOf(call[l].method.request, call[l].asked)
    BY <1>1, <2>1, FitsMeans, AskedAndSaid
  <2>3. In(l) = call[l].asked
    BY <2>1, <2>2, RequestUnderstood DEF In
  <2> QED
    BY <1>1, <2>3
<1>2. CASE call[l].at = "response"
  <2>1. call[l].method \in Methods /\ call[l].bytes = Response(call[l].method, call[l].said)
    BY <1>2, FitsMeans
  <2>2. ContentsOf(call[l].method.response, call[l].said)
    BY <1>2, <2>1, FitsMeans, AskedAndSaid
  <2>3. ReadResponse(call[l].method, call[l].bytes) = call[l].said
    BY <2>1, <2>2, ResponseUnderstood
  <2> QED
    BY <1>2, <2>3 DEF ReadResponse, Incoming
<1> QED
  BY <1>1, <1>2

\* The calls that are made fit.
LEMMA SentFits ==
  /\ CallFits(Free)
  /\ \A m \in Methods : \A contents \in Asked(m) : CallFits(Sent(m, contents))
BY DEF CallFits, Sent

\* A call that fits is at one of the stations, and has a method unless it is free.
LEMMA FitsAtStation ==
  ASSUME NEW c, CallFits(c)
  PROVE  c.at \in Stations /\ (c.at # "free" => c.method \in Methods)
BY ThreeMethods DEF CallFits, Free, Stations, Creating

\* An id that is asked for is an id, and an amount a number.
LEMMA AskedIsTyped ==
  /\ \A c \in Asked(createInvoice) : c.value \in Nat
  /\ \A c \in Asked(getInvoice) : c.invoiceId \in Ids
  /\ \A c \in Asked(checkInvoice) : c.invoiceId \in Ids
  /\ \A id \in Ids : IdRequest(id) \in Asked(getInvoice) /\ IdRequest(id) \in Asked(checkInvoice)
BY ThreeMethods DEF Asked, IdRequest

\* So is what is said.
LEMMA SaidIsTyped ==
  /\ Said(createInvoice) = Terms /\ Said(getInvoice) = Terms
  /\ Said(checkInvoice) = [status : Statuses, digitalvalueremaining : Nat]
  /\ \A t \in Terms : t.invoiceId \in Ids
BY ThreeMethods DEF Said, Terms

\* What a location holds when it is loaded.
LEMMA FreshPage ==
  ASSUME NEW path \in Ids \cup {"/"}
  PROVE  /\ Fresh(path) \in Page
         /\ Fresh(path).path = path
         /\ Fresh(path).stage # "open"
         /\ Fresh(path).status = "unpaid"
         /\ Fresh(path).remaining = Undefined
BY DEF Fresh, Page, Statuses

\* What the handler of checks answers.
LEMMA VerdictIsTyped ==
  ASSUME NEW due \in Nat, NEW paid \in Nat
  PROVE  /\ Verdict(due, paid) \in [status : Statuses, digitalvalueremaining : Nat]
         /\ Verdict(due, paid).status = Status(due, paid)
         /\ Verdict(due, paid).digitalvalueremaining = Remaining(due, paid)
BY StatusOfAmount DEF Verdict

-----------------------------------------------------------------------------
(***************************************************************************)
(* Types.                                                                  *)
(***************************************************************************)
Calls == \A l \in Lines : CallFits(call[l])

\* Only a page that was filled is open.
Filled == \A b \in Browsers : page[b].stage = "open" => page[b].terms \in Terms

LEMMA TypeInit == Init => TypeOK /\ Calls /\ Filled
<1> SUFFICES ASSUME Init
             PROVE  TypeOK /\ Calls /\ Filled
  OBVIOUS
<1>1. \A b \in Browsers : page[b] \in Page /\ page[b].stage # "open"
  BY FreshPage DEF Init
<1> QED
  BY <1>1, SentFits DEF Init, TypeOK, Calls, Filled, Free, Stations

\* A line is of a browser.
LEMMA LineOf ==
  ASSUME NEW l \in Lines
  PROVE  l[1] \in Browsers
BY SystemAssumption

\* A call that changes to a call that fits leaves the others.
LEMMA CallsStep ==
  ASSUME TypeOK, Calls, NEW l \in Lines, NEW c, CallFits(c), call' = [call EXCEPT ![l] = c]
  PROVE  Calls' /\ DOMAIN call' = Lines /\ \A k \in Lines : call'[k].at \in Stations
BY FitsAtStation DEF TypeOK, Calls

\* A page that is filled replaces one.
LEMMA PageStep ==
  ASSUME TypeOK, Filled, NEW b \in Browsers, NEW p \in Page, p.stage = "open" => p.terms \in Terms,
         page' = [page EXCEPT ![b] = p]
  PROVE  page' \in [Browsers -> Page] /\ Filled'
BY DEF TypeOK, Filled

\* An error leaves a page filled.
LEMMA ErrorPage ==
  ASSUME NEW p \in Page, p.stage = "open" => p.terms \in Terms,
         NEW e, e \in {[p EXCEPT !.refused = TRUE], [p EXCEPT !.error = TRUE],
                       [p EXCEPT !.stage = "failed", !.error = TRUE]}
  PROVE  e \in Page /\ (e.stage = "open" => e.terms \in Terms)
BY DEF Page

\* An error changes neither the location nor what was filled in.
LEMMA ErrorStep ==
  ASSUME TypeOK, Calls, Filled, NEW l \in Lines, call[l].at # "free", ShowError(l)
  PROVE  page' \in [Browsers -> Page] /\ Filled'
<1> DEFINE p == page[l[1]]
<1>1. l[1] \in Browsers /\ p \in Page /\ (p.stage = "open" => p.terms \in Terms)
  BY LineOf DEF TypeOK, Filled
<1>2. call[l].method \in {createInvoice, getInvoice, checkInvoice}
  BY FitsMeans, ThreeMethods DEF Calls
<1>3. CASE ~call[l].live
  BY <1>3 DEF ShowError, TypeOK, Filled
<1>4. CASE call[l].live /\ call[l].method = createInvoice
  <2>1. page' = [page EXCEPT ![l[1]] = [p EXCEPT !.refused = TRUE]]
    BY <1>4, ThreeMethods DEF ShowError
  <2> QED
    BY <1>1, <2>1, ErrorPage, PageStep
<1>5. CASE call[l].live /\ call[l].method = getInvoice
  <2>1. page' = [page EXCEPT ![l[1]] = [p EXCEPT !.stage = "failed", !.error = TRUE]]
    BY <1>5, ThreeMethods DEF ShowError
  <2> QED
    BY <1>1, <2>1, ErrorPage, PageStep
<1>6. CASE call[l].live /\ call[l].method = checkInvoice
  <2>1. page' = [page EXCEPT ![l[1]] = [p EXCEPT !.error = TRUE]]
    BY <1>6, ThreeMethods DEF ShowError
  <2> QED
    BY <1>1, <2>1, ErrorPage, PageStep
<1> QED
  BY <1>2, <1>3, <1>4, <1>5, <1>6

LEMMA FailsStep ==
  ASSUME TypeOK, Calls, Filled, NEW l \in Lines, call[l].at # "free", Fails(l)
  PROVE  TypeOK' /\ Calls' /\ Filled'
<1>1. page' \in [Browsers -> Page] /\ Filled'
  BY ErrorStep DEF Fails
<1> QED
  BY <1>1, CallsStep, SentFits DEF Fails, TypeOK, server, world

\* An answer fits the call that it answers.
LEMMA ReplyStep ==
  ASSUME TypeOK, Calls, NEW l \in Lines, call[l].at \in {"request", "insert", "balance"},
         NEW contents \in Said(call[l].method), Reply(l, contents)
  PROVE  Calls' /\ DOMAIN call' = Lines /\ \A k \in Lines : call'[k].at \in Stations
<1> DEFINE c == call[l]
           r == [at |-> "response", method |-> c.method, asked |-> c.asked, live |-> TRUE,
                 bytes |-> Response(c.method, contents), said |-> contents]
<1>1. c.method \in Methods /\ c.asked \in Asked(c.method)
  <2>1. CallFits(c) /\ c.at \in {"request", "insert", "balance"}
    BY DEF Calls
  <2> HIDE DEF c
  <2> QED
    BY <2>1, FitsMeans, ThreeMethods DEF Creating
<1>2. CallFits(r)
  BY <1>1 DEF CallFits
<1>3. call' = [call EXCEPT ![l] = IF c.live THEN r ELSE Free]
  BY DEF Reply
<1> QED
  BY <1>2, <1>3, CallsStep, SentFits

\* A create that is left by its page fits.
LEMMA LeftFits ==
  ASSUME NEW c, CallFits(c), c.at \in {"request"} \cup Creating, c.method = createInvoice
  PROVE  CallFits([c EXCEPT !.live = FALSE])
<1>1. CASE c.at = "request"
  BY <1>1 DEF CallFits, Free, Creating
<1>2. CASE c.at \in Creating
  BY <1>2 DEF CallFits, Free, Creating
<1> QED
  BY <1>1, <1>2

\* A location that a browser shows, or "/", is loaded, and leaves only creates behind.
LEMMA AbandonedFits ==
  ASSUME TypeOK, Calls, NEW b
  PROVE  \A l \in Lines : CallFits(Abandoned(b)[l])
<1> SUFFICES ASSUME NEW l \in Lines
             PROVE  CallFits(Abandoned(b)[l])
  OBVIOUS
<1>1. CASE l[1] # b
  BY <1>1 DEF Abandoned, Calls
<1>2. CASE l[1] = b /\ call[l].at \in {"request"} \cup Creating /\ call[l].method = createInvoice
  BY <1>2, LeftFits DEF Abandoned, Calls
<1>3. CASE l[1] = b /\ ~(call[l].at \in {"request"} \cup Creating /\ call[l].method = createInvoice)
  BY <1>3, SentFits DEF Abandoned
<1> QED
  BY <1>1, <1>2, <1>3

LEMMA LoadStep ==
  ASSUME TypeOK, Calls, Filled, NEW b \in Browsers,
         NEW path \in {"/"} \cup {page[x].path : x \in Browsers}, Load(b, path)
  PROVE  TypeOK' /\ Calls' /\ Filled'
<1>1. path \in Ids \cup {"/"}
  BY DEF TypeOK, Page
<1>2. page' \in [Browsers -> Page] /\ Filled'
  BY <1>1, FreshPage, PageStep DEF Load
<1>3. Calls' /\ DOMAIN call' = Lines
  <2>1. CASE path = "/" /\ call' = Abandoned(b)
    BY <2>1, AbandonedFits DEF Calls, Abandoned
  <2>2. ASSUME path # "/", NEW l \in Lines,
               call' = [Abandoned(b) EXCEPT ![l] = Sent(getInvoice, IdRequest(path))]
        PROVE  Calls' /\ DOMAIN call' = Lines
    <3>1. CallFits(Sent(getInvoice, IdRequest(path)))
      BY <1>1, <2>2, SentFits, AskedIsTyped, ThreeMethods
    <3>2. DOMAIN Abandoned(b) = Lines
      BY DEF Abandoned
    <3> QED
      BY <2>2, <3>1, <3>2, AbandonedFits DEF Calls
  <2> QED
    BY <2>1, <2>2 DEF Load
<1>4. \A l \in Lines : call'[l].at \in Stations
  BY <1>3, FitsAtStation DEF Calls
<1> QED
  BY <1>2, <1>3, <1>4 DEF Load, TypeOK, server, world

\* An open page asks for the invoice that it shows.
LEMMA PageAsks ==
  ASSUME TypeOK, Filled, NEW b \in Browsers, page[b].stage = "open"
  PROVE  CallFits(Sent(checkInvoice, IdRequest(page[b].terms.invoiceId)))
BY SentFits, AskedIsTyped, ThreeMethods DEF Filled, Terms

LEMMA DeliverStep ==
  ASSUME TypeOK, Calls, Filled, NEW l \in Lines,
         DeliverCreate(l) \/ DeliverGet(l) \/ DeliverCheck(l)
  PROVE  TypeOK' /\ Calls' /\ Filled'
<1> DEFINE c == call[l]  p == page[l[1]]
<1>1. /\ c.at = "response" /\ c.asked \in Asked(c.method) /\ c.said \in Said(c.method)
      /\ Contents(c.method.response, Incoming(l)) = c.said
  <2>1. c.at = "response"
    BY DEF DeliverCreate, DeliverGet, DeliverCheck, Answered
  <2> QED
    BY <2>1, Heard, FitsMeans DEF Calls
<1>2. l[1] \in Browsers /\ p \in Page /\ (p.stage = "open" => p.terms \in Terms)
  BY LineOf DEF TypeOK, Filled
<1>3. CASE DeliverCreate(l)
  <2>1. c.method = createInvoice /\ c.method.response = "InvoiceResponse"
    BY <1>3 DEF DeliverCreate, Answered, createInvoice
  <2>2. c.said \in Terms /\ c.said.invoiceId \in Ids /\ c.asked.value \in Nat
    BY <1>1, <2>1, SaidIsTyped, AskedIsTyped
  <2>3. CASE Screen(l[1]) = "Form"
    <3>1. /\ page' = [page EXCEPT ![l[1]] = Fresh(c.said.invoiceId)]
          /\ call' = [call EXCEPT ![l] = Sent(getInvoice, IdRequest(c.said.invoiceId))]
          /\ wanted' = [wanted EXCEPT ![l[1]] = c.asked.value]
      BY <1>1, <1>3, <2>1, <2>3 DEF DeliverCreate
    <3>2. page' \in [Browsers -> Page] /\ Filled'
      BY <1>2, <2>2, <3>1, FreshPage, PageStep
    <3>3. CallFits(Sent(getInvoice, IdRequest(c.said.invoiceId)))
      BY <2>2, SentFits, AskedIsTyped, ThreeMethods
    <3> QED
      BY <1>3, <2>2, <3>1, <3>2, <3>3, CallsStep DEF DeliverCreate, TypeOK, server, world
  <2>4. CASE Screen(l[1]) # "Form"
    BY <1>3, <2>4, CallsStep, SentFits DEF DeliverCreate, TypeOK, Filled, server, world
  <2> QED
    BY <2>3, <2>4
<1>4. CASE DeliverGet(l)
  <2>1. c.method = getInvoice /\ c.method.response = "InvoiceResponse"
    BY <1>4 DEF DeliverGet, Answered, getInvoice
  <2>2. c.said \in Terms /\ c.said.invoiceId \in Ids
    BY <1>1, <2>1, SaidIsTyped
  <2> DEFINE q == [p EXCEPT !.stage = "open", !.terms = c.said]
  <2>3. /\ page' = [page EXCEPT ![l[1]].stage = "open", ![l[1]].terms = c.said]
        /\ call' = [call EXCEPT ![l] = Sent(checkInvoice, IdRequest(c.said.invoiceId))]
    BY <1>1, <1>4, <2>1 DEF DeliverGet
  <2>4. page' = [page EXCEPT ![l[1]] = q]
    BY <2>3
  <2>5. q \in Page /\ q.terms \in Terms
    BY <1>2, <2>2 DEF Page
  <2>6. page' \in [Browsers -> Page] /\ Filled'
    BY <1>2, <2>4, <2>5, PageStep
  <2>7. CallFits(Sent(checkInvoice, IdRequest(c.said.invoiceId)))
    BY <2>2, SentFits, AskedIsTyped, ThreeMethods
  <2> QED
    BY <1>4, <2>3, <2>6, <2>7, CallsStep DEF DeliverGet, TypeOK, server, world
<1>5. CASE DeliverCheck(l)
  <2>1. c.method = checkInvoice /\ c.method.response = "InvoiceCheckResponse"
    BY <1>5 DEF DeliverCheck, Answered, checkInvoice
  <2>2. c.said \in [status : Statuses, digitalvalueremaining : Nat]
    BY <1>1, <2>1, SaidIsTyped
  <2> DEFINE q == [p EXCEPT !.status = c.said.status, !.remaining = c.said.digitalvalueremaining]
  <2>3. page' = [page EXCEPT ![l[1]].status = c.said.status,
                             ![l[1]].remaining = c.said.digitalvalueremaining]
    BY <1>1, <1>5, <2>1 DEF DeliverCheck
  <2>4. page' = [page EXCEPT ![l[1]] = q]
    BY <2>3
  <2>5. q \in Page /\ q.stage = p.stage /\ q.terms = p.terms
    BY <1>2, <2>2 DEF Page
  <2>6. page' \in [Browsers -> Page] /\ Filled'
    BY <1>2, <2>4, <2>5, PageStep
  <2> QED
    BY <1>5, <2>6, CallsStep, SentFits DEF DeliverCheck, TypeOK, server, world
<1> QED
  BY <1>3, <1>4, <1>5

\* An address of the extended key is an id.
LEMMA AddressIsId ==
  ASSUME TypeOK, derivationIndex < Len(Addresses)
  PROVE  derivationIndex + 1 \in DOMAIN Addresses /\ Addresses[derivationIndex + 1] \in Ids
<1>1. derivationIndex \in Nat /\ Addresses \in Seq(STRING)
  BY SystemAssumption DEF TypeOK
<1>2. derivationIndex + 1 \in DOMAIN Addresses
  BY <1>1
<1> QED
  BY <1>2 DEF Ids

\* A create that goes on fits.
LEMMA ServedFits ==
  ASSUME NEW c, CallFits(c), c.method = createInvoice, c.at \in {"request"} \cup Creating,
         NEW at \in Creating, NEW terms \in Draft, at # "derive" => terms \in Terms,
         terms.fiatvalue = c.asked.value, NEW loaded \in Nat
  PROVE  CallFits(Served(c, at, terms, loaded))
<1>1. c.asked \in Asked(createInvoice) /\ c.live \in BOOLEAN
  BY DEF CallFits, Free, Creating
<1> QED
  BY <1>1 DEF CallFits, Served

\* A check that waits for the node fits.
LEMMA CheckWaitsFits ==
  ASSUME NEW c, CallFits(c), c.method = checkInvoice, c.at = "request", NEW terms \in Terms
  PROVE  CallFits(Served(c, "balance", terms, 0))
<1>1. c.asked \in Asked(checkInvoice) /\ c.live
  BY ThreeMethods DEF CallFits, Free, Creating
<1> QED
  BY <1>1 DEF CallFits, Served

\* The steps of a create before the map.
LEMMA CreatingStep ==
  ASSUME TypeOK, Calls, Filled, NEW l \in Lines,
         ServePrice(l) \/ ServeDerive(l) \/ ServeLoad(l) \/ ServeStore(l)
  PROVE  TypeOK' /\ Calls' /\ Filled'
<1> DEFINE c == call[l]
<1>1. CallFits(c) /\ derivationIndex \in Nat
  BY DEF Calls, TypeOK
<1>2. CASE ServePrice(l)
  <2>0. PICK q \in Quotes : \E d \in DigitalValues(q) :
          call' = [call EXCEPT ![l] =
                     Served(c, "derive", [fiatvalue |-> In(l).value, digitalvalue |-> d,
                                          expiry |-> now + InvoiceLifetime, invoiceId |-> ""], 0)]
    BY <1>2 DEF ServePrice
  <2>1. PICK d \in DigitalValues(q) :
          call' = [call EXCEPT ![l] =
                     Served(c, "derive", [fiatvalue |-> In(l).value, digitalvalue |-> d,
                                          expiry |-> now + InvoiceLifetime, invoiceId |-> ""], 0)]
    BY <2>0
  <2> DEFINE terms == [fiatvalue |-> In(l).value, digitalvalue |-> d,
                       expiry |-> now + InvoiceLifetime, invoiceId |-> ""]
  <2>2. c.at = "request" /\ c.method = createInvoice
    BY <1>1, <1>2, FitsMeans, ThreeMethods DEF ServePrice, Arrived
  <2>3. In(l).value = c.asked.value /\ c.asked.value \in Nat
    BY <1>1, <2>2, Heard, FitsMeans, AskedIsTyped
  <2>4. d \in Nat
    <3>1. q \in Nat
      BY SystemAssumption
    <3> QED
      BY <3>1, DigitalValuesAreNat
  <2>5. now + InvoiceLifetime \in Nat
    <3>1. InvoiceLifetime \in Nat
      BY SystemAssumption
    <3>2. now \in Nat
      BY DEF TypeOK
    <3> QED
      BY <3>1, <3>2
  <2>6. terms \in Draft /\ terms.fiatvalue = c.asked.value
    BY <2>3, <2>4, <2>5 DEF Draft
  <2> HIDE DEF terms, c
  <2>7. CallFits(Served(c, "derive", terms, 0))
    BY <1>1, <2>2, <2>6, ServedFits DEF Creating
  <2>8. call' = [call EXCEPT ![l] = Served(c, "derive", terms, 0)]
    BY <2>1 DEF terms
  <2> QED
    BY <1>2, <2>7, <2>8, CallsStep DEF ServePrice, TypeOK, Filled, server, client, world
<1>3. CASE ServeDerive(l)
  <2> DEFINE terms == [c.terms EXCEPT !.invoiceId = Addresses[derivationIndex + 1]]
  <2>1. c.at = "derive" /\ call' = [call EXCEPT ![l] = Served(c, "load", terms, 0)]
    BY <1>3 DEF ServeDerive
  <2>2. c.method = createInvoice /\ c.terms \in Draft /\ c.terms.fiatvalue = c.asked.value
    BY <1>1, <2>1, FitsMeans DEF Creating
  <2>3. Addresses[derivationIndex + 1] \in Ids
    BY <1>3, AddressIsId DEF ServeDerive
  <2>4. terms \in Terms /\ terms \in Draft /\ terms.fiatvalue = c.asked.value
    BY <2>2, <2>3 DEF Terms, Draft
  <2> HIDE DEF terms, c
  <2>5. CallFits(Served(c, "load", terms, 0))
    BY <1>1, <2>1, <2>2, <2>4, ServedFits DEF Creating
  <2>6. Calls' /\ DOMAIN call' = Lines /\ \A k \in Lines : call'[k].at \in Stations
    BY <2>1, <2>5, CallsStep
  <2>7. creates' \in {"apart", "collided"}
    BY <1>3 DEF ServeDerive, TypeOK
  <2> QED
    BY <1>3, <2>6, <2>7 DEF ServeDerive, TypeOK, Filled, client, world
<1>4. CASE ServeLoad(l)
  <2>1. c.at = "load" /\ call' = [call EXCEPT ![l] = Served(c, "store", c.terms, derivationIndex)]
    BY <1>4 DEF ServeLoad
  <2>2. /\ c.method = createInvoice /\ c.terms \in Draft /\ c.terms \in Terms
        /\ c.terms.fiatvalue = c.asked.value
    BY <1>1, <2>1, FitsMeans DEF Creating
  <2> HIDE DEF c
  <2>3. CallFits(Served(c, "store", c.terms, derivationIndex))
    BY <1>1, <2>1, <2>2, ServedFits DEF Creating
  <2> QED
    BY <1>4, <2>1, <2>3, CallsStep DEF ServeLoad, TypeOK, Filled, server, client, world
<1>5. CASE ServeStore(l)
  <2>1. /\ c.at = "store" /\ call' = [call EXCEPT ![l] = Served(c, "insert", c.terms, 0)]
        /\ derivationIndex' = c.loaded + 1
    BY <1>5 DEF ServeStore
  <2>2. /\ c.method = createInvoice /\ c.terms \in Draft /\ c.terms \in Terms
        /\ c.terms.fiatvalue = c.asked.value /\ c.loaded \in Nat
    BY <1>1, <2>1, FitsMeans DEF Creating
  <2> HIDE DEF c
  <2>3. CallFits(Served(c, "insert", c.terms, 0))
    BY <1>1, <2>1, <2>2, ServedFits DEF Creating
  <2>4. Calls' /\ DOMAIN call' = Lines /\ \A k \in Lines : call'[k].at \in Stations
    BY <2>1, <2>3, CallsStep
  <2>5. derivationIndex' \in Nat
    BY <2>1, <2>2
  <2> QED
    BY <1>5, <2>4, <2>5 DEF ServeStore, TypeOK, Filled, client, world
<1> QED
  BY <1>2, <1>3, <1>4, <1>5

\* The invoice that a create has made enters the ledger, and answers the call.
LEMMA Entered ==
  ASSUME TypeOK, Calls, NEW l \in Lines, ServeInsert(l)
  PROVE  /\ call[l].at = "insert" /\ call[l].method = createInvoice
         /\ call[l].terms \in Terms /\ call[l].terms \in Said(call[l].method)
         /\ call[l].terms.fiatvalue = call[l].asked.value
         /\ Reply(l, call[l].terms)
         /\ DOMAIN invoices' = DOMAIN invoices \cup {call[l].terms.invoiceId}
         /\ \A i \in DOMAIN invoices' :
              invoices'[i] = IF i = call[l].terms.invoiceId THEN call[l].terms ELSE invoices[i]
<1>1. CallFits(call[l]) /\ call[l].at = "insert"
  BY DEF Calls, ServeInsert
<1>2. /\ call[l].method = createInvoice /\ call[l].terms \in Terms
      /\ call[l].terms.fiatvalue = call[l].asked.value
  BY <1>1, FitsMeans DEF Creating
<1>3. call[l].terms \in Said(call[l].method)
  BY <1>2, SaidIsTyped
<1> QED
  BY <1>1, <1>2, <1>3 DEF ServeInsert

LEMMA InsertStep ==
  ASSUME TypeOK, Calls, Filled, NEW l \in Lines, ServeInsert(l)
  PROVE  TypeOK' /\ Calls' /\ Filled'
<1>1. Calls' /\ DOMAIN call' = Lines /\ \A k \in Lines : call'[k].at \in Stations
  <2>1. call[l].at = "insert" /\ call[l].terms \in Said(call[l].method) /\ Reply(l, call[l].terms)
    BY Entered
  <2> QED
    BY <2>1, ReplyStep
<1>2. DOMAIN invoices' \subseteq Ids
  <2>1. call[l].terms.invoiceId \in Ids
    BY Entered, SaidIsTyped
  <2>2. DOMAIN invoices' = DOMAIN invoices \cup {call[l].terms.invoiceId}
    BY Entered
  <2>3. DOMAIN invoices \subseteq Ids
    BY DEF TypeOK
  <2> QED
    BY <2>1, <2>2, <2>3
<1>3. \A i \in DOMAIN invoices' : invoices'[i] \in Terms
  BY Entered DEF TypeOK
<1>4. invoices' = [i \in DOMAIN invoices' |-> invoices'[i]]
  BY DEF ServeInsert
<1>5. invoices' \in [DOMAIN invoices' -> Terms]
  BY <1>3, <1>4
<1>6. creates' \in {"apart", "collided"}
  BY DEF ServeInsert, TypeOK
<1> QED
  BY <1>1, <1>2, <1>5, <1>6 DEF ServeInsert, TypeOK, Filled, client, world

\* An answer changes nothing but the call.
LEMMA RepliesStep ==
  ASSUME TypeOK, Calls, Filled, NEW l \in Lines, call[l].at \in {"request", "insert", "balance"},
         NEW contents \in Said(call[l].method), Replies(l, contents)
  PROVE  TypeOK' /\ Calls' /\ Filled'
BY ReplyStep DEF Replies, TypeOK, Filled, server, client, world

LEMMA ServeStep ==
  ASSUME TypeOK, Calls, Filled, NEW l \in Lines, ServeGet(l) \/ ServeCheck(l) \/ NodeAnswers(l)
  PROVE  TypeOK' /\ Calls' /\ Filled'
<1> DEFINE c == call[l]
<1>1. CallFits(c)
  BY DEF Calls
<1>2. CASE ServeGet(l)
  <2>1. c.at = "request" /\ c.method = getInvoice
    BY <1>1, <1>2, FitsMeans, ThreeMethods DEF ServeGet, Arrived
  <2>2. CASE Fails(l)
    BY <2>1, <2>2, FailsStep
  <2>3. CASE ~Fails(l)
    <3>1. PICK id \in DOMAIN invoices : Replies(l, invoices[id])
      BY <1>2, <2>3 DEF ServeGet
    <3>2. invoices[id] \in Said(c.method)
      BY <2>1, SaidIsTyped DEF TypeOK
    <3> QED
      BY <2>1, <3>1, <3>2, RepliesStep
  <2> QED
    BY <2>2, <2>3
<1>3. CASE ServeCheck(l)
  <2>1. c.at = "request" /\ c.method = checkInvoice
    BY <1>1, <1>3, FitsMeans, ThreeMethods DEF ServeCheck, Arrived
  <2>2. PICK id :
          \/ Fails(l)
          \/ Replies(l, [status |-> "expired", digitalvalueremaining |-> 0])
          \/ /\ id \in DOMAIN invoices
             /\ call' = [call EXCEPT ![l] = Served(c, "balance", invoices[id], 0)]
             /\ UNCHANGED <<server, client, world>>
    BY <1>3 DEF ServeCheck
  <2>3. CASE Fails(l)
    BY <2>1, <2>3, FailsStep
  <2>4. CASE Replies(l, [status |-> "expired", digitalvalueremaining |-> 0])
    <3>1. [status |-> "expired", digitalvalueremaining |-> 0] \in Said(c.method)
      BY <2>1, SaidIsTyped DEF Statuses
    <3> QED
      BY <2>1, <2>4, <3>1, RepliesStep
  <2>5. CASE /\ id \in DOMAIN invoices
             /\ call' = [call EXCEPT ![l] = Served(c, "balance", invoices[id], 0)]
             /\ UNCHANGED <<server, client, world>>
    <3>1. invoices[id] \in Terms
      BY <2>5 DEF TypeOK
    <3>2. CallFits(Served(c, "balance", invoices[id], 0))
      BY <1>1, <2>1, <3>1, CheckWaitsFits
    <3> QED
      BY <2>5, <3>2, CallsStep DEF TypeOK, Filled, server, client, world
  <2> QED
    BY <2>2, <2>3, <2>4, <2>5
<1>4. CASE NodeAnswers(l)
  <2>1. c.at = "balance" /\ c.method = checkInvoice /\ c.terms \in Terms
    BY <1>1, <1>4, FitsMeans DEF NodeAnswers
  <2>2. PICK paid \in {received[c.terms.invoiceId], 0} : Replies(l, Verdict(c.terms.digitalvalue, paid))
    BY <1>4 DEF NodeAnswers
  <2>3. c.terms.digitalvalue \in Nat /\ paid \in Nat
    BY <2>1 DEF TypeOK, Terms
  <2>4. Verdict(c.terms.digitalvalue, paid) \in Said(c.method)
    BY <2>1, <2>3, VerdictIsTyped, SaidIsTyped
  <2> QED
    BY <2>1, <2>2, <2>4, RepliesStep
<1> QED
  BY <1>2, <1>3, <1>4

\* The server starts again: the calls in its hands are lost.
LEMMA RestartStep ==
  ASSUME TypeOK, Calls, Filled, Restart
  PROVE  TypeOK' /\ Calls' /\ Filled'
<1>1. ASSUME NEW l \in Lines
      PROVE  CallFits(call'[l])
  <2>1. CallFits(call[l])
    BY DEF Calls
  <2>2. call'[l] = IF call[l].at \notin {"balance"} \cup Creating THEN call[l]
                   ELSE IF call[l].live THEN Lost(call[l]) ELSE Free
    BY DEF Restart
  <2>3. CASE call'[l] = call[l]
    BY <2>1, <2>3
  <2>4. CASE call'[l] = Free
    BY <2>4, SentFits
  <2>5. CASE call'[l] = Lost(call[l]) /\ call[l].at \in {"balance"} \cup Creating
    <3>1. call[l].method \in Methods
      BY <2>1, <2>5, FitsMeans DEF Creating
    <3> QED
      BY <2>5, <3>1 DEF CallFits, Lost
  <2> QED
    BY <2>2, <2>3, <2>4, <2>5
<1>2. DOMAIN call' = Lines
  BY DEF Restart
<1>3. DOMAIN invoices' = {} /\ invoices' \in [DOMAIN invoices' -> Terms]
  BY DEF Restart
<1>4. Calls' /\ \A l \in Lines : call'[l].at \in Stations
  BY <1>1, FitsAtStation DEF Calls
<1> QED
  BY <1>2, <1>3, <1>4 DEF Restart, TypeOK, Filled, client, world

LEMMA TypeStep == TypeOK /\ Calls /\ Filled /\ [Next]_vars => TypeOK' /\ Calls' /\ Filled'
<1> SUFFICES ASSUME TypeOK, Calls, Filled, [Next]_vars
             PROVE  TypeOK' /\ Calls' /\ Filled'
  OBVIOUS
<1>1. ASSUME NEW l \in Lines, Submit(l)
      PROVE  TypeOK' /\ Calls' /\ Filled'
  <2>1. [value |-> Amount[l[1]]] \in Asked(createInvoice)
    BY LineOf, SystemAssumption DEF Asked
  <2> QED
    BY <1>1, <2>1, SentFits, ThreeMethods, CallsStep DEF Submit, TypeOK, Filled, server, client, world
<1>2. ASSUME NEW l \in Lines, IntervalFires(l)
      PROVE  TypeOK' /\ Calls' /\ Filled'
  BY <1>2, LineOf, PageAsks, CallsStep DEF IntervalFires, TypeOK, Filled, server, client, world
<1>3. ASSUME NEW l \in Lines, DeliverError(l) \/ CallFails(l) \/ ServeDeriveFails(l)
      PROVE  TypeOK' /\ Calls' /\ Filled'
  BY <1>3, FailsStep DEF DeliverError, CallFails, ServeDeriveFails
<1>4. ASSUME NEW l \in Lines, CreateGoesOn(l)
      PROVE  TypeOK' /\ Calls' /\ Filled'
  <2>1. call[l].at \in {"request"} \cup Creating /\ CallFits(call[l]) /\ call[l].method = createInvoice
    BY <1>4 DEF CreateGoesOn, Calls
  <2>2. call' = [call EXCEPT ![l] = [call[l] EXCEPT !.live = FALSE]]
    BY <1>4 DEF CreateGoesOn
  <2>3. CallFits([call[l] EXCEPT !.live = FALSE])
    BY <2>1, LeftFits
  <2>4. call[l].at # "free"
    BY <2>1 DEF Creating
  <2>5. page' \in [Browsers -> Page] /\ Filled'
    BY <1>4, <2>4, ErrorStep DEF CreateGoesOn
  <2> QED
    BY <1>4, <2>2, <2>3, <2>5, CallsStep DEF CreateGoesOn, TypeOK, server, world
<1>5. ASSUME NEW b \in Browsers, NEW v \in Payments, Pay(b, v)
      PROVE  TypeOK' /\ Calls' /\ Filled'
  <2>1. v \in Nat
    BY SystemAssumption
  <2>2. PICK id \in Ids : received' = [received EXCEPT ![id] = received[id] + v]
    BY <1>5 DEF Pay, Filled, Terms
  <2>3. received' \in [Ids -> Nat]
    BY <2>1, <2>2 DEF TypeOK
  <2> QED
    BY <1>5, <2>3 DEF Pay, TypeOK, Calls, Filled, server, client
<1>6. CASE Tick
  BY <1>6 DEF Tick, TypeOK, Calls, Filled, server, client
<1>7. CASE UNCHANGED vars
  BY <1>7 DEF vars, server, client, world, TypeOK, Calls, Filled
<1> QED
  BY <1>1, <1>2, <1>3, <1>4, <1>5, <1>6, <1>7,
     LoadStep, DeliverStep, CreatingStep, InsertStep, ServeStep, RestartStep DEF Next

(***************************************************************************)
(* Every variable keeps its type: also the page, into which the callbacks  *)
(* copy whatever the getters return (ShowInvoice/index.jsx:40-67).         *)
(***************************************************************************)
THEOREM TypeCorrect == Spec => []TypeOK
BY TypeInit, TypeStep, PTL DEF Spec

(***************************************************************************)
(* On every line, in every behaviour, both ends of a call read what the    *)
(* other has written (invoice_pb.js, invoice.pb.go).                       *)
(***************************************************************************)
THEOREM CallsAreUnderstood == Spec => []Understood
<1>1. Calls => Understood
  BY Heard DEF Calls, Understood
<1> QED
  BY <1>1, TypeInit, TypeStep, PTL DEF Spec

-----------------------------------------------------------------------------
(***************************************************************************)
(* The index and the ledger.  While creates stay apart, at most one is     *)
(* between the read of the index and its increment, so that the address of *)
(* each is the next one until it is stored, and then one that no other     *)
(* create can get.                                                         *)
(***************************************************************************)
Issued(id) == \E i \in DOMAIN Addresses : i <= derivationIndex /\ id = Addresses[i]

LedgerTells ==
  /\ \A id \in DOMAIN invoices : invoices[id].invoiceId = id
  /\ Undisturbed => \A id \in DOMAIN invoices : Issued(id)

CreateTells(c) ==
  Undisturbed =>
    /\ c.at \in {"load", "store"} => /\ derivationIndex < Len(Addresses)
                                     /\ c.terms.invoiceId = Addresses[derivationIndex + 1]
    /\ c.at = "store" => c.loaded = derivationIndex
    /\ c.at = "insert" => Issued(c.terms.invoiceId) /\ c.terms.invoiceId \notin DOMAIN invoices

CreatesTell == \A l \in Lines : CreateTells(call[l])

OneWindow == Undisturbed => \A k, l \in Lines : InWindow(k) /\ InWindow(l) => k = l

Indices == LedgerTells /\ CreatesTell /\ OneWindow

\* Neither server nor creates that have an address move.
Rests ==
  /\ UNCHANGED server
  /\ \A k \in Lines : call'[k].at \in {"load", "store", "insert"} =>
       /\ call'[k].at = call[k].at
       /\ call'[k].terms = call[k].terms /\ call'[k].loaded = call[k].loaded

\* A call that changes to one without an address.
LEMMA CallRests ==
  ASSUME UNCHANGED server, DOMAIN call = Lines, NEW l \in Lines, NEW c,
         call' = [call EXCEPT ![l] = c], c.at \notin {"load", "store", "insert"}
  PROVE  Rests
<1>1. \A k \in Lines : call'[k] = call[k] \/ call'[k].at \notin {"load", "store", "insert"}
  OBVIOUS
<1> QED
  BY <1>1 DEF Rests

\* A create that nobody awaits any more is where it was.
LEMMA LeftIsSame ==
  ASSUME NEW c, CallFits(c), c.at \in {"request"} \cup Creating, c.method = createInvoice
  PROVE  LET d == [c EXCEPT !.live = FALSE] IN
         /\ d.at = c.at /\ d.method = c.method
         /\ d.at \in {"load", "store", "insert"} => d.terms = c.terms /\ d.loaded = c.loaded
OBVIOUS

LEMMA AbandonedRests ==
  ASSUME Calls, NEW b, NEW k \in Lines
  PROVE  /\ \/ Abandoned(b)[k] = call[k] /\ k[1] # b
            \/ /\ k[1] = b /\ Abandoned(b)[k].at \in {"request"} \cup Creating
               /\ Abandoned(b)[k].method = createInvoice
            \/ k[1] = b /\ Abandoned(b)[k].at = "free"
         /\ Abandoned(b)[k].at \in {"load", "store", "insert"} =>
              /\ Abandoned(b)[k].at = call[k].at /\ Abandoned(b)[k].terms = call[k].terms
              /\ Abandoned(b)[k].loaded = call[k].loaded
<1>1. CASE k[1] # b
  BY <1>1 DEF Abandoned
<1>2. CASE k[1] = b /\ call[k].at \in {"request"} \cup Creating /\ call[k].method = createInvoice
  <2>1. Abandoned(b)[k] = [call[k] EXCEPT !.live = FALSE] /\ CallFits(call[k])
    BY <1>2 DEF Abandoned, Calls
  <2>2. PICK c : c = call[k]
    OBVIOUS
  <2>3. Abandoned(b)[k] = [c EXCEPT !.live = FALSE]
    BY <2>1, <2>2
  <2>4. LET d == [c EXCEPT !.live = FALSE] IN
        /\ d.at = c.at /\ d.method = c.method
        /\ d.at \in {"load", "store", "insert"} => d.terms = c.terms /\ d.loaded = c.loaded
    BY <1>2, <2>1, <2>2, LeftIsSame
  <2> QED
    BY <1>2, <2>2, <2>3, <2>4
<1>3. CASE k[1] = b /\ ~(call[k].at \in {"request"} \cup Creating /\ call[k].method = createInvoice)
  BY <1>3 DEF Abandoned, Free
<1> QED
  BY <1>1, <1>2, <1>3

\* Every step is one of these, or leaves server and addresses alone.
LEMMA MostRest ==
  ASSUME TypeOK, Calls, [Next]_vars
  PROVE  \/ Rests
         \/ Restart
         \/ \E l \in Lines : ServeDerive(l) \/ ServeLoad(l) \/ ServeStore(l) \/ ServeInsert(l)
<1>0. DOMAIN call = Lines
  BY DEF TypeOK
<1>1. ASSUME NEW l \in Lines, Submit(l) \/ IntervalFires(l)
      PROVE  Rests
  BY <1>0, <1>1, CallRests DEF Submit, IntervalFires, Sent
<1>2. ASSUME NEW l \in Lines, Fails(l)
      PROVE  Rests
  BY <1>0, <1>2, CallRests DEF Fails, Free
<1>3. ASSUME NEW l \in Lines, NEW contents, Reply(l, contents), UNCHANGED server
      PROVE  Rests
  <2> DEFINE r == [at |-> "response", method |-> call[l].method, asked |-> call[l].asked, live |-> TRUE,
                   bytes |-> Response(call[l].method, contents), said |-> contents]
  <2>1. call' = [call EXCEPT ![l] = IF call[l].live THEN r ELSE Free]
    BY <1>3 DEF Reply
  <2>2. r.at = "response" /\ Free.at = "free"
    BY DEF Free
  <2> HIDE DEF r
  <2>3. PICK c : c = IF call[l].live THEN r ELSE Free
    OBVIOUS
  <2>4. c.at \notin {"load", "store", "insert"} /\ call' = [call EXCEPT ![l] = c]
    BY <2>1, <2>2, <2>3
  <2> QED
    BY <1>0, <1>3, <2>4, CallRests
<1>4. ASSUME NEW l \in Lines, ServePrice(l)
      PROVE  Rests
  <2>1. PICK terms : call' = [call EXCEPT ![l] = Served(call[l], "derive", terms, 0)]
    BY <1>4 DEF ServePrice
  <2> QED
    BY <1>0, <1>4, <2>1, CallRests DEF ServePrice, Served
<1>5. ASSUME NEW l \in Lines, ServeGet(l) \/ ServeCheck(l) \/ NodeAnswers(l)
      PROVE  Rests
  <2>1. \/ Fails(l)
        \/ \E contents : Replies(l, contents)
        \/ \E terms : /\ call' = [call EXCEPT ![l] = Served(call[l], "balance", terms, 0)]
                      /\ UNCHANGED server
    BY <1>5 DEF ServeGet, ServeCheck, NodeAnswers
  <2> QED
    BY <1>0, <1>2, <1>3, <2>1, CallRests DEF Replies, Served
<1>6. ASSUME NEW l \in Lines, DeliverCreate(l) \/ DeliverGet(l) \/ DeliverCheck(l)
      PROVE  Rests
  <2>1. \/ call' = [call EXCEPT ![l] = Free]
        \/ \E m, contents : call' = [call EXCEPT ![l] = Sent(m, contents)]
    BY <1>6 DEF DeliverCreate, DeliverGet, DeliverCheck
  <2>2. Free.at = "free" /\ \A m, contents : Sent(m, contents).at = "request"
    BY DEF Free, Sent
  <2>3. UNCHANGED server
    BY <1>6 DEF DeliverCreate, DeliverGet, DeliverCheck
  <2> QED
    BY <1>0, <2>1, <2>2, <2>3, CallRests
<1>7. ASSUME NEW l \in Lines, CreateGoesOn(l)
      PROVE  Rests
  <2>1. \A k \in Lines \ {l} : call'[k] = call[k]
    BY <1>0, <1>7 DEF CreateGoesOn
  <2>2. call'[l] = [call[l] EXCEPT !.live = FALSE]
    BY <1>0, <1>7 DEF CreateGoesOn
  <2>3. CallFits(call[l]) /\ call[l].at \in {"request"} \cup Creating /\ call[l].method = createInvoice
    BY <1>7 DEF CreateGoesOn, Calls
  <2> QED
    BY <1>7, <2>1, <2>2, <2>3, LeftIsSame DEF CreateGoesOn, Rests
<1>8. ASSUME NEW b \in Browsers, NEW path, Load(b, path)
      PROVE  Rests
  <2>1. ASSUME NEW k \in Lines
        PROVE  call'[k] = Abandoned(b)[k] \/ call'[k].at = "request"
    <3>1. CASE call' = Abandoned(b)
      BY <3>1
    <3>2. ASSUME NEW l \in Lines,
                 call' = [Abandoned(b) EXCEPT ![l] = Sent(getInvoice, IdRequest(path))]
          PROVE  call'[k] = Abandoned(b)[k] \/ call'[k].at = "request"
      <4>1. Sent(getInvoice, IdRequest(path)).at = "request" /\ DOMAIN Abandoned(b) = Lines
        BY DEF Sent, Abandoned
      <4> QED
        BY <3>2, <4>1
    <3> QED
      BY <1>8, <3>1, <3>2 DEF Load
  <2>2. UNCHANGED server
    BY <1>8 DEF Load
  <2> QED
    BY <2>1, <2>2, AbandonedRests DEF Rests
<1>9. CASE Tick \/ UNCHANGED vars \/ \E b \in Browsers : \E v \in Payments : Pay(b, v)
  BY <1>9 DEF Tick, Pay, vars, Rests
<1> QED
  BY <1>1, <1>2, <1>4, <1>5, <1>6, <1>7, <1>8, <1>9 DEF Next, DeliverError, CallFails, ServeDeriveFails

\* Two addresses of the key with different indices differ.
LEMMA NextIsNotIssued ==
  ASSUME TypeOK, derivationIndex < Len(Addresses)
  PROVE  ~Issued(Addresses[derivationIndex + 1])
<1>1. derivationIndex \in Nat /\ derivationIndex + 1 \in DOMAIN Addresses
  BY AddressIsId DEF TypeOK
<1>2. \A i \in DOMAIN Addresses : i \in Nat
  <2>1. Addresses \in Seq(STRING)
    BY SystemAssumption
  <2> QED
    BY <2>1
<1>3. \A i \in DOMAIN Addresses : i # derivationIndex + 1 => Addresses[i] # Addresses[derivationIndex + 1]
  BY <1>1, SystemAssumption
<1> QED
  BY <1>1, <1>2, <1>3 DEF Issued

LEMMA IndicesInit == Init => Indices
BY DEF Init, Indices, LedgerTells, CreatesTell, CreateTells, OneWindow, InWindow, Free

LEMMA IndicesRest ==
  ASSUME Indices, Rests
  PROVE  Indices'
<1>1. LedgerTells'
  BY DEF Indices, Rests, LedgerTells, Issued, Undisturbed, server
<1>2. CreatesTell'
  BY DEF Indices, Rests, CreatesTell, CreateTells, Issued, Undisturbed, server
<1>3. OneWindow'
  BY DEF Indices, Rests, OneWindow, InWindow, Undisturbed, server
<1> QED
  BY <1>1, <1>2, <1>3 DEF Indices

LEMMA IndicesDerive ==
  ASSUME TypeOK, Calls, Indices, NEW l \in Lines, ServeDerive(l)
  PROVE  Indices'
<1> DEFINE terms == [call[l].terms EXCEPT !.invoiceId = Addresses[derivationIndex + 1]]
<1>1. /\ call'[l] = Served(call[l], "load", terms, 0)
      /\ \A k \in Lines \ {l} : call'[k] = call[k]
      /\ call[l].at = "derive"
      /\ derivationIndex < Len(Addresses)
      /\ derivationIndex' = derivationIndex /\ invoices' = invoices /\ restarts' = restarts
  BY DEF ServeDerive, TypeOK
<1>2. terms.invoiceId = Addresses[derivationIndex + 1]
  <2>1. call[l].terms \in Draft
    BY <1>1, FitsMeans DEF Calls, Creating
  <2> QED
    BY <2>1 DEF Draft
<1>3. Undisturbed' => Undisturbed /\ \A k \in Lines : ~InWindow(k)
  BY DEF Undisturbed, ServeDerive
<1> HIDE DEF terms
<1>4. LedgerTells'
  BY <1>1, <1>3 DEF Indices, LedgerTells, Issued
<1>5. CreateTells(call[l])'
  BY <1>1, <1>2 DEF CreateTells, Served
<1>6. \A k \in Lines \ {l} : CreateTells(call[k])'
  BY <1>1, <1>3 DEF Indices, CreatesTell, CreateTells, Issued
<1>7. OneWindow'
  BY <1>1, <1>3 DEF OneWindow, InWindow
<1> QED
  BY <1>4, <1>5, <1>6, <1>7 DEF Indices, CreatesTell

LEMMA IndicesLoad ==
  ASSUME TypeOK, Calls, Indices, NEW l \in Lines, ServeLoad(l)
  PROVE  Indices'
<1>1. /\ call'[l] = Served(call[l], "store", call[l].terms, derivationIndex)
      /\ \A k \in Lines \ {l} : call'[k] = call[k]
      /\ call[l].at = "load"
      /\ derivationIndex' = derivationIndex /\ invoices' = invoices /\ restarts' = restarts
      /\ creates' = creates
  BY DEF ServeLoad, TypeOK, server
<1>2. Undisturbed' <=> Undisturbed
  BY <1>1 DEF Undisturbed
<1>3. LedgerTells'
  BY <1>1, <1>2 DEF Indices, LedgerTells, Issued
<1>4. CreateTells(call[l])'
  BY <1>1, <1>2 DEF CreateTells, Served, Indices, CreatesTell
<1>5. \A k \in Lines \ {l} : CreateTells(call[k])'
  BY <1>1, <1>2 DEF Indices, CreatesTell, CreateTells, Issued
<1>6. OneWindow'
  BY <1>1, <1>2 DEF Indices, OneWindow, InWindow, Served
<1> QED
  BY <1>3, <1>4, <1>5, <1>6 DEF Indices, CreatesTell

LEMMA IndicesStore ==
  ASSUME TypeOK, Calls, Indices, NEW l \in Lines, ServeStore(l)
  PROVE  Indices'
<1>1. /\ call'[l] = Served(call[l], "insert", call[l].terms, 0)
      /\ \A k \in Lines \ {l} : call'[k] = call[k]
      /\ call[l].at = "store"
      /\ derivationIndex' = call[l].loaded + 1 /\ invoices' = invoices /\ restarts' = restarts
      /\ creates' = creates
  BY DEF ServeStore, TypeOK
<1>2. Undisturbed' <=> Undisturbed
  BY <1>1 DEF Undisturbed
<1>3. \A i \in DOMAIN Addresses : i \in Nat
  <2>1. Addresses \in Seq(STRING)
    BY SystemAssumption
  <2> QED
    BY <2>1
<1>4. ASSUME Undisturbed
      PROVE  /\ derivationIndex \in Nat /\ derivationIndex' = derivationIndex + 1
             /\ derivationIndex + 1 \in DOMAIN Addresses
             /\ call[l].terms.invoiceId = Addresses[derivationIndex + 1]
             /\ ~Issued(call[l].terms.invoiceId)
             /\ \A k \in Lines \ {l} : ~InWindow(k)
             /\ \A id : Issued(id) => Issued(id)'
  <2>1. /\ derivationIndex < Len(Addresses) /\ call[l].loaded = derivationIndex
        /\ call[l].terms.invoiceId = Addresses[derivationIndex + 1]
    BY <1>1, <1>4 DEF Indices, CreatesTell, CreateTells
  <2>2. derivationIndex \in Nat /\ derivationIndex' = derivationIndex + 1
    BY <1>1, <2>1 DEF TypeOK
  <2>3. \A k \in Lines \ {l} : ~InWindow(k)
    BY <1>1, <1>4 DEF Indices, OneWindow, InWindow
  <2>4. \A id : Issued(id) => Issued(id)'
    BY <1>3, <2>2 DEF Issued
  <2>5. derivationIndex + 1 \in DOMAIN Addresses
    BY <2>1, AddressIsId
  <2>6. ~Issued(call[l].terms.invoiceId)
    BY <2>1, NextIsNotIssued
  <2> QED
    BY <2>1, <2>2, <2>3, <2>4, <2>5, <2>6
<1>5. LedgerTells'
  <2>1. ASSUME Undisturbed, NEW id \in DOMAIN invoices
        PROVE  Issued(id)'
    BY <1>4, <2>1 DEF Indices, LedgerTells
  <2> QED
    BY <1>1, <1>2, <2>1 DEF Indices, LedgerTells
<1>6. CreateTells(call[l])'
  <2>1. ASSUME Undisturbed
        PROVE  Issued(call[l].terms.invoiceId)' /\ call'[l].terms.invoiceId \notin DOMAIN invoices'
    <3>1. call'[l].terms = call[l].terms
      BY <1>1 DEF Served
    <3>2. call[l].terms.invoiceId \notin DOMAIN invoices
      BY <1>4, <2>1 DEF Indices, LedgerTells
    <3>3. derivationIndex + 1 <= derivationIndex'
      BY <1>4, <2>1
    <3> QED
      BY <1>1, <1>4, <2>1, <3>1, <3>2, <3>3 DEF Issued
  <2>2. call'[l].at = "insert"
    BY <1>1 DEF Served
  <2> QED
    BY <1>2, <2>1, <2>2 DEF CreateTells
<1>7. ASSUME NEW k \in Lines \ {l}
      PROVE  CreateTells(call[k])'
  <2>1. ASSUME Undisturbed, call[k].at = "insert"
        PROVE  Issued(call[k].terms.invoiceId)' /\ call[k].terms.invoiceId \notin DOMAIN invoices
    <3>1. Issued(call[k].terms.invoiceId) /\ call[k].terms.invoiceId \notin DOMAIN invoices
      BY <2>1 DEF Indices, CreatesTell, CreateTells
    <3>2. PICK id : id = call[k].terms.invoiceId
      OBVIOUS
    <3>3. Issued(id)'
      BY <1>4, <2>1, <3>1, <3>2
    <3> QED
      BY <1>1, <3>1, <3>2, <3>3
  <2>2. Undisturbed => call[k].at \notin {"load", "store"}
    BY <1>4 DEF InWindow
  <2> QED
    BY <1>1, <1>2, <2>1, <2>2 DEF CreateTells
<1>8. OneWindow'
  BY <1>1, <1>2, <1>4 DEF OneWindow, InWindow, Served
<1> QED
  BY <1>5, <1>6, <1>7, <1>8 DEF Indices, CreatesTell

\* The call that entered the ledger has been answered.
LEMMA EnteredIsGone ==
  ASSUME TypeOK, NEW l \in Lines, ServeInsert(l)
  PROVE  /\ \A k \in Lines \ {l} : call'[k] = call[k]
         /\ call'[l].at \in {"response", "free"}
BY DEF ServeInsert, Reply, Free, TypeOK

LEMMA IndicesInsert ==
  ASSUME TypeOK, Calls, Indices, NEW l \in Lines, ServeInsert(l)
  PROVE  Indices'
<1> DEFINE id == call[l].terms.invoiceId
<1>1. /\ derivationIndex' = derivationIndex /\ restarts' = restarts
      /\ call[l].at = "insert"
  BY DEF ServeInsert
<1>2. Undisturbed' => Undisturbed /\ \A k \in Lines \ {l} : call[k].at # "insert"
  BY DEF Undisturbed, ServeInsert
<1>3. DOMAIN invoices' = DOMAIN invoices \cup {id}
  BY Entered
<1>4. \A i \in DOMAIN invoices' : invoices'[i] = IF i = id THEN call[l].terms ELSE invoices[i]
  BY Entered
<1>5. LedgerTells'
  <2>1. \A i \in DOMAIN invoices' : invoices'[i].invoiceId = i
    BY <1>3, <1>4 DEF Indices, LedgerTells
  <2>2. ASSUME Undisturbed', NEW i \in DOMAIN invoices'
        PROVE  Issued(i)'
    <3>1. Undisturbed /\ Issued(id)
      BY <1>1, <1>2, <2>2 DEF Indices, CreatesTell, CreateTells
    <3>2. Issued(i)
      BY <1>3, <3>1 DEF Indices, LedgerTells
    <3> QED
      BY <1>1, <3>2 DEF Issued
  <2> QED
    BY <2>1, <2>2 DEF LedgerTells
<1>6. ASSUME NEW k \in Lines
      PROVE  CreateTells(call[k])'
  <2>1. CASE k = l
    BY <2>1, EnteredIsGone DEF CreateTells
  <2>2. CASE k # l
    <3>1. call'[k] = call[k] /\ CreateTells(call[k])
      BY <2>2, EnteredIsGone DEF Indices, CreatesTell
    <3>2. Undisturbed' => Undisturbed /\ call[k].at # "insert"
      BY <1>2, <2>2
    <3> QED
      BY <1>1, <3>1, <3>2 DEF CreateTells
  <2> QED
    BY <2>1, <2>2
<1>7. OneWindow'
  BY <1>2, EnteredIsGone DEF Indices, OneWindow, InWindow
<1> QED
  BY <1>5, <1>6, <1>7 DEF Indices, CreatesTell

LEMMA IndicesRestart ==
  ASSUME TypeOK, Restart
  PROVE  Indices' /\ restarts' # 0
<1>1. restarts' # 0 /\ DOMAIN invoices' = {}
  BY DEF Restart, TypeOK
<1>2. ~Undisturbed'
  BY <1>1 DEF Undisturbed
<1> QED
  BY <1>1, <1>2 DEF Indices, LedgerTells, CreatesTell, CreateTells, OneWindow

LEMMA IndicesStep ==
  ASSUME TypeOK, Calls, Indices, [Next]_vars
  PROVE  Indices'
BY MostRest, IndicesRest, IndicesRestart, IndicesDerive, IndicesLoad, IndicesStore, IndicesInsert

-----------------------------------------------------------------------------
\* Money comes in, and invoices stay unless creates collide or the server starts again.
Onward ==
  /\ \A id \in Ids : received[id] <= received'[id]
  /\ Undisturbed' =>
       /\ Undisturbed
       /\ \A id \in DOMAIN invoices : id \in DOMAIN invoices' /\ invoices'[id] = invoices[id]

LEMMA MoneyComesIn ==
  ASSUME TypeOK, Filled, [Next]_vars
  PROVE  \A id \in Ids : received[id] <= received'[id]
<1>1. CASE \E b \in Browsers : \E v \in Payments : Pay(b, v)
  <2>1. PICK b \in Browsers, v \in Payments : Pay(b, v)
    BY <1>1
  <2>2. v \in Nat \ {0}
    BY SystemAssumption
  <2>3. PICK id \in Ids : received' = [received EXCEPT ![id] = received[id] + v]
    BY <2>1 DEF Pay, Filled, Terms
  <2> QED
    BY <2>2, <2>3 DEF TypeOK
<1>2. CASE ~\E b \in Browsers : \E v \in Payments : Pay(b, v)
  <2>1. received' = received
    BY <1>2 DEF Next, vars, world, Submit, IntervalFires, ServePrice, ServeDerive, ServeDeriveFails,
       ServeLoad, ServeStore, ServeInsert, ServeGet, ServeCheck, NodeAnswers, DeliverCreate,
       DeliverGet, DeliverCheck, DeliverError, CallFails, CreateGoesOn, Fails, Replies, Load,
       Restart, Tick
  <2>2. \A id \in Ids : received[id] \in Nat
    BY DEF TypeOK
  <2> QED
    BY <2>1, <2>2
<1> QED
  BY <1>1, <1>2

LEMMA GoesOnward ==
  ASSUME TypeOK, Calls, Filled, Indices, [Next]_vars
  PROVE  Onward
<1>1. CASE Rests
  BY <1>1, MoneyComesIn DEF Onward, Rests, Undisturbed, server
<1>2. CASE Restart
  BY <1>2, MoneyComesIn, IndicesRestart DEF Onward, Undisturbed
<1>3. ASSUME NEW l \in Lines, ServeDerive(l) \/ ServeLoad(l) \/ ServeStore(l)
      PROVE  Onward
  <2>1. invoices' = invoices /\ (Undisturbed' => Undisturbed)
    BY <1>3 DEF ServeDerive, ServeLoad, ServeStore, Undisturbed, server
  <2> QED
    BY <2>1, MoneyComesIn DEF Onward
<1>4. ASSUME NEW l \in Lines, ServeInsert(l)
      PROVE  Onward
  <2>1. call[l].at = "insert" /\ (Undisturbed' => Undisturbed)
    BY <1>4 DEF ServeInsert, Undisturbed
  <2>2. Undisturbed => call[l].terms.invoiceId \notin DOMAIN invoices
    BY <2>1 DEF Indices, CreatesTell, CreateTells
  <2>3. DOMAIN invoices' = DOMAIN invoices \cup {call[l].terms.invoiceId}
    BY <1>4, Entered
  <2>4. \A i \in DOMAIN invoices' :
          invoices'[i] = IF i = call[l].terms.invoiceId THEN call[l].terms ELSE invoices[i]
    BY <1>4, Entered
  <2> QED
    BY <2>1, <2>2, <2>3, <2>4, MoneyComesIn DEF Onward
<1> QED
  BY <1>1, <1>2, <1>3, <1>4, MostRest

-----------------------------------------------------------------------------
(***************************************************************************)
(* What pages and answers tell.  None of OwnAmount, ReceiptAgrees and      *)
(* PaidPageFunded is inductive: what a page shows comes out of answers,    *)
(* answers out of the ledger or out of an invoice that was looked up       *)
(* before the node was asked, and more is paid while an answer is on its   *)
(* way.  The invariant says of each what the next one relies on.           *)
(***************************************************************************)
Kept(terms) == terms.invoiceId \in DOMAIN invoices /\ invoices[terms.invoiceId] = terms

Agrees(status, remaining, id) ==
  /\ id \in DOMAIN invoices
  /\ Rank(status) <= Rank(Status(invoices[id].digitalvalue, received[id]))
  /\ remaining >= Remaining(invoices[id].digitalvalue, received[id])

\* A call by which a page asks for its invoice or its status.
Asks(c) == c.at \in {"request", "balance", "response"} /\ c.method # createInvoice

\* A call is about the invoice of the page that made it, and what it brings holds.
CallTells(c, p) ==
  /\ Asks(c) => c.asked.invoiceId = p.path
  /\ Asks(c) /\ c.method = checkInvoice => p.terms # NoTerms
  /\ c.at = "balance" /\ Undisturbed => c.terms.invoiceId = p.path /\ Kept(c.terms)
  /\ c.at = "response" =>
       /\ c.method = createInvoice => c.said.fiatvalue = c.asked.value
       /\ c.method = getInvoice => c.said.invoiceId = p.path
       /\ c.method # checkInvoice /\ Undisturbed => Kept(c.said)
       /\ c.method = checkInvoice /\ c.said.status # "expired" /\ Undisturbed =>
            Agrees(c.said.status, c.said.digitalvalueremaining, p.path)

\* A page holds the invoice of its location, the amount wanted, and a status that holds.
PageTells(p, amount) ==
  /\ p.stage = "open" => p.terms # NoTerms
  /\ p.terms # NoTerms => p.terms.invoiceId = p.path /\ (Undisturbed => Kept(p.terms))
  /\ p.remaining = Undefined => p.status = "unpaid"
  /\ p.remaining # Undefined => p.terms # NoTerms
  /\ p.remaining # Undefined /\ p.status # "expired" /\ Undisturbed =>
       Agrees(p.status, p.remaining, p.path)
  /\ amount # 0 /\ Undisturbed => p.path \in DOMAIN invoices /\ invoices[p.path].fiatvalue = amount

CallsTell == \A l \in Lines : CallTells(call[l], page[l[1]])

PagesTell == \A b \in Browsers : PageTells(page[b], wanted[b])

Tells == CallsTell /\ PagesTell

-----------------------------------------------------------------------------
\* Terms of the type are not the terms of an empty page.
LEMMA TermsAreTerms == \A terms \in Terms : terms # NoTerms
<1>1. "" \notin Ids
  BY SystemAssumption
<1>2. \A terms \in Terms : terms.invoiceId \in Ids
  BY DEF Terms
<1>3. NoTerms.invoiceId = ""
  BY DEF NoTerms
<1> QED
  BY <1>1, <1>2, <1>3

LEMMA KeptOn ==
  ASSUME Onward, Undisturbed', NEW terms, Kept(terms)
  PROVE  Kept(terms)'
BY DEF Onward, Kept

LEMMA AgreesOn ==
  ASSUME TypeOK, TypeOK', Onward, Undisturbed',
         NEW status \in Statuses \ {"expired"}, NEW remaining \in Nat, NEW id,
         Agrees(status, remaining, id)
  PROVE  Agrees(status, remaining, id)'
<1> DEFINE due == invoices[id].digitalvalue
<1>1. id \in DOMAIN invoices /\ id \in Ids
  BY DEF Agrees, TypeOK
<1>2. id \in DOMAIN invoices' /\ invoices'[id] = invoices[id]
  BY <1>1 DEF Onward
<1>3. due \in Nat /\ received[id] \in Nat /\ received'[id] \in Nat /\ received[id] <= received'[id]
  BY <1>1 DEF TypeOK, Terms, Onward
<1> HIDE DEF due
<1>4. /\ Rank(Status(due, received[id])) <= Rank(Status(due, received'[id]))
      /\ Remaining(due, received'[id]) <= Remaining(due, received[id])
  BY <1>3, AmountOrdersStatus
<1>5. /\ Rank(status) \in Nat /\ Rank(Status(due, received[id])) \in Nat
      /\ Rank(Status(due, received'[id])) \in Nat
      /\ Remaining(due, received[id]) \in Nat /\ Remaining(due, received'[id]) \in Nat
  BY <1>3, RankIsNumber, StatusOfAmount
<1>6. /\ Rank(status) <= Rank(Status(due, received[id]))
      /\ remaining >= Remaining(due, received[id])
  BY DEF Agrees, due
<1>7. /\ Rank(status) <= Rank(Status(due, received'[id]))
      /\ remaining >= Remaining(due, received'[id])
  BY <1>4, <1>5, <1>6
<1> QED
  BY <1>2, <1>7 DEF Agrees, due

\* The verdict about what an address has received, or about nothing, agrees with the ledger.
LEMMA VerdictAgrees ==
  ASSUME TypeOK, NEW id \in DOMAIN invoices, NEW paid \in {received[id], 0}
  PROVE  Agrees(Status(invoices[id].digitalvalue, paid),
                Remaining(invoices[id].digitalvalue, paid), id)
<1> DEFINE due == invoices[id].digitalvalue
<1>1. due \in Nat /\ received[id] \in Nat /\ paid \in Nat /\ paid <= received[id]
  BY DEF TypeOK, Terms
<1> HIDE DEF due
<1>2. /\ Rank(Status(due, paid)) <= Rank(Status(due, received[id]))
      /\ Remaining(due, received[id]) <= Remaining(due, paid)
  BY <1>1, AmountOrdersStatus
<1>3. Remaining(due, received[id]) \in Nat /\ Remaining(due, paid) \in Nat
  BY <1>1, StatusOfAmount
<1> QED
  BY <1>2, <1>3 DEF Agrees, due

LEMMA CallOn ==
  ASSUME TypeOK, TypeOK', Onward, NEW c, CallFits(c), NEW p, CallTells(c, p)
  PROVE  CallTells(c, p)'
<1>1. Undisturbed' => Undisturbed
  BY DEF Onward
<1>2. c.at = "balance" /\ Undisturbed' => c.terms.invoiceId = p.path /\ Kept(c.terms)'
  BY <1>1, KeptOn DEF CallTells
<1>3. c.at = "response" /\ c.method # checkInvoice /\ Undisturbed' => Kept(c.said)'
  BY <1>1, KeptOn DEF CallTells
<1>4. ASSUME c.at = "response", c.method = checkInvoice, c.said.status # "expired", Undisturbed'
      PROVE  Agrees(c.said.status, c.said.digitalvalueremaining, p.path)'
  <2>1. c.said \in [status : Statuses, digitalvalueremaining : Nat]
    BY <1>4, FitsMeans, SaidIsTyped
  <2>2. c.said.status \in Statuses \ {"expired"} /\ c.said.digitalvalueremaining \in Nat
    BY <1>4, <2>1
  <2>3. Agrees(c.said.status, c.said.digitalvalueremaining, p.path)
    BY <1>1, <1>4 DEF CallTells
  <2> QED
    BY <1>4, <2>2, <2>3, AgreesOn
<1> QED
  BY <1>2, <1>3, <1>4 DEF CallTells

LEMMA PageOn ==
  ASSUME TypeOK, TypeOK', Onward, NEW p \in Page, NEW amount, PageTells(p, amount)
  PROVE  PageTells(p, amount)'
<1>1. Undisturbed' => Undisturbed
  BY DEF Onward
<1>2. p.terms # NoTerms /\ Undisturbed' => Kept(p.terms)'
  BY <1>1, KeptOn DEF PageTells
<1>3. ASSUME p.remaining # Undefined, p.status # "expired", Undisturbed'
      PROVE  Agrees(p.status, p.remaining, p.path)'
  <2>1. p.status \in Statuses \ {"expired"} /\ p.remaining \in Nat
    BY <1>3 DEF Page
  <2> QED
    BY <1>1, <1>3, <2>1, AgreesOn DEF PageTells
<1>4. amount # 0 /\ Undisturbed' =>
        p.path \in DOMAIN invoices' /\ invoices'[p.path].fiatvalue = amount
  BY <1>1 DEF PageTells, Onward
<1> QED
  BY <1>2, <1>3, <1>4 DEF PageTells

\* Pages and calls that a step leaves alone tell what they told.
LEMMA CallStays ==
  ASSUME TypeOK, TypeOK', Calls, Tells, Onward, NEW l \in Lines, call'[l] = call[l],
         page'[l[1]] = page[l[1]]
  PROVE  CallTells(call[l], page[l[1]])'
<1>1. CallFits(call[l]) /\ CallTells(call[l], page[l[1]])
  BY DEF Calls, Tells, CallsTell
<1>2. PICK c, p : c = call[l] /\ p = page[l[1]]
  OBVIOUS
<1>3. CallTells(c, p)'
  BY <1>1, <1>2, CallOn
<1> QED
  BY <1>2, <1>3

LEMMA PageStays ==
  ASSUME TypeOK, TypeOK', Tells, Onward, NEW b \in Browsers,
         page'[b] = page[b], wanted'[b] = wanted[b]
  PROVE  PageTells(page[b], wanted[b])'
<1>1. PageTells(page[b], wanted[b]) /\ page[b] \in Page
  BY DEF Tells, PagesTell, TypeOK
<1>2. PICK p, amount : p = page[b] /\ amount = wanted[b]
  OBVIOUS
<1>3. PageTells(p, amount)'
  BY <1>1, <1>2, PageOn
<1> QED
  BY <1>2, <1>3

\* What a location holds when it is loaded tells nothing yet.
LEMMA FreshTells ==
  ASSUME NEW path, NEW amount,
         amount # 0 /\ Undisturbed => path \in DOMAIN invoices /\ invoices[path].fiatvalue = amount
  PROVE  PageTells(Fresh(path), amount)
BY DEF Fresh, PageTells

LEMMA TellsInit == Init => Tells
<1> SUFFICES ASSUME Init
             PROVE  Tells
  OBVIOUS
<1>1. CallsTell
  BY DEF Init, CallsTell, CallTells, Asks, Free
<1>2. \A b \in Browsers : page[b] = Fresh("/") /\ wanted[b] = 0
  BY DEF Init
<1> QED
  BY <1>1, <1>2, FreshTells DEF Tells, PagesTell

\* Nothing on the line, and a call that is just made, tell nothing yet.
LEMMA SentTells ==
  ASSUME NEW m, NEW contents, NEW p,
         m # createInvoice => contents.invoiceId = p.path,
         m = checkInvoice => p.terms # NoTerms
  PROVE  CallTells(Free, p) /\ CallTells(Sent(m, contents), p)
BY DEF CallTells, Asks, Free, Sent

\* Only creates are on their way from a browser that shows the form.
LEMMA FormCreates ==
  ASSUME TypeOK, Calls, Tells, NEW l \in Lines, page[l[1]].path = "/"
  PROVE  ~Asks(call[l])
<1>1. CallFits(call[l])
  BY DEF Calls
<1>2. Asks(call[l]) => call[l].asked.invoiceId = "/"
  BY DEF Tells, CallsTell, CallTells
<1>3. Asks(call[l]) => call[l].asked.invoiceId \in Ids
  BY <1>1, FitsMeans, AskedIsTyped, ThreeMethods DEF Asks
<1>4. "/" \notin Ids
  BY SystemAssumption
<1> QED
  BY <1>2, <1>3, <1>4

(***************************************************************************)
(* A step on one line of a browser, after which this line and the page     *)
(* tell what holds.                                                        *)
(***************************************************************************)
LEMMA LineStep ==
  ASSUME TypeOK, TypeOK', Calls, Tells, Onward,
         NEW l \in Lines, NEW c, NEW p \in Page, NEW amount,
         call' = [call EXCEPT ![l] = c],
         page' = [page EXCEPT ![l[1]] = p],
         wanted' = [wanted EXCEPT ![l[1]] = amount],
         \/ page[l[1]].path = "/"
         \/ p.path = page[l[1]].path /\ (page[l[1]].terms # NoTerms => p.terms # NoTerms),
         CallTells(c, p)', PageTells(p, amount)'
  PROVE  Tells'
<1> DEFINE b == l[1]
<1>1. /\ b \in Browsers /\ call'[l] = c /\ page'[b] = p /\ wanted'[b] = amount
      /\ \A x \in Browsers \ {b} : page'[x] = page[x] /\ wanted'[x] = wanted[x]
      /\ \A k \in Lines \ {l} : call'[k] = call[k]
  BY LineOf DEF TypeOK
<1>2. PagesTell'
  <2> SUFFICES ASSUME NEW x \in Browsers
               PROVE  PageTells(page[x], wanted[x])'
    BY DEF PagesTell
  <2>1. CASE x = b
    BY <1>1, <2>1
  <2>2. CASE x # b
    BY <1>1, <2>2, PageStays
  <2> QED
    BY <2>1, <2>2
<1>3. CallsTell'
  <2> SUFFICES ASSUME NEW k \in Lines
               PROVE  CallTells(call[k], page[k[1]])'
    BY DEF CallsTell
  <2>1. CASE k = l
    BY <1>1, <2>1
  <2>2. CASE k # l /\ k[1] # b
    BY <1>1, <2>2, LineOf, CallStays
  <2>3. CASE k # l /\ k[1] = b
    <3>1. PICK d, q : d = call[k] /\ q = page[b]
      OBVIOUS
    <3>2. CallFits(d) /\ CallTells(d, q)
      BY <2>3, <3>1 DEF Calls, Tells, CallsTell
    <3>3. CallTells(d, q)'
      BY <3>2, CallOn
    <3>4. CASE q.path = "/"
      <4>1. ~Asks(d)
        BY <2>3, <3>1, <3>4, FormCreates
      <4>2. d.at # "balance" /\ (d.at = "response" => d.method = createInvoice)
        BY <3>2, <4>1, FitsMeans, ThreeMethods DEF Asks
      <4>3. CallTells(d, p)'
        BY <3>3, <4>1, <4>2, ThreeMethods DEF CallTells
      <4> QED
        BY <1>1, <2>3, <3>1, <4>3
    <3>5. CASE p.path = q.path /\ (q.terms # NoTerms => p.terms # NoTerms)
      <4>1. CallTells(d, p)'
        BY <3>3, <3>5 DEF CallTells
      <4> QED
        BY <1>1, <2>3, <3>1, <4>1
    <3> QED
      BY <3>1, <3>4, <3>5
  <2> QED
    BY <2>1, <2>2, <2>3
<1> QED
  BY <1>2, <1>3 DEF Tells

\* The same, when line and page tell something that goes on to hold.
LEMMA QuietStep ==
  ASSUME TypeOK, TypeOK', Calls, Tells, Onward,
         NEW l \in Lines, NEW c, NEW p \in Page, NEW amount,
         call' = [call EXCEPT ![l] = c],
         page' = [page EXCEPT ![l[1]] = p],
         wanted' = [wanted EXCEPT ![l[1]] = amount],
         \/ page[l[1]].path = "/"
         \/ p.path = page[l[1]].path /\ (page[l[1]].terms # NoTerms => p.terms # NoTerms),
         CallFits(c), CallTells(c, p), PageTells(p, amount)
  PROVE  Tells'
<1>1. CallTells(c, p)' /\ PageTells(p, amount)'
  BY CallOn, PageOn
<1> QED
  BY <1>1, LineStep

\* When only the line changes.
LEMMA OnlyLineStep ==
  ASSUME TypeOK, TypeOK', Calls, Tells, Onward,
         UNCHANGED <<page, wanted>>, NEW l \in Lines, NEW c, call' = [call EXCEPT ![l] = c],
         CallTells(c, page[l[1]])'
  PROVE  Tells'
<1> DEFINE b == l[1]
<1>1. PICK p, amount : p = page[b] /\ amount = wanted[b]
  OBVIOUS
<1>2. b \in Browsers /\ p \in Page /\ PageTells(p, amount)
  BY <1>1, LineOf DEF TypeOK, Tells, PagesTell
<1>3. page' = [page EXCEPT ![b] = p] /\ wanted' = [wanted EXCEPT ![b] = amount]
  BY <1>1, <1>2 DEF TypeOK
<1>4. PageTells(p, amount)'
  BY <1>2, PageOn
<1>5. CallTells(c, p)'
  BY <1>1
<1> QED
  BY <1>1, <1>2, <1>3, <1>4, <1>5, LineStep

LEMMA CallStep ==
  ASSUME TypeOK, TypeOK', Calls, Tells, Onward,
         UNCHANGED <<page, wanted>>, NEW l \in Lines, NEW c, call' = [call EXCEPT ![l] = c],
         CallFits(c), CallTells(c, page[l[1]])
  PROVE  Tells'
<1>1. PICK p : p = page[l[1]]
  OBVIOUS
<1>2. CallTells(c, p)'
  BY <1>1, CallOn
<1> QED
  BY <1>1, <1>2, OnlyLineStep

-----------------------------------------------------------------------------
\* An error leaves what the page tells.
LEMMA ErrorTells ==
  ASSUME NEW p \in Page, NEW amount, PageTells(p, amount),
         NEW e, e \in {[p EXCEPT !.refused = TRUE], [p EXCEPT !.error = TRUE],
                       [p EXCEPT !.stage = "failed", !.error = TRUE]}
  PROVE  e \in Page /\ e.path = p.path /\ e.terms = p.terms /\ PageTells(e, amount)
<1>1. /\ e \in Page /\ e.path = p.path /\ e.terms = p.terms
      /\ e.status = p.status /\ e.remaining = p.remaining
      /\ e.stage = "open" => p.stage = "open"
  BY DEF Page
<1> QED
  BY <1>1 DEF PageTells

\* What an error does to the page of a call.
LEMMA ErrorIsError ==
  ASSUME TypeOK, Calls, NEW l \in Lines, call[l].at # "free", ShowError(l)
  PROVE  \/ page' = page
         \/ \E e \in {[page[l[1]] EXCEPT !.refused = TRUE], [page[l[1]] EXCEPT !.error = TRUE],
                      [page[l[1]] EXCEPT !.stage = "failed", !.error = TRUE]} :
              page' = [page EXCEPT ![l[1]] = e]
<1> DEFINE p == page[l[1]]
<1>1. call[l].method \in {createInvoice, getInvoice, checkInvoice}
  BY FitsMeans, ThreeMethods DEF Calls
<1>2. CASE ~call[l].live
  BY <1>2 DEF ShowError
<1>3. CASE call[l].live /\ call[l].method = createInvoice
  <2>1. page' = [page EXCEPT ![l[1]] = [p EXCEPT !.refused = TRUE]]
    BY <1>3, ThreeMethods DEF ShowError
  <2> QED
    BY <2>1
<1>4. CASE call[l].live /\ call[l].method = getInvoice
  <2>1. page' = [page EXCEPT ![l[1]] = [p EXCEPT !.stage = "failed", !.error = TRUE]]
    BY <1>4, ThreeMethods DEF ShowError
  <2> QED
    BY <2>1
<1>5. CASE call[l].live /\ call[l].method = checkInvoice
  <2>1. page' = [page EXCEPT ![l[1]] = [p EXCEPT !.error = TRUE]]
    BY <1>5, ThreeMethods DEF ShowError
  <2> QED
    BY <2>1
<1> QED
  BY <1>1, <1>2, <1>3, <1>4, <1>5

\* A call fails, or a create goes on without its page.
LEMMA TellsError ==
  ASSUME TypeOK, TypeOK', Calls, Tells, Onward, NEW l \in Lines, call[l].at # "free",
         ShowError(l), wanted' = wanted,
         NEW c, call' = [call EXCEPT ![l] = c], CallFits(c), \A p : CallTells(c, p)
  PROVE  Tells'
<1> DEFINE p == page[l[1]]
<1>1. /\ l[1] \in Browsers /\ p \in Page /\ PageTells(p, wanted[l[1]])
      /\ wanted' = [wanted EXCEPT ![l[1]] = wanted[l[1]]]
  BY LineOf DEF TypeOK, Tells, PagesTell
<1>2. CASE page' = page
  BY <1>2, CallStep
<1>3. ASSUME NEW e \in {[p EXCEPT !.refused = TRUE], [p EXCEPT !.error = TRUE],
                        [p EXCEPT !.stage = "failed", !.error = TRUE]},
             page' = [page EXCEPT ![l[1]] = e]
      PROVE  Tells'
  <2>1. e \in Page /\ e.path = p.path /\ e.terms = p.terms /\ PageTells(e, wanted[l[1]])
    BY <1>1, <1>3, ErrorTells
  <2>2. PICK amount : amount = wanted[l[1]]
    OBVIOUS
  <2>3. PageTells(e, amount) /\ wanted' = [wanted EXCEPT ![l[1]] = amount]
    BY <1>1, <2>1, <2>2
  <2>4. CallTells(c, e)
    OBVIOUS
  <2> QED
    BY <1>3, <2>1, <2>3, <2>4, QuietStep
<1> QED
  BY <1>2, <1>3, ErrorIsError

LEMMA TellsFails ==
  ASSUME TypeOK, TypeOK', Calls, Tells, Onward, NEW l \in Lines, call[l].at # "free", Fails(l)
  PROVE  Tells'
<1>1. \A p : CallTells(Free, p)
  BY DEF CallTells, Asks, Free
<1> QED
  BY <1>1, SentFits, TellsError DEF Fails

\* A create tells nothing before it is answered.
LEMMA CreatingTells ==
  ASSUME NEW c, CallFits(c), c.at \in {"request", "failed"} \cup Creating, c.method = createInvoice
  PROVE  \A p : CallTells(c, p)
BY ThreeMethods DEF CallTells, Asks, Creating

LEMMA TellsGoesOn ==
  ASSUME TypeOK, TypeOK', Calls, Tells, Onward, NEW l \in Lines, CreateGoesOn(l)
  PROVE  Tells'
<1>1. /\ CallFits(call[l]) /\ call[l].at \in {"request"} \cup Creating
      /\ call[l].method = createInvoice
  BY DEF CreateGoesOn, Calls
<1>2. PICK c : c = [call[l] EXCEPT !.live = FALSE]
  OBVIOUS
<1>3. CallFits(c) /\ c.at = call[l].at /\ c.method = createInvoice
  BY <1>1, <1>2, LeftFits, LeftIsSame
<1>4. \A p : CallTells(c, p)
  BY <1>1, <1>3, CreatingTells
<1>5. call' = [call EXCEPT ![l] = c] /\ ShowError(l) /\ wanted' = wanted
  BY <1>2 DEF CreateGoesOn
<1>6. call[l].at # "free"
  BY <1>1 DEF Creating
<1> QED
  BY <1>3, <1>4, <1>5, <1>6, TellsError

LEMMA TellsDeliver ==
  ASSUME TypeOK, TypeOK', Calls, Filled, Tells, Onward, NEW l \in Lines,
         DeliverCreate(l) \/ DeliverGet(l) \/ DeliverCheck(l)
  PROVE  Tells'
<1> DEFINE c == call[l]  p == page[l[1]]
<1>1. /\ c.at = "response" /\ c.asked \in Asked(c.method) /\ c.said \in Said(c.method)
      /\ Contents(c.method.response, Incoming(l)) = c.said
      /\ CallTells(c, p)
  <2>1. c.at = "response"
    BY DEF DeliverCreate, DeliverGet, DeliverCheck, Answered
  <2> QED
    BY <2>1, Heard, FitsMeans DEF Calls, Tells, CallsTell
<1>2. /\ l[1] \in Browsers /\ p \in Page /\ PageTells(p, wanted[l[1]])
      /\ wanted = [wanted EXCEPT ![l[1]] = wanted[l[1]]]
  BY LineOf DEF TypeOK, Tells, PagesTell
<1>4. CASE DeliverCreate(l)
  <2>1. c.method = createInvoice /\ c.method.response = "InvoiceResponse" /\ c.method # checkInvoice
    BY <1>4, ThreeMethods DEF DeliverCreate, Answered, createInvoice
  <2>2. c.said \in Terms /\ c.said.invoiceId \in Ids /\ c.asked.value \in Nat
    BY <1>1, <2>1, SaidIsTyped, AskedIsTyped
  <2>3. CASE Screen(l[1]) = "Form"
    <3> DEFINE id == c.said.invoiceId
    <3>1. /\ page' = [page EXCEPT ![l[1]] = Fresh(id)]
          /\ call' = [call EXCEPT ![l] = Sent(getInvoice, IdRequest(id))]
          /\ wanted' = [wanted EXCEPT ![l[1]] = c.asked.value]
      BY <1>1, <1>4, <2>1, <2>3 DEF DeliverCreate
    <3>2. p.path = "/"
      <4>1. p.path # "/" => p.status \in Statuses /\ Screen(l[1]) # "Form"
        BY <1>2 DEF Screen, Page, Statuses
      <4> QED
        BY <2>3, <4>1
    <3>3. Fresh(id) \in Page /\ Fresh(id).path = id
      BY <2>2, FreshPage
    <3>4. Undisturbed => Kept(c.said) /\ c.said.fiatvalue = c.asked.value
      BY <1>1, <2>1 DEF CallTells
    <3>5. PageTells(Fresh(id), c.asked.value)
      BY <3>4, FreshTells DEF Kept
    <3>6. /\ CallFits(Sent(getInvoice, IdRequest(id)))
          /\ CallTells(Sent(getInvoice, IdRequest(id)), Fresh(id))
      BY <2>2, <3>3, SentFits, SentTells, AskedIsTyped, ThreeMethods DEF IdRequest
    <3>7. PICK amount : amount = c.asked.value
      OBVIOUS
    <3> QED
      BY <1>2, <3>1, <3>2, <3>3, <3>5, <3>6, <3>7, QuietStep
  <2>4. CASE Screen(l[1]) # "Form"
    <3>1. call' = [call EXCEPT ![l] = Free] /\ UNCHANGED <<page, wanted>>
      BY <1>4, <2>4 DEF DeliverCreate
    <3>2. CallTells(Free, p)
      BY DEF CallTells, Asks, Free
    <3> QED
      BY <3>1, <3>2, CallStep, SentFits
  <2> QED
    BY <2>3, <2>4
<1>5. CASE DeliverGet(l)
  <2>1. c.method = getInvoice /\ c.method.response = "InvoiceResponse" /\ c.method # checkInvoice
    BY <1>5, ThreeMethods DEF DeliverGet, Answered, getInvoice
  <2>2. c.said \in Terms /\ c.said.invoiceId \in Ids /\ c.said # NoTerms
    BY <1>1, <2>1, SaidIsTyped, TermsAreTerms
  <2> DEFINE q == [p EXCEPT !.stage = "open", !.terms = c.said]
  <2>3. /\ page' = [page EXCEPT ![l[1]].stage = "open", ![l[1]].terms = c.said]
        /\ call' = [call EXCEPT ![l] = Sent(checkInvoice, IdRequest(c.said.invoiceId))]
        /\ wanted' = wanted
    BY <1>1, <1>5, <2>1 DEF DeliverGet
  <2>4. page' = [page EXCEPT ![l[1]] = q]
    BY <2>3
  <2>5. /\ q \in Page /\ q.path = p.path /\ q.status = p.status /\ q.remaining = p.remaining
        /\ q.terms = c.said
    BY <1>2, <2>2 DEF Page
  <2>6. c.said.invoiceId = p.path /\ (Undisturbed => Kept(c.said))
    BY <1>1, <2>1 DEF CallTells
  <2>7. PageTells(q, wanted[l[1]])
    BY <1>2, <2>2, <2>5, <2>6 DEF PageTells
  <2>8. /\ CallFits(Sent(checkInvoice, IdRequest(c.said.invoiceId)))
        /\ CallTells(Sent(checkInvoice, IdRequest(c.said.invoiceId)), q)
    <3>1. CallFits(Sent(checkInvoice, IdRequest(c.said.invoiceId)))
      BY <2>2, SentFits, AskedIsTyped, ThreeMethods
    <3>2. IdRequest(c.said.invoiceId).invoiceId = q.path /\ q.terms # NoTerms
      BY <2>2, <2>5, <2>6 DEF IdRequest
    <3> HIDE DEF q
    <3> QED
      BY <3>1, <3>2, SentTells
  <2>9. PICK amount : amount = wanted[l[1]]
    OBVIOUS
  <2> HIDE DEF q
  <2> QED
    BY <1>2, <2>2, <2>3, <2>4, <2>5, <2>7, <2>8, <2>9, QuietStep
<1>6. CASE DeliverCheck(l)
  <2>1. c.method = checkInvoice /\ c.method.response = "InvoiceCheckResponse"
    BY <1>6 DEF DeliverCheck, Answered, checkInvoice
  <2>2. c.said \in [status : Statuses, digitalvalueremaining : Nat]
    BY <1>1, <2>1, SaidIsTyped
  <2> DEFINE q == [p EXCEPT !.status = c.said.status, !.remaining = c.said.digitalvalueremaining]
  <2>3. /\ page' = [page EXCEPT ![l[1]].status = c.said.status,
                                ![l[1]].remaining = c.said.digitalvalueremaining]
        /\ call' = [call EXCEPT ![l] = Free] /\ wanted' = wanted
    BY <1>1, <1>6, <2>1 DEF DeliverCheck
  <2>4. page' = [page EXCEPT ![l[1]] = q]
    BY <2>3
  <2>5. /\ q \in Page /\ q.path = p.path /\ q.stage = p.stage /\ q.terms = p.terms
        /\ q.status = c.said.status /\ q.remaining = c.said.digitalvalueremaining
        /\ q.remaining # Undefined
    BY <1>2, <2>2, SystemAssumption DEF Page
  <2>6. /\ p.terms # NoTerms
        /\ c.said.status # "expired" /\ Undisturbed =>
             Agrees(c.said.status, c.said.digitalvalueremaining, p.path)
    BY <1>1, <2>1, ThreeMethods DEF CallTells, Asks
  <2>7. PageTells(q, wanted[l[1]])
    BY <1>2, <2>5, <2>6 DEF PageTells
  <2>8. CallFits(Free) /\ CallTells(Free, q)
    BY SentFits DEF CallTells, Asks, Free
  <2>9. PICK amount : amount = wanted[l[1]]
    OBVIOUS
  <2> HIDE DEF q
  <2> QED
    BY <1>2, <2>3, <2>4, <2>5, <2>7, <2>8, <2>9, QuietStep
<1> QED
  BY <1>4, <1>5, <1>6

LEMMA TellsLoad ==
  ASSUME TypeOK, TypeOK', Calls, Calls', Tells, Onward, NEW b \in Browsers,
         NEW path \in {"/"} \cup {page[x].path : x \in Browsers}, Load(b, path)
  PROVE  Tells'
<1>1. path \in Ids \cup {"/"}
  BY DEF TypeOK, Page
<1>2. /\ page'[b] = Fresh(path) /\ wanted'[b] = 0
      /\ \A x \in Browsers \ {b} : page'[x] = page[x] /\ wanted'[x] = wanted[x]
  BY DEF Load, TypeOK
<1>3. PagesTell'
  <2> SUFFICES ASSUME NEW x \in Browsers
               PROVE  PageTells(page[x], wanted[x])'
    BY DEF PagesTell
  <2>1. CASE x = b
    <3>1. PageTells(Fresh(path), 0)'
      BY DEF Fresh, PageTells
    <3> QED
      BY <1>2, <2>1, <3>1
  <2>2. CASE x # b
    BY <1>2, <2>2, PageStays
  <2> QED
    BY <2>1, <2>2
<1>4. ASSUME NEW k \in Lines
      PROVE  \/ call'[k] = call[k] /\ k[1] # b
             \/ k[1] = b /\ call'[k].at = "free"
             \/ /\ k[1] = b /\ call'[k].at \in {"request"} \cup Creating
                /\ call'[k].method = createInvoice
             \/ k[1] = b /\ call'[k] = Sent(getInvoice, IdRequest(path))
  <2>1. \/ Abandoned(b)[k] = call[k] /\ k[1] # b
        \/ k[1] = b /\ Abandoned(b)[k].at = "free"
        \/ /\ k[1] = b /\ Abandoned(b)[k].at \in {"request"} \cup Creating
           /\ Abandoned(b)[k].method = createInvoice
    BY AbandonedRests
  <2>2. CASE call' = Abandoned(b)
    BY <2>1, <2>2
  <2>3. ASSUME NEW l \in Lines, l[1] = b,
               call' = [Abandoned(b) EXCEPT ![l] = Sent(getInvoice, IdRequest(path))]
        PROVE  \/ call'[k] = Abandoned(b)[k]
               \/ k[1] = b /\ call'[k] = Sent(getInvoice, IdRequest(path))
    BY <2>3 DEF Abandoned
  <2> QED
    BY <2>1, <2>2, <2>3 DEF Load
<1>5. CallsTell'
  <2> SUFFICES ASSUME NEW k \in Lines
               PROVE  CallTells(call[k], page[k[1]])'
    BY DEF CallsTell
  <2>1. CASE call'[k] = call[k] /\ k[1] # b
    BY <1>2, <2>1, LineOf, CallStays
  <2>2. CASE call'[k].at = "free"
    BY <2>2 DEF CallTells, Asks
  <2>3. CASE call'[k].at \in {"request"} \cup Creating /\ call'[k].method = createInvoice
    BY <2>3, ThreeMethods DEF CallTells, Asks, Creating
  <2>4. CASE k[1] = b /\ call'[k] = Sent(getInvoice, IdRequest(path))
    <3>1. call'[k].at = "request" /\ call'[k].method = getInvoice /\ call'[k].asked.invoiceId = path
      BY <2>4 DEF Sent, IdRequest
    <3>2. page'[k[1]].path = path
      BY <1>1, <1>2, <2>4, FreshPage
    <3> QED
      BY <3>1, <3>2, ThreeMethods DEF CallTells, Asks
  <2> QED
    BY <1>4, <2>1, <2>2, <2>3, <2>4
<1> QED
  BY <1>3, <1>5 DEF Tells

-----------------------------------------------------------------------------
\* An answer that holds when it is given.
LEMMA TellsReply ==
  ASSUME TypeOK, TypeOK', Calls, Tells, Onward, UNCHANGED <<page, wanted>>, NEW l \in Lines,
         call[l].at \in {"request", "insert", "balance"},
         NEW contents, Reply(l, contents),
         call[l].method = createInvoice => contents.fiatvalue = call[l].asked.value,
         call[l].method = getInvoice => contents.invoiceId = page[l[1]].path,
         call[l].method # checkInvoice /\ Undisturbed' => Kept(contents)',
         call[l].method = checkInvoice /\ contents.status # "expired" /\ Undisturbed' =>
           Agrees(contents.status, contents.digitalvalueremaining, page[l[1]].path)'
  PROVE  Tells'
<1> DEFINE c == call[l]
           r == [at |-> "response", method |-> c.method, asked |-> c.asked, live |-> TRUE,
                 bytes |-> Response(c.method, contents), said |-> contents]
<1>1. PICK p : p = page[l[1]]
  OBVIOUS
<1>2. CallTells(c, p)
  BY <1>1 DEF Tells, CallsTell
<1>3. /\ Asks(c) => c.asked.invoiceId = p.path
      /\ Asks(c) /\ c.method = checkInvoice => p.terms # NoTerms
  BY <1>2 DEF CallTells
<1>4. c.method # createInvoice => Asks(c)
  <2>1. CallFits(c)
    BY DEF Calls
  <2>2. c.at \in Creating => c.method = createInvoice
    BY <2>1, FitsMeans
  <2> QED
    BY <2>2 DEF Asks, Creating
<1>5. PICK d : d = IF c.live THEN r ELSE Free
  OBVIOUS
<1>6. call' = [call EXCEPT ![l] = d]
  BY <1>5 DEF Reply
<1>7. CallTells(d, p)'
  <2>1. CASE d = Free
    BY <2>1 DEF CallTells, Asks, Free
  <2>2. CASE d # Free
    <3>1. /\ d.at = "response" /\ d.method = c.method /\ d.asked = c.asked
          /\ d.said = contents
      BY <1>5, <2>2
    <3>2. /\ Asks(d) => d.asked.invoiceId = p.path
          /\ Asks(d) /\ d.method = checkInvoice => p.terms # NoTerms
      BY <1>3, <1>4, <3>1 DEF Asks
    <3>3. /\ d.method = createInvoice => d.said.fiatvalue = d.asked.value
          /\ d.method = getInvoice => d.said.invoiceId = p.path
      BY <1>1, <3>1
    <3>4. d.method # checkInvoice /\ Undisturbed' => Kept(d.said)'
      BY <3>1
    <3>5. page[l[1]]' = p
      BY <1>1
    <3>6. d.method = checkInvoice /\ d.said.status # "expired" /\ Undisturbed' =>
            Agrees(d.said.status, d.said.digitalvalueremaining, p.path)'
      BY <1>1, <3>1, <3>5
    <3> QED
      BY <3>1, <3>2, <3>3, <3>4, <3>6 DEF CallTells
  <2> QED
    BY <2>1, <2>2
<1>8. CallTells(d, page[l[1]])'
  BY <1>1, <1>7
<1> HIDE DEF r, c
<1> QED
  BY <1>6, <1>8, OnlyLineStep

\* A request asks for the invoice of the page that made it.
LEMMA RequestAsks ==
  ASSUME Calls, Tells, NEW l \in Lines, call[l].at = "request", call[l].method # createInvoice
  PROVE  In(l).invoiceId = page[l[1]].path
<1>1. CallFits(call[l]) /\ CallTells(call[l], page[l[1]])
  BY DEF Calls, Tells, CallsTell
<1> QED
  BY <1>1, Heard DEF CallTells, Asks

LEMMA TellsGet ==
  ASSUME TypeOK, TypeOK', Calls, LedgerTells, Tells, Onward, NEW l \in Lines, ServeGet(l)
  PROVE  Tells'
<1>1. call[l].at = "request" /\ call[l].method = getInvoice
  BY FitsMeans, ThreeMethods DEF ServeGet, Arrived, Calls
<1>2. CASE Fails(l)
  BY <1>1, <1>2, TellsFails
<1>3. CASE ~Fails(l)
  <2>1. PICK id \in DOMAIN invoices : id = In(l).invoiceId /\ Replies(l, invoices[id])
    BY <1>3 DEF ServeGet
  <2>2. PICK invoice : invoice = invoices[id]
    OBVIOUS
  <2>3. invoice.invoiceId = page[l[1]].path
    BY <1>1, <2>1, <2>2, RequestAsks, ThreeMethods DEF LedgerTells
  <2>4. Kept(invoice)
    BY <2>2 DEF LedgerTells, Kept
  <2>5. Undisturbed' => Kept(invoice)'
    BY <2>4, KeptOn
  <2>6. Reply(l, invoice) /\ UNCHANGED <<page, wanted>>
    BY <2>1, <2>2 DEF Replies, client
  <2> QED
    BY <1>1, <2>3, <2>5, <2>6, TellsReply, ThreeMethods
<1> QED
  BY <1>2, <1>3

\* A check that waits for the node has looked up the invoice of its page.
LEMMA TellsCheck ==
  ASSUME TypeOK, TypeOK', Calls, LedgerTells, Tells, Onward, NEW l \in Lines, ServeCheck(l)
  PROVE  Tells'
<1>1. call[l].at = "request" /\ call[l].method = checkInvoice /\ CallFits(call[l])
  BY FitsMeans, ThreeMethods DEF ServeCheck, Arrived, Calls
<1>2. CASE Fails(l)
  BY <1>1, <1>2, TellsFails
<1>3. CASE Replies(l, [status |-> "expired", digitalvalueremaining |-> 0])
  <2>1. PICK contents : contents = [status |-> "expired", digitalvalueremaining |-> 0]
    OBVIOUS
  <2>2. Reply(l, contents) /\ UNCHANGED <<page, wanted>> /\ contents.status = "expired"
    BY <1>3, <2>1 DEF Replies, client
  <2> QED
    BY <1>1, <2>2, TellsReply, ThreeMethods
<1>4. ASSUME NEW id \in DOMAIN invoices, id = In(l).invoiceId,
             call' = [call EXCEPT ![l] = Served(call[l], "balance", invoices[id], 0)],
             UNCHANGED client
      PROVE  Tells'
  <2>1. PICK c : c = Served(call[l], "balance", invoices[id], 0)
    OBVIOUS
  <2>2. PICK p : p = page[l[1]]
    OBVIOUS
  <2>3. /\ c.at = "balance" /\ c.method = checkInvoice /\ c.asked = call[l].asked
        /\ c.terms = invoices[id]
    BY <1>1, <2>1 DEF Served
  <2>4. c.asked.invoiceId = p.path /\ p.terms # NoTerms
    BY <1>1, <2>2, <2>3, ThreeMethods DEF Tells, CallsTell, CallTells, Asks
  <2>5. id = p.path
    BY <1>1, <1>4, <2>2, RequestAsks, ThreeMethods
  <2>6. c.terms.invoiceId = p.path /\ Kept(c.terms)
    BY <2>3, <2>5 DEF LedgerTells, Kept
  <2>7. CallTells(c, p)
    BY <2>3, <2>4, <2>6 DEF CallTells
  <2>8. invoices[id] \in Terms
    BY DEF TypeOK
  <2>9. CallFits(c)
    BY <1>1, <2>1, <2>8, CheckWaitsFits
  <2>10. call' = [call EXCEPT ![l] = c] /\ UNCHANGED <<page, wanted>>
    BY <1>4, <2>1 DEF client
  <2> QED
    BY <2>2, <2>7, <2>9, <2>10, CallStep
<1> QED
  BY <1>2, <1>3, <1>4 DEF ServeCheck

LEMMA TellsVerdict ==
  ASSUME TypeOK, TypeOK', Calls, Tells, Onward, NEW l \in Lines, NodeAnswers(l)
  PROVE  Tells'
<1> DEFINE c == call[l]
<1>1. c.at = "balance" /\ c.method = checkInvoice /\ c.terms \in Terms
  BY FitsMeans DEF NodeAnswers, Calls
<1>2. PICK paid \in {received[c.terms.invoiceId], 0} : Replies(l, Verdict(c.terms.digitalvalue, paid))
  BY DEF NodeAnswers
<1>3. PICK due, id : due = c.terms.digitalvalue /\ id = c.terms.invoiceId
  OBVIOUS
<1>4. due \in Nat /\ paid \in Nat /\ paid \in {received[id], 0}
  BY <1>1, <1>2, <1>3 DEF TypeOK, Terms
<1>5. PICK contents : contents = Verdict(due, paid)
  OBVIOUS
<1>6. contents.status = Status(due, paid) /\ contents.digitalvalueremaining = Remaining(due, paid)
  BY <1>4, <1>5, VerdictIsTyped
<1>7. Reply(l, contents) /\ UNCHANGED <<page, wanted>>
  BY <1>2, <1>3, <1>5 DEF Replies, client
<1>8. ASSUME contents.status # "expired", Undisturbed'
      PROVE  Agrees(contents.status, contents.digitalvalueremaining, page[l[1]].path)'
  <2>1. Undisturbed
    BY <1>8 DEF Onward
  <2>2. id = page[l[1]].path /\ Kept(c.terms)
    BY <1>1, <1>3, <2>1 DEF Tells, CallsTell, CallTells
  <2>3. id \in DOMAIN invoices /\ invoices[id].digitalvalue = due
    BY <1>3, <2>2 DEF Kept
  <2>4. Agrees(contents.status, contents.digitalvalueremaining, id)
    BY <1>4, <1>6, <2>3, VerdictAgrees
  <2>5. contents.status \in Statuses \ {"expired"} /\ contents.digitalvalueremaining \in Nat
    <3>1. contents \in [status : Statuses, digitalvalueremaining : Nat]
      BY <1>4, <1>5, VerdictIsTyped
    <3> QED
      BY <1>8, <3>1
  <2>6. PICK status, remaining :
          status = contents.status /\ remaining = contents.digitalvalueremaining
    OBVIOUS
  <2>7. Agrees(status, remaining, id)'
    BY <1>8, <2>4, <2>5, <2>6, AgreesOn
  <2> QED
    BY <1>7, <2>2, <2>6, <2>7
<1> QED
  BY <1>1, <1>7, <1>8, TellsReply, ThreeMethods

\* The invoice that is sent to the form is the one in the map.
LEMMA TellsInsert ==
  ASSUME TypeOK, TypeOK', Calls, Tells, Onward, NEW l \in Lines, ServeInsert(l)
  PROVE  Tells'
<1>1. PICK invoice : invoice = call[l].terms
  OBVIOUS
<1>2. /\ call[l].at = "insert" /\ call[l].method = createInvoice
      /\ invoice.fiatvalue = call[l].asked.value /\ Reply(l, invoice)
  BY <1>1, Entered
<1>3. invoice.invoiceId \in DOMAIN invoices' /\ invoices'[invoice.invoiceId] = invoice
  BY <1>1, Entered
<1>4. Kept(invoice)'
  BY <1>3 DEF Kept
<1>5. UNCHANGED <<page, wanted>>
  BY DEF ServeInsert, client
<1> QED
  BY <1>2, <1>4, <1>5, TellsReply, ThreeMethods

\* A create tells nothing before.
LEMMA TellsCreating ==
  ASSUME TypeOK, TypeOK', Calls, Tells, Onward, NEW l \in Lines,
         ServePrice(l) \/ ServeDerive(l) \/ ServeLoad(l) \/ ServeStore(l)
  PROVE  Tells'
<1>1. call[l].method = createInvoice
  BY FitsMeans, ThreeMethods
     DEF ServePrice, ServeDerive, ServeLoad, ServeStore, Arrived, Calls, Creating
<1>2. \E at \in Creating : \E terms, loaded :
        call' = [call EXCEPT ![l] = Served(call[l], at, terms, loaded)]
  <2>1. ASSUME NEW at \in Creating, NEW terms, NEW loaded,
               call' = [call EXCEPT ![l] = Served(call[l], at, terms, loaded)]
        PROVE  \E at_1 \in Creating : \E terms_1, loaded_1 :
                 call' = [call EXCEPT ![l] = Served(call[l], at_1, terms_1, loaded_1)]
    BY <2>1
  <2>2. {"derive", "load", "store", "insert"} \subseteq Creating
    BY DEF Creating
  <2>3. CASE ServePrice(l)
    <3>1. PICK q \in Quotes : \E d \in DigitalValues(q) :
            call' = [call EXCEPT ![l] =
                       Served(call[l], "derive", [fiatvalue |-> In(l).value, digitalvalue |-> d,
                                            expiry |-> now + InvoiceLifetime, invoiceId |-> ""], 0)]
      BY <2>3 DEF ServePrice
    <3> QED
      BY <2>1, <2>2, <3>1
  <2>4. CASE ServeDerive(l)
    BY <2>1, <2>2, <2>4 DEF ServeDerive
  <2>5. CASE ServeLoad(l)
    BY <2>1, <2>2, <2>5 DEF ServeLoad
  <2>6. CASE ServeStore(l)
    BY <2>1, <2>2, <2>6 DEF ServeStore
  <2> QED
    BY <2>3, <2>4, <2>5, <2>6
<1>3. PICK c : call' = [call EXCEPT ![l] = c] /\ c.at \in Creating /\ c.method = createInvoice
  <2>4. PICK at \in Creating :
          \E terms, loaded : call' = [call EXCEPT ![l] = Served(call[l], at, terms, loaded)]
    BY <1>2
  <2>1. PICK terms, loaded : call' = [call EXCEPT ![l] = Served(call[l], at, terms, loaded)]
    BY <2>4
  <2>2. PICK c : c = Served(call[l], at, terms, loaded)
    OBVIOUS
  <2>3. c.at \in Creating /\ c.method = createInvoice
    BY <1>1, <2>2 DEF Served
  <2> QED
    BY <2>1, <2>2, <2>3
<1>4. CallTells(c, page[l[1]])'
  BY <1>3, ThreeMethods DEF CallTells, Asks, Creating
<1>5. UNCHANGED <<page, wanted>>
  BY DEF ServePrice, ServeDerive, ServeLoad, ServeStore, client
<1> QED
  BY <1>3, <1>4, <1>5, OnlyLineStep

\* The calls that a restart leaves are those of before, or bring an error.
LEMMA TellsRestart ==
  ASSUME TypeOK, TypeOK', Calls, Tells, Onward, Restart
  PROVE  Tells'
<1>1. UNCHANGED <<page, wanted>>
  BY DEF Restart, client
<1>2. PagesTell'
  BY <1>1, PageStays DEF PagesTell
<1>3. ASSUME NEW l \in Lines
      PROVE  CallTells(call[l], page[l[1]])'
  <2>1. call'[l] = call[l] \/ call'[l] = Free \/ call'[l] = Lost(call[l])
    BY DEF Restart
  <2>2. CASE call'[l] = call[l]
    BY <1>1, <2>2, CallStays
  <2>3. CASE call'[l] = Free \/ call'[l] = Lost(call[l])
    <3>1. call'[l].at \in {"free", "failed"}
      BY <2>3 DEF Free, Lost
    <3> QED
      BY <3>1 DEF CallTells, Asks
  <2> QED
    BY <2>1, <2>2, <2>3
<1> QED
  BY <1>2, <1>3 DEF Tells, CallsTell

\* A step that touches neither pages nor calls.
LEMMA TellsOn ==
  ASSUME TypeOK, TypeOK', Calls, Tells, Onward, UNCHANGED <<page, wanted, call>>
  PROVE  Tells'
BY CallStays, PageStays DEF Tells, CallsTell, PagesTell

LEMMA TellsStep ==
  ASSUME TypeOK, TypeOK', Calls, Calls', Filled, Indices, Tells, [Next]_vars
  PROVE  Tells'
<1>0. Onward /\ LedgerTells
  BY GoesOnward DEF Indices
<1>1. ASSUME NEW l \in Lines, Submit(l)
      PROVE  Tells'
  <2>1. [value |-> Amount[l[1]]] \in Asked(createInvoice)
    BY LineOf, SystemAssumption DEF Asked
  <2>2. PICK c : c = Sent(createInvoice, [value |-> Amount[l[1]]])
    OBVIOUS
  <2>3. CallFits(c)
    BY <2>1, <2>2, SentFits, ThreeMethods
  <2>4. c.at = "request" /\ c.method = createInvoice
    BY <2>2 DEF Sent
  <2>5. call' = [call EXCEPT ![l] = c] /\ UNCHANGED <<page, wanted>>
    BY <1>1, <2>2 DEF Submit, client
  <2> QED
    BY <1>0, <2>3, <2>4, <2>5, CallStep, CreatingTells
<1>2. ASSUME NEW l \in Lines, IntervalFires(l)
      PROVE  Tells'
  <2>1. PICK p : p = page[l[1]]
    OBVIOUS
  <2>2. PICK c : c = Sent(checkInvoice, IdRequest(p.terms.invoiceId))
    OBVIOUS
  <2>3. p.stage = "open" /\ p.terms # NoTerms /\ p.terms.invoiceId = p.path
    BY <1>2, <2>1, LineOf DEF IntervalFires, Tells, PagesTell, PageTells
  <2>4. CallFits(c)
    BY <2>1, <2>2, <2>3, LineOf, PageAsks
  <2>5. IdRequest(p.terms.invoiceId).invoiceId = p.path
    BY <2>3 DEF IdRequest
  <2>6. CallTells(c, p)
    BY <2>2, <2>3, <2>5, SentTells
  <2>7. call' = [call EXCEPT ![l] = c] /\ UNCHANGED <<page, wanted>>
    BY <1>2, <2>1, <2>2 DEF IntervalFires, client
  <2> QED
    BY <1>0, <2>1, <2>4, <2>6, <2>7, CallStep
<1>3. ASSUME NEW l \in Lines, DeliverError(l) \/ CallFails(l) \/ ServeDeriveFails(l)
      PROVE  Tells'
  BY <1>0, <1>3, TellsFails DEF DeliverError, CallFails, ServeDeriveFails
<1>4. CASE Tick \/ UNCHANGED vars \/ \E b \in Browsers : \E v \in Payments : Pay(b, v)
  <2>1. UNCHANGED <<page, wanted, call>>
    BY <1>4 DEF Tick, Pay, vars, client
  <2> QED
    BY <1>0, <2>1, TellsOn
<1> QED
  BY <1>0, <1>1, <1>2, <1>3, <1>4, TellsLoad, TellsDeliver, TellsCreating, TellsInsert, TellsGet,
     TellsCheck, TellsVerdict, TellsGoesOn, TellsRestart DEF Next

LEMMA Always == Spec => [](TypeOK /\ Tells)
<1> DEFINE Inv == TypeOK /\ Calls /\ Filled /\ Indices /\ Tells
<1>1. Init => Inv
  BY TypeInit, IndicesInit, TellsInit
<1>2. Inv /\ [Next]_vars => Inv'
  BY TypeStep, IndicesStep, TellsStep
<1>3. Inv => TypeOK /\ Tells
  OBVIOUS
<1> HIDE DEF Inv
<1> QED
  BY <1>1, <1>2, <1>3, PTL DEF Spec

-----------------------------------------------------------------------------
(***************************************************************************)
(* As long as no two creates collide in one server process, a page that    *)
(* says "Invoice Paid!" is about an address that has received the lower    *)
(* limit of the amount that the page was given                             *)
(* (ShowInvoice/index.jsx:137-141, api.go:189).                            *)
(***************************************************************************)
THEOREM PaidPagesAreFunded == Spec => []PaidPageFunded
<1>1. ASSUME TypeOK, Tells
      PROVE  PaidPageFunded
  <2> SUFFICES ASSUME NEW b \in Browsers, page[b].status \in {"paid", "over_paid"}, Undisturbed
               PROVE  /\ page[b].terms # NoTerms
                      /\ received[page[b].path] >= LowestPaid(page[b].terms.digitalvalue)
    BY DEF PaidPageFunded
  <2> DEFINE p == page[b]  id == p.path
  <2>1. p \in Page /\ PageTells(p, wanted[b])
    BY <1>1 DEF TypeOK, Tells, PagesTell
  <2>2. p.remaining # Undefined /\ p.terms # NoTerms
    BY <2>1 DEF PageTells
  <2>3. p.terms.invoiceId = id /\ Kept(p.terms) /\ Agrees(p.status, p.remaining, id)
    BY <2>1, <2>2 DEF PageTells
  <2>4. PICK due, paid : due = p.terms.digitalvalue /\ paid = received[id]
    OBVIOUS
  <2>5. id \in DOMAIN invoices /\ invoices[id].digitalvalue = due
    BY <2>3, <2>4 DEF Kept
  <2>6. due \in Nat /\ paid \in Nat
    BY <1>1, <2>4, <2>5 DEF TypeOK, Terms
  <2>7. Rank(p.status) <= Rank(Status(due, paid))
    BY <2>3, <2>4, <2>5 DEF Agrees
  <2>8. Status(due, paid) \in {"paid", "over_paid"}
    <3>1. Status(due, paid) \in {"unpaid", "partially_paid", "paid", "over_paid"}
      BY <2>6, StatusOfAmount DEF Statuses
    <3> QED
      BY <2>7, <3>1, RankIsNumber
  <2>9. paid >= LowestPaid(due)
    BY <2>6, <2>8, StatusOfAmount
  <2> QED
    BY <2>2, <2>4, <2>9
<1>2. TypeOK /\ Tells => PaidPageFunded
  BY <1>1
<1> QED
  BY <1>2, Always, PTL

(***************************************************************************)
(* Under the same condition a browser that is led to a page by its own     *)
(* create sees its own amount (Application/index.jsx:46-53), although the  *)
(* creates of others overlap with it.                                      *)
(***************************************************************************)
THEOREM AmountsAreOwn == Spec => []OwnAmount
<1>1. ASSUME Tells
      PROVE  OwnAmount
  <2> SUFFICES ASSUME NEW b \in Browsers, wanted[b] # 0, page[b].stage = "open", Undisturbed
               PROVE  page[b].terms.fiatvalue = wanted[b]
    BY DEF OwnAmount
  <2>1. PageTells(page[b], wanted[b])
    BY <1>1 DEF Tells, PagesTell
  <2>2. page[b].terms.invoiceId = page[b].path /\ Kept(page[b].terms)
    BY <2>1 DEF PageTells
  <2>3. invoices[page[b].path].fiatvalue = wanted[b]
    BY <2>1 DEF PageTells
  <2> QED
    BY <2>2, <2>3 DEF Kept
<1>2. Tells => OwnAmount
  BY <1>1
<1> QED
  BY <1>2, Always, PTL

(***************************************************************************)
(* Under the same condition a receipt is about an invoice of the ledger    *)
(* and never asks for less than is owed, also when checks overtake one     *)
(* another or the node fails (ShowInvoice/index.jsx:64-67,                 *)
(* api.go:180-201).                                                        *)
(***************************************************************************)
THEOREM ReceiptsAgree == Spec => []ReceiptAgrees
<1>1. ASSUME TypeOK, Tells
      PROVE  ReceiptAgrees
  <2> SUFFICES ASSUME NEW b \in Browsers, Screen(b) = "Receipt", Undisturbed
               PROVE  LET p == page[b]  id == p.terms.invoiceId IN
                      /\ id = p.path /\ id \in DOMAIN invoices /\ invoices[id] = p.terms
                      /\ Rank(p.status) <= Rank(Status(p.terms.digitalvalue, received[id]))
                      /\ p.remaining # Undefined =>
                           p.remaining >= Remaining(p.terms.digitalvalue, received[id])
    BY DEF ReceiptAgrees
  <2> DEFINE p == page[b]  id == p.terms.invoiceId
  <2>1. p \in Page /\ PageTells(p, wanted[b])
    BY <1>1 DEF TypeOK, Tells, PagesTell
  <2>2. p.stage = "open" /\ p.status \in {"unpaid", "partially_paid"}
    BY <2>1 DEF Screen, Page, Statuses
  <2>3. id = p.path /\ id \in DOMAIN invoices /\ invoices[id] = p.terms
    BY <2>1, <2>2 DEF PageTells, Kept
  <2>4. p.terms.digitalvalue \in Nat /\ received[id] \in Nat
    BY <1>1, <2>3 DEF TypeOK, Terms
  <2>5. Rank(Status(p.terms.digitalvalue, received[id])) \in Nat
    BY <2>4, StatusOfAmount
  <2>6. CASE p.remaining = Undefined
    BY <2>1, <2>3, <2>5, <2>6, RankIsNumber DEF PageTells
  <2>7. CASE p.remaining # Undefined
    <3>1. Agrees(p.status, p.remaining, p.path)
      BY <2>1, <2>2, <2>7 DEF PageTells
    <3> QED
      BY <2>3, <3>1 DEF Agrees
  <2> QED
    BY <2>6, <2>7
<1>2. TypeOK /\ Tells => ReceiptAgrees
  BY <1>1
<1> QED
  BY <1>2, Always, PTL
=============================================================================
