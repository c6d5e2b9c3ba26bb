---------------------------- MODULE InvoiceServer ----------------------------
(***************************************************************************)
(* The gRPC backend (server/server/api).  Each call is served by its own   *)
(* goroutine; the goroutines share DerivationIndex and the Invoices map    *)
(* without a lock, so a handler is split into one action per shared        *)
(* access, and the call to the node is an action of its own.  The state of *)
(* the process is in memory only: a process that starts again has an empty *)
(* ledger and a derivation index of zero.                                  *)
(***************************************************************************)
EXTENDS InvoiceMath, FiniteSets

CONSTANTS
  Calls,            \* the gRPC calls of a behaviour, each made at most once
  FiatValues,       \* InvoiceRequest.Value, in cents
  Quotes,           \* satoshi amounts the price service may quote
  Ids,              \* the invoice ids that CheckInvoice and GetInvoice are asked for
  Junk,             \* an id that does not decode as an address
  UnusableIndices,  \* indices at which Child or Address returns an error
  HardenedKeyStart, \* Child refuses this index and all above it (2^31)
  InvoiceLifetime,  \* fifteen minutes
  Payments,         \* the value of one payment
  MaxTime,          \* bound of the model on the clock
  MaxReceived,      \* bound of the model on what one address receives
  MaxRestarts       \* bound of the model on the restarts of the process

ASSUME ServerAssumption ==
  /\ IsFiniteSet(Calls)
  /\ FiatValues \subseteq Int
  /\ Quotes \subseteq Nat
  /\ Junk \notin Nat
  /\ Ids \subseteq Nat \cup {Junk}
  /\ UnusableIndices \subseteq Nat
  /\ HardenedKeyStart \in Nat
  /\ InvoiceLifetime \in Nat
  /\ Payments \subseteq Nat \ {0}
  /\ MaxTime \in Nat
  /\ MaxReceived \in Nat
  /\ MaxRestarts \in Nat

-----------------------------------------------------------------------------
VARIABLES
  up,               \* is the server process running?
  derivationIndex,  \* Server.DerivationIndex
  invoices,         \* Server.Invoices: a function on the ids that are in the map
  pc,               \* pc[c]: the shared access that call c makes next
  request,          \* request[c]: what c asked for
  terms,            \* terms[c]: the invoice that c builds, or the one it looked up
  loaded,           \* loaded[c]: DerivationIndex as DerivationIndex++ loaded it
  slot,             \* slot[c]: the key of the entry that c is about to fill, or 0
  search,           \* search[c]: what SearchRawTransactions returned to c
  reply,            \* reply[c]: what c was answered
  now,              \* the clock, in units in which an invoice's life is a small number
  received,         \* what each paid address has received
  restarts,         \* how often the process was started again
  born,             \* history: born[c] is the value of restarts when c was made
  raced             \* history: the data on which creates have collided in this process

process == <<up, derivationIndex, invoices>>
locals  == <<request, terms, loaded, slot, search, born>>
call    == <<pc, locals, reply>>
world   == <<now, received, restarts>>
vars    == <<process, call, world, raced>>

Invoice == [DigitalValue : Nat, FiatValue : Int, Expiry : Nat, InvoiceID : Nat]

\* A nil *Invoice.
NoInvoice == [DigitalValue |-> 0, FiatValue |-> 0, Expiry |-> 0, InvoiceID |-> 0]

NoRequest     == [op |-> "none"]
CreateRequest == [op : {"create"}, value : FiatValues]
IdRequest     == [op : {"check", "get"}, id : Ids]
Request       == {NoRequest} \cup CreateRequest \cup IdRequest

\* The error of the search is not tested by anything.
Search   == [err : {"nil", "failed"}, paid : Nat]
NoSearch == [err |-> "nil", paid |-> 0]

NoReply     == [kind |-> "none"]
Unavailable == [kind |-> "unavailable"]
ErrorReply  == [kind : {"error"}, why : {"value", "price", "derive", "id", "balance"}]
InvoiceReply == [kind : {"invoice"}, invoice : Invoice]
StatusReply  == [kind : {"status"}, status : Statuses, remaining : Int]
Reply == {NoReply, Unavailable} \cup ErrorReply \cup InvoiceReply \cup StatusReply

PC == {"idle", "price", "derive", "load", "store", "insert", "inserting", "filling",
       "lookup", "deadline", "balance", "verdict", "done"}

TypeOK ==
  /\ up \in BOOLEAN
  /\ derivationIndex \in Nat
  /\ DOMAIN invoices \subseteq Nat
  /\ invoices \in [DOMAIN invoices -> Invoice]
  /\ pc \in [Calls -> PC]
  /\ request \in [Calls -> Request]
  /\ terms \in [Calls -> Invoice]
  /\ loaded \in [Calls -> Nat]
  /\ slot \in [Calls -> Nat]
  /\ search \in [Calls -> Search]
  /\ reply \in [Calls -> Reply]
  /\ now \in Nat
  /\ DOMAIN received \subseteq Nat
  /\ received \in [DOMAIN received -> Nat]
  /\ restarts \in Nat
  /\ born \in [Calls -> Nat]
  /\ raced \subseteq {"index", "map"}

EmptyMap == [x \in {} |-> x]

With(map, key, value) ==
  [k \in DOMAIN map \cup {key} |-> IF k = key THEN value ELSE map[k]]

\* main starts a server with an empty ledger at index 0.
Init ==
  /\ up = TRUE
  /\ derivationIndex = 0
  /\ invoices = EmptyMap
  /\ pc = [c \in Calls |-> "idle"]
  /\ request = [c \in Calls |-> NoRequest]
  /\ terms = [c \in Calls |-> NoInvoice]
  /\ loaded = [c \in Calls |-> 0]
  /\ slot = [c \in Calls |-> 0]
  /\ search = [c \in Calls |-> NoSearch]
  /\ reply = [c \in Calls |-> NoReply]
  /\ now = 0
  /\ received = EmptyMap
  /\ restarts = 0
  /\ born = [c \in Calls |-> 0]
  /\ raced = {}

-----------------------------------------------------------------------------
(***************************************************************************)
(* Helpers of the handlers.                                                *)
(***************************************************************************)
GoTo(c, l) == pc' = [pc EXCEPT ![c] = l]

Answer(c, r) == GoTo(c, "done") /\ reply' = [reply EXCEPT ![c] = r]

Fail(c, cause) == Answer(c, [kind |-> "error", why |-> cause])

\* The extended key yields one address for each index; 0 is no address.
AddressAt(index) == index + 1

\* extKey.Child and extPubKey.Address yield an address at this index.
Derivable(index) == index < HardenedKeyStart /\ index \notin UnusableIndices

IsValidAddress(id) == id # Junk

AmountAt(a) == IF a \in DOMAIN received THEN received[a] ELSE 0

\* Between the read of the index and its increment.
InWindow(c) == pc[c] \in {"load", "store"}

\* Is a goroutine other than c changing the structure of the map?
Disturbed(c) == \E d \in Calls \ {c} : pc[d] = "inserting"

-----------------------------------------------------------------------------
(***************************************************************************)
(* CreateInvoice.                                                          *)
(***************************************************************************)
Made(c, r) ==
  /\ up
  /\ pc[c] = "idle"
  /\ request' = [request EXCEPT ![c] = r]
  /\ born' = [born EXCEPT ![c] = restarts]

CreateInvoice(c) ==
  /\ \E v \in FiatValues :
       /\ Made(c, [op |-> "create", value |-> v])
       /\ \/ v <= 0 /\ Fail(c, "value")
          \/ v > 0  /\ GoTo(c, "price") /\ UNCHANGED reply
  /\ UNCHANGED <<process, terms, loaded, slot, search, world, raced>>

\* getPrice answers or fails; after an answer getExpiry reads the clock.
GetPrice(c) ==
  /\ pc[c] = "price"
  /\ \/ Fail(c, "price") /\ UNCHANGED terms
     \/ /\ \E q \in Quotes : \E d \in DigitalValues(q) :
             terms' = [terms EXCEPT ![c] =
                         [DigitalValue |-> d, FiatValue |-> request[c].value,
                          Expiry |-> now + InvoiceLifetime, InvoiceID |-> 0]]
        /\ GoTo(c, "derive")
        /\ UNCHANGED reply
  /\ UNCHANGED <<process, request, loaded, slot, search, born, world, raced>>

\* The index is read while another create is between its read and its increment.
ReadIndex(c) ==
  /\ terms' = [terms EXCEPT ![c].InvoiceID = AddressAt(derivationIndex)]
  /\ raced' = raced \cup IF \E d \in Calls : InWindow(d) THEN {"index"} ELSE {}

\* Variant: an index that cannot be derived is skipped.
DeriveChildSkips(c) ==
  /\ pc[c] = "derive"
  /\ \/ /\ Derivable(derivationIndex)
        /\ ReadIndex(c)
        /\ GoTo(c, "load")
        /\ UNCHANGED <<derivationIndex, reply>>
     \/ /\ ~Derivable(derivationIndex)
        /\ derivationIndex' = derivationIndex + 1
        /\ Fail(c, "derive")
        /\ UNCHANGED <<terms, raced>>
  /\ UNCHANGED <<up, invoices, request, loaded, slot, search, born, world>>

\* deriveAddress reads DerivationIndex; a failure leaves it where it is.
DeriveChild(c) ==
  /\ pc[c] = "derive"
  /\ \/ /\ Derivable(derivationIndex)
        /\ ReadIndex(c)
        /\ GoTo(c, "load")
        /\ UNCHANGED reply
     \/ /\ ~Derivable(derivationIndex)
        /\ Fail(c, "derive")
        /\ UNCHANGED <<terms, raced>>
  /\ UNCHANGED <<process, request, loaded, slot, search, born, world>>

\* DerivationIndex++ is a load and a store, and other goroutines may come between.
LoadIndex(c) ==
  /\ pc[c] = "load"
  /\ loaded' = [loaded EXCEPT ![c] = derivationIndex]
  /\ GoTo(c, "store")
  /\ UNCHANGED <<process, request, terms, slot, search, born, reply, world, raced>>

\* Variant: the index is not incremented.
StoreIndexSame(c) ==
  /\ pc[c] = "store"
  /\ derivationIndex' = loaded[c]
  /\ loaded' = [loaded EXCEPT ![c] = 0]
  /\ GoTo(c, "insert")
  /\ UNCHANGED <<up, invoices, request, terms, slot, search, born, reply, world, raced>>

\* Variant: the index is decremented.
StoreIndexDown(c) ==
  /\ pc[c] = "store"
  /\ derivationIndex' = loaded[c] - 1
  /\ loaded' = [loaded EXCEPT ![c] = 0]
  /\ GoTo(c, "insert")
  /\ UNCHANGED <<up, invoices, request, terms, slot, search, born, reply, world, raced>>

\* Variant: the index is incremented by two.
StoreIndexTwice(c) ==
  /\ pc[c] = "store"
  /\ derivationIndex' = loaded[c] + 2
  /\ loaded' = [loaded EXCEPT ![c] = 0]
  /\ GoTo(c, "insert")
  /\ UNCHANGED <<up, invoices, request, terms, slot, search, born, reply, world, raced>>

StoreIndex(c) ==
  /\ pc[c] = "store"
  /\ derivationIndex' = loaded[c] + 1
  /\ loaded' = [loaded EXCEPT ![c] = 0]
  /\ GoTo(c, "insert")
  /\ UNCHANGED <<up, invoices, request, terms, slot, search, born, reply, world, raced>>

(***************************************************************************)
(* s.Invoices[address] = &Invoice{...}: the runtime marks the map as being *)
(* written, finds or makes the entry of the key, and takes the mark away;  *)
(* only then the handler stores the value in that entry.                   *)
(***************************************************************************)
BeginInsert(c) ==
  /\ pc[c] = "insert"
  /\ GoTo(c, "inserting")
  /\ UNCHANGED <<process, locals, reply, world, raced>>

\* The map with an entry for a key; a new entry has no value yet.
Placed(key) == With(invoices, key, IF key \in DOMAIN invoices THEN invoices[key] ELSE NoInvoice)

PlaceKey(c) ==
  /\ pc[c] = "inserting"
  /\ invoices' = Placed(terms[c].InvoiceID)
  /\ slot' = [slot EXCEPT ![c] = terms[c].InvoiceID]
  /\ GoTo(c, "filling")
  /\ UNCHANGED <<up, derivationIndex, request, terms, loaded, search, born, reply, world, raced>>

(***************************************************************************)
(* Two assignments that overlap unnoticed may take the same entry, with    *)
(* the key that was written last; ...                                      *)
(***************************************************************************)
PlaceOverlap(c, d) ==
  /\ c # d
  /\ pc[c] = "inserting" /\ pc[d] = "inserting"
  /\ \E k \in {c, d} : /\ invoices' = Placed(terms[k].InvoiceID)
                        /\ slot' = [slot EXCEPT ![c] = terms[k].InvoiceID, ![d] = terms[k].InvoiceID]
  /\ pc' = [pc EXCEPT ![c] = "filling", ![d] = "filling"]
  /\ raced' = raced \cup {"map"}
  /\ UNCHANGED <<up, derivationIndex, request, terms, loaded, search, born, reply, world>>

(***************************************************************************)
(* ... and one that makes the map grow may move an entry before it is      *)
(* filled, or leave it behind: those who fill it fill the old place.       *)
(***************************************************************************)
MoveEntry(c) ==
  /\ pc[c] = "filling"
  /\ slot[c] # 0
  /\ Disturbed(c)
  /\ \/ UNCHANGED invoices
     \/ /\ invoices[slot[c]] = NoInvoice
        /\ invoices' = [i \in DOMAIN invoices \ {slot[c]} |-> invoices[i]]
  /\ slot' = [d \in Calls |-> IF slot[d] = slot[c] THEN 0 ELSE slot[d]]
  /\ raced' = raced \cup {"map"}
  /\ UNCHANGED <<up, derivationIndex, pc, request, terms, loaded, search, born, reply, world>>

\* Variant: the map is made anew for each invoice.
FillRemakes(c) ==
  /\ pc[c] = "filling"
  /\ invoices' = [i \in {terms[c].InvoiceID} |-> terms[c]]
  /\ slot' = [slot EXCEPT ![c] = 0]
  /\ Answer(c, [kind |-> "invoice", invoice |-> terms[c]])
  /\ UNCHANGED <<up, derivationIndex, request, terms, loaded, search, born, world, raced>>

\* Variant: the entry is stored before its expiry is known.
FillEarly(c) ==
  /\ pc[c] = "filling"
  /\ invoices' = IF slot[c] = 0 THEN invoices
                 ELSE With(invoices, slot[c], [terms[c] EXCEPT !.Expiry = 0])
  /\ slot' = [slot EXCEPT ![c] = 0]
  /\ Answer(c, [kind |-> "invoice", invoice |-> terms[c]])
  /\ UNCHANGED <<up, derivationIndex, request, terms, loaded, search, born, world, raced>>

\* The value is stored where the entry was, and the handler answers.
Fill(c) ==
  /\ pc[c] = "filling"
  /\ invoices' = IF slot[c] = 0 THEN invoices ELSE With(invoices, slot[c], terms[c])
  /\ slot' = [slot EXCEPT ![c] = 0]
  /\ Answer(c, [kind |-> "invoice", invoice |-> terms[c]])
  /\ UNCHANGED <<up, derivationIndex, request, terms, loaded, search, born, world, raced>>

-----------------------------------------------------------------------------
(***************************************************************************)
(* CheckInvoice and GetInvoice.  A lookup that runs into a change of the   *)
(* map's structure unnoticed may miss an entry that is there; an entry     *)
(* that is not filled yet is found, as a nil invoice.                      *)
(***************************************************************************)
CheckInvoice(c) ==
  /\ \E id \in Ids :
       /\ Made(c, [op |-> "check", id |-> id])
       /\ \/ IsValidAddress(id)  /\ GoTo(c, "lookup") /\ UNCHANGED reply
          \/ ~IsValidAddress(id) /\ Fail(c, "id")
  /\ UNCHANGED <<process, terms, loaded, slot, search, world, raced>>

GetInvoice(c) ==
  /\ \E id \in Ids : Made(c, [op |-> "get", id |-> id])
  /\ GoTo(c, "lookup")
  /\ UNCHANGED <<process, terms, loaded, slot, search, reply, world, raced>>

Misses(c) == request[c].id \notin DOMAIN invoices \/ Disturbed(c)

Finds(c) ==
  /\ request[c].id \in DOMAIN invoices
  /\ terms' = [terms EXCEPT ![c] = invoices[request[c].id]]

LookupCheck(c) ==
  /\ pc[c] = "lookup" /\ request[c].op = "check"
  /\ \/ Misses(c) /\ Fail(c, "id") /\ UNCHANGED terms
     \/ Finds(c) /\ GoTo(c, "deadline") /\ UNCHANGED reply
  /\ UNCHANGED <<process, request, loaded, slot, search, born, world, raced>>

LookupGet(c) ==
  /\ pc[c] = "lookup" /\ request[c].op = "get"
  /\ \/ Misses(c) /\ Fail(c, "id") /\ UNCHANGED terms
     \/ /\ Finds(c)
        /\ terms'[c] # NoInvoice
        /\ Answer(c, [kind |-> "invoice", invoice |-> terms'[c]])
  /\ UNCHANGED <<process, request, loaded, slot, search, born, world, raced>>

\* The second lookup of the map: does it yield an invoice?
SecondLookup(c) ==
  request[c].id \in DOMAIN invoices /\ invoices[request[c].id] # NoInvoice

\* The answer if the invoice is late, or on to the node.
DeadlineTest(c, late) ==
  /\ pc[c] = "deadline"
  /\ SecondLookup(c)
  /\ \/ late  /\ Answer(c, [kind |-> "status", status |-> "expired", remaining |-> 0])
     \/ ~late /\ GoTo(c, "balance") /\ UNCHANGED reply
  /\ UNCHANGED <<process, locals, world, raced>>

\* Variant: an invoice expires at its expiry, not after it.
CheckDeadlineEarly(c) == DeadlineTest(c, now >= invoices[request[c].id].Expiry)

\* Variant: only an invoice that nobody paid expires.
CheckDeadlineUnpaid(c) ==
  DeadlineTest(c, now > invoices[request[c].id].Expiry /\ AmountAt(request[c].id) = 0)

CheckDeadline(c) == DeadlineTest(c, now > invoices[request[c].id].Expiry)

(***************************************************************************)
(* The node: an output that does not parse fails the check, a search that  *)
(* fails counts as nothing received.                                       *)
(***************************************************************************)
GetReceivedAmount(c) ==
  /\ pc[c] = "balance"
  /\ \/ Fail(c, "balance") /\ UNCHANGED search
     \/ /\ \E found \in {[err |-> "nil", paid |-> AmountAt(request[c].id)],
                        [err |-> "failed", paid |-> 0]} :
             search' = [search EXCEPT ![c] = found]
        /\ GoTo(c, "verdict")
        /\ UNCHANGED reply
  /\ UNCHANGED <<process, request, terms, loaded, slot, born, world, raced>>

\* The amount is compared with the invoice of the first lookup.
AnswerCheck(c) ==
  /\ pc[c] = "verdict"
  /\ terms[c] # NoInvoice
  /\ Answer(c, [kind |-> "status",
                status |-> Status(terms[c].DigitalValue, search[c].paid),
                remaining |-> Remaining(terms[c].DigitalValue, search[c].paid)])
  /\ UNCHANGED <<process, locals, world, raced>>

-----------------------------------------------------------------------------
(***************************************************************************)
(* The process.  Go's map aborts the program when it notices an access     *)
(* during an assignment, a nil invoice that is dereferenced ends it too,   *)
(* and nothing restarts it but the operator.                               *)
(***************************************************************************)
InFlight(c) == pc[c] \notin {"idle", "done"}

Die ==
  /\ up
  /\ up' = FALSE
  /\ pc' = [c \in Calls |-> IF InFlight(c) THEN "done" ELSE pc[c]]
  /\ reply' = [c \in Calls |-> IF InFlight(c) THEN Unavailable ELSE reply[c]]
  /\ UNCHANGED <<derivationIndex, invoices, locals, world, raced>>

MapFault(c) ==
  /\ pc[c] \in {"insert", "inserting", "lookup", "deadline"}
  /\ Disturbed(c)
  /\ Die

NilDereference(c) ==
  /\ \/ /\ pc[c] = "lookup" /\ request[c].op = "get"
        /\ request[c].id \in DOMAIN invoices
        /\ invoices[request[c].id] = NoInvoice
     \/ pc[c] = "deadline" /\ ~SecondLookup(c)
     \/ pc[c] = "verdict" /\ terms[c] = NoInvoice
  /\ Die

Kill == restarts < MaxRestarts /\ Die

Restart ==
  /\ ~up
  /\ restarts < MaxRestarts
  /\ restarts' = restarts + 1
  /\ up' = TRUE
  /\ derivationIndex' = 0
  /\ invoices' = EmptyMap
  /\ raced' = {}
  /\ UNCHANGED <<call, now, received>>

-----------------------------------------------------------------------------
(***************************************************************************)
(* The world: the clock, and payments to addresses that clients were told. *)
(***************************************************************************)
Tick ==
  /\ now < MaxTime
  /\ now' = now + 1
  /\ UNCHANGED <<process, call, received, restarts, raced>>

Pay(c, v) ==
  /\ reply[c].kind = "invoice"
  /\ LET a == reply[c].invoice.InvoiceID IN
     /\ AmountAt(a) + v <= MaxReceived
     /\ received' = With(received, a, AmountAt(a) + v)
  /\ UNCHANGED <<process, call, now, restarts, raced>>

\* The steps that a handler takes by itself.
Progress(c) ==
  \/ DeriveChild(c) \/ LoadIndex(c) \/ StoreIndex(c)
  \/ BeginInsert(c) \/ PlaceKey(c) \/ Fill(c)
  \/ LookupCheck(c) \/ LookupGet(c) \/ CheckDeadline(c) \/ AnswerCheck(c)
  \/ NilDereference(c)

Next ==
  \/ \E c \in Calls : \/ CreateInvoice(c) \/ CheckInvoice(c) \/ GetInvoice(c)
                      \/ GetPrice(c) \/ GetReceivedAmount(c)
                      \/ Progress(c)
                      \/ \E d \in Calls : PlaceOverlap(c, d)
                      \/ MoveEntry(c)
                      \/ MapFault(c)
                      \/ \E v \in Payments : Pay(c, v)
  \/ Kill \/ Restart \/ Tick

Spec == Init /\ [][Next]_vars

-----------------------------------------------------------------------------
(***************************************************************************)
(* Addresses and indices.                                                  *)
(***************************************************************************)
Issued(c) == request[c].op = "create" /\ reply[c].kind = "invoice"

\* Issued by the process that runs, or that ran last.
Ours(c) == Issued(c) /\ born[c] = restarts

StatusOf(c) == IF reply[c].kind = "status" THEN reply[c].status ELSE "none"

(***************************************************************************)
(* "New address is generated for each invoice using extended public key"   *)
(* (README.md:29): no two invoices are issued with one address.            *)
(***************************************************************************)
UniqueAddresses ==
  \A c, d \in Calls : Issued(c) /\ Issued(d) /\ c # d
                      => reply[c].invoice.InvoiceID # reply[d].invoice.InvoiceID

(***************************************************************************)
(* The same promise for an invoice that is about to enter the ledger of a  *)
(* process in which no creates have raced for the index: its address has   *)
(* received nothing, so that no invoice is paid by the payments to         *)
(* another one.                                                            *)
(***************************************************************************)
FreshAddress ==
  "index" \notin raced =>
    \A c \in Calls : pc[c] \in {"load", "store", "insert", "inserting", "filling"}
                     => AmountAt(terms[c].InvoiceID) = 0

(***************************************************************************)
(* A read of the index between another create's read and its increment     *)
(* (api.go:73, 88) is the only way to hand out an address twice in one     *)
(* process: while that has not happened, the addresses that this process   *)
(* issued differ, however the creates overlap outside of that window, race *)
(* for the map, fail, or are overtaken.                                    *)
(***************************************************************************)
UniqueUnlessRaced ==
  "index" \notin raced =>
    \A c, d \in Calls : Ours(c) /\ Ours(d) /\ c # d
                        => reply[c].invoice.InvoiceID # reply[d].invoice.InvoiceID

\* The creates of this process that are past the increment of the index.
Incremented ==
  {c \in Calls : /\ request[c].op = "create"
                 /\ born[c] = restarts
                 /\ pc[c] \in {"insert", "inserting", "filling"} \/ Issued(c)}

(***************************************************************************)
(* DerivationIndex counts creates: increments that race may be lost, so    *)
(* that it falls behind, but it is never ahead and skips no address; and   *)
(* it counts every create as long as no two of them raced (api.go:88).     *)
(***************************************************************************)
IndexCountsCreates ==
  up => /\ derivationIndex <= Cardinality(Incremented)
        /\ "index" \notin raced => derivationIndex = Cardinality(Incremented)

(***************************************************************************)
(* An index that cannot be derived stops the service: once a call of this  *)
(* process has failed on it the index stays, so that every later call      *)
(* fails too (deriveAddress returns before the increment, api.go:73-88),   *)
(* unless creates have raced for the index or the process starts again.    *)
(***************************************************************************)
WedgeIsPermanent ==
  [][(/\ "index" \notin raced'
      /\ \E c \in Calls : /\ reply'[c] = [kind |-> "error", why |-> "derive"]
                          /\ born'[c] = restarts')
     => derivationIndex' = derivationIndex]_vars

-----------------------------------------------------------------------------
(***************************************************************************)
(* The ledger.                                                             *)
(***************************************************************************)
\* A create call of process p has built and returned this invoice.
Built(invoice, p) ==
  \E c \in Calls : Issued(c) /\ born[c] = p /\ reply[c].invoice = invoice

(***************************************************************************)
(* Entries of the map are never half of one invoice and half of another:   *)
(* whatever the races, an entry is nil or an invoice that a create of this *)
(* process has built; and unless assignments of the map have overlapped,   *)
(* it is the invoice of its key, or nil only because a create is about to  *)
(* fill it (api.go:50-54).                                                 *)
(***************************************************************************)
EntriesAreBuilt ==
  \A id \in DOMAIN invoices :
    \/ /\ invoices[id] = NoInvoice
       /\ up /\ "map" \notin raced => \E c \in Calls : pc[c] = "filling" /\ slot[c] = id
    \/ /\ Built(invoices[id], restarts)
       /\ "map" \notin raced => invoices[id].InvoiceID = id

(***************************************************************************)
(* The ledger keeps what the client was told: without races, the invoice   *)
(* of every answer of this process is in the map, unchanged, under its     *)
(* address (api_test.go:66-70).  When creates have raced for the index     *)
(* alone, some whole invoice with that address is.                         *)
(***************************************************************************)
LedgerKeepsAnswers ==
  \A c \in Calls : Ours(c) =>
    LET told == reply[c].invoice IN
    /\ "map" \notin raced =>
         told.InvoiceID \in DOMAIN invoices /\ invoices[told.InvoiceID].InvoiceID = told.InvoiceID
    /\ raced = {} => invoices[told.InvoiceID] = told

(***************************************************************************)
(* A check that found an invoice at its first lookup (api.go:167) finds    *)
(* one at its second (api.go:174) and does not dereference nil there,      *)
(* across races for the map, growth of the map, aborts and restarts.       *)
(***************************************************************************)
SecondLookupHits ==
  \A c \in Calls : pc[c] = "deadline" /\ terms[c] # NoInvoice => SecondLookup(c)

-----------------------------------------------------------------------------
(***************************************************************************)
(* Verdicts.                                                               *)
(***************************************************************************)
(***************************************************************************)
(* A call answers paid only if its address has received the lower limit of *)
(* an invoice that was built in its process, whatever the races and        *)
(* restarts (api.go:185-191); and unless creates have raced, that is the   *)
(* invoice that the client of this address was told.                       *)
(***************************************************************************)
PaidMeansFunded ==
  \A c \in Calls : StatusOf(c) = "paid" =>
    /\ AmountAt(request[c].id) >= LowestPaid(terms[c].DigitalValue)
    /\ Built(terms[c], born[c])
    /\ \A d \in Calls :
         raced = {} /\ born[c] = restarts /\ Ours(d) /\ reply[d].invoice.InvoiceID = request[c].id
         => reply[d].invoice = terms[c]

(***************************************************************************)
(* Unless creates of this process have raced, an invoice is reported       *)
(* expired only after the expiry that its client was told (api.go:174),    *)
(* also when it is an invoice of an earlier process whose address was      *)
(* given to another one since.                                             *)
(***************************************************************************)
DeadlineKept ==
  \A c, d \in Calls :
    /\ raced = {} /\ born[d] = restarts
    /\ Issued(c) /\ StatusOf(d) = "expired" /\ request[d].id = reply[c].invoice.InvoiceID
    => now > reply[c].invoice.Expiry

(***************************************************************************)
(* Expired is final for those who ask later: after an invoice was reported *)
(* expired, no check of this process passes the deadline test for it       *)
(* (api.go:174-177), unless creates have raced.  A check that has passed   *)
(* the test before may still be told where the payment stands.             *)
(***************************************************************************)
ExpiredIsFinal ==
  [][\A c, d \in Calls :
       /\ raced = {} /\ born[d] = restarts
       /\ pc[c] = "deadline" /\ pc'[c] = "balance"
       /\ StatusOf(d) = "expired"
       => request[d].id # request[c].id]_vars

Funding == {"unpaid", "partially_paid", "paid", "over_paid"}

(***************************************************************************)
(* A search that the node answers never sees less than an answer given     *)
(* before it: the status it leads to ranks at least as high as any status  *)
(* that was answered, by this process or an earlier one, for this address  *)
(* and the same amount (api.go:180-203).  A search that fails, or an       *)
(* answer that overtakes another, may bring an older status.               *)
(***************************************************************************)
AnswersAdvance ==
  [][\A c, d \in Calls :
       /\ pc[c] = "balance" /\ pc'[c] = "verdict" /\ search'[c].err = "nil"
       /\ StatusOf(d) \in Funding
       /\ request[d].id = request[c].id
       /\ terms[d].DigitalValue = terms[c].DigitalValue
       => Rank(StatusOf(d)) <= Rank(Status(terms[c].DigitalValue, search'[c].paid))]_vars

(***************************************************************************)
(* "not paid at all" (api.go:193): a call answers "unpaid" only if its     *)
(* address had received nothing when the node was asked.                   *)
(***************************************************************************)
UnpaidMeansNothingReceived ==
  [][\A c \in Calls :
       /\ pc[c] = "balance" /\ pc'[c] = "verdict"
       /\ Status(terms[c].DigitalValue, search'[c].paid) = "unpaid"
       => AmountAt(request[c].id) = 0]_vars
=============================================================================
