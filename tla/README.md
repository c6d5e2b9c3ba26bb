# Verification of Simple Bitcoin Invoices

TLA+ modules for the invoice system: a Go backend that prices invoices, derives
an address for each and watches a bitcoin node for payments, and a React client
that shows an invoice and polls for its status. TLC checks the modules on small
instances; TLAPS proves the main theorems for every value of the constants.

## 1. Inventory

| Part | State | Operations |
|---|---|---|
| gRPC handlers (`server/server/api/api.go`, `models.go`) | `DerivationIndex`, the map `Invoices`; per call: price, address, invoice looked up | `CreateInvoice`, `CheckInvoice`, `GetInvoice` |
| Node client (`server/server/bitcoin/rpc.go`) | a connection | `GetReceivedAmount`, `IsValidAddress`, `InitRpcConnection`; `AddAddress` has no caller |
| Server process (`server/cmd/invoice-app/main.go`) | all of the above, in memory only | start; abort by a map fault or a panic |
| Invoice page (`client/src/components/ShowInvoice`, `Receipt`, `Paid`, `OverPaid`, `Error`) | `loading`, `error`, `status`, the fields of the invoice, calls on their way | mount, `getInvoice`, `checkInvoice` every ten seconds, render |
| Application and form (`Application`, `CreateInvoice`) | amount typed, `redirect`, `redirectURL`, `error` | type, submit, answer, redirect; load anew |
| Message types (`invoice.proto`, `invoice.pb.go`, `invoice_pb.js`, `invoice_grpc_web_pb.js`) | the slots of a message | setters, getters, writers, readers; the method descriptors |
| Envoy (`envoy/envoy.yaml`) | calls on their way | forwards a call once, or fails it; no time limit (`max_grpc_timeout: 0s`), no retry |
| nginx, docker, btcd, btcwallet | configuration of external programs | serve files; index transactions |
| Service worker, header, footer | none | the header's title loads the page anew |

**Interaction.** The client calls the backend over gRPC-web through envoy; each
call runs in a goroutine of its own. `CreateInvoice` asks an HTTP price service,
then derives an address, then writes the map. `CheckInvoice` reads the map
twice, reads the clock, and asks the node. The page calls `getInvoice` once and
then `checkInvoice` on a timer. The payer and the node act on their own.

**What is hard.**

* A check asks the node and is judged later; checks that asked before it may be
  answered after it (`api.go:180-203`).
* The goroutines share `DerivationIndex` and `Invoices` without a lock
  (`api.go:50, 73, 88, 167, 174, 215`).
* The derivation index is read in one place and incremented in another.
* Nothing survives the process (`main.go:33`).
* Errors are dropped: of `ReadAll` (`api.go:134`) and of
  `SearchRawTransactions` (`rpc.go:72`).
* Prices and tolerances pass through doubles and are truncated
  (`api.go:143-146, 186`).
* The search of the node is limited to 100 transactions and ordered by
  confirmation, which is not the order of arrival.
* The page sends checks without waiting, so answers overtake one another; its
  error is never cleared.
* Neither the price request, nor the search of the node (whose client holds it
  while the connection is lost), nor the call of the client has a time limit: a
  create may never be answered, or be answered after its user has loaded the page
  anew and submitted again. An answer may be lost after the invoice was stored.
* A page outlives the server it was loaded from, and asks a new one about an
  address that is unknown there or belongs to somebody else's invoice.
* Client and server agree on field numbers and kinds only by being generated
  from one file; a zero takes no bytes.

**What makes it correct.** Backend: an address for each invoice, not used
before; the ledger keeps what clients were told; `paid` means money; a deadline
is kept and final; searches advance. The first two the code does not give, since
creates race and processes start again; what is left of them without a race is
stated and proved (`UniqueUnlessRaced`, `LedgerKeepsAnswers`). Node client: the
amount is what was sent. Page: it never claims more than the server knows, and
comes to show what the server knows. Messages: what is set is what is read.
Together: each user sees the amount he asked for, a receipt agrees with the
ledger and a paid page is funded, unless creates collide or the server starts
again; and every page settles.

## 2. Modules

| Module | What it is |
|---|---|
| `InvoiceMath` | `getPrice`'s conversion and the interval test of `CheckInvoice` as operators |
| `PaymentProgress` | one invoice that is priced and paid, over `InvoiceMath` |
| `InvoiceServer` | the process: handlers, shared state, aborts and restarts, clock, payments |
| `InvoiceLedger` | the abstract promise of the backend |
| `InvoiceServerRefinement` | the refinement mapping from `InvoiceServer` to `InvoiceLedger` |
| `BitcoinRpc` | `GetReceivedAmount` over an address index of chain and mempool |
| `ShowInvoice` | the invoice page and its calls |
| `Application` | the shell of the client with its form: submits, answers, the redirect |
| `InvoiceMessages` | the five messages, as both sides make them bytes and read them back; pure operators |
| `InvoiceSystem` | browsers, calls and server together, over `InvoiceMath` and `InvoiceMessages` |
| `InvoiceMathProofs`, `InvoiceMessagesProofs` | lemmas and theorems about the operators |
| `PaymentProgressProofs`, `BitcoinRpcProofs`, `ShowInvoiceProofs`, `ApplicationProofs`, `InvoiceSystemProofs` | theorems about the module of that name |
| `InvoiceServerProofs` | theorems about `InvoiceServer` under any races, failures and restarts, and the refinement of `InvoiceLedger` |
| `MC*` | instances for TLC |

`InvoiceServer` splits the handlers at every access to shared state, and the
assignment to the map into the steps of the runtime. `InvoiceSystem` composes
the handlers with the client: a create keeps the steps of the index there, a
check those before and after the node; the two lookups of a check are one step
(`ServeCheck`), and so is the assignment to the map, whose inner races are the
matter of `InvoiceServer`. `ShowInvoice` and `Application` are the components of
the client in detail, with several calls of one page on their way;
`InvoiceSystem` has both components in each browser.

Operators whose comment begins with `Variant:` are not part of a specification.
Each is a mapped definition with a plausible mistake in it; replacing the
definition by the variant must make a property fail (`mutants` in
`PROJECT.json`).

### InvoiceServer and the code

`derivationIndex` and `invoices` are the fields of `Server`. `pc[c]` is the
shared access that call `c` makes next; `terms[c]` holds the locals of the
handler (the invoice it builds, or the `invoice` of its lookup), `loaded[c]` the
value that `DerivationIndex++` has loaded, `slot[c]` the entry of the map that
the runtime gave it to fill, `search[c]` what the node returned, `reply[c]` the
answer. One action per shared access:

| Action | Code |
|---|---|
| `CreateInvoice` | the test of the value, `api.go:28-34` |
| `GetPrice` | the price, whole or cut, and the expiry, `api.go:37-42, 94-147` |
| `DeriveChild` | the read of the index and the derivation, `api.go:64-84` |
| `LoadIndex`, `StoreIndex` | `DerivationIndex++`, `api.go:88` |
| `BeginInsert`, `PlaceKey`, `Fill` | the assignment to the map, and the answer, `api.go:50-60` |
| `PlaceOverlap`, `MoveEntry` | what two assignments at once do to each other |
| `CheckInvoice`, `GetInvoice` | the validation of the id, `api.go:159`; the call, `213` |
| `LookupCheck`, `LookupGet` | `s.Invoices[id]`, `api.go:167-170`, `215-220` |
| `CheckDeadline` | the second read and the clock, `api.go:174-177` |
| `GetReceivedAmount` | what the node returns, `api.go:180-183` |
| `AnswerCheck` | the verdict, on the invoice of the first lookup, `api.go:185-203` |
| `NilDereference` | an invoice found without its value ends the process |
| `MapFault`, `Kill`, `Restart` | the runtime's abort, the end of the process, `main` |

An address is a number: `AddressAt(index)` is `index + 1`, one address for each
index of the extended key, and 0 stands for none. Derivation fails at the
indices of `UnusableIndices` and from `HardenedKeyStart` on.

The Go map is a data race. An assignment makes the entry of a key and hands out
its place, without a value; only then the handler stores the value there. While
an assignment changes the structure, an access of another goroutine is noticed,
and the runtime aborts the process (`MapFault`), or is not: a lookup may miss an
entry that is there, an overlapping assignment may take the same place under the
key of either (`PlaceOverlap`), an entry may be moved, or left behind, while
somebody is about to fill it (`MoveEntry`). A lookup may find an entry without
its value, a nil invoice: `CheckInvoice` reads the entry again for the expiry,
and goes as far as `api.go:174` or `185` before it dereferences nil
(`NilDereference`).

Two history variables say what properties need to know: `born[c]`, the process
in which `c` was made; and `raced`, the data on which creates of this process
have collided. `"index"` enters it when a create reads the index between the
read and the increment of another (`ReadIndex`), `"map"` when assignments
overlap or an entry is moved. They guard no step of the handlers.

The clock counts in units in which the life of an invoice is `InvoiceLifetime`;
`getExpiry` reads it in the step that gets the price, since no shared access
lies between them.

### BitcoinRpc and the code

`chain` and `mempool` are what btcd's address index lists, confirmed first.
`SearchRawTransactions(a)` is the call at `rpc.go:72`: the places, in that order
(`Known`), of the oldest `SearchCount` transactions, or none if the node fails.
`GetReceivedAmount(a)` is the double loop of `rpc.go:79-93`; `Total` is what a
loop that adds up numbers ends with, `Credits` and `CreditOf` are the numbers of
the outer and the inner loop. That later payments to an address with 100 listed
transactions never count, although the comment at `rpc.go:78` speaks of each
transaction, is the run `full_window`, and the theorem `FullWindowIsFrozen` says
why. Money stays counted when it is spent, although the comment at `rpc.go:62`
speaks of the amount owned (`AmountNeverDrops`); since an invoice asks what was
paid to it, the comment is taken to be loose. A script of several keys that
names an address twice is counted twice (`rpc.go:86-91`, `Credit`), so what says
that no money is made up (`ExactInWindow`, `NeverOverstated`) is about addresses
that every script names once (`NamedOnce`). The node's own steps are external:
broadcast, confirmation in any order that respects spending, loss of the last
transaction of the chain (`Reorganize`), drops, and the begin and end of a time
in which it answers searches with errors (`BeginErrors`, `CeaseErrors`). A lost
connection is not among them: the websocket client (`rpc.go:31-39`) connects
again and holds the search until then, so no amount is computed.

### ShowInvoice and the code

`status`, `remaining`, `loading` and `error` are the fields of the component's
state, `loaded` says whether the invoice is in it. The callback of `getInvoice`
puts it there (`FillState`, `index.jsx:41`); what is chained to its promise runs
later (`BeginPolling`, `:78-97`), and the page is rendered in between. `check[s]`
is a call of `checkInvoice` on its way. The server judges the invoice when
`ServerAnswers(s)` happens; `Deliver(s)` is the callback, at any later time and
in any order. `Screen` is `render`, with its tests in order.

### Application and the code

`fiatValue` is the state of the form, `redirect`, `redirectURL` and `error` that
of `Application`; `path` is the location of the browser. The callback of
`createInvoice` and the function chained to its promise render the page twice:
`Deliver(r)` sets `redirect`, whose redirect goes to `""`, which resolves to the
same location and leaves the page blank; `SetRedirectURL(r)` sets `redirectURL`,
and the second rendering goes on to the invoice. No other callback of the
browser, and no input, comes between them (`Idle`). `Redirected` is the condition
under which the `Redirect` is mounted at all. The location never returns to `/`
by itself, since redirects replace the entry of the history.

### InvoiceMessages and the code

The contents of a message are a record. On the client a message is an array, here
a function on the slots that are set (`Message`, `Contents`: setters and
getters); on the server it is a struct whose tags are `Tags`. `Writers`
and `Readers` are the `serializeBinaryToWriter` and
`deserializeBinaryFromReader` of each type, field by field in the generated
code; `Marshal` leaves out fields at their default, `Unmarshal` gives them their
default back. A field that is read as another kind than it was written gives
`Garbled`. Methods pair the types of a request and a response; `Handlers` are
the descriptors of the server.

### InvoiceSystem and the code

`page[b]` is what the components of browser `b` hold: the location, the error of
`Application` (`refused`), and the state of `ShowInvoice`, whose `stage` says
how far its mounting has come. `call[l]` is the call on a line of a browser: its
bytes, what the sender put in (`asked`, `said`), and whether the page that made
it is still there (`live`). A create and a check also hold the locals of their
handler (`terms`, `loaded`) while they are in the server.

| Action | Code |
|---|---|
| `Submit` | the form and `createInvoiceRequest`, `CreateInvoice/index.jsx`, `Application/index.jsx` |
| `Load` | the link of the title, a reload, or a shared link: the callbacks of the old page are gone, its create is not |
| `IntervalFires` | the timer, `ShowInvoice/index.jsx:85-100`; since the model has few lines, a check that waits for the node may give up its line to a new one |
| `DeliverCreate`, `DeliverGet`, `DeliverCheck` | the three callbacks with an answer, and the call that each makes next |
| `DeliverError` | the three callbacks with an error |
| `ServePrice`, `ServeDerive`, `ServeDeriveFails`, `ServeLoad`, `ServeStore`, `ServeInsert` | `CreateInvoice`, on the bytes of the request, `api.go:26-61`; the price may be cut (`DigitalValues`) |
| `ServeGet` | `GetInvoice` |
| `ServeCheck`, `NodeAnswers` | `CheckInvoice` up to the node, and from its answer, a failed search included |
| `CallFails` | a call lost before or after the server has handled it: connections, envoy, the price service, the node |
| `CreateGoesOn` | the client is told of an error while the handler, which ignores the context, goes on |
| `Restart` | `main` with an empty ledger; the calls in the server fail, the pages and the other calls stay |
| `Pay`, `Tick` | a payer, the clock |

The history variable `creates` says whether a create has read the index in the
window of another, or entered the map while another was about to. `Undisturbed`
is the condition of the three properties about the content of pages: no restart,
and creates that have not collided. Creates do overlap under it, in every other
order; what happens when they collide is the run `address_race`.

## 3. Runs

| Run | Shows |
|---|---|
| `payment_progress` | the status follows the two percent rule, advances, the remaining amount settles the invoice, and nothing received is `unpaid` unless the price service's answer was cut to nothing (`NotPaidAtAll`) |
| `server` | the backend with racing creates, an index that fails, cut prices, failing searches, a kill and a restart: addresses are unique unless the index was raced for, the index counts creates, entries of the map are whole, the ledger keeps what was told, the second lookup hits, `paid` means money, deadlines are kept and final, searches advance, a failed index stays; and the handlers implement `InvoiceLedger` |
| `rpc_amount` | the amount is what was sent within the window, never more, and does not drop |
| `invoice_page` | no claim ahead of the server, a receipt is filled, and the state converges to the server's answer |
| `create_page` | a create that ends leads to an invoice or an error, though others never end; the page is blank only in the middle of a redirect |
| `system_invoices` | client and server with overlapping creates: messages are understood, each user sees the own amount, receipts agree with the ledger, paid pages are funded |
| `system_settles` | every page settles, with calls that overlap, fail or never end, and a server that starts again |

The remaining runs each show a disagreement between the code and its own words:

| Run | What happens |
|---|---|
| `address_race` | two creates overlap and share an address |
| `address_restart` | after a restart a paid address is issued again |
| `node_outage` | a failing search turns a paid invoice into `unpaid` |
| `full_window` | a payment beyond the transactions that the search lists is not counted |
| `page_error` | one failed check hides the balance for good |

**Bounds.** `payment_progress` takes all quotes from 1 to 260: the tolerance
takes the values 0 to 5, and payments run past the upper limit of the largest.
The quotes that lose a satoshi in IEEE doubles (`MCShortQuotes`) were computed
for this range.

`server` has three calls: two creates that race and a check, a create and two
checks at the node together, or three creates. One quote of 3 satoshis makes an
invoice of 2, or of 0 when its body is cut; payments of 1 reach all of
`unpaid`, `partially_paid` and `paid`. Index 2 cannot be derived, so that a third
create fails for good, and a create after a lost increment does not. An invoice
lives for the tick in which it is made (`InvoiceLifetime` 0, `MaxTime` 1), so it
may expire between any two steps. One restart shows an address issued by two
processes. The calls are interchangeable in every property (`MCSymmetry`; the
run has no liveness).

In `rpc_amount` and `full_window` the window is 2 instead of 100 and four
transactions of six kinds are known at once: every situation around the limit
occurs, also with scripts that are shared, name an address twice or do not parse.
`invoice_page` has two calls on their way, enough for an answer to overtake
another, and one failure. `create_page` has three submits, so that an answer, a
failure and a call still on its way meet, and loads the page anew twice.

`system_invoices` has two browsers with different amounts, each with one call on
its way at a time, two addresses and one load: enough for creates to overlap in
every order, for a link to be opened by another, for a create to outlive its page
and meet the one its user makes next, and for an answer to be lost. Its three
properties about pages hold in one process, so it has no restart.
`system_settles` has one browser with two calls at a time, one address, so that
a second create fails, one load and one restart. `ServePrice` leaves each invoice
the time to expire, and `Restart` waits until there is something to forget. One
payment of the quote settles an invoice.

The bounds `MaxTime`, `MaxReceived`, `MaxRestarts`, `MaxTransactions`,
`MaxFailures` and `MaxLoads` appear only in guards, and `Lines` is the bound on
the calls of a browser.

Deadlock checking is off where the model may stop: when all calls are done and
its bounds are reached, or when the process has ended and nobody restarts it.

**Fairness.** The backend has none, and no liveness is stated of it: a create
may wait for its price for ever (`api.go:121` sets no timeout), and a check for
the node (`rpc.go:31-39` holds a search while the connection is lost). On the
page, the timer, the server's answers and the callbacks are weakly fair;
payments, failures and the expiry are not, so the page may converge to any of
the five statuses. In the shell, callbacks run; typing, submitting and loading
are not fair, and neither are the server's answers. In `InvoiceSystem` the
server answers lookups, and checks up to the node, callbacks and timers run and
time passes; creates and the node need not answer, and `CallFails` is not fair.
A page settles even so, since the deadline is tested before the node is asked.

## 4. Proofs

For every value of the constants that satisfies the named assumptions.

* `InvoiceMathProofs`: the interval is the fiftieth part rounded down
  (`IntervalIsFiftieth`); the branches of `CheckInvoice` as inequalities
  (`StatusByAmount`), from which follow that each amount has a status
  (`StatusIsStatus`), what remains (`RemainingByAmount`) and that more money is
  never a lower status (`AmountOrdersStatus`); a quote, whole or cut, becomes a
  natural number (`DigitalValuesAreNat`).
* `PaymentProgressProofs`: type correctness, the two percent rule, the remaining
  amount, the advance of the status, and that only an invoice over 0 is paid
  with nothing received.
* `InvoiceServerProofs`: for any calls, races, failures, aborts and restarts, with
  no assumption but `ServerAssumption`. Where a race or a restart does take a
  promise away, the property itself says so (`raced`, `born`). The invariants,
  each proved from those before it:
  * `TypeOK` together with `Fits`: a call that is not done has no reply, its
    request is of the kind its position calls for, and its `born` is at most the
    restarts; without it the value of a request could not be typed.
  * `AllWellMade`: an invoice being made is over something, has an address, and
    expires in time.
  * `AddressInv`: while the index was not raced for, at most one create is in the
    window (`Alone`), it holds the address of the index it is about to increment
    (`Next1`), and every other address of this process is at most the index and
    held by one create only (`AddressesHeld`, `Below`). From it
    `AddressesAreUnique`.
  * `IndexCounts`, about the number of creates past their increment and the value
    each has loaded: `IndexIsCount`. `Wedged`, that after a failed derivation
    nobody is incrementing: `FailedIndexStays`.
  * `MapInv`: who is about to fill which entry (`SlotsFit`), `EntriesAreBuilt` and
    `LedgerKeepsAnswers`, which are inductive only together: `EntriesAreWhole`,
    `AnswersAreKept`. `CalmEntryStays` says that without a race an entry that has
    its value keeps it.
  * `AllLookedUp`: what a check has found at its first lookup is an invoice that
    its process has built, and the entry is still there: `SecondLookupAlwaysHits`.
  * `AllJudged`: what was reported expired has expired, and any other status is
    that of an amount which the address has received at least: `PaidIsFunded`,
    `ExpiredStays`, `AnswersGoForward`.
  * `AllExpiriesFit`, that an invoice expires no later than any that a later
    process prices: `DeadlinesAreKept`, also across a restart.
  * `PaidWasIssued`, that only addresses which clients were told are paid:
    `AddressesAreFresh`, which says of the first process what `address_restart`
    refutes of the second.
  * `ServerInv`, all of these: `HandlersImplementLedger`. `Fill` is `Issue`,
    `CheckDeadline` is `Pass` or `Expire`, `GetReceivedAmount` is `Read`,
    `AnswerCheck` is `Judge`, a race is `Collide`, `Restart` is `Forget`, an error
    and the end of the process are `GiveUp`, and every other step of a handler is
    unseen (`QuietStep`).
* `BitcoinRpcProofs`, for any number of addresses, transactions, outputs and
  addresses in a script, any values and any `SearchCount`: type correctness,
  `ExactInWindow`, `NeverOverstated`, `AmountNeverDrops`, and `FullWindowIsFrozen`:
  while the chain fills the window of an address, no step changes its amount, for
  every window (the run `full_window` shows one payment that is missed).
  The amounts are sums over sequences, so these rest on induction:
  * The library's induction takes a predicate as a parameter, which the provers
    cannot instantiate. `SetInduction` says the same of a set, and follows from
    `WFMin`, that a well-founded order has minimal elements. By it
    the recursive function behind `Total` exists and unfolds (`SumsExist`,
    `SumsStep`), smaller numbers have a smaller sum (`SumsMonotone`), equal ones
    an equal sum (`SumsAgree`), zeros at the end change nothing (`SumsZeros`), and
    neither does moving a number to an earlier place (`TotalMoved`), which is
    what a confirmation out of order does. A reorganization leaves the sequence
    of known transactions as it is (`ReorganizeKeepsKnown`).
  * The amount is written as a function of the sequence of known transactions
    (`Amount`, `AmountIsKnown`), so that one lemma serves before and after a
    step. Whatever is listed, it is at most what all outputs credit
    (`AmountBelow`), and this is what was sent if no script names the address
    twice (`FullIsSent`); in the window it is all of it (`OldestInWindow`,
    `AmountFull`). No step but a drop lessens it (`FullStep`).
  * If a prefix of the known transactions fills the window, the oldest ones and
    the amount are those of the prefix (`OldestOfPrefix`, `AmountOfPrefix`), and
    the chain is a prefix before and after every step; a reorganization leaves
    the known transactions as they are.
  * `AmountIsBounded`: the amount is at most `SearchCount` times what one
    transaction credits. With 100, the 2.1e15 satoshis there are, and the at
    most 20 keys of a script, that is 4.2e18, below the 9.2e18 of an int64: this
    is why the model adds without a width.
* `InvoiceMessagesProofs`, for all contents: `RequestUnderstood` and
  `ResponseUnderstood` (what one side sets the other side reads, for each method)
  and `RoundTrip` (the client reads back what it writes). They rest on
  `UnmarshalMarshal`, for tables that name no field twice, and on `TablesAgree`,
  that writers, readers, accessors and tags of a type are the same table.
* `InvoiceSystemProofs`, for any number of browsers, lines, addresses, loads and
  restarts: type correctness, together with what every call carries (`Calls`)
  and that an open page is filled (`Filled`); `Understood`; and `OwnAmount`,
  `ReceiptAgrees`, `PaidPageFunded`. What a page shows comes out of answers, and
  answers out of the ledger, which may change while an answer is on its way.
  * `Indices` is the argument about creates: as long as none have collided, the
    ledger is under the addresses below the index (`LedgerTells`), a create holds
    an address that no other holds and the ledger does not have (`CreatesTell`),
    and one create at most is in the window (`OneWindow`). So a new invoice never
    takes the place of another.
  * `Tells` says of calls (`CallsTell`) and pages (`PagesTell`) what the next one
    relies on, in a form that payments and new invoices (`Onward`) keep true; an
    amount that the node has returned and that is still on its way is one of
    those.
* `ShowInvoiceProofs`: type correctness; `ReceiptIsFilled`, since the loading
  screen goes only after the invoice is in the state (`LoadsFirst`);
  `NeverAheadOfServer`, since no answer on its way is ahead either
  (`AnswersBehind`), and money and time only go forward.
* `ApplicationProofs`: type correctness; `BlankOnlyBetween`, since outside a
  callback a page at `/` with `redirect` set would have been led on
  (`BlankOrLed`); `AnsweredIsOnPage`, since the location is one that was answered
  (`PathWasAnswered`), so is the target of the redirect (`TargetWasReached`), and
  an error one that a create has met (`ErrorWasRefused`).

Only model-checked:

* liveness (`PageConverges`, `SubmitEnds`, `PagesSettle`): the prover has neither
  fairness nor ENABLED.

Every other property of a passing run is a theorem. A definition by CHOOSE is
expanded in steps of Zenon only (`SumsStep`, `IndexFound`); the SMT translation
of this version is not to be relied on for CHOOSE.

## 5. Not modelled

* The bytes of a varint and of a length; `toObject` and groups, which no code
  uses; the promise client, which has no caller. Of the messages, everything
  that decides which field is read as what is modelled.
* Wording of errors, logging, layout.
* `InitRpcConnection` and `AddAddress` end the process on an error; the first
  before anything is served, the second has no caller.
* Quotes of one bitcoin and more, negative quotes, and a body that parses as
  infinity or NaN. Cents: `Math.round` of the form and `%.2f` of the price
  request are exact for the five integer digits that the form admits.
* Envoy's translation of gRPC-web and CORS. It has no time limit and no retry
  to model, and the handlers ignore the context of their call, so a call that is
  cancelled is one whose answer reaches nobody (`live`).
* The deployment: nothing in it restarts a container by itself, which is why
  `Restart` is not fair. The service worker is unregistered by `index.js`.
* Liveness of the backend. A create whose price never comes, and a check whose
  search never returns, stall for ever; there is no end to state. `PagesSettle`
  and `SubmitEnds` show that they stall nothing else.
* The harm of a price that was cut (`api.go:134`). Cut prices are modelled, down to
  an invoice over 0 which is `paid` with nothing received, and every property
  holds with them; but none can tell a cut price from a low one, since the code
  and its words say nothing about what the right price is. The same goes for the
  satoshi that a product below an integer loses (`api.go:146`).
* Overlapping assignments inside the map, in `InvoiceSystem` (see `InvoiceServer`).

## 6. Plan

Done: the backend, the page, the shell, the node client, the messages, their
composition with creates that overlap, and the proofs above.

Left: `BitcoinRpc` under `InvoiceServer`, that is the received amount of the
handlers as computed by the node client, and which of the server's properties
survive drops and the window. By hand: `PaidMeansFunded` uses only that the
reported amount is at most what was sent (`NeverOverstated`); `AnswersAdvance`
needs that it does not drop, which `AmountNeverDrops` shows only while no
transaction is dropped by the node.
