----------------------- MODULE InvoiceServerRefinement -----------------------
(***************************************************************************)
(* The backend implements the ledger that it promises.  The ledger holds   *)
(* the entries of the map that are filled; the case of a check is open     *)
(* from the moment it passes the deadline test with an invoice in hand.    *)
(***************************************************************************)
EXTENDS InvoiceServer

Filled == {id \in DOMAIN invoices : invoices[id] # NoInvoice}

Entries == [id \in Filled |-> invoices[id]]

CaseOf(c) ==
  IF pc[c] \in {"balance", "verdict"} /\ terms[c] # NoInvoice
  THEN [id |-> request[c].id, due |-> terms[c].DigitalValue,
        paid |-> IF pc[c] = "verdict" THEN search[c].paid ELSE -1]
  ELSE [id |-> -1, due |-> 0, paid |-> -1]

Cases == [c \in Calls |-> CaseOf(c)]

VerdictOf(c) ==
  IF reply[c].kind = "status"
  THEN [status |-> reply[c].status, remaining |-> reply[c].remaining]
  ELSE [status |-> "none", remaining |-> 0]

Verdicts == [c \in Calls |-> VerdictOf(c)]

Calm == raced = {}

Forgotten == restarts > 0

Ledger == INSTANCE InvoiceLedger
  WITH ledger <- Entries, open <- Cases, verdict <- Verdicts, calm <- Calm, forgotten <- Forgotten

(***************************************************************************)
(* Every behaviour of the handlers is a behaviour of the ledger, whatever  *)
(* the races, failures of the node, aborts and restarts: the two reads of  *)
(* the map, the separate reads of the clock and of the node, and the index *)
(* that is read and incremented in different steps show only after creates *)
(* have collided, as invoices that take the place of others (api.go).      *)
(***************************************************************************)
ImplementsLedger == Ledger!Spec
=============================================================================
