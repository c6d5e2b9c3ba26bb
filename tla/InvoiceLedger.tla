---------------------------- MODULE InvoiceLedger ----------------------------
(***************************************************************************)
(* What the backend promises, without goroutines, map reads or indices.    *)
(* Invoices are added to a ledger; as long as it is calm, that is no two   *)
(* creates have collided, each has a key of its own that is its id, and    *)
(* stays as it is; nothing was paid to it before, unless the ledger was    *)
(* forgotten once.  A verdict is opened by the deadline test, notes what   *)
(* the address has received, and is given: what is paid between the test   *)
(* and the note counts, what is paid later does not.                       *)
(***************************************************************************)
EXTENDS InvoiceMath

CONSTANTS
  Calls,            \* those who ask for verdicts
  InvoiceLifetime,  \* no invoice lives longer than this
  Payments          \* the value of one payment

VARIABLES
  ledger,    \* the invoices, by id
  open,      \* open[c]: the case of c, opened by the deadline test
  verdict,   \* verdict[c]: the status that c was given
  received,  \* what each paid address has received
  now,
  calm,      \* have no creates collided since the ledger was begun?
  forgotten  \* was the ledger begun anew?

vars == <<ledger, open, verdict, received, now, calm, forgotten>>

EmptyLedger == [x \in {} |-> x]

Unread    == -1
NoCase    == [id |-> -1, due |-> 0, paid |-> Unread]
NoVerdict == [status |-> "none", remaining |-> 0]

Received(a) == IF a \in DOMAIN received THEN received[a] ELSE 0

Init ==
  /\ ledger = EmptyLedger
  /\ open = [c \in Calls |-> NoCase]
  /\ verdict = [c \in Calls |-> NoVerdict]
  /\ received = EmptyLedger
  /\ now = 0
  /\ calm = TRUE
  /\ forgotten = FALSE

\* One invoice enters the ledger.
Issue ==
  /\ \E a \in DOMAIN ledger' :
       /\ DOMAIN ledger' = DOMAIN ledger \cup {a}
       /\ \A b \in DOMAIN ledger \ {a} : ledger'[b] = ledger[b]
       /\ ledger'[a].FiatValue > 0
       /\ ledger'[a].Expiry <= now + InvoiceLifetime
       /\ calm => a \notin DOMAIN ledger /\ ledger'[a].InvoiceID = a
       /\ calm /\ ~forgotten => Received(a) = 0
  /\ UNCHANGED <<open, verdict, received, now, calm, forgotten>>

Collide ==
  /\ calm' = FALSE
  /\ UNCHANGED <<ledger, open, verdict, received, now, forgotten>>

Forget ==
  /\ ledger' = EmptyLedger
  /\ open' = [c \in Calls |-> NoCase]
  /\ calm' = TRUE
  /\ forgotten' = TRUE
  /\ UNCHANGED <<verdict, received, now>>

\* c asks about an invoice that has not expired, ...
Pass(c, a) ==
  /\ open[c] = NoCase
  /\ now <= ledger[a].Expiry
  /\ open'[c] = [id |-> a, due |-> open'[c].due, paid |-> Unread]
  /\ calm => open'[c].due = ledger[a].DigitalValue
  /\ open' = [open EXCEPT ![c] = open'[c]]
  /\ UNCHANGED <<ledger, verdict, received, now, calm, forgotten>>

\* ... what was paid is noted, or missed, ...
Read(c) ==
  /\ open[c] # NoCase /\ open[c].paid = Unread
  /\ open' \in {[open EXCEPT ![c].paid = p] : p \in {Received(open[c].id), 0}}
  /\ UNCHANGED <<ledger, verdict, received, now, calm, forgotten>>

\* ... and c is told where the payment stands.
Judge(c) ==
  /\ open[c].paid # Unread
  /\ verdict' = [verdict EXCEPT ![c] = [status |-> Status(open[c].due, open[c].paid),
                                        remaining |-> Remaining(open[c].due, open[c].paid)]]
  /\ open' = [open EXCEPT ![c] = NoCase]
  /\ UNCHANGED <<ledger, received, now, calm, forgotten>>

\* An expired invoice is judged at once, whatever was paid.
Expire(c, a) ==
  /\ open[c] = NoCase
  /\ now > ledger[a].Expiry
  /\ verdict' = [verdict EXCEPT ![c] = [status |-> "expired", remaining |-> 0]]
  /\ UNCHANGED <<ledger, open, received, now, calm, forgotten>>

\* Some of those who asked get no verdict: the node or the backend failed.
GiveUp ==
  /\ open' \in [Calls -> {NoCase} \cup {open[c] : c \in Calls}]
  /\ \A c \in Calls : open'[c] \in {open[c], NoCase}
  /\ UNCHANGED <<ledger, verdict, received, now, calm, forgotten>>

\* Somebody pays an address.
Pay(v) ==
  /\ \E a \in DOMAIN received' :
       received' = [x \in DOMAIN received \cup {a} |->
                      IF x = a THEN Received(a) + v ELSE received[x]]
  /\ UNCHANGED <<ledger, open, verdict, now, calm, forgotten>>

Tick == now' = now + 1 /\ UNCHANGED <<ledger, open, verdict, received, calm, forgotten>>

Next ==
  \/ Issue \/ Collide \/ Forget \/ GiveUp \/ Tick
  \/ \E c \in Calls : Read(c) \/ Judge(c)
  \/ \E c \in Calls : \E a \in DOMAIN ledger : Pass(c, a) \/ Expire(c, a)
  \/ \E v \in Payments : Pay(v)

Spec == Init /\ [][Next]_vars
=============================================================================
