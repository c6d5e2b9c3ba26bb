----------------------------- MODULE BitcoinRpc -----------------------------
(***************************************************************************)
(* The backend's view of the node (server/server/bitcoin/rpc.go): the      *)
(* amount that GetReceivedAmount computes for an address, over an address  *)
(* index whose transactions arrive, are confirmed in any order, lose their *)
(* confirmation in a reorganization, or are dropped unconfirmed.           *)
(***************************************************************************)
EXTENDS Integers, FiniteSets, SequencesExt

CONSTANTS
  Addresses,        \* addresses that invoices carry
  Transactions,     \* the transactions that may be broadcast
  SearchCount,      \* the count argument of SearchRawTransactions (100)
  MaxTransactions   \* bound of the model on the transactions known at once

(***************************************************************************)
(* An output: whether its script parses, the addresses that                *)
(* ExtractPkScriptAddrs finds in it (several for a multisignature script,  *)
(* none for a data output), and its value.  "spends" are the addresses     *)
(* whose outputs the transaction spends, all that are known when it is     *)
(* broadcast.                                                              *)
(***************************************************************************)
Output == [parses : BOOLEAN, addrs : Seq(Addresses), value : Nat]

Transaction == [spends : SUBSET Addresses, outs : Seq(Output)]

ASSUME RpcAssumption ==
  /\ Transactions \subseteq Transaction
  /\ SearchCount \in Nat
  /\ MaxTransactions \in Nat

VARIABLES
  chain,    \* the confirmed transactions, in the order of the index
  mempool,  \* the unconfirmed ones, in order of arrival
  serving   \* does the node answer a search with transactions, or with an error?

vars == <<chain, mempool, serving>>

TypeOK ==
  /\ chain \in Seq(Transaction)
  /\ mempool \in Seq(Transaction)
  /\ serving \in BOOLEAN

Init == chain = <<>> /\ mempool = <<>> /\ serving = TRUE

-----------------------------------------------------------------------------
(***************************************************************************)
(* GetReceivedAmount.                                                      *)
(***************************************************************************)
\* What a loop that adds up the elements of a sequence of numbers ends with.
Total(f) ==
  LET sum[n \in 0..Len(f)] == IF n = 0 THEN 0 ELSE sum[n - 1] + f[n]
  IN  sum[Len(f)]

Known == chain \o mempool

Pays(tx, a) == \E i \in DOMAIN tx.outs : Contains(tx.outs[i].addrs, a)

\* The index lists a transaction under the addresses it pays and those it spends from.
Mentions(tx, a) == a \in tx.spends \/ Pays(tx, a)

\* The places, among the known transactions, of those listed under a.
Indexed(a) == {t \in DOMAIN Known : Mentions(Known[t], a)}

Rank(t, a) == Cardinality({u \in Indexed(a) : u <= t})

\* Variant: the first transaction is skipped.
SearchSkipsFirst(a) ==
  IF serving THEN {t \in Indexed(a) : Rank(t, a) \in 2..SearchCount} ELSE {}

\* At most SearchCount transactions from the oldest on; none if the call fails.
SearchRawTransactions(a) ==
  IF serving THEN {t \in Indexed(a) : Rank(t, a) <= SearchCount} ELSE {}

\* Variant: the addresses of the script are not compared.
CreditAnyone(out, a) == out.value

\* vout.Value is added once for each address of the script that matches.
Credit(out, a) ==
  out.value * Cardinality({i \in DOMAIN out.addrs : out.addrs[i] = a})

\* Variant: only the first output is looked at.
CreditOfFirst(tx, a) == IF tx.outs = <<>> THEN 0 ELSE Credit(Head(tx.outs), a)

CreditOf(tx, a) == Total([i \in DOMAIN tx.outs |-> Credit(tx.outs[i], a)])

Unparsable(tx) == \E i \in DOMAIN tx.outs : ~tx.outs[i].parses

Credits(listed, a) ==
  [t \in DOMAIN Known |-> IF t \in listed THEN CreditOf(Known[t], a) ELSE 0]

\* One script that does not parse fails the whole computation.
GetReceivedAmount(a) ==
  LET transactions == SearchRawTransactions(a) IN
  IF \E t \in transactions : Unparsable(Known[t])
  THEN [err |-> TRUE, paid |-> 0]
  ELSE [err |-> FALSE, paid |-> Total(Credits(transactions, a))]

-----------------------------------------------------------------------------
(***************************************************************************)
(* The node.                                                               *)
(***************************************************************************)
\* The last transaction listed under a pays it.
Spendable(a) ==
  \E t \in Indexed(a) : Pays(Known[t], a) /\ \A u \in Indexed(a) : u <= t

Broadcast(tx) ==
  /\ Len(Known) < MaxTransactions
  /\ \A a \in tx.spends : Spendable(a)
  /\ mempool' = Append(mempool, tx)
  /\ UNCHANGED <<chain, serving>>

\* j spends from an address that i pays, so i comes first in any chain.
DependsOn(j, i) ==
  i < j /\ \E a \in mempool[j].spends : Pays(mempool[i], a)

\* Variant: the index keeps the outputs of a transaction only.
ConfirmOutputs(j) ==
  /\ \A i \in DOMAIN mempool : ~DependsOn(j, i)
  /\ chain' = Append(chain, [outs |-> mempool[j].outs])
  /\ mempool' = RemoveAt(mempool, j)
  /\ UNCHANGED serving

Confirm(j) ==
  /\ \A i \in DOMAIN mempool : ~DependsOn(j, i)
  /\ chain' = Append(chain, mempool[j])
  /\ mempool' = RemoveAt(mempool, j)
  /\ UNCHANGED serving

\* An unconfirmed transaction is displaced by a conflicting one, or times out.
Drop(i) ==
  /\ \A j \in DOMAIN mempool : ~DependsOn(j, i)
  /\ mempool' = RemoveAt(mempool, i)
  /\ UNCHANGED <<chain, serving>>

\* The chain loses its last transaction, which is unconfirmed again.
Reorganize ==
  /\ chain # <<>>
  /\ chain' = Front(chain)
  /\ mempool' = <<Last(chain)>> \o mempool
  /\ UNCHANGED serving

(***************************************************************************)
(* The node begins, and ceases, to answer searches with an error.  While   *)
(* the connection to it is lost, the client of rpc.go:31-39 holds the      *)
(* search, and no amount is computed.                                      *)
(***************************************************************************)
BeginErrors == serving /\ serving' = FALSE /\ UNCHANGED <<chain, mempool>>

CeaseErrors == ~serving /\ serving' = TRUE /\ UNCHANGED <<chain, mempool>>

Next ==
  \/ \E tx \in Transactions : Broadcast(tx)
  \/ \E i \in DOMAIN mempool : Confirm(i) \/ Drop(i)
  \/ Reorganize \/ BeginErrors \/ CeaseErrors

Spec == Init /\ [][Next]_vars

-----------------------------------------------------------------------------
\* The money sent to a, output by output, whatever the node lists.
SentIn(tx, a) ==
  Total([i \in DOMAIN tx.outs |->
           IF Contains(tx.outs[i].addrs, a) THEN tx.outs[i].value ELSE 0])

SentTo(a) == Total([t \in DOMAIN Known |-> SentIn(Known[t], a)])

InWindow(a) == Cardinality(Indexed(a)) <= SearchCount

Readable(a) == serving /\ ~GetReceivedAmount(a).err

\* A script of several keys may name an address twice; its value is then added twice.
NamedOnce(a) ==
  \A t \in DOMAIN Known : \A i \in DOMAIN Known[t].outs :
    LET addrs == Known[t].outs[i].addrs IN
    \A j, k \in DOMAIN addrs : addrs[j] = a /\ addrs[k] = a => j = k

(***************************************************************************)
(* As long as an address has no more than SearchCount transactions, the    *)
(* amount is what was sent to it: outputs to others, data outputs, shared  *)
(* scripts and spends neither add nor subtract (rpc.go:72-96).             *)
(***************************************************************************)
ExactInWindow ==
  \A a \in Addresses : Readable(a) /\ InWindow(a) /\ NamedOnce(a)
                       => GetReceivedAmount(a).paid = SentTo(a)

(***************************************************************************)
(* Whatever fails, no money is made up: the amount is never more than what *)
(* was sent to the address, unless a script names it twice (rpc.go:86-91). *)
(***************************************************************************)
NeverOverstated ==
  \A a \in Addresses : ~GetReceivedAmount(a).err /\ NamedOnce(a)
                       => GetReceivedAmount(a).paid <= SentTo(a)

(***************************************************************************)
(* Confirmations out of order, reorganizations of the chain and spends by  *)
(* the merchant never lower the amount while the address is in the window, *)
(* so that they move no invoice back from paid (rpc.go:72-96); only        *)
(* transactions that are dropped and searches that fail do.                *)
(***************************************************************************)
AmountNeverDrops ==
  [][\A a \in Addresses :
       /\ Readable(a) /\ Readable(a)' /\ InWindow(a)'
       /\ Len(Known') >= Len(Known)
       => GetReceivedAmount(a).paid <= GetReceivedAmount(a).paid']_vars

(***************************************************************************)
(* "for each transaction referenced by this address, check vout"           *)
(* (rpc.go:78), and "Invoice balance updates as new payments arrive"       *)
(* (README.md:32): the amount is what was sent to the address, however     *)
(* many transactions there are.                                            *)
(***************************************************************************)
EveryPaymentCounts ==
  \A a \in Addresses : Readable(a) /\ NamedOnce(a) => GetReceivedAmount(a).paid = SentTo(a)
=============================================================================
