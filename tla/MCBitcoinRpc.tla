---------------------------- MODULE MCBitcoinRpc ----------------------------
(***************************************************************************)
(* Two addresses and six kinds of transactions, with a window of two       *)
(* transactions in place of a hundred.                                     *)
(***************************************************************************)
EXTENDS BitcoinRpc

CONSTANTS a, b

Out(addrs, value) == [parses |-> TRUE, addrs |-> addrs, value |-> value]

Data      == Out(<<>>, 0)
Malformed == [parses |-> FALSE, addrs |-> <<>>, value |-> 1]

MCTransactions == {
  [spends |-> {}, outs |-> <<Out(<<a>>, 3), Data>>],            \* a payment with a data output
  [spends |-> {}, outs |-> <<Out(<<b>>, 1), Out(<<a>>, 5)>>],   \* two invoices paid at once
  [spends |-> {}, outs |-> <<Out(<<a, b>>, 2)>>],               \* a shared script
  [spends |-> {}, outs |-> <<Out(<<a, a>>, 1)>>],               \* a script that names a twice
  [spends |-> {}, outs |-> <<Out(<<b>>, 4), Malformed>>],       \* a script that does not parse
  [spends |-> {a}, outs |-> <<Out(<<>>, 3)>>]}                  \* the merchant collects from a
=============================================================================
