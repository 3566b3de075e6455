--------------------------- MODULE MCPaperBroker ---------------------------
(***************************************************************************)
(* Two callers and two symbols, of which one moves in price.  The orders   *)
(* contend for cash (two of the larger buys do not fit) and for shares.    *)
(* Six quantity grains to the share, of which the broker reads every third:*)
(* a position of 5 is read as 6, and all of it can be sold.                *)
(***************************************************************************)
EXTENDS PaperBroker

CONSTANTS w1, w2, a, b

MCWorkers == {w1, w2}
MCSymbols == {a, b}
MCQuotes == [s \in MCSymbols |-> IF s = a THEN {7, 11} ELSE {5}]
MCOrders ==
  {[symbol |-> a, side |-> "buy", quantity |-> 5],
   [symbol |-> a, side |-> "sell", quantity |-> 6],
   [symbol |-> b, side |-> "buy", quantity |-> 12],
   [symbol |-> b, side |-> "sell", quantity |-> 0]}
=============================================================================
