------------------------------- MODULE Ledger -------------------------------
(***************************************************************************)
(* What the paper broker promises: orders take effect one at a time, each  *)
(* all at once and at a price of the day, none beyond the cash or the      *)
(* shares there are.  The shares there are is a position read to the       *)
(* nearest multiple of GRAIN.  Abstract specification of PaperBroker.      *)
(***************************************************************************)
EXTENDS Money

CONSTANTS Symbols, Orders, Quotes, StartingCash,
          GRAIN      \* quantity grains in the smallest quantity it reads

VARIABLES cash, position

LedgerInit == cash = StartingCash /\ position = [s \in Symbols |-> 0]

(* The multiples of GRAIN nearest to a position. *)
Readings(p) == {r \in 0..(p + GRAIN) : r % GRAIN = 0 /\ 2 * Abs(r - p) <= GRAIN}

Buy(o, price) ==
  LET notional == value_of(o.quantity, price) IN
  /\ o.side = "buy" /\ notional <= cash
  /\ cash' = cash - notional
  /\ \E r \in Readings(position[o.symbol]) :
       position' = [position EXCEPT ![o.symbol] = r + o.quantity]

Sell(o, price) ==
  LET notional == value_of(o.quantity, price) IN
  /\ o.side = "sell"
  /\ cash' = cash + notional
  /\ \E r \in Readings(position[o.symbol]) :
       /\ o.quantity <= r
       /\ position' = [position EXCEPT ![o.symbol] = r - o.quantity]

LedgerNext ==
  \E o \in Orders : \E price \in Quotes[o.symbol] : Buy(o, price) \/ Sell(o, price)

LedgerSpec == LedgerInit /\ [][LedgerNext]_<<cash, position>>
=============================================================================
