----------------------------- MODULE PaperFill -----------------------------
(***************************************************************************)
(* What one paper order does to an account: the arithmetic of              *)
(* MockBroker.place_order, api/src/engine/brokers/mock.py.                 *)
(***************************************************************************)
EXTENDS Money

CONSTANTS GRAIN      \* quantity grains in 0.0001 share (the code's 10^4)

ASSUME GrainAssumption == GRAIN \in Nat \ {0}

(* `held = money(row["quantity"])`: the position is read with money's four  *)
(* decimals, half up, although it is stored with eight.                     *)
held_as_read(qty) == money(qty, GRAIN) * GRAIN

(* Buying power and holdings are what the venue rejects an order for. *)
accepts_any_buy(side, qty, price, cash, held) ==
  side = "sell" => qty <= held_as_read(held)
accepts(side, qty, price, cash, held) ==
  IF side = "buy" THEN value_of(qty, price) <= cash
                  ELSE qty <= held_as_read(held)

cash_after(side, qty, price, cash) ==
  IF side = "buy" THEN cash - value_of(qty, price)
                  ELSE cash + value_of(qty, price)

qty_after(side, qty, held) ==
  IF side = "buy" THEN held_as_read(held) + qty ELSE held_as_read(held) - qty

(* The weighted average price paid; selling leaves it alone. *)
cost_after_unweighted(side, qty, price, held, cost) ==
  IF side = "buy" THEN money(cost + price, 2) ELSE cost
cost_after(side, qty, price, held, cost) ==
  IF side = "buy"
  THEN money(held_as_read(held) * cost + value_of(qty, price) * SHARE,
             held_as_read(held) + qty)
  ELSE cost
=============================================================================
