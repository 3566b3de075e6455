----------------------------- MODULE BuildPlan -----------------------------
(***************************************************************************)
(* build_plan as a function of its arguments, for the modules that call    *)
(* the planner in one step.  It reuses the definitions of Rebalance, whose *)
(* loops MCRebalance checks it against.                                    *)
(***************************************************************************)
EXTENDS Money, Sequences, SequencesExt, FiniteSetsExt

CONSTANTS Symbols

ASSUME SymbolsAssumption == Symbols \subseteq Nat /\ IsFiniteSet(Symbols)

(* Rebalance with the state its definitions read: the arguments, and how    *)
(* far valuing the positions and spending the budget have come.             *)
R(call, positions_value, proceeds, remaining) ==
  INSTANCE Rebalance WITH
    Calls <- {}, pc <- "", todo <- {}, orders <- <<>>, skipped <- {},
    raised <- 0, spent <- 0

positions_value_of(c) ==
  LET held == R(c, 0, 0, 0)!Held
  IN  SumFunctionOnSet([s \in held |-> c.held[s] * c.price[s]], held)

(* A PlannedOrder. *)
order(c, s, side, qty) ==
  [symbol |-> s, side |-> side, quantity |-> qty, value |-> value_of(qty, c.price[s])]

(* The elements of S, each after those that are before it. *)
InOrder(S, before) ==
  [i \in 1..Cardinality(S) |->
     CHOOSE s \in S : Cardinality({t \in S : <<t, s>> \in before}) = i - 1]

(* What is sold, in the order of the universe. *)
sell_order(c, pv, s) == order(c, s, "sell", R(c, pv, 0, 0)!sell_qty(s))
Sold(c, pv) ==
  {s \in R(c, pv, 0, 0)!Universe :
     R(c, pv, 0, 0)!delta(s) < 0 /\ R(c, pv, 0, 0)!Worth(sell_order(c, pv, s).quantity, s)}
proceeds_of(c, pv) ==
  SumFunctionOnSet([s \in Sold(c, pv) |-> sell_order(c, pv, s).value], Sold(c, pv))
sells(c, pv) ==
  LET first == {e \in Symbols \X Symbols : R(c, pv, 0, 0)!UniverseBefore(e[1], e[2])}
      queue == InOrder(Sold(c, pv), first)
  IN  [i \in DOMAIN queue |-> sell_order(c, pv, queue[i])]

(* What is bought, most underweight first, each out of what those before it *)
(* have left: the budget and the buys after the first i visits.             *)
Under(c, pv) == {s \in R(c, pv, 0, 0)!Universe : R(c, pv, 0, 0)!delta(s) > 0}
by_need(c, pv) ==
  InOrder(Under(c, pv),
          {e \in Symbols \X Symbols : R(c, pv, 0, 0)!BuyBefore(e[1], e[2])})
buy_order(c, pv, left, s) == order(c, s, "buy", R(c, pv, 0, left)!buy_qty(s))
buy(c, pv, acc, s) ==
  LET o == buy_order(c, pv, acc.remaining, s) IN
  IF /\ R(c, pv, 0, acc.remaining)!affordable(s) > 0
     /\ R(c, pv, 0, acc.remaining)!Worth(o.quantity, s)
  THEN [remaining |-> acc.remaining - o.value, buys |-> Append(acc.buys, o)]
  ELSE acc
bought(c, pv) ==
  LET queue == by_need(c, pv)
      start == [remaining |-> R(c, pv, proceeds_of(c, pv), 0)!budget, buys |-> <<>>]
      after[i \in 0..Len(queue)] ==
        IF i = 0 THEN start ELSE buy(c, pv, after[i - 1], queue[i])
  IN  after

(* `ordered`: the sells, then the buys, cut at max_orders. *)
ordered(c) ==
  LET pv == positions_value_of(c)
      all == sells(c, pv) \o bought(c, pv)[Cardinality(Under(c, pv))].buys
  IN  SubSeq(all, 1, Smaller(Len(all), c.settings.max_orders))

(* RebalanceError, or a plan. *)
plannable(c) == R(c, 0, 0, 0)!ValidCall
drift_of(c) == R(c, positions_value_of(c), 0, 0)!max_drift_bps
=============================================================================
