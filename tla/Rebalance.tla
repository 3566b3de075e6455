----------------------------- MODULE Rebalance -----------------------------
(***************************************************************************)
(* The planner, api/src/engine/rebalance.py: one call of build_plan, as    *)
(* the loops it runs.  Nothing is shared and nothing is concurrent here;   *)
(* what is hard is the arithmetic, which is rounded at every step, and     *)
(* the order in which the loops spend one budget.                          *)
(*                                                                         *)
(* A step is one iteration of a loop, so that an invariant can speak of    *)
(* the budget between two orders.  The loops visit symbols in the order    *)
(* of the code: the basket in the order the queries return it (by symbol), *)
(* then what is held outside it.                                           *)
(***************************************************************************)
EXTENDS Money, Sequences, FiniteSets, FiniteSetsExt,
        Functions

CONSTANTS Symbols,   \* symbols, as numbers in alphabetical order
          Calls      \* the arguments build_plan may be called with

(* RebalanceSettings. *)
Settings == [investment_amount: Int, min_order_value: Nat,
             cash_buffer_bps: 0..BPS, allow_fractional: BOOLEAN,
             max_orders: Nat]

IsCall(c) ==
  /\ c.cash \in Int
  /\ c.held \in [Symbols -> Int]           \* 0: not held
  /\ c.price \in [Symbols -> Int]          \* 0: the venue quoted no price
  /\ DOMAIN c.targets \subseteq Symbols
  /\ c.targets \in [DOMAIN c.targets -> Int]
  /\ c.settings \in Settings

ASSUME SymbolsAssumption == Symbols \subseteq Nat /\ IsFiniteSet(Symbols)
ASSUME CallsAssumption ==
  \A c \in Calls :
    IsCall(c) /\ DOMAIN c = {"cash", "held", "price", "targets", "settings"}

VARIABLES call,             \* the arguments
          pc,               \* the loop the call is in
          todo,             \* symbols the loop still has to visit
          positions_value,  \* sum of quantity * price, not yet rounded
          proceeds,         \* estimated value of all planned sells
          remaining,        \* budget left for buys
          orders,           \* `ordered`: planned sells, then planned buys
          skipped,          \* what was considered and declined
          raised,           \* value of the sells among the first max_orders
          spent             \* value of the buys among the first max_orders

vars == <<call, pc, todo, positions_value, proceeds, remaining, orders,
          skipped, raised, spent>>

Sides == {"sell", "buy"}
Order == [symbol: Symbols, side: Sides, quantity: Nat, value: Nat]
Skip == [symbol: Symbols, side: Sides,
         why: {"dust", "no cash", "zero shares", "capped"}]

-----------------------------------------------------------------------------
(* Validation. *)

Held == {s \in Symbols : call.held[s] > 0}
Basket == DOMAIN call.targets
Universe == Basket \cup Held

total_weight == SumFunction(call.targets)

validate_targets ==
  /\ Basket # {}
  /\ \A s \in Basket : call.targets[s] \in 0..BPS
  /\ total_weight = BPS

ValidCall ==
  /\ call.cash >= 0
  /\ call.settings.investment_amount > 0
  /\ validate_targets
  /\ \A s \in Symbols : call.held[s] >= 0
  /\ \A s \in Universe : call.price[s] > 0

(* The order of `universe`: targets first, then what fell out of them. *)
UniverseBefore(s, t) ==
  \/ s \in Basket /\ t \notin Basket
  \/ (s \in Basket <=> t \in Basket) /\ s < t

-----------------------------------------------------------------------------
(* Steps 1 to 5 of the method: what is managed, and where each symbol      *)
(* should be.                                                              *)

portfolio_value == money(call.cash * SHARE + positions_value, SHARE)
investable == Smaller(call.settings.investment_amount, portfolio_value)

less_buffer(amount) == money(amount * (BPS - call.settings.cash_buffer_bps), BPS)

deployable == less_buffer(investable)
reserved == apply_bps(investable, call.settings.cash_buffer_bps)

target_bps(s) == IF s \in Basket THEN call.targets[s] ELSE 0
current_value(s) == value_of(call.held[s], call.price[s])
target_value_of_investable(s) == apply_bps(investable, target_bps(s))
target_value(s) == apply_bps(deployable, target_bps(s))
delta(s) == target_value(s) - current_value(s)
drift_bps(s) == bps_of(current_value(s), deployable) - target_bps(s)
max_drift_bps == Max({Abs(drift_bps(s)) : s \in Universe} \cup {0})

(* Most underweight first; the sort is stable. *)
BuyBefore_most_overweight(s, t) ==
  \/ drift_bps(s) > drift_bps(t)
  \/ drift_bps(s) = drift_bps(t) /\ UniverseBefore(s, t)
BuyBefore(s, t) ==
  \/ drift_bps(s) < drift_bps(t)
  \/ drift_bps(s) = drift_bps(t) /\ UniverseBefore(s, t)

(* Shares that `amount` of money amounts to under the bot's settings. *)
shares(amount, price) ==
  IF call.settings.allow_fractional THEN quantity(amount, price)
                                    ELSE whole_shares(amount, price)

sell_qty_rounded_up(s) ==
  Smaller(shares(Abs(delta(s)), call.price[s]) + SHARE, call.held[s])
sell_qty_rounded_exit(s) ==
  Smaller(shares(Abs(delta(s)), call.price[s]), call.held[s])
sell_qty(s) ==
  IF target_value(s) = 0
  THEN call.held[s]
  ELSE Smaller(shares(Abs(delta(s)), call.price[s]), call.held[s])

affordable_unbounded(s) == delta(s)
affordable(s) == Smaller(delta(s), remaining)
buy_qty(s) == shares(affordable(s), call.price[s])

Worth(qty, s) ==
  /\ qty > 0
  /\ value_of(qty, call.price[s]) >= call.settings.min_order_value

-----------------------------------------------------------------------------
Init ==
  /\ call \in Calls
  /\ pc = "validate" /\ todo = {}
  /\ positions_value = 0 /\ proceeds = 0 /\ remaining = 0
  /\ orders = <<>> /\ skipped = {} /\ raised = 0 /\ spent = 0

(* RebalanceError: the call returns no plan. *)
Reject ==
  /\ pc = "validate" /\ ~ValidCall
  /\ pc' = "error"
  /\ UNCHANGED <<call, todo, positions_value, proceeds, remaining, orders,
                 skipped, raised, spent>>

Accept ==
  /\ pc = "validate" /\ ValidCall
  /\ pc' = "value" /\ todo' = Held
  /\ UNCHANGED <<call, positions_value, proceeds, remaining, orders, skipped,
                 raised, spent>>

(* One term of the sum that values the positions. *)
AddPosition(s) ==
  /\ pc = "value" /\ s \in todo
  /\ \A t \in todo \ {s} : UniverseBefore(s, t)
  /\ todo' = todo \ {s}
  /\ positions_value' = positions_value + call.held[s] * call.price[s]
  /\ UNCHANGED <<call, pc, proceeds, remaining, orders, skipped, raised, spent>>

StartSells ==
  /\ pc = "value" /\ todo = {}
  /\ pc' = "sells" /\ todo' = {s \in Universe : delta(s) < 0}
  /\ UNCHANGED <<call, positions_value, proceeds, remaining, orders, skipped,
                 raised, spent>>

(* The prefix of `ordered` that survives the cap has room for one more. *)
Kept == Len(orders) < call.settings.max_orders

NextSell(s) ==
  /\ pc = "sells" /\ s \in todo
  /\ \A t \in todo \ {s} : UniverseBefore(s, t)
  /\ todo' = todo \ {s}
  /\ UNCHANGED <<call, pc, positions_value, remaining, spent>>

PlanSell(s) ==
  LET value == value_of(sell_qty(s), call.price[s]) IN
  /\ NextSell(s)
  /\ Worth(sell_qty(s), s)
  /\ orders' = Append(orders, [symbol |-> s, side |-> "sell",
                               quantity |-> sell_qty(s), value |-> value])
  /\ proceeds' = proceeds + value
  /\ raised' = raised + (IF Kept THEN value ELSE 0)
  /\ UNCHANGED skipped

SkipSell(s) ==
  /\ NextSell(s)
  /\ ~Worth(sell_qty(s), s)
  /\ skipped' = skipped \cup {[symbol |-> s, side |-> "sell",
                               why |-> IF sell_qty(s) > 0 THEN "dust"
                                                          ELSE "zero shares"]}
  /\ UNCHANGED <<orders, proceeds, raised>>

(* Expected sell proceeds join the cash, the buffer leaves it. *)
budget_unreserved == call.cash + proceeds
budget == LET free == call.cash + proceeds - reserved
          IN  IF free < 0 THEN 0 ELSE free

StartBuys ==
  /\ pc = "sells" /\ todo = {}
  /\ pc' = "buys" /\ todo' = {s \in Universe : delta(s) > 0}
  /\ remaining' = budget
  /\ UNCHANGED <<call, positions_value, proceeds, orders, skipped, raised, spent>>

NextBuy(s) ==
  /\ pc = "buys" /\ s \in todo
  /\ \A t \in todo \ {s} : BuyBefore(s, t)
  /\ todo' = todo \ {s}
  /\ UNCHANGED <<call, pc, positions_value, proceeds, raised>>

PlanBuy(s) ==
  LET value == value_of(buy_qty(s), call.price[s]) IN
  /\ NextBuy(s)
  /\ affordable(s) > 0
  /\ Worth(buy_qty(s), s)
  /\ orders' = Append(orders, [symbol |-> s, side |-> "buy",
                               quantity |-> buy_qty(s), value |-> value])
  /\ remaining' = remaining - value
  /\ spent' = spent + (IF Kept THEN value ELSE 0)
  /\ UNCHANGED skipped

SkipBuy_silently(s) ==
  /\ NextBuy(s)
  /\ affordable(s) <= 0 \/ ~Worth(buy_qty(s), s)
  /\ UNCHANGED <<orders, skipped, remaining, spent>>
SkipBuy(s) ==
  /\ NextBuy(s)
  /\ affordable(s) <= 0 \/ ~Worth(buy_qty(s), s)
  /\ skipped' = skipped \cup
       {[symbol |-> s, side |-> "buy",
         why |-> IF affordable(s) <= 0 THEN "no cash"
                 ELSE IF buy_qty(s) > 0 THEN "dust" ELSE "zero shares"]}
  /\ UNCHANGED <<orders, remaining, spent>>

(* The blast-radius cap: orders past max_orders wait for the next run. *)
Finish_uncapped ==
  /\ pc = "buys" /\ todo = {}
  /\ pc' = "done"
  /\ UNCHANGED <<call, todo, positions_value, proceeds, remaining, orders,
                 skipped, raised, spent>>
Finish ==
  LET n == Smaller(Len(orders), call.settings.max_orders) IN
  /\ pc = "buys" /\ todo = {}
  /\ pc' = "done"
  /\ orders' = SubSeq(orders, 1, n)
  /\ skipped' = skipped \cup
       {[symbol |-> orders[i].symbol, side |-> orders[i].side,
         why |-> "capped"] : i \in (n + 1)..Len(orders)}
  /\ UNCHANGED <<call, todo, positions_value, proceeds, remaining, raised, spent>>

projected_cash_after == call.cash + raised - spent

Next ==
  \/ Reject \/ Accept \/ StartSells \/ StartBuys \/ Finish
  \/ \E s \in Symbols : \/ AddPosition(s)
                        \/ PlanSell(s) \/ SkipSell(s)
                        \/ PlanBuy(s) \/ SkipBuy(s)

Spec == Init /\ [][Next]_vars /\ WF_vars(Next)

-----------------------------------------------------------------------------
(* Properties. *)

TypeOK ==
  /\ IsCall(call)
  /\ pc \in {"validate", "value", "sells", "buys", "done", "error"}
  /\ todo \subseteq Symbols
  /\ positions_value \in Nat /\ proceeds \in Nat /\ remaining \in Nat
  /\ raised \in Nat /\ spent \in Nat
  /\ orders \in Seq(Order)
  /\ skipped \subseteq Skip

Done == pc = "done"
Planned(side) == {i \in DOMAIN orders : orders[i].side = side}
Skipped(side, why) == {k.symbol : k \in {x \in skipped : x.side = side /\ x.why = why}}

(* The plan can be paid for.  Whatever was rounded down, dropped as dust or *)
(* cut off by the cap, carrying out exactly the orders that were kept never *)
(* overdraws the account, and a plan that buys anything leaves the buffer   *)
(* in cash ("the budget is enforced, not assumed", rebalance.py).           *)
BudgetKept ==
  Done => /\ projected_cash_after >= 0
          /\ Planned("buy") # {} => projected_cash_after >= reserved

(* An order moves its symbol toward the target and never past it: it sells  *)
(* only what is overweight, buys only what is underweight, and is worth no  *)
(* more than the distance to the target.                                    *)
NoOvershoot ==
  \A i \in DOMAIN orders :
    LET o == orders[i] IN
    /\ o.side = "sell" => delta(o.symbol) < 0
    /\ o.side = "buy" => delta(o.symbol) > 0
    /\ o.value <= Abs(delta(o.symbol))

(* Every symbol that is off its target is answered for exactly once: either *)
(* one order is kept for it or one skip says why not.                       *)
EverySymbolAnswered ==
  Done => \A s \in Universe :
    LET kept == {i \in DOMAIN orders : orders[i].symbol = s}
        why == {k \in skipped : k.symbol = s}
    IN  Cardinality(kept) + Cardinality(why) = IF delta(s) = 0 THEN 0 ELSE 1

(* When cash or the cap runs out, it runs out on the least underweight, and *)
(* never on a sell while a buy that it might have to fund is kept.          *)
MostUnderweightFirst ==
  Done =>
    /\ \A i \in Planned("buy"), s \in Skipped("buy", "no cash") \cup Skipped("buy", "capped") :
         drift_bps(orders[i].symbol) <= drift_bps(s)
    /\ Planned("buy") # {} => Skipped("sell", "capped") = {}
=============================================================================
