-------------------------- MODULE RebalanceProofs --------------------------
(***************************************************************************)
(* The planner, for every set of symbols, every price, every setting and   *)
(* every portfolio: build_plan never spends money that is not there, never *)
(* spends the cash buffer, and never trades past a target.                 *)
(***************************************************************************)
EXTENDS RebalanceLoop, ArithmeticProofs, FiniteSetTheorems

(* Rounding to money.                                                       *)
LEMMA MoneyBound ==
  ASSUME NEW n \in Nat, NEW d \in Nat \ {0}
  PROVE  /\ money(n, d) \in Nat
         /\ \A m \in Nat : n <= m * d => money(n, d) <= m
BY HalfUpBound DEF money

(* The value of the shares that `a` of money amounts to, fractional or     *)
(* whole, is at most `a`.                                                  *)
LEMMA SharesBound ==
  ASSUME NEW a \in Nat, NEW p \in Nat \ {0}
  PROVE  shares(a, p) \in Nat /\ shares(a, p) * p <= a * SHARE
<1>1. SHARE \in Nat \ {0}
  BY ShareAssumption
<1>2. a * SHARE \in Nat
  BY <1>1, Z3
<1>3. CASE call.settings.allow_fractional
  BY <1>2, <1>3, DivBelow DEF shares, quantity
<1>4. CASE ~call.settings.allow_fractional
  <2> DEFINE q == a \div p
  <2>1. q \in Nat /\ q * p <= a
    BY DivBelow
  <2> HIDE DEF q
  <2>2. q * SHARE \in Nat /\ (q * SHARE) * p = (q * p) * SHARE
    BY <1>1, <2>1, Z3
  <2>3. (q * p) * SHARE <= a * SHARE
    BY <1>1, <2>1, Z3
  <2>4. shares(a, p) = q * SHARE
    BY <1>4 DEF shares, whole_shares, q
  <2> QED
    BY <1>1, <2>2, <2>3, <2>4
<1> QED
  BY <1>3, <1>4

LEMMA ValueBound ==
  ASSUME NEW a \in Nat, NEW p \in Nat \ {0}, NEW q \in Nat, q * p <= a * SHARE
  PROVE  value_of(q, p) <= a
<1>1. q * p \in Nat
  BY Z3
<1> QED
  BY <1>1, MoneyBound, ShareAssumption DEF value_of

(* The value of any quantity is an amount of money. *)
LEMMA ValueType ==
  ASSUME NEW q \in Nat, NEW p \in Nat
  PROVE  value_of(q, p) \in Nat
<1>1. q * p \in Nat
  BY Z3
<1> QED
  BY <1>1, MoneyBound, ShareAssumption DEF value_of

-----------------------------------------------------------------------------
(* What a call that passed validation knows about its arguments. *)
Validated == pc \in {"value", "sells", "buys", "done"} => ValidCall

(* The weight of a symbol of a validated call; what fell out of the basket  *)
(* has none.                                                                *)
LEMMA TargetWeight ==
  ASSUME ValidCall, NEW s
  PROVE  target_bps(s) \in Nat
<1>1. CASE s \in Basket
  <2>1. call.targets[s] \in 0..BPS
    BY <1>1 DEF ValidCall, validate_targets
  <2>2. target_bps(s) = call.targets[s]
    BY <1>1 DEF target_bps
  <2>3. target_bps(s) \in 0..BPS
    BY <2>1, <2>2
  <2>4. \A w \in 0..BPS : w \in Nat
    BY DEF BPS
  <2> QED
    BY <2>3, <2>4
<1>2. CASE s \notin Basket
  BY <1>2 DEF target_bps
<1> QED
  BY <1>1, <1>2

(* The derived amounts of a validated call. *)
LEMMA Amounts ==
  ASSUME IsCall(call), ValidCall, positions_value \in Nat
  PROVE  /\ portfolio_value \in Nat /\ investable \in Nat
         /\ deployable \in Nat /\ reserved \in Nat
         /\ \A s \in Universe : /\ call.price[s] \in Nat \ {0}
                                /\ call.held[s] \in Nat
                                /\ current_value(s) \in Nat
                                /\ target_value(s) \in Nat
                                /\ delta(s) \in Int
<1>1. SHARE \in Nat \ {0} /\ BPS \in Nat \ {0}
  BY ShareAssumption DEF BPS
<1>2. call.cash * SHARE + positions_value \in Nat
  <2>1. call.cash \in Nat
    BY DEF IsCall, ValidCall
  <2> QED
    BY <1>1, <2>1, Z3
<1>3. portfolio_value \in Nat
  BY <1>1, <1>2, MoneyBound DEF portfolio_value
<1>4. investable \in Nat
  BY <1>3 DEF investable, Smaller, IsCall, ValidCall, Settings
<1>5. call.settings.cash_buffer_bps \in 0..BPS
  BY DEF IsCall, Settings
<1>6. investable * call.settings.cash_buffer_bps \in Nat
      /\ investable * (BPS - call.settings.cash_buffer_bps) \in Nat
  <2> DEFINE b == call.settings.cash_buffer_bps
  <2> HIDE DEF b
  <2>1. b \in Nat /\ BPS - b \in Nat
    <3>1. b \in 0..BPS
      BY <1>5 DEF b
    <3> QED
      BY <3>1 DEF BPS
  <2> QED
    BY <1>4, <2>1, Z3 DEF b
<1>7. deployable \in Nat /\ reserved \in Nat
  BY <1>1, <1>6, MoneyBound DEF deployable, reserved, less_buffer, apply_bps
<1>8. ASSUME NEW s \in Universe
      PROVE  /\ call.price[s] \in Nat \ {0} /\ call.held[s] \in Nat
             /\ current_value(s) \in Nat /\ target_value(s) \in Nat
             /\ delta(s) \in Int
  <2>1. s \in Symbols
    BY DEF Universe, Basket, Held, IsCall
  <2>2. call.price[s] \in Nat \ {0} /\ call.held[s] \in Nat
    BY <2>1 DEF IsCall, ValidCall
  <2>3. current_value(s) \in Nat
    BY <2>2, ValueType DEF current_value
  <2>4. target_bps(s) \in Nat
    BY TargetWeight
  <2>5. deployable * target_bps(s) \in Nat
    BY <1>7, <2>4, Z3
  <2>6. target_value(s) \in Nat
    BY <1>1, <2>5, MoneyBound DEF target_value, apply_bps
  <2> QED
    BY <2>2, <2>3, <2>6 DEF delta
<1> QED
  BY <1>3, <1>4, <1>7, <1>8

(* A planned sell is no bigger than the position and worth no more than the *)
(* distance to the target.                                                  *)
LEMMA SellBound ==
  ASSUME IsCall(call), ValidCall, positions_value \in Nat,
         NEW s \in Universe, delta(s) < 0
  PROVE  /\ sell_qty(s) \in 0..call.held[s]
         /\ value_of(sell_qty(s), call.price[s]) \in Nat
         /\ value_of(sell_qty(s), call.price[s]) <= Abs(delta(s))
<1> DEFINE p == call.price[s]
           a == Abs(delta(s))
<1>1. /\ p \in Nat \ {0} /\ call.held[s] \in Nat
      /\ current_value(s) \in Nat /\ target_value(s) \in Nat /\ delta(s) \in Int
  BY Amounts
<1>2. a \in Nat /\ a = current_value(s) - target_value(s)
  BY <1>1 DEF Abs, delta
<1>3. CASE target_value(s) = 0
  <2>1. sell_qty(s) = call.held[s]
    BY <1>3 DEF sell_qty
  <2>2. value_of(sell_qty(s), p) = current_value(s)
    BY <2>1 DEF current_value
  <2>3. current_value(s) = a
    BY <1>1, <1>2, <1>3
  <2> QED
    BY <1>1, <1>2, <2>1, <2>2, <2>3
<1>4. CASE target_value(s) # 0
  <2> HIDE DEF a
  <2>1. shares(a, p) \in Nat /\ shares(a, p) * p <= a * SHARE
    BY <1>1, <1>2, SharesBound
  <2>2. sell_qty(s) = Smaller(shares(a, p), call.held[s])
    BY <1>4 DEF sell_qty, a
  <2>3. sell_qty(s) \in 0..call.held[s] /\ sell_qty(s) <= shares(a, p)
    BY <1>1, <2>1, <2>2 DEF Smaller
  <2>4. sell_qty(s) * p <= shares(a, p) * p
    <3> DEFINE q == sell_qty(s)
               r == shares(a, p)
    <3>1. q \in Nat /\ r \in Nat /\ q <= r
      BY <1>1, <2>1, <2>3
    <3> HIDE DEF q, r, p
    <3>2. q * p <= r * p
      BY <1>1, <3>1, Z3
    <3> QED
      BY <3>2 DEF q, r
  <2>5. sell_qty(s) * p <= a * SHARE
    <3>1. sell_qty(s) * p \in Int /\ shares(a, p) * p \in Int /\ a * SHARE \in Int
      BY <1>1, <1>2, <2>1, <2>3, ShareAssumption, Z3
    <3> QED
      BY <2>1, <2>4, <3>1
  <2>6. sell_qty(s) \in Nat
    BY <1>1, <2>3
  <2>7. value_of(sell_qty(s), p) \in Nat /\ value_of(sell_qty(s), p) <= a
    BY <1>1, <1>2, <2>5, <2>6, ValueBound, ValueType
  <2> QED
    BY <2>3, <2>7 DEF a
<1> QED
  BY <1>3, <1>4

(* A planned buy is worth no more than the distance to the target and no    *)
(* more than what is left of the budget.                                    *)
LEMMA BuyBound ==
  ASSUME IsCall(call), ValidCall, positions_value \in Nat, remaining \in Nat,
         NEW s \in Universe, delta(s) > 0
  PROVE  /\ buy_qty(s) \in Nat
         /\ value_of(buy_qty(s), call.price[s]) \in Nat
         /\ value_of(buy_qty(s), call.price[s]) <= remaining
         /\ value_of(buy_qty(s), call.price[s]) <= delta(s)
<1> DEFINE p == call.price[s]
           a == affordable(s)
<1>1. p \in Nat \ {0} /\ delta(s) \in Int
  BY Amounts
<1>2. a \in Nat /\ a <= remaining /\ a <= delta(s)
  BY <1>1 DEF affordable, Smaller
<1> HIDE DEF a
<1>3. shares(a, p) \in Nat /\ shares(a, p) * p <= a * SHARE
  BY <1>1, <1>2, SharesBound
<1>4. buy_qty(s) = shares(a, p)
  BY DEF buy_qty, a
<1>5. value_of(buy_qty(s), p) \in Nat /\ value_of(buy_qty(s), p) <= a
  BY <1>1, <1>2, <1>3, <1>4, ValueBound, ValueType
<1> QED
  BY <1>1, <1>2, <1>3, <1>4, <1>5

-----------------------------------------------------------------------------
(* The inductive invariant.  BudgetKept speaks of a finished plan; what     *)
(* carries it there is what the loops keep true of the money they have      *)
(* handled so far, and which orders the cap is going to keep.               *)

(* What a call that passed validation still knows of its arguments, and     *)
(* which symbols its loops have left to visit.                              *)
LoopInv ==
  /\ pc \in {"value", "sells", "buys", "done"} => ValidCall
  /\ pc = "value" => todo \subseteq Held
  /\ pc = "sells" => \A s \in todo : s \in Universe /\ delta(s) < 0
  /\ pc = "buys" => \A s \in todo : s \in Universe /\ delta(s) > 0

FreshInv ==
  pc \in {"validate", "value", "error"} =>
    orders = <<>> /\ proceeds = 0 /\ raised = 0 /\ spent = 0

(* While sells are planned, the kept ones have raised all there is to raise *)
(* unless the cap is already exceeded.                                      *)
SellsInv ==
  pc = "sells" =>
    /\ spent = 0
    /\ \A i \in DOMAIN orders : orders[i].side = "sell"
    /\ Len(orders) <= call.settings.max_orders => raised = proceeds

KeptBuys == {i \in DOMAIN orders : /\ i <= call.settings.max_orders
                                   /\ orders[i].side = "buy"}

(* A buy is kept only behind every sell and only out of a positive budget.  *)
FundedInv ==
  /\ spent <= budget
  /\ KeptBuys = {} => spent = 0
  /\ KeptBuys # {} => raised = proceeds /\ budget > 0

BuysInv ==
  pc = "buys" =>
    /\ FundedInv
    /\ remaining + spent <= budget
    /\ Len(orders) <= call.settings.max_orders => raised = proceeds

DoneInv ==
  pc = "done" =>
    /\ FundedInv
    /\ Len(orders) <= call.settings.max_orders

IInv == /\ TypeOK /\ LoopInv /\ FreshInv /\ SellsInv /\ BuysInv /\ DoneInv
        /\ NoOvershoot

-----------------------------------------------------------------------------
(* Once the positions are valued the targets stand still. *)
LEMMA TargetsStand ==
  ASSUME UNCHANGED <<call, positions_value>>
  PROVE  /\ \A s : delta(s)' = delta(s)
         /\ reserved' = reserved /\ Universe' = Universe /\ Held' = Held
         /\ ValidCall' = ValidCall
         /\ (IsCall(call) => IsCall(call)')
<1>1. \A s : delta(s)' = delta(s)
  BY DEF delta, target_value, current_value, target_bps, apply_bps, deployable,
         less_buffer, investable, portfolio_value, Smaller, Basket, value_of
<1>2. reserved' = reserved
  BY DEF reserved, apply_bps, investable, portfolio_value, Smaller
<1>3. Universe' = Universe /\ Held' = Held
  BY DEF Universe, Held, Basket
<1>4. ValidCall' = ValidCall
  <2>1. total_weight' = total_weight
    BY DEF total_weight, Basket
  <2>2. validate_targets' = validate_targets
    BY <2>1 DEF validate_targets, Basket
  <2> QED
    BY <1>3, <2>2 DEF ValidCall
<1>5. IsCall(call) => IsCall(call)'
  BY DEF IsCall
<1> QED
  BY <1>1, <1>2, <1>3, <1>4, <1>5

(* Appending an order leaves the earlier ones alone. *)
LEMMA AppendOrder ==
  ASSUME orders \in Seq(Order), NEW o \in Order, orders' = Append(orders, o)
  PROVE  /\ orders' \in Seq(Order)
         /\ Len(orders') = Len(orders) + 1
         /\ DOMAIN orders' = DOMAIN orders \cup {Len(orders) + 1}
         /\ \A i \in DOMAIN orders : i \in 1..Len(orders) /\ orders'[i] = orders[i]
         /\ orders'[Len(orders) + 1] = o
  OBVIOUS

(* How a call of build_plan begins: its arguments, and nothing done yet.    *)
Beginning ==
  /\ IsCall(call) /\ pc = "validate" /\ todo = {}
  /\ positions_value = 0 /\ proceeds = 0 /\ remaining = 0
  /\ orders = <<>> /\ skipped = {} /\ raised = 0 /\ spent = 0

LEMMA InitBegins == Init => Beginning
  BY CallsAssumption DEF Init, Beginning

LEMMA BeginningInv == Beginning => IInv
<1> SUFFICES ASSUME Beginning PROVE IInv
  OBVIOUS
<1>1. TypeOK
  BY DEF Beginning, TypeOK
<1>2. LoopInv /\ FreshInv /\ SellsInv /\ BuysInv /\ DoneInv /\ NoOvershoot
  BY DEF Beginning, LoopInv, FreshInv, SellsInv, BuysInv, DoneInv, NoOvershoot
<1> QED
  BY <1>1, <1>2 DEF IInv

LEMMA AcceptInv == IInv /\ (Accept \/ Reject) => IInv'
<1> SUFFICES ASSUME IInv, Accept \/ Reject PROVE IInv'
  OBVIOUS
<1> USE DEF IInv
<1>1. UNCHANGED <<call, positions_value, proceeds, remaining, orders, skipped, raised, spent>>
  BY DEF Accept, Reject
<1>2. TypeOK'
  <2>1. Held \subseteq Symbols
    BY DEF Held
  <2> QED
    BY <1>1, <2>1, TargetsStand DEF TypeOK, Accept, Reject
<1>3. LoopInv'
  BY <1>1, TargetsStand DEF LoopInv, Accept, Reject
<1>4. FreshInv' /\ SellsInv' /\ BuysInv' /\ DoneInv'
  BY <1>1 DEF FreshInv, SellsInv, BuysInv, DoneInv, Accept, Reject
<1>5. NoOvershoot'
  BY <1>1 DEF FreshInv, NoOvershoot, Accept, Reject
<1> QED
  BY <1>2, <1>3, <1>4, <1>5

LEMMA AddPositionInv ==
  ASSUME IInv, NEW s \in Symbols, AddPosition(s)
  PROVE  IInv'
<1> USE DEF IInv
<1>1. UNCHANGED <<call, pc, proceeds, remaining, orders, skipped, raised, spent>>
      /\ pc = "value" /\ s \in Held /\ ValidCall
  BY DEF AddPosition, LoopInv
<1>2. call.held[s] \in Nat /\ call.price[s] \in Nat
  BY <1>1 DEF Held, Universe, ValidCall, IsCall, TypeOK
<1>3. call.held[s] * call.price[s] \in Nat
  BY <1>2, Z3
<1>4. TypeOK'
  <2>1. IsCall(call)'
    BY <1>1 DEF TypeOK, IsCall
  <2>2. positions_value' \in Nat /\ todo' \subseteq Symbols
    BY <1>3 DEF AddPosition, TypeOK
  <2> QED
    BY <1>1, <2>1, <2>2 DEF TypeOK
<1>5. LoopInv'
  <2>1. ValidCall' /\ Held' = Held
    <3>1. total_weight' = total_weight /\ Universe' = Universe /\ Held' = Held
      BY <1>1 DEF total_weight, Universe, Basket, Held
    <3>2. validate_targets' = validate_targets
      BY <1>1, <3>1 DEF validate_targets, Basket
    <3> QED
      BY <1>1, <3>1, <3>2 DEF ValidCall
  <2> QED
    BY <1>1, <2>1 DEF LoopInv, AddPosition
<1>6. FreshInv' /\ SellsInv' /\ BuysInv' /\ DoneInv'
  BY <1>1 DEF FreshInv, SellsInv, BuysInv, DoneInv
<1>7. NoOvershoot'
  BY <1>1 DEF FreshInv, NoOvershoot
<1> QED
  BY <1>4, <1>5, <1>6, <1>7

LEMMA StartSellsInv == IInv /\ StartSells => IInv'
<1> SUFFICES ASSUME IInv, StartSells PROVE IInv'
  OBVIOUS
<1> USE DEF IInv
<1>1. UNCHANGED <<call, positions_value, proceeds, remaining, orders, skipped, raised, spent>>
      /\ pc = "value" /\ pc' = "sells" /\ orders = <<>>
  BY DEF StartSells, FreshInv
<1>2. TypeOK'
  <2>1. Universe \subseteq Symbols
    BY DEF Universe, Basket, Held, TypeOK, IsCall
  <2> QED
    BY <1>1, <2>1, TargetsStand DEF TypeOK, StartSells
<1>3. LoopInv'
  BY <1>1, TargetsStand DEF LoopInv, StartSells
<1>4. FreshInv' /\ SellsInv' /\ BuysInv' /\ DoneInv' /\ NoOvershoot'
  BY <1>1 DEF FreshInv, SellsInv, BuysInv, DoneInv, NoOvershoot
<1> QED
  BY <1>2, <1>3, <1>4

LEMMA PlanSellInv ==
  ASSUME IInv, NEW s \in Symbols, PlanSell(s)
  PROVE  IInv'
<1> USE DEF IInv
<1> DEFINE value == value_of(sell_qty(s), call.price[s])
           o == [symbol |-> s, side |-> "sell", quantity |-> sell_qty(s), value |-> value]
<1>1. /\ UNCHANGED <<call, pc, positions_value, remaining, spent, skipped>>
      /\ pc = "sells" /\ s \in Universe /\ delta(s) < 0 /\ ValidCall
      /\ todo' \subseteq todo
  BY DEF PlanSell, NextSell, LoopInv
<1>2. /\ orders' = Append(orders, o)
      /\ proceeds' = proceeds + value
      /\ raised' = raised + (IF Kept THEN value ELSE 0)
  BY DEF PlanSell
<1>3. sell_qty(s) \in Nat /\ value \in Nat /\ value <= Abs(delta(s))
  <2>1. call.held[s] \in Int
    BY DEF TypeOK, IsCall
  <2> QED
    BY <1>1, <2>1, SellBound DEF TypeOK
<1>4. o \in Order
  BY <1>3 DEF Order, Sides
<1>5. /\ orders' \in Seq(Order)
      /\ Len(orders') = Len(orders) + 1
      /\ DOMAIN orders' = DOMAIN orders \cup {Len(orders) + 1}
      /\ \A i \in DOMAIN orders : i \in 1..Len(orders) /\ orders'[i] = orders[i]
      /\ orders'[Len(orders) + 1] = o
  BY <1>2, <1>4, AppendOrder DEF TypeOK
<1> HIDE DEF value
<1>6. TypeOK'
  <2>1. proceeds' \in Nat /\ raised' \in Nat
    BY <1>2, <1>3 DEF TypeOK
  <2> QED
    BY <1>1, <1>5, <2>1, TargetsStand DEF TypeOK
<1>7. LoopInv'
  BY <1>1, TargetsStand DEF LoopInv
<1>8. FreshInv' /\ BuysInv' /\ DoneInv'
  BY <1>1 DEF FreshInv, BuysInv, DoneInv
<1>9. SellsInv'
  <2>1. spent' = 0 /\ \A i \in DOMAIN orders' : orders'[i].side = "sell"
    BY <1>1, <1>5 DEF SellsInv
  <2>2. Len(orders') <= call.settings.max_orders => raised' = proceeds'
    <3>1. Len(orders) \in Nat /\ call.settings.max_orders \in Nat
          /\ proceeds \in Nat /\ raised \in Nat
      BY DEF TypeOK, IsCall, Settings
    <3> QED
      BY <1>1, <1>2, <1>3, <1>5, <3>1 DEF SellsInv, Kept
  <2> QED
    BY <1>1, <2>1, <2>2 DEF SellsInv
<1>10. NoOvershoot'
  BY <1>1, <1>3, <1>5, TargetsStand DEF NoOvershoot, Abs
<1> QED
  BY <1>6, <1>7, <1>8, <1>9, <1>10

LEMMA SkipSellInv ==
  ASSUME IInv, NEW s \in Symbols, SkipSell(s)
  PROVE  IInv'
<1> USE DEF IInv
<1>1. /\ UNCHANGED <<call, pc, positions_value, remaining, spent, orders, proceeds, raised>>
      /\ todo' \subseteq todo
  BY DEF SkipSell, NextSell
<1>2. TypeOK'
  <2> DEFINE w == IF sell_qty(s) > 0 THEN "dust" ELSE "zero shares"
             k == [symbol |-> s, side |-> "sell", why |-> w]
  <2>1. w \in {"dust", "zero shares"}
    OBVIOUS
  <2>2. skipped' = skipped \cup {k}
    BY DEF SkipSell
  <2> HIDE DEF w
  <2>3. k \in Skip
    BY <2>1 DEF Skip, Sides
  <2>4. skipped' \subseteq Skip
    BY <2>2, <2>3 DEF TypeOK
  <2> QED
    BY <1>1, <2>4, TargetsStand DEF TypeOK
<1>3. LoopInv'
  BY <1>1, TargetsStand DEF LoopInv, SkipSell, NextSell
<1>4. FreshInv' /\ SellsInv' /\ BuysInv' /\ DoneInv'
  BY <1>1 DEF FreshInv, SellsInv, BuysInv, DoneInv, SkipSell, NextSell
<1>5. NoOvershoot'
  BY <1>1, TargetsStand DEF NoOvershoot, Abs
<1> QED
  BY <1>2, <1>3, <1>4, <1>5

(* The budget the buys get, and that it does not move while they spend it. *)
LEMMA BudgetType ==
  ASSUME TypeOK, ValidCall
  PROVE  /\ budget \in Nat
         /\ budget > 0 => budget = call.cash + proceeds - reserved
<1>1. reserved \in Nat /\ proceeds \in Nat /\ call.cash \in Int
  BY Amounts DEF TypeOK, IsCall
<1> QED
  BY <1>1 DEF budget

LEMMA StartBuysInv == IInv /\ StartBuys => IInv'
<1> SUFFICES ASSUME IInv, StartBuys PROVE IInv'
  OBVIOUS
<1> USE DEF IInv
<1>1. /\ UNCHANGED <<call, positions_value, proceeds, orders, skipped, raised, spent>>
      /\ pc = "sells" /\ pc' = "buys" /\ ValidCall
      /\ todo' = {s \in Universe : delta(s) > 0} /\ remaining' = budget
  BY DEF StartBuys, LoopInv
<1>2. budget \in Nat /\ budget' = budget
  BY <1>1, BudgetType, TargetsStand DEF budget
<1>3. TypeOK'
  <2>1. Universe \subseteq Symbols
    BY DEF Universe, Basket, Held, TypeOK, IsCall
  <2> QED
    BY <1>1, <1>2, <2>1, TargetsStand DEF TypeOK
<1>4. LoopInv'
  BY <1>1, TargetsStand DEF LoopInv
<1>5. FreshInv' /\ SellsInv' /\ DoneInv'
  BY <1>1 DEF FreshInv, SellsInv, DoneInv
<1>6. BuysInv'
  <2>1. KeptBuys' = {} /\ spent' = 0
    BY <1>1 DEF SellsInv, KeptBuys
  <2> QED
    BY <1>1, <1>2, <2>1 DEF BuysInv, FundedInv, SellsInv, TypeOK
<1>7. NoOvershoot'
  BY <1>1, TargetsStand DEF NoOvershoot, Abs
<1> QED
  BY <1>3, <1>4, <1>5, <1>6, <1>7

LEMMA PlanBuyInv ==
  ASSUME IInv, NEW s \in Symbols, PlanBuy(s)
  PROVE  IInv'
<1> USE DEF IInv
<1> DEFINE value == value_of(buy_qty(s), call.price[s])
           o == [symbol |-> s, side |-> "buy", quantity |-> buy_qty(s), value |-> value]
           max == call.settings.max_orders
<1>1. /\ UNCHANGED <<call, pc, positions_value, proceeds, raised, skipped>>
      /\ pc = "buys" /\ s \in Universe /\ delta(s) > 0 /\ ValidCall
      /\ todo' \subseteq todo
  BY DEF PlanBuy, NextBuy, LoopInv
<1>2. /\ orders' = Append(orders, o)
      /\ remaining' = remaining - value
      /\ spent' = spent + (IF Kept THEN value ELSE 0)
  BY DEF PlanBuy
<1>3. /\ buy_qty(s) \in Nat /\ value \in Nat
      /\ value <= delta(s) /\ value <= remaining
  BY <1>1, BuyBound DEF TypeOK
<1>4. o \in Order
  BY <1>3 DEF Order, Sides
<1>5. /\ orders' \in Seq(Order)
      /\ Len(orders') = Len(orders) + 1
      /\ DOMAIN orders' = DOMAIN orders \cup {Len(orders) + 1}
      /\ \A i \in DOMAIN orders : i \in 1..Len(orders) /\ orders'[i] = orders[i]
      /\ orders'[Len(orders) + 1] = o
  BY <1>2, <1>4, AppendOrder DEF TypeOK
<1>6. remaining > 0
  <2>1. affordable(s) > 0 /\ delta(s) \in Int
    BY <1>1, Amounts DEF PlanBuy, TypeOK
  <2> QED
    BY <2>1 DEF affordable, Smaller, TypeOK
<1> HIDE DEF value
<1>7. /\ Len(orders) \in Nat /\ max \in Nat /\ proceeds \in Nat /\ raised \in Nat
      /\ spent \in Nat /\ remaining \in Nat /\ budget \in Nat
  BY <1>1, BudgetType DEF TypeOK, IsCall, Settings
<1>8. TypeOK'
  <2>1. remaining' \in Nat /\ spent' \in Nat
    BY <1>2, <1>3, <1>7
  <2> QED
    BY <1>1, <1>5, <2>1, TargetsStand DEF TypeOK
<1>9. LoopInv'
  BY <1>1, TargetsStand DEF LoopInv
<1>10. FreshInv' /\ SellsInv' /\ DoneInv'
  BY <1>1 DEF FreshInv, SellsInv, DoneInv
<1>11. BuysInv'
  <2>1. budget' = budget
    BY <1>1, TargetsStand DEF budget
  <2>2. /\ Len(orders) <= max => raised = proceeds
        /\ remaining + spent <= budget
        /\ KeptBuys = {} => spent = 0
        /\ KeptBuys # {} => raised = proceeds /\ budget > 0
    BY <1>1 DEF BuysInv, FundedInv
  <2>3. remaining' + spent' <= budget
    BY <1>2, <1>3, <1>7, <2>2
  <2>4. CASE Kept
    <3>1. raised = proceeds /\ budget > 0
      BY <1>6, <1>7, <2>2, <2>4 DEF Kept
    <3>2. KeptBuys' # {}
      <4>1. Len(orders) + 1 \in KeptBuys'
        BY <1>1, <1>5, <1>7, <2>4 DEF KeptBuys, Kept
      <4> QED
        BY <4>1
    <3>3. spent' \in Nat /\ remaining' \in Nat
      BY <1>8 DEF TypeOK
    <3>4. spent' <= budget
      <4>1. budget \in Int
        BY <1>7
      <4>2. \A a, b \in Nat, c \in Int : a + b <= c => b <= c
        OBVIOUS
      <4> QED
        BY <2>3, <3>3, <4>1, <4>2
    <3>5. FundedInv'
      BY <1>1, <2>1, <3>1, <3>2, <3>4 DEF FundedInv
    <3> QED
      BY <1>1, <2>1, <2>3, <3>1, <3>5 DEF BuysInv
  <2>5. CASE ~Kept
    <3>1. KeptBuys' = KeptBuys
      BY <1>1, <1>5, <1>7, <2>5 DEF KeptBuys, Kept
    <3>2. spent' = spent
      BY <1>2, <1>7, <2>5
    <3>3. ~(Len(orders') <= max)
      BY <1>5, <1>7, <2>5 DEF Kept
    <3> QED
      BY <1>1, <1>7, <1>8, <2>1, <2>2, <2>3, <3>1, <3>2, <3>3
      DEF BuysInv, FundedInv, TypeOK
  <2> QED
    BY <2>4, <2>5
<1>12. NoOvershoot'
  <2>1. \A t : delta(t)' = delta(t)
    BY <1>1, TargetsStand
  <2>2. delta(s) \in Int /\ Abs(delta(s)) = delta(s)
    BY <1>1, Amounts DEF TypeOK, Abs
  <2>3. \A i \in DOMAIN orders : (orders'[i].value <= Abs(delta(orders'[i].symbol)))
    BY <1>5 DEF NoOvershoot
  <2> QED
    BY <1>1, <1>3, <1>5, <2>1, <2>2, <2>3 DEF NoOvershoot, Abs
<1> QED
  BY <1>8, <1>9, <1>10, <1>11, <1>12

LEMMA SkipBuyInv ==
  ASSUME IInv, NEW s \in Symbols, SkipBuy(s)
  PROVE  IInv'
<1> USE DEF IInv
<1>1. /\ UNCHANGED <<call, pc, positions_value, remaining, spent, orders, proceeds, raised>>
      /\ todo' \subseteq todo /\ pc = "buys"
  BY DEF SkipBuy, NextBuy
<1>2. TypeOK'
  <2> DEFINE w == IF affordable(s) <= 0 THEN "no cash"
                  ELSE IF buy_qty(s) > 0 THEN "dust" ELSE "zero shares"
             k == [symbol |-> s, side |-> "buy", why |-> w]
  <2>1. w \in {"no cash", "dust", "zero shares"}
    OBVIOUS
  <2>2. skipped' = skipped \cup {k}
    BY DEF SkipBuy
  <2> HIDE DEF w
  <2>3. k \in Skip
    BY <2>1 DEF Skip, Sides
  <2>4. skipped' \subseteq Skip
    BY <2>2, <2>3 DEF TypeOK
  <2> QED
    BY <1>1, <2>4, TargetsStand DEF TypeOK
<1>3. LoopInv'
  BY <1>1, TargetsStand DEF LoopInv
<1>4. FreshInv' /\ SellsInv' /\ DoneInv'
  BY <1>1 DEF FreshInv, SellsInv, DoneInv
<1>5. BuysInv'
  <2>1. budget' = budget /\ KeptBuys' = KeptBuys
    BY <1>1, TargetsStand DEF budget, KeptBuys
  <2> QED
    BY <1>1, <2>1 DEF BuysInv, FundedInv
<1>6. NoOvershoot'
  BY <1>1, TargetsStand DEF NoOvershoot, Abs
<1> QED
  BY <1>2, <1>3, <1>4, <1>5, <1>6

LEMMA FinishInv == IInv /\ Finish => IInv'
<1> SUFFICES ASSUME IInv, Finish PROVE IInv'
  OBVIOUS
<1> USE DEF IInv
<1> DEFINE max == call.settings.max_orders
           n == Smaller(Len(orders), max)
<1>1. /\ UNCHANGED <<call, todo, positions_value, proceeds, remaining, raised, spent>>
      /\ pc = "buys" /\ pc' = "done" /\ ValidCall
      /\ orders' = SubSeq(orders, 1, n)
  BY DEF Finish, LoopInv
<1>2. /\ Len(orders) \in Nat /\ max \in Nat /\ n \in Nat
      /\ n <= Len(orders) /\ n <= max
  BY DEF TypeOK, IsCall, Settings, Smaller
<1>3. n = Len(orders) \/ n = max
  BY DEF Smaller
<1>4. /\ orders' \in Seq(Order) /\ Len(orders') = n /\ DOMAIN orders' = 1..n
      /\ \A i \in 1..n : i \in DOMAIN orders /\ orders'[i] = orders[i]
  <2>1. orders \in Seq(Order)
    BY DEF TypeOK
  <2> HIDE DEF n
  <2> QED
    BY <1>1, <1>2, <2>1
<1> HIDE DEF n
<1>5. TypeOK'
  <2>1. \A i \in (n + 1)..Len(orders) : orders[i] \in Order
    BY <1>2 DEF TypeOK
  <2>2. skipped' = skipped \cup
          {[symbol |-> orders[i].symbol, side |-> orders[i].side,
            why |-> "capped"] : i \in (n + 1)..Len(orders)}
    BY DEF Finish, n
  <2>3. ASSUME NEW i \in (n + 1)..Len(orders)
        PROVE  [symbol |-> orders[i].symbol, side |-> orders[i].side,
                why |-> "capped"] \in Skip
    <3>1. orders[i].symbol \in Symbols /\ orders[i].side \in Sides
      BY <2>1 DEF Order
    <3> QED
      BY <3>1 DEF Skip
  <2>4. skipped' \subseteq Skip
    BY <2>2, <2>3 DEF TypeOK
  <2> QED
    BY <1>1, <1>4, <2>4, TargetsStand DEF TypeOK
<1>6. LoopInv'
  BY <1>1, TargetsStand DEF LoopInv
<1>7. FreshInv' /\ SellsInv' /\ BuysInv'
  BY <1>1 DEF FreshInv, SellsInv, BuysInv
<1>8. DoneInv'
  <2>1. KeptBuys' = KeptBuys
    BY <1>1, <1>2, <1>3, <1>4 DEF KeptBuys
  <2>2. budget' = budget
    BY <1>1, TargetsStand DEF budget
  <2>3. FundedInv'
    BY <1>1, <2>1, <2>2 DEF FundedInv, BuysInv
  <2> QED
    BY <1>1, <1>2, <1>4, <2>3 DEF DoneInv
<1>9. NoOvershoot'
  BY <1>1, <1>4, TargetsStand DEF NoOvershoot, Abs
<1> QED
  BY <1>5, <1>6, <1>7, <1>8, <1>9

LEMMA StutterInv == IInv /\ UNCHANGED vars => IInv'
<1> SUFFICES ASSUME IInv, UNCHANGED vars PROVE IInv'
  OBVIOUS
<1>1. UNCHANGED <<call, pc, todo, positions_value, proceeds, remaining, orders,
                  skipped, raised, spent>>
  BY DEF vars
<1>2. TypeOK' /\ LoopInv'
  BY <1>1, TargetsStand DEF IInv, TypeOK, LoopInv
<1>3. FreshInv' /\ SellsInv' /\ NoOvershoot'
  BY <1>1, TargetsStand DEF IInv, FreshInv, SellsInv, NoOvershoot, Abs
<1>4. BuysInv' /\ DoneInv'
  <2>1. budget' = budget /\ KeptBuys' = KeptBuys
    BY <1>1, TargetsStand DEF budget, KeptBuys
  <2> QED
    BY <1>1, <2>1 DEF IInv, BuysInv, DoneInv, FundedInv
<1> QED
  BY <1>2, <1>3, <1>4 DEF IInv

(* A finished plan's budget claim follows from what the loops kept true. *)
LEMMA BudgetFollows == IInv => BudgetKept
<1> SUFFICES ASSUME IInv, Done
             PROVE  /\ projected_cash_after >= 0
                    /\ Planned("buy") # {} => projected_cash_after >= reserved
  BY DEF BudgetKept
<1>1. /\ TypeOK /\ ValidCall /\ FundedInv
      /\ Len(orders) <= call.settings.max_orders
  BY DEF IInv, LoopInv, DoneInv, Done
<1>2. /\ call.cash \in Nat /\ raised \in Nat /\ spent \in Nat
      /\ proceeds \in Nat /\ reserved \in Nat /\ budget \in Nat
      /\ budget > 0 => budget = call.cash + proceeds - reserved
  BY <1>1, Amounts, BudgetType DEF TypeOK, IsCall, ValidCall
<1>3. Planned("buy") = KeptBuys
  <2>1. call.settings.max_orders \in Nat /\ Len(orders) \in Nat
        /\ DOMAIN orders = 1..Len(orders)
    BY <1>1 DEF TypeOK, IsCall, Settings
  <2> QED
    BY <1>1, <2>1 DEF Planned, KeptBuys
<1>4. CASE KeptBuys = {}
  BY <1>1, <1>2, <1>3, <1>4 DEF FundedInv, projected_cash_after
<1>5. CASE KeptBuys # {}
  BY <1>1, <1>2, <1>3, <1>5 DEF FundedInv, projected_cash_after
<1> QED
  BY <1>4, <1>5

LEMMA StepInv == IInv /\ [Next]_vars => IInv'
<1> SUFFICES ASSUME IInv, [Next]_vars PROVE IInv'
  OBVIOUS
<1>1. CASE Accept \/ Reject
  BY <1>1, AcceptInv
<1>2. CASE StartSells
  BY <1>2, StartSellsInv
<1>3. CASE StartBuys
  BY <1>3, StartBuysInv
<1>4. CASE Finish
  BY <1>4, FinishInv
<1>5. ASSUME NEW s \in Symbols, AddPosition(s) PROVE IInv'
  BY <1>5, AddPositionInv
<1>6. ASSUME NEW s \in Symbols, PlanSell(s) PROVE IInv'
  BY <1>6, PlanSellInv
<1>7. ASSUME NEW s \in Symbols, SkipSell(s) PROVE IInv'
  BY <1>7, SkipSellInv
<1>8. ASSUME NEW s \in Symbols, PlanBuy(s) PROVE IInv'
  BY <1>8, PlanBuyInv
<1>9. ASSUME NEW s \in Symbols, SkipBuy(s) PROVE IInv'
  BY <1>9, SkipBuyInv
<1>10. CASE UNCHANGED vars
  BY <1>10, StutterInv
<1> QED
  BY <1>1, <1>2, <1>3, <1>4, <1>5, <1>6, <1>7, <1>8, <1>9, <1>10 DEF Next

LEMMA Inductive == Spec => []IInv
  BY InitBegins, BeginningInv, StepInv, PTL DEF Spec

(* Every variable of the planner stays within its type: in particular the   *)
(* remaining budget and every order value are never negative.               *)
THEOREM TypeCorrect == Spec => []TypeOK
<1>1. IInv => TypeOK
  BY DEF IInv
<1> QED
  BY <1>1, Inductive, PTL

(* Carrying out a plan never overdraws the account, and a plan with a buy   *)
(* leaves the cash buffer untouched (build_plan, "the budget is enforced"). *)
THEOREM BudgetIsKept == Spec => []BudgetKept
  BY Inductive, BudgetFollows, PTL

(* No order, sell or buy, is worth more than its symbol's distance to the   *)
(* target, and none goes the wrong way.                                     *)
THEOREM OrdersNeverOvershoot == Spec => []NoOvershoot
<1>1. IInv => NoOvershoot
  BY DEF IInv
<1> QED
  BY <1>1, Inductive, PTL

-----------------------------------------------------------------------------
(* Which symbols are answered for, and in which order.  That a finished     *)
(* plan answers for every symbol once, and runs short on the least          *)
(* underweight, is decided by the loops one symbol at a time.               *)

(* The loops have come past s, which is off its target. *)
Passed(s) ==
  /\ s \in Universe
  /\ \/ delta(s) < 0 /\ (pc = "sells" => s \notin todo) /\ pc \in {"sells", "buys", "done"}
     \/ delta(s) > 0 /\ (pc = "buys" => s \notin todo) /\ pc \in {"buys", "done"}

KeptFor(s) == {i \in DOMAIN orders : orders[i].symbol = s}
WhyNot(s) == {k \in skipped : k.symbol = s}

Ordered(s) == WhyNot(s) = {} /\ \E i \in DOMAIN orders : KeptFor(s) = {i}
Declined(s) == KeptFor(s) = {} /\ \E k \in skipped : WhyNot(s) = {k}
Untouched(s) == KeptFor(s) = {} /\ WhyNot(s) = {}

AnsweredInv ==
  \A s \in Symbols : IF Passed(s) THEN Ordered(s) \/ Declined(s) ELSE Untouched(s)

(* The loops plan every sell before any buy, and the buys from the most     *)
(* underweight on; nothing still to visit is more underweight than a buy    *)
(* already planned.                                                         *)
SortedInv ==
  /\ \A i \in DOMAIN orders : orders[i].symbol \in Universe
  /\ \A i, j \in DOMAIN orders : i < j /\ orders[i].side = "buy" =>
       /\ orders[j].side = "buy"
       /\ drift_bps(orders[i].symbol) <= drift_bps(orders[j].symbol)
  /\ pc = "buys" => \A i \in DOMAIN orders, s \in todo :
       orders[i].side = "buy" => drift_bps(orders[i].symbol) <= drift_bps(s)

(* Once a buy was declined for want of cash nothing is left to spend, so no *)
(* later buy is planned; and the cap is applied last.                       *)
ShortInv ==
  /\ pc # "done" => \A k \in skipped : k.why # "capped"
  /\ pc \notin {"buys", "done"} => \A k \in skipped : k.side = "sell"
  /\ pc = "buys" /\ Skipped("buy", "no cash") # {} => remaining = 0
  /\ \A i \in Planned("buy"), s \in Skipped("buy", "no cash") :
       drift_bps(orders[i].symbol) <= drift_bps(s)
  /\ pc = "done" => MostUnderweightFirst

PlanInv == AnsweredInv /\ SortedInv /\ ShortInv

(* How far a symbol is from its weight does not move while the loops run.   *)
LEMMA DriftStands ==
  ASSUME UNCHANGED <<call, positions_value>>
  PROVE  \A s : drift_bps(s)' = drift_bps(s)
BY DEF drift_bps, bps_of, current_value, value_of, deployable, less_buffer,
       investable, portfolio_value, Smaller, target_bps, Basket

LEMMA DriftType ==
  ASSUME TypeOK, ValidCall, NEW s \in Universe
  PROVE  drift_bps(s) \in Int
<1>1. /\ deployable \in Nat /\ current_value(s) \in Nat /\ target_bps(s) \in Nat
  BY Amounts, TargetWeight DEF TypeOK
<1>2. bps_of(current_value(s), deployable) \in Nat
  <2>1. current_value(s) * BPS \in Nat
    BY <1>1 DEF BPS
  <2>2. deployable > 0 => money(current_value(s) * BPS, deployable) \in Nat
    BY <1>1, <2>1, MoneyBound
  <2> QED
    BY <1>1, <2>2 DEF bps_of
<1> QED
  BY <1>1, <1>2 DEF drift_bps

(* A symbol the loops just came past is answered for once its order or its  *)
(* skip is written; those of the other symbols do not change.               *)
AnswerOf(s) ==
  /\ \A t \in Symbols : Passed(t)' <=> (Passed(t) \/ t = s)
  /\ \A t \in Symbols \ {s} : KeptFor(t)' = KeptFor(t) /\ WhyNot(t)' = WhyNot(t)
  /\ DOMAIN orders \subseteq DOMAIN orders' /\ skipped \subseteq skipped'
  /\ Ordered(s)' \/ Declined(s)'

LEMMA AnswerOne ==
  ASSUME AnsweredInv, NEW s \in Symbols, AnswerOf(s)
  PROVE  AnsweredInv'
<1>1. ASSUME NEW t \in Symbols, Passed(t)' PROVE Ordered(t)' \/ Declined(t)'
  <2>1. CASE t = s
    BY <2>1 DEF AnswerOf
  <2>2. CASE t # s
    <3>1. /\ Passed(t) /\ KeptFor(t)' = KeptFor(t) /\ WhyNot(t)' = WhyNot(t)
          /\ DOMAIN orders \subseteq DOMAIN orders' /\ skipped \subseteq skipped'
      BY <1>1, <2>2 DEF AnswerOf
    <3>2. Ordered(t) \/ Declined(t)
      BY <3>1 DEF AnsweredInv
    <3> QED
      BY <3>1, <3>2 DEF Ordered, Declined
  <2> QED
    BY <2>1, <2>2
<1>2. ASSUME NEW t \in Symbols, ~Passed(t)' PROVE Untouched(t)'
  <2>1. /\ ~Passed(t) /\ KeptFor(t)' = KeptFor(t) /\ WhyNot(t)' = WhyNot(t)
    BY <1>2 DEF AnswerOf
  <2> QED
    BY <2>1 DEF AnsweredInv, Untouched
<1> QED
  BY <1>1, <1>2 DEF AnsweredInv

(* The order planned for s answers for it and for nothing else. *)
LEMMA AnswerByOrder ==
  ASSUME AnsweredInv, orders \in Seq(Order), NEW s \in Symbols, ~Passed(s),
         \A t \in Symbols : Passed(t)' <=> (Passed(t) \/ t = s),
         NEW o \in Order, o.symbol = s,
         orders' = Append(orders, o), skipped' = skipped
  PROVE  AnsweredInv'
<1>1. Untouched(s)
  BY DEF AnsweredInv
<1> DEFINE n == Len(orders) + 1
<1>2. /\ DOMAIN orders' = DOMAIN orders \cup {n}
      /\ \A i \in DOMAIN orders : orders'[i] = orders[i]
      /\ orders'[n] = o
  BY AppendOrder
<1> HIDE DEF n
<1>3. \A t \in Symbols \ {s} : KeptFor(t)' = KeptFor(t) /\ WhyNot(t)' = WhyNot(t)
  BY <1>2 DEF KeptFor, WhyNot
<1>4. KeptFor(s)' = {n} /\ WhyNot(s)' = {}
  BY <1>1, <1>2 DEF Untouched, KeptFor, WhyNot
<1>5. Ordered(s)'
  BY <1>2, <1>4 DEF Ordered
<1> QED
  BY <1>2, <1>3, <1>5, AnswerOne DEF AnswerOf

(* The skip written for s answers for it and for nothing else. *)
LEMMA AnswerBySkip ==
  ASSUME AnsweredInv, NEW s \in Symbols, ~Passed(s),
         \A t \in Symbols : Passed(t)' <=> (Passed(t) \/ t = s),
         NEW k, k.symbol = s,
         orders' = orders, skipped' = skipped \cup {k}
  PROVE  AnsweredInv'
<1>1. Untouched(s)
  BY DEF AnsweredInv
<1>2. \A t \in Symbols \ {s} : KeptFor(t)' = KeptFor(t) /\ WhyNot(t)' = WhyNot(t)
  BY DEF KeptFor, WhyNot
<1>3. KeptFor(s)' = {} /\ WhyNot(s)' = {k}
  BY <1>1 DEF Untouched, KeptFor, WhyNot
<1>4. Declined(s)'
  BY <1>3 DEF Declined
<1> QED
  BY <1>2, <1>4, AnswerOne DEF AnswerOf

(* A step that writes neither leaves every symbol as it was. *)
LEMMA AnswersStand ==
  ASSUME AnsweredInv, UNCHANGED <<orders, skipped>>,
         \A s \in Symbols : Passed(s)' <=> Passed(s)
  PROVE  AnsweredInv'
BY DEF AnsweredInv, Ordered, Declined, Untouched, KeptFor, WhyNot

(* What the loops come past, step by step. *)
LEMMA PassedStep ==
  ASSUME IInv
  PROVE  /\ pc \in {"validate", "value", "error"} => \A s : ~Passed(s)
         /\ Accept \/ Reject \/ StartSells \/ StartBuys \/ Finish =>
              \A s : Passed(s)' <=> Passed(s)
         /\ \A s \in Symbols : AddPosition(s) => \A t : Passed(t)' <=> Passed(t)
         /\ \A s \in Symbols : NextSell(s) \/ NextBuy(s) =>
              ~Passed(s) /\ \A t : Passed(t)' <=> (Passed(t) \/ t = s)
<1>1. pc \in {"validate", "value", "error"} => \A s : ~Passed(s)
  BY DEF Passed
<1>2. ASSUME NEW s, s \in Universe, ValidCall PROVE delta(s) \in Int
  BY <1>2, Amounts DEF IInv, TypeOK
<1>3. ASSUME Accept \/ Reject \/ StartSells \/ StartBuys \/ Finish, NEW s
      PROVE  Passed(s)' <=> Passed(s)
  <2>1. /\ UNCHANGED <<call, positions_value>>
        /\ delta(s)' = delta(s) /\ Universe' = Universe
    BY <1>3, TargetsStand DEF Accept, Reject, StartSells, StartBuys, Finish
  <2>2. CASE Accept \/ Reject
    BY <2>2 DEF Passed, Accept, Reject
  <2>3. CASE StartSells
    BY <2>1, <2>3 DEF Passed, StartSells
  <2>4. CASE StartBuys
    <3>1. s \in Universe => delta(s) \in Int
      BY <1>2, <2>4 DEF StartBuys, IInv, LoopInv
    <3> QED
      BY <2>1, <2>4, <3>1 DEF Passed, StartBuys
  <2>5. CASE Finish
    BY <2>1, <2>5 DEF Passed, Finish
  <2> QED
    BY <1>3, <2>2, <2>3, <2>4, <2>5
<1>4. ASSUME NEW s \in Symbols, AddPosition(s), NEW t PROVE Passed(t)' <=> Passed(t)
  BY <1>4 DEF Passed, AddPosition
<1>5. ASSUME NEW s \in Symbols, NextSell(s) \/ NextBuy(s)
      PROVE  ~Passed(s) /\ \A t : Passed(t)' <=> (Passed(t) \/ t = s)
  <2>1. /\ \A t : delta(t)' = delta(t)
        /\ Universe' = Universe
    BY <1>5, TargetsStand DEF NextSell, NextBuy
  <2>2. s \in Universe /\ s \in todo /\ todo' = todo \ {s} /\ pc' = pc
    BY <1>5 DEF NextSell, NextBuy, IInv, LoopInv
  <2>3. delta(s) \in Int
    BY <1>2, <1>5, <2>2 DEF NextSell, NextBuy, IInv, LoopInv
  <2>4. CASE NextSell(s)
    <3>1. pc = "sells" /\ delta(s) < 0
      BY <2>4 DEF NextSell, IInv, LoopInv
    <3> QED
      BY <2>1, <2>2, <2>3, <3>1 DEF Passed
  <2>5. CASE NextBuy(s)
    <3>1. pc = "buys" /\ delta(s) > 0
      BY <2>5 DEF NextBuy, IInv, LoopInv
    <3> QED
      BY <2>1, <2>2, <2>3, <3>1 DEF Passed
  <2> QED
    BY <1>5, <2>4, <2>5
<1> QED
  BY <1>1, <1>3, <1>4, <1>5

(* What the cap takes out of the plan it puts among the skips. *)
LEMMA CapAnswers ==
  ASSUME IInv, AnsweredInv, Finish
  PROVE  AnsweredInv'
<1> DEFINE n == Smaller(Len(orders), call.settings.max_orders)
           Capped(i) == [symbol |-> orders[i].symbol, side |-> orders[i].side,
                         why |-> "capped"]
<1>1. n \in Nat /\ n <= Len(orders)
  BY DEF IInv, TypeOK, IsCall, Settings, Smaller
<1>2. /\ orders' = SubSeq(orders, 1, n)
      /\ skipped' = skipped \cup {Capped(i) : i \in (n + 1)..Len(orders)}
  BY DEF Finish
<1>3. DOMAIN orders = 1..Len(orders) /\ Len(orders) \in Nat
  BY DEF IInv, TypeOK
<1> HIDE DEF n
<1>4. DOMAIN orders' = 1..n /\ \A i \in 1..n : orders'[i] = orders[i]
  BY <1>1, <1>2 DEF IInv, TypeOK
<1>5. \A s : Passed(s)' <=> Passed(s)
  BY PassedStep
<1>6. ASSUME NEW s \in Symbols, Passed(s), Ordered(s)
      PROVE  Ordered(s)' \/ Declined(s)'
  <2>1. PICK i \in DOMAIN orders : KeptFor(s) = {i} /\ WhyNot(s) = {}
    BY <1>6 DEF Ordered
  <2>2. orders[i].symbol = s
    BY <2>1 DEF KeptFor
  <2>3. CASE i <= n
    <3>1. KeptFor(s)' = {i} /\ i \in DOMAIN orders'
      BY <1>1, <1>3, <1>4, <2>1, <2>2, <2>3 DEF KeptFor
    <3>2. \A j \in (n + 1)..Len(orders) : Capped(j).symbol # s
      BY <1>1, <1>3, <2>1, <2>3 DEF KeptFor
    <3>3. WhyNot(s)' = {}
      BY <1>2, <2>1, <3>2 DEF WhyNot
    <3> QED
      BY <3>1, <3>3 DEF Ordered
  <2>4. CASE ~(i <= n)
    <3>1. i \in (n + 1)..Len(orders)
      BY <1>1, <1>3, <2>4
    <3>2. KeptFor(s)' = {}
      BY <1>1, <1>3, <1>4, <2>1, <2>4 DEF KeptFor
    <3>3. \A j \in (n + 1)..Len(orders) : Capped(j).symbol = s => j = i
      BY <1>1, <1>3, <2>1 DEF KeptFor
    <3>4. Capped(i).symbol = s
      BY <2>2
    <3> HIDE DEF Capped
    <3>5. WhyNot(s)' = {Capped(i)}
      BY <1>2, <2>1, <3>1, <3>3, <3>4 DEF WhyNot
    <3>6. Capped(i) \in skipped'
      BY <1>2, <3>1
    <3> QED
      BY <3>2, <3>5, <3>6 DEF Declined
  <2> QED
    BY <2>3, <2>4
<1>7. ASSUME NEW s \in Symbols, KeptFor(s) = {}
      PROVE  KeptFor(s)' = {} /\ WhyNot(s)' = WhyNot(s) /\ skipped \subseteq skipped'
  <2>1. \A j \in (n + 1)..Len(orders) : Capped(j).symbol # s
    BY <1>1, <1>3, <1>7 DEF KeptFor
  <2>2. KeptFor(s)' = {}
    BY <1>1, <1>3, <1>4, <1>7 DEF KeptFor
  <2> QED
    BY <1>2, <2>1, <2>2 DEF WhyNot
<1>8. ASSUME NEW s \in Symbols, Passed(s)' PROVE Ordered(s)' \/ Declined(s)'
  BY <1>5, <1>6, <1>7, <1>8 DEF AnsweredInv, Declined
<1>9. ASSUME NEW s \in Symbols, ~Passed(s)' PROVE Untouched(s)'
  BY <1>5, <1>7, <1>9 DEF AnsweredInv, Untouched
<1> QED
  BY <1>8, <1>9 DEF AnsweredInv

LEMMA AnsweredStep == IInv /\ AnsweredInv /\ [Next]_vars => AnsweredInv'
<1> SUFFICES ASSUME IInv, AnsweredInv, [Next]_vars PROVE AnsweredInv'
  OBVIOUS
<1>1. CASE Accept \/ Reject \/ StartSells \/ StartBuys
  <2>1. UNCHANGED <<orders, skipped>>
    BY <1>1 DEF Accept, Reject, StartSells, StartBuys
  <2>2. \A s : Passed(s)' <=> Passed(s)
    BY <1>1, PassedStep
  <2> QED
    BY <2>1, <2>2, AnswersStand
<1>2. CASE Finish
  BY <1>2, CapAnswers
<1>3. ASSUME NEW s \in Symbols, AddPosition(s) PROVE AnsweredInv'
  <2>1. UNCHANGED <<orders, skipped>> /\ \A t : Passed(t)' <=> Passed(t)
    BY <1>3, PassedStep DEF AddPosition
  <2> QED
    BY <2>1, AnswersStand
<1>4. ASSUME NEW s \in Symbols, NextSell(s) \/ NextBuy(s)
      PROVE  ~Passed(s) /\ \A t \in Symbols : Passed(t)' <=> (Passed(t) \/ t = s)
  BY <1>4, PassedStep
<1>5. ASSUME NEW s \in Symbols, PlanSell(s) PROVE AnsweredInv'
  <2> DEFINE o == [symbol |-> s, side |-> "sell", quantity |-> sell_qty(s),
                   value |-> value_of(sell_qty(s), call.price[s])]
  <2>1. orders' = Append(orders, o) /\ skipped' = skipped /\ NextSell(s)
    BY <1>5 DEF PlanSell
  <2>2. orders \in Seq(Order) /\ orders' \in Seq(Order)
    BY <1>5, PlanSellInv DEF IInv, TypeOK
  <2>3. o \in Order
    <3>1. orders'[Len(orders) + 1] = o /\ Len(orders) + 1 \in DOMAIN orders'
      BY <2>1, <2>2
    <3> QED
      BY <2>2, <3>1
  <2>4. o.symbol = s
    OBVIOUS
  <2> HIDE DEF o
  <2> QED
    BY <1>4, <2>1, <2>2, <2>3, <2>4, AnswerByOrder
<1>6. ASSUME NEW s \in Symbols, PlanBuy(s) PROVE AnsweredInv'
  <2> DEFINE o == [symbol |-> s, side |-> "buy", quantity |-> buy_qty(s),
                   value |-> value_of(buy_qty(s), call.price[s])]
  <2>1. orders' = Append(orders, o) /\ skipped' = skipped /\ NextBuy(s)
    BY <1>6 DEF PlanBuy
  <2>2. orders \in Seq(Order) /\ orders' \in Seq(Order)
    BY <1>6, PlanBuyInv DEF IInv, TypeOK
  <2>3. o \in Order
    <3>1. orders'[Len(orders) + 1] = o /\ Len(orders) + 1 \in DOMAIN orders'
      BY <2>1, <2>2
    <3> QED
      BY <2>2, <3>1
  <2>4. o.symbol = s
    OBVIOUS
  <2> HIDE DEF o
  <2> QED
    BY <1>4, <2>1, <2>2, <2>3, <2>4, AnswerByOrder
<1>7. ASSUME NEW s \in Symbols, SkipSell(s) PROVE AnsweredInv'
  <2> DEFINE k == [symbol |-> s, side |-> "sell",
                   why |-> IF sell_qty(s) > 0 THEN "dust" ELSE "zero shares"]
  <2>1. skipped' = skipped \cup {k} /\ k.symbol = s
    BY <1>7 DEF SkipSell
  <2> HIDE DEF k
  <2>2. orders' = orders /\ NextSell(s)
    BY <1>7 DEF SkipSell
  <2> QED
    BY <1>4, <2>1, <2>2, AnswerBySkip
<1>8. ASSUME NEW s \in Symbols, SkipBuy(s) PROVE AnsweredInv'
  <2> DEFINE k == [symbol |-> s, side |-> "buy",
                   why |-> IF affordable(s) <= 0 THEN "no cash"
                           ELSE IF buy_qty(s) > 0 THEN "dust" ELSE "zero shares"]
  <2>1. skipped' = skipped \cup {k} /\ k.symbol = s
    BY <1>8 DEF SkipBuy
  <2> HIDE DEF k
  <2>2. orders' = orders /\ NextBuy(s)
    BY <1>8 DEF SkipBuy
  <2> QED
    BY <1>4, <2>1, <2>2, AnswerBySkip
<1>9. CASE UNCHANGED vars
  <2>1. UNCHANGED <<call, pc, todo, positions_value, orders, skipped>>
    BY <1>9 DEF vars
  <2>2. \A s : Passed(s)' <=> Passed(s)
    BY <2>1, TargetsStand DEF Passed
  <2> QED
    BY <2>1, <2>2, AnswersStand
<1> QED
  BY <1>1, <1>2, <1>3, <1>5, <1>6, <1>7, <1>8, <1>9 DEF Next

-----------------------------------------------------------------------------
(* A plan in the making that grows by one order, or not at all, keeps the   *)
(* order of what it had.                                                    *)
LEMMA SortedStands ==
  ASSUME IInv, SortedInv, UNCHANGED <<call, positions_value, orders>>,
         pc' = "buys" => pc = "buys" /\ todo' \subseteq todo
  PROVE  SortedInv'
BY DriftStands, TargetsStand DEF SortedInv

LEMMA SortedStep == IInv /\ SortedInv /\ [Next]_vars => SortedInv'
<1> SUFFICES ASSUME IInv, SortedInv, [Next]_vars PROVE SortedInv'
  OBVIOUS
<1> USE DEF IInv
<1>1. CASE Accept \/ Reject \/ StartSells
  BY <1>1, SortedStands DEF Accept, Reject, StartSells
<1>2. CASE StartBuys
  <2>1. /\ UNCHANGED <<call, positions_value, orders>>
        /\ \A i \in DOMAIN orders : orders[i].side = "sell"
    BY <1>2 DEF StartBuys, SellsInv
  <2> QED
    BY <2>1, DriftStands, TargetsStand DEF SortedInv
<1>3. ASSUME NEW s \in Symbols, AddPosition(s) PROVE SortedInv'
  <2>1. orders = <<>> /\ orders' = <<>> /\ pc' = "value"
    BY <1>3 DEF AddPosition, FreshInv
  <2> QED
    BY <2>1 DEF SortedInv
<1>4. ASSUME NEW s \in Symbols, SkipSell(s) \/ SkipBuy(s) PROVE SortedInv'
  BY <1>4, SortedStands DEF SkipSell, SkipBuy, NextSell, NextBuy
<1>5. ASSUME NEW s \in Symbols, PlanSell(s) PROVE SortedInv'
  <2> DEFINE o == [symbol |-> s, side |-> "sell", quantity |-> sell_qty(s),
                   value |-> value_of(sell_qty(s), call.price[s])]
             n == Len(orders) + 1
  <2>1. /\ orders' = Append(orders, o) /\ pc' = "sells" /\ s \in Universe
        /\ UNCHANGED <<call, positions_value>>
        /\ \A i \in DOMAIN orders : orders[i].side = "sell"
    BY <1>5 DEF PlanSell, NextSell, LoopInv, SellsInv
  <2>2. /\ DOMAIN orders' = DOMAIN orders \cup {n}
        /\ \A i \in DOMAIN orders : orders'[i] = orders[i]
        /\ orders'[n] = o
    BY <2>1 DEF TypeOK
  <2>3. o.symbol = s /\ o.side = "sell"
    OBVIOUS
  <2> HIDE DEF o, n
  <2>4. Universe' = Universe
    BY <2>1, TargetsStand
  <2>5. \A i \in DOMAIN orders' : orders'[i].symbol \in Universe /\ orders'[i].side = "sell"
    BY <2>1, <2>2, <2>3 DEF SortedInv
  <2> QED
    BY <2>1, <2>4, <2>5 DEF SortedInv
<1>6. ASSUME NEW s \in Symbols, PlanBuy(s) PROVE SortedInv'
  <2> DEFINE o == [symbol |-> s, side |-> "buy", quantity |-> buy_qty(s),
                   value |-> value_of(buy_qty(s), call.price[s])]
             n == Len(orders) + 1
  <2>1. /\ orders' = Append(orders, o) /\ UNCHANGED <<pc, call, positions_value>>
        /\ pc = "buys" /\ s \in Universe /\ s \in todo /\ ValidCall
        /\ \A t \in todo \ {s} : BuyBefore(s, t)
        /\ todo' = todo \ {s} /\ todo \subseteq Universe
    BY <1>6 DEF PlanBuy, NextBuy, LoopInv
  <2>2. /\ DOMAIN orders' = DOMAIN orders \cup {n} /\ n \notin DOMAIN orders
        /\ \A i \in DOMAIN orders : orders'[i] = orders[i] /\ i < n
        /\ orders'[n] = o /\ n \in Nat
    BY <2>1 DEF TypeOK
  <2>3. o.symbol = s /\ o.side = "buy"
    OBVIOUS
  <2> HIDE DEF o, n
  <2>4. Universe' = Universe /\ \A t : drift_bps(t)' = drift_bps(t)
    BY <2>1, TargetsStand, DriftStands
  <2>5. \A t \in todo' : drift_bps(s) <= drift_bps(t)
    <3>1. \A t \in Universe : drift_bps(t) \in Int
      BY <2>1, DriftType
    <3> QED
      BY <2>1, <3>1 DEF BuyBefore
  <2>6. \A i \in DOMAIN orders' : orders'[i].symbol \in Universe
    BY <2>1, <2>2, <2>3 DEF SortedInv
  <2>7. ASSUME NEW i \in DOMAIN orders', NEW j \in DOMAIN orders', i < j,
               orders'[i].side = "buy"
        PROVE  /\ orders'[j].side = "buy"
               /\ drift_bps(orders'[i].symbol) <= drift_bps(orders'[j].symbol)
    <3>1. i \in DOMAIN orders /\ orders[i].side = "buy" /\ orders'[i] = orders[i]
      BY <2>2, <2>7 DEF TypeOK
    <3>2. CASE j = n
      BY <2>1, <2>2, <2>3, <3>1, <3>2 DEF SortedInv
    <3>3. CASE j # n
      <4>1. j \in DOMAIN orders /\ orders'[j] = orders[j]
        BY <2>2, <3>3
      <4> QED
        BY <2>7, <3>1, <4>1 DEF SortedInv
    <3> QED
      BY <3>2, <3>3
  <2>8. ASSUME NEW i \in DOMAIN orders', NEW t \in todo', orders'[i].side = "buy"
        PROVE  drift_bps(orders'[i].symbol) <= drift_bps(t)
    BY <2>1, <2>2, <2>3, <2>5, <2>8 DEF SortedInv
  <2> QED
    BY <2>1, <2>4, <2>6, <2>7, <2>8 DEF SortedInv
<1>7. CASE Finish
  <2> DEFINE n == Smaller(Len(orders), call.settings.max_orders)
  <2>1. /\ UNCHANGED <<call, positions_value>> /\ pc' = "done"
        /\ orders' = SubSeq(orders, 1, n)
    BY <1>7 DEF Finish
  <2>2. n \in Nat /\ n <= Len(orders)
    BY DEF TypeOK, IsCall, Settings, Smaller
  <2> HIDE DEF n
  <2>3. /\ DOMAIN orders' = 1..n /\ DOMAIN orders = 1..Len(orders) /\ Len(orders) \in Nat
        /\ \A i \in 1..n : orders'[i] = orders[i]
    BY <2>1, <2>2 DEF TypeOK
  <2>4. \A i \in DOMAIN orders' : i \in DOMAIN orders /\ orders'[i] = orders[i]
    BY <2>2, <2>3
  <2>5. Universe' = Universe /\ \A t : drift_bps(t)' = drift_bps(t)
    BY <2>1, TargetsStand, DriftStands
  <2>6. \A i, j \in DOMAIN orders' : i < j /\ orders'[i].side = "buy" =>
          /\ orders'[j].side = "buy"
          /\ drift_bps(orders'[i].symbol) <= drift_bps(orders'[j].symbol)
    BY <2>4 DEF SortedInv
  <2>7. \A i \in DOMAIN orders' : orders'[i].symbol \in Universe
    BY <2>4 DEF SortedInv
  <2> QED
    BY <2>1, <2>5, <2>6, <2>7 DEF SortedInv
<1>8. CASE UNCHANGED vars
  BY <1>8, SortedStands DEF vars
<1> QED
  BY <1>1, <1>2, <1>3, <1>4, <1>5, <1>6, <1>7, <1>8 DEF Next

-----------------------------------------------------------------------------
(* Before the cap is applied the skips and the buys of a longer plan say    *)
(* the same of money that has run out.                                      *)
LEMMA ShortStands ==
  ASSUME IInv, ShortInv, pc \notin {"buys", "done"}, pc' # "done",
         UNCHANGED <<skipped, call, positions_value>>
  PROVE  ShortInv'
<1>1. \A k \in skipped : k.side = "sell" /\ k.why # "capped"
  BY DEF ShortInv
<1>2. Skipped("buy", "no cash")' = {}
  BY <1>1 DEF Skipped
<1> QED
  BY <1>1, <1>2 DEF ShortInv

LEMMA SkipSellShort ==
  ASSUME IInv, ShortInv, NEW s \in Symbols, SkipSell(s)
  PROVE  ShortInv'
<1> DEFINE w == IF sell_qty(s) > 0 THEN "dust" ELSE "zero shares"
           k == [symbol |-> s, side |-> "sell", why |-> w]
<1>1. w # "capped"
  OBVIOUS
<1>2. skipped' = skipped \cup {k} /\ pc = "sells" /\ pc' = "sells"
  BY DEF SkipSell, NextSell
<1>3. k.side = "sell" /\ k.why = w
  OBVIOUS
<1> HIDE DEF w, k
<1>4. \A x \in skipped : x.side = "sell" /\ x.why # "capped"
  BY <1>2 DEF ShortInv
<1>5. \A x \in skipped' : x.side = "sell" /\ x.why # "capped"
  BY <1>1, <1>2, <1>3, <1>4
<1>6. Skipped("buy", "no cash")' = {}
  BY <1>5 DEF Skipped
<1> QED
  BY <1>2, <1>5, <1>6 DEF ShortInv

LEMMA PlanBuyShort ==
  ASSUME IInv, ShortInv, NEW s \in Symbols, PlanBuy(s)
  PROVE  ShortInv'
<1>1. /\ pc = "buys" /\ pc' = "buys" /\ skipped' = skipped
      /\ s \in Universe /\ ValidCall /\ affordable(s) > 0
  BY DEF PlanBuy, NextBuy, IInv, LoopInv
<1>2. remaining > 0
  <2>1. delta(s) \in Int /\ remaining \in Nat
    BY <1>1, Amounts DEF IInv, TypeOK
  <2> QED
    BY <1>1, <2>1 DEF affordable, Smaller
<1>3. Skipped("buy", "no cash") = {}
  <2>1. remaining # 0
    BY <1>2
  <2> QED
    BY <1>1, <2>1, Zenon DEF ShortInv
<1>4. Skipped("buy", "no cash")' = {}
  BY <1>1, <1>3 DEF Skipped
<1> QED
  BY <1>1, <1>4 DEF ShortInv

(* A buy is declined for want of cash only when there is none, and then     *)
(* everything bought so far was at least as far below its weight.           *)
LEMMA SkipBuyShort ==
  ASSUME IInv, SortedInv, ShortInv, NEW s \in Symbols, SkipBuy(s)
  PROVE  ShortInv'
<1> DEFINE w == IF affordable(s) <= 0 THEN "no cash"
                ELSE IF buy_qty(s) > 0 THEN "dust" ELSE "zero shares"
           k == [symbol |-> s, side |-> "buy", why |-> w]
<1>1. w # "capped" /\ (w = "no cash" => affordable(s) <= 0)
  OBVIOUS
<1>2. /\ skipped' = skipped \cup {k} /\ pc = "buys" /\ pc' = "buys"
      /\ UNCHANGED <<call, positions_value, orders, remaining>>
      /\ s \in todo /\ s \in Universe /\ delta(s) > 0 /\ ValidCall
  BY DEF SkipBuy, NextBuy, IInv, LoopInv
<1>3. k.symbol = s /\ k.side = "buy" /\ k.why = w
  OBVIOUS
<1> HIDE DEF w, k
<1>4. \A x \in skipped' : x.why # "capped"
  BY <1>1, <1>2, <1>3 DEF ShortInv
<1>5. \A t \in Skipped("buy", "no cash")' :
        t \in Skipped("buy", "no cash") \/ (t = s /\ affordable(s) <= 0)
  <2> SUFFICES ASSUME NEW t \in Skipped("buy", "no cash")', t \notin Skipped("buy", "no cash")
               PROVE  t = s /\ affordable(s) <= 0
    OBVIOUS
  <2>1. PICK x \in skipped' : x.symbol = t /\ x.side = "buy" /\ x.why = "no cash"
    BY Zenon DEF Skipped
  <2>2. x \notin skipped
    BY <2>1, Zenon DEF Skipped
  <2>3. x = k
    BY <1>2, <2>2
  <2> QED
    BY <1>1, <1>3, <2>1, <2>3
<1>6. Skipped("buy", "no cash")' # {} => remaining' = 0
  <2>1. affordable(s) <= 0 => remaining = 0
    <3>1. delta(s) \in Int /\ remaining \in Nat
      BY <1>2, Amounts DEF IInv, TypeOK
    <3> QED
      BY <1>2, <3>1 DEF affordable, Smaller
  <2> QED
    BY <1>2, <1>5, <2>1 DEF ShortInv
<1>7. \A i \in Planned("buy")', t \in Skipped("buy", "no cash")' :
        drift_bps(orders'[i].symbol) <= drift_bps(t)
  <2>1. Planned("buy")' = Planned("buy")
    BY <1>2 DEF Planned
  <2>2. \A i \in Planned("buy") : i \in DOMAIN orders /\ orders[i].side = "buy"
    BY DEF Planned
  <2> QED
    BY <1>2, <1>5, <2>1, <2>2 DEF ShortInv, SortedInv
<1>8. \A t : drift_bps(t)' = drift_bps(t)
  BY <1>2, DriftStands
<1> QED
  BY <1>2, <1>4, <1>6, <1>7, <1>8 DEF ShortInv

(* The cap cuts a plan that is in order: what it drops comes after all that *)
(* it keeps.                                                                *)
LEMMA FinishShort ==
  ASSUME IInv, SortedInv, ShortInv, Finish
  PROVE  ShortInv'
<1> DEFINE n == Smaller(Len(orders), call.settings.max_orders)
           Capped(i) == [symbol |-> orders[i].symbol, side |-> orders[i].side,
                         why |-> "capped"]
<1>1. n \in Nat /\ n <= Len(orders)
  BY DEF IInv, TypeOK, IsCall, Settings, Smaller
<1>2. /\ orders' = SubSeq(orders, 1, n)
      /\ skipped' = skipped \cup {Capped(i) : i \in (n + 1)..Len(orders)}
      /\ UNCHANGED <<call, positions_value>> /\ pc = "buys" /\ pc' = "done"
  BY DEF Finish
<1>3. DOMAIN orders = 1..Len(orders) /\ Len(orders) \in Nat
  BY DEF IInv, TypeOK
<1> HIDE DEF n
<1>4. DOMAIN orders' = 1..n /\ \A i \in 1..n : orders'[i] = orders[i]
  BY <1>1, <1>2 DEF IInv, TypeOK
<1>5. \A t : drift_bps(t)' = drift_bps(t)
  BY <1>2, DriftStands
<1>6. \A i \in Planned("buy")' : i \in 1..n /\ i \in Planned("buy") /\ orders'[i] = orders[i]
  BY <1>1, <1>3, <1>4 DEF Planned
<1>7. ASSUME NEW t \in Skipped("buy", "no cash")' PROVE t \in Skipped("buy", "no cash")
  <2>1. PICK x \in skipped' : x.symbol = t /\ x.side = "buy" /\ x.why = "no cash"
    BY <1>7, Zenon DEF Skipped
  <2>2. \A i : Capped(i).why = "capped"
    OBVIOUS
  <2> HIDE DEF Capped
  <2>3. x \in skipped
    BY <1>2, <2>1, <2>2
  <2> QED
    BY <2>1, <2>3, Zenon DEF Skipped
<1>8. ASSUME NEW side, NEW t \in Skipped(side, "capped")'
      PROVE  \E j \in (n + 1)..Len(orders) : orders[j].symbol = t /\ orders[j].side = side
  <2>1. PICK k \in skipped' : k.symbol = t /\ k.side = side /\ k.why = "capped"
    BY <1>8 DEF Skipped
  <2>2. k \notin skipped
    BY <1>2, <2>1 DEF ShortInv
  <2>3. PICK j \in (n + 1)..Len(orders) : k = Capped(j)
    BY <1>2, <2>2
  <2> QED
    BY <2>1, <2>3
<1>9. \A i \in Planned("buy")', t \in Skipped("buy", "no cash")' :
        drift_bps(orders'[i].symbol) <= drift_bps(t)
  BY <1>6, <1>7 DEF ShortInv
<1>10. ASSUME NEW i \in Planned("buy")', NEW j \in (n + 1)..Len(orders)
       PROVE  /\ orders[j].side = "buy"
              /\ drift_bps(orders'[i].symbol) <= drift_bps(orders[j].symbol)
  <2>1. i \in DOMAIN orders /\ j \in DOMAIN orders /\ i < j
    BY <1>1, <1>3, <1>6
  <2>2. orders[i].side = "buy" /\ orders'[i] = orders[i]
    BY <1>6 DEF Planned
  <2> QED
    BY <2>1, <2>2 DEF SortedInv
<1>11. \A i \in Planned("buy")', t \in Skipped("buy", "capped")' :
         drift_bps(orders'[i].symbol) <= drift_bps(t)
  BY <1>8, <1>10
<1>12. Planned("buy")' # {} => Skipped("sell", "capped")' = {}
  BY <1>8, <1>10
<1>13. MostUnderweightFirst'
  BY <1>5, <1>9, <1>11, <1>12 DEF MostUnderweightFirst
<1> QED
  BY <1>2, <1>5, <1>9, <1>13 DEF ShortInv

LEMMA ShortStep == IInv /\ SortedInv /\ ShortInv /\ [Next]_vars => ShortInv'
<1> SUFFICES ASSUME IInv, SortedInv, ShortInv, [Next]_vars PROVE ShortInv'
  OBVIOUS
<1>1. CASE Accept \/ Reject
  BY <1>1, ShortStands DEF Accept, Reject
<1>2. CASE StartSells
  BY <1>2, ShortStands DEF StartSells
<1>3. CASE StartBuys
  BY <1>3, ShortStands DEF StartBuys
<1>4. CASE Finish
  BY <1>4, FinishShort
<1>5. ASSUME NEW s \in Symbols, AddPosition(s) PROVE ShortInv'
  <2>1. /\ pc = "value" /\ pc' = "value" /\ skipped' = skipped /\ orders' = orders
        /\ orders = <<>>
    BY <1>5 DEF AddPosition, IInv, FreshInv
  <2>2. Planned("buy")' = {}
    BY <2>1 DEF Planned
  <2> QED
    BY <2>1, <2>2 DEF ShortInv
<1>6. ASSUME NEW s \in Symbols, PlanSell(s) PROVE ShortInv'
  BY <1>6, ShortStands DEF PlanSell, NextSell
<1>7. ASSUME NEW s \in Symbols, SkipSell(s) PROVE ShortInv'
  BY <1>7, SkipSellShort
<1>8. ASSUME NEW s \in Symbols, PlanBuy(s) PROVE ShortInv'
  BY <1>8, PlanBuyShort
<1>9. ASSUME NEW s \in Symbols, SkipBuy(s) PROVE ShortInv'
  BY <1>9, SkipBuyShort
<1>10. CASE UNCHANGED vars
  <2>1. UNCHANGED <<call, pc, positions_value, orders, skipped, remaining>>
    BY <1>10 DEF vars
  <2>2. \A t : drift_bps(t)' = drift_bps(t)
    BY <2>1, DriftStands
  <2>3. Planned("buy")' = Planned("buy")
        /\ \A side, why : Skipped(side, why)' = Skipped(side, why)
    BY <2>1 DEF Planned, Skipped
  <2> QED
    BY <2>1, <2>2, <2>3 DEF ShortInv, MostUnderweightFirst, Done
<1> QED
  BY <1>1, <1>2, <1>3, <1>4, <1>5, <1>6, <1>7, <1>8, <1>9, <1>10 DEF Next

LEMMA BeginningPlan == Beginning => PlanInv
<1> SUFFICES ASSUME Beginning PROVE PlanInv
  OBVIOUS
<1>1. orders = <<>> /\ skipped = {} /\ pc = "validate"
  BY DEF Beginning
<1>2. AnsweredInv
  BY <1>1 DEF AnsweredInv, Passed, Untouched, KeptFor, WhyNot
<1>3. SortedInv /\ ShortInv
  BY <1>1 DEF SortedInv, ShortInv, Planned, Skipped
<1> QED
  BY <1>2, <1>3 DEF PlanInv

LEMMA PlanStep == IInv /\ PlanInv /\ [Next]_vars => PlanInv'
  BY AnsweredStep, SortedStep, ShortStep DEF PlanInv

LEMMA PlanInductive == Spec => []PlanInv
  BY InitBegins, BeginningPlan, PlanStep, Inductive, PTL DEF Spec

LEMMA FirstFollows == PlanInv => MostUnderweightFirst
  BY DEF PlanInv, ShortInv, MostUnderweightFirst, Done

LEMMA AnswersFollow == IInv /\ PlanInv => EverySymbolAnswered
<1> SUFFICES ASSUME IInv, PlanInv, Done, NEW s \in Universe
             PROVE  Cardinality(KeptFor(s)) + Cardinality(WhyNot(s))
                      = IF delta(s) = 0 THEN 0 ELSE 1
  BY DEF EverySymbolAnswered, KeptFor, WhyNot
<1>1. s \in Symbols /\ delta(s) \in Int
  BY Amounts DEF IInv, TypeOK, LoopInv, Done, IsCall, Universe, Basket, Held
<1>2. Cardinality({}) = 0 /\ \A x : Cardinality({x}) = 1
  BY FS_EmptySet, FS_Singleton
<1>3. CASE delta(s) = 0
  <2>1. Untouched(s)
    BY <1>1, <1>3 DEF PlanInv, AnsweredInv, Passed
  <2> QED
    BY <1>2, <1>3, <2>1 DEF Untouched
<1>4. CASE delta(s) # 0
  <2>1. Ordered(s) \/ Declined(s)
    BY <1>1, <1>4 DEF PlanInv, AnsweredInv, Passed, Done
  <2>2. \/ Cardinality(KeptFor(s)) = 1 /\ Cardinality(WhyNot(s)) = 0
        \/ Cardinality(KeptFor(s)) = 0 /\ Cardinality(WhyNot(s)) = 1
    BY <1>2, <2>1, Zenon DEF Ordered, Declined
  <2> QED
    BY <1>4, <2>2
<1> QED
  BY <1>3, <1>4

(* When cash or the cap runs out it runs out on the least underweight, and  *)
(* no sell is cut off while a buy it may have to pay for is kept (the sorts *)
(* and the cap of build_plan).                                              *)
THEOREM RunsOutOnTheLeastUnderweight == Spec => []MostUnderweightFirst
  BY FirstFollows, PlanInductive, PTL

(* A finished plan answers once, with an order or a reason, for every       *)
(* symbol off its target and for no other (skipped in build_plan).          *)
THEOREM EverySymbolIsAnswered == Spec => []EverySymbolAnswered
  BY AnswersFollow, Inductive, PlanInductive, PTL

-----------------------------------------------------------------------------
(* The planner in a closed loop with the broker.                            *)

(* A skip says why: a sell is declined only for what is not worth an order, *)
(* and the cap only when the plan is full.                                  *)
ReasonInv ==
  \A k \in skipped :
    /\ k.symbol \in Universe
    /\ k.side = "sell" => delta(k.symbol) < 0
    /\ k.side = "buy" => delta(k.symbol) > 0
    /\ k.side = "sell" /\ k.why # "capped" => ~Worth(sell_qty(k.symbol), k.symbol)
    /\ k.why = "capped" => pc = "done" /\ Len(orders) = call.settings.max_orders

(* The broker's account is the one the plan was made from until the first   *)
(* order of the plan is placed.                                             *)
AccountInv ==
  /\ DOMAIN call = {"cash", "held", "price", "targets", "settings"}
  /\ cash \in Int /\ held \in [Symbols -> Int]
  /\ placed \in Nat /\ (pc # "done" => placed = 0)
  /\ placed = 0 => cash = call.cash /\ held = call.held

(* What the planner's own steps keep. *)
PlannerInv == IInv /\ PlanInv /\ ReasonInv

(* What a sell would come to does not move while the loops run. *)
LEMMA SellStands ==
  ASSUME UNCHANGED <<call, positions_value>>
  PROVE  \A s : sell_qty(s)' = sell_qty(s) /\ Worth(sell_qty(s), s)' = Worth(sell_qty(s), s)
<1>1. ASSUME NEW s PROVE sell_qty(s)' = sell_qty(s)
  <2>1. delta(s)' = delta(s)
    BY TargetsStand
  <2>2. target_value(s)' = target_value(s)
    BY DEF target_value, target_bps, apply_bps, deployable, less_buffer, investable,
           portfolio_value, Smaller, Basket
  <2> QED
    BY <2>1, <2>2 DEF sell_qty, shares, quantity, whole_shares, Smaller, Abs
<1> QED
  BY <1>1 DEF Worth, value_of

(* A step that writes no skip leaves the reasons given as they were. *)
LEMMA ReasonsStand ==
  ASSUME ReasonInv, UNCHANGED <<call, positions_value, skipped>>,
         pc # "done" \/ UNCHANGED <<pc, orders>>
  PROVE  ReasonInv'
<1>1. /\ Universe' = Universe /\ \A s : delta(s)' = delta(s)
      /\ \A s : Worth(sell_qty(s), s)' = Worth(sell_qty(s), s)
  BY TargetsStand, SellStands
<1> QED
  BY <1>1 DEF ReasonInv

LEMMA SkipReason ==
  ASSUME IInv, ReasonInv, NEW s \in Symbols, SkipSell(s) \/ SkipBuy(s)
  PROVE  ReasonInv'
<1>1. /\ UNCHANGED <<call, positions_value, pc, orders>> /\ pc # "done"
      /\ s \in Universe
      /\ SkipSell(s) => delta(s) < 0
      /\ SkipBuy(s) => delta(s) > 0
  BY DEF SkipSell, SkipBuy, NextSell, NextBuy, IInv, LoopInv
<1>2. /\ Universe' = Universe /\ \A t : delta(t)' = delta(t)
      /\ \A t : Worth(sell_qty(t), t)' = Worth(sell_qty(t), t)
  BY <1>1, TargetsStand, SellStands
<1>3. ASSUME NEW k, skipped' = skipped \cup {k}, k.symbol = s, k.why # "capped",
             k.side \in Sides,
             k.side = "sell" => delta(s) < 0 /\ ~Worth(sell_qty(s), s),
             k.side = "buy" => delta(s) > 0
      PROVE  ReasonInv'
  BY <1>1, <1>2, <1>3 DEF ReasonInv
<1>4. CASE SkipSell(s)
  <2> DEFINE w == IF sell_qty(s) > 0 THEN "dust" ELSE "zero shares"
             k == [symbol |-> s, side |-> "sell", why |-> w]
  <2>1. w # "capped"
    OBVIOUS
  <2>2. skipped' = skipped \cup {k} /\ ~Worth(sell_qty(s), s)
    BY <1>4 DEF SkipSell
  <2> HIDE DEF w
  <2>3. k.symbol = s /\ k.side = "sell" /\ k.why = w
    OBVIOUS
  <2> HIDE DEF k
  <2> QED
    BY <1>1, <1>3, <1>4, <2>1, <2>2, <2>3 DEF Sides
<1>5. CASE SkipBuy(s)
  <2> DEFINE w == IF affordable(s) <= 0 THEN "no cash"
                  ELSE IF buy_qty(s) > 0 THEN "dust" ELSE "zero shares"
             k == [symbol |-> s, side |-> "buy", why |-> w]
  <2>1. w # "capped"
    OBVIOUS
  <2>2. skipped' = skipped \cup {k}
    BY <1>5 DEF SkipBuy
  <2> HIDE DEF w
  <2>3. k.symbol = s /\ k.side = "buy" /\ k.why = w
    OBVIOUS
  <2> HIDE DEF k
  <2> QED
    BY <1>1, <1>3, <1>5, <2>1, <2>2, <2>3 DEF Sides
<1> QED
  BY <1>4, <1>5

(* The cap is a reason only for what no longer fits a full plan. *)
LEMMA CapReason ==
  ASSUME IInv, SortedInv, ReasonInv, Finish
  PROVE  ReasonInv'
<1> DEFINE max == call.settings.max_orders
           n == Smaller(Len(orders), max)
           Capped(i) == [symbol |-> orders[i].symbol, side |-> orders[i].side,
                         why |-> "capped"]
<1>1. n \in Nat /\ n <= Len(orders) /\ max \in Nat /\ Len(orders) \in Nat
      /\ (n < Len(orders) => n = max)
  BY DEF IInv, TypeOK, IsCall, Settings, Smaller
<1>2. /\ orders' = SubSeq(orders, 1, n)
      /\ skipped' = skipped \cup {Capped(i) : i \in (n + 1)..Len(orders)}
      /\ UNCHANGED <<call, positions_value>> /\ pc = "buys" /\ pc' = "done"
  BY DEF Finish
<1>3. DOMAIN orders = 1..Len(orders)
  BY DEF IInv, TypeOK
<1> HIDE DEF n
<1>4. Len(orders') = n
  BY <1>1, <1>2 DEF IInv, TypeOK
<1>5. /\ Universe' = Universe /\ \A s : delta(s)' = delta(s)
      /\ \A s : Worth(sell_qty(s), s)' = Worth(sell_qty(s), s)
  BY <1>2, TargetsStand, SellStands
<1>6. ASSUME NEW k \in skipped
      PROVE  /\ k.symbol \in Universe /\ k.why # "capped"
             /\ k.side = "sell" => delta(k.symbol) < 0
             /\ k.side = "buy" => delta(k.symbol) > 0
             /\ k.side = "sell" => ~Worth(sell_qty(k.symbol), k.symbol)
  BY <1>2, <1>6 DEF ReasonInv
<1>7. ASSUME NEW i \in (n + 1)..Len(orders)
      PROVE  /\ orders[i].symbol \in Universe
             /\ orders[i].side = "sell" => delta(orders[i].symbol) < 0
             /\ orders[i].side = "buy" => delta(orders[i].symbol) > 0
             /\ n = max
  <2>1. i \in DOMAIN orders /\ n < Len(orders)
    BY <1>1, <1>3
  <2> QED
    BY <1>1, <2>1 DEF SortedInv, IInv, NoOvershoot
<1>8. ASSUME NEW k \in skipped', k \notin skipped
      PROVE  /\ k.symbol \in Universe /\ k.why = "capped" /\ n = max
             /\ k.side = "sell" => delta(k.symbol) < 0
             /\ k.side = "buy" => delta(k.symbol) > 0
  <2>1. PICK i \in (n + 1)..Len(orders) : k = Capped(i)
    BY <1>2, <1>8
  <2> QED
    BY <1>7, <2>1
<1> HIDE DEF Capped
<1> QED
  BY <1>2, <1>4, <1>5, <1>6, <1>8 DEF ReasonInv

LEMMA ReasonStep == PlannerInv /\ [Next]_vars => ReasonInv'
<1> SUFFICES ASSUME IInv, AnsweredInv, SortedInv, ReasonInv, [Next]_vars
             PROVE  ReasonInv'
  BY DEF PlannerInv, PlanInv
<1>1. CASE Accept \/ Reject \/ StartSells \/ StartBuys
  BY <1>1, ReasonsStand DEF Accept, Reject, StartSells, StartBuys
<1>2. CASE Finish
  BY <1>2, CapReason
<1>3. ASSUME NEW s \in Symbols, AddPosition(s) PROVE ReasonInv'
  <2>1. pc = "value" /\ skipped' = skipped
    BY <1>3 DEF AddPosition
  <2>2. \A t \in Symbols : WhyNot(t) = {}
    BY <2>1, PassedStep DEF AnsweredInv, Untouched
  <2>3. skipped = {}
    <3>1. \A k \in skipped : k.symbol \in Symbols
      BY DEF IInv, TypeOK, Skip
    <3> QED
      BY <2>2, <3>1 DEF WhyNot
  <2> QED
    BY <2>1, <2>3 DEF ReasonInv
<1>4. ASSUME NEW s \in Symbols, PlanSell(s) \/ PlanBuy(s) PROVE ReasonInv'
  BY <1>4, ReasonsStand DEF PlanSell, PlanBuy, NextSell, NextBuy
<1>5. ASSUME NEW s \in Symbols, SkipSell(s) \/ SkipBuy(s) PROVE ReasonInv'
  BY <1>5, SkipReason
<1>6. CASE UNCHANGED vars
  BY <1>6, ReasonsStand DEF vars
<1> QED
  BY <1>1, <1>2, <1>3, <1>4, <1>5, <1>6 DEF Next

LEMMA PlannerStep == PlannerInv /\ [Next]_vars => PlannerInv'
  BY StepInv, PlanStep, ReasonStep DEF PlannerInv

LEMMA BeginningPlanner == Beginning => PlannerInv
  BY BeginningInv, BeginningPlan DEF PlannerInv, Beginning, ReasonInv

(* Rounding gives a whole number of whatever sign. *)
LEMMA MoneyInteger ==
  ASSUME NEW n \in Int, NEW d \in Nat \ {0}
  PROVE  money(n, d) \in Int
<1>1. 2 * n + d \in Int /\ 2 * d \in Nat \ {0}
  BY Z3
<1> QED
  BY <1>1 DEF money

LEMMA FillInteger ==
  ASSUME NEW side, NEW q \in Int, NEW p \in Int, NEW c \in Int, NEW h \in Int
  PROVE  cash_after(side, q, p, c) \in Int /\ qty_after(side, q, h) \in Int
<1>1. value_of(q, p) \in Int
  <2>1. q * p \in Int
    BY Z3
  <2> QED
    BY <2>1, MoneyInteger, ShareAssumption DEF value_of
<1>2. held_as_read(h) \in Int
  <2>1. money(h, GRAIN) \in Int
    BY MoneyInteger, GrainAssumption
  <2> QED
    BY <2>1, GrainAssumption, Z3 DEF held_as_read
<1> QED
  BY <1>1, <1>2 DEF cash_after, qty_after

(* The submit loop leaves the plan alone and moves the broker's account.    *)
LEMMA PlaceAccount ==
  ASSUME IInv, AccountInv, Place
  PROVE  AccountInv'
<1> DEFINE o == orders[placed + 1]
           price == call.price[o.symbol]
<1>1. /\ placed' = placed + 1 /\ pc = "done" /\ UNCHANGED vars
      /\ placed < Len(orders)
  BY DEF Place
<1>2. UNCHANGED <<call, pc>>
  BY <1>1 DEF vars
<1>3. o \in Order
  <2>1. orders \in Seq(Order) /\ placed \in Nat
    BY DEF IInv, TypeOK, AccountInv
  <2>2. placed + 1 \in 1..Len(orders)
    BY <1>1, <2>1
  <2> QED
    BY <2>1, <2>2
<1>4. o.symbol \in Symbols /\ o.quantity \in Int
  BY <1>3 DEF Order
<1>5. call.price \in [Symbols -> Int]
  BY DEF IInv, TypeOK, IsCall
<1> HIDE DEF o
<1>6. price \in Int /\ held[o.symbol] \in Int
  BY <1>4, <1>5 DEF AccountInv
<1>7. /\ cash_after(o.side, o.quantity, price, cash) \in Int
      /\ qty_after(o.side, o.quantity, held[o.symbol]) \in Int
  BY <1>4, <1>6, FillInteger DEF AccountInv
<1>8. \/ /\ cash' = cash_after(o.side, o.quantity, price, cash)
         /\ held' = [held EXCEPT ![o.symbol] =
                       qty_after(o.side, o.quantity, held[o.symbol])]
      \/ UNCHANGED <<cash, held>>
  BY DEF Place, o
<1>9. cash' \in Int /\ held' \in [Symbols -> Int]
  BY <1>7, <1>8 DEF AccountInv
<1>10. placed' \in Nat /\ placed' # 0
  BY <1>1 DEF AccountInv
<1> QED
  BY <1>1, <1>2, <1>9, <1>10 DEF AccountInv

(* The next plan is made from the account as the orders have left it.       *)
LEMMA AgainBegins ==
  ASSUME IInv, AccountInv, PlanAgain
  PROVE  Beginning' /\ AccountInv'
<1>1. call' = [call EXCEPT !.cash = cash, !.held = held]
  BY DEF PlanAgain
<1>2. DOMAIN call' = DOMAIN call
  BY <1>1
<1>3. call'.cash = cash /\ call'.held = held
  BY <1>1 DEF AccountInv
<1>4. /\ call'.price = call.price /\ call'.targets = call.targets
      /\ call'.settings = call.settings
  BY <1>1 DEF AccountInv
<1>5. IsCall(call)'
  BY <1>3, <1>4 DEF IInv, TypeOK, AccountInv, IsCall
<1>6. Beginning'
  BY <1>5 DEF PlanAgain, Beginning
<1>7. AccountInv'
  BY <1>2, <1>3 DEF PlanAgain, AccountInv
<1> QED
  BY <1>6, <1>7

LEMMA LoopStep ==
  PlannerInv /\ AccountInv /\ [LoopNext]_allVars =>
    (PlannerInv' \/ Beginning') /\ AccountInv'
<1> SUFFICES ASSUME PlannerInv, AccountInv, [LoopNext]_allVars
             PROVE  (PlannerInv' \/ Beginning') /\ AccountInv'
  OBVIOUS
<1>1. IInv
  BY DEF PlannerInv
<1>2. CASE Plan
  <2>1. Next /\ UNCHANGED <<cash, held, placed, rejected, pass>>
    BY <1>2 DEF Plan, loopVars
  <2>2. call' = call /\ pc # "done"
    BY <2>1 DEF Next, Accept, Reject, StartSells, StartBuys, Finish, AddPosition,
                PlanSell, SkipSell, PlanBuy, SkipBuy, NextSell, NextBuy
  <2>3. AccountInv'
    BY <2>1, <2>2 DEF AccountInv
  <2> QED
    BY <2>1, <2>3, PlannerStep
<1>3. CASE Place
  <2>1. UNCHANGED vars
    BY <1>3 DEF Place
  <2> QED
    BY <1>1, <1>3, <2>1, PlannerStep, PlaceAccount
<1>4. CASE PlanAgain
  BY <1>1, <1>4, AgainBegins
<1>5. CASE UNCHANGED allVars
  <2>1. UNCHANGED vars /\ UNCHANGED <<call, pc, cash, held, placed>>
    BY <1>5 DEF allVars, loopVars, vars
  <2>2. AccountInv'
    BY <2>1 DEF AccountInv
  <2> QED
    BY <2>1, <2>2, PlannerStep
<1> QED
  BY <1>2, <1>3, <1>4, <1>5 DEF LoopNext

LEMMA LoopInductive == LoopSpec => [](PlannerInv /\ AccountInv)
<1>1. LoopInit => Beginning /\ AccountInv
  <2> SUFFICES ASSUME LoopInit PROVE Beginning /\ AccountInv
    OBVIOUS
  <2>1. Init /\ call \in Calls /\ cash = call.cash /\ held = call.held /\ placed = 0
    BY DEF LoopInit, Init
  <2>2. IsCall(call) /\ DOMAIN call = {"cash", "held", "price", "targets", "settings"}
    BY <2>1, CallsAssumption
  <2> QED
    BY <2>1, <2>2, InitBegins DEF AccountInv, IsCall
<1>2. PlannerInv /\ AccountInv /\ [LoopNext]_allVars =>
        (PlannerInv' \/ Beginning') /\ AccountInv'
  BY LoopStep
<1> QED
  BY <1>1, <1>2, BeginningPlanner, PTL DEF LoopSpec

(* Every plan of the closed loop, the first and those made from what the    *)
(* broker's roundings left, is as sound as a single call's: the runs check  *)
(* the planner in this loop.                                                *)
THEOREM EveryPlanIsSound ==
  LoopSpec => [](TypeOK /\ BudgetKept /\ NoOvershoot /\ EverySymbolAnswered
                 /\ MostUnderweightFirst)
<1>1. PlannerInv => TypeOK /\ BudgetKept /\ NoOvershoot /\ EverySymbolAnswered
                    /\ MostUnderweightFirst
  BY BudgetFollows, AnswersFollow, FirstFollows DEF PlannerInv, IInv
<1> QED
  BY <1>1, LoopInductive, PTL

(* A bot at rest holds nothing outside its basket that is worth an order:   *)
(* the exit sell of build_plan leaves no position behind.                   *)
THEOREM LeftoversAreSold == LoopSpec => []RestIsLiquidated
<1>1. PlannerInv /\ AccountInv => RestIsLiquidated
  <2> SUFFICES ASSUME PlannerInv, AccountInv, Settled, call.settings.max_orders > 0,
                      NEW s \in Held \ Basket
               PROVE  \/ value_of(held[s], call.price[s]) < call.settings.min_order_value
                      \/ value_of(held[s], call.price[s]) = 0
    BY DEF RestIsLiquidated
  <2>1. /\ pc = "done" /\ orders = <<>> /\ placed = 0 /\ held = call.held
        /\ IInv /\ ValidCall /\ TypeOK
    BY DEF Settled, AllPlaced, Done, AccountInv, PlannerInv, IInv, LoopInv
  <2>2. s \in Symbols /\ s \in Universe /\ call.held[s] > 0
    BY DEF Held, Universe
  <2>3. current_value(s) \in Nat /\ delta(s) \in Int /\ deployable \in Nat
    BY <2>1, <2>2, Amounts DEF TypeOK
  <2>4. target_value(s) = 0
    <3>1. target_bps(s) = 0
      BY DEF target_bps
    <3>2. money(0, BPS) = 0
      BY DEF money, BPS
    <3> QED
      BY <2>3, <3>1, <3>2 DEF target_value, apply_bps
  <2>5. delta(s) = 0 - current_value(s) /\ sell_qty(s) = held[s]
    BY <2>1, <2>4 DEF delta, sell_qty
  <2>6. current_value(s) = value_of(held[s], call.price[s])
    BY <2>1 DEF current_value
  <2>7. CASE delta(s) = 0
    BY <2>3, <2>5, <2>6, <2>7
  <2>8. CASE delta(s) # 0
    <3>1. Ordered(s) \/ Declined(s)
      BY <2>1, <2>2, <2>3, <2>5, <2>8 DEF PlannerInv, PlanInv, AnsweredInv, Passed
    <3>2. PICK k \in skipped : k.symbol = s
      BY <2>1, <3>1 DEF Ordered, Declined, WhyNot
    <3>3. k.side = "sell"
      <4>1. k \in Skip
        BY <2>1, <3>2 DEF TypeOK
      <4>2. k.side \in {"sell", "buy"}
        BY <4>1 DEF Skip, Sides
      <4>3. ~(delta(s) > 0)
        BY <2>3, <2>5
      <4> QED
        BY <3>2, <4>2, <4>3 DEF PlannerInv, ReasonInv
    <3>4. k.why # "capped"
      BY <2>1 DEF PlannerInv, ReasonInv
    <3>5. ~Worth(sell_qty(s), s)
      BY <3>2, <3>3, <3>4 DEF PlannerInv, ReasonInv
    <3>6. ~(value_of(held[s], call.price[s]) >= call.settings.min_order_value)
      BY <2>1, <2>2, <2>5, <3>5 DEF Worth
    <3>7. call.settings.min_order_value \in Nat
      BY <2>1 DEF TypeOK, IsCall, Settings
    <3> QED
      BY <2>3, <2>6, <3>6, <3>7
  <2> QED
    BY <2>7, <2>8
<1> QED
  BY <1>1, LoopInductive, PTL

-----------------------------------------------------------------------------
(* At rest, on target.  The positions are valued at what they are worth to  *)
(* the last term of the sum; and where no order was planned, every buy was  *)
(* measured against the whole budget.                                       *)
Gross == [s \in Symbols |-> call.held[s] * call.price[s]]
ValuedInv ==
  /\ pc = "validate" => positions_value = 0
  /\ pc = "value" => positions_value = SumFunctionOnSet(Gross, Held \ todo)
  /\ pc \in {"sells", "buys", "done"} => positions_value = SumFunctionOnSet(Gross, Held)

Declines(s) == affordable(s) <= 0 \/ ~Worth(buy_qty(s), s)
IdleInv ==
  pc \in {"buys", "done"} /\ orders = <<>> /\ call.settings.max_orders > 0 =>
    /\ remaining = budget
    /\ \A k \in skipped : k.side = "buy" => Declines(k.symbol)

RestInv == ValuedInv /\ IdleInv

(* What a holding comes to before it is rounded. *)
LEMMA GrossType ==
  ASSUME IsCall(call)
  PROVE  \A s \in Symbols : Gross[s] \in Int /\ Gross[s] = call.held[s] * call.price[s]
<1> SUFFICES ASSUME NEW s \in Symbols
             PROVE  Gross[s] \in Int /\ Gross[s] = call.held[s] * call.price[s]
  OBVIOUS
<1>1. call.held[s] \in Int /\ call.price[s] \in Int
  BY DEF IsCall
<1>2. call.held[s] * call.price[s] \in Int
  BY <1>1, Z3
<1> QED
  BY <1>2 DEF Gross

(* AddPosition adds a holding at a time. *)
LEMMA ValuedStep == IInv /\ ValuedInv /\ [Next]_vars => ValuedInv'
<1> SUFFICES ASSUME IInv, ValuedInv, [Next]_vars PROVE ValuedInv'
  OBVIOUS
<1>1. CASE Accept
  <2>1. /\ UNCHANGED <<call, positions_value>> /\ pc' = "value" /\ pc = "validate"
        /\ todo' = Held
    BY <1>1 DEF Accept
  <2>2. Held' = Held
    BY <2>1 DEF Held
  <2>3. Held' \ todo' = {}
    BY <2>1, <2>2
  <2>4. SumFunctionOnSet(Gross, {})' = 0
    BY SumOfNone
  <2>5. SumFunctionOnSet(Gross, Held \ todo)' = 0
    BY <2>3, <2>4
  <2> QED
    BY <2>1, <2>5 DEF ValuedInv
<1>2. ASSUME NEW s \in Symbols, AddPosition(s) PROVE ValuedInv'
  <2>1. /\ UNCHANGED <<call, pc>> /\ pc = "value" /\ s \in todo /\ todo' = todo \ {s}
        /\ positions_value' = positions_value + call.held[s] * call.price[s]
        /\ todo \subseteq Held
    BY <1>2 DEF AddPosition, IInv, LoopInv
  <2>2. Held' = Held /\ Gross' = Gross
    BY <2>1 DEF Held, Gross
  <2> DEFINE past == (Held \ todo) \cup {s}
  <2>3. /\ past \subseteq Symbols /\ IsFiniteSet(Symbols)
        /\ \A t \in Symbols : Gross[t] \in Int
    BY SymbolsAssumption, GrossType DEF Held, IInv, TypeOK
  <2>4. SumFunctionOnSet(Gross, past) = Gross[s] + SumFunctionOnSet(Gross, past \ {s})
    BY <2>3, SumTakesOut
  <2>5. past \ {s} = Held \ todo /\ Held' \ todo' = past
    BY <2>1, <2>2
  <2>6. Gross[s] = call.held[s] * call.price[s]
    BY GrossType DEF IInv, TypeOK
  <2>7. positions_value = SumFunctionOnSet(Gross, Held \ todo)
    BY <2>1 DEF ValuedInv
  <2> DEFINE before == SumFunctionOnSet(Gross, Held \ todo)
  <2>8. before \in Int /\ Gross[s] \in Int
    <3>1. (Held \ todo) \subseteq Symbols
      BY DEF Held
    <3> QED
      BY <2>3, <3>1, SumIsInt
  <2>9. SumFunctionOnSet(Gross, Held \ todo)' = SumFunctionOnSet(Gross, past)
    BY <2>2, <2>5
  <2>10. positions_value' = Gross[s] + before
    <3>1. positions_value' = before + Gross[s]
      BY <2>1, <2>6, <2>7
    <3> HIDE DEF before
    <3> QED
      BY <2>8, <3>1
  <2>11. positions_value' = SumFunctionOnSet(Gross, Held \ todo)'
    BY <2>4, <2>5, <2>9, <2>10
  <2> QED
    BY <2>1, <2>11 DEF ValuedInv
<1>3. CASE UNCHANGED <<call, positions_value>> /\ pc' \in {"sells", "buys", "done"}
           /\ pc \in {"sells", "buys", "done"}
  <2>1. Held' = Held /\ Gross' = Gross
    BY <1>3 DEF Held, Gross
  <2> QED
    BY <1>3, <2>1 DEF ValuedInv
<1>4. CASE StartSells
  <2>1. /\ UNCHANGED <<call, positions_value>> /\ pc' = "sells" /\ pc = "value" /\ todo = {}
    BY <1>4 DEF StartSells
  <2>2. Held' = Held /\ Gross' = Gross /\ Held \ todo = Held
    BY <2>1 DEF Held, Gross
  <2> QED
    BY <2>1, <2>2 DEF ValuedInv
<1>5. CASE Reject
  BY <1>5 DEF Reject, ValuedInv
<1>6. CASE UNCHANGED vars
  <2>1. UNCHANGED <<call, pc, todo, positions_value>>
    BY <1>6 DEF vars
  <2>2. Held' = Held /\ Gross' = Gross
    BY <2>1 DEF Held, Gross
  <2> QED
    BY <2>1, <2>2 DEF ValuedInv
<1>7. CASE StartBuys \/ Finish
  BY <1>3, <1>7 DEF StartBuys, Finish
<1>8. ASSUME NEW s \in Symbols, PlanSell(s) \/ SkipSell(s) PROVE ValuedInv'
  BY <1>3, <1>8 DEF PlanSell, SkipSell, NextSell
<1>9. ASSUME NEW s \in Symbols, PlanBuy(s) \/ SkipBuy(s) PROVE ValuedInv'
  BY <1>3, <1>9 DEF PlanBuy, SkipBuy, NextBuy
<1> QED
  BY <1>1, <1>2, <1>4, <1>5, <1>6, <1>7, <1>8, <1>9 DEF Next

(* What a buy would come to does not move while nothing is bought. *)
LEMMA BuyStands ==
  ASSUME UNCHANGED <<call, positions_value, proceeds, remaining>>
  PROVE  budget' = budget /\ \A s : Declines(s)' = Declines(s)
<1>1. reserved' = reserved /\ \A s : delta(s)' = delta(s)
  BY TargetsStand
<1>2. budget' = budget
  BY <1>1 DEF budget
<1>3. ASSUME NEW s PROVE Declines(s)' = Declines(s)
  <2>1. delta(s)' = delta(s)
    BY <1>1
  <2>2. affordable(s)' = affordable(s)
    BY <2>1 DEF affordable, Smaller
  <2>3. buy_qty(s)' = buy_qty(s)
    BY <2>2 DEF buy_qty, shares, quantity, whole_shares
  <2> QED
    BY <2>2, <2>3 DEF Declines, Worth, value_of
<1> QED
  BY <1>2, <1>3

(* As long as nothing is bought the budget stands, and with it the reasons. *)
LEMMA IdleStep == IInv /\ ShortInv /\ IdleInv /\ [Next]_vars => IdleInv'
<1> SUFFICES ASSUME IInv, ShortInv, IdleInv, [Next]_vars,
                    pc' \in {"buys", "done"}, orders' = <<>>, call'.settings.max_orders > 0
             PROVE  /\ remaining' = budget'
                    /\ \A k \in skipped' : k.side = "buy" => Declines(k.symbol)'
  BY DEF IdleInv
<1>1. CASE StartBuys
  <2>1. /\ UNCHANGED <<call, positions_value, proceeds, skipped>> /\ remaining' = budget
        /\ pc = "sells"
    BY <1>1 DEF StartBuys
  <2>2. budget' = budget
    BY <2>1, TargetsStand DEF budget
  <2>3. \A k \in skipped' : k.side # "buy"
    BY <2>1 DEF ShortInv
  <2> QED
    BY <2>1, <2>2, <2>3
<1>2. ASSUME NEW s \in Symbols, SkipBuy(s)
      PROVE  /\ remaining' = budget'
             /\ \A k \in skipped' : k.side = "buy" => Declines(k.symbol)'
  <2>1. /\ UNCHANGED <<call, pc, positions_value, proceeds, remaining, orders>> /\ Declines(s)
    BY <1>2 DEF SkipBuy, NextBuy, Declines
  <2>2. budget' = budget /\ \A t : Declines(t)' = Declines(t)
    BY <2>1, BuyStands
  <2>3. \A k \in skipped' : k \in skipped \/ k.symbol = s
    <3>1. \E w : skipped' = skipped \cup {[symbol |-> s, side |-> "buy", why |-> w]}
      BY <1>2 DEF SkipBuy
    <3> QED
      BY <3>1
  <2> QED
    BY <2>1, <2>2, <2>3 DEF IdleInv
<1>3. ASSUME NEW s \in Symbols, PlanBuy(s) PROVE FALSE
  <2> DEFINE o == [symbol |-> s, side |-> "buy", quantity |-> buy_qty(s),
                   value |-> value_of(buy_qty(s), call.price[s])]
  <2>1. s \in Universe /\ delta(s) > 0 /\ ValidCall /\ orders' = Append(orders, o)
    BY <1>3 DEF PlanBuy, NextBuy, IInv, LoopInv
  <2>2. o \in Order
    BY <2>1, BuyBound DEF Order, Sides, IInv, TypeOK
  <2>3. Len(orders') = Len(orders) + 1 /\ Len(orders) \in Nat
    BY <2>1, <2>2, AppendOrder DEF IInv, TypeOK
  <2> QED
    BY <2>3
<1>4. CASE Finish
  <2> DEFINE max == call.settings.max_orders
             n == Smaller(Len(orders), max)
  <2>1. /\ UNCHANGED <<call, positions_value, proceeds, remaining>> /\ pc = "buys"
        /\ orders' = SubSeq(orders, 1, n)
        /\ \A k \in skipped' : k \in skipped \/ \E i \in (n + 1)..Len(orders) : TRUE
    BY <1>4 DEF Finish
  <2>2. orders \in Seq(Order) /\ Len(orders) \in Nat /\ max \in Nat /\ max > 0
    BY <2>1 DEF IInv, TypeOK, IsCall, Settings
  <2>3. Len(orders) = 0
    <3>1. n \in Nat /\ n <= Len(orders) /\ (Len(orders) > 0 => n > 0)
      BY <2>2 DEF Smaller
    <3> HIDE DEF n, max
    <3>2. Len(orders') = n
      BY <2>1, <2>2, <3>1
    <3> QED
      BY <2>2, <3>1, <3>2
  <2>4. orders = <<>> /\ \A k \in skipped' : k \in skipped
    <3>1. orders = <<>>
      BY <2>2, <2>3
    <3>2. n = 0
      BY <2>2, <2>3 DEF Smaller
    <3> HIDE DEF n
    <3>3. \A i \in (n + 1)..Len(orders) : FALSE
      BY <2>3, <3>2
    <3> QED
      BY <2>1, <3>1, <3>3
  <2>5. budget' = budget /\ \A t : Declines(t)' = Declines(t)
    BY <2>1, BuyStands
  <2> QED
    BY <2>1, <2>2, <2>4, <2>5 DEF IdleInv
<1>5. CASE UNCHANGED vars
  <2>1. UNCHANGED <<call, pc, positions_value, proceeds, remaining, orders, skipped>>
    BY <1>5 DEF vars
  <2>2. budget' = budget /\ \A t : Declines(t)' = Declines(t)
    BY <2>1, BuyStands
  <2> QED
    BY <2>1, <2>2 DEF IdleInv
<1>6. CASE Accept \/ Reject \/ StartSells
  BY <1>6 DEF Accept, Reject, StartSells
<1>7. ASSUME NEW s \in Symbols, AddPosition(s) PROVE FALSE
  BY <1>7 DEF AddPosition
<1>8. ASSUME NEW s \in Symbols, PlanSell(s) \/ SkipSell(s) PROVE FALSE
  BY <1>8 DEF PlanSell, SkipSell, NextSell
<1> QED
  BY <1>1, <1>2, <1>3, <1>4, <1>5, <1>6, <1>7, <1>8 DEF Next

(* What the smallest quantity costs: a grain for a fractional bot, a share  *)
(* for another.                                                             *)
UnitOf(p) == IF call.settings.allow_fractional THEN p \div SHARE ELSE p

(* An amount too small to be worth an order is less than that and the       *)
(* minimum.                                                                 *)
LEMMA WorthlessIsSmall ==
  ASSUME NEW a \in Nat, NEW p \in Nat \ {0}, NEW m \in Nat,
         shares(a, p) = 0 \/ value_of(shares(a, p), p) < m
  PROVE  UnitOf(p) \in Nat /\ a <= UnitOf(p) + m
<1> DEFINE q == shares(a, p)
           v == value_of(q, p)
<1>1. SHARE \in Nat \ {0}
  BY ShareAssumption
<1>2. q \in Nat /\ q * p \in Nat
  <2>1. q \in Nat
    BY SharesBound
  <2> HIDE DEF q
  <2> QED
    BY <2>1, Z3
<1>3. v \in Nat
  BY <1>2, ValueType
<1>4. (2 * SHARE) * v > 2 * (q * p) - SHARE
  <2> HIDE DEF q
  <2> QED
    BY <1>1, <1>2, HalfUpIsNear DEF v, value_of, money
<1>5. q = 0 \/ v < m
  OBVIOUS
<1> HIDE DEF v
<1>6. CASE call.settings.allow_fractional
  <2>1. q = (a * SHARE) \div p
    BY <1>6 DEF shares, quantity
  <2>2. a * SHARE \in Nat
    BY <1>1, Z3
  <2> HIDE DEF q
  <2>3. a * SHARE < (q + 1) * p
    BY <2>1, <2>2, DivIsNear
  <2> DEFINE u == p \div SHARE
  <2>4. u \in Nat /\ p < (u + 1) * SHARE
    BY <1>1, DivIsNear, DivBelow
  <2>5. UnitOf(p) = u
    BY <1>6 DEF UnitOf
  <2> HIDE DEF u
  <2> QED
    BY <1>1, <1>2, <1>3, <1>4, <1>5, <2>3, <2>4, <2>5, PartIsSmall
<1>7. CASE ~call.settings.allow_fractional
  <2> DEFINE k == a \div p
  <2>1. q = k * SHARE
    BY <1>7 DEF shares, whole_shares
  <2> HIDE DEF q
  <2>2. k \in Nat /\ a < (k + 1) * p
    BY DivIsNear, DivBelow
  <2>3. UnitOf(p) = p
    BY <1>7 DEF UnitOf
  <2> HIDE DEF k
  <2>4. k * SHARE = 0 \/ v < m
    BY <1>5, <2>1
  <2>5. (2 * SHARE) * v > 2 * ((k * SHARE) * p) - SHARE
    BY <1>4, <2>1
  <2> QED
    BY <1>1, <1>3, <2>2, <2>3, <2>4, <2>5, WholeIsSmall
<1> QED
  BY <1>6, <1>7

(* A difference no bigger is not worth an order. *)
Small(s) == UnitOf(call.price[s]) + call.settings.min_order_value

(* Small is what RestIsOnTarget allows, but for two roundings. *)
LEMMA SmallType ==
  ASSUME IsCall(call), ValidCall, positions_value \in Nat, NEW s \in Universe
  PROVE  /\ UnitOf(call.price[s]) \in Nat /\ call.settings.min_order_value \in Nat
         /\ Small(s) \in Nat /\ Slack(s) = Small(s) + 2
<1>1. call.price[s] \in Nat \ {0}
  BY Amounts
<1>2. call.settings.min_order_value \in Nat
  BY DEF IsCall, Settings
<1>3. UnitOf(call.price[s]) \in Nat
  BY <1>1, DivBelow, ShareAssumption DEF UnitOf
<1> QED
  BY <1>2, <1>3 DEF Small, Slack, UnitOf

(* A sell that is not worth an order leaves little to sell. *)
LEMMA UnsoldIsSmall ==
  ASSUME IsCall(call), ValidCall, positions_value \in Nat, NEW s \in Universe,
         delta(s) < 0, ~Worth(sell_qty(s), s)
  PROVE  Abs(delta(s)) <= Small(s)
<1> DEFINE p == call.price[s]
           a == Abs(delta(s))
           h == call.held[s]
           m == call.settings.min_order_value
<1>1. /\ p \in Nat \ {0} /\ h \in Nat /\ delta(s) \in Int
      /\ current_value(s) \in Nat /\ target_value(s) \in Nat
  BY Amounts
<1>2. a \in Nat /\ a <= current_value(s)
  BY <1>1 DEF Abs, delta
<1>3. /\ UnitOf(p) \in Nat /\ m \in Nat /\ Small(s) = UnitOf(p) + m
  BY SmallType DEF Small
<1>4. current_value(s) = value_of(h, p)
  BY DEF current_value
<1> SUFFICES a <= Small(s)
  OBVIOUS
<1> HIDE DEF a
<1>5. shares(a, p) \in Nat /\ value_of(shares(a, p), p) \in Nat
  <2>1. shares(a, p) \in Nat
    BY <1>1, <1>2, SharesBound
  <2> QED
    BY <1>1, <2>1, ValueType
<1>6. sell_qty(s) = h \/ sell_qty(s) = shares(a, p)
  BY DEF sell_qty, Smaller, a
<1> HIDE DEF p, h, m
<1>7. \/ ~(sell_qty(s) > 0)
      \/ ~(value_of(sell_qty(s), p) >= m)
  BY DEF Worth, p, m
<1>8. CASE sell_qty(s) = h
  <2>1. CASE h = 0
    <3>1. value_of(0, p) = 0
      <4>1. 0 * p = 0 /\ SHARE \in Nat \ {0}
        BY <1>1, ShareAssumption, Z3
      <4>2. money(0, SHARE) <= 0 /\ money(0, SHARE) \in Nat
        BY <4>1, MoneyBound
      <4> QED
        BY <4>1, <4>2 DEF value_of
    <3> QED
      BY <1>1, <1>2, <1>3, <1>4, <2>1, <3>1
  <2>2. CASE h # 0
    <3>1. current_value(s) < m
      BY <1>1, <1>3, <1>4, <1>7, <1>8, <2>2
    <3> QED
      BY <1>1, <1>2, <1>3, <3>1
  <2> QED
    BY <2>1, <2>2
<1>9. CASE sell_qty(s) = shares(a, p)
  <2>1. shares(a, p) = 0 \/ value_of(shares(a, p), p) < m
    BY <1>3, <1>5, <1>7, <1>9
  <2>2. a <= UnitOf(p) + m
    BY <1>1, <1>2, <1>3, <2>1, WorthlessIsSmall
  <2> QED
    BY <1>3, <2>2
<1> QED
  BY <1>6, <1>8, <1>9

(* A buy that was declined is small, or measured against a budget that is. *)
LEMMA UnboughtIsSmall ==
  ASSUME IsCall(call), ValidCall, positions_value \in Nat, remaining \in Nat,
         NEW s \in Universe, delta(s) > 0, Declines(s)
  PROVE  delta(s) <= Small(s) \/ remaining <= Small(s)
<1> DEFINE p == call.price[s]
           a == affordable(s)
           m == call.settings.min_order_value
<1>1. p \in Nat \ {0} /\ delta(s) \in Int
  BY Amounts
<1>2. a \in Nat /\ (a = delta(s) \/ a = remaining)
  BY <1>1 DEF affordable, Smaller
<1>3. UnitOf(p) \in Nat /\ m \in Nat /\ Small(s) = UnitOf(p) + m
  BY SmallType DEF Small
<1> HIDE DEF a
<1>4. shares(a, p) \in Nat /\ value_of(shares(a, p), p) \in Nat
  <2>1. shares(a, p) \in Nat
    BY <1>1, <1>2, SharesBound
  <2> QED
    BY <1>1, <2>1, ValueType
<1>5. a <= Small(s)
  <2>1. CASE a <= 0
    BY <1>2, <1>3, <2>1
  <2>2. CASE ~Worth(buy_qty(s), s)
    <3>1. buy_qty(s) = shares(a, p)
      BY DEF buy_qty, a
    <3>2. shares(a, p) = 0 \/ value_of(shares(a, p), p) < m
      BY <1>3, <1>4, <2>2, <3>1 DEF Worth
    <3>3. a <= UnitOf(p) + m
      BY <1>1, <1>2, <1>3, <3>2, WorthlessIsSmall
    <3> QED
      BY <1>3, <3>3
  <2> QED
    BY <2>1, <2>2 DEF Declines, a
<1> QED
  BY <1>1, <1>2, <1>5

(* The weights of all symbols in question are those of the basket. *)
LEMMA WeightsAreWhole ==
  ASSUME IsCall(call), ValidCall
  PROVE  SumFunctionOnSet([s \in Universe |-> target_bps(s)], Universe) = BPS
<1> DEFINE W == [s \in Universe |-> target_bps(s)]
<1>1. IsFiniteSet(Universe) /\ Basket \subseteq Universe
  <2>1. Universe \subseteq Symbols
    BY DEF Universe, Basket, Held, IsCall
  <2> QED
    BY <2>1, SymbolsAssumption, FS_Subset DEF Universe
<1>2. /\ \A s \in Universe : W[s] \in Int
      /\ \A s \in Universe \ Basket : W[s] = 0
      /\ \A s \in Basket : W[s] = call.targets[s]
  <2>1. \A s \in Universe : target_bps(s) \in Nat
    BY TargetWeight
  <2> QED
    BY <1>1, <2>1 DEF target_bps
<1> HIDE DEF W
<1>3. SumFunctionOnSet(W, Universe) = SumFunctionOnSet(W, Basket)
  BY <1>1, <1>2, SumOfPart
<1>4. SumFunctionOnSet(W, Basket) = SumFunctionOnSet(call.targets, Basket)
  <2>1. IsFiniteSet(Basket)
    BY <1>1, FS_Subset
  <2> QED
    BY <1>2, <2>1, SumsAgree
<1>5. SumFunctionOnSet(call.targets, Basket) = BPS
  BY DEF ValidCall, validate_targets, total_weight, SumFunction, Basket
<1> QED
  BY <1>3, <1>4, <1>5 DEF W

(* What the targets come to, but for rounding: all that is deployed. *)
LEMMA TargetsTotal ==
  ASSUME IsCall(call), ValidCall, positions_value \in Nat
  PROVE  2 * SumFunctionOnSet([s \in Universe |-> target_value(s)], Universe)
           <= 2 * deployable + Cardinality(Universe)
<1> DEFINE T == [s \in Universe |-> target_value(s)]
           W == [s \in Universe |-> target_bps(s)]
           n == Cardinality(Universe)
           total == SumFunctionOnSet(T, Universe)
<1>1. IsFiniteSet(Universe)
  <2>1. Universe \subseteq Symbols
    BY DEF Universe, Basket, Held, IsCall
  <2> QED
    BY <2>1, SymbolsAssumption, FS_Subset
<1>2. n \in Nat
  BY <1>1, FS_CardinalityType
<1>3. deployable \in Nat /\ BPS \in Nat \ {0}
  BY Amounts DEF BPS
<1>4. ASSUME NEW s \in Universe
      PROVE  /\ T[s] \in Int /\ W[s] \in Int
             /\ (2 * BPS) * T[s] <= (2 * deployable) * W[s] + BPS
  <2>1. target_value(s) \in Nat /\ target_bps(s) \in Nat
    BY Amounts, TargetWeight
  <2> DEFINE w == target_bps(s)
             d == deployable
  <2>2. w \in Nat /\ d \in Nat
    BY <1>3, <2>1
  <2>3. T[s] = money(d * w, BPS) /\ W[s] = w
    BY DEF target_value, apply_bps
  <2> HIDE DEF w, d
  <2>4. d * w \in Nat
    BY <2>2, Z3
  <2>5. (2 * BPS) * money(d * w, BPS) <= 2 * (d * w) + BPS
    BY <1>3, <2>4, HalfUpIsNear DEF money
  <2>6. 2 * (d * w) = (2 * d) * w
    BY <2>2, Z3
  <2>7. (2 * BPS) * T[s] <= (2 * d) * W[s] + BPS
    BY <2>3, <2>5, <2>6
  <2> QED
    BY <2>1, <2>7 DEF d
<1> HIDE DEF T, W
<1>5. 2 * BPS \in Int /\ 2 * deployable \in Int /\ BPS \in Int
  BY <1>3
<1>6. (2 * BPS) * total <= (2 * deployable) * SumFunctionOnSet(W, Universe) + BPS * n
  BY <1>1, <1>4, <1>5, SumIsBounded
<1>7. SumFunctionOnSet(W, Universe) = BPS
  BY WeightsAreWhole DEF W
<1>8. total \in Int
  BY <1>1, <1>4, SumIsInt
<1> HIDE DEF total, n
<1> DEFINE d == deployable
<1>9. (2 * BPS) * total <= (2 * d) * BPS + BPS * n /\ d \in Nat
  BY <1>3, <1>6, <1>7
<1> HIDE DEF d
<1>10. 2 * total <= 2 * d + n
  <2>1. (2 * total) * BPS <= (2 * d + n) * BPS
    BY <1>2, <1>8, <1>9, SMT DEF BPS
  <2> QED
    BY <1>2, <1>8, <1>9, <2>1, SMT DEF BPS
<1> QED
  BY <1>10 DEF total, n, d, T

(* What the positions come to, but for rounding. *)
LEMMA PositionsTotal ==
  ASSUME IsCall(call), ValidCall, positions_value = SumFunctionOnSet(Gross, Held),
         positions_value \in Nat
  PROVE  2 * positions_value <=
           (2 * SHARE) * SumFunctionOnSet([s \in Universe |-> current_value(s)], Universe)
             + SHARE * Cardinality(Universe)
<1> DEFINE C == [s \in Universe |-> current_value(s)]
           n == Cardinality(Universe)
           total == SumFunctionOnSet(C, Universe)
<1>1. IsFiniteSet(Universe) /\ Held \subseteq Universe /\ Universe \subseteq Symbols
  <2>1. Universe \subseteq Symbols
    BY DEF Universe, Basket, Held, IsCall
  <2> QED
    BY <2>1, SymbolsAssumption, FS_Subset DEF Universe
<1>2. SHARE \in Nat \ {0}
  BY ShareAssumption
<1>3. ASSUME NEW s \in Universe
      PROVE  /\ C[s] \in Int /\ Gross[s] \in Int
             /\ 2 * Gross[s] <= (2 * SHARE) * C[s] + SHARE
             /\ s \notin Held => Gross[s] = 0
  <2>1. /\ call.price[s] \in Nat \ {0} /\ call.held[s] \in Nat
        /\ current_value(s) \in Nat
    BY Amounts
  <2> DEFINE g == call.held[s] * call.price[s]
             c == C[s]
  <2>2. g \in Nat /\ Gross[s] = g
    <3>1. g \in Nat
      BY <2>1, Z3
    <3> QED
      BY <1>1, <3>1, GrossType
  <2>3. c = money(g, SHARE)
    BY DEF current_value, value_of
  <2>4. s \notin Held => g = 0
    <3>1. s \notin Held => call.held[s] = 0
      BY <1>1, <2>1 DEF Held
    <3> QED
      BY <2>1, <3>1
  <2> HIDE DEF g
  <2>5. (2 * SHARE) * c > 2 * g - SHARE
    BY <1>2, <2>2, <2>3, HalfUpIsNear DEF money
  <2>6. c \in Int
    BY <2>1
  <2> HIDE DEF c
  <2>7. (2 * SHARE) * c \in Int
    BY <1>2, <2>6, Z3
  <2>8. 2 * g <= (2 * SHARE) * c + SHARE
    BY <1>2, <2>2, <2>5, <2>7
  <2> QED
    BY <2>2, <2>4, <2>6, <2>8 DEF c
<1> HIDE DEF C
<1>4. SumFunctionOnSet(Gross, Universe) = SumFunctionOnSet(Gross, Held)
  BY <1>1, <1>3, SumOfPart
<1> DEFINE two == 2
<1>5. two \in Int /\ 2 * SHARE \in Int /\ SHARE \in Int
  BY <1>2
<1>6. two * SumFunctionOnSet(Gross, Universe) <= (2 * SHARE) * total + SHARE * n
  <2>1. \A s \in Universe : two * Gross[s] <= (2 * SHARE) * C[s] + SHARE
    BY <1>3
  <2> HIDE DEF two
  <2> QED
    BY <1>1, <1>3, <1>5, <2>1, SumIsBounded
<1> QED
  BY <1>4, <1>6 DEF C

(* Halves rounded up twice add at most one. *)
LEMMA DeployedAndReserved ==
  ASSUME IsCall(call), ValidCall, positions_value \in Nat
  PROVE  deployable + reserved <= investable + 1
<1> DEFINE i == investable
           b == call.settings.cash_buffer_bps
<1>1. i \in Nat /\ deployable \in Nat /\ reserved \in Nat
  BY Amounts
<1>2. b \in Nat /\ BPS - b \in Nat /\ BPS \in Nat \ {0}
  <2>1. b \in 0..BPS
    BY DEF IsCall, Settings
  <2> HIDE DEF b
  <2> QED
    BY <2>1 DEF BPS
<1>3. deployable = money(i * (BPS - b), BPS) /\ reserved = money(i * b, BPS)
  BY DEF deployable, less_buffer, reserved, apply_bps
<1> HIDE DEF i, b
<1> DEFINE x == i * (BPS - b)
           y == i * b
           d == deployable
           r == reserved
<1>4. x \in Nat /\ y \in Nat /\ x + y = i * BPS
  BY <1>1, <1>2, Z3
<1>5. d \in Nat /\ r \in Nat /\ d = money(x, BPS) /\ r = money(y, BPS)
  BY <1>1, <1>3
<1> HIDE DEF x, y, d, r
<1>6. (2 * BPS) * d <= 2 * x + BPS /\ (2 * BPS) * r <= 2 * y + BPS
  BY <1>2, <1>4, <1>5, HalfUpIsNear DEF money
<1>7. d + r <= i + 1
  BY <1>1, <1>4, <1>5, <1>6, SMT DEF BPS
<1> QED
  BY <1>7 DEF d, r, i

(* What is managed is no more than what there is. *)
LEMMA InvestableBound ==
  ASSUME IsCall(call), ValidCall, positions_value \in Nat
  PROVE  (2 * SHARE) * investable <= (2 * SHARE) * call.cash + 2 * positions_value + SHARE
<1> DEFINE S == SHARE
           c == call.cash
           v == portfolio_value
           i == investable
           x == c * S + positions_value
<1>1. S \in Nat \ {0} /\ c \in Nat /\ v \in Nat /\ i \in Nat
  BY Amounts, ShareAssumption DEF IsCall, ValidCall
<1>2. i <= v
  BY <1>1 DEF investable, Smaller, IsCall, Settings
<1>3. v = money(x, S)
  BY DEF portfolio_value
<1> HIDE DEF S, c, v, i
<1>4. c * S \in Nat /\ x \in Nat
  <2>1. c * S \in Nat
    BY <1>1, Z3
  <2> QED
    BY <2>1
<1>5. (2 * S) * v <= 2 * x + S
  BY <1>1, <1>3, <1>4, HalfUpIsNear DEF money
<1>6. (2 * S) * i <= (2 * S) * v /\ (2 * S) * i \in Nat /\ (2 * S) * v \in Nat
  BY <1>1, <1>2, Z3
<1>7. 2 * x = (2 * S) * c + 2 * positions_value
  <2>1. (2 * S) * c = 2 * (c * S)
    BY <1>1, Z3
  <2> QED
    BY <1>4, <2>1
<1>8. (2 * S) * c \in Nat
  BY <1>1, Z3
<1> HIDE DEF x
<1>9. (2 * S) * i <= (2 * S) * c + 2 * positions_value + S
  BY <1>1, <1>4, <1>5, <1>6, <1>7, <1>8
<1> QED
  BY <1>9 DEF S, c, i

(* All that is missing somewhere is there in cash, is too much elsewhere, or *)
(* is rounding.                                                              *)
LEMMA MissingIsBounded ==
  ASSUME IsCall(call), ValidCall, positions_value = SumFunctionOnSet(Gross, Held),
         positions_value \in Nat
  PROVE  SumFunctionOnSet([s \in Universe |-> delta(s)], Universe)
           <= call.cash - reserved + Cardinality(Universe) + 1
<1> DEFINE D == [s \in Universe |-> delta(s)]
           C == [s \in Universe |-> current_value(s)]
           T == [s \in Universe |-> target_value(s)]
           S == SHARE
           sd == SumFunctionOnSet(D, Universe)
           sc == SumFunctionOnSet(C, Universe)
           st == SumFunctionOnSet(T, Universe)
           n == Cardinality(Universe)
           c == call.cash
           r == reserved
           pv == positions_value
           d == deployable
           i == investable
<1>1. IsFiniteSet(Universe)
  <2>1. Universe \subseteq Symbols
    BY DEF Universe, Basket, Held, IsCall
  <2> QED
    BY <2>1, SymbolsAssumption, FS_Subset
<1>2. /\ n \in Nat /\ S \in Nat \ {0} /\ c \in Nat /\ r \in Nat /\ pv \in Nat
      /\ d \in Nat /\ i \in Nat
  BY <1>1, FS_CardinalityType, ShareAssumption, Amounts DEF IsCall, ValidCall
<1>3. \A s \in Universe : /\ D[s] \in Int /\ C[s] \in Int /\ T[s] \in Int
                          /\ T[s] = D[s] + C[s]
  <2> SUFFICES ASSUME NEW s \in Universe
               PROVE  /\ delta(s) \in Int /\ current_value(s) \in Int
                      /\ target_value(s) \in Int
                      /\ target_value(s) = delta(s) + current_value(s)
    OBVIOUS
  <2>1. delta(s) \in Int /\ current_value(s) \in Nat /\ target_value(s) \in Nat
    BY Amounts
  <2> QED
    BY <2>1 DEF delta
<1>4. 2 * st <= 2 * d + n
  BY TargetsTotal
<1>5. 2 * pv <= (2 * S) * sc + S * n
  BY PositionsTotal
<1>6. d + r <= i + 1
  BY DeployedAndReserved
<1>7. (2 * S) * i <= (2 * S) * c + 2 * pv + S
  BY InvestableBound
<1> HIDE DEF D, C, T
<1>8. sd \in Int /\ sc \in Int /\ st = sd + sc
  BY <1>1, <1>3, SumOfPairs, SumIsInt
<1> SUFFICES sd <= c - r + n + 1
  BY DEF D
<1> HIDE DEF S, sd, sc, st, n, c, r, pv, d, i
<1>9. 2 * sd + 2 * sc <= 2 * i + 2 - 2 * r + n
  BY <1>2, <1>4, <1>6, <1>8
<1> DEFINE two == 2 * S
<1>10. /\ two * sc \in Int /\ two * i \in Int /\ two * c \in Int /\ S * n \in Int
       /\ two \in Int
  BY <1>2, <1>8, Z3
<1>11. (2 * sd - 2 * c + 2 * r - 2 * n) * S <= 3 * S
  <2> DEFINE m == 2 * sd + 2 * sc
             k == 2 * i + 2 - 2 * r + n
  <2>1. m \in Int /\ k \in Int /\ m <= k
    BY <1>2, <1>8, <1>9
  <2>2. m * S <= k * S /\ m * S \in Int /\ k * S \in Int
    <3> HIDE DEF m, k
    <3> QED
      BY <1>2, <2>1, Z3
  <2> DEFINE sdS == sd * S
             scS == sc * S
             iS == i * S
             rS == r * S
             nS == n * S
             cS == c * S
  <2>3. /\ sdS \in Int /\ scS \in Int /\ iS \in Int /\ rS \in Int /\ nS \in Int /\ cS \in Int
    BY <1>2, <1>8, Z3
  <2>4. /\ m * S = 2 * sdS + 2 * scS
        /\ k * S = 2 * iS + 2 * S - 2 * rS + nS
        /\ two * sc = 2 * scS /\ two * i = 2 * iS /\ two * c = 2 * cS /\ S * n = nS
        /\ (2 * sd - 2 * c + 2 * r - 2 * n) * S = 2 * sdS - 2 * cS + 2 * rS - 2 * nS
    BY <1>2, <1>8, Z3
  <2>5. 2 * iS <= 2 * cS + 2 * pv + S /\ 2 * pv <= 2 * scS + nS
    BY <1>5, <1>7, <2>4
  <2>6. 2 * sdS + 2 * scS <= 2 * iS + 2 * S - 2 * rS + nS
    BY <2>2, <2>4
  <2> HIDE DEF m, k, sdS, scS, iS, rS, nS, cS
  <2>7. 2 * sdS - 2 * cS + 2 * rS - 2 * nS <= 3 * S
    BY <1>2, <2>3, <2>5, <2>6
  <2> QED
    BY <2>4, <2>7
<1>12. 2 * sd - 2 * c + 2 * r - 2 * n < 4
  <2> DEFINE x == 2 * sd - 2 * c + 2 * r - 2 * n
  <2>1. x \in Int
    BY <1>2, <1>8
  <2> HIDE DEF x
  <2>2. x * S <= 3 * S
    BY <1>11 DEF x
  <2>3. x * S \in Int /\ 4 * S \in Int /\ 3 * S < 4 * S /\ 3 * S \in Int
    BY <1>2, <2>1, Z3
  <2>4. x * S < 4 * S
    BY <2>2, <2>3
  <2>5. x < 4
    BY <1>2, <2>1, <2>4, Cancelled
  <2> QED
    BY <2>5 DEF x
<1> QED
  BY <1>2, <1>8, <1>12

(* The loop makes each plan from the beginning.                             *)
LEMMA RestInductive == LoopSpec => []RestInv
<1>1. Beginning => RestInv
  BY DEF Beginning, RestInv, ValuedInv, IdleInv
<1>2. PlannerInv /\ RestInv /\ [Next]_vars => RestInv'
  BY ValuedStep, IdleStep DEF PlannerInv, PlanInv, RestInv
<1>3. PlannerInv /\ AccountInv /\ RestInv /\ [LoopNext]_allVars => RestInv'
  <2> SUFFICES ASSUME PlannerInv, AccountInv, RestInv, [LoopNext]_allVars
               PROVE  RestInv'
    OBVIOUS
  <2>1. CASE Plan
    BY <1>2, <2>1 DEF Plan
  <2>2. CASE Place \/ UNCHANGED allVars
    <3>1. UNCHANGED vars
      BY <2>2 DEF Place, allVars
    <3> QED
      BY <1>2, <3>1
  <2>3. CASE PlanAgain
    <3>1. Beginning'
      BY <2>3, AgainBegins DEF PlannerInv
    <3>2. Beginning' => RestInv'
      BY DEF Beginning, RestInv, ValuedInv, IdleInv
    <3> QED
      BY <3>1, <3>2
  <2> QED
    BY <2>1, <2>2, <2>3 DEF LoopNext
<1>4. LoopInit => Beginning
  BY InitBegins DEF LoopInit
<1> QED
  BY <1>1, <1>3, <1>4, LoopInductive, PTL DEF LoopSpec

(* A bot at rest is on target, give or take what is too small to trade: its *)
(* budget would have bought whatever is missing (build_plan measures the    *)
(* weights against what is left after the buffer, rebalance.py:139).        *)
THEOREM RestsOnTarget == LoopSpec => []RestIsOnTarget
<1>1. PlannerInv /\ AccountInv /\ RestInv => RestIsOnTarget
  <2> SUFFICES ASSUME PlannerInv, AccountInv, RestInv, Settled,
                      call.settings.max_orders > 0, NEW s \in Universe
               PROVE  Abs(delta(s)) <= SumFunction([t \in Universe |-> Slack(t)])
    BY DEF RestIsOnTarget
  <2>1. /\ pc = "done" /\ orders = <<>>
        /\ IInv /\ ValidCall /\ IsCall(call)
        /\ positions_value \in Nat /\ positions_value = SumFunctionOnSet(Gross, Held)
        /\ remaining \in Nat /\ remaining = budget /\ proceeds \in Nat
        /\ \A k \in skipped : k.side = "buy" => Declines(k.symbol)
    BY DEF Settled, AllPlaced, Done, PlannerInv, IInv, TypeOK, LoopInv, RestInv,
           ValuedInv, IdleInv
  <2> DEFINE D == [t \in Universe |-> delta(t)]
             L == [t \in Universe |-> Small(t)]
             K == [t \in Universe |-> Slack(t)]
             twos == [t \in Universe |-> 2]
             less == [t \in Universe |-> 0 - delta(t)]
             n == Cardinality(Universe)
             others == Universe \ {s}
  <2>2. IsFiniteSet(Universe) /\ Universe \subseteq Symbols
    <3>1. Universe \subseteq Symbols
      BY <2>1 DEF Universe, Basket, Held, IsCall
    <3> QED
      BY <3>1, SymbolsAssumption, FS_Subset
  <2>3. n \in Nat \ {0}
    BY <2>2, FS_CardinalityType, FS_EmptySet
  <2>4. \A t \in Universe : /\ Small(t) \in Nat /\ Slack(t) = Small(t) + 2
                            /\ delta(t) \in Int
    BY <2>1, SmallType, Amounts
  (* Nothing was ordered, so every symbol off its target has its reason.    *)
  <2>5. ASSUME NEW t \in Universe, delta(t) # 0
        PROVE  /\ delta(t) < 0 => 0 - delta(t) <= Small(t)
               /\ delta(t) > 0 => delta(t) <= Small(t) \/ remaining <= Small(t)
    <3>1. Passed(t) /\ t \in Symbols
      BY <2>1, <2>2, <2>4, <2>5 DEF Passed
    <3>2. Ordered(t) \/ Declined(t)
      BY <3>1 DEF PlannerInv, PlanInv, AnsweredInv
    <3>3. PICK k \in skipped : k.symbol = t
      BY <2>1, <3>2 DEF Ordered, Declined, WhyNot
    <3>4. /\ k.side \in {"sell", "buy"} /\ k.why # "capped"
          /\ k.side = "sell" => delta(t) < 0 /\ ~Worth(sell_qty(t), t)
          /\ k.side = "buy" => delta(t) > 0 /\ Declines(t)
      <4>1. k \in Skip
        BY <2>1 DEF IInv, TypeOK
      <4>2. k.side \in {"sell", "buy"}
        BY <4>1 DEF Skip, Sides
      <4>3. k.why # "capped"
        BY <2>1 DEF PlannerInv, ReasonInv
      <4> QED
        BY <2>1, <3>3, <4>2, <4>3 DEF PlannerInv, ReasonInv
    <3>5. CASE k.side = "sell"
      <4>1. Abs(delta(t)) <= Small(t)
        BY <2>1, <3>4, <3>5, UnsoldIsSmall
      <4> QED
        BY <2>4, <3>4, <3>5, <4>1 DEF Abs
    <3>6. CASE k.side = "buy"
      <4>1. delta(t) <= Small(t) \/ remaining <= Small(t)
        BY <2>1, <3>4, <3>6, UnboughtIsSmall
      <4> QED
        BY <2>4, <3>4, <3>6, <4>1
    <3> QED
      BY <3>4, <3>5, <3>6
  <2>6. \A t \in Universe : 0 - delta(t) <= Small(t)
    BY <2>4, <2>5
  <2>7. /\ SumFunctionOnSet(K, Universe) \in Nat
        /\ SumFunctionOnSet(K, Universe) = SumFunctionOnSet(L, Universe) + 2 * n
        /\ K[s] <= SumFunctionOnSet(K, Universe)
    <3>1. \A t \in Universe : /\ K[t] \in Nat /\ L[t] \in Int /\ twos[t] \in Int
                              /\ twos[t] = 2 /\ K[t] = L[t] + twos[t]
      BY <2>4
    <3> HIDE DEF K, L, twos
    <3>2. SumFunctionOnSet(K, Universe) \in Nat /\ K[s] <= SumFunctionOnSet(K, Universe)
      BY <2>2, <3>1, SumIsNat
    <3>3. SumFunctionOnSet(K, Universe)
            = SumFunctionOnSet(L, Universe) + SumFunctionOnSet(twos, Universe)
      BY <2>2, <3>1, SumOfPairs
    <3>4. SumFunctionOnSet(twos, Universe) = 2 * n
      BY <2>2, <3>1, SumOfSame
    <3> QED
      BY <3>2, <3>3, <3>4
  <2>8. K[s] = Small(s) + 2 /\ SumFunction(K) = SumFunctionOnSet(K, Universe)
    BY <2>4 DEF SumFunction
  <2>9. SUFFICES ASSUME delta(s) > Small(s)
                 PROVE  delta(s) <= SumFunctionOnSet(K, Universe)
    <3> HIDE DEF K, L, n
    <3> QED
      BY <2>4, <2>6, <2>7, <2>8 DEF Abs, K
  <2>10. remaining <= Small(s) /\ call.cash - reserved <= remaining
    <3>1. remaining <= Small(s)
      BY <2>4, <2>5, <2>9
    <3>2. call.cash \in Int /\ reserved \in Nat
      BY <2>1, Amounts DEF IsCall
    <3> QED
      BY <2>1, <3>1, <3>2 DEF budget
  <2>11. SumFunctionOnSet(D, Universe) <= call.cash - reserved + n + 1
    BY <2>1, MissingIsBounded
  <2>12. /\ SumFunctionOnSet(D, Universe) = delta(s) + SumFunctionOnSet(D, others)
         /\ SumFunctionOnSet(L, Universe) = Small(s) + SumFunctionOnSet(L, others)
         /\ 0 - SumFunctionOnSet(D, others) <= SumFunctionOnSet(L, others)
         /\ SumFunctionOnSet(D, others) \in Int /\ SumFunctionOnSet(L, others) \in Int
    <3> DEFINE minus == 0 - 1
               one == 1
               zero == 0
    <3>1. \A t \in Universe : /\ D[t] \in Int /\ L[t] \in Int
                              /\ minus * D[t] <= one * L[t] + zero
      BY <2>4, <2>6
    <3>2. D[s] = delta(s) /\ L[s] = Small(s)
      OBVIOUS
    <3> HIDE DEF D, L
    <3>3. /\ SumFunctionOnSet(D, Universe) = D[s] + SumFunctionOnSet(D, others)
          /\ SumFunctionOnSet(L, Universe) = L[s] + SumFunctionOnSet(L, others)
      BY <2>2, <3>1, SumTakesOut
    <3>4. SumFunctionOnSet(D, others) \in Int /\ SumFunctionOnSet(L, others) \in Int
      BY <2>2, <3>1, SumIsInt
    <3>5. IsFiniteSet(others) /\ Cardinality(others) \in Nat
      BY <2>2, FS_Subset, FS_CardinalityType
    <3>6. minus \in Int /\ one \in Int /\ zero \in Int
      OBVIOUS
    <3>7. minus * SumFunctionOnSet(D, others)
            <= one * SumFunctionOnSet(L, others) + zero * Cardinality(others)
      <4> HIDE DEF minus, one, zero, others
      <4>1. others \subseteq Universe
        BY DEF others
      <4> QED
        BY <3>1, <3>5, <3>6, <4>1, SumIsBounded
    <3>8. 0 - SumFunctionOnSet(D, others) <= SumFunctionOnSet(L, others)
      <4> HIDE DEF others
      <4> QED
        BY <3>4, <3>5, <3>7
    <3> QED
      BY <3>2, <3>3, <3>4, <3>8
  <2>13. call.cash \in Int /\ reserved \in Nat
    BY <2>1, Amounts DEF IsCall
  <2> DEFINE sumD == SumFunctionOnSet(D, Universe)
             sumL == SumFunctionOnSet(L, Universe)
             sumK == SumFunctionOnSet(K, Universe)
             restD == SumFunctionOnSet(D, others)
             restL == SumFunctionOnSet(L, others)
  <2>14. /\ sumK = sumL + 2 * n /\ sumD = delta(s) + restD /\ sumL = Small(s) + restL
         /\ sumD <= call.cash - reserved + n + 1
         /\ 0 - restD <= restL /\ restD \in Int /\ restL \in Int
    BY <2>7, <2>11, <2>12
  <2>15. s \in Universe /\ n \in Nat /\ n >= 1
    BY <2>1, <2>3
  <2> DEFINE d == delta(s)
             m == Small(s)
             c == call.cash
             r == reserved
  <2>16. /\ d \in Int /\ m \in Nat /\ c \in Int /\ r \in Nat
         /\ c - r <= m
    <3>1. d \in Int /\ m \in Nat /\ remaining \in Int
      BY <2>1, <2>4, <2>15
    <3> QED
      BY <3>1, <2>10, <2>13
  <2>17. /\ sumK = sumL + 2 * n /\ sumD = d + restD /\ sumL = m + restL
         /\ sumD <= c - r + n + 1
         /\ 0 - restD <= restL /\ restD \in Int /\ restL \in Int
    BY <2>14
  <2> SUFFICES d <= sumK
    OBVIOUS
  <2> HIDE DEF n, sumD, sumL, sumK, restD, restL, d, m, c, r
  <2> QED
    BY <2>15, <2>16, <2>17
<1> QED
  BY <1>1, RestInductive, LoopInductive, PTL

-----------------------------------------------------------------------------
(* Carrying a plan out.  What the account comes to after each order is a    *)
(* function f of the orders placed: it is built up as the loops plan, one   *)
(* order at a time, and followed as the broker fills them.                  *)

Brings(o) == IF o.side = "sell" THEN o.value ELSE 0 - o.value

(* How many orders of the plan in the making the cap will leave. *)
Surviving == Smaller(Len(orders), call.settings.max_orders)

(* From the first buy on the cash only falls; what the orders that survive  *)
(* the cap come to is the projection.                                       *)
Follows(f) ==
  /\ f \in [0..Len(orders) -> Int] /\ f[0] = call.cash
  /\ \A i \in 1..Len(orders) : f[i] = f[i - 1] + Brings(orders[i])
  /\ \A i, j \in 0..Len(orders) :
       i < j /\ orders[i + 1].side = "buy" => f[j] <= f[i]
  /\ f[Surviving] = call.cash + raised - spent

(* An order is what it says it is worth, and a sell is of what is held.     *)
PricedInv ==
  \A i \in DOMAIN orders :
    /\ orders[i].value = value_of(orders[i].quantity, call.price[orders[i].symbol])
    /\ orders[i].side = "sell" => orders[i].quantity <= call.held[orders[i].symbol]

(* The broker has turned nothing down, is where the plan is, and holds what *)
(* the plan saw of every symbol it has not come to.                         *)
CarriedInv ==
  /\ rejected = 0 /\ placed <= Len(orders)
  /\ \E f : Follows(f) /\ cash = f[placed]
  /\ \A i \in DOMAIN orders :
       i > placed => held[orders[i].symbol] = call.held[orders[i].symbol]

PlacingInv == PricedInv /\ CarriedInv

(* What an order brings moves the cash as it moves what was raised or spent. *)
LEMMA CarriedOver ==
  ASSUME NEW c \in Int, NEW r \in Int, NEW s \in Int, NEW b \in Int,
         NEW u \in Int, NEW v \in Int, u - v = r - s + b
  PROVE  (c + r - s) + b = c + u - v
OBVIOUS

(* Planning an order appends what it brings to f. *)
LEMMA AppendFollows ==
  ASSUME IInv, SortedInv, NEW f, Follows(f), NEW o \in Order,
         orders' = Append(orders, o), call' = call,
         o.side = "sell" => \A i \in DOMAIN orders : orders[i].side = "sell",
         raised' \in Int, spent' \in Int,
         \/ Kept /\ raised' - spent' = raised - spent + Brings(o)
         \/ ~Kept /\ raised' = raised /\ spent' = spent
  PROVE  \E g : Follows(g)' /\ g[0] = f[0]
<1> DEFINE n == Len(orders)
           max == call.settings.max_orders
<1>1. n \in Nat /\ max \in Nat /\ DOMAIN orders = 1..n /\ orders \in Seq(Order)
      /\ raised \in Nat /\ spent \in Nat /\ call.cash \in Int
  BY DEF IInv, TypeOK, IsCall, Settings
<1>2. /\ Len(orders') = n + 1
      /\ \A i \in 1..n : orders'[i] = orders[i]
      /\ orders'[n + 1] = o
  BY <1>1, AppendOrder
<1>3. o.value \in Nat /\ o.side \in {"sell", "buy"}
  BY DEF Order, Sides
<1>4. Brings(o) \in Int /\ (o.side = "buy" => Brings(o) <= 0)
  BY <1>3 DEF Brings
<1>5. /\ f \in [0..n -> Int] /\ f[0] = call.cash
      /\ \A i \in 1..n : f[i] = f[i - 1] + Brings(orders[i])
      /\ \A i, j \in 0..n : i < j /\ orders[i + 1].side = "buy" => f[j] <= f[i]
      /\ f[Surviving] = call.cash + raised - spent
  BY DEF Follows
<1> HIDE DEF n
<1>g. PICK g : g = [i \in 0..(n + 1) |-> IF i = n + 1 THEN f[n] + Brings(o) ELSE f[i]]
  OBVIOUS
<1>6. g \in [0..(n + 1) -> Int]
  BY <1>g, <1>1, <1>4, <1>5
<1>7. /\ \A i \in 0..n : g[i] = f[i]
      /\ g[n + 1] = f[n] + Brings(o)
      /\ f[n] \in Int
  BY <1>g, <1>1, <1>5
<1>8. ASSUME NEW i \in 1..(n + 1) PROVE g[i] = g[i - 1] + Brings(orders'[i])
  <2>1. CASE i = n + 1
    BY <1>1, <1>2, <1>7, <2>1
  <2>2. CASE i # n + 1
    <3>1. i \in 1..n /\ i \in 0..n /\ i - 1 \in 0..n
      BY <1>1, <2>2
    <3> QED
      BY <1>2, <1>5, <1>7, <3>1
  <2> QED
    BY <2>1, <2>2
<1>9. ASSUME NEW i \in 0..(n + 1), NEW j \in 0..(n + 1), i < j,
             orders'[i + 1].side = "buy"
      PROVE  g[j] <= g[i]
  <2>1. CASE j <= n
    <3>1. i \in 0..n /\ j \in 0..n /\ i + 1 \in 1..n
      BY <1>1, <1>9, <2>1
    <3>2. orders[i + 1].side = "buy"
      BY <1>2, <1>9, <3>1
    <3> QED
      BY <1>5, <1>7, <1>9, <3>1, <3>2
  <2>2. CASE j = n + 1
    <3>1. CASE i = n
      BY <1>1, <1>2, <1>4, <1>7, <1>9, <2>2, <3>1
    <3>2. CASE i < n
      <4>1. orders[i + 1].side = "buy" /\ i + 1 \in DOMAIN orders
        BY <1>1, <1>2, <1>9, <3>2
      <4>2. o.side = "buy"
        BY <1>3, <4>1
      <4>3. f[n] <= f[i] /\ f[i] \in Int
        BY <1>1, <1>5, <3>2, <4>1
      <4>4. g[j] = f[n] + Brings(o)
        BY <1>7, <2>2
      <4>5. i \in 0..n
        BY <1>1, <3>2
      <4>6. g[i] = f[i]
        BY <1>7, <4>5
      <4>7. Brings(o) <= 0
        BY <1>4, <4>2
      <4> QED
        BY <1>4, <1>7, <4>3, <4>4, <4>6, <4>7
    <3> QED
      BY <1>1, <1>9, <2>2, <3>1, <3>2
  <2> QED
    BY <1>1, <2>1, <2>2
<1>10. g[Surviving'] = call.cash + raised' - spent'
  <2>1. Surviving = Smaller(n, max) /\ Surviving' = Smaller(n + 1, max)
    BY <1>2 DEF Surviving, n
  <2>2. Kept <=> n < max
    BY DEF Kept, n
  <2>3. CASE Kept
    <3>1. Surviving = n /\ Surviving' = n + 1
      <4>1. n < max
        BY <2>2, <2>3
      <4> QED
        BY <1>1, <2>1, <4>1 DEF Smaller
    <3>2. g[Surviving'] = f[n] + Brings(o) /\ f[n] = call.cash + raised - spent
      BY <1>5, <1>7, <3>1
    <3>3. raised' - spent' = raised - spent + Brings(o)
      BY <2>3
    <3>4. raised \in Int /\ spent \in Int
      BY <1>1
    <3> QED
      BY <1>1, <1>4, <3>2, <3>3, <3>4, CarriedOver
  <2>4. CASE ~Kept
    <3>1. Surviving = max /\ Surviving' = max /\ max \in 0..n
      BY <1>1, <2>1, <2>2, <2>4 DEF Smaller
    <3>2. g[max] = f[max]
      BY <1>7, <3>1
    <3> QED
      BY <1>5, <2>4, <3>1, <3>2
  <2> QED
    BY <2>3, <2>4
<1>11. Follows(g)'
  <2>1. g[0] = call.cash /\ Len(orders') = n + 1
    BY <1>1, <1>2, <1>5, <1>7
  <2> QED
    BY <1>6, <1>8, <1>9, <1>10, <2>1 DEF Follows
<1>12. g[0] = f[0]
  BY <1>1, <1>7
<1> QED
  BY <1>11, <1>12

LEMMA FollowsStands ==
  ASSUME UNCHANGED <<orders, call, raised, spent>>, NEW f, Follows(f)
  PROVE  Follows(f)'
BY DEF Follows, Surviving

LEMMA PlanSellFollows ==
  ASSUME IInv, SortedInv, NEW s \in Symbols, PlanSell(s), NEW f, Follows(f)
  PROVE  (\E g : Follows(g)') /\ (PricedInv => PricedInv')
<1> DEFINE v == value_of(sell_qty(s), call.price[s])
           o == [symbol |-> s, side |-> "sell", quantity |-> sell_qty(s), value |-> v]
<1>1. /\ orders' = Append(orders, o) /\ call' = call /\ spent' = spent
      /\ raised' = raised + (IF Kept THEN v ELSE 0)
      /\ pc = "sells" /\ s \in Universe /\ delta(s) < 0 /\ ValidCall
      /\ \A i \in DOMAIN orders : orders[i].side = "sell"
  BY DEF PlanSell, NextSell, IInv, LoopInv, SellsInv
<1>2. sell_qty(s) \in Nat /\ v \in Nat /\ sell_qty(s) <= call.held[s]
  <2>1. sell_qty(s) \in 0..call.held[s] /\ v \in Nat
    BY <1>1, SellBound DEF IInv, TypeOK
  <2>2. call.held[s] \in Int
    BY DEF IInv, TypeOK, IsCall
  <2> QED
    BY <2>1, <2>2
<1>3. raised \in Nat /\ spent \in Nat
  BY DEF IInv, TypeOK
<1>4. o \in Order
  BY <1>2 DEF Order, Sides
<1>5. Brings(o) = v /\ o.symbol = s /\ o.quantity = sell_qty(s) /\ o.value = v
  BY DEF Brings
<1>6. /\ raised' \in Int /\ spent' \in Int
      /\ \/ Kept /\ raised' - spent' = raised - spent + v
         \/ ~Kept /\ raised' = raised /\ spent' = spent
  <2> HIDE DEF v
  <2> QED
    BY <1>1, <1>2, <1>3
<1>7. /\ DOMAIN orders' = DOMAIN orders \cup {Len(orders) + 1}
      /\ \A i \in DOMAIN orders : orders'[i] = orders[i]
      /\ orders'[Len(orders) + 1] = o
  BY <1>1, <1>4, AppendOrder DEF IInv, TypeOK
<1>8. PricedInv => PricedInv'
  <2>1. o.value = value_of(o.quantity, call.price[o.symbol])
        /\ o.quantity <= call.held[o.symbol]
    BY <1>2, <1>5
  <2> HIDE DEF o
  <2> QED
    BY <1>1, <1>7, <2>1 DEF PricedInv
<1> HIDE DEF o, v
<1> QED
  BY <1>1, <1>4, <1>5, <1>6, <1>8, AppendFollows

LEMMA PlanBuyFollows ==
  ASSUME IInv, SortedInv, NEW s \in Symbols, PlanBuy(s), NEW f, Follows(f)
  PROVE  (\E g : Follows(g)') /\ (PricedInv => PricedInv')
<1> DEFINE v == value_of(buy_qty(s), call.price[s])
           o == [symbol |-> s, side |-> "buy", quantity |-> buy_qty(s), value |-> v]
<1>1. /\ orders' = Append(orders, o) /\ call' = call /\ raised' = raised
      /\ spent' = spent + (IF Kept THEN v ELSE 0)
      /\ pc = "buys" /\ s \in Universe /\ delta(s) > 0 /\ ValidCall
  BY DEF PlanBuy, NextBuy, IInv, LoopInv
<1>2. buy_qty(s) \in Nat /\ v \in Nat
  BY <1>1, BuyBound DEF IInv, TypeOK
<1>3. raised \in Nat /\ spent \in Nat
  BY DEF IInv, TypeOK
<1>4. o \in Order
  BY <1>2 DEF Order, Sides
<1>5. /\ Brings(o) = 0 - v /\ o.symbol = s /\ o.quantity = buy_qty(s)
      /\ o.value = v /\ o.side # "sell"
  BY DEF Brings
<1>6. /\ raised' \in Int /\ spent' \in Int
      /\ \/ Kept /\ raised' - spent' = raised - spent + (0 - v)
         \/ ~Kept /\ raised' = raised /\ spent' = spent
  <2> HIDE DEF v
  <2> QED
    BY <1>1, <1>2, <1>3
<1>7. /\ DOMAIN orders' = DOMAIN orders \cup {Len(orders) + 1}
      /\ \A i \in DOMAIN orders : orders'[i] = orders[i]
      /\ orders'[Len(orders) + 1] = o
  BY <1>1, <1>4, AppendOrder DEF IInv, TypeOK
<1>8. PricedInv => PricedInv'
  <2>1. o.value = value_of(o.quantity, call.price[o.symbol])
    BY <1>5
  <2> HIDE DEF o
  <2> QED
    BY <1>1, <1>5, <1>7, <2>1 DEF PricedInv
<1> HIDE DEF o, v
<1> QED
  BY <1>1, <1>4, <1>5, <1>6, <1>8, AppendFollows

(* The cap leaves a prefix, and f says what a prefix comes to. *)
LEMMA FinishFollows ==
  ASSUME IInv, Finish, NEW f, Follows(f)
  PROVE  (\E g : Follows(g)') /\ (PricedInv => PricedInv')
<1> DEFINE n == Surviving
           max == call.settings.max_orders
<1>1. /\ n \in Nat /\ n <= Len(orders) /\ max \in Nat /\ Len(orders) \in Nat
      /\ n <= max
  BY DEF IInv, TypeOK, IsCall, Settings, Smaller, Surviving
<1>2. /\ orders' = SubSeq(orders, 1, n)
      /\ UNCHANGED <<call, raised, spent>>
  BY DEF Finish, Surviving
<1>3. orders \in Seq(Order) /\ DOMAIN orders = 1..Len(orders)
  BY DEF IInv, TypeOK
<1> HIDE DEF n
<1>4. /\ Len(orders') = n /\ DOMAIN orders' = 1..n
      /\ \A i \in 1..n : orders'[i] = orders[i]
  BY <1>1, <1>2, <1>3
<1>5. PricedInv => PricedInv'
  <2>1. \A i \in DOMAIN orders' : i \in DOMAIN orders /\ orders'[i] = orders[i]
    BY <1>1, <1>3, <1>4
  <2> QED
    BY <1>2, <2>1 DEF PricedInv
<1>6. /\ f \in [0..Len(orders) -> Int] /\ f[0] = call.cash
      /\ \A i \in 1..Len(orders) : f[i] = f[i - 1] + Brings(orders[i])
      /\ \A i, j \in 0..Len(orders) :
           i < j /\ orders[i + 1].side = "buy" => f[j] <= f[i]
      /\ f[n] = call.cash + raised - spent
  BY DEF Follows, n
<1>7. PICK g : g = [i \in 0..n |-> f[i]]
  OBVIOUS
<1>8. g \in [0..n -> Int] /\ \A i \in 0..n : g[i] = f[i]
  BY <1>1, <1>6, <1>7
<1>9. \A i \in 1..n : i \in 1..Len(orders) /\ i \in 0..n /\ i - 1 \in 0..n
  BY <1>1
<1>10. \A i \in 1..n : g[i] = g[i - 1] + Brings(orders'[i])
  BY <1>4, <1>6, <1>8, <1>9
<1>11. ASSUME NEW i \in 0..n, NEW j \in 0..n, i < j, orders'[i + 1].side = "buy"
       PROVE  g[j] <= g[i]
  <2>1. i + 1 \in 1..n /\ i \in 0..Len(orders) /\ j \in 0..Len(orders)
    BY <1>1, <1>11
  <2>2. orders[i + 1].side = "buy"
    BY <1>4, <1>11, <2>1
  <2> QED
    BY <1>6, <1>8, <1>11, <2>1, <2>2
<1>12. Surviving' = n
  BY <1>1, <1>2, <1>4 DEF Surviving, Smaller
<1>13. g[0] = call.cash /\ g[n] = call.cash + raised - spent
  BY <1>1, <1>6, <1>8
<1>14. Follows(g)'
  BY <1>2, <1>4, <1>8, <1>10, <1>11, <1>12, <1>13 DEF Follows
<1> QED
  BY <1>5, <1>14

(* While the planner plans, the broker's account stands at the start of f.  *)
LEMMA PlanPlacing ==
  ASSUME PlannerInv, AccountInv, PlacingInv, Next, UNCHANGED loopVars
  PROVE  PlacingInv'
<1> USE DEF PlannerInv
<1>1. PICK f : Follows(f)
  BY DEF PlacingInv, CarriedInv
<1>2. PricedInv
  BY DEF PlacingInv
<1>3. SortedInv /\ IInv'
  BY StepInv DEF PlanInv
<1>4. (\E g : Follows(g)') /\ PricedInv'
  <2>1. CASE UNCHANGED <<orders, call, raised, spent>>
    BY <1>1, <1>2, <2>1, FollowsStands DEF PricedInv
  <2>2. CASE Finish
    BY <1>1, <1>2, <2>2, FinishFollows
  <2>3. ASSUME NEW s \in Symbols, PlanSell(s)
        PROVE  (\E g : Follows(g)') /\ PricedInv'
    BY <1>1, <1>2, <1>3, <2>3, PlanSellFollows
  <2>4. ASSUME NEW s \in Symbols, PlanBuy(s)
        PROVE  (\E g : Follows(g)') /\ PricedInv'
    BY <1>1, <1>2, <1>3, <2>4, PlanBuyFollows
  <2>5. CASE Accept \/ Reject \/ StartSells \/ StartBuys
    BY <2>1, <2>5 DEF Accept, Reject, StartSells, StartBuys
  <2>6. ASSUME NEW s \in Symbols, AddPosition(s) \/ SkipSell(s) \/ SkipBuy(s)
        PROVE  UNCHANGED <<orders, call, raised, spent>>
    BY <2>6 DEF AddPosition, SkipSell, SkipBuy, NextSell, NextBuy
  <2> QED
    BY <2>1, <2>2, <2>3, <2>4, <2>5, <2>6 DEF Next
<1>5. call' = call /\ pc # "done"
  BY DEF Next, Accept, Reject, StartSells, StartBuys, Finish, AddPosition,
         PlanSell, SkipSell, PlanBuy, SkipBuy, NextSell, NextBuy
<1>6. /\ UNCHANGED <<cash, held, placed, rejected>> /\ placed = 0
      /\ cash = call.cash /\ held = call.held /\ rejected = 0
  BY <1>5 DEF loopVars, AccountInv, PlacingInv, CarriedInv
<1>7. Len(orders') \in Nat
  BY <1>3 DEF IInv, TypeOK
<1>8. CarriedInv'
  <2>1. PICK g : Follows(g)'
    BY <1>4
  <2>2. cash' = g[0]
    BY <1>5, <1>6, <2>1 DEF Follows
  <2> QED
    BY <1>5, <1>6, <1>7, <2>1, <2>2 DEF CarriedInv
<1> QED
  BY <1>4, <1>8 DEF PlacingInv

LEMMA OrderedSymbol ==
  ASSUME IInv, NEW i \in DOMAIN orders
  PROVE  orders[i].symbol \in Symbols
<1>1. orders \in Seq(Order)
  BY DEF IInv, TypeOK
<1>2. orders[i] \in Order
  BY <1>1
<1> QED
  BY <1>2 DEF Order

(* Every symbol has one order at most. *)
LEMMA OneOrderEach ==
  ASSUME IInv, PlanInv, NEW i \in DOMAIN orders, NEW j \in DOMAIN orders,
         orders[i].symbol = orders[j].symbol
  PROVE  i = j
<1> DEFINE s == orders[i].symbol
<1>1. s \in Symbols
  BY OrderedSymbol
<1>2. i \in KeptFor(s) /\ j \in KeptFor(s)
  BY DEF KeptFor
<1> HIDE DEF s
<1>3. Ordered(s)
  BY <1>1, <1>2 DEF PlanInv, AnsweredInv, Declined, Untouched
<1> QED
  BY <1>2, <1>3 DEF Ordered

(* What reading a position may take from it, or may not.                    *)
NothingLost ==
  \A s \in Symbols : call.held[s] \in Nat => call.held[s] <= held_as_read(call.held[s])
ReadAsHeld ==
  \A s \in Symbols : call.held[s] \in Nat => held_as_read(call.held[s]) = call.held[s]

(* What is still to come of a plan, once it buys, leaves the account above  *)
(* zero: f ends at the projection and falls on its way there.               *)
LEMMA AffordableOnTheWay ==
  ASSUME PlannerInv, NEW f, Follows(f), pc = "done",
         NEW i \in 1..Len(orders), orders[i].side = "buy"
  PROVE  f[i] >= 0
<1> USE DEF PlannerInv
<1> DEFINE n == Len(orders)
<1>1. /\ n \in Nat /\ call.settings.max_orders \in Nat
      /\ n <= call.settings.max_orders /\ DOMAIN orders = 1..n
  BY DEF IInv, TypeOK, IsCall, Settings, DoneInv
<1>2. Surviving = n
  BY <1>1 DEF Surviving, Smaller
<1>3. f[n] = projected_cash_after /\ projected_cash_after >= 0
  BY <1>2, BudgetFollows DEF Follows, BudgetKept, Done, projected_cash_after
<1>4. f \in [0..n -> Int]
  BY DEF Follows
<1> HIDE DEF n
<1>5. CASE i = n
  BY <1>3, <1>5
<1>6. CASE i # n
  <2>0. i \in 1..n
    BY DEF n
  <2>1. i \in 0..n /\ n \in 0..n /\ i < n /\ i + 1 \in 1..n /\ i < i + 1
    BY <1>1, <1>6, <2>0
  <2>2. orders[i + 1].side = "buy"
    BY <1>1, <2>0, <2>1 DEF PlanInv, SortedInv
  <2>3. f[n] <= f[i]
    BY <2>1, <2>2 DEF Follows, n
  <2>4. f[n] \in Int /\ f[i] \in Int
    BY <1>4, <2>1
  <2> QED
    BY <1>3, <2>3, <2>4
<1> QED
  BY <1>5, <1>6

(* The broker takes every order and the account moves along f: the cash by  *)
(* what the order brings, the position by its quantity.                     *)
Fills(o) ==
  /\ cash' = cash + Brings(o)
  /\ held' = [held EXCEPT ![o.symbol] = qty_after(o.side, o.quantity, held[o.symbol])]

LEMMA PlacePlacing ==
  ASSUME NothingLost, PlannerInv, AccountInv, PlacingInv, Place
  PROVE  PlacingInv' /\ Fills(orders[placed + 1])
<1> USE DEF PlannerInv
<1> DEFINE k == placed + 1
           o == orders[k]
           s == o.symbol
           v == value_of(o.quantity, call.price[s])
<1>1. /\ placed' = k /\ pc = "done" /\ UNCHANGED vars /\ placed \in Nat
      /\ placed < Len(orders) /\ rejected = 0
  BY DEF Place, AccountInv, PlacingInv, CarriedInv
<1>2. UNCHANGED <<call, pc, orders, raised, spent>>
  BY <1>1 DEF vars
<1>3. k \in 1..Len(orders) /\ DOMAIN orders = 1..Len(orders) /\ Len(orders) \in Nat
      /\ orders \in Seq(Order)
  BY <1>1 DEF IInv, TypeOK
<1>4. o \in Order
  BY <1>3
<1>5. PICK f : Follows(f) /\ cash = f[placed]
  BY DEF PlacingInv, CarriedInv
<1> HIDE DEF k
<1>6. /\ o.value = v
      /\ o.side = "sell" => o.quantity <= call.held[s]
      /\ held[s] = call.held[s]
  BY <1>1, <1>3 DEF PlacingInv, PricedInv, CarriedInv, k
<1>7. f[k] = cash + Brings(o) /\ f[k] \in Int /\ cash \in Int
  <2>1. placed \in 0..Len(orders) /\ k \in 0..Len(orders) /\ k - 1 = placed
    BY <1>1, <1>3 DEF k
  <2>2. f \in [0..Len(orders) -> Int] /\ f[k] = f[k - 1] + Brings(orders[k])
    BY <1>3, <1>5 DEF Follows
  <2> QED
    BY <1>5, <2>1, <2>2
<1>8. /\ s \in Symbols /\ o.side \in {"sell", "buy"} /\ o.quantity \in Nat
      /\ o.value \in Nat
  BY <1>4 DEF Order, Sides
<1>9. call.held[s] \in Nat
  <2>1. s \in Universe /\ ValidCall /\ IsCall(call) /\ positions_value \in Nat
    BY <1>1, <1>3 DEF PlanInv, SortedInv, IInv, LoopInv, TypeOK
  <2> QED
    BY <2>1, Amounts
<1> HIDE DEF o, s, v
<1>10. o.side = "sell" => o.quantity <= held_as_read(held[s])
  <2>1. held_as_read(call.held[s]) \in Int
    <3>1. GRAIN \in Nat \ {0}
      BY GrainAssumption
    <3>2. (2 * call.held[s] + GRAIN) \div (2 * GRAIN) \in Int
      BY <1>9, <3>1
    <3> QED
      BY <3>1, <3>2 DEF held_as_read, money
  <2>2. call.held[s] <= held_as_read(call.held[s])
    BY <1>8, <1>9 DEF NothingLost
  <2> QED
    BY <1>6, <1>8, <1>9, <2>1, <2>2
<1>11. accepts(o.side, o.quantity, call.price[s], cash, held[s])
  <2>1. CASE o.side = "sell"
    BY <1>10, <2>1 DEF accepts
  <2>2. CASE o.side = "buy"
    <3>1. f[k] >= 0
      BY <1>1, <1>3, <1>5, <2>2, AffordableOnTheWay DEF o
    <3>2. Brings(o) = 0 - o.value
      BY <2>2 DEF Brings
    <3>3. o.value <= cash
      BY <1>7, <1>8, <3>1, <3>2
    <3> QED
      BY <1>6, <2>2, <3>3 DEF accepts, v
  <2> QED
    BY <1>8, <2>1, <2>2
<1>12. /\ cash' = cash_after(o.side, o.quantity, call.price[s], cash)
       /\ held' = [held EXCEPT ![s] = qty_after(o.side, o.quantity, held[s])]
       /\ rejected' = rejected
  BY <1>11 DEF Place, o, s, k
<1>13. cash' = f[k]
  <2>1. CASE o.side = "sell"
    <3>1. Brings(o) = v
      BY <1>6, <2>1 DEF Brings
    <3> QED
      BY <1>7, <1>12, <2>1, <3>1 DEF cash_after, v
  <2>2. CASE o.side = "buy"
    <3>1. Brings(o) = 0 - v
      BY <1>6, <2>2 DEF Brings
    <3>2. cash' = cash - v
      BY <1>12, <2>2 DEF cash_after, v
    <3>3. v \in Int
      BY <1>6, <1>8
    <3> QED
      BY <1>7, <3>1, <3>2, <3>3
  <2> QED
    BY <1>8, <2>1, <2>2
<1>14. \A i \in DOMAIN orders : i > k => held'[orders[i].symbol] = call.held[orders[i].symbol]
  <2> SUFFICES ASSUME NEW i \in DOMAIN orders, i > k
               PROVE  held'[orders[i].symbol] = call.held[orders[i].symbol]
    OBVIOUS
  <2>1. k \in DOMAIN orders /\ i # k /\ i > placed
    BY <1>1, <1>3 DEF k
  <2>2. orders[i].symbol # s
    BY <2>1, OneOrderEach DEF s, o
  <2>3. held[orders[i].symbol] = call.held[orders[i].symbol]
    BY <2>1 DEF PlacingInv, CarriedInv
  <2>4. held'[orders[i].symbol] = held[orders[i].symbol]
    <3>1. orders[i].symbol \in Symbols
      BY OrderedSymbol
    <3> QED
      BY <1>12, <2>2, <3>1 DEF AccountInv
  <2> QED
    BY <2>3, <2>4
<1>15. Follows(f)'
  BY <1>2, <1>5, FollowsStands
<1>16. CarriedInv'
  BY <1>1, <1>2, <1>3, <1>12, <1>13, <1>14, <1>15 DEF CarriedInv
<1>17. PricedInv'
  BY <1>2 DEF PlacingInv, PricedInv
<1>18. Fills(o)
  BY <1>7, <1>12, <1>13 DEF Fills, s
<1> QED
  BY <1>16, <1>17, <1>18 DEF PlacingInv, o, k

LEMMA BeginningPlacing == Beginning /\ AccountInv /\ rejected = 0 => PlacingInv
<1> SUFFICES ASSUME Beginning, AccountInv, rejected = 0 PROVE PlacingInv
  OBVIOUS
<1>1. /\ orders = <<>> /\ Len(orders) = 0 /\ raised = 0 /\ spent = 0
      /\ placed = 0 /\ cash = call.cash /\ cash \in Int
      /\ call.settings.max_orders \in Nat
  BY DEF Beginning, AccountInv, IsCall, Settings
<1>2. Surviving = 0
  BY <1>1 DEF Surviving, Smaller
<1>3. PICK f : f = [i \in 0..0 |-> call.cash]
  OBVIOUS
<1>4. f \in [0..0 -> Int] /\ f[0] = call.cash /\ call.cash = call.cash + 0 - 0
  BY <1>1, <1>3
<1>5. Follows(f)
  BY <1>1, <1>2, <1>4 DEF Follows
<1>6. cash = f[placed] /\ placed <= Len(orders)
  BY <1>1, <1>4
<1>7. PricedInv
  BY <1>1 DEF PricedInv
<1>8. CarriedInv
  <2>1. \A i \in DOMAIN orders : held[orders[i].symbol] = call.held[orders[i].symbol]
    BY <1>1
  <2> QED
    BY <1>5, <1>6, <2>1 DEF CarriedInv
<1> QED
  BY <1>7, <1>8 DEF PlacingInv

(* Once it is at the end of f the account is where the plan projected it.   *)
LEMMA CarriedOut ==
  ASSUME PlannerInv, PlacingInv, AllPlaced
  PROVE  rejected = 0 /\ cash = projected_cash_after
<1>1. /\ Len(orders) \in Nat /\ call.settings.max_orders \in Nat
      /\ Len(orders) <= call.settings.max_orders /\ placed = Len(orders)
  BY DEF AllPlaced, Done, PlannerInv, IInv, TypeOK, IsCall, Settings, DoneInv
<1>2. Surviving = placed
  BY <1>1 DEF Surviving, Smaller
<1> QED
  BY <1>2 DEF PlacingInv, CarriedInv, Follows, projected_cash_after

(* A plan made from the account the broker holds is carried out to the      *)
(* letter: no order is turned down, and the cash ends at the projection     *)
(* (the submit loop of _execute against MockBroker).  Provided none of the  *)
(* positions it was made from reads as less than it is (mock.py keeps four  *)
(* of their eight decimals): what is read up can only be sold once more.    *)
THEOREM PlansAreCarriedOut == LoopSpec => []PlanIsCarriedOut
<1>1. LoopInit => PlacingInv
  <2> SUFFICES ASSUME LoopInit PROVE PlacingInv
    OBVIOUS
  <2>1. Init /\ call \in Calls /\ cash = call.cash /\ held = call.held
        /\ placed = 0 /\ rejected = 0
    BY DEF LoopInit, Init
  <2>2. IsCall(call) /\ DOMAIN call = {"cash", "held", "price", "targets", "settings"}
    BY <2>1, CallsAssumption
  <2>3. AccountInv
    BY <2>1, <2>2 DEF AccountInv, IsCall
  <2> QED
    BY <2>1, <2>3, InitBegins, BeginningPlacing
<1>2. Beginning /\ AccountInv /\ rejected = 0 => PlacingInv
  BY BeginningPlacing
<1>3. PlannerInv /\ AccountInv /\ (ReadInFull => PlacingInv) /\ [LoopNext]_allVars =>
        (ReadInFull => PlacingInv)' \/ (Beginning' /\ AccountInv' /\ (rejected = 0)')
  <2> SUFFICES ASSUME PlannerInv, AccountInv, ReadInFull => PlacingInv, [LoopNext]_allVars
               PROVE  (ReadInFull => PlacingInv)'
                      \/ (Beginning' /\ AccountInv' /\ rejected' = 0)
    OBVIOUS
  <2>0. ASSUME UNCHANGED call, ReadInFull' PROVE PlacingInv
    BY <2>0 DEF ReadInFull
  <2>1. CASE Plan
    <3>1. UNCHANGED call
      BY <2>1 DEF Plan, Next, Accept, Reject, StartSells, StartBuys, Finish, AddPosition,
                  PlanSell, SkipSell, PlanBuy, SkipBuy, NextSell, NextBuy
    <3>2. PlacingInv => PlacingInv'
      BY <2>1, PlanPlacing DEF Plan
    <3> QED
      BY <2>0, <3>1, <3>2
  <2>2. CASE Place
    <3>1. UNCHANGED call
      BY <2>2 DEF Place, vars
    <3>2. ReadInFull => NothingLost
      BY DEF ReadInFull, NothingLost
    <3>3. ReadInFull /\ PlacingInv => PlacingInv'
      BY <2>2, <3>2, PlacePlacing
    <3>4. ReadInFull' => ReadInFull
      BY <3>1 DEF ReadInFull
    <3> QED
      BY <2>0, <3>1, <3>3, <3>4
  <2>3. CASE PlanAgain
    BY <2>3, AgainBegins DEF PlannerInv, PlanAgain
  <2>4. CASE UNCHANGED allVars
    <3>1. /\ UNCHANGED <<orders, call, raised, spent>>
          /\ UNCHANGED <<cash, held, placed, rejected>>
      BY <2>4 DEF allVars, loopVars, vars
    <3>2. \A f : Follows(f) => Follows(f)'
      BY <3>1, FollowsStands
    <3>3. PlacingInv => PlacingInv'
      BY <3>1, <3>2 DEF PlacingInv, PricedInv, CarriedInv
    <3> QED
      BY <2>0, <3>1, <3>3
  <2> QED
    BY <2>1, <2>2, <2>3, <2>4 DEF LoopNext
<1>4. PlannerInv /\ AccountInv /\ (ReadInFull => PlacingInv) => PlanIsCarriedOut
  BY CarriedOut DEF PlanIsCarriedOut
<1> QED
  BY <1>1, <1>2, <1>3, <1>4, LoopInductive, PTL DEF LoopSpec

-----------------------------------------------------------------------------
(* The loops and the functional form (BuildPlan).  Both are made of the     *)
(* same definitions, of which the functional form has copies that read the  *)
(* arguments instead of the variables; what is to be shown is that visiting *)
(* one symbol after another comes to the same lists.                        *)

(* What the loops have to sell and to buy, and the orders they plan for it. *)
SoldNow == {s \in Universe : delta(s) < 0 /\ Worth(sell_qty(s), s)}
UnderNow == {s \in Universe : delta(s) > 0}
SellOf(s) == [symbol |-> s, side |-> "sell", quantity |-> sell_qty(s),
              value |-> value_of(sell_qty(s), call.price[s])]
BuyOf(s) == [symbol |-> s, side |-> "buy", quantity |-> buy_qty(s),
             value |-> value_of(buy_qty(s), call.price[s])]

(* The helpers of Money are the same wherever they are read from.           *)
LEMMA SameMoney ==
  /\ \A n, d : B!money(n, d) = money(n, d)
  /\ \A q, p : B!value_of(q, p) = value_of(q, p)
  /\ \A a, b : B!Smaller(a, b) = Smaller(a, b)
  /\ \A S : B!Cardinality(S) = Cardinality(S)
  /\ \A f, S : B!SumFunctionOnSet(f, S) = SumFunctionOnSet(f, S)
<1>1. \A n, d : B!money(n, d) = money(n, d)
  BY DEF B!money, money
<1>2. \A q, p : B!value_of(q, p) = value_of(q, p)
  BY <1>1 DEF B!value_of, value_of
<1>3. \A a, b : B!Smaller(a, b) = Smaller(a, b)
  BY DEF B!Smaller, Smaller
<1>4. \A S : B!Cardinality(S) = Cardinality(S)
  BY DEF B!Cardinality, Cardinality
<1>5. \A f, S : B!SumFunctionOnSet(f, S) = SumFunctionOnSet(f, S)
  BY DEF B!SumFunctionOnSet, SumFunctionOnSet, B!FoldFunctionOnSet, FoldFunctionOnSet,
         B!MapThenFoldSet, MapThenFoldSet
<1> QED
  BY <1>1, <1>2, <1>3, <1>4, <1>5

(* A queue of the functional form is the ranking of its set.                *)
LEMMA SameQueue ==
  ASSUME NEW S, NEW P
  PROVE  B!InOrder(S, P) = Ranking(S, P)
BY DEF B!InOrder, Ranking, B!Cardinality, Cardinality

(* So are those of the planner within it.                                   *)
LEMMA SameHelpers ==
  ASSUME NEW c, NEW v, NEW a, NEW b
  PROVE  /\ B!R(c, v, a, b)!BPS = BPS
         /\ \A n, d : B!R(c, v, a, b)!money(n, d) = money(n, d)
         /\ \A q, p : B!R(c, v, a, b)!value_of(q, p) = value_of(q, p)
         /\ \A x, y : B!R(c, v, a, b)!Smaller(x, y) = Smaller(x, y)
         /\ \A x, y : B!R(c, v, a, b)!apply_bps(x, y) = apply_bps(x, y)
         /\ \A x, y : B!R(c, v, a, b)!bps_of(x, y) = bps_of(x, y)
         /\ \A x, y : B!R(c, v, a, b)!quantity(x, y) = quantity(x, y)
         /\ \A x, y : B!R(c, v, a, b)!whole_shares(x, y) = whole_shares(x, y)
         /\ \A x : B!R(c, v, a, b)!Abs(x) = Abs(x)
         /\ \A f : B!R(c, v, a, b)!SumFunction(f) = SumFunction(f)
<1>1. B!R(c, v, a, b)!BPS = BPS
  BY DEF B!R!BPS, BPS
<1>2. \A n, d : B!R(c, v, a, b)!money(n, d) = money(n, d)
  BY DEF B!R!money, money
<1>3. \A q, p : B!R(c, v, a, b)!value_of(q, p) = value_of(q, p)
  BY <1>2 DEF B!R!value_of, value_of
<1>4. \A x, y : B!R(c, v, a, b)!Smaller(x, y) = Smaller(x, y)
  BY DEF B!R!Smaller, Smaller
<1>5. \A x, y : B!R(c, v, a, b)!apply_bps(x, y) = apply_bps(x, y)
  BY <1>1, <1>2 DEF B!R!apply_bps, apply_bps
<1>6. \A x, y : B!R(c, v, a, b)!bps_of(x, y) = bps_of(x, y)
  BY <1>1, <1>2 DEF B!R!bps_of, bps_of
<1>7. /\ \A x, y : B!R(c, v, a, b)!quantity(x, y) = quantity(x, y)
      /\ \A x, y : B!R(c, v, a, b)!whole_shares(x, y) = whole_shares(x, y)
  BY DEF B!R!quantity, quantity, B!R!whole_shares, whole_shares
<1>8. \A x : B!R(c, v, a, b)!Abs(x) = Abs(x)
  BY DEF B!R!Abs, Abs
<1>9. \A f : B!R(c, v, a, b)!SumFunction(f) = SumFunction(f)
  BY DEF B!R!SumFunction, SumFunction, B!R!SumFunctionOnSet, SumFunctionOnSet,
         B!R!FoldFunctionOnSet, FoldFunctionOnSet, B!R!MapThenFoldSet, MapThenFoldSet
<1> QED
  BY <1>1, <1>2, <1>3, <1>4, <1>5, <1>6, <1>7, <1>8, <1>9

(* What the functional form makes of the arguments, the loops make too.     *)
LEMMA SameTargets ==
  ASSUME NEW a, NEW b
  PROVE  /\ B!R(call, positions_value, a, b)!Universe = Universe
         /\ B!R(call, positions_value, a, b)!reserved = reserved
         /\ \A s : B!R(call, positions_value, a, b)!delta(s) = delta(s)
         /\ \A s : B!R(call, positions_value, a, b)!target_value(s) = target_value(s)
         /\ \A s : B!R(call, positions_value, a, b)!drift_bps(s) = drift_bps(s)
         /\ \A q, s : B!R(call, positions_value, a, b)!Worth(q, s) <=> Worth(q, s)
         /\ \A x, p : B!R(call, positions_value, a, b)!shares(x, p) = shares(x, p)
         /\ \A s, t : B!R(call, positions_value, a, b)!UniverseBefore(s, t)
                        <=> UniverseBefore(s, t)
<1> DEFINE v == positions_value
<1>1. /\ B!R(call, v, a, b)!Basket = Basket /\ B!R(call, v, a, b)!Held = Held
      /\ B!R(call, v, a, b)!Universe = Universe
  BY DEF B!R!Basket, Basket, B!R!Held, Held, B!R!Universe, Universe
<1>2. B!R(call, v, a, b)!investable = investable
  <2>1. B!R(call, v, a, b)!portfolio_value = portfolio_value
    BY SameHelpers DEF B!R!portfolio_value, portfolio_value
  <2> QED
    BY <2>1, SameHelpers DEF B!R!investable, investable
<1>3. B!R(call, v, a, b)!deployable = deployable /\ B!R(call, v, a, b)!reserved = reserved
  <2>1. \A x : B!R(call, v, a, b)!less_buffer(x) = less_buffer(x)
    BY SameHelpers DEF B!R!less_buffer, less_buffer
  <2> QED
    BY <1>2, <2>1, SameHelpers DEF B!R!deployable, deployable, B!R!reserved, reserved
<1>4. /\ \A s : B!R(call, v, a, b)!target_bps(s) = target_bps(s)
      /\ \A s : B!R(call, v, a, b)!current_value(s) = current_value(s)
  BY <1>1, SameHelpers DEF B!R!target_bps, target_bps, B!R!current_value, current_value
<1>5. \A s : B!R(call, v, a, b)!target_value(s) = target_value(s)
  BY <1>3, <1>4, SameHelpers DEF B!R!target_value, target_value
<1>6. \A s : B!R(call, v, a, b)!delta(s) = delta(s)
  BY <1>4, <1>5 DEF B!R!delta, delta
<1>7. \A s : B!R(call, v, a, b)!drift_bps(s) = drift_bps(s)
  BY <1>3, <1>4, SameHelpers DEF B!R!drift_bps, drift_bps
<1>8. \A q, s : B!R(call, v, a, b)!Worth(q, s) <=> Worth(q, s)
  BY SameHelpers DEF B!R!Worth, Worth
<1>9. \A x, p : B!R(call, v, a, b)!shares(x, p) = shares(x, p)
  BY SameHelpers DEF B!R!shares, shares
<1>10. \A s, t : B!R(call, v, a, b)!UniverseBefore(s, t) <=> UniverseBefore(s, t)
  BY <1>1 DEF B!R!UniverseBefore, UniverseBefore
<1> QED
  BY <1>1, <1>3, <1>5, <1>6, <1>7, <1>8, <1>9, <1>10

(* What is sold is what the loop sells.                                     *)
LEMMA SameSells ==
  /\ B!Sold(call, positions_value) = SoldNow
  /\ \A s : B!sell_order(call, positions_value, s) = SellOf(s)
<1>1. ASSUME NEW s PROVE B!R(call, positions_value, 0, 0)!sell_qty(s) = sell_qty(s)
  <2>1. /\ B!R(call, positions_value, 0, 0)!delta(s) = delta(s)
        /\ B!R(call, positions_value, 0, 0)!target_value(s) = target_value(s)
    BY SameTargets
  <2>2. B!R(call, positions_value, 0, 0)!Abs(delta(s)) = Abs(delta(s))
    BY SameHelpers
  <2>3. B!R(call, positions_value, 0, 0)!shares(Abs(delta(s)), call.price[s])
          = shares(Abs(delta(s)), call.price[s])
    BY SameTargets
  <2>4. B!R(call, positions_value, 0, 0)!Smaller(
            shares(Abs(delta(s)), call.price[s]), call.held[s])
          = Smaller(shares(Abs(delta(s)), call.price[s]), call.held[s])
    BY SameHelpers
  <2> QED
    BY <2>1, <2>2, <2>3, <2>4, Zenon DEF B!R!sell_qty, sell_qty
<1>2. \A s : B!sell_order(call, positions_value, s) = SellOf(s)
  BY <1>1, SameMoney DEF B!sell_order, B!order, SellOf
<1>3. \A s : SellOf(s).quantity = sell_qty(s)
  BY DEF SellOf
<1>4. B!Sold(call, positions_value) = SoldNow
  BY <1>2, <1>3, SameTargets DEF B!Sold, SoldNow
<1> QED
  BY <1>2, <1>4

(* What is wanted is what the loop queues, and a buy what it makes of it.   *)
LEMMA SameBuys ==
  /\ B!Under(call, positions_value) = UnderNow
  /\ B!R(call, positions_value, proceeds, 0)!budget = budget
  /\ \A s : /\ B!buy_order(call, positions_value, remaining, s) = BuyOf(s)
            /\ B!R(call, positions_value, 0, remaining)!affordable(s) = affordable(s)
            /\ B!R(call, positions_value, 0, remaining)!Worth(BuyOf(s).quantity, s)
                 <=> Worth(buy_qty(s), s)
  /\ \A s, t : B!R(call, positions_value, 0, 0)!BuyBefore(s, t) <=> BuyBefore(s, t)
<1>1. B!Under(call, positions_value) = UnderNow
  BY SameTargets DEF B!Under, UnderNow
<1>2. B!R(call, positions_value, proceeds, 0)!budget = budget
  BY SameTargets DEF B!R!budget, budget
<1>3. \A s : B!R(call, positions_value, 0, remaining)!affordable(s) = affordable(s)
  BY SameTargets, SameHelpers DEF B!R!affordable, affordable
<1>4. \A s : B!R(call, positions_value, 0, remaining)!buy_qty(s) = buy_qty(s)
  BY <1>3, SameTargets DEF B!R!buy_qty, buy_qty
<1>5. \A s : B!buy_order(call, positions_value, remaining, s) = BuyOf(s)
  BY <1>4, SameMoney DEF B!buy_order, B!order, BuyOf
<1>6. \A s : BuyOf(s).quantity = buy_qty(s)
  BY DEF BuyOf
<1>7. \A s : B!R(call, positions_value, 0, remaining)!Worth(BuyOf(s).quantity, s)
               <=> Worth(buy_qty(s), s)
  BY <1>6, SameTargets
<1>8. \A s, t : B!R(call, positions_value, 0, 0)!BuyBefore(s, t) <=> BuyBefore(s, t)
  BY SameTargets DEF B!R!BuyBefore, BuyBefore
<1> QED
  BY <1>1, <1>2, <1>3, <1>5, <1>7, <1>8

(* The functional form accepts the calls the loops accept.                  *)
LEMMA SameCalls == B!plannable(call) <=> ValidCall
<1>1. /\ B!R(call, 0, 0, 0)!Basket = Basket /\ B!R(call, 0, 0, 0)!Universe = Universe
  BY DEF B!R!Basket, Basket, B!R!Held, Held, B!R!Universe, Universe
<1>2. B!R(call, 0, 0, 0)!total_weight = total_weight
  BY SameHelpers DEF B!R!total_weight, total_weight
<1>3. B!R(call, 0, 0, 0)!validate_targets <=> validate_targets
  BY <1>1, <1>2, SameHelpers DEF B!R!validate_targets, validate_targets
<1> QED
  BY <1>1, <1>3 DEF B!plannable, B!R!ValidCall, ValidCall

(* The sum of the loop is the sum of the functional form.                   *)
LEMMA SameValue ==
  ASSUME IsCall(call), positions_value = SumFunctionOnSet(Gross, Held)
  PROVE  B!positions_value_of(call) = positions_value
<1> DEFINE f == [s \in Held |-> call.held[s] * call.price[s]]
<1>1. B!R(call, 0, 0, 0)!Held = Held
  BY DEF B!R!Held, Held
<1>2. B!positions_value_of(call) = SumFunctionOnSet(f, Held)
  BY <1>1, SameMoney DEF B!positions_value_of
<1>3. \A s \in Held : f[s] = Gross[s]
  BY DEF Held, Gross
<1>4. Held \subseteq Symbols /\ IsFiniteSet(Held)
  BY SymbolsAssumption, FS_Subset DEF Held
<1> QED
  BY <1>2, <1>3, <1>4, SumsAgree

-----------------------------------------------------------------------------
(* The loops follow the functional form.  The sells so far are those of the *)
(* symbols the loop has come past, in its order; the buys so far are those  *)
(* of the first k visits of `bought`.                                       *)
SellValues == [s \in Symbols |-> SellOf(s).value]

SellsSoFar ==
  /\ \A i \in DOMAIN orders : /\ orders[i].symbol \in SoldNow \ todo
                              /\ orders[i] = SellOf(orders[i].symbol)
  /\ \A s \in SoldNow \ todo : \E i \in DOMAIN orders : orders[i].symbol = s
  /\ \A i, j \in DOMAIN orders :
       i < j => UniverseBefore(orders[i].symbol, orders[j].symbol)
  /\ \A i \in DOMAIN orders, t \in todo : UniverseBefore(orders[i].symbol, t)
  /\ proceeds = SumFunctionOnSet(SellValues, SoldNow \ todo)

BuysSoFar ==
  LET q == B!by_need(call, positions_value)
      after == B!bought(call, positions_value)
      sells == B!sells(call, positions_value)
  IN  /\ sells \in Seq(Order)
      /\ \E k \in 0..Len(q) :
           /\ todo = {q[i] : i \in (k + 1)..Len(q)}
           /\ remaining = after[k].remaining /\ after[k].buys \in Seq(Order)
           /\ orders = sells \o after[k].buys

ClosedInv ==
  /\ pc = "sells" => SellsSoFar
  /\ pc = "buys" => BuysSoFar
  /\ LoopsComputeBuildPlan

(* The universe is ranked strictly: by basket position, then by symbol.     *)
FirstNow == {e \in Symbols \X Symbols : UniverseBefore(e[1], e[2])}
LEMMA FirstInOrder ==
  ASSUME NEW S, S \subseteq Symbols
  PROVE  StrictOrder(S, FirstNow) /\ IsFiniteSet(S)
<1>1. IsFiniteSet(S) /\ S \subseteq Nat
  BY SymbolsAssumption, FS_Subset
<1>2. \A s, t \in S : <<s, t>> \in FirstNow <=> \/ s \in Basket /\ t \notin Basket
                                                \/ (s \in Basket <=> t \in Basket) /\ s < t
  BY DEF FirstNow, UniverseBefore
<1>3. StrictOrder(S, FirstNow)
  BY <1>1, <1>2 DEF StrictOrder
<1> QED
  BY <1>1, <1>3

(* The buys are ranked strictly: by drift, then by the universe.            *)
NeedierNow == {e \in Symbols \X Symbols : BuyBefore(e[1], e[2])}
LEMMA NeedierInOrder ==
  ASSUME TypeOK, ValidCall
  PROVE  StrictOrder(UnderNow, NeedierNow) /\ IsFiniteSet(UnderNow)
<1>1. UnderNow \subseteq Universe /\ Universe \subseteq Symbols
  BY DEF UnderNow, Universe, Basket, Held, TypeOK, IsCall
<1>2. StrictOrder(UnderNow, FirstNow) /\ IsFiniteSet(UnderNow)
  BY <1>1, FirstInOrder
<1>3. \A s \in UnderNow : drift_bps(s) \in Int
  BY <1>1, DriftType
<1>4. \A s, t \in UnderNow : <<s, t>> \in NeedierNow <=>
        drift_bps(s) < drift_bps(t) \/ (drift_bps(s) = drift_bps(t) /\ <<s, t>> \in FirstNow)
  BY <1>1 DEF NeedierNow, FirstNow, BuyBefore
<1>5. StrictOrder(UnderNow, NeedierNow)
  BY <1>2, <1>3, <1>4 DEF StrictOrder
<1> QED
  BY <1>2, <1>5

(* The queue of the functional form has every symbol to buy once, each      *)
(* before those the loop would come to later.                               *)
LEMMA QueueOfBuys ==
  ASSUME TypeOK, ValidCall
  PROVE  LET n == Cardinality(UnderNow)
             q == B!by_need(call, positions_value)
         IN  /\ n \in Nat /\ q \in [1..n -> UnderNow] /\ Len(q) = n
             /\ \A s \in UnderNow : \E i \in 1..n : q[i] = s
             /\ \A i, j \in 1..n : i < j => BuyBefore(q[i], q[j])
             /\ \A i, j \in 1..n : i # j => q[i] # q[j]
<1> DEFINE n == Cardinality(UnderNow)
           q == B!by_need(call, positions_value)
           P == {e \in Symbols \X Symbols :
                   B!R(call, positions_value, 0, 0)!BuyBefore(e[1], e[2])}
<1>1. P = NeedierNow
  BY SameBuys DEF NeedierNow
<1>2. q = Ranking(UnderNow, NeedierNow)
  <2>1. B!Under(call, positions_value) = UnderNow
    BY SameBuys
  <2>2. q = B!InOrder(UnderNow, NeedierNow)
    BY <1>1, <2>1 DEF B!by_need
  <2> QED
    BY <2>2, SameQueue
<1>3. StrictOrder(UnderNow, NeedierNow) /\ IsFiniteSet(UnderNow)
  BY NeedierInOrder
<1> HIDE DEF q, P
<1>4. /\ n \in Nat /\ q \in [1..n -> UnderNow]
      /\ \A i, j \in 1..n : i # j => q[i] # q[j]
      /\ \A s \in UnderNow : \E i \in 1..n : q[i] = s
      /\ \A i, j \in 1..n : i < j => <<q[i], q[j]>> \in NeedierNow
  BY <1>2, <1>3, RankedList
<1> HIDE DEF n
<1>5. Len(q) = n
  BY <1>4
<1>6. \A i, j \in 1..n : i < j => BuyBefore(q[i], q[j])
  BY <1>4 DEF NeedierNow
<1> QED
  BY <1>4, <1>5, <1>6 DEF n, q

(* Whatever the loop takes next is the next of the queue.                   *)
LEMMA NextOfQueue ==
  ASSUME TypeOK, ValidCall,
         NEW k \in 0..Len(B!by_need(call, positions_value)),
         todo = {B!by_need(call, positions_value)[i] :
                   i \in (k + 1)..Len(B!by_need(call, positions_value))},
         NEW s \in todo, \A t \in todo \ {s} : BuyBefore(s, t)
  PROVE  LET q == B!by_need(call, positions_value)
         IN  /\ k + 1 \in 1..Len(q) /\ q[k + 1] = s
             /\ todo \ {s} = {q[i] : i \in (k + 2)..Len(q)}
<1> DEFINE q == B!by_need(call, positions_value)
           n == Len(q)
<1>1. /\ n \in Nat /\ q \in [1..n -> UnderNow]
      /\ \A i, j \in 1..n : i < j => BuyBefore(q[i], q[j])
      /\ \A i, j \in 1..n : i # j => q[i] # q[j]
  BY QueueOfBuys
<1>2. StrictOrder(UnderNow, NeedierNow) /\ UnderNow \subseteq Symbols
  BY NeedierInOrder DEF UnderNow, Universe, Basket, Held, TypeOK, IsCall
<1> HIDE DEF q
<1>3. PICK i \in (k + 1)..n : q[i] = s
  BY DEF q
<1>4. k + 1 \in 1..n /\ i \in 1..n
  BY <1>1, <1>3
<1>5. q[k + 1] = s
  <2> SUFFICES ASSUME q[k + 1] # s PROVE FALSE
    OBVIOUS
  <2>1. q[k + 1] \in todo \ {s}
    BY <1>1, <1>4 DEF q
  <2>2. BuyBefore(s, q[k + 1])
    BY <2>1
  <2>3. BuyBefore(q[k + 1], s)
    <3>1. k + 1 < i
      BY <1>3, <1>4
    <3> QED
      BY <1>1, <1>3, <1>4, <3>1
  <2>4. s \in UnderNow /\ q[k + 1] \in UnderNow
    BY <1>1, <1>3, <1>4
  <2>5. <<s, q[k + 1]>> \in NeedierNow /\ <<q[k + 1], s>> \in NeedierNow
    BY <1>2, <2>2, <2>3, <2>4 DEF NeedierNow
  <2> QED
    BY <1>2, <2>4, <2>5 DEF StrictOrder
<1>6. todo \ {s} = {q[j] : j \in (k + 2)..n}
  <2>1. \A j \in (k + 1)..n : j \in 1..n /\ (j = k + 1 \/ j \in (k + 2)..n)
    BY <1>1
  <2>2. \A j \in (k + 2)..n : j \in 1..n /\ j # k + 1 /\ j \in (k + 1)..n
    BY <1>1
  <2>3. todo = {q[j] : j \in (k + 1)..n}
    BY DEF q
  <2> QED
    BY <1>1, <1>4, <1>5, <2>1, <2>2, <2>3
<1> QED
  BY <1>4, <1>5, <1>6 DEF q

(* The visits recur on how many there have been: `after` of `bought` is     *)
(* built up to any number of them, one at a time.                           *)
LEMMA VisitByVisit ==
  ASSUME NEW c, NEW v, NEW n \in Nat, n = Len(B!by_need(c, v))
  PROVE  LET after == B!bought(c, v)
         IN  /\ after[0] = [remaining |-> B!R(c, v, B!proceeds_of(c, v), 0)!budget,
                            buys |-> <<>>]
             /\ \A i \in 1..n : after[i] = B!buy(c, v, after[i - 1], B!by_need(c, v)[i])
<1> DEFINE q == B!by_need(c, v)
           first == [remaining |-> B!R(c, v, B!proceeds_of(c, v), 0)!budget, buys |-> <<>>]
           UpTo(f, m) == f = [i \in 0..m |->
                                IF i = 0 THEN first ELSE B!buy(c, v, f[i - 1], q[i])]
           after == CHOOSE f : UpTo(f, n)
           G == {m \in 0..n : \E f : UpTo(f, m)}
<1>1. B!bought(c, v) = after
  BY DEF B!bought
<1> HIDE DEF q, first
<1>2. 0 \in G
  <2>1. UpTo([i \in 0..0 |-> first], 0)
    OBVIOUS
  <2> HIDE DEF UpTo
  <2> QED
    BY <2>1
<1>3. ASSUME NEW m \in 1..n, m - 1 \in G PROVE m \in G
  <2>1. PICK f : UpTo(f, m - 1)
    BY <1>3
  <2>2. PICK new : new = B!buy(c, v, f[m - 1], q[m])
    OBVIOUS
  <2>3. PICK g : g = [i \in 0..m |-> IF i = m THEN new ELSE f[i]]
    OBVIOUS
  <2>4. f[0] = first /\ \A i \in 1..(m - 1) : f[i] = B!buy(c, v, f[i - 1], q[i])
    BY <2>1
  <2>5. g[m] = new /\ \A i \in 0..(m - 1) : g[i] = f[i]
    BY <2>3
  <2>6. g[0] = first
    BY <2>4, <2>5
  <2>7. ASSUME NEW i \in 1..m PROVE g[i] = B!buy(c, v, g[i - 1], q[i])
    <3>1. i - 1 \in 0..(m - 1) /\ g[i - 1] = f[i - 1]
      BY <2>5
    <3>2. CASE i = m
      BY <2>2, <2>5, <3>1, <3>2
    <3>3. CASE i # m
      <4>1. i \in 1..(m - 1) /\ i \in 0..(m - 1)
        BY <3>3
      <4> QED
        BY <2>4, <2>5, <3>1, <4>1
    <3> QED
      BY <3>2, <3>3
  <2>8. DOMAIN g = 0..m /\ g = [i \in DOMAIN g |-> g[i]]
    BY <2>3
  <2>9. ASSUME NEW i \in 0..m
        PROVE  g[i] = IF i = 0 THEN first ELSE B!buy(c, v, g[i - 1], q[i])
    <3>1. i = 0 \/ (i # 0 /\ i \in 1..m)
      OBVIOUS
    <3> QED
      BY <2>6, <2>7, <3>1
  <2>10. UpTo(g, m)
    BY <2>8, <2>9
  <2> HIDE DEF UpTo
  <2> QED
    BY <2>10
<1> HIDE DEF G
<1>4. n \in G
  <2>1. \A i \in 0..n : i \in G
    BY <1>2, <1>3, StepByStep
  <2> QED
    BY <2>1
<1>5. UpTo(after, n)
  <2>1. \E f : UpTo(f, n)
    BY <1>4 DEF G
  <2> HIDE DEF UpTo
  <2> QED
    BY <2>1
<1> HIDE DEF after
<1>6. after[0] = first /\ \A i \in 1..n : after[i] = B!buy(c, v, after[i - 1], q[i])
  BY <1>5
<1> QED
  BY <1>1, <1>6 DEF q, first

(* What the functional form plans stands still once the positions are       *)
(* valued, and so do the sells of the loop.                                 *)
LEMMA SellsStand ==
  ASSUME UNCHANGED <<call, positions_value>>
  PROVE  /\ SoldNow' = SoldNow /\ SellValues' = SellValues
         /\ \A s : SellOf(s)' = SellOf(s)
         /\ \A s, t : UniverseBefore(s, t)' <=> UniverseBefore(s, t)
<1>1. \A s : sell_qty(s)' = sell_qty(s)
  BY SellStands
<1>2. \A s : SellOf(s)' = SellOf(s)
  BY <1>1 DEF SellOf, value_of
<1>3. SellValues' = SellValues
  BY <1>2 DEF SellValues
<1>4. \A s : Worth(sell_qty(s), s)' <=> Worth(sell_qty(s), s)
  BY <1>1 DEF Worth, value_of
<1>5. SoldNow' = SoldNow
  BY <1>4, TargetsStand DEF SoldNow
<1>6. \A s, t : UniverseBefore(s, t)' <=> UniverseBefore(s, t)
  BY DEF UniverseBefore, Basket
<1> QED
  BY <1>2, <1>3, <1>5, <1>6

(* A sell of the loop is an order.                                          *)
LEMMA SellOfType ==
  ASSUME IInv, ValidCall, NEW s \in Universe, delta(s) < 0
  PROVE  SellOf(s) \in Order /\ SellOf(s).symbol = s /\ SellOf(s).value \in Nat
<1>1. s \in Symbols /\ call.held[s] \in Int
  BY DEF Universe, Basket, Held, IInv, TypeOK, IsCall
<1>2. sell_qty(s) \in Nat /\ value_of(sell_qty(s), call.price[s]) \in Nat
  BY <1>1, SellBound DEF IInv, TypeOK
<1> QED
  BY <1>1, <1>2 DEF SellOf, Order, Sides

(* When the loop has come past every symbol it has planned the sells of the *)
(* functional form: there is one list of them in that order.                *)
LEMMA AllSellsPlanned ==
  ASSUME IInv, ValidCall, SellsSoFar, todo = {}
  PROVE  /\ orders = B!sells(call, positions_value)
         /\ proceeds = B!proceeds_of(call, positions_value)
<1> DEFINE m == Len(orders)
           f == [i \in 1..m |-> orders[i].symbol]
           first == {e \in Symbols \X Symbols :
                       B!R(call, positions_value, 0, 0)!UniverseBefore(e[1], e[2])}
<1>1. m \in Nat /\ DOMAIN orders = 1..m /\ orders \in Seq(Order)
  BY DEF IInv, TypeOK
<1>2. SoldNow \subseteq Symbols
  BY DEF SoldNow, Universe, Basket, Held, IInv, TypeOK, IsCall
<1>3. StrictOrder(SoldNow, FirstNow) /\ IsFiniteSet(SoldNow)
  BY <1>2, FirstInOrder
<1>4. f \in [1..m -> SoldNow]
  BY <1>1 DEF SellsSoFar
<1>5. \A s \in SoldNow : \E i \in 1..m : f[i] = s
  BY <1>1 DEF SellsSoFar
<1>6. \A i, j \in 1..m : i < j => <<f[i], f[j]>> \in FirstNow
  BY <1>1, <1>2, <1>4 DEF SellsSoFar, FirstNow
<1>7. m = Cardinality(SoldNow) /\ f = Ranking(SoldNow, FirstNow)
  <2> HIDE DEF m, f
  <2> QED
    BY <1>1, <1>3, <1>4, <1>5, <1>6, OneRanking
<1>8. first = FirstNow
  BY SameTargets DEF FirstNow
<1>9. B!InOrder(SoldNow, FirstNow) = f
  <2>1. B!InOrder(SoldNow, FirstNow) = Ranking(SoldNow, FirstNow)
    BY SameQueue
  <2> QED
    BY <1>7, <2>1
<1>10. B!sells(call, positions_value) = [i \in 1..m |-> SellOf(f[i])]
  <2>1. B!Sold(call, positions_value) = SoldNow
        /\ \A s : B!sell_order(call, positions_value, s) = SellOf(s)
    BY SameSells
  <2>2. DOMAIN f = 1..m
    OBVIOUS
  <2> HIDE DEF f, first
  <2> QED
    BY <1>8, <1>9, <2>1, <2>2 DEF B!sells, first
<1>11. orders = [i \in 1..m |-> SellOf(f[i])]
  <2>1. \A i \in 1..m : orders[i] = SellOf(f[i])
    BY <1>1 DEF SellsSoFar
  <2>2. orders = [i \in 1..m |-> orders[i]]
    BY <1>1
  <2> HIDE DEF f
  <2> QED
    BY <2>1, <2>2
<1>12. proceeds = B!proceeds_of(call, positions_value)
  <2> DEFINE g == [s \in SoldNow |-> SellOf(s).value]
  <2>1. B!Sold(call, positions_value) = SoldNow
        /\ \A s : B!sell_order(call, positions_value, s) = SellOf(s)
    BY SameSells
  <2>2. B!proceeds_of(call, positions_value) = SumFunctionOnSet(g, SoldNow)
    BY <2>1, SameMoney DEF B!proceeds_of
  <2>3. \A s \in SoldNow : SellValues[s] = g[s]
    BY <1>2 DEF SellValues
  <2>4. proceeds = SumFunctionOnSet(SellValues, SoldNow)
    <3>1. SoldNow \ todo = SoldNow
      OBVIOUS
    <3> QED
      BY <3>1 DEF SellsSoFar
  <2> HIDE DEF g
  <2> QED
    BY <1>3, <2>2, <2>3, <2>4, SumsAgree
<1> QED
  BY <1>10, <1>11, <1>12

-----------------------------------------------------------------------------
(* The sell loop starts with nothing planned and nothing come past.         *)
LEMMA StartSellsClosed ==
  ASSUME IInv, StartSells
  PROVE  ClosedInv'
<1>1. /\ UNCHANGED <<call, positions_value, proceeds, orders>> /\ pc' = "sells"
      /\ orders = <<>> /\ proceeds = 0 /\ todo' = {s \in Universe : delta(s) < 0}
  BY DEF StartSells, IInv, FreshInv
<1>2. SoldNow' = SoldNow /\ SellValues' = SellValues
  BY <1>1, SellsStand
<1>3. SoldNow' \ todo' = {}
  BY <1>1, <1>2 DEF SoldNow
<1>4. proceeds' = SumFunctionOnSet(SellValues', SoldNow' \ todo')
  BY <1>1, <1>3, SumOfNone
<1>5. SellsSoFar'
  BY <1>1, <1>3, <1>4 DEF SellsSoFar
<1> QED
  BY <1>1, <1>5 DEF ClosedInv, LoopsComputeBuildPlan, Done

(* What the sell loop has come past, it has sold if it is worth a sell.     *)
LEMMA PlanSellClosed ==
  ASSUME IInv, SellsSoFar, NEW s \in Symbols, PlanSell(s)
  PROVE  ClosedInv'
<1> DEFINE o == SellOf(s)
           n == Len(orders)
<1>1. /\ UNCHANGED <<call, positions_value>> /\ pc' = "sells" /\ pc = "sells"
      /\ s \in todo /\ todo' = todo \ {s} /\ \A t \in todo \ {s} : UniverseBefore(s, t)
  BY DEF PlanSell, NextSell
<1>2. orders' = Append(orders, o) /\ proceeds' = proceeds + o.value
  BY DEF PlanSell, SellOf
<1>3. s \in SoldNow /\ s \in Universe /\ delta(s) < 0 /\ ValidCall
  BY <1>1 DEF IInv, LoopInv, PlanSell, SoldNow
<1>4. o \in Order /\ o.symbol = s /\ o.value \in Nat
  BY <1>3, SellOfType
<1>5. SoldNow' = SoldNow /\ SellValues' = SellValues /\ SellOf(s)' = SellOf(s)
      /\ (\A t : SellOf(t)' = SellOf(t))
      /\ \A t, u : UniverseBefore(t, u)' <=> UniverseBefore(t, u)
  BY <1>1, SellsStand
<1> HIDE DEF o
<1>6. /\ n \in Nat /\ DOMAIN orders = 1..n /\ DOMAIN orders' = 1..(n + 1)
      /\ orders'[n + 1] = o /\ \A i \in 1..n : orders'[i] = orders[i]
  BY <1>2, <1>4 DEF IInv, TypeOK
<1> HIDE DEF n
<1>7. \A i \in 1..(n + 1) : i = n + 1 \/ i \in 1..n
  BY <1>6
<1> DEFINE past == SoldNow \ todo
<1>8. SoldNow' \ todo' = past \cup {s} /\ s \notin past
  BY <1>1, <1>3, <1>5
<1>9. /\ \A i \in 1..n : orders[i].symbol \in past /\ orders[i] = SellOf(orders[i].symbol)
      /\ \A t \in past : \E i \in 1..n : orders[i].symbol = t
      /\ \A i, j \in 1..n : i < j => UniverseBefore(orders[i].symbol, orders[j].symbol)
      /\ \A i \in 1..n, t \in todo : UniverseBefore(orders[i].symbol, t)
      /\ proceeds = SumFunctionOnSet(SellValues, past)
  BY <1>6 DEF SellsSoFar
<1>10. past \subseteq Symbols /\ s \in Symbols
  BY <1>3 DEF SoldNow, Universe, Basket, Held, IInv, TypeOK, IsCall
<1>11. proceeds' = SumFunctionOnSet(SellValues, past \cup {s})
  <2>1. IsFiniteSet(past \cup {s})
    BY <1>10, SymbolsAssumption, FS_Subset
  <2>2. ASSUME NEW t \in past \cup {s} PROVE SellValues[t] \in Int
    <3>1. t \in Universe /\ delta(t) < 0 /\ t \in Symbols
      BY <1>3, <1>10 DEF SoldNow
    <3>2. SellOf(t).value \in Nat
      BY <1>3, <3>1, SellOfType
    <3> QED
      BY <3>1, <3>2 DEF SellValues
  <2>3. (past \cup {s}) \ {s} = past
    BY <1>8
  <2>4. SellValues[s] = o.value
    BY <1>10 DEF SellValues, o
  <2> HIDE DEF past
  <2>5. SumFunctionOnSet(SellValues, past \cup {s})
          = SellValues[s] + SumFunctionOnSet(SellValues, past)
    BY <2>1, <2>2, <2>3, SumTakesOut
  <2>6. proceeds \in Nat
    BY DEF IInv, TypeOK
  <2> QED
    BY <1>2, <1>4, <1>9, <2>4, <2>5, <2>6
<1> HIDE DEF past
<1>12. ASSUME NEW i \in 1..(n + 1)
       PROVE  /\ orders'[i].symbol \in past \cup {s}
              /\ orders'[i] = SellOf(orders'[i].symbol)
              /\ \A t \in todo' : UniverseBefore(orders'[i].symbol, t)
  <2>1. CASE i = n + 1
    <3>1. orders'[i] = o
      BY <1>6, <2>1
    <3> QED
      BY <1>1, <1>4, <3>1 DEF o
  <2>2. CASE i \in 1..n
    BY <1>1, <1>6, <1>9, <2>2
  <2> QED
    BY <1>7, <2>1, <2>2
<1>13. ASSUME NEW t \in past \cup {s} PROVE \E i \in 1..(n + 1) : orders'[i].symbol = t
  <2>1. CASE t = s
    <3>1. n + 1 \in 1..(n + 1)
      BY <1>6
    <3> QED
      BY <1>4, <1>6, <2>1, <3>1
  <2>2. CASE t \in past
    <3>1. PICK i \in 1..n : orders[i].symbol = t
      BY <1>9, <2>2
    <3>2. i \in 1..(n + 1)
      BY <1>6
    <3> QED
      BY <1>6, <3>1, <3>2
  <2> QED
    BY <2>1, <2>2
<1>14. ASSUME NEW i \in 1..(n + 1), NEW j \in 1..(n + 1), i < j
       PROVE  UniverseBefore(orders'[i].symbol, orders'[j].symbol)
  <2>1. i \in 1..n /\ orders'[i] = orders[i]
    BY <1>6, <1>14
  <2>2. CASE j = n + 1
    BY <1>1, <1>4, <1>6, <1>9, <2>1, <2>2
  <2>3. CASE j \in 1..n
    BY <1>6, <1>9, <1>14, <2>1, <2>3
  <2> QED
    BY <1>7, <2>2, <2>3
<1>15. SellsSoFar'
  BY <1>5, <1>6, <1>8, <1>11, <1>12, <1>13, <1>14 DEF SellsSoFar
<1> QED
  BY <1>1, <1>15 DEF ClosedInv, LoopsComputeBuildPlan, Done

(* What is not worth a sell is not among the sells.                         *)
LEMMA SkipSellClosed ==
  ASSUME IInv, SellsSoFar, NEW s \in Symbols, SkipSell(s)
  PROVE  ClosedInv'
<1>1. /\ UNCHANGED <<call, positions_value, orders, proceeds>> /\ pc' = "sells"
      /\ todo' = todo \ {s} /\ s \notin SoldNow
  BY DEF SkipSell, NextSell, SoldNow
<1>2. SoldNow' = SoldNow /\ SellValues' = SellValues
      /\ (\A t : SellOf(t)' = SellOf(t))
      /\ \A t, u : UniverseBefore(t, u)' <=> UniverseBefore(t, u)
  BY <1>1, SellsStand
<1>3. SoldNow' \ todo' = SoldNow \ todo /\ todo' \subseteq todo
  BY <1>1, <1>2
<1>4. SellsSoFar'
  BY <1>1, <1>2, <1>3 DEF SellsSoFar
<1> QED
  BY <1>1, <1>4 DEF ClosedInv, LoopsComputeBuildPlan, Done

(* The buy loop starts from the sells, with the budget and the queue of the *)
(* functional form.                                                         *)
LEMMA StartBuysClosed ==
  ASSUME IInv, SellsSoFar, StartBuys
  PROVE  ClosedInv'
<1> DEFINE v == positions_value
           q == B!by_need(call, v)
           after == B!bought(call, v)
           sells == B!sells(call, v)
           first == [remaining |-> B!R(call, v, B!proceeds_of(call, v), 0)!budget,
                     buys |-> <<>>]
<1>1. /\ UNCHANGED <<call, positions_value, orders, proceeds>> /\ pc' = "buys"
      /\ todo = {} /\ todo' = UnderNow /\ remaining' = budget /\ ValidCall /\ TypeOK
  BY DEF StartBuys, UnderNow, IInv, LoopInv
<1>2. orders = sells /\ proceeds = B!proceeds_of(call, v)
  BY <1>1, AllSellsPlanned
<1>3. Len(q) \in Nat /\ UnderNow = {q[i] : i \in 1..Len(q)}
  <2>1. /\ Cardinality(UnderNow) \in Nat /\ Len(q) = Cardinality(UnderNow)
        /\ q \in [1..Cardinality(UnderNow) -> UnderNow]
        /\ \A s \in UnderNow : \E i \in 1..Cardinality(UnderNow) : q[i] = s
    BY <1>1, QueueOfBuys
  <2> HIDE DEF q
  <2> QED
    BY <2>1
<1> HIDE DEF q, sells, after
<1>4. after[0] = first
  BY <1>3, VisitByVisit DEF q, after
<1>5. first.remaining = budget /\ first.buys = <<>>
  BY <1>2, SameBuys
<1> HIDE DEF first
<1>6. sells \in Seq(Order) /\ orders = sells \o <<>> /\ after[0].buys \in Seq(Order)
  BY <1>2, <1>4, <1>5 DEF IInv, TypeOK
<1>7. /\ 0 \in 0..Len(q) /\ todo' = {q[i] : i \in (0 + 1)..Len(q)}
      /\ remaining' = after[0].remaining
      /\ orders' = sells \o after[0].buys
  BY <1>1, <1>3, <1>4, <1>5, <1>6
<1>8. /\ B!by_need(call, v)' = q /\ B!bought(call, v)' = after
      /\ B!sells(call, v)' = sells
  BY <1>1 DEF q, after, sells
<1>9. BuysSoFar'
  BY <1>6, <1>7, <1>8 DEF BuysSoFar
<1> QED
  BY <1>1, <1>9 DEF ClosedInv, LoopsComputeBuildPlan, Done

(* What is appended to a list is appended to what the list ends.            *)
LEMMA AppendedBehind ==
  ASSUME NEW S, NEW a \in Seq(S), NEW b \in Seq(S), NEW e \in S
  PROVE  Append(a \o b, e) = a \o Append(b, e) /\ Append(b, e) \in Seq(S)
<1>1. a \o b \in Seq(S) /\ Append(b, e) \in Seq(S)
  OBVIOUS
<1>2. Len(Append(a \o b, e)) = Len(a \o Append(b, e))
  OBVIOUS
<1>3. \A i \in 1..Len(Append(a \o b, e)) : Append(a \o b, e)[i] = (a \o Append(b, e))[i]
  OBVIOUS
<1> QED
  BY <1>1, <1>2, <1>3

(* A visit of the loop is a visit of `bought`: the loop is at the k-th, and *)
(* what the next one makes of budget and buys is what it makes of them.     *)
LEMMA BuyClosed ==
  ASSUME IInv, BuysSoFar, NEW s \in Symbols, PlanBuy(s) \/ SkipBuy(s)
  PROVE  ClosedInv'
<1> DEFINE v == positions_value
           q == B!by_need(call, v)
           after == B!bought(call, v)
           sells == B!sells(call, v)
           o == BuyOf(s)
           planned == affordable(s) > 0 /\ Worth(buy_qty(s), s)
<1>1. /\ UNCHANGED <<call, positions_value>> /\ pc' = "buys" /\ pc = "buys"
      /\ s \in todo /\ todo' = todo \ {s} /\ \A t \in todo \ {s} : BuyBefore(s, t)
      /\ ValidCall /\ TypeOK /\ s \in Universe /\ delta(s) > 0
  BY DEF PlanBuy, SkipBuy, NextBuy, IInv, LoopInv
<1>2. sells \in Seq(Order)
  BY DEF BuysSoFar
<1>3. PICK k \in 0..Len(q) :
        /\ todo = {q[i] : i \in (k + 1)..Len(q)}
        /\ remaining = after[k].remaining /\ after[k].buys \in Seq(Order)
        /\ orders = sells \o after[k].buys
  BY DEF BuysSoFar
<1>4. /\ k + 1 \in 1..Len(q) /\ q[k + 1] = s
      /\ todo' = {q[i] : i \in ((k + 1) + 1)..Len(q)}
  <2>1. /\ k + 1 \in 1..Len(q) /\ q[k + 1] = s
        /\ todo \ {s} = {q[i] : i \in (k + 2)..Len(q)}
    BY <1>1, <1>3, NextOfQueue
  <2>2. (k + 1) + 1 = k + 2
    BY <1>3
  <2> QED
    BY <1>1, <2>1, <2>2
<1>5. Len(q) \in Nat
  BY <1>1, QueueOfBuys
<1> DEFINE acc == after[k]
<1>6. after[k + 1] = B!buy(call, v, acc, s)
  <2>1. after[k + 1] = B!buy(call, v, after[(k + 1) - 1], q[k + 1])
    <3> HIDE DEF q, after
    <3> QED
      BY <1>4, <1>5, VisitByVisit DEF q, after
  <2>2. (k + 1) - 1 = k
    BY <1>3
  <2> HIDE DEF after, q
  <2> QED
    BY <1>4, <2>1, <2>2
<1> HIDE DEF q, after, sells
<1>7. after[k + 1] = IF planned
                     THEN [remaining |-> remaining - o.value, buys |-> Append(acc.buys, o)]
                     ELSE acc
  <2>1. acc.remaining = remaining
    BY <1>3
  <2>2. /\ B!buy_order(call, v, remaining, s) = o
        /\ B!R(call, v, 0, remaining)!affordable(s) = affordable(s)
        /\ B!R(call, v, 0, remaining)!Worth(o.quantity, s) <=> Worth(buy_qty(s), s)
    BY SameBuys
  <2> HIDE DEF acc, o
  <2> QED
    BY <1>6, <2>1, <2>2, Zenon DEF B!buy
<1>8. o \in Order /\ o.value \in Nat
  <2>1. buy_qty(s) \in Nat /\ value_of(buy_qty(s), call.price[s]) \in Nat
    BY <1>1, BuyBound DEF TypeOK
  <2> QED
    BY <2>1 DEF BuyOf, Order, Sides
<1>9. /\ remaining' = after[k + 1].remaining /\ after[k + 1].buys \in Seq(Order)
      /\ orders' = sells \o after[k + 1].buys
  <2>1. CASE planned
    <3>1. PlanBuy(s)
      <4>1. affordable(s) \in Int
        BY <1>1, Amounts DEF affordable, Smaller, TypeOK
      <4>2. affordable(s) > 0 /\ Worth(buy_qty(s), s)
        BY <2>1
      <4>3. ~(affordable(s) <= 0)
        BY <4>1, <4>2
      <4> QED
        BY <4>2, <4>3, Zenon DEF SkipBuy
    <3>2. orders' = Append(orders, o) /\ remaining' = remaining - o.value
      BY <3>1 DEF PlanBuy, BuyOf
    <3>3. after[k + 1] = [remaining |-> remaining - o.value, buys |-> Append(acc.buys, o)]
      BY <1>7, <2>1
    <3> HIDE DEF o, planned
    <3>4. Append(sells \o acc.buys, o) = sells \o Append(acc.buys, o)
          /\ Append(acc.buys, o) \in Seq(Order)
      BY <1>2, <1>3, <1>8, AppendedBehind
    <3> HIDE DEF acc
    <3>5. /\ after[k + 1].remaining = remaining - o.value
          /\ after[k + 1].buys = Append(acc.buys, o)
      BY <3>3
    <3> QED
      BY <1>3, <3>2, <3>4, <3>5 DEF acc
  <2>2. CASE ~planned
    <3>1. SkipBuy(s)
      BY <2>2 DEF PlanBuy
    <3>2. orders' = orders /\ remaining' = remaining
      BY <3>1 DEF SkipBuy
    <3>3. after[k + 1] = after[k]
      BY <1>7, <2>2
    <3> QED
      BY <1>3, <3>2, <3>3
  <2> QED
    BY <2>1, <2>2
<1>10. /\ B!by_need(call, v)' = q /\ B!bought(call, v)' = after
       /\ B!sells(call, v)' = sells
  BY <1>1 DEF q, after, sells
<1>11. k + 1 \in 0..Len(q)
  BY <1>4, <1>5
<1>12. BuysSoFar'
  BY <1>2, <1>4, <1>9, <1>10, <1>11 DEF BuysSoFar
<1> QED
  BY <1>1, <1>12 DEF ClosedInv, LoopsComputeBuildPlan, Done

(* The last visit made, the cap leaves what it leaves of the functional     *)
(* form.                                                                    *)
LEMMA FinishClosed ==
  ASSUME IInv, ValuedInv, BuysSoFar, Finish
  PROVE  ClosedInv'
<1> DEFINE v == positions_value
           q == B!by_need(call, v)
           after == B!bought(call, v)
           sells == B!sells(call, v)
           max == call.settings.max_orders
<1>1. /\ UNCHANGED <<call, positions_value>> /\ pc' = "done" /\ pc = "buys" /\ todo = {}
      /\ orders' = SubSeq(orders, 1, Smaller(Len(orders), max))
      /\ ValidCall /\ TypeOK
  BY DEF Finish, IInv, LoopInv
<1>2. PICK k \in 0..Len(q) :
        /\ todo = {q[i] : i \in (k + 1)..Len(q)}
        /\ orders = sells \o after[k].buys
  BY DEF BuysSoFar
<1>3. Len(q) = Cardinality(UnderNow) /\ Len(q) \in Nat
  BY <1>1, QueueOfBuys
<1> HIDE DEF q, after, sells
<1>4. k = Len(q)
  <2>1. k + 1 \notin (k + 1)..Len(q)
    BY <1>1, <1>2
  <2> QED
    BY <1>2, <1>3, <2>1
<1>5. B!positions_value_of(call) = v
  <2>1. positions_value = SumFunctionOnSet(Gross, Held) /\ IsCall(call)
    BY <1>1 DEF ValuedInv, TypeOK
  <2> QED
    BY <2>1, SameValue
<1>6. B!ordered(call) = orders'
  <2> DEFINE all == sells \o after[B!Cardinality(B!Under(call, v))].buys
  <2>1. B!ordered(call) = SubSeq(all, 1, B!Smaller(Len(all), max))
    BY <1>5 DEF B!ordered, sells, after
  <2>2. B!Cardinality(B!Under(call, v)) = k
    BY <1>3, <1>4, SameBuys, SameMoney
  <2>3. all = orders
    BY <1>2, <2>2
  <2> HIDE DEF all
  <2>4. B!Smaller(Len(all), max) = Smaller(Len(all), max)
    BY SameMoney
  <2> QED
    BY <1>1, <2>1, <2>3, <2>4
<1>7. B!plannable(call)
  BY <1>1, SameCalls
<1>8. B!plannable(call)' /\ orders' = B!ordered(call)'
  BY <1>1, <1>6, <1>7
<1> QED
  BY <1>1, <1>8 DEF ClosedInv, LoopsComputeBuildPlan, Done

(* Before the loops there is no plan, and a call is turned down only if the *)
(* functional form turns it down.                                           *)
LEMMA BeginningClosed == Beginning => ClosedInv
BY DEF Beginning, ClosedInv, LoopsComputeBuildPlan, Done

(* Every step of the loops keeps to the closed form.                        *)
LEMMA ClosedStep == IInv /\ ValuedInv /\ ClosedInv /\ [Next]_vars => ClosedInv'
<1> SUFFICES ASSUME IInv, ValuedInv, ClosedInv, [Next]_vars PROVE ClosedInv'
  OBVIOUS
<1>1. CASE Accept
  BY <1>1 DEF Accept, ClosedInv, LoopsComputeBuildPlan, Done
<1>2. CASE Reject
  <2>1. call' = call /\ pc' = "error" /\ ~B!plannable(call)
    BY <1>2, SameCalls DEF Reject
  <2>2. ~B!plannable(call)'
    BY <2>1
  <2> QED
    BY <2>1, <2>2 DEF ClosedInv, LoopsComputeBuildPlan, Done
<1>3. CASE StartSells
  BY <1>3, StartSellsClosed
<1>4. CASE StartBuys
  BY <1>4, StartBuysClosed DEF ClosedInv, StartBuys
<1>5. CASE Finish
  BY <1>5, FinishClosed DEF ClosedInv, Finish
<1>6. ASSUME NEW s \in Symbols, AddPosition(s) PROVE ClosedInv'
  BY <1>6 DEF AddPosition, ClosedInv, LoopsComputeBuildPlan, Done
<1>7. ASSUME NEW s \in Symbols, PlanSell(s) PROVE ClosedInv'
  BY <1>7, PlanSellClosed DEF ClosedInv, PlanSell, NextSell
<1>8. ASSUME NEW s \in Symbols, SkipSell(s) PROVE ClosedInv'
  BY <1>8, SkipSellClosed DEF ClosedInv, SkipSell, NextSell
<1>9. ASSUME NEW s \in Symbols, PlanBuy(s) \/ SkipBuy(s) PROVE ClosedInv'
  BY <1>9, BuyClosed DEF ClosedInv, PlanBuy, SkipBuy, NextBuy
<1>10. CASE UNCHANGED vars
  <2>1. UNCHANGED <<call, pc, todo, positions_value, proceeds, remaining, orders>>
    BY <1>10 DEF vars
  <2>2. SellsSoFar => SellsSoFar'
    BY <2>1, SellsStand DEF SellsSoFar
  <2>3. BuysSoFar => BuysSoFar'
    BY <2>1 DEF BuysSoFar
  <2>4. LoopsComputeBuildPlan => LoopsComputeBuildPlan'
    BY <2>1 DEF LoopsComputeBuildPlan, Done
  <2> QED
    BY <2>1, <2>2, <2>3, <2>4 DEF ClosedInv
<1> QED
  BY <1>1, <1>2, <1>3, <1>4, <1>5, <1>6, <1>7, <1>8, <1>9, <1>10 DEF Next

(* Whatever build_plan is called with, its loops return the plan that the   *)
(* functional form says, order by order, and raise exactly where it says    *)
(* that there is none: what is shown of the one holds of the other.         *)
THEOREM LoopsPlanAsStated == LoopSpec => []LoopsComputeBuildPlan
<1>1. Beginning => ValuedInv /\ ClosedInv
  BY BeginningClosed DEF Beginning, ValuedInv
<1>2. PlannerInv /\ ValuedInv /\ ClosedInv /\ [Next]_vars => ValuedInv' /\ ClosedInv'
  BY ValuedStep, ClosedStep DEF PlannerInv
<1>3. PlannerInv /\ AccountInv /\ ValuedInv /\ ClosedInv /\ [LoopNext]_allVars =>
        (ValuedInv' /\ ClosedInv') \/ Beginning'
  <2> SUFFICES ASSUME PlannerInv, AccountInv, ValuedInv, ClosedInv, [LoopNext]_allVars
               PROVE  (ValuedInv' /\ ClosedInv') \/ Beginning'
    OBVIOUS
  <2>1. CASE Plan
    BY <1>2, <2>1 DEF Plan
  <2>2. CASE Place \/ UNCHANGED allVars
    <3>1. UNCHANGED vars
      BY <2>2 DEF Place, allVars
    <3> QED
      BY <1>2, <3>1
  <2>3. CASE PlanAgain
    BY <2>3, AgainBegins DEF PlannerInv
  <2> QED
    BY <2>1, <2>2, <2>3 DEF LoopNext
<1>4. ClosedInv => LoopsComputeBuildPlan
  BY DEF ClosedInv
<1>5. LoopInit => Beginning
  BY InitBegins DEF LoopInit
<1> QED
  BY <1>1, <1>3, <1>4, <1>5, LoopInductive, PTL DEF LoopSpec

-----------------------------------------------------------------------------
(* One pass suffices.  What is planned of an account is everything there is *)
(* to do, so the account it leaves has nothing more to plan: shown of whole *)
(* shares and of a plan with room for every symbol.                         *)

Uncapped == call.settings.max_orders >= Cardinality(Symbols)
Plain == ~call.settings.allow_fractional /\ Uncapped
WholeCall == Plain /\ HoldsWholeShares

(* The position an order moves, where it is read as it is.                  *)
Moved(o) == call.held[o.symbol] + (IF o.side = "buy" THEN o.quantity ELSE 0 - o.quantity)

(* What an account is worth, unrounded, and what the planner makes of it.   *)
WorthOf(c, h) ==
  c * SHARE + SumFunctionOnSet([s \in Symbols |-> h[s] * call.price[s]], Symbols)
InvestableOf(t) == Smaller(call.settings.investment_amount, money(t, SHARE))
TargetOf(t, s) == apply_bps(less_buffer(InvestableOf(t)), target_bps(s))
FreeOf(c, t) ==
  LET free == c - apply_bps(InvestableOf(t), call.settings.cash_buffer_bps)
  IN  IF free < 0 THEN 0 ELSE free
GapOf(t, h, s) == TargetOf(t, s) - value_of(h[s], call.price[s])

(* No sell and no buy of s is worth an order, and so of any symbol.         *)
NoSellOf(t, h, s) ==
  ~Worth(IF TargetOf(t, s) = 0 THEN h[s]
         ELSE Smaller(shares(Abs(GapOf(t, h, s)), call.price[s]), h[s]), s)
NoBuyOf(c, t, h, s) ==
  LET a == Smaller(GapOf(t, h, s), FreeOf(c, t))
  IN  a <= 0 \/ ~Worth(shares(a, call.price[s]), s)
NothingToDo(c, h) ==
  \A s \in Symbols : s \in Basket \/ h[s] > 0 =>
    LET t == WorthOf(c, h) IN
    /\ GapOf(t, h, s) < 0 => NoSellOf(t, h, s)
    /\ GapOf(t, h, s) > 0 => NoBuyOf(c, t, h, s)

(* Where nothing is cut off, what is planned is what is kept.               *)
SpentInv ==
  Uncapped => /\ raised = proceeds
              /\ pc \in {"buys", "done"} => remaining + spent = budget
              /\ \A k \in skipped : k.why # "capped"

(* A buy of whole shares leaves less than another share to spend on its     *)
(* symbol, and what was declined stays declined as the budget falls.        *)
Enough(o) ==
  /\ o.side = "sell" => o.quantity = sell_qty(o.symbol)
  /\ o.side = "buy" =>
       /\ o.quantity % SHARE = 0
       /\ Smaller(delta(o.symbol) - o.value, remaining) < call.price[o.symbol]
EnoughInv ==
  ~call.settings.allow_fractional =>
    /\ \A k \in skipped : k.side = "buy" /\ k.why # "capped" => Declines(k.symbol)
    /\ \A i \in DOMAIN orders : Enough(orders[i])

(* The orders placed have moved the account to its targets at no loss.      *)
MovedInv ==
  WholeCall =>
    /\ WorthOf(cash, held) = WorthOf(call.cash, call.held)
    /\ \A i \in DOMAIN orders : i <= placed => held[orders[i].symbol] = Moved(orders[i])
    /\ \A s \in Symbols :
         (\A i \in DOMAIN orders : i <= placed => orders[i].symbol # s)
           => held[s] = call.held[s]

(* Of an account at which there is nothing to do nothing is planned.        *)
QuietInv ==
  pass = "whole" /\ Plain =>
    /\ NothingToDo(call.cash, call.held)
    /\ orders = <<>> /\ proceeds = 0
    /\ pc \in {"buys", "done"} => remaining = budget

-----------------------------------------------------------------------------
(* Whole shares: division, rounding and value are exact.                    *)
LEMMA DivGrows ==
  ASSUME NEW a \in Nat, NEW b \in Nat, a <= b, NEW d \in Nat \ {0}
  PROVE  a \div d <= b \div d
<1> DEFINE q == b \div d
<1>1. q \in Nat /\ b < (q + 1) * d
  BY DivBelow, DivIsNear
<1> HIDE DEF q
<1>2. (q + 1) * d \in Nat
  BY <1>1, Z3
<1>3. a < (q + 1) * d
  BY <1>1, <1>2
<1>4. a \div d <= q
  BY <1>1, <1>3, DivBound
<1> QED
  BY <1>4 DEF q

LEMMA MoneyOfWhole ==
  ASSUME NEW k \in Nat, NEW d \in Nat \ {0}
  PROVE  money(k * d, d) = k
BY HalfUpOfWhole DEF money

LEMMA WholeValue ==
  ASSUME NEW k \in Nat, NEW p \in Nat
  PROVE  k * p \in Nat /\ value_of(k * SHARE, p) = k * p
<1>1. SHARE \in Nat \ {0}
  BY ShareAssumption
<1>2. k * p \in Nat /\ (k * SHARE) * p = (k * p) * SHARE
  BY <1>1, Z3
<1> DEFINE v == k * p
<1>3. value_of(k * SHARE, p) = money(v * SHARE, SHARE)
  BY <1>2 DEF value_of
<1>4. v \in Nat
  BY <1>2
<1> HIDE DEF v
<1>5. money(v * SHARE, SHARE) = v
  BY <1>1, <1>4, MoneyOfWhole
<1> QED
  BY <1>2, <1>3, <1>5 DEF v

(* A quantity of whole shares is so many of them.                           *)
LEMMA WholeQuantity ==
  ASSUME NEW q \in Nat, q % SHARE = 0
  PROVE  \E k \in Nat : q = k * SHARE
<1>1. SHARE \in Nat \ {0}
  BY ShareAssumption
<1>2. q = SHARE * (q \div SHARE) + (q % SHARE) /\ q \div SHARE \in Nat
  BY <1>1, DivBelow, Z3
<1> DEFINE k == q \div SHARE
<1>3. q = SHARE * k + (q % SHARE) /\ k \in Nat
  BY <1>2
<1> HIDE DEF k
<1>4. SHARE * k = k * SHARE /\ SHARE * k \in Nat
  BY <1>1, <1>3, Z3
<1>5. q = k * SHARE
  BY <1>3, <1>4
<1> QED
  BY <1>3, <1>5

LEMMA WholeRest ==
  ASSUME NEW k \in Nat
  PROVE  k * SHARE \in Nat /\ (k * SHARE) % SHARE = 0
BY ShareAssumption, Z3

(* The broker reads whole shares as they are, if a share is so many of what *)
(* it reads.                                                                *)
LEMMA WholeIsRead ==
  ASSUME SHARE % GRAIN = 0, NEW q \in Nat, q % SHARE = 0
  PROVE  held_as_read(q) = q
<1>1. SHARE \in Nat \ {0} /\ GRAIN \in Nat \ {0}
  BY ShareAssumption, GrainAssumption
<1>2. PICK k \in Nat : q = k * SHARE
  BY WholeQuantity
<1> DEFINE j == SHARE \div GRAIN
<1>3. j \in Nat /\ SHARE = GRAIN * j + (SHARE % GRAIN)
  BY <1>1, DivBelow, Z3
<1> HIDE DEF j
<1>4. SHARE = j * GRAIN
  <2>1. GRAIN * j = j * GRAIN /\ GRAIN * j \in Nat
    BY <1>1, <1>3, Z3
  <2> QED
    BY <1>3, <2>1
<1> DEFINE n == k * j
<1>5. n \in Nat /\ q = n * GRAIN
  BY <1>1, <1>2, <1>3, <1>4, Z3
<1> HIDE DEF n
<1>6. money(n * GRAIN, GRAIN) = n
  BY <1>1, <1>5, MoneyOfWhole
<1> QED
  BY <1>5, <1>6 DEF held_as_read

(* What a bot that trades whole shares makes of an amount.                  *)
LEMMA WholeShares ==
  ASSUME ~call.settings.allow_fractional, NEW a \in Nat, NEW p \in Nat \ {0}
  PROVE  \E k \in Nat : /\ shares(a, p) = k * SHARE /\ k * p \in Nat
                        /\ k * p <= a /\ a - k * p < p
                        /\ value_of(shares(a, p), p) = k * p
                        /\ (a < p => k = 0)
<1> DEFINE k == a \div p
<1>1. k \in Nat /\ k * p <= a /\ a < (k + 1) * p
  BY DivBelow, DivIsNear
<1>2. shares(a, p) = k * SHARE
  BY DEF shares, whole_shares
<1>3. a < p => k <= 0
  <2>1. a < p => a < (0 + 1) * p
    BY Z3
  <2> QED
    BY <2>1, DivBound
<1> HIDE DEF k
<1>4. k * p \in Nat /\ (k + 1) * p = k * p + p
  BY <1>1, Z3
<1>5. a - k * p < p
  BY <1>1, <1>4
<1>6. value_of(shares(a, p), p) = k * p
  BY <1>1, <1>2, WholeValue
<1> QED
  BY <1>1, <1>2, <1>3, <1>4, <1>5, <1>6

(* Less than a share is not worth an order.                                 *)
LEMMA LessThanAShare ==
  ASSUME ~call.settings.allow_fractional, NEW s, call.price[s] \in Nat \ {0},
         NEW a \in Nat, a < call.price[s]
  PROVE  shares(a, call.price[s]) = 0 /\ ~Worth(shares(a, call.price[s]), s)
<1>1. shares(a, call.price[s]) = 0 * SHARE
  BY WholeShares
<1>2. 0 * SHARE = 0
  BY ShareAssumption, Z3
<1> QED
  BY <1>1, <1>2 DEF Worth

(* What a larger amount is not worth a smaller one is not.                  *)
LEMMA WorthGrows ==
  ASSUME ~call.settings.allow_fractional, IsCall(call),
         NEW s, call.price[s] \in Nat \ {0}, NEW a \in Nat, NEW b \in Nat, a <= b,
         Worth(shares(a, call.price[s]), s)
  PROVE  Worth(shares(b, call.price[s]), s)
<1> DEFINE p == call.price[s]
           j == a \div p
           k == b \div p
           m == call.settings.min_order_value
<1>1. p \in Nat \ {0} /\ m \in Nat /\ SHARE \in Nat \ {0}
  BY ShareAssumption DEF IsCall, Settings
<1>2. j \in Nat /\ k \in Nat /\ j <= k
  BY <1>1, DivBelow, DivGrows
<1>3. shares(a, p) = j * SHARE /\ shares(b, p) = k * SHARE
  BY DEF shares, whole_shares
<1>4. j * SHARE > 0 /\ value_of(j * SHARE, p) >= m
  BY <1>3 DEF Worth
<1> SUFFICES k * SHARE > 0 /\ value_of(k * SHARE, p) >= m
  BY <1>3 DEF Worth
<1> HIDE DEF p, j, k, m
<1>5. value_of(j * SHARE, p) = j * p /\ value_of(k * SHARE, p) = k * p
  BY <1>1, <1>2, WholeValue
<1>6. j * p <= k * p /\ j * SHARE <= k * SHARE
  BY <1>1, <1>2, Z3
<1>7. j * p \in Nat /\ k * p \in Nat /\ j * SHARE \in Nat /\ k * SHARE \in Nat
  BY <1>1, <1>2, Z3
<1> QED
  BY <1>1, <1>4, <1>5, <1>6, <1>7

-----------------------------------------------------------------------------
(* A plan has no more orders than there are symbols.                        *)
LEMMA PlanFits ==
  ASSUME IInv, PlanInv
  PROVE  Len(orders) <= Cardinality(Symbols)
<1> DEFINE n == Len(orders)
<1>1. n \in Nat /\ DOMAIN orders = 1..n
  BY DEF IInv, TypeOK
<1>2. IsFiniteSet(Symbols)
  BY SymbolsAssumption
<1> DEFINE f == [i \in 1..n |-> orders[i].symbol]
<1>3. f \in [1..n -> Symbols]
  BY <1>1, OrderedSymbol
<1>4. \A i, j \in 1..n : f[i] = f[j] => i = j
  BY <1>1, OneOrderEach
<1> HIDE DEF f
<1>5. f \in Injection(1..n, Symbols)
  BY <1>3, <1>4 DEF Injection, IsInjective
<1>6. Cardinality(1..n) <= Cardinality(Symbols)
  BY <1>2, <1>5, FS_Injection
<1>7. Cardinality(1..n) = n
  <2>1. Cardinality(1..n) = IF 1 > n THEN 0 ELSE n - 1 + 1
    BY <1>1, FS_Interval
  <2> QED
    BY <1>1, <2>1
<1> QED
  BY <1>6, <1>7

LEMMA SymbolsCount == Cardinality(Symbols) \in Nat
BY SymbolsAssumption, FS_CardinalityType

(* So with room for all of them the cap cuts nothing off.                   *)
LEMMA KeptWhole ==
  ASSUME PlannerInv, [Next]_vars, Uncapped, NEW o, orders' = Append(orders, o)
  PROVE  Kept
<1>1. IInv' /\ PlanInv'
  BY PlannerStep DEF PlannerInv
<1>2. Len(orders') <= Cardinality(Symbols)
  <2>1. (Len(orders) <= Cardinality(Symbols))'
    BY <1>1, PlanFits, PTL
  <2> QED
    BY <2>1
<1>3. Len(orders') = Len(orders) + 1 /\ Len(orders) \in Nat
  BY DEF PlannerInv, IInv, TypeOK
<1>4. call.settings.max_orders \in Nat /\ call.settings.max_orders >= Cardinality(Symbols)
  BY DEF Uncapped, PlannerInv, IInv, TypeOK, IsCall, Settings
<1> QED
  BY <1>2, <1>3, <1>4, SymbolsCount DEF Kept

LEMMA FinishKeeps ==
  ASSUME PlannerInv, Uncapped, Finish
  PROVE  orders' = orders /\ skipped' = skipped
<1> DEFINE n == Smaller(Len(orders), call.settings.max_orders)
<1>1. /\ Len(orders) \in Nat /\ orders \in Seq(Order)
      /\ call.settings.max_orders \in Nat /\ call.settings.max_orders >= Cardinality(Symbols)
  BY DEF Uncapped, PlannerInv, IInv, TypeOK, IsCall, Settings
<1>2. n = Len(orders)
  BY <1>1, PlanFits, SymbolsCount DEF PlannerInv, Smaller
<1>3. /\ orders' = SubSeq(orders, 1, n)
      /\ skipped' = skipped \cup {[symbol |-> orders[i].symbol, side |-> orders[i].side,
                                   why |-> "capped"] : i \in (n + 1)..Len(orders)}
  BY DEF Finish
<1> HIDE DEF n
<1>4. SubSeq(orders, 1, Len(orders)) = orders
  BY <1>1
<1>5. (n + 1)..Len(orders) = {}
  BY <1>1, <1>2
<1> QED
  BY <1>2, <1>3, <1>4, <1>5

LEMMA BudgetStands ==
  ASSUME UNCHANGED <<call, positions_value, proceeds>>
  PROVE  budget' = budget /\ reserved' = reserved
BY TargetsStand DEF budget

LEMMA SpentStep ==
  ASSUME PlannerInv, SpentInv, Next
  PROVE  SpentInv'
<1> SUFFICES ASSUME Uncapped'
             PROVE  /\ raised' = proceeds'
                    /\ pc' \in {"buys", "done"} => remaining' + spent' = budget'
                    /\ \A k \in skipped' : k.why # "capped"
  BY DEF SpentInv
<1>0. call' = call /\ [Next]_vars
  BY DEF Next, Accept, Reject, StartSells, StartBuys, Finish, AddPosition,
         PlanSell, SkipSell, PlanBuy, SkipBuy, NextSell, NextBuy
<1>1. Uncapped
  BY <1>0 DEF Uncapped
<1>2. /\ raised = proceeds /\ (pc \in {"buys", "done"} => remaining + spent = budget)
      /\ \A k \in skipped : k.why # "capped"
  BY <1>1 DEF SpentInv
<1>3. /\ raised \in Nat /\ spent \in Nat /\ remaining \in Nat /\ proceeds \in Nat
  BY DEF PlannerInv, IInv, TypeOK
<1>4. CASE Accept \/ Reject \/ StartSells
  BY <1>2, <1>4 DEF Accept, Reject, StartSells
<1>5. CASE StartBuys
  <2>1. /\ UNCHANGED <<call, positions_value, proceeds, raised, spent, skipped>>
        /\ remaining' = budget /\ spent = 0
    BY <1>5 DEF StartBuys, PlannerInv, IInv, SellsInv
  <2>2. budget' = budget /\ budget \in Nat
    <3>1. IInv /\ ValidCall
      BY <1>5 DEF StartBuys, PlannerInv, IInv, LoopInv
    <3> QED
      BY <2>1, <3>1, BudgetStands, BudgetType DEF IInv
  <2> QED
    BY <1>2, <2>1, <2>2
<1>6. CASE Finish
  <2>1. /\ UNCHANGED <<call, positions_value, proceeds, remaining, raised, spent>>
        /\ pc = "buys" /\ skipped' = skipped
    BY <1>1, <1>6, FinishKeeps DEF Finish
  <2> QED
    BY <1>2, <2>1, BudgetStands
<1>7. ASSUME NEW s \in Symbols, AddPosition(s)
      PROVE  UNCHANGED <<raised, proceeds, skipped>> /\ pc' = "value"
  BY <1>7 DEF AddPosition
<1>8. ASSUME NEW s \in Symbols, SkipSell(s)
      PROVE  /\ UNCHANGED <<raised, proceeds>> /\ pc' = "sells"
             /\ \A k \in skipped' : k \in skipped \/ k.why # "capped"
  <2> DEFINE k == [symbol |-> s, side |-> "sell",
                   why |-> IF sell_qty(s) > 0 THEN "dust" ELSE "zero shares"]
  <2>1. /\ UNCHANGED <<raised, proceeds>> /\ pc' = "sells"
        /\ skipped' = skipped \cup {k}
    BY <1>8 DEF SkipSell, NextSell
  <2>2. k.why # "capped"
    OBVIOUS
  <2> HIDE DEF k
  <2> QED
    BY <2>1, <2>2
<1>9. ASSUME NEW s \in Symbols, SkipBuy(s)
      PROVE  /\ UNCHANGED <<call, positions_value, raised, proceeds, remaining, spent, pc>>
             /\ pc = "buys"
             /\ \A k \in skipped' : k \in skipped \/ k.why # "capped"
  <2> DEFINE k == [symbol |-> s, side |-> "buy",
                   why |-> IF affordable(s) <= 0 THEN "no cash"
                           ELSE IF buy_qty(s) > 0 THEN "dust" ELSE "zero shares"]
  <2>1. /\ UNCHANGED <<call, positions_value, raised, proceeds, remaining, spent, pc>>
        /\ pc = "buys" /\ skipped' = skipped \cup {k}
    BY <1>9 DEF SkipBuy, NextBuy
  <2>2. k.why # "capped"
    OBVIOUS
  <2> HIDE DEF k
  <2> QED
    BY <2>1, <2>2
<1>10. ASSUME NEW s \in Symbols, PlanSell(s)
       PROVE  raised' = proceeds' /\ pc' = "sells" /\ skipped' = skipped
  <2>1. Kept
    BY <1>0, <1>1, <1>10, KeptWhole DEF PlanSell
  <2> QED
    BY <1>2, <1>10, <2>1 DEF PlanSell, NextSell
<1>11. ASSUME NEW s \in Symbols, PlanBuy(s)
       PROVE  /\ UNCHANGED <<call, positions_value, raised, proceeds, skipped>>
              /\ remaining' + spent' = budget
  <2>1. Kept
    BY <1>0, <1>1, <1>11, KeptWhole DEF PlanBuy
  <2> DEFINE v == value_of(buy_qty(s), call.price[s])
  <2>2. v \in Nat
    <3>1. /\ s \in Universe /\ delta(s) > 0 /\ ValidCall /\ IsCall(call)
          /\ positions_value \in Nat
      BY <1>11 DEF PlanBuy, NextBuy, PlannerInv, IInv, LoopInv, TypeOK
    <3> QED
      BY <1>3, <3>1, BuyBound
  <2>3. /\ remaining' = remaining - v /\ spent' = spent + v /\ pc = "buys"
        /\ UNCHANGED <<call, positions_value, raised, proceeds, skipped>>
    BY <1>11, <2>1 DEF PlanBuy, NextBuy
  <2> HIDE DEF v
  <2>4. remaining' + spent' = remaining + spent
    BY <1>3, <2>2, <2>3
  <2> QED
    BY <1>2, <2>3, <2>4
<1> QED
  BY <1>2, <1>4, <1>5, <1>6, <1>7, <1>8, <1>9, <1>10, <1>11, BudgetStands DEF Next

-----------------------------------------------------------------------------
(* What is declined stays declined.                                         *)
LEMMA DeclinesOn ==
  ASSUME IsCall(call), ValidCall, positions_value \in Nat, ~call.settings.allow_fractional,
         UNCHANGED <<call, positions_value>>, remaining \in Nat, remaining' \in Nat,
         remaining' <= remaining, NEW s \in Universe, delta(s) > 0, Declines(s)
  PROVE  Declines(s)'
<1> DEFINE p == call.price[s]
           a == affordable(s)
           b == Smaller(delta(s), remaining')
<1>1. delta(s)' = delta(s) /\ delta(s) \in Nat /\ p \in Nat \ {0}
  BY TargetsStand, Amounts
<1>2. affordable(s)' = b /\ a \in Nat /\ b \in Nat /\ b <= a
  BY <1>1 DEF affordable, Smaller
<1>3. buy_qty(s)' = shares(b, p)
  BY <1>2 DEF buy_qty, shares, quantity, whole_shares
<1>4. Worth(buy_qty(s), s)' <=> Worth(shares(b, p), s)
  <2>1. (buy_qty(s) > 0)' <=> shares(b, p) > 0
    BY <1>3
  <2>2. value_of(buy_qty(s), call.price[s])' = value_of(shares(b, p), p)
    BY <1>3 DEF value_of
  <2>3. call'.settings = call.settings
    OBVIOUS
  <2> QED
    BY <2>1, <2>2, <2>3 DEF Worth
<1>5. CASE a <= 0
  BY <1>2, <1>5 DEF Declines
<1>6. CASE ~Worth(buy_qty(s), s)
  <2>1. ~Worth(shares(a, p), s)
    BY <1>6 DEF buy_qty
  <2> HIDE DEF a, b
  <2>2. ~Worth(shares(b, p), s)
    BY <1>1, <1>2, <2>1, WorthGrows
  <2> QED
    BY <1>4, <2>2 DEF Declines
<1> QED
  BY <1>5, <1>6 DEF Declines

LEMMA EnoughOn ==
  ASSUME IsCall(call), ValidCall, positions_value \in Nat,
         UNCHANGED <<call, positions_value>>, remaining \in Nat, remaining' \in Nat,
         remaining' <= remaining, NEW o \in Order, o.symbol \in Universe, Enough(o)
  PROVE  Enough(o)'
<1>1. delta(o.symbol)' = delta(o.symbol) /\ delta(o.symbol) \in Int
  BY TargetsStand, Amounts
<1>2. sell_qty(o.symbol)' = sell_qty(o.symbol)
  BY SellStands
<1>3. call.price[o.symbol] \in Nat /\ o.value \in Nat
  BY Amounts DEF Order
<1> DEFINE d == delta(o.symbol) - o.value
<1>4. d \in Int /\ (delta(o.symbol) - o.value)' = d
  BY <1>1, <1>3
<1> HIDE DEF d
<1>5. Smaller(d, remaining) < call.price[o.symbol] =>
        Smaller(d, remaining') < call.price[o.symbol]
  BY <1>3, <1>4 DEF Smaller
<1> QED
  BY <1>1, <1>2, <1>5 DEF Enough, d

(* A buy leaves less than another share.                                    *)
LEMMA BuysEnough ==
  ASSUME IInv, ~call.settings.allow_fractional, NEW s \in Symbols, PlanBuy(s)
  PROVE  /\ s \in Universe /\ delta(s) > 0
         /\ buy_qty(s) \in Nat /\ buy_qty(s) % SHARE = 0
         /\ remaining' \in Nat /\ remaining' <= remaining
         /\ Smaller(delta(s) - value_of(buy_qty(s), call.price[s]), remaining')
              < call.price[s]
<1>1. /\ s \in Universe /\ delta(s) > 0 /\ ValidCall /\ IsCall(call)
      /\ positions_value \in Nat /\ remaining \in Nat
      /\ remaining' = remaining - value_of(buy_qty(s), call.price[s])
      /\ affordable(s) > 0
  BY DEF PlanBuy, NextBuy, IInv, LoopInv, TypeOK
<1> DEFINE a == affordable(s)
           d == delta(s)
           p == call.price[s]
           q == buy_qty(s)
           v == value_of(q, p)
<1>2. d \in Nat /\ p \in Nat \ {0}
  BY <1>1, Amounts
<1>3. a \in Nat /\ a = Smaller(d, remaining)
  BY <1>1, <1>2 DEF affordable, Smaller
<1>4. q = shares(a, p)
  BY DEF buy_qty
<1>5. q \in Nat /\ v \in Nat /\ v <= remaining /\ v <= d
  BY <1>1, BuyBound
<1> HIDE DEF a, d, p
<1>6. PICK k \in Nat : q = k * SHARE /\ v = k * p /\ k * p <= a /\ a - k * p < p
  BY <1>2, <1>3, <1>4, WholeShares
<1>7. q % SHARE = 0
  BY <1>6, WholeRest
<1> HIDE DEF q, v
<1>8. a - v < p
  BY <1>6
<1>9. remaining' = remaining - v
  BY <1>1 DEF v, q, p
<1>10. Smaller(d - v, remaining') < p
  BY <1>1, <1>2, <1>3, <1>5, <1>8, <1>9 DEF Smaller
<1>11. remaining' \in Nat /\ remaining' <= remaining
  BY <1>1, <1>5, <1>9
<1> QED
  BY <1>1, <1>5, <1>7, <1>10, <1>11 DEF d, p, q, v

(* What the loops have come past stays so while the budget falls.           *)
LEMMA EnoughCarried ==
  ASSUME PlannerInv, EnoughInv, ~call.settings.allow_fractional,
         pc \in {"sells", "buys"}, UNCHANGED <<call, positions_value>>,
         remaining' \in Nat, remaining' <= remaining
  PROVE  /\ \A k \in skipped : k.side = "buy" /\ k.why # "capped" => Declines(k.symbol)'
         /\ \A o : (\E i \in DOMAIN orders : o = orders[i]) => Enough(o)'
<1>1. /\ IsCall(call) /\ ValidCall /\ positions_value \in Nat /\ remaining \in Nat
      /\ orders \in Seq(Order)
  BY DEF PlannerInv, IInv, LoopInv, TypeOK
<1>2. ASSUME NEW k \in skipped, k.side = "buy", k.why # "capped"
      PROVE  Declines(k.symbol)'
  <2>1. Declines(k.symbol) /\ k.symbol \in Universe /\ delta(k.symbol) > 0
    BY <1>2 DEF EnoughInv, PlannerInv, ReasonInv
  <2> QED
    BY <1>1, <2>1, DeclinesOn
<1>3. ASSUME NEW o, \E i \in DOMAIN orders : o = orders[i]
      PROVE  Enough(o)'
  <2>1. o \in Order /\ Enough(o) /\ o.symbol \in Universe
    BY <1>1, <1>3 DEF EnoughInv, PlannerInv, PlanInv, SortedInv
  <2> QED
    BY <1>1, <2>1, EnoughOn
<1> QED
  BY <1>2, <1>3

(* A plan grown by one order that takes enough. *)
LEMMA EnoughGrows ==
  ASSUME orders \in Seq(Order), NEW o, orders' = Append(orders, o), skipped' = skipped,
         Enough(o)',
         \A k \in skipped : k.side = "buy" /\ k.why # "capped" => Declines(k.symbol)',
         \A i \in DOMAIN orders : \A x : x = orders[i] => Enough(x)'
  PROVE  EnoughInv'
<1>1. /\ DOMAIN orders' = DOMAIN orders \cup {Len(orders) + 1}
      /\ \A i \in DOMAIN orders : orders'[i] = orders[i]
      /\ orders'[Len(orders) + 1] = o
  OBVIOUS
<1>2. \A i \in DOMAIN orders' : Enough(orders[i])'
  BY <1>1
<1> QED
  BY <1>2 DEF EnoughInv

LEMMA EnoughStep ==
  ASSUME PlannerInv, EnoughInv, Next
  PROVE  EnoughInv'
<1> SUFFICES ASSUME ~call'.settings.allow_fractional
             PROVE  /\ \A k \in skipped' :
                         k.side = "buy" /\ k.why # "capped" => Declines(k.symbol)'
                    /\ \A i \in DOMAIN orders' : Enough(orders[i])'
  BY DEF EnoughInv
<1>0. call' = call
  BY DEF Next, Accept, Reject, StartSells, StartBuys, Finish, AddPosition,
         PlanSell, SkipSell, PlanBuy, SkipBuy, NextSell, NextBuy
<1>1. ~call.settings.allow_fractional
  BY <1>0
<1>2. /\ remaining \in Nat /\ remaining <= remaining /\ orders \in Seq(Order)
      /\ IsCall(call) /\ positions_value \in Nat
  BY DEF PlannerInv, IInv, TypeOK
<1>3. pc \notin {"buys", "done"} => \A k \in skipped : k.side = "sell"
  BY DEF PlannerInv, PlanInv, ShortInv
<1>4. CASE Accept \/ Reject \/ StartSells \/ \E s \in Symbols : AddPosition(s)
  <2>1. UNCHANGED <<orders, skipped>> /\ pc \in {"validate", "value"}
    BY <1>4 DEF Accept, Reject, StartSells, AddPosition
  <2>2. orders = <<>>
    BY <2>1 DEF PlannerInv, IInv, FreshInv
  <2> QED
    BY <1>3, <2>1, <2>2
<1>5. CASE StartBuys
  <2>1. /\ UNCHANGED <<call, positions_value, orders, skipped>> /\ pc = "sells"
        /\ \A i \in DOMAIN orders : orders[i].side = "sell"
    BY <1>5 DEF StartBuys, PlannerInv, IInv, SellsInv
  <2>2. ASSUME NEW i \in DOMAIN orders'
        PROVE  Enough(orders[i])'
    <3>1. PICK o : o = orders[i]
      OBVIOUS
    <3>2. o.side = "sell" /\ o.quantity = sell_qty(o.symbol) /\ orders'[i] = o
      BY <1>1, <2>1, <3>1 DEF EnoughInv, Enough
    <3>3. sell_qty(o.symbol)' = sell_qty(o.symbol)
      BY <2>1, SellStands
    <3>4. Enough(o)'
      BY <3>2, <3>3 DEF Enough
    <3> QED
      BY <3>2, <3>4
  <2> QED
    BY <1>3, <2>1, <2>2
<1>6. ASSUME pc \in {"sells", "buys"}, UNCHANGED positions_value,
             remaining' \in Nat, remaining' <= remaining
      PROVE  /\ \A k \in skipped : k.side = "buy" /\ k.why # "capped" => Declines(k.symbol)'
             /\ \A i \in DOMAIN orders : \A o : o = orders[i] => Enough(o)'
  BY <1>0, <1>1, <1>6, EnoughCarried
<1>7. ASSUME NEW s \in Symbols, PlanSell(s)
      PROVE  EnoughInv'
  <2>1. PICK o : o = [symbol |-> s, side |-> "sell", quantity |-> sell_qty(s),
                      value |-> value_of(sell_qty(s), call.price[s])]
    OBVIOUS
  <2>2. /\ UNCHANGED <<call, positions_value, remaining, skipped>> /\ pc = "sells"
        /\ orders' = Append(orders, o)
    BY <1>7, <2>1 DEF PlanSell, NextSell
  <2>3. o.side = "sell" /\ o.symbol = s /\ o.quantity = sell_qty(s)
    BY <2>1
  <2>4. sell_qty(s)' = sell_qty(s)
    BY <2>2, SellStands
  <2>5. Enough(o)'
    BY <2>3, <2>4 DEF Enough
  <2>6. /\ \A k \in skipped : k.side = "buy" /\ k.why # "capped" => Declines(k.symbol)'
        /\ \A i \in DOMAIN orders : \A x : x = orders[i] => Enough(x)'
    BY <1>2, <1>6, <2>2
  <2> QED
    BY <1>2, <2>2, <2>5, <2>6, EnoughGrows
<1>8. ASSUME NEW s \in Symbols, PlanBuy(s)
      PROVE  EnoughInv'
  <2>1. PICK o : o = [symbol |-> s, side |-> "buy", quantity |-> buy_qty(s),
                      value |-> value_of(buy_qty(s), call.price[s])]
    OBVIOUS
  <2>2. /\ UNCHANGED <<call, positions_value, skipped>> /\ pc = "buys"
        /\ orders' = Append(orders, o)
    BY <1>8, <2>1 DEF PlanBuy, NextBuy
  <2>3. /\ o.side = "buy" /\ o.symbol = s /\ o.quantity = buy_qty(s)
        /\ o.value = value_of(buy_qty(s), call.price[s])
    BY <2>1
  <2>4. /\ buy_qty(s) % SHARE = 0 /\ remaining' \in Nat /\ remaining' <= remaining
        /\ Smaller(delta(s) - o.value, remaining') < call.price[s]
    BY <1>1, <1>8, <2>3, BuysEnough DEF PlannerInv
  <2>5. delta(s)' = delta(s)
    BY <2>2, TargetsStand
  <2>6. Smaller(delta(s) - o.value, remaining)' < call'.price[s]
    BY <1>0, <2>4, <2>5 DEF Smaller
  <2>7. Enough(o)'
    BY <2>3, <2>4, <2>6 DEF Enough
  <2>8. /\ \A k \in skipped : k.side = "buy" /\ k.why # "capped" => Declines(k.symbol)'
        /\ \A i \in DOMAIN orders : \A x : x = orders[i] => Enough(x)'
    BY <1>6, <2>2, <2>4
  <2> QED
    BY <1>2, <2>2, <2>7, <2>8, EnoughGrows
<1>9. ASSUME NEW s \in Symbols, SkipSell(s)
      PROVE  EnoughInv'
  <2> DEFINE k == [symbol |-> s, side |-> "sell",
                   why |-> IF sell_qty(s) > 0 THEN "dust" ELSE "zero shares"]
  <2>1. /\ UNCHANGED <<call, positions_value, remaining, orders>> /\ pc = "sells"
        /\ skipped' = skipped \cup {k}
    BY <1>9 DEF SkipSell, NextSell
  <2>2. k.side = "sell"
    OBVIOUS
  <2> HIDE DEF k
  <2>3. /\ \A x \in skipped : x.side = "buy" /\ x.why # "capped" => Declines(x.symbol)'
        /\ \A i \in DOMAIN orders : \A x : x = orders[i] => Enough(x)'
    BY <1>2, <1>6, <2>1
  <2> QED
    BY <2>1, <2>2, <2>3 DEF EnoughInv
<1>10. ASSUME NEW s \in Symbols, SkipBuy(s)
       PROVE  EnoughInv'
  <2> DEFINE k == [symbol |-> s, side |-> "buy",
                   why |-> IF affordable(s) <= 0 THEN "no cash"
                           ELSE IF buy_qty(s) > 0 THEN "dust" ELSE "zero shares"]
  <2>1. /\ UNCHANGED <<call, positions_value, remaining, orders>> /\ pc = "buys"
        /\ skipped' = skipped \cup {k}
        /\ Declines(s) /\ s \in todo
    BY <1>10 DEF SkipBuy, NextBuy, Declines
  <2>2. k.symbol = s
    OBVIOUS
  <2> HIDE DEF k
  <2>3. /\ \A x \in skipped : x.side = "buy" /\ x.why # "capped" => Declines(x.symbol)'
        /\ \A i \in DOMAIN orders : \A x : x = orders[i] => Enough(x)'
    BY <1>2, <1>6, <2>1
  <2>4. s \in Universe /\ delta(s) > 0 /\ ValidCall
    BY <2>1 DEF PlannerInv, IInv, LoopInv
  <2>5. Declines(s)'
    BY <1>1, <1>2, <2>1, <2>4, DeclinesOn
  <2> QED
    BY <2>1, <2>2, <2>3, <2>5 DEF EnoughInv
<1>11. CASE Finish
  <2> DEFINE n == Smaller(Len(orders), call.settings.max_orders)
  <2>1. /\ UNCHANGED <<call, positions_value, remaining>> /\ pc = "buys"
        /\ orders' = SubSeq(orders, 1, n)
        /\ \A x \in skipped' : x \in skipped \/ x.why = "capped"
    BY <1>11 DEF Finish
  <2>2. n \in Nat /\ n <= Len(orders)
    BY <1>2 DEF IsCall, Settings, Smaller
  <2> HIDE DEF n
  <2>3. \A i \in DOMAIN orders' : i \in DOMAIN orders /\ orders'[i] = orders[i]
    BY <1>2, <2>1, <2>2
  <2>4. /\ \A x \in skipped : x.side = "buy" /\ x.why # "capped" => Declines(x.symbol)'
        /\ \A i \in DOMAIN orders : \A x : x = orders[i] => Enough(x)'
    BY <1>2, <1>6, <2>1
  <2> QED
    BY <2>1, <2>3, <2>4
<1> QED
  BY <1>4, <1>5, <1>7, <1>8, <1>9, <1>10, <1>11 DEF Next, EnoughInv

-----------------------------------------------------------------------------
(* Selling and buying whole shares at the price they are valued at neither  *)
(* makes nor loses money.                                                   *)
LEMMA OneChanges ==
  ASSUME NEW f, NEW g, NEW S, IsFiniteSet(S), NEW x \in S,
         \A y \in S : f[y] \in Int /\ g[y] \in Int /\ (y # x => g[y] = f[y])
  PROVE  /\ SumFunctionOnSet(f, S) \in Int
         /\ SumFunctionOnSet(g, S) = SumFunctionOnSet(f, S) + (g[x] - f[x])
<1> DEFINE rest == SumFunctionOnSet(f, S \ {x})
<1>1. /\ SumFunctionOnSet(f, S) = f[x] + rest
      /\ SumFunctionOnSet(g, S) = g[x] + SumFunctionOnSet(g, S \ {x})
  BY SumTakesOut
<1>2. SumFunctionOnSet(g, S \ {x}) = rest
  <2>1. IsFiniteSet(S \ {x})
    BY FS_Subset
  <2> QED
    BY <2>1, SumsAgree
<1>3. rest \in Int
  BY SumIsInt
<1> HIDE DEF rest
<1> QED
  BY <1>1, <1>2, <1>3

LEMMA FillKeepsWorth ==
  ASSUME call' = call, IsCall(call), cash \in Int, held \in [Symbols -> Int],
         NEW s \in Symbols, NEW q \in Int, NEW b \in Int,
         q * call.price[s] = 0 - b * SHARE,
         cash' = cash + b, held' = [held EXCEPT ![s] = held[s] + q]
  PROVE  WorthOf(cash, held)' = WorthOf(cash, held)
<1> DEFINE f == [t \in Symbols |-> held[t] * call.price[t]]
           g == [t \in Symbols |-> held'[t] * call.price[t]]
           p == call.price[s]
           h == held[s]
<1>1. IsFiniteSet(Symbols) /\ SHARE \in Int /\ p \in Int /\ h \in Int
  BY SymbolsAssumption, ShareAssumption DEF IsCall
<1>2. held'[s] = h + q /\ \A t \in Symbols \ {s} : held'[t] = held[t]
  OBVIOUS
<1>3. ASSUME NEW t \in Symbols
      PROVE  f[t] \in Int /\ g[t] \in Int /\ (t # s => g[t] = f[t])
  <2>1. held[t] \in Int /\ call.price[t] \in Int /\ held'[t] \in Int
    BY <1>1, <1>2 DEF IsCall
  <2>2. held[t] * call.price[t] \in Int /\ held'[t] * call.price[t] \in Int
    BY <2>1, Z3
  <2> QED
    BY <1>2, <2>2
<1>4. f[s] = h * p /\ g[s] = (h + q) * p
  BY <1>2
<1>5. WorthOf(cash, held) = cash * SHARE + SumFunctionOnSet(f, Symbols)
  BY DEF WorthOf
<1>6. WorthOf(cash, held)' = (cash + b) * SHARE + SumFunctionOnSet(g, Symbols)
  BY DEF WorthOf
<1> HIDE DEF f, g
<1> DEFINE sum == SumFunctionOnSet(f, Symbols)
<1>7. sum \in Int /\ SumFunctionOnSet(g, Symbols) = sum + (g[s] - f[s])
  BY <1>1, <1>3, OneChanges
<1>8. WorthOf(cash, held)' = (cash + b) * SHARE + (sum + ((h + q) * p - h * p))
  BY <1>4, <1>6, <1>7
<1>9. q * p = 0 - b * SHARE
  OBVIOUS
<1> HIDE DEF sum, p, h
<1>10. (h + q) * p - h * p = q * p /\ (cash + b) * SHARE = cash * SHARE + b * SHARE
       /\ b * SHARE \in Int /\ cash * SHARE \in Int
  BY <1>1, Z3
<1>11. WorthOf(cash, held)' = cash * SHARE + sum
  BY <1>7, <1>8, <1>9, <1>10
<1> QED
  BY <1>5, <1>11 DEF sum

(* Every order of such a plan is of whole shares, and worth what they cost. *)
LEMMA SellsWhole ==
  ASSUME IsCall(call), ValidCall, positions_value \in Nat, WholeCall,
         NEW s \in Universe, delta(s) < 0
  PROVE  \E k \in Nat : sell_qty(s) = k * SHARE
<1>1. s \in Symbols /\ call.held[s] \in Nat /\ call.price[s] \in Nat \ {0} /\ delta(s) \in Int
  BY Amounts DEF Universe, Basket, Held, IsCall
<1>2. \E k \in Nat : call.held[s] = k * SHARE
  BY <1>1, WholeQuantity DEF WholeCall, HoldsWholeShares
<1>3. \E k \in Nat : shares(Abs(delta(s)), call.price[s]) = k * SHARE
  <2>1. Abs(delta(s)) \in Nat
    BY <1>1 DEF Abs
  <2> QED
    BY <1>1, <2>1, WholeShares DEF WholeCall, Plain
<1> QED
  BY <1>2, <1>3 DEF sell_qty, Smaller

LEMMA WholeOrder ==
  ASSUME IInv, SortedInv, EnoughInv, PricedInv, ValidCall, WholeCall,
         NEW i \in DOMAIN orders
  PROVE  \E k \in Nat : /\ orders[i].quantity = k * SHARE
                        /\ orders[i].value = k * call.price[orders[i].symbol]
<1> DEFINE o == orders[i]
<1>1. o \in Order /\ IsCall(call) /\ positions_value \in Nat
  BY DEF IInv, TypeOK
<1>2. /\ o.symbol \in Universe /\ Enough(o)
      /\ o.value = value_of(o.quantity, call.price[o.symbol])
      /\ o.side = "sell" => delta(o.symbol) < 0
  BY DEF SortedInv, EnoughInv, WholeCall, Plain, PricedInv, IInv, NoOvershoot
<1> HIDE DEF o
<1>3. /\ o.side \in {"sell", "buy"} /\ o.quantity \in Nat
      /\ call.price[o.symbol] \in Nat
  BY <1>1, <1>2, Amounts DEF Order, Sides
<1>4. PICK k \in Nat : o.quantity = k * SHARE
  <2>1. CASE o.side = "sell"
    BY <1>1, <1>2, <2>1, SellsWhole DEF Enough
  <2>2. CASE o.side = "buy"
    BY <1>2, <1>3, <2>2, WholeQuantity DEF Enough
  <2> QED
    BY <1>3, <2>1, <2>2
<1>5. o.value = k * call.price[o.symbol]
  BY <1>2, <1>3, <1>4, WholeValue
<1> QED
  BY <1>4, <1>5 DEF o

LEMMA WholeIsReadAsHeld ==
  ASSUME SHARE % GRAIN = 0, HoldsWholeShares
  PROVE  ReadAsHeld
BY WholeIsRead DEF ReadAsHeld, HoldsWholeShares

(* The submit loop moves the account at no loss.                            *)
LEMMA PlaceMoves ==
  ASSUME SHARE % GRAIN = 0, PlannerInv, AccountInv, PlacingInv, EnoughInv, MovedInv,
         WholeCall, Place
  PROVE  PlacingInv' /\ MovedInv'
<1> DEFINE k == placed + 1
           o == orders[k]
           s == o.symbol
           q == IF o.side = "buy" THEN o.quantity ELSE 0 - o.quantity
<1>1. /\ placed' = k /\ pc = "done" /\ UNCHANGED <<call, orders>> /\ placed \in Nat
      /\ placed < Len(orders)
  BY DEF Place, AccountInv, vars
<1>2. k \in DOMAIN orders /\ k \in Nat /\ k > placed /\ DOMAIN orders \subseteq Nat
      /\ o \in Order /\ ValidCall /\ IsCall(call)
  BY <1>1 DEF PlannerInv, IInv, TypeOK, LoopInv
<1> HIDE DEF k
<1>3. /\ PlacingInv'
      /\ cash' = cash + Brings(o) /\ held' = [held EXCEPT ![s] = Moved(o)]
  <2>1. ReadAsHeld /\ NothingLost
    <3>1. ReadAsHeld
      BY WholeIsReadAsHeld DEF WholeCall
    <3>2. ASSUME NEW h \in Nat, held_as_read(h) = h PROVE h <= held_as_read(h)
      BY <3>2
    <3> QED
      BY <3>1, <3>2 DEF ReadAsHeld, NothingLost
  <2>2. PlacingInv' /\ Fills(o)
    BY <2>1, PlacePlacing DEF k
  <2>3. held[s] = call.held[s] /\ s \in Symbols
    BY <1>2 DEF PlacingInv, CarriedInv, Order
  <2>4. held[s] \in Nat
    <3>1. s \in Universe
      BY <1>1, <1>2 DEF PlannerInv, PlanInv, SortedInv
    <3> QED
      BY <1>2, <2>3, <3>1, Amounts DEF PlannerInv, IInv, TypeOK
  <2>5. held_as_read(held[s]) = held[s]
    BY <2>1, <2>3, <2>4 DEF ReadAsHeld
  <2>6. o.side \in {"sell", "buy"} /\ o.quantity \in Nat
    BY <1>2 DEF Order, Sides
  <2>7. qty_after(o.side, o.quantity, held[s]) = Moved(o)
    <3>1. o.side = "buy" => qty_after(o.side, o.quantity, held[s]) = held[s] + o.quantity
                            /\ Moved(o) = held[s] + o.quantity
      BY <2>3, <2>5 DEF qty_after, Moved
    <3>2. o.side = "sell" => qty_after(o.side, o.quantity, held[s]) = held[s] - o.quantity
                             /\ Moved(o) = held[s] + (0 - o.quantity)
      BY <2>3, <2>5 DEF qty_after, Moved
    <3> HIDE DEF o, s
    <3> QED
      BY <2>4, <2>6, <3>1, <3>2
  <2> QED
    BY <2>2, <2>7 DEF Fills
<1>4. held[s] = call.held[s] /\ s \in Symbols /\ cash \in Int /\ held \in [Symbols -> Int]
  BY <1>2 DEF PlacingInv, CarriedInv, AccountInv, Order
<1>5. o.quantity \in Nat /\ o.value \in Nat /\ o.side \in {"sell", "buy"}
  BY <1>2 DEF Order, Sides
<1>6. Moved(o) = held[s] + q /\ q \in Int /\ Brings(o) \in Int
  BY <1>4, <1>5 DEF Moved, Brings
<1>7. q * call.price[s] = 0 - Brings(o) * SHARE
  <2>1. PICK n \in Nat : o.quantity = n * SHARE /\ o.value = n * call.price[s]
    BY <1>2, WholeOrder DEF PlannerInv, PlanInv, PlacingInv
  <2>2. call.price[s] \in Int /\ SHARE \in Nat
    BY <1>2, <1>4, ShareAssumption DEF IsCall
  <2> DEFINE p == call.price[s]
             v == o.value
             b == Brings(o)
  <2>3. CASE o.side = "buy"
    <3>1. q = n * SHARE /\ b = 0 - n * p
      BY <2>1, <2>3 DEF Brings
    <3> HIDE DEF q, b, p
    <3> QED
      BY <2>2, <3>1, Z3 DEF p, b
  <2>4. CASE o.side = "sell"
    <3>1. q = 0 - n * SHARE /\ b = n * p
      BY <2>1, <2>4 DEF Brings
    <3> HIDE DEF q, b, p
    <3> QED
      BY <2>2, <3>1, Z3 DEF p, b
  <2> QED
    BY <1>5, <2>3, <2>4
<1> HIDE DEF q
<1>8. WorthOf(cash, held)' = WorthOf(cash, held)
  <2> DEFINE b == Brings(o)
  <2>1. b \in Int /\ cash' = cash + b /\ q * call.price[s] = 0 - b * SHARE
        /\ held' = [held EXCEPT ![s] = held[s] + q]
    BY <1>3, <1>6, <1>7
  <2> HIDE DEF b, s
  <2> QED
    BY <1>1, <1>2, <1>4, <1>6, <2>1, FillKeepsWorth
<1>9. WorthOf(call.cash, call.held)' = WorthOf(call.cash, call.held)
  BY <1>1 DEF WorthOf
<1>10. ASSUME NEW i \in DOMAIN orders, i <= k
       PROVE  held'[orders[i].symbol] = Moved(orders[i])
  <2>1. CASE i = k
    BY <1>3, <1>4, <2>1
  <2>2. CASE i # k
    <3>1. i <= placed /\ orders[i].symbol # s /\ orders[i].symbol \in Symbols
      BY <1>1, <1>2, <1>10, <2>2, OneOrderEach, OrderedSymbol DEF k, PlannerInv
    <3>2. held[orders[i].symbol] = Moved(orders[i])
      BY <3>1 DEF MovedInv
    <3> QED
      BY <1>3, <1>4, <3>1, <3>2
  <2> QED
    BY <2>1, <2>2
<1>11. ASSUME NEW t \in Symbols, \A i \in DOMAIN orders : i <= k => orders[i].symbol # t
       PROVE  held'[t] = call.held[t]
  <2>1. t # s
    BY <1>2, <1>11
  <2>2. \A i \in DOMAIN orders : i <= placed => orders[i].symbol # t
    BY <1>1, <1>2, <1>11 DEF k
  <2>3. held[t] = call.held[t]
    BY <2>2 DEF MovedInv
  <2> QED
    BY <1>3, <1>4, <2>1, <2>3
<1>12. \A x : Moved(x)' = Moved(x)
  BY <1>1 DEF Moved
<1>13. \A i \in DOMAIN orders' : i <= placed' => held'[orders'[i].symbol] = Moved(orders[i])'
  BY <1>1, <1>10, <1>12
<1>14. WorthOf(cash, held) = WorthOf(call.cash, call.held)
  BY DEF MovedInv
<1>15. MovedInv'
  BY <1>1, <1>8, <1>9, <1>11, <1>13, <1>14 DEF MovedInv
<1> QED
  BY <1>3, <1>15

-----------------------------------------------------------------------------
(* What is to do at an account, and what the planner sees of its own.       *)
LEMMA PlannersView ==
  ASSUME IsCall(call), ValidCall, positions_value = SumFunctionOnSet(Gross, Held),
         NEW t, t = WorthOf(call.cash, call.held)
  PROVE  /\ InvestableOf(t) = investable
         /\ \A s : TargetOf(t, s) = target_value(s)
         /\ \A s : GapOf(t, call.held, s) = delta(s)
         /\ \A c : FreeOf(c, t) = IF c - reserved < 0 THEN 0 ELSE c - reserved
<1>1. IsFiniteSet(Symbols) /\ Held \subseteq Symbols
      /\ \A s \in Symbols : Gross[s] \in Int
  BY SymbolsAssumption, GrossType DEF Held
<1>2. \A s \in Symbols \ Held : Gross[s] = 0
  <2> SUFFICES ASSUME NEW s \in Symbols \ Held PROVE Gross[s] = 0
    OBVIOUS
  <2>1. call.held[s] = 0 /\ call.price[s] \in Int
    BY DEF ValidCall, Held, IsCall
  <2>2. Gross[s] = call.held[s] * call.price[s]
    BY GrossType
  <2> QED
    BY <2>1, <2>2, Z3
<1>3. SumFunctionOnSet(Gross, Symbols) = positions_value
  BY <1>1, <1>2, SumOfPart
<1>4. t = call.cash * SHARE + positions_value
  BY <1>3 DEF WorthOf, Gross
<1>5. InvestableOf(t) = investable
  BY <1>4 DEF InvestableOf, investable, portfolio_value
<1>6. ASSUME NEW s
      PROVE  TargetOf(t, s) = target_value(s)
  BY <1>5 DEF TargetOf, target_value, deployable
<1>7. ASSUME NEW s
      PROVE  GapOf(t, call.held, s) = delta(s)
  BY <1>6 DEF GapOf, delta, current_value
<1>8. ASSUME NEW c
      PROVE  FreeOf(c, t) = IF c - reserved < 0 THEN 0 ELSE c - reserved
  BY <1>5 DEF FreeOf, reserved
<1> QED
  BY <1>5, <1>6, <1>7, <1>8

(* What a sell has left: nothing, or less than a share.                     *)
LEMMA SellLeaves ==
  ASSUME IsCall(call), ValidCall, positions_value \in Nat, WholeCall,
         NEW s \in Universe, delta(s) < 0,
         NEW h, h = call.held[s] - sell_qty(s)
  PROVE  LET gap == target_value(s) - value_of(h, call.price[s]) IN
         /\ ~(gap > 0)
         /\ gap < 0 => /\ target_value(s) # 0 /\ gap \in Int
                       /\ Abs(gap) < call.price[s] /\ h \in Nat
<1> DEFINE p == call.price[s]
           tv == target_value(s)
           a == Abs(delta(s))
<1>1. /\ s \in Symbols /\ p \in Nat \ {0} /\ call.held[s] \in Nat /\ delta(s) \in Int
      /\ current_value(s) \in Nat /\ tv \in Nat
  BY Amounts DEF Universe, Basket, Held, IsCall
<1>2. SHARE \in Nat \ {0}
  BY ShareAssumption
<1>3. PICK n \in Nat : call.held[s] = n * SHARE
  BY <1>1, WholeQuantity DEF WholeCall, HoldsWholeShares
<1>4. n * p \in Nat /\ current_value(s) = n * p
  BY <1>1, <1>3, WholeValue DEF current_value
<1>5. a \in Nat /\ a = n * p - tv
  BY <1>1, <1>4 DEF delta, Abs
<1>6. CASE tv = 0
  <2>1. h = 0
    BY <1>1, <1>6 DEF sell_qty
  <2>2. value_of(0 * SHARE, p) = 0 * p
    BY <1>1, WholeValue
  <2>3. 0 * SHARE = 0 /\ 0 * p = 0
    BY <1>1, <1>2, Z3
  <2>4. tv - value_of(h, p) = 0
    BY <1>6, <2>1, <2>2, <2>3
  <2> QED
    BY <2>4
<1>7. CASE tv # 0
  <2>1. PICK k \in Nat : /\ shares(a, p) = k * SHARE /\ k * p \in Nat
                         /\ k * p <= a /\ a - k * p < p
    <3> HIDE DEF a
    <3> QED
      BY <1>1, <1>5, WholeShares DEF WholeCall, Plain
  <2>2. sell_qty(s) = Smaller(k * SHARE, n * SHARE)
    BY <1>3, <1>7, <2>1 DEF sell_qty
  <2>3. k < n
    <3> SUFFICES ASSUME k >= n PROVE FALSE
      OBVIOUS
    <3>1. k * p >= n * p
      BY <1>1, Z3
    <3> HIDE DEF p, tv, a
    <3> QED
      BY <1>1, <1>4, <1>5, <1>7, <2>1, <3>1
  <2>4. k * SHARE <= n * SHARE /\ n * SHARE - k * SHARE = (n - k) * SHARE
        /\ (n - k) * SHARE \in Nat /\ n - k \in Nat
    BY <1>2, <2>3, Z3
  <2>5. sell_qty(s) = k * SHARE /\ h = (n - k) * SHARE
    BY <1>3, <2>2, <2>4 DEF Smaller
  <2>6. value_of(h, p) = (n - k) * p
    <3> DEFINE m == n - k
    <3>1. m \in Nat /\ h = m * SHARE
      BY <2>4, <2>5
    <3> HIDE DEF m
    <3>2. value_of(m * SHARE, p) = m * p
      BY <1>1, <3>1, WholeValue
    <3> QED
      BY <3>1, <3>2 DEF m
  <2> HIDE DEF p, a, tv
  <2>7. (n - k) * p = n * p - k * p
    BY <1>1, Z3 DEF p
  <2>8. tv - value_of(h, p) = 0 - (a - k * p)
    BY <1>1, <1>4, <1>5, <2>1, <2>6, <2>7
  <2> DEFINE gap == tv - value_of(h, p)
             rest == a - k * p
  <2>9. gap = 0 - rest /\ rest \in Nat /\ rest < p
    BY <1>5, <2>1, <2>8
  <2> HIDE DEF gap, rest
  <2>10. gap \in Int /\ ~(gap > 0) /\ Abs(gap) < p
    BY <1>1, <2>9 DEF Abs
  <2> QED
    BY <1>7, <2>4, <2>5, <2>10 DEF gap, p, tv
<1> QED
  BY <1>6, <1>7

(* What a buy has left: less than another share, or less to spend on it.    *)
LEMMA BuyLeaves ==
  ASSUME IsCall(call), ValidCall, positions_value \in Nat, remaining \in Nat, WholeCall,
         NEW s \in Universe, NEW q \in Nat, NEW v \in Nat,
         \E k \in Nat : q = k * SHARE /\ v = k * call.price[s],
         v <= Abs(delta(s)), delta(s) > 0,
         Smaller(delta(s) - v, remaining) < call.price[s],
         NEW h, h = call.held[s] + q
  PROVE  LET gap == target_value(s) - value_of(h, call.price[s]) IN
         /\ ~(gap < 0)
         /\ \/ Smaller(gap, remaining) <= 0
            \/ ~Worth(shares(Smaller(gap, remaining), call.price[s]), s)
<1> DEFINE p == call.price[s]
           tv == target_value(s)
<1>1. /\ s \in Symbols /\ p \in Nat \ {0} /\ call.held[s] \in Nat /\ delta(s) \in Int
      /\ current_value(s) \in Nat /\ tv \in Nat
  BY Amounts DEF Universe, Basket, Held, IsCall
<1>2. SHARE \in Nat \ {0}
  BY ShareAssumption
<1>3. PICK n \in Nat : call.held[s] = n * SHARE
  BY <1>1, WholeQuantity DEF WholeCall, HoldsWholeShares
<1>4. PICK k \in Nat : q = k * SHARE /\ v = k * p
  OBVIOUS
<1>5. /\ n * p \in Nat /\ current_value(s) = n * p
      /\ value_of((n + k) * SHARE, p) = (n + k) * p
  <2>1. n * p \in Nat /\ value_of(n * SHARE, p) = n * p
    BY <1>1, WholeValue
  <2> DEFINE m == n + k
  <2>2. m \in Nat
    OBVIOUS
  <2> HIDE DEF m
  <2>3. value_of(m * SHARE, p) = m * p
    BY <1>1, <2>2, WholeValue
  <2> QED
    BY <1>3, <2>1, <2>3 DEF current_value, m
<1>6. n * SHARE + k * SHARE = (n + k) * SHARE /\ (n + k) * p = n * p + k * p
  BY <1>1, <1>2, Z3
<1>7. value_of(h, p) = current_value(s) + v
  BY <1>3, <1>4, <1>5, <1>6
<1> DEFINE d == delta(s)
           gap == tv - value_of(h, p)
<1>8. gap = d - v
  <2>1. d = tv - current_value(s)
    BY DEF delta
  <2>2. tv \in Nat /\ current_value(s) \in Nat /\ v \in Nat
    BY <1>1
  <2> DEFINE c == current_value(s)
             after == value_of(h, p)
  <2> HIDE DEF p, d, tv, c, after
  <2> QED
    BY <1>7, <2>1, <2>2 DEF c, after
<1>9. d \in Nat /\ v <= d
  BY <1>1 DEF Abs
<1>10. gap \in Nat
  BY <1>8, <1>9
<1> HIDE DEF p, d
<1>11. Smaller(gap, remaining) < p
  BY <1>8 DEF p, d
<1> HIDE DEF gap
<1>12. Smaller(gap, remaining) \in Nat
  BY <1>10 DEF Smaller
<1>13. ~Worth(shares(Smaller(gap, remaining), p), s)
  BY <1>1, <1>11, <1>12, LessThanAShare DEF p, WholeCall, Plain
<1> QED
  BY <1>10, <1>13 DEF gap, p

(* Once all is placed the cash is what the budget has left, above what is   *)
(* reserved.                                                                *)
LEMMA CashIsLeft ==
  ASSUME PlannerInv, AccountInv, SpentInv, PlacingInv, WholeCall, AllPlaced
  PROVE  remaining = IF cash - reserved < 0 THEN 0 ELSE cash - reserved
<1>1. /\ raised = proceeds /\ remaining + spent = budget
      /\ spent <= budget /\ pc = "done"
  BY DEF SpentInv, WholeCall, Plain, AllPlaced, Done, PlannerInv, IInv, DoneInv, FundedInv
<1>2. cash = call.cash + proceeds - spent
  BY <1>1, CarriedOut DEF projected_cash_after
<1>3. /\ call.cash \in Int /\ proceeds \in Nat /\ spent \in Nat /\ remaining \in Nat
      /\ reserved \in Nat
  BY <1>1, Amounts DEF PlannerInv, IInv, TypeOK, LoopInv, IsCall
<1> QED
  BY <1>1, <1>2, <1>3 DEF budget

(* A symbol without an order was declined, and would be again.              *)
LEMMA DeclinedAgain ==
  ASSUME PlannerInv, AccountInv, ValuedInv, SpentInv, EnoughInv, PlacingInv, WholeCall,
         AllPlaced, NEW t, t = WorthOf(call.cash, call.held),
         NEW s \in Universe, held[s] = call.held[s],
         \A i \in DOMAIN orders : orders[i].symbol # s
  PROVE  /\ GapOf(t, held, s) < 0 => NoSellOf(t, held, s)
         /\ GapOf(t, held, s) > 0 => NoBuyOf(cash, t, held, s)
<1>1. /\ pc = "done" /\ IsCall(call) /\ ValidCall
      /\ positions_value = SumFunctionOnSet(Gross, Held) /\ positions_value \in Nat
      /\ skipped \subseteq Skip
  BY DEF AllPlaced, Done, ValuedInv, PlannerInv, IInv, LoopInv, TypeOK
<1>2. /\ TargetOf(t, s) = target_value(s)
      /\ GapOf(t, held, s) = delta(s)
      /\ FreeOf(cash, t) = remaining
  BY <1>1, PlannersView, CashIsLeft DEF GapOf
<1>3. s \in Symbols /\ delta(s) \in Int
  BY <1>1, Amounts DEF Universe, Basket, Held, IsCall
<1>4. ASSUME delta(s) # 0
      PROVE  \E k \in skipped : k.symbol = s
  <2>1. Passed(s)
    BY <1>1, <1>3, <1>4 DEF Passed
  <2>2. KeptFor(s) = {}
    BY DEF KeptFor
  <2>3. WhyNot(s) # {}
    BY <1>3, <2>1, <2>2 DEF PlannerInv, PlanInv, AnsweredInv, Ordered, Declined
  <2> QED
    BY <2>3 DEF WhyNot
<1>5. CASE delta(s) < 0
  <2>1. PICK k \in skipped : k.symbol = s
    BY <1>3, <1>4, <1>5
  <2>2. k.why # "capped" /\ k.side \in {"sell", "buy"}
    BY <1>1 DEF SpentInv, WholeCall, Plain, Skip, Sides
  <2>3. k.side = "sell"
    BY <1>3, <1>5, <2>1, <2>2 DEF PlannerInv, ReasonInv
  <2>4. ~Worth(sell_qty(s), s)
    BY <2>1, <2>2, <2>3 DEF PlannerInv, ReasonInv
  <2>5. NoSellOf(t, held, s)
    BY <1>2, <2>4 DEF NoSellOf, sell_qty
  <2> QED
    BY <1>2, <1>3, <1>5, <2>5
<1>6. CASE delta(s) > 0
  <2>1. PICK k \in skipped : k.symbol = s
    BY <1>3, <1>4, <1>6
  <2>2. k.why # "capped" /\ k.side \in {"sell", "buy"}
    BY <1>1 DEF SpentInv, WholeCall, Plain, Skip, Sides
  <2>3. k.side = "buy"
    BY <1>3, <1>6, <2>1, <2>2 DEF PlannerInv, ReasonInv
  <2>4. Declines(s)
    BY <2>1, <2>2, <2>3 DEF EnoughInv, WholeCall, Plain
  <2>5. NoBuyOf(cash, t, held, s)
    BY <1>2, <2>4 DEF NoBuyOf, Declines, affordable, buy_qty
  <2> QED
    BY <1>2, <1>3, <1>6, <2>5
<1> QED
  BY <1>2, <1>3, <1>5, <1>6

(* One that has been sold or bought leaves nothing more to trade.           *)
LEMMA TradedEnough ==
  ASSUME PlannerInv, AccountInv, ValuedInv, SpentInv, EnoughInv, PlacingInv, WholeCall,
         AllPlaced, NEW t, t = WorthOf(call.cash, call.held),
         NEW i \in DOMAIN orders, NEW s, s = orders[i].symbol,
         held[s] = Moved(orders[i])
  PROVE  /\ GapOf(t, held, s) < 0 => NoSellOf(t, held, s)
         /\ GapOf(t, held, s) > 0 => NoBuyOf(cash, t, held, s)
<1> DEFINE o == orders[i]
           p == call.price[s]
<1>1. /\ pc = "done" /\ IsCall(call) /\ ValidCall
      /\ positions_value = SumFunctionOnSet(Gross, Held) /\ positions_value \in Nat
      /\ remaining \in Nat /\ o \in Order
  BY DEF AllPlaced, Done, ValuedInv, PlannerInv, IInv, LoopInv, TypeOK
<1>2. /\ \A x : TargetOf(t, x) = target_value(x)
      /\ FreeOf(cash, t) = remaining
  BY <1>1, PlannersView, CashIsLeft
<1>3. /\ s \in Universe /\ Enough(o) /\ o.value <= Abs(delta(s))
      /\ o.side = "sell" => delta(s) < 0
      /\ o.side = "buy" => delta(s) > 0
  BY DEF PlannerInv, PlanInv, SortedInv, EnoughInv, WholeCall, Plain, IInv, NoOvershoot
<1>4. o.side \in {"sell", "buy"} /\ o.quantity \in Nat /\ o.value \in Nat
  BY <1>1 DEF Order, Sides
<1>5. p \in Nat \ {0} /\ call.held[s] \in Nat
  BY <1>1, <1>3, Amounts
<1>6. GapOf(t, held, s) = target_value(s) - value_of(held[s], p)
  BY <1>2 DEF GapOf
<1>7. CASE o.side = "sell"
  <2>1. held[s] = call.held[s] - sell_qty(s)
    <3>1. o.quantity = sell_qty(s) /\ held[s] = call.held[s] + (0 - o.quantity)
      BY <1>3, <1>7 DEF Enough, Moved
    <3> QED
      BY <1>4, <1>5, <3>1
  <2>2. delta(s) < 0
    BY <1>3, <1>7
  <2>3. /\ ~(GapOf(t, held, s) > 0)
        /\ GapOf(t, held, s) < 0 => /\ target_value(s) # 0 /\ GapOf(t, held, s) \in Int
                                    /\ Abs(GapOf(t, held, s)) < p /\ held[s] \in Nat
    BY <1>1, <1>3, <1>6, <2>1, <2>2, SellLeaves
  <2>4. ASSUME GapOf(t, held, s) < 0
        PROVE  NoSellOf(t, held, s)
    <3> DEFINE a == Abs(GapOf(t, held, s))
    <3>1. a \in Nat /\ a < p
      BY <2>3, <2>4 DEF Abs
    <3>2. NoSellOf(t, held, s) <=> ~Worth(Smaller(shares(a, p), held[s]), s)
      BY <1>2, <2>3, <2>4 DEF NoSellOf
    <3> HIDE DEF a
    <3>3. shares(a, p) = 0
      BY <1>5, <3>1, LessThanAShare DEF WholeCall, Plain
    <3>4. Smaller(shares(a, p), held[s]) = 0
      BY <2>3, <2>4, <3>3 DEF Smaller
    <3> QED
      BY <3>2, <3>4 DEF Worth
  <2> QED
    BY <2>3, <2>4
<1>8. CASE o.side = "buy"
  <2> DEFINE q == o.quantity
             v == o.value
  <2>1. \E k \in Nat : q = k * SHARE /\ v = k * call.price[s]
    BY <1>1, WholeOrder DEF PlannerInv, PlanInv, PlacingInv
  <2>2. held[s] = call.held[s] + q /\ Smaller(delta(s) - v, remaining) < call.price[s]
        /\ delta(s) > 0 /\ v <= Abs(delta(s)) /\ q \in Nat /\ v \in Nat
    BY <1>3, <1>4, <1>8 DEF Moved, Enough
  <2> HIDE DEF q, v
  <2> DEFINE gap == target_value(s) - value_of(held[s], p)
  <2>3. /\ ~(gap < 0)
        /\ \/ Smaller(gap, remaining) <= 0
           \/ ~Worth(shares(Smaller(gap, remaining), p), s)
    BY <1>1, <1>3, <2>1, <2>2, BuyLeaves
  <2>4. GapOf(t, held, s) = gap
    BY <1>6
  <2> HIDE DEF gap
  <2>5. NoBuyOf(cash, t, held, s)
    BY <1>2, <2>3, <2>4 DEF NoBuyOf
  <2> QED
    BY <2>3, <2>4, <2>5
<1> QED
  BY <1>4, <1>7, <1>8

(* So a plan carried out leaves nothing to do.                              *)
LEMMA NothingIsLeft ==
  ASSUME PlannerInv, AccountInv, ValuedInv, SpentInv, EnoughInv, PlacingInv, MovedInv,
         WholeCall, AllPlaced
  PROVE  NothingToDo(cash, held)
<1> DEFINE t == WorthOf(call.cash, call.held)
<1>1. WorthOf(cash, held) = t
  BY DEF MovedInv
<1> HIDE DEF t
<1>2. placed = Len(orders) /\ DOMAIN orders = 1..Len(orders)
  BY DEF AllPlaced, PlannerInv, IInv, TypeOK
<1> SUFFICES ASSUME NEW s \in Symbols, s \in Basket \/ held[s] > 0
             PROVE  /\ GapOf(t, held, s) < 0 => NoSellOf(t, held, s)
                    /\ GapOf(t, held, s) > 0 => NoBuyOf(cash, t, held, s)
  BY <1>1 DEF NothingToDo
<1>3. CASE \E i \in DOMAIN orders : orders[i].symbol = s
  <2>1. PICK i \in DOMAIN orders : orders[i].symbol = s
    BY <1>3
  <2>2. held[s] = Moved(orders[i])
    BY <1>2, <2>1 DEF MovedInv
  <2> QED
    BY <2>1, <2>2, TradedEnough DEF t
<1>4. CASE \A i \in DOMAIN orders : orders[i].symbol # s
  <2>1. held[s] = call.held[s]
    BY <1>4 DEF MovedInv
  <2>2. s \in Universe
    BY <2>1 DEF Universe, Held
  <2> QED
    BY <1>4, <2>1, <2>2, DeclinedAgain DEF t
<1> QED
  BY <1>3, <1>4

-----------------------------------------------------------------------------
(* What is to do at an account depends on it and on what the call takes     *)
(* over from the one before: prices, targets and settings.                  *)
LEMMA SameToDo ==
  ASSUME call'.price = call.price, call'.targets = call.targets,
         call'.settings = call.settings, NEW c, NEW h, NothingToDo(c, h)
  PROVE  NothingToDo(c, h)'
<1>1. WorthOf(c, h)' = WorthOf(c, h) /\ Basket' = Basket
  BY DEF WorthOf, Basket
<1>2. PICK t : t = WorthOf(c, h)
  OBVIOUS
<1>3. InvestableOf(t)' = InvestableOf(t)
  BY DEF InvestableOf, Smaller
<1>4. \A s : TargetOf(t, s)' = TargetOf(t, s)
  BY <1>1, <1>3 DEF TargetOf, less_buffer, apply_bps, target_bps
<1>5. FreeOf(c, t)' = FreeOf(c, t)
  BY <1>3 DEF FreeOf, apply_bps
<1>6. \A s : GapOf(t, h, s)' = GapOf(t, h, s)
  BY <1>4 DEF GapOf, value_of
<1>7. \A a, p : shares(a, p)' = shares(a, p)
  BY DEF shares, quantity, whole_shares
<1>8. \A q, s : Worth(q, s)' <=> Worth(q, s)
  BY DEF Worth, value_of
<1>9. \A s : NoSellOf(t, h, s)' <=> NoSellOf(t, h, s)
  <2> SUFFICES ASSUME NEW s PROVE NoSellOf(t, h, s)' <=> NoSellOf(t, h, s)
    OBVIOUS
  <2>1. PICK p : p = call.price[s]
    OBVIOUS
  <2>2. PICK a : a = Abs(GapOf(t, h, s))
    OBVIOUS
  <2>3. PICK q : q = IF TargetOf(t, s) = 0 THEN h[s] ELSE Smaller(shares(a, p), h[s])
    OBVIOUS
  <2>4. NoSellOf(t, h, s) <=> ~Worth(q, s)
    BY <2>1, <2>2, <2>3 DEF NoSellOf
  <2>5. NoSellOf(t, h, s)' <=> ~Worth(q, s)'
    BY <1>4, <1>6, <1>7, <2>1, <2>2, <2>3 DEF NoSellOf, Smaller, Abs
  <2> QED
    BY <1>8, <2>4, <2>5
<1>10. \A s : NoBuyOf(c, t, h, s)' <=> NoBuyOf(c, t, h, s)
  <2> SUFFICES ASSUME NEW s PROVE NoBuyOf(c, t, h, s)' <=> NoBuyOf(c, t, h, s)
    OBVIOUS
  <2>1. PICK p : p = call.price[s]
    OBVIOUS
  <2>2. PICK a : a = Smaller(GapOf(t, h, s), FreeOf(c, t))
    OBVIOUS
  <2>3. PICK q : q = shares(a, p)
    OBVIOUS
  <2>4. NoBuyOf(c, t, h, s) <=> (a <= 0 \/ ~Worth(q, s))
    BY <2>1, <2>2, <2>3 DEF NoBuyOf
  <2>5. NoBuyOf(c, t, h, s)' <=> (a <= 0 \/ ~Worth(q, s)')
    BY <1>5, <1>6, <1>7, <2>1, <2>2, <2>3 DEF NoBuyOf, Smaller
  <2> QED
    BY <1>8, <2>4, <2>5
<1> QED
  BY <1>1, <1>2, <1>6, <1>9, <1>10 DEF NothingToDo

(* Of an account at which there is nothing to do nothing is planned.        *)
LEMMA QuietSells ==
  ASSUME IInv, ValuedInv, QuietInv, pass = "whole", Plain, NEW s \in Symbols, PlanSell(s)
  PROVE  FALSE
<1>1. /\ s \in Universe /\ delta(s) < 0 /\ Worth(sell_qty(s), s)
      /\ ValidCall /\ IsCall(call) /\ positions_value = SumFunctionOnSet(Gross, Held)
  BY DEF PlanSell, NextSell, IInv, LoopInv, TypeOK, ValuedInv
<1>2. PICK t : t = WorthOf(call.cash, call.held)
  OBVIOUS
<1>3. GapOf(t, call.held, s) = delta(s) /\ TargetOf(t, s) = target_value(s)
  BY <1>1, <1>2, PlannersView
<1>4. NoSellOf(t, call.held, s)
  BY <1>1, <1>2, <1>3 DEF QuietInv, NothingToDo, Universe, Held
<1> QED
  BY <1>1, <1>3, <1>4 DEF NoSellOf, sell_qty

LEMMA QuietBuys ==
  ASSUME IInv, ValuedInv, QuietInv, pass = "whole", Plain, NEW s \in Symbols, PlanBuy(s)
  PROVE  FALSE
<1>1. /\ s \in Universe /\ delta(s) > 0 /\ ~Declines(s)
      /\ ValidCall /\ IsCall(call) /\ positions_value = SumFunctionOnSet(Gross, Held)
      /\ proceeds = 0 /\ remaining = budget
  <2>1. /\ s \in Universe /\ delta(s) > 0 /\ pc = "buys"
        /\ ValidCall /\ IsCall(call) /\ positions_value = SumFunctionOnSet(Gross, Held)
    BY DEF PlanBuy, NextBuy, IInv, LoopInv, TypeOK, ValuedInv
  <2>2. affordable(s) > 0 /\ Worth(buy_qty(s), s) /\ affordable(s) \in Int
    <3>1. delta(s) \in Int /\ remaining \in Nat
      BY <2>1, Amounts DEF IInv, TypeOK
    <3> QED
      BY <3>1 DEF PlanBuy, affordable, Smaller
  <2>3. ~Declines(s)
    <3> DEFINE a == affordable(s)
    <3>1. a > 0 /\ a \in Int
      BY <2>2
    <3> HIDE DEF a
    <3>2. ~(a <= 0)
      BY <3>1
    <3> QED
      BY <2>2, <3>2 DEF Declines, a
  <2> QED
    BY <2>1, <2>3 DEF QuietInv
<1>2. PICK t : t = WorthOf(call.cash, call.held)
  OBVIOUS
<1>3. call.cash \in Int /\ reserved \in Nat
  BY <1>1, Amounts DEF IInv, TypeOK, IsCall
<1>4. remaining = IF call.cash - reserved < 0 THEN 0 ELSE call.cash - reserved
  BY <1>1, <1>3 DEF budget
<1>5. GapOf(t, call.held, s) = delta(s) /\ FreeOf(call.cash, t) = remaining
  BY <1>1, <1>2, <1>4, PlannersView
<1>6. NoBuyOf(call.cash, t, call.held, s)
  BY <1>1, <1>2, <1>5 DEF QuietInv, NothingToDo, Universe, Held
<1> QED
  BY <1>1, <1>5, <1>6 DEF NoBuyOf, Declines, affordable, buy_qty

LEMMA QuietStep ==
  ASSUME PlannerInv, ValuedInv, QuietInv, Next, UNCHANGED pass
  PROVE  QuietInv'
<1>1. call' = call
  BY DEF Next, Accept, Reject, StartSells, StartBuys, Finish, AddPosition,
         PlanSell, SkipSell, PlanBuy, SkipBuy, NextSell, NextBuy
<1>2. NothingToDo(call.cash, call.held) => NothingToDo(call.cash, call.held)'
  <2>1. PICK c, h : c = call.cash /\ h = call.held
    OBVIOUS
  <2>2. NothingToDo(c, h) => NothingToDo(c, h)'
    BY <1>1, SameToDo
  <2>3. c = call'.cash /\ h = call'.held
    BY <1>1, <2>1
  <2> QED
    BY <2>1, <2>2, <2>3
<1> SUFFICES ASSUME pass = "whole", Plain
             PROVE  /\ orders' = <<>> /\ proceeds' = 0
                    /\ pc' \in {"buys", "done"} => remaining' = budget'
  BY <1>1, <1>2 DEF QuietInv, Plain, Uncapped
<1>3. /\ orders = <<>> /\ proceeds = 0
      /\ pc \in {"buys", "done"} => remaining = budget
  BY DEF QuietInv
<1>4. CASE Accept \/ Reject \/ StartSells \/ \E s \in Symbols : AddPosition(s)
  <2>1. UNCHANGED <<orders, proceeds>> /\ pc' \notin {"buys", "done"}
    BY <1>4 DEF Accept, Reject, StartSells, AddPosition
  <2> QED
    BY <1>3, <2>1
<1>5. CASE StartBuys
  <2>1. UNCHANGED <<call, positions_value, orders, proceeds>> /\ remaining' = budget
    BY <1>5 DEF StartBuys
  <2> QED
    BY <1>3, <2>1, BudgetStands
<1>6. CASE Finish
  <2>1. /\ UNCHANGED <<call, positions_value, proceeds, remaining>> /\ pc = "buys"
        /\ orders' = orders
    BY <1>6, FinishKeeps DEF Finish, Plain
  <2> QED
    BY <1>3, <2>1, BudgetStands
<1>7. ASSUME NEW s \in Symbols, SkipSell(s)
      PROVE  UNCHANGED <<orders, proceeds>> /\ pc' \notin {"buys", "done"}
  BY <1>7 DEF SkipSell, NextSell
<1>8. ASSUME NEW s \in Symbols, SkipBuy(s)
      PROVE  UNCHANGED <<call, positions_value, orders, proceeds, remaining, pc>>
  BY <1>8 DEF SkipBuy, NextBuy
<1>9. \A s \in Symbols : ~PlanSell(s) /\ ~PlanBuy(s)
  BY QuietSells, QuietBuys DEF PlannerInv
<1> QED
  BY <1>3, <1>4, <1>5, <1>6, <1>7, <1>8, <1>9, BudgetStands DEF Next

(* The next plan is made of the account the orders have left.               *)
LEMMA QuietAgain ==
  ASSUME PlannerInv, AccountInv, ValuedInv, SpentInv, EnoughInv, QuietInv, MovedInv,
         WholeCall => PlacingInv, PlanAgain
  PROVE  QuietInv'
<1>1. /\ call' = [call EXCEPT !.cash = cash, !.held = held]
      /\ pc' = "validate" /\ orders' = <<>> /\ proceeds' = 0
      /\ pass' = "whole" => HoldsWholeShares
      /\ AllPlaced
  BY DEF PlanAgain, AllPlaced, Done
<1>2. /\ call'.cash = cash /\ call'.held = held /\ call'.price = call.price
      /\ call'.targets = call.targets /\ call'.settings = call.settings
  BY <1>1 DEF AccountInv
<1>3. Plain' <=> Plain
  BY <1>2 DEF Plain, Uncapped
<1> SUFFICES ASSUME WholeCall
             PROVE  NothingToDo(call.cash, call.held)'
  BY <1>1, <1>3 DEF QuietInv, WholeCall
<1>4. PICK c, h : c = cash /\ h = held
  OBVIOUS
<1>5. NothingToDo(c, h)
  BY <1>1, <1>4, NothingIsLeft
<1>6. NothingToDo(c, h)'
  BY <1>2, <1>5, SameToDo
<1>7. c = call'.cash /\ h = call'.held
  BY <1>2, <1>4
<1> QED
  BY <1>6, <1>7

(* A step outside the planner leaves what its loops have done.              *)
LEMMA PlansUnchanged ==
  ASSUME UNCHANGED <<call, pc, positions_value, proceeds, remaining, orders, skipped,
                     raised, spent>>
  PROVE  (SpentInv => SpentInv') /\ (EnoughInv => EnoughInv')
<1>1. /\ budget' = budget /\ \A s : Declines(s)' = Declines(s)
      /\ \A s : delta(s)' = delta(s) /\ sell_qty(s)' = sell_qty(s)
  BY BuyStands, TargetsStand, SellStands
<1>2. Uncapped' <=> Uncapped
  BY DEF Uncapped
<1>3. SpentInv => SpentInv'
  BY <1>1, <1>2 DEF SpentInv
<1>4. \A o : Enough(o)' <=> Enough(o)
  BY <1>1 DEF Enough, Smaller
<1>5. EnoughInv => EnoughInv'
  BY <1>1, <1>4 DEF EnoughInv
<1> QED
  BY <1>3, <1>5

LEMMA QuietStands ==
  ASSUME QuietInv, UNCHANGED <<call, pc, positions_value, proceeds, remaining, orders, pass>>
  PROVE  QuietInv'
<1>1. budget' = budget
  BY BudgetStands
<1>2. PICK c, h : c = call.cash /\ h = call.held
  OBVIOUS
<1>3. NothingToDo(c, h) => NothingToDo(c, h)'
  BY SameToDo
<1>4. Plain' <=> Plain
  BY DEF Plain, Uncapped
<1> QED
  BY <1>1, <1>2, <1>3, <1>4 DEF QuietInv

-----------------------------------------------------------------------------
(* The invariant of the loop: what is planned, what is placed, and what is  *)
(* left of both.                                                            *)
OneInv == /\ SpentInv /\ EnoughInv
          /\ WholeCall => PlacingInv
          /\ MovedInv /\ QuietInv

LEMMA BeginningOne ==
  ASSUME Beginning, AccountInv, rejected = 0, QuietInv
  PROVE  OneInv
<1>1. /\ pc = "validate" /\ orders = <<>> /\ skipped = {} /\ raised = 0 /\ proceeds = 0
      /\ cash = call.cash /\ held = call.held
  BY DEF Beginning, AccountInv
<1>2. SpentInv /\ EnoughInv /\ MovedInv
  BY <1>1 DEF SpentInv, EnoughInv, MovedInv
<1> QED
  BY <1>2, BeginningPlacing DEF OneInv

(* The planner's steps leave the broker's account where it is.              *)
LEMMA PlanMoves ==
  ASSUME PlannerInv, AccountInv, Next, UNCHANGED loopVars
  PROVE  MovedInv'
<1>1. call' = call /\ pc # "done"
  BY DEF Next, Accept, Reject, StartSells, StartBuys, Finish, AddPosition,
         PlanSell, SkipSell, PlanBuy, SkipBuy, NextSell, NextBuy
<1>2. placed' = 0 /\ cash' = call'.cash /\ held' = call'.held
  BY <1>1 DEF AccountInv, loopVars
<1>3. \A i \in DOMAIN orders' : ~(i <= 0)
  <2>1. PlannerInv'
    BY PlannerStep
  <2>2. orders' \in Seq(Order)
    BY <2>1 DEF PlannerInv, IInv, TypeOK
  <2> QED
    BY <2>2
<1> QED
  BY <1>2, <1>3 DEF MovedInv

(* A step that plans nothing and places nothing disturbs nothing.           *)
LEMMA OneStands ==
  ASSUME OneInv, UNCHANGED allVars
  PROVE  OneInv'
<1>1. /\ UNCHANGED <<call, pc, positions_value, proceeds, remaining, orders, skipped,
                     raised, spent, cash, held, placed, rejected, pass>>
  BY DEF allVars, vars, loopVars
<1>2. SpentInv' /\ EnoughInv'
  BY PlansUnchanged, <1>1 DEF OneInv
<1>3. (WholeCall => PlacingInv)'
  <2>1. WholeCall' <=> WholeCall
    BY <1>1 DEF WholeCall, Plain, Uncapped, HoldsWholeShares
  <2>2. \A f : Follows(f) => Follows(f)'
    BY <1>1, FollowsStands
  <2> QED
    BY <1>1, <2>1, <2>2 DEF OneInv, PlacingInv, PricedInv, CarriedInv
<1>4. MovedInv'
  <2>1. WholeCall' <=> WholeCall
    BY <1>1 DEF WholeCall, Plain, Uncapped, HoldsWholeShares
  <2>2. \A c, h : WorthOf(c, h)' = WorthOf(c, h)
    BY <1>1 DEF WorthOf
  <2>3. \A o : Moved(o)' = Moved(o)
    BY <1>1 DEF Moved
  <2> QED
    BY <1>1, <2>1, <2>2, <2>3 DEF OneInv, MovedInv
<1>5. QuietInv'
  BY <1>1, QuietStands DEF OneInv
<1> QED
  BY <1>2, <1>3, <1>4, <1>5 DEF OneInv

LEMMA OneStep ==
  ASSUME SHARE % GRAIN = 0, PlannerInv, AccountInv, ValuedInv, OneInv,
         [LoopNext]_allVars
  PROVE  OneInv' \/ (Beginning' /\ AccountInv' /\ rejected' = 0 /\ QuietInv')
<1>1. CASE Plan
  <2>1. Next /\ UNCHANGED loopVars /\ UNCHANGED pass
    BY <1>1 DEF Plan, loopVars
  <2>2. call' = call
    BY <2>1 DEF Next, Accept, Reject, StartSells, StartBuys, Finish, AddPosition,
                PlanSell, SkipSell, PlanBuy, SkipBuy, NextSell, NextBuy
  <2>3. WholeCall' <=> WholeCall
    BY <2>2 DEF WholeCall, Plain, Uncapped, HoldsWholeShares
  <2>4. (WholeCall => PlacingInv)'
    BY <2>1, <2>3, PlanPlacing DEF OneInv
  <2> QED
    BY <2>1, <2>4, SpentStep, EnoughStep, PlanMoves, QuietStep DEF OneInv
<1>2. CASE Place
  <2>1. UNCHANGED vars /\ UNCHANGED pass /\ placed < Len(orders) /\ placed \in Nat
    BY <1>2 DEF Place, AccountInv
  <2>2. UNCHANGED <<call, pc, positions_value, proceeds, remaining, orders, skipped,
                    raised, spent>>
    BY <2>1 DEF vars
  <2>3. WholeCall' <=> WholeCall
    BY <2>2 DEF WholeCall, Plain, Uncapped, HoldsWholeShares
  <2>4. WholeCall => PlacingInv' /\ MovedInv'
    BY <1>2, PlaceMoves DEF OneInv
  <2>5. ~WholeCall => MovedInv'
    BY <2>3 DEF MovedInv
  <2>6. SpentInv' /\ EnoughInv' /\ QuietInv'
    BY <2>1, <2>2, PlansUnchanged, QuietStands DEF OneInv
  <2> QED
    BY <2>3, <2>4, <2>5, <2>6 DEF OneInv
<1>3. CASE PlanAgain
  BY <1>3, AgainBegins, QuietAgain DEF PlannerInv, OneInv, PlanAgain
<1>4. CASE UNCHANGED allVars
  BY <1>4, OneStands
<1> QED
  BY <1>1, <1>2, <1>3, <1>4 DEF LoopNext

(* With whole shares and no cap in the way one plan does all there is to    *)
(* do: carried out and made again at the same prices, it is empty           *)
(* (build_plan and the submit loop of _execute).  A share is a whole number *)
(* of what the broker reads, as it is in the code: 10^8 and 10^4.           *)
THEOREM OnePassIsEnough ==
  ASSUME SHARE % GRAIN = 0
  PROVE  LoopSpec => []OnePassSuffices
<1>1. LoopInit => Beginning /\ rejected = 0 /\ QuietInv
  BY InitBegins DEF LoopInit, QuietInv
<1>2. Beginning /\ AccountInv /\ rejected = 0 /\ QuietInv => OneInv
  BY BeginningOne
<1>3. PlannerInv /\ AccountInv /\ RestInv /\ OneInv /\ [LoopNext]_allVars =>
        OneInv' \/ (Beginning' /\ AccountInv' /\ (rejected = 0)' /\ QuietInv')
  BY OneStep DEF RestInv
<1>4. OneInv => OnePassSuffices
  BY DEF OneInv, QuietInv, OnePassSuffices, Plain, Uncapped
<1> QED
  BY <1>1, <1>2, <1>3, <1>4, LoopInductive, RestInductive, PTL DEF LoopSpec
=============================================================================
