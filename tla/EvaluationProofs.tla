-------------------------- MODULE EvaluationProofs --------------------------
(***************************************************************************)
(* What the tables say of an evaluation, however many processes evaluate,  *)
(* whatever the venue and the user do meanwhile and wherever an evaluation *)
(* is cut short.                                                           *)
(***************************************************************************)
EXTENDS Evaluation, ArithmeticProofs

-----------------------------------------------------------------------------
(* What build_plan plans: orders of the account it is called for, which the *)
(* account can carry out one after the other.                               *)

(* Rounding to money.                                                       *)
LEMMA MoneyBound ==
  ASSUME NEW n \in Nat, NEW d \in Nat \ {0}
  PROVE  /\ money(n, d) \in Nat
         /\ \A m \in Nat : n <= m * d => money(n, d) <= m
BY HalfUpBound DEF money

(* The value of any quantity is an amount of money. *)
LEMMA ValueType ==
  ASSUME NEW q \in Nat, NEW p \in Nat
  PROVE  value_of(q, p) \in Nat
<1>1. q * p \in Nat
  BY Z3
<1> QED
  BY <1>1, MoneyBound, ShareAssumption DEF value_of

(* What an amount of money pays for is worth no more than it.               *)
LEMMA ValueBound ==
  ASSUME NEW a \in Nat, NEW p \in Nat \ {0}, NEW q \in Nat, q * p <= a * SHARE
  PROVE  value_of(q, p) <= a
<1>1. q * p \in Nat
  BY Z3
<1> QED
  BY <1>1, MoneyBound, ShareAssumption DEF value_of

(* A call that can be planned. *)
Plannable(c) == R(c, 0, 0, 0)!IsCall(c) /\ R(c, 0, 0, 0)!ValidCall
UniverseOf(c) == DOMAIN c.targets \cup {s \in Symbols : c.held[s] > 0}

(* What R reads of a call does not depend on how far it has come.           *)
LEMMA Reads ==
  ASSUME NEW c, NEW pv, NEW a, NEW b
  PROVE  /\ R(c, pv, a, b)!Universe = UniverseOf(c)
         /\ \A s : R(c, pv, a, b)!delta(s) = R(c, pv, 0, 0)!delta(s)
         /\ R(c, pv, a, b)!reserved = R(c, pv, 0, 0)!reserved
         /\ \A q, s : R(c, pv, a, b)!Worth(q, s) = R(c, pv, 0, 0)!Worth(q, s)
<1>1. R(c, pv, a, b)!Universe = UniverseOf(c)
  BY DEF R!Universe, R!Basket, R!Held, UniverseOf
<1>2. \A s : R(c, pv, a, b)!delta(s) = R(c, pv, 0, 0)!delta(s)
  BY DEF R!delta, R!target_value, R!current_value, R!target_bps, R!deployable,
         R!less_buffer, R!investable, R!portfolio_value, R!Basket, R!Smaller,
         R!apply_bps, R!BPS, R!money, R!value_of
<1>3. R(c, pv, a, b)!reserved = R(c, pv, 0, 0)!reserved
  BY DEF R!reserved, R!investable, R!portfolio_value, R!Smaller, R!apply_bps, R!BPS,
         R!money
<1>4. \A q, s : R(c, pv, a, b)!Worth(q, s) = R(c, pv, 0, 0)!Worth(q, s)
  BY DEF R!Worth, R!value_of, R!money
<1> QED
  BY <1>1, <1>2, <1>3, <1>4

(* What the arguments are. *)
LEMMA Arguments ==
  ASSUME NEW c, Plannable(c)
  PROVE  /\ c.cash \in Nat /\ c.settings.investment_amount \in Nat
         /\ c.settings.cash_buffer_bps \in 0..BPS /\ c.settings.min_order_value \in Nat
         /\ c.settings.max_orders \in Nat
         /\ UniverseOf(c) \subseteq Symbols /\ IsFiniteSet(UniverseOf(c))
         /\ \A s \in Symbols : c.held[s] \in Nat /\ c.price[s] \in Int
         /\ \A s \in UniverseOf(c) : c.price[s] \in Nat \ {0}
         /\ \A s \in DOMAIN c.targets : c.targets[s] \in 0..BPS
<1>1. R(c, 0, 0, 0)!IsCall(c) /\ R(c, 0, 0, 0)!ValidCall
  BY DEF Plannable
<1>2. /\ c.cash \in Int /\ DOMAIN c.targets \subseteq Symbols
      /\ c.settings.investment_amount \in Int
      /\ c.settings.cash_buffer_bps \in 0..BPS /\ c.settings.min_order_value \in Nat
      /\ c.settings.max_orders \in Nat
      /\ \A s \in Symbols : c.held[s] \in Int /\ c.price[s] \in Int
  <2>1. /\ c.cash \in Int /\ DOMAIN c.targets \subseteq Symbols
        /\ c.held \in [Symbols -> Int] /\ c.price \in [Symbols -> Int]
        /\ c.settings \in R(c, 0, 0, 0)!Settings
    BY <1>1 DEF R!IsCall
  <2>2. R(c, 0, 0, 0)!BPS = BPS
    BY DEF R!BPS, BPS
  <2>3. c.settings \in [investment_amount: Int, min_order_value: Nat,
                        cash_buffer_bps: 0..BPS, allow_fractional: BOOLEAN,
                        max_orders: Nat]
    BY <2>1, <2>2 DEF R!Settings
  <2> QED
    BY <2>1, <2>3
<1>3. /\ c.cash >= 0 /\ c.settings.investment_amount > 0
      /\ \A s \in Symbols : c.held[s] >= 0
      /\ \A s \in UniverseOf(c) : c.price[s] > 0
  <2>1. R(c, 0, 0, 0)!Universe = UniverseOf(c)
    BY Reads
  <2> QED
    BY <1>1, <2>1 DEF R!ValidCall
<1>4. \A s \in DOMAIN c.targets : c.targets[s] \in 0..BPS
  <2>1. R(c, 0, 0, 0)!BPS = BPS
    BY DEF R!BPS, BPS
  <2> QED
    BY <1>1, <2>1 DEF R!ValidCall, R!validate_targets, R!Basket
<1>5. UniverseOf(c) \subseteq Symbols /\ IsFiniteSet(UniverseOf(c))
  <2>1. UniverseOf(c) \subseteq Symbols
    BY <1>2 DEF UniverseOf
  <2> QED
    BY <2>1, SymbolsAssumption, FS_Subset
<1> QED
  BY <1>2, <1>3, <1>4, <1>5

(* The helpers of Money are the same wherever they are read from. *)
LEMMA SameBPS ==
  ASSUME NEW c, NEW pv, NEW x, NEW y
  PROVE  R(c, pv, x, y)!BPS = BPS
BY DEF R!BPS, BPS
LEMMA SameMoney ==
  ASSUME NEW c, NEW pv, NEW x, NEW y, NEW n, NEW d
  PROVE  R(c, pv, x, y)!money(n, d) = money(n, d)
BY DEF R!money, money
LEMMA SameValue ==
  ASSUME NEW c, NEW pv, NEW x, NEW y, NEW n, NEW d
  PROVE  R(c, pv, x, y)!value_of(n, d) = value_of(n, d)
BY DEF R!value_of, value_of, R!money, money
LEMMA SameSmaller ==
  ASSUME NEW c, NEW pv, NEW x, NEW y, NEW n, NEW d
  PROVE  R(c, pv, x, y)!Smaller(n, d) = Smaller(n, d)
BY DEF R!Smaller, Smaller
LEMMA SameBps ==
  ASSUME NEW c, NEW pv, NEW x, NEW y, NEW n, NEW d
  PROVE  R(c, pv, x, y)!apply_bps(n, d) = apply_bps(n, d)
BY SameBPS, SameMoney DEF R!apply_bps, apply_bps

(* What R makes of a call it can plan. *)
LEMMA PlanAmounts ==
  ASSUME NEW c, Plannable(c), NEW pv \in Nat
  PROVE  /\ R(c, pv, 0, 0)!reserved \in Nat
         /\ R(c, pv, 0, 0)!deployable \in Nat
         /\ \A s \in UniverseOf(c) :
              /\ R(c, pv, 0, 0)!target_bps(s) \in Nat
              /\ R(c, pv, 0, 0)!current_value(s) \in Nat
              /\ R(c, pv, 0, 0)!target_value(s) \in Nat
              /\ R(c, pv, 0, 0)!delta(s) \in Int
<1> DEFINE v == R(c, pv, 0, 0)!portfolio_value
           i == R(c, pv, 0, 0)!investable
           d == R(c, pv, 0, 0)!deployable
           b == c.settings.cash_buffer_bps
<1>1. SHARE \in Nat \ {0} /\ BPS \in Nat \ {0}
  BY ShareAssumption DEF BPS
<1>2. c.cash \in Nat /\ b \in 0..BPS /\ c.settings.investment_amount \in Nat
  BY Arguments
<1>3. b \in Nat /\ BPS - b \in Nat
  <2>1. b \in 0..BPS
    BY <1>2
  <2> HIDE DEF b
  <2> QED
    BY <2>1 DEF BPS
<1>4. c.cash * SHARE + pv \in Nat
  BY <1>1, <1>2, Z3
<1>5. v = money(c.cash * SHARE + pv, SHARE)
  BY SameMoney DEF R!portfolio_value
<1>6. v \in Nat
  BY <1>1, <1>4, <1>5, MoneyBound
<1>7. i = Smaller(c.settings.investment_amount, v)
  BY SameSmaller DEF R!investable
<1>8. i \in Nat
  BY <1>2, <1>6, <1>7 DEF Smaller
<1>9. d = money(i * (BPS - b), BPS) /\ R(c, pv, 0, 0)!reserved = money(i * b, BPS)
  BY SameMoney, SameBPS, SameBps DEF R!deployable, R!less_buffer, R!reserved, apply_bps
<1> HIDE DEF i, b
<1>10. i * b \in Nat /\ i * (BPS - b) \in Nat
  BY <1>3, <1>8, Z3
<1>11. d \in Nat /\ R(c, pv, 0, 0)!reserved \in Nat
  BY <1>1, <1>9, <1>10, MoneyBound
<1>12. ASSUME NEW s \in UniverseOf(c)
       PROVE  /\ R(c, pv, 0, 0)!target_bps(s) \in Nat
              /\ R(c, pv, 0, 0)!current_value(s) \in Nat
              /\ R(c, pv, 0, 0)!target_value(s) \in Nat
              /\ R(c, pv, 0, 0)!delta(s) \in Int
  <2> DEFINE w == R(c, pv, 0, 0)!target_bps(s)
  <2>1. c.price[s] \in Nat \ {0} /\ c.held[s] \in Nat
    BY Arguments
  <2>2. w \in 0..BPS
    <3>1. R(c, pv, 0, 0)!Basket = DOMAIN c.targets
      BY DEF R!Basket
    <3>2. w = IF s \in DOMAIN c.targets THEN c.targets[s] ELSE 0
      BY <3>1 DEF R!target_bps
    <3>3. s \in DOMAIN c.targets => c.targets[s] \in 0..BPS
      BY Arguments
    <3>4. 0 \in 0..BPS
      BY DEF BPS
    <3> QED
      BY <3>2, <3>3, <3>4
  <2> HIDE DEF w
  <2>3. w \in Nat
    BY <2>2 DEF BPS
  <2>4. R(c, pv, 0, 0)!current_value(s) = value_of(c.held[s], c.price[s])
    BY SameValue DEF R!current_value
  <2>5. R(c, pv, 0, 0)!current_value(s) \in Nat
    BY <2>1, <2>4, ValueType
  <2> HIDE DEF d
  <2>6. R(c, pv, 0, 0)!target_value(s) = money(d * w, BPS)
    BY SameBps DEF R!target_value, w, d, apply_bps
  <2>7. d * w \in Nat
    BY <1>11, <2>3, Z3
  <2>8. R(c, pv, 0, 0)!target_value(s) \in Nat
    BY <1>1, <2>6, <2>7, MoneyBound
  <2> QED
    BY <2>3, <2>5, <2>8 DEF w, R!delta
<1> QED
  BY <1>11, <1>12 DEF d

(* Shares that an amount of money amounts to are worth no more. *)
LEMMA PlanShares ==
  ASSUME NEW c, NEW pv, NEW x, NEW y, NEW a \in Nat, NEW p \in Nat \ {0}
  PROVE  /\ R(c, pv, x, y)!shares(a, p) \in Nat
         /\ R(c, pv, x, y)!shares(a, p) * p <= a * SHARE
<1> DEFINE n == R(c, pv, x, y)!shares(a, p)
<1>1. SHARE \in Nat \ {0}
  BY ShareAssumption
<1>2. n = IF c.settings.allow_fractional THEN (a * SHARE) \div p ELSE (a \div p) * SHARE
  BY DEF R!shares, R!quantity, R!whole_shares
<1> HIDE DEF n
<1>3. a * SHARE \in Nat
  BY <1>1, Z3
<1>4. CASE c.settings.allow_fractional
  <2> DEFINE m == a * SHARE
  <2>1. n = m \div p /\ m \in Nat
    BY <1>2, <1>3, <1>4
  <2> HIDE DEF m
  <2>2. n \in Nat /\ n * p <= m
    BY <2>1, DivBelow
  <2> QED
    BY <2>2 DEF n, m
<1>5. CASE ~c.settings.allow_fractional
  <2> DEFINE q == a \div p
  <2>1. q \in Nat /\ q * p <= a
    BY DivBelow
  <2>2. n = q * SHARE
    BY <1>2, <1>5
  <2> HIDE DEF q
  <2>3. q * SHARE \in Nat /\ (q * SHARE) * p = (q * p) * SHARE
    BY <1>1, <2>1, Z3
  <2>4. (q * p) * SHARE <= a * SHARE
    BY <1>1, <2>1, Z3
  <2> QED
    BY <2>2, <2>3, <2>4 DEF n
<1> QED
  BY <1>4, <1>5

(* Whole shares, of what a call without fractional shares holds and trades. *)
Whole(n) == \E k \in Nat : n = k * SHARE
InWholeShares(c) ==
  ~c.settings.allow_fractional /\ \A s \in Symbols : Whole(c.held[s])

(* An amount of money amounts to whole shares if no fraction is traded.     *)
LEMMA PlanWholeShares ==
  ASSUME NEW c, NEW pv, NEW x, NEW y, NEW a \in Nat, NEW p \in Nat \ {0},
         ~c.settings.allow_fractional
  PROVE  Whole(R(c, pv, x, y)!shares(a, p))
<1>1. R(c, pv, x, y)!shares(a, p) = (a \div p) * SHARE
  BY DEF R!shares, R!whole_shares
<1>2. a \div p \in Nat
  BY DivBelow
<1>. QED BY <1>1, <1>2 DEF Whole

(* A sell is no bigger than the position. *)
LEMMA PlanSellQty ==
  ASSUME NEW c, Plannable(c), NEW pv \in Nat, NEW s \in UniverseOf(c)
  PROVE  /\ R(c, pv, 0, 0)!sell_qty(s) \in 0..c.held[s]
         /\ InWholeShares(c) => Whole(R(c, pv, 0, 0)!sell_qty(s))
<1> DEFINE a == R(c, pv, 0, 0)!Abs(R(c, pv, 0, 0)!delta(s))
           n == R(c, pv, 0, 0)!shares(a, c.price[s])
<1>1. c.price[s] \in Nat \ {0} /\ c.held[s] \in Nat
  BY Arguments
<1>2. R(c, pv, 0, 0)!delta(s) \in Int
  BY PlanAmounts
<1>3. a \in Nat
  BY <1>2 DEF R!Abs
<1>4. R(c, pv, 0, 0)!sell_qty(s) = c.held[s] \/ R(c, pv, 0, 0)!sell_qty(s) = Smaller(n, c.held[s])
  BY SameSmaller DEF R!sell_qty
<1> HIDE DEF a
<1>5. n \in Nat
  BY <1>1, <1>3, PlanShares
<1>6. InWholeShares(c) => Whole(n) /\ Whole(c.held[s])
  BY <1>1, <1>3, PlanWholeShares, Arguments DEF InWholeShares
<1> HIDE DEF n
<1> QED
  BY <1>1, <1>4, <1>5, <1>6 DEF Smaller

(* A buy can be paid for with what is left. *)
LEMMA PlanBuyQty ==
  ASSUME NEW c, Plannable(c), NEW pv \in Nat, NEW left \in Nat, NEW s \in UniverseOf(c),
         R(c, pv, 0, 0)!delta(s) > 0
  PROVE  LET q == R(c, pv, 0, left)!buy_qty(s) IN
         /\ q \in Nat /\ value_of(q, c.price[s]) \in Nat
         /\ value_of(q, c.price[s]) <= left
         /\ InWholeShares(c) => Whole(q)
<1> DEFINE p == c.price[s]
           a == R(c, pv, 0, left)!affordable(s)
           q == R(c, pv, 0, left)!buy_qty(s)
<1>1. p \in Nat \ {0}
  BY Arguments
<1>2. R(c, pv, 0, 0)!delta(s) \in Int /\ R(c, pv, 0, left)!delta(s) = R(c, pv, 0, 0)!delta(s)
  BY PlanAmounts, Reads
<1>3. a = Smaller(R(c, pv, 0, 0)!delta(s), left)
  BY <1>2, SameSmaller DEF R!affordable
<1>4. a \in Nat /\ a <= left
  BY <1>2, <1>3 DEF Smaller
<1>5. q = R(c, pv, 0, left)!shares(a, p)
  BY DEF R!buy_qty
<1> HIDE DEF a, q
<1>6. q \in Nat /\ q * p <= a * SHARE
  BY <1>1, <1>4, <1>5, PlanShares
<1>7. value_of(q, p) \in Nat /\ value_of(q, p) <= a
  BY <1>1, <1>4, <1>6, ValueType, ValueBound
<1>8. InWholeShares(c) => Whole(q)
  BY <1>1, <1>4, <1>5, PlanWholeShares DEF InWholeShares
<1> QED
  BY <1>4, <1>6, <1>7, <1>8 DEF q

(* A list in order has every element once.                                  *)
LEMMA InOrderLists ==
  ASSUME NEW S, IsFiniteSet(S), NEW P, StrictOrder(S, P)
  PROVE  LET n == Cardinality(S)
             q == InOrder(S, P)
         IN  /\ n \in Nat /\ q \in [1..n -> S]
             /\ \A i, j \in 1..n : i # j => q[i] # q[j]
             /\ \A s \in S : \E i \in 1..n : q[i] = s
<1>1. InOrder(S, P) = Ranking(S, P)
  BY DEF InOrder, Ranking
<1> QED
  BY <1>1, RankedList

(* The order of the universe, and the order of need, leave no tie.          *)
First(c, pv) == {e \in Symbols \X Symbols : R(c, pv, 0, 0)!UniverseBefore(e[1], e[2])}
Needier(c, pv) == {e \in Symbols \X Symbols : R(c, pv, 0, 0)!BuyBefore(e[1], e[2])}

(* The universe is ranked strictly: by basket position, then by symbol.     *)
LEMMA UniverseInOrder ==
  ASSUME NEW c, NEW pv, NEW S, S \subseteq Symbols
  PROVE  StrictOrder(S, First(c, pv)) /\ IsFiniteSet(S)
<1> DEFINE P == First(c, pv)
           B == R(c, pv, 0, 0)!Basket
<1>1. IsFiniteSet(S) /\ S \subseteq Nat
  BY SymbolsAssumption, FS_Subset
<1>2. \A s, t \in S : <<s, t>> \in P <=> R(c, pv, 0, 0)!UniverseBefore(s, t)
  BY DEF First
<1>3. \A s, t \in S : <<s, t>> \in P <=> \/ s \in B /\ t \notin B
                                         \/ (s \in B <=> t \in B) /\ s < t
  BY <1>2 DEF R!UniverseBefore
<1> HIDE DEF P, B
<1>4. StrictOrder(S, P)
  BY <1>1, <1>3 DEF StrictOrder
<1> QED
  BY <1>1, <1>4 DEF P

(* The drift of a symbol is a number of basis points, whatever its sign.    *)
LEMMA DriftIsInt ==
  ASSUME NEW c, Plannable(c), NEW pv \in Nat, NEW s \in UniverseOf(c)
  PROVE  R(c, pv, 0, 0)!drift_bps(s) \in Int
<1> DEFINE d == R(c, pv, 0, 0)!deployable
           v == R(c, pv, 0, 0)!current_value(s)
           w == R(c, pv, 0, 0)!target_bps(s)
           b == R(c, pv, 0, 0)!bps_of(v, d)
<1>1. d \in Nat /\ v \in Nat /\ w \in Nat
  BY PlanAmounts
<1>2. R(c, pv, 0, 0)!drift_bps(s) = b - w
  BY DEF R!drift_bps
<1> HIDE DEF d, v, w
<1>3. b = IF d <= 0 THEN 0 ELSE money(v * BPS, d)
  BY SameBPS, SameMoney DEF R!bps_of
<1>4. v * BPS \in Nat
  BY <1>1 DEF BPS
<1>5. d > 0 => money(v * BPS, d) \in Nat
  BY <1>1, <1>4, MoneyBound
<1> HIDE DEF b
<1> QED
  BY <1>1, <1>2, <1>3, <1>5

(* The queue of buys is ranked strictly: by drift, then by the universe.    *)
LEMMA NeedInOrder ==
  ASSUME NEW c, Plannable(c), NEW pv \in Nat, NEW S, S \subseteq UniverseOf(c)
  PROVE  StrictOrder(S, Needier(c, pv)) /\ IsFiniteSet(S)
<1> DEFINE P == Needier(c, pv)
           Q == First(c, pv)
           d(s) == R(c, pv, 0, 0)!drift_bps(s)
<1>1. S \subseteq Symbols
  BY Arguments
<1>2. StrictOrder(S, Q) /\ IsFiniteSet(S)
  BY <1>1, UniverseInOrder
<1>3. \A s \in S : d(s) \in Int
  BY DriftIsInt
<1>4. \A s, t \in S : <<s, t>> \in P <=> R(c, pv, 0, 0)!BuyBefore(s, t)
  BY <1>1 DEF Needier
<1>5. \A s, t \in S : <<s, t>> \in Q <=> R(c, pv, 0, 0)!UniverseBefore(s, t)
  BY <1>1 DEF First
<1>6. \A s, t \in S : <<s, t>> \in P <=> d(s) < d(t) \/ (d(s) = d(t) /\ <<s, t>> \in Q)
  BY <1>4, <1>5 DEF R!BuyBefore
<1> HIDE DEF P, Q, d
<1>7. StrictOrder(S, P)
  BY <1>2, <1>3, <1>6 DEF StrictOrder
<1> QED
  BY <1>2, <1>7 DEF P

(* An order of the plan of a call.                                          *)
PlannedOrder == [symbol: Symbols, side: {"sell", "buy"}, quantity: Nat, value: Nat]
OrderOf(c, o) ==
  /\ o \in PlannedOrder
  /\ o.value = value_of(o.quantity, c.price[o.symbol])
  /\ o.side = "sell" => o.quantity <= c.held[o.symbol]
  /\ InWholeShares(c) => Whole(o.quantity)

(* What is sold is an order within what the account holds.                  *)
LEMMA SellIsOrder ==
  ASSUME NEW c, Plannable(c), NEW pv \in Nat, NEW s \in UniverseOf(c)
  PROVE  /\ OrderOf(c, sell_order(c, pv, s))
         /\ sell_order(c, pv, s).symbol = s /\ sell_order(c, pv, s).side = "sell"
<1> DEFINE q == R(c, pv, 0, 0)!sell_qty(s)
           o == sell_order(c, pv, s)
<1>1. s \in Symbols /\ c.price[s] \in Nat \ {0} /\ c.held[s] \in Nat
  BY Arguments
<1>2. q \in Nat /\ q <= c.held[s] /\ (InWholeShares(c) => Whole(q))
  BY <1>1, PlanSellQty
<1>3. o = [symbol |-> s, side |-> "sell", quantity |-> q, value |-> value_of(q, c.price[s])]
  BY DEF sell_order, order
<1> HIDE DEF q, o
<1>4. value_of(q, c.price[s]) \in Nat
  BY <1>1, <1>2, ValueType
<1>5. o \in PlannedOrder
  BY <1>1, <1>2, <1>3, <1>4, Zenon DEF PlannedOrder
<1>6. /\ o.symbol = s /\ o.side = "sell" /\ o.quantity = q
      /\ o.value = value_of(q, c.price[s])
  BY <1>3, Zenon
<1>7. OrderOf(c, o)
  BY <1>2, <1>5, <1>6, Zenon DEF OrderOf
<1> QED
  BY <1>6, <1>7 DEF o

(* No two of the first n orders of p are of one symbol. *)
OnceEach(p, n) == \A i, j \in 1..n : i # j => p[i].symbol # p[j].symbol

(* The sells: one for each symbol sold, and what the account has after each. *)
LEMMA SellsAreOrders ==
  ASSUME NEW c, Plannable(c), NEW pv \in Nat
  PROVE  LET n == Cardinality(Sold(c, pv)) IN
         /\ n \in Nat /\ Sold(c, pv) \subseteq UniverseOf(c)
         /\ sells(c, pv) \in Seq(PlannedOrder) /\ Len(sells(c, pv)) = n
         /\ \A i \in 1..n : /\ OrderOf(c, sells(c, pv)[i])
                            /\ sells(c, pv)[i].side = "sell"
                            /\ sells(c, pv)[i].symbol \in Sold(c, pv)
         /\ OnceEach(sells(c, pv), n)
         /\ proceeds_of(c, pv) \in Nat
         /\ \E g \in [0..n -> Nat] :
              /\ g[0] = c.cash /\ g[n] = c.cash + proceeds_of(c, pv)
              /\ \A i \in 1..n : g[i] = g[i - 1] + sells(c, pv)[i].value
<1> DEFINE S == Sold(c, pv)
           n == Cardinality(S)
           q == InOrder(S, First(c, pv))
           v == [s \in S |-> sell_order(c, pv, s).value]
           g == [i \in 0..n |-> c.cash + SumFunctionOnSet(v, {q[j] : j \in 1..i})]
<1>1. S \subseteq UniverseOf(c)
  BY Reads DEF Sold
<1>2. S \subseteq Symbols
  BY <1>1, Arguments
<1>3. StrictOrder(S, First(c, pv)) /\ IsFiniteSet(S)
  BY <1>2, UniverseInOrder
<1>4. /\ n \in Nat /\ q \in [1..n -> S]
      /\ \A i, j \in 1..n : i # j => q[i] # q[j]
      /\ \A s \in S : \E i \in 1..n : q[i] = s
  <2> HIDE DEF S
  <2> QED
    BY <1>3, InOrderLists
<1>5. sells(c, pv) = [i \in 1..n |-> sell_order(c, pv, q[i])]
  <2>1. sells(c, pv) = [i \in DOMAIN q |-> sell_order(c, pv, q[i])]
    BY DEF sells, First
  <2>2. DOMAIN q = 1..n
    BY <1>4
  <2> QED
    BY <2>1, <2>2
<1> DEFINE a == sells(c, pv)
<1> HIDE DEF q, n, S
<1>6. \A s \in S : /\ OrderOf(c, sell_order(c, pv, s))
                   /\ sell_order(c, pv, s).symbol = s /\ sell_order(c, pv, s).side = "sell"
  BY <1>1, SellIsOrder
<1>7. ASSUME NEW i \in 1..n
      PROVE  /\ q[i] \in S /\ a[i] = sell_order(c, pv, q[i])
             /\ OrderOf(c, a[i]) /\ a[i] \in PlannedOrder
             /\ a[i].side = "sell" /\ a[i].symbol = q[i]
  BY <1>4, <1>5, <1>6 DEF OrderOf
<1>8. a \in Seq(PlannedOrder) /\ Len(a) = n
  BY <1>4, <1>5, <1>7
<1>9. proceeds_of(c, pv) = SumFunctionOnSet(v, S)
  BY DEF proceeds_of, S
<1>10. \A s \in S : v[s] \in Nat
  BY <1>6 DEF OrderOf, PlannedOrder
<1> HIDE DEF a
<1>11. ASSUME NEW i \in 1..n PROVE v[q[i]] = a[i].value
  BY <1>7
<1> HIDE DEF v
<1>12. \A T \in SUBSET S : SumFunctionOnSet(v, T) \in Nat
  <2> SUFFICES ASSUME NEW T \in SUBSET S PROVE SumFunctionOnSet(v, T) \in Nat
    OBVIOUS
  <2>1. IsFiniteSet(T) /\ \A s \in T : v[s] \in Nat
    BY <1>3, <1>10, FS_Subset
  <2> QED
    BY <2>1, SumIsNat
<1>13. c.cash \in Nat
  BY Arguments
<1>14. \A i \in 0..n : {q[j] : j \in 1..i} \in SUBSET S
  BY <1>4
<1>15. g \in [0..n -> Nat]
  BY <1>12, <1>13, <1>14
<1>16. g[0] = c.cash
  <2>1. {q[j] : j \in 1..0} = {}
    OBVIOUS
  <2>2. 0 \in 0..n
    BY <1>4
  <2> QED
    BY <1>13, <2>1, <2>2, SumOfNone
<1>17. g[n] = c.cash + SumFunctionOnSet(v, S)
  <2>1. {q[j] : j \in 1..n} = S
    BY <1>4
  <2>2. n \in 0..n
    BY <1>4
  <2> QED
    BY <2>1, <2>2
<1>18. ASSUME NEW i \in 1..n PROVE g[i] = g[i - 1] + a[i].value
  <2> DEFINE T == {q[j] : j \in 1..i}
             U == {q[j] : j \in 1..(i - 1)}
  <2>1. i \in 0..n /\ i - 1 \in 0..n
    BY <1>4
  <2>2. T \in SUBSET S /\ U \in SUBSET S
    BY <1>14, <2>1
  <2>3. q[i] \in T /\ U = T \ {q[i]}
    <3>1. \A j \in 1..(i - 1) : j \in 1..i /\ j \in 1..n /\ j # i
      BY <1>4
    <3>2. \A j \in 1..i : j = i \/ j \in 1..(i - 1)
      BY <1>4
    <3>3. i \in 1..i
      BY <1>4
    <3> QED
      BY <1>4, <3>1, <3>2, <3>3
  <2>4. g[i] = c.cash + SumFunctionOnSet(v, T) /\ g[i - 1] = c.cash + SumFunctionOnSet(v, U)
    BY <2>1
  <2> HIDE DEF T, U, g
  <2>5. \A s \in S : v[s] \in Int
    BY <1>10
  <2>6. SumFunctionOnSet(v, T) = v[q[i]] + SumFunctionOnSet(v, U)
    BY <1>3, <2>2, <2>3, <2>5, SumTakesOut
  <2>7. SumFunctionOnSet(v, T) \in Nat /\ SumFunctionOnSet(v, U) \in Nat /\ v[q[i]] \in Nat
    BY <1>7, <1>10, <1>12, <2>2
  <2> QED
    BY <1>11, <1>13, <2>4, <2>6, <2>7
<1>19. proceeds_of(c, pv) \in Nat
  BY <1>9, <1>12
<1>20. OnceEach(a, n)
  BY <1>4, <1>7 DEF OnceEach
<1> HIDE DEF g
<1>21. \E h \in [0..n -> Nat] :
         /\ h[0] = c.cash /\ h[n] = c.cash + proceeds_of(c, pv)
         /\ \A i \in 1..n : h[i] = h[i - 1] + a[i].value
  BY <1>9, <1>15, <1>16, <1>17, <1>18
<1> QED
  BY <1>1, <1>4, <1>7, <1>8, <1>19, <1>20, <1>21 DEF a, n, S

(* What the buys start from.                                                *)
BudgetOf(c, pv) == R(c, pv, proceeds_of(c, pv), 0)!budget

(* The visits recur on the number of symbols visited.                       *)
LEMMA Visits ==
  ASSUME NEW c, NEW pv, Len(by_need(c, pv)) \in Nat
  PROVE  /\ bought(c, pv)[0] = [remaining |-> BudgetOf(c, pv), buys |-> <<>>]
         /\ \A i \in 1..Len(by_need(c, pv)) :
              bought(c, pv)[i] = buy(c, pv, bought(c, pv)[i - 1], by_need(c, pv)[i])
<1> DEFINE q == by_need(c, pv)
           n == Len(q)
           start == [remaining |-> BudgetOf(c, pv), buys |-> <<>>]
           Is(f, m) == f = [i \in 0..m |-> IF i = 0 THEN start ELSE buy(c, pv, f[i - 1], q[i])]
           h == CHOOSE f : Is(f, n)
           G == {m \in 0..n : \E f : Is(f, m)}
<1>1. n \in Nat
  OBVIOUS
<1>2. bought(c, pv) = h
  BY DEF bought, BudgetOf
<1> HIDE DEF n, q, start
<1>3. 0 \in G
  <2>1. Is([i \in 0..0 |-> start], 0)
    OBVIOUS
  <2>2. 0 \in 0..n
    BY <1>1
  <2> QED
    BY <2>1, <2>2
<1>4. ASSUME NEW m \in 1..n, m - 1 \in G PROVE m \in G
  <2>1. PICK f : Is(f, m - 1)
    BY <1>4
  <2> DEFINE g == [i \in 0..m |-> IF i < m THEN f[i] ELSE buy(c, pv, f[m - 1], q[m])]
  <2>2. m \in Nat /\ m > 0
    BY <1>1
  <2>3. f[0] = start /\ \A i \in 1..(m - 1) : f[i] = buy(c, pv, f[i - 1], q[i])
    BY <2>1, <2>2
  <2>4. \A i \in 0..(m - 1) : g[i] = f[i]
    BY <2>2
  <2>5. g[0] = start
    BY <2>2, <2>3, <2>4
  <2>6. \A i \in 1..m : g[i] = buy(c, pv, g[i - 1], q[i])
    <3> SUFFICES ASSUME NEW i \in 1..m PROVE g[i] = buy(c, pv, g[i - 1], q[i])
      OBVIOUS
    <3>1. i - 1 \in 0..(m - 1) /\ g[i - 1] = f[i - 1]
      BY <2>2, <2>4
    <3>2. CASE i = m
      <4>1. g[m] = buy(c, pv, f[m - 1], q[m])
        BY <2>2
      <4> HIDE DEF g
      <4> QED
        BY <3>1, <3>2, <4>1
    <3>3. CASE i # m
      <4>1. i \in 1..(m - 1) /\ i \in 0..(m - 1)
        BY <2>2, <3>3
      <4> HIDE DEF g
      <4> QED
        BY <2>3, <2>4, <3>1, <4>1
    <3> QED
      BY <3>2, <3>3
  <2>7. Is(g, m)
    <3>1. g = [i \in 0..m |-> g[i]]
      OBVIOUS
    <3> HIDE DEF g
    <3>2. \A i \in 0..m : g[i] = IF i = 0 THEN start ELSE buy(c, pv, g[i - 1], q[i])
      <4>1. \A i \in 0..m : i = 0 \/ i \in 1..m
        BY <2>2
      <4>2. \A i \in 1..m : i # 0
        OBVIOUS
      <4> QED
        BY <2>5, <2>6, <4>1, <4>2
    <3> QED
      BY <3>1, <3>2
  <2>8. m \in 0..n
    BY <1>1
  <2> HIDE DEF g, Is
  <2> QED
    BY <2>7, <2>8
<1> HIDE DEF G
<1>5. n \in G
  <2>1. n \in 0..n
    BY <1>1
  <2> QED
    BY <1>1, <1>3, <1>4, <2>1, StepByStep
<1>6. Is(h, n)
  <2>1. \E f : Is(f, n)
    BY <1>5 DEF G
  <2> HIDE DEF Is
  <2> QED
    BY <2>1
<1> HIDE DEF h
<1>7. h[0] = start /\ \A i \in 1..n : h[i] = buy(c, pv, h[i - 1], q[i])
  BY <1>1, <1>6
<1> QED
  BY <1>2, <1>7 DEF n, q, start

(* What is bought is an order within what is left of the budget.            *)
LEMMA BuyIsOrder ==
  ASSUME NEW c, Plannable(c), NEW pv \in Nat, NEW left \in Nat, NEW s \in UniverseOf(c),
         R(c, pv, 0, 0)!delta(s) > 0
  PROVE  LET o == buy_order(c, pv, left, s) IN
         OrderOf(c, o) /\ o.symbol = s /\ o.side = "buy" /\ o.value <= left
<1> DEFINE q == R(c, pv, 0, left)!buy_qty(s)
           o == buy_order(c, pv, left, s)
<1>1. s \in Symbols
  BY Arguments
<1>2. /\ q \in Nat /\ value_of(q, c.price[s]) \in Nat
      /\ value_of(q, c.price[s]) <= left
      /\ InWholeShares(c) => Whole(q)
  BY PlanBuyQty
<1>3. o = [symbol |-> s, side |-> "buy", quantity |-> q, value |-> value_of(q, c.price[s])]
  BY DEF buy_order, order
<1> HIDE DEF q, o
<1>4. o \in PlannedOrder
  BY <1>1, <1>2, <1>3, Zenon DEF PlannedOrder
<1>5. /\ o.symbol = s /\ o.side = "buy" /\ o.quantity = q
      /\ o.value = value_of(q, c.price[s])
  BY <1>3, Zenon
<1>6. o.side # "sell"
  BY <1>5
<1>7. OrderOf(c, o)
  BY <1>2, <1>4, <1>5, <1>6, Zenon DEF OrderOf
<1> QED
  BY <1>2, <1>5, <1>7 DEF o

(* What is known after some visits: the buys so far are orders for symbols  *)
(* visited, and can be paid for one after the other from what the sells     *)
(* leave, down to no less than what remains.                                *)
PaidFor(c, pv, a, seen) ==
  /\ a.remaining \in Nat /\ a.buys \in Seq(PlannedOrder)
  /\ \A i \in 1..Len(a.buys) : /\ OrderOf(c, a.buys[i])
                               /\ a.buys[i].side = "buy" /\ a.buys[i].symbol \in seen
  /\ \A i, j \in 1..Len(a.buys) : i # j => a.buys[i].symbol # a.buys[j].symbol
  /\ \E g \in [0..Len(a.buys) -> Nat] :
       /\ g[0] = c.cash + proceeds_of(c, pv) /\ g[Len(a.buys)] >= a.remaining
       /\ \A i \in 1..Len(a.buys) : g[i] = g[i - 1] - a.buys[i].value

(* One visit of the buy loop keeps the buys paid for.                       *)
LEMMA BuyKeepsPaidFor ==
  ASSUME NEW c, Plannable(c), NEW pv \in Nat, NEW a, NEW seen, NEW s \in Under(c, pv),
         s \notin seen, PaidFor(c, pv, a, seen)
  PROVE  PaidFor(c, pv, buy(c, pv, a, s), seen \cup {s})
<1> DEFINE o == buy_order(c, pv, a.remaining, s)
           b == buy(c, pv, a, s)
<1>1. /\ a.remaining \in Nat /\ a.buys \in Seq(PlannedOrder)
      /\ \A i \in 1..Len(a.buys) : /\ OrderOf(c, a.buys[i])
                                   /\ a.buys[i].side = "buy" /\ a.buys[i].symbol \in seen
      /\ \A i, j \in 1..Len(a.buys) : i # j => a.buys[i].symbol # a.buys[j].symbol
  BY DEF PaidFor
<1>2. s \in UniverseOf(c) /\ R(c, pv, 0, 0)!delta(s) > 0
  BY Reads DEF Under
<1>3. OrderOf(c, o) /\ o.symbol = s /\ o.side = "buy" /\ o.value <= a.remaining
  BY <1>1, <1>2, BuyIsOrder
<1>4. o \in PlannedOrder /\ o.value \in Nat
  BY <1>3 DEF OrderOf, PlannedOrder
<1>5. b = a \/ b = [remaining |-> a.remaining - o.value, buys |-> Append(a.buys, o)]
  BY DEF buy
<1>6. CASE b = a
  BY <1>6 DEF PaidFor
<1>7. CASE b = [remaining |-> a.remaining - o.value, buys |-> Append(a.buys, o)]
  <2> DEFINE m == Len(a.buys)
             q == Append(a.buys, o)
  <2> HIDE DEF o, b
  <2>1. b.remaining = a.remaining - o.value /\ b.buys = q
    <3> HIDE DEF q
    <3>1. b = [remaining |-> a.remaining - o.value, buys |-> q]
      BY <1>7 DEF q
    <3> QED
      BY <3>1
  <2>2. m \in Nat
    BY <1>1
  <2>3. /\ q \in Seq(PlannedOrder) /\ Len(q) = m + 1 /\ q[m + 1] = o
        /\ \A i \in 1..m : q[i] = a.buys[i]
    BY <1>1, <1>4
  <2>4. a.remaining - o.value \in Nat
    BY <1>1, <1>3, <1>4
  <2>5. PICK g \in [0..m -> Nat] :
          /\ g[0] = c.cash + proceeds_of(c, pv) /\ g[m] >= a.remaining
          /\ \A i \in 1..m : g[i] = g[i - 1] - a.buys[i].value
    BY DEF PaidFor
  <2> HIDE DEF m, q
  <2> DEFINE h == [i \in 0..(m + 1) |-> IF i <= m THEN g[i] ELSE g[m] - o.value]
  <2>6. g[m] - o.value \in Nat
    <3>1. g[m] \in Nat
      BY <2>2, <2>5
    <3> QED
      BY <1>1, <1>3, <1>4, <2>5, <3>1
  <2>7. h \in [0..(m + 1) -> Nat] /\ h[0] = g[0] /\ h[m + 1] = g[m] - o.value
    BY <2>2, <2>5, <2>6
  <2>8. h[m + 1] >= a.remaining - o.value
    <3>1. g[m] \in Nat
      BY <2>2, <2>5
    <3> QED
      BY <1>1, <1>4, <2>5, <2>7, <3>1
  <2>9. \A i \in 1..(m + 1) : h[i] = h[i - 1] - q[i].value
    <3> SUFFICES ASSUME NEW i \in 1..(m + 1) PROVE h[i] = h[i - 1] - q[i].value
      OBVIOUS
    <3>1. CASE i = m + 1
      <4>1. h[i - 1] = g[m] /\ q[i] = o
        BY <2>2, <2>3, <3>1
      <4> QED
        BY <2>7, <3>1, <4>1
    <3>2. CASE i # m + 1
      <4>1. i \in 1..m /\ i - 1 \in 0..m
        BY <2>2, <3>2
      <4>2. h[i] = g[i] /\ h[i - 1] = g[i - 1] /\ q[i] = a.buys[i]
        BY <2>2, <2>3, <4>1
      <4> QED
        BY <2>5, <4>1, <4>2
    <3> QED
      BY <3>1, <3>2
  <2> HIDE DEF h
  <2>10. \E f \in [0..(m + 1) -> Nat] :
           /\ f[0] = c.cash + proceeds_of(c, pv) /\ f[m + 1] >= a.remaining - o.value
           /\ \A i \in 1..(m + 1) : f[i] = f[i - 1] - q[i].value
    BY <2>5, <2>7, <2>8, <2>9
  <2>11. ASSUME NEW i \in 1..(m + 1)
         PROVE  /\ OrderOf(c, q[i]) /\ q[i].side = "buy" /\ q[i].symbol \in seen \cup {s}
                /\ i # m + 1 => q[i].symbol \in seen
                /\ i = m + 1 => q[i].symbol = s
    <3>1. i = m + 1 \/ i \in 1..m
      BY <2>2
    <3>2. i = m + 1 => q[i] = o
      BY <2>3
    <3>3. i \in 1..m => q[i] = a.buys[i]
      BY <2>3
    <3> QED
      BY <1>1, <1>3, <3>1, <3>2, <3>3 DEF m
  <2>12. \A i, j \in 1..(m + 1) : i # j => q[i].symbol # q[j].symbol
    <3> SUFFICES ASSUME NEW i \in 1..(m + 1), NEW j \in 1..(m + 1), i # j
                 PROVE  q[i].symbol # q[j].symbol
      OBVIOUS
    <3>1. CASE i = m + 1 \/ j = m + 1
      BY <2>11, <3>1
    <3>2. CASE i # m + 1 /\ j # m + 1
      <4>1. i \in 1..m /\ j \in 1..m
        BY <2>2, <3>2
      <4> QED
        BY <1>1, <2>3, <4>1 DEF m
    <3> QED
      BY <3>1, <3>2
  <2>13. m + 1 = Len(b.buys)
    BY <2>1, <2>3
  <2>14. b.remaining \in Nat /\ b.buys \in Seq(PlannedOrder)
    BY <2>1, <2>3, <2>4
  <2>15. \A i \in 1..Len(b.buys) : /\ OrderOf(c, b.buys[i]) /\ b.buys[i].side = "buy"
                                   /\ b.buys[i].symbol \in seen \cup {s}
    BY <2>1, <2>11, <2>13
  <2>16. \A i, j \in 1..Len(b.buys) : i # j => b.buys[i].symbol # b.buys[j].symbol
    BY <2>1, <2>12, <2>13
  <2>17. \E f \in [0..Len(b.buys) -> Nat] :
           /\ f[0] = c.cash + proceeds_of(c, pv) /\ f[Len(b.buys)] >= b.remaining
           /\ \A i \in 1..Len(b.buys) : f[i] = f[i - 1] - b.buys[i].value
    BY <2>1, <2>10, <2>13
  <2> QED
    BY <2>14, <2>15, <2>16, <2>17 DEF PaidFor, b
<1> QED
  BY <1>5, <1>6, <1>7 DEF b

(* The buys of the plan.                                                    *)
LEMMA BuysAreOrders ==
  ASSUME NEW c, Plannable(c), NEW pv \in Nat
  PROVE  LET n == Cardinality(Under(c, pv)) IN
         /\ n \in Nat /\ Under(c, pv) \subseteq UniverseOf(c)
         /\ PaidFor(c, pv, bought(c, pv)[n], Under(c, pv))
<1> DEFINE S == Under(c, pv)
           n == Cardinality(S)
           q == by_need(c, pv)
           seen(k) == {q[j] : j \in 1..k}
           G == {k \in 0..n : PaidFor(c, pv, bought(c, pv)[k], seen(k))}
<1>1. S \subseteq UniverseOf(c)
  BY Reads DEF Under
<1>2. StrictOrder(S, Needier(c, pv)) /\ IsFiniteSet(S)
  BY <1>1, NeedInOrder
<1>3. q = InOrder(S, Needier(c, pv))
  BY DEF by_need, Needier
<1> HIDE DEF S, q
<1>4. /\ n \in Nat /\ q \in [1..n -> S]
      /\ \A i, j \in 1..n : i # j => q[i] # q[j]
      /\ \A s \in S : \E i \in 1..n : q[i] = s
  BY <1>2, <1>3, InOrderLists
<1> HIDE DEF n
<1>5. Len(q) = n
  BY <1>4
<1>6. /\ bought(c, pv)[0] = [remaining |-> BudgetOf(c, pv), buys |-> <<>>]
      /\ \A i \in 1..n : bought(c, pv)[i] = buy(c, pv, bought(c, pv)[i - 1], q[i])
  <2>1. by_need(c, pv) = q /\ Len(by_need(c, pv)) = n
    BY <1>5 DEF q
  <2>2. /\ bought(c, pv)[0] = [remaining |-> BudgetOf(c, pv), buys |-> <<>>]
        /\ \A i \in 1..Len(by_need(c, pv)) :
             bought(c, pv)[i] = buy(c, pv, bought(c, pv)[i - 1], by_need(c, pv)[i])
    BY <1>4, <2>1, Visits
  <2> QED
    BY <2>1, <2>2
<1>7. 0 \in G
  <2> DEFINE a == [remaining |-> BudgetOf(c, pv), buys |-> <<>>]
             x == c.cash + proceeds_of(c, pv)
             r == R(c, pv, 0, 0)!reserved
  <2>1. c.cash \in Nat /\ proceeds_of(c, pv) \in Nat /\ r \in Nat
    BY Arguments, SellsAreOrders, PlanAmounts
  <2>2. BudgetOf(c, pv) = IF x - r < 0 THEN 0 ELSE x - r
    <3>1. R(c, pv, proceeds_of(c, pv), 0)!reserved = r
      BY Reads
    <3> QED
      BY <2>1, <3>1 DEF BudgetOf, R!budget
  <2>3. BudgetOf(c, pv) \in Nat /\ BudgetOf(c, pv) <= x /\ x \in Nat
    BY <2>1, <2>2
  <2> HIDE DEF x, r
  <2>4. a.remaining = BudgetOf(c, pv) /\ a.buys = <<>>
    OBVIOUS
  <2> HIDE DEF a
  <2>5. Len(a.buys) = 0 /\ a.buys \in Seq(PlannedOrder)
    BY <2>4
  <2>6. \E g \in [0..0 -> Nat] : g[0] = x /\ g[0] >= BudgetOf(c, pv)
    <3>1. [i \in 0..0 |-> x] \in [0..0 -> Nat] /\ [i \in 0..0 |-> x][0] = x
      BY <2>3
    <3> QED
      BY <2>3, <3>1
  <2>7. 1..0 = {}
    OBVIOUS
  <2>8. PaidFor(c, pv, a, seen(0))
    BY <2>3, <2>4, <2>5, <2>6, <2>7 DEF PaidFor, x
  <2>9. 0 \in 0..n
    BY <1>4
  <2> QED
    BY <1>6, <2>8, <2>9 DEF a
<1>8. ASSUME NEW k \in 1..n, k - 1 \in G PROVE k \in G
  <2>1. k \in 0..n /\ q[k] \in S
    BY <1>4
  <2>2. PaidFor(c, pv, bought(c, pv)[k - 1], seen(k - 1))
    BY <1>8
  <2>3. seen(k) = seen(k - 1) \cup {q[k]} /\ q[k] \notin seen(k - 1)
    <3>1. \A j \in 1..(k - 1) : j \in 1..k /\ j \in 1..n /\ j # k
      BY <1>4
    <3>2. \A j \in 1..k : j = k \/ j \in 1..(k - 1)
      BY <1>4
    <3>3. k \in 1..k
      BY <1>4
    <3> QED
      BY <1>4, <3>1, <3>2, <3>3
  <2> HIDE DEF seen
  <2>4. PaidFor(c, pv, buy(c, pv, bought(c, pv)[k - 1], q[k]), seen(k - 1) \cup {q[k]})
    BY <2>1, <2>2, <2>3, BuyKeepsPaidFor DEF S
  <2> QED
    BY <1>6, <2>1, <2>3, <2>4
<1>9. n \in G
  <2>1. n \in 0..n
    BY <1>4
  <2> HIDE DEF G
  <2> QED
    BY <1>4, <1>7, <1>8, <2>1, StepByStep
<1>10. seen(n) = S
  BY <1>4
<1> QED
  BY <1>1, <1>4, <1>9, <1>10 DEF n, S

(* A list of orders for different symbols that an account with so much cash *)
(* can carry out one after the other, no balance on the way below zero.     *)
PaysItsWay(q, opening) ==
  \E g \in [0..Len(q) -> Nat] :
    /\ g[0] = opening
    /\ \A i \in 1..Len(q) :
         g[i] = IF q[i].side = "buy" THEN g[i - 1] - q[i].value ELSE g[i - 1] + q[i].value
Executable(c, q) ==
  /\ q \in Seq(PlannedOrder)
  /\ \A i \in 1..Len(q) : OrderOf(c, q[i])
  /\ \A i, j \in 1..Len(q) : i # j => q[i].symbol # q[j].symbol
  /\ PaysItsWay(q, c.cash)

(* What is held is worth an amount of money.                                *)
LEMMA PositionsValueIsNat ==
  ASSUME NEW c, Plannable(c)
  PROVE  positions_value_of(c) \in Nat
<1> DEFINE H == R(c, 0, 0, 0)!Held
           v == [s \in H |-> c.held[s] * c.price[s]]
<1>1. H = {s \in Symbols : c.held[s] > 0}
  BY DEF R!Held
<1>2. H \subseteq UniverseOf(c) /\ IsFiniteSet(H)
  <2>1. H \subseteq UniverseOf(c)
    BY <1>1 DEF UniverseOf
  <2> HIDE DEF H
  <2> QED
    BY <2>1, Arguments, FS_Subset
<1>3. ASSUME NEW s \in H PROVE v[s] \in Nat
  <2>1. s \in UniverseOf(c) /\ s \in Symbols
    BY <1>2, Arguments
  <2>2. c.held[s] \in Nat /\ c.price[s] \in Nat
    BY <2>1, Arguments
  <2>3. c.held[s] * c.price[s] \in Nat
    BY <2>2, Z3
  <2> HIDE DEF H
  <2> QED
    BY <2>3
<1>4. positions_value_of(c) = SumFunctionOnSet(v, H)
  BY DEF positions_value_of
<1> HIDE DEF v, H
<1> QED
  BY <1>2, <1>3, <1>4, SumIsNat

(* The elements of a sequence and of the one after it.                      *)
LEMMA Joined ==
  ASSUME NEW T, NEW a \in Seq(T), NEW b \in Seq(T)
  PROVE  /\ a \o b \in Seq(T) /\ Len(a \o b) = Len(a) + Len(b)
         /\ \A i \in 1..(Len(a) + Len(b)) :
              (a \o b)[i] = IF i <= Len(a) THEN a[i] ELSE b[i - Len(a)]
<1>1. a \o b \in Seq(T)
  OBVIOUS
<1>2. Len(a \o b) = Len(a) + Len(b)
  OBVIOUS
<1>3. \A i \in 1..(Len(a) + Len(b)) :
        (a \o b)[i] = IF i <= Len(a) THEN a[i] ELSE b[i - Len(a)]
  OBVIOUS
<1> QED
  BY <1>1, <1>2, <1>3

(* The sells, then the buys they pay for, can be carried out as they stand. *)
LEMMA WholePlan ==
  ASSUME NEW c, Plannable(c), NEW pv \in Nat
  PROVE  Executable(c, sells(c, pv) \o bought(c, pv)[Cardinality(Under(c, pv))].buys)
<1> DEFINE n == Cardinality(Sold(c, pv))
           a == sells(c, pv)
           z == bought(c, pv)[Cardinality(Under(c, pv))]
           b == z.buys
           k == Len(b)
           q == a \o b
           x == c.cash + proceeds_of(c, pv)
<1>1. /\ n \in Nat /\ Sold(c, pv) \subseteq UniverseOf(c)
      /\ a \in Seq(PlannedOrder) /\ Len(a) = n
      /\ \A i \in 1..n : /\ OrderOf(c, a[i]) /\ a[i].side = "sell"
                         /\ a[i].symbol \in Sold(c, pv)
      /\ \A i, j \in 1..n : i # j => a[i].symbol # a[j].symbol
  <2>1. n \in Nat /\ Sold(c, pv) \subseteq UniverseOf(c)
    BY SellsAreOrders
  <2>2. a \in Seq(PlannedOrder) /\ Len(a) = n
    BY SellsAreOrders
  <2>3. \A i \in 1..n : /\ OrderOf(c, a[i]) /\ a[i].side = "sell"
                        /\ a[i].symbol \in Sold(c, pv)
    BY SMTT(30), SellsAreOrders
  <2>4. OnceEach(a, n)
    BY SellsAreOrders
  <2> QED
    BY <2>1, <2>2, <2>3, <2>4 DEF OnceEach
<1>2. PICK ga \in [0..n -> Nat] :
        /\ ga[0] = c.cash /\ ga[n] = x
        /\ \A i \in 1..n : ga[i] = ga[i - 1] + a[i].value
  <2>1. \E g \in [0..n -> Nat] :
          /\ g[0] = c.cash /\ g[n] = c.cash + proceeds_of(c, pv)
          /\ \A i \in 1..n : g[i] = g[i - 1] + a[i].value
    BY SellsAreOrders
  <2> QED
    BY <2>1
<1>3. Under(c, pv) \subseteq UniverseOf(c) /\ PaidFor(c, pv, z, Under(c, pv))
  BY BuysAreOrders
<1> HIDE DEF z, n, a
<1>4. /\ b \in Seq(PlannedOrder)
      /\ \A i \in 1..k : /\ OrderOf(c, b[i]) /\ b[i].side = "buy"
                         /\ b[i].symbol \in Under(c, pv)
      /\ \A i, j \in 1..k : i # j => b[i].symbol # b[j].symbol
  BY <1>3 DEF PaidFor
<1>5. PICK gb \in [0..k -> Nat] :
        gb[0] = x /\ \A i \in 1..k : gb[i] = gb[i - 1] - b[i].value
  BY <1>3 DEF PaidFor
<1>6. k \in Nat
  BY <1>4
<1> HIDE DEF b
<1>7. /\ q \in Seq(PlannedOrder) /\ Len(q) = n + k
      /\ \A i \in 1..n : q[i] = a[i]
      /\ \A i \in (n + 1)..(n + k) : q[i] = b[i - n]
  <2>0. /\ q \in Seq(PlannedOrder) /\ Len(q) = Len(a) + Len(b)
        /\ \A i \in 1..(Len(a) + Len(b)) : q[i] = IF i <= Len(a) THEN a[i] ELSE b[i - Len(a)]
    <3>1. a \in Seq(PlannedOrder) /\ b \in Seq(PlannedOrder)
      BY <1>1, <1>4
    <3>2. /\ a \o b \in Seq(PlannedOrder) /\ Len(a \o b) = Len(a) + Len(b)
          /\ \A i \in 1..(Len(a) + Len(b)) :
               (a \o b)[i] = IF i <= Len(a) THEN a[i] ELSE b[i - Len(a)]
      BY <3>1, Joined, Zenon
    <3> QED
      BY <3>2
  <2> HIDE DEF q
  <2>1. q \in Seq(PlannedOrder) /\ Len(q) = n + k
    BY <1>1, <2>0
  <2>2. \A i \in 1..(n + k) : q[i] = IF i <= n THEN a[i] ELSE b[i - n]
    BY <1>1, <2>0
  <2> HIDE DEF k
  <2>3. \A i \in 1..n : i \in 1..(n + k) /\ i <= n
    BY <1>1, <1>6
  <2>4. \A i \in (n + 1)..(n + k) : i \in 1..(n + k) /\ ~(i <= n)
    BY <1>1, <1>6
  <2> QED
    BY <2>1, <2>2, <2>3, <2>4
<1> HIDE DEF k, q, x
<1>8. \A i \in 1..(n + k) : i \in 1..n \/ (i \in (n + 1)..(n + k) /\ i - n \in 1..k)
  BY <1>1, <1>6
<1>9. \A i \in 1..n : q[i].side = "sell" /\ OrderOf(c, q[i]) /\ q[i].symbol \in Sold(c, pv)
  BY <1>1, <1>7
<1>10. \A i \in (n + 1)..(n + k) :
         q[i].side = "buy" /\ OrderOf(c, q[i]) /\ q[i].symbol \in Under(c, pv)
  <2> SUFFICES ASSUME NEW i \in (n + 1)..(n + k)
               PROVE  q[i].side = "buy" /\ OrderOf(c, q[i]) /\ q[i].symbol \in Under(c, pv)
    OBVIOUS
  <2>1. i - n \in 1..k /\ q[i] = b[i - n]
    BY <1>1, <1>6, <1>7
  <2> QED
    BY <1>4, <2>1
<1>11. Sold(c, pv) \cap Under(c, pv) = {}
  <2> SUFFICES ASSUME NEW s \in Sold(c, pv), s \in Under(c, pv) PROVE FALSE
    OBVIOUS
  <2>1. R(c, pv, 0, 0)!delta(s) \in Int
    BY <1>1, PlanAmounts
  <2>2. R(c, pv, 0, 0)!delta(s) < 0
    BY DEF Sold
  <2>3. R(c, pv, 0, 0)!delta(s) > 0
    BY DEF Under
  <2> QED
    BY <2>1, <2>2, <2>3
<1>12. \A i \in 1..(n + k) : OrderOf(c, q[i])
  BY <1>8, <1>9, <1>10
<1>13. ASSUME NEW i \in 1..(n + k), NEW j \in 1..(n + k), i # j
       PROVE  q[i].symbol # q[j].symbol
  <2>1. CASE i \in 1..n /\ j \in 1..n
    BY <1>1, <1>7, <1>13, <2>1
  <2>2. CASE i \in (n + 1)..(n + k) /\ j \in (n + 1)..(n + k)
    <3>1. i - n \in 1..k /\ j - n \in 1..k /\ i - n # j - n
      BY <1>1, <1>6, <1>13, <2>2
    <3>2. q[i] = b[i - n] /\ q[j] = b[j - n]
      BY <1>7, <2>2
    <3> QED
      BY <1>4, <3>1, <3>2
  <2>3. CASE i \in 1..n /\ j \in (n + 1)..(n + k)
    BY <1>9, <1>10, <1>11, <2>3
  <2>4. CASE j \in 1..n /\ i \in (n + 1)..(n + k)
    BY <1>9, <1>10, <1>11, <2>4
  <2> QED
    BY <1>8, <2>1, <2>2, <2>3, <2>4
<1> DEFINE g == [i \in 0..(n + k) |-> IF i <= n THEN ga[i] ELSE gb[i - n]]
<1>14. g \in [0..(n + k) -> Nat] /\ g[0] = c.cash
  <2>1. \A i \in 0..(n + k) : i <= n => i \in 0..n
    BY <1>1
  <2>2. \A i \in 0..(n + k) : ~(i <= n) => i - n \in 0..k
    BY <1>1, <1>6
  <2>3. \A i \in 0..(n + k) : g[i] \in Nat
    BY <1>2, <1>5, <2>1, <2>2
  <2>4. 0 \in 0..(n + k) /\ 0 <= n
    BY <1>1, <1>6
  <2> QED
    BY <1>2, <2>3, <2>4
<1>15. ASSUME NEW i \in 1..(n + k)
       PROVE  g[i] = IF q[i].side = "buy" THEN g[i - 1] - q[i].value
                                          ELSE g[i - 1] + q[i].value
  <2>1. CASE i \in 1..n
    <3>1. g[i] = ga[i] /\ g[i - 1] = ga[i - 1]
      BY <1>1, <1>6, <2>1
    <3>2. q[i] = a[i] /\ q[i].side # "buy"
      BY <1>7, <1>9, <2>1
    <3> HIDE DEF g
    <3> QED
      BY <1>2, <2>1, <3>1, <3>2
  <2>2. CASE i \in (n + 1)..(n + k)
    <3>1. i - n \in 1..k /\ q[i] = b[i - n] /\ (i - n) - 1 = (i - 1) - n
      BY <1>1, <1>6, <1>7, <2>2
    <3>2. g[i] = gb[i - n]
      BY <1>1, <1>6, <2>2
    <3>3. g[i - 1] = gb[(i - n) - 1]
      <4>1. CASE i = n + 1
        <5>1. g[i - 1] = ga[n] /\ i - n = 1
          BY <1>1, <1>6, <4>1
        <5> HIDE DEF g
        <5> QED
          BY <1>2, <1>5, <5>1
      <4>2. CASE i # n + 1
        BY <1>1, <1>6, <2>2, <3>1, <4>2
      <4> QED
        BY <4>1, <4>2
    <3>4. q[i].side = "buy"
      BY <1>10, <2>2
    <3> HIDE DEF g
    <3> QED
      BY <1>5, <3>1, <3>2, <3>3, <3>4
  <2> QED
    BY <1>8, <2>1, <2>2
<1> HIDE DEF g
<1>16. PaysItsWay(q, c.cash)
  BY <1>7, <1>14, <1>15 DEF PaysItsWay
<1>17. Executable(c, q)
  BY <1>7, <1>12, <1>13, <1>16 DEF Executable
<1> QED
  BY <1>17 DEF q, a, b, z

(* The cap keeps a prefix. *)
LEMMA PrefixIsExecutable ==
  ASSUME NEW c, NEW q, Executable(c, q), NEW m \in 0..Len(q)
  PROVE  Executable(c, SubSeq(q, 1, m))
<1> DEFINE p == SubSeq(q, 1, m)
           n == Len(q)
<1>1. /\ q \in Seq(PlannedOrder) /\ n \in Nat
      /\ \A i \in 1..n : OrderOf(c, q[i])
      /\ \A i, j \in 1..n : i # j => q[i].symbol # q[j].symbol
  BY DEF Executable
<1>2. PICK g \in [0..n -> Nat] :
        /\ g[0] = c.cash
        /\ \A i \in 1..n : g[i] = IF q[i].side = "buy" THEN g[i - 1] - q[i].value
                                                       ELSE g[i - 1] + q[i].value
  BY DEF Executable, PaysItsWay
<1>3. /\ p \in Seq(PlannedOrder) /\ Len(p) = m
      /\ \A i \in 1..m : p[i] = q[i]
  BY <1>1
<1> HIDE DEF p, n
<1>4. m \in 0..n /\ 1..m \subseteq 1..n /\ 0..m \subseteq 0..n
  BY <1>1 DEF n
<1> DEFINE h == [i \in 0..m |-> g[i]]
<1>5. h \in [0..m -> Nat] /\ h[0] = c.cash
  BY <1>1, <1>2, <1>4
<1>6. \A i \in 1..m : h[i] = g[i] /\ h[i - 1] = g[i - 1]
  BY <1>1, <1>4
<1> HIDE DEF h
<1>7. \A i \in 1..m : h[i] = IF p[i].side = "buy" THEN h[i - 1] - p[i].value
                                                  ELSE h[i - 1] + p[i].value
  BY <1>2, <1>3, <1>4, <1>6
<1>8. PaysItsWay(p, c.cash)
  BY <1>3, <1>5, <1>7 DEF PaysItsWay
<1>9. \A i \in 1..m : OrderOf(c, p[i])
  BY <1>1, <1>3, <1>4
<1>10. ASSUME NEW i \in 1..m, NEW j \in 1..m, i # j
       PROVE  p[i].symbol # p[j].symbol
  <2>1. i \in 1..n /\ j \in 1..n /\ q[i].symbol # q[j].symbol
    BY <1>1, <1>4, <1>10
  <2>2. p[i] = q[i] /\ p[j] = q[j]
    BY <1>3
  <2>. QED BY <2>1, <2>2
<1>11. Executable(c, p)
  BY <1>3, <1>8, <1>9, <1>10 DEF Executable
<1> QED
  BY <1>11 DEF p

(* What build_plan plans, the account it was planned for can carry out.     *)
THEOREM PlanIsExecutable ==
  ASSUME NEW c, Plannable(c)
  PROVE  Executable(c, ordered(c))
<1> DEFINE pv == positions_value_of(c)
           q == sells(c, pv) \o bought(c, pv)[Cardinality(Under(c, pv))].buys
           m == Smaller(Len(q), c.settings.max_orders)
<1>1. pv \in Nat
  BY PositionsValueIsNat
<1>2. ordered(c) = SubSeq(q, 1, m)
  BY DEF ordered
<1>3. Executable(c, q)
  BY <1>1, WholePlan
<1>4. c.settings.max_orders \in Nat
  BY Arguments
<1> HIDE DEF q, pv
<1>5. Len(q) \in Nat
  BY <1>3 DEF Executable
<1>6. m \in 0..Len(q)
  BY <1>4, <1>5 DEF Smaller
<1> QED
  BY <1>2, <1>3, <1>6, PrefixIsExecutable

-----------------------------------------------------------------------------
(* The inductive invariant.  A process is between evaluations, deciding     *)
(* whether to trade, carrying out the plan of a run, or closing the run.    *)
Brief == {"idle", "rows", "targets", "next", "unlock"}
Deciding == {"positions", "account", "skip", "fail", "create"}
Submitting == {"record", "place", "update", "finish"}
Closing == {"finish skipped", "finish failed", "touch", "touch skipped"}

(* A bot row, and the BotSpec an evaluation works from.                     *)
BotStatuses == {"draft", "running", "paused", "stopped", Gone}
BotRows == [status: BotStatuses, targets: Baskets, next_run_at: Nat,
            settings: BotSettings, clockwork: Clockwork]
Specs == [bot: Bots, status: BotStatuses, next_run_at: Nat,
          trigger_type: TriggerTypes, interval: Nat,
          drift_threshold_bps: {k.drift_threshold_bps : k \in Clockwork},
          settings: BotSettings, targets: Baskets \cup {<<>>}, epoch: Nat]

(* A process with no bot in hand, and with the first of its queue in hand.  *)
Between(s) == s.pc \in Brief /\ DOMAIN s = {"pc", "queue"}
Within(s) ==
  /\ s.pc \in Deciding \cup Submitting \cup Closing
  /\ DOMAIN s = {"pc", "queue", "now", "price", "held", "plan", "run", "i",
                 "result", "submitted", "failures"}
  /\ s.queue # <<>>
  /\ s.now \in Nat /\ s.run \in Nat /\ s.i \in Nat
  /\ s.submitted \in Nat /\ s.failures \in Nat
IsProcess(s) == s.queue \in Seq(Specs) /\ (Between(s) \/ Within(s))

(* A row of rebalance_runs.                                                 *)
IsRun(r) ==
  /\ DOMAIN r = {"bot", "status", "planned", "submitted", "errors", "at",
                 "forced", "epoch", "touched", "trigger_type", "interval"}
  /\ r.bot \in Bots /\ r.status \in RunStatuses
  /\ r.at \in Nat /\ r.epoch \in Nat /\ r.interval \in Nat

(* The tables and the processes hold what their columns and fields may hold. *)
Types ==
  /\ bots \in [Bots -> BotRows]
  /\ clock \in Nat /\ faults \in Nat /\ started \in [Bots -> Nat]
  /\ Len(runs) \in Nat /\ DOMAIN runs = 1..Len(runs)
  /\ \A r \in DOMAIN runs : IsRun(runs[r])
  /\ DOMAIN proc = Processes /\ \A p \in Processes : IsProcess(proc[p])

(* A run is gone exactly when its bot is. *)
RunsGoWithBots ==
  \A r \in DOMAIN runs : runs[r].status = Gone <=> ~Exists(runs[r].bot)

(* A process past create_run owns its run. *)
InRun(s) == s.pc \in Submitting \cup Closing
Owns(s) ==
  InRun(s) =>
    /\ s.run \in DOMAIN runs /\ runs[s.run].bot = Head(s.queue).bot
    /\ s.pc \in Submitting => runs[s.run].status \in {"running", Gone}
Ownership ==
  /\ \A p \in Processes : Owns(proc[p])
  /\ \A p, q \in Processes :
       p # q /\ InRun(proc[p]) /\ InRun(proc[q]) => proc[p].run # proc[q].run

(* Every order row is a row of a run that is there.                         *)
NoOrphans ==
  /\ DOMAIN orders \subseteq (DOMAIN runs) \X Nat
  /\ \A id \in DOMAIN orders : RunOf(id).status # Gone

(* The inductive invariant of the tables.                                   *)
TablesInv == Types /\ RunsGoWithBots /\ Ownership /\ NoOrphans

-----------------------------------------------------------------------------
(* Lemmas on the data.                                                      *)

(* A function on 1..n is a sequence.                                        *)
LEMMA IntervalSeq ==
  ASSUME NEW S, NEW n \in Nat, NEW f \in [1..n -> S]
  PROVE  f \in Seq(S)
OBVIOUS

(* A list with one more element.                                            *)
LEMMA Appended ==
  ASSUME NEW s, NEW x, Len(s) \in Nat, DOMAIN s = 1..Len(s)
  PROVE  /\ Len(Append(s, x)) = Len(s) + 1
         /\ DOMAIN Append(s, x) = 1..(Len(s) + 1)
         /\ Append(s, x)[Len(s) + 1] = x
         /\ \A i \in DOMAIN s : Append(s, x)[i] = s[i]
OBVIOUS

(* A table with one more row.                                               *)
LEMMA InsertedRow ==
  ASSUME NEW table, NEW key, NEW row
  PROVE  /\ DOMAIN Inserted(table, key, row) = DOMAIN table \cup {key}
         /\ key \notin DOMAIN table => Inserted(table, key, row)[key] = row
         /\ \A k \in DOMAIN table : Inserted(table, key, row)[k] = table[k]
BY DEF Inserted

(* What is read of a bot.                                                   *)
LEMMA SpecOf ==
  ASSUME Types, NEW b \in Bots
  PROVE  spec_of(b) \in Specs
<1>1. bots[b] \in BotRows /\ started[b] \in Nat
  BY DEF Types
<1>2. bots[b].status \in BotStatuses /\ bots[b].next_run_at \in Nat
  BY <1>1 DEF BotRows
<1>3. /\ bots[b].settings \in BotSettings /\ bots[b].targets \in Baskets
      /\ bots[b].clockwork \in Clockwork
  BY <1>1 DEF BotRows
<1>4. /\ bots[b].clockwork.trigger_type \in TriggerTypes
      /\ bots[b].clockwork.interval \in Nat
  BY <1>3, EvaluationAssumption
<1>. QED BY <1>1, <1>2, <1>3, <1>4 DEF spec_of, Specs

(* The listing of running bots is a sequence of specs, each of a running    *)
(* bot as its row is.                                                       *)
LEMMA Listing ==
  ASSUME Types, NEW listed \in SoonestFirst
  PROVE  /\ [i \in DOMAIN listed |-> spec_of(listed[i])] \in Seq(Specs)
         /\ \A i \in DOMAIN listed : listed[i] \in Running
         /\ \A i, j \in DOMAIN listed : i # j => listed[i] # listed[j]
<1>1. Running \subseteq Bots /\ IsFiniteSet(Running)
  BY EvaluationAssumption, FS_Subset DEF Running
<1>2. Cardinality(Running) \in Nat
  BY <1>1, FS_CardinalityType
<1>3. /\ listed \in [1..Cardinality(Running) -> Running]
      /\ \A i, j \in DOMAIN listed : i # j => listed[i] # listed[j]
  BY <1>1, <1>2 DEF SoonestFirst, SetToSeqs
<1>4. \A b \in Running : spec_of(b) \in Specs
  BY <1>1, SpecOf
<1>5. [i \in DOMAIN listed |-> spec_of(listed[i])] \in [1..Cardinality(Running) -> Specs]
  BY <1>3, <1>4
<1>. QED BY <1>2, <1>3, <1>5, IntervalSeq

(* The second query gives every listed bot the basket it has now.           *)
LEMMA WithBasket ==
  ASSUME Types, NEW q \in Specs
  PROVE  /\ with_basket(q) \in Specs /\ with_basket(q).bot = q.bot
         /\ with_basket(q).epoch = q.epoch
         /\ with_basket(q).next_run_at = q.next_run_at
<1>1. basket_of(q.bot) \in Baskets \cup {<<>>}
  BY DEF basket_of, Specs, Types, BotRows
<1>. QED BY <1>1 DEF with_basket, Specs

(* The list stays a list of specs when the baskets are read.                *)
LEMMA Listed_with_baskets ==
  ASSUME Types, NEW q \in Seq(Specs)
  PROVE  [i \in DOMAIN q |-> with_basket(q[i])] \in Seq(Specs)
<1>1. \A i \in DOMAIN q : with_basket(q[i]) \in Specs
  BY WithBasket
<1>. QED BY <1>1

(* What is left to evaluate.                                                *)
LEMMA HeadAndTail ==
  ASSUME NEW q \in Seq(Specs), q # <<>>
  PROVE  /\ Head(q) \in Specs /\ Tail(q) \in Seq(Specs)
         /\ Head(q) = q[1] /\ Head(q).bot \in Bots
         /\ DOMAIN q = 1..Len(q) /\ Len(q) \in Nat
         /\ \A i \in DOMAIN Tail(q) : i + 1 \in DOMAIN q /\ Tail(q)[i] = q[i + 1]
         /\ Head(q).next_run_at \in Nat /\ Head(q).epoch \in Nat
         /\ Head(q).interval \in Nat /\ Head(q).trigger_type \in TriggerTypes
<1>1. Head(q) \in Specs /\ Tail(q) \in Seq(Specs)
  OBVIOUS
<1>. QED BY <1>1 DEF Specs

-----------------------------------------------------------------------------
(* How each step moves the process that takes it.                           *)
OnlyMoves(p) ==
  /\ DOMAIN proc' = Processes
  /\ \A q \in Processes : q # p => proc'[q] = proc[q]

(* Leaving an evaluation behind.                                            *)
LEMMA Abandoned ==
  ASSUME Types, NEW p \in Processes, Within(proc[p]), Abandon(p)
  PROVE  /\ OnlyMoves(p) /\ IsProcess(proc'[p])
         /\ proc'[p] = [pc |-> "next", queue |-> Tail(proc[p].queue)]
<1>1. proc[p].queue \in Seq(Specs) /\ proc[p].queue # <<>>
  BY DEF Types, IsProcess, Within
<1>2. Tail(proc[p].queue) \in Seq(Specs)
  BY <1>1, HeadAndTail
<1>3. OnlyMoves(p) /\ proc'[p] = [pc |-> "next", queue |-> Tail(proc[p].queue)]
  BY DEF Types, Abandon, Becomes, OnlyMoves
<1>. QED BY <1>2, <1>3 DEF IsProcess, Between, Brief

(* A process that goes to another place keeps all else.                     *)
LEMMA Went ==
  ASSUME Types, NEW p \in Processes, NEW there, Goto(p, there)
  PROVE  OnlyMoves(p) /\ proc'[p] = [proc[p] EXCEPT !.pc = there]
BY DEF Types, Goto, OnlyMoves

(* An evaluation that goes to another place of its own stays one.           *)
LEMMA WentWithin ==
  ASSUME NEW s, IsProcess(s), Within(s),
         NEW there \in Deciding \cup Submitting \cup Closing
  PROVE  /\ IsProcess([s EXCEPT !.pc = there]) /\ Within([s EXCEPT !.pc = there])
         /\ [s EXCEPT !.pc = there].pc = there
         /\ [s EXCEPT !.pc = there].queue = s.queue
         /\ [s EXCEPT !.pc = there].run = s.run
BY DEF IsProcess, Within

(* The steps between evaluations.                                           *)
LEMMA BriefStep ==
  ASSUME Types, NEW p \in Processes,
         \/ TryLock(p) \/ ListRows(p) \/ ListTargets(p) \/ Finished(p) \/ Unlock(p)
         \/ \E b \in Bots : GetBot(p, b)
  PROVE  OnlyMoves(p) /\ IsProcess(proc'[p]) /\ Between(proc'[p])
<1>. USE DEF Becomes, Goto, At, OnlyMoves, Brief
<1>1. IsProcess(proc[p]) /\ DOMAIN proc = Processes
  BY DEF Types
<1>2. CASE TryLock(p)
  BY <1>1, <1>2 DEF TryLock, IsProcess, Between, Within, Deciding, Submitting, Closing
<1>3. CASE ListRows(p)
  <2>1. PICK listed \in SoonestFirst :
          proc' = [proc EXCEPT ![p] =
            [pc |-> IF listed = <<>> THEN "unlock" ELSE "targets",
             queue |-> [i \in DOMAIN listed |-> spec_of(listed[i])]]]
    BY <1>3 DEF ListRows
  <2>2. [i \in DOMAIN listed |-> spec_of(listed[i])] \in Seq(Specs)
    BY Listing
  <2>. QED BY <1>1, <2>1, <2>2 DEF IsProcess, Between
<1>4. CASE ListTargets(p)
  <2>1. [i \in DOMAIN proc[p].queue |-> with_basket(proc[p].queue[i])] \in Seq(Specs)
    BY <1>1, Listed_with_baskets DEF IsProcess
  <2>. QED BY <1>1, <1>4, <2>1 DEF ListTargets, IsProcess, Between
<1>5. CASE Finished(p)
  <2>1. Between(proc[p])
    BY <1>1, <1>5 DEF Finished, IsProcess, Within, Deciding, Submitting, Closing
  <2>2. CASE p \in Schedulers
    BY <1>1, <1>5, <2>1, <2>2 DEF Finished, IsProcess, Between
  <2>3. CASE p \notin Schedulers
    <3>1. proc' = [proc EXCEPT ![p] = Idle]
      BY <1>5, <2>3 DEF Finished
    <3>. QED BY <1>1, <3>1 DEF Idle, IsProcess, Between
  <2>. QED BY <2>2, <2>3
<1>6. CASE Unlock(p)
  BY <1>1, <1>6 DEF Unlock, Idle, IsProcess, Between
<1>7. ASSUME NEW b \in Bots, GetBot(p, b)
      PROVE  OnlyMoves(p) /\ IsProcess(proc'[p]) /\ Between(proc'[p])
  <2>1. spec_of(b) \in Specs
    BY SpecOf
  <2>. QED BY <1>1, <1>7, <2>1 DEF GetBot, IsProcess, Between
<1>. QED BY <1>2, <1>3, <1>4, <1>5, <1>6, <1>7

(* A step of an evaluation that stays within it, in its run if it has one.  *)
StaysWithin(p) ==
  /\ OnlyMoves(p) /\ IsProcess(proc'[p]) /\ Within(proc[p]) /\ Within(proc'[p])
  /\ proc'[p].queue = proc[p].queue /\ proc'[p].run = proc[p].run
  /\ InRun(proc'[p]) <=> InRun(proc[p])
  /\ proc'[p].pc \in Submitting => proc[p].pc \in Submitting

(* The steps up to the decision keep the evaluation and its list.           *)
LEMMA DecidingStep ==
  ASSUME Types, NEW p \in Processes,
         ReadPositions(p) \/ Decide(p) \/ BrokerUnavailable(p)
  PROVE  StaysWithin(p) /\ proc'[p].pc \in Deciding
<1>. USE DEF Goto, At, OnlyMoves, StaysWithin, InRun, Deciding, Submitting, Closing
<1>1. IsProcess(proc[p]) /\ DOMAIN proc = Processes
  BY DEF Types
<1>2. Within(proc[p])
  BY <1>1 DEF ReadPositions, Decide, BrokerUnavailable, IsProcess, Between, Brief
<1>3. CASE ReadPositions(p)
  BY <1>1, <1>2, <1>3 DEF ReadPositions, IsProcess, Within
<1>4. CASE Decide(p)
  <2>1. CASE ~plannable(CallOf(p))
    <3>1. proc' = [proc EXCEPT ![p].pc = "fail"]
      BY <1>4, <2>1 DEF Decide
    <3>2. proc[p].pc = "account"
      BY <1>4 DEF Decide
    <3>. QED BY <1>1, <1>2, <3>1, <3>2 DEF IsProcess, Within
  <2>2. CASE plannable(CallOf(p))
    <3>1. PICK pc \in {"create", "skip"}, plan \in {ordered(CallOf(p))} :
            proc' = [proc EXCEPT ![p].pc = pc, ![p].plan = plan]
      BY <1>4, <2>2 DEF Decide
    <3>2. proc[p].pc = "account"
      BY <1>4 DEF Decide
    <3>. QED BY <1>1, <1>2, <3>1, <3>2 DEF IsProcess, Within
  <2>. QED BY <2>1, <2>2
<1>5. CASE BrokerUnavailable(p)
  BY <1>1, <1>2, <1>5 DEF BrokerUnavailable, IsProcess, Within
<1>. QED BY <1>3, <1>4, <1>5

(* Placing an order ends with an answer, whatever the venue does.           *)
LEMMA PlaceStep ==
  ASSUME Types, NEW p \in Processes, Place(p)
  PROVE  /\ StaysWithin(p) /\ proc[p].pc = "place" /\ proc'[p].pc = "update"
         /\ proc'[p].i = proc[p].i
         /\ \E status \in Taken \cup {"rejected"} :
              proc' = [proc EXCEPT ![p].pc = "update", ![p].result = status]
<1>. USE DEF At, OnlyMoves, StaysWithin, InRun, Deciding, Submitting, Closing
<1>1. IsProcess(proc[p]) /\ DOMAIN proc = Processes
  BY DEF Types
<1>2. Within(proc[p])
  BY <1>1 DEF Place, IsProcess, Between, Brief
<1>3. PICK status \in Taken \cup {"rejected"} :
        proc' = [proc EXCEPT ![p].pc = "update", ![p].result = status]
  BY DEF Place, Answered, KeptOpen, VenueFails, Answers, Taken
<1>. QED BY <1>1, <1>2, <1>3 DEF Place, IsProcess, Within

(* An evaluation that only counts on stays the one it was.                  *)
LEMMA CountsOn ==
  ASSUME NEW s, NEW t, Within(s), IsProcess(s), DOMAIN t = DOMAIN s,
         t.pc \in Deciding \cup Submitting \cup Closing, t.queue = s.queue, t.now = s.now, t.run = s.run,
         t.i \in Nat, t.submitted \in Nat, t.failures \in Nat
  PROVE  Within(t) /\ IsProcess(t)
<1>1. Within(t)
  BY DEF Within
<1>2. t.queue \in Seq(Specs)
  BY DEF IsProcess
<1>. QED BY <1>1, <1>2 DEF IsProcess

(* The next order is taken, or the run closed, on the same run.             *)
LEMMA NextOrderStep ==
  ASSUME Types, NEW p \in Processes, proc[p].pc = "update", NextOrder(p)
  PROVE  /\ StaysWithin(p) /\ proc'[p].pc \in {"record", "finish"}
         /\ proc'[p].i = proc[p].i + 1
<1>1. IsProcess(proc[p]) /\ DOMAIN proc = Processes
  BY DEF Types
<1>2. Within(proc[p])
  BY <1>1 DEF IsProcess, Between, Brief
<1>3. proc[p].i \in Nat /\ proc[p].submitted \in Nat /\ proc[p].failures \in Nat
  BY <1>2 DEF Within
<1>4. /\ OnlyMoves(p) /\ proc'[p].pc \in {"record", "finish"}
      /\ proc'[p].i = proc[p].i + 1 /\ proc'[p].queue = proc[p].queue
  BY <1>1, <1>2 DEF NextOrder, Within, OnlyMoves
<1>5. /\ DOMAIN proc'[p] = DOMAIN proc[p]
      /\ proc'[p].now = proc[p].now /\ proc'[p].run = proc[p].run
      /\ proc'[p].submitted \in Nat /\ proc'[p].failures \in Nat
  BY <1>1, <1>2, <1>3 DEF NextOrder, Within
<1>6. proc'[p].pc \in Submitting /\ proc[p].pc \in Submitting
  BY <1>4 DEF Submitting
<1>7. Within(proc'[p]) /\ IsProcess(proc'[p])
  BY <1>1, <1>2, <1>3, <1>4, <1>5, <1>6, CountsOn
<1>. QED BY <1>2, <1>4, <1>5, <1>6, <1>7 DEF StaysWithin, InRun

(* Finishing a run leaves its evaluation with the bot to touch.             *)
LEMMA FinishStep ==
  ASSUME Types, NEW p \in Processes, FinishRun(p)
  PROVE  StaysWithin(p) /\ InRun(proc[p]) /\ proc'[p].pc \in {"touch", "touch skipped"}
<1>1. IsProcess(proc[p]) /\ DOMAIN proc = Processes
  BY DEF Types
<1>2. proc[p].pc \in Submitting \cup Closing
  BY DEF FinishRun, At, Submitting, Closing
<1>3. Within(proc[p])
  BY <1>1, <1>2 DEF IsProcess, Between, Brief, Submitting, Closing
<1>4. PICK to \in {"touch", "touch skipped"} : proc' = [proc EXCEPT ![p].pc = to]
  BY DEF FinishRun, Goto
<1>5. /\ OnlyMoves(p) /\ DOMAIN proc'[p] = DOMAIN proc[p] /\ proc'[p].pc = to
      /\ \A x \in DOMAIN proc[p] \ {"pc"} : proc'[p][x] = proc[p][x]
  BY <1>1, <1>3, <1>4 DEF Within, OnlyMoves
<1>6. /\ proc'[p].queue = proc[p].queue /\ proc'[p].run = proc[p].run
      /\ proc'[p].now = proc[p].now /\ proc'[p].i = proc[p].i
      /\ proc'[p].submitted = proc[p].submitted
      /\ proc'[p].failures = proc[p].failures
  BY <1>3, <1>5 DEF Within
<1>7. proc[p].i \in Nat /\ proc[p].submitted \in Nat /\ proc[p].failures \in Nat
  BY <1>3 DEF Within
<1>8. to \in Closing /\ to \notin Submitting
  BY DEF Closing, Submitting
<1>9. Within(proc'[p]) /\ IsProcess(proc'[p])
  BY <1>1, <1>3, <1>5, <1>6, <1>7, <1>8, CountsOn
<1>. QED BY <1>2, <1>3, <1>5, <1>6, <1>8, <1>9 DEF StaysWithin, InRun

(* A new evaluation is well formed and decides nothing yet.                 *)
LEMMA BeginStep ==
  ASSUME Types, NEW p \in Processes, Begin(p)
  PROVE  /\ OnlyMoves(p) /\ IsProcess(proc'[p]) /\ proc'[p].pc \in Deciding
         /\ Within(proc'[p])
<1>. USE DEF At, Becomes, OnlyMoves, Deciding, Submitting, Closing
<1>1. IsProcess(proc[p]) /\ DOMAIN proc = Processes /\ clock \in Nat
  BY DEF Types
<1>. QED BY <1>1 DEF Begin, IsProcess, Within

(* A crash or an exception leaves the evaluation.                           *)
LEMMA FaultStep ==
  ASSUME Types, NEW p \in Processes, Crash(p) \/ Raise(p)
  PROVE  /\ OnlyMoves(p) /\ IsProcess(proc'[p]) /\ Between(proc'[p])
         /\ faults' = faults + 1
<1>. USE DEF At, Becomes, OnlyMoves
<1>1. IsProcess(proc[p]) /\ DOMAIN proc = Processes
  BY DEF Types
<1>2. CASE Crash(p)
  BY <1>1, <1>2 DEF Crash, Fault, Idle, IsProcess, Between, Brief
<1>3. CASE Raise(p) /\ proc[p].pc \in {"rows", "targets"}
  <2>1. PICK there \in {"unlock", "idle"} :
          proc' = [proc EXCEPT ![p] = [pc |-> there, queue |-> <<>>]]
    BY <1>3 DEF Raise
  <2>2. faults' = faults + 1
    BY <1>3 DEF Raise, Fault
  <2>. QED BY <1>1, <2>1, <2>2 DEF IsProcess, Between, Brief
<1>4. CASE Raise(p) /\ proc[p].pc \notin {"rows", "targets"}
  <2>1. Within(proc[p]) /\ Abandon(p) /\ faults' = faults + 1
    BY <1>1, <1>4 DEF Raise, Fault, IsProcess, Between, Brief
  <2>2. OnlyMoves(p) /\ IsProcess(proc'[p])
        /\ proc'[p] = [pc |-> "next", queue |-> Tail(proc[p].queue)]
    BY <2>1, Abandoned
  <2>. QED BY <2>1, <2>2 DEF Between, Brief
<1>. QED BY <1>2, <1>3, <1>4

(* create_run, of a bot that exists and of one that is gone.                *)
LEMMA CreateStep ==
  ASSUME Types, NEW p \in Processes,
         NEW from \in Deciding, NEW status \in {"skipped", "failed", "running"},
         NEW to \in Submitting \cup Closing,
         CreateRun(p, from, status, to), Exists(Spec(p).bot)
  PROVE  /\ OnlyMoves(p) /\ IsProcess(proc'[p]) /\ Within(proc[p])
         /\ proc'[p].pc = to /\ proc'[p].run = Len(runs) + 1
         /\ proc'[p].queue = proc[p].queue
         /\ Len(runs') = Len(runs) + 1 /\ DOMAIN runs' = 1..(Len(runs) + 1)
         /\ \A r \in DOMAIN runs : runs'[r] = runs[r]
         /\ runs'[Len(runs) + 1] = RunRow(p, status)
         /\ IsRun(RunRow(p, status)) /\ RunRow(p, status).bot = Spec(p).bot
         /\ RunRow(p, status).status = status
<1>1. IsProcess(proc[p]) /\ DOMAIN proc = Processes
  BY DEF Types
<1>2. Within(proc[p]) /\ proc[p].queue \in Seq(Specs) /\ proc[p].queue # <<>>
  BY <1>1 DEF CreateRun, At, IsProcess, Within, Between, Brief, Deciding
<1>3. /\ proc' = [proc EXCEPT ![p].pc = to, ![p].run = Len(runs) + 1]
      /\ runs' = Append(runs, RunRow(p, status))
  BY DEF CreateRun
<1>4. Len(runs) \in Nat /\ DOMAIN runs = 1..Len(runs)
  BY DEF Types
<1>5. /\ OnlyMoves(p)
      /\ proc'[p] = [proc[p] EXCEPT !.pc = to, !.run = Len(runs) + 1]
  BY <1>1, <1>3 DEF OnlyMoves
<1>6. /\ IsProcess(proc'[p]) /\ proc'[p].pc = to /\ proc'[p].run = Len(runs) + 1
      /\ proc'[p].queue = proc[p].queue
  <2>1. to \in Deciding \cup Submitting \cup Closing /\ Len(runs) + 1 \in Nat
    BY <1>4
  <2>2. /\ DOMAIN proc'[p] = DOMAIN proc[p]
        /\ proc'[p].pc = to /\ proc'[p].run = Len(runs) + 1
        /\ \A field \in {"queue", "now", "i", "submitted", "failures"} :
             proc'[p][field] = proc[p][field]
    BY <1>2, <1>5 DEF Within
  <2>3. /\ proc'[p].queue = proc[p].queue /\ proc'[p].now = proc[p].now
        /\ proc'[p].i = proc[p].i /\ proc'[p].submitted = proc[p].submitted
        /\ proc'[p].failures = proc[p].failures
    BY <2>2
  <2>. QED BY <1>2, <2>1, <2>2, <2>3 DEF IsProcess, Within
<1>7. /\ Spec(p).bot \in Bots /\ Spec(p).epoch \in Nat
      /\ Spec(p).interval \in Nat /\ Spec(p).trigger_type \in TriggerTypes
  BY <1>2, HeadAndTail DEF Spec
<1>8. IsRun(RunRow(p, status))
  BY <1>2, <1>7 DEF RunRow, IsRun, RunStatuses, Within
<1>9. /\ Len(runs') = Len(runs) + 1 /\ DOMAIN runs' = 1..(Len(runs) + 1)
      /\ \A r \in DOMAIN runs : runs'[r] = runs[r]
      /\ runs'[Len(runs) + 1] = RunRow(p, status)
  BY <1>3, <1>4, Appended
<1>10. RunRow(p, status).bot = Spec(p).bot /\ RunRow(p, status).status = status
  BY DEF RunRow
<1>. QED BY <1>2, <1>5, <1>6, <1>8, <1>9, <1>10

(* create_run of a deleted bot: no row, and the evaluation is left.         *)
LEMMA CreateFails ==
  ASSUME Types, NEW p \in Processes,
         NEW from \in Deciding, NEW status, NEW to,
         CreateRun(p, from, status, to), ~Exists(Spec(p).bot)
  PROVE  /\ OnlyMoves(p) /\ IsProcess(proc'[p]) /\ Between(proc'[p])
         /\ proc'[p] = [pc |-> "next", queue |-> Tail(proc[p].queue)]
         /\ UNCHANGED runs
<1>1. IsProcess(proc[p]) /\ Within(proc[p]) /\ Abandon(p) /\ runs' = runs
  BY DEF CreateRun, At, Types, IsProcess, Between, Brief, Deciding
<1>2. /\ OnlyMoves(p) /\ IsProcess(proc'[p])
      /\ proc'[p] = [pc |-> "next", queue |-> Tail(proc[p].queue)]
  BY <1>1, Abandoned
<1>. QED BY <1>1, <1>2 DEF Between, Brief

-----------------------------------------------------------------------------
(* The tables: nothing outlives its bot.                                    *)

(* A process that moves on within its evaluation, or leaves it, while the   *)
(* tables stand.                                                            *)
MovesOn(p) == /\ OnlyMoves(p) /\ IsProcess(proc'[p])
              /\ ~InRun(proc'[p]) \/ StaysWithin(p)

(* What a process does by itself keeps the invariant of the tables.         *)
LEMMA TablesStand ==
  ASSUME TablesInv, NEW p \in Processes, MovesOn(p),
         UNCHANGED <<tables, started, clock>>, faults' \in Nat
  PROVE  TablesInv'
<1>. USE DEF TablesInv, MovesOn
<1>1. Types'
  BY DEF Types, tables, OnlyMoves
<1>2. RunsGoWithBots' /\ NoOrphans'
  BY DEF RunsGoWithBots, NoOrphans, tables, Exists, RunOf
<1>3. \A q \in Processes : InRun(proc'[q]) =>
        /\ InRun(proc[q]) /\ proc'[q].run = proc[q].run /\ proc'[q].queue = proc[q].queue
        /\ proc'[q].pc \in Submitting => proc[q].pc \in Submitting
  BY DEF OnlyMoves, StaysWithin
<1>4. \A q \in Processes : Owns(proc[q])
  BY DEF Ownership
<1>5. \A q \in Processes : Owns(proc[q])'
  BY <1>3, <1>4 DEF Owns, tables
<1>6. Ownership'
  BY <1>3, <1>5 DEF Ownership
<1>. QED BY <1>1, <1>2, <1>6

(* A new run has a bot and a worker of its own.                             *)
LEMMA CreateInv ==
  ASSUME TablesInv, NEW p \in Processes,
         NEW from \in Deciding, NEW status \in {"skipped", "failed", "running"},
         NEW to \in Submitting \cup Closing, to \in Submitting => status = "running",
         CreateRun(p, from, status, to)
  PROVE  TablesInv'
<1>. USE DEF TablesInv
<1>0. UNCHANGED <<bots, orders, started, clock, faults>> /\ faults \in Nat /\ clock \in Nat
  BY DEF CreateRun, account, world, history, bounds, Types
<1>1. CASE ~Exists(Spec(p).bot)
  <2>1. MovesOn(p) /\ UNCHANGED runs
    BY <1>1, CreateFails DEF MovesOn, InRun, Between, Brief, Submitting, Closing
  <2>. QED BY <1>0, <2>1, TablesStand DEF tables
<1>2. CASE Exists(Spec(p).bot)
  <2>. DEFINE n == Len(runs) + 1
  <2>1. /\ OnlyMoves(p) /\ IsProcess(proc'[p])
        /\ proc'[p].pc = to /\ proc'[p].run = n /\ proc'[p].queue = proc[p].queue
        /\ Len(runs') = n /\ DOMAIN runs' = 1..n
        /\ \A r \in DOMAIN runs : runs'[r] = runs[r]
        /\ IsRun(runs'[n]) /\ runs'[n].bot = Spec(p).bot /\ runs'[n].status = status
    BY <1>2, CreateStep
  <2>2. /\ Len(runs) \in Nat /\ DOMAIN runs = 1..Len(runs) /\ n \notin DOMAIN runs
        /\ DOMAIN runs' = DOMAIN runs \cup {n}
    BY <2>1 DEF Types
  <2>. HIDE DEF n
  <2>3. Types'
    <3>1. \A r \in DOMAIN runs' : IsRun(runs'[r])
      BY <2>1, <2>2 DEF Types
    <3>2. \A q \in Processes : IsProcess(proc'[q])
      BY <2>1 DEF Types, OnlyMoves
    <3>. QED BY <1>0, <2>1, <2>2, <3>1, <3>2 DEF Types, OnlyMoves, n
  <2>4. RunsGoWithBots'
    <3>1. ASSUME NEW b PROVE Exists(b)' <=> Exists(b)
      BY <1>0 DEF Exists
    <3>2. runs'[n].status # Gone /\ Exists(runs'[n].bot)
      BY <1>2, <2>1 DEF Gone
    <3>3. ASSUME NEW r \in DOMAIN runs
          PROVE  runs'[r].status = Gone <=> ~Exists(runs'[r].bot)
      BY <1>0, <2>1 DEF RunsGoWithBots
    <3>. QED BY <2>2, <3>1, <3>2, <3>3 DEF RunsGoWithBots
  <2>5. NoOrphans'
    BY <1>0, <2>1, <2>2 DEF NoOrphans, RunOf
  <2>6. ASSUME NEW q \in Processes PROVE Owns(proc[q])'
    <3>1. CASE q = p
      <4>1. to \in Submitting => runs'[n].status = "running"
        BY <2>1
      <4>. QED BY <2>1, <2>2, <3>1, <4>1 DEF Owns, Spec
    <3>2. CASE q # p
      <4>1. proc'[q] = proc[q] /\ Owns(proc[q])
        BY <2>1, <3>2 DEF Ownership, OnlyMoves
      <4>. QED BY <2>1, <2>2, <4>1 DEF Owns
    <3>. QED BY <3>1, <3>2
  <2>7. \A q \in Processes : InRun(proc[q]) => proc[q].run # n
    BY <2>2 DEF Ownership, Owns
  <2>8. Ownership'
    BY <2>1, <2>6, <2>7 DEF Ownership, OnlyMoves
  <2>. QED BY <2>3, <2>4, <2>5, <2>8
<1>. QED BY <1>1, <1>2

(* A new order row has a run, whose bot still exists.                       *)
LEMMA RecordInv ==
  ASSUME TablesInv, NEW p \in Processes, RecordOrder(p)
  PROVE  TablesInv'
<1>. USE DEF TablesInv
<1>0. UNCHANGED <<bots, runs, started, clock, faults>> /\ faults \in Nat
      /\ proc[p].pc = "record"
  BY DEF RecordOrder, At, account, world, history, bounds, Types
<1>1. IsProcess(proc[p]) /\ Within(proc[p]) /\ InRun(proc[p]) /\ Owns(proc[p])
  BY <1>0 DEF Types, IsProcess, Between, Brief, InRun, Submitting, Ownership
<1>2. CASE ~Exists(Spec(p).bot)
  <2>1. Abandon(p) /\ orders' = orders
    BY <1>2 DEF RecordOrder
  <2>2. MovesOn(p)
    <3>1. OnlyMoves(p) /\ IsProcess(proc'[p])
          /\ proc'[p] = [pc |-> "next", queue |-> Tail(proc[p].queue)]
      BY <1>1, <2>1, Abandoned
    <3>. QED BY <3>1 DEF MovesOn, InRun, Submitting, Closing
  <2>. QED BY <1>0, <2>1, <2>2, TablesStand DEF tables
<1>3. CASE Exists(Spec(p).bot)
  <2>1. PICK row : orders' = Inserted(orders, client_order_id(p), row)
    BY <1>3 DEF RecordOrder
  <2>2. DOMAIN orders' = DOMAIN orders \cup {<<proc[p].run, proc[p].i>>}
    BY <2>1, InsertedRow DEF client_order_id
  <2>3. Goto(p, "place")
    BY <1>3 DEF RecordOrder
  <2>4. OnlyMoves(p) /\ proc'[p] = [proc[p] EXCEPT !.pc = "place"]
    BY <2>3, Went
  <2>5. StaysWithin(p)
    BY <1>0, <1>1, <2>4
       DEF StaysWithin, IsProcess, Within, InRun, Deciding, Submitting, Closing
  <2>6. Types'
    BY <1>0, <2>4, <2>5 DEF Types, OnlyMoves, StaysWithin
  <2>7. RunsGoWithBots'
    BY <1>0 DEF RunsGoWithBots, Exists
  <2>8. NoOrphans'
    <3>1. proc[p].run \in DOMAIN runs /\ runs[proc[p].run].status # Gone
      BY <1>1, <1>3 DEF Owns, RunsGoWithBots, Spec
    <3>2. proc[p].i \in Nat
      BY <1>1 DEF Within
    <3>. QED BY <1>0, <2>2, <3>1, <3>2 DEF NoOrphans, RunOf
  <2>9. Ownership'
    BY <1>0, <2>5 DEF Ownership, Owns, StaysWithin, OnlyMoves
  <2>. QED BY <2>6, <2>7, <2>8, <2>9
<1>. QED BY <1>2, <1>3

(* A status written to an order row brings no row back.                     *)
LEMMA UpdateInv ==
  ASSUME TablesInv, NEW p \in Processes, UpdateOrder(p)
  PROVE  TablesInv'
<1>. USE DEF TablesInv
<1>0. UNCHANGED <<bots, runs, started, clock, faults>> /\ faults \in Nat
      /\ proc[p].pc = "update"
  BY DEF UpdateOrder, At, account, world, history, bounds, Types
<1>1. DOMAIN orders' = DOMAIN orders
  BY DEF UpdateOrder, Updated
<1>2. StaysWithin(p)
  BY <1>0, NextOrderStep DEF UpdateOrder
<1>3. Types'
  BY <1>0, <1>2 DEF Types, OnlyMoves, StaysWithin
<1>4. RunsGoWithBots' /\ NoOrphans'
  BY <1>0, <1>1 DEF RunsGoWithBots, Exists, NoOrphans, RunOf
<1>5. Ownership'
  BY <1>0, <1>2 DEF Ownership, Owns, StaysWithin, OnlyMoves
<1>. QED BY <1>3, <1>4, <1>5

(* Changing rows of runs changes neither how many there are nor their bots. *)
SameRuns ==
  /\ Len(runs') = Len(runs) /\ DOMAIN runs' = DOMAIN runs
  /\ \A r \in DOMAIN runs : IsRun(runs'[r]) /\ runs'[r].bot = runs[r].bot

(* finish_run writes one row, and none that is gone.                        *)
LEMMA FinishRows ==
  ASSUME Types, NEW p \in Processes, FinishRun(p), proc[p].run \in DOMAIN runs
  PROVE  /\ SameRuns
         /\ \A r \in DOMAIN runs :
              /\ r # proc[p].run => runs'[r] = runs[r]
              /\ runs'[r].status = Gone <=> runs[r].status = Gone
              /\ runs[r].status # Gone /\ r = proc[p].run =>
                   runs'[r] = [runs[r] EXCEPT
                     !.status = IF At(p, "finish") THEN final_status(p) ELSE @,
                     !.submitted = proc[p].submitted,
                     !.errors = proc[p].failures > 0 \/ At(p, "finish failed")]
<1>. DEFINE r == proc[p].run
            row == [runs[r] EXCEPT
                     !.status = IF At(p, "finish") THEN final_status(p) ELSE @,
                     !.submitted = proc[p].submitted,
                     !.errors = proc[p].failures > 0 \/ At(p, "finish failed")]
<1>1. /\ Len(runs) \in Nat /\ DOMAIN runs = 1..Len(runs)
      /\ \A s \in DOMAIN runs : IsRun(runs[s])
  BY DEF Types
<1>2. CASE runs[r].status = Gone
  <2>1. runs' = runs
    BY <1>2 DEF FinishRun
  <2>. QED BY <1>1, <1>2, <2>1 DEF SameRuns
<1>3. CASE runs[r].status # Gone
  <2>1. final_status(p) \in {"succeeded", "failed"}
    BY DEF final_status
  <2>2. IsRun(row) /\ row.bot = runs[r].bot /\ row.status # Gone
    BY <1>1, <1>3, <2>1 DEF IsRun, RunStatuses, Gone
  <2>3. runs' = [runs EXCEPT ![r] = row]
    BY <1>3 DEF FinishRun
  <2>. HIDE DEF row
  <2>4. DOMAIN runs' = DOMAIN runs /\ Len(runs') = Len(runs)
    BY <1>1, <2>3
  <2>5. runs'[r] = row /\ \A s \in DOMAIN runs : s # r => runs'[s] = runs[s]
    BY <2>3
  <2>. QED BY <1>1, <1>3, <2>2, <2>4, <2>5 DEF SameRuns, row
<1>. QED BY <1>2, <1>3

(* Finishing a run keeps the invariant of the tables.                       *)
LEMMA FinishInv ==
  ASSUME TablesInv, NEW p \in Processes, FinishRun(p)
  PROVE  TablesInv'
<1>. USE DEF TablesInv
<1>0. UNCHANGED <<bots, orders, started, clock, faults>> /\ faults \in Nat
  BY DEF FinishRun, account, world, history, bounds, Types
<1>1. StaysWithin(p) /\ InRun(proc[p]) /\ proc'[p].pc \in {"touch", "touch skipped"}
  BY FinishStep
<1>2. proc[p].run \in DOMAIN runs
  BY <1>1 DEF Ownership, Owns
<1>3. /\ SameRuns
      /\ \A r \in DOMAIN runs :
              /\ r # proc[p].run => runs'[r] = runs[r]
              /\ runs'[r].status = Gone <=> runs[r].status = Gone
  BY <1>2, FinishRows
<1>4. Types'
  BY <1>0, <1>1, <1>3 DEF Types, SameRuns, OnlyMoves, StaysWithin
<1>5. RunsGoWithBots' /\ NoOrphans'
  BY <1>0, <1>3 DEF RunsGoWithBots, Exists, NoOrphans, RunOf, SameRuns
<1>6. ASSUME NEW q \in Processes PROVE Owns(proc[q])'
  <2>1. CASE q = p
    <3>1. /\ proc'[p].run = proc[p].run /\ proc'[p].queue = proc[p].queue
          /\ proc'[p].pc \notin Submitting
      BY <1>1 DEF StaysWithin, Submitting
    <3>2. runs[proc[p].run].bot = Head(proc[p].queue).bot
      BY <1>1 DEF Ownership, Owns
    <3>. QED BY <1>2, <1>3, <2>1, <3>1, <3>2 DEF Owns, SameRuns
  <2>2. CASE q # p /\ InRun(proc[q])
    <3>1. proc'[q] = proc[q] /\ Owns(proc[q]) /\ proc[q].run # proc[p].run
      BY <1>1, <2>2 DEF Ownership, OnlyMoves, StaysWithin
    <3>. QED BY <1>3, <3>1 DEF Owns, SameRuns
  <2>. QED BY <1>1, <2>1, <2>2 DEF Owns, OnlyMoves, StaysWithin
<1>7. \A q \in Processes :
        InRun(proc'[q]) => InRun(proc[q]) /\ proc'[q].run = proc[q].run
  BY <1>1 DEF OnlyMoves, StaysWithin
<1>8. Ownership'
  BY <1>6, <1>7 DEF Ownership
<1>. QED BY <1>4, <1>5, <1>8

(* touch_bot marks one row of runs, and none that is gone.                  *)
LEMMA TouchRows ==
  ASSUME Types, NEW p \in Processes, TouchBot(p), proc[p].run \in DOMAIN runs
  PROVE  /\ SameRuns
         /\ \A r \in DOMAIN runs :
              /\ runs'[r] = runs[r] \/ (r = proc[p].run /\ runs[r].status # Gone
                                        /\ runs'[r] = [runs[r] EXCEPT !.touched = TRUE])
              /\ runs'[r].status = runs[r].status
<1>. DEFINE r == proc[p].run
            row == [runs[r] EXCEPT !.touched = TRUE]
<1>1. /\ Len(runs) \in Nat /\ DOMAIN runs = 1..Len(runs)
      /\ \A s \in DOMAIN runs : IsRun(runs[s])
  BY DEF Types
<1>2. CASE runs[r].status = Gone
  <2>1. runs' = runs
    BY <1>2 DEF TouchBot
  <2>. QED BY <1>1, <1>2, <2>1 DEF SameRuns
<1>3. CASE runs[r].status # Gone
  <2>2. IsRun(row) /\ row.bot = runs[r].bot /\ row.status = runs[r].status
    BY <1>1, <1>3 DEF IsRun
  <2>3. runs' = [runs EXCEPT ![r] = row]
    BY <1>3 DEF TouchBot
  <2>. HIDE DEF row
  <2>4. DOMAIN runs' = DOMAIN runs /\ Len(runs') = Len(runs)
    BY <1>1, <2>3
  <2>5. runs'[r] = row /\ \A s \in DOMAIN runs : s # r => runs'[s] = runs[s]
    BY <2>3
  <2>. QED BY <1>1, <1>3, <2>2, <2>4, <2>5 DEF SameRuns, row
<1>. QED BY <1>2, <1>3

(* What touch_bot writes into the bot's row.                                *)
LEMMA TouchStep ==
  ASSUME Types, NEW p \in Processes, TouchBot(p)
  PROVE  /\ OnlyMoves(p) /\ IsProcess(proc'[p]) /\ Between(proc'[p])
         /\ Within(proc[p]) /\ InRun(proc[p])
         /\ proc'[p] = [pc |-> "next", queue |-> Tail(proc[p].queue)]
         /\ next_run_at_of(p) \in Nat
         /\ bots' \in [Bots -> BotRows]
         /\ \A b \in Bots : bots'[b].status = bots[b].status
<1>1. IsProcess(proc[p]) /\ Within(proc[p]) /\ InRun(proc[p])
  BY DEF TouchBot, At, Types, IsProcess, Between, Brief, InRun, Closing
<1>2. Abandon(p)
  BY DEF TouchBot, Abandon
<1>3. /\ OnlyMoves(p) /\ IsProcess(proc'[p])
      /\ proc'[p] = [pc |-> "next", queue |-> Tail(proc[p].queue)]
  BY <1>1, <1>2, Abandoned
<1>4. Spec(p) \in Specs /\ Spec(p).bot \in Bots /\ proc[p].now \in Nat
  BY <1>1, HeadAndTail DEF IsProcess, Within, Spec
<1>5. next_run_at_of(p) \in Nat
  <2>1. Spec(p).next_run_at \in Nat /\ Spec(p).interval \in Nat
    BY <1>4 DEF Specs
  <2>2. next_run_on_skip(Spec(p), proc[p].now) \in Nat
    BY <1>4, <2>1 DEF next_run_on_skip, next_run_after, NoTime
  <2>3. next_run_after(proc[p].now, Spec(p).interval) \in Nat
    BY <1>4, <2>1 DEF next_run_after, NoTime
  <2>. QED BY <2>2, <2>3 DEF next_run_at_of
<1>6. bots' \in [Bots -> BotRows] /\ \A b \in Bots : bots'[b].status = bots[b].status
  <2>. DEFINE b == Spec(p).bot
  <2>1. CASE ~Exists(b)
    BY <2>1 DEF TouchBot, Types
  <2>2. CASE Exists(b)
    <3>1. bots' = [bots EXCEPT ![b].next_run_at = next_run_at_of(p)]
      BY <2>2 DEF TouchBot
    <3>. QED BY <1>4, <1>5, <3>1 DEF Types, BotRows
  <2>. QED BY <2>1, <2>2
<1>. QED BY <1>1, <1>3, <1>5, <1>6 DEF Between, Brief

(* Touching a bot keeps the invariant of the tables.                        *)
LEMMA TouchInv ==
  ASSUME TablesInv, NEW p \in Processes, TouchBot(p)
  PROVE  TablesInv'
<1>. USE DEF TablesInv
<1>0. UNCHANGED <<orders, started, clock, faults>> /\ faults \in Nat
  BY DEF TouchBot, account, world, history, bounds, Types
<1>1. /\ OnlyMoves(p) /\ IsProcess(proc'[p]) /\ ~InRun(proc'[p]) /\ InRun(proc[p])
      /\ bots' \in [Bots -> BotRows]
      /\ \A b \in Bots : bots'[b].status = bots[b].status
  BY TouchStep DEF InRun, Between, Brief, Submitting, Closing
<1>2. proc[p].run \in DOMAIN runs
  BY <1>1 DEF Ownership, Owns
<1>3. /\ SameRuns
      /\ \A r \in DOMAIN runs : runs'[r].status = runs[r].status
  BY <1>2, TouchRows
<1>4. Types'
  BY <1>0, <1>1, <1>3 DEF Types, SameRuns, OnlyMoves
<1>5. RunsGoWithBots'
  <2>1. \A r \in DOMAIN runs : runs[r].bot \in Bots
    BY DEF Types, IsRun
  <2>2. /\ DOMAIN runs' = DOMAIN runs
        /\ \A r \in DOMAIN runs : runs'[r].bot = runs[r].bot
    BY <1>3 DEF SameRuns
  <2>. QED BY <1>0, <1>1, <1>3, <2>1, <2>2 DEF RunsGoWithBots, Exists
<1>6. NoOrphans'
  BY <1>0, <1>3 DEF NoOrphans, RunOf, SameRuns
<1>7. ASSUME NEW q \in Processes PROVE Owns(proc[q])'
  BY <1>1, <1>3 DEF Ownership, Owns, SameRuns, OnlyMoves
<1>8. Ownership'
  BY <1>1, <1>7 DEF Ownership, OnlyMoves
<1>. QED BY <1>4, <1>5, <1>6, <1>8

-----------------------------------------------------------------------------
(* What the user does, with the rows it leaves.                             *)
LEMMA UserRows ==
  ASSUME Types, User
  PROVE  /\ bots' \in [Bots -> BotRows] /\ started' \in [Bots -> Nat] /\ SameRuns
         /\ UserStays
         /\ \A b \in Bots : bots[b].status = Gone => bots'[b].status = Gone
         /\ \A b \in Bots : started[b] <= started'[b]
         /\ \A b \in Bots : started[b] = started'[b] /\ bots'[b].status # Gone
               => bots'[b].next_run_at = bots[b].next_run_at
         /\ \/ /\ UNCHANGED <<runs, orders>>
               /\ \A b \in Bots : bots'[b].status = Gone <=> bots[b].status = Gone
            \/ \E b \in Bots : DeleteBot(b)
<1>. USE DEF Edit
<1>0. /\ bots \in [Bots -> BotRows] /\ started \in [Bots -> Nat] /\ clock \in Nat
      /\ Len(runs) \in Nat /\ DOMAIN runs = 1..Len(runs)
      /\ \A r \in DOMAIN runs : IsRun(runs[r])
  BY DEF Types
<1>1. SUFFICES ASSUME NEW b \in Bots,
                      \/ Controls(b) \/ DeleteBot(b) \/ CheckPaused(b)
                      \/ \E t \in Baskets, x \in BotSettings, k \in Clockwork :
                           UpdateBot(b, t, x, k)
               PROVE  /\ bots' \in [Bots -> BotRows] /\ started' \in [Bots -> Nat]
                      /\ SameRuns
                      /\ UserStays
                      /\ \A c \in Bots : bots[c].status = Gone => bots'[c].status = Gone
                      /\ \A c \in Bots : started[c] <= started'[c]
                      /\ \A c \in Bots : started[c] = started'[c] /\ bots'[c].status # Gone
                            => bots'[c].next_run_at = bots[c].next_run_at
                      /\ \/ /\ UNCHANGED <<runs, orders>>
                            /\ \A c \in Bots : bots'[c].status = Gone <=> bots[c].status = Gone
                         \/ DeleteBot(b)
  BY DEF User
<1>2. CASE Controls(b)
  <2>1. PICK status \in {"running", "paused", "stopped"} : SetStatus(b, status)
    BY <1>2 DEF Controls
  <2>2. /\ bots[b].status # Gone
        /\ \E at \in Nat :
             /\ status = "running" \/ at = bots[b].next_run_at
             /\ bots' = [bots EXCEPT ![b].status = status, ![b].next_run_at = at]
        /\ started' = [started EXCEPT ![b] = IF status = "running" THEN @ + 1 ELSE @]
        /\ UNCHANGED <<runs, orders>>
        /\ UserStays
    BY <1>0, <2>1 DEF SetStatus, Exists, BotRows
  <2>3. PICK at \in Nat :
          /\ status = "running" \/ at = bots[b].next_run_at
          /\ bots' = [bots EXCEPT ![b].status = status, ![b].next_run_at = at]
    BY <2>2
  <2>4. /\ bots' \in [Bots -> BotRows] /\ bots'[b].status = status
        /\ bots'[b].next_run_at = at
        /\ \A c \in Bots : c # b => bots'[c] = bots[c]
    BY <1>0, <2>3 DEF BotRows, BotStatuses
  <2>5. started' \in [Bots -> Nat] /\ \A c \in Bots : started[c] <= started'[c]
        /\ (status = "running" => started'[b] # started[b])
    BY <1>0, <2>2
  <2>. QED BY <1>0, <2>2, <2>3, <2>4, <2>5 DEF SameRuns, Gone
<1>3. CASE DeleteBot(b)
  <2>1. /\ bots[b].status # Gone
        /\ bots' = [bots EXCEPT ![b].status = Gone, ![b].next_run_at = NoTime]
        /\ started' = started
        /\ UserStays
    BY <1>3 DEF DeleteBot, Exists
  <2>2. /\ bots' \in [Bots -> BotRows] /\ bots'[b].status = Gone
        /\ \A c \in Bots : c # b => bots'[c] = bots[c]
    BY <1>0, <2>1 DEF BotRows, BotStatuses, NoTime
  <2>3. SameRuns
    <3>. DEFINE row(r) == IF runs[r].bot = b THEN [runs[r] EXCEPT !.status = Gone]
                                             ELSE runs[r]
    <3>1. runs' = [r \in DOMAIN runs |-> row(r)]
      BY <1>3 DEF DeleteBot
    <3>2. \A r \in DOMAIN runs : IsRun(row(r)) /\ row(r).bot = runs[r].bot
      BY <1>0 DEF IsRun, RunStatuses
    <3>. HIDE DEF row
    <3>3. runs' = [r \in 1..Len(runs) |-> row(r)]
      BY <1>0, <3>1
    <3>4. DOMAIN runs' = 1..Len(runs) /\ Len(runs') = Len(runs)
      BY <1>0, <3>3
    <3>. QED BY <1>0, <3>1, <3>2, <3>4 DEF SameRuns
  <2>. QED BY <1>0, <1>3, <2>1, <2>2, <2>3
<1>4. CASE CheckPaused(b)
  BY <1>0, <1>4 DEF CheckPaused, tables, SameRuns
<1>5. CASE \E t \in Baskets, x \in BotSettings, k \in Clockwork : UpdateBot(b, t, x, k)
  <2>1. PICK t \in Baskets, x \in BotSettings, k \in Clockwork : UpdateBot(b, t, x, k)
    BY <1>5
  <2>2. /\ UserStays /\ UNCHANGED <<runs, orders, started>>
        /\ bots' = IF Exists(b)
                   THEN [bots EXCEPT ![b].targets = t, ![b].settings = x,
                                     ![b].clockwork = k]
                   ELSE bots
    BY <2>1 DEF UpdateBot
  <2>3. /\ bots' \in [Bots -> BotRows]
        /\ \A c \in Bots : /\ bots'[c].status = bots[c].status
                           /\ bots'[c].next_run_at = bots[c].next_run_at
    BY <1>0, <2>2 DEF BotRows
  <2>. QED BY <1>0, <2>2, <2>3 DEF SameRuns
<1>. QED BY <1>1, <1>2, <1>3, <1>4, <1>5

(* The user keeps the invariant: a deletion takes runs and orders along.    *)
LEMMA UserInv ==
  ASSUME TablesInv, User
  PROVE  TablesInv'
<1>. USE DEF TablesInv
<1>1. /\ bots' \in [Bots -> BotRows] /\ started' \in [Bots -> Nat] /\ SameRuns
      /\ UNCHANGED <<proc, clock, faults>>
      /\ \/ /\ UNCHANGED <<runs, orders>>
            /\ \A b \in Bots : bots'[b].status = Gone <=> bots[b].status = Gone
         \/ \E b \in Bots : DeleteBot(b)
  BY UserRows DEF UserStays
<1>2. Types'
  BY <1>1 DEF Types, SameRuns
<1>3. \A r \in DOMAIN runs : runs[r].bot \in Bots
  BY DEF Types, IsRun
<1>4. CASE /\ UNCHANGED <<runs, orders>>
           /\ \A b \in Bots : bots'[b].status = Gone <=> bots[b].status = Gone
  BY <1>1, <1>2, <1>3, <1>4 DEF RunsGoWithBots, NoOrphans, Ownership, Owns, RunOf, Exists
<1>5. ASSUME NEW b \in Bots, DeleteBot(b)
      PROVE  RunsGoWithBots' /\ NoOrphans' /\ Ownership'
  <2>1. /\ \A r \in DOMAIN runs : runs'[r].status =
              IF runs[r].bot = b THEN Gone ELSE runs[r].status
        /\ bots'[b].status = Gone /\ \A c \in Bots : c # b => bots'[c] = bots[c]
        /\ DOMAIN orders' \subseteq DOMAIN orders
        /\ \A id \in DOMAIN orders' : runs[id[1]].bot # b
    <3>1. \A r \in DOMAIN runs : runs'[r] =
            IF runs[r].bot = b THEN [runs[r] EXCEPT !.status = Gone] ELSE runs[r]
      BY <1>5 DEF DeleteBot
    <3>2. \A r \in DOMAIN runs : runs'[r].status =
            IF runs[r].bot = b THEN Gone ELSE runs[r].status
      BY <3>1 DEF Types, IsRun
    <3>3. bots'[b].status = Gone /\ \A c \in Bots : c # b => bots'[c] = bots[c]
      BY <1>5 DEF DeleteBot, Types, BotRows
    <3>4. DOMAIN orders' = {id \in DOMAIN orders : runs[id[1]].bot # b}
      BY <1>5 DEF DeleteBot
    <3>. QED BY <3>2, <3>3, <3>4
  <2>2. RunsGoWithBots'
    BY <1>1, <1>3, <2>1 DEF RunsGoWithBots, SameRuns, Exists
  <2>3. NoOrphans'
    BY <1>1, <2>1 DEF NoOrphans, RunOf, SameRuns
  <2>4. Ownership'
    BY <1>1, <2>1 DEF Ownership, Owns, SameRuns
  <2>. QED BY <2>2, <2>3, <2>4
<1>. QED BY <1>1, <1>2, <1>4, <1>5

-----------------------------------------------------------------------------
(* Every step of the next-state relation, by what it does to the tables.    *)

(* A step that leaves the tables to the user and to others.                 *)
QuietStep(p) ==
  \/ TryLock(p) \/ ListRows(p) \/ ListTargets(p) \/ Finished(p) \/ Unlock(p)
  \/ \E b \in Bots : GetBot(p, b)
  \/ Begin(p) \/ ReadPositions(p) \/ Decide(p) \/ BrokerUnavailable(p)
  \/ Crash(p) \/ Raise(p)

(* The steps that write to no table, faults among them.                     *)
LEMMA QuietMoves ==
  ASSUME Types, NEW p \in Processes, QuietStep(p)
  PROVE  /\ MovesOn(p) /\ ~InRun(proc'[p])
         /\ UNCHANGED <<tables, account, world, started, served>>
         /\ faults' \in Nat /\ (faults' = 0 => faults = 0)
         /\ faults' = 0 => proc[p].pc \notin Submitting
<1>. USE DEF InRun, Deciding, Submitting, Closing, Brief, Between
<1>1. CASE \/ TryLock(p) \/ ListRows(p) \/ ListTargets(p) \/ Finished(p) \/ Unlock(p)
           \/ \E b \in Bots : GetBot(p, b)
  <2>1. MovesOn(p) /\ ~InRun(proc'[p])
    BY <1>1, BriefStep DEF MovesOn
  <2>2. UNCHANGED <<tables, account, world, started, served, faults>>
    BY <1>1 DEF TryLock, ListRows, ListTargets, Finished, Unlock, GetBot, history, bounds
  <2>3. proc[p].pc \notin Submitting
    BY <1>1 DEF TryLock, ListRows, ListTargets, Finished, Unlock, GetBot, At
  <2>. QED BY <2>1, <2>2, <2>3 DEF Types
<1>2. CASE Begin(p)
  <2>1. MovesOn(p) /\ ~InRun(proc'[p])
    BY <1>2, BeginStep DEF MovesOn
  <2>2. proc[p].pc \notin Submitting
    BY <1>2 DEF Begin, At
  <2>. QED BY <1>2, <2>1, <2>2 DEF Begin, history, bounds, Types
<1>3. CASE ReadPositions(p) \/ Decide(p) \/ BrokerUnavailable(p)
  <2>1. StaysWithin(p) /\ proc'[p].pc \in Deciding
    BY <1>3, DecidingStep
  <2>2. MovesOn(p) /\ ~InRun(proc'[p])
    BY <2>1 DEF MovesOn, StaysWithin
  <2>3. UNCHANGED <<tables, account, world, started, served, faults>>
    BY <1>3 DEF ReadPositions, Decide, BrokerUnavailable, history, bounds
  <2>4. proc[p].pc \notin Submitting
    BY <1>3 DEF ReadPositions, Decide, BrokerUnavailable, At
  <2>. QED BY <2>2, <2>3, <2>4 DEF Types
<1>4. CASE Crash(p) \/ Raise(p)
  <2>1. OnlyMoves(p) /\ IsProcess(proc'[p]) /\ Between(proc'[p]) /\ faults' = faults + 1
    BY <1>4, FaultStep
  <2>2. MovesOn(p) /\ ~InRun(proc'[p])
    BY <2>1 DEF MovesOn
  <2>3. UNCHANGED <<tables, account, world, started, served>>
    BY <1>4 DEF Crash, Raise, Fault
  <2>4. faults \in Nat
    BY DEF Types
  <2>5. faults' \in Nat /\ faults' # 0
    BY <2>1, <2>4
  <2>. QED BY <2>2, <2>3, <2>5
<1>. QED BY <1>1, <1>2, <1>3, <1>4 DEF QuietStep

(* The session of the lock dies: the process knows nothing of it.           *)
LEMMA SessionDies ==
  ASSUME NEW p \in Processes, LoseSession(p)
  PROVE  /\ UNCHANGED <<proc, tables, account, world, started, served>>
         /\ faults' = faults + 1 /\ lock' = None /\ severed'
BY DEF LoseSession, Fault

(* What else a process does, and what others do.                            *)
LEMMA NextSteps ==
  ASSUME [EvalNext]_evalVars
  PROVE  \/ \E p \in Processes :
              \/ QuietStep(p) \/ Skip(p) \/ Fail(p) \/ StartRun(p) \/ RecordOrder(p)
              \/ Place(p) \/ UpdateOrder(p) \/ FinishRun(p) \/ TouchBot(p)
              \/ LoseSession(p)
         \/ User \/ Tick
         \/ \E id \in DOMAIN resting : FillsLater(id)
         \/ UNCHANGED evalVars
BY DEF EvalNext, Step, QuietStep

(* Every step keeps the invariant of the tables.                            *)
LEMMA TablesStep ==
  ASSUME TablesInv, [EvalNext]_evalVars
  PROVE  TablesInv'
<1>. USE DEF TablesInv
<1>1. ASSUME NEW p \in Processes, QuietStep(p) PROVE TablesInv'
  BY <1>1, QuietMoves, TablesStand DEF world
<1>2. ASSUME NEW p \in Processes, Skip(p) PROVE TablesInv'
  BY <1>2, CreateInv DEF Skip, Deciding, Closing, Submitting
<1>3. ASSUME NEW p \in Processes, Fail(p) PROVE TablesInv'
  BY <1>3, CreateInv DEF Fail, Deciding, Closing, Submitting
<1>4. ASSUME NEW p \in Processes, StartRun(p) PROVE TablesInv'
  BY <1>4, CreateInv DEF StartRun, Deciding, Closing, Submitting
<1>5. ASSUME NEW p \in Processes, RecordOrder(p) PROVE TablesInv'
  BY <1>5, RecordInv
<1>6. ASSUME NEW p \in Processes, Place(p) PROVE TablesInv'
  <2>1. MovesOn(p)
    BY <1>6, PlaceStep DEF MovesOn, StaysWithin
  <2>. QED BY <1>6, <2>1, TablesStand DEF Place, world, history, Types
<1>7. ASSUME NEW p \in Processes, UpdateOrder(p) PROVE TablesInv'
  BY <1>7, UpdateInv
<1>8. ASSUME NEW p \in Processes, FinishRun(p) PROVE TablesInv'
  BY <1>8, FinishInv
<1>9. ASSUME NEW p \in Processes, TouchBot(p) PROVE TablesInv'
  BY <1>9, TouchInv
<1>10. CASE User
  BY <1>10, UserInv
<1>11. ASSUME \/ Tick \/ \E id \in DOMAIN resting : FillsLater(id)
              \/ \E p \in Processes : LoseSession(p)
              \/ UNCHANGED evalVars
       PROVE TablesInv'
  <2>1. /\ UNCHANGED <<bots, runs, orders, proc, started>>
        /\ clock' \in Nat /\ faults' \in Nat
    BY <1>11, SessionDies
       DEF Tick, FillsLater, evalVars, tables, world, history, bounds, account, Types
  <2>. QED BY <2>1
       DEF Types, RunsGoWithBots, NoOrphans, Ownership, Owns, RunOf, Exists
<1>. QED
  BY <1>1, <1>2, <1>3, <1>4, <1>5, <1>6, <1>7, <1>8, <1>9, <1>10, <1>11, NextSteps

(* The tables start out empty.                                              *)
LEMMA TablesInit == EvalInit => TablesInv
<1>. SUFFICES ASSUME EvalInit PROVE TablesInv
  OBVIOUS
<1>1. \A p \in Processes : IsProcess(proc[p]) /\ ~InRun(proc[p])
  <2>1. \A p \in Processes : proc[p] = Idle
    BY DEF EvalInit
  <2>2. /\ Idle.pc = "idle" /\ Idle.queue = <<>> /\ DOMAIN Idle = {"pc", "queue"}
        /\ <<>> \in Seq(Specs)
    BY DEF Idle
  <2>3. IsProcess(Idle)
    BY <2>2 DEF IsProcess, Between, Brief
  <2>4. ~InRun(Idle)
    BY <2>2 DEF InRun, Submitting, Closing
  <2>. QED BY <2>1, <2>3, <2>4
<1>2. bots \in [Bots -> BotRows] /\ started \in [Bots -> Nat]
  BY DEF EvalInit, BotRows, BotStatuses, NoTime
<1>. QED
  BY <1>1, <1>2
     DEF EvalInit, TablesInv, Types, RunsGoWithBots, Ownership, Owns, NoOrphans

(* The invariant of the tables holds in every state.                        *)
LEMMA TablesAlways == EvalSpec => []TablesInv
<1>1. TablesInv /\ [EvalNext]_evalVars => TablesInv'
  BY TablesStep
<1>. QED BY <1>1, TablesInit, PTL DEF EvalSpec

(* A bot that is deleted takes its runs and its orders with it for good: no *)
(* evaluation in flight (service.py, _execute) brings a row of it back, in  *)
(* whatever step the deletion catches it.                                   *)
THEOREM NothingOutlivesItsBot == EvalSpec => []NoOrphanRows
<1>1. TablesInv => NoOrphanRows
  BY DEF TablesInv, RunsGoWithBots, NoOrphans, NoOrphanRows, RunOf
<1>. QED BY <1>1, TablesAlways, PTL

-----------------------------------------------------------------------------
(* Runs that say running.                                                   *)

(* A step that opens no run, and after which the process that took it still *)
(* works on the run it worked on, if that one is open.                      *)
LEMMA OpenStand ==
  ASSUME TablesInv, OpenRunsAreWorkedOn, NEW p \in Processes, OnlyMoves(p),
         faults' = 0 => faults = 0, DOMAIN runs' = DOMAIN runs,
         \A r \in DOMAIN runs : runs'[r].status = "running" => runs[r].status = "running",
         faults' = 0 /\ proc[p].pc \in Submitting
           /\ runs'[proc[p].run].status = "running" /\ proc[p].run \in DOMAIN runs =>
              proc'[p].pc \in Submitting /\ proc'[p].run = proc[p].run
  PROVE  OpenRunsAreWorkedOn'
<1>. SUFFICES ASSUME faults' = 0, NEW r \in DOMAIN runs, runs'[r].status = "running"
              PROVE  \E q \in Processes : proc'[q].pc \in Submitting /\ proc'[q].run = r
  BY DEF OpenRunsAreWorkedOn, Executing, Submitting
<1>1. PICK q \in Processes : proc[q].pc \in Submitting /\ proc[q].run = r
  BY DEF OpenRunsAreWorkedOn, Executing, Submitting
<1>. QED BY <1>1 DEF OnlyMoves

(* A run created as running is in the hands of its creator.                 *)
LEMMA OpenCreate ==
  ASSUME TablesInv, OpenRunsAreWorkedOn, NEW p \in Processes,
         NEW from \in Deciding, NEW status \in {"skipped", "failed", "running"},
         NEW to \in Submitting \cup Closing, to \in Submitting <=> status = "running",
         CreateRun(p, from, status, to)
  PROVE  OpenRunsAreWorkedOn'
<1>1. proc[p].pc \notin Submitting /\ faults' = faults
  BY DEF CreateRun, At, bounds, Deciding, Submitting
<1>2. CASE ~Exists(Spec(p).bot)
  <2>1. OnlyMoves(p) /\ runs' = runs
    BY <1>2, CreateFails DEF TablesInv
  <2>. QED BY <1>1, <2>1, OpenStand
<1>3. CASE Exists(Spec(p).bot)
  <2>1. /\ OnlyMoves(p) /\ proc'[p].pc = to /\ proc'[p].run = Len(runs) + 1
        /\ DOMAIN runs' = 1..(Len(runs) + 1)
        /\ \A r \in DOMAIN runs : runs'[r] = runs[r]
        /\ runs'[Len(runs) + 1].status = status
    BY <1>3, CreateStep DEF TablesInv
  <2>2. Len(runs) \in Nat /\ DOMAIN runs = 1..Len(runs)
    BY DEF TablesInv, Types
  <2>. SUFFICES ASSUME faults' = 0, NEW r \in DOMAIN runs', runs'[r].status = "running"
                PROVE  \E q \in Processes : proc'[q].pc \in Submitting /\ proc'[q].run = r
    BY DEF OpenRunsAreWorkedOn, Executing, Submitting
  <2>3. CASE r \in DOMAIN runs
    <3>1. PICK q \in Processes : proc[q].pc \in Submitting /\ proc[q].run = r
      BY <1>1, <2>1, <2>3 DEF OpenRunsAreWorkedOn, Executing, Submitting
    <3>. QED BY <1>1, <2>1, <3>1 DEF OnlyMoves
  <2>4. CASE r \notin DOMAIN runs
    <3>1. r = Len(runs) + 1
      BY <2>1, <2>2, <2>4
    <3>2. to \in Submitting
      BY <2>1, <3>1
    <3>. QED BY <2>1, <3>1, <3>2
  <2>. QED BY <2>3, <2>4
<1>. QED BY <1>2, <1>3

(* Every step keeps the open runs in somebody's hands.                      *)
LEMMA OpenStep ==
  ASSUME TablesInv, OpenRunsAreWorkedOn, [EvalNext]_evalVars
  PROVE  OpenRunsAreWorkedOn'
<1>0. Types
  BY DEF TablesInv
<1>1. ASSUME NEW p \in Processes, QuietStep(p) PROVE OpenRunsAreWorkedOn'
  <2>1. /\ OnlyMoves(p) /\ runs' = runs /\ (faults' = 0 => faults = 0)
        /\ faults' = 0 => proc[p].pc \notin Submitting
    BY <1>0, <1>1, QuietMoves DEF MovesOn, tables
  <2>. QED BY <2>1, OpenStand
<1>2. ASSUME NEW p \in Processes, Skip(p) PROVE OpenRunsAreWorkedOn'
  BY <1>2, OpenCreate DEF Skip, Deciding, Closing, Submitting
<1>3. ASSUME NEW p \in Processes, Fail(p) PROVE OpenRunsAreWorkedOn'
  BY <1>3, OpenCreate DEF Fail, Deciding, Closing, Submitting
<1>4. ASSUME NEW p \in Processes, StartRun(p) PROVE OpenRunsAreWorkedOn'
  BY <1>4, OpenCreate DEF StartRun, Deciding, Closing, Submitting
<1>5. ASSUME NEW p \in Processes, RecordOrder(p) PROVE OpenRunsAreWorkedOn'
  <2>1. runs' = runs /\ faults' = faults /\ proc[p].pc = "record"
    BY <1>5 DEF RecordOrder, At, bounds
  <2>2. Within(proc[p]) /\ Owns(proc[p]) /\ InRun(proc[p])
    BY <1>0, <2>1
       DEF Types, TablesInv, Ownership, IsProcess, Between, Brief, InRun, Submitting
  <2>3. CASE Exists(Spec(p).bot)
    <3>1. Goto(p, "place")
      BY <1>5, <2>3 DEF RecordOrder
    <3>2. OnlyMoves(p) /\ proc'[p] = [proc[p] EXCEPT !.pc = "place"]
      BY <1>0, <3>1, Went
    <3>3. proc'[p].pc \in Submitting /\ proc'[p].run = proc[p].run
      BY <2>2, <3>2 DEF Within, Submitting
    <3>. QED BY <2>1, <3>2, <3>3, OpenStand
  <2>4. CASE ~Exists(Spec(p).bot)
    <3>1. Abandon(p)
      BY <1>5, <2>4 DEF RecordOrder
    <3>2. OnlyMoves(p)
      BY <1>0, <2>2, <3>1, Abandoned
    <3>3. runs[proc[p].run].status = Gone
      BY <2>2, <2>4 DEF TablesInv, RunsGoWithBots, Owns, Spec
    <3>. QED BY <2>1, <3>2, <3>3, OpenStand DEF Gone
  <2>. QED BY <2>3, <2>4
<1>6. ASSUME NEW p \in Processes, Place(p) PROVE OpenRunsAreWorkedOn'
  <2>1. StaysWithin(p) /\ proc'[p].pc \in Submitting
    BY <1>0, <1>6, PlaceStep DEF Submitting
  <2>2. runs' = runs /\ faults' = faults
    BY <1>6 DEF Place, tables
  <2>. QED BY <2>1, <2>2, OpenStand DEF StaysWithin
<1>7. ASSUME NEW p \in Processes, UpdateOrder(p) PROVE OpenRunsAreWorkedOn'
  <2>1. StaysWithin(p) /\ proc'[p].pc \in Submitting
    BY <1>0, <1>7, NextOrderStep DEF UpdateOrder, At, Submitting
  <2>2. runs' = runs /\ faults' = faults
    BY <1>7 DEF UpdateOrder, bounds
  <2>. QED BY <2>1, <2>2, OpenStand DEF StaysWithin
<1>8. ASSUME NEW p \in Processes, FinishRun(p) PROVE OpenRunsAreWorkedOn'
  <2>1. StaysWithin(p) /\ InRun(proc[p]) /\ faults' = faults
    BY <1>0, <1>8, FinishStep DEF FinishRun, bounds
  <2>2. proc[p].run \in DOMAIN runs
    BY <2>1 DEF TablesInv, Ownership, Owns
  <2>3. /\ SameRuns
        /\ \A r \in DOMAIN runs :
              /\ r # proc[p].run => runs'[r] = runs[r]
              /\ runs'[r].status = Gone <=> runs[r].status = Gone
              /\ runs[r].status # Gone /\ r = proc[p].run =>
                   runs'[r] = [runs[r] EXCEPT
                     !.status = IF At(p, "finish") THEN final_status(p) ELSE @,
                     !.submitted = proc[p].submitted,
                     !.errors = proc[p].failures > 0 \/ At(p, "finish failed")]
    BY <1>0, <1>8, <2>2, FinishRows
  <2>4. \A r \in DOMAIN runs : IsRun(runs[r])
    BY <1>0 DEF Types
  <2>5. runs'[proc[p].run].status = "running" =>
          runs[proc[p].run].status = "running" /\ proc[p].pc # "finish"
    BY <2>2, <2>3, <2>4 DEF IsRun, final_status, At, Gone
  <2>6. proc[p].pc \in Submitting => proc[p].pc = "finish"
    BY <1>8 DEF FinishRun, At, Submitting
  <2>. QED BY <2>1, <2>2, <2>3, <2>5, <2>6, OpenStand DEF StaysWithin, SameRuns
<1>9. ASSUME NEW p \in Processes, TouchBot(p) PROVE OpenRunsAreWorkedOn'
  <2>1. OnlyMoves(p) /\ InRun(proc[p]) /\ proc[p].pc \notin Submitting /\ faults' = faults
    BY <1>0, <1>9, TouchStep DEF TouchBot, bounds, At, Submitting
  <2>2. proc[p].run \in DOMAIN runs
    BY <2>1 DEF TablesInv, Ownership, Owns
  <2>3. SameRuns /\ \A r \in DOMAIN runs : runs'[r].status = runs[r].status
    BY <1>0, <1>9, <2>2, TouchRows
  <2>. QED BY <2>1, <2>3, OpenStand DEF SameRuns
<1>10. CASE User
  <2>1. SameRuns /\ UNCHANGED <<proc, faults>>
    BY <1>0, <1>10, UserRows DEF UserStays
  <2>2. \A r \in DOMAIN runs : runs'[r].status \in {runs[r].status, Gone}
    <3>1. CASE UNCHANGED runs
      BY <3>1
    <3>2. ASSUME NEW b \in Bots, DeleteBot(b)
          PROVE  \A r \in DOMAIN runs : runs'[r].status \in {runs[r].status, Gone}
      BY <1>0, <3>2 DEF DeleteBot, Types, IsRun
    <3>. QED BY <1>0, <1>10, <3>1, <3>2, UserRows
  <2>. QED BY <2>1, <2>2 DEF OpenRunsAreWorkedOn, Executing, SameRuns, Gone
<1>11. ASSUME \/ Tick \/ \E id \in DOMAIN resting : FillsLater(id)
              \/ \E p \in Processes : LoseSession(p)
              \/ UNCHANGED evalVars
       PROVE OpenRunsAreWorkedOn'
  <2>1. UNCHANGED <<runs, proc>> /\ (faults' = 0 => faults = 0)
    <3>1. faults \in Nat
      BY <1>0 DEF Types
    <3>. QED BY <1>11, <3>1, SessionDies DEF Tick, FillsLater, evalVars, tables, bounds
  <2>. QED BY <2>1 DEF OpenRunsAreWorkedOn, Executing
<1>. QED
  BY <1>1, <1>2, <1>3, <1>4, <1>5, <1>6, <1>7, <1>8, <1>9, <1>10, <1>11, NextSteps

(* Whatever the venue answers reaches the run record: a run that shows as   *)
(* running is in the hands of a process that is submitting its orders,      *)
(* unless the engine died or an exception that is no BrokerError went past  *)
(* the submit loop (service.py, _execute).                                  *)
THEOREM NoRunIsForgotten == EvalSpec => []OpenRunsAreWorkedOn
<1>1. EvalInit => OpenRunsAreWorkedOn
  BY DEF EvalInit, OpenRunsAreWorkedOn
<1>2. TablesInv /\ OpenRunsAreWorkedOn /\ [EvalNext]_evalVars => OpenRunsAreWorkedOn'
  BY OpenStep
<1>. QED BY <1>1, <1>2, TablesAlways, PTL DEF EvalSpec

-----------------------------------------------------------------------------
(* The audit trail.  Of the orders of the run a process is submitting, the  *)
(* ones ahead are unknown to everybody, the ones behind are settled, and    *)
(* the one in hand is pending until its answer is written down.             *)
Ids == DOMAIN orders \cup fills \cup DOMAIN resting

(* The orders of a run that are ahead, behind, and in hand.                 *)
Ahead(s, id) ==
  id[1] = s.run /\ (id[2] > s.i \/ (id[2] = s.i /\ s.pc \in {"record", "finish"}))
Behind(s, id) == id[1] = s.run /\ id[2] < s.i
InHand(s) == <<s.run, s.i>>

(* What the venue's answer says of the order in hand.                       *)
Told(s) ==
  LET id == InHand(s) IN
  /\ s.result \in Taken \cup {"rejected"}
  /\ s.result = "filled" => id \in fills /\ id \notin unheard /\ id \notin DOMAIN resting
  /\ s.result \in {"submitted", "partially_filled"} => id \in DOMAIN resting
  /\ s.result = "rejected" => id \notin DOMAIN resting /\ (id \in fills => id \in unheard)

(* The order in hand is pending, and unknown to the venue until placed.     *)
Handles(s) ==
  LET id == InHand(s) IN
  /\ runs[s.run].status # Gone => id \in DOMAIN orders
  /\ id \in DOMAIN orders => orders[id].status = "pending"
  /\ s.pc = "place" => id \notin fills /\ id \notin DOMAIN resting
  /\ s.pc = "update" => Told(s)

(* A process has left no trace ahead, and nothing pending behind.           *)
Submits(s) ==
  s.pc \in Submitting =>
    /\ \A id \in Ids : ~Ahead(s, id)
    /\ \A id \in DOMAIN orders : Behind(s, id) => orders[id].status # "pending"
    /\ s.pc \in {"place", "update"} => Handles(s)

(* What is at the venue belongs to a run that was recorded.                 *)
KnownIds ==
  /\ fills \subseteq (DOMAIN runs) \X Nat /\ DOMAIN resting \subseteq (DOMAIN runs) \X Nat
  /\ unheard \subseteq fills /\ \A id \in unheard : id \notin DOMAIN resting

(* The two halves of TrailIsTrue, of one order each.                        *)
RowIsTrue(id) ==
  orders[id].status \in Taken =>
    IF id \in DOMAIN resting THEN orders[id].status # "filled"
    ELSE orders[id].status = "filled" /\ id \in fills /\ id \notin unheard
FillShows(id) ==
  RunOf(id).status # Gone =>
    Shows(id, IF id \in unheard THEN {"rejected"} ELSE Taken)

(* The inductive invariant of the audit trail.                              *)
TrailInv ==
  /\ KnownIds
  /\ \A p \in Processes : Submits(proc[p])
  /\ \A id \in DOMAIN orders : RowIsTrue(id)
  /\ \A id \in fills \cup DOMAIN resting : FillShows(id)

(* The invariant says what TrailIsTrue says.                                *)
LEMMA TrailMeans == TrailInv => TrailIsTrue
BY DEF TrailInv, RowIsTrue, FillShows, TrailIsTrue

(* Nothing happens to an order, but that it may go with its bot.            *)
Untouched(id) ==
  /\ id \in DOMAIN orders' =>
       id \in DOMAIN orders /\ orders'[id].status = orders[id].status
  /\ runs'[id[1]].status # Gone =>
       runs[id[1]].status # Gone /\ (id \in DOMAIN orders => id \in DOMAIN orders')
  /\ id \in fills' <=> id \in fills
  /\ id \in DOMAIN resting' <=> id \in DOMAIN resting
  /\ id \in unheard' <=> id \in unheard

(* A process goes on with the order it has in hand when nothing happens to  *)
(* the orders of its run.                                                   *)
LEMMA SubmitsOn ==
  ASSUME NEW s, Submits(s), Ids' \subseteq (DOMAIN runs') \X Nat,
         s.pc \in Submitting => s.i \in Nat /\ \A i \in Nat : Untouched(<<s.run, i>>)
  PROVE  Submits(s)'
<1>. SUFFICES ASSUME s.pc \in Submitting
              PROVE  /\ \A id \in Ids' : ~Ahead(s, id)
                     /\ \A id \in DOMAIN orders' :
                          Behind(s, id) => orders'[id].status # "pending"
                     /\ s.pc \in {"place", "update"} => Handles(s)'
  BY DEF Submits
<1>1. \A id \in Ids' : id[1] = s.run => id = <<s.run, id[2]>> /\ id[2] \in Nat
  OBVIOUS
<1>2. \A id \in Ids' : id[1] = s.run => Untouched(id)
  BY <1>1
<1>3. \A id \in Ids' : id[1] = s.run => id \in Ids
  BY <1>2 DEF Ids, Untouched
<1>4. \A id \in Ids' : ~Ahead(s, id)
  BY <1>3 DEF Submits, Ahead
<1>5. ASSUME NEW id \in DOMAIN orders', Behind(s, id)
      PROVE  orders'[id].status # "pending"
  BY <1>2, <1>5 DEF Submits, Behind, Ids, Untouched
<1>6. ASSUME s.pc \in {"place", "update"} PROVE Handles(s)'
  <2>1. Untouched(InHand(s)) /\ Handles(s) /\ InHand(s)[1] = s.run
    BY <1>6 DEF InHand, Submits
  <2>. QED BY <2>1 DEF Handles, Told, Untouched
<1>. QED BY <1>4, <1>5, <1>6

(* An order row that nothing happens to stays true.                         *)
LEMMA RowStaysTrue ==
  ASSUME NEW id \in DOMAIN orders', Untouched(id), RowIsTrue(id)
  PROVE  RowIsTrue(id)'
BY DEF Untouched, RowIsTrue

(* What the venue did with an order shows as long as nothing happens to it. *)
LEMMA FillStillShows ==
  ASSUME NEW id, Untouched(id), FillShows(id),
         runs'[id[1]].status \in {runs[id[1]].status, Gone}
  PROVE  FillShows(id)'
BY DEF Untouched, FillShows, Shows, RunOf, Gone

(* All the orders of other runs.                                            *)
LEMMA OthersOn ==
  ASSUME TablesInv, TablesInv', TrailInv, NEW p, OnlyMoves(p),
         KnownIds', DOMAIN runs \subseteq DOMAIN runs',
         NEW own, \A q \in Processes : q # p /\ InRun(proc[q]) => proc[q].run # own,
         \A id \in (DOMAIN runs) \X Nat : id[1] # own => Untouched(id),
         \A r \in DOMAIN runs : r # own => runs'[r].status \in {runs[r].status, Gone}
  PROVE  /\ Ids \subseteq (DOMAIN runs) \X Nat /\ Ids' \subseteq (DOMAIN runs') \X Nat
         /\ \A q \in Processes : q # p => Submits(proc[q])'
         /\ \A id \in DOMAIN orders' :
              id[1] # own /\ id[1] \in DOMAIN runs => RowIsTrue(id)'
         /\ \A id \in fills' \cup DOMAIN resting' :
              id[1] # own /\ id[1] \in DOMAIN runs => FillShows(id)'
<1>1. Ids \subseteq (DOMAIN runs) \X Nat /\ Ids' \subseteq (DOMAIN runs') \X Nat
  BY DEF Ids, TrailInv, KnownIds, TablesInv, NoOrphans
<1>2. \A q \in Processes : q # p => Submits(proc[q])'
  <2>. SUFFICES ASSUME NEW q \in Processes, q # p PROVE Submits(proc[q])'
    OBVIOUS
  <2>1. proc'[q] = proc[q] /\ Submits(proc[q]) /\ Owns(proc[q]) /\ IsProcess(proc[q])
    BY DEF OnlyMoves, TrailInv, TablesInv, Ownership, Types
  <2>2. ASSUME proc[q].pc \in Submitting
        PROVE  proc[q].i \in Nat /\ \A i \in Nat : Untouched(<<proc[q].run, i>>)
    <3>1. InRun(proc[q]) /\ Within(proc[q])
      BY <2>1, <2>2 DEF InRun, IsProcess, Between, Brief, Submitting
    <3>2. proc[q].run \in DOMAIN runs /\ proc[q].run # own /\ proc[q].i \in Nat
      BY <2>1, <3>1 DEF Owns, Within
    <3>3. \A i \in Nat : <<proc[q].run, i>> \in (DOMAIN runs) \X Nat
                         /\ <<proc[q].run, i>>[1] # own
      BY <3>2
    <3>. QED BY <3>2, <3>3
  <2>. DEFINE s == proc[q]
  <2>3. Submits(s) /\ (s.pc \in Submitting => s.i \in Nat
                                   /\ \A i \in Nat : Untouched(<<s.run, i>>))
    BY <2>1, <2>2
  <2>. QED BY <1>1, <2>1, <2>3, SubmitsOn DEF Submits
<1>3. ASSUME NEW id \in DOMAIN orders', id[1] # own, id[1] \in DOMAIN runs
      PROVE  RowIsTrue(id)'
  <2>1. Untouched(id)
    BY <1>1, <1>3 DEF Ids
  <2>. QED BY <1>3, <2>1, RowStaysTrue DEF TrailInv, Untouched
<1>4. ASSUME NEW id \in fills' \cup DOMAIN resting', id[1] # own, id[1] \in DOMAIN runs
      PROVE  FillShows(id)'
  <2>1. Untouched(id)
    BY <1>1, <1>4 DEF Ids
  <2>. QED BY <1>4, <2>1, FillStillShows DEF TrailInv, Untouched
<1>. QED BY <1>1, <1>2, <1>3, <1>4

(* Steps that touch no order.                                               *)
LEMMA TrailStands ==
  ASSUME TablesInv, TablesInv', TrailInv, NEW p, OnlyMoves(p),
         UNCHANGED <<orders, fills, resting, unheard>>,
         DOMAIN runs \subseteq DOMAIN runs',
         \A r \in DOMAIN runs : runs'[r].status \in {runs[r].status, Gone},
         \A r \in DOMAIN runs : runs'[r].status # Gone => runs[r].status # Gone,
         p \in Processes => Submits(proc[p])'
  PROVE  TrailInv'
<1>1. /\ fills \subseteq (DOMAIN runs) \X Nat /\ DOMAIN resting \subseteq (DOMAIN runs) \X Nat
      /\ DOMAIN orders \subseteq (DOMAIN runs) \X Nat
  BY DEF TrailInv, KnownIds, TablesInv, NoOrphans
<1>2. KnownIds'
  BY DEF TrailInv, KnownIds
<1>3. \A id \in (DOMAIN runs) \X Nat : id[1] # 0 => Untouched(id)
  BY DEF Untouched
<1>4. 0 \notin DOMAIN runs
  BY DEF TablesInv, Types
<1>5. \A q \in Processes : q # p /\ InRun(proc[q]) => proc[q].run # 0
  BY <1>4 DEF TablesInv, Ownership, Owns
<1>6. \A r \in DOMAIN runs : r # 0 => runs'[r].status \in {runs[r].status, Gone}
  OBVIOUS
<1>7. /\ \A q \in Processes : q # p => Submits(proc[q])'
      /\ \A id \in DOMAIN orders' :
              id[1] # 0 /\ id[1] \in DOMAIN runs => RowIsTrue(id)'
      /\ \A id \in fills' \cup DOMAIN resting' :
              id[1] # 0 /\ id[1] \in DOMAIN runs => FillShows(id)'
  BY <1>2, <1>3, <1>5, <1>6, OthersOn
<1>8. \A id \in DOMAIN orders' : RowIsTrue(id)'
  BY <1>1, <1>4, <1>7
<1>9. \A id \in fills' \cup DOMAIN resting' : FillShows(id)'
  BY <1>1, <1>4, <1>7
<1>10. \A q \in Processes : Submits(proc[q])'
  BY <1>7
<1>. QED BY <1>2, <1>8, <1>9, <1>10 DEF TrailInv

(* create_run: no order has the id of the new run yet.                      *)
LEMMA TrailCreate ==
  ASSUME TablesInv, TablesInv', TrailInv, NEW p \in Processes,
         NEW from \in Deciding, NEW status \in {"skipped", "failed", "running"},
         NEW to \in {"record"} \cup Closing, CreateRun(p, from, status, to)
  PROVE  TrailInv'
<1>1. UNCHANGED <<orders, fills, resting, unheard>> /\ Types
  BY DEF CreateRun, account, TablesInv
<1>2. CASE ~Exists(Spec(p).bot)
  <2>1. OnlyMoves(p) /\ proc'[p].pc \notin Submitting /\ runs' = runs
    BY <1>1, <1>2, CreateFails DEF Between, Brief, Submitting
  <2>. QED BY <1>1, <2>1, TrailStands DEF Submits
<1>3. CASE Exists(Spec(p).bot)
  <2>1. to \in Submitting \cup Closing
    BY DEF Submitting
  <2>2. /\ OnlyMoves(p) /\ proc'[p].pc = to /\ proc'[p].run = Len(runs) + 1
        /\ DOMAIN runs' = 1..(Len(runs) + 1)
        /\ \A r \in DOMAIN runs : runs'[r] = runs[r]
    BY <1>1, <1>3, <2>1, CreateStep
  <2>3. Len(runs) \in Nat /\ DOMAIN runs = 1..Len(runs)
    BY <1>1 DEF Types
  <2>4. Ids' \subseteq (DOMAIN runs) \X Nat
    BY <1>1 DEF Ids, TrailInv, KnownIds, TablesInv, NoOrphans
  <2>5. \A id \in Ids' : id[1] # proc'[p].run
    BY <2>2, <2>3, <2>4
  <2>6. proc'[p].pc \notin {"place", "update"}
    BY <2>2 DEF Closing
  <2>7. Submits(proc[p])'
    BY <2>5, <2>6 DEF Submits, Ahead, Behind, Ids
  <2>. QED BY <1>1, <2>2, <2>3, <2>7, TrailStands
<1>. QED BY <1>2, <1>3

(* The process and the order it has in hand.                                *)
LEMMA InHandFacts ==
  ASSUME TablesInv, TrailInv, NEW p \in Processes, InRun(proc[p])
  PROVE  /\ Types /\ IsProcess(proc[p]) /\ Within(proc[p]) /\ Submits(proc[p])
         /\ Owns(proc[p]) /\ proc[p].run \in DOMAIN runs /\ proc[p].i \in Nat
         /\ \A q \in Processes : q # p /\ InRun(proc[q]) => proc[q].run # proc[p].run
         /\ InHand(proc[p]) \in (DOMAIN runs) \X Nat
         /\ InHand(proc[p]) = client_order_id(p) /\ InHand(proc[p])[1] = proc[p].run
         /\ InHand(proc[p])[2] = proc[p].i
         /\ \A id \in Ids : id \in (DOMAIN runs) \X Nat
         /\ \A id \in Ids : id[1] = proc[p].run => id = <<proc[p].run, id[2]>> /\ id[2] \in Nat
<1>1. Types /\ IsProcess(proc[p]) /\ Submits(proc[p]) /\ Owns(proc[p])
  BY DEF TablesInv, Types, TrailInv, Ownership
<1>2. Within(proc[p]) /\ proc[p].run \in DOMAIN runs
  BY <1>1 DEF IsProcess, Between, Brief, InRun, Submitting, Closing, Owns
<1>3. proc[p].i \in Nat
  BY <1>2 DEF Within
<1>4. \A id \in Ids : id \in (DOMAIN runs) \X Nat
  BY DEF Ids, TrailInv, KnownIds, TablesInv, NoOrphans
<1>5. \A q \in Processes : q # p /\ InRun(proc[q]) => proc[q].run # proc[p].run
  BY DEF TablesInv, Ownership
<1>. QED BY <1>1, <1>2, <1>3, <1>4, <1>5 DEF InHand, client_order_id

(* record_order: the row is written before the venue hears of the order.    *)
LEMMA TrailRecord ==
  ASSUME TablesInv, TablesInv', TrailInv, NEW p \in Processes, RecordOrder(p)
  PROVE  TrailInv'
<1>. DEFINE s == proc[p]  new == InHand(s)
<1>1. UNCHANGED <<runs, fills, resting, unheard>> /\ s.pc = "record"
  BY DEF RecordOrder, At, account
<1>2. InRun(s)
  BY <1>1 DEF InRun, Submitting
<1>3. Types /\ Within(s) /\ Owns(s) /\ Submits(s) /\ s.run \in DOMAIN runs /\ s.i \in Nat
  BY <1>2, InHandFacts
<1>4. CASE ~Exists(Spec(p).bot)
  <2>1. Abandon(p) /\ orders' = orders
    BY <1>4 DEF RecordOrder
  <2>2. OnlyMoves(p) /\ proc'[p] = [pc |-> "next", queue |-> Tail(proc[p].queue)]
    BY <1>3, <2>1, Abandoned
  <2>3. Submits(proc[p])'
    BY <2>2 DEF Submits, Submitting
  <2>. QED BY <1>1, <2>1, <2>2, <2>3, TrailStands
<1>5. CASE Exists(Spec(p).bot)
  <2>1. /\ new \in (DOMAIN runs) \X Nat /\ new = client_order_id(p)
        /\ new[1] = s.run /\ new[2] = s.i
        /\ \A id \in Ids : id \in (DOMAIN runs) \X Nat
    BY <1>2, InHandFacts
  <2>2. Goto(p, "place")
    BY <1>5 DEF RecordOrder
  <2>3. OnlyMoves(p) /\ proc'[p] = [s EXCEPT !.pc = "place"]
    BY <1>3, <2>2, Went
  <2>4. proc'[p].pc = "place" /\ proc'[p].run = s.run /\ proc'[p].i = s.i
    BY <1>3, <2>3 DEF Within
  <2>5. new \notin Ids
    BY <1>1, <1>3, <2>1 DEF Submits, Ahead, Submitting
  <2>6. PICK row : row.status = "pending" /\ orders' = Inserted(orders, new, row)
    BY <1>5, <2>1 DEF RecordOrder
  <2>7. /\ DOMAIN orders' = DOMAIN orders \cup {new} /\ orders'[new].status = "pending"
        /\ \A id \in DOMAIN orders : orders'[id] = orders[id]
    <3>1. new \notin DOMAIN orders
      BY <2>5 DEF Ids
    <3>2. /\ DOMAIN orders' = DOMAIN orders \cup {new} /\ orders'[new] = row
          /\ \A id \in DOMAIN orders : orders'[id] = orders[id]
      BY <2>6, <3>1 DEF Inserted
    <3>. QED BY <2>6, <3>2
  <2>8. KnownIds'
    BY <1>1 DEF TrailInv, KnownIds
  <2>9. \A id \in (DOMAIN runs) \X Nat : id # new => Untouched(id)
    BY <1>1, <2>7 DEF Untouched
  <2>10. \A id \in (DOMAIN runs) \X Nat : id[1] # s.run => Untouched(id)
    BY <2>1, <2>9
  <2>11. \A q \in Processes : q # p => Submits(proc[q])'
    <3>1. \A q \in Processes : q # p /\ InRun(proc[q]) => proc[q].run # s.run
      BY <1>2, InHandFacts
    <3>. QED BY <1>1, <2>3, <2>8, <2>10, <3>1, OthersOn
  <2>12. Ids' = Ids \cup {new}
    BY <1>1, <2>7 DEF Ids
  <2>13. Submits(proc[p])'
    <3>1. \A id \in Ids' : ~Ahead(proc'[p], id)
      BY <1>1, <1>3, <2>1, <2>4, <2>12 DEF Submits, Ahead, Submitting
    <3>2. \A id \in DOMAIN orders' :
            Behind(proc'[p], id) => orders'[id].status # "pending"
      BY <1>1, <1>3, <2>1, <2>4, <2>7 DEF Submits, Behind, Submitting
    <3>3. InHand(proc'[p]) = new
      BY <2>4 DEF InHand
    <3>4. Handles(proc[p])'
      BY <1>1, <2>4, <2>5, <2>7, <3>3 DEF Handles, Ids
    <3>. QED BY <3>1, <3>2, <3>4 DEF Submits
  <2>14. ASSUME NEW id \in DOMAIN orders' PROVE RowIsTrue(id)'
    <3>1. CASE id = new
      BY <2>7, <3>1 DEF RowIsTrue, Taken
    <3>2. CASE id \in DOMAIN orders
      BY <1>1, <2>7, <3>2 DEF TrailInv, RowIsTrue
    <3>. QED BY <2>7, <3>1, <3>2
  <2>15. \A id \in fills' \cup DOMAIN resting' : FillShows(id)'
    BY <1>1, <2>7 DEF TrailInv, FillShows, Shows, RunOf
  <2>. QED BY <2>8, <2>11, <2>13, <2>3, <2>14, <2>15 DEF TrailInv
<1>. QED BY <1>4, <1>5

(* A step that does something to the order in hand alone.                   *)
LEMMA TrailOwn ==
  ASSUME TablesInv, TablesInv', TrailInv, NEW p \in Processes, InRun(proc[p]),
         OnlyMoves(p), KnownIds', DOMAIN runs \subseteq DOMAIN runs',
         NEW c, c = client_order_id(p),
         \A id \in (DOMAIN runs) \X Nat : id # c => Untouched(id),
         \A r \in DOMAIN runs : runs'[r].status = runs[r].status,
         Submits(proc[p])',
         c \in DOMAIN orders' => RowIsTrue(c)',
         c \in fills' \cup DOMAIN resting' => FillShows(c)',
         Ids' \subseteq Ids \cup {c}
  PROVE  TrailInv'
<1>1. /\ c \in (DOMAIN runs) \X Nat /\ c[1] = proc[p].run
      /\ \A id \in Ids : id \in (DOMAIN runs) \X Nat
      /\ \A q \in Processes : q # p /\ InRun(proc[q]) => proc[q].run # proc[p].run
  BY InHandFacts
<1>2. \A id \in (DOMAIN runs) \X Nat : id[1] # proc[p].run => Untouched(id)
  BY <1>1
<1>3. \A r \in DOMAIN runs : r # proc[p].run => runs'[r].status \in {runs[r].status, Gone}
  OBVIOUS
<1>4. \A q \in Processes : q # p => Submits(proc[q])'
  BY <1>1, <1>2, <1>3, OthersOn
<1>5. \A q \in Processes : Submits(proc[q])'
  BY <1>4
<1>6. ASSUME NEW id \in DOMAIN orders' PROVE RowIsTrue(id)'
  <2>1. CASE id = c
    BY <1>6, <2>1
  <2>2. CASE id # c
    <3>1. id \in Ids
      BY <1>6, <2>2 DEF Ids
    <3>2. Untouched(id)
      BY <1>1, <2>2, <3>1
    <3>3. RowIsTrue(id)
      BY <1>6, <3>2 DEF TrailInv, Untouched
    <3>. QED BY <1>6, <3>2, <3>3, RowStaysTrue
  <2>. QED BY <2>1, <2>2
<1>7. ASSUME NEW id \in fills' \cup DOMAIN resting' PROVE FillShows(id)'
  <2>1. CASE id = c
    BY <1>7, <2>1
  <2>2. CASE id # c
    <3>1. id \in Ids
      BY <1>7, <2>2 DEF Ids
    <3>2. Untouched(id) /\ id[1] \in DOMAIN runs
      BY <1>1, <2>2, <3>1
    <3>3. FillShows(id)
      BY <1>7, <3>2 DEF TrailInv, Untouched
    <3>4. runs'[id[1]].status \in {runs[id[1]].status, Gone}
      BY <3>2
    <3>. QED BY <3>2, <3>3, <3>4, FillStillShows
  <2>. QED BY <2>1, <2>2
<1>. QED BY <1>5, <1>6, <1>7 DEF TrailInv

(* update_order_result: the row of the order in hand says what the venue    *)
(* answered, and the next order is taken in hand.                           *)
LEMMA TrailUpdate ==
  ASSUME TablesInv, TablesInv', TrailInv, NEW p \in Processes, UpdateOrder(p)
  PROVE  TrailInv'
<1>1. UNCHANGED <<runs, fills, resting, unheard>> /\ proc[p].pc = "update"
  BY DEF UpdateOrder, At, account
<1>2. InRun(proc[p])
  BY <1>1 DEF InRun, Submitting
<1>3. /\ Types /\ Within(proc[p]) /\ Submits(proc[p]) /\ proc[p].i \in Nat
      /\ InHand(proc[p]) = client_order_id(p)
  BY <1>2, InHandFacts
<1>4. PICK c : c = InHand(proc[p])
  OBVIOUS
<1>5. /\ c \in (DOMAIN runs) \X Nat /\ c[1] = proc[p].run /\ c[2] = proc[p].i
      /\ c = <<proc[p].run, proc[p].i>>
      /\ \A id \in Ids : id \in (DOMAIN runs) \X Nat
      /\ \A id \in Ids : id[1] = proc[p].run => id = <<proc[p].run, id[2]>> /\ id[2] \in Nat
  BY <1>2, <1>4, InHandFacts DEF InHand
<1>6. /\ OnlyMoves(p) /\ proc'[p].pc \in {"record", "finish"}
      /\ proc'[p].i = proc[p].i + 1 /\ proc'[p].run = proc[p].run
  BY <1>1, <1>3, NextOrderStep DEF UpdateOrder, StaysWithin
<1>7. orders' = Updated(p)
  BY DEF UpdateOrder
<1>8. /\ DOMAIN orders' = DOMAIN orders
      /\ \A id \in DOMAIN orders : id # c => orders'[id] = orders[id]
      /\ c \in DOMAIN orders => orders'[c].status = proc[p].result
  <2>1. CASE c \in DOMAIN orders
    <3>1. orders' = [orders EXCEPT ![c].status = proc[p].result]
      BY <1>3, <1>4, <1>7, <2>1 DEF Updated
    <3>2. orders'[c] = [orders[c] EXCEPT !.status = proc[p].result]
      BY <2>1, <3>1
    <3>. QED BY <3>1, <3>2
  <2>2. CASE c \notin DOMAIN orders
    BY <1>3, <1>4, <1>7, <2>2 DEF Updated
  <2>. QED BY <2>1, <2>2
<1>9. Handles(proc[p]) /\ Told(proc[p])
  BY <1>1, <1>3 DEF Submits, Handles, Submitting
<1>10. KnownIds'
  BY <1>1 DEF TrailInv, KnownIds
<1>11. Ids' = Ids
  BY <1>1, <1>8 DEF Ids
<1>12. \A id \in (DOMAIN runs) \X Nat : id # c => Untouched(id)
  BY <1>1, <1>8 DEF Untouched
<1>13. Submits(proc[p])'
  <2>1. \A id \in Ids' : ~Ahead(proc'[p], id)
    <3>1. ASSUME NEW id \in Ids, id[1] = proc[p].run PROVE id[2] <= proc[p].i
      <4>1. ~Ahead(proc[p], id) /\ id[2] \in Nat
        BY <1>1, <1>3, <1>5, <3>1 DEF Submits, Submitting
      <4>. QED BY <1>3, <3>1, <4>1 DEF Ahead
    <3>. QED BY <1>3, <1>5, <1>6, <1>11, <3>1 DEF Ahead
  <2>2. ASSUME NEW id \in DOMAIN orders', Behind(proc'[p], id)
        PROVE  orders'[id].status # "pending"
    <3>1. id \in Ids /\ id \in DOMAIN orders /\ id[1] = proc[p].run /\ id[2] < proc[p].i + 1
      BY <1>6, <1>8, <2>2 DEF Behind, Ids
    <3>2. id = <<proc[p].run, id[2]>> /\ id[2] \in Nat
      BY <1>5, <3>1
    <3>3. CASE id[2] = proc[p].i
      <4>1. id = c
        BY <1>5, <3>2, <3>3
      <4>. QED BY <1>8, <1>9, <3>1, <4>1 DEF Told, Taken
    <3>4. CASE id[2] # proc[p].i
      <4>1. id[2] < proc[p].i
        BY <1>3, <3>1, <3>2, <3>4
      <4>2. orders[id].status # "pending"
        BY <1>1, <1>3, <3>1, <4>1 DEF Submits, Behind, Submitting
      <4>3. id # c
        BY <1>5, <3>4
      <4>. QED BY <1>8, <3>1, <4>2, <4>3
    <3>. QED BY <3>3, <3>4
  <2>. QED BY <1>6, <2>1, <2>2 DEF Submits
<1>14. c \in DOMAIN orders' => RowIsTrue(c)'
  BY <1>1, <1>4, <1>8, <1>9 DEF Told, RowIsTrue, Taken
<1>15. ASSUME c \in fills' \cup DOMAIN resting', runs'[c[1]].status # Gone
       PROVE  Shows(c, IF c \in unheard THEN {"rejected"} ELSE Taken)'
  <2>1. c \in DOMAIN orders
    BY <1>1, <1>4, <1>5, <1>9, <1>15 DEF Handles
  <2>2. c \in unheard => c \notin DOMAIN resting
    BY DEF TrailInv, KnownIds
  <2>3. proc[p].result \in IF c \in unheard THEN {"rejected"} ELSE Taken
    BY <1>1, <1>4, <1>9, <1>15, <2>2 DEF Told, Taken
  <2>. QED BY <1>1, <1>8, <2>1, <2>3 DEF Shows
<1>16. c \in fills' \cup DOMAIN resting' => FillShows(c)'
  BY <1>15 DEF FillShows, RunOf
<1>. QED BY <1>1, <1>2, <1>3, <1>4, <1>6, <1>10, <1>11, <1>12, <1>13, <1>14, <1>16, TrailOwn

(* place_order: whatever the venue does, with the order in hand alone, and  *)
(* what the process is told of it.                                          *)
LEMMA Placed ==
  ASSUME NEW p \in Processes, NEW c, c = client_order_id(p), Place(p)
  PROVE  \E status :
    /\ proc' = [proc EXCEPT ![p].pc = "update", ![p].result = status]
    /\ \/ /\ status \in {"filled", "rejected"} /\ resting' = resting
          /\ \/ status = "filled" /\ fills' = fills \cup {c} /\ unheard' = unheard
             \/ status = "rejected" /\ fills' = fills /\ unheard' = unheard
             \/ /\ status = "rejected" /\ fills' = fills \cup {c}
                /\ unheard' = unheard \cup {c}
       \/ /\ status \in {"submitted", "partially_filled"}
          /\ fills' = fills /\ unheard' = unheard
          /\ DOMAIN resting' = DOMAIN resting \cup {c}
<1>1. CASE Answered(p)
  <2>1. CASE Fills(p)
    <3>1. Answers(p, "filled") /\ Fill(p) /\ UNCHANGED <<unheard, resting>>
      BY <1>1, <2>1 DEF Answered
    <3>. QED BY <3>1 DEF Answers, Fill
  <2>2. CASE ~Fills(p)
    <3>1. Answers(p, "rejected") /\ UNCHANGED account
      BY <1>1, <2>2 DEF Answered
    <3>. QED BY <3>1 DEF Answers, account
  <2>. QED BY <2>1, <2>2
<1>2. CASE KeptOpen(p)
  <2>1. PICK part : /\ \E row : resting' = Inserted(resting, client_order_id(p), row)
                    /\ Answers(p, IF part = 0 THEN "submitted" ELSE "partially_filled")
                    /\ UNCHANGED <<fills, unheard>>
    BY <1>2 DEF KeptOpen
  <2>2. DOMAIN resting' = DOMAIN resting \cup {c}
    BY <2>1 DEF Inserted
  <2>3. CASE part = 0
    BY <2>1, <2>2, <2>3 DEF Answers
  <2>4. CASE part # 0
    BY <2>1, <2>2, <2>4 DEF Answers
  <2>. QED BY <2>3, <2>4
<1>3. CASE VenueFails(p)
  <2>1. Answers(p, "rejected") /\ UNCHANGED resting
    BY <1>3 DEF VenueFails
  <2>2. \/ UNCHANGED account
        \/ Fill(p) /\ unheard' = unheard \cup {client_order_id(p)}
    BY <1>3 DEF VenueFails
  <2>3. \/ fills' = fills /\ unheard' = unheard
        \/ fills' = fills \cup {c} /\ unheard' = unheard \cup {c}
    BY <2>2 DEF Fill, account
  <2>. QED BY <2>1, <2>3 DEF Answers
<1>. QED BY <1>1, <1>2, <1>3 DEF Place

(* place_order: the row still says pending, in a run that says running.     *)
LEMMA TrailPlace ==
  ASSUME TablesInv, TablesInv', TrailInv, NEW p \in Processes, Place(p)
  PROVE  TrailInv'
<1>1. UNCHANGED <<runs, orders>> /\ proc[p].pc = "place"
  BY DEF Place, At, tables
<1>2. InRun(proc[p])
  BY <1>1 DEF InRun, Submitting
<1>3. /\ Types /\ Within(proc[p]) /\ Submits(proc[p]) /\ proc[p].i \in Nat
      /\ InHand(proc[p]) = client_order_id(p)
  BY <1>2, InHandFacts
<1>4. PICK c : c = InHand(proc[p])
  OBVIOUS
<1>5. /\ c \in (DOMAIN runs) \X Nat /\ c[1] = proc[p].run /\ c[2] = proc[p].i
      /\ c = <<proc[p].run, proc[p].i>> /\ proc[p].run \in DOMAIN runs
      /\ \A id \in Ids : id \in (DOMAIN runs) \X Nat
  BY <1>2, <1>4, InHandFacts DEF InHand
<1>6. PICK status :
    /\ proc' = [proc EXCEPT ![p].pc = "update", ![p].result = status]
    /\ \/ /\ status \in {"filled", "rejected"} /\ resting' = resting
          /\ \/ status = "filled" /\ fills' = fills \cup {c} /\ unheard' = unheard
             \/ status = "rejected" /\ fills' = fills /\ unheard' = unheard
             \/ /\ status = "rejected" /\ fills' = fills \cup {c}
                /\ unheard' = unheard \cup {c}
       \/ /\ status \in {"submitted", "partially_filled"}
          /\ fills' = fills /\ unheard' = unheard
          /\ DOMAIN resting' = DOMAIN resting \cup {c}
  BY <1>3, <1>4, Placed
<1>7. /\ OnlyMoves(p) /\ proc'[p].pc = "update" /\ proc'[p].i = proc[p].i
      /\ proc'[p].run = proc[p].run
  BY <1>3, PlaceStep DEF StaysWithin
<1>8. proc'[p].result = status
  <2>1. p \in DOMAIN proc /\ proc[p].result = proc[p].result /\ "result" \in DOMAIN proc[p]
    BY <1>3 DEF Types, Within
  <2>. QED BY <1>6, <2>1
<1>9. /\ c \notin fills /\ c \notin DOMAIN resting /\ c \notin unheard
      /\ c \in DOMAIN orders => orders[c].status = "pending"
      /\ runs[proc[p].run].status # Gone => c \in DOMAIN orders
  BY <1>1, <1>3, <1>4 DEF Submits, Handles, Submitting, TrailInv, KnownIds
<1>10. KnownIds'
  <2>1. fills' \subseteq fills \cup {c} /\ DOMAIN resting' \subseteq DOMAIN resting \cup {c}
    BY <1>6
  <2>2. unheard' \subseteq fills' /\ \A id \in unheard' : id \notin DOMAIN resting'
    BY <1>6, <1>9 DEF TrailInv, KnownIds
  <2>. QED BY <1>1, <1>5, <2>1, <2>2 DEF TrailInv, KnownIds
<1>11. Ids' \subseteq Ids \cup {c}
  BY <1>1, <1>6 DEF Ids
<1>12. \A id \in (DOMAIN runs) \X Nat : id # c => Untouched(id)
  BY <1>1, <1>6 DEF Untouched
<1>13. InHand(proc'[p]) = c
  BY <1>5, <1>7 DEF InHand
<1>14. Told(proc[p])'
  BY <1>6, <1>8, <1>9, <1>13 DEF Told, Taken
<1>15. Submits(proc[p])'
  <2>1. ASSUME NEW id \in Ids' PROVE ~Ahead(proc'[p], id)
    <3>1. CASE id = c
      BY <1>3, <1>5, <1>7, <3>1 DEF Ahead
    <3>2. CASE id \in Ids
      BY <1>1, <1>3, <1>7, <3>2 DEF Submits, Submitting, Ahead
    <3>. QED BY <1>11, <3>1, <3>2
  <2>2. \A id \in DOMAIN orders' :
          Behind(proc'[p], id) => orders'[id].status # "pending"
    BY <1>1, <1>3, <1>7 DEF Submits, Submitting, Behind
  <2>3. Handles(proc[p])'
    BY <1>1, <1>7, <1>9, <1>13, <1>14 DEF Handles
  <2>. QED BY <2>1, <2>2, <2>3 DEF Submits
<1>16. c \in DOMAIN orders' => RowIsTrue(c)'
  BY <1>1, <1>9 DEF RowIsTrue, Taken
<1>17. c \in fills' \cup DOMAIN resting' => FillShows(c)'
  <2>1. runs[proc[p].run].status \in {"running", Gone}
    BY <1>1, <1>2, InHandFacts DEF Owns, Submitting
  <2>. QED BY <1>1, <1>5, <1>9, <2>1 DEF FillShows, Shows, RunOf
<1>. QED BY <1>1, <1>2, <1>3, <1>4, <1>7, <1>10, <1>11, <1>12, <1>15, <1>16, <1>17, TrailOwn

(* finish_run: when the submit loop is over every order of the run has been *)
(* answered, and the run may stop showing as running.                       *)
LEMMA TrailFinish ==
  ASSUME TablesInv, TablesInv', TrailInv, NEW p \in Processes, FinishRun(p)
  PROVE  TrailInv'
<1>1. UNCHANGED <<orders, fills, resting, unheard>> /\ Types
  BY DEF FinishRun, account, TablesInv
<1>2. /\ OnlyMoves(p) /\ InRun(proc[p]) /\ proc'[p].pc \notin Submitting
  BY <1>1, FinishStep DEF StaysWithin, Submitting
<1>3. /\ proc[p].run \in DOMAIN runs /\ Submits(proc[p]) /\ proc[p].i \in Nat
      /\ \A id \in Ids : id \in (DOMAIN runs) \X Nat
      /\ \A q \in Processes : q # p /\ InRun(proc[q]) => proc[q].run # proc[p].run
  BY <1>2, InHandFacts
<1>4. /\ DOMAIN runs' = DOMAIN runs
      /\ \A r \in DOMAIN runs :
              /\ r # proc[p].run => runs'[r] = runs[r]
              /\ runs'[r].status = Gone <=> runs[r].status = Gone
  BY <1>1, <1>3, FinishRows DEF SameRuns
<1>5. CASE proc[p].pc = "finish"
  <2>1. \A id \in DOMAIN orders : id[1] = proc[p].run => orders[id].status # "pending"
    <3>1. ASSUME NEW id \in Ids, id[1] = proc[p].run PROVE Behind(proc[p], id)
      <4>1. ~Ahead(proc[p], id) /\ id[2] \in Nat
        BY <1>3, <1>5, <3>1 DEF Submits, Submitting
      <4>. QED BY <1>3, <1>5, <3>1, <4>1 DEF Ahead, Behind
    <3>. QED BY <1>3, <1>5, <3>1 DEF Submits, Submitting, Ids
  <2>2. KnownIds'
    BY <1>1, <1>4 DEF TrailInv, KnownIds
  <2>3. \A id \in (DOMAIN runs) \X Nat : id[1] # proc[p].run => Untouched(id)
    BY <1>1, <1>4 DEF Untouched
  <2>4. \A r \in DOMAIN runs : r # proc[p].run => runs'[r].status \in {runs[r].status, Gone}
    BY <1>4
  <2>5. /\ \A q \in Processes : q # p => Submits(proc[q])'
        /\ \A id \in fills' \cup DOMAIN resting' :
              id[1] # proc[p].run /\ id[1] \in DOMAIN runs => FillShows(id)'
    BY <1>2, <1>3, <1>4, <2>2, <2>3, <2>4, OthersOn
  <2>6. Submits(proc[p])'
    BY <1>2 DEF Submits
  <2>7. \A q \in Processes : Submits(proc[q])'
    BY <2>5, <2>6
  <2>8. \A id \in DOMAIN orders' : RowIsTrue(id)'
    BY <1>1 DEF TrailInv, RowIsTrue
  <2>9. ASSUME NEW id \in fills' \cup DOMAIN resting' PROVE FillShows(id)'
    <3>1. id \in Ids /\ FillShows(id) /\ id[1] \in DOMAIN runs
      BY <1>1, <1>3, <2>9 DEF Ids, TrailInv
    <3>2. CASE id[1] = proc[p].run
      BY <1>1, <1>4, <2>1, <3>1, <3>2 DEF FillShows, Shows, RunOf
    <3>. QED BY <2>5, <2>9, <3>1, <3>2
  <2>. QED BY <2>2, <2>7, <2>8, <2>9 DEF TrailInv
<1>6. CASE proc[p].pc # "finish"
  <2>1. \A r \in DOMAIN runs : runs'[r].status = runs[r].status
    <3>1. ASSUME runs[proc[p].run].status # Gone
          PROVE  runs'[proc[p].run].status = runs[proc[p].run].status
      <4>1. IsRun(runs[proc[p].run])
        BY <1>1, <1>3 DEF Types
      <4>2. runs' = [runs EXCEPT ![proc[p].run].status = @,
                               ![proc[p].run].submitted = proc[p].submitted,
                               ![proc[p].run].errors = proc[p].failures > 0 \/ At(p, "finish failed")]
        BY <1>6, <3>1 DEF FinishRun, At
      <4>3. runs'[proc[p].run] = [runs[proc[p].run] EXCEPT !.status = @,
                               !.submitted = proc[p].submitted,
                               !.errors = proc[p].failures > 0 \/ At(p, "finish failed")]
        BY <1>3, <4>2
      <4>. QED BY <4>1, <4>3 DEF IsRun
    <3>. QED BY <1>3, <1>4, <3>1
  <2>2. Submits(proc[p])'
    BY <1>2 DEF Submits
  <2>. QED BY <1>1, <1>2, <1>4, <2>1, <2>2, TrailStands
<1>. QED BY <1>5, <1>6

(* The user deletes order rows only with the whole run.                     *)
LEMMA TrailUser ==
  ASSUME TablesInv, TablesInv', TrailInv, User
  PROVE  TrailInv'
<1>1. /\ Types /\ SameRuns /\ UNCHANGED <<proc, fills, unheard, resting>>
      /\ UNCHANGED <<runs, orders>> \/ \E b \in Bots : DeleteBot(b)
  BY UserRows DEF TablesInv, UserStays, account
<1>2. OnlyMoves(None) /\ None \notin Processes
  BY <1>1, EvaluationAssumption DEF OnlyMoves, Types
<1>3. CASE UNCHANGED <<runs, orders>>
  BY <1>1, <1>2, <1>3, TrailStands
<1>4. ASSUME NEW b \in Bots, DeleteBot(b) PROVE TrailInv'
  <2>1. /\ runs' = [r \in DOMAIN runs |->
               IF runs[r].bot = b THEN [runs[r] EXCEPT !.status = Gone] ELSE runs[r]]
        /\ orders' = [id \in {id \in DOMAIN orders : runs[id[1]].bot # b} |-> orders[id]]
    BY <1>4 DEF DeleteBot
  <2>2. /\ DOMAIN runs' = DOMAIN runs
        /\ \A r \in DOMAIN runs : runs[r].bot = b => runs'[r].status = Gone
        /\ \A r \in DOMAIN runs : runs[r].bot # b => runs'[r] = runs[r]
    BY <1>1, <2>1 DEF Types, IsRun
  <2>3. KnownIds'
    BY <1>1, <2>2 DEF TrailInv, KnownIds
  <2>4. ASSUME NEW id \in (DOMAIN runs) \X Nat PROVE Untouched(id)
    <3>1. id[1] \in DOMAIN runs
      BY <2>4
    <3>2. id \in DOMAIN orders' => id \in DOMAIN orders /\ orders'[id] = orders[id]
      BY <2>1
    <3>3. runs[id[1]].bot # b /\ id \in DOMAIN orders => id \in DOMAIN orders'
      BY <2>1
    <3>. QED BY <1>1, <2>2, <3>1, <3>2, <3>3 DEF Untouched
  <2>5. \A r \in DOMAIN runs : runs'[r].status \in {runs[r].status, Gone}
    BY <2>2
  <2>6. 0 \notin DOMAIN runs
    BY <1>1 DEF Types
  <2>7. \A q \in Processes : q # None /\ InRun(proc[q]) => proc[q].run # 0
    BY <2>6 DEF TablesInv, Ownership, Owns
  <2>8. \A id \in (DOMAIN runs) \X Nat : id[1] # 0 => Untouched(id)
    BY <2>4
  <2>9. \A r \in DOMAIN runs : r # 0 => runs'[r].status \in {runs[r].status, Gone}
    BY <2>5
  <2>10. /\ Ids' \subseteq (DOMAIN runs') \X Nat
         /\ \A q \in Processes : q # None => Submits(proc[q])'
         /\ \A id \in DOMAIN orders' :
              id[1] # 0 /\ id[1] \in DOMAIN runs => RowIsTrue(id)'
         /\ \A id \in fills' \cup DOMAIN resting' :
              id[1] # 0 /\ id[1] \in DOMAIN runs => FillShows(id)'
    BY <1>2, <2>2, <2>3, <2>7, <2>8, <2>9, OthersOn
  <2>11. \A id \in DOMAIN orders' : RowIsTrue(id)'
    BY <2>2, <2>6, <2>10 DEF Ids
  <2>12. \A id \in fills' \cup DOMAIN resting' : FillShows(id)'
    BY <2>2, <2>6, <2>10 DEF Ids
  <2>13. \A q \in Processes : Submits(proc[q])'
    BY <1>2, <2>10
  <2>. QED BY <2>3, <2>11, <2>12, <2>13 DEF TrailInv
<1>. QED BY <1>1, <1>3, <1>4

(* The venue fills what it has kept open: an order some process may still   *)
(* be writing down.                                                         *)
LEMMA TrailLater ==
  ASSUME TablesInv, TrailInv, NEW c \in DOMAIN resting, FillsLater(c)
  PROVE  TrailInv'
<1>1. /\ UNCHANGED <<runs, orders, proc, unheard>> /\ fills' = fills \cup {c}
      /\ DOMAIN resting' = DOMAIN resting
  BY DEF FillsLater, tables
<1>2. c \notin unheard
  BY DEF TrailInv, KnownIds
<1>3. Ids' = Ids
  BY <1>1 DEF Ids
<1>4. KnownIds'
  BY <1>1 DEF TrailInv, KnownIds
<1>5. ASSUME NEW p \in Processes PROVE Submits(proc[p])'
  <2>1. Submits(proc[p])
    BY DEF TrailInv
  <2>2. ASSUME Handles(proc[p]) PROVE Handles(proc[p])'
    BY <1>1, <1>2, <2>2 DEF Handles, Told, InHand
  <2>. QED BY <1>1, <1>3, <2>1, <2>2 DEF Submits, Ahead, Behind
<1>6. \A id \in DOMAIN orders' : RowIsTrue(id)'
  BY <1>1 DEF TrailInv, RowIsTrue
<1>7. \A id \in fills' \cup DOMAIN resting' : FillShows(id)'
  BY <1>1 DEF TrailInv, FillShows, Shows, RunOf
<1>. QED BY <1>4, <1>5, <1>6, <1>7 DEF TrailInv

(* Every step keeps the audit trail true.                                   *)
LEMMA TrailStep ==
  ASSUME TablesInv, TrailInv, [EvalNext]_evalVars
  PROVE  TrailInv'
<1>. TablesInv' /\ Types
  BY TablesStep DEF TablesInv
<1>1. ASSUME NEW p \in Processes, QuietStep(p) PROVE TrailInv'
  <2>1. /\ OnlyMoves(p) /\ ~InRun(proc'[p])
        /\ UNCHANGED <<runs, orders, fills, resting, unheard>>
    BY <1>1, QuietMoves DEF MovesOn, tables, account
  <2>2. Submits(proc[p])'
    BY <2>1 DEF Submits, InRun
  <2>. QED BY <2>1, <2>2, TrailStands
<1>2. ASSUME NEW p \in Processes, Skip(p) \/ Fail(p) \/ StartRun(p) PROVE TrailInv'
  BY <1>2, TrailCreate DEF Skip, Fail, StartRun, Deciding, Closing
<1>3. ASSUME NEW p \in Processes, TouchBot(p) PROVE TrailInv'
  <2>1. /\ OnlyMoves(p) /\ Between(proc'[p]) /\ InRun(proc[p])
        /\ UNCHANGED <<orders, fills, resting, unheard>>
    BY <1>3, TouchStep DEF TouchBot, account
  <2>2. proc[p].run \in DOMAIN runs
    BY <2>1 DEF TablesInv, Ownership, Owns
  <2>3. DOMAIN runs' = DOMAIN runs /\ \A r \in DOMAIN runs : runs'[r].status = runs[r].status
    BY <1>3, <2>2, TouchRows DEF SameRuns
  <2>4. Submits(proc[p])'
    BY <2>1 DEF Submits, Between, Brief, Submitting
  <2>. QED BY <2>1, <2>3, <2>4, TrailStands
<1>4. CASE Tick \/ (\E p \in Processes : LoseSession(p)) \/ UNCHANGED evalVars
  <2>1. UNCHANGED <<runs, proc, orders, fills, resting, unheard>>
    BY <1>4, SessionDies DEF Tick, evalVars, tables, account
  <2>2. OnlyMoves(None) /\ None \notin Processes
    BY <2>1, EvaluationAssumption DEF OnlyMoves, Types
  <2>. QED BY <2>1, <2>2, TrailStands
<1>. QED BY <1>1, <1>2, <1>3, <1>4, NextSteps, TrailRecord, TrailPlace, TrailUpdate,
            TrailFinish, TrailUser, TrailLater

(* At first there is nothing to tell.                                       *)
LEMMA TrailInit == EvalInit => TrailInv
BY DEF EvalInit, TrailInv, KnownIds, Submits, Submitting, Idle

(* The audit trail tells the truth: an order row says filled only of what   *)
(* the venue filled and was heard to fill, and submitted only of what it    *)
(* kept open; what it filled or kept shows as such, or as pending in a run  *)
(* that shows as running, for as long as the bot exists; only a fill whose  *)
(* reply was lost may show as rejected.                                     *)
THEOREM TrailIsAlwaysTrue == EvalSpec => []TrailIsTrue
<1>1. TablesInv /\ TrailInv /\ [EvalNext]_evalVars => TrailInv'
  BY TrailStep
<1>. QED BY <1>1, TrailInit, TablesAlways, TrailMeans, PTL DEF EvalSpec

-----------------------------------------------------------------------------
(* The account stays in the black, and runs count no more than they plan.   *)

(* How far an evaluation has come with its plan.                            *)
Progress(s) ==
  /\ s.price \in Prices /\ s.plan \in Seq(PlannedOrder)
  /\ s.pc = "account" => s.held \in [Symbols -> Nat]
  /\ s.pc \in {"positions", "account", "fail", "finish failed"} => s.plan = <<>>
  /\ s.pc \in Deciding => s.i = 1 /\ s.submitted = 0 /\ s.failures = 0
  /\ s.pc = "create" => s.plan # <<>>
  /\ s.pc \in {"record", "place", "update"} => s.i <= Len(s.plan)
  /\ s.pc = "update" => s.result \in Taken \cup {"rejected"}
  /\ s.pc \in Submitting => s.i \in Nat \ {0} /\ s.submitted + s.failures = s.i - 1
  /\ s.pc = "finish" => s.i = Len(s.plan) + 1
  /\ s.pc \in {"finish skipped", "finish failed"} => s.submitted = 0 /\ s.failures = 0
Resting(s) == s.pc = "idle" => s = Idle
Proceeds(s) == IF DOMAIN s = {"pc", "queue"} THEN Resting(s) ELSE Progress(s)

(* An order the venue keeps open.                                           *)
OpenOrder == [symbol: Symbols, side: {"sell", "buy"}, quantity: Nat, day: Nat]

(* The account is in the black, the rest of the world what it may be.       *)
AccountTyped ==
  /\ cash \in Nat /\ position \in [Symbols -> Nat]
  /\ \A id \in DOMAIN resting : resting[id] \in OpenOrder
  /\ price \in Prices /\ clock \in 1..MaxTime /\ lock \in Schedulers \cup {None}
ProcessesProceed == \A p \in Processes : Proceeds(proc[p])
CountsUp(row) == row.planned \in Nat /\ row.submitted \in 0..row.planned
RunsCount ==
  /\ \A r \in DOMAIN runs : CountsUp(runs[r])
  /\ \A p \in Processes : InRun(proc[p]) => runs[proc[p].run].planned = Len(proc[p].plan)
RowStatuses == \A id \in DOMAIN orders : orders[id].status \in {"pending", "rejected"} \cup Taken

(* The inductive invariant of the amounts.                                  *)
AmountsInv == AccountTyped /\ ProcessesProceed /\ RunsCount /\ RowStatuses

-----------------------------------------------------------------------------
(* A part of an order is worth no more than the order.                      *)
LEMMA ValueGrows ==
  ASSUME NEW a \in Nat, NEW b \in Nat, a <= b, NEW p \in Nat
  PROVE  value_of(a, p) <= value_of(b, p)
<1> DEFINE m == 2 * (a * p) + SHARE
           n == 2 * (b * p) + SHARE
           e == 2 * SHARE
           q == n \div e
<1>1. a * p \in Nat /\ b * p \in Nat /\ a * p <= b * p
  BY Z3
<1>2. m \in Nat /\ n \in Nat /\ e \in Nat \ {0} /\ m <= n
  BY <1>1, ShareAssumption
<1>3. value_of(a, p) = m \div e /\ value_of(b, p) = q
  BY DEF value_of, money
<1> HIDE DEF m, n, e
<1>4. n = e * q + (n % e) /\ n % e \in 0..(e - 1)
  BY <1>2, Z3
<1>5. q \in Nat
  BY <1>2, DivBelow
<1> HIDE DEF q
<1>6. m < (q + 1) * e
  <2>1. e * q \in Nat /\ (q + 1) * e = e * q + e
    BY <1>2, <1>5, Z3
  <2>. QED BY <1>2, <1>4, <2>1
<1>. QED BY <1>2, <1>3, <1>5, <1>6, DivBound

(* What the venue accepts, in whole or in part, leaves the account in the   *)
(* black.                                                                   *)
LEMMA TradeStays ==
  ASSUME cash \in Nat, position \in [Symbols -> Nat],
         NEW o, o.symbol \in Symbols, o.side \in {"sell", "buy"}, o.quantity \in Nat,
         NEW part \in 0..o.quantity, NEW at_price \in Nat,
         accepts(o.side, o.quantity, at_price, cash, position[o.symbol]),
         Trade(o, part, at_price)
  PROVE  cash' \in Nat /\ position' \in [Symbols -> Nat]
<1> DEFINE h == held_as_read(position[o.symbol])
           v == value_of(part, at_price)
<1>1. h \in Nat
  <2>1. money(position[o.symbol], GRAIN) \in Nat
    BY MoneyBound, GrainAssumption
  <2> DEFINE k == money(position[o.symbol], GRAIN)
  <2> HIDE DEF k
  <2>2. k * GRAIN \in Nat
    BY <2>1, GrainAssumption, Z3 DEF k
  <2>. QED BY <2>2 DEF held_as_read, k
<1>2. part \in Nat /\ v \in Nat /\ v <= value_of(o.quantity, at_price)
  <2>1. part \in Nat /\ part <= o.quantity
    OBVIOUS
  <2>2. v \in Nat
    BY <2>1, ValueType
  <2>3. v <= value_of(o.quantity, at_price)
    BY <2>1, ValueGrows
  <2>. QED BY <2>1, <2>2, <2>3
<1>3. value_of(o.quantity, at_price) \in Nat
  BY ValueType
<1>4. /\ cash' = IF o.side = "buy" THEN cash - v ELSE cash + v
      /\ position' = [position EXCEPT ![o.symbol] =
                        IF o.side = "buy" THEN h + part ELSE h - part]
  BY DEF Trade, cash_after, qty_after
<1>5. IF o.side = "buy" THEN value_of(o.quantity, at_price) <= cash ELSE o.quantity <= h
  BY DEF accepts
<1> HIDE DEF h, v
<1>6. cash' \in Nat
  BY <1>2, <1>3, <1>4, <1>5
<1>7. (IF o.side = "buy" THEN h + part ELSE h - part) \in Nat
  BY <1>1, <1>2, <1>5
<1>. QED BY <1>4, <1>6, <1>7

(* A plan that is handed over is one of orders.                             *)
LEMMA CallIsTyped ==
  ASSUME TablesInv, AmountsInv, NEW p \in Processes, proc[p].pc = "account"
  PROVE  R(CallOf(p), 0, 0, 0)!IsCall(CallOf(p))
<1>1. Within(proc[p]) /\ Progress(proc[p])
  BY DEF TablesInv, Types, IsProcess, Between, Brief, AmountsInv, ProcessesProceed,
         Proceeds, Within
<1>2. Spec(p) \in Specs
  BY <1>1, HeadAndTail DEF Spec, TablesInv, Types, IsProcess, Within
<1>3. Spec(p).settings \in BotSettings /\ Spec(p).targets \in Baskets \cup {<<>>}
  BY <1>2 DEF Specs
<1>4. /\ DOMAIN Spec(p).targets \subseteq Symbols
      /\ Spec(p).targets \in [DOMAIN Spec(p).targets -> Int]
  <2>1. CASE Spec(p).targets \in Baskets
    BY <2>1, AmountsAssumption
  <2>2. CASE Spec(p).targets = <<>>
    <3>1. DOMAIN <<>> = {}
      OBVIOUS
    <3>. QED BY <2>2, <3>1
  <2>. QED BY <1>3, <2>1, <2>2
<1>5. Spec(p).settings \in R(CallOf(p), 0, 0, 0)!Settings
  <2>1. R(CallOf(p), 0, 0, 0)!Settings = R(<<>>, 0, 0, 0)!Settings
    BY DEF R!Settings, R!BPS
  <2>. QED BY <1>3, <2>1, AmountsAssumption
<1>6. proc[p].price \in [Symbols -> Nat] /\ proc[p].held \in [Symbols -> Nat] /\ cash \in Nat
  BY <1>1, AmountsAssumption DEF Progress, AmountsInv, AccountTyped
<1>7. /\ CallOf(p).cash = cash /\ CallOf(p).held = proc[p].held
      /\ CallOf(p).price = proc[p].price /\ CallOf(p).targets = Spec(p).targets
      /\ CallOf(p).settings = Spec(p).settings
  BY DEF CallOf
<1>. QED BY <1>4, <1>5, <1>6, <1>7 DEF R!IsCall

(* What an evaluation plans, its account can carry out.                     *)
LEMMA PlanOfCall ==
  ASSUME TablesInv, AmountsInv, NEW p \in Processes, proc[p].pc = "account",
         plannable(CallOf(p))
  PROVE  Plannable(CallOf(p)) /\ Executable(CallOf(p), ordered(CallOf(p)))
<1>1. Plannable(CallOf(p))
  BY CallIsTyped DEF Plannable, plannable
<1>. QED BY <1>1, PlanIsExecutable

-----------------------------------------------------------------------------
(* How each step moves the process that takes it, once more.                *)

(* Between two evaluations. *)
LEMMA BriefProceeds ==
  ASSUME Types, NEW p \in Processes, Proceeds(proc[p]),
         \/ TryLock(p) \/ ListRows(p) \/ ListTargets(p) \/ Finished(p) \/ Unlock(p)
         \/ \E b \in Bots : GetBot(p, b)
  PROVE  Proceeds(proc'[p])
<1>. USE DEF Becomes, Goto, At
<1>1. IsProcess(proc[p]) /\ DOMAIN proc = Processes
  BY DEF Types
<1>2. Between(proc'[p])
  BY BriefStep
<1>3. proc'[p].pc = "idle" => proc'[p] = Idle
  <2>1. CASE TryLock(p)
    BY <1>1, <2>1 DEF TryLock
  <2>2. CASE ListRows(p)
    BY <1>1, <2>2 DEF ListRows
  <2>3. CASE ListTargets(p)
    BY <1>1, <2>3 DEF ListTargets
  <2>4. CASE Finished(p)
    <3>1. proc[p].pc = "next" /\ Between(proc[p])
      BY <1>1, <2>4 DEF Finished, IsProcess, Within, Deciding, Submitting, Closing
    <3>2. CASE p \in Schedulers
      BY <1>1, <2>4, <3>1, <3>2 DEF Finished, Between
    <3>3. CASE p \notin Schedulers
      <4>1. proc'[p] = Idle
        BY <1>1, <2>4, <3>3 DEF Finished
      <4>. QED BY <4>1 DEF Idle
    <3>. QED BY <3>2, <3>3
  <2>5. CASE Unlock(p)
    BY <1>1, <2>5 DEF Unlock, Idle
  <2>6. CASE \E b \in Bots : GetBot(p, b)
    BY <1>1, <2>6 DEF GetBot
  <2>. QED BY <2>1, <2>2, <2>3, <2>4, <2>5, <2>6
<1>. QED BY <1>2, <1>3 DEF Proceeds, Resting, Between

(* A process that leaves its evaluation.                                    *)
LEMMA LeftProceeds ==
  ASSUME NEW s, Between(s), s.pc = "idle" => s = Idle
  PROVE  Proceeds(s)
BY DEF Proceeds, Resting, Between

(* An evaluation that goes on. *)
LEMMA WithinProceeds ==
  ASSUME NEW s, Within(s), Progress(s)
  PROVE  Proceeds(s)
<1>1. "now" \in DOMAIN s
  BY DEF Within
<1>. QED BY <1>1 DEF Proceeds

(* A process that leaves a bot has no run.                                  *)
LEMMA LeaverProceeds ==
  ASSUME NEW s, NEW q, s = [pc |-> "next", queue |-> q]
  PROVE  Proceeds(s) /\ ~InRun(s)
<1>1. s.pc = "next" /\ DOMAIN s = {"pc", "queue"}
  OBVIOUS
<1>. QED BY <1>1 DEF Proceeds, Resting, InRun, Submitting, Closing

(* The length and the elements of a sequence.                               *)
LEMMA Lengths ==
  ASSUME NEW T, NEW q \in Seq(T)
  PROVE  Len(q) \in Nat /\ (q # <<>> => 1 <= Len(q)) /\ \A i \in 1..Len(q) : q[i] \in T
OBVIOUS

(* The next number.                                                         *)
LEMMA OneMore ==
  ASSUME NEW n \in Nat
  PROVE  1..(n + 1) = (1..n) \cup {n + 1} /\ n + 1 \notin 1..n /\ 0 \in 0..n
OBVIOUS

(* A process within an evaluation has come as far as its step says.         *)
LEMMA InProgress ==
  ASSUME AmountsInv, NEW p \in Processes, Within(proc[p])
  PROVE  Progress(proc[p])
<1>1. "now" \in DOMAIN proc[p]
  BY DEF Within
<1>. QED BY <1>1 DEF AmountsInv, ProcessesProceed, Proceeds

(* A crash or an exception leaves nothing half done in the process.         *)
LEMMA FaultProceeds ==
  ASSUME Types, NEW p \in Processes, Crash(p) \/ Raise(p)
  PROVE  Proceeds(proc'[p])
<1>. USE DEF At, Becomes
<1>1. IsProcess(proc[p]) /\ DOMAIN proc = Processes
  BY DEF Types
<1>2. Between(proc'[p])
  BY FaultStep
<1>3. proc'[p].pc = "idle" => proc'[p] = Idle
  <2>1. CASE Crash(p)
    BY <1>1, <2>1 DEF Crash, Idle
  <2>2. CASE Raise(p) /\ proc[p].pc \in {"rows", "targets"}
    BY <1>1, <2>2 DEF Raise, Idle
  <2>3. CASE Raise(p) /\ proc[p].pc \notin {"rows", "targets"}
    BY <1>1, <2>3 DEF Raise, Abandon
  <2>. QED BY <2>1, <2>2, <2>3
<1>. QED BY <1>2, <1>3, LeftProceeds

(* Up to the decision.                                                      *)
LEMMA BeginProceeds ==
  ASSUME Types, NEW p \in Processes, Begin(p), price \in Prices
  PROVE  Proceeds(proc'[p])
<1>. DEFINE s == [pc |-> IF Spec(p).targets = <<>> THEN "skip" ELSE "positions",
                 queue |-> proc[p].queue, now |-> clock, price |-> price,
                 held |-> <<>>, plan |-> <<>>, run |-> 0, i |-> 1,
                 result |-> None, submitted |-> 0, failures |-> 0]
<1>1. proc'[p] = s
  BY DEF Types, Begin, Becomes
<1>2. /\ s.pc \in {"skip", "positions"} /\ s.plan = <<>> /\ s.price \in Prices
      /\ s.i = 1 /\ s.submitted = 0 /\ s.failures = 0 /\ DOMAIN s # {"pc", "queue"}
  <2>1. "now" \in DOMAIN s
    OBVIOUS
  <2>. QED BY <2>1
<1>. HIDE DEF s
<1>3. s.plan \in Seq(PlannedOrder)
  BY <1>2
<1>. QED BY <1>1, <1>2, <1>3 DEF Proceeds, Progress, Deciding, Submitting

(* Reading the account and deciding keep the evaluation in order.           *)
LEMMA DecidingProceeds ==
  ASSUME TablesInv, AmountsInv, NEW p \in Processes,
         ReadPositions(p) \/ Decide(p) \/ BrokerUnavailable(p)
  PROVE  Proceeds(proc'[p])
<1>. USE DEF Goto, At
<1>1. /\ StaysWithin(p) /\ proc'[p].pc \in Deciding /\ DOMAIN proc = Processes
      /\ position \in [Symbols -> Nat]
  BY DecidingStep DEF TablesInv, Types, AmountsInv, AccountTyped
<1>2. Within(proc[p]) /\ Within(proc'[p]) /\ Progress(proc[p])
  BY <1>1 DEF StaysWithin, AmountsInv, ProcessesProceed, Proceeds, Within
<1>3. Progress(proc'[p])
  <2>1. CASE ReadPositions(p)
    <3>1. proc'[p] = [proc[p] EXCEPT !.pc = "account", !.held = position]
      BY <1>1, <2>1 DEF ReadPositions
    <3>2. proc[p].pc = "positions"
      BY <2>1 DEF ReadPositions
    <3>. QED BY <1>1, <1>2, <3>1, <3>2 DEF Progress, Within, Deciding, Submitting
  <2>2. CASE BrokerUnavailable(p)
    <3>1. proc'[p] = [proc[p] EXCEPT !.pc = "fail"]
      BY <1>1, <2>2 DEF BrokerUnavailable
    <3>2. proc[p].pc \in {"positions", "account"}
      BY <2>2 DEF BrokerUnavailable
    <3>. QED BY <1>1, <1>2, <3>1, <3>2 DEF Progress, Within, Deciding, Submitting
  <2>3. CASE Decide(p) /\ ~plannable(CallOf(p))
    <3>1. proc'[p] = [proc[p] EXCEPT !.pc = "fail"]
      BY <1>1, <2>3 DEF Decide
    <3>2. proc[p].pc = "account"
      BY <2>3 DEF Decide
    <3>. QED BY <1>1, <1>2, <3>1, <3>2 DEF Progress, Within, Deciding, Submitting
  <2>4. CASE Decide(p) /\ plannable(CallOf(p))
    <3>. DEFINE plan == ordered(CallOf(p))
    <3>1. PICK pc \in {"create", "skip"} :
            /\ proc' = [proc EXCEPT ![p].pc = pc, ![p].plan = plan]
            /\ pc = "create" => plan # <<>>
      BY <2>4 DEF Decide
    <3>2. proc[p].pc = "account"
      BY <2>4 DEF Decide
    <3>3. plan \in Seq(PlannedOrder)
      BY <2>4, <3>2, PlanOfCall DEF Executable
    <3>. HIDE DEF plan
    <3>4. proc'[p] = [proc[p] EXCEPT !.pc = pc, !.plan = plan]
      BY <1>1, <3>1
    <3>. QED BY <1>1, <1>2, <3>1, <3>2, <3>3, <3>4
             DEF Progress, Within, Deciding, Submitting
  <2>. QED BY <2>1, <2>2, <2>3, <2>4
<1>. QED BY <1>2, <1>3, WithinProceeds

-----------------------------------------------------------------------------
(* create_run, the submit loop, and the end of the run.                     *)

(* The processes proceed when the one that moves does. *)
LEMMA AllProceed ==
  ASSUME ProcessesProceed, NEW p \in Processes, OnlyMoves(p), Proceeds(proc'[p])
  PROVE  ProcessesProceed'
BY DEF ProcessesProceed, OnlyMoves

(* A run that a process has, it has with its plan.                          *)
KeepsPlan(p) ==
  InRun(proc'[p]) => /\ InRun(proc[p]) /\ proc'[p].run = proc[p].run
                     /\ proc'[p].plan = proc[p].plan

(* The counts of the runs stand while their rows change in nothing else.    *)
LEMMA CountsStand ==
  ASSUME TablesInv, RunsCount, NEW p \in Processes, OnlyMoves(p), KeepsPlan(p),
         DOMAIN runs' = DOMAIN runs,
         \A r \in DOMAIN runs :
           runs'[r].planned = runs[r].planned /\ CountsUp(runs'[r])
  PROVE  RunsCount'
<1>1. ASSUME NEW q \in Processes, InRun(proc'[q])
      PROVE  runs'[proc'[q].run].planned = Len(proc'[q].plan)
  <2>1. InRun(proc[q]) /\ proc'[q].run = proc[q].run /\ proc'[q].plan = proc[q].plan
    BY <1>1 DEF KeepsPlan, OnlyMoves
  <2>2. proc[q].run \in DOMAIN runs /\ runs[proc[q].run].planned = Len(proc[q].plan)
    BY <2>1 DEF TablesInv, Ownership, Owns, RunsCount
  <2>. QED BY <2>1, <2>2
<1>. QED BY <1>1 DEF RunsCount

(* What changes in no row and no balance.                                   *)
LEMMA AmountsStand ==
  ASSUME TablesInv, AmountsInv, NEW p \in Processes, OnlyMoves(p), KeepsPlan(p),
         Proceeds(proc'[p]), UNCHANGED <<runs, orders, account, world>>,
         lock' \in Schedulers \cup {None}
  PROVE  AmountsInv'
<1>1. ProcessesProceed'
  BY AllProceed DEF AmountsInv
<1>2. RunsCount'
  BY CountsStand DEF AmountsInv, RunsCount
<1>3. AccountTyped' /\ RowStatuses'
  BY DEF AmountsInv, AccountTyped, RowStatuses, account, world
<1>. QED BY <1>1, <1>2, <1>3 DEF AmountsInv

(* The steps that write to no table.                                        *)
LEMMA QuietAmounts ==
  ASSUME TablesInv, AmountsInv, NEW p \in Processes, QuietStep(p)
  PROVE  AmountsInv'
<1>1. /\ OnlyMoves(p) /\ KeepsPlan(p)
      /\ UNCHANGED <<tables, account, world>>
  BY QuietMoves DEF TablesInv, MovesOn, KeepsPlan
<1>2. Proceeds(proc'[p])
  BY BriefProceeds, BeginProceeds, DecidingProceeds, FaultProceeds
     DEF QuietStep, TablesInv, AmountsInv, ProcessesProceed, AccountTyped
<1>3. lock \in Schedulers \cup {None}
  BY DEF AmountsInv, AccountTyped
<1>4. lock' \in Schedulers \cup {None}
  <2>1. CASE TryLock(p)
    BY <2>1 DEF TryLock
  <2>2. CASE Unlock(p)
    BY <1>3, <2>2 DEF Unlock
  <2>3. CASE Crash(p)
    BY <1>3, <2>3 DEF Crash
  <2>4. CASE \/ ListRows(p) \/ ListTargets(p) \/ Finished(p)
             \/ \E b \in Bots : GetBot(p, b)
    BY <1>3, <2>4 DEF ListRows, ListTargets, Finished, GetBot
  <2>5. CASE \/ Begin(p) \/ ReadPositions(p) \/ Decide(p) \/ BrokerUnavailable(p)
             \/ Raise(p)
    BY <1>3, <2>5 DEF Begin, ReadPositions, Decide, BrokerUnavailable, Raise
  <2>. QED BY <2>1, <2>2, <2>3, <2>4, <2>5 DEF QuietStep
<1>. QED BY <1>1, <1>2, <1>4, AmountsStand DEF tables

(* A run starts with the plan that was handed over.                         *)
LEMMA CreateAmounts ==
  ASSUME TablesInv, AmountsInv, NEW p \in Processes, Skip(p) \/ Fail(p) \/ StartRun(p)
  PROVE  AmountsInv'
<1>0. /\ UNCHANGED <<orders, account, world, lock>> /\ Types
      /\ lock \in Schedulers \cup {None}
  BY DEF Skip, Fail, StartRun, CreateRun, TablesInv, AmountsInv, AccountTyped
<1>1. PICK from \in {"skip", "fail", "create"},
           status \in {"skipped", "failed", "running"},
           to \in {"finish skipped", "finish failed", "record"} :
         /\ CreateRun(p, from, status, to)
         /\ from = "create" <=> to = "record"
         /\ from = "fail" <=> to = "finish failed"
  BY DEF Skip, Fail, StartRun
<1>2. proc[p].pc = from /\ from \in Deciding /\ to \in Submitting \cup Closing
  BY <1>1 DEF CreateRun, At, Deciding, Submitting, Closing
<1>3. CASE ~Exists(Spec(p).bot)
  <2>1. /\ OnlyMoves(p) /\ Between(proc'[p]) /\ UNCHANGED runs
        /\ proc'[p] = [pc |-> "next", queue |-> Tail(proc[p].queue)]
    BY <1>0, <1>1, <1>2, <1>3, CreateFails
  <2>2. Proceeds(proc'[p]) /\ ~InRun(proc'[p])
    BY <2>1, LeaverProceeds
  <2>. QED BY <1>0, <2>1, <2>2, AmountsStand DEF KeepsPlan
<1>4. CASE Exists(Spec(p).bot)
  <2>. DEFINE n == Len(runs) + 1
  <2>1. /\ OnlyMoves(p) /\ Within(proc[p])
        /\ proc'[p].pc = to /\ proc'[p].run = n
        /\ DOMAIN runs' = 1..n /\ \A r \in DOMAIN runs : runs'[r] = runs[r]
        /\ runs'[n] = RunRow(p, status)
    BY <1>0, <1>1, <1>2, <1>4, CreateStep
  <2>2. DOMAIN runs = 1..Len(runs) /\ Len(runs) \in Nat /\ DOMAIN proc = Processes
        /\ Within(proc'[p])
    BY <1>0, <1>1, <1>2, <1>4, <2>1, CreateStep
       DEF Types, IsProcess, Between, Brief, Submitting, Closing
  <2>3. proc'[p] = [proc[p] EXCEPT !.pc = to, !.run = n]
    BY <1>1, <1>4, <2>2 DEF CreateRun
  <2>. HIDE DEF n
  <2>4. proc'[p].plan = proc[p].plan
    BY <2>1, <2>3 DEF Within
  <2>5. Progress(proc[p])
    BY <2>1, InProgress
  <2>6. Progress(proc'[p])
    <3>1. /\ proc[p].i = 1 /\ proc[p].submitted = 0 /\ proc[p].failures = 0
          /\ proc[p].plan \in Seq(PlannedOrder)
          /\ proc[p].pc = "create" => proc[p].plan # <<>>
          /\ proc[p].pc = "fail" => proc[p].plan = <<>>
      BY <1>2, <2>5 DEF Progress, Deciding
    <3>2. /\ proc'[p].i = 1 /\ proc'[p].submitted = 0 /\ proc'[p].failures = 0
          /\ proc'[p].price = proc[p].price
      BY <2>1, <2>3, <3>1 DEF Within
    <3>3. proc[p].plan # <<>> => 1 <= Len(proc[p].plan)
      BY <3>1, Lengths
    <3>4. /\ proc'[p].price \in Prices /\ proc'[p].plan \in Seq(PlannedOrder)
          /\ to = "record" => 1 <= Len(proc'[p].plan)
          /\ to = "finish failed" => proc'[p].plan = <<>>
      BY <1>1, <1>2, <2>4, <2>5, <3>1, <3>2, <3>3 DEF Progress
    <3>5. CASE to = "record"
      BY <2>1, <3>2, <3>4, <3>5 DEF Progress, Deciding, Submitting
    <3>6. CASE to \in {"finish skipped", "finish failed"}
      BY <2>1, <3>2, <3>4, <3>6 DEF Progress, Deciding, Submitting
    <3>. QED BY <1>1, <3>5, <3>6
  <2>7. ProcessesProceed'
    BY <2>1, <2>2, <2>6, WithinProceeds, AllProceed DEF AmountsInv
  <2>8. runs'[n].planned = Len(proc[p].plan) /\ CountsUp(runs'[n])
    <3>1. proc[p].plan \in Seq(PlannedOrder)
      BY <2>5 DEF Progress
    <3>2. RunRow(p, status).planned = Len(proc[p].plan) /\ RunRow(p, status).submitted = 0
      BY DEF RunRow
    <3>3. Len(proc[p].plan) \in Nat
      BY <3>1, Lengths
    <3>4. 0 \in 0..Len(proc[p].plan)
      BY <3>3, OneMore
    <3>. QED BY <2>1, <3>2, <3>3, <3>4, Zenon DEF CountsUp
  <2>9. RunsCount'
    <3>1. \A r \in DOMAIN runs' : CountsUp(runs'[r])
      <4>1. DOMAIN runs' = DOMAIN runs \cup {n}
        BY <2>1, <2>2, OneMore DEF n
      <4>2. \A r \in DOMAIN runs : CountsUp(runs[r])
        BY DEF AmountsInv, RunsCount
      <4>. QED BY <2>1, <2>8, <4>1, <4>2
    <3>2. ASSUME NEW q \in Processes, InRun(proc'[q])
          PROVE  runs'[proc'[q].run].planned = Len(proc'[q].plan)
      <4>1. CASE q = p
        BY <2>1, <2>4, <2>8, <4>1
      <4>2. CASE q # p
        <5>1. proc'[q] = proc[q] /\ proc[q].run \in DOMAIN runs
          BY <2>1, <3>2, <4>2 DEF OnlyMoves, TablesInv, Ownership, Owns
        <5>. QED BY <2>1, <3>2, <5>1 DEF AmountsInv, RunsCount
      <4>. QED BY <4>1, <4>2
    <3>. QED BY <3>1, <3>2 DEF RunsCount
  <2>10. AccountTyped' /\ RowStatuses'
    BY <1>0 DEF AmountsInv, AccountTyped, RowStatuses, account, world
  <2>. QED BY <2>7, <2>9, <2>10 DEF AmountsInv
<1>. QED BY <1>3, <1>4

(* A recorded order is pending. *)
LEMMA RecordAmounts ==
  ASSUME TablesInv, AmountsInv, NEW p \in Processes, RecordOrder(p)
  PROVE  AmountsInv'
<1>0. /\ UNCHANGED <<runs, account, world, lock>> /\ Types
      /\ lock \in Schedulers \cup {None} /\ proc[p].pc = "record"
  BY DEF RecordOrder, At, TablesInv, AmountsInv, AccountTyped
<1>1. /\ IsProcess(proc[p]) /\ Within(proc[p]) /\ InRun(proc[p])
      /\ DOMAIN proc = Processes
  BY <1>0 DEF Types, IsProcess, Between, Brief, InRun, Submitting
<1>2. CASE ~Exists(Spec(p).bot)
  <2>1. Abandon(p) /\ orders' = orders
    BY <1>2 DEF RecordOrder
  <2>2. OnlyMoves(p) /\ proc'[p] = [pc |-> "next", queue |-> Tail(proc[p].queue)]
    BY <1>0, <1>1, <2>1, Abandoned
  <2>3. Proceeds(proc'[p]) /\ ~InRun(proc'[p])
    BY <2>2, LeaverProceeds
  <2>. QED BY <1>0, <2>1, <2>2, <2>3, AmountsStand DEF KeepsPlan
<1>3. CASE Exists(Spec(p).bot)
  <2>1. /\ OnlyMoves(p) /\ proc'[p] = [proc[p] EXCEPT !.pc = "place"]
    BY <1>0, <1>3, Went DEF RecordOrder
  <2>2. Progress(proc[p])
    BY <1>1, InProgress
  <2>3. /\ Within(proc'[p]) /\ proc'[p].pc = "place" /\ proc'[p].run = proc[p].run
        /\ proc'[p].plan = proc[p].plan
    BY <1>0, <1>1, <2>1 DEF Within, Submitting, Deciding, Closing
  <2>4. Progress(proc'[p])
    BY <1>0, <1>1, <2>1, <2>2 DEF Progress, Within, Deciding, Submitting
  <2>5. Proceeds(proc'[p]) /\ KeepsPlan(p)
    BY <1>1, <2>3, <2>4, WithinProceeds DEF KeepsPlan
  <2>6. ProcessesProceed'
    BY <2>1, <2>5, AllProceed DEF AmountsInv
  <2>7. RunsCount'
    BY <1>0, <2>1, <2>5, CountsStand DEF AmountsInv, RunsCount
  <2>8. RowStatuses'
    <3>1. PICK row : /\ orders' = Inserted(orders, client_order_id(p), row)
                     /\ row.status = "pending"
      <4>. DEFINE row == [symbol |-> Planned(p).symbol, side |-> Planned(p).side,
                          quantity |-> Planned(p).quantity, status |-> "pending"]
      <4>1. orders' = Inserted(orders, client_order_id(p), row)
        BY <1>3 DEF RecordOrder
      <4>2. row.status = "pending"
        OBVIOUS
      <4>. QED BY <4>1, <4>2
    <3>2. \A id \in DOMAIN orders' :
            orders'[id] = row \/ (id \in DOMAIN orders /\ orders'[id] = orders[id])
      <4>1. PICK c : c = client_order_id(p)
        OBVIOUS
      <4>2. orders' = Inserted(orders, c, row)
        BY <3>1, <4>1
      <4>3. DOMAIN orders' = DOMAIN orders \cup {c}
        BY <4>2, InsertedRow
      <4>4. c \notin DOMAIN orders => orders'[c] = row
        BY <4>2, InsertedRow
      <4>5. \A k \in DOMAIN orders : Inserted(orders, c, row)[k] = orders[k]
        BY DEF Inserted
      <4>6. \A k \in DOMAIN orders : orders'[k] = orders[k]
        BY <4>2, <4>5
      <4>. QED BY <4>3, <4>4, <4>6
    <3>. QED BY <3>1, <3>2 DEF AmountsInv, RowStatuses
  <2>9. AccountTyped'
    BY <1>0 DEF AmountsInv, AccountTyped, account, world
  <2>. QED BY <2>6, <2>7, <2>8, <2>9 DEF AmountsInv
<1>. QED BY <1>2, <1>3

(* update_order_result writes one row, if it is still there.                *)
LEMMA UpdatedRow ==
  ASSUME NEW p \in Processes, orders' = Updated(p)
  PROVE  /\ DOMAIN orders' = DOMAIN orders
         /\ \A id \in DOMAIN orders : id # client_order_id(p) => orders'[id] = orders[id]
         /\ client_order_id(p) \in DOMAIN orders =>
              orders'[client_order_id(p)].status = proc[p].result
<1>1. PICK c : c = client_order_id(p)
  OBVIOUS
<1>2. CASE c \in DOMAIN orders
  <2>1. orders' = [orders EXCEPT ![c].status = proc[p].result]
    BY <1>1, <1>2 DEF Updated
  <2>2. orders'[c] = [orders[c] EXCEPT !.status = proc[p].result]
    BY <1>2, <2>1
  <2>. QED BY <1>1, <2>1, <2>2
<1>3. CASE c \notin DOMAIN orders
  BY <1>1, <1>3 DEF Updated
<1>. QED BY <1>2, <1>3

(* One more order answered, and one more counted.                           *)
LEMMA OneCounted ==
  ASSUME NEW a \in Nat, NEW b \in Nat, NEW i \in Nat \ {0}, a + b = i - 1
  PROVE  i + 1 \in Nat \ {0} /\ (a + 1) + b = (i + 1) - 1 /\ a + (b + 1) = (i + 1) - 1
OBVIOUS

(* What was submitted is part of what was planned.                          *)
LEMMA PartOfCount ==
  ASSUME NEW a \in Nat, NEW b \in Nat, NEW n \in Nat, NEW i, i = n + 1, a + b = i - 1
  PROVE  a \in 0..n
OBVIOUS

(* The venue's answer is written to the row, and counted.                   *)
LEMMA UpdateAmounts ==
  ASSUME TablesInv, AmountsInv, NEW p \in Processes, UpdateOrder(p)
  PROVE  AmountsInv'
<1>0. /\ UNCHANGED <<runs, account, world, lock>> /\ Types
      /\ proc[p].pc = "update" /\ NextOrder(p) /\ orders' = Updated(p)
  BY DEF UpdateOrder, At, TablesInv
<1>1. StaysWithin(p) /\ DOMAIN proc = Processes
  BY <1>0, NextOrderStep DEF Types
<1>2. /\ Within(proc[p]) /\ Within(proc'[p]) /\ Progress(proc[p]) /\ OnlyMoves(p)
      /\ InRun(proc'[p]) <=> InRun(proc[p])
  BY <1>1, InProgress DEF StaysWithin
<1>3. /\ proc[p].i \in Nat \ {0} /\ proc[p].submitted \in Nat /\ proc[p].failures \in Nat
      /\ proc[p].submitted + proc[p].failures = proc[p].i - 1
      /\ proc[p].i <= Len(proc[p].plan) /\ proc[p].plan \in Seq(PlannedOrder)
      /\ proc[p].price \in Prices /\ proc[p].result \in Taken \cup {"rejected"}
  BY <1>0, <1>2 DEF Progress, Within, Submitting
<1>4. /\ proc'[p].pc = IF proc[p].i < Len(proc[p].plan) THEN "record" ELSE "finish"
      /\ proc'[p].i = proc[p].i + 1
      /\ \/ /\ proc'[p].submitted = proc[p].submitted + 1
            /\ proc'[p].failures = proc[p].failures
         \/ /\ proc'[p].submitted = proc[p].submitted
            /\ proc'[p].failures = proc[p].failures + 1
      /\ proc'[p].plan = proc[p].plan /\ proc'[p].price = proc[p].price
      /\ proc'[p].run = proc[p].run
  BY <1>0, <1>1, <1>2 DEF NextOrder, Within
<1>5. Progress(proc'[p])
  <2>1. Len(proc[p].plan) \in Nat
    BY <1>3, Lengths
  <2>2. /\ proc'[p].i \in Nat \ {0}
        /\ proc'[p].submitted + proc'[p].failures = proc'[p].i - 1
    <3>. DEFINE a == proc[p].submitted
                b == proc[p].failures
                n == proc[p].i
    <3>1. a \in Nat /\ b \in Nat /\ n \in Nat \ {0} /\ a + b = n - 1
      BY <1>3
    <3>2. /\ proc'[p].i = n + 1
          /\ \/ proc'[p].submitted = a + 1 /\ proc'[p].failures = b
             \/ proc'[p].submitted = a /\ proc'[p].failures = b + 1
      BY <1>4
    <3>. HIDE DEF a, b, n
    <3>3. n + 1 \in Nat \ {0} /\ (a + 1) + b = (n + 1) - 1 /\ a + (b + 1) = (n + 1) - 1
      BY <3>1, OneCounted
    <3>. QED BY <3>2, <3>3
  <2>3. CASE proc[p].i < Len(proc[p].plan)
    <3>1. proc'[p].pc = "record" /\ proc'[p].i <= Len(proc'[p].plan)
      BY <1>3, <1>4, <2>1, <2>3
    <3>. QED BY <1>3, <1>4, <2>2, <3>1 DEF Progress, Deciding, Submitting
  <2>4. CASE ~(proc[p].i < Len(proc[p].plan))
    <3>1. proc'[p].pc = "finish" /\ proc'[p].i = Len(proc'[p].plan) + 1
      BY <1>3, <1>4, <2>1, <2>4
    <3>. QED BY <1>3, <1>4, <2>2, <3>1 DEF Progress, Deciding, Submitting
  <2>. QED BY <2>3, <2>4
<1>6. ProcessesProceed'
  BY <1>2, <1>5, WithinProceeds, AllProceed DEF AmountsInv
<1>7. RunsCount'
  BY <1>0, <1>2, <1>4, CountsStand DEF AmountsInv, RunsCount, KeepsPlan
<1>8. RowStatuses'
  BY <1>0, <1>3, UpdatedRow DEF AmountsInv, RowStatuses
<1>9. AccountTyped'
  BY <1>0 DEF AmountsInv, AccountTyped, account, world
<1>. QED BY <1>6, <1>7, <1>8, <1>9 DEF AmountsInv

(* The counts of a run are no more than its plan.                           *)
LEMMA FinishAmounts ==
  ASSUME TablesInv, AmountsInv, NEW p \in Processes, FinishRun(p)
  PROVE  AmountsInv'
<1>0. /\ UNCHANGED <<orders, account, world, lock>> /\ Types
      /\ proc[p].pc \in {"finish", "finish skipped", "finish failed"}
      /\ lock \in Schedulers \cup {None}
  BY DEF FinishRun, At, TablesInv, AmountsInv, AccountTyped
<1>1. StaysWithin(p) /\ InRun(proc[p]) /\ proc'[p].pc \in {"touch", "touch skipped"}
  BY <1>0, FinishStep
<1>2. /\ Within(proc[p]) /\ Within(proc'[p]) /\ Progress(proc[p]) /\ OnlyMoves(p)
      /\ proc[p].run \in DOMAIN runs
  BY <1>1, InProgress DEF StaysWithin, TablesInv, Ownership, Owns
<1>3. PICK there \in {"touch", "touch skipped"} :
        proc'[p] = [proc[p] EXCEPT !.pc = there]
  BY <1>0, Went DEF FinishRun
<1>4. proc'[p].plan = proc[p].plan /\ proc'[p].price = proc[p].price
      /\ proc'[p].run = proc[p].run
  BY <1>2, <1>3 DEF Within
<1>5. Progress(proc'[p])
  BY <1>1, <1>2, <1>4 DEF Progress, Deciding, Submitting
<1>6. Proceeds(proc'[p]) /\ KeepsPlan(p)
  BY <1>1, <1>2, <1>4, <1>5, WithinProceeds DEF KeepsPlan
<1>7. /\ SameRuns
      /\ \A r \in DOMAIN runs :
           /\ r # proc[p].run => runs'[r] = runs[r]
           /\ runs[r].status # Gone /\ r = proc[p].run =>
                   runs'[r] = [runs[r] EXCEPT
                     !.status = IF At(p, "finish") THEN final_status(p) ELSE @,
                     !.submitted = proc[p].submitted,
                     !.errors = proc[p].failures > 0 \/ At(p, "finish failed")]
  BY <1>0, <1>2, FinishRows
<1>8. ASSUME NEW r \in DOMAIN runs
      PROVE  runs'[r].planned = runs[r].planned /\ CountsUp(runs'[r])
  <2>0. CountsUp(runs[r]) /\ IsRun(runs[r])
    BY <1>0 DEF AmountsInv, RunsCount, Types
  <2>1. CASE r # proc[p].run
    BY <1>7, <2>0, <2>1
  <2>2. CASE runs[r].status = Gone /\ r = proc[p].run
    <3>1. runs' = runs
      BY <2>2 DEF FinishRun
    <3>. QED BY <2>0, <3>1
  <2>3. CASE runs[r].status # Gone /\ r = proc[p].run
    <3>1. runs'[r].planned = runs[r].planned /\ runs'[r].submitted = proc[p].submitted
      <4>1. runs'[r] = [runs[r] EXCEPT
              !.status = IF At(p, "finish") THEN final_status(p) ELSE @,
              !.submitted = proc[p].submitted,
              !.errors = proc[p].failures > 0 \/ At(p, "finish failed")]
        BY <1>7, <2>3
      <4>2. {"planned", "submitted"} \subseteq DOMAIN runs[r]
        BY <2>0 DEF IsRun
      <4>. QED BY <4>1, <4>2
    <3>2. runs[r].planned = Len(proc[p].plan) /\ proc[p].plan \in Seq(PlannedOrder)
      BY <1>1, <1>2, <2>3 DEF AmountsInv, RunsCount, Progress
    <3>3. Len(proc[p].plan) \in Nat
      BY <3>2, Lengths
    <3>4. proc[p].submitted \in 0..Len(proc[p].plan)
      <4>1. proc[p].submitted \in Nat /\ proc[p].failures \in Nat
        BY <1>2 DEF Within
      <4>2. CASE proc[p].pc = "finish"
        <5>1. /\ proc[p].submitted + proc[p].failures = proc[p].i - 1
              /\ proc[p].i = Len(proc[p].plan) + 1
          BY <1>2, <4>2 DEF Progress, Submitting
        <5>. QED BY <3>3, <4>1, <5>1, PartOfCount
      <4>3. CASE proc[p].pc # "finish"
        <5>1. proc[p].submitted = 0
          BY <1>0, <1>2, <4>3 DEF Progress
        <5>. QED BY <3>3, <5>1, OneMore
      <4>. QED BY <4>2, <4>3
    <3>. QED BY <3>1, <3>2, <3>3, <3>4 DEF CountsUp
  <2>. QED BY <2>1, <2>2, <2>3
<1>9. RunsCount'
  BY <1>2, <1>6, <1>7, <1>8, CountsStand DEF AmountsInv, SameRuns
<1>10. ProcessesProceed'
  BY <1>2, <1>6, AllProceed DEF AmountsInv
<1>11. AccountTyped' /\ RowStatuses'
  BY <1>0 DEF AmountsInv, AccountTyped, RowStatuses, account, world
<1>. QED BY <1>9, <1>10, <1>11 DEF AmountsInv

(* Scheduling the next run moves no money and no count.                     *)
LEMMA TouchAmounts ==
  ASSUME TablesInv, AmountsInv, NEW p \in Processes, TouchBot(p)
  PROVE  AmountsInv'
<1>0. UNCHANGED <<orders, account, world, lock>> /\ Types
  BY DEF TouchBot, TablesInv
<1>1. /\ OnlyMoves(p) /\ InRun(proc[p])
      /\ proc'[p] = [pc |-> "next", queue |-> Tail(proc[p].queue)]
  BY <1>0, TouchStep
<1>2. Proceeds(proc'[p]) /\ ~InRun(proc'[p])
  BY <1>1, LeaverProceeds
<1>3. proc[p].run \in DOMAIN runs
  BY <1>1 DEF TablesInv, Ownership, Owns
<1>4. /\ SameRuns
      /\ \A r \in DOMAIN runs :
              runs'[r] = runs[r] \/ runs'[r] = [runs[r] EXCEPT !.touched = TRUE]
  BY <1>0, <1>3, TouchRows
<1>5. \A r \in DOMAIN runs : runs'[r].planned = runs[r].planned /\ CountsUp(runs'[r])
  <2>1. ASSUME NEW r \in DOMAIN runs
        PROVE  runs'[r].planned = runs[r].planned /\ CountsUp(runs'[r])
    <3>1. CountsUp(runs[r]) /\ IsRun(runs[r])
      BY <1>0 DEF AmountsInv, RunsCount, Types
    <3>2. runs'[r].planned = runs[r].planned /\ runs'[r].submitted = runs[r].submitted
      BY <1>4, <3>1 DEF IsRun
    <3>. QED BY <3>1, <3>2 DEF CountsUp
  <2>. QED BY <2>1
<1>6. RunsCount'
  BY <1>1, <1>2, <1>4, <1>5, CountsStand DEF AmountsInv, SameRuns, KeepsPlan
<1>7. ProcessesProceed'
  BY <1>1, <1>2, AllProceed DEF AmountsInv
<1>8. AccountTyped' /\ RowStatuses'
  BY <1>0 DEF AmountsInv, AccountTyped, RowStatuses, account, world
<1>. QED BY <1>6, <1>7, <1>8 DEF AmountsInv

(* What the venue fills at once is part of the order.                       *)
LEMMA HalfIsPart ==
  ASSUME NEW n \in Nat, NEW m \in {0, n \div 2}
  PROVE  m \in 0..n /\ n - m \in Nat
OBVIOUS

(* The order in hand. *)
LEMMA PlannedIsOrder ==
  ASSUME AmountsInv, NEW p \in Processes, Within(proc[p]),
         proc[p].pc \in {"record", "place", "update"}
  PROVE  /\ Planned(p) \in PlannedOrder /\ Planned(p).symbol \in Symbols
         /\ Planned(p).side \in {"sell", "buy"} /\ Planned(p).quantity \in Nat
         /\ proc[p].price[Planned(p).symbol] \in Nat
<1>1. Progress(proc[p])
  BY InProgress
<1>2. /\ proc[p].plan \in Seq(PlannedOrder) /\ proc[p].i \in Nat \ {0}
      /\ proc[p].i <= Len(proc[p].plan) /\ proc[p].price \in Prices
  BY <1>1 DEF Progress, Submitting
<1>3. Len(proc[p].plan) \in Nat /\ \A i \in 1..Len(proc[p].plan) : proc[p].plan[i] \in PlannedOrder
  BY <1>2, Lengths
<1>4. proc[p].i \in 1..Len(proc[p].plan)
  BY <1>2, <1>3
<1>5. Planned(p) \in PlannedOrder
  BY <1>3, <1>4 DEF Planned
<1>6. /\ Planned(p).symbol \in Symbols /\ Planned(p).side \in {"sell", "buy"}
      /\ Planned(p).quantity \in Nat
  BY <1>5 DEF PlannedOrder
<1>7. proc[p].price \in [Symbols -> Nat]
  BY <1>2, AmountsAssumption
<1>. QED BY <1>5, <1>6, <1>7

(* The venue answers within the means of the account.                       *)
LEMMA PlaceKeepsAccount ==
  ASSUME TablesInv, AmountsInv, NEW p \in Processes, Place(p)
  PROVE  AccountTyped'
<1>0. UNCHANGED <<clock, price, lock>> /\ proc[p].pc = "place" /\ AccountTyped /\ Types
  BY DEF Place, At, world, TablesInv, AmountsInv
<1>1. Within(proc[p])
  BY <1>0 DEF Types, IsProcess, Between, Brief
<1>2. PICK o : o = Planned(p)
  OBVIOUS
<1>3. PICK at_price : at_price = proc[p].price[o.symbol]
  OBVIOUS
<1>4. /\ o.symbol \in Symbols /\ o.side \in {"sell", "buy"} /\ o.quantity \in Nat
      /\ at_price \in Nat
  BY <1>0, <1>1, <1>2, <1>3, PlannedIsOrder
<1>5. cash \in Nat /\ position \in [Symbols -> Nat]
      /\ \A id \in DOMAIN resting : resting[id] \in OpenOrder
  BY <1>0 DEF AccountTyped
<1>6. ASSUME NEW part \in 0..o.quantity, Fills(p), Trade(o, part, at_price)
      PROVE  cash' \in Nat /\ position' \in [Symbols -> Nat]
  <2>1. accepts(o.side, o.quantity, at_price, cash, position[o.symbol])
    BY <1>2, <1>3, <1>6 DEF Fills
  <2>. QED BY <1>4, <1>5, <1>6, <2>1, TradeStays
<1>7. o.quantity \in 0..o.quantity
  BY <1>4
<1>8. cash' \in Nat /\ position' \in [Symbols -> Nat]
      /\ \A id \in DOMAIN resting' : resting'[id] \in OpenOrder
  <2>1. CASE Fills(p) /\ Fill(p) /\ UNCHANGED resting
    <3>1. Trade(o, o.quantity, at_price)
      BY <1>2, <1>3, <2>1 DEF Fill
    <3>. QED BY <1>5, <1>6, <1>7, <2>1, <3>1
  <2>2. CASE UNCHANGED <<cash, position, resting>>
    BY <1>5, <2>2
  <2>3. CASE KeptOpen(p)
    <3>1. PICK part \in {0, o.quantity \div 2} :
            /\ Fills(p) /\ Trade(o, part, at_price)
            /\ resting' = Inserted(resting, client_order_id(p),
                 [symbol |-> o.symbol, side |-> o.side, quantity |-> o.quantity - part,
                  day |-> clock])
      BY <1>2, <1>3, <2>3 DEF KeptOpen
    <3>2. part \in 0..o.quantity /\ o.quantity - part \in Nat
      BY <1>4, HalfIsPart
    <3>3. cash' \in Nat /\ position' \in [Symbols -> Nat]
      BY <1>6, <3>1, <3>2
    <3>4. clock \in Nat
      BY <1>0 DEF Types
    <3>5. [symbol |-> o.symbol, side |-> o.side, quantity |-> o.quantity - part,
           day |-> clock] \in OpenOrder
      BY <1>4, <3>2, <3>4 DEF OpenOrder
    <3>6. \A id \in DOMAIN resting' : resting'[id] \in OpenOrder
      BY <1>5, <3>1, <3>5 DEF Inserted
    <3>. QED BY <3>3, <3>6
  <2>4. CASE Answered(p) \/ VenueFails(p)
    <3>1. \/ Fills(p) /\ Fill(p) /\ UNCHANGED resting
          \/ UNCHANGED <<cash, position, resting>>
      BY <2>4 DEF Answered, VenueFails, account
    <3>. QED BY <2>1, <2>2, <3>1
  <2>. QED BY <2>3, <2>4 DEF Place
<1>. QED BY <1>0, <1>8 DEF AccountTyped

(* The venue books what it accepts, and keeps open the rest.                *)
LEMMA PlaceAmounts ==
  ASSUME TablesInv, AmountsInv, NEW p \in Processes, Place(p)
  PROVE  AmountsInv'
<1>0. /\ UNCHANGED <<runs, orders>> /\ Types /\ DOMAIN proc = Processes
  BY DEF Place, tables, TablesInv, Types
<1>1. /\ StaysWithin(p) /\ proc[p].pc = "place" /\ proc'[p].pc = "update"
  BY <1>0, PlaceStep
<1>2. PICK status \in Taken \cup {"rejected"} :
        proc' = [proc EXCEPT ![p].pc = "update", ![p].result = status]
  BY <1>0, PlaceStep
<1>3. /\ Within(proc[p]) /\ Within(proc'[p]) /\ Progress(proc[p]) /\ OnlyMoves(p)
      /\ InRun(proc'[p]) <=> InRun(proc[p])
  BY <1>1, InProgress DEF StaysWithin
<1>4. proc'[p] = [proc[p] EXCEPT !.pc = "update", !.result = status]
  BY <1>0, <1>2
<1>5. /\ \A field \in DOMAIN proc[p] \ {"pc", "result"} : proc'[p][field] = proc[p][field]
      /\ proc'[p].result = status
  BY <1>3, <1>4 DEF Within
<1>6. /\ proc'[p].plan = proc[p].plan /\ proc'[p].price = proc[p].price
      /\ proc'[p].run = proc[p].run /\ proc'[p].i = proc[p].i
      /\ proc'[p].submitted = proc[p].submitted /\ proc'[p].failures = proc[p].failures
  BY <1>3, <1>5 DEF Within
<1>7. Progress(proc'[p])
  <2>1. /\ proc[p].price \in Prices /\ proc[p].plan \in Seq(PlannedOrder)
        /\ proc[p].i <= Len(proc[p].plan) /\ proc[p].i \in Nat \ {0}
        /\ proc[p].submitted + proc[p].failures = proc[p].i - 1
    BY <1>1, <1>3 DEF Progress, Submitting
  <2>2. proc'[p].result \in Taken \cup {"rejected"}
    BY <1>2, <1>5
  <2>. QED BY <1>1, <1>6, <2>1, <2>2 DEF Progress, Deciding
<1>8. ProcessesProceed'
  BY <1>3, <1>7, WithinProceeds, AllProceed DEF AmountsInv
<1>9. RunsCount'
  BY <1>0, <1>3, <1>6, CountsStand DEF AmountsInv, RunsCount, KeepsPlan
<1>10. RowStatuses'
  BY <1>0 DEF AmountsInv, RowStatuses
<1>. QED BY <1>8, <1>9, <1>10, PlaceKeepsAccount DEF AmountsInv

-----------------------------------------------------------------------------
(* What the user and the market do.                                         *)

(* The user moves no money, and of a run changes only whether it is gone.   *)
LEMMA UserAmounts ==
  ASSUME TablesInv, AmountsInv, User
  PROVE  AmountsInv'
<1>0. Types /\ UNCHANGED <<proc, cash, position, resting, price, clock, lock>>
  BY UserRows DEF TablesInv, UserStays, account
<1>1. AccountTyped' /\ ProcessesProceed'
  BY <1>0 DEF AmountsInv, AccountTyped, ProcessesProceed
<1>2. /\ SameRuns
      /\ UNCHANGED <<runs, orders>> \/ \E b \in Bots : DeleteBot(b)
  BY <1>0, UserRows
<1>3. CASE UNCHANGED <<runs, orders>>
  BY <1>0, <1>1, <1>3 DEF AmountsInv, RunsCount, RowStatuses
<1>4. CASE \E b \in Bots : DeleteBot(b)
  <2>1. PICK b \in Bots : DeleteBot(b)
    BY <1>4
  <2>2. \A r \in DOMAIN runs : runs'[r] =
          IF runs[r].bot = b THEN [runs[r] EXCEPT !.status = Gone] ELSE runs[r]
    BY <2>1 DEF DeleteBot
  <2>3. ASSUME NEW r \in DOMAIN runs
        PROVE  runs'[r].planned = runs[r].planned /\ CountsUp(runs'[r])
    <3>1. CountsUp(runs[r]) /\ IsRun(runs[r])
      BY <1>0 DEF AmountsInv, RunsCount, Types
    <3>2. runs'[r].planned = runs[r].planned /\ runs'[r].submitted = runs[r].submitted
      BY <2>2, <3>1 DEF IsRun
    <3>. QED BY <3>1, <3>2 DEF CountsUp
  <2>4. RunsCount'
    <3>1. \A r \in DOMAIN runs' : CountsUp(runs'[r])
      BY <1>2, <2>3 DEF SameRuns
    <3>2. ASSUME NEW q \in Processes, InRun(proc'[q])
          PROVE  runs'[proc'[q].run].planned = Len(proc'[q].plan)
      <4>1. proc'[q] = proc[q] /\ proc[q].run \in DOMAIN runs
        BY <1>0, <3>2 DEF TablesInv, Ownership, Owns
      <4>. QED BY <2>3, <3>2, <4>1 DEF AmountsInv, RunsCount
    <3>. QED BY <3>1, <3>2 DEF RunsCount
  <2>5. orders' = [id \in {id \in DOMAIN orders : runs[id[1]].bot # b} |-> orders[id]]
    BY <2>1 DEF DeleteBot
  <2>6. RowStatuses'
    BY <2>5 DEF AmountsInv, RowStatuses
  <2>. QED BY <1>1, <2>4, <2>6 DEF AmountsInv
<1>. QED BY <1>2, <1>3, <1>4

(* Time passes. *)
LEMMA TickAmounts ==
  ASSUME AmountsInv, Tick
  PROVE  AmountsInv'
<1>1. /\ UNCHANGED <<runs, orders, proc, lock, cash, position, resting>>
      /\ price' \in Prices /\ clock < MaxTime /\ clock' = clock + 1
  BY DEF Tick, tables, account
<1>2. clock \in 1..MaxTime
  BY DEF AmountsInv, AccountTyped
<1>3. clock' \in 1..MaxTime
  BY <1>1, <1>2, AmountsAssumption
<1>. QED BY <1>1, <1>3
         DEF AmountsInv, AccountTyped, ProcessesProceed, RunsCount, RowStatuses

(* The venue fills what it kept open. *)
LEMMA LaterAmounts ==
  ASSUME AmountsInv, NEW id \in DOMAIN resting, FillsLater(id)
  PROVE  AmountsInv'
<1>0. /\ UNCHANGED <<runs, orders, proc, lock, price, clock>> /\ AccountTyped
      /\ resting' = [resting EXCEPT ![id].quantity = 0]
  BY DEF FillsLater, tables, world, AmountsInv
<1>1. PICK o : o = resting[id]
  OBVIOUS
<1>2. /\ o \in OpenOrder /\ cash \in Nat /\ position \in [Symbols -> Nat]
      /\ price \in [Symbols -> Nat]
  BY <1>0, <1>1, AmountsAssumption DEF AccountTyped
<1>3. /\ o.symbol \in Symbols /\ o.side \in {"sell", "buy"} /\ o.quantity \in Nat
      /\ price[o.symbol] \in Nat
  BY <1>2 DEF OpenOrder
<1>4. /\ accepts(o.side, o.quantity, price[o.symbol], cash, position[o.symbol])
      /\ Trade(o, o.quantity, price[o.symbol])
  BY <1>1 DEF FillsLater
<1>5. o.quantity \in 0..o.quantity
  BY <1>3
<1>6. cash' \in Nat /\ position' \in [Symbols -> Nat]
  BY <1>2, <1>3, <1>4, <1>5, TradeStays
<1>7. [o EXCEPT !.quantity = 0] \in OpenOrder
  BY <1>2 DEF OpenOrder
<1>8. \A k \in DOMAIN resting' : resting'[k] \in OpenOrder
  <2>1. resting' = [resting EXCEPT ![id] = [o EXCEPT !.quantity = 0]]
    BY <1>0, <1>1
  <2>. QED BY <1>0, <1>7, <2>1 DEF AccountTyped
<1>. QED BY <1>0, <1>6, <1>8
         DEF AmountsInv, AccountTyped, ProcessesProceed, RunsCount, RowStatuses

(* Every step keeps the amounts. *)
LEMMA AmountsStep ==
  ASSUME TablesInv, AmountsInv, [EvalNext]_evalVars
  PROVE  AmountsInv'
<1>1. ASSUME NEW p \in Processes,
             \/ QuietStep(p) \/ Skip(p) \/ Fail(p) \/ StartRun(p) \/ RecordOrder(p)
             \/ Place(p) \/ UpdateOrder(p) \/ FinishRun(p) \/ TouchBot(p)
      PROVE  AmountsInv'
  BY <1>1, QuietAmounts, CreateAmounts, RecordAmounts, PlaceAmounts, UpdateAmounts,
     FinishAmounts, TouchAmounts
<1>2. CASE (\E p \in Processes : LoseSession(p)) \/ UNCHANGED evalVars
  <2>1. /\ UNCHANGED <<runs, orders, proc, cash, position, resting, price, clock>>
        /\ lock' \in {lock, None}
    BY <1>2, SessionDies DEF evalVars, tables, account, world
  <2>. QED BY <2>1 DEF AmountsInv, AccountTyped, ProcessesProceed, RunsCount, RowStatuses
<1>. QED BY <1>1, <1>2, NextSteps, UserAmounts, TickAmounts, LaterAmounts

(* The first state satisfies the invariant.                                 *)
LEMMA AmountsInit == EvalInit => AmountsInv
<1>. SUFFICES ASSUME EvalInit PROVE AmountsInv
  OBVIOUS
<1>1. /\ DOMAIN proc = Processes /\ \A p \in Processes : proc[p] = Idle
      /\ runs = <<>> /\ orders = <<>> /\ resting = <<>>
  BY DEF EvalInit
<1>2. Idle.pc = "idle" /\ Idle.queue = <<>> /\ DOMAIN Idle = {"pc", "queue"}
  BY DEF Idle
<1>3. Proceeds(Idle) /\ ~InRun(Idle)
  BY <1>2 DEF Proceeds, Resting, InRun, Submitting, Closing
<1>4. DOMAIN <<>> = {}
  OBVIOUS
<1>5. ProcessesProceed /\ RunsCount /\ RowStatuses
  BY <1>1, <1>3, <1>4 DEF ProcessesProceed, RunsCount, RowStatuses
<1>6. AccountTyped
  BY <1>1, <1>4, AmountsAssumption DEF EvalInit, AccountTyped
<1>. QED BY <1>5, <1>6 DEF AmountsInv

(* The tables and the amounts always satisfy their invariants.              *)
LEMMA AmountsAlways == EvalSpec => [](TablesInv /\ AmountsInv)
<1>1. EvalInit => TablesInv /\ AmountsInv
  BY TablesInit, AmountsInit
<1>2. TablesInv /\ AmountsInv /\ [EvalNext]_evalVars => TablesInv' /\ AmountsInv'
  BY TablesStep, AmountsStep
<1>. QED BY <1>1, <1>2, PTL DEF EvalSpec

(* The evaluation is type correct: whatever the planner hands over, whoever *)
(* evaluates and whatever the venue does with an order, the account is      *)
(* never overdrawn nor sold short, and no run counts more orders submitted  *)
(* than it planned.                                                         *)
THEOREM EvaluationTypeCorrect == EvalSpec => []EvalTypeOK
<1>1. ASSUME TablesInv, AmountsInv PROVE EvalTypeOK
  <2>. USE <1>1
  <2>1. /\ bots \in [Bots -> [status: {"draft", "running", "paused", "stopped", Gone},
                              targets: Baskets, next_run_at: Nat,
                              settings: BotSettings, clockwork: Clockwork]]
        /\ clock \in 1..MaxTime /\ price \in Prices
        /\ cash \in Nat /\ position \in [Symbols -> Nat]
        /\ lock \in Schedulers \cup {None}
    BY DEF TablesInv, Types, BotRows, BotStatuses, AmountsInv, AccountTyped
  <2>2. \A r \in DOMAIN runs : /\ runs[r].status \in RunStatuses
                               /\ runs[r].submitted \in 0..runs[r].planned
    BY DEF TablesInv, Types, IsRun, AmountsInv, RunsCount, CountsUp
  <2>3. \A id \in DOMAIN orders : orders[id].status \in {"pending", "rejected"} \cup Taken
    BY DEF AmountsInv, RowStatuses
  <2>4. ASSUME NEW p \in Processes, At(p, "idle") PROVE proc[p] = Idle
    <3>1. IsProcess(proc[p]) /\ Proceeds(proc[p]) /\ proc[p].pc = "idle"
      BY <2>4 DEF At, TablesInv, Types, AmountsInv, ProcessesProceed
    <3>2. Between(proc[p])
      BY <3>1 DEF IsProcess, Within, Deciding, Submitting, Closing
    <3>. QED BY <3>1, <3>2 DEF Between, Proceeds, Resting
  <2>. QED BY <2>1, <2>2, <2>3, <2>4 DEF EvalTypeOK
<1>. QED BY <1>1, AmountsAlways, PTL

-----------------------------------------------------------------------------
(* What runs count is what their order rows say.                            *)

(* The rows of a run with one of some statuses, and how many a set holds.   *)
Rows(table, r, statuses) ==
  {id \in DOMAIN table : id[1] = r /\ table[id].status \in statuses}
Counted(set, n) == IsFiniteSet(set) /\ Cardinality(set) = n

(* The rows of a run being carried out, and of one that is finished.        *)
Tally(s, table) ==
  /\ Counted(Rows(table, s.run, Taken), s.submitted)
  /\ Counted(Rows(table, s.run, {"rejected"}), s.failures)
  /\ Rows(table, s.run, {"pending"}) =
       IF s.pc \in {"place", "update"} THEN {InHand(s)} ELSE {}
Tallied(s, rows, table) ==
  /\ s.pc \in Submitting /\ rows[s.run].status # Gone => Tally(s, table)
  /\ s.pc = "finish skipped" => rows[s.run].status \in {"skipped", Gone}
TallyOfRun(r, row, table) ==
  row.status \in {"succeeded", "failed"} /\ row.planned > 0 =>
    /\ Cardinality(Rows(table, r, Taken)) = row.submitted
    /\ Cardinality(Rows(table, r, Taken \cup {"rejected"})) = row.planned
    /\ Rows(table, r, {"pending"}) = {}
    /\ row.status = "failed" <=> row.submitted = 0
    /\ row.errors <=> row.submitted < row.planned

(* The inductive invariant of the counts.                                   *)
TallyInv ==
  /\ \A p \in Processes : Tallied(proc[p], runs, orders)
  /\ \A r \in DOMAIN runs : TallyOfRun(r, runs[r], orders)

(* The invariant says what RunTally says.                                   *)
LEMMA TallyMeans == TallyInv => RunTally
BY DEF TallyInv, RunTally, TallyOfRun, Rows, RowsOf

(* A run whose rows stand, or that is gone, counts what it counted.         *)
SameRows(r, table, later) ==
  \A id : id[1] = r => /\ id \in DOMAIN later <=> id \in DOMAIN table
                       /\ id \in DOMAIN table => later[id] = table[id]
SameCounts(row, after) ==
  /\ after.status = row.status \/ after.status = Gone
  /\ after.planned = row.planned /\ after.submitted = row.submitted
  /\ after.errors = row.errors
Stands(r, row, after, table, later) ==
  SameCounts(row, after) /\ (after.status # Gone => SameRows(r, table, later))

(* Rows that stand are counted alike.                                       *)
LEMMA RowsStand ==
  ASSUME NEW r, NEW table, NEW later, SameRows(r, table, later), NEW statuses
  PROVE  Rows(later, r, statuses) = Rows(table, r, statuses)
BY DEF SameRows, Rows

(* A process whose run stands keeps its count.                              *)
LEMMA TalliedStands ==
  ASSUME NEW s, NEW rows, NEW after, NEW table, NEW later,
         Tallied(s, rows, table), Stands(s.run, rows[s.run], after[s.run], table, later)
  PROVE  Tallied(s, after, later)
<1>1. CASE after[s.run].status = Gone
  BY <1>1 DEF Tallied
<1>2. CASE after[s.run].status # Gone
  <2>1. rows[s.run].status = after[s.run].status /\ SameRows(s.run, table, later)
    BY <1>2 DEF Stands, SameCounts
  <2>2. \A statuses : Rows(later, s.run, statuses) = Rows(table, s.run, statuses)
    BY <2>1, RowsStand
  <2>3. Tally(s, later) <=> Tally(s, table)
    BY <2>2 DEF Tally
  <2>. QED BY <2>1, <2>3 DEF Tallied
<1>. QED BY <1>1, <1>2

(* A finished run that stands keeps its count.                              *)
LEMMA TallyOfRunStands ==
  ASSUME NEW r, NEW row, NEW after, NEW table, NEW later,
         TallyOfRun(r, row, table), Stands(r, row, after, table, later)
  PROVE  TallyOfRun(r, after, later)
<1>1. CASE after.status = Gone
  BY <1>1 DEF TallyOfRun, Gone
<1>2. CASE after.status # Gone
  <2>1. row.status = after.status /\ SameRows(r, table, later)
    BY <1>2 DEF Stands, SameCounts
  <2>2. \A statuses : Rows(later, r, statuses) = Rows(table, r, statuses)
    BY <2>1, RowsStand
  <2>. QED BY <2>1, <2>2 DEF TallyOfRun, Stands, SameCounts
<1>. QED BY <1>1, <1>2

(* A process moves with at most one run, its own, and the others stand.     *)
LEMMA TallyOn ==
  ASSUME TablesInv, TallyInv, NEW p \in Processes, OnlyMoves(p), NEW r0,
         InRun(proc[p]) => proc[p].run = r0,
         \A q \in Processes : q # p /\ InRun(proc[q]) => proc[q].run # r0,
         \A r \in DOMAIN runs : r # r0 => Stands(r, runs[r], runs'[r], orders, orders'),
         \A r \in DOMAIN runs' :
           r = r0 \/ r \notin DOMAIN runs => TallyOfRun(r, runs'[r], orders'),
         Tallied(proc'[p], runs', orders')
  PROVE  TallyInv'
<1>1. ASSUME NEW q \in Processes PROVE Tallied(proc'[q], runs', orders')
  <2>1. CASE q = p
    BY <2>1
  <2>2. CASE q # p /\ ~InRun(proc[q])
    <3>1. proc'[q] = proc[q]
      BY <2>2 DEF OnlyMoves
    <3>. QED BY <2>2, <3>1 DEF Tallied, InRun, Submitting, Closing
  <2>3. CASE q # p /\ InRun(proc[q])
    <3>1. /\ proc'[q] = proc[q] /\ proc[q].run \in DOMAIN runs /\ proc[q].run # r0
          /\ Tallied(proc[q], runs, orders)
      BY <2>3 DEF OnlyMoves, TablesInv, Ownership, Owns, TallyInv
    <3>2. Stands(proc[q].run, runs[proc[q].run], runs'[proc[q].run], orders, orders')
      BY <3>1
    <3>3. Tallied(proc[q], runs', orders')
      BY <3>1, <3>2, TalliedStands
    <3>. QED BY <3>1, <3>3
  <2>. QED BY <2>1, <2>2, <2>3
<1>2. ASSUME NEW r \in DOMAIN runs' PROVE TallyOfRun(r, runs'[r], orders')
  <2>1. CASE r = r0 \/ r \notin DOMAIN runs
    BY <2>1
  <2>2. CASE r # r0 /\ r \in DOMAIN runs
    BY <2>2, TallyOfRunStands DEF TallyInv
  <2>. QED BY <2>1, <2>2
<1>. QED BY <1>1, <1>2 DEF TallyInv

(* A process that is in no run after its step.                              *)
LEMMA TallyLeft ==
  ASSUME TallyInv, NEW p \in Processes, OnlyMoves(p), ~InRun(proc'[p]),
         UNCHANGED <<runs, orders>>
  PROVE  TallyInv'
<1>1. Tallied(proc'[p], runs, orders)
  BY DEF Tallied, InRun, Submitting, Closing
<1>. QED BY <1>1 DEF TallyInv, OnlyMoves

(* What does not change stands.                                             *)
LEMMA StandsStill ==
  ASSUME NEW r, NEW row, NEW table
  PROVE  Stands(r, row, row, table, table)
BY DEF Stands, SameCounts, SameRows

(* A run that planned nothing has nothing to count.                         *)
LEMMA NothingPlanned ==
  ASSUME NEW r, NEW row, NEW table, row.planned = 0
  PROVE  TallyOfRun(r, row, table)
<1>1. ~(row.planned > 0)
  OBVIOUS
<1>. QED BY <1>1, Zenon DEF TallyOfRun

(* Nothing counts as none.                                                  *)
LEMMA NothingCounted == \A set : set = {} => Counted(set, 0)
BY FS_EmptySet DEF Counted

(* One more element, one more counted.                                      *)
LEMMA OneMoreCounted ==
  ASSUME NEW set, NEW n, Counted(set, n), NEW x, x \notin set
  PROVE  Counted(set \cup {x}, n + 1)
BY FS_AddElement DEF Counted

(* A new run has no rows. *)
LEMMA TallyCreate ==
  ASSUME TablesInv, AmountsInv, TallyInv, NEW p \in Processes,
         Skip(p) \/ Fail(p) \/ StartRun(p)
  PROVE  TallyInv'
<1>0. UNCHANGED orders /\ Types
  BY DEF Skip, Fail, StartRun, CreateRun, TablesInv
<1>1. PICK from \in {"skip", "fail", "create"},
           status \in {"skipped", "failed", "running"},
           to \in {"finish skipped", "finish failed", "record"} :
         /\ CreateRun(p, from, status, to)
         /\ status = "failed" <=> from = "fail"
         /\ status = "skipped" <=> to = "finish skipped"
  BY DEF Skip, Fail, StartRun
<1>2. proc[p].pc = from /\ from \in Deciding /\ to \in Submitting \cup Closing
  BY <1>1 DEF CreateRun, At, Deciding, Submitting, Closing
<1>3. CASE ~Exists(Spec(p).bot)
  <2>1. /\ OnlyMoves(p) /\ UNCHANGED runs
        /\ proc'[p] = [pc |-> "next", queue |-> Tail(proc[p].queue)]
    BY <1>0, <1>1, <1>2, <1>3, CreateFails
  <2>2. ~InRun(proc'[p])
    BY <2>1, LeaverProceeds
  <2>. QED BY <1>0, <2>1, <2>2, TallyLeft
<1>4. CASE Exists(Spec(p).bot)
  <2>1. PICK n : n = Len(runs) + 1
    OBVIOUS
  <2>2. /\ OnlyMoves(p) /\ Within(proc[p])
        /\ proc'[p].pc = to /\ proc'[p].run = n
        /\ DOMAIN runs' = 1..n /\ \A r \in DOMAIN runs : runs'[r] = runs[r]
        /\ runs'[n] = RunRow(p, status) /\ RunRow(p, status).status = status
    BY <1>0, <1>1, <1>2, <1>4, <2>1, CreateStep
  <2>3. /\ DOMAIN runs = 1..Len(runs) /\ Len(runs) \in Nat /\ DOMAIN proc = Processes
        /\ n \notin DOMAIN runs /\ DOMAIN runs' = DOMAIN runs \cup {n}
    <3>1. DOMAIN runs = 1..Len(runs) /\ Len(runs) \in Nat /\ DOMAIN proc = Processes
      BY <1>0 DEF Types
    <3>2. n \notin 1..Len(runs)
      BY <2>1, <3>1, OneMore
    <3>3. 1..n = 1..Len(runs) \cup {n}
      BY <2>1, <3>1, OneMore
    <3>. QED BY <2>2, <3>1, <3>2, <3>3
  <2>4. proc'[p] = [proc[p] EXCEPT !.pc = to, !.run = n]
    BY <1>1, <1>4, <2>1, <2>3 DEF CreateRun
  <2>5. /\ proc[p].submitted = 0 /\ proc[p].failures = 0
        /\ proc[p].pc = "fail" => proc[p].plan = <<>>
    BY <1>2, <2>2, InProgress DEF Progress, Deciding
  <2>6. proc'[p].submitted = 0 /\ proc'[p].failures = 0
    BY <2>2, <2>4, <2>5 DEF Within
  <2>7. \A statuses : Rows(orders', n, statuses) = {}
    BY <1>0, <2>3 DEF TablesInv, NoOrphans, Rows
  <2>8. Tallied(proc'[p], runs', orders')
    <3>1. CASE to = "record"
      BY <2>2, <2>6, <2>7, <3>1, NothingCounted DEF Tallied, Tally
    <3>2. CASE to # "record"
      BY <1>1, <2>2, <3>2 DEF Tallied, Submitting
    <3>. QED BY <3>1, <3>2
  <2>9. TallyOfRun(n, runs'[n], orders')
    <3>1. CASE status = "failed"
      <4>1. proc[p].plan = <<>>
        BY <1>1, <1>2, <2>5, <3>1
      <4>2. RunRow(p, status).planned = Len(proc[p].plan)
        BY DEF RunRow
      <4>3. runs'[n].planned = 0
        BY <2>2, <4>1, <4>2
      <4>. QED BY <4>3, NothingPlanned
    <3>2. CASE status # "failed"
      BY <2>2, <3>2 DEF TallyOfRun
    <3>. QED BY <3>1, <3>2
  <2>10. ~InRun(proc[p])
    BY <1>2 DEF InRun, Deciding, Submitting, Closing
  <2>11. \A q \in Processes : q # p /\ InRun(proc[q]) => proc[q].run # n
    BY <2>3 DEF TablesInv, Ownership, Owns
  <2>12. \A r \in DOMAIN runs : r # n => Stands(r, runs[r], runs'[r], orders, orders')
    BY <1>0, <2>2, StandsStill
  <2>13. \A r \in DOMAIN runs' : r = n \/ r \notin DOMAIN runs => TallyOfRun(r, runs'[r], orders')
    BY <2>3, <2>9
  <2>. QED BY <2>2, <2>8, <2>10, <2>11, <2>12, <2>13, TallyOn
<1>. QED BY <1>3, <1>4

(* An order that is recorded is the one pending row of its run.             *)
LEMMA TallyRecord ==
  ASSUME TablesInv, TrailInv, TallyInv, NEW p \in Processes, RecordOrder(p)
  PROVE  TallyInv'
<1>0. UNCHANGED runs /\ Types /\ proc[p].pc = "record"
  BY DEF RecordOrder, At, TablesInv
<1>1. InRun(proc[p])
  BY <1>0 DEF InRun, Submitting
<1>2. CASE ~Exists(Spec(p).bot)
  <2>1. Abandon(p) /\ orders' = orders
    BY <1>2 DEF RecordOrder
  <2>2. OnlyMoves(p) /\ proc'[p] = [pc |-> "next", queue |-> Tail(proc[p].queue)]
    BY <1>0, <1>1, <2>1, Abandoned, InHandFacts
  <2>3. ~InRun(proc'[p])
    BY <2>2, LeaverProceeds
  <2>. QED BY <1>0, <2>1, <2>2, <2>3, TallyLeft
<1>3. CASE Exists(Spec(p).bot)
  <2>1. PICK r0 : r0 = proc[p].run
    OBVIOUS
  <2>2. PICK c : c = InHand(proc[p])
    OBVIOUS
  <2>3. /\ Within(proc[p]) /\ Submits(proc[p]) /\ r0 \in DOMAIN runs /\ Owns(proc[p])
        /\ \A q \in Processes : q # p /\ InRun(proc[q]) => proc[q].run # r0
        /\ c = client_order_id(p) /\ c[1] = r0 /\ c[2] = proc[p].i
    BY <1>1, <2>1, <2>2, InHandFacts
  <2>4. c \notin DOMAIN orders
    BY <1>0, <2>1, <2>3 DEF Submits, Ahead, Ids, Submitting
  <2>5. PICK row : orders' = Inserted(orders, c, row) /\ row.status = "pending"
    <3>. DEFINE row == [symbol |-> Planned(p).symbol, side |-> Planned(p).side,
                        quantity |-> Planned(p).quantity, status |-> "pending"]
    <3>1. orders' = Inserted(orders, c, row)
      BY <1>3, <2>3 DEF RecordOrder
    <3>2. row.status = "pending"
      OBVIOUS
    <3>. QED BY <3>1, <3>2
  <2>6. /\ DOMAIN orders' = DOMAIN orders \cup {c} /\ orders'[c].status = "pending"
        /\ \A k \in DOMAIN orders : orders'[k] = orders[k]
    BY <2>4, <2>5 DEF Inserted
  <2>7. OnlyMoves(p) /\ proc'[p] = [proc[p] EXCEPT !.pc = "place"]
    BY <1>0, <1>3, Went DEF RecordOrder
  <2>8. /\ proc'[p].pc = "place" /\ proc'[p].run = r0 /\ InHand(proc'[p]) = c
        /\ proc'[p].submitted = proc[p].submitted /\ proc'[p].failures = proc[p].failures
    BY <2>1, <2>2, <2>3, <2>7 DEF Within, InHand
  <2>9. Tallied(proc'[p], runs', orders')
    <3>1. CASE runs[r0].status = Gone
      BY <1>0, <2>8, <3>1 DEF Tallied
    <3>2. CASE runs[r0].status # Gone
      <4>1. Tally(proc[p], orders)
        BY <1>0, <2>1, <3>2 DEF TallyInv, Tallied, Submitting
      <4>2. \A statuses : "pending" \notin statuses =>
              Rows(orders', r0, statuses) = Rows(orders, r0, statuses)
        BY <2>4, <2>6 DEF Rows
      <4>3. Rows(orders', r0, {"pending"}) = Rows(orders, r0, {"pending"}) \cup {c}
        BY <2>3, <2>4, <2>6 DEF Rows
      <4>4. Rows(orders, r0, {"pending"}) = {}
        BY <1>0, <2>1, <4>1 DEF Tally
      <4>5. "pending" \notin Taken /\ "pending" \notin {"rejected"}
        BY DEF Taken
      <4>6. Tally(proc'[p], orders')
        BY <2>1, <2>8, <4>1, <4>2, <4>3, <4>4, <4>5 DEF Tally
      <4>. QED BY <2>8, <4>6 DEF Tallied
    <3>. QED BY <3>1, <3>2
  <2>10. \A r \in DOMAIN runs : r # r0 => Stands(r, runs[r], runs'[r], orders, orders')
    BY <1>0, <2>3, <2>6 DEF Stands, SameCounts, SameRows
  <2>11. TallyOfRun(r0, runs'[r0], orders')
    BY <1>0, <2>1, <2>3 DEF Owns, TallyOfRun, InRun, Submitting, Gone
  <2>. QED BY <1>0, <2>1, <2>3, <2>7, <2>9, <2>10, <2>11, TallyOn
<1>. QED BY <1>2, <1>3

(* While the venue answers, the rows stand. *)
LEMMA TallyPlace ==
  ASSUME TablesInv, TallyInv, NEW p \in Processes, Place(p)
  PROVE  TallyInv'
<1>0. UNCHANGED <<runs, orders>> /\ Types /\ DOMAIN proc = Processes
  BY DEF Place, tables, TablesInv, Types
<1>1. /\ StaysWithin(p) /\ OnlyMoves(p) /\ proc[p].pc = "place" /\ proc'[p].pc = "update"
      /\ Within(proc[p])
  BY <1>0, PlaceStep DEF StaysWithin
<1>2. PICK status : proc' = [proc EXCEPT ![p].pc = "update", ![p].result = status]
  BY <1>0, PlaceStep
<1>3. proc'[p] = [proc[p] EXCEPT !.pc = "update", !.result = status]
  BY <1>0, <1>2
<1>4. /\ proc'[p].run = proc[p].run /\ InHand(proc'[p]) = InHand(proc[p])
      /\ proc'[p].submitted = proc[p].submitted /\ proc'[p].failures = proc[p].failures
  BY <1>1, <1>3 DEF Within, InHand
<1>5. Tallied(proc[p], runs, orders)
  BY DEF TallyInv
<1>6. Tallied(proc'[p], runs, orders)
  <2>1. Tally(proc[p], orders) => Tally(proc'[p], orders)
    BY <1>1, <1>4 DEF Tally
  <2>. QED BY <1>1, <1>4, <1>5, <2>1 DEF Tallied, Submitting
<1>. QED BY <1>0, <1>1, <1>6 DEF TallyInv, OnlyMoves

(* The answer moves one row from the pending ones to those it counts with.  *)
LEMMA TallyUpdate ==
  ASSUME TablesInv, AmountsInv, TrailInv, TallyInv, NEW p \in Processes, UpdateOrder(p)
  PROVE  TallyInv'
<1>0. /\ UNCHANGED runs /\ Types /\ proc[p].pc = "update" /\ NextOrder(p)
      /\ orders' = Updated(p) /\ DOMAIN proc = Processes
  BY DEF UpdateOrder, At, TablesInv, Types
<1>1. InRun(proc[p])
  BY <1>0 DEF InRun, Submitting
<1>2. PICK r0 : r0 = proc[p].run
  OBVIOUS
<1>3. PICK c : c = InHand(proc[p])
  OBVIOUS
<1>4. /\ Within(proc[p]) /\ Submits(proc[p]) /\ r0 \in DOMAIN runs /\ Owns(proc[p])
      /\ \A q \in Processes : q # p /\ InRun(proc[q]) => proc[q].run # r0
      /\ c = client_order_id(p) /\ c[1] = r0
  BY <1>1, <1>2, <1>3, InHandFacts
<1>5. /\ DOMAIN orders' = DOMAIN orders
      /\ \A id \in DOMAIN orders : id # c => orders'[id] = orders[id]
      /\ c \in DOMAIN orders => orders'[c].status = proc[p].result
  BY <1>0, <1>4, UpdatedRow
<1>6. /\ OnlyMoves(p) /\ proc'[p].pc \in {"record", "finish"}
  BY <1>0, NextOrderStep DEF StaysWithin
<1>7. /\ proc'[p].run = r0
      /\ IF proc[p].result \in Taken
         THEN /\ proc'[p].submitted = proc[p].submitted + 1
              /\ proc'[p].failures = proc[p].failures
         ELSE /\ proc'[p].submitted = proc[p].submitted
              /\ proc'[p].failures = proc[p].failures + 1
  BY <1>0, <1>2, <1>4 DEF NextOrder, Within
<1>8. Tallied(proc'[p], runs', orders')
  <2>1. CASE runs[r0].status = Gone
    BY <1>0, <1>6, <1>7, <2>1 DEF Tallied
  <2>2. CASE runs[r0].status # Gone
    <3>1. Tally(proc[p], orders)
      BY <1>0, <1>2, <2>2 DEF TallyInv, Tallied, Submitting
    <3>2. c \in DOMAIN orders /\ orders[c].status = "pending"
      BY <1>0, <1>2, <1>3, <1>4, <2>2 DEF Submits, Handles, Submitting
    <3>3. proc[p].result \in Taken \cup {"rejected"} /\ proc[p].result # "pending"
      BY <1>0, <1>4, InProgress DEF Progress, Taken
    <3>4. ASSUME NEW statuses, "pending" \notin statuses, proc[p].result \in statuses
          PROVE  /\ Rows(orders', r0, statuses) = Rows(orders, r0, statuses) \cup {c}
                 /\ c \notin Rows(orders, r0, statuses)
      BY <1>4, <1>5, <3>2, <3>4 DEF Rows
    <3>5. ASSUME NEW statuses, "pending" \notin statuses, proc[p].result \notin statuses
          PROVE  Rows(orders', r0, statuses) = Rows(orders, r0, statuses)
      BY <1>4, <1>5, <3>2, <3>5 DEF Rows
    <3>6. Rows(orders', r0, {"pending"}) = Rows(orders, r0, {"pending"}) \ {c}
      BY <1>4, <1>5, <3>2, <3>3 DEF Rows
    <3>7. /\ Counted(Rows(orders, r0, Taken), proc[p].submitted)
          /\ Counted(Rows(orders, r0, {"rejected"}), proc[p].failures)
          /\ Rows(orders, r0, {"pending"}) = {c}
      BY <1>0, <1>2, <1>3, <3>1 DEF Tally
    <3>8. Rows(orders', r0, {"pending"}) = {}
      BY <3>6, <3>7
    <3>9. "pending" \notin Taken /\ "pending" \notin {"rejected"} /\ "rejected" \notin Taken
      BY DEF Taken
    <3>10. CASE proc[p].result \in Taken
      <4>1. Rows(orders', r0, Taken) = Rows(orders, r0, Taken) \cup {c}
            /\ c \notin Rows(orders, r0, Taken)
        BY <3>4, <3>9, <3>10
      <4>2. Rows(orders', r0, {"rejected"}) = Rows(orders, r0, {"rejected"})
        BY <3>5, <3>9, <3>10
      <4>3. Counted(Rows(orders', r0, Taken), proc[p].submitted + 1)
        BY <3>7, <4>1, OneMoreCounted
      <4>4. Tally(proc'[p], orders')
        BY <1>6, <1>7, <3>7, <3>8, <3>10, <4>2, <4>3 DEF Tally
      <4>. QED BY <1>6, <4>4 DEF Tallied
    <3>11. CASE proc[p].result = "rejected"
      <4>1. Rows(orders', r0, {"rejected"}) = Rows(orders, r0, {"rejected"}) \cup {c}
            /\ c \notin Rows(orders, r0, {"rejected"})
        BY <3>4, <3>9, <3>11
      <4>2. Rows(orders', r0, Taken) = Rows(orders, r0, Taken)
        BY <3>5, <3>9, <3>11
      <4>3. Counted(Rows(orders', r0, {"rejected"}), proc[p].failures + 1)
        BY <3>7, <4>1, OneMoreCounted
      <4>4. proc[p].result \notin Taken
        BY <3>9, <3>11
      <4>5. Tally(proc'[p], orders')
        BY <1>6, <1>7, <3>7, <3>8, <4>2, <4>3, <4>4 DEF Tally
      <4>. QED BY <1>6, <4>5 DEF Tallied
    <3>. QED BY <3>3, <3>10, <3>11
  <2>. QED BY <2>1, <2>2
<1>9. \A r \in DOMAIN runs : r # r0 => Stands(r, runs[r], runs'[r], orders, orders')
  BY <1>0, <1>4, <1>5 DEF Stands, SameCounts, SameRows
<1>10. TallyOfRun(r0, runs'[r0], orders')
  BY <1>0, <1>1, <1>2, <1>4 DEF Owns, TallyOfRun, InRun, Submitting, Gone
<1>. QED BY <1>0, <1>2, <1>4, <1>6, <1>8, <1>9, <1>10, TallyOn

(* The rows of two kinds together. *)
LEMMA BothCounted ==
  ASSUME NEW s, NEW t, NEW m \in Nat, NEW n \in Nat, Counted(s, m), Counted(t, n),
         s \cap t = {}
  PROVE  Counted(s \cup t, m + n)
<1>1. IsFiniteSet(s) /\ IsFiniteSet(t) /\ Cardinality(s) = m /\ Cardinality(t) = n
  BY DEF Counted
<1>2. /\ IsFiniteSet(s \cup t)
      /\ Cardinality(s \cup t) = Cardinality(s) + Cardinality(t) - Cardinality(s \cap t)
  BY <1>1, FS_Union
<1>3. Cardinality(s \cap t) = 0
  BY FS_EmptySet
<1>4. Cardinality(s \cup t) = m + n
  BY <1>1, <1>2, <1>3
<1>. QED BY <1>2, <1>4 DEF Counted

(* The counts of a run whose last order is answered.                        *)
LEMMA FinalCounts ==
  ASSUME NEW a \in Nat, NEW b \in Nat, NEW n \in Nat, NEW i, i = n + 1, a + b = i - 1
  PROVE  /\ a + b = n
         /\ b > 0 <=> a < n
         /\ n > 0 => ((b > 0 /\ a = 0) <=> a = 0)
OBVIOUS

(* A run is finished with the counts of its rows. *)
LEMMA TallyFinish ==
  ASSUME TablesInv, AmountsInv, TallyInv, NEW p \in Processes, FinishRun(p)
  PROVE  TallyInv'
<1>0. /\ UNCHANGED orders /\ Types
      /\ proc[p].pc \in {"finish", "finish skipped", "finish failed"}
  BY DEF FinishRun, At, TablesInv
<1>1. /\ StaysWithin(p) /\ OnlyMoves(p) /\ InRun(proc[p]) /\ Within(proc[p])
      /\ proc'[p].pc \in {"touch", "touch skipped"}
  BY <1>0, FinishStep DEF StaysWithin
<1>2. PICK r0 : r0 = proc[p].run
  OBVIOUS
<1>3. /\ r0 \in DOMAIN runs /\ Owns(proc[p]) /\ Progress(proc[p])
      /\ \A q \in Processes : q # p /\ InRun(proc[q]) => proc[q].run # r0
      /\ IsRun(runs[r0]) /\ Tallied(proc[p], runs, orders)
      /\ TallyOfRun(r0, runs[r0], orders)
      /\ runs[r0].planned = Len(proc[p].plan)
  BY <1>0, <1>1, <1>2, InProgress
     DEF TablesInv, Ownership, Owns, Types, TallyInv, AmountsInv, RunsCount
<1>4. /\ SameRuns
      /\ \A r \in DOMAIN runs :
           /\ r # r0 => runs'[r] = runs[r]
           /\ runs[r].status # Gone /\ r = r0 =>
                   runs'[r] = [runs[r] EXCEPT
                     !.status = IF At(p, "finish") THEN final_status(p) ELSE @,
                     !.submitted = proc[p].submitted,
                     !.errors = proc[p].failures > 0 \/ At(p, "finish failed")]
  BY <1>0, <1>2, <1>3, FinishRows
<1>5. Tallied(proc'[p], runs', orders')
  BY <1>1 DEF Tallied, Submitting
<1>6. \A r \in DOMAIN runs : r # r0 => Stands(r, runs[r], runs'[r], orders, orders')
  BY <1>0, <1>4, StandsStill
<1>7. TallyOfRun(r0, runs'[r0], orders)
  <2>1. CASE runs[r0].status = Gone
    <3>1. runs' = runs
      BY <1>2, <2>1 DEF FinishRun
    <3>. QED BY <1>3, <3>1
  <2>2. CASE runs[r0].status # Gone
    <3>1. /\ runs'[r0].planned = runs[r0].planned
          /\ runs'[r0].submitted = proc[p].submitted
          /\ runs'[r0].errors = (proc[p].failures > 0 \/ At(p, "finish failed"))
          /\ runs'[r0].status = IF At(p, "finish") THEN final_status(p) ELSE runs[r0].status
      BY <1>3, <1>4, <2>2 DEF IsRun
    <3>2. CASE proc[p].pc = "finish skipped"
      <4>1. runs[r0].status = "skipped"
        BY <1>2, <1>3, <2>2, <3>2 DEF Tallied
      <4>2. runs'[r0].status = "skipped"
        BY <3>1, <3>2, <4>1 DEF At
      <4>. QED BY <4>2 DEF TallyOfRun
    <3>3. CASE proc[p].pc = "finish failed"
      <4>1. proc[p].plan = <<>>
        BY <1>3, <3>3 DEF Progress
      <4>2. runs'[r0].planned = 0
        BY <1>3, <3>1, <4>1
      <4>. QED BY <4>2, NothingPlanned
    <3>4. CASE proc[p].pc = "finish"
      <4>. DEFINE a == proc[p].submitted
                  b == proc[p].failures
                  n == Len(proc[p].plan)
                  taken == Rows(orders, r0, Taken)
                  refused == Rows(orders, r0, {"rejected"})
      <4>1. /\ Counted(taken, a) /\ Counted(refused, b)
            /\ Rows(orders, r0, {"pending"}) = {}
        BY <1>2, <1>3, <2>2, <3>4 DEF Tallied, Tally, Submitting
      <4>2. a \in Nat /\ b \in Nat /\ n \in Nat
        BY <1>1, <1>3, Lengths DEF Within, Progress
      <4>3. proc[p].i = n + 1 /\ a + b = proc[p].i - 1
        BY <1>3, <3>4 DEF Progress, Submitting
      <4>4. taken \cap refused = {}
        BY DEF Taken, Rows
      <4>5. Rows(orders, r0, Taken \cup {"rejected"}) = taken \cup refused
        BY DEF Rows
      <4>6. /\ runs'[r0].planned = n /\ runs'[r0].submitted = a
            /\ runs'[r0].errors = (b > 0)
            /\ runs'[r0].status = IF b > 0 /\ a = 0 THEN "failed" ELSE "succeeded"
        BY <1>3, <3>1, <3>4 DEF At, final_status
      <4>. HIDE DEF a, b, n, taken, refused
      <4>7. Counted(taken \cup refused, a + b)
        BY <4>1, <4>2, <4>4, BothCounted
      <4>8. /\ a + b = n /\ (b > 0 <=> a < n)
            /\ n > 0 => ((b > 0 /\ a = 0) <=> a = 0)
        BY <4>2, <4>3, FinalCounts
      <4>9. Cardinality(taken) = a /\ Cardinality(taken \cup refused) = n
        BY <4>1, <4>7, <4>8 DEF Counted
      <4>10. n > 0 => (runs'[r0].status = "failed" <=> a = 0)
        BY <4>6, <4>8
      <4>11. runs'[r0].errors <=> a < n
        BY <4>6, <4>8
      <4>. QED BY <4>1, <4>5, <4>6, <4>9, <4>10, <4>11 DEF TallyOfRun, taken
    <3>. QED BY <1>0, <3>2, <3>3, <3>4
  <2>. QED BY <2>1, <2>2
<1>8. \A r \in DOMAIN runs' : r = r0 \/ r \notin DOMAIN runs => TallyOfRun(r, runs'[r], orders')
  BY <1>0, <1>4, <1>7 DEF SameRuns
<1>9. /\ InRun(proc[p]) => proc[p].run = r0
      /\ \A q \in Processes : q # p /\ InRun(proc[q]) => proc[q].run # r0
  BY <1>2, <1>3
<1>. QED BY <1>1, <1>5, <1>6, <1>8, <1>9, TallyOn

(* Touching the bot leaves the counts alone. *)
LEMMA TallyTouch ==
  ASSUME TablesInv, TallyInv, NEW p \in Processes, TouchBot(p)
  PROVE  TallyInv'
<1>0. UNCHANGED orders /\ Types
  BY DEF TouchBot, TablesInv
<1>1. /\ OnlyMoves(p) /\ InRun(proc[p])
      /\ proc'[p] = [pc |-> "next", queue |-> Tail(proc[p].queue)]
  BY <1>0, TouchStep
<1>2. PICK r0 : r0 = proc[p].run
  OBVIOUS
<1>3. /\ r0 \in DOMAIN runs
      /\ \A q \in Processes : q # p /\ InRun(proc[q]) => proc[q].run # r0
  BY <1>1, <1>2 DEF TablesInv, Ownership, Owns
<1>4. /\ SameRuns
      /\ \A r \in DOMAIN runs :
              runs'[r] = runs[r] \/ runs'[r] = [runs[r] EXCEPT !.touched = TRUE]
  BY <1>0, <1>2, <1>3, TouchRows
<1>5. ASSUME NEW r \in DOMAIN runs PROVE Stands(r, runs[r], runs'[r], orders, orders')
  <2>1. IsRun(runs[r])
    BY <1>0 DEF Types
  <2>2. SameCounts(runs[r], runs'[r])
    BY <1>4, <2>1 DEF SameCounts, IsRun
  <2>. QED BY <1>0, <2>2 DEF Stands, SameRows
<1>6. \A r \in DOMAIN runs' : r = r0 \/ r \notin DOMAIN runs => TallyOfRun(r, runs'[r], orders')
  BY <1>4, <1>5, TallyOfRunStands DEF SameRuns, TallyInv
<1>7. Tallied(proc'[p], runs', orders')
  <2>1. proc'[p].pc = "next"
    BY <1>1
  <2>. QED BY <2>1 DEF Tallied, Submitting
<1>8. \A r \in DOMAIN runs : r # r0 => Stands(r, runs[r], runs'[r], orders, orders')
  BY <1>5
<1>9. OnlyMoves(p) /\ (InRun(proc[p]) => proc[p].run = r0)
  BY <1>1, <1>2
<1>. QED BY <1>3, <1>6, <1>7, <1>8, <1>9, TallyOn

(* A deletion takes a run with all its rows. *)
LEMMA TallyUser ==
  ASSUME TablesInv, TallyInv, User
  PROVE  TallyInv'
<1>0. Types /\ UNCHANGED proc
  BY UserRows DEF TablesInv, UserStays
<1>1. /\ SameRuns
      /\ UNCHANGED <<runs, orders>> \/ \E b \in Bots : DeleteBot(b)
  BY <1>0, UserRows
<1>2. CASE UNCHANGED <<runs, orders>>
  BY <1>0, <1>2 DEF TallyInv
<1>3. CASE \E b \in Bots : DeleteBot(b)
  <2>1. PICK b \in Bots : DeleteBot(b)
    BY <1>3
  <2>2. \A r \in DOMAIN runs : runs'[r] =
          IF runs[r].bot = b THEN [runs[r] EXCEPT !.status = Gone] ELSE runs[r]
    BY <2>1 DEF DeleteBot
  <2>3. orders' = [id \in {id \in DOMAIN orders : runs[id[1]].bot # b} |-> orders[id]]
    BY <2>1 DEF DeleteBot
  <2>4. ASSUME NEW r \in DOMAIN runs PROVE Stands(r, runs[r], runs'[r], orders, orders')
    <3>1. IsRun(runs[r])
      BY <1>0 DEF Types
    <3>2. CASE runs[r].bot = b
      <4>1. /\ runs'[r].status = Gone /\ runs'[r].planned = runs[r].planned
            /\ runs'[r].submitted = runs[r].submitted /\ runs'[r].errors = runs[r].errors
        BY <2>2, <3>1, <3>2 DEF IsRun
      <4>. QED BY <4>1 DEF Stands, SameCounts
    <3>3. CASE runs[r].bot # b
      <4>1. runs'[r] = runs[r]
        BY <2>2, <3>3
      <4>2. SameRows(r, orders, orders')
        BY <2>3, <3>3 DEF SameRows
      <4>. QED BY <4>1, <4>2 DEF Stands, SameCounts
    <3>. QED BY <3>2, <3>3
  <2>5. \A r \in DOMAIN runs' : TallyOfRun(r, runs'[r], orders')
    BY <1>1, <2>4, TallyOfRunStands DEF SameRuns, TallyInv
  <2>6. ASSUME NEW q \in Processes PROVE Tallied(proc[q], runs', orders')
    <3>1. CASE InRun(proc[q])
      <4>1. proc[q].run \in DOMAIN runs /\ Tallied(proc[q], runs, orders)
        BY <3>1 DEF TablesInv, Ownership, Owns, TallyInv
      <4>2. Stands(proc[q].run, runs[proc[q].run], runs'[proc[q].run], orders, orders')
        BY <2>4, <4>1
      <4>. QED BY <4>1, <4>2, TalliedStands
    <3>2. CASE ~InRun(proc[q])
      BY <3>2 DEF Tallied, InRun, Submitting, Closing
    <3>. QED BY <3>1, <3>2
  <2>. QED BY <1>0, <2>5, <2>6 DEF TallyInv
<1>. QED BY <1>1, <1>2, <1>3

(* Every step keeps the counts.                                             *)
LEMMA TallyStep ==
  ASSUME TablesInv, AmountsInv, TrailInv, TallyInv, [EvalNext]_evalVars
  PROVE  TallyInv'
<1>1. ASSUME NEW p \in Processes, QuietStep(p) PROVE TallyInv'
  BY <1>1, QuietMoves, TallyLeft DEF TablesInv, MovesOn, tables
<1>2. ASSUME NEW p \in Processes,
             \/ Skip(p) \/ Fail(p) \/ StartRun(p) \/ RecordOrder(p)
             \/ Place(p) \/ UpdateOrder(p) \/ FinishRun(p) \/ TouchBot(p)
      PROVE  TallyInv'
  BY <1>2, TallyCreate, TallyRecord, TallyPlace, TallyUpdate, TallyFinish, TallyTouch
<1>3. CASE \/ Tick \/ \E id \in DOMAIN resting : FillsLater(id)
           \/ \E p \in Processes : LoseSession(p)
           \/ UNCHANGED evalVars
  BY <1>3, SessionDies DEF Tick, FillsLater, tables, evalVars, TallyInv
<1>. QED BY <1>1, <1>2, <1>3, NextSteps, TallyUser

(* At first there is no run to count.                                       *)
LEMMA TallyInit == EvalInit => TallyInv
<1>. SUFFICES ASSUME EvalInit PROVE TallyInv
  OBVIOUS
<1>1. \A p \in Processes : proc[p] = Idle
  BY DEF EvalInit
<1>2. Idle.pc = "idle"
  BY DEF Idle
<1>3. Tallied(Idle, runs, orders)
  BY <1>2 DEF Tallied, Submitting
<1>4. DOMAIN runs = {}
  BY DEF EvalInit
<1>. QED BY <1>1, <1>3, <1>4 DEF TallyInv

(* The counts of a finished run are those of its order rows, none of them   *)
(* left pending, and it is a failure exactly when it placed nothing         *)
(* (service.py, _execute), however the venue answered and whatever the user *)
(* deleted meanwhile.                                                       *)
THEOREM RunsTellWhatTheyDid == EvalSpec => []RunTally
<1>1. EvalInit => TablesInv /\ AmountsInv /\ TrailInv /\ TallyInv
  BY TablesInit, AmountsInit, TrailInit, TallyInit
<1>2. TablesInv /\ AmountsInv /\ TrailInv /\ TallyInv /\ [EvalNext]_evalVars
        => TablesInv' /\ AmountsInv' /\ TrailInv' /\ TallyInv'
  BY TablesStep, AmountsStep, TrailStep, TallyStep
<1>. QED BY <1>1, <1>2, TallyMeans, PTL DEF EvalSpec
=============================================================================
