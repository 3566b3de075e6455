------------------------- MODULE PaperBrokerProofs -------------------------
(***************************************************************************)
(* The paper broker, for any number of callers, symbols, orders and        *)
(* prices: the books balance, nothing is overdrawn, orders are atomic, and *)
(* the average cost of a position is within what was paid for it.          *)
(***************************************************************************)
EXTENDS PaperBroker, ArithmeticProofs

(* Rounding to money.                                                       *)
LEMMA MoneyBound ==
  ASSUME NEW n \in Nat, NEW d \in Nat \ {0}
  PROVE  /\ money(n, d) \in Nat
         /\ \A m \in Nat : n <= m * d => money(n, d) <= m
BY HalfUpBound DEF money

(* A transaction past its first read holds the account's lock, and what it  *)
(* has read still stands.                                                   *)
LockInv ==
  /\ \A w \in Workers :
       /\ pc[w] \in {"position", "decide"} <=> locked = w
       /\ pc[w] \in {"position", "decide"} => read[w].cash = cash
       /\ pc[w] = "decide" => read[w].held = position[order[w].symbol]
       /\ pc[w] # "idle" => order[w] \in Orders /\ order[w].quantity > 0
       /\ pc[w] # "idle" => read[w].price \in Quotes[order[w].symbol]

(* What is held has been bought.                                            *)
HeldInv == \A s \in Symbols : bought[s] = {} => position[s] = 0

BrokerInv == BrokerTypeOK /\ LockInv /\ BooksBalance /\ HeldInv

-----------------------------------------------------------------------------
(* The arithmetic of one fill. *)
LEMMA ReadType ==
  ASSUME NEW held \in Nat
  PROVE  held_as_read(held) \in Nat
<1>1. GRAIN \in Nat \ {0}
  BY GrainAssumption
<1>2. money(held, GRAIN) \in Nat
  BY <1>1, MoneyBound
<1> QED
  BY <1>1, <1>2, Z3 DEF held_as_read

LEMMA NothingReadsAsNothing == held_as_read(0) = 0
<1>1. GRAIN \in Nat \ {0}
  BY GrainAssumption
<1>2. money(0, GRAIN) \in Nat /\ money(0, GRAIN) <= 0
  BY <1>1, MoneyBound
<1> QED
  BY <1>1, <1>2 DEF held_as_read

LEMMA NotionalType ==
  ASSUME NEW qty \in Nat, NEW price \in Nat
  PROVE  value_of(qty, price) \in Nat
<1>1. qty * price \in Nat
  BY Z3
<1> QED
  BY <1>1, MoneyBound, ShareAssumption DEF value_of

LEMMA FillType ==
  ASSUME NEW side \in {"buy", "sell"}, NEW qty \in Nat, qty > 0,
         NEW price \in Nat, NEW c \in Nat, NEW held \in Nat, NEW k \in Nat,
         accepts(side, qty, price, c, held)
  PROVE  /\ cash_after(side, qty, price, c) \in Nat
         /\ qty_after(side, qty, held) \in Nat
         /\ cost_after(side, qty, price, held, k) \in Nat
<1>1. value_of(qty, price) \in Nat /\ held_as_read(held) \in Nat
  BY NotionalType, ReadType
<1>2. cash_after(side, qty, price, c) \in Nat
  BY <1>1 DEF cash_after, accepts
<1>3. qty_after(side, qty, held) \in Nat
  BY <1>1 DEF qty_after, accepts
<1>4. cost_after(side, qty, price, held, k) \in Nat
  <2>1. held_as_read(held) + qty \in Nat \ {0}
    BY <1>1
  <2>2. held_as_read(held) * k + value_of(qty, price) * SHARE \in Nat
    BY <1>1, ShareAssumption, Z3
  <2> QED
    BY <2>1, <2>2, MoneyBound DEF cost_after
<1> QED
  BY <1>2, <1>3, <1>4

-----------------------------------------------------------------------------
LEMMA BrokerInitInv == BrokerInit => BrokerInv
<1> SUFFICES ASSUME BrokerInit PROVE BrokerInv
  OBVIOUS
<1>1. BrokerTypeOK
  <2>1. open \in BOOLEAN /\ locked \in Workers \cup {None}
        /\ order \in [Workers -> Orders \cup {None}]
    BY DEF BrokerInit
  <2>2. /\ cash \in Nat /\ position \in [Symbols -> Nat] /\ cost \in [Symbols -> Nat]
        /\ calls \in 0..MaxCalls /\ paid \in Nat /\ received \in Nat
        /\ bought \in [Symbols -> SUBSET [price: Nat, quantity: Nat \ {0}]]
    BY BrokerAssumption DEF BrokerInit
  <2>3. /\ pc \in [Workers -> {"idle", "account", "position", "decide", "filled"}]
        /\ answer \in [Workers -> Answers]
    BY DEF BrokerInit, Answers
  <2>4. read \in [Workers -> [price: Nat, cash: Nat, held: Nat, cost: Nat]]
    BY DEF BrokerInit
  <2> QED
    BY <2>1, <2>2, <2>3, <2>4 DEF BrokerTypeOK
<1>2. LockInv
  BY BrokerAssumption DEF BrokerInit, LockInv
<1>3. BooksBalance /\ HeldInv
  BY BrokerAssumption DEF BrokerInit, BooksBalance, HeldInv
<1> QED
  BY <1>1, <1>2, <1>3 DEF BrokerInv

(* The steps that move one caller and, at most, its own lock. *)
LEMMA QuietInv ==
  ASSUME BrokerInv, NEW w \in Workers,
         \/ NoAccount(w) \/ ReadAccount(w) \/ ReadPosition(w)
         \/ RejectOrder(w) \/ ReportFill(w) \/ Crash(w)
  PROVE  BrokerInv'
<1> USE DEF BrokerInv
<1>1. UNCHANGED <<open, cash, position, cost, order, calls, paid, received, bought>>
  BY DEF NoAccount, ReadAccount, ReadPosition, RejectOrder, ReportFill, Crash
<1>2. BooksBalance' /\ HeldInv'
  BY <1>1 DEF BooksBalance, HeldInv
<1>3. CASE ReadAccount(w)
  <2>1. /\ pc' = [pc EXCEPT ![w] = "position"] /\ pc[w] = "account"
        /\ locked = None /\ locked' = w /\ answer' = answer
        /\ read' = [read EXCEPT ![w].cash = cash]
    BY <1>3 DEF ReadAccount, Goto
  <2>2. /\ read' \in [Workers -> [price: Nat, cash: Nat, held: Nat, cost: Nat]]
        /\ read'[w].cash = cash /\ read'[w].price = read[w].price
        /\ \A v \in Workers \ {w} : read'[v] = read[v]
    BY <2>1 DEF BrokerTypeOK
  <2>3. BrokerTypeOK'
    BY <1>1, <2>1, <2>2 DEF BrokerTypeOK
  <2>4. LockInv'
    <3>1. \A v \in Workers : pc[v] \notin {"position", "decide"}
      BY <2>1, BrokerAssumption DEF LockInv
    <3>2. pc'[w] = "position" /\ \A v \in Workers \ {w} : pc'[v] = pc[v]
      BY <2>1 DEF BrokerTypeOK
    <3> QED
      BY <1>1, <2>1, <2>2, <3>1, <3>2 DEF LockInv
  <2> QED
    BY <1>2, <2>3, <2>4
<1>4. CASE ReadPosition(w)
  <2>1. order[w] \in Orders /\ order[w].symbol \in Symbols
    BY <1>4, BrokerAssumption DEF LockInv, Order, ReadPosition
  <2>2. position[order[w].symbol] \in Nat /\ cost[order[w].symbol] \in Nat
    BY <2>1 DEF BrokerTypeOK
  <2>3. read' \in [Workers -> [price: Nat, cash: Nat, held: Nat, cost: Nat]]
    <3>1. read[w] \in [price: Nat, cash: Nat, held: Nat, cost: Nat]
      BY DEF BrokerTypeOK
    <3>2. [read[w] EXCEPT !.held = position[order[w].symbol],
                          !.cost = cost[order[w].symbol]]
            \in [price: Nat, cash: Nat, held: Nat, cost: Nat]
      BY <2>2, <3>1
    <3>3. read' = [read EXCEPT ![w] =
                     [read[w] EXCEPT !.held = position[order[w].symbol],
                                     !.cost = cost[order[w].symbol]]]
      BY <1>4 DEF ReadPosition, BrokerTypeOK
    <3> QED
      BY <3>2, <3>3 DEF BrokerTypeOK
  <2>4. pc' = [pc EXCEPT ![w] = "decide"] /\ pc[w] = "position" /\ locked' = locked
        /\ answer' = answer
    BY <1>4 DEF ReadPosition, Goto
  <2>5. BrokerTypeOK'
    BY <1>1, <2>3, <2>4 DEF BrokerTypeOK
  <2>6. /\ read'[w].cash = read[w].cash
        /\ read'[w].held = position[order[w].symbol]
        /\ read'[w].price = read[w].price
        /\ \A v \in Workers \ {w} : read'[v] = read[v]
    BY <1>4 DEF ReadPosition, BrokerTypeOK
  <2>7. LockInv'
    BY <1>1, <2>1, <2>4, <2>6 DEF LockInv, BrokerTypeOK
  <2> QED
    BY <1>2, <2>5, <2>7
<1>5. CASE NoAccount(w) \/ ReportFill(w)
  <2>1. /\ pc' = [pc EXCEPT ![w] = "idle"] /\ pc[w] \in {"account", "filled"}
        /\ UNCHANGED <<locked, read>>
    BY <1>5 DEF NoAccount, ReportFill, Goto, Return
  <2>2. answer' \in [Workers -> Answers]
    BY <1>5 DEF NoAccount, ReportFill, Return, Answers, BrokerTypeOK
  <2>3. BrokerTypeOK'
    BY <1>1, <2>1, <2>2 DEF BrokerTypeOK
  <2>4. LockInv'
    BY <1>1, <2>1 DEF LockInv, BrokerTypeOK
  <2> QED
    BY <1>2, <2>3, <2>4
<1>6. CASE RejectOrder(w) \/ Crash(w)
  <2>1. /\ pc' = [pc EXCEPT ![w] = "idle"] /\ read' = read
        /\ locked' = IF locked = w THEN None ELSE locked
    BY <1>6 DEF RejectOrder, Crash, Goto, Return, Unlock
  <2>2. answer' \in [Workers -> Answers]
    BY <1>6 DEF RejectOrder, Crash, Return, Answers, BrokerTypeOK
  <2>3. BrokerTypeOK'
    BY <1>1, <2>1, <2>2 DEF BrokerTypeOK
  <2>4. LockInv'
    BY <1>1, <2>1, BrokerAssumption DEF LockInv, BrokerTypeOK
  <2> QED
    BY <1>2, <2>3, <2>4
<1> QED
  BY <1>3, <1>4, <1>5, <1>6

LEMMA PlaceOrderInv ==
  ASSUME BrokerInv, NEW w \in Workers, NEW o \in Orders, PlaceOrder(w, o)
  PROVE  BrokerInv'
<1> USE DEF BrokerInv
<1>1. UNCHANGED <<open, cash, position, cost, locked, paid, received, bought>>
  BY DEF PlaceOrder
<1>2. BooksBalance' /\ HeldInv'
  BY <1>1 DEF BooksBalance, HeldInv
<1>3. /\ calls' = calls + 1 /\ calls < MaxCalls /\ pc[w] = "idle"
      /\ order' = [order EXCEPT ![w] = o]
      /\ \/ /\ o.quantity > 0 /\ pc' = [pc EXCEPT ![w] = "account"]
            /\ answer' = [answer EXCEPT ![w] = "none"]
            /\ \E price \in Quotes[o.symbol] : read' = [read EXCEPT ![w].price = price]
         \/ /\ o.quantity <= 0 /\ pc' = [pc EXCEPT ![w] = "idle"]
            /\ answer' = [answer EXCEPT ![w] = "error"] /\ read' = read
  BY DEF PlaceOrder, Goto, Return
<1>4. o \in Order /\ o.symbol \in Symbols /\ Quotes[o.symbol] \subseteq Nat
  BY BrokerAssumption DEF Order
<1>5. /\ read' \in [Workers -> [price: Nat, cash: Nat, held: Nat, cost: Nat]]
      /\ \A v \in Workers : /\ read'[v].cash = read[v].cash /\ read'[v].held = read[v].held
                            /\ read'[v].cost = read[v].cost
  <2>1. ASSUME NEW price \in Nat, read' = [read EXCEPT ![w].price = price]
        PROVE  <1>5!1 /\ <1>5!2
    BY <2>1 DEF BrokerTypeOK
  <2>2. CASE read' = read
    BY <2>2 DEF BrokerTypeOK
  <2> QED
    BY <1>3, <1>4, <2>1, <2>2
<1>6. BrokerTypeOK'
  <2>1. pc' \in [Workers -> {"idle", "account", "position", "decide", "filled"}]
        /\ answer' \in [Workers -> Answers]
    BY <1>3 DEF BrokerTypeOK, Answers
  <2>2. calls' \in 0..MaxCalls /\ order' \in [Workers -> Orders \cup {None}]
    BY <1>3, BrokerAssumption DEF BrokerTypeOK
  <2> QED
    BY <1>1, <1>5, <2>1, <2>2 DEF BrokerTypeOK
<1>7. LockInv'
  <2>1. \A v \in Workers : pc'[v] \in {"position", "decide"} <=> pc[v] \in {"position", "decide"}
    BY <1>3 DEF BrokerTypeOK
  <2>2. \A v \in Workers : v # w => pc'[v] = pc[v] /\ order'[v] = order[v]
    BY <1>3 DEF BrokerTypeOK
  <2>3. pc'[w] # "idle" => order'[w] \in Orders /\ order'[w].quantity > 0
    BY <1>3 DEF BrokerTypeOK
  <2>4. pc'[w] # "decide"
    BY <1>3 DEF BrokerTypeOK
  <2>5. pc'[w] # "idle" => read'[w].price \in Quotes[order'[w].symbol]
    BY <1>3 DEF BrokerTypeOK
  <2>6. \A v \in Workers : v # w => read'[v] = read[v]
    BY <1>3 DEF BrokerTypeOK
  <2> QED
    BY <1>1, <1>5, <2>1, <2>2, <2>3, <2>4, <2>5, <2>6 DEF LockInv
<1> QED
  BY <1>2, <1>6, <1>7

(* What Commit knows when it writes. *)
LEMMA AtCommit ==
  ASSUME BrokerInv, NEW w \in Workers, Commit(w)
  PROVE  /\ order[w] \in Orders /\ order[w] \in Order /\ order[w].quantity > 0
         /\ read[w].cash = cash /\ read[w].held = position[order[w].symbol]
         /\ locked = w /\ pc[w] = "decide"
         /\ accepts(order[w].side, order[w].quantity, read[w].price,
                    cash, position[order[w].symbol])
  BY BrokerAssumption DEF BrokerInv, LockInv, Commit, Accepted

LEMMA CommitInv ==
  ASSUME BrokerInv, NEW w \in Workers, Commit(w)
  PROVE  BrokerInv'
<1> USE DEF BrokerInv
<1> DEFINE o == order[w]
           s == o.symbol
           price == read[w].price
           notional == value_of(o.quantity, price)
           fill == [price |-> price, quantity |-> o.quantity]
<1>1. /\ o \in Orders /\ o \in Order /\ o.quantity > 0
      /\ read[w].cash = cash /\ read[w].held = position[s]
      /\ locked = w /\ pc[w] = "decide"
      /\ accepts(o.side, o.quantity, price, cash, position[s])
  BY AtCommit
<1>2. /\ s \in Symbols /\ o.side \in {"buy", "sell"} /\ o.quantity \in Nat
      /\ price \in Nat /\ cash \in Nat /\ position[s] \in Nat
      /\ read[w].cost \in Nat /\ order[w].symbol \in Symbols
  BY <1>1, BrokerAssumption DEF Order, BrokerTypeOK
<1>3. /\ cash' = cash_after(o.side, o.quantity, price, cash)
      /\ position' = [position EXCEPT ![s] = qty_after(o.side, o.quantity, position[s])]
      /\ cost' = [cost EXCEPT ![s] = cost_after(o.side, o.quantity, price,
                                                position[s], read[w].cost)]
      /\ pc' = [pc EXCEPT ![w] = "filled"] /\ locked' = None
      /\ UNCHANGED <<open, order, read, answer, calls>>
  BY <1>1 DEF Commit, Goto, Unlock
<1>4. /\ cash' \in Nat
      /\ qty_after(o.side, o.quantity, position[s]) \in Nat
      /\ cost_after(o.side, o.quantity, price, position[s], read[w].cost) \in Nat
  BY <1>1, <1>2, <1>3, FillType
<1>5. notional \in Nat
  BY <1>2, NotionalType
<1>6. /\ IF o.side = "buy" THEN paid' = paid + notional /\ received' = received
                           ELSE received' = received + notional /\ paid' = paid
      /\ bought' \in [Symbols -> SUBSET [price: Nat, quantity: Nat \ {0}]]
  <2>1. CASE o.side = "buy"
    <3>1. fill \in [price: Nat, quantity: Nat \ {0}]
      BY <1>1, <1>2
    <3>2. PICK old \in SUBSET bought[s] : bought' = [bought EXCEPT ![s] = {fill} \cup old]
      BY <2>1 DEF Commit
    <3>3. paid' = paid + notional /\ received' = received
      BY <2>1 DEF Commit
    <3> QED
      BY <1>2, <2>1, <3>1, <3>2, <3>3 DEF BrokerTypeOK
  <2>2. CASE o.side = "sell"
    <3>1. received' = received + notional /\ paid' = paid /\ bought' = bought
      BY <2>2 DEF Commit
    <3> QED
      BY <2>2, <3>1 DEF BrokerTypeOK
  <2> QED
    BY <1>2, <2>1, <2>2
<1>7. BrokerTypeOK'
  <2>1. paid' \in Nat /\ received' \in Nat
    BY <1>5, <1>6 DEF BrokerTypeOK
  <2>2. position' \in [Symbols -> Nat] /\ cost' \in [Symbols -> Nat]
    BY <1>2, <1>3, <1>4 DEF BrokerTypeOK
  <2> QED
    BY <1>3, <1>4, <1>6, <2>1, <2>2 DEF BrokerTypeOK
<1>8. LockInv'
  BY <1>1, <1>3, BrokerAssumption DEF LockInv, BrokerTypeOK
<1>9. BooksBalance'
  <2>1. cash' = IF o.side = "buy" THEN cash - notional ELSE cash + notional
    BY <1>3 DEF cash_after
  <2>2. paid \in Nat /\ received \in Nat /\ StartingCash \in Nat
    BY BrokerAssumption DEF BrokerTypeOK
  <2> HIDE DEF notional, o
  <2> QED
    BY <1>2, <1>5, <1>6, <2>1, <2>2 DEF BooksBalance
<1>10. HeldInv'
  <2>1. CASE o.side = "buy"
    <3>1. \E old : bought' = [bought EXCEPT ![s] = {fill} \cup old]
      BY <2>1 DEF Commit
    <3> QED
      BY <1>2, <1>3, <3>1 DEF HeldInv, BrokerTypeOK
  <2>2. CASE o.side = "sell"
    <3>1. bought' = bought
      BY <2>2 DEF Commit
    <3>2. bought[s] # {}
      BY <1>1, <1>2, <2>2, NothingReadsAsNothing DEF accepts, HeldInv
    <3> QED
      BY <1>2, <1>3, <3>1, <3>2 DEF HeldInv, BrokerTypeOK
  <2> QED
    BY <1>2, <2>1, <2>2
<1> QED
  BY <1>7, <1>8, <1>9, <1>10

LEMMA BrokerStepInv == BrokerInv /\ [BrokerNext]_brokerVars => BrokerInv'
<1> SUFFICES ASSUME BrokerInv, [BrokerNext]_brokerVars PROVE BrokerInv'
  OBVIOUS
<1>1. CASE EnsureAccount
  BY <1>1 DEF EnsureAccount, BrokerInv, BrokerTypeOK, LockInv, BooksBalance, HeldInv
<1>2. ASSUME NEW w \in Workers, Commit(w) PROVE BrokerInv'
  BY <1>2, CommitInv
<1>3. ASSUME NEW w \in Workers, Step(w) \/ Crash(w), ~Commit(w) PROVE BrokerInv'
  BY <1>3, QuietInv DEF Step
<1>4. ASSUME NEW w \in Workers, NEW o \in Orders, PlaceOrder(w, o) PROVE BrokerInv'
  BY <1>4, PlaceOrderInv
<1>5. CASE UNCHANGED brokerVars
  BY <1>5 DEF brokerVars, BrokerInv, BrokerTypeOK, LockInv, BooksBalance, HeldInv
<1> QED
  BY <1>1, <1>2, <1>3, <1>4, <1>5 DEF BrokerNext

LEMMA BrokerInductive == BrokerSpec => []BrokerInv
  BY BrokerInitInv, BrokerStepInv, PTL DEF BrokerSpec

(* No interleaving of callers and no crash overdraws the cash or sells more *)
(* shares than are held: both stay natural numbers (place_order's checks).  *)
THEOREM NeverOverdrawn == BrokerSpec => []BrokerTypeOK
<1>1. BrokerInv => BrokerTypeOK
  BY DEF BrokerInv
<1> QED
  BY <1>1, BrokerInductive, PTL

(* The cash always accounts for exactly the committed orders.  The row lock *)
(* is what carries this: without it the invariant's part LockInv, that what *)
(* was read still stands at commit, fails.                                  *)
THEOREM BooksAlwaysBalance == BrokerSpec => []BooksBalance
<1>1. BrokerInv => BooksBalance
  BY DEF BrokerInv
<1> QED
  BY <1>1, BrokerInductive, PTL

-----------------------------------------------------------------------------
(* Refinement.  Only Commit moves the ledger.                               *)

(* What place_order makes of a position is one of the quantities nearest.   *)
LEMMA ReadIsNearest ==
  ASSUME NEW p \in Nat
  PROVE  held_as_read(p) \in L!Readings(p)
<1> DEFINE g == GRAIN
           k == (2 * p + g) \div (2 * g)
           r == k * g
<1>1. g \in Nat \ {0}
  BY GrainAssumption
<1>2. k \in Nat
  BY <1>1, HalfUpBound
<1>3. (2 * g) * k <= 2 * p + g /\ (2 * g) * k > 2 * p - g
  BY <1>1, HalfUpIsNear
<1>4. held_as_read(p) = r
  BY DEF held_as_read, money
<1> HIDE DEF g, k
<1>5. r \in Nat /\ (2 * g) * k = 2 * r
  BY <1>1, <1>2, Z3
<1>6. r % g = 0
  BY <1>1, <1>2, MultipleLeavesNone
<1> HIDE DEF r
<1>7. 2 * r <= 2 * p + g /\ 2 * r > 2 * p - g
  BY <1>3, <1>5
<1>8. r \in 0..(p + g)
  BY <1>1, <1>5, <1>7
<1>9. 2 * L!Abs(r - p) <= g
  BY <1>1, <1>5, <1>7 DEF L!Abs
<1> QED
  BY <1>4, <1>6, <1>8, <1>9 DEF L!Readings, g

LEMMA CommitRefines ==
  ASSUME BrokerInv, NEW w \in Workers, Commit(w)
  PROVE  L!LedgerNext
<1> DEFINE o == order[w]
           s == o.symbol
           price == read[w].price
           r == held_as_read(position[s])
<1>1. /\ o \in Orders /\ o \in Order
      /\ read[w].cash = cash /\ read[w].held = position[s]
      /\ accepts(o.side, o.quantity, price, cash, position[s])
  BY AtCommit
<1>2. position[s] \in Nat
  BY <1>1 DEF BrokerInv, BrokerTypeOK, Order
<1>3. r \in L!Readings(position[s])
  BY <1>2, ReadIsNearest
<1>4. /\ cash' = cash_after(o.side, o.quantity, price, cash)
      /\ position' = [position EXCEPT ![s] = qty_after(o.side, o.quantity, position[s])]
  BY <1>1 DEF Commit
<1>5. price \in Quotes[s]
  BY AtCommit DEF BrokerInv, LockInv
<1>6. value_of(o.quantity, price) = L!value_of(o.quantity, price)
  BY DEF value_of, L!value_of, money, L!money
<1>7. CASE o.side = "buy"
  <2>1. position' = [position EXCEPT ![s] = r + o.quantity]
    BY <1>4, <1>7 DEF qty_after
  <2>2. L!Buy(o, price)
    BY <1>1, <1>3, <1>4, <1>6, <1>7, <2>1 DEF L!Buy, accepts, cash_after
  <2> QED
    BY <1>1, <1>5, <2>2 DEF L!LedgerNext
<1>8. CASE o.side = "sell"
  <2>1. position' = [position EXCEPT ![s] = r - o.quantity]
    BY <1>4, <1>8 DEF qty_after
  <2>2. o.quantity <= r
    BY <1>1, <1>8 DEF accepts
  <2>3. L!Sell(o, price)
    BY <1>1, <1>3, <1>4, <1>6, <1>8, <2>1, <2>2 DEF L!Sell, cash_after
  <2> QED
    BY <1>1, <1>5, <2>3 DEF L!LedgerNext
<1> QED
  BY <1>1, <1>7, <1>8 DEF Order

(* Orders take effect one at a time and all at once, within the cash and    *)
(* the position as it is read (the transaction of place_order implements    *)
(* Ledger), whatever the precision it is read with.                         *)
THEOREM OrdersAreAtomic == BrokerSpec => AtomicOrders
<1>1. BrokerInit => L!LedgerInit
  BY DEF BrokerInit, L!LedgerInit
<1>2. BrokerInv /\ [BrokerNext]_brokerVars => [L!LedgerNext]_<<cash, position>>
  <2> SUFFICES ASSUME BrokerInv, [BrokerNext]_brokerVars
               PROVE  L!LedgerNext \/ UNCHANGED <<cash, position>>
    OBVIOUS
  <2>1. ASSUME NEW w \in Workers, Commit(w) PROVE L!LedgerNext
    BY <2>1, CommitRefines
  <2>2. CASE ~ \E w \in Workers : Commit(w)
    BY <2>2 DEF BrokerNext, Step, EnsureAccount, NoAccount, ReadAccount,
                ReadPosition, RejectOrder, ReportFill, Crash, PlaceOrder, brokerVars
  <2> QED
    BY <2>1, <2>2
<1> QED
  BY <1>1, <1>2, BrokerInductive, PTL DEF BrokerSpec, AtomicOrders, L!LedgerSpec

-----------------------------------------------------------------------------
(* The cost a transaction has read under its lock is the one on file.       *)
CostInv ==
  /\ CostIsBounded
  /\ \A w \in Workers : pc[w] = "decide" => read[w].cost = cost[order[w].symbol]

(* Rounding a notional to money moves it by half a unit at most.            *)
LEMMA NotionalBound ==
  ASSUME NEW q \in Nat, NEW p \in Nat
  PROVE  /\ 2 * (value_of(q, p) * SHARE) <= 2 * (q * p) + SHARE
         /\ 2 * (value_of(q, p) * SHARE) > 2 * (q * p) - SHARE
<1> DEFINE n == q * p
           d == SHARE
           v == (2 * n + d) \div (2 * d)
<1>1. n \in Nat /\ d \in Nat \ {0}
  BY ShareAssumption, Z3
<1>2. value_of(q, p) = v
  BY DEF value_of, money
<1>3. v \in Nat
  BY <1>1, HalfUpBound
<1>4. (2 * d) * v <= 2 * n + d /\ (2 * d) * v > 2 * n - d
  BY <1>1, HalfUpIsNear
<1> HIDE DEF n, d, v
<1>5. (2 * d) * v = 2 * (v * d)
  BY <1>1, <1>3, Z3
<1> QED
  BY <1>2, <1>4, <1>5 DEF n, d

(* What the rounding of a notional is worth per share makes up for it, and  *)
(* is the more the smaller the order.                                       *)
LEMMA RoundingCovers ==
  ASSUME NEW q \in Nat \ {0}
  PROVE  /\ notional_rounding(q) \in Nat
         /\ q * (2 * notional_rounding(q) + 1) > SHARE
         /\ q * (2 * notional_rounding(q) - 1) <= SHARE
<1> DEFINE m == SHARE + q
           u == 2 * q
           e == m \div u
<1>1. notional_rounding(q) = e
  BY DEF notional_rounding
<1>2. m \in Nat /\ u \in Nat \ {0} /\ SHARE \in Nat
  BY ShareAssumption
<1> HIDE DEF m, u
<1>3. e \in Nat /\ e * u <= m
  BY <1>2, DivBelow
<1>4. m < (e + 1) * u
  <2>1. m = u * e + (m % u) /\ m % u \in 0..(u - 1)
    BY <1>2, DivParts
  <2> HIDE DEF e
  <2>2. (e + 1) * u = u * e + u /\ u * e \in Nat
    BY <1>2, <1>3, Z3
  <2> QED
    BY <1>2, <2>1, <2>2
<1> HIDE DEF e
<1> USE DEF m, u
<1>5. /\ e * (2 * q) = 2 * (q * e) /\ (e + 1) * (2 * q) = 2 * (q * e) + 2 * q
      /\ q * (2 * e + 1) = 2 * (q * e) + q /\ q * (2 * e - 1) = 2 * (q * e) - q
      /\ q * e \in Nat
  BY <1>3, Z3
<1> QED
  BY <1>1, <1>2, <1>3, <1>4, <1>5

LEMMA TimesGrows ==
  \A x \in Nat : \A y, z \in Int : y <= z => x * y <= x * z /\ x * y \in Int /\ x * z \in Int
<1> SUFFICES ASSUME NEW x \in Nat, NEW y \in Int, NEW z \in Int, y <= z
             PROVE  x * y <= x * z /\ x * y \in Int /\ x * z \in Int
  OBVIOUS
<1>1. x * y \in Int /\ x * z \in Int /\ z - y \in Nat
  BY Z3
<1>2. x * (z - y) >= 0
  BY <1>1, Z3
<1>3. x * (z - y) = x * z - x * y
  BY Z3
<1> QED
  BY <1>1, <1>2, <1>3

LEMMA RoundingShrinks ==
  ASSUME NEW q \in Nat \ {0}, NEW k \in Nat \ {0}, q <= k
  PROVE  notional_rounding(k) <= notional_rounding(q)
<1> DEFINE e == notional_rounding(q)
           f == notional_rounding(k)
<1>1. e \in Nat /\ f \in Nat /\ SHARE \in Nat
      /\ q * (2 * e + 1) > SHARE /\ k * (2 * f - 1) <= SHARE
  BY RoundingCovers, ShareAssumption
<1> HIDE DEF e, f
<1>2. SUFFICES ASSUME f > e PROVE FALSE
  BY <1>1 DEF e, f
<1>3. 2 * e + 1 <= 2 * f - 1 /\ 2 * f - 1 \in Nat /\ 2 * e + 1 \in Nat
  BY <1>1, <1>2
<1>4. q * (2 * e + 1) <= q * (2 * f - 1) /\ q * (2 * e + 1) \in Int /\ q * (2 * f - 1) \in Int
  BY <1>3, TimesGrows
<1>5. q * (2 * f - 1) <= k * (2 * f - 1)
  <2> DEFINE u == 2 * f - 1
  <2>1. u * q <= u * k
    BY <1>3, TimesGrows
  <2>2. u * q = q * u /\ u * k = k * u
    BY <1>3, Z3
  <2> QED
    BY <2>1, <2>2
<1>6. k * (2 * f - 1) \in Int
  BY <1>3, TimesGrows
<1> QED
  BY <1>1, <1>4, <1>5, <1>6

(* Averaging in a fill at a price of the range keeps the average within it, *)
(* as far as it was: the fill pays for the rounding of its notional.        *)
LEMMA AverageIsBounded ==
  ASSUME NEW g \in Nat, NEW k \in Nat, NEW q \in Nat \ {0}, NEW p \in Nat,
         NEW low \in Nat, NEW high \in Nat, NEW e \in Nat,
         low <= p, p <= high, q * (2 * e + 1) > SHARE,
         g # 0 => low - e <= k /\ k <= high + e
  PROVE  LET c == money(g * k + value_of(q, p) * SHARE, g + q)
         IN  low - e <= c /\ c <= high + e
<1> DEFINE v == value_of(q, p) * SHARE
           n == g * k + v
           d == g + q
           c == (2 * n + d) \div (2 * d)
           D == d * c
<1>1. v \in Nat /\ SHARE \in Nat
  <2>1. value_of(q, p) \in Nat
    BY NotionalType
  <2> QED
    BY <2>1, ShareAssumption, Z3
<1>2. 2 * v <= 2 * (q * p) + SHARE /\ 2 * v > 2 * (q * p) - SHARE
  BY NotionalBound
<1>3. g * k \in Nat /\ n \in Nat /\ d \in Nat \ {0}
  BY <1>1, Z3
<1>4. c \in Nat /\ (2 * d) * c <= 2 * n + d /\ (2 * d) * c > 2 * n - d
  BY <1>3, HalfUpBound, HalfUpIsNear
<1>5. money(n, d) = c
  BY DEF money
<1> HIDE DEF v, c
<1>6. (2 * d) * c = 2 * D /\ D \in Int
  BY <1>3, <1>4, Z3
<1>7. /\ q * (2 * e + 1) = 2 * (q * e) + q /\ q * e \in Nat /\ q * p \in Nat
      /\ q * low \in Nat /\ q * high \in Nat
      /\ q * low <= q * p /\ q * p <= q * high
  <2>1. q * low <= q * p /\ q * p <= q * high
    BY TimesGrows
  <2> QED
    BY <2>1, Z3
<1>8. c <= high + e
  <2> SUFFICES ASSUME high + e + 1 <= c PROVE FALSE
    BY <1>4
  <2>1. d * (high + e + 1) <= D
    <3>1. high + e + 1 \in Int /\ c \in Int
      BY <1>4
    <3> QED
      BY <1>3, <3>1, TimesGrows
  <2>2. g * k <= g * (high + e)
    <3>1. CASE g = 0
      BY <3>1
    <3>2. CASE g # 0
      BY <3>2, TimesGrows
    <3> QED
      BY <3>1, <3>2
  <2>3. d * (high + e + 1) = g * (high + e) + q * high + q * e + d /\ g * (high + e) \in Int
    <3>1. (g + q) * (high + e + 1) = g * (high + e) + q * high + q * e + (g + q)
      BY Z3
    <3> QED
      BY <3>1, Z3
  <2> DEFINE G == g * (high + e)
             K == g * k
             Q == q * p
             H == q * high
             E == q * e
  <2>4. /\ K <= G /\ G + H + E + d <= D /\ 2 * D <= 2 * (K + v) + d
        /\ 2 * v <= 2 * Q + SHARE /\ Q <= H /\ 2 * E + q > SHARE
        /\ K \in Int /\ G \in Int /\ Q \in Int /\ H \in Int /\ E \in Int
    BY <1>2, <1>3, <1>4, <1>6, <1>7, <2>1, <2>2, <2>3
  <2> HIDE DEF G, K, Q, H, E, D
  <2> QED
    BY <1>1, <1>3, <1>6, <2>4
<1>9. low - e <= c
  <2> SUFFICES ASSUME c <= low - e - 1 PROVE FALSE
    BY <1>4
  <2>1. D <= d * (low - e - 1)
    <3>1. low - e - 1 \in Int /\ c \in Int
      BY <1>4
    <3> QED
      BY <1>3, <3>1, TimesGrows
  <2>2. g * (low - e) <= g * k
    <3>1. CASE g = 0
      BY <3>1
    <3>2. CASE g # 0
      BY <3>2, TimesGrows
    <3> QED
      BY <3>1, <3>2
  <2>3. d * (low - e - 1) = g * (low - e) + q * low - q * e - d /\ g * (low - e) \in Int
    <3>1. (g + q) * (low - e - 1) = g * (low - e) + q * low - q * e - (g + q)
      BY Z3
    <3> QED
      BY <3>1, Z3
  <2> DEFINE G == g * (low - e)
             K == g * k
             Q == q * p
             H == q * low
             E == q * e
  <2>4. /\ G <= K /\ D <= G + H - E - d /\ 2 * D > 2 * (K + v) - d
        /\ 2 * v > 2 * Q - SHARE /\ H <= Q /\ 2 * E + q > SHARE
        /\ K \in Int /\ G \in Int /\ Q \in Int /\ H \in Int /\ E \in Int
    BY <1>2, <1>3, <1>4, <1>6, <1>7, <2>1, <2>2, <2>3
  <2> HIDE DEF G, K, Q, H, E, D
  <2> QED
    BY <1>1, <1>3, <1>6, <2>4
<1> QED
  BY <1>5, <1>8, <1>9 DEF v

(* The range of the fills a position is made of holds its average cost; one *)
(* more fill widens the range to its own price.                             *)
InRange(fills, c) ==
  \E low, high, least \in fills :
    LET e == notional_rounding(least.quantity)
    IN  low.price - e <= c /\ c <= high.price + e

LEMMA FillWidens ==
  ASSUME NEW fills \in SUBSET [price: Nat, quantity: Nat \ {0}],
         NEW q \in Nat \ {0}, NEW p \in Nat, NEW h \in Nat, NEW k \in Nat,
         held_as_read(h) = 0 \/ InRange(fills, k)
  PROVE  InRange({[price |-> p, quantity |-> q]}
                   \cup (IF held_as_read(h) = 0 THEN {} ELSE fills),
                 cost_after("buy", q, p, h, k))
<1> DEFINE g == held_as_read(h)
           c == money(g * k + value_of(q, p) * SHARE, g + q)
           fill == [price |-> p, quantity |-> q]
           all == {fill} \cup (IF g = 0 THEN {} ELSE fills)
           Bounded(low, high, least) ==
             /\ low.price - notional_rounding(least.quantity) <= c
             /\ c <= high.price + notional_rounding(least.quantity)
<1>1. g \in Nat
  BY ReadType
<1>2. cost_after("buy", q, p, h, k) = c
  BY DEF cost_after
<1>3. fill \in all /\ fill.price = p /\ fill.quantity = q
  OBVIOUS
<1>4. SUFFICES ASSUME TRUE
               PROVE  \E low, high, least \in all : Bounded(low, high, least)
  BY <1>2 DEF InRange
<1>5. /\ notional_rounding(q) \in Nat
      /\ q * (2 * notional_rounding(q) + 1) > SHARE
  BY RoundingCovers
<1> HIDE DEF g, fill
<1>6. CASE g = 0
  <2>1. p - notional_rounding(q) <= c /\ c <= p + notional_rounding(q)
    <3> DEFINE e == notional_rounding(q)
    <3>1. e \in Nat /\ q * (2 * e + 1) > SHARE /\ p <= p /\ (g # 0 => p - e <= k /\ k <= p + e)
      BY <1>5, <1>6
    <3> HIDE DEF e
    <3> QED
      BY <1>1, <3>1, AverageIsBounded DEF e
  <2> HIDE DEF c
  <2>2. Bounded(fill, fill, fill)
    BY <1>3, <2>1
  <2> HIDE DEF Bounded, all
  <2> QED
    BY <1>3, <2>2
<1>7. CASE g # 0
  <2>1. PICK l \in fills, t \in fills, m \in fills :
               /\ l.price - notional_rounding(m.quantity) <= k
               /\ k <= t.price + notional_rounding(m.quantity)
    BY <1>7 DEF InRange, g
  <2>2. /\ l.price \in Nat /\ t.price \in Nat /\ m.quantity \in Nat \ {0}
        /\ l \in all /\ t \in all /\ m \in all
    BY <1>7
  <2>3. PICK low \in {l, fill} : low.price <= l.price /\ low.price <= p
    BY <1>3, <2>2
  <2>4. PICK high \in {t, fill} : t.price <= high.price /\ p <= high.price
    BY <1>3, <2>2
  <2>5. PICK least \in {m, fill} : least.quantity <= m.quantity /\ least.quantity <= q
    BY <1>3, <2>2
  <2>6. /\ low.price \in Nat /\ high.price \in Nat /\ least.quantity \in Nat \ {0}
        /\ low \in all /\ high \in all /\ least \in all
    BY <1>3, <2>2, <2>3, <2>4, <2>5
  <2> DEFINE e == notional_rounding(least.quantity)
             f == notional_rounding(m.quantity)
  <2>7. /\ e \in Nat /\ f \in Nat /\ f <= e
        /\ least.quantity * (2 * e + 1) > SHARE
    BY <2>2, <2>5, <2>6, RoundingCovers, RoundingShrinks
  <2>8. l.price - f <= k /\ k <= t.price + f
    BY <2>1
  <2> HIDE DEF e, f
  <2>9. low.price - e <= k /\ k <= high.price + e
    BY <2>2, <2>3, <2>4, <2>6, <2>7, <2>8
  <2>10. q * (2 * e + 1) > SHARE
    <3> DEFINE u == 2 * e + 1
               x == least.quantity
    <3>1. u \in Nat /\ x \in Nat /\ x <= q
      BY <2>5, <2>6, <2>7
    <3>2. u * x <= u * q /\ u * x \in Int /\ u * q \in Int
      BY <3>1, TimesGrows
    <3>3. u * x = x * u /\ u * q = q * u
      BY <3>1, Z3
    <3>4. SHARE \in Nat
      BY ShareAssumption
    <3> QED
      BY <2>7, <3>2, <3>3, <3>4
  <2>11. low.price - e <= c /\ c <= high.price + e
    BY <1>1, <2>3, <2>4, <2>6, <2>7, <2>9, <2>10, AverageIsBounded
  <2> HIDE DEF c
  <2>12. Bounded(low, high, least)
    BY <2>11 DEF e
  <2> HIDE DEF Bounded, all
  <2> QED
    BY <2>6, <2>12
<1> QED
  BY <1>6, <1>7

LEMMA CostStep == BrokerInv /\ CostInv /\ [BrokerNext]_brokerVars => CostInv'
<1> SUFFICES ASSUME BrokerInv, CostInv, [BrokerNext]_brokerVars PROVE CostInv'
  OBVIOUS
<1>0. CostIsBounded <=> \A s \in Symbols : bought[s] # {} => InRange(bought[s], cost[s])
  BY DEF CostIsBounded, InRange
<1>1. ASSUME NEW w \in Workers, Commit(w) PROVE CostInv'
  <2> DEFINE o == order[w]
             s == o.symbol
             price == read[w].price
             fill == [price |-> price, quantity |-> o.quantity]
             new == cost_after(o.side, o.quantity, price, position[s], cost[s])
  <2>1. /\ o \in Order /\ o.quantity > 0 /\ read[w].held = position[s]
        /\ locked = w /\ pc[w] = "decide"
    BY <1>1, AtCommit
  <2>2. /\ s \in Symbols /\ o.side \in {"buy", "sell"} /\ o.quantity \in Nat \ {0}
        /\ price \in Nat /\ position[s] \in Nat /\ cost[s] \in Nat
    BY <2>1, BrokerAssumption DEF Order, BrokerInv, BrokerTypeOK
  <2>3. read[w].cost = cost[s]
    BY <2>1 DEF CostInv
  <2>4. /\ cost' = [cost EXCEPT ![s] = new] /\ UNCHANGED <<order, read>>
        /\ pc' = [pc EXCEPT ![w] = "filled"]
    BY <1>1, <2>1, <2>3 DEF Commit, Goto
  <2>5. \A v \in Workers : pc'[v] = "decide" => pc[v] = "decide" /\ v # w
    BY <2>4 DEF BrokerInv, BrokerTypeOK
  <2>6. \A v \in Workers : pc'[v] # "decide"
    BY <2>1, <2>5 DEF BrokerInv, LockInv
  <2>7. CASE o.side = "buy"
    <3> DEFINE all == {fill} \cup (IF held_as_read(position[s]) = 0 THEN {} ELSE bought[s])
    <3>1. bought' = [bought EXCEPT ![s] = all]
      BY <1>1, <2>1, <2>7 DEF Commit
    <3>2. bought[s] \in SUBSET [price: Nat, quantity: Nat \ {0}]
      BY <2>2 DEF BrokerInv, BrokerTypeOK
    <3>3. bought[s] # {} => InRange(bought[s], cost[s])
      BY <1>0, <2>2 DEF CostInv
    <3>4. held_as_read(position[s]) = 0 \/ bought[s] # {}
      BY <2>2, NothingReadsAsNothing DEF BrokerInv, HeldInv
    <3>5. InRange(all, new)
      BY <2>2, <2>7, <3>2, <3>3, <3>4, FillWidens
    <3> HIDE DEF all, new
    <3>6. \A r \in Symbols : bought'[r] # {} => InRange(bought'[r], cost'[r])
      BY <1>0, <2>2, <2>4, <3>1, <3>5 DEF CostInv, BrokerInv, BrokerTypeOK
    <3>7. CostIsBounded'
      BY <3>6 DEF CostIsBounded, InRange
    <3> QED
      BY <2>6, <3>7 DEF CostInv
  <2>8. CASE o.side = "sell"
    <3>1. bought' = bought
      BY <1>1, <2>8 DEF Commit
    <3>2. new = cost[s]
      BY <2>8 DEF cost_after
    <3>3. cost' = cost
      BY <2>2, <2>4, <3>2 DEF BrokerInv, BrokerTypeOK
    <3> QED
      BY <2>6, <3>1, <3>3 DEF CostInv, CostIsBounded
  <2> QED
    BY <2>2, <2>7, <2>8
<1>2. ASSUME NEW w \in Workers, ReadPosition(w) PROVE CostInv'
  <2>1. /\ pc' = [pc EXCEPT ![w] = "decide"] /\ UNCHANGED <<cost, order, bought>>
        /\ read'[w].cost = cost[order[w].symbol]
        /\ \A v \in Workers \ {w} : read'[v] = read[v]
    BY <1>2 DEF ReadPosition, Goto, BrokerInv, BrokerTypeOK
  <2>2. CostIsBounded'
    BY <2>1 DEF CostInv, CostIsBounded
  <2> QED
    BY <2>1, <2>2 DEF CostInv, BrokerInv, BrokerTypeOK
<1>3. ASSUME NEW w \in Workers, ReadAccount(w) PROVE CostInv'
  <2>1. /\ pc' = [pc EXCEPT ![w] = "position"] /\ UNCHANGED <<cost, order, bought>>
        /\ \A v \in Workers \ {w} : read'[v] = read[v]
    BY <1>3 DEF ReadAccount, Goto, BrokerInv, BrokerTypeOK
  <2> QED
    BY <2>1 DEF CostInv, CostIsBounded, BrokerInv, BrokerTypeOK
<1>4. ASSUME NEW w \in Workers, NoAccount(w) \/ RejectOrder(w) \/ ReportFill(w) \/ Crash(w)
      PROVE  CostInv'
  <2>1. /\ \E there \in {"idle"} : pc' = [pc EXCEPT ![w] = there]
        /\ UNCHANGED <<cost, order, read, bought>>
    BY <1>4 DEF NoAccount, RejectOrder, ReportFill, Crash, Return, Goto
  <2> QED
    BY <2>1 DEF CostInv, CostIsBounded, BrokerInv, BrokerTypeOK
<1>5. ASSUME NEW w \in Workers, NEW o \in Orders, PlaceOrder(w, o) PROVE CostInv'
  <2>1. /\ \E there \in {"account", "idle"} : pc' = [pc EXCEPT ![w] = there]
        /\ UNCHANGED <<cost, bought>>
        /\ \A v \in Workers \ {w} : order'[v] = order[v] /\ read'[v] = read[v]
    BY <1>5 DEF PlaceOrder, Return, Goto, BrokerInv, BrokerTypeOK
  <2> QED
    BY <2>1 DEF CostInv, CostIsBounded, BrokerInv, BrokerTypeOK
<1>6. CASE EnsureAccount \/ UNCHANGED brokerVars
  <2>1. UNCHANGED <<cost, order, read, pc, bought>>
    BY <1>6 DEF EnsureAccount, brokerVars
  <2> QED
    BY <2>1 DEF CostInv, CostIsBounded
<1> QED
  BY <1>1, <1>2, <1>3, <1>4, <1>5, <1>6 DEF BrokerNext, Step

(* However calls interleave and whatever the quotes, the average cost of a  *)
(* position stays within the prices paid for it since it was last empty,    *)
(* but for what rounding the smallest of its buys is worth per share        *)
(* (place_order's weighted average).                                        *)
THEOREM CostStaysBounded == BrokerSpec => []CostIsBounded
<1>1. BrokerInit => CostInv
  BY DEF BrokerInit, CostInv, CostIsBounded
<1>2. CostInv => CostIsBounded
  BY DEF CostInv
<1> QED
  BY <1>1, <1>2, CostStep, BrokerInductive, PTL DEF BrokerSpec
=============================================================================
