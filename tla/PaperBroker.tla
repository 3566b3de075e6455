---------------------------- MODULE PaperBroker ----------------------------
(***************************************************************************)
(* MockBroker.place_order, api/src/engine/brokers/mock.py, called for one  *)
(* account by several evaluations at once: the scheduler's, a manual run,  *)
(* another engine's.                                                       *)
(*                                                                         *)
(* place_order is one transaction.  Its reads take row locks (`for         *)
(* update`): the account's row first, then the position's.  Its two writes *)
(* become visible together when it commits; an exception or a crash before *)
(* that rolls them back.  Calls are cut at each statement that can wait or *)
(* that another transaction can see.                                       *)
(***************************************************************************)
EXTENDS PaperFill, FiniteSets

CONSTANTS Workers,        \* callers of place_order
          Symbols,
          Orders,         \* orders they may place: [symbol, side, quantity]
          Quotes,         \* what each symbol may be quoted at: a caller's
                          \* broker quotes the day it was made on
          StartingCash,
          MaxCalls,       \* bound on the number of calls
          None

Order == [symbol: Symbols, side: {"buy", "sell"}, quantity: Nat]

ASSUME BrokerAssumption ==
  /\ Orders \subseteq Order
  /\ Quotes \in [Symbols -> SUBSET (Nat \ {0})]
  /\ StartingCash \in Nat /\ MaxCalls \in Nat
  /\ None \notin Workers /\ None \notin Orders

VARIABLES open,       \* the account row exists
          cash,       \* private.paper_accounts.cash
          position,   \* private.paper_positions.quantity
          cost,       \* private.paper_positions.avg_cost
          locked,     \* transaction holding the account row, or None
          pc,         \* where each caller is
          order,      \* the order it is placing
          read,       \* the quote it was given, and what it read under its locks
          answer,     \* what its last call returned
          calls,      \* calls begun
          paid, received,  \* history: money of committed buys and sells
          bought      \* history: the buys since the position was last empty

brokerVars == <<open, cash, position, cost, locked, pc, order, read, answer,
                calls, paid, received, bought>>

Answers == {"none", "filled", "rejected", "error", "lost"}

BrokerInit ==
  /\ open = FALSE /\ cash = StartingCash
  /\ position = [s \in Symbols |-> 0] /\ cost = [s \in Symbols |-> 0]
  /\ locked = None
  /\ pc = [w \in Workers |-> "idle"] /\ order = [w \in Workers |-> None]
  /\ read = [w \in Workers |-> [price |-> 0, cash |-> 0, held |-> 0, cost |-> 0]]
  /\ answer = [w \in Workers |-> "none"]
  /\ calls = 0 /\ paid = 0 /\ received = 0 /\ bought = [s \in Symbols |-> {}]

Goto(w, there) == pc' = [pc EXCEPT ![w] = there]
Return(w, a) == Goto(w, "idle") /\ answer' = [answer EXCEPT ![w] = a]

(* get_account -> _ensure_account: inserts the row with the starting cash,  *)
(* or takes the row (and waits for its lock) and writes its cash back.      *)
EnsureAccount ==
  /\ locked = None
  /\ open' = TRUE
  /\ UNCHANGED <<cash, position, cost, locked, pc, order, read, answer, calls,
                 paid, received, bought>>

(* A non-positive quantity raises before the transaction begins. *)
PlaceOrder(w, o) ==
  /\ pc[w] = "idle" /\ calls < MaxCalls
  /\ calls' = calls + 1
  /\ order' = [order EXCEPT ![w] = o]
  /\ \/ /\ o.quantity > 0
        /\ Goto(w, "account") /\ answer' = [answer EXCEPT ![w] = "none"]
        /\ \E price \in Quotes[o.symbol] : read' = [read EXCEPT ![w].price = price]
     \/ /\ o.quantity <= 0
        /\ Return(w, "error") /\ UNCHANGED read
  /\ UNCHANGED <<open, cash, position, cost, locked, paid, received, bought>>

(* select cash ... for update *)
ReadAccount_unlocked(w) ==
  /\ pc[w] = "account" /\ open
  /\ Goto(w, "position")
  /\ read' = [read EXCEPT ![w].cash = cash]
  /\ UNCHANGED <<open, cash, position, cost, locked, order, answer, calls,
                 paid, received, bought>>
ReadAccount(w) ==
  /\ pc[w] = "account" /\ open /\ locked = None
  /\ locked' = w
  /\ Goto(w, "position")
  /\ read' = [read EXCEPT ![w].cash = cash]
  /\ UNCHANGED <<open, cash, position, cost, order, answer, calls, paid, received,
                 bought>>

NoAccount(w) ==
  /\ pc[w] = "account" /\ ~open
  /\ Return(w, "error")
  /\ UNCHANGED <<open, cash, position, cost, locked, order, read, calls, paid,
                 received, bought>>

(* select quantity, avg_cost ... for update *)
ReadPosition(w) ==
  /\ pc[w] = "position"
  /\ Goto(w, "decide")
  /\ read' = [read EXCEPT ![w].held = position[order[w].symbol],
                          ![w].cost = cost[order[w].symbol]]
  /\ UNCHANGED <<open, cash, position, cost, locked, order, answer, calls, paid,
                 received, bought>>

Accepted(w) ==
  LET o == order[w] IN
  accepts(o.side, o.quantity, read[w].price, read[w].cash, read[w].held)

Unlock(w) == locked' = IF locked = w THEN None ELSE locked

RejectOrder_retrying(w) ==
  /\ pc[w] = "decide" /\ ~Accepted(w)
  /\ Goto(w, "account") /\ Unlock(w)
  /\ UNCHANGED <<open, cash, position, cost, order, read, answer, calls, paid,
                 received, bought>>
RejectOrder(w) ==
  /\ pc[w] = "decide" /\ ~Accepted(w)
  /\ Return(w, "rejected") /\ Unlock(w)
  /\ UNCHANGED <<open, cash, position, cost, order, read, calls, paid, received,
                 bought>>

(* Both updates, and the commit that shows them. *)
Commit(w) ==
  LET o == order[w]
      s == o.symbol
      price == read[w].price
      held == read[w].held
      notional == value_of(o.quantity, price)
      fill == [price |-> price, quantity |-> o.quantity]
  IN
  /\ pc[w] = "decide" /\ Accepted(w)
  /\ cash' = cash_after(o.side, o.quantity, price, read[w].cash)
  /\ position' = [position EXCEPT ![s] = qty_after(o.side, o.quantity, held)]
  /\ cost' = [cost EXCEPT ![s] = cost_after(o.side, o.quantity, price, held,
                                            read[w].cost)]
  /\ \/ /\ o.side = "buy" /\ paid' = paid + notional /\ UNCHANGED received
        /\ bought' = [bought EXCEPT ![s] =
                        {fill} \cup IF held_as_read(held) = 0 THEN {} ELSE @]
     \/ /\ o.side = "sell" /\ received' = received + notional
        /\ UNCHANGED <<paid, bought>>
  /\ Goto(w, "filled") /\ Unlock(w)
  /\ UNCHANGED <<open, order, read, answer, calls>>

ReportFill(w) ==
  /\ pc[w] = "filled"
  /\ Return(w, "filled")
  /\ UNCHANGED <<open, cash, position, cost, locked, order, read, calls, paid,
                 received, bought>>

(* The engine dies or the task is cancelled: an open transaction is rolled  *)
(* back, a committed one stands but its caller never hears of it.           *)
Crash(w) ==
  /\ pc[w] # "idle"
  /\ Return(w, "lost") /\ Unlock(w)
  /\ UNCHANGED <<open, cash, position, cost, order, read, calls, paid, received,
                 bought>>

Step(w) == \/ ReadAccount(w) \/ NoAccount(w) \/ ReadPosition(w)
           \/ RejectOrder(w) \/ Commit(w) \/ ReportFill(w)

BrokerNext ==
  \/ EnsureAccount
  \/ \E w \in Workers : \/ Step(w) \/ Crash(w)
                        \/ \E o \in Orders : PlaceOrder(w, o)

(* Postgres grants a contended row lock in the order it was asked for, and  *)
(* a call that is not waiting goes on: each caller's steps are strongly     *)
(* fair.  Nothing is assumed of EnsureAccount, of crashes or of new calls.  *)
BrokerSpec == /\ BrokerInit /\ [][BrokerNext]_brokerVars
              /\ \A w \in Workers : SF_brokerVars(Step(w))

-----------------------------------------------------------------------------
BrokerTypeOK ==
  /\ open \in BOOLEAN /\ cash \in Nat
  /\ position \in [Symbols -> Nat] /\ cost \in [Symbols -> Nat]
  /\ locked \in Workers \cup {None}
  /\ pc \in [Workers -> {"idle", "account", "position", "decide", "filled"}]
  /\ order \in [Workers -> Orders \cup {None}]
  /\ read \in [Workers -> [price: Nat, cash: Nat, held: Nat, cost: Nat]]
  /\ answer \in [Workers -> Answers]
  /\ calls \in 0..MaxCalls /\ paid \in Nat /\ received \in Nat
  /\ bought \in [Symbols -> SUBSET [price: Nat, quantity: Nat \ {0}]]

(* The books balance: whatever the interleaving of the callers and wherever *)
(* one of them crashes, the cash is what it started with, less what the     *)
(* committed buys cost, plus what the committed sells brought ("a crash     *)
(* between the two leaves a portfolio that does not add up").               *)
BooksBalance == cash = StartingCash + received - paid

(* Callers take effect one at a time and only within their means: the       *)
(* broker implements the abstract ledger.  "Means" is a position as it is   *)
(* read, four of its eight decimals (mock.py: `held = money(...)`): a sell  *)
(* may take a little more than is stored, or be turned down for it.         *)
L == INSTANCE Ledger
AtomicOrders == L!LedgerSpec

(* Every call is answered: the locks cannot deadlock two callers.           *)
EveryCallReturns == \A w \in Workers : (pc[w] # "idle") ~> (pc[w] = "idle")

(* The average cost of a position never leaves the range of the prices paid *)
(* for it since it was last empty, whatever was sold in between, but for    *)
(* the rounding of a notional: half a grain of money, which to the share is *)
(* the more the smaller the order (one grain at most for a whole share).    *)
notional_rounding(qty) == (SHARE + qty) \div (2 * qty)
CostIsBounded ==
  \A s \in Symbols : bought[s] # {} =>
    \E low, high, least \in bought[s] :
      LET e == notional_rounding(least.quantity)
      IN  low.price - e <= cost[s] /\ cost[s] <= high.price + e
=============================================================================
