--------------------------- MODULE RebalanceLoop ---------------------------
(***************************************************************************)
(* The planner in a closed loop with the paper broker: plan, place every   *)
(* order of the plan in order, plan again.  Prices stand still, so what    *)
(* the bot does is settle; what it does when it has settled is nothing.    *)
(***************************************************************************)
EXTENDS Rebalance, PaperFill

CONSTANT MaxMisread    \* bound on the plans made again of a misread position

ASSUME MaxMisreadAssumption == MaxMisread \in Nat

VARIABLES cash, held,  \* the account at the broker; call has it as it was read
          placed,      \* orders of this plan handed to the broker
          rejected,    \* orders of this plan it turned down
          pass,        \* "first" call, or one after "whole" or "part" shares
          misread      \* plans made again of a position the broker misreads

loopVars == <<cash, held, placed, rejected, pass, misread>>
allVars == <<vars, loopVars>>

LoopInit == /\ Init /\ cash = call.cash /\ held = call.held
            /\ placed = 0 /\ rejected = 0 /\ pass = "first" /\ misread = 0

Plan == Next /\ UNCHANGED loopVars

(* One iteration of the submit loop of _execute, filled at the planned price. *)
Place ==
  LET o == orders[placed + 1]
      price == call.price[o.symbol]
  IN
  /\ pc = "done" /\ placed < Len(orders)
  /\ placed' = placed + 1
  /\ IF accepts(o.side, o.quantity, price, cash, held[o.symbol])
     THEN /\ cash' = cash_after(o.side, o.quantity, price, cash)
          /\ held' = [held EXCEPT ![o.symbol] = qty_after(o.side, o.quantity, @)]
          /\ UNCHANGED rejected
     ELSE /\ rejected' = rejected + 1
          /\ UNCHANGED <<cash, held>>
  /\ UNCHANGED <<vars, pass, misread>>

(* A fraction may be held by a bot that trades whole shares: its setting    *)
(* can change, and the broker's other positions are not its doing.          *)
HoldsWholeShares == \A s \in Symbols : call.held[s] % SHARE = 0

(* A position is stored with eight decimals, and read with four when an     *)
(* order comes for it: the fifth and the later ones are rounded away, or up.*)
Misread == \E s \in Symbols : held_as_read(held[s]) # held[s]

(* The next evaluation reads the account afresh.  Reading a fraction up can *)
(* go on adding to the account, so the plans made of one are bounded.       *)
PlanAgain ==
  /\ pc = "done" /\ placed = Len(orders) /\ orders # <<>>
  /\ Misread => misread < MaxMisread
  /\ misread' = IF Misread THEN misread + 1 ELSE misread
  /\ call' = [call EXCEPT !.cash = cash, !.held = held]
  /\ pc' = "validate" /\ todo' = {}
  /\ positions_value' = 0 /\ proceeds' = 0 /\ remaining' = 0
  /\ orders' = <<>> /\ skipped' = {} /\ raised' = 0 /\ spent' = 0
  /\ placed' = 0 /\ rejected' = 0
  /\ pass' = IF HoldsWholeShares THEN "whole" ELSE "part"
  /\ UNCHANGED <<cash, held>>

LoopNext == Plan \/ Place \/ PlanAgain

LoopSpec == LoopInit /\ [][LoopNext]_allVars /\ WF_allVars(LoopNext)

-----------------------------------------------------------------------------
AllPlaced == Done /\ placed = Len(orders)

(* The functional form of the planner, used by the modules that call it in  *)
(* one step, returns the plan the loops compute, and raises where they do.  *)
B == INSTANCE BuildPlan
LoopsComputeBuildPlan ==
  /\ pc = "error" => ~B!plannable(call)
  /\ Done => B!plannable(call) /\ orders = B!ordered(call)

(* A plan made from the account the broker holds is a plan the broker       *)
(* carries out: no order is turned down, and the cash ends exactly at the   *)
(* plan's projection.  The exception is a position with more decimals than  *)
(* the broker reads, when they round down: a sell of all of it is then      *)
(* turned down for the rest (mock.py: `held = money(row["quantity"])`).     *)
ReadInFull == \A s \in Symbols : call.held[s] <= held_as_read(call.held[s])
PlanIsCarriedOut ==
  AllPlaced /\ ReadInFull => rejected = 0 /\ cash = projected_cash_after

(* Nothing is left to trade: settled. *)
Settled == AllPlaced /\ orders = <<>>

(* With whole shares and no cap in the way, one plan does all there is to   *)
(* do: planned again at the same prices, the bot is idle.  Otherwise every  *)
(* evaluation would churn the account.  A fraction sold on the way out may  *)
(* round the value of the portfolio, and one share more is then affordable. *)
OnePassSuffices ==
  Done /\ pass = "whole" /\ ~call.settings.allow_fractional
       /\ call.settings.max_orders >= Cardinality(Symbols) => orders = <<>>

(* However low the cap, and with fractional shares and rounding too, the    *)
(* bot comes to rest: it does not trade back and forth for ever.  Two kinds *)
(* of bot may: one that holds a fraction the broker misreads, whose exit is *)
(* turned down or leaves something at every evaluation; and a fractional    *)
(* bot whose minimum order value is no more than what rounding adds, one    *)
(* grain at a time, when what a grain and what its target are worth round   *)
(* apart.                                                                   *)
TradesGrains == call.settings.allow_fractional /\ call.settings.min_order_value <= 1
EventuallySettles == <>[](Settled \/ pc = "error" \/ TradesGrains \/ Misread)

(* At rest, what fell out of the basket is gone, down to what is not worth  *)
(* an order: less than the minimum, or nothing at all once it is rounded.   *)
RestIsLiquidated ==
  Settled /\ call.settings.max_orders > 0 =>
    \A s \in Held \ Basket :
      LET rest == value_of(held[s], call.price[s])
      IN  rest < call.settings.min_order_value \/ rest = 0

(* At rest the whole portfolio is on target, but for what rounding and the  *)
(* minimum order value keep from being traded: a bot is not left short by   *)
(* its own cash buffer ("a bot at rest reads as 0 bps of drift").           *)
Slack(s) ==
  LET unit == IF call.settings.allow_fractional
              THEN call.price[s] \div SHARE ELSE call.price[s]
  IN  unit + call.settings.min_order_value + 2

RestIsOnTarget ==
  Settled /\ call.settings.max_orders > 0 =>
    \A s \in Universe :
      Abs(delta(s)) <= SumFunction([t \in Universe |-> Slack(t)])

-----------------------------------------------------------------------------
(* What the repository says and the run that carries this name refutes. *)

(* "Exit the whole position. Rounding to whole shares here would strand a   *)
(* fractional remainder forever" (rebalance.py): a position that has left   *)
(* the basket is gone once its sell has been placed.                        *)
ExitsAreWhole ==
  AllPlaced => \A i \in DOMAIN orders :
    orders[i].symbol \notin Basket => held[orders[i].symbol] = 0
=============================================================================
