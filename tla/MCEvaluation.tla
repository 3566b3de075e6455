---------------------------- MODULE MCEvaluation ----------------------------
(***************************************************************************)
(* One bot of two symbols.  Who evaluates it, what may go wrong and what   *)
(* the user does are set in each configuration.                            *)
(***************************************************************************)
EXTENDS Evaluation

MCSymbols == 1..2
Both == (1 :> 5000) @@ (2 :> 5000)
One == 1 :> 10000
MCBaskets == {Both, One}
OneBasket == {Both}
MCPrices == {<<2, 3>>, <<4, 3>>}
OneDay == {<<2, 3>>}

Investing(amount) ==
  [investment_amount |-> amount, min_order_value |-> 0, cash_buffer_bps |-> 0,
   allow_fractional |-> FALSE, max_orders |-> 25]
MCSettings == {Investing(20)}

Every(interval) ==
  [trigger_type |-> "schedule", interval |-> interval, drift_threshold_bps |-> 0]
OnSchedule == {Every(2)}
OnTwoSchedules == {Every(2), Every(1)}

(* The engines do the same, and the invariants tell none from another. *)
Engines == Permutations(Schedulers)
=============================================================================
