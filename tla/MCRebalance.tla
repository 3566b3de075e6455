---------------------------- MODULE MCRebalance ----------------------------
(***************************************************************************)
(* Calls of build_plan for TLC: two basket symbols and one that may have   *)
(* dropped out of the basket, six quantity grains to the share of which    *)
(* the broker reads every third, prices that divide nothing evenly.        *)
(***************************************************************************)
EXTENDS RebalanceLoop, TLC

MCSymbols == 1..3

MCTargets ==
  {(1 :> 5000) @@ (2 :> 5000), (1 :> 2500) @@ (2 :> 7500),
   (1 :> 3334) @@ (2 :> 3333) @@ (3 :> 3333), (2 :> 10000) @@ (3 :> 0)}

MCSettings ==
  [investment_amount: {60, 400}, min_order_value: {0, 14},
   cash_buffer_bps: {0, 1000}, allow_fractional: BOOLEAN, max_orders: {1, 2, 25}]

(* None, six shares, or one and a bit: 7 is read as 6, and 8 as 9. *)
MCHoldings == {<<a, b, c>> : a \in {0, 7, 36}, b \in {0, 7, 36}, c \in {0, 8, 36}}

ValidCalls ==
  [cash: {0, 150}, held: MCHoldings,
   price: {<<7, 12, 5>>, <<3, 11, 17>>}, targets: MCTargets,
   settings: MCSettings]

(* What the venue or the database can get wrong: no quote for a symbol, a  *)
(* margin account below zero, a basket that does not total 100%.           *)
OneSetting == CHOOSE s \in MCSettings : s.max_orders = 25
InvalidCalls ==
  [cash: {-1, 30}, held: [MCSymbols -> {0, 5}], price: {<<7, 0, 5>>, <<7, 12, 5>>},
   targets: {<<>>, 1 :> 5000}, settings: {OneSetting}]

MCCalls == ValidCalls \cup InvalidCalls

(* Eighths of a share, of which the venue reads halves: a position bought   *)
(* fractionally, and then dropped from the basket.                          *)
FractionalCalls ==
  {[cash |-> 0, held |-> (1 :> 0) @@ (2 :> 0) @@ (3 :> h), price |-> <<7, 12, 5>>,
    targets |-> (1 :> 5000) @@ (2 :> 5000),
    settings |-> [investment_amount |-> 60, min_order_value |-> 0,
                  cash_buffer_bps |-> 0, allow_fractional |-> TRUE,
                  max_orders |-> 25]] : h \in {4, 5, 8, 9}}
=============================================================================
