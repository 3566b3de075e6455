----------------------------- MODULE MCBotStore -----------------------------
(***************************************************************************)
(* Two requests at a time on one bot.  Bodies of which some are refused;   *)
(* patches that are sound alone and clash together: one drops the          *)
(* interval, one wants the schedule, one replaces the basket; and baskets  *)
(* that do not add up.  Or bodies and patches that give two bots each      *)
(* other's names.                                                          *)
(***************************************************************************)
EXTENDS BotStore, MCTexts

Row(symbol, weight) == [symbol |-> Text(symbol), weight_bps |-> weight]
Half == List(<<Row("A", List(<<Text("5000")>>)), Row("B", Text("5000"))>>)
Short == List(<<Row("A", Number(5000000)), Row("B", Number(4000000))>>)
Twice == List(<<Row("A", Number(5000000)), Row("a", Number(5000000))>>)
Whole == List(<<Row("B", Number(10000000)), Row("C", List(<<>>))>>)

NoBody == [f \in Fields |-> Absent]
MCBodies ==
  { [NoBody EXCEPT !.name = Text("n "), !.base_currency = Text("usd"),
       !.investment_amount = Number(100000), !.trigger_type = Text(trigger),
       !.interval_minutes = interval, !.drift_threshold_bps = threshold,
       !.allow_fractional = JsonNull, !.targets = rows] :
    trigger \in TriggerTypes \cup {"often"}, interval \in {JsonNull, Number(60000)},
    threshold \in {Text(""), Number(500000)}, rows \in {Half, Short, Twice, List(<<>>)} }

MCPatches ==
  { [NoBody EXCEPT !.interval_minutes = JsonNull],
    [NoBody EXCEPT !.trigger_type = Text("drift")],
    [NoBody EXCEPT !.trigger_type = Text("schedule"), !.interval_minutes = Number(30000)],
    [NoBody EXCEPT !.trigger_type = Text("schedule"), !.interval_minutes = Number(500)],
    [NoBody EXCEPT !.targets = Whole],
    [NoBody EXCEPT !.targets = Short] }

MCNamedBodies ==
  { [NoBody EXCEPT !.name = Text("n"), !.investment_amount = Number(100000),
       !.trigger_type = Text("schedule"), !.interval_minutes = Number(60000),
       !.targets = Half] }
MCRenames == { [NoBody EXCEPT !.name = Text(name)] : name \in {"m", "k"} }
=============================================================================
