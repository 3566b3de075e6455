-------------------------------- MODULE MCWeb -------------------------------
(***************************************************************************)
(* One tab, and one other client of the API who makes and renames bots of  *)
(* the same names, replaces a basket, starts, stops and deletes.  What is  *)
(* typed: a name plain, padded and of blanks; symbols that are lower-case, *)
(* padded, twice there or none; percentages with two decimals and three;   *)
(* numbers left out or out of bounds.                                      *)
(***************************************************************************)
EXTENDS BotPage, MCTexts

NoBody == [f \in Fields |-> Absent]
Whole == List(<<[symbol |-> Text("B"), weight_bps |-> Number(10000000)]>>)
MCBodies ==
  { [NoBody EXCEPT !.name = Text("m"), !.investment_amount = Number(100000),
       !.trigger_type = Text("schedule"), !.interval_minutes = Number(60000),
       !.targets = Whole] }
MCPatches ==
  { [NoBody EXCEPT !.name = Text("n "), !.targets = Whole],
    [NoBody EXCEPT !.interval_minutes = JsonNull] }

MCTyped ==
  [name |-> {"n", " "}, trigger_type |-> {"schedule", "drift"},
   interval_minutes |-> {Blank}, drift_threshold |-> {1005, 101000}]
MCSymbols == {"", "a", "A ", "A B"}
MCPercents == {Blank, 40001, 65000}
MCSlip == [x \in 0..110000 |-> IF x % 3 = 0 THEN -1 ELSE x % 2]
=============================================================================
