------------------------------- MODULE MCTexts ------------------------------
(***************************************************************************)
(* The few texts that the instances type, and what JavaScript makes of     *)
(* them: a lower-case symbol, a padded one, one with a space inside,       *)
(* blanks, a name plain and padded, a currency, a text that reads as a     *)
(* number.                                                                 *)
(***************************************************************************)
EXTENDS Validation, TLC

Texts == {"", " ", "A", "a", "A ", "B", "C", "A B", "n", "n ", "m", "USD", "usd", "5000", "k",
          "key1", "key2", "bad1", "  k "}

MCTrim == (" " :> "") @@ ("A " :> "A") @@ ("n " :> "n") @@ ("  k " :> "k")
            @@ [t \in Texts |-> t]
MCUpper == ("a" :> "A") @@ ("n" :> "N") @@ ("n " :> "N ") @@ ("m" :> "M")
             @@ ("usd" :> "USD") @@ [t \in Texts |-> t]
MCLength == ("" :> 0) @@ ("A " :> 2) @@ ("n " :> 2) @@ ("A B" :> 3) @@ ("USD" :> 3)
             @@ ("usd" :> 3) @@ ("5000" :> 4) @@ [t \in {"key1", "key2", "bad1", "  k "} |-> 4]
             @@ [t \in Texts |-> 1]
MCNumberOf == ("" :> 0) @@ (" " :> 0) @@ ("5000" :> 5000000) @@ [t \in Texts |-> NaN]
MCSymbolTexts == {"A", "B", "C", "USD", "5000"}
MCCurrencyTexts == {"USD"}
=============================================================================
