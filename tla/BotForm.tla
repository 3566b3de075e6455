------------------------------- MODULE BotForm ------------------------------
(***************************************************************************)
(* The form that creates a bot (web/components/bot-form.tsx), from the     *)
(* keys the user presses to the row in the database: the checks of the     *)
(* browser and of lib/targets.ts, the request, the checks of the API and   *)
(* of create_bot, and the answer, which may be lost on its way.  Other     *)
(* clients use the API meanwhile.                                          *)
(*                                                                         *)
(* A number is typed as thousandths, or left Blank.  Percentages become    *)
(* basis points in binary floating point: Slip is what the product is off, *)
(* in thousandths of a point, which is more than it ever is.               *)
(***************************************************************************)
EXTENDS BotStore, Api

CONSTANTS Tab,        \* the client that is the user's browser
          Typed,      \* field of the form -> what the user may type in it
          Symbols, Percents,
          Slip,       \* typed percentage -> error of the product by 100
          Blank,
          MaxInputs    \* bound on what the world does: a field edited, an
                       \* answer lost, a request of another client, a run

VARIABLES form,   \* the fields and the rows, as the inputs show them
          call,   \* the request for the bot, while the form is busy
          error,  \* what the form says went wrong
          at,     \* the page the tab is on: "new", or the page of a bot
          inputs

formVars == <<form, call, error, at, inputs>>

NewForm == [name |-> "", investment_amount |-> 100000000,
            trigger_type |-> "schedule_or_drift", interval_minutes |-> 60000,
            drift_threshold |-> 5000, min_order_value |-> 25000,
            cash_buffer |-> 2000, allow_fractional |-> FALSE,
            rows |-> <<[symbol |-> "A", percent |-> 40000],
                       [symbol |-> "B", percent |-> 35000],
                       [symbol |-> "C", percent |-> 25000]>>]
NewRow == [symbol |-> "", percent |-> 0]
HundredPercent == 100000

(* What is known of what the inputs can show: they are of their types, the  *)
(* name's has a maxLength, the product by 100 is off by little, and trim    *)
(* and toUpperCase leave alone what they have made of a text.               *)
Numbers == {"investment_amount", "interval_minutes", "drift_threshold",
            "min_order_value", "cash_buffer"}
ShownSymbols == {Upper[text] : text \in Symbols} \cup {"", "A", "B", "C"}
symbol_sent(r) == Upper[Trim[r.symbol]]

ASSUME FormAssumption ==
  Tab \in Clients /\ MaxInputs \in Nat /\ MaxHoldings >= Len(NewForm.rows)
ASSUME TypedAssumption ==
  /\ NaN \notin Int /\ Blank \notin Int /\ Percents \subseteq Int \cup {Blank}
  /\ DOMAIN Typed \subseteq DOMAIN NewForm \ {"rows"}
  /\ \A x \in DOMAIN Typed \cap Numbers : Typed[x] \subseteq Int \cup {Blank}
  /\ "trigger_type" \in DOMAIN Typed => Typed.trigger_type \subseteq TriggerTypes
  /\ "drift_threshold" \in DOMAIN Typed =>
       Typed.drift_threshold \subseteq DOMAIN Slip \cup {Blank}
ASSUME SlipAssumption ==
  /\ \A x \in DOMAIN Slip : Slip[x] \in -1..1
  /\ 0..HundredPercent \subseteq DOMAIN Slip
ASSUME TextAssumption ==
  /\ "name" \in DOMAIN Typed => \A text \in Typed.name :
       Trim[Trim[text]] = Trim[text] /\ (Trim[text] # "" => Length[Trim[text]] \in 1..60)
  /\ \A text \in ShownSymbols :
       LET sent == Upper[Trim[text]] IN Upper[Trim[sent]] = sent

NoCall == [pc |-> "none"]
busy == call # NoCall

FormInit ==
  /\ form = NewForm /\ call = NoCall /\ error = None
  /\ at = "new" /\ inputs = 0

Input == inputs < MaxInputs /\ inputs' = inputs + 1

-----------------------------------------------------------------------------
(* lib/targets.ts *)

Typing(x) == IF x = Blank THEN 0 ELSE x            \* Number(text || 0)
Product(x) == IF x = Blank THEN 0 ELSE x * 100 + Slip[x]
Round(n) == (n + 500) \div 1000
Truncate(n) == n \div 1000

percentToBps_truncating(p) == Truncate(Product(p))
percentToBps(p) == Round(Product(p))
totalBps(rows) == SumFunction([i \in DOMAIN rows |-> percentToBps(rows[i].percent)])

IsWhole(rows) == totalBps(rows) = 10000

SymbolsDiffer_as_typed(rows) ==
  \A i, j \in DOMAIN rows : rows[i].symbol = rows[j].symbol => i = j
SymbolsDiffer(rows) ==
  \A i, j \in DOMAIN rows : symbol_sent(rows[i]) = symbol_sent(rows[j]) => i = j
validateTargets(rows) == rows # <<>> /\ SymbolsDiffer(rows) /\ IsWhole(rows)

(* Split evenly: whole points, the remainder on the first row; toFixed(2).  *)
split_evenly(rows) ==
  LET each == 10000 \div Len(rows)
      remainder == 10000 - each * Len(rows)
  IN [i \in DOMAIN rows |->
       [rows[i] EXCEPT !.percent = 10 * (IF i = 1 THEN each + remainder ELSE each)]]

-----------------------------------------------------------------------------
(* What the browser itself insists on: required, min, max and step.         *)

Filled(x, least, step) == x # Blank /\ x >= least /\ (x - least) % step = 0
Optional(x) == x # Blank => Filled(x, 0, 10)
AtMostAll(x) == x # Blank => x <= HundredPercent

InputsAreValid(f) ==
  /\ f.name # "" /\ Filled(f.investment_amount, Unit, 10)
  /\ f.trigger_type # "drift" => Filled(f.interval_minutes, Unit, Unit)
  /\ f.trigger_type # "schedule" => Filled(f.drift_threshold, 10, 10)
  /\ \A i \in DOMAIN f.rows :
       /\ f.rows[i].symbol # ""
       /\ Filled(f.rows[i].percent, 0, 10) /\ AtMostAll(f.rows[i].percent)
  /\ Optional(f.min_order_value)
  /\ Optional(f.cash_buffer) /\ AtMostAll(f.cash_buffer)

(* The body of the request.                                                 *)
body_of(f) ==
  [name |-> Text(Trim[f.name]), base_currency |-> Absent,
   investment_amount |-> Number(Typing(f.investment_amount)),
   trigger_type |-> Text(f.trigger_type),
   interval_minutes |-> IF f.trigger_type = "drift" THEN JsonNull
                        ELSE Number(Typing(f.interval_minutes)),
   drift_threshold_bps |-> IF f.trigger_type = "schedule" THEN JsonNull
                           ELSE Number(Unit * Round(Product(f.drift_threshold))),
   min_order_value |-> Number(Typing(f.min_order_value)),
   cash_buffer_bps |-> Number(Unit * Round(Product(f.cash_buffer))),
   allow_fractional |-> Boolean(f.allow_fractional),
   targets |-> List([i \in DOMAIN f.rows |->
                      [symbol |-> Text(symbol_sent(f.rows[i])),
                       weight_bps |-> Number(Unit * percentToBps(f.rows[i].percent))]])]

-----------------------------------------------------------------------------
(* The user types, whether the form is busy or not. *)

StoreStays == UNCHANGED storeVars

Edit(f) ==
  /\ at = "new" /\ Input /\ f # form /\ form' = f
  /\ UNCHANGED <<call, error, at>> /\ StoreStays

TypeField == \E x \in DOMAIN Typed : \E text \in Typed[x] :
  Edit([form EXCEPT ![x] = text])
TypeSymbol == \E i \in DOMAIN form.rows, text \in Symbols :
  Edit([form EXCEPT !.rows[i].symbol = Upper[text]])
TypePercent == \E i \in DOMAIN form.rows, p \in Percents :
  Edit([form EXCEPT !.rows[i].percent = p])
AddHolding ==
  Len(form.rows) < MaxHoldings /\ Edit([form EXCEPT !.rows = Append(@, NewRow)])
RemoveHolding == \E i \in DOMAIN form.rows :
  /\ Len(form.rows) > 1
  /\ Edit([form EXCEPT !.rows =
             [j \in 1..Len(@) - 1 |-> IF j < i THEN @[j] ELSE @[j + 1]]])
SplitEvenly == Edit([form EXCEPT !.rows = split_evenly(@)])

-----------------------------------------------------------------------------
(* submit, and the request it makes. *)

Submit ==
  /\ at = "new" /\ ~busy /\ validateTargets(form.rows) /\ InputsAreValid(form)
  /\ call' = [pc |-> "sent", form |-> form] /\ error' = None
  /\ UNCHANGED <<form, at, inputs>> /\ StoreStays

Answer_with(answer) == call' = [pc |-> "answered", form |-> call.form, answer |-> answer]
Refused(code) ==
  /\ Answer_with(fail(code))
  /\ UNCHANGED <<form, error, at, inputs>> /\ StoreStays

(* POST /bots: the body is read again, and create_bot does what it says.    *)
body_sent == body_of(call.form)

Create ==
  /\ call.pc = "sent"
  /\ \E b \in Bots : CreateBot(b, body_sent) /\ Answer_with(ok(b, 201))
  /\ UNCHANGED <<form, error, at, inputs>>

RefuseBody ==
  call.pc = "sent" /\ parseCreateBot_issues(body_sent) # {} /\ Refused("invalid_request")

RefuseName ==
  /\ call.pc = "sent" /\ parseCreateBot_issues(body_sent) = {}
  /\ LET name == parseCreateBot(body_sent).name IN
     \E b \in Bots : bots[b] = NoBot /\ name_is_taken(b, name) /\ ~name_is_awaited(name)
  /\ Refused(fromPostgres("23505"))

(* The session has ended, in the browser's eyes or in the auth server's.    *)
RefuseUser == call.pc = "sent" /\ Refused("unauthorized")

(* The request or its answer is lost. *)
Lose ==
  /\ busy /\ Input /\ Answer_with(broken)
  /\ UNCHANGED <<form, error, at>> /\ StoreStays

(* The tab goes to the new bot's page, or the form says what went wrong.    *)
Receive ==
  LET result == request(TRUE, call.answer) IN
  /\ call.pc = "answered" /\ call' = NoCall
  /\ IF result.ok THEN at' = result.data /\ form' = NewForm /\ UNCHANGED error
     ELSE error' = result.error /\ UNCHANGED <<at, form>>
  /\ UNCHANGED inputs /\ StoreStays

CallProceeds == Create \/ RefuseBody \/ RefuseName \/ RefuseUser \/ Lose \/ Receive

FormNext ==
  \/ TypeField \/ TypeSymbol \/ TypePercent
  \/ AddHolding \/ RemoveHolding \/ SplitEvenly
  \/ Submit \/ CallProceeds

-----------------------------------------------------------------------------
(* The server never finds fault with what the form has checked: the size    *)
(* and total of the basket, its weights, a symbol given twice, the interval *)
(* or threshold that the trigger needs, the cash buffer.  What it may still *)
(* refuse is what the form does not look at: a name of blanks, a text that  *)
(* is no symbol, a number above a bound that the inputs do not have.        *)
Bound == [investment_amount |-> MaxAmount * Unit, min_order_value |-> 1000000 * Unit,
          interval_minutes |-> 525600 * Unit, drift_threshold_bps |-> 10000 * Unit]
unseen_by_the_form(f, body) ==
  {<<"name">> : x \in {Trim[f.name]} \cap {""}}
    \cup {<<x>> : x \in {y \in DOMAIN Bound : body[y].json = "number" /\ body[y].n > Bound[y]}}
    \cup {<<"targets", i, "symbol">> :
            i \in {j \in DOMAIN f.rows : symbol_sent(f.rows[j]) \notin SymbolTexts}}
FormAgreesWithServer ==
  busy => /\ cannot_fire(body_sent) = {}
          /\ parseCreateBot_issues(body_sent)
               \subseteq unseen_by_the_form(call.form, body_sent)

(* The basket that is stored is the basket that was on the screen when the  *)
(* user pressed the button, to the last basis point, whatever floating      *)
(* point made of the percentages and whatever is typed while it is on its   *)
(* way; and "Split evenly" always makes exactly 100 %, for up to 50 rows.   *)
SplitIsWhole ==
  \A n \in 1..50 : IsWhole(split_evenly([i \in 1..n |-> NewRow]))
stores(rows, targets) ==
  /\ Cardinality(DOMAIN targets) = Len(rows)
  /\ \A i \in DOMAIN rows : 10 * targets[symbol_sent(rows[i])] = rows[i].percent
BasketIsExact ==
  [][/\ SplitIsWhole
     /\ call.pc = "sent" /\ call'.pc = "answered" /\ call'.answer.status = 201 =>
          stores(call.form.rows, bots'[call'.answer.data].targets)]_formVars
=============================================================================
