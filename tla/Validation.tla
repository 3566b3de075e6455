----------------------------- MODULE Validation -----------------------------
(***************************************************************************)
(* What the API accepts (supabase/functions/_shared/validation.ts): from   *)
(* the JSON body of a request to the set of its issues and the value that  *)
(* is handed to the database.                                              *)
(*                                                                         *)
(* A JSON value is a record that names its kind.  Numbers are counted in   *)
(* thousandths, so that a fraction is seen.  What JavaScript does with a   *)
(* text is a constant: trim, toUpperCase, length, Number and the patterns. *)
(***************************************************************************)
EXTENDS Integers, FiniteSets, Sequences, Functions

CONSTANTS Trim, Upper, Length, \* functions on texts
          NumberOf,            \* text -> thousandths, or NaN
          SymbolTexts,         \* texts that match SYMBOL_PATTERN
          CurrencyTexts,       \* texts that match CURRENCY_PATTERN
          MaxHoldings,         \* 50 in readTargets
          MaxAmount,           \* 1_000_000_000 in readBotCore
          Keep,                \* a field that a patch does not mention
          Null, NaN

ASSUME ValidationAssumption ==
  /\ MaxHoldings \in Nat \ {0} /\ MaxAmount \in Nat /\ "" \notin SymbolTexts

Unit == 1000
Number(n) == [json |-> "number", n |-> n]
Text(t) == [json |-> "text", text |-> t]
Boolean(b) == [json |-> "boolean", b |-> b]
List(rows) == [json |-> "list", rows |-> rows]
JsonNull == [json |-> "null"]
Absent == [json |-> "absent"]

TriggerTypes == {"schedule", "drift", "schedule_or_drift"}
CoreFields == {"name", "base_currency", "investment_amount", "trigger_type",
               "interval_minutes", "drift_threshold_bps", "min_order_value",
               "cash_buffer_bps", "allow_fractional"}
Fields == CoreFields \cup {"targets"}

Nothing(v) == v.json \in {"absent", "null"}
has(v) == v # Absent

-----------------------------------------------------------------------------
(* class Check *)

string_fails(v, shortest, longest) ==
  v.json # "text" \/ Length[Trim[v.text]] \notin shortest..longest

number_fails(v, least, most) == v.json # "number" \/ v.n \notin least..most
integer_fails(v, least, most) ==
  number_fails(v, least * Unit, most * Unit) \/ v.n % Unit # 0

nullable(v) == Nothing(v) \/ v = Text("")
boolean_fails(v) == ~Nothing(v) /\ v.json # "boolean"
oneOf_fails(v, allowed) == v.json # "text" \/ v.text \notin allowed
oneOf(v, allowed, first) == IF oneOf_fails(v, allowed) THEN first ELSE v.text

-----------------------------------------------------------------------------
(* readTargets.  A symbol is a text or nothing; anything is made a number.  *)

(* A list is read as the text of what it holds: of nothing a blank.         *)

ScalarNumber(v) == CASE v.json = "number" -> v.n
                     [] v.json = "text" -> NumberOf[v.text]
                     [] v.json = "null" -> 0
                     [] v.json \in {"boolean", "absent", "list"} -> NaN
ListNumber(values) ==
  IF values = <<>> THEN 0 ELSE IF Len(values) = 1 THEN ScalarNumber(values[1]) ELSE NaN
ToNumber(v) == CASE v.json = "boolean" -> IF v.b THEN Unit ELSE 0
                 [] v.json = "list" -> ListNumber(v.rows)
                 [] v.json \notin {"boolean", "list"} -> ScalarNumber(v)
symbol_of(r) == IF Nothing(r.symbol) THEN "" ELSE Upper[Trim[r.symbol.text]]

IsWeight(n) == n # NaN /\ n % Unit = 0 /\ n \in 0..(10000 * Unit)
weights_total(weights) == SumFunction(weights)

row_issues(rows, i) ==
  LET symbol == symbol_of(rows[i]) IN
    (IF /\ symbol \in SymbolTexts
        /\ \A j \in 1..i - 1 : symbol_of(rows[j]) # symbol
     THEN {} ELSE {<<"targets", i, "symbol">>})
    \cup (IF IsWeight(ToNumber(rows[i].weight_bps)) THEN {}
          ELSE {<<"targets", i, "weight_bps">>})

total_of(rows) ==
  LET finite == {i \in DOMAIN rows : ToNumber(rows[i].weight_bps) # NaN} IN
  weights_total([i \in finite |-> ToNumber(rows[i].weight_bps)])

basket_fails(rows) == Len(rows) \notin 1..MaxHoldings \/ total_of(rows) # 10000 * Unit

target_issues(v) ==
  IF v.json # "list" THEN {<<"targets">>}
  ELSE (UNION {row_issues(v.rows, i) : i \in DOMAIN v.rows})
         \cup {issue \in {<<"targets">>} : basket_fails(v.rows)}

(* The basket, once it has no issues: symbols to basis points.              *)
basket(v) ==
  [s \in {symbol_of(v.rows[i]) : i \in DOMAIN v.rows} |->
    ToNumber(v.rows[CHOOSE i \in DOMAIN v.rows : symbol_of(v.rows[i]) = s].weight_bps)
      \div Unit]

-----------------------------------------------------------------------------
(* The fields, and what each is read as.  Amounts stay in thousandths.      *)

field_fails(f, v) ==
  CASE f = "name" -> string_fails(v, 1, 60)
    [] f = "base_currency" ->
         string_fails(v, 3, 3) \/ Upper[Trim[v.text]] \notin CurrencyTexts
    [] f = "investment_amount" -> number_fails(v, 10, MaxAmount * Unit)
    [] f = "trigger_type" -> oneOf_fails(v, TriggerTypes)
    [] f = "interval_minutes" -> ~nullable(v) /\ integer_fails(v, 1, 525600)
    [] f = "drift_threshold_bps" -> ~nullable(v) /\ integer_fails(v, 1, 10000)
    [] f = "min_order_value" -> number_fails(v, 0, 1000000 * Unit)
    [] f = "cash_buffer_bps" -> integer_fails(v, 0, 10000)
    [] f = "allow_fractional" -> boolean_fails(v)

issues_of(f, v) ==
  IF f = "targets" THEN target_issues(v) ELSE IF field_fails(f, v) THEN {<<f>>} ELSE {}

value_of(f, v) ==
  CASE f = "name" -> Trim[v.text]
    [] f = "base_currency" -> Upper[Trim[v.text]]
    [] f \in {"investment_amount", "min_order_value"} -> v.n
    [] f = "trigger_type" -> v.text
    [] f \in {"interval_minutes", "drift_threshold_bps"} ->
         IF nullable(v) THEN Null ELSE v.n \div Unit
    [] f = "cash_buffer_bps" -> v.n \div Unit
    [] f = "allow_fractional" -> IF Nothing(v) THEN FALSE ELSE v.b
    [] f = "targets" -> basket(v)

-----------------------------------------------------------------------------
(* parseCreateBot: what may be left out has a default; a bot must be able   *)
(* to fire.  An unreadable trigger_type counts as the first one allowed.    *)

Default == [base_currency |-> "USD", min_order_value |-> 10 * Unit, cash_buffer_bps |-> 0]
defaulted(f, v) == f \in DOMAIN Default /\ ~has(v)

cannot_fire(body) ==
  LET trigger == oneOf(body.trigger_type, TriggerTypes, "schedule") IN
    (IF trigger # "drift" /\ nullable(body.interval_minutes)
     THEN {<<"interval_minutes">>} ELSE {})
    \cup (IF trigger # "schedule" /\ nullable(body.drift_threshold_bps)
          THEN {<<"drift_threshold_bps">>} ELSE {})

parseCreateBot_issues(body) ==
  cannot_fire(body)
    \cup UNION {issues_of(f, body[f]) : f \in {g \in Fields : ~defaulted(g, body[g])}}
parseCreateBot(body) ==
  [f \in Fields |-> IF defaulted(f, body[f]) THEN Default[f] ELSE value_of(f, body[f])]

(* parseUpdateBot: a patch is checked field by field; what it would leave   *)
(* of the bot is not known here.                                            *)
parseUpdateBot_issues(body) ==
  UNION {issues_of(f, body[f]) : f \in {g \in Fields : has(body[g])}}
parseUpdateBot(body) ==
  [f \in Fields |-> IF has(body[f]) THEN value_of(f, body[f]) ELSE Keep]

parseCredentials_issues(body) ==
  {<<f>> : f \in {g \in {"api_key", "api_secret"} : string_fails(body[g], 4, 512)}}

StatusOf == [start |-> "running", pause |-> "paused", stop |-> "stopped"]
parseStatusAction_issues(action) ==
  IF oneOf_fails(action, DOMAIN StatusOf) THEN {<<"action">>} ELSE {}
=============================================================================
