----------------------------- MODULE Evaluation -----------------------------
(***************************************************************************)
(* RebalanceService.evaluate (api/src/engine/service.py) with the          *)
(* repository calls it makes, run by the scheduler's tick and by manual    *)
(* "Rebalance now" requests, while the user edits, starts, pauses and      *)
(* deletes bots.                                                           *)
(*                                                                         *)
(* Every repository call is a statement of its own that commits at once    *)
(* (the pool's connections are in autocommit), so every one is a step and  *)
(* anything may happen between two.  Placing a paper order is one step:    *)
(* PaperBroker's transaction implements Ledger.  All the bots are one      *)
(* user's and trade one account.                                           *)
(***************************************************************************)
EXTENDS PaperFill, Triggers, BuildPlan

CONSTANTS Bots,
          Schedulers,     \* engines, each with its scheduler task
          Requests,       \* manual rebalance requests being served
          Baskets,        \* target weights a user may give a bot
          Prices,         \* quotes of the days
          BotSettings,    \* RebalanceSettings a user may give a bot
          Clockwork,      \* and its [trigger_type, interval, drift_threshold_bps]
          Outages,        \* what the venue may do wrong: see Place
          StartingCash,
          FaultKinds,     \* what may go wrong with an engine: see Crash,
                          \* Raise, LoseSession
          MaxTime, MaxRuns, MaxEdits, MaxFaults, MaxManual,   \* bounds
          None

Processes == Schedulers \cup Requests
Gone == "deleted"

(* The interval is checked by the table: only a bot on drift has none.  The *)
(* order limit is the engine's, the same for every bot.                     *)
ASSUME EvaluationAssumption ==
  /\ IsFiniteSet(Bots)
  /\ Schedulers \cap Requests = {} /\ None \notin Processes
  /\ Outages \subseteq {"refuses", "loses the reply", "keeps open"}
  /\ FaultKinds \subseteq {"crash", "exception", "lost session"}
  /\ \A k \in Clockwork : /\ k.trigger_type \in TriggerTypes /\ k.interval \in Nat
                          /\ k.trigger_type # "drift" => k.interval > 0
  /\ \A s, t \in BotSettings : s.max_orders = t.max_orders

(* Quotes and cash are amounts of money, baskets are of known symbols.      *)
ASSUME AmountsAssumption ==
  /\ StartingCash \in Nat /\ MaxTime \in Nat \ {0}
  /\ Prices \subseteq [Symbols -> Nat]
  /\ \A t \in Baskets : DOMAIN t \subseteq Symbols /\ t \in [DOMAIN t -> Int]
  /\ BotSettings \subseteq R(<<>>, 0, 0, 0)!Settings

VARIABLES bots,      \* public.bots and their bot_targets
          clock, price,
          updating,  \* bot -> requests to update it that have passed their check
          cash, position,
          runs,      \* public.rebalance_runs, in order of creation
          orders,    \* public.orders: client_order_id -> row
          proc,      \* what each process is doing
          lock,      \* the scheduler's advisory lock
          fills,     \* history: client_order_ids the venue has filled
          unheard,   \* history: those of them whose reply was lost
          resting,   \* orders the venue kept open: what is left of each
          started,   \* history: times each bot has been started
          served,    \* history: the last of these that was evaluated
          severed,   \* history: the lock's session has died under its engine
          edits, faults, outages, manuals

evalVars == <<bots, clock, price, updating, cash, position, runs, orders, proc,
              lock, fills, unheard, resting, started, served, severed, edits,
              faults, outages, manuals>>
tables == <<bots, runs, orders>>
account == <<cash, position, fills, unheard, resting>>
world == <<clock, price, updating>>
history == <<started, served, severed>>
bounds == <<edits, faults, outages, manuals>>

Idle == [pc |-> "idle", queue |-> <<>>]

EvalInit ==
  /\ bots \in [Bots -> [status: {"draft", "running"}, targets: Baskets,
                        next_run_at: {NoTime}, settings: BotSettings,
                        clockwork: Clockwork]]
  /\ clock = 1 /\ price \in Prices /\ updating = [b \in Bots |-> 0]
  /\ cash = StartingCash /\ position = [s \in Symbols |-> 0]
  /\ runs = <<>> /\ orders = <<>>
  /\ proc = [p \in Processes |-> Idle]
  /\ lock = None /\ fills = {} /\ unheard = {} /\ resting = <<>>
  /\ started = [b \in Bots |-> 0] /\ served = [b \in Bots |-> 0] /\ severed = FALSE
  /\ edits = 0 /\ faults = 0 /\ outages = 0 /\ manuals = 0

Exists(b) == bots[b].status # Gone

(* A BotSpec, as _to_spec builds it from the row; the basket comes later,   *)
(* from a second query.                                                     *)
spec_of(b) ==
  [bot |-> b, status |-> bots[b].status, next_run_at |-> bots[b].next_run_at,
   trigger_type |-> bots[b].clockwork.trigger_type,
   interval |-> bots[b].clockwork.interval,
   drift_threshold_bps |-> bots[b].clockwork.drift_threshold_bps,
   settings |-> bots[b].settings, targets |-> <<>>, epoch |-> started[b]]

At(p, there) == proc[p].pc = there
Becomes(p, state) == proc' = [proc EXCEPT ![p] = state]
Goto(p, there) == proc' = [proc EXCEPT ![p].pc = there]
Spec(p) == Head(proc[p].queue)

(* A table of rows by key, with one more row unless it has that key. *)
Inserted(table, key, row) ==
  [k \in DOMAIN table \cup {key} |-> IF k \in DOMAIN table THEN table[k] ELSE row]

-----------------------------------------------------------------------------
(* The scheduler's tick, and the manual request. *)

TryLock(p) ==
  /\ p \in Schedulers /\ At(p, "idle") /\ lock = None
  /\ lock' = p /\ Goto(p, "rows")
  /\ UNCHANGED <<tables, account, world, history, bounds>>

(* list_running_bots, first query: by next_run_at, in any order where that  *)
(* is the same.                                                             *)
Running == {b \in Bots : bots[b].status = "running"}
SoonestFirst ==
  {listed \in SetToSeqs(Running) : \A i, j \in DOMAIN listed :
     i < j => bots[listed[i]].next_run_at <= bots[listed[j]].next_run_at}
ListRows(p) == \E listed \in SoonestFirst :
  /\ At(p, "rows")
  /\ Becomes(p, [pc |-> IF listed = <<>> THEN "unlock" ELSE "targets",
                 queue |-> [i \in DOMAIN listed |-> spec_of(listed[i])]])
  /\ UNCHANGED <<tables, account, world, lock, history, bounds>>

(* rebalance_now -> get_bot, first query. *)
GetBot(p, b) ==
  /\ p \in Requests /\ At(p, "idle") /\ Exists(b)
  /\ manuals < MaxManual /\ manuals' = manuals + 1
  /\ Becomes(p, [pc |-> "targets", queue |-> <<spec_of(b)>>])
  /\ UNCHANGED <<tables, account, world, lock, history, edits, faults, outages>>

(* The second query of either: the baskets, of whatever bots still exist. *)
basket_of(b) == IF Exists(b) THEN bots[b].targets ELSE <<>>
with_basket(spec) == [spec EXCEPT !.targets = basket_of(spec.bot)]
ListTargets(p) ==
  /\ At(p, "targets")
  /\ Becomes(p, [pc |-> "next", queue |-> [i \in DOMAIN proc[p].queue |->
                                            with_basket(proc[p].queue[i])]])
  /\ UNCHANGED <<tables, account, world, lock, history, bounds>>

(* The loop over the listed bots: evaluate the first, or be done. *)
Finished(p) ==
  /\ At(p, "next") /\ proc[p].queue = <<>>
  /\ IF p \in Schedulers THEN Goto(p, "unlock") ELSE Becomes(p, Idle)
  /\ UNCHANGED <<tables, account, world, lock, history, bounds>>

(* On a session that has died the unlock raises, which the loop logs.       *)
Unlock(p) ==
  /\ At(p, "unlock")
  /\ lock' = IF lock = p THEN None ELSE lock
  /\ Becomes(p, Idle)
  /\ UNCHANGED <<tables, account, world, history, bounds>>

-----------------------------------------------------------------------------
(* evaluate. *)

(* `now`, and the broker, which quotes the prices of the day it is built.   *)
(* A bot without targets is skipped before the broker is asked anything.    *)
Begin(p) ==
  /\ At(p, "next") /\ proc[p].queue # <<>> /\ Len(runs) < MaxRuns
  /\ Becomes(p, [pc |-> IF Spec(p).targets = <<>> THEN "skip" ELSE "positions",
                 queue |-> proc[p].queue, now |-> clock, price |-> price,
                 held |-> <<>>, plan |-> <<>>, run |-> 0, i |-> 1,
                 result |-> None, submitted |-> 0, failures |-> 0])
  /\ UNCHANGED <<tables, account, world, lock, history, bounds>>

ReadPositions(p) ==
  /\ At(p, "positions")
  /\ proc' = [proc EXCEPT ![p].pc = "account", ![p].held = position]
  /\ UNCHANGED <<tables, account, world, lock, history, bounds>>

(* get_account and get_quotes, then the planner and the trigger: all of it  *)
(* pure once the account is read.                                           *)
CallOf(p) == [cash |-> cash, held |-> proc[p].held, targets |-> Spec(p).targets,
              price |-> proc[p].price, settings |-> Spec(p).settings]

Due(p) == \/ p \in Requests          \* force: "manual run requested"
          \/ evaluate_trigger(Spec(p), proc[p].now, drift_of(CallOf(p)))

Decide(p) ==
  LET plan == ordered(CallOf(p)) IN
  /\ At(p, "account")
  /\ IF ~plannable(CallOf(p)) THEN Goto(p, "fail")
     ELSE proc' = [proc EXCEPT
            ![p].pc = IF Due(p) /\ plan # <<>> THEN "create" ELSE "skip",
            ![p].plan = plan]
  /\ UNCHANGED <<tables, account, world, lock, history, bounds>>

Outage(kind) ==
  /\ kind \in Outages /\ outages + faults < MaxFaults
  /\ outages' = outages + 1

BrokerUnavailable(p) ==
  /\ At(p, "positions") \/ At(p, "account")
  /\ Outage("refuses") /\ Goto(p, "fail")
  /\ UNCHANGED <<tables, account, world, lock, history, edits, faults, manuals>>

(* An exception evaluate does not catch: the scheduler logs it and goes on  *)
(* to the next bot, a request answers 500.                                  *)
Abandon(p) == Becomes(p, [pc |-> "next", queue |-> Tail(proc[p].queue)])

(* create_run.  The foreign key fails when the bot has been deleted. *)
RunRow(p, status) ==
  [bot |-> Spec(p).bot, status |-> status, planned |-> Len(proc[p].plan),
   submitted |-> 0, errors |-> FALSE, at |-> proc[p].now, forced |-> p \in Requests,
   epoch |-> Spec(p).epoch, touched |-> FALSE,
   trigger_type |-> Spec(p).trigger_type, interval |-> Spec(p).interval]

CreateRun(p, from, status, to) ==
  /\ At(p, from)
  /\ IF Exists(Spec(p).bot)
     THEN /\ runs' = Append(runs, RunRow(p, status))
          /\ proc' = [proc EXCEPT ![p].pc = to, ![p].run = Len(runs) + 1]
     ELSE UNCHANGED runs /\ Abandon(p)
  /\ UNCHANGED <<bots, orders, account, world, lock, history, bounds>>

Skip(p) == CreateRun(p, "skip", "skipped", "finish skipped")
Fail(p) == CreateRun(p, "fail", "failed", "finish failed")
StartRun(p) == CreateRun(p, "create", "running", "record")

-----------------------------------------------------------------------------
(* _execute: the submit loop. *)

Planned(p) == proc[p].plan[proc[p].i]
client_order_id_of_run(p) == <<proc[p].run, 1>>
client_order_id(p) == <<proc[p].run, proc[p].i>>

(* record_order.  Its foreign keys fail when the bot, and the run with it,  *)
(* has been deleted.                                                        *)
RecordOrder(p) ==
  /\ At(p, "record")
  /\ IF Exists(Spec(p).bot)
     THEN /\ orders' = Inserted(orders, client_order_id(p),
                         [symbol |-> Planned(p).symbol, side |-> Planned(p).side,
                          quantity |-> Planned(p).quantity, status |-> "pending"])
          /\ Goto(p, "place")
     ELSE UNCHANGED orders /\ Abandon(p)
  /\ UNCHANGED <<bots, runs, account, world, lock, history, bounds>>

(* place_order.  The venue answers (filling, rejecting, or keeping open     *)
(* what it has not filled), raises a BrokerError having done nothing, or    *)
(* does what was asked and the reply is lost, which the caller sees as a    *)
(* BrokerError too.                                                         *)
Fills_at_todays_price(p) ==
  LET o == Planned(p) IN
  accepts(o.side, o.quantity, price[o.symbol], cash, position[o.symbol])
Fills(p) ==
  LET o == Planned(p) IN
  accepts(o.side, o.quantity, proc[p].price[o.symbol], cash, position[o.symbol])

Trade(o, traded, at_price) ==
  /\ cash' = cash_after(o.side, traded, at_price, cash)
  /\ position' = [position EXCEPT ![o.symbol] = qty_after(o.side, traded, @)]
Fill(p) ==
  /\ Trade(Planned(p), Planned(p).quantity, proc[p].price[Planned(p).symbol])
  /\ fills' = fills \cup {client_order_id(p)}

Answers(p, status) ==
  proc' = [proc EXCEPT ![p].pc = "update", ![p].result = status]

Answered(p) ==
  /\ IF Fills(p) THEN Fill(p) /\ Answers(p, "filled") /\ UNCHANGED <<unheard, resting>>
                 ELSE Answers(p, "rejected") /\ UNCHANGED account
  /\ UNCHANGED outages

(* Of a first part, nothing and half of the order stand for every size.     *)
KeptOpen(p) == \E part \in {0, Planned(p).quantity \div 2} :
  LET o == Planned(p) IN
  /\ Outage("keeps open") /\ Fills(p)
  /\ Trade(o, part, proc[p].price[o.symbol])
  /\ resting' = Inserted(resting, client_order_id(p),
                  [symbol |-> o.symbol, side |-> o.side, quantity |-> o.quantity - part,
                   day |-> clock])
  /\ Answers(p, IF part = 0 THEN "submitted" ELSE "partially_filled")
  /\ UNCHANGED <<fills, unheard>>

VenueFails(p) ==
  /\ Answers(p, "rejected") /\ UNCHANGED resting
  /\ \/ Outage("refuses") /\ UNCHANGED account
     \/ /\ Outage("loses the reply") /\ Fills(p) /\ Fill(p)
        /\ unheard' = unheard \cup {client_order_id(p)}

Place(p) ==
  /\ At(p, "place")
  /\ Answered(p) \/ KeptOpen(p) \/ VenueFails(p)
  /\ UNCHANGED <<tables, world, lock, history, edits, faults, manuals>>

(* The venue fills what it kept open, on the same day, and nobody asks it.  *)
FillsLater(id) ==
  LET o == resting[id] IN
  /\ o.quantity > 0 /\ o.day = clock
  /\ accepts(o.side, o.quantity, price[o.symbol], cash, position[o.symbol])
  /\ Trade(o, o.quantity, price[o.symbol])
  /\ resting' = [resting EXCEPT ![id].quantity = 0] /\ fills' = fills \cup {id}
  /\ UNCHANGED <<tables, proc, unheard, world, lock, history, bounds>>

(* update_order_result, and on to the next order whatever the result.       *)
Taken == {"filled", "partially_filled", "submitted"}

Updated(p) ==
  LET id == client_order_id(p) IN
  IF id \in DOMAIN orders THEN [orders EXCEPT ![id].status = proc[p].result] ELSE orders
NextOrder(p) ==
  LET taken == proc[p].result \in Taken IN
  proc' = [proc EXCEPT
       ![p].pc = IF proc[p].i < Len(proc[p].plan) THEN "record" ELSE "finish",
       ![p].i = @ + 1, ![p].result = None,
       ![p].submitted = IF taken THEN @ + 1 ELSE @,
       ![p].failures = IF taken THEN @ ELSE @ + 1]

UpdateOrder_reraising(p) ==
  /\ At(p, "update") /\ orders' = Updated(p)
  /\ IF proc[p].result = "rejected" THEN Abandon(p) ELSE NextOrder(p)
  /\ UNCHANGED <<bots, runs, account, world, lock, history, bounds>>
UpdateOrder(p) ==
  /\ At(p, "update") /\ orders' = Updated(p)
  /\ NextOrder(p)
  /\ UNCHANGED <<bots, runs, account, world, lock, history, bounds>>

-----------------------------------------------------------------------------
(* finish_run and touch_bot: by id alone, whatever became of the row.       *)

final_status_any_failure(p) == IF proc[p].failures > 0 THEN "failed" ELSE "succeeded"
final_status(p) ==
  IF proc[p].failures > 0 /\ proc[p].submitted = 0 THEN "failed" ELSE "succeeded"

FinishRun(p) ==
  LET r == proc[p].run IN
  /\ At(p, "finish") \/ At(p, "finish skipped") \/ At(p, "finish failed")
  /\ runs' = IF runs[r].status = Gone THEN runs
             ELSE [runs EXCEPT ![r].status = IF At(p, "finish") THEN final_status(p) ELSE @,
                               ![r].submitted = proc[p].submitted,
                               ![r].errors = proc[p].failures > 0 \/ At(p, "finish failed")]
  /\ Goto(p, IF At(p, "finish skipped") THEN "touch skipped" ELSE "touch")
  /\ UNCHANGED <<bots, orders, account, world, lock, history, bounds>>

next_run_at_as_read(p) == Spec(p).next_run_at
next_run_at_of(p) ==
  IF At(p, "touch skipped") THEN next_run_on_skip(Spec(p), proc[p].now)
                            ELSE next_run_after(proc[p].now, Spec(p).interval)

TouchBot(p) ==
  LET b == Spec(p).bot IN
  /\ At(p, "touch") \/ At(p, "touch skipped")
  /\ bots' = IF Exists(b) THEN [bots EXCEPT ![b].next_run_at = next_run_at_of(p)] ELSE bots
  /\ runs' = IF runs[proc[p].run].status = Gone THEN runs
             ELSE [runs EXCEPT ![proc[p].run].touched = TRUE]
  /\ served' = [served EXCEPT ![b] = IF @ < Spec(p).epoch THEN Spec(p).epoch ELSE @]
  /\ Becomes(p, [pc |-> "next", queue |-> Tail(proc[p].queue)])
  /\ UNCHANGED <<orders, account, world, lock, started, severed, bounds>>

-----------------------------------------------------------------------------
(* The user (supabase/migrations/20260101000200_api_functions.sql). *)

UserStays == UNCHANGED <<account, clock, price, proc, lock, served, severed, faults,
                         outages, manuals>>
Edit == edits < MaxEdits /\ edits' = edits + 1 /\ UserStays

(* set_bot_status: starting needs a basket and makes the bot due at once. *)
SetStatus(b, status) ==
  /\ Edit /\ Exists(b)
  /\ status = "running" => bots[b].targets # <<>>
  /\ bots' = [bots EXCEPT ![b].status = status,
                          ![b].next_run_at = IF status = "running" THEN clock ELSE @]
  /\ started' = [started EXCEPT ![b] = IF status = "running" THEN @ + 1 ELSE @]
  /\ UNCHANGED <<runs, orders, updating>>

(* update_bot: refused while the bot runs, which is asked before the row is *)
(* locked; of a bot that is gone by then there is nothing to update.        *)
CheckPaused(b) ==
  /\ Edit /\ Exists(b) /\ bots[b].status # "running"
  /\ updating' = [updating EXCEPT ![b] = @ + 1]
  /\ UNCHANGED <<tables, started>>
UpdateBot(b, targets, settings, clockwork) ==
  /\ updating[b] > 0 /\ updating' = [updating EXCEPT ![b] = @ - 1]
  /\ bots' = IF Exists(b)
             THEN [bots EXCEPT ![b].targets = targets, ![b].settings = settings,
                               ![b].clockwork = clockwork]
             ELSE bots
  /\ UNCHANGED <<runs, orders, started, edits>> /\ UserStays

(* delete_bot: targets, runs and orders cascade. *)
DeleteBot_keeping_orders(b) ==
  /\ Edit /\ Exists(b)
  /\ bots' = [bots EXCEPT ![b].status = Gone, ![b].next_run_at = NoTime]
  /\ runs' = [r \in DOMAIN runs |->
               IF runs[r].bot = b THEN [runs[r] EXCEPT !.status = Gone] ELSE runs[r]]
  /\ UNCHANGED <<orders, started, updating>>
DeleteBot(b) ==
  /\ Edit /\ Exists(b)
  /\ bots' = [bots EXCEPT ![b].status = Gone, ![b].next_run_at = NoTime]
  /\ runs' = [r \in DOMAIN runs |->
               IF runs[r].bot = b THEN [runs[r] EXCEPT !.status = Gone] ELSE runs[r]]
  /\ orders' = [id \in {id \in DOMAIN orders : runs[id[1]].bot # b} |-> orders[id]]
  /\ UNCHANGED <<started, updating>>

(* The buttons of a bot, pressed in any order: the page may be stale. *)
Controls(b) == \E status \in {"running", "paused", "stopped"} : SetStatus(b, status)

User == \E b \in Bots :
  \/ Controls(b) \/ DeleteBot(b) \/ CheckPaused(b)
  \/ \E targets \in Baskets, settings \in BotSettings, clockwork \in Clockwork :
       UpdateBot(b, targets, settings, clockwork)

-----------------------------------------------------------------------------
(* Time, the market, and what goes wrong. *)

Tick == /\ clock < MaxTime
        /\ clock' = clock + 1 /\ price' \in Prices
        /\ UNCHANGED <<tables, account, updating, proc, lock, history, bounds>>

Fault(kind) ==
  /\ kind \in FaultKinds /\ outages + faults < MaxFaults
  /\ faults' = faults + 1
  /\ UNCHANGED <<tables, account, world, started, served, edits, outages, manuals>>

(* The engine dies, or stop() cancels a tick that outlasts its 30 seconds. *)
Crash(p) ==
  /\ Fault("crash") /\ ~At(p, "idle")
  /\ Becomes(p, Idle)
  /\ lock' = IF lock = p THEN None ELSE lock
  /\ UNCHANGED severed

(* A statement fails: an exception that is no BrokerError.  Outside an      *)
(* evaluation it ends the tick, or the request.                             *)
Raise(p) ==
  /\ Fault("exception") /\ ~(At(p, "idle") \/ At(p, "next") \/ At(p, "unlock"))
  /\ IF At(p, "rows") \/ At(p, "targets")
     THEN Becomes(p, [pc |-> IF p \in Schedulers THEN "unlock" ELSE "idle",
                      queue |-> <<>>])
     ELSE Abandon(p)
  /\ UNCHANGED <<lock, severed>>

(* The connection that holds the lock dies, which its engine does not       *)
(* notice before it unlocks: it has others for the statements.              *)
LoseSession(p) ==
  /\ Fault("lost session") /\ lock = p
  /\ lock' = None /\ severed' = TRUE /\ UNCHANGED proc

Step(p) ==
  \/ TryLock(p) \/ ListRows(p) \/ ListTargets(p) \/ Finished(p) \/ Unlock(p)
  \/ \E b \in Bots : GetBot(p, b)
  \/ Begin(p) \/ ReadPositions(p) \/ Decide(p) \/ BrokerUnavailable(p)
  \/ Skip(p) \/ Fail(p) \/ StartRun(p)
  \/ RecordOrder(p) \/ Place(p) \/ UpdateOrder(p) \/ FinishRun(p) \/ TouchBot(p)

EvalNext ==
  \/ (\E p \in Processes : Step(p) \/ Crash(p) \/ Raise(p) \/ LoseSession(p))
  \/ User \/ Tick
  \/ \E id \in DOMAIN resting : FillsLater(id)

(* A task that can go on does: the event loop runs every task that is ready. *)
EvalSpec == /\ EvalInit /\ [][EvalNext]_evalVars
            /\ \A p \in Processes : WF_evalVars(Step(p))

-----------------------------------------------------------------------------
RunStatuses == {"running", "skipped", "succeeded", "failed", Gone}
EvalTypeOK ==
  /\ bots \in [Bots -> [status: {"draft", "running", "paused", "stopped", Gone},
                        targets: Baskets, next_run_at: Nat, settings: BotSettings,
                        clockwork: Clockwork]]
  /\ clock \in 1..MaxTime /\ price \in Prices
  /\ cash \in Nat /\ position \in [Symbols -> Nat]
  /\ \A r \in DOMAIN runs : /\ runs[r].status \in RunStatuses
                            /\ runs[r].submitted \in 0..runs[r].planned
  /\ \A id \in DOMAIN orders : orders[id].status \in {"pending", "rejected"} \cup Taken
  /\ lock \in Schedulers \cup {None}
  /\ \A p \in Processes : At(p, "idle") => proc[p] = Idle

Executing(p) ==
  proc[p].pc \in {"record", "place", "update", "finish"}
RunOf(id) == runs[id[1]]

(* The audit trail tells the truth (README: "Silence is the worst possible  *)
(* audit trail"): an order row says filled only of what the venue filled,   *)
(* and submitted only of what it kept open; and what the venue has filled   *)
(* or kept shows as such, or as pending in a run that shows as running, for *)
(* as long as the bot exists; only a fill whose reply was lost may show as  *)
(* rejected.  Between the venue and the row lie a crash, a raise, a         *)
(* deletion and other evaluations.                                          *)
Shows(id, statuses) ==
  /\ id \in DOMAIN orders
  /\ \/ orders[id].status \in statuses
     \/ orders[id].status = "pending" /\ RunOf(id).status = "running"
TrailIsTrue ==
  /\ \A id \in DOMAIN orders : orders[id].status \in Taken =>
       IF id \in DOMAIN resting THEN orders[id].status # "filled"
       ELSE orders[id].status = "filled" /\ id \in fills \ unheard
  /\ \A id \in fills \cup DOMAIN resting : RunOf(id).status # Gone =>
       Shows(id, IF id \in unheard THEN {"rejected"} ELSE Taken)

(* A finished run's counts are those of its order rows, one for each order  *)
(* of the plan and none left pending, and it is a failure exactly when it   *)
(* placed nothing ("a run that placed some orders and had others rejected   *)
(* is a success with a recorded error").                                    *)
RowsOf(r, statuses) == {id \in DOMAIN orders : id[1] = r /\ orders[id].status \in statuses}
RunTally ==
  \A r \in DOMAIN runs : runs[r].status \in {"succeeded", "failed"} /\ runs[r].planned > 0 =>
    /\ Cardinality(RowsOf(r, Taken)) = runs[r].submitted
    /\ Cardinality(RowsOf(r, Taken \cup {"rejected"})) = runs[r].planned
    /\ RowsOf(r, {"pending"}) = {}
    /\ runs[r].status = "failed" <=> runs[r].submitted = 0
    /\ runs[r].errors <=> runs[r].submitted < runs[r].planned

(* Whatever the venue answers reaches the run record: a run that says       *)
(* running is being worked on, unless the engine crashed or an exception    *)
(* that is no BrokerError went past the submit loop to the scheduler.       *)
OpenRunsAreWorkedOn ==
  faults = 0 => \A r \in DOMAIN runs : runs[r].status = "running" =>
    \E p \in Processes : Executing(p) /\ proc[p].run = r

(* Nothing outlives its bot: a row an evaluation in flight writes after the *)
(* deletion is refused, so the cascade leaves no orphan behind.             *)
NoOrphanRows ==
  \A id \in DOMAIN orders : RunOf(id).status # Gone /\ Exists(RunOf(id).bot)

(* A bot on a schedule is not executed twice within its interval, whichever *)
(* engine evaluates it and whatever was edited meanwhile, for as long as    *)
(* its evaluations find it on that schedule; unless the user started it     *)
(* anew, forced a run, the engine died before the clock of the bot was      *)
(* advanced, or the session of the lock died under a living engine, so that *)
(* a second one evaluates the bot before the first is through with it.      *)
OnOneSchedule(r, q) ==
  \A k \in r..q : runs[k].bot = runs[r].bot =>
    runs[k].trigger_type = "schedule" /\ runs[k].interval = runs[r].interval
ScheduleHonoured ==
  ~severed => \A r, q \in DOMAIN runs :
    /\ r < q /\ runs[r].bot = runs[q].bot /\ runs[r].epoch = runs[q].epoch
    /\ runs[r].touched /\ runs[r].planned > 0 /\ runs[q].planned > 0
    /\ {runs[r].status, runs[q].status} \subseteq {"running", "succeeded", "failed"}
    /\ ~runs[r].forced /\ ~runs[q].forced
    /\ OnOneSchedule(r, q)
    => runs[q].at >= runs[r].at + runs[r].interval

(* A plan stands until it is carried out: under one leader whose lock has   *)
(* not been lost, with no manual run and whole shares, no order of a plan   *)
(* is rejected, however the days, the user and the engines change while it  *)
(* is placed.                                                               *)
PlanStands == ~severed => \A id \in DOMAIN orders : orders[id].status # "rejected"

-----------------------------------------------------------------------------
(* What the repository says and the runs that carry these names refute. *)

(* "Starting a bot makes it due immediately" (set_bot_status): until an     *)
(* evaluation has seen the start, the bot is due.                           *)
StartedBotIsDue ==
  \A b \in Bots : bots[b].status = "running" /\ served[b] < started[b]
                 => schedule_due(clock, bots[b].next_run_at)

(* "An order row may only be written from a broker response" (README): a    *)
(* row that says rejected is not an order the venue filled.                 *)
RejectedWasNotFilled ==
  \A id \in DOMAIN orders : orders[id].status = "rejected" => id \notin fills
=============================================================================
