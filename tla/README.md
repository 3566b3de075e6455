# Verification of the rebalance bot

TLA+ models of the rebalancing engine, of the paper broker it trades with, of
the scheduler that elects which engine trades, of the API that configures its
bots, and of the web pages that use it; the TLC runs that check them on small instances; and TLAPS proofs of
the properties that must hold for every instance.

Source paths are relative to the repository. `PROJECT.json` maps every
definition to the lines it stands for.

## 1. The system

A user keeps *bots*: a basket of symbols with weights in basis points that
total 10 000, a sum of money to manage (the *sleeve*), and a trigger (a
schedule, drift, or either). An *engine* evaluates the bots that are due,
plans the orders that bring the account to its basket, and places them with a
broker: a paper broker kept in Postgres, or Webull.

| component | state | operations | talks to |
|---|---|---|---|
| Money helpers, `api/src/engine/money.py` | none | rounding to 4 and 8 decimals | all below |
| Planner, `rebalance.py` | none; one budget spent by two loops | `build_plan` | service |
| Triggers, `triggers.py` | none | `evaluate_trigger`, `next_run_after` | service |
| Service, `service.py`, with `repo.py` | `bots`, `rebalance_runs`, `orders` rows | `evaluate` (skip, fail, execute), `verify_connection` | repo, planner, broker |
| Paper broker, `brokers/mock.py` | `paper_accounts`, `paper_positions` rows | `place_order`, `get_account`, ... | Postgres row locks |
| Webull adapter, `brokers/webull.py` | none here; the venue's orders there | the same, over HTTP | the venue |
| Scheduler, `scheduler.py` | one task per engine, the advisory lock, `is_leader` | `start`, `stop`, tick | repo, service, Postgres session |
| Engine HTTP, `main.py` | the lifespan | rebalance now, credentials, verify, `/ready` | service, scheduler |
| Validators, `supabase/functions/_shared/validation.ts` | none | `parseCreateBot`, `parseUpdateBot`, `parseCredentials`, `parseStatusAction` | write API |
| Write API, `supabase/functions/api` and the SQL functions of `supabase/migrations` | `bots`, `bot_targets` rows | create, update, start/pause/stop, delete | Postgres |
| Edge function, `supabase/functions/_shared` | none; a deadline per call | `requireUser`, `onError`, `fail`, the engine's client | write API, engine |
| Broker connection, `main.py`, `service.py`, `repo.py` | `broker_credentials`, `broker_connections` rows | store, remove, verify | the venue |
| Bot form, `bot-form.tsx`, `lib/targets.ts` | the fields, the rows, busy | type, add, remove, split evenly, submit | edge function |
| Bot page, `bots/[id]/page.tsx`, `bot-controls.tsx`, `allocation-table.tsx` | what was rendered; busy | start, pause, stop, rebalance now, refresh | Postgres reads, edge function |
| Connection screen and dashboard, `connection-manager.tsx`, `account-panel.tsx` | its own copy of the connection; busy | save, verify, disconnect, refresh | edge function, engine |
| Session, row level security, configuration, cryptography, quotes, deployment | see section 7 | | |

How they meet: the scheduler and the manual "rebalance now" request both call
`evaluate`, without knowing of each other; two engines run side by side while
a deploy swaps blue for green; the user's requests write the very rows that an
evaluation has read; and all of them share one account at the broker. The
connections of the pool are in autocommit, so every repository call commits by
itself: an evaluation is a sequence of small transactions with gaps between
them. The exceptions, which are transactions of several statements, are the
paper broker's `place_order` and the SQL functions.

What is hard, and what makes each part correct:

* **Planner.** Each amount is rounded, some orders are dropped as dust, the
  list is cut at `max_orders`; the plan must still be affordable, leave the
  buffer, pass no target, answer for every symbol, favour the neediest when
  cash runs out, and converge when it is carried out again and again, by a
  broker that reads a position coarser than it is stored.
* **Paper broker.** Two callers contend for one row of cash. They must take
  effect one at a time, within means, all or nothing under a crash, and none
  may wait for ever.
* **Service.** Between the order placed and the row written lie crashes,
  exceptions, lost replies, the bot's deletion and other evaluations. The
  trail must tell the truth, the counts of a run must be those of its rows,
  and the schedule must be honoured once.
* **Scheduler.** One leader, through deploys, crashes, failed ticks and lost
  sessions; no bot starved by another that raises; a retiring engine stops,
  and the one that is left takes over.
* **Write API.** A patch is checked field by field, against a row that others
  are changing; a running bot must be able to fire, no update may be lost, and
  no request may wait for ever, although an update holds its row while it waits
  for a name.
* **Form.** Browser and server check the same basket by code of their own, and
  percentages become basis points in binary floating point; they must agree,
  and what is stored must be what was shown. An answer may be lost and the
  button pressed again.
* **Bot page.** It is put together from three reads while others write, and
  refreshed while an earlier rendering may be under way; it must come to show
  what its user did, or say that something went wrong.
* **Connection.** The row shown to the user is assembled by upserts that keep
  what they are not given, by requests that overlap because the edge function
  gives up on a slow engine while the engine goes on; "connected" must come to
  be said only of the key on file, and no press may wait for ever.

`PROJECT.json`, "hazards", lists these at their lines.

## 2. The modules

```
Money <- Rebalance <- RebalanceLoop <- MCRebalance, RebalanceProofs   (planner, in a loop with the broker)
  ^          ^
  |       BuildPlan ---------.   (RebalanceLoop states that its loops agree with BuildPlan)
  |                          v
  '- PaperFill ---------> Evaluation <- MCEvaluation, EvaluationProofs <- ScheduleProofs
  |      ^--- RebalanceLoop      ^--- Triggers
  |      '--- PaperBroker <- MCPaperBroker, PaperBrokerProofs
  '- Ledger <== refined by PaperBroker
Scheduler <- MCScheduler, SchedulerProofs
Validation <- BotStore <- BotForm <- BotPage <- MCWeb, BotStoreProofs      BotStore <- MCBotStore
   |   Api ------------------^
   |    '---.
   '---> ConnectionScreen <- MCConnection, ConnectionProofs     MCTexts -> MCWeb, MCBotStore, MCConnection
Connection <---'
ArithmeticProofs <- RebalanceProofs, EvaluationProofs, PaperBrokerProofs, BotStoreProofs
                    (lemmas on rounding, on sums and on queues)
```

**Money** counts in grains: money in units of 0.0001, quantities in units of
`1/SHARE` share. `money(n, d)` is `quantize(..., ROUND_HALF_UP)` of a fraction,
`quantity` and `whole_shares` round down. Every rounding of the code is one of
these, so no Decimal is treated as exact where the code rounds it.

**Rebalance** is `build_plan` as the loops it runs: validate, value the
positions, plan sells, plan buys out of one budget, cut. One action is one
iteration (`PlanSell`, `SkipSell`, `PlanBuy`, `SkipBuy`), because what matters
is the budget between two orders. `raised` and `spent` follow the value of the
orders that will survive the cap. Reason texts and the per-symbol report are
left out. **BuildPlan** gives the same plan as a function of the arguments,
made of the definitions of Rebalance, for the modules that call the planner in
one step: the sells in the order of the universe; the buys, most underweight
first, each out of what those before it have left (a recursive function over
the queue, `bought`); both cut at `max_orders`. `LoopsComputeBuildPlan` holds
the two together.

**RebalanceLoop** hands the plan to the paper broker's arithmetic order by
order and plans again from the account that results, prices unchanged. The plan
is made of the positions as they are stored, eight decimals, and carried out on
positions as they are read, four; `Misread` says that the two differ, and
`MaxMisread` bounds the plans made again then, because reading a fraction up
adds to the account each time.

**PaperFill** is the arithmetic of `place_order`, including that a position
stored with eight decimals is read with four (`held_as_read`).
**PaperBroker** is `place_order` statement by statement for several callers:
`ReadAccount` takes the account's row lock, `ReadPosition` the position's
(which nobody can hold without the first), `Commit` shows both writes at once,
`Crash` rolls back what is not committed and loses the answer of what is. Each
call is quoted one of the prices of its symbol (`Quotes`), for callers' brokers
may have been built on different days; `bought` is history: the prices and
quantities bought since the position was last empty.
**Ledger** is the abstract promise, buys and sells that happen at once and
within means, where the shares there are is the position read to the nearest
multiple of `GRAIN` (`Readings`); `AtomicOrders` says that PaperBroker
implements it, with cash and positions as themselves.

**Evaluation** is `RebalanceService.evaluate` with the repository calls it
makes, one step per statement that commits: list the bots, list their baskets,
read positions, read the account and decide, create the run, and for each
order record, place, update; then finish the run and touch the bot.
`Schedulers` run it under the lock, `Requests` are manual runs without it.
`User` is what the SQL functions let the user do meanwhile; an update is
checked (`CheckPaused`) and then written (`UpdateBot`: the basket, the trigger
and its interval, the settings), with anything in between. `LoseSession` is the
death of the connection that holds the lock: its engine goes on, the lock is
free, and `severed` remembers that this has happened. `KeptOpen` is a venue
that keeps an order open, or fills half of it, and `FillsLater` fills the rest
on the same day, when nobody asks any more. `Crash` stands for
an engine that dies and for a tick that `stop()` cancels; `Raise` for any
exception that is no `BrokerError`; `Outages` for a venue that refuses, keeps
open, or whose reply is lost. A deleted bot's rows are gone: the foreign keys refuse
what an evaluation in flight still wants to insert, and updates by id touch
nothing. `client_order_id` is the run and the number of the order. Placing a
paper order is one step, which is what `AtomicOrders` allows. **Triggers**
holds the decision to run and the next time.

**Scheduler** is the loop of each engine: try the lock, list, evaluate one bot
after another, unlock, sleep; with `stop()`, its thirty seconds (`Cancel`),
crashes, ticks that fail, and lock sessions that die while their engine lives.

**Validation** is `validation.ts`: from a JSON body to the set of its issues and
the value handed on. A JSON value names its kind; numbers are counted in
thousandths so that a fraction is seen; what JavaScript does with a text (trim,
upper case, length, `Number`, the patterns) are constants, which **MCTexts**
gives for the texts of the runs; `Number` of a list is that of its only element
(`ListNumber`).

**BotStore** is the write API. Each SQL function is a READ COMMITTED
transaction: a check that sees what is committed, a write that waits for the
row's lock and sees the row as it then is (`WriteRow`), the entry of the name
into the unique index, with the row held (`CheckName`), and a deferred check at
the commit. A name that an open transaction has written, or is giving up, is
waited for (`holds_name`). Two updates may wait for each other's names: of the
requests that wait in a `Circle`, `DeadlockDetected` gives one up, as Postgres
does. `last` is history: what each committed request set.

**Api** is how the edge function answers and how the web client understands it:
status codes, `onError`, `fromPostgres`, the engine's deadline, `ApiError`.

**BotForm** is the form from the keys pressed to the row in the database. A
number is typed in thousandths or left blank; `Slip` is by how much the binary
product by 100 is off, so rounding is modelled as what it corrects.
`InputsAreValid` is what `required`, `min`, `max` and `step` make the browser
insist on, `validateTargets` what the form itself checks; then come the body,
the server's own checks, `create_bot`, and an answer that may be lost. The user
goes on typing meanwhile, for the inputs are not disabled.

**BotPage** adds the page of a bot: the rendering as the reads it makes (the
bot; then basket and newest run, in either order), the controls, the refresh
after an answer, and the engine's evaluations as far as the page shows them.
`stale` is history: it marks what was read before the last answer, of whatever
kind; `note` is the message beside the controls.

**Connection** is the credentials and the row shown of them, written by
separate statements with the venue asked in between, for requests that overlap
and an engine that dies. `alone` is history: the last request met no other.

**ConnectionScreen** is the browser's side of it: the screen that keeps its own
copy of the connection, the routes of the edge function and its client of the
engine, and the dashboard's warning and account panel.

## 3. The runs

| run | instance | shows |
|---|---|---|
| `planner` | 3 symbols, 20 800 initial calls: 2 price vectors that divide nothing evenly, 27 holdings, 4 baskets (one with a zero weight), 2 sleeves, minimum 0 and 14, buffer 0 and 10 %, whole and fractional, caps 1, 2, 25, among them holdings the broker reads too low or too high; and calls that must be refused | every plan is affordable and keeps the buffer, passes no target, answers for every symbol, takes from the least underweight first; the broker carries all of it out to the last grain where it does not read a holding too low; one pass suffices for whole shares without a cap in the way; the bot comes to rest, liquidated and on target, unless a misread fraction is left |
| `paper_broker` | 2 callers, 2 symbols, one of them quoted at 2 prices, orders in whole shares and in fractions that contend for cash and shares (one has quantity 0), 4 calls, crashes anywhere | the ledger is implemented, the books balance, nothing is negative, the average cost lies within the prices paid, every call returns |
| `evaluation` | 1 bot, a scheduler and a manual request, 2 runs, 1 edit, 1 fault (crash, exception, lost session) or outage (refused, kept open or half filled, reply lost) | the trail is true, the tallies are right, no rows are orphaned, runs do not stay open of their own accord |
| `schedule` | 2 engines, 3 days with 2 price vectors, 2 baskets, 2 intervals, 2 edits with their updates, 1 crash | no bot runs twice within its interval, no order of a plan is turned down |
| `scheduler` | 2 engines, 2 bots of which one always raises, 2 faults, deploys without bound | one leader, stops drain, the last engine leads, running bots are evaluated |
| `web` | a tab and 2 other clients, 2 bots, 3 inputs; typed are names plain, padded and blank, symbols in lower case, padded, twice or none, percentages with two and three decimals, blanks and numbers out of bounds | form and server agree on every basket, the basket stored is the one on the screen to the last basis point, a retried create makes no second bot, the page comes to show what its controls did; a running bot can fire, no update is lost |
| `store` | 2 clients, 2 bots, 3 names; renames, starts and deletions without bound | two renames that swap names wait for each other, and every request is answered |
| `connection` | 2 requests that overlap, 3 keys (1 refused, 2 of different accounts) and a text too short once trimmed, 3 inputs (presses, crashes, lost answers), deadlines and sessions that end at any point | after the next request that meets no other, connected is said of the key on file; the screen and the dashboard show nothing they could have known to be untrue; every press ends |
| `fraction_stranded`, `start_lost`, `lost_reply`, `respecified_running` | | section 6 |

Bounds, and why they suffice. *Grains*: `SHARE = 6` with prices of 3 to 17
money grains makes all roundings happen in both directions within small
numbers. `GRAIN = 3` makes the broker read every third part of a share's six:
there are parts it reads exactly, one it reads too low and one it reads too high,
which are all the kinds there are with 10 000 of them. `fraction_stranded`
takes eighths read as halves; the evaluations have `SHARE = 4`, `GRAIN = 2`, and
trade whole shares; half of an order that the venue keeps open is read exactly
there too. *Misread plans* (`MaxMisread = 2`): the first shows what
misreading does to a position, the second what it does to the result. Three symbols give a basket of two and a
holding outside it, a cap that cuts a sell, a buy or nothing, and two symbols
to compete for the last cash. *Callers, engines, clients*: two of each; every
conflict here is between two holders of one row or one lock, and the two
theorems on them are for any number. *Runs* (`MaxRuns`): two, for the
properties relate a run to one other. *Edits, faults, outages, manual runs*
(`MaxEdits`, `MaxFaults`, `MaxManual`): enough for each to fall
between any two steps of two runs; `schedule` has two edits because editing a
basket takes a pause first; one update checked before a start and written after
it takes both. `schedule` has crashes and no lost sessions, because its two
properties are stated until a session is lost (`severed`); `evaluation` has
sessions that are lost beside its own properties. *Symmetry*: in `schedule` the two engines are
interchangeable; neither they nor its invariants name one. *Time* (`MaxTime = 3`): longer than the interval of
2. `MaxCalls = 4`: two buys use up the cash, two sells the shares.
*Inputs* (`MaxInputs = 3`): everything the world does to a page costs one (a
field edited, a press of the controls, an answer lost, another client's
request, an evaluation, a crash), steps of the program cost none. Three are
enough for a lost create, an edit and a retry; for an update and a start of
others around a press of one's own; for two presses that overlap and a third
that puts things right. Four have been run for `connection` (537 000 states)
with the same result.

Deadlock checking is off where the system really may rest: a planner that has
settled, evaluations that have used up their runs and days.

## 4. Fairness

* `RebalanceLoop`: weak fairness of the whole loop: a call that can go on does.
* `Evaluation`: weak fairness of every process's next step; its properties are
  safety properties and do not use it.
* `Scheduler`: weak fairness of a task's steps and of the restart of a crashed
  container (the compose files restart it). It takes for granted that each
  await returns: the venue's has a timeout, Postgres answers or the connection
  breaks. Nothing is assumed of stops, deploys, cancellations, faults or the
  user. `RunningBotsAreEvaluated` therefore says explicitly that deploys come to
  rest: while containers are swapped for ever, one may be stopped before it
  has evaluated anything.
* `PaperBroker`, `BotStore`, `BotPage`: strong fairness of each caller's steps, because
  Postgres queues the waiters of a row lock and grants it in turn; a caller
  that waits is enabled again and again, and in the end is let in. Nothing is
  assumed of new calls or crashes.
* `ConnectionScreen`: weak fairness of the browser and of the edge function,
  whose timer is what ends a wait; none of the engine. `EveryPressEnds`
  therefore holds though the engine may never answer.

## 5. What is proved

For every value of the constants, by TLAPS. TLC checks each of these formulas
on the instances of section 3 too; the theorems are what carries them beyond.

* `ArithmeticProofs` has the lemmas the rest stands on. Division and rounding
  half up are bounded by nonlinear arithmetic. Sums over finite sets are folds,
  which recur on the set; that the recursion has one solution and no other
  (`AddsExists`, `AddsOnce`), that a term can be taken out (`SumTakesOut`), and
  that sums are monotone, linear and of equal terms a multiple, are shown by
  the least counterexample (`LeastElement`), because the induction theorems of
  the library take an operator as parameter, which the provers at hand cannot
  instantiate.

* `RebalanceProofs`, the planner and its loop with the broker.
  - A single call: `TypeCorrect` (budget and quantities are natural numbers),
    `BudgetIsKept` (a plan can be paid for, and one that buys leaves the
    buffer), `OrdersNeverOvershoot`. The invariant `IInv` adds to the type what
    links the loops: in the sell loop what the kept sells raise is all the
    proceeds, unless the cap is already exceeded (`SellsInv`); in the buy loop
    what is spent and what remains are within the budget (`BuysInv`); and a
    kept buy means that every sell is kept (`FundedInv`). It is needed because
    the budget counts all sells while the cap keeps only a prefix: that is safe
    only as sells come first, so that if any sell is cut then all buys are. The
    arithmetic is in `SellBound` and `BuyBound`: rounding a share count down and
    its value half up never exceeds the amount it was computed from.
  - `EverySymbolIsAnswered` and `RunsOutOnTheLeastUnderweight`, from `PlanInv`:
    a symbol the loops have come past has one order or one reason, and another
    has none (`AnsweredInv`); the orders so far are the sells and then the buys
    by need, and nothing still to visit is needier than a buy already planned
    (`SortedInv`); once one buy was declined for want of cash, nothing remains,
    so that no later one is planned (`ShortInv`).
  - `EveryPlanIsSound`: every plan of the loop has all of these, whatever
    account the orders before it have left. `LeftoversAreSold`
    (`RestIsLiquidated`) adds that a skip says why (`ReasonInv`) and that the
    account is the one the plan was made from until its first order is placed
    (`AccountInv`).
  - `PlansAreCarriedOut`: the broker accepts every order and the cash ends at
    the projection. The invariant has a path of balances along the plan, from
    the cash of the call to the projection (`Follows`); the broker's cash is
    where the path is (`CarriedInv`). From the first buy on the path only falls,
    and its end is not below zero because of `BudgetIsKept`, hence no order on
    the way is turned down. It is for any precision the positions are read with;
    what it supposes of the call is that none of its holdings is read as less
    than it is (`ReadInFull`), without which it does not hold
    (`fraction_stranded`).
  - `RestsOnTarget` (`RestIsOnTarget`), from three facts of the loops: what the
    positions of the plan are worth is the sum over those valued so far
    (`ValuedInv`), every buy that was skipped was measured against the remaining
    budget, and that is the whole budget where no order is planned (`IdleInv`).
    The targets add up to no more than the deployable money and a rounding for
    each symbol (`TargetsTotal`), the holdings to what is deployed
    (`PositionsTotal`), so what one symbol lacks is bounded by the cash, by what
    others have in excess, and by rounding (`MissingIsBounded`,
    `WorthlessIsSmall`).
  - `LoopsPlanAsStated` (`LoopsComputeBuildPlan`): the loops return, order by
    order, the plan of the functional form, and raise exactly where it says that
    there is none; so what `EvaluationProofs` shows of `BuildPlan` holds of the
    loops. The invariant `ClosedInv` says how far the functional form has been
    worked off: the sells so far, and their proceeds, are those of the symbols
    come past, in the order of the universe (`SellsSoFar`); the buys and the rest of
    the budget are those after the first k visits of `bought`, and the symbols
    still to visit are the rest of the queue (`BuysSoFar`). It needs that the
    least symbol still to visit is the next of the queue (`NextOfQueue`), which
    holds because an order has only one ranking (`OneRanking` of
    `ArithmeticProofs`).
  - `OnePassIsEnough` (`OnePassSuffices`): with whole shares and room for every
    symbol under the cap, a plan carried out leaves nothing to plan. What the
    loops plan is all there is to do: nothing is cut off, what the buys leave of
    the budget is what they have not spent (`SpentInv`), each of them leaves less
    than one more share to spend on its symbol, and what was declined stays
    declined as the budget falls (`EnoughInv`). Carried out it moves every
    symbol by just that, and the account is worth what it was (`MovedInv`), so
    the targets and the budget of the next plan are what this one ended with;
    `NothingToDo` follows, and an account of which that is true gets an empty
    plan (`QuietInv`). The assumption is that the broker reads positions in parts
    of a share (`SHARE % GRAIN = 0`; in the code 10^8 and 10^4).

  Assumptions: `SHARE` is positive, calls have the fields and types of the code,
  and the symbols are finitely many (`SymbolsAssumption`).

* `PaperBrokerProofs`: `NeverOverdrawn`, `BooksAlwaysBalance`,
  `OrdersAreAtomic` and `CostStaysBounded`, for any number of callers, orders
  and symbols. The invariant is that a caller past its first read holds the
  account's lock and that what it has read is what is there (`LockInv`). The
  refinement of `Ledger` is for any precision: what a caller reads of a position
  is one of its nearest multiples of `GRAIN` (`ReadIsNearest`). The average cost
  is rounded at each buy, and not reset by a sell. `CostIsBounded` puts it
  between the lowest and the highest price paid since the position was last
  empty; what the code adds to that is the rounding of a notional, half a grain
  of money, which the quotient spreads over the quantity, so that per share it
  is the less the larger the order: nothing at all for 100 shares, 0.0001 for one
  share, and so much for the least of fractions that the bound says little
  there, as an order worth less than half a grain is given away. `RoundingCovers` and
  `RoundingShrinks` say what
  rounding may do to one order, `AverageIsBounded` that a mean of bounded costs
  stays between the bounds once it is rounded, `FillWidens` that a buy only
  widens them.

* `EvaluationProofs`: what the tables say of evaluations, for any number of
  engines, manual requests and bots, and whatever the user, the venue, crashes
  and exceptions do in between. `TablesInv` says that a run is gone exactly when
  its bot is, that an evaluation past `create_run` owns its run and no two own
  the same, and that orders are of runs that exist; from it
  `NothingOutlivesItsBot` (`NoOrphanRows`) and, with the processes followed
  through the submit loop, `NoRunIsForgotten` (`OpenRunsAreWorkedOn`).
  `TrailIsAlwaysTrue` needs where each order is: those ahead of a process are
  unknown to everybody, those behind are settled, the one in hand is pending
  until the answer is written, and the answer that is on its way agrees with
  what the venue did (`Ahead`, `Behind`, `Told`, together `TrailInv`).
  - `PlanIsExecutable`: what build_plan returns, for any call it accepts, is a
    list of orders of known symbols, each once; no sell is of more than is held,
    and the cash is never below zero along it (`PaysItsWay`).
    That it is a list at all needs that the two queues have an element in every
    place (`RankedList` of `ArithmeticProofs`: a strict total order ranks a
    finite set), and the budget is followed buy by buy along `bought`
    (`StepByStep`).
  - `EvaluationTypeCorrect` (`EvalTypeOK`), from `AmountsInv`: what an
    evaluation has read is a call of the planner, so what it places is such a
    list, and the broker's cash and positions stay natural numbers.
  - `RunsTellWhatTheyDid` (`RunTally`), from `TallyInv`: an open run's process
    counts what it has met, order by order; a finished run's word is what the
    counts say, and rows and counts agree although the rows of a deleted bot
    are gone.

  Assumptions, in `AmountsAssumption`: prices, holdings and cash to begin with
  are natural numbers of grains, baskets are of known symbols, and settings
  have their types; the columns are `numeric` and checked to be nonnegative, or
  quotes, which the adapters refuse unless positive.

* `ScheduleProofs`: `ScheduleIsHonoured`, for any number of engines and bots,
  edits, crashes and exceptions. It is stated for `Requests = {}`, as the run
  `schedule` is: a manual run takes no lock and may be forced at any time. What
  an edit of the interval may do is part of it: two runs are compared only if the bot was on
  one schedule from the first to the second (`OnOneSchedule`). The
  invariant `SchedInv` says that whoever is not idle holds the lock, that what
  it has listed of a bot is no older than the bot's runs (`Knows`), that its own
  run is the last of all (`OnItsRun`), and that a bot's clock is past the
  interval of each run written back, unless the bot was started anew
  (`ClockSet`).
  `PlansStand` (`PlanStands`): no order of a plan is turned down, whatever the
  user does to the bots meanwhile. The invariant `StandsInv` says of each stage what it has read and may rely on,
  since nobody else trades while it holds the lock (`Relies`), and of the submit
  loop that the orders still to place can be carried out by the account as it
  is (`Carries`), which starts from `PlanIsExecutable`. Its hypotheses are those
  of the run `schedule`: no manual run, which would spend the same cash
  (`Requests = {}`); a venue that does not fail or keep orders open
  (`Outages = {}`); and bots that trade whole shares, of which the broker reads
  each exactly (`SHARE % GRAIN = 0`): `PlanWholeShares` shows that what they hold
  and plan is whole (`InWholeShares`). A fractional bot's exit may be turned down, as
  `fraction_stranded` shows. Both theorems are about the time until the session
  of the lock dies under its engine (`severed`); from then on two engines may
  evaluate one bot, and neither property holds.

* `SchedulerProofs`: `OneLeaderAtATime`, for any number of engines and faults:
  until a session has died under its engine, whoever leads holds the lock.
  `SchedulerTypeCorrect`: a tick works through bots that exist, and an engine
  has a bot in hand exactly while it evaluates; a container that starts over
  has none, because a task that has ended is nowhere in a tick.

* `BotStoreProofs`, the write API and the pages that use it.
  - `NoUpdateIsLost`, `RunningBotsCanFire`, `RetriesAreAbsorbed` and
    `StoreTypeCorrect`, for any number of clients and bots and any bodies and
    patches. The invariant says what the row lock is for: a row that a
    transaction has written is the committed row with its patch applied, for as
    long as it holds the lock (`WrittenUnderLock`), so the commit changes only
    what the patch mentions, and what the constraints were checked on is what is
    stored. The rest is that every bot stored is sound (`SoundBot`), which
    starts from the validators: what passes `readTargets` is a basket with a row
    in it (`BasketIsNotEmpty`), without which the deferred check, which lets an
    empty basket pass, would be no protection. `NameInv` adds that the name an
    open transaction has entered is nobody else's.
  - `WebKeepsTheStore`: these invariants hold of the store with the form and
    the page among its clients, for every step of those is one of the store's
    or none (`StoreSteps`), and the body the form sends is such a body.
  - `PageShowsWhatWasDone` (`ReadYourWrites`), from `PageInv`: what the page
    shows, and what a rendering under way has read, dates from after the last
    answer of the controls, unless another rendering is asked for or has still to
    begin, or that answer was an error or lost, and the page says so.
  - `FormAndServerAgree` and `BasketsAreExact`, from `FormInv`: a form on its
    way has passed the checks of the page and has the shape its inputs allow
    (`FormChecked`, `FormShape`). The percentages are off by at most one
    thousandth of a basis point, so rounding restores them (`PercentIsExact`);
    hence the total the server computes is the total the page computed
    (`TotalIsWhole`) for any number of rows, and what *Split evenly* shows adds
    up to 100 % for up to 50 rows, the most the form allows.

  Assumptions, each named where the constants are declared: bodies have the
  fields of the API and a list is a sequence (`StoreAssumption`); the inputs
  show values of their types (`TypedAssumption`); a name has at most 60
  characters, which `maxLength` ensures (`bot-form.tsx:101`), and `trim` and
  `toUpperCase` leave alone what they have made (`TextAssumption`); and the
  product by 100 is off by no more than a thousandth (`SlipAssumption`), which
  is orders of magnitude more than a double's rounding of a number up to 10 000.

* `ConnectionProofs`, theorems of the whole specification with the browser in
  it, for any number of requests, keys and accounts. `OneRequestPutsItRight`:
  the invariant follows the one request that is alone, the key it asks the venue
  about is the key on file, and so is the account it is about to report; of the
  row it finds, and of what overlapped before, nothing need be known.
  `ScreenSpeaksTrue` (`ScreenIsTrue`): while nothing was hidden from the
  browser, no request is at work but the one it waits for, and its copy is
  behind only while it waits (`SeenInv`); what it was told of a request that met
  no other is so (`ToldInv`). `ConnectionTypeCorrect`: a row is never
  half-written. Assumptions: no account and no mode is the missing value
  (`ConnectionAssumption`), and what passes `parseCredentials` is a key
  (`ScreenAssumption`).

Only model-checked is everything temporal (`EventuallySettles`,
`EveryCallReturns`, `EveryRequestAnswered`, `StopDrains`, `LastOneLeads`,
`RunningBotsAreEvaluated`, `EveryPressEnds`), because liveness under fairness and
`ENABLED` are beyond the prover. Every invariant of the passing runs is stated
by a theorem, under the assumptions named above.

## 6. Departures

Where the code does not do what the repository says of it, and a run shows it:

* `fraction_stranded`: "Exit the whole position" (`rebalance.py:166`). The
  paper broker reads the position rounded half up to four decimals
  (`mock.py:143`): the exit is turned down, or leaves or invents a remainder.
* `start_lost`: "Starting a bot makes it due immediately"
  (`api_functions.sql:165`). An evaluation that read the bot before the start
  writes its own `next_run_at` over it (`touch_bot`, `repo.py:324`).
* `lost_reply`: "an order row may only be written from a broker response"
  (`README.md:164`). A timeout is a `BrokerError`, and the row is written
  `rejected` for an order that the venue may have filled.
* `respecified_running`: "A running bot may be paused but not re-specified"
  (`api_functions.sql:110`). The status is tested before the row is locked; a
  start that commits in between is not seen.

The models have these behaviours too, and a reader of the code should know of
them; the properties above are stated so as to hold beside them:

* A manual run takes no lock and executes a bot while the scheduler does.
* A bot deleted in mid-run has the order in hand placed with no row left.
* "It never deploys more than the user allocated" (`rebalance.py:18`): targets
  are measured against the sleeve and buys are paid from the whole account. A
  holding without a weight that is worth less than the minimum order is kept, and
  the plan may buy the full sleeve of other symbols besides.
* "Exactly one engine may evaluate at a time" (`scheduler.py:10`): the lock lives
  with one connection and the evaluations use others (`scheduler.py:93`). When
  it dies, its engine goes on, and the next takes the lock and evaluates too.
  `OneLeader`, `ScheduleHonoured` and `PlanStands` hold until a session of the lock
  has died; the trail and the tallies are true beside two leaders, too.
* "Its exceptions are swallowed into the run record" (`scheduler.py:17`): one
  that is no `BrokerError` is logged (`scheduler.py:134`), and its run stays
  `running` for good.
* A drain that outlasts thirty seconds ends by cancelling the evaluation, which
  the comment at `scheduler.py:64` says must not happen: a rebalance is abandoned
  with its sells filled and its buys not placed. `StopDrains` says that the
  drain ends, not how.
* A running bot's listing may mix two versions of it, its settings before an
  edit and its basket after it (`repo.py:76-104`).
* Two renames that swap the names of two bots wait for each other, and Postgres
  gives up one of them: its user reads "could not complete the request".
* A retried create is recognised by its name. Whoever edits the name before
  pressing again gets a second bot.
* After an error or a lost answer the page of a bot is not read again, although
  the request may have been carried out.
* A `weight_bps` given as a list of one number, or of nothing, is accepted as
  that number, or as 0 (`validation.ts:138`).
* Between ticks two engines may both report themselves leader
  (`LastOneLeads` says what becomes of that).
* Removing the credentials leaves the hint of the key that is gone, and a
  failed probe resets the connection's environment to `mock`.
* An order the venue keeps open stays `submitted` in the trail for ever, also
  once filled or expired, and the next evaluation orders the same again.
* A connection may say `connected` of a key that has been replaced or removed,
  when a probe of the old key outlasts its deadline and reports afterwards;
  `ConnectedIsAttached` says when that ends.
* A failed create says "invalid bot configuration" and never which field:
  `bot-form.tsx` appends an empty string for the details, which the validators
  collect because "a form with three bad fields should report three problems"
  (`validation.ts:10`).
* `Disconnect` is offered only of a connection that is connected: a rejected
  key that is on file cannot be removed from the screen.
* The table of a bot shows the basket when its latest run has no plan, and not
  the last plan there was.
* The dashboard says that bots cannot trade until an account is attached,
  which is so of a Webull engine and not of the paper broker.
* When the edge function gives up on a rebalance, the engine goes on and the
  page is not refreshed: the user sees an error, and no trace of the run that
  follows.
* A start, pause or stop of a bot deleted meanwhile is answered ok
  (`api_functions.sql:163` does not look at what it updated).
* A fractional bot with a minimum order value of at most a grain may trade
  single grains back and forth for ever in the coarse grains of the model
  (`TradesGrains`). A position with a fraction the broker
  misreads may never come to rest (`Misread`): its exit is refused or leaves a
  remainder at every evaluation, or reading it up adds to it.

## 7. What is not modelled

* **Status words of the venue** that the database's enum does not have: writing
  one is an exception that is no `BrokerError`, which `Raise` covers.
* **Quotes**: a hash of symbol and day. Models take prices from a set and keep
  that a day's quote does not change. **Configuration**: read once; constants.
* **Cryptography** and request signing: pure functions with test vectors.
* **Tokens and sessions**: verified, kept and rotated by libraries outside the
  repository; in the models a session may end at any request.
* **Row level security**: predicates without state. **The list of bots** and
  the formatting of numbers: they only read. **Deployment**: containers and
  proxies; `Scheduler` has the swap.
* **The connection pool** of the engine, and a statement that never returns:
  `Scheduler` takes for granted that awaits return.
* Drift triggers are in `Triggers`, but the runs use schedules: the clock is
  what two evaluations contend for.
* **Lost sessions in `schedule`**: its two properties except them, and the runs
  `evaluation` and `scheduler` have them.

## 8. The plan

Done: the planner and its loop, the paper broker and its ledger, the
evaluation with a venue that keeps orders open, the scheduler, the validators
and the write API, the connection, the form, the page of a bot and the
connection screen; and the theorems of section 5, which carry all of the
invariants that the runs check.

Next, in this order:

1. *Pool*: the leader's connection and the requests' against the pool's limit,
   and a statement that never returns.
2. *Migrator*: the order in which `start.sh` applies migrations, interrupted
   and run twice.
3. *Drift*: `schedule_or_drift` bots in `schedule`, several users and accounts.
