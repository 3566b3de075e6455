------------------------------- MODULE BotPage ------------------------------
(***************************************************************************)
(* The page of a bot (web/app/(app)/bots/[id]/page.tsx), which the server  *)
(* puts together from several reads, with its controls                     *)
(* (components/bot-controls.tsx) and its table                             *)
(* (components/allocation-table.tsx).  The tab comes to it from the form;  *)
(* other clients and the engine change the bot under its eyes.             *)
(***************************************************************************)
EXTENDS BotForm

VARIABLES latest,  \* the plan of each bot's newest run, if it has one
          page,    \* what the tab shows of the bot, or NotShown
          load,    \* the reads of a rendering under way
          wanted,  \* a rendering that was asked for and has not begun
          act,     \* the request of the controls, while they are busy
          note     \* what the controls say of the last one: None, "ok" or "bad"

pageVars == <<latest, page, load, wanted, act, note>>
webVars == <<storeVars, formVars, pageVars>>

NotShown == [is |-> "not shown"]
NotFound == [is |-> "not found"]
NoLoad == [pc |-> "none"]
NoAct == [pc |-> "idle"]

PageInit ==
  /\ latest = [b \in Bots |-> None]
  /\ page = NotShown /\ load = NoLoad /\ wanted = FALSE
  /\ act = NoAct /\ note = None

-----------------------------------------------------------------------------
(* The server renders the page: first the bot, then its basket and its      *)
(* latest run, which are asked for together.  "stale" is history: some of   *)
(* it was read before an answer that the controls have had since, be it an  *)
(* error or the news that the answer was lost.                              *)

FormStays == UNCHANGED formVars

BeginLoad ==
  /\ wanted /\ load = NoLoad
  /\ wanted' = FALSE /\ load' = [pc |-> "bot"]
  /\ UNCHANGED <<latest, page, act, note>> /\ FormStays /\ StoreStays

ReadBot ==
  /\ load.pc = "bot"
  /\ IF Exists(at)
     THEN /\ load' = [pc |-> "rest", status |-> bots[at].status,
                      targets |-> None, plan |-> <<>>, stale |-> FALSE]
          /\ UNCHANGED page
     ELSE load' = NoLoad /\ page' = NotFound
  /\ UNCHANGED <<latest, wanted, act, note>> /\ FormStays /\ StoreStays

(* Of a bot deleted meanwhile there are no rows. *)
ReadTargets ==
  /\ load.pc = "rest" /\ load.targets = None
  /\ load' = [load EXCEPT !.targets = IF Exists(at) THEN bots[at].targets ELSE <<>>]
  /\ UNCHANGED <<latest, page, wanted, act, note>> /\ FormStays /\ StoreStays

ReadRuns ==
  /\ load.pc = "rest" /\ load.plan = <<>>
  /\ load' = [load EXCEPT !.plan = <<IF Exists(at) THEN latest[at] ELSE None>>]
  /\ UNCHANGED <<latest, page, wanted, act, note>> /\ FormStays /\ StoreStays

(* AllocationTable: the plan of the latest run, or else the basket.         *)
table_rows(targets, plan) == IF plan = None THEN targets ELSE plan

Render ==
  /\ load.pc = "rest" /\ load.targets # None /\ load.plan # <<>>
  /\ page' = [is |-> "shown", status |-> load.status, stale |-> load.stale,
              rows |-> table_rows(load.targets, load.plan[1])]
  /\ load' = NoLoad
  /\ UNCHANGED <<latest, wanted, act, note>> /\ FormStays /\ StoreStays

-----------------------------------------------------------------------------
(* BotControls *)

offered(action) ==
  \/ action = "start" /\ page.status # "running"
  \/ action = "pause" /\ page.status = "running"
  \/ action = "stop" /\ page.status # "stopped"

Press == page.is = "shown" /\ act = NoAct /\ Input /\ note' = None
RestStays == UNCHANGED <<latest, page, load, wanted, form, call, error, at>>

SetStatus(action) ==
  /\ Press /\ offered(action) /\ StatusAction(Tab, at, action)
  /\ act' = [pc |-> "asked"] /\ RestStays

Answer_act(answer) == act' = [pc |-> "answered", answer |-> answer]

Rebalance ==
  /\ Press /\ act' = [pc |-> "engine"] /\ RestStays /\ StoreStays

(* The session has ended: requireUser lets nobody pass.                     *)
PressInVain ==
  /\ Press /\ Answer_act(requireUser(FALSE, ok("bot", 200)))
  /\ RestStays /\ StoreStays

(* set_bot_status for the tab. *)
status_answer ==
  IF At(Tab, "status", "write") THEN ok("bot", 200)
  ELSE onError(fromPostgres(IF Exists(req[Tab].bot) THEN "add target holdings"
                            ELSE "bot not found"))
ServeTab ==
  /\ act.pc = "asked" /\ Serve(Tab)
  /\ IF req'[Tab] = Idle THEN Answer_act(status_answer) ELSE UNCHANGED act
  /\ UNCHANGED <<latest, page, load, wanted, note>> /\ FormStays

(* An evaluation by the scheduler or for a request: with a plan, or failed  *)
(* or refused before there is one.  Those of other bots change nothing here.*)
Evaluation(b) ==
  /\ Exists(b)
  /\ \E plan \in {None, bots[b].targets} : latest' = [latest EXCEPT ![b] = plan]

EngineEvaluates ==
  /\ at # "new" /\ Evaluation(at) /\ Input
  /\ UNCHANGED <<page, load, wanted, act, note, form, call, error, at>> /\ StoreStays

EngineAnswers ==
  /\ act.pc = "engine"
  /\ IF Exists(at) THEN Evaluation(at) /\ Answer_act(engine_call(200, "result"))
     ELSE UNCHANGED latest /\ Answer_act(engine_call(404, None))
  /\ UNCHANGED <<page, load, wanted, note>> /\ FormStays /\ StoreStays

(* The deadline of the edge function passes; the engine goes on.            *)
EngineIsLate ==
  /\ act.pc = "engine" /\ Answer_act(engine_call(NoAnswer, None))
  /\ UNCHANGED <<latest, page, load, wanted, note>> /\ FormStays /\ StoreStays

LoseAnswer ==
  /\ act.pc = "answered" /\ act.answer # broken /\ Input /\ Answer_act(broken)
  /\ UNCHANGED note /\ RestStays /\ StoreStays

outdated(x) == IF "stale" \in DOMAIN x THEN [x EXCEPT !.stale = TRUE] ELSE x

(* setNote and, if all went well, router.refresh(): after an error the page *)
(* is left as it was.                                                       *)
ReceiveAct_without_refresh ==
  LET result == request(TRUE, act.answer) IN
  /\ act.pc = "answered" /\ act' = NoAct
  /\ note' = IF result.ok THEN "ok" ELSE "bad"
  /\ page' = outdated(page) /\ load' = outdated(load)
  /\ UNCHANGED <<latest, wanted>> /\ FormStays /\ StoreStays
ReceiveAct ==
  LET result == request(TRUE, act.answer) IN
  /\ act.pc = "answered" /\ act' = NoAct
  /\ note' = IF result.ok THEN "ok" ELSE "bad"
  /\ wanted' = (wanted \/ result.ok)
  /\ page' = outdated(page) /\ load' = outdated(load)
  /\ UNCHANGED latest /\ FormStays /\ StoreStays

-----------------------------------------------------------------------------
(* The user goes from page to page, and waits for the controls and the form *)
(* before leaving them.                                                     *)
Visit(p) ==
  /\ at # p /\ act = NoAct /\ ~busy
  /\ p # "new" => Exists(p)
  /\ at' = p /\ form' = NewForm /\ error' = None
  /\ page' = NotShown /\ load' = NoLoad /\ wanted' = (p # "new")
  /\ note' = None
  /\ UNCHANGED <<call, inputs, latest, act>> /\ StoreStays

(* The form takes the tab to the bot it has made.                           *)
FormStep ==
  /\ FormNext
  /\ wanted' = (at' # "new")
  /\ UNCHANGED <<latest, page, load, act, note>>

Others == Clients \ {Tab}
OtherAsks ==
  /\ Input
  /\ \/ \E b \in Bots, body \in Bodies : CreateBot(b, body)
     \/ \E c \in Others : ApiRequest(c)
  /\ UNCHANGED pageVars /\ UNCHANGED <<form, call, error, at>>
ServeOther(c) == Serve(c) /\ UNCHANGED pageVars /\ FormStays

PageStep == BeginLoad \/ ReadBot \/ ReadTargets \/ ReadRuns \/ Render
ControlStep ==
  \/ \E action \in DOMAIN StatusOf : SetStatus(action)
  \/ Rebalance \/ PressInVain \/ ServeTab \/ EngineAnswers \/ EngineIsLate
  \/ LoseAnswer \/ ReceiveAct

WebInit == StoreInit /\ FormInit /\ PageInit
WebNext ==
  \/ FormStep \/ PageStep \/ ControlStep \/ EngineEvaluates \/ OtherAsks
  \/ \E c \in Others : ServeOther(c)
  \/ \E p \in {"new"} \cup Bots : Visit(p)

(* Postgres runs every transaction and grants row locks in turn.            *)
WebSpec == /\ WebInit /\ [][WebNext]_webVars
           /\ SF_webVars(ServeTab) /\ \A c \in Others : SF_webVars(ServeOther(c))

-----------------------------------------------------------------------------
(* A user sees what has become of what they did, or is told that something  *)
(* went wrong: a page at rest that shows anything read before the last      *)
(* answer its controls had shows an error with it.  After an error the page *)
(* is not read again, although the request may well have been carried out.  *)
ReadYourWrites ==
  page.is = "shown" /\ act = NoAct /\ load = NoLoad /\ ~wanted /\ page.stale =>
    note = "bad"
=============================================================================
