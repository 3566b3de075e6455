-------------------------- MODULE ConnectionScreen --------------------------
(***************************************************************************)
(* What one browser shows of the broker connection: the connection screen  *)
(* (web/components/connection-manager.tsx), and the dashboard with its     *)
(* account panel (components/account-panel.tsx), over the routes of the    *)
(* edge function (api/routes/broker.ts) and its client of the engine       *)
(* (_shared/engine.ts), which gives up on an engine that is slow while the *)
(* engine goes on: a press may meet what an earlier one has left running.  *)
(***************************************************************************)
EXTENDS Connection, Validation, Api

CONSTANTS Inputs    \* what the user may have typed: [api_key, api_secret]


VARIABLES at,      \* "connection" or "dashboard"
          shown,   \* the connection as the screen has it
          message, \* what it says of the last press
          doing,   \* the transition under way, or NotBusy
          warning, \* the dashboard says that no broker is connected
          panel,   \* the account panel
          unseen   \* history: something happened that the page could not see

screenVars == <<at, shown, message, doing, warning, panel, unseen>>
allVars == <<connVars, screenVars>>

NotBusy == [pc |-> "idle"]

(* GET /connection, and the page's own read: with no row, a default.  Of    *)
(* the columns the properties look at these two.                            *)
Disconnected == [status |-> "disconnected", account_id |-> None]
connection == IF row = NoRow THEN Disconnected
              ELSE [status |-> row.status, account_id |-> row.account_id]

ScreenInit ==
  /\ ConnInit
  /\ at = "connection" /\ shown = connection
  /\ message = None /\ doing = NotBusy /\ warning = FALSE
  /\ panel = "not shown" /\ unseen = FALSE

-----------------------------------------------------------------------------
(* The user. *)

EngineStays == UNCHANGED connVars

Press(asked) ==
  /\ at = "connection" /\ doing = NotBusy
  /\ inputs < MaxInputs /\ inputs' = inputs + 1
  /\ doing' = asked /\ message' = None
  /\ UNCHANGED <<at, shown, warning, panel, unseen>>
  /\ UNCHANGED <<broker_mode, credentials, row, req, alone>>

(* The inputs are required, with minLength={4}; they stay until it worked.  *)
save == \E keys \in Inputs :
  /\ \A x \in DOMAIN keys : Length[keys[x]] >= 4
  /\ Press([pc |-> "sent", op |-> "save", keys |-> keys])
verify == Press([pc |-> "sent", op |-> "verify"])
disconnect == shown.status = "connected" /\ Press([pc |-> "sent", op |-> "disconnect"])

(* Going from page to page: the server reads the row, the components start  *)
(* afresh, and a request in hand goes on with nobody to see its end.        *)
Visit(p) ==
  /\ at # p /\ doing.pc # "sent" /\ at' = p
  /\ message' = None /\ doing' = NotBusy /\ unseen' = ~AtRest
  /\ shown' = IF p = "connection" THEN connection ELSE Disconnected
  /\ warning' = (p = "dashboard" /\ connection.status # "connected")
  /\ panel' = IF p = "dashboard" THEN "loading" ELSE "not shown"
  /\ EngineStays

-----------------------------------------------------------------------------
(* The edge function: parseCredentials, then one call of the engine. *)

KeyBody(keys) == [x \in DOMAIN keys |-> Text(keys[x])]
KeyIn(keys) == Trim[keys.api_key]

(* What passes the validator is a key; no message is not one of them.       *)
ASSUME ScreenAssumption ==
  /\ \A keys \in Inputs :
       parseCredentials_issues(KeyBody(keys)) = {} => KeyIn(keys) \in Keys
  /\ None \notin {"connected", "error", "deleted", "failed"}

Reply(answer) == doing' = [pc |-> "answered", op |-> doing.op, answer |-> answer]
OnlyReply == UNCHANGED <<at, shown, message, warning, panel>>

RefuseBody ==
  /\ doing.pc = "sent" /\ doing.op = "save"
  /\ parseCredentials_issues(KeyBody(doing.keys)) # {}
  /\ Reply(fail("invalid_request"))
  /\ OnlyReply /\ UNCHANGED unseen /\ EngineStays

RefuseUser ==
  /\ doing.pc = "sent" /\ Reply(requireUser(FALSE, ok("result", 200)))
  /\ OnlyReply /\ UNCHANGED unseen /\ EngineStays

Forward(c) ==
  /\ doing.pc = "sent"
  /\ \/ /\ doing.op = "save" /\ parseCredentials_issues(KeyBody(doing.keys)) = {}
        /\ Store(c, KeyIn(doing.keys))
     \/ doing.op = "verify" /\ Verify(c)
     \/ doing.op = "disconnect" /\ Remove(c)
  /\ doing' = [pc |-> "engine", op |-> doing.op, client |-> c]
  /\ OnlyReply /\ UNCHANGED unseen

(* A refused key is a result like any other, with an error in it.           *)
result_of(c) ==
  CASE At(c, "connected") -> ok("connected", 200)
    [] At(c, "error") -> ok("error", 200)
    [] At(c, "removed") -> ok("deleted", 200)
ReplyWhenDone(c, answer) ==
  IF doing.pc = "engine" /\ doing.client = c THEN Reply(answer) ELSE UNCHANGED doing

EngineWorks(c) ==
  /\ EngineStep(c)
  /\ CASE inputs' # inputs -> /\ ReplyWhenDone(c, engine_call(500, None)) /\ unseen' = TRUE
       [] inputs' = inputs /\ req'[c] = Idle ->
            ReplyWhenDone(c, engine_call(200, result_of(c).data)) /\ UNCHANGED unseen
       [] OTHER -> UNCHANGED <<doing, unseen>>
  /\ OnlyReply

(* The deadline passes, or the engine is out of reach. *)
GiveUp_if_out_of_reach ==
  /\ doing.pc = "sent" /\ Reply(engine_call(NoAnswer, None))
  /\ unseen' = TRUE /\ OnlyReply /\ EngineStays
GiveUp ==
  /\ doing.pc \in {"sent", "engine"} /\ Reply(engine_call(NoAnswer, None))
  /\ unseen' = TRUE /\ OnlyReply /\ EngineStays

-----------------------------------------------------------------------------
(* The browser has the answer: it says what came of the press, and reads    *)
(* the connection again.  router.refresh() changes nothing on the screen,   *)
(* whose state began with the first rendering and is its own since.         *)

Receive ==
  LET result == request(TRUE, doing.answer) IN
  /\ doing.pc = "answered"
  /\ IF result.ok
     THEN message' = result.data /\ doing' = [pc |-> "reread"]
     ELSE message' = "failed" /\ doing' = NotBusy
  /\ UNCHANGED <<at, shown, warning, panel, unseen>> /\ EngineStays

Reread_unused ==
  /\ doing.pc = "reread" /\ doing' = NotBusy
  /\ unseen' = (unseen /\ ~AtRest)
  /\ UNCHANGED <<at, message, shown, warning, panel>> /\ EngineStays
Reread ==
  /\ doing.pc = "reread" /\ shown' = connection /\ doing' = NotBusy
  /\ unseen' = (unseen /\ ~AtRest)
  /\ UNCHANGED <<at, message, warning, panel>> /\ EngineStays

(* An answer is lost on its way. *)
Lose ==
  /\ inputs < MaxInputs /\ inputs' = inputs + 1 /\ unseen' = TRUE
  /\ \/ doing.pc = "answered" /\ doing.answer # broken /\ Reply(broken) /\ UNCHANGED message
     \/ doing.pc = "reread" /\ doing' = NotBusy /\ message' = "failed"
  /\ UNCHANGED <<at, shown, warning, panel>>
  /\ UNCHANGED <<broker_mode, credentials, row, req, alone>>

-----------------------------------------------------------------------------
(* AccountPanel: the engine asks the broker, and writes nothing.            *)

account ==
  IF broker_mode = "mock" THEN PaperAccount
  ELSE IF credentials \in Accepted THEN AccountOf[credentials] ELSE "error"

Loaded(what) ==
  /\ panel = "loading" /\ panel' = what
  /\ UNCHANGED <<at, shown, message, doing, warning, unseen>> /\ EngineStays
LoadPanel == Loaded(account)
PanelFails == Loaded("error")
Refresh ==
  /\ panel \notin {"loading", "not shown"} /\ panel' = "loading"
  /\ UNCHANGED <<at, shown, message, doing, warning, unseen>> /\ EngineStays

-----------------------------------------------------------------------------
Answers == RefuseBody \/ RefuseUser \/ GiveUp \/ \E c \in Clients : Forward(c)
PressProceeds == Answers \/ Receive \/ Reread

ScreenNext ==
  \/ save \/ verify \/ disconnect \/ Visit("dashboard") \/ Visit("connection")
  \/ PressProceeds \/ Lose \/ LoadPanel \/ PanelFails \/ Refresh
  \/ \E c \in Clients : EngineWorks(c)

(* The browser and the edge function go on; the engine need not.            *)
ScreenSpec ==
  /\ ScreenInit /\ [][ScreenNext]_allVars
  /\ WF_allVars(PressProceeds) /\ WF_allVars(LoadPanel \/ PanelFails)

-----------------------------------------------------------------------------
(* What the browser shows is so, when nothing is in hand and nothing was    *)
(* hidden from it (an answer lost or late, an engine that died, a page left *)
(* in the middle): the screen shows the row of the database; and after a    *)
(* request that met no other it says connected or deleted only of what is,  *)
(* and a dashboard without its warning lists the account that is attached.  *)
ScreenIsTrue ==
  AtRest /\ doing = NotBusy /\ ~unseen =>
    /\ at = "connection" =>
         /\ shown = connection
         /\ alone /\ message = "connected" => shown.status = "connected"
         /\ alone /\ message = "deleted" => credentials = None
    /\ at = "dashboard" /\ alone /\ ~warning /\ panel \notin {"loading", "error"} =>
         panel = row.account_id

(* No press waits for ever, and the panel does not load for ever, even if   *)
(* the engine never answers: the user sees an error and not a spinner.      *)
EveryPressEnds == /\ (doing # NotBusy) ~> (doing = NotBusy)
                  /\ (panel = "loading") ~> (panel # "loading")
=============================================================================
