-------------------------- MODULE ConnectionProofs --------------------------
(***************************************************************************)
(* A request that meets no other puts the connection right, for any number *)
(* of requests, keys and accounts, and whatever overlapped or crashed      *)
(* before.                                                                 *)
(*                                                                         *)
(* The inductive invariant follows the one request that is alone: the key  *)
(* it asks about is the key on file, and so is the account it is about to  *)
(* report; nothing has to be known of the row it finds.                    *)
(***************************************************************************)
EXTENDS ConnectionScreen, TLAPS

(* What the row of a connection says when it is right, of an account.       *)
Attached(account_id) ==
  IF broker_mode = "mock" THEN account_id = PaperAccount
  ELSE credentials \in Accepted /\ account_id = AccountOf[credentials]

Busy(c) == ~At(c, "idle")
OnTheWay(c) ==
  /\ At(c, "ask") => broker_mode # "mock" /\ req[c].key = credentials
  /\ At(c, "connected") => Attached(req[c].account)

IInv ==
  /\ broker_mode \in Modes /\ DOMAIN req = Clients
  /\ alone => /\ \A c, d \in Clients : Busy(c) /\ Busy(d) => c = d
              /\ \A c \in Clients : OnTheWay(c)
  /\ ConnectedIsAttached

-----------------------------------------------------------------------------
(* A request that goes on and leaves the credentials alone.                 *)
LEMMA GoesOn ==
  ASSUME IInv, NEW c \in Clients, Busy(c), NEW r, r.pc # "idle",
         req' = [req EXCEPT ![c] = r],
         UNCHANGED <<broker_mode, alone, credentials>>,
         alone => OnTheWay(c)'
  PROVE  IInv'
<1>1. \A d \in Clients : req'[d] = IF d = c THEN r ELSE req[d]
  BY DEF IInv
<1>2. \A d \in Clients : Busy(d)' <=> Busy(d)
  BY <1>1 DEF Busy, At
<1>3. ~AtRest'
  BY <1>2 DEF AtRest, Busy
<1>4. ASSUME alone, NEW d \in Clients
      PROVE  OnTheWay(d)'
  BY <1>1, <1>4 DEF IInv, OnTheWay, At, Attached
<1> QED BY <1>2, <1>3, <1>4 DEF IInv, ConnectedIsAttached

(* A request that ends, having left the row right.                          *)
LEMMA Ends ==
  ASSUME IInv, NEW c \in Clients, req' = [req EXCEPT ![c] = Idle],
         UNCHANGED <<broker_mode, credentials>>, alone' => alone,
         alone' => ConnectedIsAttached'
  PROVE  IInv'
<1>1. \A d \in Clients : req'[d] = IF d = c THEN Idle ELSE req[d]
  BY DEF IInv
<1>2. \A d \in Clients : Busy(d)' => Busy(d)
  BY <1>1 DEF Busy, At, Idle
<1>3. ASSUME alone', NEW d \in Clients
      PROVE  OnTheWay(d)'
  BY <1>1, <1>3 DEF IInv, OnTheWay, At, Attached, Idle
<1> QED BY <1>2, <1>3 DEF IInv, ConnectedIsAttached

(* A request arrives: what matters is whether another is in hand.           *)
LEMMA Begins ==
  ASSUME IInv, NEW c \in Clients, NEW r, Begin(c, r),
         r.pc \in {"attached", "removed", "probe"}
  PROVE  IInv'
<1>1. \A d \in Clients : req'[d] = IF d = c THEN r ELSE req[d]
  BY DEF IInv, Begin, Become
<1>2. alone' => \A d \in Clients : d # c => ~Busy(d)' /\ ~Busy(d)
  BY <1>1 DEF Begin, AtRest, Busy, At
<1>3. ~AtRest'
  BY <1>1 DEF AtRest, At
<1>4. ASSUME alone', NEW d \in Clients
      PROVE  OnTheWay(d)'
  BY <1>1, <1>2, <1>4 DEF OnTheWay, Busy, At
<1>5. broker_mode' \in Modes /\ DOMAIN req' = Clients
  BY DEF IInv, Begin, Become
<1> QED BY <1>2, <1>3, <1>4, <1>5 DEF IInv, ConnectedIsAttached

-----------------------------------------------------------------------------
(* What set_connection_state makes of what it is given.                     *)
LEMMA RowIsSet ==
  ASSUME NEW status, NEW environment, NEW account_id, NEW hint,
         set_connection_state(State(status, environment, account_id, hint))
  PROVE  /\ row'.status = status
         /\ environment # None => row'.environment = environment
         /\ account_id # None => row'.account_id = account_id
BY DEF set_connection_state, State, coalesce, account_after

(* One step of the engine.                                                  *)
LEMMA EngineStepIsSound ==
  ASSUME IInv, NEW c \in Clients, EngineStep(c)
  PROVE  IInv'
<1>1. ASSUME MarkAttached(c)
      PROVE  IInv'
  <2>1. Busy(c) /\ req' = [req EXCEPT ![c] = [pc |-> "probe"]]
        /\ UNCHANGED <<broker_mode, alone, credentials>>
    BY <1>1 DEF MarkAttached, Busy, At, Become, Untouched
  <2>2. OnTheWay(c)'
    BY <2>1 DEF OnTheWay, At, IInv
  <2> QED BY <2>1, <2>2, GoesOn
<1>2. ASSUME MarkRemoved(c)
      PROVE  IInv'
  <2>1. row'.status = "disconnected"
    BY <1>2, RowIsSet DEF MarkRemoved
  <2>2. ConnectedIsAttached'
    BY <2>1 DEF ConnectedIsAttached
  <2> QED BY <1>2, <2>2, Ends DEF MarkRemoved, Become, Untouched
<1>3. ASSUME BrokerFor(c)
      PROVE  IInv'
  <2> DEFINE r == IF broker_mode = "mock" THEN [pc |-> "connected", account |-> PaperAccount]
                  ELSE IF credentials = None THEN [pc |-> "error"]
                  ELSE [pc |-> "ask", key |-> credentials]
  <2>1. Busy(c) /\ req' = [req EXCEPT ![c] = r]
        /\ UNCHANGED <<broker_mode, alone, credentials>>
    BY <1>3 DEF BrokerFor, Busy, At, Become, Untouched
  <2>2. req'[c] = r
    BY <2>1 DEF IInv
  <2>3. r.pc # "idle"
    OBVIOUS
  <2>4. OnTheWay(c)'
    BY <2>1, <2>2 DEF OnTheWay, At, Attached
  <2> HIDE DEF r
  <2> QED BY <2>1, <2>3, <2>4, GoesOn
<1>4. ASSUME GetAccount(c)
      PROVE  IInv'
  <2> DEFINE r == IF req[c].key \in Accepted
                  THEN [pc |-> "connected", account |-> AccountOf[req[c].key]]
                  ELSE [pc |-> "error"]
  <2>1. Busy(c) /\ At(c, "ask") /\ req' = [req EXCEPT ![c] = r]
        /\ UNCHANGED <<broker_mode, alone, credentials>>
    BY <1>4 DEF GetAccount, Busy, At, Become, Untouched
  <2>2. req'[c] = r
    BY <2>1 DEF IInv
  <2>3. r.pc # "idle"
    OBVIOUS
  <2>4. alone => OnTheWay(c)'
    BY <2>1, <2>2 DEF IInv, OnTheWay, At, Attached
  <2> HIDE DEF r
  <2> QED BY <2>1, <2>3, <2>4, GoesOn
<1>5. ASSUME ProbeFails(c)
      PROVE  IInv'
  <2>1. Busy(c) /\ req' = [req EXCEPT ![c] = [pc |-> "error"]]
        /\ UNCHANGED <<broker_mode, alone, credentials>>
    BY <1>5 DEF ProbeFails, Busy, At, Become, Untouched
  <2>2. OnTheWay(c)'
    BY <2>1 DEF OnTheWay, At, IInv
  <2> QED BY <2>1, <2>2, GoesOn
<1>6. ASSUME ReportConnected(c)
      PROVE  IInv'
  <2>1. UNCHANGED <<broker_mode, alone, credentials>> /\ req' = [req EXCEPT ![c] = Idle]
    BY <1>6 DEF ReportConnected, Become, Untouched
  <2>2. ASSUME alone
        PROVE  ConnectedIsAttached'
    <3>1. Attached(req[c].account)
      BY <1>6, <2>2 DEF ReportConnected, IInv, OnTheWay
    <3>2. req[c].account # None /\ broker_mode # None
      BY <3>1, ConnectionAssumption DEF Attached, IInv, Modes
    <3>3. row'.account_id = req[c].account /\ row'.environment = broker_mode
      BY <1>6, <3>2, RowIsSet DEF ReportConnected
    <3> QED BY <2>1, <3>1, <3>3 DEF ConnectedIsAttached, Attached
  <2> QED BY <2>1, <2>2, Ends
<1>7. ASSUME ReportError(c)
      PROVE  IInv'
  <2>1. row'.status = "error"
    BY <1>7, RowIsSet DEF ReportError
  <2>2. ConnectedIsAttached'
    BY <2>1 DEF ConnectedIsAttached
  <2> QED BY <1>7, <2>2, Ends DEF ReportError, Become, Untouched
<1>8. ASSUME Crash(c)
      PROVE  IInv'
  BY <1>8, Ends DEF Crash, Become
<1> QED BY <1>1, <1>2, <1>3, <1>4, <1>5, <1>6, <1>7, <1>8 DEF EngineStep

-----------------------------------------------------------------------------
(* Nothing of the invariant is the browser's.                               *)
LEMMA OnlyTheBrowser ==
  ASSUME IInv, UNCHANGED <<broker_mode, credentials, row, req, alone>>
  PROVE  IInv'
BY DEF IInv, Busy, OnTheWay, At, Attached, ConnectedIsAttached, AtRest

(* Every step keeps the invariant.                                          *)
THEOREM StepIsSound == IInv /\ [ScreenNext]_allVars => IInv'
<1> SUFFICES ASSUME IInv, [ScreenNext]_allVars PROVE IInv'
  OBVIOUS
<1>1. ASSUME NEW c \in Clients, EngineWorks(c)
      PROVE  IInv'
  BY <1>1, EngineStepIsSound DEF EngineWorks
<1>2. ASSUME NEW c \in Clients, Forward(c)
      PROVE  IInv'
  <2>1. PICK r : Begin(c, r) /\ r.pc \in {"attached", "removed", "probe"}
    BY <1>2 DEF Forward, Store, Verify, Remove
  <2> QED BY <2>1, Begins
<1>3. ASSUME UNCHANGED <<broker_mode, credentials, row, req, alone>>
      PROVE  IInv'
  BY <1>3, OnlyTheBrowser
<1>4. CASE save \/ verify \/ disconnect \/ Lose
  BY <1>3, <1>4 DEF save, verify, disconnect, Press, Lose
<1>5. CASE Visit("dashboard") \/ Visit("connection") \/ Refresh \/ LoadPanel \/ PanelFails
  BY <1>3, <1>5 DEF Visit, Refresh, LoadPanel, PanelFails, Loaded, EngineStays, connVars
<1>6. CASE RefuseBody \/ RefuseUser \/ GiveUp \/ Receive \/ Reread
  BY <1>3, <1>6 DEF RefuseBody, RefuseUser, GiveUp, Receive, Reread, EngineStays, connVars
<1>7. CASE UNCHANGED allVars
  BY <1>3, <1>7 DEF allVars, connVars
<1> QED BY <1>1, <1>2, <1>4, <1>5, <1>6, <1>7 DEF ScreenNext, PressProceeds, Answers

(* Whatever overlapped, crashed or was reported late before: when the last  *)
(* request met no other and none is in hand, a connection that says it is   *)
(* connected shows the account of the key on file, which the venue knows.   *)
THEOREM OneRequestPutsItRight == ScreenSpec => []ConnectedIsAttached
<1>1. ScreenInit => IInv
  <2> SUFFICES ASSUME ScreenInit PROVE IInv
    OBVIOUS
  <2>1. \A c \in Clients : ~Busy(c) /\ OnTheWay(c)
    BY DEF ScreenInit, ConnInit, Busy, OnTheWay, At, Idle
  <2>2. row.status # "connected"
    BY DEF ScreenInit, ConnInit, NoRow
  <2> QED BY <2>1, <2>2 DEF ScreenInit, ConnInit, IInv, ConnectedIsAttached
<1>2. IInv => ConnectedIsAttached
  BY DEF IInv
<1> QED BY <1>1, <1>2, StepIsSound, PTL DEF ScreenSpec

-----------------------------------------------------------------------------
(* The browser.  What it has been told of the last press: the message it    *)
(* shows, or an answer that it has not read yet.                            *)
Succeeded == doing.answer.status \in 200..299
Told(word) == \/ message = word
              \/ doing.pc = "answered" /\ Succeeded /\ doing.answer.data = word

(* The press in hand is one request at most, and that one at work.          *)
PressInv ==
  /\ inputs \in Nat /\ at \in {"connection", "dashboard"}
  /\ doing.pc \in {"idle", "sent", "engine", "answered", "reread"}
  /\ doing.pc = "idle" => doing = NotBusy
  /\ doing.pc = "engine" => doing.client \in Clients /\ Busy(doing.client)
  /\ doing.pc \in {"sent", "engine", "answered"} => message = None
  /\ at = "dashboard" => doing = NotBusy

(* While nothing was hidden from the browser, nothing is in hand but what   *)
(* it waits for, and the screen is behind only while it waits.              *)
SeenInv ==
  ~unseen =>
    /\ \A c \in Clients : Busy(c) => doing.pc = "engine" /\ doing.client = c
    /\ at = "connection" /\ (doing.pc \in {"idle", "sent"} \/ (doing.pc = "answered" /\ ~Succeeded))
         => shown = connection

(* What it was told of a request that met no other is so, and stays so.     *)
ToldInv ==
  alone => /\ Told("connected") => AtRest /\ connection.status = "connected"
           /\ Told("deleted") => AtRest /\ credentials = None
           /\ \A c \in Clients : At(c, "removed") => credentials = None

(* On the dashboard no press is made: what it saw on arriving still is.     *)
DashboardInv ==
  at = "dashboard" /\ ~unseen /\ ~warning =>
    /\ connection.status = "connected"
    /\ alone /\ panel \notin {"loading", "error"} => panel = row.account_id

BrowserInv == PressInv /\ SeenInv /\ ToldInv /\ DashboardInv

-----------------------------------------------------------------------------
(* A step of the engine on one request: it ends the request without a word, *)
(* goes on with it, or ends it with what it has written.                    *)
Died(c) == inputs' # inputs /\ inputs' \in Nat /\ ~alone'
GoingOn(c) == inputs' = inputs /\ alone' = alone /\ Busy(c)' /\ ~At(c, "removed")'
Ended(c) == /\ inputs' = inputs /\ alone' = alone /\ req'[c] = Idle
            /\ \/ At(c, "removed") \/ At(c, "error")
               \/ At(c, "connected") /\ row'.status = "connected"

LEMMA EngineGoesOn ==
  ASSUME IInv, inputs \in Nat, NEW c \in Clients, EngineStep(c)
  PROVE  /\ Busy(c) /\ UNCHANGED <<broker_mode, credentials>>
         /\ \A d \in Clients \ {c} : req'[d] = req[d]
         /\ Died(c) \/ GoingOn(c) \/ Ended(c)
<1>1. PICK r : Become(c, r)
  BY DEF EngineStep, MarkAttached, MarkRemoved, BrokerFor, GetAccount, ProbeFails,
         ReportConnected, ReportError, Crash
<1>2. \A d \in Clients : req'[d] = IF d = c THEN r ELSE req[d]
  BY <1>1 DEF Become, IInv
<1>3. Busy(c) /\ UNCHANGED <<broker_mode, credentials>>
  BY DEF EngineStep, MarkAttached, MarkRemoved, BrokerFor, GetAccount, ProbeFails,
         ReportConnected, ReportError, Crash, Busy, At, Untouched
<1> DEFINE going_on == MarkAttached(c) \/ BrokerFor(c) \/ GetAccount(c) \/ ProbeFails(c)
<1>4. CASE going_on
  <2>1. inputs' = inputs /\ alone' = alone
    BY <1>4 DEF MarkAttached, BrokerFor, GetAccount, ProbeFails, Untouched
  <2>2. req'[c].pc \in {"probe", "connected", "error", "ask"}
    BY <1>4 DEF MarkAttached, BrokerFor, GetAccount, ProbeFails, Become, IInv
  <2> QED
    BY <1>2, <1>3, <2>1, <2>2 DEF GoingOn, Busy, At
<1>5. CASE Crash(c)
  BY <1>2, <1>3, <1>5 DEF Crash, Died
<1>6. CASE MarkRemoved(c) \/ ReportError(c)
  BY <1>2, <1>3, <1>6 DEF MarkRemoved, ReportError, Ended, Become, Untouched, IInv
<1>7. CASE ReportConnected(c)
  <2>1. row'.status = "connected"
    BY <1>7, RowIsSet DEF ReportConnected
  <2> QED
    BY <1>2, <1>3, <1>7, <2>1 DEF ReportConnected, Ended, Become, Untouched, IInv
<1> QED
  BY <1>4, <1>5, <1>6, <1>7 DEF EngineStep

LEMMA Answers502 ==
  ASSUME NEW data
  PROVE  engine_call(500, data).status \notin 200..299
BY DEF engine_call, onError, fail, STATUS

LEMMA Answers200 ==
  ASSUME NEW data
  PROVE  engine_call(200, data) = [status |-> 200, code |-> "none", data |-> data]
BY DEF engine_call, ok

(* What the browser makes of a step of the engine. *)
LEMMA EngineStepIsSeen ==
  ASSUME IInv, BrowserInv, NEW c \in Clients, EngineWorks(c)
  PROVE  BrowserInv'
<1> DEFINE waited == doing.pc = "engine" /\ doing.client = c
<1>1. /\ Busy(c) /\ UNCHANGED <<broker_mode, credentials>>
      /\ \A d \in Clients \ {c} : req'[d] = req[d]
      /\ Died(c) \/ GoingOn(c) \/ Ended(c)
  BY EngineGoesOn DEF EngineWorks, BrowserInv, PressInv
<1>2. UNCHANGED <<at, shown, message, warning, panel>>
  BY DEF EngineWorks, OnlyReply
<1>3. alone => \A d \in Clients : Busy(d) => d = c
  BY <1>1 DEF IInv
<1>4. \A d \in Clients \ {c} : Busy(d)' <=> Busy(d)
  BY <1>1 DEF Busy, At
<1>5. /\ ~AtRest
      /\ alone => ~Told("connected") /\ ~Told("deleted")
  BY <1>1 DEF AtRest, Busy, BrowserInv, ToldInv
<1>6. ~unseen => waited
  BY <1>1 DEF BrowserInv, SeenInv
<1>7. ~unseen => at = "connection"
  BY <1>6 DEF BrowserInv, PressInv, NotBusy
<1>8. \A d \in Clients : d # c => (At(d, "removed")' <=> At(d, "removed"))
  BY <1>1 DEF At
<1>9. CASE Died(c)
  <2>1. unseen' = TRUE /\ ReplyWhenDone(c, engine_call(500, None))
    BY <1>9 DEF Died, EngineWorks
  <2>2. CASE waited
    <3>1. doing'.pc = "answered"
      BY <2>1, <2>2 DEF ReplyWhenDone, Reply
    <3>2. PressInv'
      BY <1>2, <1>9, <2>2, <3>1 DEF BrowserInv, PressInv, Died, NotBusy
    <3> QED
      BY <1>9, <2>1, <3>2 DEF BrowserInv, SeenInv, ToldInv, DashboardInv, Died
  <2>3. CASE ~waited
    <3>1. doing' = doing
      BY <2>1, <2>3 DEF ReplyWhenDone
    <3>2. PressInv'
      BY <1>2, <1>4, <1>9, <2>3, <3>1 DEF BrowserInv, PressInv, Died
    <3> QED
      BY <1>9, <2>1, <3>2 DEF BrowserInv, SeenInv, ToldInv, DashboardInv, Died
  <2> QED
    BY <2>2, <2>3
<1>10. CASE GoingOn(c)
  <2>1. req'[c] # Idle
    BY <1>10 DEF GoingOn, Busy, At, Idle
  <2>2. UNCHANGED <<doing, unseen>>
    BY <1>10, <2>1 DEF GoingOn, EngineWorks
  <2>3. PressInv'
    BY <1>2, <1>4, <1>10, <2>2 DEF BrowserInv, PressInv, GoingOn
  <2>4. SeenInv'
    BY <1>1, <1>2, <1>4, <1>6, <2>2 DEF BrowserInv, SeenInv
  <2>5. (~Told("connected")' /\ ~Told("deleted")') \/ ~alone'
    BY <1>2, <1>5, <1>10, <2>2 DEF Told, Succeeded, GoingOn
  <2>6. ToldInv'
    BY <1>1, <1>8, <1>10, <2>5 DEF BrowserInv, ToldInv, GoingOn
  <2>7. DashboardInv'
    BY <1>2, <1>7, <2>2 DEF DashboardInv
  <2> QED
    BY <2>3, <2>4, <2>6, <2>7 DEF BrowserInv
<1>11. CASE Ended(c)
  <2>1. /\ unseen' = unseen
        /\ ReplyWhenDone(c, engine_call(200, result_of(c).data))
    BY <1>11 DEF Ended, EngineWorks
  <2>2. ~Busy(c)'
    BY <1>11 DEF Ended, Busy, At, Idle
  <2>3. DashboardInv'
    BY <1>2, <1>7, <2>1 DEF DashboardInv
  <2>4. \/ At(c, "removed") /\ result_of(c).data = "deleted"
        \/ At(c, "error") /\ result_of(c).data = "error"
        \/ At(c, "connected") /\ row'.status = "connected" /\ result_of(c).data = "connected"
    BY <1>11 DEF Ended, result_of, At, ok
  <2>5. CASE waited
    <3>1. doing' = [pc |-> "answered", op |-> doing.op,
                    answer |-> engine_call(200, result_of(c).data)]
      BY <2>1, <2>5 DEF ReplyWhenDone, Reply
    <3>2. doing'.pc = "answered" /\ Succeeded' /\ doing'.answer.data = result_of(c).data
      BY <3>1, Answers200 DEF Succeeded
    <3>3. PressInv'
      BY <1>2, <1>11, <2>5, <3>2 DEF BrowserInv, PressInv, Ended, NotBusy
    <3>4. SeenInv'
      BY <1>1, <1>2, <1>4, <1>6, <2>1, <2>2, <3>2 DEF BrowserInv, SeenInv
    <3>5. alone' => AtRest'
      BY <1>3, <1>4, <1>11, <2>2 DEF AtRest, Busy, Ended
    <3>6. message' # "connected" /\ message' # "deleted"
      BY <1>2, <2>5, ScreenAssumption DEF BrowserInv, PressInv
    <3>7. alone' /\ Told("connected")' => connection'.status = "connected"
      BY <2>4, <3>2, <3>6 DEF Told, connection, NoRow
    <3>8. alone' /\ Told("deleted")' => credentials' = None
      BY <1>1, <1>11, <2>4, <3>2, <3>6 DEF Told, BrowserInv, ToldInv, Ended
    <3>9. alone' => \A d \in Clients : ~At(d, "removed")'
      BY <3>5 DEF AtRest, At
    <3>10. ToldInv'
      BY <3>5, <3>7, <3>8, <3>9 DEF ToldInv
    <3> QED
      BY <2>3, <3>3, <3>4, <3>10 DEF BrowserInv
  <2>6. CASE ~waited
    <3>1. doing' = doing
      BY <2>1, <2>6 DEF ReplyWhenDone
    <3>2. PressInv'
      BY <1>2, <1>4, <1>11, <2>6, <3>1 DEF BrowserInv, PressInv, Ended
    <3>3. SeenInv'
      BY <1>6, <2>1, <2>6 DEF SeenInv
    <3>4. (~Told("connected")' /\ ~Told("deleted")') \/ ~alone'
      BY <1>2, <1>5, <1>11, <3>1 DEF Told, Succeeded, Ended
    <3>5. ~At(c, "removed")'
      BY <1>11 DEF Ended, At, Idle
    <3>6. ToldInv'
      BY <1>1, <1>8, <1>11, <3>4, <3>5 DEF BrowserInv, ToldInv, Ended
    <3> QED
      BY <2>3, <3>2, <3>3, <3>6 DEF BrowserInv
  <2> QED
    BY <2>5, <2>6
<1> QED
  BY <1>1, <1>9, <1>10, <1>11

(* The engine is handed a request. *)
LEMMA ForwardIsSeen ==
  ASSUME IInv, BrowserInv, NEW c \in Clients, Forward(c)
  PROVE  BrowserInv'
<1>1. PICK r : Begin(c, r) /\ r.pc \in {"attached", "removed", "probe"}
               /\ row' = row /\ (r.pc = "removed" => credentials' = None)
  BY DEF Forward, Store, Verify, Remove
<1>2. \A d \in Clients : req'[d] = IF d = c THEN r ELSE req[d]
  BY <1>1 DEF IInv, Begin, Become
<1>3. /\ alone' = AtRest /\ inputs' = inputs /\ ~Busy(c) /\ Busy(c)'
      /\ \A d \in Clients \ {c} : Busy(d)' <=> Busy(d)
  BY <1>1, <1>2 DEF Begin, Busy, At
<1>4. /\ doing.pc = "sent" /\ doing'.pc = "engine" /\ doing'.client = c
      /\ UNCHANGED <<at, shown, message, warning, panel, unseen>>
  BY DEF Forward, OnlyReply
<1>5. at = "connection" /\ message = None
  BY <1>4 DEF BrowserInv, PressInv, NotBusy
<1>6. PressInv'
  BY <1>3, <1>4, <1>5 DEF BrowserInv, PressInv
<1>7. SeenInv'
  BY <1>3, <1>4 DEF BrowserInv, SeenInv
<1>8. ~Told("connected")' /\ ~Told("deleted")'
  BY <1>4, <1>5, ScreenAssumption DEF Told
<1>9. ASSUME alone', NEW d \in Clients, At(d, "removed")'
      PROVE  credentials' = None
  BY <1>1, <1>2, <1>3, <1>9 DEF AtRest, At
<1>10. ToldInv'
  BY <1>8, <1>9 DEF ToldInv
<1>11. DashboardInv'
  BY <1>4, <1>5 DEF DashboardInv
<1> QED
  BY <1>6, <1>7, <1>10, <1>11 DEF BrowserInv

(* What the browser does while the engine does nothing.                     *)
EngineRests == UNCHANGED <<broker_mode, credentials, row, req, alone>>

LEMMA RestingFacts ==
  ASSUME EngineRests
  PROVE  /\ \A c \in Clients : Busy(c)' <=> Busy(c)
         /\ AtRest' <=> AtRest
         /\ \A c \in Clients : At(c, "removed")' <=> At(c, "removed")
         /\ connection' = connection
BY DEF EngineRests, Busy, At, AtRest, connection

LEMMA PressIsSeen ==
  ASSUME BrowserInv, NEW asked, asked.pc = "sent", Press(asked)
  PROVE  BrowserInv'
<1>1. EngineRests /\ inputs' \in Nat
  BY DEF Press, EngineRests, BrowserInv, PressInv
<1>2. doing' = asked /\ message' = None /\ doing = NotBusy /\ at = "connection"
      /\ UNCHANGED <<at, shown, warning, panel, unseen>>
  BY DEF Press
<1>3. doing.pc = "idle"
  BY <1>2 DEF NotBusy
<1>4. PressInv'
  BY <1>1, <1>2, <1>3 DEF BrowserInv, PressInv
<1>5. SeenInv'
  BY <1>1, <1>2, <1>3, RestingFacts DEF BrowserInv, SeenInv
<1>6. ~Told("connected")' /\ ~Told("deleted")'
  BY <1>2, ScreenAssumption DEF Told
<1>7. ToldInv'
  BY <1>1, <1>6, RestingFacts DEF BrowserInv, ToldInv, EngineRests
<1>8. DashboardInv'
  BY <1>2 DEF DashboardInv
<1> QED
  BY <1>4, <1>5, <1>7, <1>8 DEF BrowserInv

LEMMA VisitIsSeen ==
  ASSUME BrowserInv, NEW p \in {"connection", "dashboard"}, Visit(p)
  PROVE  BrowserInv'
<1>1. EngineRests /\ inputs' = inputs
  BY DEF Visit, EngineStays, connVars, EngineRests
<1>2. /\ at' = p /\ message' = None /\ doing' = NotBusy /\ unseen' = ~AtRest
      /\ shown' = IF p = "connection" THEN connection ELSE Disconnected
      /\ warning' = (p = "dashboard" /\ connection.status # "connected")
      /\ panel' = IF p = "dashboard" THEN "loading" ELSE "not shown"
  BY DEF Visit
<1>3. doing'.pc = "idle"
  BY <1>2 DEF NotBusy
<1>4. PressInv'
  BY <1>1, <1>2, <1>3 DEF BrowserInv, PressInv
<1>5. SeenInv'
  BY <1>1, <1>2, <1>3, RestingFacts DEF SeenInv, AtRest, Busy
<1>6. ~Told("connected")' /\ ~Told("deleted")'
  BY <1>2, <1>3, ScreenAssumption DEF Told
<1>7. ToldInv'
  BY <1>1, <1>6, RestingFacts DEF BrowserInv, ToldInv, EngineRests
<1>8. DashboardInv'
  BY <1>1, <1>2, RestingFacts DEF DashboardInv
<1> QED
  BY <1>4, <1>5, <1>7, <1>8 DEF BrowserInv

(* An answer that carries nothing: refused, late or lost.                   *)
LEMMA FailedAnswers ==
  /\ \A code \in DOMAIN STATUS : fail(code).status \notin 200..299
  /\ \A data : engine_call(NoAnswer, data).status \notin 200..299
  /\ broken.status \notin 200..299
BY DEF fail, STATUS, engine_call, NoAnswer, onError, broken

LEMMA FailureIsSeen ==
  ASSUME BrowserInv, EngineRests, inputs' \in Nat, NEW answer,
         doing.pc \in {"sent", "engine", "answered"},
         Reply(answer), answer.status \notin 200..299,
         UNCHANGED <<at, shown, message, warning, panel>>,
         unseen' = TRUE \/ (unseen' = unseen /\ doing.pc = "sent")
  PROVE  BrowserInv'
<1>1. doing'.pc = "answered" /\ doing'.answer = answer /\ ~Succeeded'
  BY DEF Reply, Succeeded
<1>2. PressInv'
  BY <1>1 DEF BrowserInv, PressInv, NotBusy
<1>3. SeenInv'
  BY <1>1, RestingFacts DEF BrowserInv, SeenInv
<1>4. /\ Told("connected")' => Told("connected")
      /\ Told("deleted")' => Told("deleted")
  BY <1>1 DEF Told
<1>5. ToldInv'
  BY <1>4, RestingFacts DEF BrowserInv, ToldInv, EngineRests
<1>6. at = "connection"
  BY DEF BrowserInv, PressInv, NotBusy
<1> QED
  BY <1>2, <1>3, <1>5, <1>6 DEF BrowserInv, DashboardInv

LEMMA ReceiveIsSeen ==
  ASSUME BrowserInv, Receive
  PROVE  BrowserInv'
<1>1. EngineRests /\ inputs' = inputs /\ UNCHANGED <<at, shown, warning, panel, unseen>>
  BY DEF Receive, EngineStays, connVars, EngineRests
<1>2. doing.pc = "answered" /\ at = "connection"
  BY DEF Receive, BrowserInv, PressInv, NotBusy
<1>3. \/ Succeeded /\ message' = doing.answer.data /\ doing' = [pc |-> "reread"]
      \/ ~Succeeded /\ message' = "failed" /\ doing' = NotBusy
  BY DEF Receive, request, Succeeded
<1>4. PressInv'
  BY <1>1, <1>2, <1>3 DEF BrowserInv, PressInv, NotBusy
<1>5. SeenInv'
  BY <1>1, <1>2, <1>3, RestingFacts DEF BrowserInv, SeenInv, NotBusy
<1>6. /\ Told("connected")' => Told("connected")
      /\ Told("deleted")' => Told("deleted")
  BY <1>2, <1>3 DEF Told, NotBusy
<1>7. ToldInv'
  BY <1>1, <1>6, RestingFacts DEF BrowserInv, ToldInv, EngineRests
<1> QED
  BY <1>1, <1>2, <1>4, <1>5, <1>7 DEF BrowserInv, DashboardInv

LEMMA RereadIsSeen ==
  ASSUME BrowserInv, Reread
  PROVE  BrowserInv'
<1>1. EngineRests /\ inputs' = inputs /\ UNCHANGED <<at, message, warning, panel>>
  BY DEF Reread, EngineStays, connVars, EngineRests
<1>2. /\ doing.pc = "reread" /\ doing' = NotBusy /\ shown' = connection
      /\ unseen' = (unseen /\ ~AtRest)
  BY DEF Reread
<1>3. at = "connection" /\ doing'.pc = "idle"
  BY <1>2 DEF BrowserInv, PressInv, NotBusy
<1>4. PressInv'
  BY <1>1, <1>2, <1>3 DEF BrowserInv, PressInv
<1>5. ~unseen' => \A c \in Clients : ~Busy(c)
  BY <1>2 DEF BrowserInv, SeenInv, AtRest, Busy
<1>6. SeenInv'
  BY <1>1, <1>2, <1>5, RestingFacts DEF SeenInv
<1>7. /\ Told("connected")' => Told("connected")
      /\ Told("deleted")' => Told("deleted")
  BY <1>1, <1>3 DEF Told
<1>8. ToldInv'
  BY <1>1, <1>7, RestingFacts DEF BrowserInv, ToldInv, EngineRests
<1> QED
  BY <1>1, <1>3, <1>4, <1>6, <1>8 DEF BrowserInv, DashboardInv

LEMMA LossIsSeen ==
  ASSUME BrowserInv, Lose
  PROVE  BrowserInv'
<1>1. EngineRests /\ inputs' \in Nat
  BY DEF Lose, EngineRests, BrowserInv, PressInv
<1>2. UNCHANGED <<at, shown, warning, panel>> /\ unseen' = TRUE
  BY DEF Lose
<1>3. CASE doing.pc = "answered" /\ Reply(broken) /\ UNCHANGED message
  <2>1. broken.status \notin 200..299
    BY FailedAnswers
  <2> QED
    BY <1>1, <1>2, <1>3, <2>1, FailureIsSeen
<1>4. CASE doing.pc = "reread" /\ doing' = NotBusy /\ message' = "failed"
  <2>1. PressInv'
    BY <1>1, <1>2, <1>4 DEF BrowserInv, PressInv, NotBusy
  <2>2. ~Told("connected")' /\ ~Told("deleted")'
    BY <1>4 DEF Told, NotBusy
  <2>3. ToldInv'
    BY <1>1, <2>2, RestingFacts DEF BrowserInv, ToldInv, EngineRests
  <2> QED
    BY <1>2, <2>1, <2>3 DEF BrowserInv, SeenInv, DashboardInv
<1> QED
  BY <1>3, <1>4 DEF Lose

(* The panel loads: what it lists is the account of the key on file.        *)
LEMMA PanelIsSeen ==
  ASSUME IInv, BrowserInv, LoadPanel \/ PanelFails \/ Refresh
  PROVE  BrowserInv'
<1>1. /\ EngineRests /\ inputs' = inputs
      /\ UNCHANGED <<at, shown, message, doing, warning, unseen>>
  BY DEF LoadPanel, PanelFails, Refresh, Loaded, EngineStays, connVars, EngineRests
<1>2. panel' \in {"error", "loading"} \/ panel' = account
  BY DEF LoadPanel, PanelFails, Refresh, Loaded
<1>3. PressInv'
  BY <1>1, RestingFacts DEF BrowserInv, PressInv
<1>4. SeenInv'
  BY <1>1, RestingFacts DEF BrowserInv, SeenInv, Succeeded
<1>5. (Told("connected")' <=> Told("connected")) /\ (Told("deleted")' <=> Told("deleted"))
  BY <1>1 DEF Told, Succeeded
<1>6. ToldInv'
  BY <1>1, <1>5, RestingFacts DEF BrowserInv, ToldInv, EngineRests
<1>7. ASSUME at = "dashboard", ~unseen, ~warning, alone
      PROVE  account = row.account_id
  <2>1. AtRest
    BY <1>7 DEF BrowserInv, PressInv, SeenInv, AtRest, Busy, NotBusy
  <2>2. row.status = "connected"
    BY <1>7 DEF BrowserInv, DashboardInv, connection, Disconnected
  <2> QED
    BY <1>7, <2>1, <2>2 DEF IInv, ConnectedIsAttached, account
<1>8. DashboardInv'
  BY <1>1, <1>2, <1>7, RestingFacts DEF BrowserInv, DashboardInv, EngineRests
<1> QED
  BY <1>3, <1>4, <1>6, <1>8 DEF BrowserInv

LEMMA ScreenStepIsSeen ==
  ASSUME IInv, BrowserInv, [ScreenNext]_allVars
  PROVE  BrowserInv'
<1>1. CASE save \/ verify \/ disconnect
  <2>1. PICK asked : Press(asked) /\ asked.pc = "sent"
    <3>1. CASE save
      <4>1. PICK keys \in Inputs : Press([pc |-> "sent", op |-> "save", keys |-> keys])
        BY <3>1 DEF save
      <4> QED
        BY <4>1
    <3>2. CASE verify
      BY <3>2 DEF verify
    <3>3. CASE disconnect
      BY <3>3 DEF disconnect
    <3> QED
      BY <1>1, <3>1, <3>2, <3>3
  <2> QED
    BY <2>1, PressIsSeen
<1>2. CASE Visit("dashboard") \/ Visit("connection")
  BY <1>2, VisitIsSeen
<1>3. CASE RefuseBody \/ RefuseUser
  <2>1. PICK code \in DOMAIN STATUS : Reply(fail(code))
    BY <1>3 DEF RefuseBody, RefuseUser, requireUser, STATUS
  <2>2. /\ EngineRests /\ inputs' = inputs /\ doing.pc = "sent" /\ unseen' = unseen
        /\ UNCHANGED <<at, shown, message, warning, panel>>
    BY <1>3 DEF RefuseBody, RefuseUser, OnlyReply, EngineStays, connVars, EngineRests
  <2>3. inputs' \in Nat
    BY <2>2 DEF BrowserInv, PressInv
  <2> QED
    BY <2>1, <2>2, <2>3, FailedAnswers, FailureIsSeen
<1>4. CASE GiveUp
  <2>1. EngineRests /\ inputs' \in Nat /\ UNCHANGED <<at, shown, message, warning, panel>>
    BY <1>4 DEF GiveUp, OnlyReply, EngineStays, connVars, EngineRests, BrowserInv, PressInv
  <2> QED
    <3>1. engine_call(NoAnswer, None).status \notin 200..299
      BY FailedAnswers
    <3>2. /\ doing.pc \in {"sent", "engine", "answered"} /\ unseen' = TRUE
          /\ Reply(engine_call(NoAnswer, None))
      BY <1>4 DEF GiveUp
    <3> QED
      BY <2>1, <3>1, <3>2, FailureIsSeen
<1>5. CASE \E c \in Clients : Forward(c)
  BY <1>5, ForwardIsSeen
<1>6. CASE \E c \in Clients : EngineWorks(c)
  BY <1>6, EngineStepIsSeen
<1>7. CASE Receive
  BY <1>7, ReceiveIsSeen
<1>8. CASE Reread
  BY <1>8, RereadIsSeen
<1>9. CASE Lose
  BY <1>9, LossIsSeen
<1>10. CASE LoadPanel \/ PanelFails \/ Refresh
  BY <1>10, PanelIsSeen
<1>11. CASE UNCHANGED allVars
  <2>1. EngineRests /\ UNCHANGED <<inputs, screenVars>>
    BY <1>11 DEF allVars, connVars, EngineRests
  <2> QED
    BY <2>1, RestingFacts DEF screenVars, EngineRests, BrowserInv, PressInv, SeenInv,
       ToldInv, DashboardInv, Told, Succeeded
<1> QED
  BY <1>1, <1>2, <1>3, <1>4, <1>5, <1>6, <1>7, <1>8, <1>9, <1>10, <1>11
     DEF ScreenNext, PressProceeds, Answers

(* The screen shows what the database has, says connected or deleted only   *)
(* of what is, and the dashboard lists the account that is attached, when   *)
(* nothing is in hand and nothing was hidden from it (ConnectionManager and *)
(* AccountPanel over the routes of broker.ts): for any keys and inputs, any *)
(* number of requests left running, and whatever failed before.             *)
THEOREM ScreenSpeaksTrue == ScreenSpec => []ScreenIsTrue
<1>1. ScreenInit => IInv /\ BrowserInv
  <2> SUFFICES ASSUME ScreenInit PROVE IInv /\ BrowserInv
    OBVIOUS
  <2>1. \A c \in Clients : ~Busy(c) /\ OnTheWay(c) /\ ~At(c, "removed")
    BY DEF ScreenInit, ConnInit, Busy, OnTheWay, At, Idle
  <2>2. row.status # "connected"
    BY DEF ScreenInit, ConnInit, NoRow
  <2>3. IInv
    BY <2>1, <2>2 DEF ScreenInit, ConnInit, IInv, ConnectedIsAttached
  <2>4. PressInv /\ SeenInv /\ DashboardInv
    BY <2>1 DEF ScreenInit, ConnInit, NotBusy, PressInv, SeenInv, DashboardInv
  <2>5. ToldInv
    BY <2>1, ScreenAssumption DEF ScreenInit, NotBusy, ToldInv, Told
  <2> QED
    BY <2>3, <2>4, <2>5 DEF BrowserInv
<1>2. IInv /\ BrowserInv => ScreenIsTrue
  <2> SUFFICES ASSUME IInv, BrowserInv, AtRest, doing = NotBusy, ~unseen
               PROVE  /\ at = "connection" =>
                           /\ shown = connection
                           /\ alone /\ message = "connected" => shown.status = "connected"
                           /\ alone /\ message = "deleted" => credentials = None
                      /\ at = "dashboard" /\ alone /\ ~warning /\ panel \notin {"loading", "error"}
                           => panel = row.account_id
    BY DEF ScreenIsTrue
  <2>1. at = "connection" => shown = connection
    BY DEF BrowserInv, SeenInv, NotBusy
  <2>2. alone /\ message = "connected" => connection.status = "connected"
    BY DEF BrowserInv, ToldInv, Told
  <2>3. alone /\ message = "deleted" => credentials = None
    BY DEF BrowserInv, ToldInv, Told
  <2> QED
    BY <2>1, <2>2, <2>3 DEF BrowserInv, DashboardInv
<1>3. IInv /\ BrowserInv /\ [ScreenNext]_allVars => (IInv /\ BrowserInv)'
  BY StepIsSound, ScreenStepIsSeen
<1> QED
  BY <1>1, <1>2, <1>3, PTL DEF ScreenSpec

-----------------------------------------------------------------------------
(* Types: a request asks about keys that can be attached, and reports       *)
(* accounts of theirs; saves carry what the user may have typed.            *)
Accounts == {AccountOf[k] : k \in Keys} \cup {PaperAccount}
ReqOK(c) ==
  /\ At(c, "attached") \/ At(c, "ask") => req[c].key \in Keys
  /\ At(c, "connected") => req[c].account \in Accounts
TypeInv ==
  /\ ConnTypeOK /\ DOMAIN req = Clients
  /\ \A c \in Clients : ReqOK(c)
  /\ doing.pc = "sent" /\ doing.op = "save" => doing.keys \in Inputs

LEMMA RowOK ==
  ASSUME ConnTypeOK, NEW status \in {"disconnected", "connected", "error"},
         NEW environment \in Modes \cup {None}, NEW account_id \in Accounts \cup {None},
         NEW hint \in Keys \cup {None},
         set_connection_state(State(status, environment, account_id, hint)),
         UNCHANGED <<broker_mode, credentials, inputs>>
  PROVE  ConnTypeOK'
<1> DEFINE was == IF row = NoRow THEN [account_id |-> None, api_key_hint |-> None] ELSE row
<1>1. was.account_id \in Accounts \cup {None} /\ was.api_key_hint \in Keys \cup {None}
  BY DEF ConnTypeOK, Accounts
<1>2. row' = [status |-> status, environment |-> coalesce(environment, "mock"),
              account_id |-> account_after(account_id, was.account_id),
              api_key_hint |-> coalesce(hint, was.api_key_hint)]
  BY DEF set_connection_state, State
<1> HIDE DEF was
<1>3. /\ row'.status = status
      /\ row'.environment = coalesce(environment, "mock")
      /\ row'.account_id = account_after(account_id, was.account_id)
      /\ row'.api_key_hint = coalesce(hint, was.api_key_hint)
  BY <1>2
<1>4. row'.environment \in Modes
  BY <1>3 DEF coalesce, Modes
<1>5. row'.account_id \in Accounts \cup {None}
  BY <1>1, <1>3 DEF account_after, coalesce
<1>6. row'.api_key_hint \in Keys \cup {None}
  BY <1>1, <1>3 DEF coalesce
<1>7. broker_mode' \in Modes /\ credentials' \in Keys \cup {None} /\ inputs' \in 0..MaxInputs
  BY DEF ConnTypeOK
<1> QED
  BY <1>3, <1>4, <1>5, <1>6, <1>7 DEF ConnTypeOK, Accounts

LEMMA EngineKeepsTypes ==
  ASSUME TypeInv, NEW c \in Clients, EngineStep(c)
  PROVE  ConnTypeOK' /\ DOMAIN req' = Clients /\ \A d \in Clients : ReqOK(d)'
<1>1. PICK r : Become(c, r)
  BY DEF EngineStep, MarkAttached, MarkRemoved, BrokerFor, GetAccount, ProbeFails,
         ReportConnected, ReportError, Crash
<1>2. DOMAIN req' = Clients /\ \A d \in Clients : req'[d] = IF d = c THEN r ELSE req[d]
  BY <1>1 DEF Become, TypeInv
<1>3. ASSUME ReqOK(c)'
      PROVE  \A d \in Clients : ReqOK(d)'
  BY <1>2, <1>3 DEF TypeInv, ReqOK, At
<1>4. ASSUME UNCHANGED <<broker_mode, credentials, row, inputs>>
      PROVE  ConnTypeOK'
  BY <1>4 DEF TypeInv, ConnTypeOK
<1>5. CASE MarkAttached(c)
  <2>1. ReqOK(c)'
    BY <1>2, <1>5 DEF MarkAttached, Become, ReqOK, At, TypeInv
  <2>2. broker_mode \in Modes /\ req[c].key \in Keys
    BY <1>5 DEF MarkAttached, TypeInv, ReqOK, ConnTypeOK
  <2>3. ConnTypeOK'
    BY <1>5, <2>2, RowOK DEF MarkAttached, TypeInv, Untouched
  <2> QED
    BY <1>2, <1>3, <2>1, <2>3
<1>6. CASE MarkRemoved(c) \/ ReportError(c)
  <2>1. ReqOK(c)'
    BY <1>2, <1>6 DEF MarkRemoved, ReportError, Become, ReqOK, At, TypeInv, Idle
  <2>2. ConnTypeOK'
    BY <1>6, RowOK DEF MarkRemoved, ReportError, TypeInv, Untouched
  <2> QED
    BY <1>2, <1>3, <2>1, <2>2
<1>7. CASE BrokerFor(c)
  <2>1. r \in {[pc |-> "connected", account |-> PaperAccount], [pc |-> "error"],
               [pc |-> "ask", key |-> credentials]}
    BY <1>2, <1>7 DEF BrokerFor, Become, TypeInv
  <2>2. credentials # None \/ r.pc # "ask"
    BY <1>2, <1>7 DEF BrokerFor, Become, TypeInv
  <2>3. ReqOK(c)'
    BY <1>2, <2>1, <2>2 DEF ReqOK, At, TypeInv, ConnTypeOK, Accounts
  <2> QED
    BY <1>2, <1>3, <1>4, <1>7, <2>3 DEF BrokerFor, Untouched
<1>8. CASE GetAccount(c)
  <2>1. req[c].key \in Keys
    BY <1>8 DEF GetAccount, TypeInv, ReqOK
  <2>2. ReqOK(c)'
    BY <1>2, <1>8, <2>1 DEF GetAccount, Become, ReqOK, At, TypeInv, Accounts
  <2> QED
    BY <1>2, <1>3, <1>4, <1>8, <2>2 DEF GetAccount, Untouched
<1>9. CASE ProbeFails(c)
  <2>1. ReqOK(c)'
    BY <1>2, <1>9 DEF ProbeFails, Become, ReqOK, At, TypeInv
  <2> QED
    BY <1>2, <1>3, <1>4, <1>9, <2>1 DEF ProbeFails, Untouched
<1>10. CASE ReportConnected(c)
  <2>1. ReqOK(c)'
    BY <1>2, <1>10 DEF ReportConnected, Become, ReqOK, At, TypeInv, Idle
  <2>2. broker_mode \in Modes /\ req[c].account \in Accounts
    BY <1>10 DEF ReportConnected, TypeInv, ReqOK, ConnTypeOK
  <2>3. ConnTypeOK'
    BY <1>10, <2>2, RowOK DEF ReportConnected, TypeInv, Untouched
  <2> QED
    BY <1>2, <1>3, <2>1, <2>3
<1>11. CASE Crash(c)
  <2>1. ReqOK(c)'
    BY <1>2, <1>11 DEF Crash, Become, ReqOK, At, TypeInv, Idle
  <2>2. inputs' \in 0..MaxInputs
    BY <1>11, ConnectionAssumption DEF Crash, TypeInv, ConnTypeOK
  <2>3. ConnTypeOK'
    BY <1>11, <2>2 DEF Crash, TypeInv, ConnTypeOK
  <2> QED
    BY <1>2, <1>3, <2>1, <2>3
<1> QED
  BY <1>5, <1>6, <1>7, <1>8, <1>9, <1>10, <1>11 DEF EngineStep

(* The browser's doing matters to the types when it sends a save. *)
SaveOK == doing.pc = "sent" /\ doing.op = "save" => doing.keys \in Inputs

LEMMA ScreenKeepsTypes ==
  ASSUME TypeInv, [ScreenNext]_allVars
  PROVE  TypeInv'
<1>1. ASSUME NEW c \in Clients, EngineWorks(c)
      PROVE  TypeInv'
  <2>1. ConnTypeOK' /\ DOMAIN req' = Clients /\ \A d \in Clients : ReqOK(d)'
    BY <1>1, EngineKeepsTypes DEF EngineWorks
  <2>2. doing' = doing \/ doing'.pc = "answered"
    <3>1. CASE inputs' # inputs
      BY <1>1, <3>1 DEF EngineWorks, ReplyWhenDone, Reply
    <3>2. CASE inputs' = inputs /\ req'[c] = Idle
      BY <1>1, <3>2 DEF EngineWorks, ReplyWhenDone, Reply
    <3>3. CASE inputs' = inputs /\ req'[c] # Idle
      BY <1>1, <3>3 DEF EngineWorks
    <3> QED
      BY <3>1, <3>2, <3>3
  <2> QED
    BY <2>1, <2>2 DEF TypeInv
<1>2. ASSUME NEW c \in Clients, Forward(c)
      PROVE  TypeInv'
  <2>1. PICK r : Begin(c, r) /\ row' = row
                 /\ \/ r.pc = "attached" /\ r.key \in Keys /\ credentials' = r.key
                    \/ r.pc = "probe" /\ credentials' = credentials
                    \/ r.pc = "removed" /\ credentials' = None
    <3>1. CASE doing.op = "save" /\ parseCredentials_issues(KeyBody(doing.keys)) = {}
               /\ Store(c, KeyIn(doing.keys))
      <4>1. KeyIn(doing.keys) \in Keys
        BY <1>2, <3>1, ScreenAssumption DEF TypeInv, Forward
      <4> QED
        BY <3>1, <4>1 DEF Store
    <3>2. CASE Verify(c)
      BY <3>2 DEF Verify
    <3>3. CASE Remove(c)
      BY <3>3 DEF Remove
    <3> QED
      BY <1>2, <3>1, <3>2, <3>3 DEF Forward
  <2>2. DOMAIN req' = Clients /\ \A d \in Clients : req'[d] = IF d = c THEN r ELSE req[d]
    BY <2>1 DEF Begin, Become, TypeInv
  <2>3. \A d \in Clients : ReqOK(d)'
    BY <2>1, <2>2 DEF TypeInv, ReqOK, At
  <2>4. ConnTypeOK'
    BY <2>1 DEF Begin, TypeInv, ConnTypeOK
  <2>5. doing'.pc = "engine"
    BY <1>2 DEF Forward
  <2> QED
    BY <2>2, <2>3, <2>4, <2>5 DEF TypeInv
<1>3. ASSUME EngineRests, inputs' \in 0..MaxInputs, SaveOK'
      PROVE  TypeInv'
  BY <1>3 DEF TypeInv, EngineRests, ConnTypeOK, ReqOK, At, SaveOK
<1>4. inputs \in 0..MaxInputs /\ SaveOK
  BY DEF TypeInv, ConnTypeOK, SaveOK
<1>5. ASSUME NEW asked, Press(asked), asked.op = "save" => asked.keys \in Inputs
      PROVE  TypeInv'
  <2>1. EngineRests /\ inputs' \in 0..MaxInputs /\ SaveOK'
    BY <1>4, <1>5, ConnectionAssumption DEF Press, EngineRests, SaveOK
  <2> QED
    BY <1>3, <2>1
<1>6. CASE save \/ verify \/ disconnect
  <2>1. CASE save
    <3>1. PICK keys \in Inputs : Press([pc |-> "sent", op |-> "save", keys |-> keys])
      BY <2>1 DEF save
    <3> QED
      BY <1>5, <3>1
  <2>2. CASE verify \/ disconnect
    BY <1>5, <2>2 DEF verify, disconnect
  <2> QED
    BY <1>6, <2>1, <2>2
<1>7. CASE Lose
  <2>1. EngineRests /\ inputs' \in 0..MaxInputs
    BY <1>4, <1>7, ConnectionAssumption DEF Lose, EngineRests
  <2>2. SaveOK'
    BY <1>7 DEF Lose, SaveOK, Reply, NotBusy
  <2> QED
    BY <1>3, <2>1, <2>2
<1>8. CASE Visit("dashboard") \/ Visit("connection") \/ Reread \/ Receive
  <2>1. EngineRests /\ inputs' = inputs
    BY <1>8 DEF Visit, Reread, Receive, EngineStays, connVars, EngineRests
  <2>2. SaveOK'
    <3>1. doing' \in {NotBusy, [pc |-> "reread"]}
      BY <1>8, Zenon DEF Visit, Reread, Receive
    <3>2. doing'.pc # "sent"
      BY <3>1 DEF NotBusy
    <3> QED
      BY <3>2 DEF SaveOK
  <2> QED
    BY <1>3, <1>4, <2>1, <2>2
<1>9. CASE RefuseBody \/ RefuseUser \/ GiveUp
  <2>1. EngineRests /\ inputs' = inputs
    BY <1>9 DEF RefuseBody, RefuseUser, GiveUp, EngineStays, connVars, EngineRests
  <2>2. SaveOK'
    <3>1. PICK answer : Reply(answer)
      BY <1>9, Zenon DEF RefuseBody, RefuseUser, GiveUp
    <3>2. doing'.pc # "sent"
      BY <3>1 DEF Reply
    <3> QED
      BY <3>2 DEF SaveOK
  <2> QED
    BY <1>3, <1>4, <2>1, <2>2
<1>10. CASE LoadPanel \/ PanelFails \/ Refresh \/ UNCHANGED allVars
  <2>1. EngineRests /\ inputs' = inputs /\ doing' = doing
    BY <1>10 DEF LoadPanel, PanelFails, Refresh, Loaded, EngineStays, connVars, EngineRests,
       allVars, screenVars
  <2> QED
    BY <1>3, <1>4, <2>1 DEF SaveOK
<1> QED
  BY <1>1, <1>2, <1>6, <1>7, <1>8, <1>9, <1>10 DEF ScreenNext, PressProceeds, Answers

(* The row of a connection is never half-written: whatever requests meet,   *)
(* it has a status of the enumeration, an environment, and an account and a *)
(* hint that are of keys that can be attached, or null (the upsert of       *)
(* set_connection_state).                                                   *)
THEOREM ConnectionTypeCorrect == ScreenSpec => []ConnTypeOK
<1>1. ScreenInit => TypeInv
  <2> SUFFICES ASSUME ScreenInit PROVE TypeInv
    OBVIOUS
  <2>1. DOMAIN req = Clients /\ \A c \in Clients : ReqOK(c)
    BY DEF ScreenInit, ConnInit, ReqOK, At, Idle
  <2>2. inputs \in 0..MaxInputs
    <3>1. inputs = 0 /\ MaxInputs \in Nat
      BY ConnectionAssumption DEF ScreenInit, ConnInit
    <3> QED
      BY <3>1
  <2>3. doing.pc # "sent"
    BY DEF ScreenInit, NotBusy
  <2> QED
    BY <2>1, <2>2, <2>3 DEF ScreenInit, ConnInit, TypeInv, ConnTypeOK
<1>2. TypeInv => ConnTypeOK
  BY DEF TypeInv
<1>3. TypeInv /\ [ScreenNext]_allVars => TypeInv'
  BY ScreenKeepsTypes
<1> QED
  BY <1>1, <1>2, <1>3, PTL DEF ScreenSpec
=============================================================================
