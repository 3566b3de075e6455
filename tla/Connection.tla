----------------------------- MODULE Connection -----------------------------
(***************************************************************************)
(* A user's broker connection: the credentials kept for the account and    *)
(* the row that the connection screen shows of them, as the engine's       *)
(* internal requests (api/src/engine/main.py, service.verify_connection)   *)
(* write them.  Every write is a statement that commits by itself, and the *)
(* venue is asked between two of them; other requests of the same user may *)
(* run meanwhile, for the edge function gives up on a slow engine while    *)
(* the engine goes on.                                                     *)
(***************************************************************************)
EXTENDS FiniteSets, Naturals

CONSTANTS Clients,      \* requests being served
          Keys,         \* API keys the user may attach
          Accepted,     \* those the venue knows
          AccountOf,    \* key -> the venue's account
          PaperAccount, \* the account of the paper broker
          MaxInputs,    \* bound on requests, crashes and lost answers
          None

ASSUME ConnectionAssumption ==
  /\ Accepted \subseteq Keys /\ None \notin Keys
  /\ DOMAIN AccountOf = Keys /\ MaxInputs \in Nat
  /\ None \notin {PaperAccount, "mock", "webull_uat"} \cup {AccountOf[k] : k \in Keys}

VARIABLES broker_mode,  \* a setting of the engine, fixed while it runs
          credentials,  \* private.broker_credentials: the key on file, or None
          row,          \* public.broker_connections, or NoRow
          req,          \* the request each client is serving
          alone,        \* history: the last request met no other, nor a crash
          inputs

connVars == <<broker_mode, credentials, row, req, alone, inputs>>

Modes == {"mock", "webull_uat"}
NoRow == [status |-> "none"]
Idle == [pc |-> "idle"]

ConnInit ==
  /\ broker_mode \in Modes
  /\ credentials = None /\ row = NoRow
  /\ req = [c \in Clients |-> Idle] /\ alone = TRUE /\ inputs = 0

At(c, there) == req[c].pc = there
Become(c, r) == req' = [req EXCEPT ![c] = r]
Untouched == UNCHANGED <<broker_mode, alone, inputs>>

(* Nothing is in hand for this user. *)
AtRest == \A c \in Clients : At(c, "idle")

Begin(c, r) ==
  /\ At(c, "idle") /\ Become(c, r)
  /\ alone' = AtRest /\ UNCHANGED <<broker_mode, inputs>>

-----------------------------------------------------------------------------
(* set_connection_state: an upsert.  What is not given stays as it is, save *)
(* the status (and last_error, which goes with it); environment is never    *)
(* seen to be missing, for `coalesce(%s, 'mock')` supplies it before the    *)
(* row is compared.                                                         *)
coalesce_excluded(a, b) == a
coalesce(a, b) == IF a = None THEN b ELSE a

account_after_keeping(given, held) == coalesce(held, given)
account_after(given, held) == coalesce(given, held)

set_connection_state(s) ==
  LET was == IF row = NoRow THEN [account_id |-> None, api_key_hint |-> None] ELSE row IN
  row' = [status |-> s.status, environment |-> coalesce(s.environment, "mock"),
          account_id |-> account_after(s.account_id, was.account_id),
          api_key_hint |-> coalesce(s.api_key_hint, was.api_key_hint)]

State(status, environment, account, hint) ==
  [status |-> status, environment |-> environment, account_id |-> account,
   api_key_hint |-> hint]

-----------------------------------------------------------------------------
(* POST /internal/credentials: the key, the row, and then a probe. *)

Store(c, key) ==
  /\ Begin(c, [pc |-> "attached", key |-> key])
  /\ credentials' = key /\ UNCHANGED row

(* The hint is the key's last four characters: here, the key. *)
MarkAttached(c) ==
  /\ At(c, "attached")
  /\ set_connection_state(State("disconnected", broker_mode, None, req[c].key))
  /\ Become(c, [pc |-> "probe"])
  /\ UNCHANGED credentials /\ Untouched

(* DELETE /internal/credentials *)
Remove(c) ==
  /\ Begin(c, [pc |-> "removed"])
  /\ credentials' = None /\ UNCHANGED row

MarkRemoved(c) ==
  /\ At(c, "removed")
  /\ set_connection_state(State("disconnected", None, None, None))
  /\ Become(c, Idle)
  /\ UNCHANGED credentials /\ Untouched

(* POST /internal/connection/verify *)
Verify(c) ==
  Begin(c, [pc |-> "probe"]) /\ UNCHANGED <<credentials, row>>

-----------------------------------------------------------------------------
(* verify_connection *)

(* broker_for: the paper broker needs no key. *)
BrokerFor(c) ==
  /\ At(c, "probe")
  /\ Become(c, IF broker_mode = "mock" THEN [pc |-> "connected", account |-> PaperAccount]
               ELSE IF credentials = None THEN [pc |-> "error"]
               ELSE [pc |-> "ask", key |-> credentials])
  /\ UNCHANGED <<credentials, row>> /\ Untouched

(* get_account: the venue knows the key, or it does not. *)
GetAccount(c) ==
  /\ At(c, "ask")
  /\ Become(c, IF req[c].key \in Accepted
               THEN [pc |-> "connected", account |-> AccountOf[req[c].key]]
               ELSE [pc |-> "error"])
  /\ UNCHANGED <<credentials, row>> /\ Untouched

(* The broker's host, the network or the database fails the probe. *)
ProbeFails(c) ==
  /\ At(c, "probe") \/ At(c, "ask")
  /\ Become(c, [pc |-> "error"])
  /\ UNCHANGED <<credentials, row>> /\ Untouched

ReportConnected(c) ==
  /\ At(c, "connected")
  /\ set_connection_state(State("connected", broker_mode, req[c].account, None))
  /\ Become(c, Idle)
  /\ UNCHANGED credentials /\ Untouched

ReportError(c) ==
  /\ At(c, "error")
  /\ set_connection_state(State("error", None, None, None))
  /\ Become(c, Idle)
  /\ UNCHANGED credentials /\ Untouched

(* The engine dies, or a statement raises: the request ends where it is. *)
Crash(c) ==
  /\ ~At(c, "idle") /\ inputs < MaxInputs
  /\ inputs' = inputs + 1 /\ Become(c, Idle) /\ alone' = FALSE
  /\ UNCHANGED <<broker_mode, credentials, row>>

EngineStep(c) ==
  \/ MarkAttached(c) \/ MarkRemoved(c) \/ BrokerFor(c) \/ GetAccount(c)
  \/ ProbeFails(c) \/ ReportConnected(c) \/ ReportError(c) \/ Crash(c)

-----------------------------------------------------------------------------
ConnTypeOK ==
  /\ broker_mode \in Modes /\ credentials \in Keys \cup {None}
  /\ row # NoRow =>
       /\ row.status \in {"disconnected", "connected", "error"}
       /\ row.environment \in Modes
       /\ row.account_id \in {AccountOf[k] : k \in Keys} \cup {PaperAccount, None}
       /\ row.api_key_hint \in Keys \cup {None}
  /\ inputs \in 0..MaxInputs

(* Whatever went wrong before (requests that overlapped, a probe that       *)
(* reported on a key replaced since, a request cut short), one request that *)
(* meets no other puts it right: a connection that says connected then      *)
(* shows the account of the very key on file, which the venue accepts.      *)
ConnectedIsAttached ==
  AtRest /\ alone /\ row.status = "connected" =>
    IF broker_mode = "mock" THEN row.account_id = PaperAccount
    ELSE /\ credentials \in Accepted
         /\ row.account_id = AccountOf[credentials] /\ row.environment = broker_mode
=============================================================================
