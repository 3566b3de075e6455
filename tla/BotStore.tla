------------------------------ MODULE BotStore ------------------------------
(***************************************************************************)
(* The bots a user configures: the requests the API validates              *)
(* (supabase/functions/_shared/validation.ts, api/routes/bots.ts), the SQL *)
(* functions that carry them out (20260101000200_api_functions.sql) and    *)
(* the constraints of the tables (20260101000000_init.sql), for several    *)
(* requests at once: two tabs, a double click, a retry.                    *)
(*                                                                         *)
(* Each function is a transaction at READ COMMITTED: every statement sees  *)
(* what is committed when it begins; the first write takes the bot's row   *)
(* lock and keeps it until the commit, and a write that had to wait sees   *)
(* the row as it then is.  With the lock held it enters the index of the   *)
(* names, where it may have to wait for another transaction; of those that *)
(* wait for each other in a circle Postgres gives up one.                  *)
(***************************************************************************)
EXTENDS Validation

CONSTANTS Clients,      \* requests in progress
          Bots,         \* ids create_bot may give out
          Bodies,       \* bodies of create requests
          Patches,      \* bodies of update requests
          None

ASSUME StoreAssumption ==
  /\ None \notin Clients
  /\ \A body \in Bodies \cup Patches :
       /\ DOMAIN body = Fields
       /\ body.targets.json = "list" =>
            body.targets.rows \in Seq({body.targets.rows[i] : i \in DOMAIN body.targets.rows})

VARIABLES bots,    \* committed rows, each with its basket
          lock,    \* client whose transaction holds the bot's row
          req,     \* the request each client is serving
          row,     \* the row its open transaction has written
          last     \* history: the last value committed for each field

storeVars == <<bots, lock, req, row, last>>

Statuses == {"draft", "running", "paused", "stopped"}

NoBot == [status |-> "none"]
Deleted == [status |-> "deleted"]     \* an id is not given out again
Exists(b) == bots[b].status \in Statuses
Idle == [op |-> "none"]

StoreInit ==
  /\ bots = [b \in Bots |-> NoBot] /\ last = [b \in Bots |-> NoBot]
  /\ lock = [b \in Bots |-> None]
  /\ req = [c \in Clients |-> Idle] /\ row = [c \in Clients |-> NoBot]

-----------------------------------------------------------------------------
(* bots_schedule_needs_interval, bots_drift_needs_threshold                 *)
needs_nothing(r) == TRUE
needs_met(r) ==
  /\ r.trigger_type # "drift" => r.interval_minutes # Null
  /\ r.trigger_type # "schedule" => r.drift_threshold_bps # Null

(* bots_name_unique_per_user.                                               *)
any_name(b, name) == FALSE
name_is_taken(b, name) == \E x \in Bots \ {b} : Exists(x) /\ bots[x].name = name

(* bot_targets_sum_check, deferred to the commit; no targets is legal.      *)
assert_bot_targets_sum_to_100(targets) ==
  DOMAIN targets # {} => weights_total(targets) = 10000

-----------------------------------------------------------------------------
At(c, op, pc) == req[c].op = op /\ req[c].pc = pc
Goto(c, pc) == req' = [req EXCEPT ![c].pc = pc]
Answer(c) == req' = [req EXCEPT ![c] = Idle]
Request(c, r) == req[c] = Idle /\ req' = [req EXCEPT ![c] = r]

(* Nothing is seen of a transaction that fails, or of a request refused.    *)
Refuse(c) == Answer(c) /\ UNCHANGED <<bots, lock, row, last>>
Abort(c) ==
  /\ lock' = [lock EXCEPT ![req[c].bot] = None] /\ row' = [row EXCEPT ![c] = NoBot]
  /\ Answer(c) /\ UNCHANGED <<bots, last>>
NoWrite == UNCHANGED <<bots, lock, row, last>>

(* The entries of the index that an open transaction may still take back:   *)
(* of the row it replaces, and of the one it has entered.  Who meets such   *)
(* an entry waits for the end of that transaction.                          *)
holds_name(d, name) ==
  /\ row[d] # NoBot
  /\ \/ bots[req[d].bot].name = name
     \/ At(d, "update", "commit") /\ row[d].name = name
name_is_awaited(name) == \E d \in Clients : holds_name(d, name)
WaitsFor(c, d) == At(c, "update", "name") /\ d # c /\ holds_name(d, row[c].name)

(* create_bot: nobody else knows the id before it commits. *)
create_bot_takes(b, config) ==
  /\ needs_met(config) /\ ~name_is_taken(b, config.name)
  /\ assert_bot_targets_sum_to_100(config.targets)

CreateBot(b, body) ==
  LET config == parseCreateBot(body) IN
  /\ bots[b] = NoBot /\ parseCreateBot_issues(body) = {}
  /\ ~name_is_awaited(config.name) /\ create_bot_takes(b, config)
  /\ bots' = [bots EXCEPT ![b] = [f \in Fields \cup {"status"} |->
                                   IF f = "status" THEN "draft" ELSE config[f]]]
  /\ last' = [last EXCEPT ![b] = bots'[b]]
  /\ UNCHANGED <<lock, req, row>>

-----------------------------------------------------------------------------
(* update_bot *)

PatchBot(c, b, body) ==
  /\ parseUpdateBot_issues(body) = {}
  /\ Request(c, [op |-> "update", pc |-> "check", bot |-> b,
                 patch |-> parseUpdateBot(body)])
  /\ NoWrite

(* assert_owns_bot, and "pause the bot before changing its configuration". *)
CheckPaused(c) ==
  LET b == req[c].bot IN
  /\ At(c, "update", "check")
  /\ IF Exists(b) /\ bots[b].status # "running"
     THEN Goto(c, "write") /\ NoWrite
     ELSE Refuse(c)

(* update ... set f = coalesce(patch f, f): the new row is checked, and     *)
(* waits for the old one; whoever has waited checks it again.               *)
Patched(r, patch) ==
  [f \in DOMAIN r |-> IF f = "status" \/ patch[f] = Keep THEN r[f] ELSE patch[f]]

Updated(c) == Patched(bots[req[c].bot], req[c].patch)
update_takes(c) == Exists(req[c].bot) /\ needs_met(Updated(c))

WriteRow_unlocked(c) ==
  /\ At(c, "update", "write")
  /\ \/ /\ update_takes(c)
        /\ row' = [row EXCEPT ![c] = Updated(c)]
        /\ Goto(c, "name") /\ UNCHANGED <<bots, lock, last>>
     \/ ~update_takes(c) /\ Refuse(c)
WriteRow(c) ==
  LET b == req[c].bot IN
  /\ At(c, "update", "write")
  /\ \/ /\ update_takes(c) /\ lock[b] = None
        /\ lock' = [lock EXCEPT ![b] = c] /\ row' = [row EXCEPT ![c] = Updated(c)]
        /\ Goto(c, "name") /\ UNCHANGED <<bots, last>>
     \/ ~update_takes(c) /\ Refuse(c)

(* The row is held while its name is entered.                               *)
CheckName(c) ==
  /\ At(c, "update", "name") /\ \A d \in Clients : ~WaitsFor(c, d)
  /\ IF name_is_taken(req[c].bot, row[c].name) THEN Abort(c)
     ELSE Goto(c, "commit") /\ NoWrite

(* Postgres gives up a transaction that waits in a circle.                  *)
Circle(S) == \A x \in S : (\E y \in S : WaitsFor(x, y)) /\ (\E y \in S : WaitsFor(y, x))
DeadlockDetected_never(c) == FALSE
DeadlockDetected(c) ==
  At(c, "update", "name") /\ (\E S \in SUBSET Clients : c \in S /\ Circle(S)) /\ Abort(c)

(* write_targets under the row's lock, the deferred check, and the commit.  *)
CommitUpdate(c) ==
  LET b == req[c].bot IN
  /\ At(c, "update", "commit")
  /\ IF assert_bot_targets_sum_to_100(row[c].targets)
     THEN /\ bots' = [bots EXCEPT ![b] = row[c]]
          /\ last' = [last EXCEPT ![b] = Patched(@, req[c].patch)]
     ELSE UNCHANGED <<bots, last>>
  /\ lock' = [lock EXCEPT ![b] = None] /\ row' = [row EXCEPT ![c] = NoBot]
  /\ Answer(c)

-----------------------------------------------------------------------------
(* set_bot_status: start needs holdings; the update waits for the row and   *)
(* commits by itself.  A bot that is gone by then is not updated.           *)

StatusAction(c, b, action) ==
  /\ parseStatusAction_issues(Text(action)) = {}
  /\ Request(c, [op |-> "status", pc |-> "check", bot |-> b,
                 status |-> StatusOf[action]])
  /\ NoWrite

CheckHoldings(c) ==
  LET b == req[c].bot IN
  /\ At(c, "status", "check")
  /\ IF Exists(b) /\ (req[c].status = "running" => DOMAIN bots[b].targets # {})
     THEN Goto(c, "write") /\ NoWrite
     ELSE Refuse(c)

SetBotStatus(c) ==
  LET b == req[c].bot IN
  /\ At(c, "status", "write") /\ lock[b] = None
  /\ bots' = IF Exists(b) THEN [bots EXCEPT ![b].status = req[c].status] ELSE bots
  /\ last' = IF Exists(b) THEN [last EXCEPT ![b].status = req[c].status] ELSE last
  /\ Answer(c) /\ UNCHANGED <<lock, row>>

-----------------------------------------------------------------------------
(* delete_bot, whose cascade takes the basket; refused when there is no bot. *)

DeleteRequest(c, b) ==
  /\ Request(c, [op |-> "delete", pc |-> "write", bot |-> b])
  /\ NoWrite

DeleteBot(c) ==
  LET b == req[c].bot IN
  /\ At(c, "delete", "write") /\ lock[b] = None
  /\ bots' = IF Exists(b) THEN [bots EXCEPT ![b] = Deleted] ELSE bots
  /\ last' = IF Exists(b) THEN [last EXCEPT ![b] = Deleted] ELSE last
  /\ Answer(c) /\ UNCHANGED <<lock, row>>

Serve(c) == \/ CheckPaused(c) \/ WriteRow(c) \/ CheckName(c) \/ DeadlockDetected(c)
            \/ CommitUpdate(c)
            \/ CheckHoldings(c) \/ SetBotStatus(c) \/ DeleteBot(c)

ApiRequest(c) == \E b \in Bots :
  \/ \E body \in Patches : PatchBot(c, b, body)
  \/ \E action \in DOMAIN StatusOf : StatusAction(c, b, action)
  \/ DeleteRequest(c, b)

StoreNext ==
  \/ \E b \in Bots, body \in Bodies : CreateBot(b, body)
  \/ \E c \in Clients : ApiRequest(c) \/ Serve(c)

(* Postgres runs every transaction, and grants row locks in turn.           *)
StoreSpec == /\ StoreInit /\ [][StoreNext]_storeVars
             /\ \A c \in Clients : SF_storeVars(Serve(c))

-----------------------------------------------------------------------------
StoreTypeOK ==
  /\ \A b \in Bots : Exists(b) =>
       /\ bots[b].status \in Statuses /\ bots[b].trigger_type \in TriggerTypes
       /\ DOMAIN bots[b] = Fields \cup {"status"}
  /\ lock \in [Bots -> Clients \cup {None}]
  /\ \A c \in Clients : row[c] # NoBot => lock[req[c].bot] = c

(* A bot that runs can fire and can be planned for: it has the interval or  *)
(* the threshold its trigger needs ("can never fire") and a basket that     *)
(* build_plan accepts, whatever patches, starts and deletions met.          *)
RunningBotCanFire ==
  \A b \in Bots : Exists(b) /\ bots[b].status = "running" =>
    /\ bots[b].trigger_type = "schedule" => bots[b].interval_minutes # Null
    /\ bots[b].trigger_type = "drift" => bots[b].drift_threshold_bps # Null
    /\ bots[b].trigger_type = "schedule_or_drift" =>
         Null \notin {bots[b].interval_minutes, bots[b].drift_threshold_bps}
    /\ DOMAIN bots[b].targets # {} /\ weights_total(bots[b].targets) = 10000

(* No update is lost: a field has the value that the last request to set it *)
(* has committed, although every update writes the whole row.               *)
NoUpdateLost == \A b \in Bots : bots[b] = last[b]

(* However often a submission of the form is repeated because its answer    *)
(* was lost, and whatever is created and renamed meanwhile, no two bots     *)
(* have one name: the retry is answered that the bot is there.              *)
RetryIsAbsorbed ==
  \A x, y \in Bots : Exists(x) /\ Exists(y) /\ bots[x].name = bots[y].name => x = y

(* Every request is answered: no wait for a row or for a name is for ever,  *)
(* although an update holds its row while it waits for its name, so that    *)
(* two that swap the names of their bots wait for each other.               *)
EveryRequestAnswered == \A c \in Clients : (req[c] # Idle) ~> (req[c] = Idle)

-----------------------------------------------------------------------------
(* What the repository says and the run that carries this name refutes. *)

(* "A running bot may be paused but not re-specified" (update_bot): no      *)
(* update commits to a bot that is running.                                 *)
RunningBotNotRespecified ==
  [][\A b \in Bots : Exists(b) /\ bots[b].status = "running" /\ bots[b]' # Deleted =>
       \A f \in Fields : bots[b]'[f] = bots[b][f]]_storeVars
=============================================================================
