--------------------------- MODULE BotStoreProofs ---------------------------
(***************************************************************************)
(* Whatever requests meet, for any number of clients, bots, bodies and     *)
(* patches: no update is lost, and a bot that runs can fire.               *)
(*                                                                         *)
(* The inductive invariant says what the row lock is for: a row that a     *)
(* transaction has written is the committed row with its patch applied, as *)
(* long as the transaction holds the lock; so the commit changes nothing   *)
(* but what the patch mentions, and what the constraints were checked on   *)
(* is what is stored.                                                      *)
(***************************************************************************)
EXTENDS BotPage, ArithmeticProofs

(* A body as the API is sent it: the fields of the API, and a list is one.  *)
SoundBody(body) ==
  /\ DOMAIN body = Fields
  /\ body.targets.json = "list" =>
       body.targets.rows \in Seq({body.targets.rows[i] : i \in DOMAIN body.targets.rows})

SoundBot(r) ==
  /\ DOMAIN r = Fields \cup {"status"}
  /\ r.status \in Statuses /\ r.trigger_type \in TriggerTypes
  /\ needs_met(r)
  /\ DOMAIN r.targets # {} /\ weights_total(r.targets) = 10000

SoundPatch(p) ==
  /\ p.trigger_type = Keep \/ p.trigger_type \in TriggerTypes
  /\ p.targets = Keep \/ DOMAIN p.targets # {}

ReadPatches == {parseUpdateBot(body) :
                  body \in {x \in Patches : parseUpdateBot_issues(x) = {}}}
RequestSet ==
  {Idle}
    \cup [op : {"update"}, pc : {"check", "write", "name", "commit"}, bot : Bots,
          patch : ReadPatches]
    \cup [op : {"status"}, pc : {"check", "write"}, bot : Bots,
          status : {"running", "paused", "stopped"}]
    \cup [op : {"delete"}, pc : {"write"}, bot : Bots]

HasWritten(c) == At(c, "update", "name") \/ At(c, "update", "commit")
WrittenUnderLock(c) ==
  LET b == req[c].bot IN
  /\ HasWritten(c) /\ lock[b] = c
  /\ Exists(b) /\ row[c] = Updated(c) /\ needs_met(row[c])

IInv ==
  /\ DOMAIN bots = Bots /\ DOMAIN last = Bots
  /\ lock \in [Bots -> Clients \cup {None}]
  /\ req \in [Clients -> RequestSet] /\ DOMAIN row = Clients
  /\ \A b \in Bots : Exists(b) => SoundBot(bots[b])
  /\ \A b \in Bots : bots[b] = last[b]
  /\ \A c \in Clients : row[c] # NoBot => WrittenUnderLock(c)
  /\ \A c \in Clients : HasWritten(c) => row[c] # NoBot

-----------------------------------------------------------------------------
LEMMA StoredBodies == \A body \in Bodies \cup Patches : SoundBody(body)
BY StoreAssumption DEF SoundBody

(* What has passed readTargets has a row.                                   *)
LEMMA BasketIsNotEmpty ==
  ASSUME NEW body, SoundBody(body), target_issues(body.targets) = {}
  PROVE  DOMAIN basket(body.targets) # {}
<1> DEFINE v == body.targets
           rows == v.rows
<1>1. v.json = "list" /\ Len(rows) \in 1..MaxHoldings
  <2>1. CASE v.json # "list"
    <3>1. target_issues(v) = {<<"targets">>}
      BY <2>1 DEF target_issues
    <3> QED BY <3>1
  <2>2. CASE v.json = "list" /\ Len(rows) \notin 1..MaxHoldings
    <3>1. basket_fails(rows)
      BY <2>2 DEF basket_fails
    <3>2. <<"targets">> \in target_issues(v)
      BY <2>2, <3>1, Zenon DEF target_issues
    <3> QED BY <3>2
  <2> QED BY <2>1, <2>2
<1>2. rows \in Seq({rows[i] : i \in DOMAIN rows})
  BY <1>1 DEF SoundBody
<1>3. 1 \in DOMAIN rows
  <2>1. Len(rows) \in Nat /\ DOMAIN rows = 1..Len(rows)
    BY <1>2
  <2>2. MaxHoldings \in Nat
    BY ValidationAssumption
  <2>3. \A n \in Nat : n \in 1..MaxHoldings => 1 \in 1..n
    BY <2>2
  <2> QED BY <1>1, <2>1, <2>3
<1>4. symbol_of(rows[1]) \in DOMAIN basket(v)
  BY <1>3 DEF basket
<1> QED BY <1>4

(* What has passed the validators is a bot, or a patch of one.              *)
LEMMA CreateIsSound ==
  ASSUME NEW body, SoundBody(body), parseCreateBot_issues(body) = {}
  PROVE  LET config == parseCreateBot(body) IN
         /\ DOMAIN config = Fields
         /\ config.trigger_type \in TriggerTypes /\ DOMAIN config.targets # {}
<1>1. \A f \in {"trigger_type", "targets"} :
        f \in Fields /\ ~defaulted(f, body[f]) /\ issues_of(f, body[f]) = {}
  BY DEF parseCreateBot_issues, defaulted, Default, Fields, CoreFields
<1>2. ~field_fails("trigger_type", body.trigger_type)
  BY <1>1 DEF issues_of
<1>3. body.trigger_type.text \in TriggerTypes
  BY <1>2 DEF field_fails, oneOf_fails
<1>4. target_issues(body.targets) = {}
  BY <1>1 DEF issues_of
<1>5. DOMAIN basket(body.targets) # {}
  BY <1>4, BasketIsNotEmpty
<1> QED BY <1>1, <1>3, <1>5 DEF parseCreateBot, value_of

LEMMA PatchIsSound ==
  ASSUME NEW p \in ReadPatches
  PROVE  SoundPatch(p)
<1>1. PICK body \in Patches : p = parseUpdateBot(body) /\ parseUpdateBot_issues(body) = {}
  BY DEF ReadPatches
<1>2. \A f \in {"trigger_type", "targets"} :
        f \in Fields /\ (has(body[f]) => issues_of(f, body[f]) = {})
  BY <1>1 DEF parseUpdateBot_issues, Fields, CoreFields
<1>3. p.trigger_type = Keep \/ p.trigger_type \in TriggerTypes
  <2>1. has(body.trigger_type) => ~field_fails("trigger_type", body.trigger_type)
    BY <1>2 DEF issues_of
  <2>2. has(body.trigger_type) => body.trigger_type.text \in TriggerTypes
    BY <2>1 DEF field_fails, oneOf_fails
  <2> QED BY <1>1, <1>2, <2>2 DEF parseUpdateBot, value_of
<1>4. p.targets = Keep \/ DOMAIN p.targets # {}
  <2>1. has(body.targets) => DOMAIN basket(body.targets) # {}
    BY <1>1, <1>2, BasketIsNotEmpty, StoredBodies DEF issues_of
  <2> QED BY <1>1, <1>2, <2>1 DEF parseUpdateBot, value_of
<1> QED BY <1>3, <1>4 DEF SoundPatch

-----------------------------------------------------------------------------
(* coalesce keeps a bot in shape, whatever of it is in the patch.           *)
LEMMA PatchedIsSound ==
  ASSUME NEW r, SoundBot(r), NEW p \in ReadPatches
  PROVE  LET new == Patched(r, p) IN
         /\ DOMAIN new = Fields \cup {"status"} /\ new.status = r.status
         /\ new.trigger_type \in TriggerTypes /\ DOMAIN new.targets # {}
<1>1. SoundPatch(p)
  BY PatchIsSound
<1>2. {"trigger_type", "targets"} \subseteq Fields
  BY DEF Fields, CoreFields
<1> QED BY <1>1, <1>2 DEF Patched, SoundBot, SoundPatch

(* A bot that was never made, or is gone, has no status of a bot.           *)
LEMMA Shapes ==
  /\ ~ (\E s \in Statuses : s \in {"none", "deleted"})
  /\ {"name", "status"} \subseteq Fields \cup {"status"}
  /\ NoBot.status = "none" /\ Deleted.status = "deleted"
BY DEF Statuses, NoBot, Deleted, Fields, CoreFields

(* A request that only asks, or moves on without a write.                   *)
LEMMA OnlyRequests ==
  ASSUME IInv, NEW c \in Clients, NEW r \in RequestSet,
         row[c] = NoBot, r.op = "update" => r.pc \notin {"name", "commit"},
         req' = [req EXCEPT ![c] = r], UNCHANGED <<bots, lock, row, last>>
  PROVE  IInv'
<1>1. req' \in [Clients -> RequestSet]
  BY DEF IInv
<1>2. \A d \in Clients : d # c => req'[d] = req[d]
  BY DEF IInv
<1>3. ASSUME NEW d \in Clients, row'[d] # NoBot
      PROVE  WrittenUnderLock(d)'
  <2>1. d # c /\ WrittenUnderLock(d)
    BY <1>3 DEF IInv
  <2> QED BY <1>2, <2>1 DEF WrittenUnderLock, At, HasWritten, Updated, Exists
<1>4. ASSUME NEW d \in Clients, HasWritten(d)'
      PROVE  row'[d] # NoBot
  BY <1>2, <1>4 DEF IInv, At, HasWritten
<1> QED BY <1>1, <1>3, <1>4 DEF IInv, Exists

(* No bots and no requests: the invariant holds.                            *)
THEOREM InitIsSound == StoreInit => IInv
<1> SUFFICES ASSUME StoreInit PROVE IInv
  OBVIOUS
<1>1. \A b \in Bots : ~Exists(b)
  BY Shapes DEF StoreInit, Exists
<1>2. \A c \in Clients : req[c] = Idle /\ ~HasWritten(c)
  BY DEF StoreInit, At, HasWritten, Idle
<1> QED BY <1>1, <1>2 DEF StoreInit, IInv, RequestSet

-----------------------------------------------------------------------------
(* Who serves a request that is not at its commit has written nothing.      *)
LEMMA NothingWritten ==
  ASSUME IInv, NEW c \in Clients, ~HasWritten(c)
  PROVE  row[c] = NoBot
BY DEF IInv, WrittenUnderLock

(* What is known of a request, and of the same request further on.          *)
LEMMA RequestShape ==
  ASSUME IInv, NEW c \in Clients, req[c] # Idle
  PROVE  /\ req[c].bot \in Bots
         /\ req[c].op = "update" => req[c].patch \in ReadPatches
         /\ req[c].op = "status" => req[c].status \in Statuses
         /\ \A pc \in {"write", "name", "commit"} :
              (pc # "write" => req[c].op = "update") /\ req[c].op # "delete" =>
                [req[c] EXCEPT !.pc = pc] \in RequestSet
<1>1. req[c] \in RequestSet
  BY DEF IInv
<1> QED BY <1>1 DEF RequestSet, Statuses

(* A request refused before its commit.                                     *)
LEMMA Answered ==
  ASSUME IInv, NEW c \in Clients, Refuse(c), ~HasWritten(c)
  PROVE  IInv'
<1>1. Idle \in RequestSet /\ Idle.op # "update"
  BY DEF RequestSet, Idle
<1> QED BY <1>1, NothingWritten, OnlyRequests DEF Refuse, Answer

(* A request that has passed its check.                                     *)
LEMMA MovesOn ==
  ASSUME IInv, NEW c \in Clients, Goto(c, "write"), NoWrite,
         req[c].op \in {"update", "status"}, req[c].pc = "check"
  PROVE  IInv'
<1> DEFINE r == [req[c] EXCEPT !.pc = "write"]
<1>1. req[c] # Idle /\ ~HasWritten(c)
  BY DEF Idle, At, HasWritten
<1>2. r \in RequestSet /\ r.pc \notin {"name", "commit"}
  <2>1. r \in RequestSet
    BY <1>1, RequestShape
  <2>2. req[c] \in RequestSet
    BY DEF IInv
  <2> QED BY <1>1, <2>1, <2>2 DEF RequestSet
<1>3. req' = [req EXCEPT ![c] = r]
  BY DEF Goto
<1> QED BY <1>1, <1>2, <1>3, NothingWritten, OnlyRequests DEF NoWrite

(* A request that arrives.                                                  *)
LEMMA Asked ==
  ASSUME IInv, NEW c \in Clients, NEW r \in RequestSet, r.pc \notin {"name", "commit"},
         Request(c, r), NoWrite
  PROVE  IInv'
<1>1. ~HasWritten(c)
  BY DEF Request, At, HasWritten, Idle
<1> QED BY <1>1, NothingWritten, OnlyRequests DEF Request, NoWrite

(* A bot whose row nobody holds gets a new value that is sound, or goes.    *)
LEMMA BotReplaced ==
  ASSUME IInv, NEW c \in Clients, NEW b \in Bots, NEW v,
         v.status \in Statuses => SoundBot(v),
         \A d \in Clients : lock[b] # d,
         row[c] = NoBot, ~HasWritten(c),
         bots' = [bots EXCEPT ![b] = v], last' = [last EXCEPT ![b] = v],
         req' = [req EXCEPT ![c] = Idle], UNCHANGED <<lock, row>>
  PROVE  IInv'
<1>1. \A x \in Bots : bots'[x] = IF x = b THEN v ELSE bots[x]
  BY DEF IInv
<1>2. \A x \in Bots : last'[x] = IF x = b THEN v ELSE last[x]
  BY DEF IInv
<1>3. req' \in [Clients -> RequestSet] /\ req'[c] = Idle
  BY DEF IInv, RequestSet
<1>4. \A d \in Clients : d # c => req'[d] = req[d]
  BY DEF IInv
<1>5. ASSUME NEW d \in Clients, row'[d] # NoBot
      PROVE  WrittenUnderLock(d)'
  <2>1. d # c /\ WrittenUnderLock(d) /\ req[d] # Idle
    BY <1>5 DEF IInv, WrittenUnderLock, At, HasWritten, Idle
  <2>2. req[d].bot \in Bots /\ req[d].bot # b
    BY <2>1, RequestShape DEF WrittenUnderLock
  <2> QED BY <1>1, <1>4, <2>1, <2>2 DEF WrittenUnderLock, At, HasWritten, Updated, Exists
<1>6. ASSUME NEW d \in Clients, HasWritten(d)'
      PROVE  row'[d] # NoBot
  BY <1>3, <1>4, <1>6 DEF IInv, At, HasWritten, Idle
<1>7. \A x \in Bots : Exists(x)' => SoundBot(bots'[x])
  BY <1>1 DEF IInv, Exists
<1>8. \A x \in Bots : bots'[x] = last'[x]
  BY <1>1, <1>2 DEF IInv
<1>9. DOMAIN bots' = Bots /\ DOMAIN last' = Bots /\ lock' \in [Bots -> Clients \cup {None}]
      /\ DOMAIN row' = Clients
  BY DEF IInv
<1> QED BY <1>3, <1>5, <1>6, <1>7, <1>8, <1>9 DEF IInv

(* start, pause and stop write the status alone.                            *)
LEMMA StatusIsSet ==
  ASSUME IInv, NEW c \in Clients, SetBotStatus(c)
  PROVE  IInv'
<1> DEFINE b == req[c].bot
           v == [bots[b] EXCEPT !.status = req[c].status]
<1>1. b \in Bots /\ req[c].status \in Statuses /\ ~HasWritten(c)
  <2>1. req[c].op = "status" /\ req[c] # Idle
    BY DEF SetBotStatus, At, HasWritten, Idle
  <2> QED BY <2>1, RequestShape DEF At, HasWritten
<1>2. row[c] = NoBot
  BY <1>1, NothingWritten
<1>3. CASE Exists(b)
  <2>1. SoundBot(bots[b]) /\ last[b] = bots[b]
    BY <1>1, <1>3 DEF IInv
  <2>2. SoundBot(v)
    BY <1>1, <2>1 DEF SoundBot, needs_met, Fields, CoreFields
  <2>3. bots' = [bots EXCEPT ![b] = v] /\ last' = [last EXCEPT ![b] = v]
    BY <1>3, <2>1 DEF SetBotStatus
  <2>4. \A d \in Clients : lock[b] # d
    BY StoreAssumption DEF SetBotStatus
  <2> HIDE DEF v
  <2> QED BY <1>1, <1>2, <2>2, <2>3, <2>4, BotReplaced DEF SetBotStatus, Answer
<1>4. CASE ~Exists(b)
  BY <1>1, <1>4, Answered DEF SetBotStatus, Refuse
<1> QED BY <1>3, <1>4

(* delete_bot waits for the row, so it takes no written row with it.        *)
LEMMA BotIsDeleted ==
  ASSUME IInv, NEW c \in Clients, DeleteBot(c)
  PROVE  IInv'
<1> DEFINE b == req[c].bot
<1>1. b \in Bots /\ ~HasWritten(c)
  <2>1. req[c].op = "delete" /\ req[c] # Idle
    BY DEF DeleteBot, At, HasWritten, Idle
  <2> QED BY <2>1, RequestShape DEF At, HasWritten
<1>2. row[c] = NoBot
  BY <1>1, NothingWritten
<1>3. CASE Exists(b)
  <2>1. bots' = [bots EXCEPT ![b] = Deleted] /\ last' = [last EXCEPT ![b] = Deleted]
    BY <1>3 DEF DeleteBot
  <2>2. \A d \in Clients : lock[b] # d
    BY StoreAssumption DEF DeleteBot
  <2>3. Deleted.status \notin Statuses
    BY Shapes
  <2> QED BY <1>1, <1>2, <2>1, <2>2, <2>3, BotReplaced DEF DeleteBot, Answer
<1>4. CASE ~Exists(b)
  BY <1>1, <1>4, Answered DEF DeleteBot, Refuse
<1> QED BY <1>3, <1>4
-----------------------------------------------------------------------------
(* create_bot: the new row meets the constraints, and nobody waits for it.  *)
LEMMA BotIsCreated ==
  ASSUME IInv, NEW b \in Bots, NEW body, SoundBody(body), CreateBot(b, body)
  PROVE  IInv'
<1> DEFINE config == parseCreateBot(body)
           v == [f \in Fields \cup {"status"} |-> IF f = "status" THEN "draft" ELSE config[f]]
<1>1. SoundBot(v)
  <2>1. /\ DOMAIN config = Fields
        /\ config.trigger_type \in TriggerTypes /\ DOMAIN config.targets # {}
    BY CreateIsSound DEF CreateBot
  <2>2. needs_met(config) /\ weights_total(config.targets) = 10000
    BY <2>1 DEF CreateBot, create_bot_takes, assert_bot_targets_sum_to_100
  <2>3. \A f \in {"trigger_type", "targets", "interval_minutes", "drift_threshold_bps"} :
          f \in Fields /\ f # "status" /\ v[f] = config[f]
    BY DEF Fields, CoreFields
  <2>4. v.status = "draft" /\ DOMAIN v = Fields \cup {"status"}
    OBVIOUS
  <2> HIDE DEF config, v
  <2> QED BY <2>1, <2>2, <2>3, <2>4 DEF SoundBot, needs_met, Statuses
<1>2. bots' = [bots EXCEPT ![b] = v] /\ UNCHANGED <<lock, req, row>>
  BY DEF CreateBot
<1>3. last' = [last EXCEPT ![b] = bots'[b]]
  BY DEF CreateBot
<1>4. ~Exists(b)
  BY Shapes DEF CreateBot, Exists
<1> HIDE DEF v
<1>5. \A x \in Bots : bots'[x] = IF x = b THEN v ELSE bots[x]
  BY <1>2 DEF IInv
<1>6. \A x \in Bots : last'[x] = bots'[x]
  BY <1>3, <1>5 DEF IInv
<1>7. ASSUME NEW d \in Clients, row'[d] # NoBot
      PROVE  WrittenUnderLock(d)'
  <2>1. WrittenUnderLock(d) /\ req[d] # Idle
    BY <1>2, <1>7 DEF IInv, WrittenUnderLock, At, HasWritten, Idle
  <2>2. req[d].bot \in Bots /\ req[d].bot # b
    BY <1>4, <2>1, RequestShape DEF WrittenUnderLock
  <2> QED BY <1>2, <1>5, <2>1, <2>2 DEF WrittenUnderLock, At, HasWritten, Updated, Exists
<1>8. \A x \in Bots : Exists(x)' => SoundBot(bots'[x])
  BY <1>1, <1>5 DEF IInv, Exists
<1>9. DOMAIN bots' = Bots /\ DOMAIN last' = Bots
  BY <1>2, <1>3 DEF IInv
<1> QED BY <1>2, <1>6, <1>7, <1>8, <1>9 DEF IInv, At, HasWritten

(* update_bot takes the row's lock and writes: the row is the committed one *)
(* with the patch applied.                                                  *)
LEMMA RowIsWritten ==
  ASSUME IInv, NEW c \in Clients, WriteRow(c)
  PROVE  IInv'
<1> DEFINE b == req[c].bot
<1>1. req[c].op = "update" /\ req[c] # Idle /\ ~HasWritten(c)
  BY DEF WriteRow, At, HasWritten, Idle
<1>2. b \in Bots /\ (update_takes(c) => lock[b] = None)
  BY <1>1, RequestShape DEF WriteRow
<1>3. CASE ~update_takes(c)
  BY <1>1, <1>3, Answered DEF WriteRow
<1>4. CASE update_takes(c)
  <2>1. /\ lock' = [lock EXCEPT ![b] = c] /\ row' = [row EXCEPT ![c] = Updated(c)]
        /\ req' = [req EXCEPT ![c].pc = "name"] /\ UNCHANGED <<bots, last>>
    BY <1>4 DEF WriteRow, Goto
  <2>2. req' \in [Clients -> RequestSet]
    <3>1. [req[c] EXCEPT !.pc = "name"] \in RequestSet
      BY <1>1, RequestShape
    <3> QED BY <2>1, <3>1 DEF IInv
  <2>3. /\ req'[c].op = "update" /\ req'[c].pc = "name"
        /\ req'[c].bot = b /\ req'[c].patch = req[c].patch
    <3>1. req[c] \in [op : {"update"}, pc : {"check", "write", "name", "commit"},
                      bot : Bots, patch : ReadPatches]
      BY <1>1 DEF IInv, RequestSet, Idle
    <3>2. req'[c] = [req[c] EXCEPT !.pc = "name"]
      BY <2>1 DEF IInv
    <3> QED BY <3>1, <3>2
  <2>4. \A d \in Clients : d # c => req'[d] = req[d] /\ row'[d] = row[d]
    BY <2>1 DEF IInv
  <2>5. row'[c] = Updated(c) /\ lock'[b] = c
    BY <1>2, <2>1 DEF IInv
  <2>6. \A x \in Bots : x # b => lock'[x] = lock[x]
    BY <2>1 DEF IInv
  <2>7. Updated(c)' = Updated(c)
    BY <2>1, <2>3 DEF Updated
  <2>8. Exists(b) /\ needs_met(Updated(c))
    BY <1>4 DEF update_takes
  <2>9. Updated(c) # NoBot
    <3>1. SoundBot(bots[b]) /\ req[c].patch \in ReadPatches
      BY <1>1, <1>2, <2>8, RequestShape DEF IInv
    <3>2. Updated(c).status = bots[b].status
      BY <3>1, PatchedIsSound DEF Updated
    <3> QED BY <2>8, <3>2, Shapes DEF Exists
  <2>10. WrittenUnderLock(c)'
    BY <2>1, <2>3, <2>5, <2>7, <2>8 DEF WrittenUnderLock, At, HasWritten, Exists
  <2>11. ASSUME NEW d \in Clients, d # c, row'[d] # NoBot
         PROVE  WrittenUnderLock(d)'
    <3>1. WrittenUnderLock(d) /\ req[d] # Idle
      BY <2>4, <2>11 DEF IInv, WrittenUnderLock, At, HasWritten, Idle
    <3>2. req[d].bot \in Bots /\ req[d].bot # b
      BY <1>2, <1>4, <3>1, RequestShape, StoreAssumption DEF WrittenUnderLock
    <3> QED BY <2>1, <2>4, <2>6, <3>1, <3>2 DEF WrittenUnderLock, At, HasWritten, Updated, Exists
  <2>12. \A d \in Clients : HasWritten(d)' => row'[d] # NoBot
    BY <2>4, <2>5, <2>9 DEF IInv, At, HasWritten
  <2>13. lock' \in [Bots -> Clients \cup {None}] /\ DOMAIN row' = Clients
    BY <2>1 DEF IInv
  <2> QED BY <2>1, <2>2, <2>10, <2>11, <2>12, <2>13 DEF IInv, Exists
<1> QED BY <1>3, <1>4

(* The name is entered: the row stays as it is written.                     *)
LEMMA NameIsEntered ==
  ASSUME IInv, NEW c \in Clients, HasWritten(c), Goto(c, "commit"), NoWrite
  PROVE  IInv'
<1>1. WrittenUnderLock(c) /\ row[c] # NoBot /\ req[c] # Idle /\ req[c].op = "update"
  BY DEF IInv, HasWritten, At, Idle
<1>2. [req[c] EXCEPT !.pc = "commit"] \in RequestSet
  BY <1>1, RequestShape
<1>3. req' \in [Clients -> RequestSet] /\ req'[c] = [req[c] EXCEPT !.pc = "commit"]
  BY <1>2 DEF Goto, IInv
<1>4. /\ req'[c].op = "update" /\ req'[c].pc = "commit"
      /\ req'[c].bot = req[c].bot /\ req'[c].patch = req[c].patch
  <2>1. req[c] \in [op : {"update"}, pc : {"check", "write", "name", "commit"}, bot : Bots,
                    patch : ReadPatches]
    BY <1>1 DEF IInv, RequestSet, Idle
  <2> QED BY <1>3, <2>1
<1>5. \A d \in Clients : d # c => req'[d] = req[d]
  BY DEF Goto, IInv
<1>6. UNCHANGED <<bots, lock, row, last>>
  BY DEF NoWrite
<1>7. WrittenUnderLock(c)'
  BY <1>1, <1>4, <1>6 DEF WrittenUnderLock, HasWritten, At, Updated, Exists
<1>8. ASSUME NEW d \in Clients, d # c, row'[d] # NoBot
      PROVE  WrittenUnderLock(d)'
  <2>1. WrittenUnderLock(d)
    BY <1>6, <1>8 DEF IInv
  <2> QED BY <1>5, <1>6, <1>8, <2>1 DEF WrittenUnderLock, HasWritten, At, Updated, Exists
<1>9. \A d \in Clients : HasWritten(d)' => row'[d] # NoBot
  BY <1>1, <1>5, <1>6 DEF IInv, HasWritten, At
<1> QED BY <1>3, <1>6, <1>7, <1>8, <1>9 DEF IInv, Exists

(* A transaction is given up: nothing is seen of it.                        *)
LEMMA WriteIsUndone ==
  ASSUME IInv, NEW c \in Clients, HasWritten(c), Abort(c)
  PROVE  IInv'
<1> DEFINE b == req[c].bot
<1>1. WrittenUnderLock(c) /\ req[c] # Idle
  BY DEF IInv, HasWritten, At, Idle
<1>2. b \in Bots /\ lock[b] = c
  BY <1>1, RequestShape DEF WrittenUnderLock
<1>3. /\ lock' = [lock EXCEPT ![b] = None] /\ row' = [row EXCEPT ![c] = NoBot]
      /\ req' = [req EXCEPT ![c] = Idle] /\ UNCHANGED <<bots, last>>
  BY DEF Abort, Answer
<1>4. \A d \in Clients : d # c => req'[d] = req[d] /\ row'[d] = row[d]
  BY <1>3 DEF IInv
<1>5. req' \in [Clients -> RequestSet] /\ req'[c] = Idle /\ row'[c] = NoBot
  BY <1>3 DEF IInv, RequestSet
<1>6. ASSUME NEW d \in Clients, row'[d] # NoBot
      PROVE  WrittenUnderLock(d)'
  <2>1. d # c /\ WrittenUnderLock(d) /\ req[d] # Idle
    BY <1>4, <1>5, <1>6 DEF IInv, WrittenUnderLock, HasWritten, At, Idle
  <2>2. req[d].bot \in Bots /\ req[d].bot # b
    BY <1>2, <2>1, RequestShape DEF WrittenUnderLock
  <2>3. lock'[req[d].bot] = lock[req[d].bot]
    BY <1>3, <2>2 DEF IInv
  <2> QED BY <1>3, <1>4, <2>1, <2>3 DEF WrittenUnderLock, HasWritten, At, Updated, Exists
<1>7. \A d \in Clients : HasWritten(d)' => row'[d] # NoBot
  BY <1>4, <1>5 DEF IInv, HasWritten, At, Idle
<1>8. lock' \in [Bots -> Clients \cup {None}] /\ DOMAIN row' = Clients
  BY <1>3 DEF IInv
<1> QED BY <1>3, <1>5, <1>6, <1>7, <1>8 DEF IInv, Exists

(* The commit: what is stored is what the constraints were checked on, and  *)
(* only what the patch mentions is new.                                     *)
LEMMA UpdateIsCommitted ==
  ASSUME IInv, NEW c \in Clients, CommitUpdate(c)
  PROVE  IInv'
<1> DEFINE b == req[c].bot
<1>1. WrittenUnderLock(c) /\ req[c] # Idle /\ req[c].op = "update"
  BY DEF CommitUpdate, IInv, At, HasWritten, Idle
<1>2. b \in Bots /\ req[c].patch \in ReadPatches
  BY <1>1, RequestShape
<1>3. Exists(b) /\ SoundBot(bots[b]) /\ bots[b] = last[b]
  BY <1>1, <1>2 DEF WrittenUnderLock, IInv
<1>4. /\ row[c] = Patched(bots[b], req[c].patch) /\ needs_met(row[c]) /\ lock[b] = c
  BY <1>1 DEF WrittenUnderLock, Updated
<1>5. /\ lock' = [lock EXCEPT ![b] = None] /\ row' = [row EXCEPT ![c] = NoBot]
      /\ req' = [req EXCEPT ![c] = Idle]
  BY DEF CommitUpdate, Answer
<1>6. /\ \A x \in Bots : bots'[x] = bots[x] \/ (x = b /\ bots'[x] = row[c] /\ SoundBot(row[c]))
      /\ \A x \in Bots : bots'[x] = last'[x]
      /\ DOMAIN bots' = Bots /\ DOMAIN last' = Bots
      /\ \A x \in Bots \ {b} : bots'[x] = bots[x]
  <2>1. CASE assert_bot_targets_sum_to_100(row[c].targets)
    <3>1. SoundBot(row[c])
      <4>1. /\ DOMAIN row[c] = Fields \cup {"status"} /\ row[c].status = bots[b].status
            /\ row[c].trigger_type \in TriggerTypes /\ DOMAIN row[c].targets # {}
        BY <1>2, <1>3, <1>4, PatchedIsSound
      <4>2. weights_total(row[c].targets) = 10000
        BY <2>1, <4>1 DEF assert_bot_targets_sum_to_100
      <4>3. row[c].status \in Statuses
        BY <1>3, <4>1 DEF SoundBot
      <4> QED BY <1>4, <4>1, <4>2, <4>3 DEF SoundBot
    <3>2. /\ bots' = [bots EXCEPT ![b] = row[c]]
          /\ last' = [last EXCEPT ![b] = Patched(last[b], req[c].patch)]
      BY <2>1 DEF CommitUpdate
    <3>3. last' = [last EXCEPT ![b] = row[c]]
      BY <1>3, <1>4, <3>2
    <3> QED BY <1>2, <3>1, <3>2, <3>3 DEF IInv
  <2>2. CASE ~assert_bot_targets_sum_to_100(row[c].targets)
    BY <2>2 DEF CommitUpdate, IInv
  <2> QED BY <2>1, <2>2
<1>7. \A d \in Clients : d # c => req'[d] = req[d] /\ row'[d] = row[d]
  BY <1>5 DEF IInv
<1>8. req' \in [Clients -> RequestSet] /\ req'[c] = Idle /\ row'[c] = NoBot
  BY <1>5 DEF IInv, RequestSet
<1>9. ASSUME NEW d \in Clients, row'[d] # NoBot
      PROVE  WrittenUnderLock(d)'
  <2>1. d # c /\ WrittenUnderLock(d) /\ req[d] # Idle
    BY <1>7, <1>8, <1>9 DEF IInv, WrittenUnderLock, At, HasWritten, Idle
  <2>2. req[d].bot \in Bots /\ req[d].bot # b
    BY <1>4, <2>1, RequestShape DEF WrittenUnderLock
  <2>3. bots'[req[d].bot] = bots[req[d].bot] /\ lock'[req[d].bot] = lock[req[d].bot]
    BY <1>5, <1>6, <2>2 DEF IInv
  <2> QED BY <1>7, <2>1, <2>3 DEF WrittenUnderLock, At, HasWritten, Updated, Exists
<1>10. \A d \in Clients : HasWritten(d)' => row'[d] # NoBot
  BY <1>7, <1>8 DEF IInv, At, HasWritten, Idle
<1>11. \A x \in Bots : Exists(x)' => SoundBot(bots'[x])
  BY <1>6 DEF IInv, Exists
<1>12. lock' \in [Bots -> Clients \cup {None}] /\ DOMAIN row' = Clients
  BY <1>5 DEF IInv
<1> QED BY <1>6, <1>8, <1>9, <1>10, <1>11, <1>12 DEF IInv

-----------------------------------------------------------------------------
(* A request arrives, of any of the three kinds.                            *)
LEMMA RequestArrives ==
  ASSUME IInv, NEW c \in Clients, ApiRequest(c)
  PROVE  IInv'
<1> PICK b \in Bots : \/ \E body \in Patches : PatchBot(c, b, body)
                      \/ \E action \in DOMAIN StatusOf : StatusAction(c, b, action)
                      \/ DeleteRequest(c, b)
  BY DEF ApiRequest
<1>1. ASSUME NEW body \in Patches, PatchBot(c, b, body)
      PROVE  IInv'
  <2> DEFINE r == [op |-> "update", pc |-> "check", bot |-> b, patch |-> parseUpdateBot(body)]
  <2>1. parseUpdateBot(body) \in ReadPatches
    BY <1>1 DEF PatchBot, ReadPatches
  <2>2. r \in RequestSet /\ r.pc \notin {"name", "commit"}
    BY <2>1 DEF RequestSet
  <2> QED BY <1>1, <2>2, Asked DEF PatchBot
<1>2. ASSUME NEW action \in DOMAIN StatusOf, StatusAction(c, b, action)
      PROVE  IInv'
  <2> DEFINE r == [op |-> "status", pc |-> "check", bot |-> b, status |-> StatusOf[action]]
  <2>1. StatusOf[action] \in {"running", "paused", "stopped"}
    BY <1>2 DEF StatusOf
  <2>2. r \in RequestSet /\ r.pc \notin {"name", "commit"}
    BY <2>1 DEF RequestSet
  <2> QED BY <1>2, <2>2, Asked DEF StatusAction
<1>3. ASSUME DeleteRequest(c, b)
      PROVE  IInv'
  <2> DEFINE r == [op |-> "delete", pc |-> "write", bot |-> b]
  <2>1. r \in RequestSet /\ r.pc \notin {"name", "commit"}
    BY DEF RequestSet
  <2> QED BY <1>3, <2>1, Asked DEF DeleteRequest
<1> QED BY <1>1, <1>2, <1>3

(* One step of the server.                                                  *)
LEMMA RequestServed ==
  ASSUME IInv, NEW c \in Clients, Serve(c)
  PROVE  IInv'
<1>1. ASSUME CheckPaused(c)
      PROVE  IInv'
  <2>1. req[c].op = "update" /\ req[c].pc = "check" /\ ~HasWritten(c)
    BY <1>1 DEF CheckPaused, At, HasWritten
  <2> QED BY <1>1, <2>1, MovesOn, Answered DEF CheckPaused
<1>2. ASSUME CheckHoldings(c)
      PROVE  IInv'
  <2>1. req[c].op = "status" /\ req[c].pc = "check" /\ ~HasWritten(c)
    BY <1>2 DEF CheckHoldings, At, HasWritten
  <2> QED BY <1>2, <2>1, MovesOn, Answered DEF CheckHoldings
<1>3. ASSUME CheckName(c)
      PROVE  IInv'
  <2>1. HasWritten(c)
    BY <1>3 DEF CheckName, HasWritten
  <2> QED BY <1>3, <2>1, NameIsEntered, WriteIsUndone DEF CheckName
<1>4. ASSUME DeadlockDetected(c)
      PROVE  IInv'
  <2>1. HasWritten(c)
    BY <1>4 DEF DeadlockDetected, HasWritten
  <2> QED BY <1>4, <2>1, WriteIsUndone DEF DeadlockDetected
<1> QED BY <1>1, <1>2, <1>3, <1>4, RowIsWritten, UpdateIsCommitted, StatusIsSet, BotIsDeleted
        DEF Serve

(* Every step keeps the invariant, whoever takes it.                        *)
THEOREM StepIsSound == IInv /\ [StoreNext]_storeVars => IInv'
<1> SUFFICES ASSUME IInv, [StoreNext]_storeVars PROVE IInv'
  OBVIOUS
<1>1. ASSUME NEW b \in Bots, NEW body \in Bodies, CreateBot(b, body)
      PROVE  IInv'
  BY <1>1, BotIsCreated, StoredBodies
<1>2. ASSUME NEW c \in Clients, ApiRequest(c) \/ Serve(c)
      PROVE  IInv'
  BY <1>2, RequestArrives, RequestServed
<1>3. CASE UNCHANGED storeVars
  BY <1>3 DEF storeVars, IInv, Exists, WrittenUnderLock, At, HasWritten, Updated
<1> QED BY <1>1, <1>2, <1>3 DEF StoreNext

(* The invariant holds of every state the service reaches.                  *)
THEOREM StoreInvariant == StoreSpec => []IInv
BY InitIsSound, StepIsSound, PTL DEF StoreSpec

LEMMA WhatIInvSays == IInv => StoreTypeOK /\ NoUpdateLost /\ RunningBotCanFire
<1>1. IInv => StoreTypeOK
  BY DEF IInv, StoreTypeOK, SoundBot, WrittenUnderLock
<1>2. IInv => NoUpdateLost
  BY DEF IInv, NoUpdateLost
<1>3. IInv => RunningBotCanFire
  BY DEF IInv, RunningBotCanFire, SoundBot, needs_met, TriggerTypes
<1> QED BY <1>1, <1>2, <1>3

(* Every bot stored has the shape of one, and what a transaction has        *)
(* written it has written under the lock of its row.                        *)
THEOREM StoreTypeCorrect == StoreSpec => []StoreTypeOK
BY WhatIInvSays, StoreInvariant, PTL

(* No update is lost, whatever updates, starts and deletions meet: the      *)
(* coalesce of update_bot is computed on the row its transaction holds.     *)
THEOREM NoUpdateIsLost == StoreSpec => []NoUpdateLost
BY WhatIInvSays, StoreInvariant, PTL

(* A bot that runs can fire, and has a basket of exactly 10000 basis points *)
(* that build_plan accepts.                                                 *)
THEOREM RunningBotsCanFire == StoreSpec => []RunningBotCanFire
BY WhatIInvSays, StoreInvariant, PTL

-----------------------------------------------------------------------------
(* Names.  A name that an open transaction has entered is nobody else's:    *)
(* that is what an entry waits for.                                         *)
Entered(c) == At(c, "update", "commit")
NameInv ==
  /\ RetryIsAbsorbed
  /\ \A c \in Clients, x \in Bots :
       Entered(c) /\ Exists(x) /\ x # req[c].bot => bots[x].name # row[c].name
  /\ \A c, d \in Clients :
       Entered(c) /\ Entered(d) /\ c # d => row[c].name # row[d].name

(* A step that enters nothing leaves the names as they are.                 *)
LEMMA NamesStay ==
  ASSUME NameInv, UNCHANGED bots,
         \A d \in Clients : Entered(d)' =>
           Entered(d) /\ req'[d].bot = req[d].bot /\ row'[d] = row[d]
  PROVE  NameInv'
BY DEF NameInv, RetryIsAbsorbed, Exists

(* A step of one request, which does not enter a name.                      *)
LEMMA NamesStayBut ==
  ASSUME IInv, NameInv, NEW c \in Clients, NEW r, r.op = "update" => r.pc # "commit",
         req' = [req EXCEPT ![c] = r], UNCHANGED bots,
         \A d \in Clients \ {c} : row'[d] = row[d]
  PROVE  NameInv'
<1>1. \A d \in Clients : d # c => req'[d] = req[d]
  BY DEF IInv
<1>2. ~Entered(c)'
  BY DEF IInv, Entered, At
<1>3. ASSUME NEW d \in Clients, Entered(d)'
      PROVE  Entered(d) /\ req'[d].bot = req[d].bot /\ row'[d] = row[d]
  BY <1>1, <1>2, <1>3 DEF Entered, At
<1> QED BY <1>3, NamesStay

(* A row nobody holds changes, and keeps its name or is gone.               *)
LEMMA NamesKept ==
  ASSUME IInv, NameInv, NEW c \in Clients,
         NEW b \in Bots, Exists(b), NEW v,
         v.status \in Statuses => v.name = bots[b].name,
         bots' = [bots EXCEPT ![b] = v], req' = [req EXCEPT ![c] = Idle], row' = row
  PROVE  NameInv'
<1>1. \A x \in Bots : bots'[x] = IF x = b THEN v ELSE bots[x]
  BY DEF IInv
<1>2. \A x \in Bots : Exists(x)' => Exists(x) /\ bots'[x].name = bots[x].name
  BY <1>1 DEF Exists
<1>3. \A d \in Clients : Entered(d)' => Entered(d) /\ req'[d] = req[d]
  BY DEF IInv, Entered, At, Idle
<1> QED BY <1>2, <1>3 DEF NameInv, RetryIsAbsorbed

(* create_bot: neither taken nor awaited.                                   *)
LEMMA CreatedIsNew ==
  ASSUME IInv, NameInv, NEW b \in Bots, NEW body, CreateBot(b, body)
  PROVE  NameInv'
<1> DEFINE config == parseCreateBot(body)
           v == [f \in Fields \cup {"status"} |-> IF f = "status" THEN "draft" ELSE config[f]]
<1>1. v.name = config.name
  BY DEF Fields, CoreFields
<1>2. bots' = [bots EXCEPT ![b] = v] /\ UNCHANGED <<req, row>>
  BY DEF CreateBot
<1>3. ~Exists(b) /\ \A x \in Bots \ {b} : Exists(x) => bots[x].name # config.name
  BY Shapes DEF CreateBot, create_bot_takes, name_is_taken, Exists
<1>4. \A d \in Clients : Entered(d) => row[d].name # config.name
  BY DEF CreateBot, name_is_awaited, holds_name, IInv, HasWritten, Entered
<1> HIDE DEF v, config
<1>5. \A x \in Bots : bots'[x] = IF x = b THEN v ELSE bots[x]
  BY <1>2 DEF IInv
<1>6. RetryIsAbsorbed'
  BY <1>1, <1>3, <1>5 DEF NameInv, RetryIsAbsorbed, Exists
<1>7. \A d \in Clients : Entered(d)' = Entered(d) /\ req'[d] = req[d] /\ row'[d] = row[d]
  BY <1>2 DEF Entered, At
<1>8. \A d \in Clients, x \in Bots :
        Entered(d)' /\ Exists(x)' /\ x # req'[d].bot => bots'[x].name # row'[d].name
  BY <1>1, <1>4, <1>5, <1>7 DEF NameInv, Exists
<1> QED BY <1>6, <1>7, <1>8 DEF NameInv

(* The entry of a name: neither taken nor awaited.                          *)
LEMMA EnteredIsNew ==
  ASSUME IInv, NameInv, NEW c \in Clients, CheckName(c),
         ~name_is_taken(req[c].bot, row[c].name)
  PROVE  NameInv'
<1> DEFINE b == req[c].bot
<1>1. At(c, "update", "name") /\ Goto(c, "commit") /\ UNCHANGED <<bots, row>>
  BY DEF CheckName, NoWrite
<1>2. req[c] \in [op : {"update"}, pc : {"check", "write", "name", "commit"}, bot : Bots,
                  patch : ReadPatches]
  BY <1>1 DEF IInv, RequestSet, Idle, At
<1>3. req'[c].bot = b /\ \A d \in Clients : d # c => req'[d] = req[d]
  BY <1>1, <1>2 DEF IInv, Goto
<1>4. \A d \in Clients : d # c /\ Entered(d) => row[d].name # row[c].name
  BY <1>1 DEF CheckName, WaitsFor, holds_name, IInv, HasWritten, Entered
<1>5. \A x \in Bots \ {b} : Exists(x) => bots[x].name # row[c].name
  BY DEF name_is_taken
<1>6. \A d \in Clients : d # c => Entered(d)' = Entered(d)
  BY <1>3 DEF Entered, At
<1>7. RetryIsAbsorbed'
  BY <1>1 DEF NameInv, RetryIsAbsorbed, Exists
<1>8. \A d \in Clients, x \in Bots :
        Entered(d)' /\ Exists(x)' /\ x # req'[d].bot => bots'[x].name # row'[d].name
  BY <1>1, <1>3, <1>5, <1>6 DEF NameInv, Exists
<1>9. \A d, e \in Clients :
        Entered(d)' /\ Entered(e)' /\ d # e => row'[d].name # row'[e].name
  BY <1>1, <1>4, <1>6 DEF NameInv
<1> QED BY <1>7, <1>8, <1>9 DEF NameInv

(* The commit shows a name that was nobody else's.                          *)
LEMMA CommittedIsNew ==
  ASSUME IInv, NameInv, NEW c \in Clients, CommitUpdate(c)
  PROVE  NameInv'
<1> DEFINE b == req[c].bot
<1>1. WrittenUnderLock(c) /\ req[c] # Idle /\ Entered(c)
  BY DEF CommitUpdate, IInv, At, HasWritten, Entered, Idle
<1>2. b \in Bots /\ Exists(b) /\ lock[b] = c
  BY <1>1, RequestShape DEF WrittenUnderLock
<1>3. row' = [row EXCEPT ![c] = NoBot] /\ req' = [req EXCEPT ![c] = Idle]
  BY DEF CommitUpdate, Answer
<1>4. \A x \in Bots : bots'[x] = bots[x] \/ (x = b /\ bots'[x] = row[c])
  BY <1>2 DEF CommitUpdate, IInv
<1>5. \A d \in Clients : IF d = c THEN ~Entered(d)'
                         ELSE row'[d] = row[d] /\ req'[d] = req[d] /\ Entered(d)' = Entered(d)
  BY <1>3 DEF IInv, Entered, At, Idle
<1>6. \A x \in Bots : Exists(x)' => Exists(x)
  BY <1>2, <1>4 DEF Exists
<1>7. \A x \in Bots \ {b} : Exists(x)' => bots'[x] = bots[x] /\ bots[x].name # row[c].name
  BY <1>1, <1>4, <1>6 DEF NameInv
<1>8. RetryIsAbsorbed'
  BY <1>2, <1>4, <1>6, <1>7 DEF NameInv, RetryIsAbsorbed
<1>9. \A d \in Clients, x \in Bots :
        Entered(d)' /\ Exists(x)' /\ x # req'[d].bot => bots'[x].name # row'[d].name
  <2> SUFFICES ASSUME NEW d \in Clients, NEW x \in Bots,
                      Entered(d)', Exists(x)', x # req'[d].bot
               PROVE  bots'[x].name # row'[d].name
    OBVIOUS
  <2>1. d # c /\ Entered(d) /\ row'[d] = row[d] /\ req'[d] = req[d]
    BY <1>5
  <2>2. CASE bots'[x] = bots[x]
    BY <1>6, <2>1, <2>2 DEF NameInv
  <2>3. CASE bots'[x] = row[c]
    BY <1>1, <2>1, <2>3 DEF NameInv
  <2> QED BY <1>4, <2>2, <2>3
<1>10. \A d, e \in Clients :
         Entered(d)' /\ Entered(e)' /\ d # e => row'[d].name # row'[e].name
  BY <1>5 DEF NameInv
<1> QED BY <1>8, <1>9, <1>10 DEF NameInv

(* Every step keeps the names apart.                                        *)
THEOREM StepKeepsNames == IInv /\ NameInv /\ [StoreNext]_storeVars => NameInv'
<1> SUFFICES ASSUME IInv, NameInv, [StoreNext]_storeVars PROVE NameInv'
  OBVIOUS
<1>1. ASSUME NEW b \in Bots, NEW body \in Bodies, CreateBot(b, body)
      PROVE  NameInv'
  BY <1>1, CreatedIsNew
<1>2. ASSUME NEW c \in Clients, ApiRequest(c)
      PROVE  NameInv'
  <2>1. PICK b \in Bots : \/ \E body \in Patches : PatchBot(c, b, body)
                          \/ \E action \in DOMAIN StatusOf : StatusAction(c, b, action)
                          \/ DeleteRequest(c, b)
    BY <1>2 DEF ApiRequest
  <2>2. ASSUME NEW r, r.pc # "commit", Request(c, r), NoWrite
        PROVE  NameInv'
    BY <2>2, NamesStayBut DEF Request, NoWrite
  <2>3. ASSUME NEW body \in Patches, PatchBot(c, b, body)
        PROVE  NameInv'
    BY <2>2, <2>3 DEF PatchBot
  <2>4. ASSUME NEW action \in DOMAIN StatusOf, StatusAction(c, b, action)
        PROVE  NameInv'
    BY <2>2, <2>4 DEF StatusAction
  <2>5. ASSUME DeleteRequest(c, b)
        PROVE  NameInv'
    BY <2>2, <2>5 DEF DeleteRequest
  <2> QED BY <2>1, <2>3, <2>4, <2>5
<1>3. ASSUME NEW c \in Clients,
             CheckPaused(c) \/ CheckHoldings(c) \/ WriteRow(c) \/ DeadlockDetected(c)
      PROVE  NameInv'
  <2>1. UNCHANGED bots /\ \A d \in Clients \ {c} : row'[d] = row[d]
    BY <1>3 DEF CheckPaused, CheckHoldings, WriteRow, DeadlockDetected, Abort, Refuse, NoWrite,
                IInv
  <2>2. \/ req' = [req EXCEPT ![c] = Idle]
        \/ req[c].op = "update" /\ req' = [req EXCEPT ![c].pc = "name"]
        \/ req[c].op \in {"update", "status"} /\ req' = [req EXCEPT ![c].pc = "write"]
    BY <1>3 DEF CheckPaused, CheckHoldings, WriteRow, DeadlockDetected, Abort, Refuse, Answer,
                Goto, At
  <2>3. Idle.op # "update"
    BY DEF Idle
  <2>4. ASSUME NEW pc \in {"name", "write"}, req[c].op \in {"update", "status"}
        PROVE  [req[c] EXCEPT !.pc = pc].pc = pc
    BY <2>4 DEF IInv, RequestSet, Idle
  <2>5. CASE req' = [req EXCEPT ![c] = Idle]
    BY <2>1, <2>3, <2>5, NamesStayBut
  <2>6. CASE ~ req' = [req EXCEPT ![c] = Idle]
    <3>1. PICK pc \in {"name", "write"} : req' = [req EXCEPT ![c] = [req[c] EXCEPT !.pc = pc]]
      BY <2>2, <2>6
    <3>2. req[c].op \in {"update", "status"}
      BY <2>2, <2>6
    <3> DEFINE r == [req[c] EXCEPT !.pc = pc]
    <3>3. r.pc # "commit"
      BY <2>4, <3>2
    <3> HIDE DEF r
    <3>4. req' = [req EXCEPT ![c] = r]
      BY <3>1 DEF r
    <3> QED BY <2>1, <3>3, <3>4, NamesStayBut
  <2> QED BY <2>5, <2>6
<1>4. ASSUME NEW c \in Clients, SetBotStatus(c)
      PROVE  NameInv'
  <2> DEFINE b == req[c].bot
             v == [bots[b] EXCEPT !.status = req[c].status]
  <2>1. req[c].op = "status" /\ req[c] # Idle /\ ~HasWritten(c)
    BY <1>4 DEF SetBotStatus, At, HasWritten, Idle
  <2>2. b \in Bots /\ (\A d \in Clients : lock[b] # d)
    BY <1>4, <2>1, RequestShape, StoreAssumption DEF SetBotStatus
  <2>3. req' = [req EXCEPT ![c] = Idle] /\ row' = row
    BY <1>4 DEF SetBotStatus, Answer
  <2>4. CASE Exists(b)
    <3>1. bots' = [bots EXCEPT ![b] = v]
      BY <1>4, <2>4 DEF SetBotStatus
    <3>2. v.name = bots[b].name
      BY <2>2, <2>4, Shapes DEF IInv, SoundBot
    <3> HIDE DEF v
    <3> QED BY <2>2, <2>3, <2>4, <3>1, <3>2, NamesKept
  <2>6. Idle.op # "update"
    BY DEF Idle
  <2>5. CASE ~Exists(b)
    <3>1. bots' = bots
      BY <1>4, <2>5 DEF SetBotStatus
    <3> QED BY <2>3, <2>6, <3>1, NamesStayBut
  <2> QED BY <2>4, <2>5
<1>5. ASSUME NEW c \in Clients, DeleteBot(c)
      PROVE  NameInv'
  <2> DEFINE b == req[c].bot
  <2>1. req[c].op = "delete" /\ req[c] # Idle /\ ~HasWritten(c)
    BY <1>5 DEF DeleteBot, At, HasWritten, Idle
  <2>2. b \in Bots /\ (\A d \in Clients : lock[b] # d)
    BY <1>5, <2>1, RequestShape, StoreAssumption DEF DeleteBot
  <2>3. req' = [req EXCEPT ![c] = Idle] /\ row' = row
    BY <1>5 DEF DeleteBot, Answer
  <2>4. CASE Exists(b)
    <3>1. bots' = [bots EXCEPT ![b] = Deleted] /\ Deleted.status \notin Statuses
      BY <1>5, <2>4, Shapes DEF DeleteBot
    <3> QED BY <2>2, <2>3, <2>4, <3>1, NamesKept
  <2>6. Idle.op # "update"
    BY DEF Idle
  <2>5. CASE ~Exists(b)
    <3>1. bots' = bots
      BY <1>5, <2>5 DEF DeleteBot
    <3> QED BY <2>3, <2>6, <3>1, NamesStayBut
  <2> QED BY <2>4, <2>5
<1>6. ASSUME NEW c \in Clients, CheckName(c)
      PROVE  NameInv'
  <2>1. CASE name_is_taken(req[c].bot, row[c].name)
    <3>1. /\ req' = [req EXCEPT ![c] = Idle] /\ UNCHANGED bots
          /\ \A d \in Clients \ {c} : row'[d] = row[d]
      BY <1>6, <2>1 DEF CheckName, Abort, Answer, IInv
    <3>2. Idle.op # "update"
      BY DEF Idle
    <3> QED BY <3>1, <3>2, NamesStayBut
  <2> QED BY <1>6, <2>1, EnteredIsNew
<1>7. CASE UNCHANGED storeVars
  BY <1>7, NamesStay DEF storeVars, Entered, At
<1> QED BY <1>1, <1>2, <1>3, <1>4, <1>5, <1>6, <1>7, CommittedIsNew
        DEF StoreNext, Serve

LEMMA NamesStart == StoreInit => NameInv
<1> SUFFICES ASSUME StoreInit PROVE NameInv
  OBVIOUS
<1>1. \A b \in Bots : ~Exists(b)
  BY Shapes DEF StoreInit, Exists
<1>2. \A c \in Clients : ~Entered(c)
  BY DEF StoreInit, Entered, At, Idle
<1> QED BY <1>1, <1>2 DEF NameInv, RetryIsAbsorbed

(* No two bots have one name, so a create that is tried again is refused,   *)
(* however many clients create and rename meanwhile.                        *)
THEOREM RetriesAreAbsorbed == StoreSpec => []RetryIsAbsorbed
<1>1. NameInv => RetryIsAbsorbed
  BY DEF NameInv
<1> QED BY <1>1, NamesStart, StepKeepsNames, StoreInvariant, PTL DEF StoreSpec
-----------------------------------------------------------------------------
(* The web pages on top of the store: what the form sends is such a body.   *)

(* What the inputs of the form can show, and what a form on its way has     *)
(* passed.                                                                  *)
RowSet == [symbol : ShownSymbols, percent : Percents \cup Nat]
NameShown(text) ==
  text # "" => /\ Trim[Trim[text]] = Trim[text]
               /\ Trim[text] # "" => Length[Trim[text]] \in 1..60
FieldShown(x, v) ==
  /\ x = "name" => NameShown(v)
  /\ x \in Numbers => v \in Int \cup {Blank}
  /\ x = "drift_threshold" => v \in DOMAIN Slip \cup {Blank}
  /\ x = "trigger_type" => v \in TriggerTypes
FormShape(f) ==
  /\ DOMAIN f = DOMAIN NewForm
  /\ f.rows \in Seq(RowSet) /\ Len(f.rows) <= MaxHoldings
  /\ \A x \in DOMAIN NewForm : FieldShown(x, f[x])
FormChecked(f) == FormShape(f) /\ validateTargets(f.rows) /\ InputsAreValid(f)

FormInv ==
  /\ FormShape(form)
  /\ busy => FormChecked(call.form) /\ at = "new"
  /\ call.pc = "answered" /\ call.answer.status \in 200..299 => call.answer.data \in Bots

LEMMA BodyIsSound ==
  ASSUME NEW f, FormShape(f)
  PROVE  SoundBody(body_of(f))
<1> DEFINE body == body_of(f)
           row_sent(i) == [symbol |-> Text(symbol_sent(f.rows[i])),
                           weight_bps |-> Number(Unit * percentToBps(f.rows[i].percent))]
           rows == [i \in DOMAIN f.rows |-> row_sent(i)]
<1>1. DOMAIN body = Fields
  BY DEF body_of, Fields, CoreFields
<1>2. body.targets.rows = rows
  BY DEF body_of, List
<1>3. Len(f.rows) \in Nat /\ DOMAIN f.rows = 1..Len(f.rows)
  BY DEF FormShape
<1> HIDE DEF row_sent
<1>4. rows \in Seq({rows[i] : i \in DOMAIN rows})
  BY <1>3
<1> QED BY <1>1, <1>2, <1>4 DEF SoundBody

LEMMA FormFields ==
  DOMAIN NewForm = {"name", "investment_amount", "trigger_type", "interval_minutes",
                    "drift_threshold", "min_order_value", "cash_buffer",
                    "allow_fractional", "rows"}
BY SMT DEF NewForm

LEMMA HoldingsBound == MaxHoldings \in Nat
BY ValidationAssumption

LEMMA PercentsHaveSlips ==
  \A p \in Nat : p <= HundredPercent => p \in DOMAIN Slip /\ Slip[p] \in -1..1
<1>1. HundredPercent \in Nat
  BY SMT DEF HundredPercent
<1>2. \A p \in Nat : p <= HundredPercent => p \in 0..HundredPercent
  BY <1>1
<1> QED BY <1>2, SlipAssumption

LEMMA NewFormShape == FormShape(NewForm)
<1>1. /\ [symbol |-> "A", percent |-> 40000] \in RowSet
      /\ [symbol |-> "B", percent |-> 35000] \in RowSet
      /\ [symbol |-> "C", percent |-> 25000] \in RowSet
  BY SMT DEF RowSet, ShownSymbols
<1>2. NewForm.rows \in Seq(RowSet)
  BY <1>1, SMT DEF NewForm
<1>3. Len(NewForm.rows) \in Nat
  BY <1>2
<1>4. Len(NewForm.rows) <= MaxHoldings
  BY <1>3, FormAssumption, HoldingsBound
<1>5. ASSUME NEW x \in DOMAIN NewForm
      PROVE  FieldShown(x, NewForm[x])
  <2>1. x = "name" => NameShown(NewForm[x])
    <3>1. NewForm.name = ""
      BY SMT DEF NewForm
    <3> QED BY <3>1 DEF NameShown
  <2>2. x \in Numbers => NewForm[x] \in Int
    <3>1. /\ NewForm.investment_amount \in Int /\ NewForm.interval_minutes \in Int
          /\ NewForm.drift_threshold \in Int /\ NewForm.min_order_value \in Int
          /\ NewForm.cash_buffer \in Int
      BY SMT DEF NewForm
    <3> QED BY <3>1 DEF Numbers
  <2>3. x = "drift_threshold" => NewForm[x] \in DOMAIN Slip
    <3>1. NewForm.drift_threshold \in Nat /\ NewForm.drift_threshold <= HundredPercent
      BY SMT DEF NewForm, HundredPercent
    <3> QED BY <3>1, PercentsHaveSlips
  <2>4. x = "trigger_type" => NewForm[x] \in TriggerTypes
    BY SMT DEF NewForm, TriggerTypes
  <2> QED BY <2>1, <2>2, <2>3, <2>4 DEF FieldShown
<1> QED BY <1>2, <1>4, <1>5 DEF FormShape

LEMMA FormStarts == FormInit => FormInv
BY NewFormShape DEF FormInit, FormInv, busy, NoCall

(* However the rows are edited, they are rows.                              *)
LEMMA EditKeepsShape ==
  ASSUME FormInv, NEW f, Edit(f), FormShape(f)
  PROVE  FormInv'
BY DEF FormInv, Edit, busy

LEMMA FieldTyped ==
  ASSUME FormInv, TypeField
  PROVE  FormInv'
<1>1. PICK x \in DOMAIN Typed : \E text \in Typed[x] : Edit([form EXCEPT ![x] = text])
  BY DEF TypeField
<1>2. PICK text \in Typed[x] : Edit([form EXCEPT ![x] = text])
  BY <1>1
<1>3. x # "rows" /\ x \in DOMAIN NewForm
  BY TypedAssumption
<1>4. FieldShown(x, text)
  <2>1. x = "name" => NameShown(text)
    BY TextAssumption DEF NameShown
  <2>2. x \in Numbers => text \in Int \cup {Blank}
    BY TypedAssumption
  <2>3. x = "drift_threshold" => text \in DOMAIN Slip \cup {Blank}
    BY TypedAssumption
  <2>4. x = "trigger_type" => text \in TriggerTypes
    BY TypedAssumption
  <2> QED BY <2>1, <2>2, <2>3, <2>4 DEF FieldShown
<1>5. FormShape([form EXCEPT ![x] = text])
  <2> DEFINE new == [form EXCEPT ![x] = text]
  <2>1. /\ DOMAIN form = DOMAIN NewForm /\ "rows" \in DOMAIN NewForm
        /\ form.rows \in Seq(RowSet) /\ Len(form.rows) <= MaxHoldings
        /\ \A y \in DOMAIN NewForm : FieldShown(y, form[y])
    BY FormFields DEF FormInv, FormShape
  <2>2. /\ DOMAIN new = DOMAIN NewForm /\ new.rows = form.rows
        /\ \A y \in DOMAIN NewForm : new[y] = IF y = x THEN text ELSE form[y]
    BY <1>3, <2>1, Zenon
  <2> HIDE DEF new
  <2>3. \A y \in DOMAIN NewForm : FieldShown(y, new[y])
    BY <1>4, <2>1, <2>2, Zenon
  <2>4. FormShape(new)
    BY <2>1, <2>2, <2>3, Zenon DEF FormShape
  <2> QED BY <2>4 DEF new
<1> QED BY <1>2, <1>5, EditKeepsShape

LEMMA RowsEdited ==
  ASSUME FormInv, NEW rows \in Seq(RowSet), Len(rows) <= MaxHoldings,
         Edit([form EXCEPT !.rows = rows])
  PROVE  FormInv'
<1> DEFINE new == [form EXCEPT !.rows = rows]
<1>1. FormShape(new)
  <2>1. DOMAIN form = DOMAIN NewForm /\ "rows" \in DOMAIN NewForm
        /\ \A y \in DOMAIN NewForm : FieldShown(y, form[y])
    BY FormFields DEF FormInv, FormShape
  <2>2. /\ DOMAIN new = DOMAIN NewForm /\ new.rows = rows
        /\ \A y \in DOMAIN NewForm : y # "rows" => new[y] = form[y]
    BY <2>1, Zenon
  <2>3. \A v : FieldShown("rows", v)
    BY DEF FieldShown, Numbers
  <2> HIDE DEF new
  <2>4. \A y \in DOMAIN NewForm : FieldShown(y, new[y])
    BY <2>1, <2>2, <2>3, Zenon
  <2> QED BY <2>2, <2>4, Zenon DEF FormShape
<1> QED BY <1>1, EditKeepsShape

LEMMA RowEdited ==
  ASSUME FormInv, TypeSymbol \/ TypePercent
  PROVE  FormInv'
<1> DEFINE rows == form.rows
<1>1. rows \in Seq(RowSet) /\ Len(rows) <= MaxHoldings
  BY DEF FormInv, FormShape
<1>2. ASSUME TypeSymbol
      PROVE  FormInv'
  <2>1. PICK i \in DOMAIN rows, text \in Symbols :
          Edit([form EXCEPT !.rows[i].symbol = Upper[text]])
    BY <1>2 DEF TypeSymbol
  <2>2. /\ [rows EXCEPT ![i].symbol = Upper[text]] \in Seq(RowSet)
        /\ Len([rows EXCEPT ![i].symbol = Upper[text]]) = Len(rows)
    <3>1. [rows[i] EXCEPT !.symbol = Upper[text]] \in RowSet
      <4>1. rows[i] \in RowSet
        BY <1>1, <2>1
      <4>2. Upper[text] \in ShownSymbols
        BY <2>1 DEF ShownSymbols
      <4> QED BY <4>1, <4>2 DEF RowSet
    <3> QED BY <1>1, <2>1, <3>1
  <2> QED BY <1>1, <2>1, <2>2, RowsEdited
<1>3. ASSUME TypePercent
      PROVE  FormInv'
  <2>1. PICK i \in DOMAIN rows, p \in Percents : Edit([form EXCEPT !.rows[i].percent = p])
    BY <1>3 DEF TypePercent
  <2>2. /\ [rows EXCEPT ![i].percent = p] \in Seq(RowSet)
        /\ Len([rows EXCEPT ![i].percent = p]) = Len(rows)
    <3>1. [rows[i] EXCEPT !.percent = p] \in RowSet
      <4>1. rows[i] \in RowSet /\ p \in Percents \cup Nat
        BY <1>1, <2>1
      <4> QED BY <4>1 DEF RowSet
    <3> QED BY <1>1, <2>1, <3>1
  <2> QED BY <1>1, <2>1, <2>2, RowsEdited
<1> QED BY <1>2, <1>3

LEMMA EvenlySplit ==
  ASSUME NEW rows \in Seq(RowSet)
  PROVE  split_evenly(rows) \in Seq(RowSet) /\ Len(split_evenly(rows)) = Len(rows)
<1> DEFINE n == Len(rows)
           each == 10000 \div n
           rest == 10000 - each * n
           new(i) == [rows[i] EXCEPT !.percent = 10 * (IF i = 1 THEN each + rest ELSE each)]
<1>1. n \in Nat /\ DOMAIN rows = 1..n
  OBVIOUS
<1>2. ASSUME NEW i \in DOMAIN rows
      PROVE  new(i) \in RowSet
  <2>1. n \in Nat \ {0}
    BY <1>1, <1>2
  <2>2. each \in Nat /\ rest \in Nat
    BY <2>1, Z3
  <2> HIDE DEF each, rest
  <2>3. 10 * (IF i = 1 THEN each + rest ELSE each) \in Percents \cup Nat
    BY <2>2
  <2>4. rows[i] \in RowSet
    OBVIOUS
  <2> QED BY <2>3, <2>4 DEF RowSet
<1>3. split_evenly(rows) = [i \in DOMAIN rows |-> new(i)]
  BY DEF split_evenly
<1> HIDE DEF new
<1> QED BY <1>1, <1>2, <1>3

LEMMA ListEdited ==
  ASSUME FormInv, AddHolding \/ RemoveHolding \/ SplitEvenly
  PROVE  FormInv'
<1> DEFINE rows == form.rows
<1>1. rows \in Seq(RowSet) /\ Len(rows) <= MaxHoldings
  BY DEF FormInv, FormShape
<1>2. Len(rows) \in Nat /\ DOMAIN rows = 1..Len(rows)
  BY <1>1
<1>3. ASSUME AddHolding
      PROVE  FormInv'
  <2>1. NewRow \in RowSet
    BY DEF NewRow, RowSet, ShownSymbols
  <2>2. Append(rows, NewRow) \in Seq(RowSet) /\ Len(Append(rows, NewRow)) = Len(rows) + 1
    BY <1>1, <2>1
  <2>3. Len(Append(rows, NewRow)) <= MaxHoldings
    BY <1>2, <1>3, <2>2, HoldingsBound DEF AddHolding
  <2> QED BY <1>3, <2>2, <2>3, RowsEdited DEF AddHolding
<1>4. ASSUME RemoveHolding
      PROVE  FormInv'
  <2>1. PICK i \in DOMAIN rows :
          /\ Len(rows) > 1
          /\ Edit([form EXCEPT !.rows =
                     [j \in 1..Len(@) - 1 |-> IF j < i THEN @[j] ELSE @[j + 1]]])
    BY <1>4 DEF RemoveHolding
  <2> DEFINE left == [j \in 1..Len(rows) - 1 |-> IF j < i THEN rows[j] ELSE rows[j + 1]]
  <2>2. left \in Seq(RowSet) /\ Len(left) = Len(rows) - 1
    <3>1. Len(rows) - 1 \in Nat
      BY <1>2, <2>1
    <3>2. ASSUME NEW j \in 1..Len(rows) - 1
          PROVE  left[j] \in RowSet
      <4>1. j \in DOMAIN rows /\ j + 1 \in DOMAIN rows
        BY <1>2, <3>1, <3>2
      <4>2. rows[j] \in RowSet /\ rows[j + 1] \in RowSet
        BY <1>1, <4>1
      <4> QED BY <4>2
    <3> HIDE DEF rows
    <3> QED BY <3>1, <3>2
  <2>3. Len(left) <= MaxHoldings
    <3>1. Len(rows) <= MaxHoldings /\ Len(left) = Len(rows) - 1 /\ Len(rows) \in Nat
      BY <1>1, <1>2, <2>2
    <3> HIDE DEF left, rows
    <3> QED BY <3>1, HoldingsBound
  <2> QED BY <2>1, <2>2, <2>3, RowsEdited
<1>5. ASSUME SplitEvenly
      PROVE  FormInv'
  BY <1>1, <1>5, EvenlySplit, RowsEdited DEF SplitEvenly
<1> QED BY <1>3, <1>4, <1>5

(* The answers that are no success: of no one's but the program's codes.    *)
LEMMA FailuresFail ==
  /\ \A code \in {"invalid_request", "conflict", "unauthorized"} :
       fail(code).status \notin 200..299
  /\ broken.status \notin 200..299
  /\ fromPostgres("23505") = "conflict"
<1>1. \A code \in {"invalid_request", "conflict", "unauthorized"} :
        STATUS[code] \in {401, 409, 422}
  BY DEF STATUS
<1>2. \A n \in {0, 401, 409, 422} : n \notin 200..299
  OBVIOUS
<1>3. fromPostgres("23505") = "conflict"
  BY DEF fromPostgres
<1> QED BY <1>1, <1>2, <1>3 DEF fail, broken

LEMMA CallKeepsForm ==
  ASSUME FormInv, Submit \/ CallProceeds
  PROVE  FormInv'
<1>1. ASSUME Submit
      PROVE  FormInv'
  BY <1>1 DEF Submit, FormInv, FormChecked, busy, NoCall
<1>2. ASSUME NEW code \in {"invalid_request", "conflict", "unauthorized"},
             call.pc = "sent", Refused(code)
      PROVE  FormInv'
  <2>1. busy
    BY <1>2 DEF busy, NoCall
  <2>2. call'.answer.status \notin 200..299
    BY <1>2, FailuresFail DEF Refused, Answer_with
  <2> QED BY <1>2, <2>1, <2>2 DEF Refused, Answer_with, FormInv
<1>3. ASSUME Create
      PROVE  FormInv'
  <2>1. busy
    BY <1>3 DEF Create, busy, NoCall
  <2>2. PICK b \in Bots : Answer_with(ok(b, 201))
    BY <1>3 DEF Create
  <2>3. call'.answer.data \in Bots
    BY <2>2 DEF Answer_with, ok
  <2> QED BY <1>3, <2>1, <2>2, <2>3 DEF Create, Answer_with, FormInv
<1>4. ASSUME Lose
      PROVE  FormInv'
  <2>1. call'.answer.status \notin 200..299
    BY <1>4, FailuresFail DEF Lose, Answer_with
  <2> QED BY <1>4, <2>1 DEF Lose, Answer_with, FormInv
<1>5. ASSUME Receive
      PROVE  FormInv'
  <2>1. FormShape(form) /\ FormShape(NewForm)
    BY NewFormShape DEF FormInv
  <2>2. ~busy' /\ call'.pc = "none" /\ form' \in {form, NewForm}
    BY <1>5 DEF Receive, busy, NoCall
  <2> QED BY <2>1, <2>2 DEF FormInv
<1> QED BY <1>1, <1>2, <1>3, <1>4, <1>5, FailuresFail
        DEF CallProceeds, RefuseBody, RefuseName, RefuseUser

-----------------------------------------------------------------------------
(* The page.  What it shows, and what of it is read, was read since the last *)
(* answer, unless a rendering is asked for or under way, the controls are   *)
(* busy or they show an error: that is what keeps the promise that the page *)
(* at rest shows what its user did, or that it went wrong.                  *)
PageShape ==
  page \in {NotShown, NotFound} \/
    (page.is = "shown" /\ "stale" \in DOMAIN page /\ page.stale \in BOOLEAN)
LoadShape ==
  load \in {NoLoad, [pc |-> "bot"]} \/
    (load.pc = "rest" /\ "stale" \in DOMAIN load /\ load.stale \in BOOLEAN)

Excused == note = "bad" \/ act # NoAct

PageInv ==
  /\ at = "new" \/ at \in Bots
  /\ at = "new" => page = NotShown /\ load = NoLoad /\ ~wanted /\ act = NoAct
  /\ wanted \in BOOLEAN /\ PageShape /\ LoadShape
  /\ page.is = "shown" /\ page.stale => wanted \/ load # NoLoad \/ Excused
  /\ load.pc = "rest" /\ load.stale => wanted \/ Excused

LEMMA PageStarts == WebInit => PageInv
<1> SUFFICES ASSUME WebInit PROVE PageInv
  OBVIOUS
<1>1. at = "new" /\ page = NotShown /\ load = NoLoad /\ wanted = FALSE /\ act = NoAct
  BY DEF WebInit, FormInit, PageInit
<1>2. page.is # "shown" /\ load.pc # "rest"
  BY <1>1 DEF NotShown, NoLoad
<1> QED BY <1>1, <1>2 DEF PageInv, PageShape, LoadShape

(* A step that leaves the page alone.                                       *)
LEMMA PageStays ==
  ASSUME PageInv, UNCHANGED <<at, page, load, wanted>>,
         UNCHANGED <<act, note>> \/ (at # "new" /\ act' # NoAct)
  PROVE  PageInv'
BY DEF PageInv, PageShape, LoadShape, Excused

LEMMA FormKeepsPage ==
  ASSUME PageInv, FormInv, FormStep
  PROVE  PageInv'
<1>1. at = "new" \/ busy
  <2>1. CASE TypeField \/ TypeSymbol \/ TypePercent
    BY <2>1 DEF TypeField, TypeSymbol, TypePercent, Edit
  <2>2. CASE AddHolding \/ RemoveHolding \/ SplitEvenly \/ Submit
    BY <2>2 DEF AddHolding, RemoveHolding, SplitEvenly, Submit, Edit
  <2>3. CASE CallProceeds
    <3>1. call.pc \in {"sent", "answered"} \/ busy
      BY <2>3 DEF CallProceeds, Create, RefuseBody, RefuseName, RefuseUser, Lose, Receive
    <3>2. NoCall.pc = "none"
      BY DEF NoCall
    <3> QED BY <3>1, <3>2 DEF busy
  <2> QED BY <2>1, <2>2, <2>3 DEF FormStep, FormNext
<1>2. at = "new" /\ page = NotShown /\ load = NoLoad /\ act = NoAct
  BY <1>1 DEF FormInv, PageInv
<1>3. at' = "new" \/ at' \in Bots
  <2>1. CASE Receive
    <3>1. call.answer.status \in 200..299 => call.answer.data \in Bots
      BY <2>1 DEF Receive, FormInv
    <3> QED BY <1>2, <2>1, <3>1 DEF Receive, request
  <2>2. CASE ~Receive
    BY <1>2, <2>2 DEF FormStep, FormNext, TypeField, TypeSymbol, TypePercent, AddHolding,
         RemoveHolding, SplitEvenly, Edit, Submit, CallProceeds, Create, RefuseBody,
         RefuseName, RefuseUser, Refused, Lose
  <2> QED BY <2>1, <2>2
<1>4. wanted' = (at' # "new") /\ UNCHANGED <<page, load, act>>
  BY DEF FormStep
<1> QED BY <1>2, <1>3, <1>4 DEF PageInv, PageShape, LoadShape, NotShown, NoLoad

LEMMA RenderingKeepsPage ==
  ASSUME PageInv, PageStep
  PROVE  PageInv'
<1>1. ASSUME BeginLoad
      PROVE  PageInv'
  BY <1>1 DEF BeginLoad, FormStays, formVars, PageInv, PageShape, LoadShape, NoLoad, Excused
<1>2. ASSUME ReadBot
      PROVE  PageInv'
  <2>1. load = [pc |-> "bot"] /\ at # "new" /\ load # NoLoad
    BY <1>2 DEF ReadBot, PageInv, LoadShape, NoLoad
  <2>2. UNCHANGED <<at, wanted, act, note>>
    BY <1>2 DEF ReadBot, FormStays, formVars
  <2>3. CASE Exists(at)
    <3>1. /\ load' = [pc |-> "rest", status |-> bots[at].status,
                      targets |-> None, plan |-> <<>>, stale |-> FALSE]
          /\ UNCHANGED page
      BY <1>2, <2>3 DEF ReadBot
    <3>2. load'.pc = "rest" /\ "stale" \in DOMAIN load' /\ load'.stale = FALSE
      BY <3>1
    <3>3. load' # NoLoad
      BY <3>2 DEF NoLoad
    <3> QED BY <2>1, <2>2, <3>1, <3>2, <3>3 DEF PageInv, PageShape, LoadShape, Excused
  <2>4. CASE ~Exists(at)
    <3>1. load' = NoLoad /\ page' = NotFound
      BY <1>2, <2>4 DEF ReadBot
    <3>2. load'.pc # "rest" /\ page'.is # "shown"
      BY <3>1 DEF NoLoad, NotFound
    <3> QED BY <2>1, <2>2, <3>1, <3>2 DEF PageInv, PageShape, LoadShape, Excused
  <2> QED BY <2>3, <2>4
<1>3. ASSUME NEW x, load' = [load EXCEPT !.targets = x] \/ load' = [load EXCEPT !.plan = x],
             load.pc = "rest", UNCHANGED <<at, page, wanted, act, note>>
      PROVE  PageInv'
  <2>1. "stale" \in DOMAIN load /\ load.stale \in BOOLEAN /\ at # "new" /\ load # NoLoad
    BY <1>3 DEF PageInv, LoadShape, NoLoad
  <2>2. "stale" \in DOMAIN load' /\ load'.stale = load.stale /\ load'.pc = "rest"
    <3>1. CASE load' = [load EXCEPT !.targets = x]
      BY <1>3, <2>1, <3>1
    <3>2. CASE load' = [load EXCEPT !.plan = x]
      BY <1>3, <2>1, <3>2
    <3> QED BY <1>3, <3>1, <3>2
  <2>3. load' # NoLoad
    BY <2>2 DEF NoLoad
  <2> QED BY <1>3, <2>1, <2>2, <2>3 DEF PageInv, PageShape, LoadShape, Excused
<1>4. ASSUME Render
      PROVE  PageInv'
  <2>1. load.pc = "rest" /\ load.stale \in BOOLEAN /\ at # "new"
    BY <1>4 DEF Render, PageInv, LoadShape, NoLoad
  <2>2. page'.is = "shown" /\ page'.stale = load.stale /\ "stale" \in DOMAIN page'
    BY <1>4 DEF Render
  <2> QED BY <1>4, <2>1, <2>2 DEF Render, FormStays, formVars, PageInv, PageShape, LoadShape, NoLoad,
                                           Excused
<1>5. ASSUME ReadTargets \/ ReadRuns
      PROVE  PageInv'
  BY <1>3, <1>5 DEF ReadTargets, ReadRuns, FormStays, formVars
<1> QED BY <1>1, <1>2, <1>4, <1>5 DEF PageStep

(* An answer makes all that was read old, and asks for a rendering or shows *)
(* the error.                                                               *)
LEMMA AnswerKeepsPage ==
  ASSUME PageInv, ReceiveAct, at # "new"
  PROVE  PageInv'
<1> DEFINE good == request(TRUE, act.answer).ok
<1>1. good \in BOOLEAN
  BY DEF request
<1>2. /\ UNCHANGED at /\ wanted' = (wanted \/ good)
      /\ note' = IF good THEN "ok" ELSE "bad"
      /\ page' = outdated(page) /\ load' = outdated(load)
  BY DEF ReceiveAct, FormStays, formVars
<1>3. PageShape'
  <2>1. CASE page \in {NotShown, NotFound}
    BY <1>2, <2>1 DEF outdated, NotShown, NotFound, PageShape
  <2>2. CASE page \notin {NotShown, NotFound}
    <3>1. page.is = "shown" /\ "stale" \in DOMAIN page
      BY <2>2 DEF PageInv, PageShape
    <3>2. page' = [page EXCEPT !.stale = TRUE]
      BY <1>2, <3>1 DEF outdated
    <3>3. page'.is = "shown" /\ "stale" \in DOMAIN page' /\ page'.stale = TRUE
      BY <3>1, <3>2
    <3> QED BY <3>3 DEF PageShape
  <2> QED BY <2>1, <2>2
<1>4. LoadShape'
  <2>1. CASE load \in {NoLoad, [pc |-> "bot"]}
    BY <1>2, <2>1 DEF outdated, NoLoad, LoadShape
  <2>2. CASE load \notin {NoLoad, [pc |-> "bot"]}
    <3>1. load.pc = "rest" /\ "stale" \in DOMAIN load
      BY <2>2 DEF PageInv, LoadShape
    <3>2. load' = [load EXCEPT !.stale = TRUE]
      BY <1>2, <3>1 DEF outdated
    <3>3. load'.pc = "rest" /\ "stale" \in DOMAIN load' /\ load'.stale = TRUE
      BY <3>1, <3>2
    <3> QED BY <3>3 DEF LoadShape
  <2> QED BY <2>1, <2>2
<1>5. wanted' \/ note' = "bad"
  BY <1>1, <1>2
<1> QED BY <1>1, <1>2, <1>3, <1>4, <1>5 DEF PageInv, Excused

(* The controls are there on the page of a bot only.                        *)
LEMMA ControlsAreOnThePage ==
  ASSUME PageInv, ControlStep
  PROVE  at # "new"
<1>1. page.is = "shown" \/ act.pc \in {"asked", "engine", "answered"}
  BY DEF ControlStep, SetStatus, Press, Rebalance, PressInVain, ServeTab, EngineAnswers,
         EngineIsLate, LoseAnswer, ReceiveAct
<1>2. NotShown.is # "shown" /\ NoAct.pc = "idle"
  BY DEF NotShown, NoAct
<1> QED BY <1>1, <1>2 DEF PageInv

LEMMA ControlsKeepPage ==
  ASSUME PageInv, ControlStep
  PROVE  PageInv'
<1>1. at # "new"
  BY ControlsAreOnThePage
<1>2. CASE ReceiveAct
  BY <1>1, <1>2, AnswerKeepsPage
<1>3. CASE ServeTab \/ EngineAnswers \/ EngineIsLate
  <2>1. UNCHANGED <<at, page, load, wanted>>
    BY <1>3 DEF ServeTab, EngineAnswers, EngineIsLate, FormStays, formVars
  <2>2. act'.pc \in {"asked", "answered"}
    BY <1>3 DEF ServeTab, EngineAnswers, EngineIsLate, Answer_act
  <2> QED BY <1>1, <2>1, <2>2, PageStays DEF NoAct
<1>4. CASE Rebalance \/ PressInVain \/ LoseAnswer
  <2>1. UNCHANGED <<at, page, load, wanted>>
    BY <1>4 DEF Rebalance, PressInVain, LoseAnswer, RestStays
  <2>2. act'.pc \in {"engine", "answered"}
    <3>1. Rebalance => act'.pc = "engine"
      BY DEF Rebalance
    <3>2. \A answer : Answer_act(answer) => act'.pc = "answered"
      BY DEF Answer_act
    <3>3. PressInVain \/ LoseAnswer => \E answer : Answer_act(answer)
      BY DEF PressInVain, LoseAnswer
    <3> QED BY <1>4, <3>1, <3>2, <3>3
  <2> QED BY <1>1, <2>1, <2>2, PageStays DEF NoAct
<1>5. CASE \E action \in DOMAIN StatusOf : SetStatus(action)
  <2>1. UNCHANGED <<at, page, load, wanted>> /\ act'.pc = "asked"
    BY <1>5 DEF SetStatus, RestStays
  <2> QED BY <1>1, <2>1, PageStays DEF NoAct
<1> QED BY <1>2, <1>3, <1>4, <1>5 DEF ControlStep

LEMMA VisitBegins ==
  ASSUME PageInv, NEW p \in {"new"} \cup Bots, Visit(p)
  PROVE  PageInv'
<1>1. /\ at' = p /\ page' = NotShown /\ load' = NoLoad /\ wanted' = (p # "new")
      /\ act = NoAct /\ act' = act
  BY DEF Visit
<1>2. page'.is # "shown" /\ load'.pc # "rest"
  BY <1>1 DEF NotShown, NoLoad
<1> QED BY <1>1, <1>2 DEF PageInv, PageShape, LoadShape

-----------------------------------------------------------------------------
(* Every step of the web keeps the form and the page, and is for the store  *)
(* a step of the store.                                                     *)
LEMMA FormIsKept ==
  ASSUME FormInv, PageInv, [WebNext]_webVars
  PROVE  FormInv'
<1>1. CASE FormStep
  BY <1>1, FieldTyped, RowEdited, ListEdited, CallKeepsForm DEF FormStep, FormNext
<1>2. CASE UNCHANGED <<form, call, at>>
  BY <1>2 DEF FormInv, busy
<1>3. ASSUME NEW p \in {"new"} \cup Bots, Visit(p)
      PROVE  FormInv'
  <2>1. ~busy' /\ form' = NewForm /\ UNCHANGED call
    BY <1>3 DEF Visit, busy
  <2> QED BY <2>1, NewFormShape DEF FormInv, busy, NoCall
<1>4. CASE PageStep \/ EngineEvaluates \/ OtherAsks
  BY <1>2, <1>4 DEF PageStep, BeginLoad, ReadBot, ReadTargets, ReadRuns, Render,
       EngineEvaluates, OtherAsks, FormStays, formVars
<1>5. CASE ControlStep
  <2>1. CASE ServeTab \/ EngineAnswers \/ EngineIsLate \/ ReceiveAct
    BY <1>2, <2>1 DEF ServeTab, EngineAnswers, EngineIsLate, ReceiveAct, FormStays, formVars
  <2>2. CASE Rebalance \/ PressInVain \/ LoseAnswer \/ \E a \in DOMAIN StatusOf : SetStatus(a)
    BY <1>2, <2>2 DEF Rebalance, PressInVain, LoseAnswer, SetStatus, RestStays
  <2> QED BY <1>5, <2>1, <2>2 DEF ControlStep
<1>6. CASE (\E c \in Others : ServeOther(c)) \/ UNCHANGED webVars
  BY <1>2, <1>6 DEF ServeOther, FormStays, formVars, webVars
<1> QED BY <1>1, <1>3, <1>4, <1>5, <1>6 DEF WebNext

LEMMA PageIsKept ==
  ASSUME FormInv, PageInv, [WebNext]_webVars
  PROVE  PageInv'
<1>1. CASE EngineEvaluates \/ OtherAsks \/ \E c \in Others : ServeOther(c)
  BY <1>1, PageStays DEF EngineEvaluates, OtherAsks, ServeOther, FormStays, formVars, pageVars
<1>2. CASE UNCHANGED webVars
  BY <1>2, PageStays DEF webVars, formVars, pageVars
<1> QED BY <1>1, <1>2, FormKeepsPage, RenderingKeepsPage, ControlsKeepPage, VisitBegins
        DEF WebNext

LEMMA StoreSteps ==
  ASSUME FormInv, PageInv, [WebNext]_webVars
  PROVE  \/ [StoreNext]_storeVars
         \/ \E b \in Bots : \E body : SoundBody(body) /\ CreateBot(b, body)
<1>1. CASE FormStep
  <2>1. CASE Create
    <3>1. PICK b \in Bots : CreateBot(b, body_sent)
      BY <2>1 DEF Create
    <3>2. SoundBody(body_sent)
      BY <2>1, BodyIsSound DEF Create, FormInv, FormChecked, busy, NoCall, body_sent
    <3> QED BY <3>1, <3>2
  <2>2. CASE ~Create
    <3>1. UNCHANGED storeVars
      BY <1>1, <2>2 DEF FormStep, FormNext, TypeField, TypeSymbol, TypePercent, AddHolding,
         RemoveHolding, SplitEvenly, Edit, Submit, CallProceeds, RefuseBody, RefuseName,
         RefuseUser, Refused, Lose, Receive, StoreStays
    <3> QED BY <3>1
  <2> QED BY <2>1, <2>2
<1>2. CASE PageStep \/ EngineEvaluates \/ UNCHANGED webVars
  BY <1>2 DEF PageStep, BeginLoad, ReadBot, ReadTargets, ReadRuns, Render,
       EngineEvaluates, StoreStays, webVars
<1>3. CASE ControlStep
  <2>1. CASE ServeTab
    BY <2>1, FormAssumption DEF ServeTab, StoreNext
  <2>2. ASSUME NEW action \in DOMAIN StatusOf, SetStatus(action)
        PROVE  StoreNext
    <3>1. at \in Bots
      BY <1>3, ControlsAreOnThePage DEF PageInv
    <3>2. ApiRequest(Tab)
      BY <2>2, <3>1 DEF SetStatus, ApiRequest
    <3> QED BY <3>2, FormAssumption DEF StoreNext
  <2>3. CASE EngineAnswers \/ EngineIsLate \/ ReceiveAct \/ Rebalance \/ PressInVain \/ LoseAnswer
    BY <2>3 DEF EngineAnswers, EngineIsLate, ReceiveAct, Rebalance, PressInVain, LoseAnswer,
                StoreStays
  <2> QED BY <1>3, <2>1, <2>2, <2>3 DEF ControlStep
<1>4. CASE OtherAsks \/ \E c \in Others : ServeOther(c)
  BY <1>4 DEF OtherAsks, ServeOther, Others, StoreNext
<1>5. CASE \E p \in {"new"} \cup Bots : Visit(p)
  BY <1>5 DEF Visit, StoreStays
<1> QED BY <1>1, <1>2, <1>3, <1>4, <1>5 DEF WebNext

-----------------------------------------------------------------------------
WebInv == IInv /\ NameInv /\ FormInv /\ PageInv

THEOREM WebInvariant == WebSpec => []WebInv
<1>1. WebInit => WebInv
  BY InitIsSound, NamesStart, FormStarts, PageStarts DEF WebInit, WebInv
<1>2. WebInv /\ [WebNext]_webVars => WebInv'
  <2> SUFFICES ASSUME WebInv, [WebNext]_webVars PROVE WebInv'
    OBVIOUS
  <2>1. FormInv' /\ PageInv'
    BY FormIsKept, PageIsKept DEF WebInv
  <2>2. IInv' /\ NameInv'
    <3>1. CASE [StoreNext]_storeVars
      BY <3>1, StepIsSound, StepKeepsNames DEF WebInv
    <3>2. CASE \E b \in Bots : \E body : SoundBody(body) /\ CreateBot(b, body)
      BY <3>2, BotIsCreated, CreatedIsNew DEF WebInv
    <3> QED BY <3>1, <3>2, StoreSteps DEF WebInv
  <2> QED BY <2>1, <2>2 DEF WebInv
<1> QED BY <1>1, <1>2, PTL DEF WebSpec

(* With the form and the page of a bot as clients, among any others, the    *)
(* store keeps its promises: what the form makes of what is typed is a bot. *)
THEOREM WebKeepsTheStore ==
  WebSpec => [](StoreTypeOK /\ NoUpdateLost /\ RunningBotCanFire /\ RetryIsAbsorbed)
<1>1. WebInv => StoreTypeOK /\ NoUpdateLost /\ RunningBotCanFire /\ RetryIsAbsorbed
  BY WhatIInvSays DEF WebInv, NameInv
<1> QED BY <1>1, WebInvariant, PTL

(* A page at rest that shows anything read before the last answer its       *)
(* controls had, success or failure, says that something went wrong,        *)
(* whatever was being rendered when the answer came.                        *)
THEOREM PageShowsWhatWasDone == WebSpec => []ReadYourWrites
<1>1. WebInv => ReadYourWrites
  BY DEF WebInv, PageInv, Excused, ReadYourWrites
<1> QED BY <1>1, WebInvariant, PTL

-----------------------------------------------------------------------------
(* What the form has checked, the server has not to complain of.            *)

(* A percentage of whole basis points is not changed by the detour through  *)
(* floating point: rounding takes back what the product is off.             *)
LEMMA Rounds ==
  ASSUME NEW n \in Int, NEW k \in Int, n - 1000 * k \in -1..1
  PROVE  Round(n) = k
BY Z3 DEF Round

LEMMA NoNumbers ==
  NaN \notin Int /\ Blank \notin Int /\ Percents \subseteq Int \cup {Blank}
BY TypedAssumption

LEMMA PercentIsExact ==
  ASSUME NEW p \in Nat, p <= HundredPercent, p % 10 = 0
  PROVE  /\ percentToBps(p) \in Nat /\ percentToBps(p) <= 10000
         /\ 10 * percentToBps(p) = p
<1>1. p # Blank
  BY NoNumbers
<1>2. PICK k \in Nat : p = 10 * k
  <2>1. p \div 10 \in Nat /\ p = 10 * (p \div 10)
    BY Z3
  <2> QED BY <2>1
<1>3. Product(p) = 1000 * k + Slip[p] /\ Slip[p] \in -1..1
  <2>1. Slip[p] \in -1..1
    BY PercentsHaveSlips
  <2> QED BY <1>1, <1>2, <2>1 DEF Product
<1>4. percentToBps(p) = k
  <2>1. Product(p) \in Int /\ Product(p) - 1000 * k \in -1..1
    BY <1>3
  <2> QED BY <2>1, Rounds DEF percentToBps
<1>5. k <= 10000
  BY <1>2, SMT DEF HundredPercent
<1> QED BY <1>2, <1>4, <1>5

(* The rows of a form that is on its way.                                   *)
LEMMA RowIsChecked ==
  ASSUME NEW f, FormChecked(f), NEW i \in DOMAIN f.rows
  PROVE  /\ f.rows[i].symbol \in ShownSymbols
         /\ percentToBps(f.rows[i].percent) \in Nat
         /\ percentToBps(f.rows[i].percent) <= 10000
         /\ 10 * percentToBps(f.rows[i].percent) = f.rows[i].percent
<1> DEFINE r == f.rows[i]
           p == r.percent
<1>1. r \in RowSet
  BY DEF FormChecked, FormShape
<1>2. r.symbol \in ShownSymbols /\ p \in Percents \cup Nat
  BY <1>1 DEF RowSet
<1>3. p # Blank /\ p >= 0 /\ (p - 0) % 10 = 0 /\ p <= HundredPercent
  <2>1. Filled(p, 0, 10) /\ AtMostAll(p)
    BY Zenon DEF FormChecked, InputsAreValid
  <2> QED BY <2>1, Zenon DEF Filled, AtMostAll
<1>4. p \in Nat /\ p % 10 = 0
  <2>1. p \in Int
    <3>1. \A x : x \in Percents \cup Nat /\ x # Blank => x \in Int
      BY NoNumbers
    <3> QED BY <1>2, <1>3, <3>1, Zenon
  <2> QED BY <1>3, <2>1
<1> HIDE DEF p
<1>5. /\ percentToBps(p) \in Nat /\ percentToBps(p) <= 10000
      /\ 10 * percentToBps(p) = p
  BY <1>3, <1>4, PercentIsExact
<1> QED BY <1>2, <1>5 DEF p

(* The rows as they are sent.                                               *)
LEMMA RowsAreSent ==
  ASSUME NEW f, FormChecked(f)
  PROVE  LET rows == body_of(f).targets.rows IN
         /\ body_of(f).targets.json = "list"
         /\ DOMAIN rows = DOMAIN f.rows /\ DOMAIN rows = 1..Len(f.rows)
         /\ Len(f.rows) \in 1..MaxHoldings /\ Len(rows) = Len(f.rows)
         /\ \A i \in DOMAIN rows :
              /\ symbol_of(rows[i]) = symbol_sent(f.rows[i])
              /\ ToNumber(rows[i].weight_bps) = Unit * percentToBps(f.rows[i].percent)
<1> DEFINE sent(i) == [symbol |-> Text(symbol_sent(f.rows[i])),
                       weight_bps |-> Number(Unit * percentToBps(f.rows[i].percent))]
           rows == [i \in DOMAIN f.rows |-> sent(i)]
<1>1. body_of(f).targets = List(rows)
  BY DEF body_of
<1>2. body_of(f).targets.json = "list" /\ body_of(f).targets.rows = rows
  BY <1>1 DEF List
<1>3. Len(f.rows) \in Nat /\ DOMAIN f.rows = 1..Len(f.rows)
  BY DEF FormChecked, FormShape
<1>4. Len(f.rows) \in 1..MaxHoldings
  <2>1. Len(f.rows) # 0 /\ Len(f.rows) <= MaxHoldings
    <3>1. f.rows # <<>> /\ f.rows \in Seq(RowSet) /\ Len(f.rows) <= MaxHoldings
      BY DEF FormChecked, FormShape, validateTargets
    <3> QED BY <3>1
  <2> QED BY <1>3, <2>1, HoldingsBound
<1>5. ASSUME NEW i \in DOMAIN f.rows
      PROVE  /\ symbol_of(sent(i)) = symbol_sent(f.rows[i])
             /\ ToNumber(sent(i).weight_bps) = Unit * percentToBps(f.rows[i].percent)
  <2>1. f.rows[i].symbol \in ShownSymbols
    BY RowIsChecked
  <2>2. Upper[Trim[symbol_sent(f.rows[i])]] = symbol_sent(f.rows[i])
    BY <2>1, TextAssumption DEF symbol_sent
  <2> QED BY <2>2 DEF symbol_of, Nothing, Text, Number, ToNumber, ScalarNumber
<1> HIDE DEF sent
<1>6. DOMAIN rows = DOMAIN f.rows /\ Len(rows) = Len(f.rows)
  BY <1>3
<1> QED BY <1>2, <1>3, <1>4, <1>5, <1>6

LEMMA TotalIsWhole ==
  ASSUME NEW f, FormChecked(f)
  PROVE  total_of(body_of(f).targets.rows) = 10000 * Unit
<1> DEFINE rows == body_of(f).targets.rows
           bps == [i \in DOMAIN f.rows |-> percentToBps(f.rows[i].percent)]
           finite == {i \in DOMAIN rows : ToNumber(rows[i].weight_bps) # NaN}
           weights == [i \in finite |-> ToNumber(rows[i].weight_bps)]
<1>1. /\ DOMAIN rows = DOMAIN f.rows /\ IsFiniteSet(DOMAIN f.rows)
      /\ \A i \in DOMAIN f.rows : bps[i] \in Int /\ ToNumber(rows[i].weight_bps) = Unit * bps[i]
  <2>1. IsFiniteSet(1..Len(f.rows))
    BY FS_Interval, RowsAreSent
  <2> QED BY <2>1, RowsAreSent, RowIsChecked
<1>2. SumFunction(bps) = 10000 /\ DOMAIN bps = DOMAIN f.rows
  BY DEF FormChecked, validateTargets, IsWhole, totalBps
<1>3. finite = DOMAIN f.rows
  <2>1. \A i \in DOMAIN f.rows : ToNumber(rows[i].weight_bps) \in Int
    <3>1. \A n \in Int : Unit * n \in Int
      BY DEF Unit
    <3> HIDE DEF rows, bps
    <3> QED BY <1>1, <3>1
  <2> HIDE DEF rows
  <2> QED BY <1>1, <2>1, NoNumbers
<1> HIDE DEF rows, bps, finite
<1>4. \A i \in DOMAIN f.rows : bps[i] \in Int /\ weights[i] = Unit * bps[i]
  BY <1>1, <1>3
<1>5. DOMAIN weights = DOMAIN f.rows
  BY <1>3
<1> HIDE DEF weights
<1> DEFINE D == DOMAIN f.rows
<1>6. SumFunctionOnSet(weights, D) = Unit * SumFunctionOnSet(bps, D)
  <2>1. Unit \in Int /\ IsFiniteSet(D) /\ D \in SUBSET D
    BY <1>1 DEF Unit
  <2>2. \A i \in D : bps[i] \in Int /\ weights[i] = Unit * bps[i]
    BY <1>4
  <2> HIDE DEF D
  <2> QED BY <2>1, <2>2, SumOfScaled
<1>7. SumFunction(weights) = Unit * 10000
  BY <1>2, <1>5, <1>6 DEF SumFunction
<1> QED BY <1>7 DEF total_of, weights_total, weights, finite, rows, Unit

LEMMA TargetsPass ==
  ASSUME NEW f, FormChecked(f)
  PROVE  target_issues(body_of(f).targets) \subseteq unseen_by_the_form(f, body_of(f))
<1> DEFINE v == body_of(f).targets
           rows == v.rows
           U == unseen_by_the_form(f, body_of(f))
<1>1. /\ v.json = "list" /\ DOMAIN rows = DOMAIN f.rows /\ DOMAIN f.rows = 1..Len(f.rows)
      /\ Len(rows) \in 1..MaxHoldings
      /\ \A i \in DOMAIN f.rows :
           /\ symbol_of(rows[i]) = symbol_sent(f.rows[i])
           /\ ToNumber(rows[i].weight_bps) = Unit * percentToBps(f.rows[i].percent)
  BY RowsAreSent
<1>2. ~basket_fails(rows)
  BY <1>1, TotalIsWhole DEF basket_fails
<1>3. \A i \in DOMAIN f.rows :
        symbol_sent(f.rows[i]) \notin SymbolTexts => <<"targets", i, "symbol">> \in U
  BY Zenon DEF unseen_by_the_form
<1>4. SymbolsDiffer(f.rows)
  BY DEF FormChecked, validateTargets
<1>6. ASSUME NEW issue \in target_issues(v)
      PROVE  \E i \in DOMAIN rows : issue \in row_issues(rows, i)
  <2>1. v.json = "list"
    BY <1>1
  <2> QED BY <1>2, <1>6, <2>1, Zenon DEF target_issues
<1> HIDE DEF v, rows, U
<1>5. ASSUME NEW i \in DOMAIN f.rows
      PROVE  row_issues(rows, i) \subseteq U
  <2>1. \A j \in 1..i - 1 : symbol_of(rows[j]) # symbol_of(rows[i])
    <3>1. \A j \in 1..i - 1 : j \in DOMAIN f.rows /\ j # i
      BY <1>1
    <3> QED BY <1>1, <1>4, <3>1 DEF SymbolsDiffer
  <2>2. IsWeight(ToNumber(rows[i].weight_bps))
    <3> DEFINE k == percentToBps(f.rows[i].percent)
    <3>1. k \in Nat /\ k <= 10000 /\ ToNumber(rows[i].weight_bps) = Unit * k
      BY <1>1, RowIsChecked
    <3> HIDE DEF k
    <3>2. (Unit * k) % Unit = 0 /\ 0 <= Unit * k /\ Unit * k <= 10000 * Unit /\ Unit * k \in Int
      BY <3>1, Z3 DEF Unit
    <3>3. \A m, n \in Int : 0 <= n /\ n <= m => n \in 0..m
      OBVIOUS
    <3>4. 10000 * Unit \in Int
      BY SMT DEF Unit
    <3>5. Unit * k \in 0..(10000 * Unit)
      BY <3>2, <3>3, <3>4
    <3> QED BY <3>1, <3>2, <3>5, NoNumbers DEF IsWeight
  <2>3. symbol_of(rows[i]) \notin SymbolTexts => <<"targets", i, "symbol">> \in U
    BY <1>1, <1>3
  <2> QED BY <2>1, <2>2, <2>3, Zenon DEF row_issues
<1>7. target_issues(v) \subseteq U
  BY <1>1, <1>5, <1>6, Zenon
<1> QED BY <1>7 DEF v, U

(* The numbers of the form: what is no less than it may be is too much, and *)
(* that the form does not see.                                              *)
LEMMA TooMuch ==
  ASSUME NEW n \in Int, NEW least \in Int, NEW most \in Int, n >= least,
         number_fails(Number(n), least, most)
  PROVE  n > most
BY DEF number_fails, Number

LEMMA NumberShown ==
  ASSUME NEW f, FormChecked(f), NEW x \in Numbers
  PROVE  f[x] \in Int \cup {Blank}
<1>1. x \in DOMAIN NewForm
  BY FormFields DEF Numbers
<1> QED BY <1>1 DEF FormChecked, FormShape, FieldShown

LEMMA WhatFails ==
  ASSUME NEW v
  PROVE  /\ field_fails("investment_amount", v) <=> number_fails(v, 10, Bound.investment_amount)
         /\ field_fails("min_order_value", v) <=> number_fails(v, 0, Bound.min_order_value)
         /\ field_fails("interval_minutes", v) <=>
              ~nullable(v) /\ (number_fails(v, Unit, Bound.interval_minutes) \/ v.n % Unit # 0)
         /\ field_fails("drift_threshold_bps", v) <=>
              ~nullable(v) /\ (number_fails(v, Unit, Bound.drift_threshold_bps) \/ v.n % Unit # 0)
         /\ field_fails("cash_buffer_bps", v) <=>
              number_fails(v, 0, 10000 * Unit) \/ v.n % Unit # 0
<1>1. /\ Bound.investment_amount = MaxAmount * Unit /\ Bound.min_order_value = 1000000 * Unit
      /\ Bound.interval_minutes = 525600 * Unit /\ Bound.drift_threshold_bps = 10000 * Unit
  BY SMT DEF Bound
<1>2. 0 * Unit = 0 /\ 1 * Unit = Unit
  BY DEF Unit
<1> QED BY <1>1, <1>2, SMT DEF field_fails, integer_fails

LEMMA AmountBound == MaxAmount \in Nat
BY ValidationAssumption

LEMMA Bounds ==
  /\ DOMAIN Bound = {"investment_amount", "min_order_value",
                     "interval_minutes", "drift_threshold_bps"}
  /\ \A x \in DOMAIN Bound : Bound[x] \in Int
BY AmountBound, SMT DEF Bound, Unit

LEMMA SeenTooBig ==
  ASSUME NEW f, NEW x \in DOMAIN Bound,
         body_of(f)[x].json = "number", body_of(f)[x].n > Bound[x]
  PROVE  <<x>> \in unseen_by_the_form(f, body_of(f))
BY Zenon DEF unseen_by_the_form

LEMMA AmountsPass ==
  ASSUME NEW f, FormChecked(f),
         NEW x \in {"investment_amount", "min_order_value"},
         field_fails(x, body_of(f)[x])
  PROVE  <<x>> \in unseen_by_the_form(f, body_of(f))
<1> DEFINE v == body_of(f)[x]
           n == Typing(f[x])
           least == IF x = "investment_amount" THEN 10 ELSE 0
           most == Bound[x]
<1>1. v = Number(n)
  BY DEF body_of
<1>2. n \in Int /\ n >= least
  <2>1. f[x] \in Int \cup {Blank}
    BY NumberShown DEF Numbers
  <2>2. CASE x = "investment_amount"
    <3>1. f[x] # Blank /\ f[x] >= Unit
      <4>1. Filled(f.investment_amount, Unit, 10)
        BY Zenon DEF FormChecked, InputsAreValid
      <4> QED BY <2>2, <4>1, Zenon DEF Filled
    <3> QED BY <2>1, <2>2, <3>1 DEF Typing, Unit
  <2>3. CASE x = "min_order_value"
    <3>1. f[x] # Blank => f[x] >= 0
      <4>1. Optional(f.min_order_value)
        BY Zenon DEF FormChecked, InputsAreValid
      <4> QED BY <2>3, <4>1, Zenon DEF Optional, Filled
    <3> QED BY <2>1, <2>3, <3>1 DEF Typing
  <2> QED BY <2>2, <2>3
<1>3. most \in Int
  BY Bounds
<1>4. number_fails(v, least, most)
  BY WhatFails
<1> HIDE DEF n, least, most, v
<1>5. n > most /\ v.json = "number" /\ v.n = n
  <2>1. least \in Int
    BY DEF least
  <2> QED BY <1>1, <1>2, <1>3, <1>4, <2>1, TooMuch DEF Number
<1> QED BY <1>5, Bounds, SeenTooBig DEF v, most

LEMMA IntervalPasses ==
  ASSUME NEW f, FormChecked(f), field_fails("interval_minutes", body_of(f).interval_minutes)
  PROVE  <<"interval_minutes">> \in unseen_by_the_form(f, body_of(f))
<1> DEFINE v == body_of(f).interval_minutes
           x == f.interval_minutes
           most == Bound.interval_minutes
<1>1. /\ ~nullable(v)
      /\ number_fails(v, Unit, most) \/ v.n % Unit # 0
  BY WhatFails
<1>2. v = IF f.trigger_type = "drift" THEN JsonNull ELSE Number(Typing(x))
  BY Zenon DEF body_of
<1>3. f.trigger_type # "drift"
  <2>1. nullable(JsonNull)
    BY DEF nullable, Nothing, JsonNull
  <2> HIDE DEF v
  <2> QED BY <1>1, <1>2, <2>1, Zenon
<1>4. Filled(x, Unit, Unit)
  BY <1>3, Zenon DEF FormChecked, InputsAreValid
<1>5. x \in Int /\ Typing(x) = x /\ x >= 1000 /\ (x - 1000) % 1000 = 0
  <2>1. f["interval_minutes"] \in Int \cup {Blank}
    BY NumberShown DEF Numbers
  <2> QED BY <1>4, <2>1 DEF Filled, Typing, Unit
<1> HIDE DEF v, x, most
<1>6. x % Unit = 0 /\ x >= Unit /\ Unit \in Int
  BY <1>5, SMT DEF Unit
<1>7. v = Number(x) /\ v.n = x /\ v.json = "number"
  BY <1>2, <1>3, <1>5 DEF Number
<1>8. most \in Int
  BY Bounds DEF most
<1>9. v.n > most
  BY <1>1, <1>5, <1>6, <1>7, <1>8, TooMuch
<1> QED BY <1>7, <1>9, Bounds, SeenTooBig DEF v, most

LEMMA ThresholdPasses ==
  ASSUME NEW f, FormChecked(f),
         field_fails("drift_threshold_bps", body_of(f).drift_threshold_bps)
  PROVE  <<"drift_threshold_bps">> \in unseen_by_the_form(f, body_of(f))
<1> DEFINE v == body_of(f).drift_threshold_bps
           x == f.drift_threshold
           n == Unit * Round(Product(x))
           most == Bound.drift_threshold_bps
<1>1. /\ ~nullable(v)
      /\ number_fails(v, Unit, most) \/ v.n % Unit # 0
  BY WhatFails
<1>2. v = IF f.trigger_type = "schedule" THEN JsonNull ELSE Number(n)
  BY Zenon DEF body_of
<1>3. f.trigger_type # "schedule"
  <2>1. nullable(JsonNull)
    BY DEF nullable, Nothing, JsonNull
  <2> HIDE DEF v
  <2> QED BY <1>1, <1>2, <2>1, Zenon
<1>4. Filled(x, 10, 10)
  BY <1>3, Zenon DEF FormChecked, InputsAreValid
<1>5. x \in Int /\ x # Blank /\ x >= 10 /\ (x - 10) % 10 = 0 /\ Slip[x] \in -1..1
  <2>1. f["drift_threshold"] \in Int \cup {Blank}
    BY NumberShown DEF Numbers
  <2>2. x \in DOMAIN Slip \cup {Blank}
    BY FormFields DEF FormChecked, FormShape, FieldShown
  <2> QED BY <1>4, <2>1, <2>2, SlipAssumption DEF Filled
<1>6. PICK k \in Nat \ {0} : Round(Product(x)) = k
  <2> HIDE DEF x
  <2>1. PICK k \in Nat \ {0} : x = 10 * k
    <3>1. x \div 10 \in Nat \ {0} /\ x = 10 * (x \div 10)
      BY <1>5, Z3
    <3> QED BY <3>1
  <2>2. Product(x) \in Int /\ Product(x) - 1000 * k \in -1..1
    BY <1>5, <2>1 DEF Product
  <2>3. Round(Product(x)) = k
    BY <2>1, <2>2, Rounds
  <2> QED BY <2>3
<1>7. v = Number(n) /\ n = Unit * k
  BY <1>2, <1>3, <1>6
<1> HIDE DEF v, x, n, most
<1>8. n \in Int /\ n >= Unit /\ n % Unit = 0 /\ Unit \in Int
  BY <1>7, Z3 DEF Unit
<1>9. most \in Int /\ v.n = n /\ v.json = "number"
  BY <1>7, Bounds DEF most, Number
<1>10. v.n > most
  BY <1>1, <1>7, <1>8, <1>9, TooMuch
<1> QED BY <1>9, <1>10, Bounds, SeenTooBig DEF v, most

LEMMA BufferPasses ==
  ASSUME NEW f, FormChecked(f)
  PROVE  ~field_fails("cash_buffer_bps", body_of(f).cash_buffer_bps)
<1> DEFINE v == body_of(f).cash_buffer_bps
           x == f.cash_buffer
           k == Round(Product(x))
<1>1. v = Number(Unit * k)
  BY Zenon DEF body_of
<1>2. Optional(x) /\ AtMostAll(x)
  BY Zenon DEF FormChecked, InputsAreValid
<1>3. x \in Int \cup {Blank}
  <2>1. f["cash_buffer"] \in Int \cup {Blank}
    BY NumberShown DEF Numbers
  <2> QED BY <2>1
<1>4. k \in Nat /\ k <= 10000
  <2> HIDE DEF x
  <2>1. CASE x = Blank
    BY <2>1, Z3 DEF Product, Round
  <2>2. CASE x # Blank
    <3>1. x \in Nat /\ x % 10 = 0 /\ x <= HundredPercent
      BY <1>2, <1>3, <2>2 DEF Optional, AtMostAll, Filled
    <3> QED BY <3>1, PercentIsExact DEF percentToBps
  <2> QED BY <2>1, <2>2
<1> HIDE DEF k, v
<1>5. (Unit * k) % Unit = 0 /\ 0 <= Unit * k /\ Unit * k <= 10000 * Unit /\ Unit * k \in Int
  BY <1>4, Z3 DEF Unit
<1>6. 10000 * Unit \in Int
  BY SMT DEF Unit
<1>7. \A m, n \in Int : 0 <= n /\ n <= m => n \in 0..m
  OBVIOUS
<1>8. ~number_fails(v, 0, 10000 * Unit) /\ v.n % Unit = 0
  BY <1>1, <1>5, <1>6, <1>7 DEF number_fails, Number
<1> QED BY <1>8, WhatFails DEF v

LEMMA NamePasses ==
  ASSUME NEW f, FormChecked(f), field_fails("name", body_of(f).name)
  PROVE  <<"name">> \in unseen_by_the_form(f, body_of(f))
<1> DEFINE text == f.name
<1>1. text # "" /\ NameShown(text)
  <2>1. text # ""
    BY Zenon DEF FormChecked, InputsAreValid
  <2>2. FieldShown("name", f["name"])
    BY FormFields DEF FormChecked, FormShape
  <2> QED BY <2>1, <2>2 DEF FieldShown
<1>2. body_of(f).name = Text(Trim[text])
  BY Zenon DEF body_of
<1>3. string_fails(Text(Trim[text]), 1, 60)
  BY <1>2, SMT DEF field_fails
<1>4. Length[Trim[Trim[text]]] \notin 1..60
  BY <1>3 DEF string_fails, Text
<1>5. Trim[f.name] = ""
  BY <1>1, <1>4 DEF NameShown
<1> QED BY <1>5, Zenon DEF unseen_by_the_form

(* All fields of the body, one by one.                                      *)
LEMMA FormPasses ==
  ASSUME NEW f, FormChecked(f)
  PROVE  /\ cannot_fire(body_of(f)) = {}
         /\ parseCreateBot_issues(body_of(f)) \subseteq unseen_by_the_form(f, body_of(f))
<1> DEFINE body == body_of(f)
           U == unseen_by_the_form(f, body)
<1>1. f.trigger_type \in TriggerTypes
  <2>1. FieldShown("trigger_type", f["trigger_type"])
    BY FormFields DEF FormChecked, FormShape
  <2> QED BY <2>1 DEF FieldShown
<1>2. /\ body.trigger_type = Text(f.trigger_type)
      /\ body.base_currency = Absent
      /\ body.allow_fractional = Boolean(f.allow_fractional)
      /\ f.trigger_type # "drift" => body.interval_minutes = Number(Typing(f.interval_minutes))
      /\ f.trigger_type # "schedule" =>
           body.drift_threshold_bps = Number(Unit * Round(Product(f.drift_threshold)))
  BY Zenon DEF body_of
<1> HIDE DEF body
<1>3. cannot_fire(body) = {}
  <2>1. oneOf(body.trigger_type, TriggerTypes, "schedule") = f.trigger_type
    BY <1>1, <1>2 DEF oneOf, oneOf_fails, Text
  <2>2. \A n : ~nullable(Number(n))
    BY DEF nullable, Nothing, Number, Text
  <2> QED BY <1>2, <2>1, <2>2, Zenon DEF cannot_fire
<1>4. ASSUME NEW x \in Fields, ~defaulted(x, body[x])
      PROVE  issues_of(x, body[x]) \subseteq U
  <2>1. CASE x = "targets"
    BY <2>1, TargetsPass DEF issues_of, body
  <2>2. ASSUME x # "targets", field_fails(x, body[x]) PROVE <<x>> \in U
    <3>1. CASE x \in {"investment_amount", "min_order_value"}
      BY <2>2, <3>1, AmountsPass DEF body
    <3>2. CASE x = "interval_minutes"
      BY <2>2, <3>2, IntervalPasses DEF body
    <3>3. CASE x = "drift_threshold_bps"
      BY <2>2, <3>3, ThresholdPasses DEF body
    <3>4. CASE x = "cash_buffer_bps"
      BY <2>2, <3>4, BufferPasses DEF body
    <3>5. CASE x = "name"
      BY <2>2, <3>5, NamePasses DEF body
    <3>6. CASE x = "trigger_type"
      <4>1. oneOf_fails(body.trigger_type, TriggerTypes)
        BY <2>2, <3>6, SMT DEF field_fails
      <4> QED BY <1>1, <1>2, <4>1 DEF oneOf_fails, Text
    <3>7. CASE x = "allow_fractional"
      <4>1. boolean_fails(body.allow_fractional)
        BY <2>2, <3>7, SMT DEF field_fails
      <4> QED BY <1>2, <4>1 DEF boolean_fails, Boolean
    <3>8. CASE x = "base_currency"
      <4>1. defaulted(x, body[x])
        BY <1>2, <3>8 DEF defaulted, Default, has
      <4> QED BY <1>4, <4>1
    <3> QED BY <2>2, <3>1, <3>2, <3>3, <3>4, <3>5, <3>6, <3>7, <3>8 DEF Fields, CoreFields
  <2> QED BY <2>1, <2>2 DEF issues_of
<1>5. parseCreateBot_issues(body) \subseteq U
  BY <1>3, <1>4, Zenon DEF parseCreateBot_issues
<1> QED BY <1>3, <1>5 DEF body

(* Whatever is typed and whatever floating point makes of it: of a form     *)
(* that passed the checks of the page, the API finds fault only with what   *)
(* the page does not look at.                                               *)
THEOREM FormAndServerAgree == WebSpec => []FormAgreesWithServer
<1>1. WebInv => FormAgreesWithServer
  BY FormPasses DEF WebInv, FormInv, FormAgreesWithServer, body_sent
<1> QED BY <1>1, WebInvariant, PTL

-----------------------------------------------------------------------------
(* What "Split evenly" makes of up to 50 rows is 100 %.                     *)
LEMMA SplitsAreWhole == SplitIsWhole
<1> SUFFICES ASSUME NEW n \in 1..50
             PROVE  IsWhole(split_evenly([i \in 1..n |-> NewRow]))
  BY Zenon DEF SplitIsWhole
<1> DEFINE rows == [i \in 1..n |-> NewRow]
           each == 10000 \div n
           rest == 10000 - each * n
           split == split_evenly(rows)
           bps == [i \in DOMAIN split |-> percentToBps(split[i].percent)]
           D == 1..n
           F == 2..n
<1>1. n \in Nat \ {0} /\ Len(rows) = n /\ DOMAIN rows = D
  <2>1. rows \in Seq({NewRow})
    OBVIOUS
  <2> QED BY <2>1
<1>2. each \in Nat /\ rest \in Nat /\ each + rest <= 10000 /\ each <= 10000
      /\ (each + rest) + each * (n - 1) = 10000
  BY <1>1, Z3
<1>3. \A k \in Nat : k <= 10000 => percentToBps(10 * k) = k
  <2> SUFFICES ASSUME NEW k \in Nat, k <= 10000 PROVE percentToBps(10 * k) = k
    OBVIOUS
  <2>1. 10 * k \in Nat /\ (10 * k) % 10 = 0
    BY Z3
  <2>2. 10 * k <= HundredPercent
    BY SMT DEF HundredPercent
  <2>3. percentToBps(10 * k) \in Nat /\ 10 * percentToBps(10 * k) = 10 * k
    BY <2>1, <2>2, PercentIsExact
  <2> QED BY <2>3
<1>4. DOMAIN bps = D /\ bps[1] = each + rest /\ \A i \in F : bps[i] = each
  <2>1. split = [i \in D |-> [NewRow EXCEPT !.percent =
                               10 * (IF i = 1 THEN each + rest ELSE each)]]
    BY <1>1 DEF split_evenly
  <2>2. DOMAIN split = D /\ 1 \in D /\ F \subseteq D /\ 1 \notin F
    BY <1>1, <2>1
  <2>3. \A i \in D : split[i].percent = 10 * (IF i = 1 THEN each + rest ELSE each)
    <3> SUFFICES ASSUME NEW i \in D
                 PROVE  split[i].percent = 10 * (IF i = 1 THEN each + rest ELSE each)
      OBVIOUS
    <3> DEFINE p(j) == 10 * (IF j = 1 THEN each + rest ELSE each)
    <3>1. split = [j \in D |-> [NewRow EXCEPT !.percent = p(j)]]
      BY <2>1
    <3> HIDE DEF p, split, D
    <3>2. split[i] = [NewRow EXCEPT !.percent = p(i)]
      BY <3>1, Zenon
    <3>3. split[i].percent = p(i)
      BY <3>2 DEF NewRow
    <3> QED BY <3>3 DEF p
  <2> HIDE DEF split, each, rest, D, F
  <2>4. bps[1] = each + rest
    BY <1>2, <1>3, <2>2, <2>3
  <2>5. ASSUME NEW i \in F PROVE bps[i] = each
    <3>1. i \in D /\ i # 1
      BY <2>2
    <3> QED BY <1>2, <1>3, <2>2, <2>3, <3>1
  <2> QED BY <2>2, <2>4, <2>5
<1>5. /\ IsFiniteSet(D) /\ IsFiniteSet(F) /\ Cardinality(F) = n - 1
      /\ 1 \in D /\ F = D \ {1} /\ D \in SUBSET D /\ F \in SUBSET F
  <2>1. 1 \in D /\ F = D \ {1}
    BY <1>1
  <2>2. IsFiniteSet(1..n) /\ Cardinality(1..n) = n
    BY <1>1, FS_Interval
  <2> HIDE DEF F
  <2>3. IsFiniteSet(F) /\ Cardinality(F) = n - 1
    BY <1>1, <2>1, <2>2, SmallerPart
  <2> QED BY <2>1, <2>2, <2>3
<1> HIDE DEF D, F, bps, each, rest
<1>6. SumFunctionOnSet(bps, D) = bps[1] + SumFunctionOnSet(bps, F)
  <2>1. \A i \in D : bps[i] \in Int
    BY <1>2, <1>4, <1>5
  <2> QED BY <1>5, <2>1, SumTakesOut
<1>7. SumFunctionOnSet(bps, F) = each * Cardinality(F)
  BY <1>2, <1>4, <1>5, SumOfSame
<1>8. SumFunctionOnSet(bps, D) = 10000
  BY <1>2, <1>4, <1>5, <1>6, <1>7
<1> QED BY <1>4, <1>8 DEF IsWhole, totalBps, SumFunction, bps

(* The basket that is read from the body of a form.                         *)
LEMMA BasketIsTheForms ==
  ASSUME NEW f, FormChecked(f)
  PROVE  stores(f.rows, basket(body_of(f).targets))
<1> DEFINE v == body_of(f).targets
           rows == v.rows
           n == Len(f.rows)
           T == DOMAIN basket(v)
           symbol == [i \in 1..n |-> symbol_sent(f.rows[i])]
<1>1. /\ DOMAIN rows = 1..n /\ DOMAIN f.rows = 1..n /\ n \in Nat
      /\ \A i \in 1..n :
           /\ symbol_of(rows[i]) = symbol_sent(f.rows[i])
           /\ ToNumber(rows[i].weight_bps) = Unit * percentToBps(f.rows[i].percent)
  BY RowsAreSent
<1>2. \A i, j \in 1..n : symbol[i] = symbol[j] => i = j
  BY <1>1 DEF FormChecked, validateTargets, SymbolsDiffer
<1>3. T = {symbol_of(rows[i]) : i \in DOMAIN rows}
  BY DEF basket
<1> HIDE DEF rows
<1>4. T = {symbol[i] : i \in 1..n}
  BY <1>1, <1>3
<1>5. Cardinality(T) = n
  <2>1. symbol \in [1..n -> T] /\ \A s \in T : \E i \in 1..n : symbol[i] = s
    BY <1>4
  <2> HIDE DEF T, symbol
  <2>2. symbol \in Surjection(1..n, T) /\ symbol \in Injection(1..n, T)
    BY <1>2, <2>1 DEF Surjection, Injection, IsInjective
  <2>3. IsFiniteSet(1..n) /\ Cardinality(1..n) = n
    BY <1>1, FS_Interval
  <2> QED BY <2>2, <2>3, FS_Surjection
<1>6. ASSUME NEW i \in 1..n
      PROVE  10 * basket(v)[symbol[i]] = f.rows[i].percent
  <2> DEFINE k == percentToBps(f.rows[i].percent)
             j == CHOOSE m \in DOMAIN rows : symbol_of(rows[m]) = symbol[i]
  <2>1. j = i
    <3>1. i \in DOMAIN rows /\ symbol_of(rows[i]) = symbol[i]
      BY <1>1
    <3>2. j \in DOMAIN rows /\ symbol_of(rows[j]) = symbol[i]
      BY <3>1
    <3> HIDE DEF j
    <3> QED BY <1>1, <1>2, <3>1, <3>2
  <2>2. basket(v)[symbol[i]] = ToNumber(rows[j].weight_bps) \div Unit
    <3>1. symbol[i] \in {symbol_of(rows[m]) : m \in DOMAIN rows}
      BY <1>1
    <3> HIDE DEF symbol
    <3> QED BY <3>1, Zenon DEF basket, rows
  <2>3. ToNumber(rows[j].weight_bps) = Unit * k /\ k \in Nat /\ 10 * k = f.rows[i].percent
    <3> HIDE DEF j
    <3> QED BY <1>1, <2>1, RowIsChecked
  <2> HIDE DEF k, j, symbol
  <2>4. (Unit * k) \div Unit = k
    BY <2>3, Z3 DEF Unit
  <2> QED BY <2>2, <2>3, <2>4
<1> QED BY <1>1, <1>5, <1>6 DEF stores

(* The basket a bot is created with is the one on the screen at the moment  *)
(* the button was pressed, to the basis point, whatever floating point did  *)
(* to the percentages, and whatever was typed since.                        *)
THEOREM BasketsAreExact == WebSpec => BasketIsExact
<1> DEFINE Exact ==
      /\ SplitIsWhole
      /\ call.pc = "sent" /\ call'.pc = "answered" /\ call'.answer.status = 201 =>
           stores(call.form.rows, bots'[call'.answer.data].targets)
<1>1. WebInv /\ [WebNext]_webVars => [Exact]_formVars
  <2> SUFFICES ASSUME WebInv, [WebNext]_webVars,
                      call.pc = "sent", call'.pc = "answered", call'.answer.status = 201
               PROVE  stores(call.form.rows, bots'[call'.answer.data].targets)
    BY SplitsAreWhole
  <2>1. call' # call
    OBVIOUS
  <2>2. FormStep
    BY <2>1 DEF WebNext, webVars, formVars, PageStep, BeginLoad, ReadBot, ReadTargets,
         ReadRuns, Render, ControlStep, SetStatus, Rebalance, PressInVain, ServeTab,
         EngineAnswers, EngineIsLate, LoseAnswer, ReceiveAct, RestStays, FormStays,
         EngineEvaluates, OtherAsks, ServeOther, Visit
  <2>3. Create
    <3>1. ~Lose /\ ~RefuseBody /\ ~RefuseName /\ ~RefuseUser
      <4>1. \A code \in {"invalid_request", "conflict", "unauthorized"} : ~Refused(code)
        BY FailuresFail DEF Refused, Answer_with
      <4>2. ~Lose
        BY FailuresFail DEF Lose, Answer_with
      <4> QED BY <4>1, <4>2, FailuresFail DEF RefuseBody, RefuseName, RefuseUser
    <3> QED BY <2>1, <2>2, <3>1 DEF FormStep, FormNext, TypeField, TypeSymbol, TypePercent,
         AddHolding, RemoveHolding, SplitEvenly, Edit, Submit, CallProceeds, Receive
  <2>4. PICK b \in Bots : CreateBot(b, body_sent) /\ Answer_with(ok(b, 201))
    BY <2>3 DEF Create
  <2>5. call'.answer.data = b
    BY <2>4 DEF Answer_with, ok
  <2>6. bots'[b].targets = basket(body_sent.targets)
    <3>1. bots'[b].targets = parseCreateBot(body_sent).targets
      BY <2>4 DEF CreateBot, WebInv, IInv, Fields, CoreFields
    <3>2. "targets" \in Fields /\ ~defaulted("targets", body_sent.targets)
      BY DEF Fields, CoreFields, defaulted, Default
    <3> QED BY <3>1, <3>2, SMT DEF parseCreateBot, value_of
  <2>7. FormChecked(call.form)
    BY DEF WebInv, FormInv, busy, NoCall
  <2> QED BY <2>5, <2>6, <2>7, BasketIsTheForms DEF body_sent
<1> QED BY <1>1, WebInvariant, PTL DEF WebSpec, BasketIsExact
=============================================================================
