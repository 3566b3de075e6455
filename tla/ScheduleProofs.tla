--------------------------- MODULE ScheduleProofs ---------------------------
(***************************************************************************)
(* A bot on a schedule is not executed twice within its interval, and the  *)
(* plan of each execution stands until it is carried out, however many     *)
(* engines there are, wherever one of them dies and whatever the user      *)
(* edits meanwhile, when no run is forced by hand and the session of the   *)
(* lock has not died under a living engine.                                *)
(***************************************************************************)
EXTENDS EvaluationProofs

(* Runs a schedule has to keep its distance to: executed, written back, and *)
(* followed on the same schedule so far.                                    *)
Executed(r) ==
  /\ runs[r].planned > 0 /\ ~runs[r].forced
  /\ runs[r].status \notin {"skipped", Gone}
Counts(r) ==
  /\ Executed(r) /\ runs[r].touched /\ OnOneSchedule(r, Len(runs))
Until(r) == runs[r].at + runs[r].interval

Again(r, q) ==
  /\ r < q /\ runs[r].bot = runs[q].bot /\ runs[r].epoch = runs[q].epoch
  /\ Executed(r) /\ runs[r].touched /\ Executed(q) /\ OnOneSchedule(r, q)
Spaced(r, q) == Again(r, q) => runs[q].at >= Until(r)

(* The inductive invariant.  Whoever is not idle holds the lock, so one     *)
(* engine at a time goes through the bots it has listed.                    *)
OneAtATime ==
  \A p \in Processes : /\ proc[p].pc # "idle" => lock = p
                       /\ proc[p].pc = "idle" => proc[p].queue = <<>>

(* What it has listed is not older than the runs of the bot.                *)
Knows(q) ==
  /\ q.trigger_type # "drift" => q.interval > 0
  /\ q.epoch <= started[q.bot]
  /\ \A r \in DOMAIN runs : runs[r].bot = q.bot =>
       /\ runs[r].epoch <= q.epoch
       /\ Counts(r) /\ runs[r].epoch = q.epoch => q.next_run_at >= Until(r)

Listed(queue) ==
  /\ \A i, j \in DOMAIN queue : i # j => queue[i].bot # queue[j].bot
  /\ \A i \in DOMAIN queue : Knows(queue[i])

(* An evaluation is later than all the runs, and its own run is the last.   *)
InTime(s) ==
  /\ s.now <= clock /\ \A r \in DOMAIN runs : runs[r].at <= s.now
  /\ s.pc \in {"positions", "account", "fail"} => s.plan = <<>>
  /\ s.pc = "create" /\ s.queue[1].trigger_type = "schedule" =>
       s.now >= s.queue[1].next_run_at
OnItsRun(s) ==
  InRun(s) =>
    /\ s.run = Len(runs) /\ runs[s.run].at = s.now
    /\ runs[s.run].epoch = s.queue[1].epoch /\ runs[s.run].touched = FALSE
    /\ runs[s.run].trigger_type = s.queue[1].trigger_type
    /\ runs[s.run].interval = s.queue[1].interval
    /\ s.pc \in {"finish skipped", "touch skipped"} =>
         runs[s.run].status \in {"skipped", Gone}

Sound(s) == Listed(s.queue) /\ (Within(s) => InTime(s) /\ OnItsRun(s))

(* The clock of a bot is ahead of its runs, unless it was started anew.     *)
RunsInTime ==
  \A r \in DOMAIN runs : runs[r].epoch <= started[runs[r].bot] /\ runs[r].at <= clock
ClockSet ==
  \A r \in DOMAIN runs : Counts(r) /\ runs[r].epoch = started[runs[r].bot] =>
     bots[runs[r].bot].next_run_at >= Until(r)
AllSpaced == \A r, q \in DOMAIN runs : Spaced(r, q)

SchedInv ==
  /\ OneAtATime /\ RunsInTime /\ ClockSet /\ AllSpaced
  /\ \A p \in Processes : Sound(proc[p])

-----------------------------------------------------------------------------
(* What the invariant says in the words of ScheduleHonoured.                *)
LEMMA SpacedMeansHonoured == TablesInv /\ SchedInv => ScheduleHonoured
<1>. SUFFICES ASSUME TablesInv, SchedInv, NEW r \in DOMAIN runs, NEW q \in DOMAIN runs,
       r < q, runs[r].bot = runs[q].bot, runs[r].epoch = runs[q].epoch,
       runs[r].touched, runs[r].planned > 0, runs[q].planned > 0,
       {runs[r].status, runs[q].status} \subseteq {"running", "succeeded", "failed"},
       ~runs[r].forced, ~runs[q].forced, OnOneSchedule(r, q)
     PROVE runs[q].at >= Until(r)
  BY DEF ScheduleHonoured, Until
<1>1. Executed(r) /\ Executed(q)
  BY DEF Executed, Gone
<1>. QED BY <1>1 DEF SchedInv, AllSpaced, Spaced, Again

(* A run that stays what the schedule takes it for.                         *)
SameRow(r) ==
  /\ r \in DOMAIN runs /\ r \in DOMAIN runs'
  /\ runs'[r].bot = runs[r].bot /\ runs'[r].epoch = runs[r].epoch
  /\ runs'[r].at = runs[r].at /\ runs'[r].interval = runs[r].interval
  /\ runs'[r].trigger_type = runs[r].trigger_type
  /\ Executed(r)' => Executed(r)
SameRun(r) == SameRow(r) /\ (Counts(r)' => Counts(r))

(* A row that is not written to.                                            *)
LEMMA SameIsSame ==
  ASSUME NEW r \in DOMAIN runs, r \in DOMAIN runs', runs'[r] = runs[r]
  PROVE  SameRow(r)
BY DEF SameRow, Executed

(* What happens later does not change which runs one schedule joins.        *)
LEMMA OneSchedule ==
  ASSUME Types, \A k \in DOMAIN runs : SameRow(k), NEW r \in DOMAIN runs, NEW q \in DOMAIN runs
  PROVE  OnOneSchedule(r, q)' <=> OnOneSchedule(r, q)
<1>1. r \in DOMAIN runs /\ \A k \in r..q : k \in DOMAIN runs
  BY DEF Types
<1>. QED BY <1>1 DEF OnOneSchedule, SameRow

(* A run does not begin to count by what others do.                         *)
LEMMA CountsStill ==
  ASSUME Types, \A k \in DOMAIN runs : SameRow(k), Len(runs') \in Nat, Len(runs) <= Len(runs'),
         NEW r \in DOMAIN runs, runs'[r].touched = runs[r].touched
  PROVE  SameRun(r)
<1>1. SUFFICES ASSUME Counts(r)' PROVE Counts(r)
  BY DEF SameRun
<1>2. Len(runs) \in Nat /\ DOMAIN runs = 1..Len(runs) /\ Len(runs) \in DOMAIN runs
  BY DEF Types
<1>3. PICK n \in Nat : n = Len(runs')
  OBVIOUS
<1>4. \A k \in r..Len(runs) : k \in r..n
  BY <1>2, <1>3
<1>5. OnOneSchedule(r, n)'
  BY <1>1, <1>3 DEF Counts
<1>6. OnOneSchedule(r, Len(runs))
  <2>1. PICK m : m = Len(runs)
    OBVIOUS
  <2>2. OnOneSchedule(r, m)'
    BY <1>4, <1>5, <2>1 DEF OnOneSchedule
  <2>. QED BY <1>2, <2>1, <2>2, OneSchedule
<1>7. Executed(r) /\ runs[r].touched
  BY <1>1 DEF Counts, SameRow
<1>. QED BY <1>6, <1>7 DEF Counts

(* Such a run is to be kept clear of as long as before.                     *)
LEMMA SameUntil ==
  ASSUME NEW r, SameRun(r)
  PROVE  Until(r)' = Until(r)
BY DEF SameRun, SameRow, Until

(* What is known of a listed bot stays known.                               *)
LEMMA KnowsOn ==
  ASSUME Types, NEW q \in Specs, Knows(q), started' \in [Bots -> Nat],
         \A b \in Bots : started[b] <= started'[b],
         \A r \in DOMAIN runs' : runs'[r].bot = q.bot =>
            SameRun(r) \/ (runs'[r].epoch <= q.epoch /\ ~Counts(r)')
  PROVE  Knows(q)'
<1>1. q.bot \in Bots /\ q.epoch \in Nat /\ started[q.bot] \in Nat /\ started'[q.bot] \in Nat
  BY DEF Specs, Types
<1>2. q.epoch <= started'[q.bot]
  BY <1>1 DEF Knows
<1>3. ASSUME NEW r \in DOMAIN runs', runs'[r].bot = q.bot
      PROVE  /\ runs'[r].epoch <= q.epoch
             /\ Counts(r)' /\ runs'[r].epoch = q.epoch => q.next_run_at >= Until(r)'
  <2>1. CASE SameRun(r)
    <3>1. Until(r)' = Until(r)
      BY <2>1, SameUntil
    <3>. QED BY <1>3, <2>1, <3>1 DEF SameRun, SameRow, Knows
  <2>2. CASE runs'[r].epoch <= q.epoch /\ ~Counts(r)'
    BY <2>2
  <2>. QED BY <1>3, <2>1, <2>2
<1>4. q.trigger_type # "drift" => q.interval > 0
  BY DEF Knows
<1>. QED BY <1>2, <1>3, <1>4 DEF Knows

(* A list stays a list when what is known of each bot stays known.          *)
LEMMA ListedOn ==
  ASSUME Types, NEW queue \in Seq(Specs), Listed(queue), started' \in [Bots -> Nat],
         \A b \in Bots : started[b] <= started'[b],
         \A i \in DOMAIN queue : \A r \in DOMAIN runs' : runs'[r].bot = queue[i].bot =>
            SameRun(r) \/ (runs'[r].epoch <= queue[i].epoch /\ ~Counts(r)')
  PROVE  Listed(queue)'
<1>1. \A i \in DOMAIN queue : queue[i] \in Specs
  OBVIOUS
<1>2. \A i \in DOMAIN queue : Knows(queue[i])'
  BY <1>1, KnowsOn DEF Listed
<1>. QED BY <1>2 DEF Listed

(* The rest of a list, and the bot at its head is not in it.                *)
LEMMA ListedTail ==
  ASSUME NEW queue \in Seq(Specs), queue # <<>>, Listed(queue)
  PROVE  /\ Listed(Tail(queue))
         /\ \A i \in DOMAIN Tail(queue) : Tail(queue)[i].bot # queue[1].bot
<1>1. /\ DOMAIN queue = 1..Len(queue) /\ Len(queue) \in Nat \ {0}
      /\ \A i \in DOMAIN Tail(queue) :
           i \in Nat \ {0} /\ i + 1 \in DOMAIN queue /\ Tail(queue)[i] = queue[i + 1]
  OBVIOUS
<1>2. 1 \in DOMAIN queue /\ \A i \in DOMAIN Tail(queue) : i + 1 # 1
  BY <1>1
<1>. QED BY <1>1, <1>2 DEF Listed

(* Who is not idle is alone.                                                *)
LEMMA Alone ==
  ASSUME OneAtATime, NEW p \in Processes, proc[p].pc # "idle" \/ lock = None
  PROVE  \A q \in Processes : q # p => proc[q].pc = "idle" /\ proc[q].queue = <<>>
BY EvaluationAssumption DEF OneAtATime

(* An idle engine has listed nothing.                                       *)
LEMMA IdleIsSound ==
  ASSUME NEW s, s.pc = "idle", s.queue = <<>>
  PROVE  Sound(s)'
BY DEF Sound, Listed, Within, Deciding, Submitting, Closing

(* The step of one process, as the schedule sees it.                        *)
LEMMA SchedMoves ==
  ASSUME TablesInv, SchedInv, NEW p \in Processes, OnlyMoves(p),
         proc[p].pc # "idle" \/ lock = None,
         IF proc'[p].pc = "idle" THEN lock' \in {lock, None} ELSE lock' = p,
         proc'[p].pc = "idle" => proc'[p].queue = <<>>,
         RunsInTime', ClockSet', AllSpaced', Sound(proc[p])'
  PROVE  SchedInv'
<1>1. \A q \in Processes : q # p =>
        proc'[q] = proc[q] /\ proc[q].pc = "idle" /\ proc[q].queue = <<>>
  BY Alone DEF SchedInv, OnlyMoves
<1>2. OneAtATime'
  BY <1>1 DEF OneAtATime
<1>3. ASSUME NEW q \in Processes PROVE Sound(proc[q])'
  <2>1. CASE q = p
    BY <2>1
  <2>2. CASE q # p
    <3>1. proc'[q].pc = "idle" /\ proc'[q].queue = <<>>
      BY <1>1, <2>2
    <3>2. PICK s : s = proc'[q]
      OBVIOUS
    <3>3. Sound(s)'
      BY <3>1, <3>2, IdleIsSound
    <3>. QED BY <3>2, <3>3
  <2>. QED BY <2>1, <2>2
<1>. QED BY <1>2, <1>3 DEF SchedInv

-----------------------------------------------------------------------------
(* Steps that leave the tables and the clock alone.                         *)
Still == UNCHANGED <<runs, bots, started, clock>>

(* The tables and the clock as they were, the schedule is kept.             *)
LEMMA StillSpaced ==
  ASSUME SchedInv, Still
  PROVE  RunsInTime' /\ ClockSet' /\ AllSpaced'
<1>1. \A r : (Counts(r)' <=> Counts(r)) /\ Until(r)' = Until(r)
  BY DEF Still, Counts, Executed, Until, OnOneSchedule
<1>2. \A r, q : Spaced(r, q)' <=> Spaced(r, q)
  BY <1>1 DEF Still, Spaced, Again, Executed, OnOneSchedule
<1>3. RunsInTime' /\ ClockSet'
  BY <1>1 DEF Still, SchedInv, RunsInTime, ClockSet
<1>. QED BY <1>2, <1>3 DEF Still, SchedInv, AllSpaced

(* The tables and the clock as they were, what is known is known still.     *)
LEMMA StillKnown ==
  ASSUME Still
  PROVE  /\ \A q : Knows(q) => Knows(q)'
         /\ \A queue : Listed(queue) => Listed(queue)'
         /\ \A s : InTime(s) => InTime(s)'
         /\ \A s : OnItsRun(s) => OnItsRun(s)'
<1>1. \A r : (Counts(r)' <=> Counts(r)) /\ Until(r)' = Until(r)
  BY DEF Still, Counts, Executed, Until, OnOneSchedule
<1>2. \A q : Knows(q) => Knows(q)'
  BY <1>1 DEF Still, Knows
<1>. QED BY <1>2 DEF Still, Listed, InTime, OnItsRun

(* An engine with nothing listed.                                           *)
LEMMA NothingListed ==
  ASSUME NEW s, Between(s), s.queue = <<>>
  PROVE  Sound(s)'
BY DEF Sound, Listed, Between, Brief, Within, Deciding, Submitting, Closing

(* Between evaluations only the list has to be sound.                       *)
LEMMA BetweenIsSound ==
  ASSUME NEW s, Between(s), Listed(s.queue), Still
  PROVE  Sound(s)'
<1>1. Listed(s.queue)'
  BY StillKnown
<1>. QED BY <1>1 DEF Sound, Between, Brief, Within, Deciding, Submitting, Closing

(* What is read of a bot is not older than its runs.                        *)
LEMMA ReadKnows ==
  ASSUME Types, SchedInv, NEW b \in Bots
  PROVE  Knows(spec_of(b)) /\ spec_of(b).bot = b
<1>1. started[b] \in Nat /\ bots[b].clockwork \in Clockwork
  BY DEF Types, BotRows
<1>2. spec_of(b).trigger_type # "drift" => spec_of(b).interval > 0
  BY <1>1, EvaluationAssumption DEF spec_of
<1>3. /\ spec_of(b).bot = b /\ spec_of(b).epoch = started[b]
      /\ spec_of(b).next_run_at = bots[b].next_run_at
  BY DEF spec_of
<1>. QED BY <1>1, <1>2, <1>3 DEF SchedInv, RunsInTime, ClockSet, Knows

(* Reading the basket of a bot changes nothing else that is known.          *)
LEMMA BasketKnows ==
  ASSUME Types, NEW q \in Specs, Knows(q)
  PROVE  Knows(with_basket(q)) /\ with_basket(q).bot = q.bot
<1>1. /\ with_basket(q).bot = q.bot /\ with_basket(q).epoch = q.epoch
      /\ with_basket(q).next_run_at = q.next_run_at
      /\ with_basket(q).interval = q.interval
      /\ with_basket(q).trigger_type = q.trigger_type
  BY DEF with_basket, Specs
<1>. QED BY <1>1 DEF Knows

(* The listing: what it reads of each bot is not older than its runs.       *)
LEMMA SchedListRows ==
  ASSUME TablesInv, SchedInv, NEW p \in Processes, ListRows(p)
  PROVE  SchedInv'
<1>1. Types /\ Still
  BY DEF TablesInv, ListRows, Still, tables, world, history
<1>2. PICK listed \in SoonestFirst :
          proc' = [proc EXCEPT ![p] =
            [pc |-> IF listed = <<>> THEN "unlock" ELSE "targets",
             queue |-> [i \in DOMAIN listed |-> spec_of(listed[i])]]]
  BY DEF ListRows, Becomes
<1>3. /\ OnlyMoves(p) /\ Between(proc'[p]) /\ proc'[p].pc \in {"unlock", "targets"}
      /\ proc'[p].queue = [i \in DOMAIN listed |-> spec_of(listed[i])]
      /\ lock' = lock /\ proc[p].pc = "rows"
  BY <1>1, <1>2, BriefStep DEF Types, ListRows, At
<1>4. Listed(proc'[p].queue)
  <2>1. /\ \A i \in DOMAIN listed : listed[i] \in Bots
        /\ \A i, j \in DOMAIN listed : i # j => listed[i] # listed[j]
    BY <1>1, Listing DEF Running
  <2>2. \A i \in DOMAIN listed : /\ Knows(spec_of(listed[i]))
                                 /\ spec_of(listed[i]).bot = listed[i]
    BY <1>1, <2>1, ReadKnows
  <2>. QED BY <1>3, <2>1, <2>2 DEF Listed
<1>5. Sound(proc[p])'
  <2>1. PICK s : s = proc'[p]
    OBVIOUS
  <2>2. Sound(s)'
    BY <1>1, <1>3, <1>4, <2>1, BetweenIsSound
  <2>. QED BY <2>1, <2>2
<1>6. proc[p].pc # "idle" /\ lock' = p /\ proc'[p].pc # "idle"
  BY <1>3 DEF SchedInv, OneAtATime
<1>. QED BY <1>1, <1>3, <1>5, <1>6, SchedMoves, StillSpaced

(* The second query of the listing, some time after the first.              *)
LEMMA SchedListTargets ==
  ASSUME TablesInv, SchedInv, NEW p \in Processes, ListTargets(p)
  PROVE  SchedInv'
<1>1. Types /\ Still
  BY DEF TablesInv, ListTargets, Still, tables, world, history
<1>2. /\ OnlyMoves(p) /\ Between(proc'[p]) /\ proc'[p].pc = "next"
      /\ proc'[p].queue = [i \in DOMAIN proc[p].queue |-> with_basket(proc[p].queue[i])]
      /\ lock' = lock /\ proc[p].pc = "targets"
  BY <1>1, BriefStep DEF Types, ListTargets, At, Becomes
<1>3. Listed(proc[p].queue) /\ proc[p].queue \in Seq(Specs)
  BY <1>1 DEF SchedInv, Sound, Types, IsProcess
<1>4. Listed(proc'[p].queue)
  <2>1. \A i \in DOMAIN proc[p].queue : proc[p].queue[i] \in Specs /\ Knows(proc[p].queue[i])
    BY <1>3 DEF Listed
  <2>2. \A i \in DOMAIN proc[p].queue :
           /\ Knows(with_basket(proc[p].queue[i]))
           /\ with_basket(proc[p].queue[i]).bot = proc[p].queue[i].bot
    BY <1>1, <2>1, BasketKnows
  <2>. QED BY <1>2, <1>3, <2>2 DEF Listed
<1>5. Sound(proc[p])'
  <2>1. PICK s : s = proc'[p]
    OBVIOUS
  <2>2. Sound(s)'
    BY <1>1, <1>2, <1>4, <2>1, BetweenIsSound
  <2>. QED BY <2>1, <2>2
<1>6. proc[p].pc # "idle" /\ lock' = p /\ proc'[p].pc # "idle"
  BY <1>2 DEF SchedInv, OneAtATime
<1>. QED BY <1>1, <1>2, <1>5, <1>6, SchedMoves, StillSpaced

(* The lock is taken and given back with nothing listed.                    *)
LEMMA SchedLock ==
  ASSUME TablesInv, SchedInv, NEW p \in Processes, TryLock(p) \/ Finished(p) \/ Unlock(p)
  PROVE  SchedInv'
<1>1. Types /\ Still
  BY DEF TablesInv, TryLock, Finished, Unlock, Still, tables, world, history
<1>2. OnlyMoves(p) /\ Between(proc'[p]) /\ IsProcess(proc[p]) /\ DOMAIN proc = Processes
  BY <1>1, BriefStep DEF Types
<1>3. CASE TryLock(p)
  <2>1. /\ proc[p].pc = "idle" /\ lock = None /\ lock' = p
        /\ proc'[p] = [proc[p] EXCEPT !.pc = "rows"]
    BY <1>2, <1>3 DEF TryLock, At, Goto
  <2>2. proc'[p].pc = "rows" /\ proc'[p].queue = <<>>
    BY <1>2, <2>1
       DEF SchedInv, OneAtATime, IsProcess, Between, Within, Deciding, Submitting, Closing
  <2>3. Sound(proc[p])'
    <3>1. PICK s : s = proc'[p]
      OBVIOUS
    <3>. QED BY <1>2, <2>2, <3>1, NothingListed
  <2>. QED BY <1>1, <1>2, <2>1, <2>2, <2>3, SchedMoves, StillSpaced
<1>4. CASE Finished(p) \/ Unlock(p)
  <2>1. proc[p].pc \in {"next", "unlock"} /\ lock = p
    BY <1>4 DEF Finished, Unlock, At, SchedInv, OneAtATime
  <2>2. \/ proc'[p].pc = "unlock" /\ proc'[p].queue = <<>> /\ lock' = p
        \/ proc'[p] = Idle /\ lock' \in {lock, None}
    <3>1. CASE Finished(p) /\ p \in Schedulers
      <4>1. proc'[p] = [proc[p] EXCEPT !.pc = "unlock"] /\ proc[p].queue = <<>> /\ lock' = lock
        BY <1>2, <3>1 DEF Finished, Goto
      <4>. QED BY <1>2, <2>1, <4>1
           DEF IsProcess, Between, Within, Deciding, Submitting, Closing
    <3>2. CASE Finished(p) /\ p \notin Schedulers
      BY <1>2, <3>2 DEF Finished, Becomes
    <3>3. CASE Unlock(p)
      BY <1>2, <3>3 DEF Unlock, Becomes
    <3>. QED BY <1>4, <3>1, <3>2, <3>3
  <2>3. proc'[p].queue = <<>>
    BY <2>2 DEF Idle
  <2>4. Sound(proc[p])'
    <3>1. PICK s : s = proc'[p]
      OBVIOUS
    <3>. QED BY <1>2, <2>3, <3>1, NothingListed
  <2>5. IF proc'[p].pc = "idle" THEN lock' \in {lock, None} ELSE lock' = p
    BY <2>2 DEF Idle
  <2>6. proc[p].pc # "idle"
    BY <2>1
  <2>. QED BY <1>1, <1>2, <2>3, <2>4, <2>5, <2>6, SchedMoves, StillSpaced
<1>. QED BY <1>3, <1>4

(* The evaluation of the next bot begins.                                   *)
LEMMA SchedBegin ==
  ASSUME TablesInv, SchedInv, NEW p \in Processes, Begin(p)
  PROVE  SchedInv'
<1>1. Types /\ Still
  BY DEF TablesInv, Begin, Still, tables, world, history
<1>2. /\ OnlyMoves(p) /\ proc'[p].pc \in {"skip", "positions"} /\ proc[p].pc = "next"
      /\ proc'[p].queue = proc[p].queue /\ proc'[p].now = clock
      /\ proc'[p].plan = <<>> /\ lock' = lock
  BY <1>1, BeginStep DEF Types, Begin, At, Becomes
<1>3. PICK s : s = proc'[p]
  OBVIOUS
<1>4. Listed(s.queue)
  BY <1>2, <1>3 DEF SchedInv, Sound
<1>5. InTime(s)
  <2>1. \A r \in DOMAIN runs : runs[r].at <= clock
    BY DEF SchedInv, RunsInTime
  <2>2. clock \in Nat
    BY <1>1 DEF Types
  <2>. QED BY <1>2, <1>3, <2>1, <2>2 DEF InTime
<1>6. OnItsRun(s)
  BY <1>2, <1>3 DEF OnItsRun, InRun, Submitting, Closing
<1>7. Sound(s)'
  BY <1>1, <1>4, <1>5, <1>6, StillKnown DEF Sound
<1>8. proc[p].pc # "idle" /\ lock' = p /\ proc'[p].pc # "idle"
  BY <1>2 DEF SchedInv, OneAtATime
<1>. QED BY <1>1, <1>2, <1>3, <1>7, <1>8, SchedMoves, StillSpaced

(* Decide, on the schedule: the time read of the bot has come.              *)
LEMMA DueOnSchedule ==
  ASSUME Types, Requests = {}, NEW p \in Processes, Within(proc[p]), Due(p),
         Spec(p).trigger_type = "schedule"
  PROVE  proc[p].now >= Spec(p).next_run_at
<1>1. evaluate_trigger(Spec(p), proc[p].now, drift_of(CallOf(p)))
  BY DEF Due
<1>2. schedule_due(proc[p].now, Spec(p).next_run_at)
  BY <1>1 DEF evaluate_trigger
<1>. QED BY <1>2 DEF schedule_due, NoTime, Within

(* Up to the decision: an evaluation creates a run only when it is due.     *)
LEMMA SchedDeciding ==
  ASSUME TablesInv, SchedInv, Requests = {}, NEW p \in Processes,
         ReadPositions(p) \/ Decide(p) \/ BrokerUnavailable(p)
  PROVE  SchedInv'
<1>1. Types /\ Still /\ lock' = lock
  BY DEF TablesInv, ReadPositions, Decide, BrokerUnavailable, Still, tables, world, history
<1>2. /\ OnlyMoves(p) /\ Within(proc[p]) /\ Within(proc'[p])
      /\ proc'[p].pc \in Deciding /\ proc'[p].queue = proc[p].queue
  BY <1>1, DecidingStep DEF StaysWithin
<1>3. /\ proc[p].pc \in {"positions", "account"} /\ IsProcess(proc[p])
      /\ DOMAIN proc = Processes
  BY <1>1 DEF ReadPositions, Decide, BrokerUnavailable, At, Types
<1>4. Listed(proc[p].queue) /\ InTime(proc[p]) /\ proc[p].plan = <<>>
  BY <1>2, <1>3 DEF SchedInv, Sound, InTime
<1>5. PICK s : s = proc'[p]
  OBVIOUS
<1>6. s.now = proc[p].now
  <2>1. CASE ReadPositions(p)
    BY <1>2, <1>3, <1>5, <2>1 DEF ReadPositions, Within
  <2>2. CASE BrokerUnavailable(p)
    BY <1>2, <1>3, <1>5, <2>2 DEF BrokerUnavailable, Goto, Within
  <2>3. CASE Decide(p) /\ ~plannable(CallOf(p))
    <3>1. proc' = [proc EXCEPT ![p].pc = "fail"]
      BY <2>3 DEF Decide, Goto
    <3>. QED BY <1>2, <1>3, <1>5, <3>1 DEF Within
  <2>4. CASE Decide(p) /\ plannable(CallOf(p))
    <3>1. PICK pc, plan : proc' = [proc EXCEPT ![p].pc = pc, ![p].plan = plan]
      BY <2>4 DEF Decide
    <3>. QED BY <1>2, <1>3, <1>5, <3>1 DEF Within
  <2>. QED BY <2>1, <2>2, <2>3, <2>4
<1>7. s.pc \in {"positions", "account", "fail"} => s.plan = <<>>
  <2>1. CASE ReadPositions(p)
    BY <1>2, <1>3, <1>4, <1>5, <2>1 DEF ReadPositions, Within
  <2>2. CASE BrokerUnavailable(p)
    BY <1>2, <1>3, <1>4, <1>5, <2>2 DEF BrokerUnavailable, Goto, Within
  <2>3. CASE Decide(p) /\ ~plannable(CallOf(p))
    <3>1. proc' = [proc EXCEPT ![p].pc = "fail"]
      BY <2>3 DEF Decide, Goto
    <3>. QED BY <1>2, <1>3, <1>4, <1>5, <3>1 DEF Within
  <2>4. CASE Decide(p) /\ plannable(CallOf(p))
    <3>1. PICK pc \in {"create", "skip"} :
            \E plan : proc' = [proc EXCEPT ![p].pc = pc, ![p].plan = plan]
      BY <2>4 DEF Decide
    <3>2. s.pc = pc
      BY <1>2, <1>3, <1>5, <3>1 DEF Within
    <3>. QED BY <3>1, <3>2
  <2>. QED BY <2>1, <2>2, <2>3, <2>4
<1>8. s.pc = "create" => Due(p)
  <2>1. CASE ReadPositions(p)
    BY <1>2, <1>3, <1>5, <2>1 DEF ReadPositions, Within
  <2>2. CASE BrokerUnavailable(p)
    BY <1>2, <1>3, <1>5, <2>2 DEF BrokerUnavailable, Goto, Within
  <2>3. CASE Decide(p) /\ ~plannable(CallOf(p))
    <3>1. proc' = [proc EXCEPT ![p].pc = "fail"]
      BY <2>3 DEF Decide, Goto
    <3>. QED BY <1>2, <1>3, <1>5, <3>1 DEF Within
  <2>4. CASE Decide(p) /\ plannable(CallOf(p)) /\ ~Due(p)
    <3>1. PICK plan : proc' = [proc EXCEPT ![p].pc = "skip", ![p].plan = plan]
      BY <2>4 DEF Decide
    <3>. QED BY <1>2, <1>3, <1>5, <3>1 DEF Within
  <2>. QED BY <2>1, <2>2, <2>3, <2>4
<1>9. s.pc = "create" /\ s.queue[1].trigger_type = "schedule" =>
        s.now >= s.queue[1].next_run_at
  <2>1. s.queue[1] = Spec(p)
    BY <1>2, <1>3, <1>5, HeadAndTail DEF IsProcess, Within, Spec
  <2>. QED BY <1>1, <1>2, <1>6, <1>8, <2>1, DueOnSchedule
<1>10. InTime(s)
  BY <1>4, <1>6, <1>7, <1>9 DEF InTime
<1>11. OnItsRun(s)
  BY <1>2, <1>5 DEF OnItsRun, InRun, Deciding, Submitting, Closing
<1>12. Listed(s.queue)
  BY <1>2, <1>4, <1>5
<1>13. Sound(s)'
  BY <1>1, <1>10, <1>11, <1>12, StillKnown DEF Sound
<1>14. proc[p].pc # "idle" /\ lock' = p /\ proc'[p].pc # "idle"
  BY <1>1, <1>2, <1>3 DEF SchedInv, OneAtATime, Deciding
<1>. QED BY <1>1, <1>2, <1>5, <1>13, <1>14, SchedMoves, StillSpaced

(* An evaluation left behind, its run as it stands.                         *)
LEMMA SchedLeaves ==
  ASSUME TablesInv, SchedInv, NEW p \in Processes, Within(proc[p]), OnlyMoves(p),
         proc'[p] = [pc |-> "next", queue |-> Tail(proc[p].queue)],
         Still, lock' = lock
  PROVE  SchedInv'
<1>1. PICK s : s = proc'[p]
  OBVIOUS
<1>2. proc[p].queue \in Seq(Specs) /\ proc[p].queue # <<>> /\ Listed(proc[p].queue)
  BY DEF TablesInv, Types, IsProcess, Within, SchedInv, Sound
<1>3. Between(s) /\ Listed(s.queue) /\ proc'[p].pc = "next"
  BY <1>1, <1>2, ListedTail DEF Between, Brief
<1>4. Sound(s)'
  BY <1>3, BetweenIsSound
<1>5. proc[p].pc # "idle" /\ lock' = p
  BY DEF Within, Deciding, Submitting, Closing, SchedInv, OneAtATime
<1>. QED BY <1>1, <1>3, <1>4, <1>5, SchedMoves, StillSpaced

(* A crash gives the lock back; an exception leaves one evaluation.         *)
LEMMA SchedFault ==
  ASSUME TablesInv, SchedInv, Requests = {}, NEW p \in Processes, Crash(p) \/ Raise(p)
  PROVE  SchedInv'
<1>1. Types /\ Still /\ p \in Schedulers
  BY DEF TablesInv, Crash, Raise, Fault, Still, tables, world, history, Processes
<1>2. /\ OnlyMoves(p) /\ Between(proc'[p]) /\ IsProcess(proc[p]) /\ DOMAIN proc = Processes
  BY <1>1, FaultStep DEF Types
<1>3. proc[p].pc # "idle" /\ lock = p
  BY DEF Crash, Raise, At, SchedInv, OneAtATime
<1>4. CASE Crash(p) \/ (Raise(p) /\ proc[p].pc \in {"rows", "targets"})
  <2>1. \/ proc'[p] = Idle /\ lock' = None
        \/ proc'[p] = [pc |-> "unlock", queue |-> <<>>] /\ lock' = p
    <3>1. CASE Crash(p)
      BY <1>2, <1>3, <3>1 DEF Crash, Becomes
    <3>2. CASE Raise(p) /\ proc[p].pc \in {"rows", "targets"}
      BY <1>1, <1>2, <1>3, <3>2 DEF Raise, At, Becomes
    <3>. QED BY <1>4, <3>1, <3>2
  <2>2. PICK s : s = proc'[p]
    OBVIOUS
  <2>3. s.queue = <<>>
    BY <2>1, <2>2 DEF Idle
  <2>4. Sound(s)'
    BY <1>2, <2>2, <2>3, NothingListed
  <2>5. IF proc'[p].pc = "idle" THEN lock' \in {lock, None} ELSE lock' = p
    BY <2>1 DEF Idle
  <2>. QED BY <1>1, <1>2, <1>3, <2>2, <2>3, <2>4, <2>5, SchedMoves, StillSpaced
<1>5. CASE Raise(p) /\ proc[p].pc \notin {"rows", "targets"}
  <2>1. Within(proc[p]) /\ Abandon(p) /\ lock' = lock
    BY <1>2, <1>5 DEF Raise, At, IsProcess, Between, Brief
  <2>. QED BY <1>1, <2>1, Abandoned, SchedLeaves
<1>. QED BY <1>4, <1>5

(* The submit loop stays on its run.                                        *)
LEMMA SchedSubmits ==
  ASSUME TablesInv, SchedInv, NEW p \in Processes, StaysWithin(p),
         proc[p].pc \in Submitting, proc'[p].pc \in Submitting,
         proc'[p].now = proc[p].now, Still, lock' = lock
  PROVE  SchedInv'
<1>1. PICK s : s = proc'[p]
  OBVIOUS
<1>2. /\ OnlyMoves(p) /\ s.queue = proc[p].queue /\ s.run = proc[p].run
      /\ Within(proc[p]) /\ InRun(proc[p])
  BY <1>1 DEF StaysWithin, InRun
<1>3. Listed(proc[p].queue) /\ InTime(proc[p]) /\ OnItsRun(proc[p])
  BY <1>2 DEF SchedInv, Sound
<1>4. Listed(s.queue) /\ InTime(s)
  BY <1>1, <1>2, <1>3 DEF InTime, Submitting
<1>5. OnItsRun(s)
  BY <1>1, <1>2, <1>3 DEF OnItsRun, Submitting
<1>6. Sound(s)'
  BY <1>4, <1>5, StillKnown DEF Sound
<1>7. proc[p].pc # "idle" /\ lock' = p /\ proc'[p].pc # "idle"
  BY DEF Submitting, SchedInv, OneAtATime
<1>. QED BY <1>1, <1>2, <1>6, <1>7, SchedMoves, StillSpaced

(* The statements of the submit loop, and the venue between them.           *)
LEMMA SchedPlaces ==
  ASSUME TablesInv, SchedInv, NEW p \in Processes,
         RecordOrder(p) \/ Place(p) \/ UpdateOrder(p)
  PROVE  SchedInv'
<1>1. Types /\ Still /\ lock' = lock
  BY DEF TablesInv, RecordOrder, Place, UpdateOrder, Still, tables, world, history
<1>2. /\ proc[p].pc \in {"record", "place", "update"} /\ IsProcess(proc[p])
      /\ DOMAIN proc = Processes
  BY <1>1 DEF RecordOrder, Place, UpdateOrder, At, Types
<1>3. Within(proc[p]) /\ InRun(proc[p])
  BY <1>2 DEF IsProcess, Between, Brief, InRun, Submitting
<1>4. CASE RecordOrder(p) /\ ~Exists(Spec(p).bot)
  <2>1. Abandon(p)
    BY <1>4 DEF RecordOrder
  <2>. QED BY <1>1, <1>3, <2>1, Abandoned, SchedLeaves
<1>5. CASE RecordOrder(p) /\ Exists(Spec(p).bot)
  <2>1. Goto(p, "place")
    BY <1>5 DEF RecordOrder
  <2>2. OnlyMoves(p) /\ proc'[p] = [proc[p] EXCEPT !.pc = "place"]
    BY <1>1, <2>1, Went
  <2>3. /\ IsProcess(proc'[p]) /\ Within(proc'[p]) /\ proc'[p].pc = "place"
        /\ proc'[p].queue = proc[p].queue /\ proc'[p].run = proc[p].run
    BY <1>2, <1>3, <2>2, WentWithin DEF Submitting
  <2>4. proc'[p].now = proc[p].now
    BY <1>3, <2>2 DEF Within
  <2>5. StaysWithin(p) /\ proc[p].pc \in Submitting /\ proc'[p].pc \in Submitting
    BY <1>2, <1>3, <2>2, <2>3 DEF StaysWithin, InRun, Submitting
  <2>. QED BY <1>1, <2>4, <2>5, SchedSubmits
<1>6. CASE Place(p)
  <2>1. PICK status : proc' = [proc EXCEPT ![p].pc = "update", ![p].result = status]
    BY <1>1, <1>6, PlaceStep
  <2>2. proc'[p].now = proc[p].now
    BY <1>2, <1>3, <2>1 DEF Within
  <2>3. StaysWithin(p) /\ proc[p].pc \in Submitting /\ proc'[p].pc \in Submitting
    BY <1>1, <1>6, PlaceStep DEF Submitting
  <2>. QED BY <1>1, <2>2, <2>3, SchedSubmits
<1>7. CASE UpdateOrder(p)
  <2>1. NextOrder(p) /\ proc[p].pc = "update"
    BY <1>7 DEF UpdateOrder, At
  <2>2. proc'[p].now = proc[p].now
    BY <1>2, <1>3, <2>1 DEF NextOrder, Within
  <2>3. StaysWithin(p) /\ proc[p].pc \in Submitting /\ proc'[p].pc \in Submitting
    BY <1>1, <2>1, NextOrderStep DEF Submitting
  <2>. QED BY <1>1, <2>2, <2>3, SchedSubmits
<1>. QED BY <1>4, <1>5, <1>6, <1>7

-----------------------------------------------------------------------------
(* What create_run leaves: one more run, the last.                          *)
IsNew(p, n, status) ==
  /\ RunsInTime' /\ ClockSet' /\ AllSpaced'
  /\ \A r \in DOMAIN runs : SameRun(r)
  /\ ~Counts(n)' /\ runs'[n].at = proc[p].now /\ runs'[n].bot = Spec(p).bot
  /\ runs'[n].epoch = Spec(p).epoch /\ runs'[n].touched = FALSE
  /\ runs'[n].status = status /\ runs'[n].trigger_type = Spec(p).trigger_type
  /\ runs'[n].interval = Spec(p).interval

(* create_run: the new run is far enough from the ones that count, or it    *)
(* is not executed: it is skipped, or failed with nothing planned.          *)
LEMMA NewRun ==
  ASSUME TablesInv, SchedInv, NEW p \in Processes, Within(proc[p]),
         NEW status \in {"skipped", "failed", "running"},
         status = "failed" => proc[p].plan = <<>>,
         status = "running" /\ Spec(p).trigger_type = "schedule" =>
           proc[p].now >= Spec(p).next_run_at,
         NEW n, n = Len(runs) + 1, DOMAIN runs' = 1..n, Len(runs') = n,
         \A r \in DOMAIN runs : runs'[r] = runs[r],
         runs'[n] = RunRow(p, status), UNCHANGED <<bots, started, clock>>
  PROVE  IsNew(p, n, status)
<1>1. /\ Types /\ Len(runs) \in Nat /\ DOMAIN runs = 1..Len(runs)
      /\ \A r \in DOMAIN runs : IsRun(runs[r])
  BY DEF TablesInv, Types
<1>2. /\ Listed(proc[p].queue) /\ InTime(proc[p])
      /\ proc[p].queue \in Seq(Specs) /\ proc[p].queue # <<>>
  BY <1>1 DEF SchedInv, Sound, Types, IsProcess, Within
<1>3. /\ Spec(p) = proc[p].queue[1] /\ Spec(p) \in Specs /\ 1 \in DOMAIN proc[p].queue
  BY <1>2, HeadAndTail DEF Spec
<1>4. Knows(Spec(p))
  BY <1>2, <1>3 DEF Listed
<1>5. /\ runs'[n].at = proc[p].now /\ runs'[n].bot = Spec(p).bot
      /\ runs'[n].epoch = Spec(p).epoch /\ runs'[n].touched = FALSE
      /\ runs'[n].status = status /\ runs'[n].planned = Len(proc[p].plan)
      /\ runs'[n].trigger_type = Spec(p).trigger_type
      /\ runs'[n].interval = Spec(p).interval
  BY DEF RunRow
<1>6. ~Counts(n)'
  BY <1>5 DEF Counts
<1>7. \A r \in DOMAIN runs : SameRow(r)
  BY <1>1, SameIsSame
<1>8. \A r \in DOMAIN runs : SameRun(r) /\ Until(r)' = Until(r)
  BY <1>1, <1>7, CountsStill, SameUntil
<1>9. /\ n \in Nat /\ \A r \in DOMAIN runs' : r # n => r \in DOMAIN runs
      /\ \A r \in DOMAIN runs : r < n
  BY <1>1
<1>10. RunsInTime'
  <2>1. proc[p].now <= clock /\ Spec(p).epoch <= started[Spec(p).bot]
    BY <1>2, <1>4 DEF InTime, Knows
  <2>. QED BY <1>5, <1>9, <2>1 DEF SchedInv, RunsInTime
<1>11. ClockSet'
  BY <1>6, <1>8, <1>9 DEF SchedInv, ClockSet, SameRun, SameRow
<1>12. ASSUME NEW r \in DOMAIN runs', NEW q \in DOMAIN runs' PROVE Spaced(r, q)'
  <2>1. CASE r = n
    <3>1. ~(r < q)
      BY <1>1, <2>1
    <3>. QED BY <3>1 DEF Spaced, Again
  <2>2. CASE r # n /\ q # n
    <3>1. r \in DOMAIN runs /\ q \in DOMAIN runs
      BY <1>9, <2>2
    <3>2. Spaced(r, q)
      BY <3>1 DEF SchedInv, AllSpaced
    <3>3. (OnOneSchedule(r, q)' <=> OnOneSchedule(r, q)) /\ Until(r)' = Until(r)
      BY <1>1, <1>7, <1>8, <3>1, OneSchedule
    <3>4. Again(r, q)' => Again(r, q)
      BY <3>1, <3>3 DEF Again, Executed
    <3>. QED BY <3>1, <3>2, <3>3, <3>4 DEF Spaced
  <2>3. CASE r # n /\ q = n
    <3>1. SUFFICES ASSUME Again(r, q)' PROVE runs'[q].at >= Until(r)'
      BY DEF Spaced
    <3>2. r \in DOMAIN runs
      BY <1>9, <2>3
    <3>3. Counts(r) /\ Until(r)' = Until(r)
      <4>1. Counts(r)'
        BY <2>3, <3>1 DEF Again, Counts
      <4>. QED BY <1>8, <3>2, <4>1 DEF SameRun
    <3>4. runs[r].bot = Spec(p).bot /\ runs[r].epoch = Spec(p).epoch
      BY <1>5, <2>3, <3>1, <3>2 DEF Again
    <3>5. Spec(p).next_run_at >= Until(r) /\ Spec(p).trigger_type = "schedule"
      <4>1. Spec(p).next_run_at >= Until(r)
        BY <1>4, <3>2, <3>3, <3>4 DEF Knows
      <4>2. n \in r..n /\ runs'[n].bot = runs'[r].bot
        BY <1>9, <2>3, <3>1, <3>2, <1>1 DEF Again
      <4>3. runs'[n].trigger_type = "schedule"
        BY <2>3, <3>1, <4>2 DEF Again, OnOneSchedule
      <4>. QED BY <1>5, <4>1, <4>3
    <3>6. status = "running"
      <4>1. Len(proc[p].plan) > 0 /\ status # "skipped"
        BY <1>5, <2>3, <3>1 DEF Again, Executed
      <4>. QED BY <4>1
    <3>7. proc[p].now >= Spec(p).next_run_at
      BY <3>5, <3>6
    <3>8. proc[p].now \in Nat /\ Spec(p).next_run_at \in Nat /\ Until(r) \in Nat
      <4>1. runs[r].at \in Nat /\ runs[r].interval \in Nat
        BY <1>1, <3>2 DEF IsRun
      <4>3. Spec(p).next_run_at \in Nat
        BY <1>2, HeadAndTail DEF Spec
      <4>4. proc[p].now \in Nat
        BY <1>2 DEF Within
      <4>. QED BY <4>1, <4>3, <4>4 DEF Until
    <3>. QED BY <1>5, <2>3, <3>3, <3>5, <3>7, <3>8
  <2>. QED BY <2>1, <2>2, <2>3
<1>13. AllSpaced'
  BY <1>12 DEF AllSpaced
<1>. QED BY <1>5, <1>6, <1>8, <1>10, <1>11, <1>13 DEF IsNew

(* The three ways an evaluation creates its run.                            *)
Outcome(from, status, to) ==
  /\ status = "failed" => from = "fail"
  /\ status = "running" => from = "create"
  /\ to \in {"finish skipped", "touch skipped"} => status = "skipped"

(* create_run under any of the three outcomes keeps the schedule.           *)
LEMMA SchedCreate ==
  ASSUME TablesInv, SchedInv, NEW p \in Processes,
         NEW from \in Deciding, NEW status \in {"skipped", "failed", "running"},
         NEW to \in Submitting \cup Closing, CreateRun(p, from, status, to),
         Outcome(from, status, to)
  PROVE  SchedInv'
<1>1. /\ Types /\ UNCHANGED <<bots, started, clock, lock>> /\ proc[p].pc = from
      /\ IsProcess(proc[p])
  BY DEF TablesInv, CreateRun, At, world, history, Types
<1>2. Within(proc[p])
  BY <1>1 DEF IsProcess, Between, Brief, Deciding
<1>3. CASE ~Exists(Spec(p).bot)
  BY <1>1, <1>2, <1>3, CreateFails, SchedLeaves DEF Still
<1>4. CASE Exists(Spec(p).bot)
  <2>1. /\ OnlyMoves(p) /\ proc'[p].pc = to /\ proc'[p].run = Len(runs) + 1
        /\ proc'[p].queue = proc[p].queue
        /\ Len(runs') = Len(runs) + 1 /\ DOMAIN runs' = 1..(Len(runs) + 1)
        /\ \A r \in DOMAIN runs : runs'[r] = runs[r]
        /\ runs'[Len(runs) + 1] = RunRow(p, status)
    BY <1>1, <1>4, CreateStep
  <2>2. proc'[p].now = proc[p].now
    <3>1. proc' = [proc EXCEPT ![p].pc = to, ![p].run = Len(runs) + 1]
      BY <1>4 DEF CreateRun
    <3>. QED BY <1>1, <1>2, <3>1 DEF Types, Within
  <2>3. /\ Listed(proc[p].queue) /\ InTime(proc[p]) /\ proc[p].queue \in Seq(Specs)
        /\ proc[p].queue # <<>>
    BY <1>1, <1>2 DEF SchedInv, Sound, IsProcess, Within
  <2>4. Spec(p) = proc[p].queue[1] /\ 1 \in DOMAIN proc[p].queue
    BY <2>3, HeadAndTail DEF Spec
  <2>5. PICK n : n = Len(runs) + 1
    OBVIOUS
  <2>6. /\ status = "failed" => proc[p].plan = <<>>
        /\ status = "running" /\ Spec(p).trigger_type = "schedule" =>
           proc[p].now >= Spec(p).next_run_at
    BY <1>1, <2>3, <2>4 DEF InTime, Outcome
  <2>7. IsNew(p, n, status)
    <3>1. /\ DOMAIN runs' = 1..n /\ Len(runs') = n /\ runs'[n] = RunRow(p, status)
          /\ UNCHANGED <<bots, started, clock>>
      BY <1>1, <2>1, <2>5
    <3>. QED BY <1>2, <2>1, <2>5, <2>6, <3>1, NewRun
  <2>8. PICK s : s = proc'[p]
    OBVIOUS
  <2>9. \A r \in DOMAIN runs' : r \in DOMAIN runs \/ r = n
    BY <1>1, <2>1, <2>5 DEF Types
  <2>10. Listed(s.queue)'
    <3>1. ASSUME NEW i \in DOMAIN proc[p].queue, NEW r \in DOMAIN runs',
                 runs'[r].bot = proc[p].queue[i].bot
          PROVE  SameRun(r) \/ (runs'[r].epoch <= proc[p].queue[i].epoch /\ ~Counts(r)')
      <4>1. CASE r \in DOMAIN runs
        BY <2>7, <4>1 DEF IsNew
      <4>2. CASE r = n
        <5>1. proc[p].queue[i].bot = proc[p].queue[1].bot
          BY <2>4, <2>7, <3>1, <4>2 DEF IsNew
        <5>2. i = 1
          BY <2>3, <2>4, <5>1 DEF Listed
        <5>3. runs'[r].epoch = proc[p].queue[i].epoch /\ runs'[r].epoch \in Nat
          BY <2>3, <2>4, <2>7, <4>2, <5>2, HeadAndTail DEF IsNew
        <5>. QED BY <2>7, <4>2, <5>3 DEF IsNew
      <4>. QED BY <2>9, <4>1, <4>2
    <3>2. started' \in [Bots -> Nat] /\ \A b \in Bots : started[b] <= started'[b]
      BY <1>1 DEF Types
    <3>. QED BY <1>1, <2>1, <2>3, <2>8, <3>1, <3>2, ListedOn
  <2>11. InTime(s)'
    <3>1. s.now = proc[p].now /\ s.now \in Nat /\ s.pc = to
      BY <1>2, <2>1, <2>2, <2>8 DEF Within
    <3>2. \A r \in DOMAIN runs' : runs'[r].at <= s.now
      BY <2>1, <2>3, <2>7, <2>9, <3>1 DEF InTime, IsNew
    <3>3. s.pc \notin {"positions", "account", "fail", "create"}
      BY <3>1 DEF Submitting, Closing
    <3>. QED BY <1>1, <2>3, <3>1, <3>2, <3>3 DEF InTime
  <2>12. OnItsRun(s)'
    BY <2>1, <2>2, <2>4, <2>5, <2>7, <2>8 DEF OnItsRun, Outcome, IsNew
  <2>13. Sound(proc[p])'
    BY <2>8, <2>10, <2>11, <2>12 DEF Sound
  <2>14. proc[p].pc # "idle" /\ lock' = p /\ proc'[p].pc # "idle"
    BY <1>1, <2>1 DEF Deciding, Submitting, Closing, SchedInv, OneAtATime
  <2>. QED BY <2>1, <2>7, <2>13, <2>14, SchedMoves DEF IsNew
<1>. QED BY <1>3, <1>4

-----------------------------------------------------------------------------
(* Steps that change rows of runs.                                          *)
LEMMA SameSpaced ==
  ASSUME Types, SchedInv, DOMAIN runs' = DOMAIN runs,
         \A r \in DOMAIN runs : /\ SameRow(r)
                                /\ r # Len(runs) => runs'[r].touched = runs[r].touched
  PROVE  AllSpaced'
<1>1. SUFFICES ASSUME NEW r \in DOMAIN runs, NEW q \in DOMAIN runs, Again(r, q)'
               PROVE  runs'[q].at >= Until(r)'
  BY DEF AllSpaced, Spaced
<1>2. r # Len(runs)
  <2>1. r < q /\ DOMAIN runs = 1..Len(runs) /\ Len(runs) \in Nat
    BY <1>1 DEF Again, Types
  <2>. QED BY <2>1
<1>3. OnOneSchedule(r, q)
  BY <1>1, OneSchedule DEF Again
<1>4. Again(r, q)
  BY <1>1, <1>2, <1>3 DEF Again, SameRow
<1>5. runs[q].at >= Until(r)
  BY <1>4 DEF SchedInv, AllSpaced, Spaced
<1>. QED BY <1>5 DEF Until, SameRow

(* Runs are of the past, and of a start of their bot, as before.            *)
LEMMA StillInTime ==
  ASSUME TablesInv, TablesInv', SchedInv, DOMAIN runs' = DOMAIN runs,
         \A r \in DOMAIN runs : SameRow(r),
         \A b \in Bots : started[b] <= started'[b], clock <= clock'
  PROVE  RunsInTime'
<1>. SUFFICES ASSUME NEW r \in DOMAIN runs
              PROVE  runs[r].epoch <= started'[runs[r].bot] /\ runs[r].at <= clock'
  BY DEF RunsInTime, SameRow
<1>1. /\ runs[r].epoch \in Nat /\ runs[r].at \in Nat /\ runs[r].bot \in Bots
      /\ clock \in Nat /\ clock' \in Nat
      /\ started[runs[r].bot] \in Nat /\ started'[runs[r].bot] \in Nat
  BY DEF TablesInv, Types, IsRun
<1>2. runs[r].epoch <= started[runs[r].bot] /\ runs[r].at <= clock
  BY DEF SchedInv, RunsInTime
<1>3. started[runs[r].bot] <= started'[runs[r].bot]
  BY <1>1
<1>. QED BY <1>1, <1>2, <1>3

(* finish_run: the run in hand, not yet written back, is all it touches.    *)
LEMMA FinishedRun ==
  ASSUME TablesInv, SchedInv, NEW p \in Processes, FinishRun(p), Within(proc[p]),
         InRun(proc[p])
  PROVE  /\ SameRuns
         /\ \A r \in DOMAIN runs :
              /\ SameRow(r) /\ SameRun(r) /\ runs'[r].touched = runs[r].touched
              /\ proc[p].pc # "finish" => runs'[r].status = runs[r].status
<1>1. Types /\ proc[p].run \in DOMAIN runs /\ OnItsRun(proc[p]) /\ Owns(proc[p])
  BY DEF TablesInv, Ownership, Owns, SchedInv, Sound
<1>2. /\ SameRuns
      /\ \A r \in DOMAIN runs :
              /\ r # proc[p].run => runs'[r] = runs[r]
              /\ runs'[r].status = Gone <=> runs[r].status = Gone
              /\ runs[r].status # Gone /\ r = proc[p].run =>
                   runs'[r] = [runs[r] EXCEPT
                     !.status = IF At(p, "finish") THEN final_status(p) ELSE @,
                     !.submitted = proc[p].submitted,
                     !.errors = proc[p].failures > 0 \/ At(p, "finish failed")]
  BY <1>1, FinishRows
<1>3. ASSUME NEW r \in DOMAIN runs, runs'[r] = runs[r]
      PROVE  /\ SameRow(r) /\ runs'[r].touched = runs[r].touched
             /\ runs'[r].status = runs[r].status
  BY <1>2, <1>3, SameIsSame DEF SameRuns
<1>. DEFINE Row(r) == /\ SameRow(r) /\ runs'[r].touched = runs[r].touched
                      /\ proc[p].pc # "finish" => runs'[r].status = runs[r].status
<1>4. (\A r \in DOMAIN runs : Row(r)) => (\A r \in DOMAIN runs : SameRun(r))
  <2>0. SameRuns
    BY <1>2, Zenon
  <2>1. Len(runs') \in Nat /\ Len(runs) <= Len(runs')
    BY <1>1, <2>0 DEF SameRuns, Types
  <2>2. SUFFICES ASSUME \A r \in DOMAIN runs : Row(r), NEW r \in DOMAIN runs
                 PROVE  SameRun(r)
    OBVIOUS
  <2>3. /\ \A k \in DOMAIN runs : SameRow(k)
        /\ runs'[r].touched = runs[r].touched
    BY <2>2
  <2>. QED BY <1>1, <2>1, <2>3, CountsStill
<1>5. CASE runs[proc[p].run].status = Gone
  <2>1. runs' = runs
    BY <1>5 DEF FinishRun
  <2>. QED BY <1>2, <1>3, <2>1, <1>4
<1>6. CASE runs[proc[p].run].status # Gone
  <2>1. PICK r \in DOMAIN runs : r = proc[p].run
    BY <1>1
  <2>. DEFINE status == IF At(p, "finish") THEN final_status(p) ELSE runs[r].status
              submitted == proc[p].submitted
              errors == proc[p].failures > 0 \/ At(p, "finish failed")
  <2>2. runs'[r] = [runs[r] EXCEPT !.status = status, !.submitted = submitted,
                                    !.errors = errors]
    BY <1>2, <1>6, <2>1
  <2>3. proc[p].pc # "finish" => status = runs[r].status
    BY DEF At
  <2>. HIDE DEF status, submitted, errors
  <2>4. IsRun(runs[r])
    BY <1>1 DEF Types
  <2>5. /\ runs'[r].bot = runs[r].bot /\ runs'[r].epoch = runs[r].epoch
        /\ runs'[r].at = runs[r].at /\ runs'[r].touched = runs[r].touched
        /\ runs'[r].planned = runs[r].planned /\ runs'[r].forced = runs[r].forced
        /\ runs'[r].trigger_type = runs[r].trigger_type
        /\ runs'[r].interval = runs[r].interval /\ runs'[r].status = status
    BY <2>2, <2>4 DEF IsRun
  <2>6. Executed(r)' => Executed(r)
    <3>1. proc[p].pc = "finish" => runs[r].status = "running"
      BY <1>1, <1>6, <2>1 DEF Owns, InRun, Submitting
    <3>. QED BY <2>3, <2>5, <3>1 DEF Executed, Gone
  <2>7. Row(r)
    BY <1>2, <2>3, <2>5, <2>6 DEF SameRow, SameRuns
  <2>8. \A k \in DOMAIN runs : Row(k)
    BY <1>2, <1>3, <2>1, <2>7
  <2>. QED BY <1>2, <2>8, <1>4
<1>. QED BY <1>5, <1>6

(* finish_run keeps the schedule: nothing is written back yet.              *)
LEMMA SchedFinish ==
  ASSUME TablesInv, TablesInv', SchedInv, NEW p \in Processes, FinishRun(p)
  PROVE  SchedInv'
<1>1. Types /\ UNCHANGED <<bots, started, clock, lock>>
  BY DEF TablesInv, FinishRun, world, history
<1>2. /\ OnlyMoves(p) /\ Within(proc[p]) /\ InRun(proc[p])
      /\ proc'[p].queue = proc[p].queue /\ proc'[p].run = proc[p].run
      /\ proc'[p].pc \in {"touch", "touch skipped"}
  BY <1>1, FinishStep DEF StaysWithin
<1>3. /\ proc'[p].now = proc[p].now
      /\ proc'[p].pc = "touch skipped" => proc[p].pc = "finish skipped"
  <2>1. CASE proc[p].pc = "finish skipped"
    <3>1. Goto(p, "touch skipped")
      BY <2>1 DEF FinishRun, At
    <3>. QED BY <1>1, <1>2, <2>1, <3>1, Went DEF Within
  <2>2. CASE proc[p].pc # "finish skipped"
    <3>1. Goto(p, "touch")
      BY <2>2 DEF FinishRun, At
    <3>2. proc'[p] = [proc[p] EXCEPT !.pc = "touch"]
      BY <1>1, <3>1, Went
    <3>3. proc'[p].pc = "touch" /\ proc'[p].now = proc[p].now
      BY <1>2, <3>2 DEF Within
    <3>. QED BY <3>3
  <2>. QED BY <2>1, <2>2
<1>4. /\ SameRuns
      /\ \A r \in DOMAIN runs :
              /\ SameRow(r) /\ SameRun(r) /\ runs'[r].touched = runs[r].touched
              /\ proc[p].pc # "finish" => runs'[r].status = runs[r].status
  BY <1>2, FinishedRun
<1>5. AllSpaced' /\ RunsInTime'
  <2>1. clock <= clock' /\ \A b \in Bots : started[b] <= started'[b]
    BY <1>1 DEF Types
  <2>. QED BY <1>1, <1>4, <2>1, SameSpaced, StillInTime DEF SameRuns
<1>6. ClockSet'
  <2>1. \A r \in DOMAIN runs : Until(r)' = Until(r)
    BY <1>4, SameUntil
  <2>. QED BY <1>1, <1>4, <2>1 DEF SchedInv, ClockSet, SameRuns, SameRun, SameRow
<1>7. PICK s : s = proc'[p]
  OBVIOUS
<1>8. /\ Listed(proc[p].queue) /\ InTime(proc[p]) /\ OnItsRun(proc[p])
      /\ proc[p].queue \in Seq(Specs)
  BY <1>1, <1>2 DEF SchedInv, Sound, Types, IsProcess
<1>9. Listed(s.queue)'
  <2>1. started' \in [Bots -> Nat] /\ \A b \in Bots : started[b] <= started'[b]
    BY <1>1 DEF Types
  <2>. QED BY <1>1, <1>2, <1>4, <1>7, <1>8, <2>1, ListedOn DEF SameRuns
<1>10. InTime(s)'
  BY <1>1, <1>2, <1>3, <1>4, <1>7, <1>8 DEF InTime, SameRuns, SameRow
<1>11. OnItsRun(s)'
  <2>1. proc[p].run \in DOMAIN runs
    BY <1>2 DEF TablesInv, Ownership, Owns
  <2>. QED BY <1>2, <1>3, <1>4, <1>7, <1>8, <2>1 DEF OnItsRun, SameRuns, SameRow
<1>12. Sound(proc[p])'
  BY <1>7, <1>9, <1>10, <1>11 DEF Sound
<1>13. proc[p].pc # "idle" /\ lock' = p /\ proc'[p].pc # "idle"
  BY <1>1, <1>2 DEF InRun, Submitting, Closing, SchedInv, OneAtATime
<1>. QED BY <1>2, <1>5, <1>6, <1>12, <1>13, SchedMoves

(* touch_bot: the run is written back, and the clock of its bot set past it *)
(* and past every run before.                                               *)
LEMMA TouchedRun ==
  ASSUME TablesInv, SchedInv, NEW p \in Processes, TouchBot(p), Within(proc[p]),
         InRun(proc[p])
  PROVE  /\ SameRuns
         /\ \A r \in DOMAIN runs :
              /\ SameRow(r)
              /\ r # proc[p].run => SameRun(r) /\ runs'[r].touched = runs[r].touched
<1>1. Types /\ proc[p].run \in DOMAIN runs
  BY DEF TablesInv, Ownership, Owns
<1>2. /\ SameRuns
      /\ \A r \in DOMAIN runs :
              /\ runs'[r] = runs[r] \/ (r = proc[p].run /\ runs[r].status # Gone
                                        /\ runs'[r] = [runs[r] EXCEPT !.touched = TRUE])
              /\ runs'[r].status = runs[r].status
  BY <1>1, TouchRows
<1>3. ASSUME NEW r \in DOMAIN runs PROVE SameRow(r)
  <2>1. CASE runs'[r] = runs[r]
    BY <1>2, <2>1, SameIsSame DEF SameRuns
  <2>2. CASE runs'[r] = [runs[r] EXCEPT !.touched = TRUE]
    <3>1. IsRun(runs[r])
      BY <1>1 DEF Types
    <3>2. /\ runs'[r].bot = runs[r].bot /\ runs'[r].epoch = runs[r].epoch
          /\ runs'[r].at = runs[r].at /\ runs'[r].status = runs[r].status
          /\ runs'[r].planned = runs[r].planned /\ runs'[r].forced = runs[r].forced
          /\ runs'[r].trigger_type = runs[r].trigger_type
          /\ runs'[r].interval = runs[r].interval
      BY <2>2, <3>1 DEF IsRun
    <3>. QED BY <1>2, <3>2 DEF SameRow, SameRuns, Executed
  <2>. QED BY <1>2, <2>1, <2>2
<1>4. ASSUME NEW r \in DOMAIN runs, r # proc[p].run
      PROVE  SameRun(r) /\ runs'[r].touched = runs[r].touched
  <2>1. runs'[r] = runs[r]
    BY <1>2, <1>4
  <2>. QED BY <1>1, <1>2, <1>3, <2>1, CountsStill DEF SameRuns, Types
<1>. QED BY <1>2, <1>3, <1>4

(* A run the clock of the bot, once set, has to be past.                    *)
Touching(s) == s.pc \in {"touch", "touch skipped"}
ToClear(p, r) ==
  /\ runs[r].bot = Spec(p).bot /\ OnOneSchedule(r, Len(runs))
  /\ runs[r].epoch = started[runs[r].bot]
  /\ \/ r # proc[p].run /\ Counts(r)
     \/ r = proc[p].run /\ runs[r].status \notin {"skipped", Gone}

(* The time touch_bot writes to a bot is past every run of the bot that     *)
(* counts, its own run included.                                            *)
LEMMA TouchedClock ==
  ASSUME TablesInv, SchedInv, NEW p \in Processes, Within(proc[p]), InRun(proc[p]),
         Touching(proc[p]), NEW r \in DOMAIN runs, ToClear(p, r)
  PROVE  next_run_at_of(p) >= Until(r)
<1>. DEFINE now == proc[p].now  q == Spec(p)  interval == runs[r].interval
<1>1. /\ Types /\ Listed(proc[p].queue) /\ InTime(proc[p]) /\ OnItsRun(proc[p])
      /\ proc[p].queue \in Seq(Specs) /\ proc[p].queue # <<>>
  BY DEF TablesInv, Types, SchedInv, Sound, IsProcess, Within
<1>2. /\ q = proc[p].queue[1] /\ 1 \in DOMAIN proc[p].queue
      /\ q.next_run_at \in Nat /\ q.epoch \in Nat
  BY <1>1, HeadAndTail DEF Spec
<1>3. Knows(q)
  BY <1>1, <1>2 DEF Listed
<1>4. /\ now \in Nat /\ runs[r].at \in Nat /\ runs[r].at <= now
      /\ runs[r].epoch \in Nat /\ runs[r].bot \in Bots
  BY <1>1 DEF Within, InTime, Types, IsRun
<1>5. interval \in Nat /\ interval > 0 /\ q.interval = interval
  <2>1. /\ proc[p].run = Len(runs) /\ proc[p].run \in DOMAIN runs
        /\ runs[proc[p].run].bot = q.bot
        /\ runs[proc[p].run].trigger_type = q.trigger_type
        /\ runs[proc[p].run].interval = q.interval
    BY <1>1, <1>2 DEF OnItsRun, TablesInv, Ownership, Owns, Spec
  <2>2. Len(runs) \in r..Len(runs) /\ interval \in Nat
    BY <1>1 DEF Types, IsRun
  <2>3. q.trigger_type = "schedule" /\ q.interval = interval
    BY <2>1, <2>2 DEF ToClear, OnOneSchedule
  <2>. QED BY <1>3, <2>2, <2>3 DEF Knows
<1>6. Until(r) = runs[r].at + interval
  BY DEF Until
<1>7. now + interval >= Until(r)
  BY <1>4, <1>5, <1>6
<1>8. next_run_after(now, q.interval) = now + interval
  BY <1>5 DEF next_run_after
<1>9. CASE proc[p].pc = "touch"
  <2>1. next_run_at_of(p) = next_run_after(now, q.interval)
    BY <1>9 DEF next_run_at_of, At
  <2>. QED BY <1>7, <1>8, <2>1
<1>10. CASE proc[p].pc = "touch skipped"
  <2>1. next_run_at_of(p) = IF q.next_run_at > now THEN q.next_run_at
                            ELSE next_run_after(now, q.interval)
    BY <1>10 DEF next_run_at_of, next_run_on_skip, At
  <2>2. r # proc[p].run /\ Counts(r)
    BY <1>1, <1>10 DEF OnItsRun, ToClear
  <2>3. runs[r].epoch <= q.epoch /\ q.epoch <= started[runs[r].bot]
    BY <1>3 DEF Knows, ToClear
  <2>4. runs[r].epoch = q.epoch
    BY <1>2, <1>4, <2>3 DEF ToClear
  <2>5. q.next_run_at >= Until(r)
    BY <1>3, <2>2, <2>4 DEF Knows, ToClear
  <2>. QED BY <1>7, <1>8, <2>1, <2>5
<1>. QED BY <1>9, <1>10 DEF Touching

(* touch_bot keeps the schedule: the run counts from now on.                *)
LEMMA SchedTouch ==
  ASSUME TablesInv, TablesInv', SchedInv, NEW p \in Processes, TouchBot(p)
  PROVE  SchedInv'
<1>1. Types /\ UNCHANGED <<started, clock, lock>>
  BY DEF TablesInv, TouchBot, world
<1>2. /\ OnlyMoves(p) /\ Between(proc'[p]) /\ Within(proc[p]) /\ InRun(proc[p])
      /\ proc'[p].pc = "next" /\ proc'[p].queue = Tail(proc[p].queue)
      /\ Touching(proc[p]) /\ proc[p].pc # "idle"
  <2>1. /\ OnlyMoves(p) /\ Between(proc'[p]) /\ Within(proc[p]) /\ InRun(proc[p])
        /\ proc'[p] = [pc |-> "next", queue |-> Tail(proc[p].queue)]
    BY <1>1, TouchStep
  <2>2. Touching(proc[p]) /\ proc[p].pc # "idle"
    BY DEF TouchBot, At, Touching
  <2>. QED BY <2>1, <2>2
<1>3. /\ SameRuns
      /\ \A r \in DOMAIN runs :
              /\ SameRow(r)
              /\ r # proc[p].run => SameRun(r) /\ runs'[r].touched = runs[r].touched
  BY <1>2, TouchedRun
<1>4. /\ Listed(proc[p].queue) /\ OnItsRun(proc[p])
      /\ proc[p].queue \in Seq(Specs) /\ proc[p].queue # <<>>
      /\ proc[p].run \in DOMAIN runs /\ runs[proc[p].run].bot = Spec(p).bot
  BY <1>1, <1>2
     DEF SchedInv, Sound, Types, IsProcess, Within, TablesInv, Ownership, Owns, Spec
<1>5. Spec(p) = proc[p].queue[1]
  BY <1>4, HeadAndTail DEF Spec
<1>6. proc[p].run = Len(runs)
  BY <1>2, <1>4 DEF OnItsRun
<1>7. clock <= clock' /\ \A b \in Bots : started[b] <= started'[b]
  BY <1>1 DEF Types
<1>8. AllSpaced' /\ RunsInTime'
  BY <1>1, <1>3, <1>6, <1>7, SameSpaced, StillInTime DEF SameRuns
<1>9. ClockSet'
  <2>. SUFFICES ASSUME NEW r \in DOMAIN runs, Counts(r)',
                       runs[r].epoch = started[runs[r].bot]
                PROVE  bots'[runs[r].bot].next_run_at >= Until(r)'
    BY <1>1, <1>3 DEF ClockSet, SameRuns, SameRow
  <2>1. /\ OnOneSchedule(r, Len(runs))
        /\ Until(r)' = Until(r) /\ runs[r].bot \in Bots
    <3>1. OnOneSchedule(r, Len(runs))'
      BY DEF Counts
    <3>2. PICK n : n = Len(runs)
      OBVIOUS
    <3>3. OnOneSchedule(r, n)' /\ n \in DOMAIN runs
      BY <1>1, <1>3, <3>1, <3>2 DEF SameRuns, Types
    <3>4. OnOneSchedule(r, n)
      BY <1>1, <1>3, <3>3, OneSchedule
    <3>. QED BY <1>1, <1>3, <3>2, <3>4 DEF Until, Types, IsRun, SameRow
  <2>2. runs'[r].status \notin {"skipped", Gone}
    BY DEF Counts, Executed
  <2>3. runs'[r].status = runs[r].status
    BY <1>1, <1>4, TouchRows
  <2>4. Exists(runs[r].bot)
    BY <2>2, <2>3 DEF TablesInv, RunsGoWithBots
  <2>5. r # proc[p].run => Counts(r)
    BY <1>3 DEF SameRun
  <2>6. CASE runs[r].bot = Spec(p).bot
    <3>1. next_run_at_of(p) >= Until(r)
      BY <1>2, <2>1, <2>2, <2>3, <2>5, <2>6, TouchedClock DEF ToClear
    <3>2. bots' = [bots EXCEPT ![Spec(p).bot].next_run_at = next_run_at_of(p)]
      BY <2>4, <2>6 DEF TouchBot
    <3>3. bots'[runs[r].bot].next_run_at = next_run_at_of(p)
      BY <1>1, <2>1, <2>6, <3>2 DEF Types, BotRows
    <3>. QED BY <2>1, <3>1, <3>3
  <2>7. CASE runs[r].bot # Spec(p).bot
    <3>1. r # proc[p].run
      BY <1>4, <2>7
    <3>2. bots'[runs[r].bot] = bots[runs[r].bot]
      BY <1>1, <2>1, <2>7 DEF TouchBot, Types
    <3>. QED BY <2>1, <2>5, <3>1, <3>2 DEF SchedInv, ClockSet
  <2>. QED BY <2>6, <2>7
<1>10. PICK s : s = proc'[p]
  OBVIOUS
<1>11. Listed(s.queue)'
  <2>1. PICK rest : rest = Tail(proc[p].queue)
    OBVIOUS
  <2>2. /\ rest \in Seq(Specs) /\ Listed(rest)
        /\ \A i \in DOMAIN rest : rest[i].bot # Spec(p).bot
    <3>1. Tail(proc[p].queue) \in Seq(Specs)
      BY <1>4, HeadAndTail
    <3>2. /\ Listed(Tail(proc[p].queue))
          /\ \A i \in DOMAIN Tail(proc[p].queue) :
               Tail(proc[p].queue)[i].bot # proc[p].queue[1].bot
      BY <1>4, ListedTail
    <3>. QED BY <1>5, <2>1, <3>1, <3>2
  <2>3. \A i \in DOMAIN rest : \A r \in DOMAIN runs' :
           runs'[r].bot = rest[i].bot => SameRun(r)
    BY <1>3, <1>4, <2>2 DEF SameRuns, SameRow
  <2>4. started' \in [Bots -> Nat]
    BY <1>1 DEF Types
  <2>5. Listed(rest)'
    BY <1>1, <1>7, <2>2, <2>3, <2>4, ListedOn
  <2>6. s.queue = rest
    BY <1>2, <1>10, <2>1
  <2>. QED BY <2>5, <2>6
<1>12. Sound(proc[p])'
  BY <1>2, <1>10, <1>11 DEF Sound, Between, Brief, Within, Deciding, Submitting, Closing
<1>13. proc[p].pc # "idle" /\ lock' = p /\ proc'[p].pc # "idle"
  BY <1>1, <1>2 DEF SchedInv, OneAtATime
<1>. QED BY <1>2, <1>8, <1>9, <1>12, <1>13, SchedMoves

-----------------------------------------------------------------------------
(* Steps of the user, of the venue and of time: the engines go on as they   *)
(* were, and no run counts that did not.                                    *)
LEMMA SchedWorld ==
  ASSUME TablesInv, TablesInv', SchedInv, UNCHANGED <<proc, lock>>, SameRuns,
         \A r \in DOMAIN runs :
            /\ SameRow(r) /\ runs'[r].touched = runs[r].touched
            /\ runs'[r].status \in {runs[r].status, Gone},
         \A b \in Bots : started[b] <= started'[b], clock <= clock', ClockSet'
  PROVE  SchedInv'
<1>1. Types /\ clock \in Nat /\ clock' \in Nat /\ started' \in [Bots -> Nat]
  BY DEF TablesInv, Types
<1>2. /\ DOMAIN runs' = DOMAIN runs /\ Len(runs') = Len(runs)
      /\ \A r \in DOMAIN runs :
            /\ runs'[r].bot = runs[r].bot /\ runs'[r].epoch = runs[r].epoch
            /\ runs'[r].at = runs[r].at
            /\ runs'[r].trigger_type = runs[r].trigger_type
            /\ runs'[r].interval = runs[r].interval
            /\ SameRun(r)
  BY <1>1, CountsStill DEF SameRuns, SameRow, Types
<1>3. AllSpaced'
  BY <1>1, <1>2, SameSpaced
<1>4. RunsInTime'
  BY <1>2, StillInTime
<1>5. OneAtATime'
  BY DEF SchedInv, OneAtATime
<1>6. ASSUME NEW p \in Processes PROVE Sound(proc[p])'
  <2>1. /\ Sound(proc[p]) /\ IsProcess(proc[p]) /\ proc[p].queue \in Seq(Specs)
    BY <1>1 DEF SchedInv, Types, IsProcess
  <2>2. PICK s : s = proc[p]
    OBVIOUS
  <2>3. Listed(s.queue)'
    BY <1>1, <1>2, <2>1, <2>2, ListedOn DEF Sound
  <2>4. ASSUME Within(s) PROVE InTime(s)'
    <3>1. s.now \in Nat /\ s.now <= clock
      BY <2>1, <2>2, <2>4 DEF Within, Sound, InTime
    <3>. QED BY <1>1, <1>2, <2>1, <2>2, <2>4, <3>1 DEF Sound, InTime
  <2>5. ASSUME Within(s) PROVE OnItsRun(s)'
    <3>1. InRun(s) => s.run \in DOMAIN runs
      BY <2>2 DEF TablesInv, Ownership, Owns
    <3>. QED BY <1>2, <2>1, <2>2, <2>5, <3>1 DEF Sound, OnItsRun
  <2>. QED BY <2>2, <2>3, <2>4, <2>5 DEF Sound
<1>. QED BY <1>3, <1>4, <1>5, <1>6 DEF SchedInv

(* The user keeps the schedule: starting a bot begins a new count.          *)
LEMMA SchedUser ==
  ASSUME TablesInv, TablesInv', SchedInv, User
  PROVE  SchedInv'
<1>1. Types
  BY DEF TablesInv
<1>2. /\ started' \in [Bots -> Nat] /\ SameRuns /\ UNCHANGED <<proc, clock, lock>>
      /\ \A b \in Bots : started[b] <= started'[b]
      /\ \A b \in Bots : started[b] = started'[b] /\ bots'[b].status # Gone
               => bots'[b].next_run_at = bots[b].next_run_at
      /\ UNCHANGED runs \/ \E b \in Bots : DeleteBot(b)
  BY <1>1, UserRows DEF UserStays
<1>3. ASSUME NEW r \in DOMAIN runs
      PROVE  /\ SameRow(r) /\ runs'[r].touched = runs[r].touched
             /\ runs'[r].status \in {runs[r].status, Gone}
  <2>1. CASE runs'[r] = runs[r]
    BY <1>2, <2>1, SameIsSame DEF SameRuns
  <2>2. CASE runs'[r] = [runs[r] EXCEPT !.status = Gone]
    <3>1. IsRun(runs[r])
      BY <1>1 DEF Types
    <3>2. /\ runs'[r].status = Gone /\ runs'[r].touched = runs[r].touched
          /\ runs'[r].bot = runs[r].bot /\ runs'[r].epoch = runs[r].epoch
          /\ runs'[r].at = runs[r].at /\ runs'[r].interval = runs[r].interval
          /\ runs'[r].trigger_type = runs[r].trigger_type
      BY <2>2, <3>1 DEF IsRun
    <3>. QED BY <1>2, <3>2 DEF SameRow, SameRuns, Executed
  <2>3. runs'[r] = runs[r] \/ runs'[r] = [runs[r] EXCEPT !.status = Gone]
    BY <1>2 DEF DeleteBot
  <2>. QED BY <2>1, <2>2, <2>3
<1>4. \A r \in DOMAIN runs : SameRun(r)
  BY <1>1, <1>2, <1>3, CountsStill DEF SameRuns, Types
<1>5. ClockSet'
  <2>. SUFFICES ASSUME NEW r \in DOMAIN runs, Counts(r)',
                       runs'[r].epoch = started'[runs'[r].bot]
                PROVE  bots'[runs'[r].bot].next_run_at >= Until(r)'
    BY <1>2 DEF ClockSet, SameRuns
  <2>1. PICK b \in Bots : b = runs[r].bot
    BY <1>1 DEF Types, IsRun
  <2>2. runs'[r].bot = b /\ runs'[r].epoch = runs[r].epoch /\ Counts(r)
    BY <1>4, <2>1 DEF SameRun, SameRow
  <2>3. runs[r].epoch <= started[b] /\ runs[r].epoch \in Nat /\ started[b] \in Nat
        /\ started'[b] \in Nat /\ started[b] <= started'[b]
    BY <1>1, <1>2, <2>1 DEF SchedInv, RunsInTime, Types, IsRun
  <2>4. runs[r].epoch = started[b] /\ started'[b] = started[b]
    BY <2>2, <2>3
  <2>5. bots'[b].status # Gone
    <3>1. runs'[r].status # Gone
      BY DEF Counts, Executed
    <3>. QED BY <1>2, <2>2, <3>1 DEF TablesInv, RunsGoWithBots, Exists, SameRuns
  <2>6. bots'[b].next_run_at = bots[b].next_run_at
    BY <1>2, <2>4, <2>5
  <2>7. bots[b].next_run_at >= Until(r)
    BY <2>1, <2>2, <2>4 DEF SchedInv, ClockSet
  <2>8. Until(r)' = Until(r)
    BY <1>4, SameUntil
  <2>. QED BY <2>2, <2>6, <2>7, <2>8
<1>6. clock <= clock'
  BY <1>1, <1>2 DEF Types
<1>. QED BY <1>2, <1>3, <1>5, <1>6, SchedWorld

(* Every step keeps the schedule.                                           *)
LEMMA SchedStep ==
  ASSUME TablesInv, SchedInv, Requests = {}, [EvalNext]_evalVars, ~severed'
  PROVE  SchedInv'
<1>1. TablesInv' /\ Types
  BY TablesStep DEF TablesInv
<1>2. ASSUME NEW p \in Processes, QuietStep(p) PROVE SchedInv'
  <2>1. \A b \in Bots : ~GetBot(p, b)
    BY DEF GetBot
  <2>2. CASE TryLock(p) \/ Finished(p) \/ Unlock(p)
    BY <2>2, SchedLock
  <2>3. CASE ListRows(p)
    BY <2>3, SchedListRows
  <2>4. CASE ListTargets(p)
    BY <2>4, SchedListTargets
  <2>5. CASE Begin(p)
    BY <2>5, SchedBegin
  <2>6. CASE ReadPositions(p) \/ Decide(p) \/ BrokerUnavailable(p)
    BY <2>6, SchedDeciding
  <2>7. CASE Crash(p) \/ Raise(p)
    BY <2>7, SchedFault
  <2>. QED BY <1>2, <2>1, <2>2, <2>3, <2>4, <2>5, <2>6, <2>7 DEF QuietStep
<1>3. ASSUME NEW p \in Processes, Skip(p) PROVE SchedInv'
  BY <1>3, SchedCreate DEF Skip, Outcome, Deciding, Closing
<1>4. ASSUME NEW p \in Processes, Fail(p) PROVE SchedInv'
  BY <1>4, SchedCreate DEF Fail, Outcome, Deciding, Closing
<1>5. ASSUME NEW p \in Processes, StartRun(p) PROVE SchedInv'
  BY <1>5, SchedCreate DEF StartRun, Outcome, Deciding, Submitting
<1>6. CASE User
  BY <1>1, <1>6, SchedUser
<1>7. CASE Tick \/ (\E id \in DOMAIN resting : FillsLater(id)) \/ UNCHANGED evalVars
  <2>1. UNCHANGED <<proc, lock, runs, bots, started>> /\ clock' \in {clock, clock + 1}
    BY <1>7 DEF Tick, FillsLater, evalVars, tables, history, world
  <2>2. SameRuns /\ clock <= clock' /\ \A b \in Bots : started[b] <= started'[b]
    BY <1>1, <2>1 DEF SameRuns, Types
  <2>3. \A r \in DOMAIN runs :
            /\ SameRow(r) /\ runs'[r].touched = runs[r].touched
            /\ runs'[r].status \in {runs[r].status, Gone}
    BY <2>1, SameIsSame
  <2>4. ClockSet'
    BY <2>1 DEF SchedInv, ClockSet, Counts, Executed, Until, OnOneSchedule
  <2>. QED BY <1>1, <2>1, <2>2, <2>3, <2>4, SchedWorld
<1>8. ASSUME NEW p \in Processes PROVE ~LoseSession(p)
  BY DEF LoseSession
<1>. QED BY <1>1, <1>2, <1>3, <1>4, <1>5, <1>6, <1>7, <1>8, NextSteps, SchedPlaces,
            SchedFinish, SchedTouch

(* At first nothing has run and nobody is at work.                          *)
LEMMA SchedInit == EvalInit => SchedInv
<1>. SUFFICES ASSUME EvalInit PROVE SchedInv
  OBVIOUS
<1>1. DOMAIN runs = {}
  BY DEF EvalInit
<1>2. \A p \in Processes : proc[p] = Idle
  BY DEF EvalInit
<1>3. ASSUME NEW p \in Processes PROVE Sound(proc[p])
  <2>1. proc[p].pc = "idle" /\ proc[p].queue = <<>>
    BY <1>2 DEF Idle
  <2>2. Listed(proc[p].queue)
    BY <2>1 DEF Listed
  <2>. QED BY <2>1, <2>2 DEF Sound, Within, Deciding, Submitting, Closing
<1>4. OneAtATime
  BY <1>2 DEF OneAtATime, Idle
<1>. QED BY <1>1, <1>3, <1>4 DEF SchedInv, RunsInTime, ClockSet, AllSpaced

(* What the lock has lost it does not get back.                             *)
LEMMA StaysSevered ==
  ASSUME severed, [EvalNext]_evalVars
  PROVE  severed'
<1>1. ASSUME NEW p \in Processes, Step(p) PROVE severed' = severed
  <2>1. CASE TryLock(p) \/ ListRows(p) \/ ListTargets(p) \/ Finished(p) \/ Unlock(p)
             \/ \E b \in Bots : GetBot(p, b)
    BY <2>1 DEF TryLock, ListRows, ListTargets, Finished, Unlock, GetBot, history
  <2>2. CASE Begin(p) \/ ReadPositions(p) \/ Decide(p) \/ BrokerUnavailable(p)
    BY <2>2 DEF Begin, ReadPositions, Decide, BrokerUnavailable, history
  <2>3. CASE Skip(p) \/ Fail(p) \/ StartRun(p)
    BY <2>3 DEF Skip, Fail, StartRun, CreateRun, history
  <2>4. CASE RecordOrder(p) \/ Place(p) \/ UpdateOrder(p) \/ FinishRun(p) \/ TouchBot(p)
    BY <2>4 DEF RecordOrder, Place, UpdateOrder, FinishRun, TouchBot, history
  <2>. QED BY <1>1, <2>1, <2>2, <2>3, <2>4 DEF Step
<1>2. ASSUME NEW p \in Processes, Crash(p) \/ Raise(p) \/ LoseSession(p) PROVE severed'
  BY <1>2 DEF Crash, Raise, LoseSession
<1>3. CASE User
  BY <1>3 DEF User, Controls, SetStatus, CheckPaused, UpdateBot, DeleteBot, Edit, UserStays
<1>4. CASE Tick \/ (\E id \in DOMAIN resting : FillsLater(id)) \/ UNCHANGED evalVars
  BY <1>4 DEF Tick, FillsLater, history, evalVars
<1>. QED BY <1>1, <1>2, <1>3, <1>4 DEF EvalNext

(* The schedule is honoured: two runs that execute a plan of a bot are an   *)
(* interval apart if every evaluation from the one to the other finds the   *)
(* bot on one schedule, unless the user started the bot anew between them   *)
(* or the first one was never written back; when no run is forced by hand   *)
(* and the lock's session has not died under a living engine, as in         *)
(* scheduler.py it can: then two engines evaluate at once.                  *)
THEOREM ScheduleIsHonoured ==
  ASSUME Requests = {}
  PROVE  EvalSpec => []ScheduleHonoured
<1>1. TablesInv /\ (severed \/ SchedInv) /\ [EvalNext]_evalVars => (severed \/ SchedInv)'
  BY SchedStep, StaysSevered
<1>2. EvalInit => severed \/ SchedInv
  BY SchedInit
<1>3. TablesInv /\ (severed \/ SchedInv) => ScheduleHonoured
  BY SpacedMeansHonoured DEF ScheduleHonoured
<1>. QED BY <1>1, <1>2, <1>3, TablesAlways, PTL DEF EvalSpec

-----------------------------------------------------------------------------
(* Plans stand: what is left of one can be carried out, from the k-th order *)
(* on and at the prices it was made for, out of the account as it is.       *)
Carries(q, k, at, c, h) ==
  /\ q \in Seq(PlannedOrder)
  /\ \A j \in k..Len(q) : /\ q[j].value = value_of(q[j].quantity, at[q[j].symbol])
                          /\ q[j].side = "sell" => q[j].quantity <= h[q[j].symbol]
                          /\ Whole(q[j].quantity)
  /\ \A i, j \in k..Len(q) : i # j => q[i].symbol # q[j].symbol
  /\ \E g \in [0..Len(q) -> Nat] :
       /\ g[k - 1] = c
       /\ \A j \in k..Len(q) :
            g[j] = IF q[j].side = "buy" THEN g[j - 1] - q[j].value ELSE g[j - 1] + q[j].value

(* What an evaluation has read, it can rely on: nobody else trades.         *)
Relies(s, c, h) ==
  /\ s.pc = "account" => s.held = h
  /\ s.pc \in {"create", "record", "place"} => Carries(s.plan, s.i, s.price, c, h)
  /\ s.pc = "update" => s.result = "filled" /\ Carries(s.plan, s.i + 1, s.price, c, h)

NoneRejected == \A id \in DOMAIN orders : orders[id].status # "rejected"
StandsInv ==
  /\ DOMAIN resting = {} /\ NoneRejected
  /\ \A s \in Symbols : Whole(position[s])
  /\ \A p \in Processes : Relies(proc[p], cash, position)

(* What the broker reads of a position, whole shares among them.            *)
LEMMA ReadAsStored ==
  ASSUME SHARE % GRAIN = 0, NEW n \in Nat, Whole(n)
  PROVE  held_as_read(n) = n
<1>1. SHARE \in Nat \ {0} /\ GRAIN \in Nat \ {0}
  BY ShareAssumption, GrainAssumption
<1>2. PICK k \in Nat : n = k * SHARE
  BY DEF Whole
<1>. DEFINE j == SHARE \div GRAIN
<1>3. j \in Nat /\ SHARE = GRAIN * j + (SHARE % GRAIN)
  BY <1>1, DivBelow, Z3
<1>. HIDE DEF j
<1>4. SHARE = j * GRAIN
  <2>1. GRAIN * j = j * GRAIN /\ GRAIN * j \in Nat
    BY <1>1, <1>3, Z3
  <2>. QED BY <1>3, <2>1
<1>. DEFINE m == k * j
<1>5. m \in Nat /\ n = m * GRAIN
  BY <1>1, <1>2, <1>3, <1>4, Z3
<1>. HIDE DEF m
<1>6. money(m * GRAIN, GRAIN) = m
  BY <1>1, <1>5, HalfUpOfWhole DEF money
<1>. QED BY <1>5, <1>6 DEF held_as_read

(* Whole shares added to and taken from whole shares.                       *)
LEMMA WholeTrade ==
  ASSUME NEW h \in Nat, NEW q \in Nat, Whole(h), Whole(q)
  PROVE  Whole(h + q) /\ (q <= h => Whole(h - q))
<1>1. SHARE \in Nat \ {0}
  BY ShareAssumption
<1>2. PICK k \in Nat, j \in Nat : h = k * SHARE /\ q = j * SHARE
  BY DEF Whole
<1>3. k + j \in Nat /\ h + q = (k + j) * SHARE
  BY <1>1, <1>2, Z3
<1>4. ASSUME q <= h PROVE k - j \in Nat /\ h - q = (k - j) * SHARE
  <2>1. j <= k
    <3>. SUFFICES ASSUME k + 1 <= j PROVE FALSE
      BY <1>2
    <3>1. (k + 1) * SHARE <= j * SHARE
      BY <1>1, Z3
    <3>2. (k + 1) * SHARE = k * SHARE + SHARE
      BY <1>1, Z3
    <3>. QED BY <1>1, <1>2, <1>4, <3>1, <3>2
  <2>2. (k - j) * SHARE = k * SHARE - j * SHARE
    BY <1>1, Z3
  <2>. QED BY <1>2, <2>1, <2>2
<1>. QED BY <1>3, <1>4 DEF Whole

(* The account accepts the first order of what it can carry out.            *)
LEMMA FirstIsAccepted ==
  ASSUME SHARE % GRAIN = 0, NEW q, NEW k \in Nat \ {0}, k <= Len(q),
         NEW at \in [Symbols -> Nat], NEW c \in Nat, NEW h \in [Symbols -> Nat],
         Carries(q, k, at, c, h), \A s \in Symbols : Whole(h[s])
  PROVE  accepts(q[k].side, q[k].quantity, at[q[k].symbol], c, h[q[k].symbol])
<1>1. Len(q) \in Nat /\ k \in 1..Len(q) /\ k \in k..Len(q) /\ q[k] \in PlannedOrder
  <2>1. q \in Seq(PlannedOrder)
    BY DEF Carries
  <2>2. Len(q) \in Nat /\ \A i \in 1..Len(q) : q[i] \in PlannedOrder
    BY <2>1, Lengths
  <2>. QED BY <2>2
<1>2. PICK o : o = q[k]
  OBVIOUS
<1>3. /\ o.symbol \in Symbols /\ o.side \in {"sell", "buy"} /\ o.quantity \in Nat
      /\ o.value \in Nat
  BY <1>1, <1>2 DEF PlannedOrder
<1>4. PICK g \in [0..Len(q) -> Nat] :
        /\ g[k - 1] = c
        /\ \A j \in k..Len(q) :
             g[j] = IF q[j].side = "buy" THEN g[j - 1] - q[j].value ELSE g[j - 1] + q[j].value
  BY DEF Carries
<1>5. o.value = value_of(o.quantity, at[o.symbol])
  BY <1>1, <1>2 DEF Carries
<1>6. CASE o.side = "buy"
  <2>1. g[k] = c - o.value /\ g[k] \in Nat
    BY <1>1, <1>2, <1>4, <1>6
  <2>2. o.value <= c
    BY <1>3, <2>1
  <2>. QED BY <1>2, <1>5, <1>6, <2>2 DEF accepts
<1>7. CASE o.side = "sell"
  <2>1. o.quantity <= h[o.symbol] /\ h[o.symbol] \in Nat
    BY <1>1, <1>2, <1>3, <1>7 DEF Carries
  <2>2. o.quantity <= held_as_read(h[o.symbol])
    BY <1>3, <2>1, ReadAsStored
  <2>. QED BY <1>2, <1>7, <2>2 DEF accepts
<1>. QED BY <1>3, <1>6, <1>7

(* Once it is carried out, the account can carry out the rest.              *)
LEMMA RestIsCarried ==
  ASSUME NEW q, NEW k \in Nat \ {0}, k <= Len(q),
         NEW at \in [Symbols -> Nat], NEW c \in Nat, NEW h \in [Symbols -> Nat],
         Carries(q, k, at, c, h), NEW held,
         NEW d, d = cash_after(q[k].side, q[k].quantity, at[q[k].symbol], c),
         NEW e, e = [h EXCEPT ![q[k].symbol] = held]
  PROVE  Carries(q, k + 1, at, d, e)
<1>1. q \in Seq(PlannedOrder)
  BY DEF Carries
<1>2. Len(q) \in Nat /\ \A i \in 1..Len(q) : q[i] \in PlannedOrder
  BY <1>1, Lengths
<1> DEFINE n == Len(q)
<1> HIDE DEF n
<1>3. n \in Nat /\ k \in k..n /\ k \in 1..n /\ k <= n
  BY <1>2 DEF n
<1>4. (k + 1) - 1 = k /\ \A j \in (k + 1)..n : j \in k..n /\ j # k /\ j \in 1..n
  BY <1>3
<1>5. PICK g \in [0..n -> Nat] :
        /\ g[k - 1] = c
        /\ \A j \in k..n :
             g[j] = IF q[j].side = "buy" THEN g[j - 1] - q[j].value ELSE g[j - 1] + q[j].value
  BY DEF Carries, n
<1>6. PICK o : o = q[k]
  OBVIOUS
<1>7. o.value = value_of(o.quantity, at[o.symbol])
  BY <1>3, <1>6 DEF Carries, n
<1>8. g[k] = d
  BY <1>3, <1>5, <1>6, <1>7 DEF cash_after
<1>9. \A j \in (k + 1)..n : q[j].symbol # o.symbol /\ q[j].symbol \in Symbols
  BY <1>2, <1>3, <1>4, <1>6 DEF Carries, n, PlannedOrder
<1>10. \A j \in (k + 1)..n : e[q[j].symbol] = h[q[j].symbol]
  BY <1>6, <1>9
<1>11. \A j \in (k + 1)..n :
          /\ q[j].value = value_of(q[j].quantity, at[q[j].symbol])
          /\ q[j].side = "sell" => q[j].quantity <= e[q[j].symbol]
          /\ Whole(q[j].quantity)
  BY <1>4, <1>10 DEF Carries, n
<1>12. \A i, j \in (k + 1)..n : i # j => q[i].symbol # q[j].symbol
  BY <1>4 DEF Carries, n
<1>13. /\ g[(k + 1) - 1] = d
       /\ \A j \in (k + 1)..n :
            g[j] = IF q[j].side = "buy" THEN g[j - 1] - q[j].value ELSE g[j - 1] + q[j].value
  BY <1>4, <1>5, <1>8
<1>. QED BY <1>1, <1>5, <1>11, <1>12, <1>13 DEF Carries, n

-----------------------------------------------------------------------------
(* The steps of the invariant.                                              *)

(* A step that leaves the account alone.                                    *)
LEMMA StandsOn ==
  ASSUME StandsInv, NEW p \in Processes, OnlyMoves(p),
         UNCHANGED <<cash, position, resting>>, NoneRejected',
         Relies(proc'[p], cash, position)
  PROVE  StandsInv'
BY DEF StandsInv, OnlyMoves

(* A process that relies on nothing.                                        *)
LEMMA NothingRelied ==
  ASSUME NEW s, s.pc \notin {"account", "create", "record", "place", "update"}, NEW c, NEW h
  PROVE  Relies(s, c, h)
BY DEF Relies

(* The plan that is decided on is one the account can carry out.            *)
LEMMA StandsDecide ==
  ASSUME TablesInv, AmountsInv, StandsInv, NEW p \in Processes, Decide(p),
         \A s \in BotSettings : ~s.allow_fractional
  PROVE  Relies(proc'[p], cash, position)
<1>1. /\ proc[p].pc = "account" /\ Types /\ DOMAIN proc = Processes
      /\ IsProcess(proc[p]) /\ Within(proc[p])
  BY DEF Decide, At, TablesInv, Types, IsProcess, Between, Brief
<1>2. CASE ~plannable(CallOf(p))
  <2>1. proc'[p] = [proc[p] EXCEPT !.pc = "fail"]
    BY <1>1, <1>2, Went DEF Decide
  <2>2. proc'[p].pc = "fail"
    BY <1>1, <2>1 DEF Within
  <2>. QED BY <2>2, NothingRelied
<1>3. CASE plannable(CallOf(p))
  <2> DEFINE c == CallOf(p)
  <2>1. Executable(c, ordered(c))
    BY <1>1, <1>3, PlanOfCall
  <2>2. /\ c.cash = cash /\ c.price = proc[p].price /\ c.held = proc[p].held
        /\ c.settings = Spec(p).settings
    BY DEF CallOf
  <2>3. proc[p].held = position
    BY <1>1 DEF StandsInv, Relies
  <2>4. proc[p].i = 1
    BY <1>1, InProgress DEF Progress, Deciding
  <2> HIDE DEF c
  <2>5. PICK q : q = ordered(c)
    OBVIOUS
  <2>6. PICK pc \in {"create", "skip"} :
          proc' = [proc EXCEPT ![p].pc = pc, ![p].plan = q]
    <3>1. proc' = [proc EXCEPT
            ![p].pc = IF Due(p) /\ ordered(c) # <<>> THEN "create" ELSE "skip",
            ![p].plan = ordered(c)]
      BY <1>3 DEF Decide, c
    <3>. QED BY <2>5, <3>1
  <2>7. proc'[p].pc = pc /\ proc'[p].plan = q /\ proc'[p].i = 1
        /\ proc'[p].price = proc[p].price
    BY <1>1, <2>4, <2>6 DEF Within
  <2>8. InWholeShares(c)
    <3>1. Spec(p) \in Specs
      BY <1>1, HeadAndTail DEF Spec, IsProcess, Within
    <3>2. Spec(p).settings \in BotSettings
      BY <3>1 DEF Specs
    <3>. QED BY <2>2, <2>3, <3>2 DEF InWholeShares, StandsInv
  <2>9. Carries(q, 1, proc[p].price, cash, position)
    <3>1. 1 - 1 = 0
      OBVIOUS
    <3>. QED BY <2>8, <2>1, <2>2, <2>3, <2>5, <3>1 DEF Executable, PaysItsWay, OrderOf, Carries
  <2>. QED BY <2>7, <2>9 DEF Relies
<1>. QED BY <1>2, <1>3

(* Reading and deciding: what is read is what is there.                     *)
LEMMA QuietRelies ==
  ASSUME TablesInv, AmountsInv, StandsInv, NEW p \in Processes, QuietStep(p),
         \A s \in BotSettings : ~s.allow_fractional
  PROVE  Relies(proc'[p], cash, position)
<1>1. Types /\ OnlyMoves(p) /\ UNCHANGED <<tables, account>>
  BY QuietMoves DEF TablesInv, MovesOn
<1>2. IsProcess(proc[p]) /\ DOMAIN proc = Processes
  BY <1>1 DEF Types
<1>3. CASE Decide(p)
  BY <1>3, StandsDecide
<1>4. CASE ReadPositions(p)
  <2>1. Within(proc[p])
    BY <1>2, <1>4 DEF ReadPositions, At, IsProcess, Between, Brief
  <2>2. proc'[p].pc = "account" /\ proc'[p].held = position
    BY <1>2, <1>4, <2>1 DEF ReadPositions, Within
  <2>. QED BY <2>2 DEF Relies
<1>5. CASE BrokerUnavailable(p)
  <2>1. Within(proc[p])
    BY <1>2, <1>5 DEF BrokerUnavailable, At, IsProcess, Between, Brief
  <2>2. proc'[p].pc = "fail"
    BY <1>2, <1>5, <2>1 DEF BrokerUnavailable, Goto, Within
  <2>. QED BY <2>2, NothingRelied
<1>6. CASE Begin(p)
  <2>1. proc'[p].pc \in {"skip", "positions"}
    BY <1>2, <1>6 DEF Begin, Becomes
  <2>. QED BY <2>1, NothingRelied
<1>7. CASE Crash(p) \/ Raise(p)
  <2>1. Between(proc'[p])
    BY <1>1, <1>7, FaultStep
  <2>. QED BY <2>1, NothingRelied DEF Between, Brief
<1>8. CASE \/ TryLock(p) \/ ListRows(p) \/ ListTargets(p) \/ Finished(p) \/ Unlock(p)
           \/ \E b \in Bots : GetBot(p, b)
  <2>1. Between(proc'[p])
    BY <1>1, <1>8, BriefStep
  <2>. QED BY <2>1, NothingRelied DEF Between, Brief
<1>. QED BY <1>3, <1>4, <1>5, <1>6, <1>7, <1>8 DEF QuietStep

(* Steps that write to no table.                                            *)
LEMMA StandsQuiet ==
  ASSUME TablesInv, AmountsInv, StandsInv, NEW p \in Processes, QuietStep(p),
         \A s \in BotSettings : ~s.allow_fractional
  PROVE  StandsInv'
<1>1. OnlyMoves(p) /\ UNCHANGED <<tables, account>>
  BY QuietMoves DEF TablesInv, MovesOn
<1>2. Relies(proc'[p], cash, position)
  BY QuietRelies
<1>3. NoneRejected'
  BY <1>1 DEF StandsInv, NoneRejected, tables
<1>. QED BY <1>1, <1>2, <1>3, StandsOn DEF account

(* A run starts with the plan that was decided on.                          *)
LEMMA StandsCreate ==
  ASSUME TablesInv, AmountsInv, StandsInv, NEW p \in Processes,
         Skip(p) \/ Fail(p) \/ StartRun(p)
  PROVE  StandsInv'
<1>1. Types /\ UNCHANGED <<orders, account>>
  BY DEF TablesInv, Skip, Fail, StartRun, CreateRun
<1>2. IsProcess(proc[p]) /\ DOMAIN proc = Processes /\ Within(proc[p])
  BY <1>1 DEF Types, Skip, Fail, StartRun, CreateRun, At, IsProcess, Between, Brief
<1>3. NoneRejected'
  BY <1>1 DEF StandsInv, NoneRejected
<1>4. CASE ~Exists(Spec(p).bot)
  <2>1. Abandon(p)
    BY <1>4 DEF Skip, Fail, StartRun, CreateRun
  <2>2. OnlyMoves(p) /\ proc'[p] = [pc |-> "next", queue |-> Tail(proc[p].queue)]
    BY <1>1, <1>2, <2>1, Abandoned
  <2>3. proc'[p].pc = "next"
    BY <2>2
  <2>4. Relies(proc'[p], cash, position)
    BY <2>3, NothingRelied
  <2>. QED BY <1>1, <1>3, <2>2, <2>4, StandsOn DEF account
<1>5. CASE Exists(Spec(p).bot)
  <2>1. PICK to \in {"finish skipped", "finish failed", "record"} :
          /\ proc' = [proc EXCEPT ![p].pc = to, ![p].run = Len(runs) + 1]
          /\ to = "record" => proc[p].pc = "create"
    BY <1>5 DEF Skip, Fail, StartRun, CreateRun, At
  <2>2. /\ OnlyMoves(p) /\ proc'[p].pc = to /\ proc'[p].plan = proc[p].plan
        /\ proc'[p].i = proc[p].i /\ proc'[p].price = proc[p].price
    BY <1>2, <2>1 DEF Within, OnlyMoves
  <2>3. Relies(proc[p], cash, position)
    BY DEF StandsInv
  <2>4. Relies(proc'[p], cash, position)
    BY <2>1, <2>2, <2>3 DEF Relies
  <2>. QED BY <1>1, <1>3, <2>2, <2>4, StandsOn DEF account
<1>. QED BY <1>4, <1>5

(* The order row is written before the order is placed.                     *)
LEMMA StandsRecord ==
  ASSUME TablesInv, AmountsInv, StandsInv, NEW p \in Processes, RecordOrder(p)
  PROVE  StandsInv'
<1>1. Types /\ UNCHANGED account /\ proc[p].pc = "record"
  BY DEF TablesInv, RecordOrder, At
<1>2. IsProcess(proc[p]) /\ DOMAIN proc = Processes /\ Within(proc[p])
  BY <1>1 DEF Types, IsProcess, Between, Brief
<1>3. CASE ~Exists(Spec(p).bot)
  <2>1. Abandon(p) /\ orders' = orders
    BY <1>3 DEF RecordOrder
  <2>2. OnlyMoves(p) /\ proc'[p] = [pc |-> "next", queue |-> Tail(proc[p].queue)]
    BY <1>1, <1>2, <2>1, Abandoned
  <2>3. proc'[p].pc = "next"
    BY <2>2
  <2>4. Relies(proc'[p], cash, position)
    BY <2>3, NothingRelied
  <2>5. NoneRejected'
    BY <2>1 DEF StandsInv, NoneRejected
  <2>. QED BY <1>1, <2>2, <2>4, <2>5, StandsOn DEF account
<1>4. CASE Exists(Spec(p).bot)
  <2>1. OnlyMoves(p) /\ proc'[p] = [proc[p] EXCEPT !.pc = "place"]
    BY <1>1, <1>4, Went DEF RecordOrder
  <2>2. /\ proc'[p].pc = "place" /\ proc'[p].plan = proc[p].plan
        /\ proc'[p].i = proc[p].i /\ proc'[p].price = proc[p].price
    BY <1>2, <2>1 DEF Within
  <2>3. Relies(proc[p], cash, position)
    BY DEF StandsInv
  <2>4. Relies(proc'[p], cash, position)
    BY <1>1, <2>2, <2>3 DEF Relies
  <2>5. PICK row : /\ orders' = Inserted(orders, client_order_id(p), row)
                   /\ row.status = "pending"
    <3>. DEFINE row == [symbol |-> Planned(p).symbol, side |-> Planned(p).side,
                        quantity |-> Planned(p).quantity, status |-> "pending"]
    <3>1. orders' = Inserted(orders, client_order_id(p), row)
      BY <1>4 DEF RecordOrder
    <3>2. row.status = "pending"
      OBVIOUS
    <3>. QED BY <3>1, <3>2
  <2>6. PICK key : key = client_order_id(p)
    OBVIOUS
  <2>7. \A id \in DOMAIN orders' :
          orders'[id] = row \/ (id \in DOMAIN orders /\ orders'[id] = orders[id])
    <3>1. orders' = [id \in DOMAIN orders \cup {key} |->
                       IF id \in DOMAIN orders THEN orders[id] ELSE row]
      BY <2>5, <2>6 DEF Inserted
    <3>. QED BY <3>1
  <2>8. NoneRejected'
    BY <2>5, <2>7 DEF StandsInv, NoneRejected
  <2>. QED BY <1>1, <2>1, <2>4, <2>8, StandsOn DEF account
<1>. QED BY <1>3, <1>4

(* What is held of whole shares once the first order is carried out.        *)
LEMMA HeldIsWhole ==
  ASSUME SHARE % GRAIN = 0, NEW q, NEW k \in Nat \ {0}, k <= Len(q),
         NEW at, NEW c, NEW h \in [Symbols -> Nat], Carries(q, k, at, c, h),
         \A s \in Symbols : Whole(h[s]),
         NEW e, e = [h EXCEPT ![q[k].symbol] =
                       qty_after(q[k].side, q[k].quantity, h[q[k].symbol])]
  PROVE  \A s \in Symbols : Whole(e[s])
<1>1. q \in Seq(PlannedOrder)
  BY DEF Carries
<1>2. Len(q) \in Nat /\ \A i \in 1..Len(q) : q[i] \in PlannedOrder
  BY <1>1, Lengths
<1>3. k \in k..Len(q) /\ q[k] \in PlannedOrder
  BY <1>2
<1>4. PICK o : o = q[k]
  OBVIOUS
<1>5. /\ o.symbol \in Symbols /\ o.side \in {"sell", "buy"} /\ o.quantity \in Nat
      /\ Whole(o.quantity)
      /\ o.side = "sell" => o.quantity <= h[o.symbol]
  BY <1>3, <1>4 DEF PlannedOrder, Carries
<1>6. h[o.symbol] \in Nat /\ held_as_read(h[o.symbol]) = h[o.symbol]
  BY <1>5, ReadAsStored
<1>7. Whole(qty_after(o.side, o.quantity, h[o.symbol]))
  BY <1>5, <1>6, WholeTrade DEF qty_after
<1>. QED BY <1>4, <1>7

(* Whoever trades is alone, and the venue that never fails fills the order. *)
LEMMA StandsPlace ==
  ASSUME TablesInv, AmountsInv, OneAtATime, StandsInv, SHARE % GRAIN = 0, Outages = {},
         NEW p \in Processes, Place(p)
  PROVE  StandsInv'
<1>1. Types /\ UNCHANGED orders /\ proc[p].pc = "place"
  BY DEF TablesInv, Place, At, tables
<1>2. IsProcess(proc[p]) /\ DOMAIN proc = Processes /\ Within(proc[p])
  BY <1>1 DEF Types, IsProcess, Between, Brief
<1>3. PICK q : q = proc[p].plan
  OBVIOUS
<1>4. PICK k : k = proc[p].i
  OBVIOUS
<1>5. PICK at : at = proc[p].price
  OBVIOUS
<1>6. Carries(q, k, at, cash, position)
  BY <1>1, <1>3, <1>4, <1>5 DEF StandsInv, Relies
<1>7. k \in Nat \ {0} /\ k <= Len(q) /\ at \in [Symbols -> Nat]
  <2>1. Progress(proc[p])
    BY <1>2, InProgress
  <2>. QED BY <1>1, <1>3, <1>4, <1>5, <2>1, AmountsAssumption DEF Progress, Submitting
<1>8. cash \in Nat /\ position \in [Symbols -> Nat]
  BY DEF AmountsInv, AccountTyped
<1>9. Planned(p) = q[k]
  BY <1>3, <1>4 DEF Planned
<1>10. Fills(p)
  BY <1>5, <1>6, <1>7, <1>8, <1>9, FirstIsAccepted DEF Fills, StandsInv
<1>11. Fill(p) /\ Answers(p, "filled") /\ UNCHANGED resting
  BY <1>10 DEF Place, Answered, KeptOpen, VenueFails, Outage
<1>12. PICK held : /\ position' = [position EXCEPT ![q[k].symbol] = held]
                   /\ held = qty_after(q[k].side, q[k].quantity, position[q[k].symbol])
  <2>1. position' = [position EXCEPT ![q[k].symbol] =
                       qty_after(q[k].side, q[k].quantity, position[q[k].symbol])]
    BY <1>9, <1>11 DEF Fill, Trade
  <2>. QED BY <2>1
<1>13. cash' = cash_after(q[k].side, q[k].quantity, at[q[k].symbol], cash)
  BY <1>5, <1>9, <1>11 DEF Fill, Trade
<1>14. Carries(q, k + 1, at, cash', position')
  BY <1>6, <1>7, <1>8, <1>12, <1>13, RestIsCarried
<1>15. /\ OnlyMoves(p) /\ proc'[p].pc = "update" /\ proc'[p].result = "filled"
       /\ proc'[p].plan = q /\ proc'[p].i = k /\ proc'[p].price = at
  BY <1>2, <1>3, <1>4, <1>5, <1>11 DEF Answers, Within, OnlyMoves
<1>16. Relies(proc'[p], cash', position')
  BY <1>14, <1>15 DEF Relies
<1>17. ASSUME NEW o \in Processes, o # p PROVE Relies(proc'[o], cash', position')
  <2>1. proc'[o].pc = "idle"
    BY <1>1, <1>15, <1>17, Alone DEF OnlyMoves
  <2>. QED BY <2>1, NothingRelied
<1>18. NoneRejected'
  BY <1>1 DEF StandsInv, NoneRejected
<1>19. \A s \in Symbols : Whole(position'[s])
  BY <1>1, <1>6, <1>7, <1>8, <1>12, HeldIsWhole DEF StandsInv
<1>. QED BY <1>11, <1>16, <1>17, <1>18, <1>19 DEF StandsInv

(* The answer is written, and the next order is the first of the rest.      *)
LEMMA StandsUpdate ==
  ASSUME TablesInv, AmountsInv, StandsInv, NEW p \in Processes, UpdateOrder(p)
  PROVE  StandsInv'
<1>1. Types /\ UNCHANGED account /\ proc[p].pc = "update"
  BY DEF TablesInv, UpdateOrder, At
<1>2. IsProcess(proc[p]) /\ DOMAIN proc = Processes /\ Within(proc[p])
  BY <1>1 DEF Types, IsProcess, Between, Brief
<1>3. Relies(proc[p], cash, position)
  BY DEF StandsInv
<1>4. /\ OnlyMoves(p) /\ proc'[p].pc \in {"record", "finish"}
      /\ proc'[p].i = proc[p].i + 1 /\ proc'[p].plan = proc[p].plan
      /\ proc'[p].price = proc[p].price
  BY <1>2 DEF UpdateOrder, NextOrder, Within, OnlyMoves
<1>5. Relies(proc'[p], cash, position)
  BY <1>1, <1>3, <1>4 DEF Relies
<1>6. NoneRejected'
  <2>1. PICK key : key = client_order_id(p)
    OBVIOUS
  <2>2. /\ DOMAIN orders' = DOMAIN orders
        /\ \A id \in DOMAIN orders : id # key => orders'[id] = orders[id]
        /\ key \in DOMAIN orders => orders'[key].status = "filled"
    BY <1>1, <1>3, <2>1, UpdatedRow DEF UpdateOrder, Relies
  <2>. QED BY <2>2 DEF StandsInv, NoneRejected
<1>. QED BY <1>1, <1>4, <1>5, <1>6, StandsOn DEF account

(* Closing a run.                                                           *)
LEMMA StandsClose ==
  ASSUME TablesInv, StandsInv, NEW p \in Processes, FinishRun(p) \/ TouchBot(p)
  PROVE  StandsInv'
<1>1. Types /\ UNCHANGED <<orders, account>>
  BY DEF TablesInv, FinishRun, TouchBot
<1>2. OnlyMoves(p) /\ proc'[p].pc \in {"touch", "touch skipped", "next"}
  <2>1. CASE FinishRun(p)
    BY <1>1, <2>1, FinishStep DEF StaysWithin
  <2>2. CASE TouchBot(p)
    <3>1. OnlyMoves(p) /\ proc'[p] = [pc |-> "next", queue |-> Tail(proc[p].queue)]
      BY <1>1, <2>2, TouchStep
    <3>. QED BY <3>1
  <2>. QED BY <2>1, <2>2
<1>3. Relies(proc'[p], cash, position)
  BY <1>2, NothingRelied
<1>4. NoneRejected'
  BY <1>1 DEF StandsInv, NoneRejected
<1>. QED BY <1>1, <1>2, <1>3, <1>4, StandsOn DEF account

(* The user and time leave the account alone.                               *)
LEMMA StandsWorld ==
  ASSUME StandsInv,
         \/ User \/ Tick \/ (\E id \in DOMAIN resting : FillsLater(id))
         \/ UNCHANGED evalVars
  PROVE  StandsInv'
<1>1. CASE User
  <2>1. UNCHANGED <<account, proc>>
    BY <1>1 DEF User, Controls, SetStatus, CheckPaused, UpdateBot, DeleteBot, Edit, UserStays
  <2>2. /\ DOMAIN orders' \subseteq DOMAIN orders
        /\ \A id \in DOMAIN orders' : orders'[id] = orders[id]
    <3>1. CASE UNCHANGED orders
      BY <3>1
    <3>2. CASE \E b \in Bots : DeleteBot(b)
      BY <3>2 DEF DeleteBot
    <3>. QED BY <1>1, <3>1, <3>2 DEF User, Controls, SetStatus, CheckPaused, UpdateBot, tables
  <2>. QED BY <2>1, <2>2 DEF StandsInv, NoneRejected, account
<1>2. CASE Tick \/ UNCHANGED evalVars
  BY <1>2 DEF Tick, evalVars, tables, account, StandsInv, NoneRejected
<1>3. CASE \E id \in DOMAIN resting : FillsLater(id)
  BY <1>3 DEF StandsInv
<1>. QED BY <1>1, <1>2, <1>3

(* Every step leaves plans standing.                                        *)
LEMMA StandsStep ==
  ASSUME TablesInv, AmountsInv, OneAtATime, StandsInv, SHARE % GRAIN = 0, Outages = {},
         \A s \in BotSettings : ~s.allow_fractional, [EvalNext]_evalVars, ~severed'
  PROVE  StandsInv'
<1>1. ASSUME NEW p \in Processes PROVE ~LoseSession(p)
  BY DEF LoseSession
<1>. QED BY <1>1, NextSteps, StandsQuiet, StandsCreate, StandsRecord, StandsPlace,
            StandsUpdate, StandsClose, StandsWorld

(* Plans stand: of no plan an order is rejected, however the days, the user *)
(* and the engines change while it is placed; for bots that trade whole     *)
(* shares, a share being so many of the grains in which the broker reads a  *)
(* position, when no run is forced by hand, the venue never fails and the   *)
(* lock's session has not died under a living engine.                       *)
THEOREM PlansStand ==
  ASSUME Requests = {}, Outages = {}, SHARE % GRAIN = 0,
         \A s \in BotSettings : ~s.allow_fractional
  PROVE  EvalSpec => []PlanStands
<1>1. EvalInit => StandsInv
  <2>. SUFFICES ASSUME EvalInit PROVE StandsInv
    OBVIOUS
  <2>1. DOMAIN resting = {} /\ NoneRejected
    BY DEF EvalInit, NoneRejected
  <2>2. \A p \in Processes : Relies(proc[p], cash, position)
    BY DEF EvalInit, Idle, Relies
  <2>3. 0 = 0 * SHARE
    BY ShareAssumption
  <2>4. \A s \in Symbols : Whole(position[s])
    BY <2>3 DEF EvalInit, Whole
  <2>. QED BY <2>1, <2>2, <2>4 DEF StandsInv
<1>. DEFINE Inv == severed \/ (SchedInv /\ StandsInv)
<1>2. EvalInit => Inv
  BY <1>1, SchedInit
<1>3. TablesInv /\ AmountsInv /\ Inv /\ [EvalNext]_evalVars => Inv'
  BY SchedStep, StandsStep, StaysSevered DEF SchedInv
<1>4. Inv => PlanStands
  BY DEF StandsInv, NoneRejected, PlanStands
<1>. QED BY <1>2, <1>3, <1>4, AmountsAlways, PTL DEF EvalSpec
=============================================================================
