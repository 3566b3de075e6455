----------------------------- MODULE Scheduler -----------------------------
(***************************************************************************)
(* The evaluation loops of the engines on one database,                    *)
(* api/src/engine/scheduler.py, with the lifespan that starts and stops    *)
(* them (main.py): a Postgres session-level advisory lock elects the one   *)
(* that evaluates.  What evaluating a bot does is Evaluation's subject;    *)
(* here it begins, takes its time, and ends or raises.                     *)
(***************************************************************************)
EXTENDS Sequences, SequencesExt, FiniteSets

CONSTANTS Engines,      \* containers, blue and green
          Bots,
          Failing,      \* bots whose evaluation always raises
          Faults,       \* bound on crashes, failed ticks and lost sessions
          None

ASSUME SchedulerAssumption ==
  /\ Failing \subseteq Bots /\ None \notin Engines \cup Bots
  /\ Faults \in Nat /\ IsFiniteSet(Bots)

VARIABLES phase,      \* of each container
          pc,         \* where its scheduler task is
          todo,       \* bots its tick has still to evaluate
          busy,       \* the bot it is evaluating, or None
          lock,       \* the engine whose session holds the lock, or None
          is_leader,  \* what each engine's /ready reports
          running,    \* bots with status 'running'
          severed,    \* history: a lock's connection died under its engine
          faults

schedVars == <<phase, pc, todo, busy, lock, is_leader, running, severed, faults>>

Phases == {"down", "up", "draining", "stopped"}
Points == {"off", "tick", "list", "loop", "evaluate", "unlock", "sleep", "exited"}
Leading == {"list", "loop", "evaluate", "unlock"}

SchedInit ==
  /\ phase = [e \in Engines |-> "down"] /\ pc = [e \in Engines |-> "off"]
  /\ todo = [e \in Engines |-> <<>>] /\ busy = [e \in Engines |-> None]
  /\ lock = None /\ is_leader = [e \in Engines |-> FALSE]
  /\ running \in SUBSET Bots
  /\ severed = FALSE /\ faults = 0

Alive(e) == phase[e] \in {"up", "draining"}
ready_leader(e) == Alive(e) /\ is_leader[e]     \* what GET /ready answers
Goto(e, there) == pc' = [pc EXCEPT ![e] = there]
stopping(e) == phase[e] = "draining"

(* Postgres gives the lock back with the session that took it, or when the  *)
(* session asks.                                                            *)
ReleasedBy_kept(e) == lock
ReleasedBy(e) == IF lock = e THEN None ELSE lock

-----------------------------------------------------------------------------
(* start, and the loop. *)

Begin(e) ==
  /\ phase' = [phase EXCEPT ![e] = "up"] /\ Goto(e, "tick")
  /\ is_leader' = [is_leader EXCEPT ![e] = FALSE]
  /\ UNCHANGED <<todo, busy, lock, running, severed, faults>>
Start(e) == phase[e] = "down" /\ Begin(e)       \* first, or after a crash
Deploy(e) == phase[e] = "stopped" /\ Begin(e)   \* its colour's turn again

(* while not self._stopping.is_set(), after the wait between two ticks.     *)
Wake_regardless(e) ==
  /\ Alive(e) /\ pc[e] = "sleep"
  /\ Goto(e, "tick")
  /\ UNCHANGED <<phase, todo, busy, lock, is_leader, running, severed, faults>>
Wake(e) ==
  /\ Alive(e) /\ pc[e] = "sleep"
  /\ Goto(e, IF stopping(e) THEN "exited" ELSE "tick")
  /\ UNCHANGED <<phase, todo, busy, lock, is_leader, running, severed, faults>>

TryLock_ignored(e) ==
  /\ pc[e] = "tick"
  /\ lock' = e /\ Goto(e, "list")
  /\ is_leader' = [is_leader EXCEPT ![e] = TRUE]
  /\ UNCHANGED <<phase, todo, busy, running, severed, faults>>
TryLock(e) ==
  /\ pc[e] = "tick" /\ lock = None
  /\ lock' = e /\ Goto(e, "list")
  /\ is_leader' = [is_leader EXCEPT ![e] = TRUE]
  /\ UNCHANGED <<phase, todo, busy, running, severed, faults>>

StandBy(e) ==
  /\ pc[e] = "tick" /\ lock # None
  /\ Goto(e, "sleep")
  /\ is_leader' = [is_leader EXCEPT ![e] = FALSE]
  /\ UNCHANGED <<phase, todo, busy, lock, running, severed, faults>>

(* list_running_bots.  The order is that of next_run_at, which is anything. *)
ListBots(e) ==
  /\ pc[e] = "list"
  /\ \E order \in SetToSeqs(running) : todo' = [todo EXCEPT ![e] = order]
  /\ Goto(e, "loop")
  /\ UNCHANGED <<phase, busy, lock, is_leader, running, severed, faults>>

Evaluate(e) ==
  /\ pc[e] = "loop" /\ todo[e] # <<>> /\ ~stopping(e)
  /\ busy' = [busy EXCEPT ![e] = Head(todo[e])]
  /\ todo' = [todo EXCEPT ![e] = Tail(@)]
  /\ Goto(e, "evaluate")
  /\ UNCHANGED <<phase, lock, is_leader, running, severed, faults>>

Evaluated_still_busy(e) ==
  /\ pc[e] = "evaluate" /\ busy[e] \notin Failing
  /\ Goto(e, "loop")
  /\ UNCHANGED <<phase, todo, busy, lock, is_leader, running, severed, faults>>
Evaluated(e) ==
  /\ pc[e] = "evaluate" /\ busy[e] \notin Failing
  /\ busy' = [busy EXCEPT ![e] = None] /\ Goto(e, "loop")
  /\ UNCHANGED <<phase, todo, lock, is_leader, running, severed, faults>>

(* except Exception: logged, and on to the next bot.                        *)
EvaluationRaises_ending_tick(e) ==
  /\ pc[e] = "evaluate" /\ busy[e] \in Failing
  /\ busy' = [busy EXCEPT ![e] = None] /\ Goto(e, "unlock")
  /\ todo' = [todo EXCEPT ![e] = <<>>]
  /\ UNCHANGED <<phase, lock, is_leader, running, severed, faults>>
EvaluationRaises(e) ==
  /\ pc[e] = "evaluate" /\ busy[e] \in Failing
  /\ busy' = [busy EXCEPT ![e] = None] /\ Goto(e, "loop")
  /\ UNCHANGED <<phase, todo, lock, is_leader, running, severed, faults>>

(* The loop has run out of bots, or defers the rest to the next container.  *)
LoopEnds(e) ==
  /\ pc[e] = "loop" /\ (todo[e] = <<>> \/ stopping(e))
  /\ todo' = [todo EXCEPT ![e] = <<>>] /\ Goto(e, "unlock")
  /\ UNCHANGED <<phase, busy, lock, is_leader, running, severed, faults>>

(* finally: pg_advisory_unlock; on a dead connection it raises, which the   *)
(* loop logs.                                                               *)
Unlock(e) ==
  /\ pc[e] = "unlock"
  /\ lock' = ReleasedBy(e) /\ Goto(e, "sleep")
  /\ UNCHANGED <<phase, todo, busy, is_leader, running, severed, faults>>

-----------------------------------------------------------------------------
(* stop *)

Stop(e) ==
  /\ phase[e] = "up"
  /\ phase' = [phase EXCEPT ![e] = "draining"]
  /\ UNCHANGED <<pc, todo, busy, lock, is_leader, running, severed, faults>>

Stopped(e) ==
  /\ stopping(e) /\ pc[e] = "exited"
  /\ phase' = [phase EXCEPT ![e] = "stopped"]
  /\ UNCHANGED <<pc, todo, busy, lock, is_leader, running, severed, faults>>

(* wait_for(self._task, timeout=30) cancels what outlasts it; `finally`     *)
(* still unlocks.                                                           *)
Cancel(e) ==
  /\ stopping(e) /\ pc[e] # "exited"
  /\ Goto(e, "exited") /\ lock' = ReleasedBy(e)
  /\ todo' = [todo EXCEPT ![e] = <<>>] /\ busy' = [busy EXCEPT ![e] = None]
  /\ UNCHANGED <<phase, is_leader, running, severed, faults>>

-----------------------------------------------------------------------------
(* What goes wrong, and the user. *)

Fault == faults < Faults /\ faults' = faults + 1

(* The engine dies and its sessions with it; the container restarts.        *)
Crash(e) ==
  /\ Fault /\ Alive(e)
  /\ phase' = [phase EXCEPT ![e] = "down"] /\ Goto(e, "off")
  /\ todo' = [todo EXCEPT ![e] = <<>>] /\ busy' = [busy EXCEPT ![e] = None]
  /\ lock' = ReleasedBy(e)
  /\ is_leader' = [is_leader EXCEPT ![e] = FALSE]
  /\ UNCHANGED <<running, severed>>

(* No connection to be had, or the listing fails: the tick is over.         *)
TickFails(e) ==
  /\ Fault
  /\ \/ pc[e] = "tick" /\ Goto(e, "sleep")
     \/ pc[e] = "list" /\ Goto(e, "unlock")
  /\ UNCHANGED <<phase, todo, busy, lock, is_leader, running, severed>>

(* The connection that took the lock dies; the tick it elected goes on, on  *)
(* other connections of the pool.                                           *)
LoseSession(e) ==
  /\ Fault /\ lock = e
  /\ lock' = None /\ severed' = TRUE
  /\ UNCHANGED <<phase, pc, todo, busy, is_leader, running>>

SetStatus(b) ==
  /\ running' = IF b \in running THEN running \ {b} ELSE running \cup {b}
  /\ UNCHANGED <<phase, pc, todo, busy, lock, is_leader, severed, faults>>

Tick(e) ==
  \/ Wake(e) \/ TryLock(e) \/ StandBy(e) \/ ListBots(e)
  \/ Evaluate(e) \/ Evaluated(e) \/ EvaluationRaises(e) \/ LoopEnds(e)
  \/ Unlock(e) \/ Stopped(e)

SchedNext ==
  \/ \E e \in Engines : \/ Start(e) \/ Deploy(e) \/ Tick(e) \/ Stop(e) \/ Cancel(e)
                        \/ Crash(e) \/ TickFails(e) \/ LoseSession(e)
  \/ \E b \in Bots : SetStatus(b)

(* A task that is ready runs: every statement returns and every wait ends,  *)
(* the venue's by its request timeout.  A crashed container is restarted.   *)
SchedSpec ==
  /\ SchedInit /\ [][SchedNext]_schedVars
  /\ \A e \in Engines : WF_schedVars(Tick(e)) /\ WF_schedVars(Start(e))

-----------------------------------------------------------------------------
SchedTypeOK ==
  /\ phase \in [Engines -> Phases] /\ pc \in [Engines -> Points]
  /\ todo \in [Engines -> Seq(Bots)] /\ busy \in [Engines -> Bots \cup {None}]
  /\ lock \in Engines \cup {None} /\ is_leader \in [Engines -> BOOLEAN]
  /\ running \subseteq Bots
  /\ \A e \in Engines : busy[e] # None <=> pc[e] = "evaluate"
  /\ severed \in BOOLEAN /\ faults \in 0..Faults

(* "Exactly one engine may evaluate at a time, however many containers are  *)
(* running": through deploys, crashes, failed ticks and cancellations, as   *)
(* long as no lock's connection has died under a live engine.               *)
OneLeader ==
  ~severed => \A e, f \in Engines : pc[e] \in Leading /\ pc[f] \in Leading => e = f

(* A bot that stays running is evaluated again and again once deploys have  *)
(* come to rest with an engine up, although other bots' evaluations raise,  *)
(* leaders have crashed or lost their session, and ticks have failed.       *)
DeploysEnd ==
  /\ \A e \in Engines : <>[](phase[e] = "up") \/ <>[](phase[e] = "stopped")
  /\ \E e \in Engines : <>[](phase[e] = "up")
RunningBotsAreEvaluated ==
  \A b \in Bots : DeploysEnd /\ <>[](b \in running)
                  => []<>(\E e \in Engines : busy[e] = b)

(* A retiring container does stop, whatever its peer is doing. *)
StopDrains == \A e \in Engines : stopping(e) ~> ~Alive(e)

(* The engine that is left takes over: once its peers are gone for good, it *)
(* comes to report leader, and goes on to, however the peers ended and      *)
(* whatever became of the lock they held.                                   *)
LastOneLeads ==
  \A e \in Engines :
    <>[](phase[e] = "up" /\ \A f \in Engines \ {e} : ~Alive(f)) => <>[]ready_leader(e)
=============================================================================
