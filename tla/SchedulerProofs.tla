-------------------------- MODULE SchedulerProofs --------------------------
(***************************************************************************)
(* However many engines there are, only one leads at a time, as long as no *)
(* lock session has died under its engine.                                 *)
(***************************************************************************)
EXTENDS Scheduler, FiniteSetTheorems, TLAPS

(* Whoever leads holds the lock, unless its session was cut from under it. *)
LeaderInv ==
  /\ pc \in [Engines -> Points]
  /\ ~severed => \A e \in Engines : pc[e] \in Leading => lock = e

(* A step that moves only e, and not into the lead, and leaves the lock or  *)
(* gives back e's, keeps the invariant.                                     *)
LEMMA OutOfTheLead ==
  ASSUME LeaderInv, NEW e \in Engines, NEW there \in Points \ Leading,
         Goto(e, there), lock' = lock \/ lock' = ReleasedBy(e),
         severed' = severed
  PROVE  LeaderInv'
<1>1. pc' \in [Engines -> Points]
  BY DEF LeaderInv, Goto
<1>2. ASSUME ~severed', NEW f \in Engines, pc'[f] \in Leading
      PROVE  lock' = f
  <2>1. f # e /\ pc[f] \in Leading
    BY <1>2 DEF LeaderInv, Goto
  <2>2. lock = f
    BY <1>2, <2>1 DEF LeaderInv
  <2>. QED BY <2>1, <2>2 DEF ReleasedBy
<1>. QED BY <1>1, <1>2 DEF LeaderInv

(* A step within a tick leaves the lock alone. *)
LEMMA WithinTheLead ==
  ASSUME LeaderInv, NEW e \in Engines, NEW there \in Points,
         pc[e] \in Leading, Goto(e, there), UNCHANGED <<lock, severed>>
  PROVE  LeaderInv'
<1>1. pc' \in [Engines -> Points]
  BY DEF LeaderInv, Goto
<1>2. ASSUME ~severed', NEW f \in Engines, pc'[f] \in Leading
      PROVE  lock' = f
  <2>1. pc[f] \in Leading
    BY <1>2 DEF LeaderInv, Goto
  <2>. QED BY <1>2, <2>1 DEF LeaderInv
<1>. QED BY <1>1, <1>2 DEF LeaderInv

(* Taking the lock while nobody holds it: nobody else leads. *)
LEMMA IntoTheLead ==
  ASSUME LeaderInv, NEW e \in Engines, TryLock(e)
  PROVE  LeaderInv'
<1>. USE SchedulerAssumption
<1>1. pc' \in [Engines -> Points]
  BY DEF LeaderInv, TryLock, Goto, Points
<1>2. ASSUME ~severed', NEW f \in Engines, pc'[f] \in Leading
      PROVE  lock' = f
  <2>1. CASE f = e
    BY <2>1 DEF TryLock
  <2>2. CASE f # e
    <3>1. pc[f] \in Leading
      BY <1>2, <2>2 DEF LeaderInv, TryLock, Goto
    <3>2. lock = f /\ lock = None
      BY <1>2, <3>1 DEF LeaderInv, TryLock
    <3>. QED BY <3>2
  <2>. QED BY <2>1, <2>2
<1>. QED BY <1>1, <1>2 DEF LeaderInv

(* Steps that move no scheduler task. *)
LEMMA NobodyMoves ==
  ASSUME LeaderInv, UNCHANGED <<pc, lock, severed>>
  PROVE  LeaderInv'
BY DEF LeaderInv

LEMMA LeaderInit == SchedInit => LeaderInv
BY DEF SchedInit, LeaderInv, Points, Leading

LEMMA TickStep ==
  ASSUME LeaderInv, NEW e \in Engines, Tick(e)
  PROVE  LeaderInv'
<1>. USE DEF Points, Leading
<1>1. CASE Wake(e)
  BY <1>1, OutOfTheLead DEF Wake
<1>2. CASE TryLock(e)
  BY <1>2, IntoTheLead
<1>3. CASE StandBy(e)
  BY <1>3, OutOfTheLead DEF StandBy
<1>4. CASE ListBots(e)
  BY <1>4, WithinTheLead DEF ListBots
<1>5. CASE Evaluate(e)
  BY <1>5, WithinTheLead DEF Evaluate
<1>6. CASE Evaluated(e)
  BY <1>6, WithinTheLead DEF Evaluated
<1>7. CASE EvaluationRaises(e)
  BY <1>7, WithinTheLead DEF EvaluationRaises
<1>8. CASE LoopEnds(e)
  BY <1>8, WithinTheLead DEF LoopEnds
<1>9. CASE Unlock(e)
  BY <1>9, OutOfTheLead DEF Unlock
<1>10. CASE Stopped(e)
  BY <1>10, NobodyMoves DEF Stopped
<1>. QED
  BY <1>1, <1>2, <1>3, <1>4, <1>5, <1>6, <1>7, <1>8, <1>9, <1>10 DEF Tick

LEMMA LeaderStep ==
  ASSUME LeaderInv, [SchedNext]_schedVars
  PROVE  LeaderInv'
<1>. USE DEF Points, Leading
<1>1. CASE UNCHANGED schedVars
  BY <1>1, NobodyMoves DEF schedVars
<1>2. CASE \E b \in Bots : SetStatus(b)
  BY <1>2, NobodyMoves DEF SetStatus
<1>3. ASSUME NEW e \in Engines, Tick(e)
      PROVE  LeaderInv'
  BY <1>3, TickStep
<1>4. ASSUME NEW e \in Engines, Start(e) \/ Deploy(e)
      PROVE  LeaderInv'
  BY <1>4, OutOfTheLead DEF Start, Deploy, Begin
<1>5. ASSUME NEW e \in Engines, Stop(e)
      PROVE  LeaderInv'
  BY <1>5, NobodyMoves DEF Stop
<1>6. ASSUME NEW e \in Engines, Cancel(e)
      PROVE  LeaderInv'
  BY <1>6, OutOfTheLead DEF Cancel
<1>7. ASSUME NEW e \in Engines, Crash(e)
      PROVE  LeaderInv'
  BY <1>7, OutOfTheLead DEF Crash
<1>8. ASSUME NEW e \in Engines, TickFails(e)
      PROVE  LeaderInv'
  <2>1. CASE pc[e] = "tick" /\ Goto(e, "sleep")
    BY <1>8, <2>1, OutOfTheLead DEF TickFails
  <2>2. CASE pc[e] = "list" /\ Goto(e, "unlock")
    BY <1>8, <2>2, WithinTheLead DEF TickFails
  <2>. QED BY <1>8, <2>1, <2>2 DEF TickFails
<1>9. ASSUME NEW e \in Engines, LoseSession(e)
      PROVE  LeaderInv'
  BY <1>9 DEF LoseSession, LeaderInv
<1>. QED
  BY <1>1, <1>2, <1>3, <1>4, <1>5, <1>6, <1>7, <1>8, <1>9 DEF SchedNext

(* Exactly one engine may evaluate at a time, however many containers are   *)
(* running, deployed, retired, crashed or cancelled (Scheduler._tick), for  *)
(* as long as no lock session has died under a live engine.                 *)
THEOREM OneLeaderAtATime == SchedSpec => []OneLeader
<1>1. LeaderInv => OneLeader
  BY DEF LeaderInv, OneLeader
<1>2. SchedInit => LeaderInv
  BY LeaderInit
<1>3. LeaderInv /\ [SchedNext]_schedVars => LeaderInv'
  BY LeaderStep
<1>. QED BY <1>1, <1>2, <1>3, PTL DEF SchedSpec

-----------------------------------------------------------------------------
(* A task that is not running is nowhere in a tick: a container that starts *)
(* over finds no bot in hand.                                               *)
TypeInv ==
  /\ SchedTypeOK
  /\ \A e \in Engines : ~Alive(e) => pc[e] \in {"off", "exited"}

LEMMA ListedBotsExist ==
  ASSUME NEW S \in SUBSET Bots, NEW order \in SetToSeqs(S)
  PROVE  order \in Seq(Bots)
<1>1. Cardinality(S) \in Nat
  BY SchedulerAssumption, FS_Subset, FS_CardinalityType
<1>2. order \in [1..Cardinality(S) -> S]
  BY DEF SetToSeqs
<1>3. order \in Seq(S)
  BY <1>1, <1>2
<1> QED
  BY <1>3

(* A step of one engine leaves what holds of the others as it is.           *)
OnlyFor(e) ==
  \A f \in Engines \ {e} : phase'[f] = phase[f] /\ pc'[f] = pc[f] /\ busy'[f] = busy[f]

LEMMA EngineMoves ==
  ASSUME TypeInv, NEW e \in Engines, OnlyFor(e),
         phase' \in [Engines -> Phases], pc' \in [Engines -> Points],
         todo' \in [Engines -> Seq(Bots)], busy' \in [Engines -> Bots \cup {None}],
         lock' \in Engines \cup {None}, is_leader' \in [Engines -> BOOLEAN],
         severed' \in BOOLEAN, faults' \in 0..Faults, running' = running,
         busy'[e] # None <=> pc'[e] = "evaluate",
         Alive(e)' \/ pc'[e] \in {"off", "exited"}
  PROVE  TypeInv'
<1>1. \A f \in Engines : busy'[f] # None <=> pc'[f] = "evaluate"
  BY DEF TypeInv, SchedTypeOK, OnlyFor
<1>2. \A f \in Engines : Alive(f)' \/ pc'[f] \in {"off", "exited"}
  BY DEF TypeInv, Alive, OnlyFor
<1>3. running' \subseteq Bots
  BY DEF TypeInv, SchedTypeOK
<1> QED
  BY <1>1, <1>2, <1>3 DEF TypeInv, SchedTypeOK

LEMMA TickKeepsTypes ==
  ASSUME TypeInv, NEW e \in Engines, Tick(e)
  PROVE  TypeInv'
<1> USE SchedulerAssumption DEF TypeInv, SchedTypeOK, OnlyFor, Goto, Alive, Points, Phases
<1>1. CASE Wake(e)
  BY <1>1, EngineMoves DEF Wake
<1>2. CASE TryLock(e)
  BY <1>2, EngineMoves DEF TryLock
<1>3. CASE StandBy(e)
  BY <1>3, EngineMoves DEF StandBy
<1>4. CASE ListBots(e)
  <2>1. PICK order \in SetToSeqs(running) : todo' = [todo EXCEPT ![e] = order]
    BY <1>4 DEF ListBots
  <2>2. order \in Seq(Bots)
    BY <2>1, ListedBotsExist
  <2> QED
    BY <1>4, <2>1, <2>2, EngineMoves DEF ListBots
<1>5. CASE Evaluate(e)
  <2>1. Head(todo[e]) \in Bots /\ Tail(todo[e]) \in Seq(Bots)
    BY <1>5 DEF Evaluate
  <2> QED
    BY <1>5, <2>1, EngineMoves DEF Evaluate
<1>6. CASE Evaluated(e)
  BY <1>6, EngineMoves DEF Evaluated
<1>7. CASE EvaluationRaises(e)
  BY <1>7, EngineMoves DEF EvaluationRaises
<1>8. CASE LoopEnds(e)
  BY <1>8, EngineMoves DEF LoopEnds
<1>9. CASE Unlock(e)
  BY <1>9, EngineMoves DEF Unlock, ReleasedBy
<1>10. CASE Stopped(e)
  BY <1>10, EngineMoves DEF Stopped, stopping
<1> QED
  BY <1>1, <1>2, <1>3, <1>4, <1>5, <1>6, <1>7, <1>8, <1>9, <1>10 DEF Tick

LEMMA StepKeepsTypes ==
  ASSUME TypeInv, [SchedNext]_schedVars
  PROVE  TypeInv'
<1> USE SchedulerAssumption DEF TypeInv, SchedTypeOK, OnlyFor, Goto, Alive, Points, Phases
<1>1. CASE UNCHANGED schedVars
  BY <1>1 DEF schedVars
<1>2. ASSUME NEW b \in Bots, SetStatus(b)
      PROVE  TypeInv'
  BY <1>2 DEF SetStatus
<1>3. ASSUME NEW e \in Engines, Tick(e)
      PROVE  TypeInv'
  BY <1>3, TickKeepsTypes
<1>4. ASSUME NEW e \in Engines, Start(e) \/ Deploy(e)
      PROVE  TypeInv'
  <2>1. Begin(e) /\ ~Alive(e)
    BY <1>4 DEF Start, Deploy
  <2>2. busy[e] = None
    BY <2>1
  <2> QED
    BY <2>1, <2>2, EngineMoves DEF Begin
<1>5. ASSUME NEW e \in Engines, Stop(e)
      PROVE  TypeInv'
  BY <1>5, EngineMoves DEF Stop
<1>6. ASSUME NEW e \in Engines, Cancel(e)
      PROVE  TypeInv'
  BY <1>6, EngineMoves DEF Cancel, ReleasedBy
<1>7. Fault => faults' \in 0..Faults
  BY DEF Fault
<1>8. ASSUME NEW e \in Engines, Crash(e)
      PROVE  TypeInv'
  BY <1>7, <1>8, EngineMoves DEF Crash, ReleasedBy
<1>9. ASSUME NEW e \in Engines, TickFails(e)
      PROVE  TypeInv'
  <2>1. Alive(e) /\ pc[e] # "evaluate"
    BY <1>9 DEF TickFails
  <2>2. PICK there \in {"sleep", "unlock"} : Goto(e, there)
    BY <1>9 DEF TickFails
  <2>3. UNCHANGED <<phase, todo, busy, lock, is_leader, running, severed>> /\ Fault
    BY <1>9 DEF TickFails
  <2> QED
    BY <1>7, <2>1, <2>2, <2>3, EngineMoves
<1>10. ASSUME NEW e \in Engines, LoseSession(e)
      PROVE  TypeInv'
  BY <1>7, <1>10, EngineMoves DEF LoseSession
<1> QED
  BY <1>1, <1>2, <1>3, <1>4, <1>5, <1>6, <1>8, <1>9, <1>10 DEF SchedNext

(* A tick works through bots that exist, and an engine has a bot in hand    *)
(* exactly while it evaluates: a stop that is cancelled, a crash and a      *)
(* deploy leave no bot behind in a container (Scheduler.start, stop, _tick).*)
THEOREM SchedulerTypeCorrect == SchedSpec => []SchedTypeOK
<1>1. SchedInit => TypeInv
  <2> SUFFICES ASSUME SchedInit PROVE TypeInv
    OBVIOUS
  <2> USE DEF SchedInit
  <2>1. /\ phase \in [Engines -> Phases] /\ pc \in [Engines -> Points]
        /\ busy \in [Engines -> Bots \cup {None}] /\ is_leader \in [Engines -> BOOLEAN]
    BY DEF Phases, Points
  <2>2. todo \in [Engines -> Seq(Bots)]
    BY <2>1
  <2>3. \A e \in Engines : (busy[e] # None <=> pc[e] = "evaluate") /\ pc[e] \in {"off", "exited"}
    OBVIOUS
  <2>4. lock \in Engines \cup {None} /\ running \subseteq Bots /\ severed \in BOOLEAN
    OBVIOUS
  <2>5. faults \in 0..Faults
    BY SchedulerAssumption
  <2> QED
    BY <2>1, <2>2, <2>3, <2>4, <2>5 DEF TypeInv, SchedTypeOK
<1>2. TypeInv /\ [SchedNext]_schedVars => TypeInv'
  BY StepKeepsTypes
<1>3. TypeInv => SchedTypeOK
  BY DEF TypeInv
<1> QED
  BY <1>1, <1>2, <1>3, PTL DEF SchedSpec
=============================================================================
