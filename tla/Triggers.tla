------------------------------ MODULE Triggers ------------------------------
(***************************************************************************)
(* api/src/engine/triggers.py: should this bot trade now, and when is its  *)
(* next scheduled evaluation.                                              *)
(***************************************************************************)
EXTENDS Integers

(* A NULL next_run_at.  The clock starts at 1, and to every use the code    *)
(* makes of it a NULL is a time already past.                               *)
NoTime == 0

TriggerTypes == {"schedule", "drift", "schedule_or_drift"}

(* interval 0 stands for a NULL interval_minutes, of a drift-only bot. *)
next_run_after(now, interval) == IF interval = 0 THEN NoTime ELSE now + interval

schedule_due(now, next_run_at) == next_run_at = NoTime \/ now >= next_run_at

(* evaluate_trigger: due on the schedule, on drift, or on whichever is      *)
(* first; never unless running.                                             *)
evaluate_trigger_any_status(bot, now, max_drift_bps) ==
  \/ bot.trigger_type # "drift" /\ schedule_due(now, bot.next_run_at)
  \/ bot.trigger_type # "schedule" /\ max_drift_bps >= bot.drift_threshold_bps
evaluate_trigger(bot, now, max_drift_bps) ==
  /\ bot.status = "running"
  /\ \/ bot.trigger_type # "drift" /\ schedule_due(now, bot.next_run_at)
     \/ bot.trigger_type # "schedule" /\ max_drift_bps >= bot.drift_threshold_bps

(* The next_run_at that a skipped evaluation writes back. *)
next_run_on_skip(bot, now) ==
  IF bot.next_run_at > now THEN bot.next_run_at
                           ELSE next_run_after(now, bot.interval)
=============================================================================
