------------------------------- MODULE Rollups -------------------------------
(***************************************************************************)
(* The two transactional statistics tables that the run operations of      *)
(* crates/scheduler-store/src/lib.rs maintain: daily_schedule_stats, here  *)
(* for one schedule and one day, and node_processing_stats.  Durations and *)
(* timestamps are left out.                                                *)
(***************************************************************************)
EXTENDS Integers, FiniteSets

CONSTANT Agents   \* agent identities

VARIABLES
  daily,      \* the daily_schedule_stats row of the schedule
  processed   \* node_processing_stats.processed_tasks of every agent

BusinessFailure == {"process_exited_non_zero"}

rollupVars == <<daily, processed>>

DailyRow ==
  [succeeded : Nat, business_failed : Nat, infrastructure_failed : Nat,
   cancelled : Nat, retries : Nat]

RollupTypeOK ==
  /\ daily \in DailyRow
  /\ processed \in [Agents -> Nat]

RollupInit ==
  /\ daily = [succeeded |-> 0, business_failed |-> 0,
              infrastructure_failed |-> 0, cancelled |-> 0, retries |-> 0]
  /\ processed = [g \in Agents |-> 0]

Saturated(n) == IF n > 0 THEN n ELSE 0

(* update_daily_schedule_stats_tx: a result of kind k left the run in s.   *)
CountOutcome(s, k) ==
  daily' =
    CASE s = "succeeded" -> [daily EXCEPT !.succeeded = @ + 1]
      [] s = "queued" -> [daily EXCEPT !.retries = @ + 1]
      [] s = "failed" /\ k \in BusinessFailure ->
           [daily EXCEPT !.business_failed = @ + 1]
      [] s = "failed" /\ k \notin BusinessFailure ->
           [daily EXCEPT !.infrastructure_failed = @ + 1]

(* update_node_processing_stats_tx                                         *)
CountProcessed(g) == processed' = [processed EXCEPT ![g] = @ + 1]

(* increment_cancelled_rollup_tx, and the INSERT ... SELECT COUNT( * ) of  *)
(* cancel_batch.                                                           *)
CountCancelled(n) == daily' = [daily EXCEPT !.cancelled = @ + n]

(* decrement_failed_rollup_tx: k is what the run's latest attempt ended    *)
(* with, None when it has no attempt.                                      *)
UncountFailed(k) ==
  daily' = IF k \in BusinessFailure
           THEN [daily EXCEPT !.business_failed = Saturated(@ - 1)]
           ELSE [daily EXCEPT !.infrastructure_failed = Saturated(@ - 1)]
==============================================================================
