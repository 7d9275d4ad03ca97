------------------------------ MODULE RunStore -------------------------------
(***************************************************************************)
(* The durable state machine of runs and attempts: the SQLite tables runs, *)
(* attempts and health_evidence with the operations of                     *)
(* crates/scheduler-store/src/lib.rs on them, driven by the coordinator's  *)
(* dispatch and lease-expiry loops (bins/coordinator/src/background.rs)    *)
(* and by what agents send (bins/coordinator/src/control.rs).              *)
(*                                                                         *)
(* One action is one committed SQLite transaction.  What the two loops     *)
(* keep in memory between transactions (the candidates of a dispatch pass, *)
(* the offer being sent, the rows an expiry pass has read, the attempts it *)
(* has claimed) is state of its own, and a crash of the coordinator loses  *)
(* it.  Agents are not modelled here: an agent that holds an assignment    *)
(* may accept it, reject it, renew it, resume it or deliver results for it *)
(* at any time and any number of times.  That covers every loss,           *)
(* duplication, delay and reordering of messages.                          *)
(***************************************************************************)
EXTENDS BatchRollup, Rollups

CONSTANTS
  Attempts,           \* pool of attempt ids; a lease token is as fresh as its id
  Input,              \* the blueprint and input fingerprint of a run
  MaxAttempts,        \* runs.max_attempts
  InitialBackoff,     \* runs.initial_backoff_seconds
  BackoffCap,         \* runs.backoff_cap_seconds
  LeaseSeconds,       \* global settings: lease_seconds
  HeartbeatSeconds,   \* global settings: heartbeat_seconds, the expiry grace
  MaxActiveRuns,      \* batches.max_active_runs
  ResultKinds,        \* the results an executed attempt may report
  MaxDelay,           \* bound: how far ahead a trigger may schedule a run
  Horizon,            \* bound: no lease is granted after this time
  MaxReruns,          \* bound: operator retries of failed runs
  MaxFaults           \* bound: coordinator crashes and aborted expiry passes

ASSUME StoreAssumption ==
  /\ None \notin Runs \union Agents \union Attempts
  /\ IsFiniteSet(Attempts) /\ IsFiniteSet(Runs)
  /\ MaxAttempts \in Nat \ {0}
  /\ {InitialBackoff, BackoffCap, LeaseSeconds, HeartbeatSeconds} \subseteq Nat
  /\ {MaxActiveRuns, MaxDelay, Horizon, MaxReruns, MaxFaults} \subseteq Nat

VARIABLES
  runs,         \* table runs
  attempts,     \* table attempts
  evidence,     \* table health_evidence: what was recorded for an attempt
  retracted,    \* health_evidence.retracted
  held,         \* attempts whose assignment an agent may hold
  candidates,   \* dispatch pass: runs read by queued_runs and not yet handled
  offer,        \* dispatch pass: the attempt created and not yet sent
  scan,         \* expiry pass: expired rows read and not yet claimed
  claimed,      \* expiry pass: attempts claimed and not yet finished
  now,          \* the coordinator's clock
  reruns,       \* number of operator retries
  faults        \* number of crashes and aborted passes

batchVars == <<item, batch, quarantined>>
healthVars == <<evidence, retracted>>
dispatchVars == <<candidates, offer>>
expiryVars == <<scan, claimed>>
boundVars == <<now, reruns, faults>>
vars == <<batchVars, rollupVars, healthVars, dispatchVars, expiryVars,
          boundVars, runs, attempts, held>>

-----------------------------------------------------------------------------
(* What an attempt can end with: the outcome and, when it failed, the code *)
(* of its diagnostic.                                                      *)

Rejection == {"parameter_binding_failed", "assignment_rejected"}
Kind == {"succeeded", "cancelled", "process_crashed", "agent_lease_expired"}
          \union BusinessFailure \union Rejection

ASSUME ResultKindsAssumption == ResultKinds \subseteq Kind

(* classify_result: the evidence class of a kind.                          *)
Ambiguous == {"process_crashed", "assignment_rejected"}
StrongNodeLocal == {"parameter_binding_failed"}

LiveAttempt == {"offered", "accepted", "expiring"}

AttemptState ==
  {"absent", "finished", "late_result", "offer_failed"} \union LiveAttempt

RunRow ==
  [state : RunState, attempt_count : Nat, attempt_offset : Nat,
   not_before : Nat]

AttemptRow ==
  [state : AttemptState, run_id : Runs \union {None},
   agent_id : Agents \union {None}, attempt_number : Nat,
   accepted : BOOLEAN, lease_expires_at : Nat, outcome : Kind \union {None}]

ScanRow == [id : Attempts, lease_expires_at : Nat]

TypeOK ==
  /\ BatchTypeOK
  /\ RollupTypeOK
  /\ runs \in [Runs -> RunRow]
  /\ attempts \in [Attempts -> AttemptRow]
  /\ evidence \in [Attempts -> Kind \union {None}]
  /\ retracted \subseteq Attempts
  /\ held \subseteq Attempts
  /\ candidates \subseteq Runs
  /\ offer \in Attempts \union {None}
  /\ scan \subseteq ScanRow
  /\ claimed \subseteq Attempts
  /\ now \in Nat
  /\ reruns \in 0..MaxReruns
  /\ faults \in 0..MaxFaults

Init ==
  /\ BatchInit
  /\ RollupInit
  /\ runs = [r \in Runs |-> [state |-> "absent", attempt_count |-> 0,
                             attempt_offset |-> 0, not_before |-> 0]]
  /\ attempts = [a \in Attempts |->
                   [state |-> "absent", run_id |-> None, agent_id |-> None,
                    attempt_number |-> 0, accepted |-> FALSE,
                    lease_expires_at |-> 0, outcome |-> None]]
  /\ evidence = [a \in Attempts |-> None]
  /\ retracted = {}
  /\ held = {}
  /\ candidates = {}
  /\ offer = None
  /\ scan = {}
  /\ claimed = {}
  /\ now = 0
  /\ reruns = 0
  /\ faults = 0

-----------------------------------------------------------------------------
AttemptsOf(r) == {a \in Attempts : attempts[a].run_id = r}

AcceptedOf(rows, r) == {a \in Attempts : rows[a].run_id = r /\ rows[a].accepted}

StatesOf(rows) == [r \in Runs |-> rows[r].state]

Lease == now + LeaseSeconds

(* bound: leases are granted up to Horizon.                                *)
CanLease == now <= Horizon

-----------------------------------------------------------------------------
(* Creating runs.                                                          *)

(* The row inserted for a new run.                                         *)
QueuedRun(scheduled_at) ==
  [state |-> "queued", attempt_count |-> 0, attempt_offset |-> 0,
   not_before |-> scheduled_at]

(* create_run of a trigger identity r; a second trigger with the same      *)
(* identity finds the row and changes nothing.  A manual run may be        *)
(* scheduled in the future.                                                *)
CreateRun(r, scheduled_at) ==
  /\ BatchOf[r] = None
  /\ runs[r].state = "absent"
  /\ runs' = [runs EXCEPT ![r] = QueuedRun(scheduled_at)]
  /\ UNCHANGED <<batchVars, rollupVars, healthVars, dispatchVars, expiryVars,
                 boundVars, attempts, held>>

(* finalize_batch: all ready items S become queued runs at once; "bad"     *)
(* items were quarantined during ingestion.                                *)
FinalizeBatch(b, S, bad, scheduled_at) ==
  /\ batch[b] = "collecting"
  /\ runs' = [r \in Runs |-> IF r \in S THEN QueuedRun(scheduled_at) ELSE runs[r]]
  /\ FinalizeItems(b, S, bad)
  /\ UNCHANGED <<rollupVars, healthVars, dispatchVars, expiryVars, boundVars,
                 attempts, held>>

-----------------------------------------------------------------------------
(* The dispatch loop: one pass at a time, one candidate at a time.         *)

(* Mutant: queued_runs without its NOT EXISTS clause.                      *)
UngatedQueue(r) == FALSE

(* The NOT EXISTS clause of queued_runs: a failed attempt whose health     *)
(* evidence is not recorded yet.                                           *)
AwaitsClassification(r) ==
  \E a \in AttemptsOf(r) :
    /\ attempts[a].state = "finished"
    /\ attempts[a].outcome \notin {"succeeded", "cancelled"} \union BusinessFailure
    /\ evidence[a] = None

Eligible ==
  {r \in Runs : /\ runs[r].state = "queued"
                /\ runs[r].not_before <= now
                /\ ~AwaitsClassification(r)}

RunningIn(b) == {r \in RunsOf(b) : runs[r].state = "running"}

(* Mutant: the cap does not account for the runs that are running.         *)
WithinCapOfPass(S) ==
  \A b \in Batches :
    LET eligible == Cardinality(Eligible \intersect RunsOf(b))
    IN Cardinality(S \intersect RunsOf(b)) = IF eligible < MaxActiveRuns
                                             THEN eligible ELSE MaxActiveRuns

(* batch_rank <= MAX(0, max_active_runs - batch_running)                   *)
WithinCap(S) ==
  \A b \in Batches :
    LET free == Saturated(MaxActiveRuns - Cardinality(RunningIn(b)))
        eligible == Cardinality(Eligible \intersect RunsOf(b))
    IN Cardinality(S \intersect RunsOf(b)) = IF eligible < free
                                             THEN eligible ELSE free

(* dispatch reads the candidates of the pass with queued_runs.  Which runs *)
(* of a capped batch come first is their creation order, left open here.   *)
DispatchPass(S) ==
  /\ candidates = {} /\ offer = None
  /\ S # {} /\ S \subseteq Eligible
  /\ {r \in Eligible : BatchOf[r] = None} \subseteq S
  /\ WithinCap(S)
  /\ candidates' = S
  /\ UNCHANGED <<batchVars, rollupVars, healthVars, expiryVars, boundVars,
                 runs, attempts, held, offer>>

(* retry_avoided_agents                                                    *)
AvoidedAgents(r) ==
  {attempts[a].agent_id :
     a \in {b \in AttemptsOf(r) \ retracted :
              evidence[b] \in Ambiguous \union StrongNodeLocal}}

(* retry_requires_alternative_agent                                        *)
RequiresAlternative(r) ==
  \E a \in AttemptsOf(r) \ retracted : evidence[a] \in Rejection

(* dispatch_run on a candidate that is placed on agent g: create_attempt.  *)
(* An avoided agent is only tried when no other agent is eligible, which   *)
(* depends on sessions outside this module.                                *)
CreateAttempt(r, g, a) ==
  /\ offer = None
  /\ r \in candidates
  /\ runs[r].state = "queued"
  /\ g \in AvoidedAgents(r) => ~RequiresAlternative(r)
  /\ CanLease
  /\ attempts[a].state = "absent"
  /\ attempts' = [attempts EXCEPT ![a] =
       [state |-> "offered", run_id |-> r, agent_id |-> g,
        attempt_number |-> Cardinality(AttemptsOf(r)) + 1, accepted |-> FALSE,
        lease_expires_at |-> Lease, outcome |-> None]]
  /\ runs' = [runs EXCEPT ![r].state = "running"]
  /\ SyncBatch(r, "running", StatesOf(runs'))
  /\ candidates' = candidates \ {r}
  /\ offer' = a
  /\ UNCHANGED <<rollupVars, healthVars, expiryVars, boundVars, held>>

(* dispatch_run on a candidate with no eligible agent, or whose run is not *)
(* queued any more.                                                        *)
SkipCandidate(r) ==
  /\ offer = None
  /\ r \in candidates
  /\ candidates' = candidates \ {r}
  /\ UNCHANGED <<batchVars, rollupVars, healthVars, expiryVars, boundVars,
                 runs, attempts, held, offer>>

(* The assignment entered the agent's stream.                              *)
SendAssignment ==
  /\ offer # None
  /\ held' = held \union {offer}
  /\ offer' = None
  /\ UNCHANGED <<batchVars, rollupVars, healthVars, expiryVars, boundVars,
                 runs, attempts, candidates>>

(* Mutant: the batch item of a released offer is not told.                 *)
ReleaseOfferUnsynced ==
  /\ offer # None
  /\ offer' = None
  /\ IF attempts[offer].state = "offered"
     THEN /\ attempts' = [attempts EXCEPT ![offer].state = "offer_failed"]
          /\ runs' = [runs EXCEPT ![attempts[offer].run_id].state =
                        IF @ = "running" THEN "queued" ELSE @]
     ELSE UNCHANGED <<runs, attempts>>
  /\ UNCHANGED <<batchVars, rollupVars, healthVars, expiryVars, boundVars,
                 candidates, held>>

(* The stream was closed: release_offer.  The run is only requeued if it   *)
(* is still running, but the batch is told "queued" in any case.           *)
ReleaseOffer ==
  /\ offer # None
  /\ offer' = None
  /\ IF attempts[offer].state = "offered"
     THEN LET r == attempts[offer].run_id IN
          /\ attempts' = [attempts EXCEPT ![offer].state = "offer_failed"]
          /\ runs' = [runs EXCEPT ![r].state =
                        IF @ = "running" THEN "queued" ELSE @]
          /\ SyncBatch(r, "queued", StatesOf(runs'))
     ELSE UNCHANGED <<batchVars, runs, attempts>>
  /\ UNCHANGED <<rollupVars, healthVars, expiryVars, boundVars, candidates, held>>

-----------------------------------------------------------------------------
(* What agents send.  A message for an attempt that is in the wrong state  *)
(* is an error that ends the stream and changes nothing.                   *)

(* accept_attempt does not look at the run.                                *)
AcceptAttempt(a) ==
  /\ a \in held
  /\ CanLease
  /\ attempts[a].state \in {"offered", "accepted"}
  /\ attempts' = [attempts EXCEPT ![a].state = "accepted",
                                  ![a].accepted = TRUE,
                                  ![a].lease_expires_at = Lease]
  /\ LET r == attempts[a].run_id IN
     runs' = [runs EXCEPT ![r].attempt_count =
       Saturated(Cardinality(AcceptedOf(attempts', r)) - runs[r].attempt_offset)]
  /\ UNCHANGED <<batchVars, rollupVars, healthVars, dispatchVars, expiryVars,
                 boundVars, held>>

(* Mutant: the requeued run is due one second ago.                         *)
RejectOfferEarly(a, k) ==
  /\ a \in held
  /\ attempts[a].state = "offered"
  /\ attempts' = [attempts EXCEPT ![a].state = "finished", ![a].outcome = k]
  /\ LET r == attempts[a].run_id IN
     /\ runs' = IF runs[r].state = "running"
                THEN [runs EXCEPT ![r].state = "queued", ![r].not_before = now - 1]
                ELSE runs
     /\ SyncBatch(r, "queued", StatesOf(runs'))
  /\ held' = held \ {a}
  /\ UNCHANGED <<rollupVars, healthVars, dispatchVars, expiryVars, boundVars>>

(* reject_offer: a finished attempt that was never accepted.  The agent    *)
(* rejects instead of recording the assignment, so it holds it no longer.  *)
RejectOffer(a, k) ==
  /\ a \in held
  /\ attempts[a].state = "offered"
  /\ attempts' = [attempts EXCEPT ![a].state = "finished", ![a].outcome = k]
  /\ LET r == attempts[a].run_id IN
     /\ runs' = IF runs[r].state = "running"
                THEN [runs EXCEPT ![r].state = "queued", ![r].not_before = now]
                ELSE runs
     /\ SyncBatch(r, "queued", StatesOf(runs'))
  /\ held' = held \ {a}
  /\ UNCHANGED <<rollupVars, healthVars, dispatchVars, expiryVars, boundVars>>

(* renew_attempts for a heartbeat of agent g that lists the attempts S.    *)
RenewAttempts(g, S) ==
  /\ CanLease
  /\ S # {}
  /\ \A a \in S : attempts[a].agent_id = g /\ attempts[a].state = "accepted"
  /\ attempts' = [a \in Attempts |->
       IF a \in S THEN [attempts[a] EXCEPT !.lease_expires_at = Lease]
                  ELSE attempts[a]]
  /\ UNCHANGED <<batchVars, rollupVars, healthVars, dispatchVars, expiryVars,
                 boundVars, runs, held>>

(* reauthorize_attempt that grants the resume of a restarted agent.        *)
ReauthorizeAttempt(a) ==
  /\ a \in held
  /\ CanLease
  /\ attempts[a].state = "accepted"
  /\ runs[attempts[a].run_id].state = "running"
  /\ attempts[a].lease_expires_at > now
  /\ attempts' = [attempts EXCEPT ![a].lease_expires_at = Lease]
  /\ UNCHANGED <<batchVars, rollupVars, healthVars, dispatchVars, expiryVars,
                 boundVars, runs, held>>

(* base + jitter of finish_attempt_inner: initial * 2^min(count - 1, 20)   *)
(* capped, plus at most a fifth of it and at least the choice of 0 or 1.   *)
Exponential(count) ==
  InitialBackoff * 2 ^ (IF Saturated(count - 1) < 20 THEN Saturated(count - 1)
                                                     ELSE 20)

Base(count) ==
  IF Exponential(count) < BackoffCap THEN Exponential(count) ELSE BackoffCap

MaxJitter(base) == IF base \div 5 > 1 THEN base \div 5 ELSE 1

Backoff(count) ==
  {d \in 0..(BackoffCap + MaxJitter(BackoffCap)) :
     Base(count) <= d /\ d <= Base(count) + MaxJitter(Base(count))}

NextRunState(r, k) ==
  IF k = "succeeded" THEN "succeeded"
  ELSE IF runs[r].attempt_count < MaxAttempts THEN "queued" ELSE "failed"

(* Mutant: a result is not checked against a cancelled run.                *)
StoreResultOfCancelled(a, k) ==
  LET r == attempts[a].run_id
      s == NextRunState(r, k)
  IN
  /\ CountProcessed(attempts[a].agent_id)
  /\ attempts' = [attempts EXCEPT ![a].state = "finished", ![a].outcome = k]
  /\ \E d \in Backoff(runs[r].attempt_count) :
       runs' = [runs EXCEPT ![r].state = s, ![r].not_before = now + d]
  /\ CountOutcome(s, k)
  /\ SyncBatch(r, s, StatesOf(runs'))

(* The part of finish_attempt_inner after its early returns.  The UPDATE   *)
(* of the run is not guarded by the run's state.                           *)
StoreResult(a, k) ==
  LET r == attempts[a].run_id
      s == NextRunState(r, k)
  IN
  /\ CountProcessed(attempts[a].agent_id)
  /\ IF runs[r].state = "cancelled"
     THEN /\ attempts' = [attempts EXCEPT ![a].state = "late_result",
                                          ![a].outcome = k]
          /\ UNCHANGED <<batchVars, daily, runs>>
     ELSE /\ attempts' = [attempts EXCEPT ![a].state = "finished",
                                          ![a].outcome = k]
          /\ \E d \in Backoff(runs[r].attempt_count) :
               runs' = [runs EXCEPT ![r].state = s, ![r].not_before = now + d]
          /\ CountOutcome(s, k)
          /\ SyncBatch(r, s, StatesOf(runs'))

(* Mutants: a duplicate result is stored again; only a duplicate of a late *)
(* result is.                                                              *)
FinishAttemptAgain(a, k) ==
  /\ a \in held
  /\ attempts[a].state # "expiring"
  /\ StoreResult(a, k)
  /\ UNCHANGED <<healthVars, dispatchVars, expiryVars, boundVars, held>>

FinishLateAgain(a, k) ==
  /\ a \in held
  /\ attempts[a].state \notin {"expiring", "finished"}
  /\ StoreResult(a, k)
  /\ UNCHANGED <<healthVars, dispatchVars, expiryVars, boundVars, held>>

(* finish_attempt: a result for a finished attempt is a duplicate, and one *)
(* for an expiring attempt lost the race against the expiry pass; both are *)
(* acknowledged without effect.                                            *)
FinishAttempt(a, k) ==
  /\ a \in held
  /\ attempts[a].state \notin {"expiring", "finished", "late_result"}
  /\ StoreResult(a, k)
  /\ UNCHANGED <<healthVars, dispatchVars, expiryVars, boundVars, held>>

-----------------------------------------------------------------------------
(* The lease-expiry loop: claim_expired_attempts reads rows, then claims   *)
(* them one by one; expire_leases then finishes the claimed ones.          *)

(* Mutant: offers have no deadline.                                        *)
ExpiredLease(a) ==
  /\ attempts[a].state = "accepted"
  /\ attempts[a].lease_expires_at + HeartbeatSeconds < now

Expired(a) ==
  /\ attempts[a].state \in {"offered", "accepted"}
  /\ attempts[a].lease_expires_at + HeartbeatSeconds < now

ExpiryScan ==
  /\ scan = {} /\ claimed = {}
  /\ \E a \in Attempts : Expired(a)
  /\ scan' = {[id |-> a, lease_expires_at |-> attempts[a].lease_expires_at] :
                a \in {b \in Attempts : Expired(b)}}
  /\ UNCHANGED <<batchVars, rollupVars, healthVars, dispatchVars, boundVars,
                 runs, attempts, held, claimed>>

(* Mutant: the claim does not compare the deadline.                        *)
StillActive(row) == attempts[row.id].state \in {"offered", "accepted"}

(* The compare-and-swap on the deadline that was read.                     *)
StillExpired(row) ==
  /\ attempts[row.id].state \in {"offered", "accepted"}
  /\ attempts[row.id].lease_expires_at = row.lease_expires_at

ClaimExpired(row) ==
  /\ row \in scan
  /\ scan' = scan \ {row}
  /\ IF StillExpired(row)
     THEN /\ attempts' = [attempts EXCEPT ![row.id].state = "expiring"]
          /\ claimed' = claimed \union {row.id}
     ELSE UNCHANGED <<attempts, claimed>>
  /\ UNCHANGED <<batchVars, rollupVars, healthVars, dispatchVars, boundVars,
                 runs, held>>

FinishExpired(a) ==
  /\ scan = {}
  /\ a \in claimed
  /\ claimed' = claimed \ {a}
  /\ IF attempts[a].state = "expiring"
     THEN StoreResult(a, "agent_lease_expired")
     ELSE UNCHANGED <<batchVars, rollupVars, runs, attempts>>
  /\ UNCHANGED <<healthVars, dispatchVars, boundVars, held, scan>>

(* An error inside the pass ends it; what was claimed is not kept.         *)
AbortExpiryPass ==
  /\ faults < MaxFaults
  /\ scan # {} \/ claimed # {}
  /\ scan' = {} /\ claimed' = {}
  /\ faults' = faults + 1
  /\ UNCHANGED <<batchVars, rollupVars, healthVars, dispatchVars, runs,
                 attempts, held, now, reruns>>

-----------------------------------------------------------------------------
(* Operators of the system.                                                *)

(* Mutant: cancelling a cancelled run succeeds again.                      *)
CancelRunAgain(r) ==
  /\ runs[r].state \in {"queued", "running", "cancelled"}
  /\ runs' = [runs EXCEPT ![r].state = "cancelled"]
  /\ CountCancelled(1)
  /\ SyncBatch(r, "cancelled", StatesOf(runs'))
  /\ UNCHANGED <<processed, healthVars, dispatchVars, expiryVars, boundVars,
                 attempts, held>>

(* cancel_run                                                              *)
CancelRun(r) ==
  /\ runs[r].state \in {"queued", "running"}
  /\ runs' = [runs EXCEPT ![r].state = "cancelled"]
  /\ CountCancelled(1)
  /\ SyncBatch(r, "cancelled", StatesOf(runs'))
  /\ UNCHANGED <<processed, healthVars, dispatchVars, expiryVars, boundVars,
                 attempts, held>>

ActiveIn(b) == {r \in RunsOf(b) : runs[r].state \in {"queued", "running"}}

(* cancel_batch                                                            *)
CancelBatch(b) ==
  /\ batch[b] \in {"collecting", "running"}
  /\ runs' = [r \in Runs |-> IF r \in ActiveIn(b)
                             THEN [runs[r] EXCEPT !.state = "cancelled"]
                             ELSE runs[r]]
  /\ CountCancelled(Cardinality(ActiveIn(b)))
  /\ CancelItems(b)
  /\ UNCHANGED <<processed, healthVars, dispatchVars, expiryVars, boundVars,
                 attempts, held>>

(* What the attempt of a run that finished last ended with, None if there  *)
(* is none.  Attempts of a run do not overlap: they finish in the order of *)
(* their numbers.                                                          *)
LatestOutcome(r) ==
  LET done == {a \in AttemptsOf(r) : attempts[a].outcome # None} IN
  IF done = {} THEN None
  ELSE attempts[CHOOSE a \in done : \A b \in done :
         attempts[b].attempt_number <= attempts[a].attempt_number].outcome

(* Mutants of retry_run: the offset is not moved; any terminal run can be  *)
(* retried; the rollup is not decremented.                                 *)
RetryRunSameOffset(r) ==
  /\ reruns < MaxReruns
  /\ runs[r].state = "failed"
  /\ UncountFailed(LatestOutcome(r))
  /\ runs' = [runs EXCEPT ![r].state = "queued", ![r].attempt_count = 0,
                          ![r].not_before = now]
  /\ SyncBatch(r, "queued", StatesOf(runs'))
  /\ reruns' = reruns + 1
  /\ UNCHANGED <<processed, healthVars, dispatchVars, expiryVars, attempts,
                 held, now, faults>>

RetryRunTerminal(r) ==
  /\ reruns < MaxReruns
  /\ runs[r].state \in TerminalRun
  /\ UncountFailed(LatestOutcome(r))
  /\ runs' = [runs EXCEPT ![r].state = "queued", ![r].attempt_count = 0,
                          ![r].attempt_offset = Cardinality(AcceptedOf(attempts, r)),
                          ![r].not_before = now]
  /\ SyncBatch(r, "queued", StatesOf(runs'))
  /\ reruns' = reruns + 1
  /\ UNCHANGED <<processed, healthVars, dispatchVars, expiryVars, attempts,
                 held, now, faults>>

RetryRunUncounted(r) ==
  /\ reruns < MaxReruns
  /\ runs[r].state = "failed"
  /\ runs' = [runs EXCEPT ![r].state = "queued", ![r].attempt_count = 0,
                          ![r].attempt_offset = Cardinality(AcceptedOf(attempts, r)),
                          ![r].not_before = now]
  /\ SyncBatch(r, "queued", StatesOf(runs'))
  /\ reruns' = reruns + 1
  /\ UNCHANGED <<rollupVars, healthVars, dispatchVars, expiryVars, attempts,
                 held, now, faults>>

(* retry_run                                                               *)
RetryRun(r) ==
  /\ reruns < MaxReruns
  /\ runs[r].state = "failed"
  /\ UncountFailed(LatestOutcome(r))
  /\ runs' = [runs EXCEPT ![r].state = "queued", ![r].attempt_count = 0,
                          ![r].attempt_offset = Cardinality(AcceptedOf(attempts, r)),
                          ![r].not_before = now]
  /\ SyncBatch(r, "queued", StatesOf(runs'))
  /\ reruns' = reruns + 1
  /\ UNCHANGED <<processed, healthVars, dispatchVars, expiryVars, attempts,
                 held, now, faults>>

-----------------------------------------------------------------------------
(* Health evidence.                                                        *)

(* evaluate_input_health can only confirm poison when two agents failed on *)
(* the same input with the same ambiguous family; whether the nodes were   *)
(* healthy and no functional result came later is left open.               *)
Confirmable(i, known) ==
  \E a, b \in Attempts :
    /\ known[a] \in Ambiguous /\ known[a] = known[b]
    /\ attempts[a].agent_id # attempts[b].agent_id
    /\ Input[attempts[a].run_id] = i /\ Input[attempts[b].run_id] = i

RunsWithEvidence(i, known) ==
  {r \in Runs : Input[r] = i /\ \E a \in AttemptsOf(r) : known[a] # None}

(* record_health_evidence for attempt a and a result of kind k: by the     *)
(* handler of a result, by the expiry pass, or by the worker that replays  *)
(* unclassified attempts.  The row is inserted once; the input is          *)
(* re-evaluated every time.  A confirmed input fails its queued runs.  For *)
(* an attempt whose lease expired, the agent's own result may still come   *)
(* first.                                                                  *)
RecordEvidence(a, k, confirmed) ==
  LET known == IF evidence[a] = None THEN [evidence EXCEPT ![a] = k] ELSE evidence
      i == Input[attempts[a].run_id]
      E == RunsWithEvidence(i, known)
  IN
  /\ attempts[a].state \in {"finished", "late_result", "expiring"}
  /\ \/ k = attempts[a].outcome
     \/ /\ attempts[a].outcome \in {None, "agent_lease_expired"}
        /\ a \in held /\ k \in ResultKinds
  /\ confirmed => Confirmable(i, known)
  /\ evidence' = known
  /\ IF confirmed
     THEN /\ retracted' = retracted \union
               {b \in Attempts : /\ known[b] \in Ambiguous
                                 /\ Input[attempts[b].run_id] = i}
          /\ runs' = [r \in Runs |->
               IF r \in E /\ runs[r].state = "queued"
               THEN [runs[r] EXCEPT !.state = "failed"] ELSE runs[r]]
          /\ PoisonItems(E, StatesOf(runs'))
     ELSE UNCHANGED <<retracted, runs, batchVars>>
  /\ UNCHANGED <<rollupVars, dispatchVars, expiryVars, boundVars, attempts, held>>

-----------------------------------------------------------------------------
(* The coordinator process dies and restarts: only the tables survive.     *)
Crash ==
  /\ faults < MaxFaults
  /\ faults' = faults + 1
  /\ candidates' = {} /\ offer' = None
  /\ scan' = {} /\ claimed' = {}
  /\ UNCHANGED <<batchVars, rollupVars, healthVars, runs, attempts, held, now,
                 reruns>>

(* bound: every lease granted up to Horizon can still expire               *)
LastTime == Horizon + LeaseSeconds + HeartbeatSeconds + 1

Tick ==
  /\ now < LastTime
  /\ now' = now + 1
  /\ UNCHANGED <<batchVars, rollupVars, healthVars, dispatchVars, expiryVars,
                 runs, attempts, held, reruns, faults>>

-----------------------------------------------------------------------------
Create ==
  \/ \E r \in Runs, delay \in 0..MaxDelay : CreateRun(r, now + delay)
  \/ \E b \in Batches : \E S \in SUBSET RunsOf(b), bad \in 0..1, delay \in 0..MaxDelay :
       FinalizeBatch(b, S, bad, now + delay)

Dispatch ==
  \/ \E S \in SUBSET Runs : DispatchPass(S)
  \/ \E r \in Runs : SkipCandidate(r)
  \/ \E r \in Runs, g \in Agents, a \in Attempts : CreateAttempt(r, g, a)
  \/ SendAssignment
  \/ ReleaseOffer

AgentMessage ==
  \/ \E a \in Attempts : AcceptAttempt(a)
  \/ \E a \in Attempts, k \in Rejection : RejectOffer(a, k)
  \/ \E g \in Agents, S \in SUBSET Attempts : RenewAttempts(g, S)
  \/ \E a \in Attempts : ReauthorizeAttempt(a)
  \/ \E a \in Attempts, k \in ResultKinds : FinishAttempt(a, k)

ExpireLeases ==
  \/ ExpiryScan
  \/ \E row \in scan : ClaimExpired(row)
  \/ \E a \in Attempts : FinishExpired(a)

Operator ==
  \/ \E r \in Runs : CancelRun(r)
  \/ \E b \in Batches : CancelBatch(b)
  \/ \E r \in Runs : RetryRun(r)

Health ==
  \E a \in Attempts, k \in Kind, confirmed \in BOOLEAN :
    RecordEvidence(a, k, confirmed)

Next ==
  \/ Create
  \/ Dispatch
  \/ AgentMessage
  \/ ExpireLeases
  \/ Operator
  \/ Health
  \/ AbortExpiryPass
  \/ Crash
  \/ Tick

Spec == Init /\ [][Next]_vars

-----------------------------------------------------------------------------
LiveOf(r) == {a \in AttemptsOf(r) : attempts[a].state \in LiveAttempt}

(* A run is running exactly while one attempt of it is live, and no run    *)
(* ever has two: create_attempt, release_offer, reject_offer, the expiry   *)
(* pass, results and retries keep the tables runs and attempts in step     *)
(* although finish_attempt_inner writes the run's state unconditionally.   *)
(* A cancelled run may keep its last attempt until that ends.              *)
RunAttemptAgreement ==
  \A r \in Runs :
    /\ runs[r].state \notin {"running", "cancelled"} => LiveOf(r) = {}
    /\ runs[r].state = "running" => LiveOf(r) # {}
    /\ \A a, b \in LiveOf(r) : a = b

(* attempt_count is the number of acceptances since the last operator      *)
(* retry, never exceeds max_attempts, and a queued run has budget left:    *)
(* neither lost acceptances, rejections nor expired offers use it up.      *)
RetryBudget ==
  \A r \in Runs :
    /\ runs[r].attempt_count =
         Saturated(Cardinality(AcceptedOf(attempts, r)) - runs[r].attempt_offset)
    /\ runs[r].attempt_count <= MaxAttempts
    /\ runs[r].state = "queued" => runs[r].attempt_count < MaxAttempts

(* A success that was stored stays the run's result: no late, duplicate or *)
(* expired attempt of the run overturns it.                                *)
SuccessIsFinal ==
  \A a \in Attempts :
    attempts[a].state = "finished" /\ attempts[a].outcome = "succeeded"
      => runs[attempts[a].run_id].state = "succeeded"

(* No step changes a succeeded or cancelled run, and a failed run is only  *)
(* ever requeued.                                                          *)
TerminalIsFinal ==
  [][\A r \in Runs :
       /\ runs[r].state \in {"succeeded", "cancelled"}
            => runs'[r].state = runs[r].state
       /\ runs[r].state = "failed" => runs'[r].state \in {"failed", "queued"}]_vars

(* claim_expired_attempts revokes a lease only if its current deadline is  *)
(* more than one heartbeat in the past, however the renewals interleave    *)
(* with the scan and the claims of the pass.                               *)
LeaseNotStolen ==
  [][\A a \in Attempts :
       attempts[a].state # "expiring" /\ attempts'[a].state = "expiring"
         => attempts[a].lease_expires_at + HeartbeatSeconds < now]_vars

(* A node that rejected a run before acceptance is not offered the run     *)
(* again while that evidence stands: queued_runs holds the run back until  *)
(* the rejection is classified, and dispatch_run then avoids the node.     *)
RejectedNodeExcluded ==
  [][\A a, b \in Attempts :
       /\ attempts[a].state = "absent" /\ attempts'[a].state = "offered"
       /\ attempts[b].run_id = attempts'[a].run_id
       /\ attempts[b].state = "finished" /\ b \notin held \union retracted
       /\ attempts[b].outcome \in Rejection
       => attempts[b].agent_id # attempts'[a].agent_id]_vars

(* The same without the exception for retracted evidence, as               *)
(* docs/architecture.md states it: "The rejecting node stays excluded for  *)
(* that run".                                                              *)
RejectedNodeStaysExcluded ==
  [][\A a, b \in Attempts :
       /\ attempts[a].state = "absent" /\ attempts'[a].state = "offered"
       /\ attempts[b].run_id = attempts'[a].run_id
       /\ attempts[b].state = "finished" /\ b \notin held
       /\ attempts[b].outcome \in Rejection
       => attempts[b].agent_id # attempts'[a].agent_id]_vars

(* Every attempt that ended with a result is counted once for its node,    *)
(* and never again by a redelivered result.  Rejections do not count.      *)
ProcessedOnce ==
  \A g \in Agents :
    processed[g] = Cardinality(
      {a \in Attempts : /\ attempts[a].agent_id = g
                        /\ attempts[a].state \in {"finished", "late_result"}
                        /\ a \in held \/ attempts[a].outcome \notin Rejection})

RunsIn(s) == {r \in Runs : runs[r].state = s}

(* The daily rollup counts every succeeded and every cancelled run once.   *)
DailyTerminalExact ==
  /\ daily.succeeded = Cardinality(RunsIn("succeeded"))
  /\ daily.cancelled = Cardinality(RunsIn("cancelled"))

BusinessFailed == {r \in RunsIn("failed") : LatestOutcome(r) \in BusinessFailure}

(* The daily rollup counts every failed run once, in the column of what    *)
(* its last attempt ended with, and no longer once the run is retried.     *)
(* This is what docs/operations.md means by "Daily schedule rollups are    *)
(* persisted transactionally for terminal outcomes".                       *)
DailyFailedExact ==
  /\ daily.business_failed = Cardinality(BusinessFailed)
  /\ daily.infrastructure_failed = Cardinality(RunsIn("failed") \ BusinessFailed)

(* A batch never has more than max_active_runs running children, although  *)
(* queued_runs reads the cap once per pass.                                *)
BatchCap ==
  \A b \in Batches : Cardinality(RunningIn(b)) <= MaxActiveRuns

(* Once finalized, and as long as none of its runs was cancelled, a batch  *)
(* is running exactly while some run of it is queued or running.           *)
BatchFollowsRuns ==
  \A b \in Batches :
    batch[b] \notin {"collecting", "cancelled"}
      /\ RunsOf(b) \intersect RunsIn("cancelled") = {}
    => (batch[b] = "running" <=> ActiveIn(b) # {})

(* An item shows the state of its run, or poisoned for a failed one.       *)
ItemsFollowRuns ==
  \A r \in Runs :
    BatchOf[r] # None /\ runs[r].state # "cancelled"
      => \/ item[r] = runs[r].state
         \/ item[r] = "poisoned" /\ runs[r].state = "failed"

(* Cancellation is durable for the batch item of a run as well: docs/tasks *)
(* says that it "durably stops" and "cancels already queued or running     *)
(* child runs".                                                            *)
CancelledItemDurable ==
  \A r \in Runs :
    BatchOf[r] # None /\ runs[r].state = "cancelled" => item[r] = "cancelled"
=============================================================================
