# A TLA+ model of the task scheduler

The scheduler runs tasks at least once on a fleet of agents. One coordinator
keeps all durable state in SQLite; agents hold a ledger of their own and talk to
the coordinator over one gRPC stream each; every task runs in a `task-executor`
process. This project models the system from its source, model-checks it with
TLC and proves its central invariants with TLAPS.

## The system

| Part | Source | State | Operations |
|---|---|---|---|
| Run and attempt store | `scheduler-store/src/lib.rs` | `runs`, `attempts` | create, offer, release, accept, reject, renew, reauthorize, finish, claim expired, cancel, retry |
| Batch roll-up | `scheduler-store/src/collection.rs` | `batches`, `batch_items` | finalize, sync with a run, cancel, poison |
| Rollups | `scheduler-store/src/lib.rs` | `daily_schedule_stats`, `node_processing_stats` | count an outcome, uncount a retried failure |
| Dispatch loop | `coordinator/src/background.rs` | candidates and offer of the pass | read queue, place, offer, send, release |
| Expiry loop | `coordinator/src/background.rs` | rows read, attempts claimed | scan, claim, finish |
| Health | `scheduler-store/src/health.rs`, `scheduler-core/src/health.rs`, `coordinator/src/health.rs` | `health_evidence`, `input_health`, `node_health` | record, evaluate, retract, quarantine, probe, replay |
| Sessions and placement | `coordinator/src/state.rs`, `control.rs` | sessions with slots, labels, epochs | register, supersede, reserve, release |
| Cron and triggers | `scheduler-store/src/lib.rs`, `coordinator/src/api.rs` | schedule revision, cursor, trigger identities | edit, pause, resume, materialise, trigger |
| Ingestion | `scheduler-store/src/collection.rs`, `coordinator/src/collection_runtime.rs` | pages, items, lease | claim, renew, commit page, finalize, fail |
| Settings | `scheduler-store/src/lib.rs` | documents, edit locks, desired and applied revisions | lock, renew, update, acknowledge |
| Agent | `agent/src/main.rs`, `ledger.rs` | assignments, outbox, active tasks | record, claim, start, save, resume, resend |
| Executor | `task-executor/src/main.rs` | child process, keepalive deadline | start, keepalive, cancel, terminate |

What makes it hard: the coordinator's loops, the streams of all agents and the
REST handlers interleave between transactions; a result and its health
classification are two transactions; messages are lost with their stream and
results are sent again; leases expire while renewals are on their way; and both
sides crash and recover from their tables.

`PROJECT.json` lists all parts, with what is not modelled and why, and the
hazards of the code at the lines where they bite.

## Modules

- **`RunStore`** is the state machine of runs and attempts. One action is one
  committed transaction. What a loop keeps in memory between transactions is
  state of its own (`candidates`, `offer`, `scan`, `claimed`), which `Crash`
  loses. An agent that was sent an assignment (`held`) may accept, reject, renew,
  resume or finish it at any time and any number of times, which covers loss,
  duplication, delay and reordering of messages. The actions have the names of
  the store's functions; `DispatchPass`, `CreateAttempt`, `SkipCandidate`,
  `SendAssignment` and `ReleaseOffer` are the dispatch loop, `ExpiryScan`,
  `ClaimExpired`, `FinishExpired` and `AbortExpiryPass` the expiry loop.
  `RecordEvidence` is the separate transaction of `record_attempt_result`.
- **`BatchRollup`** gives the next value of `batches` and `batch_items`;
  `RunStore` uses it in the actions whose code calls `sync_batch_run_state_tx`.
- **`Rollups`** does the same for the statistics tables.
- **`RunLoops`** adds to `RunStore` what the two loops wait for. Every session has
  a bounded channel (`stream`, 256 places in the code); `dispatch_run` and
  `expire_leases` await their sends on it, without a timeout, so an agent that
  does not read holds up the whole loop (`sending`). A session may end or be
  replaced while a loop waits for its stream, which then lives on without it.
  `Reconcile` is the worker that replays missing classifications.
- **`MCRunStore`** and **`MCRunLoops`** hold the constants of the instances and the
  symmetry set.
- **`RunStoreProofs`** holds the theorems.

Operators whose comment begins with "Mutant" are faulty variants of the
definition that follows. No specification uses them; they show that a property
can fail.

### Abstractions

- An attempt's result is a `Kind`: its outcome and the failure code. One code
  stands for each class that dispatch and the rollups tell apart;
  `excel_macro_returned_failure` is treated everywhere like
  `process_exited_non_zero`.
- A lease token is as fresh as its attempt id. `MAX(attempt_number)+1` is the
  number of attempts plus one, as attempts are never deleted.
- `claim_expired_attempts` reads the rows and then the clock; `ExpiryScan` does
  both at once, and the claims compare the deadline again.
- `dispatch_run` reads the avoided agents just before `create_attempt`;
  `CreateAttempt` does both. Only this loop creates attempts, and a candidate has
  all its evidence when the pass begins.
- `evaluate_input_health` may confirm only when two agents failed on the input in
  the same way. Node health and later successes, which decide whether it does,
  are outside the module, so `confirmed` is a free choice then.
- Which agent is eligible depends on sessions outside the module: any agent may
  be chosen that the exclusion allows, and any candidate may be skipped.
- `processed_tasks` counts what the store counts while it runs, which leaves out
  rejected offers. The backfill of `migrations/0008` counts every finished
  attempt of the time before it, rejections included; the model starts from empty
  tables, so `ProcessedOnce` says nothing of backfilled rows.
- A batch is `collecting` until it is finalized: its states before that,
  `scheduled` and `failed`, belong to ingestion, which is not modelled.
- There is one schedule, one day and one clock. The limits of 100 and 500 rows
  per pass are not reached.

## Runs

All instances bound time (`Horizon`, the last instant a lease is granted or
renewed, by `CanLease`, which is a bound and has no counterpart in the code;
`LastTime` leaves room for every lease to expire), operator retries
(`MaxReruns`), crashes and aborted passes (`MaxFaults`) and the pool of attempt
ids. Deadlock is not checked: a system whose runs have all ended may stop.

| Run | Instance | Shows |
|---|---|---|
| `core` | 1 run, 1 agent, 3 attempts, budget 2, lease 1, horizon 2, 1 fault, 1 retry | tables in step, exact budget and counters, final states |
| `leases` | 1 run, 2 attempts, lease 1, grace 1, horizon 4 | no current lease is revoked |
| `reject` | 1 run, 2 agents, 3 attempts | a rejecting node is not offered the run again while its evidence stands |
| `batch` | 2 runs in a batch with cap 1, 3 attempts, 1 retry | cap, batch and item states |
| `poison` | 2 runs in a batch, 2 agents, 2 attempts | the same under poison confirmation |
| `live` | 1 run, 1 agent, 2 attempts, streams of 1 place, horizon 1, 1 fault, `LoopsFairSpec` | a run does not stay on a lease that ended, held-back runs are released |
| `wedge`, `cancel_item`, `daily`, `excluded` | | violated, see Findings |

Two attempts are what a result racing a redispatch needs, three add an operator
retry; two agents are the least that can confirm poison; two runs the least for
which a cap of one and the completion of a batch matter. A lease granted at time
0 expires at `LeaseSeconds + HeartbeatSeconds + 1`; except in `batch` and
`excluded` the horizon is at least that, so that runs are dispatched again, and
leases renewed, after an expiry. `reject`, `batch`, `poison`, `live`, `wedge`,
`cancel_item`, `daily` and `excluded` have a lease of 0 seconds, which every tick lets expire:
their properties do not depend on how long a lease is. In `batch` and `excluded`
nothing is dispatched after the first tick; runs come back there by failed
results, rejections and released offers.

`BatchFollowsRuns` speaks of batches none of whose runs is cancelled; what a
cancellation does to a batch is the subject of finding 2. There is one batch in
`batch` and in `poison`.

Fairness (`LoopsFairSpec`). The code justifies that the expiry loop and the
classification worker go on: they are tokio intervals that run again whatever
their last pass returned. It does not justify that their sends return. An awaited
send on a full channel returns when the agent reads or the stream ends, and
neither the server nor the loops have a keepalive or a timeout for that. So it is
*assumed* that a stream with messages in it is read or ends, with or without its
session (`Read`, `Close`, `EndDetached`). Without that assumption
`LapsedRunFreed` is false: one stalled connection stops the expiry of the leases
of all agents. Nothing is assumed of the clock, of dispatch, of operators or of
the answers of agents. The properties do not rest on the bound on renewals
either: a run is `Lapsed` only while its lease has ended and has not been renewed.
`MaxFaults` bounds the crashes, so a loop is eventually left alone long enough to
finish a pass. One agent is enough for the streams, since a loop may wait for a
stream that was replaced while the next attempt is offered on the new one.

## Findings

1. `wedge`: an attempt that was claimed (`expiring`) when the coordinator died or
   the pass failed is never looked at again, and its run stays `running`.
   `LapsedRunFreed`, in `live`, shows that, as long as streams are read or end,
   every other run whose lease ended is freed.
2. `cancel_item`: `release_offer` and `reject_offer` set the batch item of a run
   that was cancelled in the meantime back to `queued`, and may reopen its batch.
3. `daily`: a poison confirmation fails queued runs without counting them.
4. `excluded`: confirming an input retracts the rejections recorded for it; a run
   that was running then may be offered to the rejecting node again.

## Proofs

`RunStoreProofs` proves, for all values of the constants that satisfy
`BatchOfAssumption`, `NoneIsNoBatch`, `StoreAssumption` and
`ResultKindsAssumption`:

- `TypeCorrect`, `OneLiveAttempt` (`[]RunAttemptAgreement`) and
  `SuccessNeverOverturned` (`[]SuccessIsFinal`);
- `TerminalStates` and `LeasesAreNotStolen`, the action properties
  `TerminalIsFinal` and `LeaseNotStolen`.

They follow from the inductive invariant `IndInv`. `finish_attempt_inner`
overwrites the state of any run that is not cancelled; that is right only because
the attempt it is called for is live, and then the run is running or cancelled.
`RunAttemptAgreement` says the latter. For the former the invariant adds that
every row names its run and agent (`RowsAreWhole`), that a released offer was
never sent, so no agent can answer for it (`SentOrReleased`), and that the runs
of a batch do not exist while it is collecting (`CollectingHasNoRuns`).
`ScanIsExpired` says that rows read as expired stay expired, which makes the
compare-and-swap on the deadline sufficient. There is one lemma per action.

Only model-checked: the budget, the rollups, the batch properties, the exclusion
of rejecting nodes, and liveness, which is outside what TLAPS proves here.

## Not modelled, and the plan

In this order:

1. `RunLifecycle`: the abstract life of one run (`queued`, `running`, terminal,
   budget), implemented by `RunStore` under a refinement mapping; the proof of
   the refinement and of `RetryBudget`.
2. `AgentLedger`: the agent's table, crash and recovery.
3. `Protocol`: `RunStore` and `AgentLedger` joined by a stream that loses
   messages with its connection; resume, outbox, supersession. Questions: is a
   result that was saved eventually acknowledged, and does an agent ever start
   an attempt after it was cancelled or denied?
4. `Cron`: cursor, revision fence and trigger identities. No occurrence is
   materialised twice or from a superseded revision; none is skipped unless
   the schedule was edited or paused.
5. `Settings`: locks, revisions, acknowledgements out of order.
6. `Ingestion`: leases of workers, page commits, finalization exactly once.
7. `Health`: evaluation of inputs and nodes against a reference definition,
   probes, quarantine.
8. `Placement`: slots of sessions across reconnects, duplicate results and
   heartbeats, and when a queued run is dispatched.
9. `ExecutorLease`: the executor stops before its run is handed out again, as a
   relation between the two clocks.

Out of scope: parameter adapters, blueprint content, rendering, authentication,
encryption, telemetry and the command line client, which have no protocol state.
