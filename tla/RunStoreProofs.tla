--------------------------- MODULE RunStoreProofs ----------------------------
(***************************************************************************)
(* Proofs about RunStore for every set of runs, batches, agents and        *)
(* attempts and every value of the other constants.                        *)
(*                                                                         *)
(* The central fact is RunAttemptAgreement: runs and attempts are written  *)
(* by a dozen operations, and finish_attempt_inner overwrites the run in   *)
(* every state but cancelled. It is only correct because what it is called *)
(* for is a live attempt, and a run with a live attempt is running or      *)
(* cancelled. That needs three facts which RunAttemptAgreement does not    *)
(* state: a row names its run (RowsAreWhole), an offer that was released   *)
(* was never sent, so no agent can answer for it (SentOrReleased), and     *)
(* finalize_batch does not overwrite runs (CollectingHasNoRuns).           *)
(* ScanIsExpired is what the compare-and-swap of the expiry pass rests on. *)
(* The action properties follow from the same invariant.                   *)
(***************************************************************************)
EXTENDS RunStore, FiniteSetTheorems, TLAPS

(* A row of the table attempts names its run and its agent.                *)
RowsAreWhole ==
  \A a \in Attempts :
    attempts[a].state # "absent"
      => attempts[a].run_id \in Runs /\ attempts[a].agent_id \in Agents

(* An assignment is sent at most once, and only an offer that was not sent *)
(* can be released.                                                        *)
SentOrReleased ==
  /\ \A a \in held \union {offer} :
       a # None => attempts[a].state \notin {"absent", "offer_failed"}
  /\ offer \notin held

(* The runs of a batch do not exist before finalize_batch creates them.    *)
CollectingHasNoRuns ==
  \A r \in Runs :
    BatchOf[r] # None /\ batch[BatchOf[r]] = "collecting"
      => runs[r].state = "absent"

(* The rows an expiry pass has read stay expired: time does not run back.  *)
ScanIsExpired ==
  \A row \in scan : row.lease_expires_at + HeartbeatSeconds < now

IndInv ==
  /\ TypeOK
  /\ RowsAreWhole
  /\ SentOrReleased
  /\ CollectingHasNoRuns
  /\ ScanIsExpired
  /\ RunAttemptAgreement
  /\ SuccessIsFinal

-----------------------------------------------------------------------------
(* The operators.                                                          *)

(* The MAX(0, n) of the SQL statements is a natural number.                *)
LEMMA SaturatedIsNat == \A n \in Int : Saturated(n) \in Nat
BY DEF Saturated

(* COUNT of a set of attempts or of runs is a natural number.              *)
LEMMA CountIsNat ==
  /\ \A S \in SUBSET Attempts : Cardinality(S) \in Nat
  /\ \A S \in SUBSET Runs : Cardinality(S) \in Nat
BY StoreAssumption, FS_Subset, FS_CardinalityType

(* What the invariant says about the tables alone holds after every step   *)
(* that does not write them.                                               *)
LEMMA SameTables ==
  ASSUME IndInv, UNCHANGED <<runs, attempts, batch>>
  PROVE  /\ RowsAreWhole'
         /\ CollectingHasNoRuns'
         /\ RunAttemptAgreement'
         /\ SuccessIsFinal'
<1>1. RowsAreWhole' /\ CollectingHasNoRuns'
  BY DEF IndInv, RowsAreWhole, CollectingHasNoRuns
<1>2. RunAttemptAgreement'
  <2>1. \A r \in Runs : LiveOf(r)' = LiveOf(r)
    BY DEF LiveOf, AttemptsOf
  <2> QED
    BY <2>1 DEF IndInv, RunAttemptAgreement
<1>3. SuccessIsFinal'
  BY DEF IndInv, SuccessIsFinal
<1> QED
  BY <1>1, <1>2, <1>3

(* sync_batch_run_state_tx keeps the batch tables well typed and never     *)
(* takes a batch back to "collecting".                                     *)
LEMMA SyncBatchType ==
  ASSUME BatchTypeOK, NEW r \in Runs, NEW s \in RunState, NEW after,
         SyncBatch(r, s, after)
  PROVE  /\ BatchTypeOK'
         /\ \A b \in Batches : batch'[b] = "collecting" => batch[b] = "collecting"
BY DEF BatchTypeOK, SyncBatch, AfterItem, AfterBatch, SettledState, ItemState,
       RunState, TerminalRun, BatchState

-----------------------------------------------------------------------------
(* The initial state.                                                      *)

(* The empty tables satisfy the inductive invariant.                       *)
LEMMA InitIndInv == Init => IndInv
<1> SUFFICES ASSUME Init PROVE IndInv
  OBVIOUS
<1>1. TypeOK
  BY StoreAssumption DEF Init, BatchInit, RollupInit, TypeOK, BatchTypeOK,
     RollupTypeOK, DailyRow, RunRow, AttemptRow, AttemptState, LiveAttempt,
     ItemState, RunState, BatchState
<1>2. RunAttemptAgreement
  BY DEF Init, RunAttemptAgreement, LiveOf, AttemptsOf, LiveAttempt
<1> QED
  BY <1>1, <1>2 DEF Init, IndInv, RowsAreWhole, SentOrReleased,
     CollectingHasNoRuns, ScanIsExpired, SuccessIsFinal

-----------------------------------------------------------------------------
(* Creating runs.                                                          *)

(* create_run keeps the invariant: a new run has no attempt.               *)
LEMMA CreateRunInv ==
  ASSUME IndInv, NEW r \in Runs, NEW t \in Nat, CreateRun(r, t)
  PROVE  IndInv'
<1> USE DEF IndInv, CreateRun, QueuedRun, batchVars, rollupVars, healthVars, dispatchVars,
            expiryVars, boundVars
<1>1. TypeOK'
  BY DEF TypeOK, BatchTypeOK, RollupTypeOK, RunRow, RunState
<1>2. RunAttemptAgreement'
  BY DEF TypeOK, RunAttemptAgreement, LiveOf, AttemptsOf
<1>3. CollectingHasNoRuns' /\ SuccessIsFinal'
  BY DEF TypeOK, CollectingHasNoRuns, SuccessIsFinal, RowsAreWhole
<1> QED
  BY <1>1, <1>2, <1>3 DEF RowsAreWhole, SentOrReleased, ScanIsExpired

(* finalize_batch keeps the invariant: the runs it creates did not exist,  *)
(* since the batch was still collecting.                                   *)
LEMMA FinalizeBatchInv ==
  ASSUME IndInv, NEW b \in Batches, NEW S \in SUBSET RunsOf(b), NEW bad \in 0..1,
         NEW t \in Nat, FinalizeBatch(b, S, bad, t)
  PROVE  IndInv'
<1> USE DEF IndInv, FinalizeBatch, QueuedRun, FinalizeItems, RunsOf, rollupVars, healthVars,
            dispatchVars, expiryVars, boundVars
<1>1. TypeOK'
  BY DEF TypeOK, BatchTypeOK, RollupTypeOK, RunRow, RunState, ItemState, BatchState
<1>2. \A r \in S : runs[r].state = "absent"
  BY NoneIsNoBatch DEF CollectingHasNoRuns
<1>3. RunAttemptAgreement'
  BY <1>2 DEF TypeOK, RunAttemptAgreement, LiveOf, AttemptsOf
<1>4. CollectingHasNoRuns' /\ SuccessIsFinal'
  BY <1>2, NoneIsNoBatch, BatchOfAssumption
  DEF TypeOK, BatchTypeOK, CollectingHasNoRuns, SuccessIsFinal, RowsAreWhole
<1> QED
  BY <1>1, <1>3, <1>4 DEF RowsAreWhole, SentOrReleased, ScanIsExpired

-----------------------------------------------------------------------------
(* The dispatch loop.                                                      *)

(* Reading the candidates of a pass writes no table.                       *)
LEMMA DispatchPassInv ==
  ASSUME IndInv, NEW S \in SUBSET Runs, DispatchPass(S)
  PROVE  IndInv'
<1> USE DEF IndInv, DispatchPass, batchVars, rollupVars, healthVars, expiryVars,
            boundVars
<1>1. TypeOK'
  BY DEF TypeOK, BatchTypeOK, RollupTypeOK
<1>2. SentOrReleased' /\ ScanIsExpired'
  BY DEF SentOrReleased, ScanIsExpired
<1> QED
  BY <1>1, <1>2, SameTables

(* Skipping a candidate writes no table.                                   *)
LEMMA SkipCandidateInv ==
  ASSUME IndInv, NEW r \in Runs, SkipCandidate(r)
  PROVE  IndInv'
<1> USE DEF IndInv, SkipCandidate, batchVars, rollupVars, healthVars, expiryVars,
            boundVars
<1>1. TypeOK'
  BY DEF TypeOK, BatchTypeOK, RollupTypeOK
<1>2. SentOrReleased' /\ ScanIsExpired'
  BY DEF SentOrReleased, ScanIsExpired
<1> QED
  BY <1>1, <1>2, SameTables

(* create_attempt keeps the invariant: it checks that the run is queued,   *)
(* so the offer is the only live attempt of the run.                       *)
LEMMA CreateAttemptInv ==
  ASSUME IndInv, NEW r \in Runs, NEW g \in Agents, NEW a \in Attempts,
         CreateAttempt(r, g, a)
  PROVE  IndInv'
<1> USE DEF IndInv, CreateAttempt, rollupVars, healthVars, expiryVars, boundVars
<1>1. Cardinality(AttemptsOf(r)) \in Nat /\ Lease \in Nat
  BY CountIsNat, StoreAssumption DEF AttemptsOf, Lease, TypeOK
<1>2. /\ BatchTypeOK'
      /\ \A b \in Batches : batch'[b] = "collecting" => batch[b] = "collecting"
  BY SyncBatchType DEF TypeOK, RunState
<1>3. TypeOK'
  BY <1>1, <1>2 DEF TypeOK, RollupTypeOK, RunRow, RunState, AttemptRow,
     AttemptState, LiveAttempt
<1>4. RowsAreWhole' /\ SentOrReleased' /\ ScanIsExpired'
  BY StoreAssumption DEF TypeOK, RowsAreWhole, SentOrReleased, ScanIsExpired
<1>5. RunAttemptAgreement'
  BY DEF TypeOK, RunAttemptAgreement, LiveOf, AttemptsOf, LiveAttempt
<1>6. CollectingHasNoRuns'
  BY <1>2, BatchOfAssumption DEF TypeOK, CollectingHasNoRuns
<1>7. SuccessIsFinal'
  BY DEF TypeOK, SuccessIsFinal, RowsAreWhole
<1> QED
  BY <1>3, <1>4, <1>5, <1>6, <1>7

(* Sending the offer hands the assignment to an agent and writes no table. *)
LEMMA SendAssignmentInv ==
  ASSUME IndInv, SendAssignment
  PROVE  IndInv'
<1> USE DEF IndInv, SendAssignment, batchVars, rollupVars, healthVars, expiryVars,
            boundVars
<1>1. TypeOK'
  BY DEF TypeOK, BatchTypeOK, RollupTypeOK
<1>2. SentOrReleased'
  BY StoreAssumption DEF TypeOK, SentOrReleased
<1>3. ScanIsExpired'
  BY DEF ScanIsExpired
<1> QED
  BY <1>1, <1>2, <1>3, SameTables

(* Storing how an attempt ended keeps the table attempts well typed.       *)
LEMMA EndedRowType ==
  ASSUME attempts \in [Attempts -> AttemptRow], NEW a \in Attempts,
         NEW s \in AttemptState, NEW k \in Kind
  PROVE  [attempts EXCEPT ![a].state = s, ![a].outcome = k]
           \in [Attempts -> AttemptRow]
BY DEF AttemptRow

(* An attempt that ends its run's lease: the row leaves the live states,   *)
(* and the run, if it was running, stops.  Every operation that ends an    *)
(* attempt does this, and it keeps runs and attempts in step.              *)
LEMMA EndAttemptAgreement ==
  ASSUME RunAttemptAgreement, NEW a \in Attempts,
         attempts[a].state \in LiveAttempt,
         attempts[a].run_id \in Runs,
         \A b \in Attempts : attempts'[b].run_id = attempts[b].run_id,
         \A b \in Attempts \ {a} : attempts'[b].state = attempts[b].state,
         attempts'[a].state \notin LiveAttempt,
         \A r \in Runs \ {attempts[a].run_id} : runs'[r].state = runs[r].state,
         LET r == attempts[a].run_id
         IN IF runs[r].state = "cancelled" THEN runs'[r].state = "cancelled"
                                           ELSE runs'[r].state # "running"
  PROVE  RunAttemptAgreement'
BY DEF RunAttemptAgreement, LiveOf, AttemptsOf

(* release_offer keeps the invariant: the attempt ends in the transaction  *)
(* that requeues its run, or neither changes.                              *)
LEMMA ReleaseOfferInv ==
  ASSUME IndInv, ReleaseOffer
  PROVE  IndInv'
<1> USE DEF IndInv
<1>0. PICK a \in Attempts : a = offer
  BY DEF ReleaseOffer, TypeOK
<1>1. CASE attempts[a].state = "offered"
  <2> DEFINE r == attempts[a].run_id
  <2>1. r \in Runs
    BY <1>1 DEF RowsAreWhole
  <2>2. /\ attempts' = [attempts EXCEPT ![a].state = "offer_failed"]
        /\ runs' = [runs EXCEPT ![r].state = IF @ = "running" THEN "queued" ELSE @]
        /\ SyncBatch(r, "queued", StatesOf(runs'))
        /\ offer' = None
        /\ UNCHANGED <<daily, processed, evidence, retracted, scan, claimed, now,
                       reruns, faults, candidates, held>>
    BY <1>0, <1>1 DEF ReleaseOffer, rollupVars, healthVars, expiryVars, boundVars
  <2> HIDE DEF r
  <2>3. /\ BatchTypeOK'
        /\ \A b \in Batches : batch'[b] = "collecting" => batch[b] = "collecting"
    BY <2>1, <2>2, SyncBatchType DEF TypeOK, RunState
  <2>4. TypeOK'
    <3>1. attempts' \in [Attempts -> AttemptRow]
      BY <2>2 DEF TypeOK, AttemptRow, AttemptState
    <3>2. runs' \in [Runs -> RunRow]
      BY <2>1, <2>2 DEF TypeOK, RunRow, RunState
    <3> QED
      BY <2>2, <2>3, <3>1, <3>2 DEF TypeOK, RollupTypeOK
  <2>5. RowsAreWhole' /\ SentOrReleased' /\ ScanIsExpired'
    BY <1>0, <2>2, StoreAssumption
    DEF TypeOK, AttemptRow, RowsAreWhole, SentOrReleased, ScanIsExpired
  <2>6. RunAttemptAgreement'
    BY <1>1, <2>1, <2>2, EndAttemptAgreement
    DEF r, TypeOK, RunRow, AttemptRow, LiveAttempt
  <2>7. CollectingHasNoRuns'
    BY <2>1, <2>2, <2>3, BatchOfAssumption DEF TypeOK, RunRow, CollectingHasNoRuns
  <2>8. SuccessIsFinal'
    BY <2>1, <2>2 DEF TypeOK, RunRow, AttemptRow, SuccessIsFinal, RowsAreWhole
  <2> QED
    BY <2>4, <2>5, <2>6, <2>7, <2>8
<1>2. CASE attempts[a].state # "offered"
  <2>1. offer' = None /\ UNCHANGED <<batchVars, rollupVars, healthVars, expiryVars,
                                     boundVars, runs, attempts, candidates, held>>
    BY <1>0, <1>2 DEF ReleaseOffer
  <2>2. TypeOK'
    BY <2>1 DEF TypeOK, BatchTypeOK, RollupTypeOK, batchVars, rollupVars,
       healthVars, expiryVars, boundVars
  <2>3. SentOrReleased' /\ ScanIsExpired'
    BY <2>1, StoreAssumption DEF TypeOK, SentOrReleased, ScanIsExpired, expiryVars,
       boundVars
  <2> QED
    BY <2>1, <2>2, <2>3, SameTables DEF batchVars
<1> QED
  BY <1>1, <1>2

-----------------------------------------------------------------------------
(* What agents send.                                                       *)

(* accept_attempt keeps the invariant: the attempt was live and stays      *)
(* live.                                                                   *)
LEMMA AcceptAttemptInv ==
  ASSUME IndInv, NEW a \in Attempts, AcceptAttempt(a)
  PROVE  IndInv'
<1> USE DEF IndInv, AcceptAttempt, batchVars, rollupVars, healthVars,
            dispatchVars, expiryVars, boundVars
<1> DEFINE r == attempts[a].run_id
<1>1. r \in Runs /\ Lease \in Nat
  BY StoreAssumption DEF TypeOK, RowsAreWhole, Lease
<1>2. Cardinality(AcceptedOf(attempts', r)) - runs[r].attempt_offset \in Int
  BY <1>1, CountIsNat DEF AcceptedOf, TypeOK, RunRow
<1>3. TypeOK'
  <2>1. attempts' = [attempts EXCEPT ![a].state = "accepted", ![a].accepted = TRUE,
                                     ![a].lease_expires_at = Lease]
    OBVIOUS
  <2>2. attempts' \in [Attempts -> AttemptRow]
    <3> HIDE DEF AcceptAttempt
    <3>1. attempts \in [Attempts -> AttemptRow] /\ "accepted" \in AttemptState
      BY DEF TypeOK, AttemptState, LiveAttempt
    <3>2. [attempts[a] EXCEPT !.state = "accepted", !.accepted = TRUE,
                              !.lease_expires_at = Lease] \in AttemptRow
      BY <1>1, <3>1 DEF AttemptRow
    <3>3. \A b \in Attempts :
            attempts'[b] = IF b = a
                           THEN [attempts[a] EXCEPT !.state = "accepted",
                                   !.accepted = TRUE, !.lease_expires_at = Lease]
                           ELSE attempts[b]
      BY <2>1, <3>1
    <3> HIDE DEF IndInv
    <3> QED
      BY <2>1, <3>1, <3>2, <3>3
  <2>3. runs' \in [Runs -> RunRow]
    BY <1>1, <1>2, SaturatedIsNat DEF TypeOK, RunRow
  <2> QED
    BY <2>2, <2>3 DEF TypeOK, BatchTypeOK, RollupTypeOK
<1>4. RowsAreWhole' /\ SentOrReleased' /\ ScanIsExpired'
  BY DEF TypeOK, RowsAreWhole, SentOrReleased, ScanIsExpired
<1>5. RunAttemptAgreement'
  BY <1>1 DEF TypeOK, RunAttemptAgreement, LiveOf, AttemptsOf, LiveAttempt
<1>6. CollectingHasNoRuns' /\ SuccessIsFinal'
  BY <1>1 DEF TypeOK, CollectingHasNoRuns, SuccessIsFinal, RowsAreWhole
<1> QED
  BY <1>3, <1>4, <1>5, <1>6

(* reject_offer keeps the invariant: the offer ends in the transaction     *)
(* that requeues its run.                                                  *)
LEMMA RejectOfferInv ==
  ASSUME IndInv, NEW a \in Attempts, NEW k \in Rejection, RejectOffer(a, k)
  PROVE  IndInv'
<1> USE DEF IndInv, RejectOffer, rollupVars, healthVars, dispatchVars, expiryVars,
            boundVars
<1> DEFINE r == attempts[a].run_id
<1>1. r \in Runs
  BY DEF TypeOK, RowsAreWhole
<1>2. /\ BatchTypeOK'
      /\ \A b \in Batches : batch'[b] = "collecting" => batch[b] = "collecting"
  BY <1>1, SyncBatchType DEF TypeOK, RunState
<1>3. TypeOK'
  <2>1. attempts' \in [Attempts -> AttemptRow]
    BY EndedRowType DEF TypeOK, AttemptState, Kind
  <2>2. runs' \in [Runs -> RunRow]
    BY <1>1 DEF TypeOK, RunRow, RunState
  <2> QED
    BY <1>2, <2>1, <2>2 DEF TypeOK, RollupTypeOK
<1>4. RowsAreWhole' /\ SentOrReleased' /\ ScanIsExpired'
  BY <1>1 DEF TypeOK, RowsAreWhole, SentOrReleased, ScanIsExpired
<1>5. RunAttemptAgreement'
  <2>1. /\ attempts[a].state = "offered"
        /\ attempts' = [attempts EXCEPT ![a].state = "finished", ![a].outcome = k]
    OBVIOUS
  <2>2. /\ \A q \in Runs \ {r} : runs'[q].state = runs[q].state
        /\ IF runs[r].state = "cancelled" THEN runs'[r].state = "cancelled"
                                          ELSE runs'[r].state # "running"
    BY <1>1 DEF TypeOK, RunRow
  <2> HIDE DEF RejectOffer
  <2> QED
    BY <1>1, <2>1, <2>2, EndAttemptAgreement DEF TypeOK, AttemptRow, LiveAttempt
<1>6. CollectingHasNoRuns'
  BY <1>1, <1>2, BatchOfAssumption DEF TypeOK, CollectingHasNoRuns
<1>7. SuccessIsFinal'
  BY <1>1 DEF TypeOK, SuccessIsFinal, RowsAreWhole, Rejection
<1> QED
  BY <1>3, <1>4, <1>5, <1>6, <1>7

(* renew_attempts only moves the deadlines of accepted attempts.           *)
LEMMA RenewAttemptsInv ==
  ASSUME IndInv, NEW g \in Agents, NEW S \in SUBSET Attempts, RenewAttempts(g, S)
  PROVE  IndInv'
<1> USE DEF IndInv, RenewAttempts, batchVars, rollupVars, healthVars,
            dispatchVars, expiryVars, boundVars
<1>1. Lease \in Nat
  BY StoreAssumption DEF TypeOK, Lease
<1>2. TypeOK'
  BY <1>1 DEF TypeOK, BatchTypeOK, RollupTypeOK, AttemptRow
<1>3. RowsAreWhole' /\ SentOrReleased' /\ ScanIsExpired'
  BY DEF TypeOK, RowsAreWhole, SentOrReleased, ScanIsExpired
<1>4. RunAttemptAgreement'
  BY DEF TypeOK, RunAttemptAgreement, LiveOf, AttemptsOf
<1>5. CollectingHasNoRuns' /\ SuccessIsFinal'
  BY DEF TypeOK, CollectingHasNoRuns, SuccessIsFinal
<1> QED
  BY <1>2, <1>3, <1>4, <1>5

(* reauthorize_attempt only moves the deadline of an accepted attempt.     *)
LEMMA ReauthorizeAttemptInv ==
  ASSUME IndInv, NEW a \in Attempts, ReauthorizeAttempt(a)
  PROVE  IndInv'
<1> USE DEF IndInv, ReauthorizeAttempt, batchVars, rollupVars, healthVars,
            dispatchVars, expiryVars, boundVars
<1>1. Lease \in Nat
  BY StoreAssumption DEF TypeOK, Lease
<1>2. TypeOK'
  BY <1>1 DEF TypeOK, BatchTypeOK, RollupTypeOK, AttemptRow
<1>3. RowsAreWhole' /\ SentOrReleased' /\ ScanIsExpired'
  BY DEF TypeOK, RowsAreWhole, SentOrReleased, ScanIsExpired
<1>4. RunAttemptAgreement'
  BY DEF TypeOK, RunAttemptAgreement, LiveOf, AttemptsOf
<1>5. CollectingHasNoRuns' /\ SuccessIsFinal'
  BY DEF TypeOK, CollectingHasNoRuns, SuccessIsFinal
<1> QED
  BY <1>2, <1>3, <1>4, <1>5

(* The run that a result is stored for is running or cancelled, and the    *)
(* state written is not "running".                                         *)
LEMMA NextRunStateType ==
  \A r, k : NextRunState(r, k) \in {"succeeded", "queued", "failed"}
BY DEF NextRunState

(* A backoff is a natural number of seconds.                               *)
LEMMA BackoffIsNat == \A n : \A d \in Backoff(n) : d \in Nat
BY DEF Backoff

(* The daily rollup stays a row of natural numbers.                        *)
LEMMA CountOutcomeType ==
  ASSUME daily \in DailyRow, NEW s \in {"succeeded", "queued", "failed"}, NEW k,
         CountOutcome(s, k)
  PROVE  daily' \in DailyRow
BY DEF CountOutcome, DailyRow

(* Storing the result of a live attempt, by a message or by the expiry     *)
(* pass.                                                                   *)
LEMMA StoreResultInv ==
  ASSUME IndInv, NEW a \in Attempts, NEW k \in Kind,
         attempts[a].state \in LiveAttempt, StoreResult(a, k),
         UNCHANGED <<healthVars, dispatchVars, boundVars, held, scan>>,
         claimed' \subseteq Attempts
  PROVE  IndInv'
<1> USE DEF IndInv, healthVars, dispatchVars, boundVars
<1> DEFINE r == attempts[a].run_id
           s == NextRunState(r, k)
<1>1. r \in Runs /\ attempts[a].agent_id \in Agents
  BY DEF RowsAreWhole, LiveAttempt
<1>2. s \in {"succeeded", "queued", "failed"} /\ s \in RunState
  BY NextRunStateType DEF RunState, TerminalRun
<1>3. processed' \in [Agents -> Nat]
  BY <1>1 DEF StoreResult, CountProcessed, TypeOK, RollupTypeOK
<1>4. CASE runs[r].state = "cancelled"
  <2>1. /\ attempts' = [attempts EXCEPT ![a].state = "late_result", ![a].outcome = k]
        /\ UNCHANGED <<item, batch, quarantined, daily, runs>>
    BY <1>4 DEF StoreResult, batchVars
  <2>2. attempts' \in [Attempts -> AttemptRow]
    BY <2>1, EndedRowType DEF TypeOK, AttemptState
  <2>3. TypeOK'
    BY <1>3, <2>1, <2>2 DEF TypeOK, BatchTypeOK, RollupTypeOK
  <2>4. RunAttemptAgreement'
    BY <1>1, <1>4, <2>1, EndAttemptAgreement DEF TypeOK, AttemptRow, LiveAttempt
  <2>5. RowsAreWhole' /\ SentOrReleased'
    BY <1>1, <2>1 DEF TypeOK, AttemptRow, RowsAreWhole, SentOrReleased
  <2>6. CollectingHasNoRuns' /\ ScanIsExpired' /\ SuccessIsFinal'
    BY <2>1 DEF TypeOK, AttemptRow, CollectingHasNoRuns, ScanIsExpired, SuccessIsFinal
  <2> QED
    BY <2>3, <2>4, <2>5, <2>6
<1>5. CASE runs[r].state # "cancelled"
  <2>1. /\ attempts' = [attempts EXCEPT ![a].state = "finished", ![a].outcome = k]
        /\ CountOutcome(s, k)
        /\ SyncBatch(r, s, StatesOf(runs'))
    BY <1>5 DEF StoreResult
  <2>2. PICK d \in Nat :
          runs' = [runs EXCEPT ![r].state = s, ![r].not_before = now + d]
    BY <1>5, BackoffIsNat DEF StoreResult
  <2>3. attempts' \in [Attempts -> AttemptRow]
    BY <2>1, EndedRowType DEF TypeOK, AttemptState
  <2>4. runs' \in [Runs -> RunRow]
    BY <1>1, <1>2, <2>2 DEF TypeOK, RunRow
  <2>5. /\ BatchTypeOK'
        /\ \A b \in Batches : batch'[b] = "collecting" => batch[b] = "collecting"
    BY <1>1, <1>2, <2>1, SyncBatchType DEF TypeOK
  <2>6. daily' \in DailyRow
    BY <1>2, <2>1, CountOutcomeType DEF TypeOK, RollupTypeOK
  <2>7. TypeOK'
    BY <1>3, <2>3, <2>4, <2>5, <2>6 DEF TypeOK, RollupTypeOK
  <2>8. \A q \in Runs : runs'[q].state = IF q = r THEN s ELSE runs[q].state
    BY <1>1, <2>2 DEF TypeOK, RunRow
  <2>9. RunAttemptAgreement'
    <3> HIDE DEF s
    <3> QED
      BY <1>1, <1>2, <1>5, <2>1, <2>8, EndAttemptAgreement
      DEF TypeOK, AttemptRow, LiveAttempt
  <2>10. RowsAreWhole' /\ SentOrReleased' /\ ScanIsExpired'
    BY <1>1, <2>1 DEF TypeOK, AttemptRow, RowsAreWhole, SentOrReleased, ScanIsExpired
  <2>11. runs[r].state = "running"
    BY <1>1, <1>5 DEF RunAttemptAgreement, LiveOf, AttemptsOf
  <2>12. CollectingHasNoRuns'
    BY <1>1, <2>5, <2>8, <2>11, BatchOfAssumption DEF CollectingHasNoRuns
  <2>13. SuccessIsFinal'
    <3>1. k = "succeeded" => s = "succeeded"
      BY DEF NextRunState
    <3> HIDE DEF s
    <3> QED
      BY <1>1, <2>1, <2>8, <2>11, <3>1 DEF TypeOK, AttemptRow, RowsAreWhole, SuccessIsFinal
  <2> QED
    BY <2>7, <2>9, <2>10, <2>12, <2>13
<1> QED
  BY <1>4, <1>5

(* finish_attempt keeps the invariant: a result that is not turned away    *)
(* ends a live attempt, because a released offer was never sent.           *)
LEMMA FinishAttemptInv ==
  ASSUME IndInv, NEW a \in Attempts, NEW k \in Kind, FinishAttempt(a, k)
  PROVE  IndInv'
<1>1. attempts[a].state \in LiveAttempt
  BY StoreAssumption DEF IndInv, FinishAttempt, SentOrReleased, TypeOK, AttemptRow,
     AttemptState
<1>2. claimed' \subseteq Attempts
  BY DEF IndInv, FinishAttempt, expiryVars, TypeOK
<1> QED
  BY <1>1, <1>2, StoreResultInv DEF FinishAttempt, expiryVars

-----------------------------------------------------------------------------
(* The lease-expiry loop.                                                  *)

(* Reading the expired rows writes no table, and what is read has expired. *)
LEMMA ExpiryScanInv ==
  ASSUME IndInv, ExpiryScan
  PROVE  IndInv'
<1> USE DEF IndInv
<1>0. /\ scan' = {[id |-> a, lease_expires_at |-> attempts[a].lease_expires_at] :
                    a \in {b \in Attempts : Expired(b)}}
      /\ UNCHANGED <<item, batch, quarantined, daily, processed, evidence, retracted,
                     candidates, offer, now, reruns, faults, runs, attempts, held,
                     claimed>>
  BY DEF ExpiryScan, batchVars, rollupVars, healthVars, dispatchVars, boundVars
<1>1. TypeOK'
  <2>1. \A a \in Attempts : attempts[a].lease_expires_at \in Nat
    BY DEF TypeOK, AttemptRow
  <2>2. scan' \subseteq ScanRow
    <3> HIDE DEF IndInv
    <3> SUFFICES ASSUME NEW row \in scan' PROVE row \in ScanRow
      OBVIOUS
    <3>1. PICK a \in Attempts :
            row = [id |-> a, lease_expires_at |-> attempts[a].lease_expires_at]
      BY <1>0
    <3> QED
      BY <2>1, <3>1 DEF ScanRow
  <2> QED
    BY <1>0, <2>2 DEF TypeOK, BatchTypeOK, RollupTypeOK
<1>2. ScanIsExpired'
  <2> SUFFICES ASSUME NEW row \in scan'
               PROVE  row.lease_expires_at + HeartbeatSeconds < now
    BY <1>0 DEF ScanIsExpired
  <2>1. PICK a \in Attempts :
          Expired(a) /\ row = [id |-> a, lease_expires_at |-> attempts[a].lease_expires_at]
    BY <1>0
  <2> QED
    BY <2>1 DEF Expired
<1>3. SentOrReleased'
  BY <1>0 DEF SentOrReleased
<1> QED
  BY <1>0, <1>1, <1>2, <1>3, SameTables

(* A claim keeps the attempt live: offered or accepted becomes expiring.   *)
LEMMA ClaimExpiredInv ==
  ASSUME IndInv, NEW row \in scan, ClaimExpired(row)
  PROVE  IndInv'
<1> USE DEF IndInv, batchVars, rollupVars, healthVars, dispatchVars, boundVars
<1>1. PICK a \in Attempts : a = row.id
  BY DEF TypeOK, ScanRow
<1>2. CASE StillExpired(row)
  <2>1. /\ attempts' = [attempts EXCEPT ![a].state = "expiring"]
        /\ claimed' = claimed \union {a}
        /\ scan' = scan \ {row}
        /\ UNCHANGED <<item, batch, quarantined, daily, processed, evidence,
                       retracted, candidates, offer, now, reruns, faults, runs, held>>
    BY <1>1, <1>2 DEF ClaimExpired
  <2>2. attempts[a].state \in {"offered", "accepted"}
    BY <1>1, <1>2 DEF StillExpired
  <2>3. TypeOK'
    <3>1. attempts' \in [Attempts -> AttemptRow]
      BY <2>1 DEF TypeOK, AttemptRow, AttemptState, LiveAttempt
    <3> QED
      BY <2>1, <3>1 DEF TypeOK, BatchTypeOK, RollupTypeOK
  <2>4. RowsAreWhole' /\ SentOrReleased'
    BY <2>1, <2>2 DEF TypeOK, AttemptRow, RowsAreWhole, SentOrReleased
  <2>5. RunAttemptAgreement'
    BY <2>1, <2>2 DEF TypeOK, AttemptRow, RunAttemptAgreement, LiveOf, AttemptsOf,
       LiveAttempt
  <2>6. CollectingHasNoRuns' /\ ScanIsExpired' /\ SuccessIsFinal'
    BY <2>1 DEF TypeOK, AttemptRow, CollectingHasNoRuns, ScanIsExpired, SuccessIsFinal
  <2> QED
    BY <2>3, <2>4, <2>5, <2>6
<1>3. CASE ~StillExpired(row)
  <2>1. /\ scan' = scan \ {row}
        /\ UNCHANGED <<item, batch, quarantined, daily, processed, evidence,
                       retracted, candidates, offer, now, reruns, faults, runs, held,
                       attempts, claimed>>
    BY <1>3 DEF ClaimExpired
  <2>2. TypeOK'
    BY <2>1 DEF TypeOK, BatchTypeOK, RollupTypeOK
  <2>3. SentOrReleased' /\ ScanIsExpired'
    BY <2>1 DEF SentOrReleased, ScanIsExpired
  <2> QED
    BY <2>1, <2>2, <2>3, SameTables
<1> QED
  BY <1>2, <1>3

(* finish_expired_attempt ends an attempt only while it is expiring, hence *)
(* live.                                                                   *)
LEMMA FinishExpiredInv ==
  ASSUME IndInv, NEW a \in Attempts, FinishExpired(a)
  PROVE  IndInv'
<1> USE DEF IndInv
<1>1. /\ claimed' \subseteq Attempts
      /\ UNCHANGED <<healthVars, dispatchVars, boundVars, held, scan>>
  BY DEF FinishExpired, TypeOK
<1>2. CASE attempts[a].state = "expiring"
  <2>1. StoreResult(a, "agent_lease_expired")
    BY <1>2 DEF FinishExpired
  <2> QED
    BY <1>1, <1>2, <2>1, StoreResultInv DEF LiveAttempt, Kind
<1>3. CASE attempts[a].state # "expiring"
  <2>1. UNCHANGED <<batchVars, rollupVars, runs, attempts>>
    BY <1>3 DEF FinishExpired
  <2>2. TypeOK'
    BY <1>1, <2>1 DEF TypeOK, BatchTypeOK, RollupTypeOK, batchVars, rollupVars,
       healthVars, dispatchVars, boundVars
  <2>3. SentOrReleased' /\ ScanIsExpired'
    BY <1>1, <2>1 DEF SentOrReleased, ScanIsExpired, dispatchVars, boundVars
  <2> QED
    BY <2>1, <2>2, <2>3, SameTables DEF batchVars
<1> QED
  BY <1>2, <1>3

(* Losing the memory of a pass, or of all loops, takes nothing from the    *)
(* tables.                                                                 *)
LEMMA ForgetInv ==
  ASSUME IndInv, AbortExpiryPass \/ Crash
  PROVE  IndInv'
<1> USE DEF IndInv, AbortExpiryPass, Crash, batchVars, rollupVars, healthVars,
            dispatchVars
<1>1. TypeOK'
  BY StoreAssumption DEF TypeOK, BatchTypeOK, RollupTypeOK
<1>2. SentOrReleased'
  BY StoreAssumption DEF TypeOK, SentOrReleased
<1>3. ScanIsExpired'
  BY DEF ScanIsExpired
<1> QED
  BY <1>1, <1>2, <1>3, SameTables

(* Time passing writes no table and keeps expired rows expired.            *)
LEMMA TickInv ==
  ASSUME IndInv, Tick
  PROVE  IndInv'
<1> USE DEF IndInv, Tick, batchVars, rollupVars, healthVars, dispatchVars,
            expiryVars
<1>1. TypeOK'
  BY DEF TypeOK, BatchTypeOK, RollupTypeOK
<1>2. ScanIsExpired'
  BY StoreAssumption DEF TypeOK, ScanRow, ScanIsExpired
<1>3. SentOrReleased'
  BY DEF SentOrReleased
<1> QED
  BY <1>1, <1>2, <1>3, SameTables

-----------------------------------------------------------------------------
(* Operators and health.                                                   *)

(* cancel_run keeps the invariant: the run leaves queued or running, and   *)
(* its live attempt may stay.                                              *)
LEMMA CancelRunInv ==
  ASSUME IndInv, NEW r \in Runs, CancelRun(r)
  PROVE  IndInv'
<1> USE DEF IndInv, CancelRun, healthVars, dispatchVars, expiryVars, boundVars
<1>1. /\ BatchTypeOK'
      /\ \A b \in Batches : batch'[b] = "collecting" => batch[b] = "collecting"
  BY SyncBatchType DEF TypeOK, RunState, TerminalRun
<1>2. runs' \in [Runs -> RunRow]
  BY DEF TypeOK, RunRow, RunState, TerminalRun
<1>3. daily' \in DailyRow
  BY DEF CountCancelled, TypeOK, RollupTypeOK, DailyRow
<1>4. TypeOK'
  BY <1>1, <1>2, <1>3 DEF TypeOK, RollupTypeOK
<1>5. \A q \in Runs : runs'[q].state = IF q = r THEN "cancelled" ELSE runs[q].state
  BY DEF TypeOK, RunRow
<1>6. RunAttemptAgreement'
  BY <1>5 DEF RunAttemptAgreement, LiveOf, AttemptsOf
<1>7. CollectingHasNoRuns' /\ SuccessIsFinal'
  BY <1>1, <1>5, BatchOfAssumption DEF CollectingHasNoRuns, SuccessIsFinal, RowsAreWhole
<1> QED
  BY <1>4, <1>6, <1>7 DEF RowsAreWhole, SentOrReleased, ScanIsExpired

(* cancel_batch keeps the invariant for all runs of the batch at once.     *)
LEMMA CancelBatchInv ==
  ASSUME IndInv, NEW b \in Batches, CancelBatch(b)
  PROVE  IndInv'
<1> USE DEF IndInv, CancelBatch, healthVars, dispatchVars, expiryVars, boundVars
<1>1. /\ BatchTypeOK'
      /\ \A c \in Batches : batch'[c] = "collecting" => batch[c] = "collecting"
  BY DEF CancelItems, TypeOK, BatchTypeOK, BatchState, ItemState, RunState,
     TerminalRun
<1>2. runs' \in [Runs -> RunRow]
  BY DEF TypeOK, RunRow, RunState, TerminalRun
<1>3. daily' \in DailyRow
  <2>1. Cardinality(ActiveIn(b)) \in Nat
    BY CountIsNat DEF ActiveIn, RunsOf
  <2> QED
    BY <2>1 DEF CountCancelled, TypeOK, RollupTypeOK, DailyRow
<1>4. TypeOK'
  BY <1>1, <1>2, <1>3 DEF TypeOK, RollupTypeOK
<1>5. \A q \in Runs :
        \/ runs'[q].state = runs[q].state
        \/ runs[q].state \in {"queued", "running"} /\ runs'[q].state = "cancelled"
  BY DEF TypeOK, RunRow, ActiveIn
<1>6. RunAttemptAgreement'
  BY <1>5 DEF RunAttemptAgreement, LiveOf, AttemptsOf
<1>7. CollectingHasNoRuns' /\ SuccessIsFinal'
  BY <1>1, <1>5, BatchOfAssumption DEF CollectingHasNoRuns, SuccessIsFinal, RowsAreWhole
<1> QED
  BY <1>4, <1>6, <1>7 DEF RowsAreWhole, SentOrReleased, ScanIsExpired

(* retry_run keeps the invariant: a failed run has no live attempt and no  *)
(* stored success.                                                         *)
LEMMA RetryRunInv ==
  ASSUME IndInv, NEW r \in Runs, RetryRun(r)
  PROVE  IndInv'
<1> USE DEF IndInv, RetryRun, healthVars, dispatchVars, expiryVars
<1>1. /\ BatchTypeOK'
      /\ \A b \in Batches : batch'[b] = "collecting" => batch[b] = "collecting"
  BY SyncBatchType DEF TypeOK, RunState
<1>2. runs' \in [Runs -> RunRow]
  <2>1. Cardinality(AcceptedOf(attempts, r)) \in Nat
    BY CountIsNat DEF AcceptedOf
  <2> QED
    BY <2>1 DEF TypeOK, RunRow, RunState
<1>3. daily' \in DailyRow
  <2>1. /\ daily.business_failed - 1 \in Int
        /\ daily.infrastructure_failed - 1 \in Int
    BY DEF TypeOK, RollupTypeOK, DailyRow
  <2> QED
    BY <2>1, SaturatedIsNat DEF UncountFailed, TypeOK, RollupTypeOK, DailyRow
<1>4. TypeOK'
  BY <1>1, <1>2, <1>3, StoreAssumption DEF TypeOK, RollupTypeOK
<1>5. \A q \in Runs : runs'[q].state = IF q = r THEN "queued" ELSE runs[q].state
  BY DEF TypeOK, RunRow
<1>6. /\ runs[r].state = "failed"
      /\ UNCHANGED <<attempts, held, offer, scan, now>>
  OBVIOUS
<1> HIDE DEF RetryRun
<1>7. RunAttemptAgreement'
  BY <1>5, <1>6 DEF RunAttemptAgreement, LiveOf, AttemptsOf
<1>8. CollectingHasNoRuns' /\ SuccessIsFinal'
  BY <1>1, <1>5, <1>6, BatchOfAssumption
  DEF CollectingHasNoRuns, SuccessIsFinal, RowsAreWhole
<1> QED
  BY <1>4, <1>6, <1>7, <1>8 DEF RowsAreWhole, SentOrReleased, ScanIsExpired

(* Reclassifying items keeps the batch tables well typed and does not take *)
(* a batch back to "collecting".                                           *)
LEMMA PoisonItemsType ==
  ASSUME BatchTypeOK, NEW E, NEW after, E \subseteq Runs, PoisonItems(E, after)
  PROVE  /\ BatchTypeOK'
         /\ \A b \in Batches : batch'[b] = "collecting" => batch[b] = "collecting"
<1> DEFINE hit(b) == Poisoned(E) \intersect RunsOf(b)
<1>1. \A b \in Batches : hit(b) \in SUBSET Runs
  BY DEF RunsOf
<1>2. \A b \in Batches : Cardinality(hit(b)) \in Nat
  <2> HIDE DEF hit
  <2> QED
    BY <1>1, CountIsNat
<1>3. /\ item' \in [Runs -> ItemState]
      /\ quarantined' \in [Batches -> Nat]
  BY <1>2 DEF PoisonItems, BatchTypeOK, ItemState
<1>4. /\ batch' \in [Batches -> BatchState]
      /\ \A b \in Batches : batch'[b] = "collecting" => batch[b] = "collecting"
  BY DEF PoisonItems, BatchTypeOK, BatchState
<1> QED
  BY <1>3, <1>4 DEF BatchTypeOK

(* record_health_evidence keeps the invariant: a confirmed input fails     *)
(* only queued runs, which have no live attempt.                           *)
LEMMA RecordEvidenceInv ==
  ASSUME IndInv, NEW a \in Attempts, NEW k \in Kind, NEW confirmed \in BOOLEAN,
         RecordEvidence(a, k, confirmed)
  PROVE  IndInv'
<1> USE DEF IndInv, rollupVars, dispatchVars, expiryVars, boundVars
<1> DEFINE known == IF evidence[a] = None THEN [evidence EXCEPT ![a] = k] ELSE evidence
           i == Input[attempts[a].run_id]
           E == RunsWithEvidence(i, known)
<1>1. /\ evidence' = known
      /\ UNCHANGED <<daily, processed, candidates, offer, scan, claimed, now,
                     reruns, faults, attempts, held>>
  BY DEF RecordEvidence
<1>2. evidence' \in [Attempts -> Kind \union {None}]
  BY <1>1 DEF TypeOK
<1>3. CASE confirmed
  <2>1. /\ retracted' \subseteq Attempts
        /\ runs' = [r \in Runs |-> IF r \in E /\ runs[r].state = "queued"
                                   THEN [runs[r] EXCEPT !.state = "failed"]
                                   ELSE runs[r]]
        /\ PoisonItems(E, StatesOf(runs'))
    BY <1>3 DEF RecordEvidence, TypeOK
  <2>2. E \subseteq Runs
    BY DEF RunsWithEvidence
  <2> HIDE DEF E
  <2>3. /\ BatchTypeOK'
        /\ \A b \in Batches : batch'[b] = "collecting" => batch[b] = "collecting"
    BY <2>1, <2>2, PoisonItemsType DEF TypeOK
  <2>4. runs' \in [Runs -> RunRow]
    <3>1. \A q \in Runs : [runs[q] EXCEPT !.state = "failed"] \in RunRow
      BY DEF TypeOK, RunRow, RunState, TerminalRun
    <3> QED
      BY <2>1, <3>1 DEF TypeOK
  <2>5. TypeOK'
    BY <1>1, <1>2, <2>1, <2>3, <2>4 DEF TypeOK, RollupTypeOK
  <2>6. \A q \in Runs :
          \/ runs'[q].state = runs[q].state
          \/ runs[q].state = "queued" /\ runs'[q].state = "failed"
    BY <2>1 DEF TypeOK, RunRow
  <2>7. RunAttemptAgreement'
    <3>1. \A q \in Runs : LiveOf(q)' = LiveOf(q)
      BY <1>1 DEF LiveOf, AttemptsOf
    <3> QED
      BY <2>6, <3>1 DEF RunAttemptAgreement
  <2>8. CollectingHasNoRuns'
    BY <2>3, <2>6, BatchOfAssumption DEF CollectingHasNoRuns
  <2>9. SuccessIsFinal'
    BY <1>1, <2>6 DEF SuccessIsFinal, RowsAreWhole
  <2> QED
    BY <1>1, <2>5, <2>7, <2>8, <2>9 DEF RowsAreWhole, SentOrReleased, ScanIsExpired
<1>4. CASE ~confirmed
  <2>1. UNCHANGED <<retracted, runs, item, batch, quarantined>>
    BY <1>4 DEF RecordEvidence, batchVars
  <2>2. TypeOK'
    BY <1>1, <1>2, <2>1 DEF TypeOK, BatchTypeOK, RollupTypeOK
  <2>3. SentOrReleased' /\ ScanIsExpired'
    BY <1>1 DEF SentOrReleased, ScanIsExpired
  <2> QED
    BY <1>1, <2>1, <2>2, <2>3, SameTables
<1> QED
  BY <1>3, <1>4

-----------------------------------------------------------------------------
(* Every step.                                                             *)

(* Every step keeps the inductive invariant: one case per action of Next.  *)
LEMMA NextIndInv == ASSUME IndInv, [Next]_vars PROVE IndInv'
<1>1. CASE Create
  <2>1. \A delay \in 0..MaxDelay : now + delay \in Nat
    BY StoreAssumption DEF IndInv, TypeOK
  <2>2. CASE \E r \in Runs, delay \in 0..MaxDelay : CreateRun(r, now + delay)
    BY <2>1, <2>2, CreateRunInv
  <2>3. CASE \E b \in Batches : \E S \in SUBSET RunsOf(b), bad \in 0..1,
               delay \in 0..MaxDelay : FinalizeBatch(b, S, bad, now + delay)
    <3>1. PICK b \in Batches : \E S \in SUBSET RunsOf(b), bad \in 0..1,
               delay \in 0..MaxDelay : FinalizeBatch(b, S, bad, now + delay)
      BY <2>3
    <3>2. PICK S \in SUBSET RunsOf(b), bad \in 0..1, delay \in 0..MaxDelay :
            FinalizeBatch(b, S, bad, now + delay)
      BY <3>1
    <3> QED
      BY <2>1, <3>2, FinalizeBatchInv
  <2> QED
    BY <1>1, <2>2, <2>3 DEF Create
<1>2. CASE Dispatch
  BY <1>2, DispatchPassInv, SkipCandidateInv, CreateAttemptInv, SendAssignmentInv,
     ReleaseOfferInv DEF Dispatch
<1>3. CASE AgentMessage
  BY <1>3, AcceptAttemptInv, RejectOfferInv, RenewAttemptsInv,
     ReauthorizeAttemptInv, FinishAttemptInv, ResultKindsAssumption DEF AgentMessage
<1>4. CASE ExpireLeases
  BY <1>4, ExpiryScanInv, ClaimExpiredInv, FinishExpiredInv DEF ExpireLeases
<1>5. CASE Operator
  BY <1>5, CancelRunInv, CancelBatchInv, RetryRunInv DEF Operator
<1>6. CASE Health
  BY <1>6, RecordEvidenceInv DEF Health
<1>7. CASE AbortExpiryPass \/ Crash
  BY <1>7, ForgetInv
<1>8. CASE Tick
  BY <1>8, TickInv
<1>9. CASE UNCHANGED vars
  <2> USE DEF vars, batchVars, rollupVars, healthVars, dispatchVars, expiryVars,
              boundVars
  <2>1. TypeOK'
    BY <1>9 DEF IndInv, TypeOK, BatchTypeOK, RollupTypeOK
  <2>2. SentOrReleased' /\ ScanIsExpired'
    BY <1>9 DEF IndInv, SentOrReleased, ScanIsExpired
  <2> QED
    BY <1>9, <2>1, <2>2, SameTables DEF IndInv
<1> QED
  BY <1>1, <1>2, <1>3, <1>4, <1>5, <1>6, <1>7, <1>8, <1>9 DEF Next

(* The inductive invariant holds in every reachable state.                 *)
THEOREM Invariance == Spec => []IndInv
<1>1. Init => IndInv
  BY InitIndInv
<1>2. IndInv /\ [Next]_vars => IndInv'
  BY NextIndInv
<1> QED
  BY <1>1, <1>2, PTL DEF Spec

(* The tables and the loops' memory are always well typed.                 *)
THEOREM TypeCorrect == Spec => []TypeOK
<1>1. IndInv => TypeOK
  BY DEF IndInv
<1> QED
  BY <1>1, Invariance, PTL

(* A run is running exactly while one attempt of it is live, and no run    *)
(* ever has two live attempts, for any number of runs, batches, agents and *)
(* attempts: the lease discipline of create_attempt, release_offer,        *)
(* reject_offer, finish_attempt and the expiry pass.                       *)
THEOREM OneLiveAttempt == Spec => []RunAttemptAgreement
<1>1. IndInv => RunAttemptAgreement
  BY DEF IndInv
<1> QED
  BY <1>1, Invariance, PTL

(* A stored success is never overturned, although finish_attempt_inner     *)
(* updates the run without looking at its state.                           *)
THEOREM SuccessNeverOverturned == Spec => []SuccessIsFinal
<1>1. IndInv => SuccessIsFinal
  BY DEF IndInv
<1> QED
  BY <1>1, Invariance, PTL

-----------------------------------------------------------------------------
(* What a step may do to a run and to a lease.                             *)

(* The moves that any store operation makes between run states.            *)
Moves ==
  {<<"absent", "queued">>, <<"queued", "running">>, <<"queued", "failed">>,
   <<"queued", "cancelled">>, <<"running", "queued">>, <<"running", "succeeded">>,
   <<"running", "failed">>, <<"running", "cancelled">>, <<"failed", "queued">>}

RunStep ==
  \A r \in Runs : \/ runs'[r].state = runs[r].state
                  \/ <<runs[r].state, runs'[r].state>> \in Moves

(* A step that revokes a lease finds it expired for more than a heartbeat. *)
LeaseStep ==
  \A a \in Attempts :
    attempts[a].state # "expiring" /\ attempts'[a].state = "expiring"
      => attempts[a].lease_expires_at + HeartbeatSeconds < now

(* Storing the result of a live attempt moves a running run only, and      *)
(* claims no lease.                                                        *)
LEMMA StoreResultStep ==
  ASSUME IndInv, NEW a \in Attempts, NEW k, attempts[a].state \in LiveAttempt,
         StoreResult(a, k)
  PROVE  RunStep /\ LeaseStep
<1> USE DEF IndInv
<1> DEFINE r == attempts[a].run_id
           s == NextRunState(r, k)
<1>1. r \in Runs
  BY DEF RowsAreWhole, LiveAttempt
<1>2. LeaseStep
  <2>1. \/ attempts' = [attempts EXCEPT ![a].state = "late_result", ![a].outcome = k]
        \/ attempts' = [attempts EXCEPT ![a].state = "finished", ![a].outcome = k]
    BY DEF StoreResult
  <2> QED
    BY <2>1 DEF LeaseStep, TypeOK, AttemptRow
<1>3. CASE runs[r].state = "cancelled"
  <2>1. runs' = runs
    BY <1>3 DEF StoreResult
  <2> QED
    BY <1>2, <2>1 DEF RunStep
<1>4. CASE runs[r].state # "cancelled"
  <2>1. runs[r].state = "running"
    BY <1>1, <1>4 DEF RunAttemptAgreement, LiveOf, AttemptsOf
  <2>2. PICK d : runs' = [runs EXCEPT ![r].state = s, ![r].not_before = now + d]
    BY <1>4 DEF StoreResult
  <2>3. \A q \in Runs : runs'[q].state = IF q = r THEN s ELSE runs[q].state
    BY <1>1, <2>2 DEF TypeOK, RunRow
  <2>4. s \in {"succeeded", "queued", "failed"}
    BY NextRunStateType
  <2> HIDE DEF s
  <2> QED
    BY <1>2, <2>1, <2>3, <2>4 DEF RunStep, Moves
<1> QED
  BY <1>3, <1>4

(* New runs were absent before.                                            *)
LEMMA CreateStep == ASSUME IndInv, Create PROVE RunStep /\ LeaseStep
<1> USE DEF IndInv
<1>1. attempts' = attempts
  BY DEF Create, CreateRun, FinalizeBatch
<1>2. \A r \in Runs :
        \/ runs'[r].state = runs[r].state
        \/ runs[r].state = "absent" /\ runs'[r].state = "queued"
  <2>1. CASE \E r \in Runs, delay \in 0..MaxDelay : CreateRun(r, now + delay)
    BY <2>1 DEF CreateRun, QueuedRun, TypeOK, RunRow
  <2>2. CASE \E b \in Batches : \E S \in SUBSET RunsOf(b), bad \in 0..1,
               delay \in 0..MaxDelay : FinalizeBatch(b, S, bad, now + delay)
    <3>1. PICK b \in Batches : \E S \in SUBSET RunsOf(b), bad \in 0..1,
               delay \in 0..MaxDelay : FinalizeBatch(b, S, bad, now + delay)
      BY <2>2
    <3>2. PICK S \in SUBSET RunsOf(b), bad \in 0..1, delay \in 0..MaxDelay :
            FinalizeBatch(b, S, bad, now + delay)
      BY <3>1
    <3>3. \A r \in S : runs[r].state = "absent"
      BY <3>2, NoneIsNoBatch DEF FinalizeBatch, RunsOf, CollectingHasNoRuns
    <3> QED
      BY <3>2, <3>3 DEF FinalizeBatch, QueuedRun, RunsOf
  <2> QED
    BY <2>1, <2>2 DEF Create
<1> QED
  BY <1>1, <1>2 DEF RunStep, LeaseStep, Moves

(* Dispatch moves runs between queued and running only.                    *)
LEMMA DispatchStep == ASSUME IndInv, Dispatch PROVE RunStep /\ LeaseStep
<1> USE DEF IndInv
<1>1. CASE \E S \in SUBSET Runs : DispatchPass(S)
  BY <1>1 DEF DispatchPass, RunStep, LeaseStep
<1>2. CASE \E r \in Runs : SkipCandidate(r)
  BY <1>2 DEF SkipCandidate, RunStep, LeaseStep
<1>3. CASE \E r \in Runs, g \in Agents, a \in Attempts : CreateAttempt(r, g, a)
  BY <1>3 DEF CreateAttempt, TypeOK, RunRow, AttemptRow, RunStep, LeaseStep, Moves
<1>4. CASE SendAssignment
  BY <1>4 DEF SendAssignment, RunStep, LeaseStep
<1>5. CASE ReleaseOffer
  <2>1. PICK a \in Attempts : a = offer
    BY <1>5 DEF ReleaseOffer, TypeOK
  <2> DEFINE r == attempts[a].run_id
  <2>2. \/ UNCHANGED <<runs, attempts>>
        \/ /\ attempts' = [attempts EXCEPT ![a].state = "offer_failed"]
           /\ runs' = [runs EXCEPT ![r].state = IF @ = "running" THEN "queued" ELSE @]
    BY <1>5, <2>1 DEF ReleaseOffer
  <2>3. CASE UNCHANGED <<runs, attempts>>
    BY <2>3 DEF RunStep, LeaseStep
  <2>4. CASE /\ attempts' = [attempts EXCEPT ![a].state = "offer_failed"]
             /\ runs' = [runs EXCEPT ![r].state = IF @ = "running" THEN "queued" ELSE @]
    <3>1. LeaseStep
      BY <2>4 DEF TypeOK, AttemptRow, LeaseStep
    <3> HIDE DEF r
    <3>2. RunStep
      BY <2>4 DEF TypeOK, RunRow, RunStep, Moves
    <3> QED
      BY <3>1, <3>2
  <2> QED
    BY <2>2, <2>3, <2>4
<1> QED
  BY <1>1, <1>2, <1>3, <1>4, <1>5 DEF Dispatch

(* A message of an agent moves a running run only.                         *)
LEMMA AgentMessageStep == ASSUME IndInv, AgentMessage PROVE RunStep /\ LeaseStep
<1> USE DEF IndInv
<1>1. ASSUME NEW a \in Attempts, AcceptAttempt(a)
      PROVE  RunStep /\ LeaseStep
  <2>1. LeaseStep
    BY <1>1 DEF AcceptAttempt, TypeOK, AttemptRow, LeaseStep
  <2>2. RunStep
    BY <1>1 DEF AcceptAttempt, TypeOK, RunRow, RunStep
  <2> QED
    BY <2>1, <2>2
<1>2. ASSUME NEW a \in Attempts, NEW k \in Rejection, RejectOffer(a, k)
      PROVE  RunStep /\ LeaseStep
  <2> DEFINE r == attempts[a].run_id
  <2>1. LeaseStep
    <3>1. attempts' = [attempts EXCEPT ![a].state = "finished", ![a].outcome = k]
      BY <1>2 DEF RejectOffer
    <3> QED
      BY <3>1 DEF TypeOK, AttemptRow, LeaseStep
  <2>2. r \in Runs
    BY <1>2 DEF RejectOffer, RowsAreWhole
  <2>3. \/ runs' = runs
        \/ /\ runs[r].state = "running"
           /\ runs' = [runs EXCEPT ![r].state = "queued", ![r].not_before = now]
    BY <1>2 DEF RejectOffer
  <2> HIDE DEF r
  <2>4. RunStep
    BY <2>2, <2>3 DEF TypeOK, RunRow, RunStep, Moves
  <2> QED
    BY <2>1, <2>4
<1>3. ASSUME NEW g \in Agents, NEW S \in SUBSET Attempts, RenewAttempts(g, S)
      PROVE  RunStep /\ LeaseStep
  BY <1>3 DEF RenewAttempts, TypeOK, AttemptRow, RunStep, LeaseStep
<1>4. ASSUME NEW a \in Attempts, ReauthorizeAttempt(a)
      PROVE  RunStep /\ LeaseStep
  BY <1>4 DEF ReauthorizeAttempt, TypeOK, AttemptRow, RunStep, LeaseStep
<1>5. ASSUME NEW a \in Attempts, NEW k \in ResultKinds, FinishAttempt(a, k)
      PROVE  RunStep /\ LeaseStep
  <2>1. attempts[a].state \in LiveAttempt
    BY <1>5, StoreAssumption
    DEF FinishAttempt, SentOrReleased, TypeOK, AttemptRow, AttemptState
  <2> QED
    BY <1>5, <2>1, StoreResultStep DEF FinishAttempt
<1> QED
  BY <1>1, <1>2, <1>3, <1>4, <1>5 DEF AgentMessage

(* The expiry pass moves running runs only, and claims only leases that    *)
(* were read as expired and not renewed since.                             *)
LEMMA ExpireLeasesStep == ASSUME IndInv, ExpireLeases PROVE RunStep /\ LeaseStep
<1> USE DEF IndInv
<1>1. CASE ExpiryScan
  BY <1>1 DEF ExpiryScan, RunStep, LeaseStep
<1>2. ASSUME NEW row \in scan, ClaimExpired(row)
      PROVE  RunStep /\ LeaseStep
  <2>1. PICK a \in Attempts : a = row.id
    BY DEF TypeOK, ScanRow
  <2>2. runs' = runs
    BY <1>2 DEF ClaimExpired
  <2>3. CASE StillExpired(row)
    <3>1. attempts' = [attempts EXCEPT ![a].state = "expiring"]
      BY <1>2, <2>1, <2>3 DEF ClaimExpired
    <3>2. attempts[a].lease_expires_at + HeartbeatSeconds < now
      BY <2>1, <2>3 DEF StillExpired, ScanIsExpired
    <3> QED
      BY <2>2, <3>1, <3>2 DEF TypeOK, AttemptRow, RunStep, LeaseStep
  <2>4. CASE ~StillExpired(row)
    BY <1>2, <2>2, <2>4 DEF ClaimExpired, RunStep, LeaseStep
  <2> QED
    BY <2>3, <2>4
<1>3. ASSUME NEW a \in Attempts, FinishExpired(a)
      PROVE  RunStep /\ LeaseStep
  <2>1. CASE attempts[a].state = "expiring"
    BY <1>3, <2>1, StoreResultStep DEF FinishExpired, LiveAttempt
  <2>2. CASE attempts[a].state # "expiring"
    BY <1>3, <2>2 DEF FinishExpired, RunStep, LeaseStep
  <2> QED
    BY <2>1, <2>2
<1> QED
  BY <1>1, <1>2, <1>3 DEF ExpireLeases

(* Operators cancel active runs and requeue failed ones.                   *)
LEMMA OperatorStep == ASSUME IndInv, Operator PROVE RunStep /\ LeaseStep
<1> USE DEF IndInv
<1>1. ASSUME NEW r \in Runs, CancelRun(r)
      PROVE  RunStep /\ LeaseStep
  BY <1>1 DEF CancelRun, TypeOK, RunRow, RunStep, LeaseStep, Moves
<1>2. ASSUME NEW b \in Batches, CancelBatch(b)
      PROVE  RunStep /\ LeaseStep
  BY <1>2 DEF CancelBatch, ActiveIn, TypeOK, RunRow, RunStep, LeaseStep, Moves
<1>3. ASSUME NEW r \in Runs, RetryRun(r)
      PROVE  RunStep /\ LeaseStep
  <2>1. \A q \in Runs : runs'[q].state = IF q = r THEN "queued" ELSE runs[q].state
    BY <1>3 DEF RetryRun, TypeOK, RunRow
  <2>2. runs[r].state = "failed" /\ attempts' = attempts
    BY <1>3 DEF RetryRun
  <2> QED
    BY <2>1, <2>2 DEF RunStep, LeaseStep, Moves
<1> QED
  BY <1>1, <1>2, <1>3 DEF Operator

(* A poison confirmation fails queued runs only.                           *)
LEMMA HealthStep == ASSUME IndInv, Health PROVE RunStep /\ LeaseStep
<1> USE DEF IndInv
<1>1. PICK a \in Attempts, k \in Kind, confirmed \in BOOLEAN :
        RecordEvidence(a, k, confirmed)
  BY DEF Health
<1>2. attempts' = attempts
  BY <1>1 DEF RecordEvidence
<1>3. \/ runs' = runs
      \/ \E E : runs' = [r \in Runs |-> IF r \in E /\ runs[r].state = "queued"
                                        THEN [runs[r] EXCEPT !.state = "failed"]
                                        ELSE runs[r]]
  BY <1>1 DEF RecordEvidence
<1> QED
  BY <1>2, <1>3 DEF TypeOK, RunRow, RunStep, LeaseStep, Moves

(* Every step moves runs along the permitted edges and revokes no current  *)
(* lease.                                                                  *)
LEMMA NextStep == ASSUME IndInv, [Next]_vars PROVE RunStep /\ LeaseStep
<1>1. CASE AbortExpiryPass \/ Crash \/ Tick \/ UNCHANGED vars
  BY <1>1 DEF AbortExpiryPass, Crash, Tick, vars, RunStep, LeaseStep
<1> QED
  BY <1>1, CreateStep, DispatchStep, AgentMessageStep, ExpireLeasesStep,
     OperatorStep, HealthStep DEF Next

(* No step changes a succeeded or a cancelled run, and a failed run is     *)
(* only ever requeued: late results, expiry passes, rejections and poison  *)
(* confirmations included.                                                 *)
THEOREM TerminalStates == Spec => TerminalIsFinal
<1>1. IndInv /\ [Next]_vars
        => [\A r \in Runs :
              /\ runs[r].state \in {"succeeded", "cancelled"}
                   => runs'[r].state = runs[r].state
              /\ runs[r].state = "failed"
                   => runs'[r].state \in {"failed", "queued"}]_vars
  BY NextStep DEF RunStep, Moves
<1> QED
  BY <1>1, Invariance, PTL DEF Spec, TerminalIsFinal

(* The expiry pass never revokes a lease that was renewed since it was     *)
(* scanned: the compare-and-swap of claim_expired_attempts.                *)
THEOREM LeasesAreNotStolen == Spec => LeaseNotStolen
<1>1. IndInv /\ [Next]_vars
        => [\A a \in Attempts :
              attempts[a].state # "expiring" /\ attempts'[a].state = "expiring"
                => attempts[a].lease_expires_at + HeartbeatSeconds < now]_vars
  BY NextStep DEF LeaseStep
<1> QED
  BY <1>1, Invariance, PTL DEF Spec, LeaseNotStolen
=============================================================================
