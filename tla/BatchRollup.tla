----------------------------- MODULE BatchRollup -----------------------------
(***************************************************************************)
(* How the state of a parameter-collection batch follows the runs it was   *)
(* materialised into: the batch_items and batches rows written by          *)
(* crates/scheduler-store/src/collection.rs.  Every store operation that   *)
(* moves a run calls sync_batch_run_state_tx in the same transaction, so   *)
(* these are operators that give the next value of the two tables and the  *)
(* actions of RunStore use them.                                           *)
(*                                                                         *)
(* Ingestion (scheduled, collecting, page commits) happens before any run  *)
(* exists; here it is the single batch state "collecting".                 *)
(***************************************************************************)
EXTENDS Integers, FiniteSets

CONSTANTS
  Runs,       \* identities of the runs that may ever be created
  Batches,    \* identities of the collection batches
  None,       \* "no such row" / SQL NULL
  BatchOf     \* runs.batch_id: the batch of a run, or None

ASSUME BatchOfAssumption == BatchOf \in [Runs -> Batches \union {None}]

ASSUME NoneIsNoBatch == None \notin Batches

VARIABLES
  item,         \* batch_items.state of the item a run was made from
  batch,        \* batches.state
  quarantined   \* invalid_item_count + poisoned_item_count + held_item_count

TerminalRun == {"succeeded", "failed", "cancelled"}

RunState == {"absent", "queued", "running"} \union TerminalRun

ItemState == RunState \union {"poisoned"}

BatchState ==
  {"collecting", "running", "succeeded", "completed_with_errors", "cancelled"}

RunsOf(b) == {r \in Runs : BatchOf[r] = b}

BatchTypeOK ==
  /\ item \in [Runs -> ItemState]
  /\ batch \in [Batches -> BatchState]
  /\ quarantined \in [Batches -> Nat]

BatchInit ==
  /\ item = [r \in Runs |-> "absent"]
  /\ batch = [b \in Batches |-> "collecting"]
  /\ quarantined = [b \in Batches |-> 0]

(***************************************************************************)
(* sync_batch_run_state_tx(run_id, run_state).  "after" maps every run to  *)
(* its state once the enclosing transaction has updated it, which need not *)
(* be run_state for run_id itself: release_offer and reject_offer say      *)
(* "queued" even when their guarded UPDATE of a cancelled run did nothing. *)
(***************************************************************************)
AfterItem(r, s) ==
  IF BatchOf[r] = None THEN item ELSE [item EXCEPT ![r] = s]

Exists(after, b) == {r \in RunsOf(b) : after[r] # "absent"}

Settled(after, b) == \A r \in Exists(after, b) : after[r] \in TerminalRun

SettledState(after, b, q) ==
  IF q = 0 /\ \A r \in Exists(after, b) : after[r] = "succeeded"
  THEN "succeeded"
  ELSE "completed_with_errors"

(* Mutant: a batch is not reopened by a run that is queued again.          *)
AfterBatchUnopened(r, s, after) ==
  [c \in Batches |->
     IF c = BatchOf[r] /\ s \in TerminalRun /\ batch[c] = "running"
          /\ Settled(after, c)
     THEN SettledState(after, c, quarantined[c])
     ELSE batch[c]]

AfterBatch(r, s, after) ==
  LET b == BatchOf[r] IN
  [c \in Batches |->
     IF c # b THEN batch[c]
     ELSE IF s \in {"queued", "running"}
          THEN IF batch[c] \in {"succeeded", "completed_with_errors"}
               THEN "running"
               ELSE batch[c]
          ELSE IF batch[c] = "running" /\ Settled(after, c)
               THEN SettledState(after, c, quarantined[c])
               ELSE batch[c]]

SyncBatch(r, s, after) ==
  /\ item' = AfterItem(r, s)
  /\ batch' = AfterBatch(r, s, after)
  /\ UNCHANGED quarantined

(***************************************************************************)
(* The tail of finalize_batch: the ready items became the runs S and "bad" *)
(* items were quarantined during ingestion.                                *)
(***************************************************************************)
FinalizeItems(b, S, bad) ==
  /\ item' = [r \in Runs |-> IF r \in S THEN "queued" ELSE item[r]]
  /\ quarantined' = [quarantined EXCEPT ![b] = bad]
  /\ batch' = [batch EXCEPT ![b] = IF S # {} THEN "running"
                                   ELSE IF bad > 0
                                        THEN "completed_with_errors"
                                        ELSE "succeeded"]

(* The batch and item updates of cancel_batch.                             *)
CancelItems(b) ==
  /\ batch' = [batch EXCEPT ![b] = "cancelled"]
  /\ item' = [r \in Runs |->
                IF r \in RunsOf(b) /\ item[r] \in {"queued", "running"}
                THEN "cancelled" ELSE item[r]]
  /\ UNCHANGED quarantined

(***************************************************************************)
(* reconcile_confirmed_collection_items_tx: E are the runs with evidence   *)
(* for the confirmed fingerprint, "after" the run states once its queued   *)
(* runs were failed.  A batch is only looked at when one of its items was  *)
(* reclassified.                                                           *)
(***************************************************************************)
(* Mutant: the item of a run that is running is reclassified too.          *)
PoisonedActive(E) ==
  {r \in E : BatchOf[r] # None /\ item[r] \in {"queued", "running", "failed"}}

Poisoned(E) ==
  {r \in E : BatchOf[r] # None /\ item[r] \in {"queued", "failed"}}

(* Mutant: a batch whose last runs were poisoned is not completed.         *)
PoisonItemsOnly(E, after) ==
  /\ item' = [r \in Runs |-> IF r \in Poisoned(E) THEN "poisoned" ELSE item[r]]
  /\ quarantined' = [b \in Batches |->
       quarantined[b] + Cardinality(Poisoned(E) \intersect RunsOf(b))]
  /\ UNCHANGED batch

PoisonItems(E, after) ==
  /\ item' = [r \in Runs |-> IF r \in Poisoned(E) THEN "poisoned" ELSE item[r]]
  /\ quarantined' = [b \in Batches |->
       quarantined[b] + Cardinality(Poisoned(E) \intersect RunsOf(b))]
  /\ batch' = [b \in Batches |->
       IF /\ Poisoned(E) \intersect RunsOf(b) # {}
          /\ batch[b] = "running"
          /\ Settled(after, b)
       THEN "completed_with_errors"
       ELSE batch[b]]
==============================================================================
