----------------------------- MODULE MCRunStore ------------------------------
(* Instances of RunStore for TLC.                                          *)
EXTENDS RunStore, TLC

CONSTANT b1

(* Runs with no batch, all with the same input.                            *)
NoBatches == {}
Unbatched == [r \in Runs |-> None]
SameInput == [r \in Runs |-> "input"]

(* All runs are items of one batch.                                        *)
OneBatch == [r \in Runs |-> b1]

IdSymmetry == Permutations(Attempts) \union Permutations(Agents)
=============================================================================
