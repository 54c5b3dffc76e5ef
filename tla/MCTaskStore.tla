---------------------------- MODULE MCTaskStore ----------------------------
(* Model values and symmetry for the runs of TaskStore.                    *)
EXTENDS TaskStore, TLC

\* Agents, sessions and resources are only compared for equality.
Symmetry == Permutations(Agents) \cup Permutations(Sessions)
              \cup Permutations(Resources)
=============================================================================
