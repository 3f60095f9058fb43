----------------------------- MODULE MCServices -----------------------------
(* Values for the constants of Services that a .cfg cannot write. *)
EXTENDS Services, TLC

Kinds == [d1 |-> "short"]
Ranks == [short |-> 2, spur |-> 1]
Weights == [short |-> 4, spur |-> 1]

\* A turn that meets everything, and one whose model is down.
Faults == {{"unreachable", "misshapen", "bad_call", "leave", "delete"}, {"unreachable"}}

\* The tasks of one image do the same.
TasksAlike == Permutations(ChainTasks)

\* The evaluation of a new version, with crashes of the worker and weights that do not load.
Evaluating == {{"inference_crash", "weights"}}
=============================================================================
