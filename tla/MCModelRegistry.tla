--------------------------- MODULE MCModelRegistry --------------------------
(* Environments and symmetry for TLC's runs of ModelRegistry. *)
EXTENDS ModelRegistry, TLC

\* The other versions and the requests are interchangeable; used for safety only.
Symmetry == Permutations(Versions \ {Seed}) \cup Permutations(Activations)

\* The largest sets under which WorkerNotStale and GateHolds promise something, and everything
\* at once for the types.
Operation ==
  {Disturbances,
   {"inference_crash", "weights", "error"},
   {"api_crash", "broker", "weights", "error"}}

Settling == {{"inference_crash", "weights"}}
Undisturbed == {{}}
=============================================================================
