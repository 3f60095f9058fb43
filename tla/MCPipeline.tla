----------------------------- MODULE MCPipeline -----------------------------
(* Environments and symmetry for TLC's runs of Pipeline. *)
EXTENDS Pipeline, TLC

\* Interchangeable model values; sound for safety properties only.
Symmetry == Permutations(Images) \cup Permutations(AgentThreads) \cup Permutations(Requests)

\* The largest environments of OneTaskPerImage, in which no two tasks work on one image.
Orderly ==
  {Disturbances \ {"broker_ambiguous", "error", "blank_error", "agent_request"},
   Disturbances \ {"broker_ambiguous", "error", "blank_error", "agents_crash"},
   Disturbances \ {"broker_ambiguous", "inference_crash", "agent_request"},
   Disturbances \ {"broker_ambiguous", "inference_crash", "agents_crash"}}

\* Everything at once, and the two largest sets under which nothing should be lost.
Chaotic ==
  {Disturbances,
   Disturbances \ {"api_crash", "broker", "blank_error", "on_failure_error"},
   Disturbances \ {"inference_crash", "api_crash", "broker", "blank_error",
                   "on_failure_error"}}

Fair ==
  {{"agents_crash", "transient", "error", "agent_request"},
   {"inference_crash", "transient", "error"}}

OnlyInferenceCrash == {{"inference_crash"}}
OnlyError == {{"error", "agent_request"}}
OnlyBlankError == {{"blank_error"}}
=============================================================================
