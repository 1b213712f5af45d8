----------------------- MODULE MCEntitlementIssuance -----------------------
(* Instances of EntitlementIssuance for TLC. *)
EXTENDS EntitlementIssuance, TLC

\* Requests are interchangeable; used only by runs without liveness.
Symmetry == Permutations(Requests) \cup Permutations(ManualKeys)
=============================================================================
