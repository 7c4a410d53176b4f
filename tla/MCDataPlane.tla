---------------------------- MODULE MCDataPlane ----------------------------
(* Relay r1 may stop early; then, as in the scripts, all nodes stop together. *)
EXTENDS DataPlane

MCStopGroups == {{r1}, Node}
=============================================================================
