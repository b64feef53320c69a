---------------------------- MODULE MCHttpTimeout ----------------------------
(* Instances of HttpTimeout for TLC. *)
EXTENDS HttpTimeout

CONSTANTS r1, r2

\* Each kind of route next to the metrics API, whose handler may take for ever.
MCRoutes ==
  {[r \in Requests |-> IF r = r1 THEN kind ELSE "metrics"] : kind \in {"proxy", "unknown"}}
==============================================================================
