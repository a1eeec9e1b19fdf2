---------------------- MODULE MCMCPServerController ----------------------
(***************************************************************************)
(* Instances of MCPServerController for TLC.  One server: servers share    *)
(* nothing but the bounds, since a reconcile reads and writes its own      *)
(* object and its own cache entries only.                                  *)
(***************************************************************************)
EXTENDS MCPServerController, TLC

CONSTANTS s1, r1, r2, t1, t2

\* The registries are interchangeable (used by the safety runs only).
Symmetry == Permutations({r1, r2})
=============================================================================
