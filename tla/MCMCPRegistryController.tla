--------------------- MODULE MCMCPRegistryController ---------------------
(***************************************************************************)
(* Instances of MCPRegistryController for TLC.                             *)
(***************************************************************************)
EXTENDS MCPRegistryController, TLC

CONSTANTS d1, d2, e1, e2, index, a, b, c, c1, c2

\* Two directories with names of their own.
Distinct == [d \in Dir |-> IF d = d1 THEN e1 ELSE e2]

\* The two directories are alike, together with their entries.
Alike ==
  {f \in Permutations({d1, d2, e1, e2}) :
     \A d \in Dir : f[d] \in Dir /\ f[Safe[d]] = Safe[f[d]]}
=============================================================================
