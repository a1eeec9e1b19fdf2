------------------------- MODULE MCCircuitBreaker -------------------------
(***************************************************************************)
(* An instance of CircuitBreaker for TLC.                                  *)
(***************************************************************************)
EXTENDS CircuitBreaker

CONSTANTS g1, g2

\* MaxRequests is left to its default, 1.
TwoFailures == [MaxFailures |-> 2, MaxRequests |-> 0]
=============================================================================
