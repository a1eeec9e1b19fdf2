------------------------------ MODULE Breaker ------------------------------
(***************************************************************************)
(* What a circuit breaker promises to those who call through it, without   *)
(* its states and counters: calls run one at a time, and after MaxFailures *)
(* failures in a row one runs only once the timeout has passed since the   *)
(* last of them.  CircuitBreaker implements it.                            *)
(***************************************************************************)
EXTENDS Naturals

CONSTANTS
  Caller,       \* those who call
  MaxFailures   \* the failures in a row that open the breaker

VARIABLES
  inside,   \* the callers whose function runs
  streak,   \* failures since the last success, counted up to MaxFailures
  cooled    \* the timeout has passed since the last failure

contract == <<inside, streak, cooled>>

Init ==
  /\ inside = {} /\ streak = 0 /\ cooled = TRUE

Trusted == streak < MaxFailures

Enter(c) ==
  /\ inside = {}
  /\ Trusted \/ cooled
  /\ inside' = {c}
  /\ UNCHANGED <<streak, cooled>>

Succeed(c) ==
  /\ c \in inside
  /\ inside' = inside \ {c} /\ streak' = 0
  /\ UNCHANGED cooled

Fail(c) ==
  /\ c \in inside
  /\ inside' = inside \ {c} /\ cooled' = FALSE
  /\ streak' = IF Trusted THEN streak + 1 ELSE streak

\* The function panics: neither a success nor a failure.
Vanish(c) ==
  /\ c \in inside
  /\ inside' = inside \ {c}
  /\ UNCHANGED <<streak, cooled>>

Cool ==
  /\ cooled' = TRUE
  /\ UNCHANGED <<inside, streak>>

Forgive ==
  /\ inside = {}
  /\ streak' = 0
  /\ UNCHANGED <<inside, cooled>>

Next ==
  \/ \E c \in Caller : Enter(c) \/ Succeed(c) \/ Fail(c) \/ Vanish(c)
  \/ Cool
  \/ Forgive

Spec == Init /\ [][Next]_contract
=============================================================================
