------------------------ MODULE CircuitBreakerProofs ------------------------
(***************************************************************************)
(* What TLAPS proves of CircuitBreaker, for any callers, configuration and *)
(* bounds: the types, when it is stuck, and that it implements Breaker.    *)
(***************************************************************************)
EXTENDS CircuitBreaker, TLAPS

\* NewCircuitBreaker leaves no limit at zero.
LEMMA LimitsArePositive ==
  Config.MaxFailures \in Nat \ {0} /\ Config.MaxRequests \in Nat \ {0}
BY ConstantsAssumption DEF Config

\* A refusal is one of the two errors.
LEMMA RefusalsAreAnswers == Refusal # "nil" => Refusal \in Answer
<1>1. CASE state = "open" /\ ~waited
  <2>1. Refusal = "ErrCircuitBreakerOpen"
    BY <1>1, Zenon DEF Refusal
  <2> QED
    BY <2>1 DEF Answer
<1>2. CASE ~(state = "open" /\ ~waited) /\ state = "half-open" /\ requests >= Config.MaxRequests
  <2>1. Refusal = "ErrTooManyRequests"
    BY <1>2, Zenon DEF Refusal
  <2> QED
    BY <2>1 DEF Answer
<1>3. CASE ~(state = "open" /\ ~waited) /\ ~(state = "half-open" /\ requests >= Config.MaxRequests)
  <2>1. Refusal = "nil"
    BY <1>3, Zenon DEF Refusal
  <2> QED
    BY <2>1
<1> QED
  BY <1>1, <1>2, <1>3

-----------------------------------------------------------------------------
(***************************************************************************)
(* Type correctness.                                                       *)
(***************************************************************************)
\* Every variable has its type: no step of the breaker lets requests grow past
\* the limit.
THEOREM TypeCorrect == Spec => []TypeOK
<1>1. Init => TypeOK
  BY ConstantsAssumption, LimitsArePositive DEF Init, TypeOK, State, Answer
<1>2. TypeOK /\ [Next]_vars => TypeOK'
  <2> SUFFICES ASSUME TypeOK, [Next]_vars PROVE TypeOK'
    OBVIOUS
  <2> USE ConstantsAssumption, LimitsArePositive
          DEF TypeOK, State, Answer, breaker, bounds
  <2>1. ASSUME NEW c \in Caller, Call(c) PROVE TypeOK'
    BY <2>1 DEF Call
  <2>2. ASSUME NEW c \in Caller, Run(c) PROVE TypeOK'
    BY <2>2 DEF Run, Passes, setState
  <2>3. ASSUME NEW c \in Caller, Reject(c) PROVE TypeOK'
    BY <2>3, RefusalsAreAnswers DEF Reject
  <2>4. ASSUME NEW c \in Caller, Fail(c) PROVE TypeOK'
    <3>1. /\ pc' = [pc EXCEPT ![c] = "idle"]
          /\ answer' = [answer EXCEPT ![c] = "failed"]
          /\ holder' = None /\ calls' = calls /\ resets' = resets
      BY <2>4 DEF Fail, Returned
    <3>2. failures' = failures + 1 /\ waited' = FALSE /\ requests' = requests
      BY <2>4 DEF Fail, onFailure
    <3>3. state' \in State /\ lost' \in Nat
      BY <2>4 DEF Fail, onFailure, setState
    <3>4. /\ pc' \in [Caller -> {"idle", "locking", "running"}]
          /\ answer' \in [Caller -> Answer]
      BY <3>1
    <3>5. failures' \in Nat /\ requests' \in 0..Config.MaxRequests /\ waited' \in BOOLEAN
      <4>1. failures \in Nat /\ requests \in 0..Config.MaxRequests
        OBVIOUS
      <4>2. waited' \in BOOLEAN
        BY <3>2, Zenon
      <4> HIDE DEF TypeOK
      <4> QED
        BY <3>2, <4>1, <4>2
    <3>6. holder' \in Caller \cup {None} /\ calls' \in 0..MaxCalls /\ resets' \in 0..MaxResets
      BY <3>1
    <3> QED
      BY <3>3, <3>4, <3>5, <3>6
  <2>5. ASSUME NEW c \in Caller, Succeed(c) PROVE TypeOK'
    BY <2>5 DEF Succeed, Returned, onSuccess, setState
  <2>6. ASSUME NEW c \in Caller, Panic(c) PROVE TypeOK'
    BY <2>6 DEF Panic, Returned
  <2>7. CASE Reset
    BY <2>7 DEF Reset, setState
  <2>8. CASE Elapse
    BY <2>8 DEF Elapse
  <2>9. CASE UNCHANGED vars
    BY <2>9 DEF vars
  <2> QED
    BY <2>1, <2>2, <2>3, <2>4, <2>5, <2>6, <2>7, <2>8, <2>9 DEF Next
<1> QED
  BY <1>1, <1>2, PTL DEF Spec

-----------------------------------------------------------------------------
(***************************************************************************)
(* The inductive invariant.  The mutex is held by the one goroutine whose  *)
(* function runs; the state says whether the failures have reached the     *)
(* limit, the half-open one is only there once the timeout has passed, and *)
(* no function runs in the open one (so that every success resets).        *)
(* There, requests is one less than the calls that ran: all of them have   *)
(* panicked, but for the one that runs.                                    *)
(***************************************************************************)
MutexHeld == \A c \in Caller : pc[c] = "running" <=> holder = c

StateFits ==
  /\ state = "closed" <=> failures < Config.MaxFailures
  /\ state = "half-open" => waited
  /\ state = "open" => holder = None

PanicsCounted ==
  state = "half-open" => lost = requests + (IF holder = None THEN 1 ELSE 0)

Inv == TypeOK /\ MutexHeld /\ StateFits /\ PanicsCounted

LEMMA InvInit == Init => Inv
<1> SUFFICES ASSUME Init PROVE Inv
  OBVIOUS
<1>1. TypeOK
  BY ConstantsAssumption, LimitsArePositive DEF Init, TypeOK, State, Answer
<1>2. MutexHeld
  BY ConstantsAssumption DEF Init, MutexHeld
<1>3. StateFits /\ PanicsCounted
  BY LimitsArePositive DEF Init, StateFits, PanicsCounted
<1> QED
  BY <1>1, <1>2, <1>3 DEF Inv

\* Every step keeps the invariant, given that it keeps the types.
LEMMA InvStep == Inv /\ TypeOK' /\ [Next]_vars => Inv'
<1> SUFFICES ASSUME Inv, TypeOK', [Next]_vars
             PROVE  MutexHeld' /\ StateFits' /\ PanicsCounted'
  BY DEF Inv
<1> USE ConstantsAssumption, LimitsArePositive
        DEF Inv, TypeOK, State, MutexHeld, StateFits, PanicsCounted, breaker, bounds
<1>1. ASSUME NEW c \in Caller, Call(c) PROVE MutexHeld' /\ StateFits' /\ PanicsCounted'
  BY <1>1 DEF Call
<1>2. ASSUME NEW c \in Caller, Run(c) PROVE MutexHeld' /\ StateFits' /\ PanicsCounted'
  <2>1. MutexHeld'
    BY <1>2 DEF Run
  <2>2. CASE state = "closed" /\ UNCHANGED <<breaker, lost>>
    BY <1>2, <2>2 DEF Run
  <2>3. CASE state = "open" /\ waited /\ setState("half-open") /\ requests' = 0 /\ failures' = failures
    <3>1. state' = "half-open" /\ lost' = 0 /\ holder' # None /\ waited'
      BY <1>2, <2>3 DEF Run, setState
    <3> QED
      BY <2>1, <2>3, <3>1
  <2>4. CASE /\ state = "half-open" /\ requests' = requests + 1
             /\ UNCHANGED <<state, failures, lost>>
    BY <1>2, <2>4 DEF Run
  <2> QED
    BY <1>2, <2>1, <2>2, <2>3, <2>4 DEF Run, Passes
<1>3. ASSUME NEW c \in Caller, Reject(c) PROVE MutexHeld' /\ StateFits' /\ PanicsCounted'
  BY <1>3 DEF Reject
<1>4. ASSUME NEW c \in Caller, Fail(c) PROVE MutexHeld' /\ StateFits' /\ PanicsCounted'
  <2>1. MutexHeld'
    BY <1>4 DEF Fail, Returned
  <2>2. StateFits' /\ PanicsCounted'
    BY <1>4 DEF Fail, Returned, onFailure, setState
  <2> QED
    BY <2>1, <2>2
<1>5. ASSUME NEW c \in Caller, Succeed(c) PROVE MutexHeld' /\ StateFits' /\ PanicsCounted'
  <2>1. MutexHeld'
    BY <1>5 DEF Succeed, Returned
  <2>2. failures' = 0 /\ state' = "closed"
    BY <1>5 DEF Succeed, Returned, onSuccess, setState
  <2> QED
    BY <2>1, <2>2
<1>6. ASSUME NEW c \in Caller, Panic(c) PROVE MutexHeld' /\ StateFits' /\ PanicsCounted'
  BY <1>6 DEF Panic, Returned
<1>7. CASE Reset
  BY <1>7 DEF Reset, setState
<1>8. CASE Elapse
  BY <1>8 DEF Elapse
<1>9. CASE UNCHANGED vars
  BY <1>9 DEF vars
<1> QED
  BY <1>1, <1>2, <1>3, <1>4, <1>5, <1>6, <1>7, <1>8, <1>9 DEF Next

LEMMA InvHolds == Spec => []Inv
<1>1. Inv /\ TypeOK' /\ [Next]_vars => Inv'
  BY InvStep
<1> QED
  BY TypeCorrect, InvInit, <1>1, PTL DEF Spec

\* The half-open breaker is stuck exactly after MaxRequests + 1 panics
\* (circuitbreaker.go:153, 176).
THEOREM StuckOnlyByPanicsHolds == Spec => []StuckOnlyByPanics
<1>1. Inv => StuckOnlyByPanics
  BY LimitsArePositive
     DEF Inv, TypeOK, State, PanicsCounted, StateFits, StuckOnlyByPanics, Refusal
<1> QED
  BY InvHolds, <1>1, PTL

-----------------------------------------------------------------------------
(***************************************************************************)
(* The refinement.                                                         *)
(***************************************************************************)
\* Whatever the states and counters say, calls run one at a time and none runs
\* between the failure that opens the breaker and the end of the timeout.
THEOREM Implements == Spec => KeepsContract
<1>1. Init => Contract!Init
  BY LimitsArePositive DEF Init, Contract!Init
<1>2. Inv /\ Inv' /\ [Next]_vars => [Contract!Next]_Contract!contract
  <2> SUFFICES ASSUME Inv, Inv', [Next]_vars PROVE [Contract!Next]_Contract!contract
    OBVIOUS
  <2> DEFINE running == {c \in Caller : pc[c] = "running"}
  <2> USE ConstantsAssumption, LimitsArePositive
  <2>1. ASSUME NEW c \in Caller, Call(c) PROVE UNCHANGED Contract!contract
    BY <2>1 DEF Call, Inv, TypeOK, breaker, Contract!contract
  <2>2. ASSUME NEW c \in Caller, Run(c) PROVE Contract!Enter(c)
    <3>1. running = {} /\ running' = {c}
      BY <2>2 DEF Run, Inv, MutexHeld, TypeOK
    <3>2. failures' = failures /\ waited' = waited
      BY <2>2 DEF Run, Passes, setState, breaker
    <3>3. failures < Config.MaxFailures \/ waited
      BY <2>2 DEF Run, Passes, Inv, StateFits, TypeOK
    <3> QED
      BY <3>1, <3>2, <3>3 DEF Contract!Enter, Contract!Trusted, Inv, TypeOK
  <2>3. ASSUME NEW c \in Caller, Reject(c) PROVE UNCHANGED Contract!contract
    BY <2>3 DEF Reject, Inv, TypeOK, breaker, Contract!contract
  <2>4. ASSUME NEW c \in Caller, Returned(c, answer'[c])
        PROVE  c \in running /\ running' = running \ {c}
    BY <2>4 DEF Returned, Inv, TypeOK
  <2>5. ASSUME NEW c \in Caller, Fail(c) PROVE Contract!Fail(c)
    BY <2>4, <2>5 DEF Fail, Returned, onFailure, Inv, TypeOK, Contract!Fail, Contract!Trusted
  <2>6. ASSUME NEW c \in Caller, Succeed(c) PROVE Contract!Succeed(c)
    <3>1. state # "open"
      BY <2>6 DEF Succeed, Returned, Inv, TypeOK, StateFits
    <3> QED
      BY <2>4, <2>6, <3>1 DEF Succeed, Returned, onSuccess, Inv, TypeOK, Contract!Succeed
  <2>7. ASSUME NEW c \in Caller, Panic(c) PROVE Contract!Vanish(c)
    BY <2>4, <2>7 DEF Panic, Returned, breaker, Inv, TypeOK, Contract!Vanish
  <2>8. CASE Reset
    <3>1. running = {} /\ running' = running
      BY <2>8 DEF Reset, Inv, MutexHeld, TypeOK
    <3> QED
      BY <2>8, <3>1 DEF Reset, Contract!Next, Contract!Forgive
  <2>9. CASE Elapse
    BY <2>9 DEF Elapse, breaker, Contract!Next, Contract!Cool
  <2>10. CASE UNCHANGED vars
    BY <2>10 DEF vars, Contract!contract
  <2> QED
    BY <2>1, <2>2, <2>3, <2>5, <2>6, <2>7, <2>8, <2>9, <2>10 DEF Next, Contract!Next
<1> QED
  BY <1>1, <1>2, InvHolds, PTL DEF Spec, KeepsContract, Contract!Spec
=============================================================================
