--------------------------- MODULE CircuitBreaker ---------------------------
(***************************************************************************)
(* pkg/circuitbreaker/circuitbreaker.go: goroutines that call a function   *)
(* through one breaker.  The mutex is held from beforeRequest to           *)
(* afterRequest, the function included; a panic of the function skips      *)
(* afterRequest, and the deferred unlock still runs.  No package of the    *)
(* repository imports the breaker: the callers and the function are the    *)
(* environment.                                                            *)
(*                                                                         *)
(* The definitions called "Mutant of" are plausible mistakes; they are no  *)
(* part of the model.                                                      *)
(***************************************************************************)
EXTENDS Naturals

CONSTANTS
  Caller,       \* goroutines that call
  None,         \* nobody
  Configured,   \* what NewCircuitBreaker is given: [MaxFailures, MaxRequests]
  MaxCalls,     \* bound: calls
  MaxResets     \* bound: calls of Reset

ASSUME ConstantsAssumption ==
  /\ None \notin Caller
  /\ Configured \in [MaxFailures : Nat, MaxRequests : Nat]
  /\ {MaxCalls, MaxResets} \subseteq Nat

VARIABLES
  state,      \* cb.state
  failures,   \* cb.failures
  requests,   \* cb.requests
  waited,     \* time.Since(cb.lastFailureTime) > Timeout
  holder,     \* the goroutine with the mutex; None if it is free
  pc,         \* what each goroutine does
  answer,     \* what its last call returned
  lost,       \* panics since the state changed last
  calls, resets

breaker == <<state, failures, requests>>
bounds  == <<calls, resets>>
vars    == <<state, failures, requests, waited, holder, pc, answer, lost, calls, resets>>

State == {"closed", "open", "half-open"}

Answer == {"none", "success", "failed", "ErrCircuitBreakerOpen", "ErrTooManyRequests", "panic"}

\* NewCircuitBreaker replaces zeroes.
Config ==
  [MaxFailures |-> IF Configured.MaxFailures = 0 THEN 5 ELSE Configured.MaxFailures,
   MaxRequests |-> IF Configured.MaxRequests = 0 THEN 1 ELSE Configured.MaxRequests]

\* The zero time is longer ago than any timeout.
Init ==
  /\ state = "closed" /\ failures = 0 /\ requests = 0 /\ waited = TRUE
  /\ holder = None
  /\ pc = [c \in Caller |-> "idle"] /\ answer = [c \in Caller |-> "none"]
  /\ lost = 0 /\ calls = 0 /\ resets = 0

(***************************************************************************)
(* The steps of Call.                                                      *)
(***************************************************************************)
setState(new) ==
  /\ state' = new
  /\ lost' = IF new = state THEN lost ELSE 0

Call(c) ==
  /\ pc[c] = "idle" /\ calls < MaxCalls
  /\ calls' = calls + 1
  /\ pc' = [pc EXCEPT ![c] = "locking"]
  /\ UNCHANGED <<breaker, waited, holder, answer, lost, resets>>

\* Mutant of Passes: > instead of >= at the limit.
RoomyPasses ==
  \/ /\ state = "closed"
     /\ UNCHANGED <<breaker, lost>>
  \/ /\ state = "open" /\ waited
     /\ setState("half-open") /\ requests' = 0
     /\ UNCHANGED failures
  \/ /\ state = "half-open" /\ requests <= Config.MaxRequests
     /\ requests' = requests + 1
     /\ UNCHANGED <<state, failures, lost>>

\* Mutant of Passes: the call that finds the breaker open counts itself.
CountingPasses ==
  \/ /\ state = "closed"
     /\ UNCHANGED <<breaker, lost>>
  \/ /\ state = "open" /\ waited
     /\ setState("half-open") /\ requests' = Config.MaxRequests
     /\ UNCHANGED failures
  \/ /\ state = "half-open" /\ requests < Config.MaxRequests
     /\ requests' = requests + 1
     /\ UNCHANGED <<state, failures, lost>>

\* beforeRequest lets the call pass.
Passes ==
  \/ /\ state = "closed"
     /\ UNCHANGED <<breaker, lost>>
  \/ /\ state = "open" /\ waited
     /\ setState("half-open") /\ requests' = 0
     /\ UNCHANGED failures
  \/ /\ state = "half-open" /\ requests < Config.MaxRequests
     /\ requests' = requests + 1
     /\ UNCHANGED <<state, failures, lost>>

Run(c) ==
  /\ pc[c] = "locking" /\ holder = None
  /\ Passes
  /\ holder' = c
  /\ pc' = [pc EXCEPT ![c] = "running"]
  /\ UNCHANGED <<waited, answer, bounds>>

\* The error of beforeRequest; "nil" when the call passes.
Refusal ==
  CASE state = "open" /\ ~waited -> "ErrCircuitBreakerOpen"
    [] state = "half-open" /\ requests >= Config.MaxRequests -> "ErrTooManyRequests"
    [] OTHER -> "nil"

\* Mutant of Reject: the early return leaves without the unlock.
LockedReject(c) ==
  /\ pc[c] = "locking" /\ holder = None
  /\ Refusal # "nil"
  /\ answer' = [answer EXCEPT ![c] = Refusal]
  /\ pc' = [pc EXCEPT ![c] = "idle"]
  /\ holder' = c
  /\ UNCHANGED <<breaker, waited, lost, bounds>>

Reject(c) ==
  /\ pc[c] = "locking" /\ holder = None
  /\ Refusal # "nil"
  /\ answer' = [answer EXCEPT ![c] = Refusal]
  /\ pc' = [pc EXCEPT ![c] = "idle"]
  /\ UNCHANGED <<breaker, waited, holder, lost, bounds>>

\* The function is over and the mutex is free again.
Returned(c, result) ==
  /\ pc[c] = "running" /\ holder = c
  /\ holder' = None
  /\ pc' = [pc EXCEPT ![c] = "idle"]
  /\ answer' = [answer EXCEPT ![c] = result]
  /\ UNCHANGED bounds

\* Mutant of onFailure: a failure in the half-open state leaves the state.
StayingOnFailure ==
  /\ failures' = failures + 1
  /\ waited' = FALSE
  /\ IF state = "closed" /\ failures + 1 >= Config.MaxFailures
       THEN setState("open")
       ELSE UNCHANGED <<state, lost>>
  /\ UNCHANGED requests

onFailure ==
  /\ failures' = failures + 1
  /\ waited' = FALSE
  /\ IF state = "half-open" \/ (state = "closed" /\ failures + 1 >= Config.MaxFailures)
       THEN setState("open")
       ELSE UNCHANGED <<state, lost>>
  /\ UNCHANGED requests

onSuccess ==
  /\ failures' = IF state = "open" THEN failures ELSE 0
  /\ IF state = "half-open"
       THEN setState("closed") /\ requests' = 0
       ELSE UNCHANGED <<state, requests, lost>>
  /\ UNCHANGED waited

Fail(c)    == Returned(c, "failed") /\ onFailure
Succeed(c) == Returned(c, "success") /\ onSuccess

Panic(c) ==
  /\ Returned(c, "panic")
  /\ lost' = lost + 1
  /\ UNCHANGED <<breaker, waited>>

Reset ==
  /\ holder = None /\ resets < MaxResets
  /\ resets' = resets + 1
  /\ setState("closed") /\ failures' = 0 /\ requests' = 0
  /\ UNCHANGED <<waited, holder, pc, answer, calls>>

Elapse ==
  /\ ~waited
  /\ waited' = TRUE
  /\ UNCHANGED <<breaker, holder, pc, answer, lost, bounds>>

Next ==
  \/ \E c \in Caller :
       Call(c) \/ Run(c) \/ Reject(c) \/ Fail(c) \/ Succeed(c) \/ Panic(c)
  \/ Reset
  \/ Elapse

Spec == Init /\ [][Next]_vars

\* The function ends, and sync.RWMutex hands the lock to the one who waits longest.
FairSpec ==
  /\ Spec
  /\ \A c \in Caller :
       /\ WF_vars(Fail(c) \/ Succeed(c) \/ Panic(c))
       /\ SF_vars(Run(c) \/ Reject(c))

-----------------------------------------------------------------------------
TypeOK ==
  /\ state \in State /\ failures \in Nat /\ requests \in 0..Config.MaxRequests
  /\ waited \in BOOLEAN /\ holder \in Caller \cup {None}
  /\ pc \in [Caller -> {"idle", "locking", "running"}]
  /\ answer \in [Caller -> Answer]
  /\ lost \in Nat /\ calls \in 0..MaxCalls /\ resets \in 0..MaxResets

\* ErrTooManyRequests takes panics: while no function has panicked, the mutex
\* lets no second call meet the half-open state, and it takes one panic more
\* than MaxRequests, as the call that finds the breaker open does not count
\* itself (circuitbreaker.go:176).  From then on every call is refused and
\* nothing but Reset helps: no timeout applies to the half-open state.
StuckOnlyByPanics ==
  state = "half-open" /\ holder = None =>
    /\ lost >= 1
    /\ Refusal = "ErrTooManyRequests" <=> lost > Config.MaxRequests

\* What the states and counters are for: calls one at a time, and none between
\* the failure that opens the breaker and the end of the timeout.
Contract ==
  INSTANCE Breaker WITH
    MaxFailures <- Config.MaxFailures,
    inside <- {c \in Caller : pc[c] = "running"},
    streak <- IF failures < Config.MaxFailures THEN failures ELSE Config.MaxFailures,
    cooled <- waited

KeepsContract == Contract!Spec

\* Whatever the function does, a panic included, and whatever the breaker
\* decides, every call comes back.
EveryCallReturns ==
  \A c \in Caller : pc[c] = "locking" ~> pc[c] = "idle"
=============================================================================
