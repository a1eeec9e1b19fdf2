----------------------------- MODULE AutoUpdate -----------------------------
(***************************************************************************)
(* The periodic update of MCPServers from their templates                  *)
(* (controllers/auto_update_controller.go,                                 *)
(* pkg/services/auto_update_service.go): the goroutine StartPeriodicSync   *)
(* starts, one check of all servers, the two requests per server, the      *)
(* write, the tracker of failures; Start and Stop; users, the registry and *)
(* other writers around it; the end of the process.                        *)
(*                                                                         *)
(* Time is counted in units; a ticker and a back-off are counted down.     *)
(* Instead of resource versions, a copy is fresh until its object is       *)
(* written.  The monitoring goroutine of the controller only logs and is   *)
(* left out.                                                               *)
(*                                                                         *)
(* The definitions called "Mutant of" are plausible mistakes; they are no  *)
(* part of the model.                                                      *)
(***************************************************************************)
EXTENDS GitHubRetry, Sequences

CONSTANTS
  Nil,          \* no runtime, no copy, no server
  Server,       \* the names of the MCPServers
  Templates,    \* the templates of a server, as they are released one by one
  Refused,      \* those a webhook refuses
  Objects,      \* of each, what users and the enrichment may leave
  Interval,     \* the interval of the ticker
  Cap,          \* the longest back-off (1440 minutes)
  Bits,         \* the width of an int (64)
  MaxStarts,    \* bound: calls of Start in one process
  MaxChanges    \* bound: edits, releases, faults, stops and restarts

Template == [version : STRING, image : STRING, rest : STRING, env : STRING]

Runtimes ==
  {Nil} \cup [image : {Templates[i].image : i \in DOMAIN Templates} \cup {"", "own"},
              rest : {Templates[i].rest : i \in DOMAIN Templates} \cup {""},
              env : {Templates[i].env : i \in DOMAIN Templates} \cup {"", "own"}]

\* "rest" stands for type, command and arguments; "digest" is the number of the
\* template whose digest the annotation holds, 0 without one.
MCPServer ==
  [there : BOOLEAN, follows : BOOLEAN, runtime : Runtimes,
   version : {Templates[i].version : i \in DOMAIN Templates} \cup {""},
   digest : 0..Len(Templates)]

ASSUME UpdateAssumption ==
  /\ Telling \subseteq Server /\ Nil \notin MCPServer
  /\ Objects \in [Server -> SUBSET MCPServer]
  /\ Templates \in Seq(Template) /\ Templates # <<>> /\ Refused \subseteq DOMAIN Templates
  /\ {Interval, Cap, Bits, MaxStarts} \subseteq Nat \ {0} /\ MaxChanges \in Nat
  /\ Cap < 2 ^ (Bits - 1)

\* Arithmetic, which the provers do not know.
ASSUME PowersAssumption == \A n \in 0..Bits : 2 ^ n \in Nat

VARIABLES
  server,     \* the MCPServers as they are stored
  latest,     \* which template the registry holds of each (0: none)
  up,         \* the process runs
  running,    \* isRunning, of the controller and of the service
  chan,       \* stopChan, by the number of the Start that made it
  loop,       \* the goroutines, by the number of the Start that started them
  failures,   \* failureTracker: FailureCount
  rest,       \* failureTracker: NextRetryTime, counted down
  changes     \* bound

vars == <<server, latest, up, running, chan, loop, failures, rest, changes>>

Loop == 1..MaxStarts

NoCopies == [s \in Server |-> Nil]

Listed(lp) == {s \in Server : lp.todo[s] # Nil}

\* todo: the copies of the servers of a check that are left; fresh: those whose
\* object was not written since; round: the first or second request of a server;
\* watched: the channel the select waits on; left: of the ticker's interval.
NoLoop ==
  [pc |-> "none", todo |-> NoCopies, fresh |-> {}, current |-> Nil, round |-> 1,
   attempt |-> 0, heard |-> "", found |-> 0, watched |-> 0, left |-> 0, tick |-> FALSE]

NewLoop == [NoLoop EXCEPT !.pc = "enter", !.left = Interval]

Closed(c) == c < chan \/ ~running

\* Nobody knows the digest of a template that was not released yet; the one of a
\* server that is not in the registry may have been there before.
Known(object, released) == object.digest <= IF released = 0 THEN 1 ELSE released

Init ==
  /\ server \in {f \in [Server -> UNION {Objects[s] : s \in Server}] :
                   \A s \in Server : f[s] \in Objects[s]}
  /\ latest \in [Server -> 0..1]
  /\ \A s \in Server : Known(server[s], latest[s])
  /\ up = TRUE /\ running = TRUE /\ chan = 1
  /\ loop = [l \in Loop |-> IF l = 1 THEN NewLoop ELSE NoLoop]
  /\ failures = [s \in Server |-> 0] /\ rest = [s \in Server |-> 0]
  /\ changes = 0

Spend == changes < MaxChanges /\ changes' = changes + 1

(***************************************************************************)
(* Comparison and merge.                                                   *)
(***************************************************************************)
Env(runtime, template) == IF template.env # "" THEN template.env ELSE runtime.env

\* The environment is compared by the digest only, and that only if the server
\* carries one.
IsUpdateRequired(copy, number) ==
  \/ copy.digest \notin {0, number}
  \/ copy.version # Templates[number].version
  \/ copy.runtime.image # Templates[number].image
  \/ copy.runtime.rest # Templates[number].rest

applyTemplateUpdates(copy, number) ==
  LET t == Templates[number]
  IN  [copy EXCEPT
        !.version = t.version, !.digest = number,
        !.runtime = [image |-> t.image, rest |-> t.rest, env |-> Env(copy.runtime, t)]]

(***************************************************************************)
(* The tracker of failures.                                                *)
(***************************************************************************)
\* Mutant of Backoff: no cap.
UncappedBackoff(count) == IF count < Bits THEN 2 ^ (count - 1) ELSE 0

\* 1 << (count - 1), in a signed int: 1 << 63 is negative, so that it passes
\* under the cap, and as many minutes wrap around to zero; from then on nothing
\* is left of the 1.
Backoff(count) ==
  IF count < Bits THEN IF 2 ^ (count - 1) > Cap THEN Cap ELSE 2 ^ (count - 1) ELSE 0

\* Mutant of isInBackoffPeriod: a server that failed is skipped until it succeeds.
HasFailed(s) == failures[s] > 0

isInBackoffPeriod(s) == rest[s] > 0

\* Counting beyond Bits changes nothing any more.
recordFailure(s) ==
  LET count == IF failures[s] < Bits THEN failures[s] + 1 ELSE Bits
  IN  /\ failures' = [failures EXCEPT ![s] = count]
      /\ rest' = [rest EXCEPT ![s] = Backoff(count)]

recordSuccess(s) ==
  /\ failures' = [failures EXCEPT ![s] = 0]
  /\ rest' = [rest EXCEPT ![s] = 0]

(***************************************************************************)
(* The goroutine.                                                          *)
(***************************************************************************)
\* Server s is through; on to the next.
Done(lp, s) ==
  [lp EXCEPT !.pc = "next", !.todo[s] = Nil, !.fresh = @ \ {s}, !.current = Nil,
             !.round = 1, !.attempt = 0, !.heard = "", !.found = 0]

\* The select evaluates s.stopChan when it is entered.
Enter(l) ==
  /\ loop[l].pc = "enter"
  /\ loop' = [loop EXCEPT ![l].pc = "wait", ![l].watched = chan]
  /\ UNCHANGED <<server, latest, up, running, chan, failures, rest, changes>>

End(l) ==
  /\ loop[l].pc = "wait" /\ Closed(loop[l].watched)
  /\ loop' = [loop EXCEPT ![l] = [NoLoop EXCEPT !.pc = "ended"]]
  /\ UNCHANGED <<server, latest, up, running, chan, failures, rest, changes>>

\* CheckForUpdates lists all servers.
Check(l) ==
  LET listed == {s \in Server : server[s].there}
  IN  /\ loop[l].pc = "wait" /\ loop[l].tick
      /\ loop' = [loop EXCEPT ![l].pc = "next", ![l].tick = FALSE, ![l].watched = 0,
                              ![l].todo = [s \in Server |-> IF s \in listed THEN server[s] ELSE Nil],
                              ![l].fresh = listed]
      /\ UNCHANGED <<server, latest, up, running, chan, failures, rest, changes>>

ListFails(l) ==
  /\ loop[l].pc = "wait" /\ loop[l].tick
  /\ Spend
  /\ loop' = [loop EXCEPT ![l].pc = "enter", ![l].tick = FALSE, ![l].watched = 0]
  /\ UNCHANGED <<server, latest, up, running, chan, failures, rest>>

\* The order of the list is that of the informer's cache: any.
Skip(l, s) ==
  /\ loop[l].pc = "next" /\ s \in Listed(loop[l])
  /\ ~loop[l].todo[s].follows \/ isInBackoffPeriod(s)
  /\ loop' = [loop EXCEPT ![l] = Done(loop[l], s)]
  /\ UNCHANGED <<server, latest, up, running, chan, failures, rest, changes>>

Examine(l, s) ==
  /\ loop[l].pc = "next" /\ s \in Listed(loop[l])
  /\ loop[l].todo[s].follows /\ ~isInBackoffPeriod(s)
  /\ loop' = [loop EXCEPT ![l].pc = "ask", ![l].current = s]
  /\ UNCHANGED <<server, latest, up, running, chan, failures, rest, changes>>

Finish(l) ==
  /\ loop[l].pc = "next" /\ loop[l].todo = NoCopies
  /\ loop' = [loop EXCEPT ![l].pc = "enter"]
  /\ UNCHANGED <<server, latest, up, running, chan, failures, rest, changes>>

\* The process ends, and with it everything that is not stored.
Dies ==
  /\ up' = FALSE /\ running' = FALSE /\ chan' = 0
  /\ loop' = [l \in Loop |-> NoLoop]
  /\ failures' = [s \in Server |-> 0] /\ rest' = [s \in Server |-> 0]
  /\ UNCHANGED <<server, latest>>

\* GetServerSpec answers.  Everything that follows reads Spec.Runtime, if only to
\* log its image; without one the goroutine panics.
Answered(l) ==
  LET s    == loop[l].current
      copy == loop[l].todo[s]
  IN  /\ loop[l].pc = "ask" /\ latest[s] > 0
      /\ UNCHANGED changes
      /\ \/ copy.runtime = Nil /\ Dies
         \/ /\ copy.runtime # Nil
            /\ loop' = [loop EXCEPT ![l] =
                 IF ~IsUpdateRequired(copy, latest[s]) THEN Done(@, s)
                 ELSE IF @.round = 1 THEN [@ EXCEPT !.round = 2, !.attempt = 0, !.heard = ""]
                 ELSE [@ EXCEPT !.pc = "write", !.found = latest[s], !.attempt = 0,
                                !.heard = ""]]
            /\ UNCHANGED <<server, latest, up, running, chan, failures, rest>>

\* Or fails: a server that is not in the registry, or by a fault.  When there is
\* no further attempt the first request is only logged, the second one a failure
\* of the update.
AskFails(l, failure) ==
  LET lp == loop[l]
      s  == lp.current
  IN  /\ lp.pc = "ask"
      /\ IF failure = "absent" THEN latest[s] = 0 /\ UNCHANGED changes ELSE Spend
      /\ loop' = [loop EXCEPT ![l] =
           IF AsksAgain(failure, s, lp.attempt)
             THEN [lp EXCEPT !.attempt = lp.attempt + 1, !.heard = failure]
           ELSE IF lp.round = 1 THEN Done(lp, s)
           ELSE [lp EXCEPT !.pc = "failed", !.attempt = 0, !.heard = ""]]
      /\ UNCHANGED <<server, latest, up, running, chan, failures, rest>>

\* Server s is stored: no copy of it is fresh any more.  Loop l goes to pc.
StoreBy(l, pc, s, object) ==
  /\ server' = [server EXCEPT ![s] = object]
  /\ loop' = [k \in Loop |->
       [loop[k] EXCEPT !.fresh = @ \ {s}, !.pc = IF k = l THEN pc ELSE @]]

\* Mutant of Write: a write that does not name the version it was read at.
BlindWrite(l) ==
  LET s == loop[l].current
  IN  /\ loop[l].pc = "write"
      /\ server[s].there /\ loop[l].found \notin Refused
      /\ StoreBy(l, "done", s, applyTemplateUpdates(loop[l].todo[s], loop[l].found))
      /\ UNCHANGED <<latest, up, running, chan, failures, rest, changes>>

Write(l) ==
  LET s == loop[l].current
  IN  /\ loop[l].pc = "write"
      /\ s \in loop[l].fresh /\ loop[l].found \notin Refused
      /\ StoreBy(l, "done", s, applyTemplateUpdates(loop[l].todo[s], loop[l].found))
      /\ UNCHANGED <<latest, up, running, chan, failures, rest, changes>>

\* A conflict, or the server is gone: the write of the condition fails as well.
Conflict(l) ==
  /\ loop[l].pc = "write" /\ loop[l].current \notin loop[l].fresh
  /\ loop' = [loop EXCEPT ![l].pc = "failed"]
  /\ UNCHANGED <<server, latest, up, running, chan, failures, rest, changes>>

\* Refused, or a fault: the condition may be stored, or not; and the write may
\* have been done although no answer came.
WriteFails(l) ==
  LET s == loop[l].current
  IN  /\ loop[l].pc = "write" /\ s \in loop[l].fresh
      /\ \/ /\ loop[l].found \in Refused /\ UNCHANGED changes
            /\ StoreBy(l, "failed", s, server[s])
         \/ /\ Spend
            /\ \/ loop' = [loop EXCEPT ![l].pc = "failed"] /\ UNCHANGED server
               \/ StoreBy(l, "failed", s, server[s])
               \/ /\ loop[l].found \notin Refused
                  /\ StoreBy(l, "failed", s,
                             applyTemplateUpdates(loop[l].todo[s], loop[l].found))
      /\ UNCHANGED <<latest, up, running, chan, failures, rest>>

Record(l) ==
  LET s == loop[l].current
  IN  /\ \/ loop[l].pc = "failed" /\ recordFailure(s)
         \/ loop[l].pc = "done" /\ recordSuccess(s)
      /\ loop' = [loop EXCEPT ![l] = Done(loop[l], s)]
      /\ UNCHANGED <<server, latest, up, running, chan, changes>>

\* The tracker is a plain map: the Go runtime ends a process in which one
\* goroutine writes to it while another one reads or writes.
Race(l, m) ==
  /\ l # m /\ loop[l].pc \in {"failed", "done"}
  /\ \/ loop[m].pc \in {"failed", "done"}
     \/ loop[m].pc = "next" /\ \E s \in Listed(loop[m]) : loop[m].todo[s].follows
  /\ Dies /\ UNCHANGED changes

Goroutine(l) ==
  \/ Enter(l) \/ End(l) \/ Check(l) \/ Finish(l)
  \/ \E s \in Server : Skip(l, s) \/ Examine(l, s)
  \/ Answered(l) \/ AskFails(l, "absent")
  \/ Write(l) \/ Conflict(l) \/ WriteFails(l) \/ Record(l)

(***************************************************************************)
(* The surroundings.                                                       *)
(***************************************************************************)
Start ==
  /\ up /\ ~running /\ chan < MaxStarts
  /\ running' = TRUE /\ chan' = chan + 1
  /\ loop' = [loop EXCEPT ![chan + 1] = NewLoop]
  /\ UNCHANGED <<server, latest, up, failures, rest, changes>>

Stop ==
  /\ running /\ running' = FALSE
  /\ Spend
  /\ UNCHANGED <<server, latest, up, chan, loop, failures, rest>>

\* A new process, which the manager starts the runnable in.
Boot ==
  /\ ~up
  /\ up' = TRUE /\ running' = TRUE /\ chan' = 1
  /\ loop' = [loop EXCEPT ![1] = NewLoop]
  /\ UNCHANGED <<server, latest, failures, rest, changes>>

Shutdown == up /\ Spend /\ Dies

Elapse ==
  /\ up
  /\ loop' = [l \in Loop |->
       IF loop[l].left = 0 THEN loop[l]
       ELSE IF loop[l].left > 1 THEN [loop[l] EXCEPT !.left = @ - 1]
       ELSE [loop[l] EXCEPT !.left = Interval, !.tick = TRUE]]
  /\ rest' = [s \in Server |-> IF rest[s] > 0 THEN rest[s] - 1 ELSE 0]
  /\ UNCHANGED <<server, latest, up, running, chan, failures, changes>>

Release(s) ==
  /\ latest[s] < Len(Templates)
  /\ Spend
  /\ latest' = [latest EXCEPT ![s] = @ + 1]
  /\ UNCHANGED <<server, up, running, chan, loop, failures, rest>>

\* A user creates, edits or deletes a server; an edit keeps the annotations.
UserWrites(s) ==
  /\ Spend
  /\ \E o \in Objects[s] :
       /\ o # server[s] /\ Known(o, latest[s])
       /\ o.there /\ server[s].there =>
            o.version = server[s].version /\ o.digest = server[s].digest
       /\ StoreBy(0, "", s, o)
  /\ UNCHANGED <<latest, up, running, chan, failures, rest>>

Next ==
  \/ \E l \in Loop :
       \/ Goroutine(l) \/ ListFails(l)
       \/ \E failure \in Failure \ {"absent"} : AskFails(l, failure)
       \/ \E m \in Loop : Race(l, m)
  \/ Start \/ Stop \/ Boot \/ Shutdown \/ Elapse
  \/ \E s \in Server : Release(s) \/ UserWrites(s)

Spec == Init /\ [][Next]_vars

\* Goroutines are scheduled, time passes, and a process that ended comes back.
FairSpec ==
  /\ Spec
  /\ \A l \in Loop : WF_vars(Goroutine(l))
  /\ WF_vars(Elapse) /\ WF_vars(Boot)

-----------------------------------------------------------------------------
Stage == {"none", "enter", "wait", "next", "ask", "write", "failed", "done", "ended"}

Copies == [Server -> MCPServer \cup {Nil}]

LoopType ==
  [pc : Stage, todo : Copies, fresh : SUBSET Server, current : Server \cup {Nil},
   round : {1, 2}, attempt : 0..MaxRetries, heard : Failure \cup {""},
   found : 0..Len(Templates), watched : 0..MaxStarts, left : 0..Interval, tick : BOOLEAN]

LoopOK(lp) ==
  /\ lp \in LoopType
  /\ lp.fresh \subseteq Listed(lp)
  /\ lp.pc \in {"ask", "write", "failed", "done"} =>
       lp.current \in Listed(lp) /\ lp.todo[lp.current].follows
  /\ lp.pc \in {"write", "done"} =>
       lp.found \in DOMAIN Templates /\ lp.todo[lp.current].runtime # Nil

\* Every variable has its type; no back-off is longer than the cap; what a
\* goroutine works on is a server of its list, and what it writes has a runtime.
TypeOK ==
  /\ server \in [Server -> MCPServer]
  /\ latest \in [Server -> 0..Len(Templates)]
  /\ {up, running} \subseteq BOOLEAN /\ chan \in 0..MaxStarts
  /\ loop \in [Loop -> LoopType] /\ \A l \in Loop : LoopOK(loop[l])
  /\ failures \in [Server -> 0..Bits] /\ rest \in [Server -> 0..Cap]
  /\ changes \in 0..MaxChanges

\* "Don't retry authentication or not found errors" (github_retry.go:388): what
\* is not there is asked for once, except for a server whose name has one of the
\* words that make an error a network error: its 404 is asked for again and
\* again.
FinalAnswers ==
  \A l \in Loop : loop[l].attempt > 0 =>
    /\ loop[l].heard # "denied"
    /\ loop[l].heard = "absent" => loop[l].current \in Telling

\* A server that carries a template is never given an older one, although a
\* request may take hours, Start may be called while a stopped goroutine is still
\* in its check, and two of them may then work on the same server: the list is
\* read before the template, and a copy that is not fresh is not written.
NoDowngrade ==
  [][\A s \in Server : server[s].there /\ server'[s].there =>
       server'[s].digest >= server[s].digest]_vars

Fits(s) ==
  LET t == Templates[latest[s]]
      o == server[s]
  IN  /\ o.runtime # Nil /\ o.version = t.version
      /\ o.runtime = [image |-> t.image, rest |-> t.rest, env |-> Env(o.runtime, t)]

\* Without a digest of its own a server that differs by nothing but the
\* environment looks up to date.
Overlooked(s) ==
  /\ server[s].digest = 0 /\ server[s].runtime # Nil
  /\ ~IsUpdateRequired(server[s], latest[s])

\* A check meets a server without a runtime: the process will not survive it,
\* and the servers after it in the list have to wait for ever.
Deadly ==
  \E s \in Server : server[s].there /\ server[s].follows
    /\ server[s].runtime = Nil /\ latest[s] > 0

\* A template that stays reaches its server, through failed requests, conflicts,
\* back-offs, restarts and lost answers; except for the servers without a
\* template, those whose update is refused or whose change is overlooked, and
\* while a server without a runtime ends the process at every check.
UpdatesArrive ==
  \A s \in Server : <>[](
    \/ ~server[s].there \/ ~server[s].follows \/ latest[s] = 0
    \/ ~running /\ up
    \/ latest[s] \in Refused \/ Deadly \/ Overlooked(s)
    \/ Fits(s))
=============================================================================
