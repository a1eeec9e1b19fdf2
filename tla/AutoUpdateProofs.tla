-------------------------- MODULE AutoUpdateProofs --------------------------
(***************************************************************************)
(* What TLAPS proves of AutoUpdate, for any servers, templates, limits and *)
(* bounds.                                                                 *)
(***************************************************************************)
EXTENDS AutoUpdate, TLAPS

(***************************************************************************)
(* The operators.                                                          *)
(***************************************************************************)
LEMMA TemplatesAre ==
  Len(Templates) \in Nat \ {0} /\ DOMAIN Templates = 1..Len(Templates)
BY UpdateAssumption

\* The update of a server that has a runtime is a server that has one.
LEMMA UpdatedServer ==
  ASSUME NEW copy \in MCPServer, copy.runtime # Nil, NEW number \in DOMAIN Templates
  PROVE  /\ applyTemplateUpdates(copy, number) \in MCPServer
         /\ applyTemplateUpdates(copy, number).digest = number
         /\ applyTemplateUpdates(copy, number).there = copy.there
<1> DEFINE t == Templates[number]
           runtime == [image |-> t.image, rest |-> t.rest, env |-> Env(copy.runtime, t)]
<1>1. Env(copy.runtime, t) \in {Templates[i].env : i \in DOMAIN Templates} \cup {"", "own"}
  BY DEF Env, MCPServer, Runtimes
<1>2. runtime \in Runtimes
  BY <1>1 DEF Runtimes
<1>3. t.version \in {Templates[i].version : i \in DOMAIN Templates} \cup {""}
  OBVIOUS
<1>4. number \in 0..Len(Templates)
  BY TemplatesAre
<1> HIDE DEF runtime, t
<1>5. applyTemplateUpdates(copy, number) =
        [copy EXCEPT !.version = t.version, !.digest = number, !.runtime = runtime]
  BY DEF applyTemplateUpdates, t, runtime
<1> QED
  BY <1>2, <1>3, <1>4, <1>5 DEF MCPServer

\* The cap holds for every number of failures, the overflow included.
LEMMA BackoffIsCapped == \A count \in 1..Bits : Backoff(count) \in 0..Cap
<1> SUFFICES ASSUME NEW count \in 1..Bits PROVE Backoff(count) \in 0..Cap
  OBVIOUS
<1>1. Bits \in Nat /\ Cap \in Nat
  BY UpdateAssumption
<1>2. 2 ^ (count - 1) \in Nat
  BY <1>1, PowersAssumption
<1> QED
  BY <1>1, <1>2 DEF Backoff

LEMMA RetriesAreNumbers ==
  ASSUME NEW class PROVE RetriesOf(class) \in Nat
<1>1. {0, MaxRetries, RateLimitMaxRetries, NetworkMaxRetries} \subseteq Nat
  BY RetryAssumption
<1> QED
  BY <1>1 DEF RetriesOf

LEMMA NoLoopOK == LoopOK(NoLoop) /\ LoopOK(NewLoop) /\ LoopOK([NoLoop EXCEPT !.pc = "ended"])
<1>1. NoCopies \in Copies
  BY DEF NoCopies, Copies
<1>2. /\ 0 \in 0..MaxRetries /\ 0 \in 0..Len(Templates) /\ 0 \in 0..MaxStarts
      /\ {0, Interval} \subseteq 0..Interval
  BY UpdateAssumption, RetryAssumption, TemplatesAre
<1>3. {"none", "enter", "ended"} \subseteq Stage
  BY DEF Stage
<1>4. NoLoop \in LoopType
  BY <1>1, <1>2, <1>3 DEF NoLoop, LoopType
<1>5. NewLoop \in LoopType /\ [NoLoop EXCEPT !.pc = "ended"] \in LoopType
  BY <1>2, <1>3, <1>4 DEF NewLoop, LoopType
<1>6. /\ NoLoop.pc = "none" /\ NoLoop.fresh = {}
      /\ NewLoop.pc = "enter" /\ NewLoop.fresh = {}
  BY DEF NoLoop, NewLoop
<1> QED
  BY <1>4, <1>5, <1>6 DEF LoopOK, NoLoop

LEMMA DoneOK ==
  ASSUME NEW lp, LoopOK(lp), NEW s \in Server PROVE LoopOK(Done(lp, s))
<1> DEFINE todo == [lp.todo EXCEPT ![s] = Nil]
           half == [lp EXCEPT !.pc = "next", !.todo = todo, !.fresh = lp.fresh \ {s},
                              !.current = Nil]
<1>1. lp \in LoopType /\ lp.fresh \subseteq Listed(lp)
  BY DEF LoopOK
<1>2. todo \in Copies
  BY <1>1 DEF LoopType, Copies
<1>3. lp.fresh \ {s} \in SUBSET Server /\ lp.fresh \ {s} \subseteq {k \in Server : todo[k] # Nil}
  BY <1>1 DEF LoopType, Listed, Copies
<1>4. 0 \in 0..MaxRetries /\ 0 \in 0..Len(Templates) /\ "next" \in Stage
  BY RetryAssumption, TemplatesAre DEF Stage
<1> HIDE DEF todo
<1>5. half \in LoopType
  BY <1>1, <1>2, <1>3, <1>4 DEF LoopType
<1>6. Done(lp, s) = [half EXCEPT !.round = 1, !.attempt = 0, !.heard = "", !.found = 0]
  BY <1>1 DEF Done, todo, LoopType
<1>7. half.pc = "next" /\ half.todo = todo /\ half.fresh = lp.fresh \ {s}
  BY <1>1 DEF LoopType
<1> HIDE DEF half
<1>8. Done(lp, s) \in LoopType
  BY <1>4, <1>5, <1>6 DEF LoopType
<1>9. /\ Done(lp, s).pc = "next" /\ Done(lp, s).todo = todo
      /\ Done(lp, s).fresh = lp.fresh \ {s}
  BY <1>5, <1>6, <1>7 DEF LoopType
<1> QED
  BY <1>3, <1>8, <1>9 DEF LoopOK, Listed

\* A step of one goroutine.
LoopsOK(loops) == loops \in [Loop -> LoopType] /\ \A l \in Loop : LoopOK(loops[l])

LEMMA OneLoop ==
  ASSUME NEW loops, LoopsOK(loops), NEW l \in Loop, NEW lp, LoopOK(lp)
  PROVE  LoopsOK([loops EXCEPT ![l] = lp])
BY DEF LoopsOK, LoopOK

\* What a step that stores server s does to a goroutine: to the one that takes
\* it, and to the others.
LEMMA StoredLoop ==
  ASSUME NEW lp, LoopOK(lp), NEW s \in Server, NEW pc \in Stage,
         pc = lp.pc \/ (pc \in {"failed", "done"} /\ lp.pc = "write")
  PROVE  LoopOK([lp EXCEPT !.fresh = @ \ {s}, !.pc = pc])
<1> DEFINE new == [lp EXCEPT !.fresh = @ \ {s}, !.pc = pc]
<1>1. lp \in LoopType /\ lp.fresh \ {s} \in SUBSET Server
  BY DEF LoopOK, LoopType
<1>2. new \in LoopType
  BY <1>1 DEF LoopType
<1>3. /\ new.fresh = lp.fresh \ {s} /\ new.todo = lp.todo /\ new.pc = pc
      /\ new.current = lp.current /\ new.found = lp.found
  BY <1>1 DEF LoopType
<1> HIDE DEF new
<1> QED
  BY <1>2, <1>3 DEF LoopOK, Listed, new

-----------------------------------------------------------------------------
(***************************************************************************)
(* Type correctness.                                                       *)
(***************************************************************************)
LEMMA TypesInit == Init => TypeOK
<1> SUFFICES ASSUME Init PROVE TypeOK
  OBVIOUS
<1> USE UpdateAssumption DEF Init
<1>1. server \in [Server -> MCPServer]
  OBVIOUS
<1>2. latest \in [Server -> 0..Len(Templates)]
  BY TemplatesAre
<1>3. {up, running} \subseteq BOOLEAN /\ chan \in 0..MaxStarts /\ changes \in 0..MaxChanges
  OBVIOUS
<1>4. LoopsOK(loop)
  BY NoLoopOK DEF LoopsOK, LoopOK
<1>5. failures \in [Server -> 0..Bits] /\ rest \in [Server -> 0..Cap]
  OBVIOUS
<1> QED
  BY <1>1, <1>2, <1>3, <1>4, <1>5 DEF TypeOK, LoopsOK

\* A step that leaves everything but the goroutines alone.
LEMMA OnlyLoop ==
  ASSUME TypeOK, LoopsOK(loop'),
         UNCHANGED <<server, latest, up, running, chan, failures, rest>>,
         UNCHANGED changes \/ Spend
  PROVE  TypeOK'
BY UpdateAssumption DEF TypeOK, LoopsOK, Spend

LEMMA DiesOK == ASSUME TypeOK, Dies, changes' \in 0..MaxChanges PROVE TypeOK'
<1> USE UpdateAssumption
<1>1. LoopsOK(loop')
  BY NoLoopOK DEF Dies, LoopsOK, LoopOK
<1>2. failures' \in [Server -> 0..Bits] /\ rest' \in [Server -> 0..Cap]
  BY DEF Dies
<1>3. up' \in BOOLEAN /\ running' \in BOOLEAN
  BY Zenon DEF Dies
<1>4. chan' \in 0..MaxStarts
  BY DEF Dies
<1>5. server' \in [Server -> MCPServer] /\ latest' \in [Server -> 0..Len(Templates)]
  BY DEF Dies, TypeOK
<1> QED
  BY <1>1, <1>2, <1>3, <1>4, <1>5 DEF TypeOK, LoopsOK

\* The steps of a goroutine that store nothing and count nothing.
LEMMA TypesWork ==
  ASSUME TypeOK, NEW l \in Loop,
         \/ Enter(l) \/ End(l) \/ Check(l) \/ ListFails(l) \/ Finish(l)
         \/ \E s \in Server : Skip(l, s) \/ Examine(l, s)
  PROVE  TypeOK'
<1>1. LoopsOK(loop) /\ LoopOK(loop[l]) /\ loop[l] \in LoopType
  BY DEF TypeOK, LoopsOK
<1>2. ASSUME NEW lp, LoopOK(lp), loop' = [loop EXCEPT ![l] = lp] PROVE LoopsOK(loop')
  BY <1>1, <1>2, OneLoop
<1>3. {"enter", "wait", "next", "ask"} \subseteq Stage
  BY DEF Stage
<1>4. CASE Enter(l)
  <2> DEFINE lp == [loop[l] EXCEPT !.pc = "wait", !.watched = chan]
  <2>1. chan \in 0..MaxStarts
    BY DEF TypeOK
  <2>2. LoopOK(lp)
    BY <1>1, <1>3, <2>1 DEF LoopOK, LoopType, Listed
  <2>3. loop' = [loop EXCEPT ![l] = lp]
    BY <1>1, <1>4 DEF Enter, LoopsOK
  <2> QED
    BY <1>2, <1>4, <2>2, <2>3, OnlyLoop DEF Enter
<1>5. CASE End(l)
  BY <1>2, <1>5, NoLoopOK, OnlyLoop DEF End
<1>6. CASE Check(l)
  <2> DEFINE listed == {s \in Server : server[s].there}
             todo == [s \in Server |-> IF s \in listed THEN server[s] ELSE Nil]
             lp == [loop[l] EXCEPT !.pc = "next", !.tick = FALSE, !.watched = 0,
                                   !.todo = todo, !.fresh = listed]
  <2>1. todo \in Copies
    BY DEF TypeOK, Copies
  <2>2. \A s \in listed : todo[s] # Nil
    BY UpdateAssumption DEF TypeOK
  <2>3. 0 \in 0..MaxStarts /\ listed \in SUBSET Server
    BY UpdateAssumption
  <2>4. loop' = [loop EXCEPT ![l] = lp]
    BY <1>1, <1>6 DEF Check, LoopsOK
  <2> HIDE DEF todo, listed
  <2>5. lp \in LoopType
    BY <1>1, <1>3, <2>1, <2>3 DEF LoopType
  <2>6. lp.pc = "next" /\ lp.fresh = listed /\ lp.todo = todo
    BY <1>1 DEF LoopType
  <2> HIDE DEF lp
  <2>7. LoopOK(lp)
    BY <2>2, <2>3, <2>5, <2>6 DEF LoopOK, Listed
  <2> QED
    BY <1>2, <1>6, <2>4, <2>7, OnlyLoop DEF Check
<1>7. CASE ListFails(l)
  <2> DEFINE lp == [loop[l] EXCEPT !.pc = "enter", !.tick = FALSE, !.watched = 0]
  <2>1. 0 \in 0..MaxStarts
    BY UpdateAssumption
  <2>2. LoopOK(lp)
    BY <1>1, <1>3, <2>1 DEF LoopOK, LoopType, Listed
  <2>3. loop' = [loop EXCEPT ![l] = lp]
    BY <1>1, <1>7 DEF ListFails, LoopsOK
  <2> QED
    BY <1>2, <1>7, <2>2, <2>3, OnlyLoop DEF ListFails
<1>8. CASE Finish(l)
  <2> DEFINE lp == [loop[l] EXCEPT !.pc = "enter"]
  <2>1. LoopOK(lp)
    BY <1>1, <1>3 DEF LoopOK, LoopType, Listed
  <2>2. loop' = [loop EXCEPT ![l] = lp]
    BY <1>1, <1>8 DEF Finish, LoopsOK
  <2> QED
    BY <1>2, <1>8, <2>1, <2>2, OnlyLoop DEF Finish
<1>9. ASSUME NEW s \in Server, Skip(l, s) PROVE TypeOK'
  BY <1>1, <1>2, <1>9, DoneOK, OnlyLoop DEF Skip
<1>10. ASSUME NEW s \in Server, Examine(l, s) PROVE TypeOK'
  <2> DEFINE lp == [loop[l] EXCEPT !.pc = "ask", !.current = s]
  <2>1. LoopOK(lp)
    BY <1>1, <1>3, <1>10 DEF Examine, LoopOK, LoopType, Listed
  <2>2. loop' = [loop EXCEPT ![l] = lp]
    BY <1>1, <1>10 DEF Examine, LoopsOK
  <2> QED
    BY <1>2, <1>10, <2>1, <2>2, OnlyLoop DEF Examine
<1> QED
  BY <1>4, <1>5, <1>6, <1>7, <1>8, <1>9, <1>10

\* The requests for the template.
LEMMA TypesAsk ==
  ASSUME TypeOK, NEW l \in Loop,
         Answered(l) \/ \E failure \in Failure : AskFails(l, failure)
  PROVE  TypeOK'
<1>1. LoopsOK(loop) /\ LoopOK(loop[l]) /\ loop[l] \in LoopType
  BY DEF TypeOK, LoopsOK
<1>2. ASSUME NEW lp, LoopOK(lp), loop' = [loop EXCEPT ![l] = lp] PROVE LoopsOK(loop')
  BY <1>1, <1>2, OneLoop
<1>3. {"write", "failed"} \subseteq Stage
  BY DEF Stage
<1>4. 0 \in 0..MaxRetries /\ MaxRetries \in Nat
  BY RetryAssumption
<1> DEFINE s == loop[l].current
<1>5. loop[l].pc = "ask" => s \in Server /\ s \in Listed(loop[l]) /\ loop[l].todo[s].follows
  BY <1>1 DEF LoopOK, Listed
<1>6. CASE Answered(l)
  <2> DEFINE copy  == loop[l].todo[s]
             again == [loop[l] EXCEPT !.round = 2, !.attempt = 0, !.heard = ""]
             write == [loop[l] EXCEPT !.pc = "write", !.found = latest[s], !.attempt = 0,
                                      !.heard = ""]
  <2>1. CASE copy.runtime = Nil /\ Dies
    BY <1>6, <2>1, DiesOK DEF Answered, TypeOK
  <2>2. CASE copy.runtime # Nil
    <3>1. latest[s] \in DOMAIN Templates /\ latest[s] \in 0..Len(Templates)
      BY <1>5, <1>6, TemplatesAre DEF Answered, TypeOK
    <3>2. LoopOK(again)
      BY <1>1, <1>4 DEF LoopOK, LoopType, Listed
    <3>3. write \in LoopType
      BY <1>1, <1>3, <1>4, <3>1 DEF LoopType
    <3>4. /\ write.pc = "write" /\ write.fresh = loop[l].fresh /\ write.todo = loop[l].todo
          /\ write.current = s /\ write.found = latest[s]
      BY <1>1 DEF LoopType
    <3> HIDE DEF write
    <3>5. LoopOK(write)
      BY <1>1, <1>5, <1>6, <2>2, <3>1, <3>3, <3>4 DEF Answered, LoopOK, Listed
    <3>6. LoopOK(Done(loop[l], s))
      BY <1>1, <1>5, <1>6, DoneOK DEF Answered
    <3>7. \E lp : LoopOK(lp) /\ loop' = [loop EXCEPT ![l] = lp]
      <4>1. CASE ~IsUpdateRequired(copy, latest[s])
        BY <1>6, <2>2, <3>6, <4>1 DEF Answered
      <4>2. CASE IsUpdateRequired(copy, latest[s]) /\ loop[l].round = 1
        BY <1>6, <2>2, <3>2, <4>2 DEF Answered
      <4>3. CASE IsUpdateRequired(copy, latest[s]) /\ loop[l].round # 1
        BY <1>6, <2>2, <3>5, <4>3 DEF Answered, write
      <4> QED
        BY <4>1, <4>2, <4>3
    <3> QED
      BY <1>2, <1>6, <2>2, <3>7, OnlyLoop DEF Answered
  <2> QED
    BY <1>6, <2>1, <2>2 DEF Answered
<1>7. ASSUME NEW failure \in Failure, AskFails(l, failure) PROVE TypeOK'
  <2> DEFINE again  == [loop[l] EXCEPT !.attempt = @ + 1, !.heard = failure]
             failed == [loop[l] EXCEPT !.pc = "failed", !.attempt = 0, !.heard = ""]
  <2>1. AsksAgain(failure, s, loop[l].attempt) => LoopOK(again)
    <3> SUFFICES ASSUME AsksAgain(failure, s, loop[l].attempt) PROVE LoopOK(again)
      OBVIOUS
    <3>1. loop[l].attempt \in 0..MaxRetries /\ loop[l].attempt # MaxRetries
      BY <1>1 DEF AsksAgain, LoopType
    <3>2. loop[l].attempt + 1 \in 0..MaxRetries
      BY <1>4, <3>1
    <3> QED
      BY <1>1, <3>2 DEF LoopOK, LoopType, Listed
  <2>2. LoopOK(failed)
    BY <1>1, <1>3, <1>4, <1>5, <1>7 DEF AskFails, LoopOK, LoopType, Listed
  <2>3. LoopOK(Done(loop[l], s))
    BY <1>1, <1>5, <1>7, DoneOK DEF AskFails
  <2>4. \E lp : LoopOK(lp) /\ loop' = [loop EXCEPT ![l] = lp]
    <3>1. CASE AsksAgain(failure, s, loop[l].attempt)
      <4>1. loop' = [loop EXCEPT ![l] = again]
        BY <1>7, <3>1 DEF AskFails
      <4> QED
        BY <2>1, <3>1, <4>1
    <3>2. CASE ~AsksAgain(failure, s, loop[l].attempt) /\ loop[l].round = 1
      BY <1>7, <2>3, <3>2 DEF AskFails
    <3>3. CASE ~AsksAgain(failure, s, loop[l].attempt) /\ loop[l].round # 1
      BY <1>7, <2>2, <3>3 DEF AskFails
    <3> QED
      BY <3>1, <3>2, <3>3
  <2> QED
    BY <1>2, <1>7, <2>4, OnlyLoop DEF AskFails
<1> QED
  BY <1>6, <1>7

\* Server s is stored by loop l.
LEMMA TypesStored ==
  ASSUME TypeOK, NEW l, NEW pc \in Stage, NEW s \in Server, NEW object \in MCPServer,
         StoreBy(l, pc, s, object),
         l \in Loop => pc \in {"failed", "done"} /\ loop[l].pc = "write",
         UNCHANGED <<latest, up, running, chan, failures, rest>>,
         UNCHANGED changes \/ Spend
  PROVE  TypeOK'
<1>1. LoopsOK(loop')
  <2>1. LoopsOK(loop)
    BY DEF TypeOK, LoopsOK
  <2>2. ASSUME NEW k \in Loop PROVE LoopOK(loop'[k])
    <3> DEFINE stage == IF k = l THEN pc ELSE loop[k].pc
    <3>1. LoopOK(loop[k])
      BY <2>1 DEF LoopsOK
    <3>2. /\ stage \in Stage
          /\ stage = loop[k].pc \/ (stage \in {"failed", "done"} /\ loop[k].pc = "write")
      BY <3>1 DEF LoopOK, LoopType
    <3>3. loop'[k] = [loop[k] EXCEPT !.fresh = @ \ {s}, !.pc = stage]
      BY DEF StoreBy
    <3> HIDE DEF stage
    <3>4. LoopOK([loop[k] EXCEPT !.fresh = @ \ {s}, !.pc = stage])
      BY <3>1, <3>2, StoredLoop
    <3> QED
      BY <3>3, <3>4
  <2> QED
    BY <2>2 DEF StoreBy, LoopsOK, LoopOK
<1>2. server' \in [Server -> MCPServer]
  BY DEF StoreBy, TypeOK
<1> QED
  BY <1>1, <1>2, UpdateAssumption DEF TypeOK, LoopsOK, Spend

LEMMA TypesWrite ==
  ASSUME TypeOK, NEW l \in Loop, Write(l) \/ Conflict(l) \/ WriteFails(l) PROVE TypeOK'
<1> DEFINE s    == loop[l].current
           copy == loop[l].todo[s]
           new  == applyTemplateUpdates(copy, loop[l].found)
<1>1. LoopsOK(loop) /\ LoopOK(loop[l]) /\ loop[l] \in LoopType
  BY DEF TypeOK, LoopsOK
<1>2. loop[l].pc = "write" BY DEF Write, Conflict, WriteFails
<1>3. s \in Server /\ copy \in MCPServer /\ new \in MCPServer /\ server[s] \in MCPServer
  BY <1>1, <1>2, UpdatedServer DEF LoopOK, LoopType, Copies, Listed, TypeOK
<1>4. {"failed", "done"} \subseteq Stage
  BY DEF Stage
<1>5. CASE Write(l)
  BY <1>2, <1>3, <1>4, <1>5, TypesStored DEF Write
<1>6. ASSUME loop' = [loop EXCEPT ![l].pc = "failed"] PROVE LoopsOK(loop')
  <2>1. LoopOK([loop[l] EXCEPT !.pc = "failed"])
    BY <1>1, <1>2, <1>4 DEF LoopOK, LoopType, Listed
  <2>2. loop' = [loop EXCEPT ![l] = [loop[l] EXCEPT !.pc = "failed"]]
    BY <1>1, <1>6 DEF LoopsOK
  <2> QED
    BY <1>1, <2>1, <2>2, OneLoop
<1>7. CASE Conflict(l)
  BY <1>6, <1>7, OnlyLoop DEF Conflict
<1>8. CASE WriteFails(l)
  <2>1. CASE loop' = [loop EXCEPT ![l].pc = "failed"] /\ UNCHANGED server /\ Spend
    BY <1>6, <1>8, <2>1, OnlyLoop DEF WriteFails
  <2>2. CASE StoreBy(l, "failed", s, server[s]) \/ StoreBy(l, "failed", s, new)
    BY <1>2, <1>3, <1>4, <1>8, <2>2, TypesStored DEF WriteFails
  <2> QED
    BY <1>8, <2>1, <2>2 DEF WriteFails
<1> QED
  BY <1>5, <1>7, <1>8

LEMMA TypesRecord ==
  ASSUME TypeOK, NEW l \in Loop, Record(l) PROVE TypeOK'
<1> DEFINE s == loop[l].current
<1>1. LoopsOK(loop) /\ LoopOK(loop[l])
  BY DEF TypeOK, LoopsOK
<1>2. s \in Server
  BY <1>1 DEF Record, LoopOK, Listed
<1>3. LoopsOK(loop')
  BY <1>1, <1>2, DoneOK, OneLoop DEF Record
<1>4. failures' \in [Server -> 0..Bits] /\ rest' \in [Server -> 0..Cap]
  <2>0. /\ Bits \in Nat /\ Bits > 0 /\ 0 \in 0..Bits /\ 0 \in 0..Cap
        /\ failures \in [Server -> 0..Bits] /\ rest \in [Server -> 0..Cap]
    BY UpdateAssumption DEF TypeOK
  <2>1. CASE recordFailure(s)
    <3> DEFINE count == IF failures[s] < Bits THEN failures[s] + 1 ELSE Bits
    <3>1. failures[s] \in 0..Bits
      BY <1>2, <2>0
    <3>2. count \in 1..Bits
      BY <2>0, <3>1
    <3>3. count \in 0..Bits /\ Backoff(count) \in 0..Cap
      BY <2>0, <3>2, BackoffIsCapped
    <3>4. /\ failures' = [failures EXCEPT ![s] = count]
          /\ rest' = [rest EXCEPT ![s] = Backoff(count)]
      BY <2>1 DEF recordFailure
    <3> HIDE DEF count
    <3> QED
      BY <2>0, <3>3, <3>4
  <2>2. CASE recordSuccess(s)
    BY <2>0, <2>2 DEF recordSuccess
  <2> QED
    BY <2>1, <2>2 DEF Record
<1> QED
  BY <1>3, <1>4 DEF Record, TypeOK, LoopsOK

\* Start, Stop, Boot, Shutdown and time.
LEMMA TypesProcess ==
  ASSUME TypeOK, Start \/ Stop \/ Boot \/ Shutdown \/ Elapse PROVE TypeOK'
<1>1. LoopsOK(loop)
  BY DEF TypeOK, LoopsOK
<1>2. 1 \in Loop /\ 1 \in 0..MaxStarts /\ MaxChanges \in Nat
  BY UpdateAssumption DEF Loop
<1>3. CASE Start
  <2>1. chan + 1 \in Loop /\ chan + 1 \in 0..MaxStarts
    BY <1>3, UpdateAssumption DEF Start, TypeOK, Loop
  <2>2. LoopsOK(loop')
    BY <1>1, <1>3, <2>1, NoLoopOK, OneLoop DEF Start
  <2> QED
    BY <1>3, <2>1, <2>2 DEF Start, TypeOK, LoopsOK
<1>4. CASE Stop
  <2>1. changes' \in 0..MaxChanges
    BY <1>2, <1>4 DEF Stop, Spend, TypeOK
  <2> QED
    BY <1>4, <2>1 DEF Stop, TypeOK
<1>5. CASE Boot
  <2>1. LoopsOK(loop')
    BY <1>1, <1>2, <1>5, NoLoopOK, OneLoop DEF Boot
  <2> QED
    BY <1>2, <1>5, <2>1 DEF Boot, TypeOK, LoopsOK
<1>6. CASE Shutdown
  BY <1>2, <1>6, DiesOK DEF Shutdown, Spend, TypeOK
<1>7. CASE Elapse
  <2>1. ASSUME NEW l \in Loop PROVE LoopOK(loop'[l])
    <3> DEFINE ticked  == [loop[l] EXCEPT !.left = Interval, !.tick = TRUE]
               counted == [loop[l] EXCEPT !.left = @ - 1]
    <3>1. LoopOK(loop[l]) /\ loop[l] \in LoopType /\ Interval \in Nat /\ Interval \in 0..Interval
      BY <1>1, UpdateAssumption DEF LoopsOK
    <3>2. LoopOK(ticked)
      BY <3>1 DEF LoopOK, LoopType, Listed
    <3>3. loop[l].left > 1 => LoopOK(counted)
      <4> SUFFICES ASSUME loop[l].left > 1 PROVE LoopOK(counted)
        OBVIOUS
      <4>1. loop[l].left \in 0..Interval
        BY <3>1 DEF LoopType
      <4>2. loop[l].left - 1 \in 0..Interval
        BY <3>1, <4>1
      <4> QED
        BY <3>1, <4>2 DEF LoopOK, LoopType, Listed
    <3>4. loop'[l] = IF loop[l].left = 0 THEN loop[l]
                     ELSE IF loop[l].left > 1 THEN counted ELSE ticked
      BY <1>7 DEF Elapse
    <3> HIDE DEF ticked, counted
    <3> QED
      BY <3>1, <3>2, <3>3, <3>4
  <2>2. LoopsOK(loop')
    BY <1>7, <2>1 DEF Elapse, LoopsOK, LoopOK
  <2>3. rest' \in [Server -> 0..Cap]
    <3>1. Cap \in Nat /\ rest \in [Server -> 0..Cap]
      BY UpdateAssumption DEF TypeOK
    <3>2. rest' = [s \in Server |-> IF rest[s] > 0 THEN rest[s] - 1 ELSE 0]
      BY <1>7 DEF Elapse
    <3>3. \A s \in Server : rest'[s] \in 0..Cap
      BY <3>1, <3>2
    <3> QED
      BY <3>2, <3>3
  <2> QED
    BY <1>7, <2>2, <2>3 DEF Elapse, TypeOK, LoopsOK
<1> QED
  BY <1>3, <1>4, <1>5, <1>6, <1>7

\* The registry and the users.
LEMMA TypesOthers ==
  ASSUME TypeOK, NEW s \in Server, Release(s) \/ UserWrites(s) PROVE TypeOK'
<1>1. CASE Release(s)
  <2>1. latest' \in [Server -> 0..Len(Templates)]
    BY <1>1, TemplatesAre DEF Release, TypeOK
  <2>2. changes' \in 0..MaxChanges
    BY <1>1, UpdateAssumption DEF Release, Spend, TypeOK
  <2> QED
    BY <1>1, <2>1, <2>2 DEF Release, TypeOK
<1>2. CASE UserWrites(s)
  <2>1. PICK object \in Objects[s] : StoreBy(0, "", s, object)
    BY <1>2 DEF UserWrites
  <2>2. object \in MCPServer /\ 0 \notin Loop
    BY UpdateAssumption DEF Loop
  <2>3. server' \in [Server -> MCPServer]
    BY <2>1, <2>2 DEF StoreBy, TypeOK
  <2>4. ASSUME NEW l \in Loop PROVE LoopOK(loop'[l])
    <3> DEFINE stage == loop[l].pc
    <3>1. LoopOK(loop[l]) /\ stage \in Stage /\ stage = loop[l].pc
      BY DEF TypeOK, LoopOK, LoopType
    <3>2. loop'[l] = [loop[l] EXCEPT !.fresh = @ \ {s}, !.pc = stage]
      BY <2>1, <2>2 DEF StoreBy
    <3> HIDE DEF stage
    <3>3. LoopOK([loop[l] EXCEPT !.fresh = @ \ {s}, !.pc = stage])
      BY <3>1, StoredLoop
    <3> QED
      BY <3>2, <3>3
  <2>5. LoopsOK(loop')
    BY <2>1, <2>4 DEF StoreBy, LoopsOK, LoopOK
  <2>6. changes' \in 0..MaxChanges
    <3>1. Spend
      BY <1>2 DEF UserWrites
    <3> QED
      BY <3>1, UpdateAssumption DEF Spend, TypeOK
  <2> QED
    BY <1>2, <2>3, <2>5, <2>6 DEF UserWrites, TypeOK, LoopsOK
<1> QED
  BY <1>1, <1>2

LEMMA TypesStep == TypeOK /\ [Next]_vars => TypeOK'
<1> SUFFICES ASSUME TypeOK, [Next]_vars PROVE TypeOK'
  OBVIOUS
<1>1. ASSUME NEW l \in Loop, Goroutine(l) \/ ListFails(l) PROVE TypeOK'
  BY <1>1, TypesWork, TypesAsk, TypesWrite, TypesRecord DEF Goroutine, Failure
<1>2. ASSUME NEW l \in Loop, NEW failure \in Failure, AskFails(l, failure) PROVE TypeOK'
  BY <1>2, TypesAsk
<1>3. ASSUME NEW l \in Loop, NEW m \in Loop, Race(l, m) PROVE TypeOK'
  BY <1>3, DiesOK DEF Race, TypeOK
<1>4. CASE Start \/ Stop \/ Boot \/ Shutdown \/ Elapse
  BY <1>4, TypesProcess
<1>5. ASSUME NEW s \in Server, Release(s) \/ UserWrites(s) PROVE TypeOK'
  BY <1>5, TypesOthers
<1>6. CASE UNCHANGED vars
  BY <1>6 DEF vars, TypeOK
<1> QED
  BY <1>1, <1>2, <1>3, <1>4, <1>5, <1>6 DEF Next

\* Every variable has its type; no back-off is longer than the cap
\* (auto_update_service.go:463, overflow included); what a goroutine works on is a
\* server of its list, and what it writes has a runtime.
THEOREM TypeCorrect == Spec => []TypeOK
BY TypesInit, TypesStep, PTL DEF Spec

-----------------------------------------------------------------------------
(***************************************************************************)
(* The inductive invariant.  What a goroutine holds of the servers and     *)
(* templates that are stored: a fresh copy is the server itself; a copy is *)
(* never ahead of the registry, neither is a server; the template found    *)
(* for a server is no older than the one its copy carries, as the copy was *)
(* made before.  And the attempts are those of one request, none of which  *)
(* had a final answer.                                                     *)
(***************************************************************************)
LoopFits(lp, servers, released) ==
  /\ \A s \in lp.fresh : lp.todo[s] = servers[s]
  /\ \A s \in Listed(lp) : Known(lp.todo[s], released[s])
  /\ lp.pc = "write" =>
       lp.todo[lp.current].digest <= lp.found /\ lp.found <= released[lp.current]
  /\ lp.pc # "ask" => lp.attempt = 0
  /\ lp.attempt > 0 =>
       lp.heard # "denied" /\ (lp.heard = "absent" => lp.current \in Telling)

ServersKnown == \A s \in Server : Known(server[s], latest[s])

Inv ==
  /\ TypeOK /\ ServersKnown
  /\ \A l \in Loop : LoopFits(loop[l], server, latest)

LEMMA DigestsAreNumbers ==
  ASSUME NEW object \in MCPServer PROVE object.digest \in Nat
<1>1. object.digest \in 0..Len(Templates)
  BY DEF MCPServer
<1> QED
  BY <1>1, TemplatesAre

\* A template stays known when more of them are released.
LEMMA KnownLater ==
  ASSUME NEW object \in MCPServer, NEW a \in Nat, NEW b \in Nat, a <= b, Known(object, a)
  PROVE  Known(object, b)
BY DigestsAreNumbers DEF Known

LEMMA NoLoopFits ==
  ASSUME NEW servers, NEW released
  PROVE  /\ LoopFits(NoLoop, servers, released) /\ LoopFits(NewLoop, servers, released)
         /\ LoopFits([NoLoop EXCEPT !.pc = "ended"], servers, released)
BY DEF LoopFits, NoLoop, NewLoop, NoCopies, Listed

LEMMA DoneFits ==
  ASSUME NEW lp, LoopOK(lp), NEW servers, NEW released, LoopFits(lp, servers, released),
         NEW s \in Server
  PROVE  LoopFits(Done(lp, s), servers, released)
<1>1. lp \in LoopType
  BY DEF LoopOK
<1>2. /\ Done(lp, s).pc = "next" /\ Done(lp, s).attempt = 0
      /\ Done(lp, s).fresh = lp.fresh \ {s}
      /\ Done(lp, s).todo = [lp.todo EXCEPT ![s] = Nil]
  BY <1>1 DEF Done, LoopType
<1>3. \A k \in Server : k # s => Done(lp, s).todo[k] = lp.todo[k]
  BY <1>1, <1>2 DEF LoopType, Copies
<1>4. s \notin Listed(Done(lp, s)) /\ Listed(Done(lp, s)) \subseteq Listed(lp)
  BY <1>1, <1>2, <1>3 DEF Listed, LoopType, Copies
<1>5. lp.fresh \in SUBSET Server
  BY <1>1 DEF LoopType
<1> QED
  BY <1>2, <1>3, <1>4, <1>5 DEF LoopFits, Listed

\* What a goroutine holds stays fitting while others work, if no server it has a
\* fresh copy of is stored, and whatever is released.
LEMMA FitsLater ==
  ASSUME NEW lp, LoopOK(lp), NEW servers, NEW released, LoopFits(lp, servers, released),
         NEW later, released \in [Server -> Nat], later \in [Server -> Nat],
         \A s \in Server : released[s] <= later[s],
         NEW changed, \A s \in lp.fresh : changed[s] = servers[s]
  PROVE  LoopFits(lp, changed, later)
<1>1. lp \in LoopType
  BY DEF LoopOK
<1>2. ASSUME NEW s \in Listed(lp) PROVE Known(lp.todo[s], later[s])
  <2>1. lp.todo[s] \in MCPServer /\ s \in Server
    BY <1>1 DEF Listed, LoopType, Copies
  <2> QED
    BY <2>1, KnownLater DEF LoopFits
<1>3. ASSUME lp.pc = "write" PROVE lp.found <= later[lp.current]
  <2>1. lp.current \in Server /\ lp.found \in Nat
    <3>1. lp.current \in Server /\ lp.found \in DOMAIN Templates
      BY <1>3 DEF LoopOK, Listed
    <3> QED
      BY <3>1, TemplatesAre
  <2>2. released[lp.current] \in Nat /\ later[lp.current] \in Nat
    BY <2>1
  <2> QED
    BY <1>3, <2>1, <2>2 DEF LoopFits
<1> QED
  BY <1>2, <1>3 DEF LoopFits

LEMMA StoredFits ==
  ASSUME NEW lp, LoopOK(lp), NEW servers \in [Server -> MCPServer], NEW released,
         LoopFits(lp, servers, released),
         NEW s \in Server, NEW object, NEW pc,
         pc = lp.pc \/ (pc \in {"failed", "done"} /\ lp.pc = "write")
  PROVE  LoopFits([lp EXCEPT !.fresh = @ \ {s}, !.pc = pc],
                  [servers EXCEPT ![s] = object], released)
<1> DEFINE new == [lp EXCEPT !.fresh = @ \ {s}, !.pc = pc]
<1>1. lp \in LoopType /\ lp.fresh \in SUBSET Server
  BY DEF LoopOK, LoopType
<1>2. /\ new.fresh = lp.fresh \ {s} /\ new.todo = lp.todo /\ new.pc = pc
      /\ new.current = lp.current /\ new.found = lp.found /\ new.attempt = lp.attempt
      /\ new.heard = lp.heard
  BY <1>1 DEF LoopType
<1>3. \A k \in new.fresh : [servers EXCEPT ![s] = object][k] = servers[k]
  BY <1>1, <1>2
<1> HIDE DEF new
<1> QED
  BY <1>2, <1>3 DEF LoopFits, Listed, new

\* A step of goroutine l that stores nothing.
LEMMA OneFits ==
  ASSUME Inv, NEW l \in Loop, NEW lp, LoopFits(lp, server, latest),
         loop' = [loop EXCEPT ![l] = lp], UNCHANGED <<server, latest>>
  PROVE  ServersKnown' /\ \A k \in Loop : LoopFits(loop'[k], server', latest')
<1>1. ServersKnown'
  BY DEF Inv, ServersKnown
<1>2. ASSUME NEW k \in Loop PROVE LoopFits(loop'[k], server', latest')
  <2>1. loop'[k] = IF k = l THEN lp ELSE loop[k]
    BY DEF Inv, TypeOK
  <2> QED
    BY <2>1 DEF Inv
<1> QED
  BY <1>1, <1>2

LEMMA FitsWork ==
  ASSUME Inv, NEW l \in Loop,
         \/ Enter(l) \/ End(l) \/ Check(l) \/ ListFails(l) \/ Finish(l) \/ Conflict(l)
         \/ \E s \in Server : Skip(l, s) \/ Examine(l, s)
         \/ Record(l)
  PROVE  ServersKnown' /\ \A k \in Loop : LoopFits(loop'[k], server', latest')
<1> DEFINE Goal == ServersKnown' /\ \A k \in Loop : LoopFits(loop'[k], server', latest')
<1>1. LoopOK(loop[l]) /\ loop[l] \in LoopType /\ LoopFits(loop[l], server, latest)
  BY DEF Inv, TypeOK
<1>2. loop \in [Loop -> LoopType]
  BY DEF Inv, TypeOK
<1>3. ASSUME NEW lp, LoopFits(lp, server, latest), loop' = [loop EXCEPT ![l] = lp],
             UNCHANGED <<server, latest>>
      PROVE  Goal
  BY <1>3, OneFits
<1>4. CASE Enter(l)
  <2> DEFINE lp == [loop[l] EXCEPT !.pc = "wait", !.watched = chan]
  <2>1. LoopFits(lp, server, latest)
    BY <1>1, <1>4 DEF Enter, LoopFits, LoopType, Listed
  <2>2. loop' = [loop EXCEPT ![l] = lp]
    BY <1>2, <1>4 DEF Enter
  <2> QED
    BY <1>3, <1>4, <2>1, <2>2 DEF Enter
<1>5. CASE End(l)
  BY <1>3, <1>5, NoLoopFits DEF End
<1>6. CASE Check(l)
  <2> DEFINE listed == {s \in Server : server[s].there}
             todo == [s \in Server |-> IF s \in listed THEN server[s] ELSE Nil]
             lp == [loop[l] EXCEPT !.pc = "next", !.tick = FALSE, !.watched = 0,
                                   !.todo = todo, !.fresh = listed]
  <2>1. \A s \in listed : todo[s] = server[s]
    OBVIOUS
  <2>2. \A s \in Server : todo[s] # Nil => Known(todo[s], latest[s])
    BY DEF Inv, ServersKnown
  <2>3. loop' = [loop EXCEPT ![l] = lp]
    BY <1>2, <1>6 DEF Check
  <2> HIDE DEF todo, listed
  <2>4. /\ lp.pc = "next" /\ lp.fresh = listed /\ lp.todo = todo
        /\ lp.attempt = loop[l].attempt
    BY <1>1 DEF LoopType
  <2>5. loop[l].attempt = 0
    BY <1>1, <1>6 DEF Check, LoopFits
  <2> HIDE DEF lp
  <2>6. LoopFits(lp, server, latest)
    BY <2>1, <2>2, <2>4, <2>5 DEF LoopFits, Listed
  <2> QED
    BY <1>3, <1>6, <2>3, <2>6 DEF Check
<1>7. CASE ListFails(l)
  <2> DEFINE lp == [loop[l] EXCEPT !.pc = "enter", !.tick = FALSE, !.watched = 0]
  <2>1. LoopFits(lp, server, latest)
    BY <1>1, <1>7 DEF ListFails, LoopFits, LoopType, Listed
  <2>2. loop' = [loop EXCEPT ![l] = lp]
    BY <1>2, <1>7 DEF ListFails
  <2> QED
    BY <1>3, <1>7, <2>1, <2>2 DEF ListFails
<1>8. CASE Finish(l)
  <2> DEFINE lp == [loop[l] EXCEPT !.pc = "enter"]
  <2>1. LoopFits(lp, server, latest)
    BY <1>1, <1>8 DEF Finish, LoopFits, LoopType, Listed
  <2>2. loop' = [loop EXCEPT ![l] = lp]
    BY <1>2, <1>8 DEF Finish
  <2> QED
    BY <1>3, <1>8, <2>1, <2>2 DEF Finish
<1>9. CASE Conflict(l)
  <2> DEFINE lp == [loop[l] EXCEPT !.pc = "failed"]
  <2>1. LoopFits(lp, server, latest)
    BY <1>1, <1>9 DEF Conflict, LoopFits, LoopType, Listed
  <2>2. loop' = [loop EXCEPT ![l] = lp]
    BY <1>2, <1>9 DEF Conflict
  <2> QED
    BY <1>3, <1>9, <2>1, <2>2 DEF Conflict
<1>10. ASSUME NEW s \in Server, Skip(l, s) PROVE Goal
  BY <1>1, <1>3, <1>10, DoneFits DEF Skip
<1>11. ASSUME NEW s \in Server, Examine(l, s) PROVE Goal
  <2> DEFINE lp == [loop[l] EXCEPT !.pc = "ask", !.current = s]
  <2>1. LoopFits(lp, server, latest)
    <3>1. loop[l].attempt = 0
      BY <1>1, <1>11 DEF Examine, LoopFits
    <3>2. /\ lp.pc = "ask" /\ lp.todo = loop[l].todo /\ lp.fresh = loop[l].fresh
          /\ lp.attempt = 0
      BY <1>1, <3>1 DEF LoopType
    <3> HIDE DEF lp
    <3> QED
      BY <1>1, <3>2 DEF LoopFits, Listed
  <2>2. loop' = [loop EXCEPT ![l] = lp]
    BY <1>2, <1>11 DEF Examine
  <2> QED
    BY <1>3, <1>11, <2>1, <2>2 DEF Examine
<1>12. CASE Record(l)
  <2>1. loop[l].current \in Server
    BY <1>1, <1>12 DEF Record, LoopOK, Listed
  <2> QED
    BY <1>1, <1>3, <1>12, <2>1, DoneFits DEF Record
<1> QED
  BY <1>4, <1>5, <1>6, <1>7, <1>8, <1>9, <1>10, <1>11, <1>12

\* The process ends: nothing is held.
LEMMA FitsDies ==
  ASSUME Inv, Dies
  PROVE  ServersKnown' /\ \A k \in Loop : LoopFits(loop'[k], server', latest')
BY NoLoopFits DEF Inv, Dies, ServersKnown

\* A template is found after its copy was made, so it is no older.  The first
\* request of a server that failed for good is not repeated.
LEMMA FitsAsk ==
  ASSUME Inv, NEW l \in Loop,
         Answered(l) \/ \E failure \in Failure : AskFails(l, failure)
  PROVE  ServersKnown' /\ \A k \in Loop : LoopFits(loop'[k], server', latest')
<1> DEFINE Goal == ServersKnown' /\ \A k \in Loop : LoopFits(loop'[k], server', latest')
           s    == loop[l].current
           copy == loop[l].todo[s]
<1>1. LoopOK(loop[l]) /\ loop[l] \in LoopType /\ LoopFits(loop[l], server, latest)
  BY DEF Inv, TypeOK
<1>2. ASSUME NEW lp, LoopFits(lp, server, latest), loop' = [loop EXCEPT ![l] = lp],
             UNCHANGED <<server, latest>>
      PROVE  Goal
  BY <1>2, OneFits
<1>3. loop[l].pc = "ask" => s \in Server /\ s \in Listed(loop[l])
  BY <1>1 DEF LoopOK, Listed
<1>4. CASE Answered(l)
  <2> DEFINE again == [loop[l] EXCEPT !.round = 2, !.attempt = 0, !.heard = ""]
             write == [loop[l] EXCEPT !.pc = "write", !.found = latest[s], !.attempt = 0,
                                      !.heard = ""]
  <2>1. CASE copy.runtime = Nil /\ Dies
    BY <2>1, FitsDies
  <2>2. CASE copy.runtime # Nil
    <3>1. UNCHANGED <<server, latest>>
      BY <1>4, <2>2 DEF Answered
    <3>2. CASE ~IsUpdateRequired(copy, latest[s])
      <4>1. loop' = [loop EXCEPT ![l] = Done(loop[l], s)]
        BY <1>4, <2>2, <3>2 DEF Answered
      <4>2. LoopFits(Done(loop[l], s), server, latest)
        BY <1>1, <1>3, <1>4, DoneFits DEF Answered
      <4> QED
        BY <1>2, <3>1, <4>1, <4>2
    <3>3. CASE IsUpdateRequired(copy, latest[s]) /\ loop[l].round = 1
      <4>1. loop' = [loop EXCEPT ![l] = again]
        BY <1>4, <2>2, <3>3 DEF Answered
      <4>2. /\ again.pc = "ask" /\ again.todo = loop[l].todo /\ again.fresh = loop[l].fresh
            /\ again.attempt = 0
        BY <1>1, <1>4 DEF Answered, LoopType
      <4> HIDE DEF again
      <4>3. LoopFits(again, server, latest)
        BY <1>1, <4>2 DEF LoopFits, Listed
      <4> QED
        BY <1>2, <3>1, <4>1, <4>3
    <3>4. CASE IsUpdateRequired(copy, latest[s]) /\ loop[l].round # 1
      <4>1. loop' = [loop EXCEPT ![l] = write]
        BY <1>4, <2>2, <3>4 DEF Answered
      <4>2. /\ write.pc = "write" /\ write.todo = loop[l].todo
            /\ write.fresh = loop[l].fresh /\ write.current = s
            /\ write.found = latest[s] /\ write.attempt = 0
        BY <1>1 DEF LoopType
      <4>3. latest[s] > 0 /\ latest[s] \in Nat
        BY <1>3, <1>4, TemplatesAre DEF Answered, Inv, TypeOK
      <4>4. copy.digest <= latest[s]
        BY <1>1, <1>3, <1>4, <4>3 DEF Answered, LoopFits, Known
      <4> HIDE DEF write
      <4>5. LoopFits(write, server, latest)
        BY <1>1, <4>2, <4>3, <4>4 DEF LoopFits, Listed
      <4> QED
        BY <1>2, <3>1, <4>1, <4>5
    <3> QED
      BY <3>2, <3>3, <3>4
  <2> QED
    BY <1>4, <2>1, <2>2 DEF Answered
<1>5. ASSUME NEW failure \in Failure, AskFails(l, failure) PROVE Goal
  <2> DEFINE again  == [loop[l] EXCEPT !.attempt = loop[l].attempt + 1, !.heard = failure]
             failed == [loop[l] EXCEPT !.pc = "failed", !.attempt = 0, !.heard = ""]
  <2>1. loop[l].pc = "ask" /\ UNCHANGED <<server, latest>>
    BY <1>5 DEF AskFails
  <2>2. CASE AsksAgain(failure, s, loop[l].attempt)
    <3>1. loop' = [loop EXCEPT ![l] = again]
      BY <1>5, <2>2 DEF AskFails
    <3>2. /\ again.pc = "ask" /\ again.todo = loop[l].todo /\ again.fresh = loop[l].fresh
          /\ again.heard = failure /\ again.current = s
      BY <1>1, <2>1 DEF LoopType
    <3>3. 0 < RetriesOf(ClassifyGitHubError(failure, s))
      <4>1. loop[l].attempt \in 0..MaxRetries
        BY <1>1 DEF LoopType
      <4>2. RetriesOf(ClassifyGitHubError(failure, s)) \in Nat
        BY RetriesAreNumbers
      <4> QED
        BY <2>2, <4>1, <4>2, RetryAssumption DEF AsksAgain
    <3>4. failure # "denied" /\ (failure = "absent" => s \in Telling)
      BY <3>3 DEF RetriesOf, ClassifyGitHubError, isNetworkError
    <3> HIDE DEF again
    <3>5. LoopFits(again, server, latest)
      BY <1>1, <3>2, <3>4 DEF LoopFits, Listed
    <3> QED
      BY <1>2, <2>1, <3>1, <3>5
  <2>3. CASE ~AsksAgain(failure, s, loop[l].attempt) /\ loop[l].round = 1
    <3>1. LoopFits(Done(loop[l], s), server, latest)
      BY <1>1, <1>3, <2>1, DoneFits
    <3>2. loop' = [loop EXCEPT ![l] = Done(loop[l], s)]
      BY <1>5, <2>3 DEF AskFails
    <3> QED
      BY <1>2, <2>1, <3>1, <3>2
  <2>4. CASE ~AsksAgain(failure, s, loop[l].attempt) /\ loop[l].round # 1
    <3>1. loop' = [loop EXCEPT ![l] = failed]
      BY <1>5, <2>4 DEF AskFails
    <3>2. /\ failed.pc = "failed" /\ failed.todo = loop[l].todo
          /\ failed.fresh = loop[l].fresh /\ failed.attempt = 0
      BY <1>1 DEF LoopType
    <3> HIDE DEF failed
    <3>3. LoopFits(failed, server, latest)
      BY <1>1, <3>2 DEF LoopFits, Listed
    <3> QED
      BY <1>2, <2>1, <3>1, <3>3
  <2> QED
    BY <2>2, <2>3, <2>4
<1> QED
  BY <1>4, <1>5

\* Server s is stored by loop l: no fresh copy of it is left.
LEMMA FitsStored ==
  ASSUME Inv, NEW l, NEW pc, NEW s \in Server, NEW object,
         StoreBy(l, pc, s, object), Known(object, latest[s]), UNCHANGED latest,
         l \in Loop => pc \in {"failed", "done"} /\ loop[l].pc = "write"
  PROVE  ServersKnown' /\ \A k \in Loop : LoopFits(loop'[k], server', latest')
<1>1. server \in [Server -> MCPServer] /\ server' = [server EXCEPT ![s] = object]
  BY DEF Inv, TypeOK, StoreBy
<1>2. ServersKnown'
  BY <1>1 DEF Inv, ServersKnown
<1>3. ASSUME NEW k \in Loop PROVE LoopFits(loop'[k], server', latest')
  <2> DEFINE stage == IF k = l THEN pc ELSE loop[k].pc
  <2>1. LoopOK(loop[k]) /\ LoopFits(loop[k], server, latest)
    BY DEF Inv, TypeOK
  <2>2. stage = loop[k].pc \/ (stage \in {"failed", "done"} /\ loop[k].pc = "write")
    OBVIOUS
  <2>3. loop'[k] = [loop[k] EXCEPT !.fresh = @ \ {s}, !.pc = stage]
    BY DEF StoreBy
  <2> HIDE DEF stage
  <2>4. LoopFits([loop[k] EXCEPT !.fresh = @ \ {s}, !.pc = stage],
                 [server EXCEPT ![s] = object], latest)
    BY <1>1, <2>1, <2>2, StoredFits
  <2> QED
    BY <1>1, <2>3, <2>4
<1> QED
  BY <1>2, <1>3

\* What a goroutine writes is of a template that has been released, and no older
\* than what the server carries.
LEMMA WritesForward ==
  ASSUME Inv, NEW l \in Loop, loop[l].pc = "write"
  PROVE  LET s   == loop[l].current
             new == applyTemplateUpdates(loop[l].todo[s], loop[l].found)
         IN  /\ s \in Server /\ Known(new, latest[s])
             /\ s \in loop[l].fresh => new.digest >= server[s].digest
<1> DEFINE s   == loop[l].current
           new == applyTemplateUpdates(loop[l].todo[s], loop[l].found)
<1>1. LoopOK(loop[l]) /\ loop[l] \in LoopType /\ LoopFits(loop[l], server, latest)
  BY DEF Inv, TypeOK
<1>2. /\ s \in Server /\ loop[l].todo[s] \in MCPServer /\ loop[l].todo[s].runtime # Nil
      /\ loop[l].found \in DOMAIN Templates
  BY <1>1 DEF LoopOK, LoopType, Copies, Listed
<1>3. new.digest = loop[l].found
  BY <1>2, UpdatedServer
<1>4. loop[l].todo[s].digest <= loop[l].found /\ loop[l].found <= latest[s]
  BY <1>1 DEF LoopFits
<1>5. loop[l].found \in Nat /\ loop[l].found > 0 /\ latest[s] \in Nat
  BY <1>2, TemplatesAre DEF Inv, TypeOK
<1>6. Known(new, latest[s])
  BY <1>3, <1>4, <1>5 DEF Known
<1>7. loop[l].todo[s].digest \in Nat
  BY <1>2, DigestsAreNumbers
<1>8. s \in loop[l].fresh => new.digest >= server[s].digest
  BY <1>1, <1>3, <1>4, <1>5, <1>7 DEF LoopFits
<1> QED
  BY <1>2, <1>6, <1>8

LEMMA FitsWrite ==
  ASSUME Inv, NEW l \in Loop, Write(l) \/ WriteFails(l)
  PROVE  ServersKnown' /\ \A k \in Loop : LoopFits(loop'[k], server', latest')
<1> DEFINE Goal == ServersKnown' /\ \A k \in Loop : LoopFits(loop'[k], server', latest')
           s    == loop[l].current
           new  == applyTemplateUpdates(loop[l].todo[s], loop[l].found)
<1>1. loop[l].pc = "write" /\ UNCHANGED latest
  BY DEF Write, WriteFails
<1>2. s \in Server /\ Known(new, latest[s]) /\ Known(server[s], latest[s])
  BY <1>1, WritesForward DEF Inv, ServersKnown
<1>3. CASE \/ StoreBy(l, "done", s, new) \/ StoreBy(l, "failed", s, new)
           \/ StoreBy(l, "failed", s, server[s])
  BY <1>1, <1>2, <1>3, FitsStored
<1>4. CASE loop' = [loop EXCEPT ![l].pc = "failed"] /\ UNCHANGED server
  <2> DEFINE lp == [loop[l] EXCEPT !.pc = "failed"]
  <2>1. loop' = [loop EXCEPT ![l] = lp]
    BY <1>4 DEF Inv, TypeOK
  <2>2. LoopFits(lp, server, latest)
    BY <1>1 DEF Inv, TypeOK, LoopFits, LoopType, Listed
  <2> QED
    BY <1>1, <1>4, <2>1, <2>2, OneFits
<1> QED
  BY <1>3, <1>4 DEF Write, WriteFails

LEMMA FitsProcess ==
  ASSUME Inv, Start \/ Stop \/ Boot \/ Shutdown \/ Elapse
  PROVE  ServersKnown' /\ \A k \in Loop : LoopFits(loop'[k], server', latest')
<1>1. CASE Start
  <2>1. chan + 1 \in Loop
    BY <1>1, UpdateAssumption DEF Start, Loop, Inv, TypeOK
  <2> QED
    BY <1>1, <2>1, NoLoopFits, OneFits DEF Start
<1>2. CASE Stop
  BY <1>2 DEF Stop, Inv, ServersKnown
<1>3. CASE Boot
  <2>1. 1 \in Loop
    BY UpdateAssumption DEF Loop
  <2> QED
    BY <1>3, <2>1, NoLoopFits, OneFits DEF Boot
<1>4. CASE Shutdown
  BY <1>4, FitsDies DEF Shutdown
<1>5. CASE Elapse
  <2>1. UNCHANGED <<server, latest>>
    BY <1>5 DEF Elapse
  <2>2. ServersKnown'
    BY <2>1 DEF Inv, ServersKnown
  <2>3. ASSUME NEW k \in Loop PROVE LoopFits(loop'[k], server, latest)
    <3>1. LoopFits(loop[k], server, latest) /\ loop[k] \in LoopType
      BY DEF Inv, TypeOK
    <3>2. /\ loop'[k].pc = loop[k].pc /\ loop'[k].todo = loop[k].todo
          /\ loop'[k].fresh = loop[k].fresh /\ loop'[k].current = loop[k].current
          /\ loop'[k].found = loop[k].found /\ loop'[k].attempt = loop[k].attempt
          /\ loop'[k].heard = loop[k].heard
      BY <1>5, <3>1 DEF Elapse, LoopType
    <3> QED
      BY <3>1, <3>2 DEF LoopFits, Listed
  <2> QED
    BY <2>1, <2>2, <2>3
<1> QED
  BY <1>1, <1>2, <1>3, <1>4, <1>5

LEMMA FitsOthers ==
  ASSUME Inv, NEW s \in Server, Release(s) \/ UserWrites(s)
  PROVE  ServersKnown' /\ \A k \in Loop : LoopFits(loop'[k], server', latest')
<1>1. CASE Release(s)
  <2>1. UNCHANGED <<server, loop>> /\ latest' = [latest EXCEPT ![s] = @ + 1]
    BY <1>1 DEF Release
  <2>2. latest \in [Server -> Nat] /\ latest' \in [Server -> Nat]
    BY <1>1, TypesOthers, TemplatesAre DEF Inv, TypeOK
  <2>3. \A k \in Server : latest[k] <= latest'[k]
    BY <2>1, <2>2
  <2>4. ServersKnown'
    BY <2>1, <2>2, <2>3, KnownLater DEF Inv, TypeOK, ServersKnown
  <2>5. ASSUME NEW k \in Loop PROVE LoopFits(loop[k], server, latest')
    <3>1. LoopOK(loop[k]) /\ LoopFits(loop[k], server, latest)
      BY DEF Inv, TypeOK
    <3> QED
      BY <2>2, <2>3, <3>1, FitsLater
  <2> QED
    BY <2>1, <2>4, <2>5
<1>2. CASE UserWrites(s)
  <2>1. PICK object \in Objects[s] : StoreBy(0, "", s, object) /\ Known(object, latest[s])
    BY <1>2 DEF UserWrites
  <2>2. 0 \notin Loop
    BY DEF Loop
  <2>3. UNCHANGED latest
    BY <1>2 DEF UserWrites
  <2> QED
    BY <2>1, <2>2, <2>3, FitsStored
<1> QED
  BY <1>1, <1>2

LEMMA InvInit == Init => Inv
<1> SUFFICES ASSUME Init PROVE ServersKnown /\ \A l \in Loop : LoopFits(loop[l], server, latest)
  BY TypesInit DEF Inv
<1>1. ServersKnown
  BY DEF Init, ServersKnown
<1>2. ASSUME NEW l \in Loop PROVE LoopFits(loop[l], server, latest)
  BY NoLoopFits DEF Init
<1> QED
  BY <1>1, <1>2

LEMMA InvStep == Inv /\ [Next]_vars => Inv'
<1> SUFFICES ASSUME Inv, [Next]_vars PROVE Inv'
  OBVIOUS
<1> DEFINE Goal == ServersKnown' /\ \A k \in Loop : LoopFits(loop'[k], server', latest')
<1>1. TypeOK'
  BY TypesStep DEF Inv
<1>2. ASSUME NEW l \in Loop, Goroutine(l) \/ ListFails(l) PROVE Goal
  BY <1>2, FitsWork, FitsAsk, FitsWrite DEF Goroutine, Failure
<1>3. ASSUME NEW l \in Loop, NEW failure \in Failure, AskFails(l, failure) PROVE Goal
  BY <1>3, FitsAsk
<1>4. ASSUME NEW l \in Loop, NEW m \in Loop, Race(l, m) PROVE Goal
  BY <1>4, FitsDies DEF Race
<1>5. ASSUME Start \/ Stop \/ Boot \/ Shutdown \/ Elapse PROVE Goal
  BY <1>5, FitsProcess
<1>6. ASSUME NEW s \in Server, Release(s) \/ UserWrites(s) PROVE Goal
  BY <1>6, FitsOthers
<1>7. ASSUME UNCHANGED vars PROVE Goal
  <2>1. UNCHANGED <<server, latest, loop>>
    BY <1>7 DEF vars
  <2> QED
    BY <2>1 DEF Inv, ServersKnown
<1>8. Goal
  BY <1>2, <1>3, <1>4, <1>5, <1>6, <1>7 DEF Next
<1> QED
  BY <1>1, <1>8 DEF Inv

LEMMA InvHolds == Spec => []Inv
BY InvInit, InvStep, PTL DEF Spec

-----------------------------------------------------------------------------
\* "Don't retry authentication or not found errors" (github_retry.go:388), but for
\* the servers with a telling name: with any limits, for any number of attempts.
THEOREM FinalAnswersHolds == Spec => []FinalAnswers
<1>1. Inv => FinalAnswers
  BY DEF Inv, LoopFits, FinalAnswers
<1> QED
  BY InvHolds, <1>1, PTL

\* No server that carries a template is ever given an older one, however many
\* goroutines work on it with lists and templates read at whatever time.
THEOREM NoDowngradeHolds == Spec => NoDowngrade
<1> DEFINE Upgrade == \A s \in Server :
             server[s].there /\ server'[s].there => server'[s].digest >= server[s].digest
<1>1. Inv /\ [Next]_vars => [Upgrade]_vars
  <2> SUFFICES ASSUME Inv, Next PROVE Upgrade
    OBVIOUS
  <2>1. server \in [Server -> MCPServer] /\ \A s \in Server : server[s].digest \in Nat
    BY DigestsAreNumbers DEF Inv, TypeOK
  <2>2. CASE UNCHANGED server
    BY <2>1, <2>2
  <2>3. ASSUME NEW s \in Server, NEW object, server' = [server EXCEPT ![s] = object],
               server[s].there /\ object.there => object.digest >= server[s].digest
        PROVE  Upgrade
    BY <2>1, <2>3
  <2>4. ASSUME NEW l \in Loop, Write(l) \/ WriteFails(l) PROVE Upgrade
    <3> DEFINE s   == loop[l].current
               new == applyTemplateUpdates(loop[l].todo[s], loop[l].found)
    <3>1. loop[l].pc = "write" /\ s \in loop[l].fresh
      BY <2>4 DEF Write, WriteFails
    <3>2. s \in Server /\ new.digest >= server[s].digest
      BY <3>1, WritesForward
    <3>3. \/ UNCHANGED server
          \/ server' = [server EXCEPT ![s] = new]
          \/ server' = [server EXCEPT ![s] = server[s]]
      BY <2>4 DEF Write, WriteFails, StoreBy
    <3> QED
      BY <2>1, <2>2, <2>3, <3>2, <3>3
  <2>5. ASSUME NEW s \in Server, UserWrites(s) PROVE Upgrade
    <3>1. PICK object \in Objects[s] :
            /\ server' = [server EXCEPT ![s] = object]
            /\ object.there /\ server[s].there => object.digest = server[s].digest
      BY <2>5 DEF UserWrites, StoreBy
    <3> QED
      BY <2>1, <2>3, <3>1
  <2> QED
    BY <2>2, <2>4, <2>5
       DEF Next, Goroutine, Enter, End, Check, ListFails, Skip, Examine, Finish, Answered,
           AskFails, Conflict, Record, Race, Dies, Start, Stop, Boot, Shutdown, Elapse,
           Release
<1> QED
  BY InvHolds, <1>1, PTL DEF Spec, NoDowngrade

=============================================================================
