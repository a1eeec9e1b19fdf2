----------------------- MODULE MCPServerRolloutProofs -----------------------
(***************************************************************************)
(* What TLAPS proves of the rollout of an MCPServer: RolloutTypeOK, the    *)
(* invariants AppliedMeansLive, RecordKept, ReadyIsCurrent, NoCrossTraffic,*)
(* AdmittedThenRefused, TrafficArrives and BuildersAgree, for every server *)
(* and neighbour, every set of kinds an API server may take, any number of *)
(* attempts, passes, faults and births, and RetrySurvivesFirstFault where  *)
(* one call may fail by itself.                                            *)
(***************************************************************************)
EXTENDS MCPServerRollout, MCPServerResourcesProofs

-----------------------------------------------------------------------------
(***************************************************************************)
(* The inductive invariant, in six groups.                                 *)
(***************************************************************************)
\* Types, and whose the object is.
Typed ==
  /\ hooks \in BOOLEAN /\ simple \in BOOLEAN
  /\ stage \in Stages
  /\ server \in Servers /\ server.name # Neighbour.name
  /\ object \in {"there", "deleting", "gone"}
  /\ birth \in 1..MaxBirths /\ text \in 0..birth
  /\ copy \in Statuses /\ stored \in Statuses
  /\ passes \in 1..(MaxPasses + 1) /\ faults \in 0..MaxFaults

\* What is built is what is rendered for the server as it is, and the loop that
\* applies it stays within it.
Rendering ==
  /\ built = << >> \/ built = Rendered(server, simple)
  /\ stage = "written" => built = << >>
  /\ stage \in {"rendered", "apply", "applied"} => built = Rendered(server, simple)
  /\ stage = "apply" =>
       at \in DOMAIN built /\ patched \in 0..Len(built) /\ tries \in 1..Attempts

\* What was decided about the server holds of it as it is.
Judged ==
  /\ stage \in {"valid", "rendered", "apply", "applied"} => ValidateMCPServer(server.spec)
  /\ stage = "invalid" => ~ValidateMCPServer(server.spec)
  /\ hooks /\ stage \notin {"written", "mutated", "denied"} => Admitted(server.spec)

\* A new object has no status, one that was applied was valid, and one that is
\* gone is not worked on.
Reported ==
  /\ stage = "written" =>
       /\ copy.applied # "True" /\ copy.rendered # "True"
       /\ stored.applied # "True" /\ stored.rendered # "True"
  /\ copy.applied = "True" \/ stored.applied = "True" => ValidateMCPServer(server.spec)
  /\ object = "gone" => stage = "gone"

\* The object of this key is there and belongs to this very MCPServer.
Owned(key) == key \in DOMAIN live /\ live[key] = Uid

\* What the loop has applied, and what a status says was applied, is there.
Applied ==
  /\ stage = "apply" => \A i \in 1..(at - 1) : Owned(Key(built[i]))
  /\ stage = "applied" => \A i \in DOMAIN built : Owned(Key(built[i]))
  /\ object = "there" /\ (copy.applied = "True" \/ stored.applied = "True") =>
       \A o \in ToSet(Rendered(server, simple)) : Owned(Key(o))

\* So is the ConfigMap of manifests that a status names.
Recorded ==
  object = "there" /\ ~inherited /\ (copy.rendered = "True" \/ stored.rendered = "True") =>
    Owned(RecordKey) /\ text = birth

-----------------------------------------------------------------------------
(***************************************************************************)
(* Types.                                                                  *)
(***************************************************************************)
LEMMA Bounds ==
  /\ MaxPods \in Nat
  /\ Attempts \in Nat \ {0}
  /\ MaxPasses \in Nat
  /\ MaxFaults \in Nat
  /\ MaxBirths \in Nat \ {0}
BY RolloutAssumption

LEMMA NoStatusTyped == NoStatus \in Statuses
BY DEF NoStatus, Statuses, Condition

\* What is stored after a pass, and what a pass makes of what it sees.
LEMMA SaveTyped ==
  ASSUME NEW status \in Statuses, Save(status), stored \in Statuses
  PROVE  copy' \in Statuses /\ stored' \in Statuses
BY DEF Save

LEMMA MarksTyped ==
  ASSUME NEW status \in Statuses
  PROVE  /\ [status EXCEPT !.ready = "False"] \in Statuses
         /\ [status EXCEPT !.rendered = "False"] \in Statuses
         /\ [status EXCEPT !.applied = "True"] \in Statuses
         /\ [status EXCEPT !.phase = "Failed", !.applied = "False"] \in Statuses
         /\ [status EXCEPT !.rendered = "True", !.phase = "Pending",
                           !.progressing = "True"] \in Statuses
         /\ MarkDeploymentAsTimedOut(status) \in Statuses
         /\ WithGateway(status) \in Statuses
<1>1. [status EXCEPT !.ready = "False"] \in Statuses
  BY DEF Statuses, Condition
<1>2. [status EXCEPT !.rendered = "False"] \in Statuses
  BY DEF Statuses, Condition
<1>3. [status EXCEPT !.applied = "True"] \in Statuses
  BY DEF Statuses, Condition
<1>4. [status EXCEPT !.phase = "Failed", !.applied = "False"] \in Statuses
  BY DEF Statuses, Condition
<1>5. [status EXCEPT !.rendered = "True", !.phase = "Pending", !.progressing = "True"]
        \in Statuses
  BY DEF Statuses, Condition
<1>6. MarkDeploymentAsTimedOut(status) \in Statuses
  BY DEF Statuses, Condition, MarkDeploymentAsTimedOut
<1>7. WithGateway(status) \in Statuses
  BY DEF Statuses, Condition, WithGateway, Truth
<1> QED  BY <1>1, <1>2, <1>3, <1>4, <1>5, <1>6, <1>7

LEMMA ClassifiedTyped ==
  ASSUME NEW status \in Statuses, NEW d \in DeploymentStatus
  PROVE  Classified(status, d) \in Statuses
<1> DEFINE counted == [status EXCEPT !.serving = d.ready > 0]
           says(phase, ready, progressing) ==
             [counted EXCEPT !.phase = phase, !.ready = ready, !.progressing = progressing]
<1>1. counted \in Statuses
  <2>1. ASSUME NEW some \in BOOLEAN
        PROVE  [status EXCEPT !.serving = some] \in Statuses
    BY <2>1 DEF Statuses
  <2>2. (d.ready > 0) \in BOOLEAN
    OBVIOUS
  <2> QED  BY <2>1, <2>2, Zenon
<1> HIDE DEF counted
<1>2. /\ says("Running", "False", "True") \in Statuses
      /\ says("Running", "True", "False") \in Statuses
      /\ says("Pending", "False", "True") \in Statuses
  BY <1>1 DEF Statuses, Condition
<1>3. Classified(status, d) \in {says("Running", "False", "True"),
                                 says("Running", "True", "False"),
                                 says("Pending", "False", "True")}
  BY DEF Classified, counted
<1> QED  BY <1>2, <1>3

LEMMA ObserveTyped ==
  ASSUME Typed, Observe
  PROVE  copy' \in Statuses /\ stored' \in Statuses
<1> DEFINE applied == [copy EXCEPT !.applied = "True"]
           Read(d) == IF d = Nil THEN [applied EXCEPT !.ready = "False"]
                      ELSE Classified(applied, d)
<1>1. PICK d \in DeploymentStatus \cup {Nil} :
        \/ Save(WithGateway(Read(d)))
        \/ Save(WithGateway(MarkDeploymentAsTimedOut(Read(d))))
  BY DEF Observe
<1>2. applied \in Statuses
  BY MarksTyped DEF Typed
<1> HIDE DEF applied
<1>3. Read(d) \in Statuses
  BY <1>1, <1>2, MarksTyped, ClassifiedTyped
<1> HIDE DEF Read
<1>4. /\ WithGateway(Read(d)) \in Statuses
      /\ WithGateway(MarkDeploymentAsTimedOut(Read(d))) \in Statuses
  BY <1>3, MarksTyped
<1> QED  BY <1>1, <1>4, SaveTyped DEF Typed

\* The steps of MCPServerResources.
LEMMA NextTyped ==
  ASSUME Typed, Next
  PROVE  /\ hooks' = hooks /\ simple' = simple
         /\ stage \in {"written", "mutated", "stored", "valid"}
         /\ stage' \in {"mutated", "denied", "stored", "valid", "invalid", "over", "rendered"}
         /\ server' \in Servers /\ server'.name = server.name
         /\ stage # "written" => server' = server
         /\ stage' # "rendered" => built' = built
<1>1. CASE Mutate
  <2>1. server.name \in Text /\ server.spec \in MCPServerSpec
    BY DEF Typed, Servers
  <2>2. setDefaults(server.name, server.spec) \in MCPServerSpec
    BY <2>1, DefaultsTyped
  <2>3. server' = [server EXCEPT !.spec = setDefaults(server.name, server.spec)]
    BY <1>1 DEF Mutate
  <2>4. server' \in Servers /\ server'.name = server.name
    BY <2>2, <2>3 DEF Typed, Servers
  <2> QED  BY <1>1, <2>4 DEF Mutate
<1>2. CASE Admit \/ Store \/ Validate \/ Refuse \/ Render
  BY <1>2 DEF Admit, Store, Validate, Refuse, Render, Typed
<1> QED  BY <1>1, <1>2 DEF Next

LEMMA ExamineTyped ==
  ASSUME Typed, Examine
  PROVE  Typed'
<1>1. copy' \in Statuses /\ stored' \in Statuses
  <2>1. stored \in Statuses
    BY DEF Typed
  <2>2. CASE stage' \in {"invalid", "over"}
    <3>1. Save([stored EXCEPT !.ready = "False"])
      BY <2>2 DEF Examine
    <3> QED  BY <2>1, <3>1, MarksTyped, SaveTyped
  <2>3. CASE stage' \notin {"invalid", "over"}
    BY <2>1, <2>3 DEF Examine
  <2> QED  BY <2>2, <2>3
<1>2. UNCHANGED <<object, birth, text, passes, faults>>
  BY DEF Examine
<1>3. stage' \in Stages
  BY NextTyped DEF Examine, Stages
<1> QED  BY <1>1, <1>2, <1>3, NextTyped DEF Examine, Typed

LEMMA SaveStep ==
  ASSUME Typed, NEW status \in Statuses, Save(status)
  PROVE  copy' \in Statuses /\ stored' \in Statuses
BY SaveTyped DEF Typed

LEMMA AttemptTyped ==
  ASSUME Typed, AttemptFails, stage = "apply"
  PROVE  copy' \in Statuses /\ stored' \in Statuses /\ stage' \in {"apply", "done"}
<1>1. [copy EXCEPT !.phase = "Failed", !.applied = "False"] \in Statuses
  BY MarksTyped DEF Typed
<1>2. CASE tries < Attempts
  BY <1>2 DEF AttemptFails, Typed
<1>3. CASE ~(tries < Attempts)
  BY <1>1, <1>3, SaveStep DEF AttemptFails
<1> QED  BY <1>2, <1>3

LEMMA TypedStep ==
  ASSUME Typed, [RolloutNext]_all
  PROVE  Typed'
<1> USE DEF Typed, Stages
<1>1. CASE Examine
  BY <1>1, ExamineTyped
<1>2. CASE Record
  <2>1. copy' \in Statuses
    BY <1>2, MarksTyped DEF Record
  <2> QED  BY <1>2, <2>1, Bounds DEF Record
<1>3. CASE ApplyObject
  BY <1>3 DEF ApplyObject, Advance
<1>4. CASE ApplyRefused
  BY <1>4, AttemptTyped DEF ApplyRefused
<1>5. CASE Observe
  BY <1>5, ObserveTyped DEF Observe
<1>6. CASE HandleDeletion
  <2>1. faults' \in {faults, faults + 1} /\ (faults' = faults \/ faults < MaxFaults)
    BY <1>6 DEF HandleDeletion
  <2>2. faults' \in 0..MaxFaults
    BY <2>1, Bounds
  <2> QED  BY <1>6, <2>2 DEF HandleDeletion
<1>7. CASE RecordFails
  <2>1. copy' \in Statuses /\ stored' \in Statuses
    BY <1>7, MarksTyped, SaveStep DEF RecordFails
  <2>2. faults' \in 0..MaxFaults
    BY <1>7, Bounds DEF RecordFails
  <2> QED  BY <1>7, <2>1, <2>2 DEF RecordFails
<1>8. CASE ApplyFault
  <2>1. faults' \in 0..MaxFaults
    BY <1>8, Bounds DEF ApplyFault
  <2> QED  BY <1>8, <2>1, AttemptTyped DEF ApplyFault
<1>9. CASE Reenter \/ Restart
  <2>1. /\ passes < MaxPasses /\ passes' = passes + 1 /\ stage' = "stored"
        /\ UNCHANGED <<hooks, server, simple, object, birth, text, copy, stored, faults>>
    BY <1>9, Zenon DEF Reenter, Restart
  <2>2. passes' \in 1..(MaxPasses + 1)
    BY <2>1, Bounds
  <2> QED  BY <2>1, <2>2
<1>10. CASE DeleteServer
  BY <1>10 DEF DeleteServer, vars
<1>11. CASE CreateAgain
  <2>1. hooks' \in BOOLEAN
    BY <1>11 DEF CreateAgain
  <2>2. birth' \in 1..MaxBirths /\ text' \in 0..birth' /\ passes' \in 1..(MaxPasses + 1)
    BY <1>11, Bounds DEF CreateAgain
  <2> QED  BY <1>11, <2>1, <2>2, NoStatusTyped DEF CreateAgain
<1>12. CASE NeighbourLeaves
  BY <1>12 DEF NeighbourLeaves, vars
<1>13. CASE Collect
  <2>1. text' \in 0..birth
    BY <1>13, Bounds DEF Collect
  <2>2. UNCHANGED <<vars, object, birth, copy, stored, passes, faults>>
    BY <1>13 DEF Collect
  <2> QED  BY <2>1, <2>2 DEF vars
<1>14. CASE UNCHANGED all
  BY <1>14 DEF all, tail, vars
<1> QED
  BY <1>1, <1>2, <1>3, <1>4, <1>5, <1>6, <1>7, <1>8, <1>9, <1>10, <1>11, <1>12, <1>13,
     <1>14 DEF RolloutNext, Manager

-----------------------------------------------------------------------------
(***************************************************************************)
(* What is built, and the loop over it.                                    *)
(***************************************************************************)
LEMMA LoopBounds ==
  ASSUME built = Rendered(server, simple)
  PROVE  Len(built) \in Nat \ {0} /\ DOMAIN built = 1..Len(built)
<1> PICK S : built \in Seq(S) /\ built # << >>
  BY RenderedSequence
<1> QED  OBVIOUS

LEMMA AttemptBounds ==
  ASSUME Rendering, stage = "apply", AttemptFails
  PROVE  /\ stage' \in {"apply", "done"}
         /\ stage' = "apply" => at' = 1 /\ tries' \in 1..Attempts
<1>1. tries \in 1..Attempts
  BY DEF Rendering
<1>2. CASE tries < Attempts
  BY <1>1, <1>2, Bounds DEF AttemptFails
<1>3. CASE ~(tries < Attempts)
  BY <1>3 DEF AttemptFails
<1> QED  BY <1>2, <1>3

LEMMA ExamineRendering ==
  ASSUME Typed, Rendering, Examine
  PROVE  Rendering'
<1>1. CASE stage = "written"
  <2>1. built' = << >> /\ stage' \in {"mutated", "stored"}
    BY <1>1 DEF Examine, Next, Mutate, Store, Admit, Validate, Refuse, Render, Rendering
  <2> QED  BY <2>1 DEF Rendering
<1>2. CASE stage # "written"
  <2>1. server' = server /\ simple' = simple
    BY <1>2, NextTyped DEF Examine
  <2>2. CASE Render
    <3>1. built' = Rendered(server, simple)
      BY <2>2 DEF Render, Rendered
    <3>2. built' = Rendered(server', simple')
      BY <3>1, <2>1
    <3> QED  BY <2>2, <3>2 DEF Render, Rendering
  <2>3. CASE ~Render
    <3>1. built' = built /\ stage' \in {"denied", "stored", "valid", "invalid", "over"}
      BY <1>2, <2>3 DEF Examine, Next, Mutate, Store, Admit, Validate, Refuse
    <3> QED  BY <2>1, <3>1 DEF Rendering
  <2> QED  BY <2>2, <2>3
<1> QED  BY <1>1, <1>2

LEMMA RenderingStep ==
  ASSUME Typed, Rendering, [RolloutNext]_all
  PROVE  Rendering'
<1> DEFINE Same == UNCHANGED <<server, simple, built>>
<1>1. CASE Examine
  BY <1>1, ExamineRendering
<1>2. CASE Record
  <2>1. /\ Same
        /\ built = Rendered(server, simple)
        /\ stage' = "apply" /\ at' = 1 /\ tries' = 1 /\ patched' = 0
    BY <1>2 DEF Record, Rendering
  <2>2. 1 \in DOMAIN built /\ 0 \in 0..Len(built)
    BY <2>1, LoopBounds
  <2>3. 1 \in 1..Attempts
    BY Bounds
  <2> QED  BY <2>1, <2>2, <2>3 DEF Rendering
<1>3. CASE ApplyObject
  <2>1. /\ Same
        /\ built = Rendered(server, simple) /\ at \in DOMAIN built
        /\ patched' = at /\ tries' = tries /\ tries \in 1..Attempts
    BY <1>3 DEF ApplyObject, Rendering
  <2>2. at \in 0..Len(built) /\ (at # Len(built) => at + 1 \in DOMAIN built)
    BY <2>1, LoopBounds
  <2>3. stage' = "applied" \/ (stage' = "apply" /\ at # Len(built) /\ at' = at + 1)
    BY <1>3 DEF ApplyObject, Advance
  <2> QED  BY <2>1, <2>2, <2>3 DEF Rendering
<1>4. CASE ApplyRefused \/ ApplyFault
  <2>1. Same /\ stage = "apply" /\ AttemptFails /\ patched' = patched
    BY <1>4 DEF ApplyRefused, ApplyFault
  <2>2. built = Rendered(server, simple) /\ patched \in 0..Len(built)
    BY <2>1 DEF Rendering
  <2>3. 1 \in DOMAIN built
    BY <2>2, LoopBounds
  <2>4. /\ stage' \in {"apply", "done"}
        /\ stage' = "apply" => at' = 1 /\ tries' \in 1..Attempts
    BY <2>1, AttemptBounds
  <2> QED  BY <2>1, <2>2, <2>3, <2>4 DEF Rendering
<1>5. CASE Observe \/ RecordFails
  BY <1>5, Zenon DEF Observe, RecordFails, Rendering
<1>6. CASE HandleDeletion
  <2>1. Same /\ UNCHANGED <<at, tries, patched>> /\ stage' \in {"gone", stage}
    BY <1>6 DEF HandleDeletion
  <2> QED  BY <2>1 DEF Rendering
<1>7. CASE Reenter \/ Restart
  <2>1. Same /\ stage' = "stored"
    BY <1>7, Zenon DEF Reenter, Restart
  <2> QED  BY <2>1 DEF Rendering
<1>8. CASE CreateAgain
  BY <1>8 DEF CreateAgain, Rendering
<1>9. CASE DeleteServer \/ NeighbourLeaves \/ Collect \/ UNCHANGED all
  <2>1. UNCHANGED <<vars, at, tries, patched>>
    BY <1>9, Zenon DEF DeleteServer, NeighbourLeaves, Collect, all, tail
  <2> QED  BY <2>1 DEF Rendering, vars
<1> QED
  BY <1>1, <1>2, <1>3, <1>4, <1>5, <1>6, <1>7, <1>8, <1>9 DEF RolloutNext, Manager

-----------------------------------------------------------------------------
(***************************************************************************)
(* What was decided, and what was reported.                                *)
(***************************************************************************)
LEMMA JudgedStep ==
  ASSUME Typed, Judged, [RolloutNext]_all
  PROVE  Judged'
<1> DEFINE Same == UNCHANGED <<server, hooks>>
<1>1. CASE Examine
  <2>1. Next
    BY <1>1 DEF Examine
  <2>2. CASE Mutate
    BY <2>2 DEF Mutate, Judged
  <2>3. CASE Admit
    BY <2>3 DEF Admit, Judged
  <2>4. CASE Store
    BY <2>4 DEF Store, Judged
  <2>5. CASE Validate
    BY <2>5 DEF Validate, Judged
  <2>6. CASE Refuse \/ Render
    <3>1. Same /\ stage = "valid" /\ stage' \in {"over", "rendered"}
      BY <2>6 DEF Refuse, Render
    <3> QED  BY <3>1 DEF Judged
  <2> QED  BY <2>1, <2>2, <2>3, <2>4, <2>5, <2>6 DEF Next
<1>2. CASE Record \/ ApplyObject \/ ApplyRefused \/ ApplyFault \/ Observe \/ RecordFails
  <2>1. /\ Same
        /\ stage \in {"rendered", "apply", "applied"}
        /\ stage' \in {"apply", "applied", "done"}
    BY <1>2, Zenon DEF Record, ApplyObject, ApplyRefused, ApplyFault, Observe, RecordFails,
       Advance, AttemptFails
  <2> QED  BY <2>1 DEF Judged
<1>3. CASE HandleDeletion \/ Reenter \/ Restart
  <2>1. /\ Same
        /\ stage \notin {"written", "mutated", "denied"}
        /\ stage' \in {stage, "gone", "stored"}
    BY <1>3 DEF HandleDeletion, Reenter, Restart
  <2> QED  BY <2>1 DEF Judged
<1>4. CASE CreateAgain
  BY <1>4 DEF CreateAgain, Judged
<1>5. CASE DeleteServer \/ NeighbourLeaves \/ Collect \/ UNCHANGED all
  <2>1. UNCHANGED vars
    BY <1>5, Zenon DEF DeleteServer, NeighbourLeaves, Collect, all
  <2> QED  BY <2>1 DEF Judged, vars
<1> QED
  BY <1>1, <1>2, <1>3, <1>4, <1>5 DEF RolloutNext, Manager

\* What the marks say and leave alone.
LEMMA MarksSay ==
  ASSUME NEW status \in Statuses
  PROVE  /\ [status EXCEPT !.ready = "False"].applied = status.applied
         /\ [status EXCEPT !.ready = "False"].rendered = status.rendered
         /\ [status EXCEPT !.applied = "True"].rendered = status.rendered
         /\ [status EXCEPT !.rendered = "False"].applied = status.applied
         /\ [status EXCEPT !.rendered = "False"].rendered = "False"
         /\ [status EXCEPT !.phase = "Failed", !.applied = "False"].applied = "False"
         /\ [status EXCEPT !.phase = "Failed", !.applied = "False"].rendered = status.rendered
         /\ [status EXCEPT !.rendered = "True", !.phase = "Pending",
                           !.progressing = "True"].applied = status.applied
         /\ MarkDeploymentAsTimedOut(status).rendered = status.rendered
         /\ WithGateway(status).rendered = status.rendered
         /\ \A d \in DeploymentStatus : Classified(status, d).rendered = status.rendered
<1>1. /\ [status EXCEPT !.ready = "False"].applied = status.applied
      /\ [status EXCEPT !.ready = "False"].rendered = status.rendered
      /\ [status EXCEPT !.applied = "True"].rendered = status.rendered
      /\ [status EXCEPT !.rendered = "False"].applied = status.applied
      /\ [status EXCEPT !.rendered = "False"].rendered = "False"
  BY DEF Statuses
<1>2. /\ [status EXCEPT !.phase = "Failed", !.applied = "False"].applied = "False"
      /\ [status EXCEPT !.phase = "Failed", !.applied = "False"].rendered = status.rendered
      /\ [status EXCEPT !.rendered = "True", !.phase = "Pending",
                        !.progressing = "True"].applied = status.applied
  BY DEF Statuses
<1>3. MarkDeploymentAsTimedOut(status).rendered = status.rendered
  BY DEF Statuses, MarkDeploymentAsTimedOut
<1>4. WithGateway(status).rendered = status.rendered
  BY DEF Statuses, WithGateway
<1>5. ASSUME NEW d \in DeploymentStatus
      PROVE  Classified(status, d).rendered = status.rendered
  BY DEF Statuses, Classified
<1> QED  BY <1>1, <1>2, <1>3, <1>4, <1>5

\* What becomes of "applied" and "rendered" in each step that touches a status.
LEMMA ExamineSays ==
  ASSUME Typed, Examine
  PROVE  /\ copy'.applied = stored.applied /\ copy'.rendered = stored.rendered
         /\ stored'.applied = stored.applied /\ stored'.rendered = stored.rendered
<1>1. stored \in Statuses
  BY DEF Typed
<1>2. CASE stage' \in {"invalid", "over"}
  BY <1>1, <1>2, MarksSay DEF Examine, Save
<1>3. CASE stage' \notin {"invalid", "over"}
  BY <1>3 DEF Examine
<1> QED  BY <1>2, <1>3

LEMMA AttemptSays ==
  ASSUME Typed, AttemptFails
  PROVE  /\ copy'.applied = "False" \/ copy' = copy
         /\ copy'.rendered = copy.rendered
         /\ stored' \in {stored, copy'}
         /\ copy' # copy /\ object = "there" => stored' = copy'
<1>1. copy \in Statuses
  BY DEF Typed
<1>2. CASE tries < Attempts
  BY <1>2 DEF AttemptFails
<1>3. CASE ~(tries < Attempts)
  BY <1>1, <1>3, MarksSay DEF AttemptFails, Save
<1> QED  BY <1>2, <1>3

LEMMA ObserveSays ==
  ASSUME Typed, Observe
  PROVE  copy'.rendered = copy.rendered /\ stored' \in {stored, copy'}
<1> DEFINE applied == [copy EXCEPT !.applied = "True"]
           Read(d) == IF d = Nil THEN [applied EXCEPT !.ready = "False"]
                      ELSE Classified(applied, d)
<1>1. PICK d \in DeploymentStatus \cup {Nil} :
        \/ Save(WithGateway(Read(d)))
        \/ Save(WithGateway(MarkDeploymentAsTimedOut(Read(d))))
  BY DEF Observe
<1>2. applied \in Statuses /\ applied.rendered = copy.rendered
  BY MarksTyped, MarksSay DEF Typed
<1> HIDE DEF applied
<1>3. Read(d) \in Statuses /\ Read(d).rendered = applied.rendered
  BY <1>1, <1>2, MarksTyped, ClassifiedTyped, MarksSay
<1> HIDE DEF Read
<1>4. /\ WithGateway(Read(d)).rendered = copy.rendered
      /\ MarkDeploymentAsTimedOut(Read(d)) \in Statuses
      /\ WithGateway(MarkDeploymentAsTimedOut(Read(d))).rendered = copy.rendered
  BY <1>2, <1>3, MarksTyped, MarksSay
<1> QED  BY <1>1, <1>4 DEF Save

LEMMA RecordFailsSays ==
  ASSUME Typed, RecordFails
  PROVE  /\ copy'.applied = copy.applied /\ copy'.rendered = "False"
         /\ stored' \in {stored, copy'}
         /\ object = "there" => stored' = copy'
BY MarksSay DEF RecordFails, Save, Typed

LEMMA RecordSays ==
  ASSUME Typed, Record
  PROVE  copy'.applied = copy.applied /\ stored' = stored
BY MarksSay DEF Record, Typed

LEMMA ReportedStep ==
  ASSUME Typed, Judged, Reported, [RolloutNext]_all
  PROVE  Reported'
<1> USE DEF Reported
<1>1. CASE Examine
  <2>1. stage \notin {"gone"} /\ stage' \notin {"gone", "written"} /\ object' = object
    BY <1>1, NextTyped DEF Examine
  <2>2. stored.applied = "True" => stage # "written"
    OBVIOUS
  <2>3. stage # "written" => server' = server
    BY <1>1, NextTyped DEF Examine
  <2> QED  BY <1>1, <2>1, <2>2, <2>3, ExamineSays
<1>2. CASE Record
  BY <1>2, RecordSays DEF Record
<1>3. CASE ApplyObject
  BY <1>3 DEF ApplyObject, Advance
<1>4. CASE ApplyRefused \/ ApplyFault
  <2>1. UNCHANGED <<server, object>> /\ stage = "apply" /\ AttemptFails
    BY <1>4 DEF ApplyRefused, ApplyFault
  <2>2. stage' \in {"apply", "done"}
    BY <2>1 DEF AttemptFails
  <2>3. stage' # "written" /\ object' # "gone"
    BY <2>1, <2>2
  <2>4. copy'.applied = "True" \/ stored'.applied = "True" =>
          copy.applied = "True" \/ stored.applied = "True"
    BY <2>1, AttemptSays
  <2> QED  BY <2>1, <2>3, <2>4
<1>5. CASE Observe
  <2>1. UNCHANGED <<server, object>> /\ stage = "applied" /\ stage' = "done"
    BY <1>5 DEF Observe
  <2>2. ValidateMCPServer(server.spec)
    BY <2>1 DEF Judged
  <2> QED  BY <2>1, <2>2
<1>6. CASE RecordFails
  <2>1. UNCHANGED <<server, object>> /\ stage = "rendered" /\ stage' = "done"
    BY <1>6 DEF RecordFails
  <2>2. ValidateMCPServer(server.spec)
    BY <2>1 DEF Judged
  <2> QED  BY <2>1, <2>2
<1>7. CASE HandleDeletion
  <2>1. /\ UNCHANGED <<server, copy, stored>> /\ object = "deleting"
        /\ stage \notin {"written"}
        /\ \/ object' = "gone" /\ stage' = "gone"
           \/ UNCHANGED <<object, stage>>
    BY <1>7 DEF HandleDeletion
  <2> QED  BY <2>1
<1>8. CASE Reenter \/ Restart
  <2>1. /\ UNCHANGED <<server, object, copy, stored>>
        /\ stage # "gone" /\ stage' = "stored"
    BY <1>8, Zenon DEF Reenter, Restart
  <2> QED  BY <2>1
<1>9. CASE CreateAgain
  BY <1>9 DEF CreateAgain, NoStatus
<1>10. CASE DeleteServer
  BY <1>10 DEF DeleteServer, vars
<1>11. CASE NeighbourLeaves \/ Collect \/ UNCHANGED all
  <2>1. UNCHANGED <<vars, object, copy, stored>>
    BY <1>11, Zenon DEF NeighbourLeaves, Collect, all, tail
  <2> QED  BY <2>1 DEF vars
<1> QED
  BY <1>1, <1>2, <1>3, <1>4, <1>5, <1>6, <1>7, <1>8, <1>9, <1>10, <1>11
     DEF RolloutNext, Manager

-----------------------------------------------------------------------------
(***************************************************************************)
(* What is applied stays.                                                  *)
(***************************************************************************)
\* Nothing of the server is called like what a neighbour's deletion deletes.
LEMMA ForeignRecord ==
  ASSUME Typed
  PROVE  RecordKey \notin NamedAfter(Neighbour.name)
BY DEF Typed, RecordKey, Suffixed, NamedAfter

LEMMA ForeignKeys ==
  ASSUME Typed, ValidateMCPServer(server.spec), NEW b, NEW o \in ToSet(Rendered(server, b))
  PROVE  Key(o) \notin NamedAfter(Neighbour.name)
<1>1. server.name # Neighbour.name
  BY DEF Typed
<1>2. Policed(server.spec) => server.spec.tenancy.tenantId # ""
  <2>1. Policed(server.spec) => server.spec.tenancy # Nil
    BY DEF Policed
  <2>2. server.spec.tenancy # Nil => validateTenancySpec(server.spec.tenancy)
    BY DEF ValidateMCPServer
  <2>3. validateTenancySpec(server.spec.tenancy) => server.spec.tenancy.tenantId # ""
    BY DEF validateTenancySpec
  <2> QED  BY <2>1, <2>2, <2>3
<1>3. o.name # <<Neighbour.name, "">>
  <2>1. \/ \E suffix : o.name = <<server.name, suffix>>
        \/ Policed(server.spec) /\ o.name = <<"mcp-tenant", server.spec.tenancy.tenantId>>
    BY RenderedNames
  <2>2. \A suffix : <<server.name, suffix>> # <<Neighbour.name, "">>
    BY <1>1
  <2>3. \A tenant : tenant # "" => <<"mcp-tenant", tenant>> # <<Neighbour.name, "">>
    OBVIOUS
  <2> QED  BY <1>2, <2>1, <2>2, <2>3, Zenon
<1> QED  BY <1>3 DEF Key, NamedAfter

\* The key is the server's after the step.
Kept(key) == key \in DOMAIN live' /\ live'[key] = Uid'

LEMMA WithKept ==
  ASSUME NEW key, NEW own, live' = With(own, Uid), Uid' = Uid, Owned(key) \/ key = own
  PROVE  Kept(key)
BY DEF With, Kept, Owned

LEMMA UidKept ==
  ASSUME server'.name = server.name, birth' = birth
  PROVE  Uid' = Uid /\ RecordKey' = RecordKey
BY DEF Uid, RecordKey, Suffixed

\* As long as the object is there, whatever it owns stays its own, but for a
\* deletion, its own or a neighbour's.
LEMMA OwnedKept ==
  ASSUME Typed, Reported, [RolloutNext]_all,
         object # "gone", object # "deleting" \/ stage \in {"apply", "applied"},
         NEW key, Owned(key), key \notin NamedAfter(Neighbour.name)
  PROVE  Kept(key)
<1>1. CASE Examine
  <2>1. server'.name = server.name /\ birth' = birth /\ live' = live
    BY <1>1, NextTyped DEF Examine
  <2> QED  BY <2>1, UidKept DEF Kept, Owned
<1>2. CASE Record
  <2>1. UNCHANGED <<server, birth>> /\ live' \in {live, With(RecordKey, Uid)}
    BY <1>2 DEF Record
  <2>2. Uid' = Uid
    BY <2>1, UidKept
  <2> QED  BY <2>1, <2>2, WithKept DEF Kept, Owned
<1>3. CASE ApplyObject \/ ApplyFault
  <2>1. UNCHANGED <<server, birth>> /\ live' \in {live, With(Key(built[at]), Uid)}
    BY <1>3 DEF ApplyObject, ApplyFault
  <2>2. Uid' = Uid
    BY <2>1, UidKept
  <2> QED  BY <2>1, <2>2, WithKept DEF Kept, Owned
<1>4. CASE ApplyRefused \/ Observe \/ RecordFails \/ Reenter \/ Restart
  <2>1. UNCHANGED <<server, birth, live>>
    BY <1>4, Zenon DEF ApplyRefused, Observe, RecordFails, Reenter, Restart
  <2> QED  BY <2>1, UidKept DEF Kept, Owned
<1>5. CASE HandleDeletion
  BY <1>5 DEF HandleDeletion
<1>6. CASE CreateAgain
  BY <1>6 DEF CreateAgain
<1>7. CASE NeighbourLeaves
  <2>1. UNCHANGED <<server, birth>> /\ live' = Without(NamedAfter(Neighbour.name))
    BY <1>7 DEF NeighbourLeaves, vars
  <2> QED  BY <2>1, UidKept DEF Kept, Owned, Without
<1>8. CASE Collect
  <2>1. PICK lot : live' = Without({k \in lot \cap DOMAIN live : ~Alive(live[k])})
    BY <1>8 DEF Collect
  <2>2. UNCHANGED <<server, birth>>
    BY <1>8 DEF Collect, vars
  <2>3. Alive(live[key])
    BY DEF Alive, Owned
  <2>4. key \in DOMAIN live' /\ live'[key] = live[key]
    BY <2>1, <2>3 DEF Without, Owned
  <2> QED  BY <2>2, <2>4, UidKept DEF Kept, Owned
<1>9. CASE DeleteServer \/ UNCHANGED all
  <2>1. UNCHANGED <<server, birth, live>>
    BY <1>9, Zenon DEF DeleteServer, all, tail, vars
  <2> QED  BY <2>1, UidKept DEF Kept, Owned
<1> QED
  BY <1>1, <1>2, <1>3, <1>4, <1>5, <1>6, <1>7, <1>8, <1>9 DEF RolloutNext, Manager

LEMMA InSet ==
  ASSUME NEW q, NEW i \in DOMAIN q
  PROVE  q[i] \in ToSet(q)
BY DEF ToSet

\* The loop.
LEMMA LoopKept ==
  ASSUME Typed, Rendering, Judged, Reported, [RolloutNext]_all,
         stage \in {"apply", "applied"}, NEW i \in DOMAIN built, Owned(Key(built[i]))
  PROVE  Kept(Key(built[i]))
<1>1. built[i] \in ToSet(Rendered(server, simple))
  BY InSet DEF Rendering
<1>2. ValidateMCPServer(server.spec)
  BY DEF Judged
<1>3. Key(built[i]) \notin NamedAfter(Neighbour.name)
  BY <1>1, <1>2, ForeignKeys
<1>4. object # "gone"
  BY DEF Reported
<1> QED  BY <1>3, <1>4, OwnedKept

LEMMA LoopStep ==
  ASSUME Typed, Rendering, Judged, Reported, Applied, [RolloutNext]_all
  PROVE  /\ stage' = "apply" => \A i \in 1..(at' - 1) : Kept(Key(built'[i]))
         /\ stage' = "applied" => \A i \in DOMAIN built' : Kept(Key(built'[i]))
<1>1. CASE Record
  <2>1. stage' = "apply" /\ at' = 1
    BY <1>1 DEF Record
  <2>2. 1..(1 - 1) = {}
    OBVIOUS
  <2> QED  BY <2>1, <2>2
<1>2. CASE ApplyObject
  <2>1. stage = "apply" /\ built' = built /\ UNCHANGED <<server, birth>>
    BY <1>2 DEF ApplyObject
  <2>2. Len(built) \in Nat \ {0} /\ DOMAIN built = 1..Len(built) /\ at \in DOMAIN built
    BY <2>1, LoopBounds DEF Rendering
  <2>3. \A i \in 1..(at - 1) : Kept(Key(built[i]))
    <3>1. \A i \in 1..(at - 1) : i \in DOMAIN built
      BY <2>2
    <3> QED  BY <2>1, <3>1, LoopKept DEF Applied
  <2>4. Kept(Key(built[at]))
    <3>1. live' = With(Key(built[at]), Uid) /\ Uid' = Uid
      BY <1>2, <2>1, UidKept DEF ApplyObject
    <3> QED  BY <3>1, WithKept
  <2>5. \A i \in 1..at : Kept(Key(built[i]))
    <3>1. \A i \in 1..at : i = at \/ i \in 1..(at - 1)
      BY <2>2
    <3> QED  BY <2>3, <2>4, <3>1
  <2>6. CASE at = Len(built)
    BY <1>2, <2>1, <2>2, <2>5, <2>6 DEF ApplyObject, Advance
  <2>7. CASE at # Len(built)
    <3>1. at' = at + 1 /\ stage' = "apply" /\ (at + 1) - 1 = at
      BY <1>2, <2>2, <2>7 DEF ApplyObject, Advance
    <3> QED  BY <2>1, <2>5, <3>1
  <2> QED  BY <2>6, <2>7
<1>3. CASE ApplyRefused \/ ApplyFault
  <2>1. stage = "apply" /\ AttemptFails
    BY <1>3 DEF ApplyRefused, ApplyFault
  <2>2. stage' = "done" \/ (stage' = "apply" /\ at' = 1)
    BY <2>1, AttemptBounds
  <2>3. 1..(1 - 1) = {}
    OBVIOUS
  <2> QED  BY <2>2, <2>3
<1>4. CASE DeleteServer \/ NeighbourLeaves \/ Collect \/ UNCHANGED all
  <2>1. stage' = stage /\ built' = built /\ at' = at
    BY <1>4, Zenon DEF DeleteServer, NeighbourLeaves, Collect, all, tail, vars
  <2>2. ASSUME stage = "apply"
        PROVE  \A i \in 1..(at - 1) : Kept(Key(built[i]))
    <3>1. Len(built) \in Nat \ {0} /\ DOMAIN built = 1..Len(built) /\ at \in DOMAIN built
      BY <2>2, LoopBounds DEF Rendering
    <3>2. \A i \in 1..(at - 1) : i \in DOMAIN built
      BY <3>1
    <3> QED  BY <2>2, <3>2, LoopKept DEF Applied
  <2>3. ASSUME stage = "applied"
        PROVE  \A i \in DOMAIN built : Kept(Key(built[i]))
    BY <2>3, LoopKept DEF Applied
  <2> QED  BY <2>1, <2>2, <2>3
<1>5. CASE Examine \/ Observe \/ RecordFails \/ HandleDeletion \/ Reenter \/ Restart \/ CreateAgain
  <2>1. CASE Examine
    <3>1. stage' \in {"mutated", "denied", "stored", "valid", "invalid", "over", "rendered"}
      BY <2>1, NextTyped DEF Examine
    <3> QED  BY <3>1
  <2>2. CASE ~Examine
    <3>1. stage' \in {"done", "gone", "stored", "written", "invalid", "over"}
      BY <1>5, <2>2 DEF Observe, RecordFails, HandleDeletion, Reenter, Restart, CreateAgain
    <3> QED  BY <3>1
  <2> QED  BY <2>1, <2>2
<1> QED
  BY <1>1, <1>2, <1>3, <1>4, <1>5 DEF RolloutNext, Manager

LEMMA CreatedSays ==
  ASSUME CreateAgain
  PROVE  /\ copy'.applied = "Unset" /\ copy'.rendered = "Unset"
         /\ stored'.applied = "Unset" /\ stored'.rendered = "Unset"
<1>1. copy' = NoStatus /\ stored' = NoStatus
  BY Zenon DEF CreateAgain
<1> QED  BY <1>1 DEF NoStatus

\* Where a status comes from: of the steps that leave the object there, only
\* Observe says that it was applied, and only Record that it was rendered.
LEMMA SaidBefore ==
  ASSUME Typed, Reported, [RolloutNext]_all, object' = "there", ~CreateAgain
  PROVE  /\ object = "there" /\ birth' = birth
         /\ copy'.applied = "True" \/ stored'.applied = "True" =>
              Observe \/ copy.applied = "True" \/ stored.applied = "True"
         /\ copy'.rendered = "True" \/ stored'.rendered = "True" =>
              Record \/ copy.rendered = "True" \/ stored.rendered = "True"
<1>1. CASE Examine
  BY <1>1, ExamineSays DEF Examine
<1>2. CASE Record
  BY <1>2, RecordSays DEF Record
<1>3. CASE ApplyRefused \/ ApplyFault
  <2>1. UNCHANGED <<object, birth>> /\ AttemptFails
    BY <1>3 DEF ApplyRefused, ApplyFault
  <2> QED  BY <2>1, AttemptSays
<1>4. CASE Observe
  BY <1>4, ObserveSays DEF Observe
<1>5. CASE RecordFails
  BY <1>5, RecordFailsSays DEF RecordFails
<1>6. CASE HandleDeletion
  BY <1>6 DEF HandleDeletion
<1>7. CASE DeleteServer
  BY <1>7 DEF DeleteServer
<1>8. CASE ApplyObject \/ Reenter \/ Restart \/ NeighbourLeaves \/ Collect \/ UNCHANGED all
  <2>1. UNCHANGED <<object, birth, copy, stored>>
    BY <1>8, Zenon DEF ApplyObject, Reenter, Restart, NeighbourLeaves, Collect, all, tail
  <2> QED  BY <2>1
<1> QED
  BY <1>1, <1>2, <1>3, <1>4, <1>5, <1>6, <1>7, <1>8 DEF RolloutNext, Manager

\* Only a spec that was just written is given defaults.
LEMMA ServerKept ==
  ASSUME Typed, [RolloutNext]_all, stage # "written"
  PROVE  server' = server /\ simple' = simple
<1>1. CASE Examine
  BY <1>1, NextTyped DEF Examine
<1>2. CASE Record \/ ApplyObject \/ ApplyRefused \/ ApplyFault \/ Observe \/ RecordFails
           \/ HandleDeletion \/ Reenter \/ Restart \/ CreateAgain
  BY <1>2, Zenon DEF Record, ApplyObject, ApplyRefused, ApplyFault, Observe, RecordFails,
     HandleDeletion, Reenter, Restart, CreateAgain
<1>3. CASE DeleteServer \/ NeighbourLeaves \/ Collect \/ UNCHANGED all
  BY <1>3, Zenon DEF DeleteServer, NeighbourLeaves, Collect, all, vars
<1> QED
  BY <1>1, <1>2, <1>3 DEF RolloutNext, Manager

LEMMA AppliedStep ==
  ASSUME Typed, Rendering, Judged, Reported, Applied, [RolloutNext]_all
  PROVE  Applied'
<1>1. /\ stage' = "apply" => \A i \in 1..(at' - 1) : Kept(Key(built'[i]))
      /\ stage' = "applied" => \A i \in DOMAIN built' : Kept(Key(built'[i]))
  BY LoopStep
<1>2. ASSUME object' = "there", copy'.applied = "True" \/ stored'.applied = "True"
      PROVE  \A o \in ToSet(Rendered(server', simple')) : Kept(Key(o))
  <2>1. ~CreateAgain
    BY <1>2, CreatedSays
  <2>2. /\ object = "there"
        /\ Observe \/ copy.applied = "True" \/ stored.applied = "True"
    BY <1>2, <2>1, SaidBefore
  <2>3. Observe => stage = "applied"
    BY DEF Observe
  <2>4. stage # "written" /\ ValidateMCPServer(server.spec)
    BY <2>2, <2>3 DEF Reported, Judged
  <2>5. \A o \in ToSet(Rendered(server, simple)) : Owned(Key(o))
    <3>1. CASE Observe
      <4>1. \A i \in DOMAIN built : Owned(Key(built[i]))
        BY <2>3, <3>1 DEF Applied
      <4>2. built = Rendered(server, simple)
        BY <2>3, <3>1 DEF Rendering
      <4> QED  BY <4>1, <4>2 DEF ToSet
    <3>2. CASE copy.applied = "True" \/ stored.applied = "True"
      BY <2>2, <3>2 DEF Applied
    <3> QED  BY <2>2, <3>1, <3>2
  <2>6. \A o \in ToSet(Rendered(server, simple)) : Kept(Key(o))
    <3> SUFFICES ASSUME NEW o \in ToSet(Rendered(server, simple))
                 PROVE  Kept(Key(o))
      OBVIOUS
    <3>1. Key(o) \notin NamedAfter(Neighbour.name)
      BY <2>4, ForeignKeys
    <3>2. Owned(Key(o))
      BY <2>5
    <3> QED  BY <2>2, <3>1, <3>2, OwnedKept
  <2>7. server' = server /\ simple' = simple
    BY <2>4, ServerKept
  <2> QED  BY <2>6, <2>7
<1> QED
  BY <1>1, <1>2 DEF Applied, Owned, Kept, Key

\* The owner of the ConfigMap of manifests is alive: it is not collected, and
\* its text is not lost.
LEMMA TextKept ==
  ASSUME object = "there", Owned(RecordKey), Collect
  PROVE  text' = text
<1>1. Alive(live[RecordKey])
  BY DEF Alive, Owned
<1>2. PICK lot \in {{RecordKey}, DOMAIN live \ {RecordKey}} :
        /\ \E k \in lot \cap DOMAIN live : ~Alive(live[k])
        /\ text' = IF RecordKey \in lot THEN 0 ELSE text
  BY DEF Collect
<1>3. lot # {RecordKey}
  BY <1>1, <1>2
<1>4. RecordKey \notin lot
  BY <1>2, <1>3
<1> QED  BY <1>2, <1>4

LEMMA RecordedStep ==
  ASSUME Typed, Judged, Reported, Recorded, [RolloutNext]_all
  PROVE  Recorded'
<1> SUFFICES ASSUME object' = "there", ~inherited',
                    copy'.rendered = "True" \/ stored'.rendered = "True"
             PROVE  (Owned(RecordKey) /\ text = birth)'
  BY DEF Recorded
<1>1. ~CreateAgain
  BY CreatedSays
<1>2. /\ object = "there" /\ birth' = birth
      /\ Record \/ copy.rendered = "True" \/ stored.rendered = "True"
  BY <1>1, SaidBefore
<1>3. Record => stage = "rendered"
  BY DEF Record
<1>4. stage # "written"
  BY <1>2, <1>3 DEF Reported
<1>5. Uid' = Uid /\ RecordKey' = RecordKey
  BY <1>2, <1>4, ServerKept, UidKept
<1>6. CASE Record
  <2>1. /\ live' = IF RecordKey \in DOMAIN live THEN live ELSE With(RecordKey, Uid)
        /\ text' = birth
        /\ RecordKey \in DOMAIN live => live[RecordKey] = Uid
    BY <1>6 DEF Record
  <2>2. Kept(RecordKey)
    BY <1>5, <2>1, WithKept DEF Kept
  <2> QED  BY <1>2, <1>5, <2>1, <2>2 DEF Kept, Owned
<1>7. CASE ~Record
  <2>1. inherited' = inherited
    BY <1>1, <1>7, Zenon DEF RolloutNext, Manager, Examine, ApplyObject, ApplyRefused, Observe,
       HandleDeletion, RecordFails, ApplyFault, Reenter, Restart, DeleteServer,
       NeighbourLeaves, Collect, all, tail
  <2>2. Owned(RecordKey) /\ text = birth
    BY <1>2, <1>7, <2>1 DEF Recorded
  <2>3. text' = text
    <3>1. CASE Collect
      BY <1>2, <2>2, <3>1, TextKept
    <3>2. CASE ~Collect
      BY <1>1, <1>7, <3>2, Zenon DEF RolloutNext, Manager, Examine, ApplyObject, ApplyRefused,
         Observe, HandleDeletion, RecordFails, ApplyFault, Reenter, Restart, DeleteServer,
         NeighbourLeaves, all, tail
    <3> QED  BY <3>1, <3>2
  <2>4. Kept(RecordKey)
    BY <1>2, <2>2, ForeignRecord, OwnedKept
  <2> QED  BY <1>2, <1>5, <2>2, <2>3, <2>4 DEF Kept, Owned
<1> QED  BY <1>6, <1>7

-----------------------------------------------------------------------------
(***************************************************************************)
(* One fault.  The first object is the Deployment.  As long as nothing has *)
(* failed by itself, none of a predecessor's is in its way, and an attempt *)
(* that was not the first follows one that the API server refused.         *)
(***************************************************************************)
FirstKey == <<"Deployment", <<server.name, "">>>>

Unobstructed ==
  faults = 0 =>
    /\ object = "gone" => FirstKey \notin DOMAIN live
    /\ object # "gone" /\ FirstKey \in DOMAIN live => live[FirstKey] = Uid

Tried ==
  stage = "apply" /\ patched = 0 =>
    at = 1 /\ (tries > 1 => faults > 0 \/ built[1].kind \notin takes)

LEMMA FirstBuilt ==
  ASSUME Rendering, stage = "apply"
  PROVE  Key(built[1]) = FirstKey /\ 1 \in DOMAIN built
<1>1. built = Rendered(server, simple)
  BY DEF Rendering
<1>2. Rendered(server, simple)[1].kind = "Deployment"
  BY RenderedFirst
<1>3. Rendered(server, simple)[1].name = <<server.name, "">>
  BY RenderedFirst
<1>4. 1 \in DOMAIN built
  BY <1>1, LoopBounds
<1> HIDE DEF Rendered
<1> QED  BY <1>1, <1>2, <1>3, <1>4 DEF Key, FirstKey

\* Why an attempt that has applied nothing may be refused.
LEMMA FirstRefused ==
  ASSUME Typed, Rendering, Reported, Unobstructed, Tried,
         stage = "apply", patched = 0, Refuses(at)
  PROVE  faults > 0 \/ built[1].kind \notin takes
<1>1. at = 1 /\ ~(at <= patched)
  BY DEF Tried
<1>2. Key(built[1]) = FirstKey
  BY FirstBuilt
<1>3. object # "gone"
  BY DEF Reported
<1>4. faults \in Nat
  BY Bounds DEF Typed
<1> QED  BY <1>1, <1>2, <1>3, <1>4 DEF Refuses, Unobstructed

LEMMA UnobstructedInit ==
  ASSUME RolloutInit
  PROVE  Unobstructed
<1>1. /\ object = "there" /\ server \in Written
      /\ live = [k \in {Key(o) : o \in Live} |-> <<Neighbour.name, 1>>]
  BY Zenon DEF RolloutInit, Init
<1>2. server.name # Neighbour.name
  BY <1>1, ResourcesAssumption
<1>3. ASSUME NEW o \in Live, Key(o) = FirstKey
      PROVE  FALSE
  <2> PICK default : default = FALSE
    OBVIOUS
  <2>1. o.kind = "Deployment" /\ o.name = <<server.name, "">>
    BY <1>3 DEF Key, FirstKey
  <2>2. PICK b \in BuiltBy(Neighbour, default) :
          o = AddRequiredLabels(b, Neighbour) /\ o.kind = b.kind
    <3>1. o \in ToSet(Rendered(Neighbour, default))
      BY DEF Live, Rendered
    <3> QED  BY <3>1, RenderedFromBuilt
  <2>3. b \in {BuildDeployment(Neighbour), SimpleDeployment(Neighbour)}
    BY <2>1, <2>2, OfKind
  <2>4. o.name = <<Neighbour.name, "">>
    BY <2>2, <2>3, DeploymentName
  <2>5. <<server.name, "">> # <<Neighbour.name, "">>
    BY <1>2
  <2> QED  BY <2>1, <2>4, <2>5, Zenon
<1>4. FirstKey \notin DOMAIN live
  BY <1>1, <1>3
<1> QED  BY <1>1, <1>4 DEF Unobstructed

LEMMA UnobstructedStep ==
  ASSUME Typed, Rendering, Reported, Unobstructed, [RolloutNext]_all
  PROVE  Unobstructed'
<1> USE DEF Unobstructed
<1>1. CASE Examine
  <2>1. server'.name = server.name /\ UNCHANGED <<live, birth, faults, object>>
    BY <1>1, NextTyped DEF Examine
  <2> QED  BY <2>1 DEF FirstKey, Uid
<1>2. CASE Record
  <2>1. /\ UNCHANGED <<server, birth, faults, object>>
        /\ live' \in {live, With(RecordKey, Uid)}
    BY <1>2 DEF Record
  <2>2. RecordKey # FirstKey
    BY DEF RecordKey, FirstKey
  <2>3. object # "gone"
    BY <1>2 DEF Record, Reported
  <2> QED  BY <2>1, <2>2, <2>3 DEF With, FirstKey, Uid
<1>3. CASE ApplyObject
  <2>1. /\ UNCHANGED <<server, birth, faults, object>>
        /\ live' = With(Key(built[at]), Uid)
    BY <1>3 DEF ApplyObject
  <2>2. object # "gone"
    BY <1>3 DEF ApplyObject, Reported
  <2> QED  BY <2>1, <2>2 DEF With, FirstKey, Uid
<1>4. CASE ApplyFault \/ RecordFails
  <2>1. faults' = faults + 1 /\ faults \in Nat
    BY <1>4, Bounds DEF ApplyFault, RecordFails, Typed
  <2> QED  BY <2>1
<1>5. CASE ApplyRefused \/ Observe \/ Reenter \/ Restart
  <2>1. UNCHANGED <<server, birth, faults, object, live>>
    BY <1>5, Zenon DEF ApplyRefused, Observe, Reenter, Restart
  <2> QED  BY <2>1 DEF FirstKey, Uid
<1>6. CASE HandleDeletion
  <2>1. UNCHANGED <<server, birth>> /\ faults \in Nat
    BY <1>6, Bounds DEF HandleDeletion, Typed
  <2>2. \/ live' = Without(NamedAfter(server.name)) /\ UNCHANGED faults
        \/ faults' = faults + 1
    BY <1>6 DEF HandleDeletion
  <2>3. FirstKey \in NamedAfter(server.name) /\ FirstKey' = FirstKey
    BY <2>1 DEF FirstKey, NamedAfter
  <2> QED  BY <2>1, <2>2, <2>3 DEF Without
<1>7. CASE DeleteServer
  <2>1. UNCHANGED <<server, birth, faults, live>> /\ object # "gone" /\ object' # "gone"
    BY <1>7 DEF DeleteServer, vars
  <2> QED  BY <2>1 DEF FirstKey, Uid
<1>8. CASE CreateAgain
  <2>1. UNCHANGED <<server, faults, live>> /\ object = "gone" /\ object' = "there"
    BY <1>8 DEF CreateAgain
  <2> QED  BY <2>1 DEF FirstKey
<1>9. CASE NeighbourLeaves \/ Collect
  <2>1. /\ UNCHANGED <<server, birth, faults, object>>
        /\ \E keys : live' = Without(keys)
    BY <1>9 DEF NeighbourLeaves, Collect, vars
  <2> QED  BY <2>1 DEF Without, FirstKey, Uid
<1>10. CASE UNCHANGED all
  <2>1. UNCHANGED <<server, birth, faults, object, live>>
    BY <1>10 DEF all, tail, vars
  <2> QED  BY <2>1 DEF FirstKey, Uid
<1> QED
  BY <1>1, <1>2, <1>3, <1>4, <1>5, <1>6, <1>7, <1>8, <1>9, <1>10 DEF RolloutNext, Manager

LEMMA TriedStep ==
  ASSUME Typed, Rendering, Reported, Unobstructed, Tried, [RolloutNext]_all
  PROVE  Tried'
<1> USE DEF Tried
<1>1. CASE Examine
  BY <1>1, NextTyped DEF Examine
<1>2. CASE Record
  BY <1>2 DEF Record
<1>3. CASE ApplyObject
  <2>1. patched' = at /\ at \in DOMAIN built /\ built = Rendered(server, simple)
    BY <1>3 DEF ApplyObject, Rendering
  <2> QED  BY <2>1, LoopBounds
<1>4. CASE ApplyRefused
  <2>1. /\ UNCHANGED <<built, takes, patched, faults>>
        /\ stage = "apply" /\ Refuses(at) /\ AttemptFails
    BY <1>4 DEF ApplyRefused
  <2>2. patched = 0 => faults > 0 \/ built[1].kind \notin takes
    BY <2>1, FirstRefused
  <2> QED  BY <2>1, <2>2, AttemptBounds
<1>5. CASE ApplyFault
  <2>1. faults' = faults + 1 /\ faults \in Nat /\ stage = "apply" /\ AttemptFails
    BY <1>5, Bounds DEF ApplyFault, Typed
  <2> QED  BY <2>1, AttemptBounds
<1>6. CASE Observe \/ RecordFails \/ HandleDeletion \/ Reenter \/ Restart \/ CreateAgain
  <2>1. stage' # "apply"
    BY <1>6 DEF Observe, RecordFails, HandleDeletion, Reenter, Restart, CreateAgain
  <2> QED  BY <2>1
<1>7. CASE DeleteServer \/ NeighbourLeaves \/ Collect \/ UNCHANGED all
  <2>1. UNCHANGED <<stage, built, takes, at, tries, patched, faults>>
    BY <1>7, Zenon DEF DeleteServer, NeighbourLeaves, Collect, all, tail, vars
  <2> QED  BY <2>1
<1> QED
  BY <1>1, <1>2, <1>3, <1>4, <1>5, <1>6, <1>7 DEF RolloutNext, Manager

-----------------------------------------------------------------------------
(***************************************************************************)
(* The theorems.                                                           *)
(***************************************************************************)
Invariant == Typed /\ Rendering /\ Judged /\ Reported /\ Applied /\ Recorded

LEMMA InvariantInit ==
  ASSUME RolloutInit
  PROVE  Invariant
<1>1. /\ hooks \in BOOLEAN /\ simple \in BOOLEAN /\ server \in Written
      /\ stage = "written" /\ built = << >> /\ object = "there"
      /\ birth = 1 /\ text = 0 /\ copy = NoStatus /\ stored = NoStatus
      /\ passes = 1 /\ faults = 0
  BY Zenon DEF RolloutInit, Init
<1>2. server \in Servers /\ server.name # Neighbour.name
  BY <1>1, ResourcesAssumption
<1>3. Typed
  BY <1>1, <1>2, Bounds, NoStatusTyped DEF Typed, Stages
<1>4. Rendering /\ Judged
  BY <1>1 DEF Rendering, Judged
<1>5. Reported /\ Applied /\ Recorded
  BY <1>1 DEF Reported, Applied, Recorded, NoStatus
<1> QED  BY <1>3, <1>4, <1>5 DEF Invariant

LEMMA InvariantStep ==
  ASSUME Invariant, [RolloutNext]_all
  PROVE  Invariant'
BY TypedStep, RenderingStep, JudgedStep, ReportedStep, AppliedStep, RecordedStep
   DEF Invariant

LEMMA InvariantHolds == RolloutSpec => []Invariant
<1>1. RolloutInit => Invariant
  BY InvariantInit
<1>2. Invariant /\ [RolloutNext]_all => Invariant'
  BY InvariantStep
<1> QED  BY <1>1, <1>2, PTL DEF RolloutSpec

\* Every variable has its type, and the loop that applies what was rendered
\* stays within it, however often it is begun anew.
THEOREM TypeCorrect == RolloutSpec => []RolloutTypeOK
<1>1. Invariant => RolloutTypeOK
  <2> SUFFICES ASSUME Invariant
               PROVE  RolloutTypeOK
    OBVIOUS
  <2>1. server.spec \in MCPServerSpec
    BY DEF Invariant, Typed, Servers
  <2>2. stage \in {"rendered", "apply", "applied"} => built # << >>
    BY RenderedSequence DEF Invariant, Rendering
  <2>3. TypeOK
    BY <2>1, <2>2 DEF Invariant, Typed, TypeOK
  <2> QED  BY <2>3 DEF Invariant, Typed, Rendering, RolloutTypeOK
<1> QED  BY <1>1, InvariantHolds, PTL

\* Applied=True is stored of an MCPServer that is there only while every object
\* that was rendered for it is there and is its own: through retries, restarts,
\* the deletion of a neighbour and the garbage collector.
THEOREM AppliedMeansLiveHolds == RolloutSpec => []AppliedMeansLive
<1>1. Invariant => AppliedMeansLive
  <2> SUFFICES ASSUME Invariant, stored.applied = "True", object = "there",
                      NEW o \in ToSet(built)
               PROVE  Owned(Key(o))
    BY DEF AppliedMeansLive, Owned
  <2>1. built # << >>
    BY DEF ToSet
  <2>2. built = Rendered(server, simple)
    BY <2>1 DEF Invariant, Rendering
  <2> QED  BY <2>2 DEF Invariant, Applied
<1> QED  BY <1>1, InvariantHolds, PTL

\* The ConfigMap of manifests that a status names is there, is the server's own
\* and holds its manifests, unless it was taken over from a predecessor.
THEOREM RecordKeptHolds == RolloutSpec => []RecordKept
<1>1. Invariant => RecordKept
  BY DEF Invariant, Recorded, RecordKept, Owned
<1> QED  BY <1>1, InvariantHolds, PTL

\* A pass that finds the server ready has seen a Deployment whose pods are all
\* there, all ready, and all or none of them of the new template.
THEOREM ReadyIsCurrentHolds == RolloutSpec => []ReadyIsCurrent
<1>1. Invariant => ReadyIsCurrent
  <2> SUFFICES ASSUME Invariant, NEW d \in DeploymentStatus,
                      Classified(copy, d).ready = "True"
               PROVE  d.ready = Desired /\ d.replicas = Desired /\ d.updated \in {0, Desired}
    BY DEF ReadyIsCurrent
  <2>1. /\ d.replicas \in Nat /\ d.ready \in Nat /\ d.updated \in Nat
        /\ d.ready <= d.replicas /\ d.updated <= d.replicas
    BY Bounds DEF DeploymentStatus
  <2>2. copy \in Statuses
    BY DEF Invariant, Typed
  <2>3. ~isDeploymentRollingUpdate(d) /\ d.ready = Desired /\ d.ready > 0
    BY <2>2 DEF Classified, Statuses
  <2>4. /\ ~(d.replicas > Desired)
        /\ ~(d.updated \in 1..(Desired - 1))
    BY <2>3 DEF isDeploymentRollingUpdate
  <2> HIDE DEF Desired
  <2> QED  BY <2>1, <2>3, <2>4
<1> QED  BY <1>1, InvariantHolds, PTL

\* A Service that reaches pods of the neighbour belongs to a Deployment that
\* Kubernetes refuses, whatever selectors and labels users write and whichever
\* builder the manager was built with.
THEOREM NoCrossTrafficHolds == RolloutSpec => []NoCrossTraffic
<1>1. Invariant => NoCrossTraffic
  <2> SUFFICES ASSUME Invariant,
                      NEW d \in Of("Deployment"), NEW s \in Of("Service"),
                      NEW other \in Deployments(Live),
                      Selects(d.selector, d.podLabels)
               PROVE  ~Selects(s.selector, other.podLabels)
    BY DEF NoCrossTraffic
  <2>1. built # << >>
    BY DEF Of, ToSet
  <2>2. built = Rendered(server, simple)
    BY <2>1 DEF Invariant, Rendering
  <2>3. /\ d \in ToSet(Rendered(server, simple)) /\ d.kind = "Deployment"
        /\ s \in ToSet(Rendered(server, simple)) /\ s.kind = "Service"
    BY <2>2 DEF Of
  <2>4. other \in ToSet(RenderResources(Neighbour)) /\ other.kind = "Deployment"
    BY DEF Deployments, Live
  <2>5. server.name # Neighbour.name
    BY DEF Invariant, Typed
  <2> QED  BY <2>3, <2>4, <2>5, TrafficParted
<1> QED  BY <1>1, InvariantHolds, PTL

\* Of the specs that passed the webhooks, the reconciler refuses exactly those
\* that Unforeseen describes.
THEOREM AdmittedThenRefusedHolds == RolloutSpec => []AdmittedThenRefused
<1>1. Invariant => AdmittedThenRefused
  <2> SUFFICES ASSUME Invariant, hooks, stage \in {"valid", "invalid"}
               PROVE  stage = "invalid" <=> Unforeseen(server.spec)
    BY DEF AdmittedThenRefused
  <2>1. server.spec \in MCPServerSpec
    BY DEF Invariant, Typed, Servers
  <2>2. Admitted(server.spec)
    BY DEF Invariant, Judged
  <2>3. stage = "invalid" <=> ~ValidateMCPServer(server.spec)
    BY DEF Invariant, Judged
  <2> QED  BY <2>1, <2>2, <2>3, RefusalsUnforeseen
<1> QED  BY <1>1, InvariantHolds, PTL

\* What the default builder renders passes traffic on, from the VirtualService
\* to the Service and from the Service to the container, in all but the cases
\* that LeadsNowhere and RouteServed name, and in none of those.
THEOREM TrafficArrivesHolds == RolloutSpec => []TrafficArrives
<1>1. Invariant => TrafficArrives
  <2> SUFFICES ASSUME Invariant, stage = "rendered", ~simple
               PROVE  TrafficArrives
    BY DEF TrafficArrives, PortsReached, RouteServed
  <2>1. server.spec \in MCPServerSpec /\ ValidateMCPServer(server.spec)
    BY DEF Invariant, Typed, Servers, Judged
  <2>2. built = RenderResources(server)
    BY DEF Invariant, Rendering, Rendered
  <2> QED  BY <2>1, <2>2, SoundSpec, PortsReachedBy, RouteServedBy DEF TrafficArrives
<1> QED  BY <1>1, InvariantHolds, PTL

\* A plain server has the same objects of either builder, but for its probe and
\* its pods' security context.
THEOREM BuildersAgreeHolds == RolloutSpec => []BuildersAgree
<1>1. Invariant => BuildersAgree
  <2> SUFFICES ASSUME Invariant, stage = "rendered", Plain(server)
               PROVE  [i \in DOMAIN RenderResources(server) |->
                         Reduced(RenderResources(server)[i])] =
                        [i \in DOMAIN SimpleResources(server) |->
                           Reduced(SimpleResources(server)[i])]
    BY DEF BuildersAgree
  <2>1. server.spec.runtime # Nil
    BY DEF Invariant, Judged, ValidateMCPServer, validateRuntimeSpec
  <2> QED  BY <2>1, PlainRendered
<1> QED  BY <1>1, InvariantHolds, PTL

\* If no more than one call fails by itself and there is more than one attempt,
\* an apply that fails had applied something already, or meets a kind the API
\* server does not take or an object of somebody else's.
THEOREM RetrySurvivesFirstFaultHolds ==
  MaxFaults <= 1 /\ Attempts > 1 => (RolloutSpec => RetrySurvivesFirstFault)
<1> SUFFICES ASSUME MaxFaults <= 1, Attempts > 1
             PROVE  RolloutSpec => RetrySurvivesFirstFault
  OBVIOUS
<1> DEFINE I == Invariant /\ Unobstructed /\ Tried
           Excused ==
             \/ patched > 0
             \/ \E i \in DOMAIN built :
                  \/ built[i].kind \notin takes
                  \/ Key(built[i]) \in DOMAIN live /\ live[Key(built[i])] # Uid
           Survives == stage = "apply" /\ stage' = "done" => Excused
<1>1. RolloutInit => I
  <2>1. RolloutInit => stage = "written"
    BY Zenon DEF RolloutInit, Init
  <2> QED  BY <2>1, InvariantInit, UnobstructedInit DEF Tried
<1>2. I /\ [RolloutNext]_all => I'
  BY InvariantStep, UnobstructedStep, TriedStep DEF Invariant
<1>3. I /\ [RolloutNext]_all => [Survives]_all
  <2> SUFFICES ASSUME I, RolloutNext, stage = "apply", stage' = "done"
               PROVE  Excused
    OBVIOUS
  <2> USE DEF Invariant
  <2>1. 1 \in DOMAIN built /\ patched \in Nat
    BY FirstBuilt, LoopBounds DEF Rendering
  <2>2. CASE ApplyRefused
    <3>1. patched = 0 => at = 1 /\ ~(at <= patched)
      BY DEF Tried
    <3> QED  BY <2>1, <2>2, <3>1 DEF ApplyRefused, Refuses
  <2>3. CASE ApplyFault
    <3>1. faults \in Nat /\ faults < MaxFaults /\ AttemptFails
      BY <2>3, Bounds DEF ApplyFault, Typed
    <3>2. faults = 0
      BY <3>1, Bounds
    <3>3. tries > 1
      BY <3>1, Bounds DEF AttemptFails, Rendering
    <3> QED  BY <2>1, <3>2, <3>3 DEF Tried
  <2>4. ~(Examine \/ Record \/ ApplyObject \/ Observe \/ RecordFails \/ HandleDeletion
            \/ Reenter \/ Restart \/ CreateAgain)
    <3>1. ~Examine
      BY NextTyped DEF Examine
    <3> QED  BY <3>1 DEF Record, ApplyObject, Advance, Observe, RecordFails, HandleDeletion,
                         Reenter, Restart, CreateAgain
  <2>5. ~(DeleteServer \/ NeighbourLeaves \/ Collect)
    BY DEF DeleteServer, NeighbourLeaves, Collect, vars
  <2> QED  BY <2>2, <2>3, <2>4, <2>5 DEF RolloutNext, Manager
<1>4. [][Survives]_all => RetrySurvivesFirstFault
  BY DEF RetrySurvivesFirstFault
<1> QED  BY <1>1, <1>2, <1>3, <1>4, PTL DEF RolloutSpec
=============================================================================
