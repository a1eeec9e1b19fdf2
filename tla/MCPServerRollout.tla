-------------------------- MODULE MCPServerRollout --------------------------
(***************************************************************************)
(* What the MCPServer reconciler does with what was rendered               *)
(* (controllers/mcpserver_controller.go from line 302 on): the ConfigMap   *)
(* of the manifests, server-side apply object by object with its retries,  *)
(* the reading of the Deployment, the status; and handleDeletion, with the *)
(* deployment service, the status service and the retry service it calls.  *)
(* Around it: the API server, the garbage collector, users, a neighbour,   *)
(* faults and restarts.                                                    *)
(*                                                                         *)
(* The front half of the reconcile is MCPServerController's subject, which *)
(* lets next to nothing through; here it lets a server through whenever    *)
(* the checks of MCPServerResources do, in every pass.  What the API       *)
(* server thinks of the kinds is its own affair ("takes").  As the code    *)
(* stands a real one takes none: the label mcp.allbeone.io/hash is one     *)
(* character longer than a label may be, and typed objects are sent        *)
(* without their kind.                                                     *)
(*                                                                         *)
(* The definitions called "Mutant of" are plausible mistakes; they are no  *)
(* part of the model.                                                      *)
(***************************************************************************)
EXTENDS MCPServerResources

CONSTANTS
  Followed,     \* the names of the servers that are followed beyond rendering
  Verdicts,     \* the sets of kinds an API server may take
  MaxPods,      \* bound: pods a Deployment reports
  Attempts,     \* RetryService.deploymentMaxRetries
  MaxPasses,    \* bound: passes of the reconcile over one object
  MaxFaults,    \* bound: API calls that fail by themselves
  MaxBirths     \* bound: objects of the name, one after the other

ASSUME RolloutAssumption ==
  /\ Neighbour.name \notin Followed
  /\ Attempts \in Nat \ {0}
  /\ {MaxPods, MaxPasses, MaxFaults} \subseteq Nat /\ MaxBirths \in Nat \ {0}

VARIABLES
  takes,       \* the kinds the API server takes
  late,        \* the webhooks were installed when the object was there already
  object,      \* the MCPServer: "there", "deleting" or "gone"
  birth,       \* which object of the name it is
  neighbour,   \* the neighbour is there
  live,        \* the objects of the namespace: the controller of each key
  text,        \* whose manifests the ConfigMap of manifests holds (a birth, or 0)
  inherited,   \* history: this object found a ConfigMap of manifests of another
  at,          \* the object that is applied next
  tries,       \* the attempts to apply that have begun
  patched,     \* the objects that carry what the API server answered
  copy,        \* the status a pass works on
  stored,      \* the status as it is stored
  passes, faults

tail == <<takes, late, object, birth, neighbour, live, text, inherited, at, tries,
          patched, copy, stored, passes, faults>>
all  == <<vars, tail>>

(***************************************************************************)
(* Objects and their keys.  The name of the ConfigMap of manifests is cut  *)
(* at 63 characters; names that long are not considered.                   *)
(***************************************************************************)
Key(o)    == <<o.kind, o.name>>
Uid       == <<server.name, birth>>
Nobody    == <<"", 0>>
RecordKey == <<"ConfigMap", Suffixed(server, "rendered")>>

\* What DeleteResources asks for, by the name of the server.  The Istio kinds
\* are left out when their CRDs are missing.
NamedAfter(name) ==
  {<<kind, <<name, "">>>> :
     kind \in {"Deployment", "Service", "HorizontalPodAutoscaler", "NetworkPolicy",
               "VerticalPodAutoscaler"}
              \cup IF {"VirtualService", "DestinationRule"} \subseteq takes
                     THEN {"VirtualService", "DestinationRule"} ELSE {}}

Without(keys) == [k \in DOMAIN live \ keys |-> live[k]]

With(key, owner) == [k \in DOMAIN live \cup {key} |-> IF k = key THEN owner ELSE live[k]]

(***************************************************************************)
(* The status.  SetCondition adds a condition or changes it, and keeps the *)
(* time of the transition while the status stays.  Of the counts "serving" *)
(* is left: readyReplicas > 0.                                             *)
(***************************************************************************)
NoStatus ==
  [phase |-> "", rendered |-> "Unset", applied |-> "Unset", ready |-> "Unset",
   progressing |-> "Unset", gateway |-> "Unset", serving |-> FALSE]

Truth(b) == IF b THEN "True" ELSE "False"

\* UpdateMCPServerStatus: refused when the object has changed since it was read.
Save(status) ==
  /\ copy' = status
  /\ stored' = IF object = "there" THEN status ELSE stored

\* What the Deployment controller may report.
DeploymentStatus ==
  {d \in [replicas : 0..MaxPods, ready : 0..MaxPods, updated : 0..MaxPods,
          observed : BOOLEAN, creating : BOOLEAN] :
      d.ready <= d.replicas /\ d.updated <= d.replicas}

Desired == InitialReplicas(server.spec)

\* Mutant of isDeploymentRollingUpdate: pods that are replaced one by one do
\* not count.
SurgeOnly(d) == d.creating \/ d.replicas > Desired \/ ~d.observed

isDeploymentRollingUpdate(d) ==
  \/ d.creating
  \/ d.replicas > Desired
  \/ d.updated \in 1..(Desired - 1)
  \/ d.replicas > d.ready /\ d.updated > 0
  \/ ~d.observed

Classified(status, d) ==
  LET counted == [status EXCEPT !.serving = d.ready > 0]
      says(phase, ready, progressing) ==
        [counted EXCEPT !.phase = phase, !.ready = ready, !.progressing = progressing]
  IN  CASE isDeploymentRollingUpdate(d) -> says("Running", "False", "True")
        [] ~isDeploymentRollingUpdate(d) /\ d.ready = Desired /\ d.ready > 0 ->
             says("Running", "True", "False")
        [] ~isDeploymentRollingUpdate(d) /\ d.ready # Desired /\ d.ready > 0
             /\ d.ready < Desired -> says("Running", "False", "True")
        [] OTHER -> says("Pending", "False", "True")

\* CheckDeploymentTimeout; the clock may or may not have come that far.
MayTimeOut(status) ==
  /\ status.phase = "Pending" /\ status.progressing = "True"
  /\ stored.progressing = "True"

MarkDeploymentAsTimedOut(status) ==
  [status EXCEPT !.phase = "Failed", !.ready = "False", !.progressing = "False"]

WithGateway(status) ==
  [status EXCEPT !.gateway = Truth(GatewayOn(server.spec) => status.serving)]

RolloutInit ==
  /\ Init /\ (server.name \in Followed => ~simple)
  /\ takes \in IF server.name \in Followed THEN Verdicts ELSE {{}}
  /\ late = FALSE /\ object = "there" /\ birth = 1 /\ neighbour = TRUE
  /\ live = [k \in {Key(o) : o \in Live} |-> <<Neighbour.name, 1>>]
  /\ text = 0 /\ inherited = FALSE
  /\ at = 1 /\ tries = 0 /\ patched = 0
  /\ copy = NoStatus /\ stored = NoStatus
  /\ passes = 1 /\ faults = 0

(***************************************************************************)
(* The reconcile.                                                          *)
(***************************************************************************)
\* Validation and rendering; a refusal is stored.  A deletion that a pass has
\* not seen when it began does not stop it.
Examine ==
  /\ stage = "stored" => object = "there"
  /\ Next
  /\ IF stage' \in {"invalid", "over"}
       THEN Save([stored EXCEPT !.ready = "False"])
       ELSE copy' = stored /\ UNCHANGED stored
  /\ UNCHANGED <<takes, late, object, birth, neighbour, live, text, inherited, at,
                 tries, patched, passes, faults>>

\* Mutant of Record: the owner is set on what was read, and a copy that has one
\* keeps it: none is set on a new ConfigMap.
OrphanRecord ==
  /\ stage = "rendered" /\ server.name \in Followed
  /\ live' = With(RecordKey, Nobody)
  /\ text' = birth
  /\ inherited' = (inherited \/ (RecordKey \in DOMAIN live /\ live[RecordKey] # Uid))
  /\ copy' = [copy EXCEPT !.rendered = "True", !.phase = "Pending", !.progressing = "True"]
  /\ stage' = "apply" /\ at' = 1 /\ tries' = 1 /\ patched' = 0
  /\ UNCHANGED <<hooks, server, simple, built, takes, late, object, birth, neighbour,
                 stored, passes, faults>>

\* CreateOrUpdate of the ConfigMap of manifests.  The owner reference is set
\* before the existing object is read over it: one that is there keeps its owner.
Record ==
  /\ stage = "rendered" /\ server.name \in Followed
  /\ live' = IF RecordKey \in DOMAIN live THEN live ELSE With(RecordKey, Uid)
  /\ text' = birth
  /\ inherited' = (inherited \/ (RecordKey \in DOMAIN live /\ live[RecordKey] # Uid))
  /\ copy' = [copy EXCEPT !.rendered = "True", !.phase = "Pending", !.progressing = "True"]
  /\ stage' = "apply" /\ at' = 1 /\ tries' = 1 /\ patched' = 0
  /\ UNCHANGED <<hooks, server, simple, built, takes, late, object, birth, neighbour,
                 stored, passes, faults>>

\* An outage that outlasts the attempts.
RecordFails ==
  /\ stage = "rendered" /\ server.name \in Followed
  /\ faults < MaxFaults /\ faults' = faults + 1
  /\ Save([copy EXCEPT !.rendered = "False"])
  /\ stage' = "done"
  /\ UNCHANGED <<hooks, server, simple, built, takes, late, object, birth, neighbour,
                 live, text, inherited, at, tries, patched, passes>>

\* What the API server refuses: a kind it does not take, a second controller,
\* and an object that still carries its answer (managedFields must be nil).
Refuses(i) ==
  LET key == Key(built[i])
  IN  \/ built[i].kind \notin takes
      \/ i <= patched
      \/ key \in DOMAIN live /\ live[key] # Uid

\* The object has been applied; the next one, or the end of the loop.
Advance ==
  IF at = Len(built)
    THEN stage' = "applied" /\ UNCHANGED at
    ELSE at' = at + 1 /\ UNCHANGED stage

\* Mutant of ApplyObject: what fails is logged, and the loop goes on.
ApplyAnyObject ==
  /\ stage = "apply"
  /\ live' = IF Refuses(at) THEN live ELSE With(Key(built[at]), Uid)
  /\ patched' = at
  /\ Advance
  /\ UNCHANGED <<hooks, server, simple, built, takes, late, object, birth, neighbour,
                 text, inherited, tries, copy, stored, passes, faults>>

\* applyRenderedResources, one object.
ApplyObject ==
  /\ stage = "apply" /\ ~Refuses(at)
  /\ live' = With(Key(built[at]), Uid)
  /\ patched' = at
  /\ Advance
  /\ UNCHANGED <<hooks, server, simple, built, takes, late, object, birth, neighbour,
                 text, inherited, tries, copy, stored, passes, faults>>

\* Mutant of AttemptFails: one attempt must do.
NoRetry ==
  /\ stage' = "done" /\ UNCHANGED <<at, tries>>
  /\ Save([copy EXCEPT !.phase = "Failed", !.applied = "False"])

\* RetryDeploymentOperation starts over, or gives up, which is stored.
AttemptFails ==
  IF tries < Attempts
    THEN tries' = tries + 1 /\ at' = 1 /\ UNCHANGED <<stage, copy, stored>>
    ELSE /\ stage' = "done" /\ UNCHANGED <<at, tries>>
         /\ Save([copy EXCEPT !.phase = "Failed", !.applied = "False"])

ApplyRefused ==
  /\ stage = "apply" /\ Refuses(at)
  /\ AttemptFails
  /\ UNCHANGED <<hooks, server, simple, built, takes, late, object, birth, neighbour,
                 live, text, inherited, patched, passes, faults>>

\* The call fails, or it was done and the answer is lost.
ApplyFault ==
  /\ stage = "apply" /\ ~Refuses(at)
  /\ faults < MaxFaults /\ faults' = faults + 1
  /\ live' \in {live, With(Key(built[at]), Uid)}
  /\ AttemptFails
  /\ UNCHANGED <<hooks, server, simple, built, takes, late, object, birth, neighbour,
                 text, inherited, patched, passes>>

\* The rest of the pass.  The informer may not have the Deployment yet; then
\* the counts are those of the pass before.
Observe ==
  /\ stage = "applied"
  /\ \E d \in DeploymentStatus \cup {Nil} :
       LET applied == [copy EXCEPT !.applied = "True"]
           read == IF d = Nil THEN [applied EXCEPT !.ready = "False"]
                   ELSE Classified(applied, d)
       IN  \/ Save(WithGateway(read))
           \/ MayTimeOut(read) /\ Save(WithGateway(MarkDeploymentAsTimedOut(read)))
  /\ stage' = "done"
  /\ UNCHANGED <<hooks, server, simple, built, takes, late, object, birth, neighbour,
                 live, text, inherited, at, tries, patched, passes, faults>>

\* The update that removes the finalizer passes the webhooks, too.
PassesHooks == hooks \/ late => Admitted(setDefaults(server.name, server.spec))

\* Mutant of HandleDeletion: missing Istio CRDs are an error.
DeletionNeedsIstio ==
  /\ object = "deleting" /\ stage \in {"stored", "invalid", "over", "done"}
  /\ {"VirtualService", "DestinationRule"} \subseteq takes
  /\ live' = Without(NamedAfter(server.name)) /\ UNCHANGED faults
  /\ IF PassesHooks THEN object' = "gone" /\ stage' = "gone"
     ELSE UNCHANGED <<object, stage>>
  /\ UNCHANGED <<hooks, server, simple, built, takes, late, birth, neighbour, text,
                 inherited, at, tries, patched, copy, stored, passes>>

\* handleDeletion.  A delete that fails is logged, and the finalizer goes.  The
\* phase Terminating is set on the copy only: no status is stored.
HandleDeletion ==
  /\ object = "deleting" /\ stage \in {"stored", "invalid", "over", "done"}
  /\ \/ live' = Without(NamedAfter(server.name)) /\ UNCHANGED faults
     \/ /\ faults < MaxFaults /\ faults' = faults + 1
        /\ \E k \in NamedAfter(server.name) \cap DOMAIN live :
             live' = Without(NamedAfter(server.name) \ {k})
  /\ IF PassesHooks THEN object' = "gone" /\ stage' = "gone"
     ELSE UNCHANGED <<object, stage>>
  /\ UNCHANGED <<hooks, server, simple, built, takes, late, birth, neighbour, text,
                 inherited, at, tries, patched, copy, stored, passes>>

Manager ==
  Examine \/ Record \/ ApplyObject \/ ApplyRefused \/ Observe \/ HandleDeletion

(***************************************************************************)
(* The surroundings.                                                       *)
(***************************************************************************)
\* An event brings the server back.
Reenter ==
  /\ stage \in {"invalid", "over", "done"} /\ server.name \in Followed
  /\ object = "there" /\ passes < MaxPasses
  /\ stage' = "stored" /\ passes' = passes + 1
  /\ UNCHANGED <<hooks, server, simple, built, takes, late, object, birth, neighbour,
                 live, text, inherited, at, tries, patched, copy, stored, faults>>

\* The manager stops in the middle of a pass and comes back, perhaps with the
\* webhooks it had not installed before.
Restart ==
  /\ stage \in {"stored", "valid", "rendered", "apply", "applied", "done"}
  /\ server.name \in Followed /\ passes < MaxPasses
  /\ late' \in {late, TRUE}
  /\ stage' = "stored" /\ passes' = passes + 1
  /\ UNCHANGED <<hooks, server, simple, built, takes, object, birth, neighbour, live,
                 text, inherited, at, tries, patched, copy, stored, faults>>

DeleteServer ==
  /\ object = "there" /\ server.name \in Followed
  /\ stage \notin {"written", "mutated", "denied"}
  /\ object' = "deleting"
  /\ UNCHANGED <<vars, takes, late, birth, neighbour, live, text, inherited, at,
                 tries, patched, copy, stored, passes, faults>>

CreateAgain ==
  /\ object = "gone" /\ birth < MaxBirths
  /\ object' = "there" /\ birth' = birth + 1
  /\ stage' = "written" /\ built' = << >>
  /\ copy' = NoStatus /\ stored' = NoStatus /\ inherited' = FALSE /\ passes' = 1
  /\ hooks' = (hooks \/ late)
  /\ UNCHANGED <<server, simple, takes, late, neighbour, live, text, at, tries,
                 patched, faults>>

\* The neighbour goes through its own handleDeletion (where that matters to the
\* server: they share the policy of a tenant).
NeighbourLeaves ==
  /\ neighbour /\ server.name \in Followed /\ server.spec.tenancy = Neighbour.spec.tenancy
  /\ neighbour' = FALSE
  /\ live' = Without(NamedAfter(Neighbour.name))
  /\ UNCHANGED <<vars, takes, late, object, birth, text, inherited, at, tries,
                 patched, copy, stored, passes, faults>>

Alive(owner) ==
  \/ owner = Uid /\ object # "gone"
  \/ owner = <<Neighbour.name, 1>> /\ neighbour
  \/ owner = Nobody

\* The garbage collector removes what lost its owner, the ConfigMap of manifests
\* earlier or later than the rest.
Collect ==
  \E lot \in {{RecordKey}, DOMAIN live \ {RecordKey}} :
    /\ \E k \in lot \cap DOMAIN live : ~Alive(live[k])
    /\ live' = Without({k \in lot \cap DOMAIN live : ~Alive(live[k])})
    /\ text' = IF RecordKey \in lot THEN 0 ELSE text
    /\ UNCHANGED <<vars, takes, late, object, birth, neighbour, inherited, at, tries,
                   patched, copy, stored, passes, faults>>

RolloutNext ==
  \/ Manager \/ RecordFails \/ ApplyFault \/ Reenter \/ Restart
  \/ DeleteServer \/ CreateAgain \/ NeighbourLeaves \/ Collect

\* The workers of the manager go on, and so does the garbage collector.
RolloutSpec ==
  RolloutInit /\ [][RolloutNext]_all /\ WF_all(Manager) /\ WF_all(Collect)

-----------------------------------------------------------------------------
Condition == {"Unset", "True", "False"}

Statuses ==
  [phase : {"", "Pending", "Running", "Failed"},
   rendered : Condition, applied : Condition, ready : Condition,
   progressing : Condition, gateway : Condition, serving : BOOLEAN]

\* Every variable has its type, and the loop over the objects stays within them.
RolloutTypeOK ==
  /\ TypeOK
  /\ object \in {"there", "deleting", "gone"} /\ birth \in 1..MaxBirths
  /\ text \in 0..birth
  /\ stage = "apply" =>
       at \in DOMAIN built /\ patched \in 0..Len(built) /\ tries \in 1..Attempts
  /\ {copy, stored} \subseteq Statuses
  /\ passes \in 1..(MaxPasses + 1) /\ faults \in 0..MaxFaults

\* Applied=True is stored only when every rendered object is there and belongs
\* to this very MCPServer, and stays true: whatever the neighbour, a predecessor
\* of the same name or the garbage collector do, and however often the apply is
\* retried or begun anew.
AppliedMeansLive ==
  stored.applied = "True" /\ object = "there" /\ stage \in {"done", "apply", "applied"} =>
    \A o \in ToSet(built) : Key(o) \in DOMAIN live /\ live[Key(o)] = Uid

\* The ConfigMap status.resolvedConfigMap names holds this server's manifests,
\* but for one case: the server was created anew before the garbage collector
\* removed its predecessor's ConfigMap.  Then it is written to, keeps its owner
\* and goes with it.
RecordKept ==
  stored.rendered = "True" /\ object = "there" /\ ~inherited =>
    RecordKey \in DOMAIN live /\ live[RecordKey] = Uid /\ text = birth

\* One fault does not make the apply fail if it comes before the first object
\* was answered.  After that no attempt can succeed any more.
RetrySurvivesFirstFault ==
  [][stage = "apply" /\ stage' = "done" =>
       \/ patched > 0
       \/ \E i \in DOMAIN built :
            \/ built[i].kind \notin takes
            \/ Key(built[i]) \in DOMAIN live /\ live[Key(built[i])] # Uid]_all

\* A pass does not find the server ready while pods are being replaced, but for
\* one case: a rollout that has not replaced a single pod (the new ones cannot
\* be made) and whose progress has timed out looks complete.
ReadyIsCurrent ==
  stage = "applied" => \A d \in DeploymentStatus :
    Classified(copy, d).ready = "True" =>
      d.ready = Desired /\ d.replicas = Desired /\ d.updated \in {0, Desired}

\* A deletion completes and leaves nothing behind, although the failures of
\* single deletes are dropped, the tenant's policy and the ConfigMaps are not
\* among what is deleted, and a pass may be under way; unless webhooks were
\* installed later that refuse the spec, and with it the removal of the
\* finalizer.
DeletionLeavesNothing ==
  object = "deleting" ~>
    \/ ~PassesHooks
    \/ object # "deleting" /\ \A k \in DOMAIN live : Alive(live[k]) /\ live[k] # Nobody
=============================================================================
