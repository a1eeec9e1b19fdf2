----------------------- MODULE MCPServerController -----------------------
(***************************************************************************)
(* The MCPServer reconciler (controllers/mcpserver_controller.go) as the   *)
(* manager binary wires it: the work queue that serialises reconciles per  *)
(* key, the informer caches every read goes through, the API server with   *)
(* its optimistic concurrency, and the reconcile cut at its API calls.     *)
(*                                                                         *)
(* Only the front half of Reconcile is here: fetch, normalisation of the   *)
(* deprecated registry field, finalizer, deletion, enrichment from the     *)
(* registry cache, validation.  A reconcile that passes validation would   *)
(* enter stage "render"; MCPServerControllerProofs proves none does.       *)
(*                                                                         *)
(* Resource versions are only ever compared for equality with the current  *)
(* one, so each copy of an object carries one bit: is it current?          *)
(*                                                                         *)
(* The definitions called "Mutant of" are plausible mistakes; they are no  *)
(* part of the model.                                                      *)
(***************************************************************************)
EXTENDS Naturals

CONSTANTS
  Server,        \* the MCPServer names (one namespace)
  Registry,      \* the MCPRegistry names
  Template,      \* the contents a registry ConfigMap may hold, by digest
  UserImage,     \* an image the user wrote into spec.runtime himself
  None,          \* an empty field, a missing ConfigMap
  Bare,          \* the image of an object that has no spec.runtime at all
  NameValues,    \* what users write in spec.registry.name
  AliasValues,   \* what users write in the deprecated spec.registry.registry
  ImageValues,   \* what users write in spec.runtime
  MaxEdits,      \* bound: user operations
  MaxSyncs,      \* bound: ConfigMap writes of the registry controller
  MaxFaults,     \* bound: API calls that fail for reasons of their own
  MaxRestarts    \* bound: restarts of the manager

ASSUME ConstantsAssumption ==
  /\ None \notin Registry \cup Template \cup {UserImage}
  /\ UserImage \notin Template
  /\ Bare \notin Template \cup {UserImage, None}
  /\ NameValues \subseteq Registry
  /\ AliasValues \subseteq Registry
  /\ ImageValues \subseteq {UserImage, None, Bare}
  /\ {MaxEdits, MaxSyncs, MaxFaults, MaxRestarts} \subseteq Nat

VARIABLES
  obj,        \* the MCPServer objects, as the API server stores them
  seen,       \* the informer's copy of each object
  fresh,      \* fresh[s]: the informer has delivered the current version
  stamped,    \* stamped[s]: status.lastUpdateTime is the current second
  cm,         \* cm[r][s]: ConfigMap mcpregistry-<r>-<s> at the API server
  cmSeen,     \* the informer's copy of the ConfigMaps
  cmFresh,    \* cmFresh[r][s]: the informer has delivered the current one
  queue,      \* the keys in the work queue
  pc,         \* the stage the reconcile of each key has reached
  held,       \* the copy a running reconcile works on
  heldFresh,  \* heldFresh[s]: that copy has the current resource version
  edits, syncs, faults, restarts

apiVars  == <<obj, stamped>>
cmVars   == <<cm, cmSeen, cmFresh>>
workVars == <<pc, held, heldFresh>>
bounds   == <<edits, syncs, faults, restarts>>
vars     == <<obj, seen, fresh, stamped, cm, cmSeen, cmFresh, queue,
              pc, held, heldFresh, edits, syncs, faults, restarts>>

(***************************************************************************)
(* Objects.  "other" is a finalizer of somebody else (foreground deletion).*)
(***************************************************************************)
Stage == {"idle", "normalise", "panic", "finalizer", "delete", "enrich",
          "validate", "render"}

CondStatus == {"Unset", "False", "True"}

Object ==
  [exists   : BOOLEAN,
   name     : Registry \cup {None},
   alias    : Registry \cup {None},
   image    : Template \cup {UserImage, None, Bare},
   digest   : Template \cup {None},
   fin      : BOOLEAN,
   other    : BOOLEAN,
   deleting : BOOLEAN,
   fetched  : CondStatus,      \* condition RegistryFetched
   ready    : CondStatus]      \* condition Ready

Absent ==
  [exists |-> FALSE, name |-> None, alias |-> None, image |-> None,
   digest |-> None, fin |-> FALSE, other |-> FALSE, deleting |-> FALSE,
   fetched |-> "Unset", ready |-> "Unset"]

RegistryOf(o) == IF o.name # None THEN o.name ELSE o.alias

NeedsNormalise(o) == o.name = None /\ o.alias # None

\* validateRegistryInfo: some registry field must be set.
RegistryInfoValid(o) == o.name # None \/ o.alias # None

\* The client decodes an answer into the copy it sent: what the answer leaves
\* out (an empty field, the finalizers if there are none) keeps the copy's value.
Decoded(o, copy) ==
  LET or(x, y) == IF x = None THEN y ELSE x
      bare(x) == IF x = Bare THEN None ELSE x
      finalizers == o.fin \/ o.other
      conditions == o.fetched # "Unset" \/ o.ready # "Unset"
  IN  [o EXCEPT !.alias = or(@, copy.alias),
                !.image = IF @ = Bare THEN copy.image ELSE or(@, bare(copy.image)),
                !.digest = or(@, copy.digest),
                !.fin = IF finalizers THEN @ ELSE copy.fin,
                !.other = IF finalizers THEN @ ELSE copy.other,
                !.deleting = @ \/ copy.deleting,
                !.fetched = IF conditions THEN @ ELSE copy.fetched,
                !.ready = IF conditions THEN @ ELSE copy.ready]

\* Mutant of NextStage: a server that was enriched once is not enriched again.
NextStageEnrichOnce(o) ==
  IF o.image = Bare THEN "panic"
  ELSE IF ~o.fin THEN "finalizer"
  ELSE IF o.deleting THEN "delete"
  ELSE IF RegistryOf(o) # None /\ o.digest = None THEN "enrich"
  ELSE "validate"

\* What Reconcile does next with a normalised copy.
NextStage(o) ==
  IF o.image = Bare THEN "panic"
  ELSE IF ~o.fin THEN "finalizer"
  ELSE IF o.deleting THEN "delete"
  ELSE IF RegistryOf(o) # None THEN "enrich"
  ELSE "validate"

\* EnrichMCPServerFromCache's lookup: it reads spec.registry.name only.
CachedTemplate(s) ==
  IF held[s].name \in Registry THEN cmSeen[held[s].name][s] ELSE None

Init ==
  /\ obj = [s \in Server |-> Absent]
  /\ seen = obj
  /\ fresh = [s \in Server |-> TRUE]
  /\ stamped = [s \in Server |-> FALSE]
  /\ cm = [r \in Registry |-> [s \in Server |-> None]]
  /\ cmSeen = cm
  /\ cmFresh = [r \in Registry |-> [s \in Server |-> TRUE]]
  /\ queue = {}
  /\ pc = [s \in Server |-> "idle"]
  /\ held = obj
  /\ heldFresh = [s \in Server |-> FALSE]
  /\ edits = 0 /\ syncs = 0 /\ faults = 0 /\ restarts = 0

(***************************************************************************)
(* The ends of a reconcile.  Rate-limited requeues come back at once: how  *)
(* long the work queue delays a key is not modelled.                       *)
(***************************************************************************)
Finish(s) ==
  /\ pc' = [pc EXCEPT ![s] = "idle"]
  /\ held' = [held EXCEPT ![s] = Absent]
  /\ heldFresh' = [heldFresh EXCEPT ![s] = FALSE]

Return(s) == Finish(s) /\ UNCHANGED queue

\* Mutant of Requeue: the error is logged and nil is returned.
RequeueDropped(s) == Finish(s) /\ UNCHANGED queue

Requeue(s) == Finish(s) /\ queue' = queue \cup {s}

(***************************************************************************)
(* The API server.  A write that changes nothing gets no new version and   *)
(* produces no watch event.                                                *)
(***************************************************************************)
Store(s, o) ==
  /\ obj' = [obj EXCEPT ![s] = o]
  /\ fresh' = [fresh EXCEPT ![s] = (o = obj[s]) /\ fresh[s]]

\* A write of the reconciler; it goes on with the answer.
StoreAndHold(s, o, copy) ==
  /\ Store(s, o)
  /\ held' = [held EXCEPT ![s] = Decoded(o, copy)]
  /\ heldFresh' = [heldFresh EXCEPT ![s] = TRUE]
  /\ pc' = [pc EXCEPT ![s] = NextStage(Decoded(o, copy))]
  /\ UNCHANGED queue

\* What a PUT of a copy stores: the API server keeps the status and the
\* deletion timestamp, and removes a deleted object without finalizers.
Put(s, copy) ==
  LET o == [copy EXCEPT !.deleting = obj[s].deleting,
                        !.fetched = obj[s].fetched, !.ready = obj[s].ready]
  IN  IF o.deleting /\ ~o.fin /\ ~o.other THEN Absent ELSE o

\* UpdateMCPServerStatus: a PUT of the status, refused when the copy is stale.
SaveStatus(s, copy) ==
  LET o == [obj[s] EXCEPT !.fetched = copy.fetched, !.ready = copy.ready] IN
  IF heldFresh[s] /\ (o # obj[s] \/ ~stamped[s])
  THEN /\ obj' = [obj EXCEPT ![s] = o]
       /\ fresh' = [fresh EXCEPT ![s] = FALSE]
       /\ stamped' = [stamped EXCEPT ![s] = TRUE]
  ELSE UNCHANGED <<obj, fresh, stamped>>

(***************************************************************************)
(* The reconcile.                                                          *)
(***************************************************************************)
Begin(s) ==
  /\ s \in queue
  /\ pc[s] = "idle"
  /\ queue' = queue \ {s}
  /\ IF seen[s].exists
     THEN /\ held' = [held EXCEPT ![s] = seen[s]]
          /\ heldFresh' = [heldFresh EXCEPT ![s] = fresh[s]]
          /\ pc' = [pc EXCEPT ![s] = IF NeedsNormalise(seen[s])
                                     THEN "normalise" ELSE NextStage(seen[s])]
     ELSE UNCHANGED workVars
  /\ UNCHANGED <<apiVars, seen, fresh, cmVars, bounds>>

\* A merge patch without resource version: it lands on whatever is stored.
Normalise(s) ==
  /\ pc[s] = "normalise"
  /\ \/ /\ obj[s].exists
        /\ StoreAndHold(s, [obj[s] EXCEPT !.name = held[s].alias], held[s])
     \/ /\ ~obj[s].exists
        /\ Requeue(s)
        /\ UNCHANGED <<obj, fresh>>
  /\ UNCHANGED <<seen, stamped, cmVars, bounds>>

\* Logging dereferences spec.runtime: without one the reconcile panics, which
\* the controller runtime recovers and takes for an error.
Panic(s) ==
  /\ pc[s] = "panic"
  /\ Requeue(s)
  /\ UNCHANGED <<apiVars, seen, fresh, cmVars, bounds>>

\* A PUT with the resource version.  The API server refuses a new finalizer
\* on an object that is being deleted.
AddsFinalizer(s) ==
  /\ pc[s] = "finalizer"
  /\ heldFresh[s]
  /\ ~obj[s].deleting

Protected(o) == [o EXCEPT !.fin = TRUE]

\* Mutant of AddFinalizer: the error of the PUT is only logged.
AddFinalizerUnchecked(s) ==
  /\ pc[s] = "finalizer"
  /\ IF AddsFinalizer(s)
     THEN StoreAndHold(s, Put(s, Protected(held[s])), Protected(held[s]))
     ELSE /\ held' = [held EXCEPT ![s] = Protected(@)]
          /\ pc' = [pc EXCEPT ![s] = NextStage(Protected(held[s]))]
          /\ UNCHANGED <<obj, fresh, heldFresh, queue>>
  /\ UNCHANGED <<seen, stamped, cmVars, bounds>>

AddFinalizer(s) ==
  /\ pc[s] = "finalizer"
  /\ \/ /\ AddsFinalizer(s)
        /\ StoreAndHold(s, Put(s, Protected(held[s])), Protected(held[s]))
     \/ /\ ~AddsFinalizer(s)
        /\ Requeue(s)
        /\ UNCHANGED <<obj, fresh>>
  /\ UNCHANGED <<seen, stamped, cmVars, bounds>>

Released(o) == [o EXCEPT !.fin = FALSE]

\* Mutant of RemoveFinalizer: a patch without resource version, as Normalise.
RemoveFinalizerPatched(s) ==
  /\ pc[s] = "delete"
  /\ Store(s, Put(s, Released(obj[s])))
  /\ Return(s)
  /\ UNCHANGED <<seen, stamped, cmVars, bounds>>

\* handleDeletion: DeleteResources never fails; then a PUT with the resource
\* version and without our finalizer.
RemoveFinalizer(s) ==
  /\ pc[s] = "delete"
  /\ \/ /\ heldFresh[s]
        /\ Store(s, Put(s, Released(held[s])))
        /\ Return(s)
     \/ /\ ~heldFresh[s]
        /\ Requeue(s)
        /\ UNCHANGED <<obj, fresh>>
  /\ UNCHANGED <<seen, stamped, cmVars, bounds>>

\* Mutant of CacheMissing: a condition status the CRD's enum does not have.
CacheMissingUnknown(s) ==
  /\ pc[s] = "enrich"
  /\ CachedTemplate(s) = None
  /\ SaveStatus(s, [held[s] EXCEPT !.fetched = "Missing"])
  /\ Return(s)
  /\ UNCHANGED <<seen, cmVars, bounds>>

\* No cache entry: RegistryFetched=False is saved and the key is dropped.
CacheMissing(s) ==
  /\ pc[s] = "enrich"
  /\ CachedTemplate(s) = None
  /\ SaveStatus(s, [held[s] EXCEPT !.fetched = "False"])
  /\ Return(s)
  /\ UNCHANGED <<seen, cmVars, bounds>>

\* Mutant of Enriched: the digest, too, is filled in only where there is none.
EnrichedFillOnly(o, copy, t) ==
  [o EXCEPT !.image = IF copy.image = None THEN t ELSE o.image,
            !.digest = IF copy.digest = None THEN t ELSE o.digest]

\* What the merge patch of the enrichment makes of a stored object: the image
\* is in the patch if the copy had none, the digest if the copy's differs.
Enriched(o, copy, t) ==
  [o EXCEPT !.image = IF copy.image = None THEN t ELSE o.image,
            !.digest = IF copy.digest # t THEN t ELSE o.digest]

\* A cache entry: patch the object and ask for another reconcile, always.
Enrich(s) ==
  /\ pc[s] = "enrich"
  /\ CachedTemplate(s) # None
  /\ IF obj[s].exists
     THEN Store(s, Enriched(obj[s], held[s], CachedTemplate(s)))
     ELSE UNCHANGED <<obj, fresh>>
  /\ Requeue(s)
  /\ UNCHANGED <<seen, stamped, cmVars, bounds>>

Validate(s) ==
  /\ pc[s] = "validate"
  /\ IF RegistryInfoValid(held[s])
     THEN /\ pc' = [pc EXCEPT ![s] = "render"]
          /\ UNCHANGED <<obj, fresh, stamped, held, heldFresh, queue>>
     ELSE SaveStatus(s, [held[s] EXCEPT !.ready = "False"]) /\ Return(s)
  /\ UNCHANGED <<seen, cmVars, bounds>>

\* An API call that fails by itself: the error is returned to the work queue,
\* except that of a status update on the two paths that only log it.
ApiError(s) ==
  /\ faults < MaxFaults
  /\ faults' = faults + 1
  /\ \/ /\ \/ pc[s] \in {"normalise", "finalizer", "delete"}
           \/ pc[s] = "enrich" /\ CachedTemplate(s) # None
        /\ Requeue(s)
     \/ /\ \/ pc[s] = "validate" /\ ~RegistryInfoValid(held[s])
           \/ pc[s] = "enrich" /\ CachedTemplate(s) = None
        /\ Return(s)
  /\ UNCHANGED <<apiVars, seen, fresh, cmVars, edits, syncs, restarts>>

\* A write that was applied and whose answer was lost: an error as well.  (For
\* the enrichment and the status that is as good as an answer.)
ReplyLost(s) ==
  /\ faults < MaxFaults
  /\ faults' = faults + 1
  /\ \/ /\ pc[s] = "normalise" /\ obj[s].exists
        /\ Store(s, [obj[s] EXCEPT !.name = held[s].alias])
     \/ /\ AddsFinalizer(s)
        /\ Store(s, Put(s, Protected(held[s])))
     \/ /\ pc[s] = "delete" /\ heldFresh[s]
        /\ Store(s, Put(s, Released(held[s])))
  /\ Requeue(s)
  /\ UNCHANGED <<seen, stamped, cmVars, edits, syncs, restarts>>

Reconcile(s) ==
  Begin(s) \/ Normalise(s) \/ Panic(s) \/ AddFinalizer(s)
    \/ RemoveFinalizer(s) \/ CacheMissing(s) \/ Enrich(s) \/ Validate(s)

(***************************************************************************)
(* Watch events.                                                           *)
(***************************************************************************)
\* Mutant of Deliver: a GenerationChangedPredicate filters the events that
\* change neither the spec nor the deletion timestamp.
DeliverGeneration(s) ==
  LET spec(o) == <<o.exists, o.name, o.alias, o.image, o.deleting>> IN
  /\ ~fresh[s]
  /\ seen' = [seen EXCEPT ![s] = obj[s]]
  /\ fresh' = [fresh EXCEPT ![s] = TRUE]
  /\ queue' = IF spec(seen[s]) = spec(obj[s]) THEN queue ELSE queue \cup {s}
  /\ UNCHANGED <<apiVars, cmVars, workVars, bounds>>

Deliver(s) ==
  /\ ~fresh[s]
  /\ seen' = [seen EXCEPT ![s] = obj[s]]
  /\ fresh' = [fresh EXCEPT ![s] = TRUE]
  /\ queue' = queue \cup {s}
  /\ UNCHANGED <<apiVars, cmVars, workVars, bounds>>

\* findMCPServersForConfigMap lists the servers in the cache and enqueues
\* those that use this entry.
DeliverConfigMap(r, s) ==
  /\ ~cmFresh[r][s]
  /\ cmSeen' = [cmSeen EXCEPT ![r][s] = cm[r][s]]
  /\ cmFresh' = [cmFresh EXCEPT ![r][s] = TRUE]
  /\ queue' = IF seen[s].exists /\ RegistryOf(seen[s]) = r
              THEN queue \cup {s} ELSE queue
  /\ UNCHANGED <<apiVars, seen, fresh, cm, workVars, bounds>>

(***************************************************************************)
(* The surroundings: users, the registry controller, the garbage collector,*)
(* the clock, restarts of the manager.                                     *)
(***************************************************************************)
\* Somebody else's write: every copy of s is out of date.
Outside(s, o) ==
  /\ obj' = [obj EXCEPT ![s] = o]
  /\ fresh' = [fresh EXCEPT ![s] = FALSE]
  /\ heldFresh' = [heldFresh EXCEPT ![s] = FALSE]
  /\ UNCHANGED <<seen, cmVars, queue, pc, held>>

UserWrites(s, o) ==
  /\ edits < MaxEdits
  /\ edits' = edits + 1
  /\ Outside(s, o)
  /\ UNCHANGED <<syncs, faults, restarts>>

CreateServer(s) ==
  /\ ~obj[s].exists
  /\ \E n \in NameValues \cup {None}, a \in AliasValues \cup {None},
        i \in ImageValues :
       UserWrites(s, [Absent EXCEPT !.exists = TRUE, !.name = n, !.alias = a,
                                    !.image = i])
  /\ stamped' = [stamped EXCEPT ![s] = FALSE]

EditServer(s) ==
  /\ obj[s].exists
  /\ \/ \E n \in NameValues \cup {None} :
          n # obj[s].name /\ UserWrites(s, [obj[s] EXCEPT !.name = n])
     \/ \E a \in AliasValues \cup {None} :
          a # obj[s].alias /\ UserWrites(s, [obj[s] EXCEPT !.alias = a])
     \/ \E i \in ImageValues :
          i # obj[s].image /\ UserWrites(s, [obj[s] EXCEPT !.image = i])
  /\ UNCHANGED stamped

DeleteServer(s, foreground) ==
  /\ obj[s].exists /\ ~obj[s].deleting
  /\ UserWrites(s, IF obj[s].fin \/ foreground
                   THEN [obj[s] EXCEPT !.deleting = TRUE, !.other = @ \/ foreground]
                   ELSE Absent)
  /\ UNCHANGED stamped

\* The garbage collector is done with a foreground deletion.
FinishForeground(s) ==
  /\ obj[s].deleting /\ obj[s].other
  /\ Outside(s, IF obj[s].fin THEN [obj[s] EXCEPT !.other = FALSE] ELSE Absent)
  /\ UNCHANGED <<stamped, bounds>>

\* The registry controller applies or removes a ConfigMap (None).
SyncConfigMap(r, s, t) ==
  /\ syncs < MaxSyncs
  /\ syncs' = syncs + 1
  /\ t # cm[r][s]
  /\ cm' = [cm EXCEPT ![r][s] = t]
  /\ cmFresh' = [cmFresh EXCEPT ![r][s] = FALSE]
  /\ UNCHANGED <<apiVars, seen, fresh, cmSeen, queue, workVars, edits, faults,
                 restarts>>

\* The second changes: the next status update has something to write.
Tick ==
  /\ \E s \in Server : stamped[s]
  /\ stamped' = [s \in Server |-> FALSE]
  /\ UNCHANGED <<obj, seen, fresh, cmVars, queue, workVars, bounds>>

\* A crash loses the queue and the running reconciles; the informers list
\* everything again and enqueue every object.
Restart ==
  /\ restarts < MaxRestarts
  /\ restarts' = restarts + 1
  /\ seen' = obj
  /\ fresh' = [s \in Server |-> TRUE]
  /\ cmSeen' = cm
  /\ cmFresh' = [r \in Registry |-> [s \in Server |-> TRUE]]
  /\ queue' = {s \in Server : obj[s].exists}
  /\ pc' = [s \in Server |-> "idle"]
  /\ held' = [s \in Server |-> Absent]
  /\ heldFresh' = [s \in Server |-> FALSE]
  /\ UNCHANGED <<apiVars, cm, edits, syncs, faults>>

ServerNext(s) ==
  \/ Reconcile(s)
  \/ ApiError(s)
  \/ ReplyLost(s)
  \/ Deliver(s)
  \/ CreateServer(s)
  \/ EditServer(s)
  \/ \E foreground \in BOOLEAN : DeleteServer(s, foreground)
  \/ FinishForeground(s)
  \/ \E r \in Registry : DeliverConfigMap(r, s)
  \/ \E r \in Registry, t \in Template \cup {None} : SyncConfigMap(r, s, t)

Next == (\E s \in Server : ServerNext(s)) \/ Tick \/ Restart

Spec == Init /\ [][Next]_vars

\* The manager's workers take every queued key to an end, the watches deliver,
\* and the garbage collector finishes what it was asked to do.  Users, the
\* registry controller, faults and restarts owe nothing.
Fairness ==
  \A s \in Server :
    /\ WF_vars(Reconcile(s))
    /\ WF_vars(Deliver(s))
    /\ WF_vars(FinishForeground(s))
    /\ \A r \in Registry : WF_vars(DeliverConfigMap(r, s))

FairSpec == Spec /\ Fairness

(***************************************************************************)
(* Safety.                                                                 *)
(***************************************************************************)
\* Every variable has its type.
TypeOK ==
  /\ obj \in [Server -> Object]
  /\ seen \in [Server -> Object]
  /\ held \in [Server -> Object]
  /\ fresh \in [Server -> BOOLEAN]
  /\ heldFresh \in [Server -> BOOLEAN]
  /\ stamped \in [Server -> BOOLEAN]
  /\ cm \in [Registry -> [Server -> Template \cup {None}]]
  /\ cmSeen \in [Registry -> [Server -> Template \cup {None}]]
  /\ cmFresh \in [Registry -> [Server -> BOOLEAN]]
  /\ queue \subseteq Server
  /\ pc \in [Server -> Stage]
  /\ edits \in 0 .. MaxEdits
  /\ syncs \in 0 .. MaxSyncs
  /\ faults \in 0 .. MaxFaults
  /\ restarts \in 0 .. MaxRestarts

\* A reconcile that enriches or validates an MCPServer works on one that is
\* protected by the operator's finalizer, however old the informer's copy is
\* and whatever users did since: deleting the stored object cannot bypass
\* handleDeletion.  It needs that nobody uses the deprecated field
\* (AliasValues = {}): Normalise patches an object it has not read.
GuardedWork ==
  \A s \in Server : pc[s] \in {"enrich", "validate"} => obj[s].fin

\* The operator's finalizer goes only in handleDeletion, from an object whose
\* deletion was requested and which has not changed since the reconcile read
\* it: no stale copy releases an object that was created anew.  It needs that
\* nobody uses the deprecated field, too.
FinalizerProtocol ==
  [][\A s \in Server :
       obj[s].fin /\ ~obj'[s].fin =>
         /\ obj[s].deleting
         /\ pc[s] = "delete"
         /\ heldFresh[s]]_vars

\* The stage a reconcile has reached fits the copy it works on.
Bookkept(s) ==
  /\ fresh[s] => seen[s] = obj[s]
  /\ ~obj[s].exists => ~obj[s].fin
  /\ pc[s] # "idle" => held[s].exists
  /\ pc[s] = "normalise" => NeedsNormalise(held[s])
  /\ pc[s] = "validate" => RegistryOf(held[s]) = None
  /\ pc[s] # "render"

Bookkeeping == \A s \in Server : Bookkept(s)

\* Why GuardedWork and FinalizerProtocol hold: the informer's copy may be older
\* than the object by any number of versions, but what it says of the finalizer
\* is never more than what is stored: a protected copy not being deleted means a
\* protected object, and one being deleted means that no reconcile has protected
\* a successor yet.
Guarded(s) ==
  /\ pc[s] # "normalise"
  /\ obj[s].alias = None /\ seen[s].alias = None /\ held[s].alias = None
  /\ heldFresh[s] => held[s] = obj[s]
  /\ pc[s] \in {"enrich", "validate"} => obj[s].fin
  /\ seen[s].fin /\ ~seen[s].deleting => obj[s].fin
  /\ seen[s].fin /\ seen[s].deleting => ~obj[s].fin \/ obj[s].deleting
  /\ pc[s] = "delete" => /\ held[s].deleting
                         /\ ~obj[s].fin \/ obj[s].deleting
                         /\ ~seen[s].fin \/ seen[s].deleting
  /\ pc[s] = "finalizer" => ~held[s].fin
  /\ pc[s] = "finalizer" /\ heldFresh[s] => ~seen[s].fin

GuardInvariant == \A s \in Server : Guarded(s)

\* Nothing is left to be done for s: no key, no reconcile, no watch event.
Quiet(s) ==
  /\ s \notin queue
  /\ pc[s] = "idle"
  /\ fresh[s]
  /\ \A r \in Registry : cmFresh[r][s]

\* Nothing is left to be done for the object of s as it is stored: it has the
\* finalizer, waits for no deletion, has its registry name normalised, and the
\* entry of its registry is missing or about to wake the server.  If no API call
\* failed by itself, the refusal is in its status.
Settled(s) ==
  /\ obj[s].fin
  /\ ~obj[s].deleting
  /\ ~NeedsNormalise(obj[s])
  /\ RegistryOf(obj[s]) # None =>
       \/ cm[RegistryOf(obj[s])][s] = None
       \/ ~cmFresh[RegistryOf(obj[s])][s]
  /\ faults = 0 => IF RegistryOf(obj[s]) # None THEN obj[s].fetched = "False"
                   ELSE obj[s].ready = "False"

\* Why no wake-up is lost: while a reconcile runs, its copy is the stored object
\* unless an event will bring the key back, so that what it refuses is refused
\* of the stored object; and only a settled object is left without a key.
Attended(s) ==
  /\ \A r \in Registry : cmFresh[r][s] => cmSeen[r][s] = cm[r][s]
  /\ pc[s] \notin {"idle", "normalise"} =>
       pc[s] = NextStage(held[s]) /\ ~NeedsNormalise(held[s])
  /\ fresh[s] /\ s \notin queue =>
       IF pc[s] = "idle" THEN obj[s].exists => Settled(s)
       ELSE heldFresh[s] /\ held[s] = obj[s]

WakeInvariant == \A s \in Server : Attended(s)

\* No wake-up is lost.  The reconciler drops the key of a server whose cache
\* entry is missing and relies on events to come back; when nothing is left to
\* be done, an object has the finalizer, waits for no deletion, has its
\* registry name normalised, and no cache entry waits to be taken over.
NoLostWakeup ==
  \A s \in Server : Quiet(s) /\ obj[s].exists =>
    /\ obj[s].fin
    /\ ~obj[s].deleting
    /\ ~NeedsNormalise(obj[s])
    /\ RegistryOf(obj[s]) # None => cm[RegistryOf(obj[s])][s] = None

\* The refusal to go on is on record: the status write conflicts whenever the
\* copy is stale and its error is only logged, yet when nothing is left to be
\* done the stored status says RegistryFetched=False or Ready=False (unless a
\* status write failed by itself: that error is swallowed as well).
RefusalReported ==
  \A s \in Server : Quiet(s) /\ obj[s].exists /\ faults = 0 =>
    IF RegistryOf(obj[s]) # None
    THEN obj[s].fetched = "False"
    ELSE obj[s].ready = "False"

\* No reconcile gets past validation: with a registry it returns from the
\* enrichment, without one ValidateMCPServer refuses it.
NeverRenders == \A s \in Server : pc[s] # "render"

(***************************************************************************)
(* Liveness, under FairSpec.                                               *)
(***************************************************************************)
\* A deletion completes, through conflicts, faults, lost answers and restarts,
\* unless the user takes spec.runtime away.
DeletionCompletes ==
  \A s \in Server :
    obj[s].exists /\ obj[s].deleting
      ~> ~(obj[s].exists /\ obj[s].deleting) \/ obj[s].image = Bare

\* The object of s settles on the registry r, whose entry settles on t.
Settles(s, r, t) ==
  <>[](/\ obj[s].exists /\ ~obj[s].deleting
       /\ RegistryOf(obj[s]) = r
       /\ cm[r][s] = t)

\* The object of s ends up enriched from t: image filled in, digest that of t.
EndsEnriched(s, t) ==
  <>[](obj[s].image \notin {None, Bare} /\ obj[s].digest = t)

\* A server that keeps its registry, whose cache entry stays, ends up enriched
\* from that entry, if it keeps a spec.runtime.
EnrichmentConverges ==
  \A s \in Server, r \in Registry, t \in Template :
    Settles(s, r, t) /\ <>[](obj[s].image # Bare) => EndsEnriched(s, t)

(***************************************************************************)
(* What the repository's texts say and the code does not do.               *)
(***************************************************************************)
\* registry_service.go:460 "Enrich runtime information (without overwriting
\* user-specified values)": the enrichment's patch keeps the user's image.
UserValuesKept ==
  [][\A s \in Server :
       pc[s] = "enrich" /\ obj[s].image = UserImage /\ pc'[s] # "enrich"
         => obj'[s].image = UserImage]_vars
=============================================================================
