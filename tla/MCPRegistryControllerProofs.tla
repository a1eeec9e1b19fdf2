-------------------- MODULE MCPRegistryControllerProofs --------------------
(***************************************************************************)
(* What TLAPS proves of MCPRegistryController, for every value of the      *)
(* constants.  TypeCorrect and NeverForgottenHolds hold of every           *)
(* behaviour; SyncedFitsSpecHolds and ReadyIsCachedHolds need that the     *)
(* registry is not created anew, ReadyIsCachedHolds also that no two       *)
(* directories, and no directory and the index, share a ConfigMap.         *)
(***************************************************************************)
EXTENDS MCPRegistryController, TLAPS

\* What a stage, the informer's copy and the work queue have to do with each
\* other.
Bookkeeping ==
  /\ \A o \in {reg, seen, held} : o.uid # 0 => o.source \in Source
  /\ pc # "idle" => held.uid # 0
  /\ fresh => seen = reg
  /\ pc = "cleanup" /\ ~queued /\ fresh => reg.deleting
  /\ NeverForgotten

Inv == TypeOK /\ Bookkeeping

\* Copy o is of an earlier or the present version of r, and so is what its status
\* claims.
Follows(o, r) ==
  r.uid # 0 /\ o.uid # 0 =>
    /\ o.gen <= r.gen
    /\ o.gen = r.gen => o.source = r.source
    /\ o.synced = "True" =>
         o.observed <= r.gen /\ (o.observed = r.gen => o.revision = r.source)

\* One incarnation: copies are of the object, or of nothing.
Provenance ==
  /\ creates = 0 => reg = Absent /\ seen = Absent /\ pc = "idle"
  /\ pc = "idle" => held = Absent /\ heldFresh = FALSE
  /\ reg.uid = 0 => reg = Absent /\ heldFresh = FALSE
  /\ \A o \in {reg, seen, held} : Follows(o, reg)

\* Directory d has its ConfigMap.
Cached(d) == cm[Safe[d]].owner = reg.uid /\ cm[Safe[d]].dir = d

\* What the status of copy o says of the ConfigMaps is so.
Backed(o) ==
  o.uid # 0 /\ o.phase = "Ready" /\ ~o.errors => \A d \in o.servers : Cached(d)

\* A synchronisation has cached what it has dealt with, unless it knows better.
CachedSoFar ==
  /\ \A o \in {reg, seen, held} :
       /\ o.uid \in {0, 1}
       /\ reg.uid # 0 /\ ~reg.deleting => Backed(o) /\ ~o.deleting
  /\ pc \notin {"fetch", "cache", "index", "finish"} => \A d \in Dir : found[d] = None
  /\ pc = "cleanup" => held.deleting
  /\ reg.uid # 0 /\ ~reg.deleting /\ ~errs =>
       /\ pc = "cache" => \A d \in Specs \ todo : Cached(d)
       /\ pc = "index" => \A d \in Specs : Cached(d)

-----------------------------------------------------------------------------
(***************************************************************************)
(* Facts about the operators.                                              *)
(***************************************************************************)
\* A missing object and a missing ConfigMap are of their types.
LEMMA AbsentTypes == Absent \in Object /\ NoConfigMap \in ConfigMap
BY DEF Absent, Object, Phase, NoConfigMap, ConfigMap

\* A status update keeps the identity and the spec, and brings the copy's status.
LEMMA WithStatusKeeps ==
  ASSUME NEW o \in Object, NEW copy \in Object
  PROVE  LET n == WithStatus(o, copy)
         IN  /\ n \in Object
             /\ n.uid = o.uid /\ n.gen = o.gen /\ n.source = o.source
             /\ n.deleting = o.deleting
             /\ n.phase = copy.phase /\ n.synced = copy.synced
             /\ n.observed = copy.observed /\ n.revision = copy.revision
             /\ n.servers = copy.servers /\ n.errors = copy.errors
BY DEF WithStatus, Object

\* So do the statuses a reconcile composes.
LEMMA ComposedStatuses ==
  ASSUME NEW o \in Object
  PROVE  /\ [o EXCEPT !.synced = "False"] \in Object
         /\ [o EXCEPT !.phase = "Syncing"] \in Object
         /\ [o EXCEPT !.phase = "Failed", !.synced = "False"] \in Object
BY DEF Object, Phase

LEMMA SucceededKeeps ==
  ASSUME NEW o \in Object, NEW failed \in BOOLEAN, o.source \in Source
  PROVE  LET n == Succeeded(o, failed)
         IN  /\ n \in Object
             /\ n.uid = o.uid /\ n.gen = o.gen /\ n.source = o.source
             /\ n.deleting = o.deleting
             /\ n.phase = "Ready" /\ n.synced = "True"
             /\ n.observed = o.gen /\ n.revision = o.source
             /\ n.servers = Specs /\ n.errors = failed
BY DEF Succeeded, Object, Phase, Specs

\* What users write is an object.
LEMMA WritesAreObjects ==
  ASSUME NEW o \in Object, NEW n \in Nat
  PROVE  /\ [o EXCEPT !.gen = n, !.deleting = TRUE] \in Object
         /\ [o EXCEPT !.gen = n, !.deleting = TRUE].uid = o.uid
         /\ [o EXCEPT !.gen = n, !.deleting = TRUE].source = o.source
         /\ \A src \in Source :
              /\ [o EXCEPT !.gen = n, !.source = src] \in Object
              /\ [o EXCEPT !.gen = n, !.source = src].source = src
BY DEF Object

LEMMA CreatedIsObject ==
  ASSUME creates \in Nat, NEW src \in Source
  PROVE  LET n == Created(src)
         IN  /\ n \in Object /\ n.uid = creates + 1 /\ n.gen = 1 /\ n.source = src
             /\ n.deleting = FALSE /\ n.phase = "None" /\ n.synced = "Unset"
<1>1. PICK n : n = Created(src)
  OBVIOUS
<1>2. n = [uid |-> creates + 1, gen |-> 1, source |-> src, deleting |-> FALSE,
           phase |-> "None", synced |-> "Unset", observed |-> 0,
           revision |-> None, servers |-> {}, errors |-> FALSE]
  BY <1>1 DEF Created, Absent
<1>3. creates + 1 \in Nat
  OBVIOUS
<1>4. n \in Object
  BY <1>2, <1>3 DEF Object, Phase
<1>5. /\ n.uid = creates + 1 /\ n.gen = 1 /\ n.source = src
      /\ n.deleting = FALSE /\ n.phase = "None" /\ n.synced = "Unset"
  BY <1>2
<1> QED
  BY <1>1, <1>4, <1>5

\* An attempt at the status that succeeds changes nothing but the status.
LEMMA SaveStatusKeeps ==
  ASSUME Inv, SaveStatus
  PROVE  /\ reg' \in Object /\ fresh' \in BOOLEAN /\ seen' = seen
         /\ reg'.uid = reg.uid /\ reg'.gen = reg.gen
         /\ reg'.source = reg.source /\ reg'.deleting = reg.deleting
         /\ fresh' => fresh /\ reg' = reg
<1>1. reg \in Object /\ held \in Object /\ fresh \in BOOLEAN
  BY DEF Inv, TypeOK
<1> QED
  BY <1>1, WithStatusKeeps DEF SaveStatus

\* A reconcile that ends leaves values of the right types.
LEMMA FinishedTypes ==
  ASSUME Finished
  PROVE  /\ pc' = "idle" /\ held' = Absent /\ held' \in Object
         /\ heldFresh' = FALSE /\ tries' = 0
         /\ found' \in [Dir -> Content \cup {None}] /\ todo' = {} /\ errs' = FALSE
BY AbsentTypes DEF Finished

\* An entry is a ConfigMap.
LEMMA EntryForType ==
  ASSUME Inv, NEW d \in Dir
  PROVE  EntryFor(d) \in ConfigMap
<1>1. held.uid \in Nat /\ found[d] \in Content \cup {None}
  BY DEF Inv, TypeOK, Object
<1> QED
  BY <1>1 DEF EntryFor, ConfigMap

\* What NextSync leaves to be done is a set of directories, at a known stage.
LEMMA NextSyncTypes ==
  ASSUME NEW rest \in SUBSET Dir, NEW specs \in SUBSET Dir, pc \in Stage,
         pc # "cleanup", pc # "idle", NextSync(rest, specs)
  PROVE  /\ todo' \in SUBSET Dir /\ pc' \in Stage
         /\ pc' \in {pc, "cache", "index"}
BY DEF NextSync, Stage, StatusStage

-----------------------------------------------------------------------------
(***************************************************************************)
(* Type correctness and NeverForgotten.                                    *)
(***************************************************************************)
LEMMA InitInv == ASSUME Init PROVE Inv
<1> USE ConstantsAssumption
<1>1. TypeOK
  <2>1. {reg, seen, held} \subseteq Object /\ pc \in Stage
    BY AbsentTypes DEF Init, Stage
  <2>2. /\ found \in [Dir -> Content \cup {None}] /\ todo \subseteq Dir
        /\ cm \in [Entry -> ConfigMap]
    BY AbsentTypes DEF Init
  <2>3. /\ tries \in 0 .. Attempts - 1 /\ creates \in 0 .. MaxCreates
        /\ edits \in 0 .. MaxEdits /\ pushes \in 0 .. MaxPushes
        /\ faults \in 0 .. MaxFaults /\ restarts \in 0 .. MaxRestarts
    BY DEF Init
  <2>4. {fresh, heldFresh, queued, timer, errs, secret} \subseteq BOOLEAN
    BY DEF Init
  <2> QED
    BY <2>1, <2>2, <2>3, <2>4 DEF Init, TypeOK
<1>2. Bookkeeping
  BY DEF Init, Bookkeeping, NeverForgotten, Quiet, Absent
<1> QED
  BY <1>1, <1>2 DEF Inv

\* The steps of a reconcile, one by one.
LEMMA BeginInv == ASSUME Inv, Begin PROVE Inv'
<1> USE DEF objVars, copyVars, syncVars, envVars, bounds
<1>1. seen \in Object
  BY DEF Inv, TypeOK
<1>2. /\ [seen EXCEPT !.synced = "False"] \in Object
      /\ [seen EXCEPT !.synced = "False"].uid = seen.uid
      /\ [seen EXCEPT !.synced = "False"].source = seen.source
      /\ [seen EXCEPT !.phase = "Syncing"] \in Object
      /\ [seen EXCEPT !.phase = "Syncing"].uid = seen.uid
      /\ [seen EXCEPT !.phase = "Syncing"].source = seen.source
  BY <1>1, ComposedStatuses DEF Object
<1>3. TypeOK'
  BY <1>1, <1>2 DEF Inv, TypeOK, Begin, Stage, StatusStage
<1>4. CASE seen.uid = 0
  BY <1>3, <1>4 DEF Inv, Bookkeeping, Begin, NeverForgotten, Quiet
<1>5. CASE seen.uid # 0
  BY <1>2, <1>3, <1>5 DEF Inv, Bookkeeping, Begin, NeverForgotten, Quiet
<1> QED
  BY <1>4, <1>5

LEMMA CleanupInv == ASSUME Inv, Cleanup PROVE Inv'
<1> USE DEF objVars, envVars, bounds
<1>1. PICK gone \in SUBSET {e \in Entry : cm[e].exists} :
        /\ cm' = [e \in Entry |-> IF e \in gone THEN NoConfigMap ELSE cm[e]]
        /\ Finished
        /\ queued' = (queued \/ gone # {})
  BY DEF Cleanup
<1>2. cm' \in [Entry -> ConfigMap]
  BY <1>1, AbsentTypes DEF Inv, TypeOK
<1>3. TypeOK'
  BY <1>1, <1>2, FinishedTypes, ConstantsAssumption
     DEF Inv, TypeOK, Cleanup, Stage, StatusStage
<1>4. Bookkeeping'
  BY <1>1, FinishedTypes
     DEF Inv, TypeOK, Bookkeeping, Cleanup, NeverForgotten, Quiet, Absent
<1> QED
  BY <1>3, <1>4 DEF Inv

LEMMA RetryStatusInv == ASSUME Inv, RetryStatus PROVE Inv'
<1> USE DEF objVars, syncVars, envVars, bounds
<1>1. seen \in Object /\ held \in Object
  BY DEF Inv, TypeOK
<1>2. held' \in Object /\ held'.uid # 0 /\ held'.source \in Source
  BY <1>1, WithStatusKeeps DEF Inv, Bookkeeping, RetryStatus, StatusStage
<1>3. tries' \in 0 .. Attempts - 1
  BY ConstantsAssumption DEF Inv, TypeOK, RetryStatus
<1>4. TypeOK'
  BY <1>2, <1>3 DEF Inv, TypeOK, RetryStatus
<1>5. Bookkeeping'
  BY <1>2 DEF Inv, Bookkeeping, RetryStatus, NeverForgotten, Quiet, StatusStage
<1> QED
  BY <1>4, <1>5 DEF Inv

\* The stages that end in a status update: the update, and how it ends.
LEMMA SavedLaterInv ==
  ASSUME Inv, SaveStatus, Later, UNCHANGED <<cm, repo, secret, creates, edits, pushes, restarts>>,
         faults' \in 0 .. MaxFaults
  PROVE  Inv'
<1>1. TypeOK'
  BY SaveStatusKeeps, FinishedTypes, ConstantsAssumption
     DEF Inv, TypeOK, Later, Stage, StatusStage
<1>2. Bookkeeping'
  BY SaveStatusKeeps, FinishedTypes
     DEF Inv, Bookkeeping, Later, NeverForgotten, Quiet, Absent
<1> QED
  BY <1>1, <1>2 DEF Inv

LEMMA SavedAgainInv ==
  ASSUME Inv, SaveStatus, Again, UNCHANGED <<cm, repo, secret, creates, edits, pushes, restarts>>,
         faults' \in 0 .. MaxFaults
  PROVE  Inv'
<1>1. TypeOK'
  BY SaveStatusKeeps, FinishedTypes, ConstantsAssumption
     DEF Inv, TypeOK, Again, Stage, StatusStage
<1>2. Bookkeeping'
  BY SaveStatusKeeps, FinishedTypes
     DEF Inv, Bookkeeping, Again, NeverForgotten, Quiet, Absent
<1> QED
  BY <1>1, <1>2 DEF Inv

LEMMA GaveUpInv ==
  ASSUME Inv, Again \/ Later, faults' \in 0 .. MaxFaults,
         UNCHANGED <<objVars, cm, repo, secret, creates, edits, pushes, restarts>>
  PROVE  Inv'
<1> USE DEF objVars
<1>1. Finished /\ queued' \in BOOLEAN /\ timer' \in BOOLEAN /\ (queued' \/ timer')
  BY DEF Again, Later, Inv, TypeOK
<1>2. TypeOK'
  BY <1>1, FinishedTypes, ConstantsAssumption DEF Inv, TypeOK, Stage
<1>3. Bookkeeping'
  BY <1>1, FinishedTypes DEF Inv, Bookkeeping, NeverForgotten, Quiet, Absent
<1> QED
  BY <1>2, <1>3 DEF Inv

LEMMA AnnounceInv == ASSUME Inv, Announce PROVE Inv'
<1> USE DEF envVars, bounds, syncVars
<1>1. CASE SaveStatus /\ pc' = "auth"
  <2>1. TypeOK'
    BY <1>1, SaveStatusKeeps, ConstantsAssumption
       DEF Inv, TypeOK, Announce, Stage, StatusStage, Finished, Again
  <2>2. Bookkeeping'
    BY <1>1, SaveStatusKeeps
       DEF Inv, Bookkeeping, Announce, NeverForgotten, Quiet, Finished, Again
  <2> QED
    BY <2>1, <2>2 DEF Inv
<1>2. CASE GivesUp /\ Again /\ UNCHANGED objVars
  BY <1>2, GaveUpInv DEF Announce, Inv, TypeOK
<1> QED
  BY <1>1, <1>2 DEF Announce

LEMMA ReportInv == ASSUME Inv, Report PROVE Inv'
<1> USE DEF envVars, bounds
<1>1. CASE SaveStatus
  BY <1>1, SavedLaterInv DEF Report, Inv, TypeOK
<1>2. CASE UNCHANGED objVars
  BY <1>2, GaveUpInv DEF Report, Inv, TypeOK
<1> QED
  BY <1>1, <1>2 DEF Report

LEMMA FinishInv == ASSUME Inv, Finish PROVE Inv'
<1> USE DEF envVars, bounds
<1>1. CASE SaveStatus /\ Later
  BY <1>1, SavedLaterInv DEF Finish, Inv, TypeOK
<1>2. CASE Again /\ UNCHANGED objVars
  BY <1>2, GaveUpInv DEF Finish, Inv, TypeOK
<1> QED
  BY <1>1, <1>2 DEF Finish

\* The stages in between.
LEMMA AuthenticateInv == ASSUME Inv, Authenticate PROVE Inv'
<1> USE DEF objVars, syncVars, envVars, bounds
<1>1. held \in Object
  BY DEF Inv, TypeOK
<1>2. /\ held' \in Object /\ held'.uid = held.uid /\ held'.source = held.source
      /\ pc' \in {"report", "list"}
  BY <1>1, ComposedStatuses DEF Authenticate, Object
<1>3. TypeOK'
  BY <1>2 DEF Inv, TypeOK, Authenticate, Stage, StatusStage
<1>4. Bookkeeping'
  BY <1>2 DEF Inv, Bookkeeping, Authenticate, NeverForgotten, Quiet
<1> QED
  BY <1>3, <1>4 DEF Inv

LEMMA SyncFailsInv ==
  ASSUME Inv, SyncFails, pc = "list", faults' \in 0 .. MaxFaults,
         UNCHANGED <<repo, secret, creates, edits, pushes, restarts>>
  PROVE  Inv'
<1> USE DEF objVars, syncVars
<1>1. held \in Object
  BY DEF Inv, TypeOK
<1>2. held' \in Object /\ held'.uid = held.uid /\ held'.source = held.source
  BY <1>1, ComposedStatuses DEF SyncFails, Object
<1>3. TypeOK'
  BY <1>2 DEF Inv, TypeOK, SyncFails, Stage, StatusStage
<1>4. Bookkeeping'
  BY <1>2 DEF Inv, Bookkeeping, SyncFails, NeverForgotten, Quiet
<1> QED
  BY <1>3, <1>4 DEF Inv

LEMMA ListServersInv == ASSUME Inv, ListServers PROVE Inv'
<1> USE DEF objVars, copyVars, envVars, bounds
<1>1. CASE SyncFails
  BY <1>1, SyncFailsInv DEF ListServers, Inv, TypeOK
<1>2. CASE ~SyncFails
  <2>1. TypeOK'
    BY <1>2 DEF Inv, TypeOK, ListServers, Stage, StatusStage
  <2>2. Bookkeeping'
    BY <1>2 DEF Inv, Bookkeeping, ListServers, NeverForgotten, Quiet
  <2> QED
    BY <2>1, <2>2 DEF Inv
<1> QED
  BY <1>1, <1>2

LEMMA FetchSpecInv == ASSUME Inv, NEW d \in Dir, FetchSpec(d) PROVE Inv'
<1> USE DEF objVars, copyVars, envVars, bounds
<1>1. held.source \in Source
  BY DEF Inv, Bookkeeping, FetchSpec
<1>2. repo[held.source][d] \in Content \cup {None}
  BY <1>1 DEF Inv, TypeOK
<1>3. found' \in [Dir -> Content \cup {None}]
  BY <1>2 DEF Inv, TypeOK, FetchSpec
<1>4. todo' \in SUBSET Dir /\ pc' \in Stage /\ pc' \in {"fetch", "cache", "index"}
  <2>1. todo \ {d} \in SUBSET Dir /\ {x \in Dir : found'[x] # None} \in SUBSET Dir
    BY DEF Inv, TypeOK
  <2>2. NextSync(todo \ {d}, {x \in Dir : found'[x] # None}) /\ pc = "fetch" /\ pc \in Stage
    BY DEF FetchSpec, Inv, TypeOK
  <2> QED
    BY <2>1, <2>2, NextSyncTypes
<1>5. TypeOK'
  BY <1>3, <1>4 DEF Inv, TypeOK, FetchSpec
<1>6. Bookkeeping'
  BY <1>4 DEF Inv, Bookkeeping, FetchSpec, NeverForgotten, Quiet
<1> QED
  BY <1>5, <1>6 DEF Inv

LEMMA ApplyTypes ==
  ASSUME Inv, NEW e \in Entry, NEW m \in ConfigMap, Apply(e, m)
  PROVE  cm' \in [Entry -> ConfigMap] /\ queued' \in BOOLEAN /\ (queued => queued')
BY DEF Apply, Inv, TypeOK

LEMMA CacheServerInv == ASSUME Inv, NEW d \in Dir, CacheServer(d) PROVE Inv'
<1> USE DEF objVars, copyVars, envVars, bounds
<1>1. /\ cm' \in [Entry -> ConfigMap] /\ queued' \in BOOLEAN /\ (queued => queued')
  BY ApplyTypes, EntryForType, ConstantsAssumption DEF CacheServer
<1>2. todo' \in SUBSET Dir /\ pc' \in Stage /\ pc' \in {"cache", "index"}
  BY NextSyncTypes DEF CacheServer, Inv, TypeOK
<1>3. TypeOK'
  BY <1>1, <1>2 DEF Inv, TypeOK, CacheServer
<1>4. Bookkeeping'
  BY <1>1, <1>2 DEF Inv, Bookkeeping, CacheServer, NeverForgotten, Quiet
<1> QED
  BY <1>3, <1>4 DEF Inv

LEMMA CacheIndexInv == ASSUME Inv, CacheIndex PROVE Inv'
<1> USE DEF objVars, syncVars, envVars, bounds
<1>1. held \in Object /\ errs \in BOOLEAN /\ held.source \in Source
  BY DEF Inv, TypeOK, Bookkeeping, CacheIndex
<1>2. held' \in Object /\ held'.uid = held.uid /\ held'.source = held.source
  BY <1>1, SucceededKeeps DEF CacheIndex
<1>3. [exists |-> TRUE, owner |-> held.uid, dir |-> None, content |-> None] \in ConfigMap
  BY <1>1 DEF Object, ConfigMap
<1>4. cm' \in [Entry -> ConfigMap]
  BY <1>3 DEF Inv, TypeOK, CacheIndex
<1>5. TypeOK'
  BY <1>2, <1>4 DEF Inv, TypeOK, CacheIndex, Stage, StatusStage
<1>6. Bookkeeping'
  BY <1>2 DEF Inv, Bookkeeping, CacheIndex, NeverForgotten, Quiet
<1> QED
  BY <1>5, <1>6 DEF Inv

\* A step that leaves the reconcile alone keeps what it needs of the object.
LEMMA FaultInv == ASSUME Inv, Fault PROVE Inv'
<1> USE DEF objVars, copyVars, syncVars, envVars
<1>0. /\ faults' \in 0 .. MaxFaults
      /\ UNCHANGED <<repo, secret, creates, edits, pushes, restarts>>
  BY ConstantsAssumption DEF Fault, Inv, TypeOK
<1>1. CASE pc \in StatusStage /\ (SaveStatus \/ UNCHANGED objVars)
           /\ (IF pc = "report" THEN Later ELSE Again) /\ UNCHANGED cm
  <2>1. CASE SaveStatus /\ Again
    BY <1>0, <1>1, <2>1, SavedAgainInv
  <2>2. CASE SaveStatus /\ Later
    BY <1>0, <1>1, <2>2, SavedLaterInv
  <2>3. CASE UNCHANGED objVars
    BY <1>0, <1>1, <2>3, GaveUpInv
  <2> QED
    BY <1>1, <2>1, <2>2, <2>3
<1>2. CASE pc = "list" /\ SyncFails
  BY <1>0, <1>2, SyncFailsInv
<1>3. CASE pc \in {"fetch", "cache"}
           /\ (\E d \in todo : /\ NextSync(todo \ {d}, Specs)
                               /\ \/ UNCHANGED <<queued, cm>>
                                  \/ pc = "cache" /\ Apply(Safe[d], EntryFor(d)))
           /\ errs' = TRUE
           /\ UNCHANGED <<objVars, timer, copyVars, found>>
  <2>1. PICK d \in todo : /\ NextSync(todo \ {d}, Specs)
                          /\ \/ UNCHANGED <<queued, cm>>
                             \/ pc = "cache" /\ Apply(Safe[d], EntryFor(d))
    BY <1>3
  <2>2. d \in Dir /\ todo \ {d} \in SUBSET Dir /\ Specs \in SUBSET Dir /\ pc \in Stage
    BY DEF Inv, TypeOK, Specs
  <2>3. todo' \in SUBSET Dir /\ pc' \in Stage /\ pc' \in {"fetch", "cache", "index"}
    BY <1>3, <2>1, <2>2, NextSyncTypes
  <2>4. cm' \in [Entry -> ConfigMap] /\ queued' \in BOOLEAN /\ (queued => queued')
    <3>1. CASE UNCHANGED <<queued, cm>>
      BY <3>1 DEF Inv, TypeOK
    <3>2. CASE Apply(Safe[d], EntryFor(d))
      BY <2>2, <3>2, ApplyTypes, EntryForType, ConstantsAssumption
    <3> QED
      BY <2>1, <3>1, <3>2
  <2>5. TypeOK'
    BY <1>0, <1>3, <2>3, <2>4 DEF Inv, TypeOK
  <2>6. Bookkeeping'
    BY <1>3, <2>3, <2>4 DEF Inv, Bookkeeping, NeverForgotten, Quiet
  <2> QED
    BY <2>5, <2>6 DEF Inv
<1>4. CASE pc = "index" /\ held' = Succeeded(held, TRUE) /\ pc' = "finish"
           /\ UNCHANGED <<objVars, queued, timer, heldFresh, tries, syncVars, cm>>
  <2>1. held \in Object /\ held.source \in Source
    BY <1>4 DEF Inv, TypeOK, Bookkeeping
  <2>2. held' \in Object /\ held'.uid = held.uid /\ held'.source = held.source
    BY <1>4, <2>1, SucceededKeeps
  <2>3. TypeOK'
    BY <1>0, <1>4, <2>2 DEF Inv, TypeOK, Stage, StatusStage
  <2>4. Bookkeeping'
    BY <1>4, <2>2 DEF Inv, Bookkeeping, NeverForgotten, Quiet
  <2> QED
    BY <2>3, <2>4 DEF Inv
<1> QED
  BY <1>1, <1>2, <1>3, <1>4 DEF Fault

\* Events, users and the garbage collector.
LEMMA DeliverInv == ASSUME Inv, Deliver PROVE Inv'
BY DEF Inv, TypeOK, Bookkeeping, NeverForgotten, Quiet, Deliver, copyVars, syncVars,
       envVars, bounds

LEMMA FireInv == ASSUME Inv, Fire PROVE Inv'
BY DEF Inv, TypeOK, Bookkeeping, NeverForgotten, Quiet, Fire, objVars, copyVars,
       syncVars, envVars, bounds

LEMMA OutsideInv ==
  ASSUME Inv, NEW o \in Object, o.uid # 0 => o.source \in Source, Outside(o),
         creates' \in 0 .. MaxCreates, edits' \in 0 .. MaxEdits
  PROVE  Inv'
<1>1. TypeOK'
  BY DEF Inv, TypeOK, Outside, syncVars, envVars
<1>2. Bookkeeping'
  BY DEF Inv, Bookkeeping, NeverForgotten, Quiet, Outside, syncVars, envVars
<1> QED
  BY <1>1, <1>2 DEF Inv

LEMMA CreateInv == ASSUME Inv, CreateRegistry PROVE Inv'
<1>1. PICK src \in Source : Outside(Created(src))
  BY DEF CreateRegistry
<1>2. creates \in Nat /\ creates' \in 0 .. MaxCreates /\ edits' \in 0 .. MaxEdits
  BY ConstantsAssumption DEF CreateRegistry, Inv, TypeOK
<1>3. Created(src) \in Object /\ Created(src).source \in Source
  BY <1>2, CreatedIsObject
<1> QED
  BY <1>1, <1>2, <1>3, OutsideInv

LEMMA EditInv == ASSUME Inv, EditRegistry PROVE Inv'
<1>1. PICK src \in Source : Outside([reg EXCEPT !.gen = @ + 1, !.source = src])
  BY DEF EditRegistry
<1> DEFINE o == [reg EXCEPT !.gen = @ + 1, !.source = src]
<1>2. creates' \in 0 .. MaxCreates /\ edits' \in 0 .. MaxEdits /\ reg \in Object
  BY ConstantsAssumption DEF EditRegistry, Inv, TypeOK
<1>3. o \in Object /\ o.source \in Source
  <2>1. reg.gen + 1 \in Nat
    BY <1>2 DEF Object
  <2> QED
    BY <1>2, <2>1, WritesAreObjects
<1>4. Outside(o)
  BY <1>1
<1> HIDE DEF o
<1> QED
  BY <1>2, <1>3, <1>4, OutsideInv

LEMMA DeleteInv ==
  ASSUME Inv, NEW foreground \in BOOLEAN, DeleteRegistry(foreground)
  PROVE  Inv'
<1>1. creates' \in 0 .. MaxCreates /\ edits' \in 0 .. MaxEdits /\ reg \in Object
  BY ConstantsAssumption DEF DeleteRegistry, Inv, TypeOK
<1>2. CASE foreground
  <2> DEFINE o == [reg EXCEPT !.gen = @ + 1, !.deleting = TRUE]
  <2>1. o \in Object /\ o.uid = reg.uid /\ o.source = reg.source
    <3>1. reg.gen + 1 \in Nat
      BY <1>1 DEF Object
    <3> QED
      BY <1>1, <3>1, WritesAreObjects
  <2>2. reg.uid # 0 => reg.source \in Source
    BY DEF Inv, Bookkeeping
  <2>3. Outside(o)
    BY <1>2 DEF DeleteRegistry
  <2> HIDE DEF o
  <2> QED
    BY <1>1, <2>1, <2>2, <2>3, OutsideInv
<1>3. CASE ~foreground
  <2>1. Absent \in Object /\ Absent.uid = 0
    BY AbsentTypes DEF Absent
  <2>2. Outside(Absent)
    BY <1>3 DEF DeleteRegistry
  <2> QED
    BY <1>1, <2>1, <2>2, OutsideInv
<1> QED
  BY <1>2, <1>3

LEMMA FinishForegroundInv == ASSUME Inv, FinishForeground PROVE Inv'
<1>1. Absent \in Object /\ Absent.uid = 0
  BY AbsentTypes DEF Absent
<1>2. creates' \in 0 .. MaxCreates /\ edits' \in 0 .. MaxEdits /\ Outside(Absent)
  BY DEF FinishForeground, Inv, TypeOK
<1> QED
  BY <1>1, <1>2, OutsideInv

LEMMA CollectInv == ASSUME Inv, NEW e \in Entry, Collect(e) PROVE Inv'
<1> USE DEF objVars, copyVars, syncVars, envVars, bounds
<1>1. cm' \in [Entry -> ConfigMap]
  BY AbsentTypes DEF Inv, TypeOK, Collect
<1>2. TypeOK'
  BY <1>1 DEF Inv, TypeOK, Collect
<1>3. Bookkeeping'
  BY DEF Inv, Bookkeeping, NeverForgotten, Quiet, Collect
<1> QED
  BY <1>2, <1>3 DEF Inv

LEMMA EnvironmentInv == ASSUME Inv, Push \/ EditSecret PROVE Inv'
<1> USE DEF objVars, copyVars, syncVars
<1>1. CASE Push
  <2>1. pushes' \in 0 .. MaxPushes
    BY <1>1, ConstantsAssumption DEF Inv, TypeOK, Push
  <2>2. repo' \in [Source -> [Dir -> Content \cup {None}]]
    BY <1>1 DEF Inv, TypeOK, Push
  <2>3. TypeOK'
    BY <1>1, <2>1, <2>2 DEF Inv, TypeOK, Push
  <2>4. Bookkeeping'
    BY <1>1 DEF Inv, Bookkeeping, NeverForgotten, Quiet, Push
  <2> QED
    BY <2>3, <2>4 DEF Inv
<1>2. CASE EditSecret
  <2>1. edits' \in 0 .. MaxEdits
    BY <1>2, ConstantsAssumption DEF Inv, TypeOK, EditSecret
  <2>2. TypeOK'
    BY <1>2, <2>1 DEF Inv, TypeOK, EditSecret
  <2>3. Bookkeeping'
    BY <1>2 DEF Inv, Bookkeeping, NeverForgotten, Quiet, EditSecret
  <2> QED
    BY <2>2, <2>3 DEF Inv
<1> QED
  BY <1>1, <1>2

LEMMA RestartInv == ASSUME Inv, Restart PROVE Inv'
<1> USE DEF envVars
<1>1. restarts' \in 0 .. MaxRestarts
  BY ConstantsAssumption DEF Inv, TypeOK, Restart
<1>2. TypeOK'
  <2>1. queued' \in BOOLEAN
    BY DEF Restart
  <2>2. reg' \in Object /\ seen' \in Object /\ held' \in Object
    BY FinishedTypes DEF Inv, TypeOK, Restart
  <2>3. {fresh', heldFresh', timer', errs', secret'} \subseteq BOOLEAN
    BY FinishedTypes DEF Inv, TypeOK, Restart
  <2>4. 0 \in 0 .. Attempts - 1 /\ "idle" \in Stage
    BY ConstantsAssumption DEF Stage
  <2> QED
    BY <1>1, <2>1, <2>2, <2>3, <2>4, FinishedTypes DEF Inv, TypeOK, Restart
<1>3. Bookkeeping'
  <2>1. reg.uid # 0 => queued'
    BY DEF Restart
  <2>2. /\ reg' = reg /\ seen' = reg /\ held' = Absent /\ pc' = "idle"
        /\ Absent.uid = 0
    BY FinishedTypes DEF Restart, Absent
  <2> QED
    BY <2>1, <2>2 DEF Inv, Bookkeeping, NeverForgotten, Quiet
<1> QED
  BY <1>2, <1>3 DEF Inv

LEMMA NextInv == ASSUME Inv, [Next]_vars PROVE Inv'
<1>1. CASE Reconcile
  BY <1>1, BeginInv, CleanupInv, RetryStatusInv, AnnounceInv, AuthenticateInv, ReportInv,
     ListServersInv, FetchSpecInv, CacheServerInv, CacheIndexInv, FinishInv DEF Reconcile
<1>2. CASE Fault
  BY <1>2, FaultInv
<1>3. CASE Deliver \/ Fire \/ CreateRegistry \/ EditRegistry \/ FinishForeground \/ Push
           \/ EditSecret \/ Restart
  BY <1>3, DeliverInv, FireInv, CreateInv, EditInv, FinishForegroundInv, EnvironmentInv,
     RestartInv
<1>4. CASE \E foreground \in BOOLEAN : DeleteRegistry(foreground)
  BY <1>4, DeleteInv
<1>5. CASE \E e \in Entry : Collect(e)
  BY <1>5, CollectInv
<1>6. CASE UNCHANGED vars
  BY <1>6 DEF Inv, TypeOK, Bookkeeping, NeverForgotten, Quiet, vars
<1> QED
  BY <1>1, <1>2, <1>3, <1>4, <1>5, <1>6 DEF Next

THEOREM InvHolds == Spec => []Inv
<1>1. Init => Inv
  BY InitInv
<1>2. Inv /\ [Next]_vars => Inv'
  BY NextInv
<1> QED
  BY <1>1, <1>2, PTL DEF Spec

\* Every variable keeps its type, whatever the informer, the faults and the
\* users do.
THEOREM TypeCorrect == Spec => []TypeOK
<1>1. Inv => TypeOK
  BY DEF Inv
<1> QED
  BY <1>1, InvHolds, PTL

\* However a reconcile of a registry ends, and whatever happens meanwhile, the
\* registry is queued, has an event coming, or a RequeueAfter pending.
THEOREM NeverForgottenHolds == Spec => []NeverForgotten
<1>1. Inv => NeverForgotten
  BY DEF Inv, Bookkeeping
<1> QED
  BY <1>1, InvHolds, PTL

-----------------------------------------------------------------------------
(***************************************************************************)
(* SyncedFitsSpec, for a registry that is not created anew.                *)
(***************************************************************************)
\* What a reconcile does to the copy it holds does not make it claim too much.
LEMMA FollowsStatus ==
  ASSUME NEW o \in Object, NEW c \in Object, NEW r, c.uid # 0,
         Follows(o, r), Follows(c, r)
  PROVE  Follows(WithStatus(o, c), r)
BY WithStatusKeeps DEF Follows

LEMMA FollowsComposed ==
  ASSUME NEW o \in Object, NEW r, Follows(o, r)
  PROVE  /\ Follows([o EXCEPT !.synced = "False"], r)
         /\ Follows([o EXCEPT !.phase = "Syncing"], r)
         /\ Follows([o EXCEPT !.phase = "Failed", !.synced = "False"], r)
BY DEF Follows, Object

LEMMA FollowsSucceeded ==
  ASSUME NEW o \in Object, NEW failed \in BOOLEAN, o.source \in Source, NEW r,
         Follows(o, r)
  PROVE  Follows(Succeeded(o, failed), r)
BY SucceededKeeps DEF Follows

\* The end of a reconcile, with or without its last status update.
LEMMA EndProvenance ==
  ASSUME Inv, Provenance, pc # "idle", Finished, UNCHANGED creates,
         SaveStatus \/ UNCHANGED objVars
  PROVE  Provenance'
<1> USE DEF objVars
<1>1. /\ pc' = "idle" /\ held' = Absent /\ heldFresh' = FALSE /\ creates # 0
      /\ Absent.uid = 0
  BY FinishedTypes DEF Provenance, Absent
<1>2. CASE SaveStatus
  <2>1. /\ reg \in Object /\ held \in Object /\ held.uid # 0 /\ reg.uid # 0
    BY <1>2 DEF Inv, TypeOK, Bookkeeping, Provenance, SaveStatus
  <2>2. Follows(reg', reg)
    BY <1>2, <2>1, FollowsStatus DEF SaveStatus, Provenance
  <2>3. /\ reg'.uid = reg.uid /\ reg'.gen = reg.gen /\ reg'.source = reg.source
        /\ seen' = seen
    BY <1>2, SaveStatusKeeps
  <2> QED
    BY <1>1, <2>1, <2>2, <2>3 DEF Provenance, Follows
<1>3. CASE UNCHANGED objVars
  BY <1>1, <1>3 DEF Provenance, Follows
<1> QED
  BY <1>2, <1>3

\* A step in the middle of a reconcile.
LEMMA WorkProvenance ==
  ASSUME Inv, Provenance, pc # "idle", pc' # "idle", UNCHANGED <<objVars, creates>>,
         heldFresh' = FALSE \/ reg.uid # 0, Follows(held', reg)
  PROVE  Provenance'
BY DEF Provenance, objVars

LEMMA BeginProvenance == ASSUME Inv, Provenance, Begin PROVE Provenance'
<1> USE DEF objVars, copyVars, syncVars, envVars, bounds
<1>1. CASE seen.uid = 0
  BY <1>1 DEF Provenance, Begin
<1>2. CASE seen.uid # 0
  <2>1. seen \in Object /\ creates # 0 /\ (fresh => reg.uid # 0)
    BY <1>2 DEF Inv, TypeOK, Bookkeeping, Provenance, Absent
  <2>2. Follows(held', reg) /\ pc' # "idle"
    BY <1>2, <2>1, FollowsComposed DEF Provenance, Begin
  <2>3. heldFresh' = FALSE \/ reg.uid # 0
    BY <1>2, <2>1 DEF Begin, Inv, TypeOK
  <2> QED
    BY <1>2, <2>1, <2>2, <2>3 DEF Provenance, Begin
<1> QED
  BY <1>1, <1>2

LEMMA RetryStatusProvenance == ASSUME Inv, Provenance, RetryStatus PROVE Provenance'
<1>1. /\ seen \in Object /\ held \in Object /\ held.uid # 0 /\ pc # "idle" /\ pc' = pc
      /\ UNCHANGED <<objVars, creates>> /\ reg.uid # 0
  BY DEF Inv, TypeOK, Bookkeeping, RetryStatus, StatusStage, bounds
<1>2. Follows(held', reg)
  BY <1>1, FollowsStatus DEF RetryStatus, Provenance
<1> QED
  BY <1>1, <1>2, WorkProvenance

LEMMA AnnounceProvenance == ASSUME Inv, Provenance, Announce PROVE Provenance'
<1> USE DEF objVars, syncVars, bounds
<1>1. pc # "idle" /\ UNCHANGED creates
  BY DEF Announce
<1>2. CASE SaveStatus /\ pc' = "auth" /\ UNCHANGED <<held, heldFresh>>
  <2>1. /\ reg \in Object /\ held \in Object /\ held.uid # 0 /\ reg.uid # 0 /\ creates # 0
    BY <1>1, <1>2 DEF Inv, TypeOK, Bookkeeping, Provenance, SaveStatus
  <2>2. Follows(reg', reg)
    BY <1>2, <2>1, FollowsStatus DEF SaveStatus, Provenance
  <2>3. /\ reg'.uid = reg.uid /\ reg'.gen = reg.gen /\ reg'.source = reg.source
        /\ seen' = seen
    BY <1>2, SaveStatusKeeps
  <2> QED
    BY <1>1, <1>2, <2>1, <2>2, <2>3 DEF Provenance, Follows
<1>3. CASE Again /\ UNCHANGED objVars
  BY <1>1, <1>3, EndProvenance DEF Again
<1> QED
  BY <1>2, <1>3 DEF Announce

LEMMA AuthenticateProvenance == ASSUME Inv, Provenance, Authenticate PROVE Provenance'
<1>1. held \in Object /\ Follows(held, reg)
  BY DEF Inv, TypeOK, Provenance
<1>2. Follows(held', reg) /\ pc # "idle" /\ pc' # "idle"
  BY <1>1, FollowsComposed DEF Authenticate
<1>3. UNCHANGED <<objVars, creates, heldFresh>>
  BY DEF Authenticate, bounds
<1> QED
  BY <1>2, <1>3, WorkProvenance DEF Provenance

LEMMA SyncFailsProvenance ==
  ASSUME Inv, Provenance, pc = "list", SyncFails, UNCHANGED creates
  PROVE  Provenance'
<1>1. held \in Object /\ Follows(held, reg)
  BY DEF Inv, TypeOK, Provenance
<1>2. Follows(held', reg) /\ pc # "idle" /\ pc' # "idle"
  BY <1>1, FollowsComposed DEF SyncFails
<1>3. UNCHANGED <<objVars, creates, heldFresh>>
  BY DEF SyncFails
<1> QED
  BY <1>2, <1>3, WorkProvenance DEF Provenance

\* The stages that leave the copy alone.
LEMMA ReadsProvenance ==
  ASSUME Inv, Provenance, pc # "idle", pc' # "idle", UNCHANGED <<objVars, copyVars, creates>>
  PROVE  Provenance'
BY DEF Provenance, objVars, copyVars

LEMMA SucceededProvenance ==
  ASSUME Inv, Provenance, pc = "index", pc' = "finish", NEW failed \in BOOLEAN,
         held' = Succeeded(held, failed), UNCHANGED <<objVars, heldFresh, creates>>
  PROVE  Provenance'
<1>1. held \in Object /\ Follows(held, reg) /\ held.source \in Source
  BY DEF Inv, TypeOK, Bookkeeping, Provenance
<1>2. Follows(held', reg)
  BY <1>1, FollowsSucceeded
<1> QED
  BY <1>2, WorkProvenance DEF Provenance

LEMMA FaultProvenance == ASSUME Inv, Provenance, Fault PROVE Provenance'
<1>0. UNCHANGED creates
  BY DEF Fault
<1>1. CASE pc \in StatusStage /\ (SaveStatus \/ UNCHANGED objVars) /\ (Later \/ Again)
  BY <1>0, <1>1, EndProvenance DEF Later, Again, StatusStage
<1>2. CASE pc = "list" /\ SyncFails
  BY <1>0, <1>2, SyncFailsProvenance
<1>3. CASE pc \in {"fetch", "cache"} /\ UNCHANGED <<objVars, copyVars>>
           /\ \E d \in todo : NextSync(todo \ {d}, Specs)
  <2>1. pc' # "idle"
    BY <1>3 DEF NextSync
  <2> QED
    BY <1>0, <1>3, <2>1, ReadsProvenance
<1>4. CASE pc = "index" /\ held' = Succeeded(held, TRUE) /\ pc' = "finish"
           /\ UNCHANGED <<objVars, heldFresh>>
  BY <1>0, <1>4, SucceededProvenance
<1> QED
  BY <1>1, <1>2, <1>3, <1>4 DEF Fault

LEMMA ReconcileProvenance == ASSUME Inv, Provenance, Reconcile PROVE Provenance'
<1>1. CASE Cleanup
  <2>1. pc # "idle" /\ Finished /\ UNCHANGED <<objVars, creates>>
    BY <1>1 DEF Cleanup, bounds
  <2> QED
    BY <2>1, EndProvenance
<1>2. CASE Report \/ Finish
  <2>1. pc # "idle" /\ Finished /\ UNCHANGED creates /\ (SaveStatus \/ UNCHANGED objVars)
    BY <1>2 DEF Report, Finish, Later, Again, bounds
  <2> QED
    BY <2>1, EndProvenance
<1>3. CASE ListServers
  <2>1. CASE SyncFails
    BY <1>3, <2>1, SyncFailsProvenance DEF ListServers, bounds
  <2>2. CASE ~SyncFails
    <3>1. pc # "idle" /\ pc' # "idle" /\ UNCHANGED <<objVars, copyVars, creates>>
      BY <1>3, <2>2 DEF ListServers, bounds
    <3> QED
      BY <3>1, ReadsProvenance
  <2> QED
    BY <2>1, <2>2
<1>4. CASE \E d \in Dir : FetchSpec(d) \/ CacheServer(d)
  <2>1. pc # "idle" /\ pc' # "idle" /\ UNCHANGED <<objVars, copyVars, creates>>
    BY <1>4 DEF FetchSpec, CacheServer, NextSync, bounds
  <2> QED
    BY <2>1, ReadsProvenance
<1>5. CASE CacheIndex
  <2>1. /\ pc = "index" /\ pc' = "finish" /\ errs \in BOOLEAN
        /\ held' = Succeeded(held, errs) /\ UNCHANGED <<objVars, heldFresh, creates>>
    BY <1>5 DEF CacheIndex, bounds, Inv, TypeOK
  <2> QED
    BY <2>1, SucceededProvenance
<1> QED
  BY <1>1, <1>2, <1>3, <1>4, <1>5, BeginProvenance, RetryStatusProvenance,
     AnnounceProvenance, AuthenticateProvenance DEF Reconcile

\* The users' operations.
LEMMA CreateProvenance ==
  ASSUME Inv, Provenance, MaxCreates = 1, CreateRegistry
  PROVE  Provenance'
<1>1. creates = 0 /\ creates' = 1
  BY DEF CreateRegistry, Inv, TypeOK
<1>2. PICK src \in Source : Outside(Created(src))
  BY DEF CreateRegistry
<1>3. /\ seen' = Absent /\ held' = Absent /\ pc' = "idle" /\ heldFresh' = FALSE
      /\ Absent.uid = 0
  BY <1>1, <1>2 DEF Outside, Provenance, Absent
<1>4. reg'.uid = 1 /\ reg'.gen = 1 /\ reg'.synced = "Unset"
  <2>1. reg' = Created(src)
    BY <1>2 DEF Outside
  <2>2. creates \in Nat /\ creates + 1 = 1
    BY <1>1
  <2> QED
    BY <2>1, <2>2, CreatedIsObject
<1> QED
  BY <1>1, <1>3, <1>4 DEF Provenance, Follows

\* A new generation of the object.
LEMMA NewGeneration ==
  ASSUME Inv, Provenance, NEW o \in Object, Outside(o), reg.uid # 0, UNCHANGED creates,
         o.uid = reg.uid, o.gen = reg.gen + 1, o.synced = reg.synced,
         o.observed = reg.observed
  PROVE  Provenance'
<1>1. /\ reg' = o /\ seen' = seen /\ held' = held /\ pc' = pc /\ heldFresh' = FALSE
      /\ creates # 0
  BY DEF Outside, Provenance, Absent
<1>2. \A c \in {reg, seen, held} : c.uid # 0 => c.gen < o.gen
                                              /\ (c.synced = "True" => c.observed < o.gen)
  BY DEF Inv, TypeOK, Object, Provenance, Follows
<1> QED
  BY <1>1, <1>2 DEF Provenance, Follows, Inv, TypeOK, Object

LEMMA EditProvenance == ASSUME Inv, Provenance, EditRegistry PROVE Provenance'
<1>1. PICK src \in Source : Outside([reg EXCEPT !.gen = @ + 1, !.source = src])
  BY DEF EditRegistry
<1> DEFINE o == [reg EXCEPT !.gen = @ + 1, !.source = src]
<1>2. reg \in Object /\ reg.gen + 1 \in Nat /\ reg.uid # 0 /\ UNCHANGED creates
  BY DEF Inv, TypeOK, EditRegistry, Object
<1>3. o \in Object
  BY <1>2, WritesAreObjects
<1>4. /\ o.uid = reg.uid /\ o.gen = reg.gen + 1 /\ o.synced = reg.synced
      /\ o.observed = reg.observed
  BY <1>2 DEF Object
<1>5. Outside(o)
  BY <1>1
<1> HIDE DEF o
<1> QED
  BY <1>2, <1>3, <1>4, <1>5, NewGeneration

LEMMA GoneProvenance ==
  ASSUME Inv, Provenance, Outside(Absent), reg.uid # 0, UNCHANGED creates
  PROVE  Provenance'
<1>1. creates # 0 /\ Absent.uid = 0
  BY DEF Provenance, Absent
<1> QED
  BY <1>1 DEF Outside, Provenance, Follows

LEMMA DeleteProvenance ==
  ASSUME Inv, Provenance, NEW foreground \in BOOLEAN, DeleteRegistry(foreground)
  PROVE  Provenance'
<1>1. reg \in Object /\ reg.gen + 1 \in Nat /\ reg.uid # 0 /\ UNCHANGED creates
  BY DEF Inv, TypeOK, DeleteRegistry, Object
<1>2. CASE foreground
  <2> DEFINE o == [reg EXCEPT !.gen = @ + 1, !.deleting = TRUE]
  <2>1. o \in Object
    BY <1>1, WritesAreObjects
  <2>2. /\ o.uid = reg.uid /\ o.gen = reg.gen + 1 /\ o.synced = reg.synced
        /\ o.observed = reg.observed
    BY <1>1 DEF Object
  <2>3. Outside(o)
    BY <1>2 DEF DeleteRegistry
  <2> HIDE DEF o
  <2> QED
    BY <1>1, <2>1, <2>2, <2>3, NewGeneration
<1>3. CASE ~foreground
  BY <1>1, <1>3, GoneProvenance DEF DeleteRegistry
<1> QED
  BY <1>2, <1>3

LEMMA NextProvenance ==
  ASSUME Inv, Provenance, MaxCreates = 1, [Next]_vars
  PROVE  Provenance'
<1> USE DEF objVars, copyVars, syncVars, envVars, bounds
<1>1. CASE Deliver
  BY <1>1 DEF Provenance, Deliver
<1>2. CASE Fire \/ Push \/ EditSecret \/ \E e \in Entry : Collect(e)
  <2>1. UNCHANGED <<objVars, copyVars, creates, pc>>
    BY <1>2 DEF Fire, Push, EditSecret, Collect
  <2> QED
    BY <2>1 DEF Provenance
<1>3. CASE FinishForeground
  <2>1. reg.uid # 0 /\ Outside(Absent) /\ UNCHANGED creates
    BY <1>3 DEF FinishForeground, Provenance, Absent
  <2> QED
    BY <2>1, GoneProvenance
<1>4. CASE Restart
  <2>1. /\ reg' = reg /\ seen' = reg /\ held' = Absent /\ pc' = "idle"
        /\ heldFresh' = FALSE /\ creates' = creates /\ Absent.uid = 0
    BY <1>4, FinishedTypes DEF Restart, Absent
  <2> QED
    BY <2>1 DEF Provenance, Follows
<1>5. CASE UNCHANGED vars
  BY <1>5 DEF Provenance, vars
<1> QED
  BY <1>1, <1>2, <1>3, <1>4, <1>5, ReconcileProvenance, FaultProvenance, CreateProvenance,
     EditProvenance, DeleteProvenance DEF Next

THEOREM ProvenanceHolds == MaxCreates = 1 => (Spec => []Provenance)
<1> SUFFICES ASSUME MaxCreates = 1 PROVE Spec => []Provenance
  OBVIOUS
<1>1. Init => Provenance
  BY DEF Init, Provenance, Follows, Absent
<1>2. Inv /\ Provenance /\ [Next]_vars => Provenance'
  BY NextProvenance
<1> QED
  BY <1>1, <1>2, InvHolds, PTL DEF Spec

\* If the registry is not deleted and created anew, a status that says Synced=True
\* for the current generation describes the current source, however old the copy
\* was that the synchronisation started from and however often its status was
\* carried over to a newer version.
THEOREM SyncedFitsSpecHolds == MaxCreates = 1 => (Spec => []SyncedFitsSpec)
<1>1. Provenance => SyncedFitsSpec
  BY DEF Provenance, SyncedFitsSpec, Follows, Absent
<1> QED
  BY <1>1, ProvenanceHolds, PTL

-----------------------------------------------------------------------------
(***************************************************************************)
(* ReadyIsCached, if moreover every directory has an entry of its own.     *)
(***************************************************************************)
OwnEntries ==
  /\ \A d, e \in Dir : Safe[d] = Safe[e] => d = e
  /\ \A d \in Dir : Safe[d] # IndexEntry

Good == Inv /\ Provenance /\ CachedSoFar

LEMMA GoodTypes ==
  ASSUME Good
  PROVE  /\ reg \in Object /\ seen \in Object /\ held \in Object /\ pc \in Stage
         /\ errs \in BOOLEAN /\ cm \in [Entry -> ConfigMap]
BY DEF Good, Inv, TypeOK

\* A status is as well backed as the copy it comes from.
LEMMA BackedStatus ==
  ASSUME NEW o \in Object, NEW c \in Object, c.uid # 0, Backed(c)
  PROVE  Backed(WithStatus(o, c))
BY WithStatusKeeps DEF Backed

LEMMA BackedComposed ==
  ASSUME NEW o \in Object, Backed(o)
  PROVE  /\ Backed([o EXCEPT !.synced = "False"])
         /\ Backed([o EXCEPT !.phase = "Syncing"])
         /\ Backed([o EXCEPT !.phase = "Failed", !.synced = "False"])
<1>1. [o EXCEPT !.phase = "Syncing"].phase = "Syncing"
  BY DEF Object
<1>2. [o EXCEPT !.phase = "Failed", !.synced = "False"].phase = "Failed"
  BY DEF Object
<1>3. LET n == [o EXCEPT !.synced = "False"]
      IN  n.uid = o.uid /\ n.phase = o.phase /\ n.errors = o.errors /\ n.servers = o.servers
  BY DEF Object
<1> QED
  BY <1>1, <1>2, <1>3 DEF Backed

\* A reconcile that works on a live registry works on this very one.
LEMMA SameUid ==
  ASSUME Good, pc # "idle", reg.uid # 0
  PROVE  held.uid = reg.uid
BY DEF Good, Inv, Bookkeeping, CachedSoFar

\* Entries that stay keep every copy backed.
LEMMA StillBacked ==
  ASSUME NEW o \in Object, Backed(o), reg'.uid = reg.uid,
         \A d \in Dir : Cached(d) => Cached(d)'
  PROVE  o.uid # 0 /\ o.phase = "Ready" /\ ~o.errors => \A d \in o.servers : Cached(d)'
BY DEF Backed, Object

\* The end of a reconcile that leaves the ConfigMaps alone.
LEMMA EndCached ==
  ASSUME Good, pc # "idle", Finished, SaveStatus \/ UNCHANGED objVars, UNCHANGED cm
  PROVE  CachedSoFar'
<1> USE DEF objVars
<1>1. /\ pc' = "idle" /\ held' = Absent /\ Absent.uid = 0 /\ Absent.deleting = FALSE
      /\ \A d \in Dir : found'[d] = None
  BY DEF Finished, Absent
<1>2. CASE SaveStatus
  <2>1. /\ reg'.uid = reg.uid /\ reg'.deleting = reg.deleting /\ seen' = seen
        /\ reg' = WithStatus(reg, held)
    BY <1>2, SaveStatusKeeps DEF Good, SaveStatus
  <2>2. held.uid # 0 /\ reg \in Object /\ held \in Object /\ reg' \in Object
    BY <1>2, GoodTypes, SaveStatusKeeps DEF Good, Inv, Bookkeeping
  <2>3. ASSUME reg.uid # 0, ~reg.deleting
        PROVE  Backed(reg') /\ Backed(seen) /\ ~seen.deleting
    BY <2>1, <2>2, <2>3, BackedStatus DEF Good, CachedSoFar
  <2> QED
    BY <1>1, <1>2, <2>1, <2>2, <2>3 DEF Good, CachedSoFar, Backed, Cached
<1>3. CASE UNCHANGED objVars
  BY <1>1, <1>3 DEF Good, CachedSoFar, Backed, Cached
<1> QED
  BY <1>2, <1>3

\* A step that changes the copy only, before anything is read.
LEMMA ComposeCached ==
  ASSUME Good, pc # "idle", UNCHANGED <<objVars, cm, found>>,
         pc \notin {"fetch", "cache", "index", "finish"},
         pc' \notin {"fetch", "cache", "index", "finish", "cleanup"},
         held'.uid \in {0, 1},
         reg.uid # 0 /\ ~reg.deleting => Backed(held') /\ ~held'.deleting
  PROVE  CachedSoFar'
BY DEF Good, CachedSoFar, Backed, Cached, objVars

LEMMA BeginCached == ASSUME Good, Begin PROVE CachedSoFar'
<1> USE DEF objVars, copyVars, syncVars, envVars, bounds
<1>1. CASE seen.uid = 0
  BY <1>1 DEF Good, CachedSoFar, Begin, Backed, Cached, Specs
<1>2. CASE seen.uid # 0
  <2>1. pc = "idle" /\ seen \in Object /\ pc' \in {"cleanup", "report", "announce"}
        /\ UNCHANGED <<reg, seen, found, cm>>
    BY <1>2, GoodTypes DEF Begin
  <2>2. held'.uid = seen.uid /\ held'.deleting = seen.deleting
    BY <1>2, <2>1 DEF Begin, Object
  <2>3. reg.uid # 0 /\ ~reg.deleting => Backed(held')
    BY <1>2, <2>1, BackedComposed DEF Begin, Good, CachedSoFar
  <2>4. pc' = "cleanup" => held'.deleting
    BY <1>2 DEF Begin
  <2> QED
    BY <2>1, <2>2, <2>3, <2>4 DEF Good, CachedSoFar, Backed, Cached
<1> QED
  BY <1>1, <1>2

LEMMA CleanupCached == ASSUME Good, Cleanup PROVE CachedSoFar'
<1>1. /\ pc = "cleanup" /\ held.deleting /\ Finished /\ UNCHANGED objVars
  BY DEF Cleanup, Good, CachedSoFar
<1>2. /\ pc' = "idle" /\ held' = Absent /\ Absent.uid = 0 /\ Absent.deleting = FALSE
      /\ \A d \in Dir : found'[d] = None
  BY <1>1 DEF Finished, Absent
<1>3. reg.uid = 0 \/ reg.deleting
  BY <1>1 DEF Good, CachedSoFar
<1> QED
  BY <1>1, <1>2, <1>3 DEF Good, CachedSoFar, objVars

LEMMA RetryStatusCached == ASSUME Good, RetryStatus PROVE CachedSoFar'
<1> USE DEF objVars, syncVars, envVars, bounds
<1>1. /\ seen \in Object /\ held \in Object /\ held.uid # 0 /\ pc' = pc
      /\ pc \in StatusStage /\ UNCHANGED <<reg, seen, found, todo, errs, cm>>
  BY GoodTypes DEF Good, Inv, Bookkeeping, RetryStatus, StatusStage
<1>2. CASE seen.uid # 0
  <2>1. held' = WithStatus(seen, held)
    BY <1>2 DEF RetryStatus
  <2>2. held'.uid = seen.uid /\ held'.deleting = seen.deleting
    BY <1>1, <2>1, WithStatusKeeps
  <2>3. reg.uid # 0 /\ ~reg.deleting => Backed(held')
    BY <1>1, <2>1, BackedStatus DEF Good, CachedSoFar
  <2> QED
    BY <1>1, <2>2, <2>3 DEF Good, CachedSoFar, Backed, Cached, StatusStage
<1>3. CASE seen.uid = 0
  <2>1. UNCHANGED held
    BY <1>3 DEF RetryStatus
  <2> QED
    BY <1>1, <2>1 DEF Good, CachedSoFar, Backed, Cached, StatusStage
<1> QED
  BY <1>2, <1>3

LEMMA AnnounceCached == ASSUME Good, Announce PROVE CachedSoFar'
<1> USE DEF objVars, syncVars, bounds
<1>1. pc = "announce" /\ UNCHANGED cm
  BY DEF Announce
<1>2. CASE SaveStatus /\ pc' = "auth" /\ UNCHANGED <<held, found>>
  <2>1. /\ reg'.uid = reg.uid /\ reg'.deleting = reg.deleting /\ seen' = seen
        /\ reg' = WithStatus(reg, held) /\ reg' \in Object
    BY <1>2, SaveStatusKeeps DEF Good, SaveStatus
  <2>2. held.uid # 0 /\ reg \in Object /\ held \in Object
    BY <1>1, GoodTypes DEF Good, Inv, Bookkeeping
  <2>3. ASSUME reg.uid # 0, ~reg.deleting PROVE Backed(reg') /\ ~reg'.deleting
    BY <2>1, <2>2, <2>3, BackedStatus DEF Good, CachedSoFar
  <2> QED
    BY <1>1, <1>2, <2>1, <2>3 DEF Good, CachedSoFar, Backed, Cached
<1>3. CASE Again /\ UNCHANGED objVars
  BY <1>1, <1>3, EndCached DEF Again
<1> QED
  BY <1>2, <1>3 DEF Announce

LEMMA AuthenticateCached == ASSUME Good, Authenticate PROVE CachedSoFar'
<1>1. held \in Object
  BY GoodTypes
<1>2. /\ pc = "auth" /\ pc' \in {"report", "list"} /\ UNCHANGED <<objVars, cm, found>>
      /\ held' \in {held, [held EXCEPT !.synced = "False"]}
  BY DEF Authenticate, syncVars
<1>3. held'.uid = held.uid /\ held'.deleting = held.deleting
  BY <1>1, <1>2 DEF Object
<1>4. reg.uid # 0 /\ ~reg.deleting => Backed(held')
  BY <1>1, <1>2, BackedComposed DEF Good, CachedSoFar
<1> QED
  BY <1>2, <1>3, <1>4, ComposeCached DEF Good, CachedSoFar

LEMMA SyncFailsCached == ASSUME Good, pc = "list", SyncFails PROVE CachedSoFar'
<1>1. held \in Object
  BY GoodTypes
<1>2. /\ pc' = "report" /\ UNCHANGED <<objVars, cm, found>>
      /\ held' = [held EXCEPT !.phase = "Failed", !.synced = "False"]
  BY DEF SyncFails, syncVars
<1>3. held'.uid = held.uid /\ held'.deleting = held.deleting
  BY <1>1, <1>2 DEF Object
<1>4. reg.uid # 0 /\ ~reg.deleting => Backed(held')
  BY <1>1, <1>2, BackedComposed DEF Good, CachedSoFar
<1> QED
  BY <1>2, <1>3, <1>4, ComposeCached DEF Good, CachedSoFar

LEMMA ListServersCached == ASSUME Good, ListServers PROVE CachedSoFar'
<1>1. CASE SyncFails
  BY <1>1, SyncFailsCached DEF ListServers
<1>2. CASE ~SyncFails
  <2>1. /\ pc = "list" /\ pc' \in {"fetch", "index"} /\ UNCHANGED <<objVars, held, cm, found>>
    BY <1>2 DEF ListServers, copyVars
  <2>2. Specs' = {}
    BY <2>1 DEF Good, CachedSoFar, Specs
  <2> QED
    BY <2>1, <2>2 DEF Good, CachedSoFar, Backed, Cached, objVars
<1> QED
  BY <1>1, <1>2

LEMMA FetchSpecCached == ASSUME Good, NEW d \in Dir, FetchSpec(d) PROVE CachedSoFar'
<1>1. /\ pc = "fetch" /\ UNCHANGED <<objVars, held, errs, cm>>
      /\ NextSync(todo \ {d}, Specs')
  BY DEF FetchSpec, copyVars, Specs
<1>2. \/ pc' = "fetch"
      \/ pc' = "cache" /\ todo' = Specs'
      \/ pc' = "index" /\ Specs' = {}
  BY <1>1 DEF NextSync
<1> QED
  BY <1>1, <1>2 DEF Good, CachedSoFar, Backed, Cached, objVars

\* Caching a directory takes no ConfigMap from another.
LEMMA ApplyCached ==
  ASSUME Good, OwnEntries, reg.uid # 0, pc # "idle", UNCHANGED reg,
         NEW d \in Dir, Apply(Safe[d], EntryFor(d))
  PROVE  Cached(d)' /\ \A x \in Dir : Cached(x) => Cached(x)'
<1>1. held.uid = reg.uid
  BY SameUid
<1>2. Safe[d] \in Entry /\ cm' = [cm EXCEPT ![Safe[d]] = EntryFor(d)]
  BY ConstantsAssumption DEF Apply
<1>3. cm'[Safe[d]] = EntryFor(d)
  BY <1>2, GoodTypes
<1>4. Cached(d)'
  BY <1>1, <1>3 DEF Cached, EntryFor
<1>5. ASSUME NEW x \in Dir, Cached(x), x # d PROVE Cached(x)'
  <2>1. Safe[x] # Safe[d]
    BY <1>5 DEF OwnEntries
  <2> QED
    BY <1>2, <1>5, <2>1, GoodTypes DEF Cached
<1> QED
  BY <1>4, <1>5

\* A directory that is cached, or skipped with an error.
LEMMA CachingCached ==
  ASSUME Good, OwnEntries, pc = "cache", UNCHANGED <<objVars, held, found>>,
         NEW d \in todo, NextSync(todo \ {d}, Specs) \/ NextSync(todo \ {d}, {}),
         \/ Apply(Safe[d], EntryFor(d)) /\ (errs' \/ ~errs)
         \/ UNCHANGED cm /\ errs'
  PROVE  CachedSoFar'
<1> USE DEF objVars
<1>1. /\ d \in Dir
      /\ \/ pc' = "cache" /\ todo' = todo \ {d}
         \/ pc' = "index" /\ todo \ {d} = {}
  BY DEF Good, Inv, TypeOK, NextSync
<1>2. CASE reg.uid = 0 \/ reg.deleting
  BY <1>1, <1>2 DEF Good, CachedSoFar
<1>3. CASE reg.uid # 0 /\ ~reg.deleting
  <2>1. \A x \in Dir : Cached(x) => Cached(x)'
    BY <1>1, <1>3, ApplyCached DEF Cached
  <2>2. \A o \in {reg, seen, held} : o \in Object /\ Backed(o)
    BY <1>3, GoodTypes DEF Good, CachedSoFar
  <2>3. /\ reg' = reg /\ seen' = seen /\ held' = held
        /\ Backed(reg)' /\ Backed(seen)' /\ Backed(held)'
    BY <2>1, <2>2, StillBacked DEF Backed
  <2>4. ~errs' => ~errs /\ Cached(d)'
    BY <1>1, <1>3, ApplyCached
  <2>5. Specs' = Specs /\ Specs \subseteq Dir
    BY DEF Specs
  <2>6. ~errs' => \A x \in Specs \ (todo \ {d}) : Cached(x)'
    BY <1>3, <2>1, <2>4, <2>5 DEF Good, CachedSoFar
  <2> QED
    BY <1>1, <2>3, <2>5, <2>6 DEF Good, CachedSoFar
<1> QED
  BY <1>2, <1>3

LEMMA CacheServerCached ==
  ASSUME Good, OwnEntries, NEW d \in Dir, CacheServer(d) PROVE CachedSoFar'
<1>1. /\ pc = "cache" /\ d \in todo /\ UNCHANGED <<objVars, held, found, errs>>
      /\ NextSync(todo \ {d}, {}) /\ Apply(Safe[d], EntryFor(d))
  BY DEF CacheServer, copyVars
<1>2. errs' \/ ~errs
  BY <1>1
<1> QED
  BY <1>1, <1>2, CachingCached

\* The status of a synchronisation says what it has cached.
LEMMA SucceededCached ==
  ASSUME Good, pc = "index", pc' = "finish", UNCHANGED <<objVars, syncVars>>,
         NEW failed \in BOOLEAN, held' = Succeeded(held, failed), errs => failed,
         \A d \in Dir : Cached(d) => Cached(d)'
  PROVE  CachedSoFar'
<1> USE DEF objVars, syncVars
<1>1. held \in Object /\ held.source \in Source
  BY GoodTypes DEF Good, Inv, Bookkeeping
<1>2. /\ held'.uid = held.uid /\ held'.deleting = held.deleting
      /\ held'.errors = failed /\ held'.servers = Specs
  BY <1>1, SucceededKeeps
<1>3. ASSUME reg.uid # 0, ~reg.deleting
      PROVE  Backed(reg)' /\ Backed(seen)' /\ Backed(held)'
  <2>1. Backed(reg) /\ Backed(seen) /\ reg \in Object /\ seen \in Object
    BY <1>3, GoodTypes DEF Good, CachedSoFar
  <2>2. Backed(reg)' /\ Backed(seen)'
    BY <2>1, StillBacked DEF Backed
  <2>3. ~failed => \A d \in Specs : Cached(d)
    BY <1>3 DEF Good, CachedSoFar
  <2>4. ~failed => \A d \in Specs : Cached(d)'
    BY <2>3 DEF Specs
  <2> QED
    BY <1>2, <2>2, <2>4 DEF Backed
<1> QED
  BY <1>2, <1>3 DEF Good, CachedSoFar

LEMMA CacheIndexCached == ASSUME Good, OwnEntries, CacheIndex PROVE CachedSoFar'
<1>1. /\ pc = "index" /\ pc' = "finish" /\ UNCHANGED <<objVars, syncVars>>
      /\ held' = Succeeded(held, errs) /\ errs \in BOOLEAN
  BY GoodTypes DEF CacheIndex
<1>2. ASSUME NEW d \in Dir PROVE cm'[Safe[d]] = cm[Safe[d]]
  BY GoodTypes, ConstantsAssumption DEF CacheIndex, OwnEntries
<1>3. \A d \in Dir : Cached(d) => Cached(d)'
  BY <1>1, <1>2 DEF Cached, objVars
<1> QED
  BY <1>1, <1>3, SucceededCached

LEMMA FaultCached == ASSUME Good, OwnEntries, Fault PROVE CachedSoFar'
<1>1. CASE /\ pc \in StatusStage /\ (SaveStatus \/ UNCHANGED objVars) /\ (Later \/ Again)
           /\ UNCHANGED cm
  BY <1>1, EndCached DEF Later, Again, StatusStage
<1>2. CASE pc = "list" /\ SyncFails
  BY <1>2, SyncFailsCached
<1>3. CASE pc \in {"fetch", "cache"} /\ UNCHANGED <<objVars, held, found>> /\ errs' = TRUE
           /\ \E d \in todo : /\ NextSync(todo \ {d}, Specs)
                              /\ \/ UNCHANGED cm
                                 \/ pc = "cache" /\ Apply(Safe[d], EntryFor(d))
  <2>1. PICK d \in todo : /\ NextSync(todo \ {d}, Specs)
                          /\ \/ UNCHANGED cm
                             \/ pc = "cache" /\ Apply(Safe[d], EntryFor(d))
    BY <1>3
  <2>2. CASE pc = "cache"
    BY <1>3, <2>1, <2>2, CachingCached
  <2>3. CASE pc = "fetch"
    <3>1. UNCHANGED cm /\ pc' \in {"fetch", "cache", "index"}
      BY <2>1, <2>3 DEF NextSync
    <3> QED
      BY <1>3, <2>3, <3>1 DEF Good, CachedSoFar, Backed, Cached, objVars
  <2> QED
    BY <1>3, <2>2, <2>3
<1>4. CASE pc = "index" /\ held' = Succeeded(held, TRUE) /\ pc' = "finish"
           /\ UNCHANGED <<objVars, syncVars, cm>>
  <2>1. \A d \in Dir : Cached(d) => Cached(d)'
    BY <1>4 DEF Cached, objVars
  <2> QED
    BY <1>4, <2>1, SucceededCached
<1> QED
  BY <1>1, <1>2, <1>3, <1>4 DEF Fault, copyVars

LEMMA ReconcileCached == ASSUME Good, OwnEntries, Reconcile PROVE CachedSoFar'
<1>1. CASE Report \/ Finish
  <2>1. /\ pc # "idle" /\ Finished /\ UNCHANGED cm /\ (SaveStatus \/ UNCHANGED objVars)
    BY <1>1 DEF Report, Finish, Later, Again
  <2> QED
    BY <2>1, EndCached
<1> QED
  BY <1>1, BeginCached, CleanupCached, RetryStatusCached, AnnounceCached, AuthenticateCached,
     ListServersCached, FetchSpecCached, CacheServerCached, CacheIndexCached DEF Reconcile

\* The users, the garbage collector and the rest.
LEMMA NewGenerationCached ==
  ASSUME Good, NEW o \in Object, Outside(o), reg.uid # 0, o.uid = reg.uid,
         o.phase = reg.phase, o.errors = reg.errors, o.servers = reg.servers,
         o.deleting \in {TRUE, reg.deleting}
  PROVE  CachedSoFar'
<1>1. /\ reg' = o /\ seen' = seen /\ held' = held /\ pc' = pc /\ found' = found
      /\ todo' = todo /\ errs' = errs /\ cm' = cm
  BY DEF Outside, syncVars
<1>2. CASE o.deleting = TRUE
  BY <1>1, <1>2 DEF Good, CachedSoFar
<1>3. CASE o.deleting = reg.deleting
  <2>1. Specs' = Specs /\ \A d \in Dir : Cached(d)' <=> Cached(d)
    BY <1>1 DEF Specs, Cached
  <2>2. Specs \subseteq Dir /\ reg.servers \subseteq Dir /\ seen.servers \subseteq Dir
        /\ held.servers \subseteq Dir
    BY GoodTypes DEF Specs, Object
  <2>3. reg.uid # 0 /\ ~reg.deleting => Backed(reg)' /\ Backed(seen)' /\ Backed(held)'
    BY <1>1, <2>1, <2>2 DEF Good, CachedSoFar, Backed
  <2> QED
    BY <1>1, <1>3, <2>1, <2>2, <2>3 DEF Good, CachedSoFar
<1> QED
  BY <1>2, <1>3

LEMMA GoneCached == ASSUME Good, Outside(Absent) PROVE CachedSoFar'
<1>1. /\ reg' = Absent /\ seen' = seen /\ held' = held /\ pc' = pc /\ found' = found
      /\ Absent.uid = 0
  BY DEF Outside, syncVars, Absent
<1> QED
  BY <1>1 DEF Good, CachedSoFar

LEMMA CreateCached == ASSUME Good, MaxCreates = 1, CreateRegistry PROVE CachedSoFar'
<1>1. creates = 0
  BY DEF CreateRegistry, Good, Inv, TypeOK
<1>2. PICK src \in Source : Outside(Created(src))
  BY DEF CreateRegistry
<1>3. /\ seen' = Absent /\ held' = Absent /\ pc' = "idle" /\ found' = found
      /\ pc = "idle" /\ Absent.uid = 0 /\ Absent.deleting = FALSE
  BY <1>1, <1>2 DEF Outside, Good, Provenance, syncVars, Absent
<1>4. reg'.uid = 1 /\ reg'.phase = "None" /\ reg'.deleting = FALSE
  <2>1. reg' = Created(src)
    BY <1>2 DEF Outside
  <2>2. creates \in Nat /\ creates + 1 = 1
    BY <1>1
  <2> QED
    BY <2>1, <2>2, CreatedIsObject
<1> QED
  BY <1>3, <1>4 DEF Good, CachedSoFar, Backed

LEMMA EditCached == ASSUME Good, EditRegistry PROVE CachedSoFar'
<1>1. PICK src \in Source : Outside([reg EXCEPT !.gen = @ + 1, !.source = src])
  BY DEF EditRegistry
<1> DEFINE o == [reg EXCEPT !.gen = @ + 1, !.source = src]
<1>2. reg \in Object /\ reg.gen + 1 \in Nat /\ reg.uid # 0
  BY GoodTypes DEF EditRegistry, Object
<1>3. o \in Object
  BY <1>2, WritesAreObjects
<1>4. /\ o.uid = reg.uid /\ o.phase = reg.phase /\ o.errors = reg.errors
      /\ o.servers = reg.servers /\ o.deleting = reg.deleting
  BY <1>2 DEF Object
<1>5. Outside(o)
  BY <1>1
<1> HIDE DEF o
<1> QED
  BY <1>2, <1>3, <1>4, <1>5, NewGenerationCached

LEMMA DeleteCached ==
  ASSUME Good, NEW foreground \in BOOLEAN, DeleteRegistry(foreground)
  PROVE  CachedSoFar'
<1>1. reg \in Object /\ reg.gen + 1 \in Nat /\ reg.uid # 0
  BY GoodTypes DEF DeleteRegistry, Object
<1>2. CASE foreground
  <2> DEFINE o == [reg EXCEPT !.gen = @ + 1, !.deleting = TRUE]
  <2>1. o \in Object
    BY <1>1, WritesAreObjects
  <2>2. /\ o.uid = reg.uid /\ o.phase = reg.phase /\ o.errors = reg.errors
        /\ o.servers = reg.servers /\ o.deleting = TRUE
    BY <1>1 DEF Object
  <2>3. Outside(o)
    BY <1>2 DEF DeleteRegistry
  <2> HIDE DEF o
  <2> QED
    BY <1>1, <2>1, <2>2, <2>3, NewGenerationCached
<1>3. CASE ~foreground
  BY <1>3, GoneCached DEF DeleteRegistry
<1> QED
  BY <1>2, <1>3

\* What the garbage collector takes is not the live registry's.
LEMMA CollectCached == ASSUME Good, NEW e \in Entry, Collect(e) PROVE CachedSoFar'
<1> USE DEF objVars, copyVars, syncVars
<1>1. /\ UNCHANGED <<reg, seen, held, pc, found, todo, errs>>
      /\ cm' = [cm EXCEPT ![e] = NoConfigMap]
      /\ cm[e].owner # reg.uid \/ reg.deleting
  BY DEF Collect
<1>2. CASE reg.deleting
  BY <1>1, <1>2 DEF Good, CachedSoFar
<1>3. CASE cm[e].owner # reg.uid
  <2>1. ASSUME NEW d \in Dir, Cached(d) PROVE Cached(d)'
    <3>1. Safe[d] # e /\ Safe[d] \in Entry
      BY <1>3, <2>1, ConstantsAssumption DEF Cached
    <3> QED
      BY <1>1, <2>1, <3>1, GoodTypes DEF Cached
  <2>2. ASSUME NEW o \in Object, Backed(o)
        PROVE  o.uid # 0 /\ o.phase = "Ready" /\ ~o.errors => \A d \in o.servers : Cached(d)'
    BY <1>1, <2>1, <2>2, StillBacked
  <2>3. Specs \subseteq Dir /\ Specs' = Specs
    BY <1>1 DEF Specs
  <2>4. reg.uid # 0 /\ ~reg.deleting =>
          Backed(reg)' /\ Backed(seen)' /\ Backed(held)'
    BY <1>1, <2>2, GoodTypes DEF Good, CachedSoFar, Backed
  <2> QED
    BY <1>1, <2>1, <2>3, <2>4 DEF Good, CachedSoFar
<1> QED
  BY <1>1, <1>2, <1>3

LEMMA NextCached ==
  ASSUME Good, OwnEntries, MaxCreates = 1, [Next]_vars
  PROVE  CachedSoFar'
<1> USE DEF objVars, copyVars, syncVars
<1>1. CASE Deliver
  <2>1. seen' = reg /\ UNCHANGED <<reg, held, pc, found, todo, errs, cm>>
    BY <1>1 DEF Deliver
  <2> QED
    BY <2>1 DEF Good, CachedSoFar, Backed, Cached, Specs
<1>2. CASE Fire \/ Push \/ EditSecret \/ UNCHANGED vars
  <2>1. UNCHANGED <<reg, seen, held, pc, found, todo, errs, cm>>
    BY <1>2 DEF Fire, Push, EditSecret, vars
  <2> QED
    BY <2>1 DEF Good, CachedSoFar, Backed, Cached, Specs
<1>3. CASE FinishForeground
  BY <1>3, GoneCached DEF FinishForeground
<1>4. CASE Restart
  <2>1. /\ reg' = reg /\ seen' = reg /\ held' = Absent /\ pc' = "idle" /\ cm' = cm
        /\ Absent.uid = 0 /\ Absent.deleting = FALSE /\ \A d \in Dir : found'[d] = None
    BY <1>4 DEF Restart, Finished, Absent
  <2> QED
    BY <2>1 DEF Good, CachedSoFar, Backed, Cached
<1> QED
  BY <1>1, <1>2, <1>3, <1>4, ReconcileCached, FaultCached, CreateCached, EditCached,
     DeleteCached, CollectCached DEF Next

THEOREM CachedSoFarHolds == MaxCreates = 1 /\ OwnEntries => (Spec => []CachedSoFar)
<1> SUFFICES ASSUME MaxCreates = 1, OwnEntries PROVE Spec => []CachedSoFar
  OBVIOUS
<1>1. Init => CachedSoFar
  BY DEF Init, CachedSoFar, Backed, Absent
<1>2. Inv /\ Provenance /\ CachedSoFar /\ [Next]_vars => CachedSoFar'
  BY NextCached DEF Good
<1> QED
  BY <1>1, <1>2, InvHolds, ProvenanceHolds, PTL DEF Spec

\* If the registry is not created anew and no two directories share a ConfigMap,
\* every server that a Ready status without errors lists has its ConfigMap, owned by
\* the registry: whatever fails during the synchronisation, whatever the garbage
\* collector does, and whichever version the status ends up on.
THEOREM ReadyIsCachedHolds == MaxCreates = 1 /\ OwnEntries => (Spec => []ReadyIsCached)
<1>1. Provenance /\ CachedSoFar => ReadyIsCached
  <2>1. CASE reg.uid = 0
    <3>1. Provenance => reg.phase = "None"
      BY <2>1 DEF Provenance, Absent
    <3> QED
      BY <3>1 DEF ReadyIsCached
  <2>2. CASE reg.uid # 0
    BY <2>2 DEF CachedSoFar, Backed, Cached, ReadyIsCached
  <2> QED
    BY <2>1, <2>2
<1> QED
  BY <1>1, ProvenanceHolds, CachedSoFarHolds, PTL
=============================================================================
