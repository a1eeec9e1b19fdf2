---------------------- MODULE MCPRegistryController ----------------------
(***************************************************************************)
(* The MCPRegistry reconciler (controllers/mcpregistry_controller.go) with *)
(* the registry cache (pkg/registry/cache) and the GitHub synchronisation  *)
(* (pkg/registry): for one MCPRegistry name, the object in all its         *)
(* incarnations, the reconcile cut at its API calls and GitHub requests,   *)
(* the ConfigMaps it applies, and their garbage collection.                *)
(*                                                                         *)
(* The definitions called "Mutant of" are plausible mistakes; they are no  *)
(* part of the model.                                                      *)
(***************************************************************************)
EXTENDS Naturals

CONSTANTS
  Dir,          \* the server directories of a repository
  Entry,        \* the ConfigMap names, less the prefix mcpregistry-<registry>-
  Safe,         \* Safe[d]: the entry of directory d, its DNS-1123 name
  IndexEntry,   \* the entry of the registry index
  Source,       \* what users write in spec.url or spec.source: repositories
  Invalid,      \* those the reconciler refuses (neither a url nor github)
  Private,      \* those that come with spec.auth.secretRef
  Content,      \* what a server.yaml may say
  None,         \* no server.yaml; no directory; no source
  Attempts,     \* Steps of updateStatusWithRetry
  MaxCreates,   \* bound: incarnations of the registry
  MaxEdits,     \* bound: user operations
  MaxPushes,    \* bound: changes of the repositories
  MaxFaults,    \* bound: calls and requests that fail for reasons of their own
  MaxRestarts   \* bound: restarts of the manager

ASSUME ConstantsAssumption ==
  /\ Safe \in [Dir -> Entry]
  /\ IndexEntry \in Entry
  /\ Invalid \subseteq Source /\ Private \subseteq Source
  /\ None \notin Dir \cup Source \cup Content
  /\ Attempts \in Nat \ {0}
  /\ {MaxCreates, MaxEdits, MaxPushes, MaxFaults, MaxRestarts} \subseteq Nat

VARIABLES
  reg,        \* the MCPRegistry object, as the API server stores it
  seen,       \* the informer's copy
  fresh,      \* the informer has delivered the current version
  queued,     \* the key is in the work queue
  timer,      \* a RequeueAfter is pending
  pc,         \* the stage of the running reconcile
  held,       \* the copy it works on
  heldFresh,  \* that copy has the current resource version
  tries,      \* conflicts of the status update in progress
  found,      \* the specs read from GitHub so far
  todo,       \* the directories still to be read, or to be cached
  errs,       \* some directory could not be read or cached
  cm,         \* the ConfigMaps
  repo,       \* repo[src][d]: server.yaml of directory d
  secret,     \* the Secret holds the key
  creates, edits, pushes, faults, restarts

objVars  == <<reg, seen, fresh>>
copyVars == <<held, heldFresh, tries>>
syncVars == <<found, todo, errs>>
envVars  == <<repo, secret>>
bounds   == <<creates, edits, pushes, faults, restarts>>
vars     == <<reg, seen, fresh, queued, timer, pc, held, heldFresh, tries,
              found, todo, errs, cm, repo, secret, creates, edits, pushes,
              faults, restarts>>

(***************************************************************************)
(* Objects.  An absent object has uid 0.  "revision" is the source that    *)
(* status.observedRevision and status.servers were read from.              *)
(***************************************************************************)
Phase == {"None", "Syncing", "Ready", "Failed"}

Object ==
  [uid : Nat, gen : Nat, source : Source \cup {None}, deleting : BOOLEAN,
   phase : Phase, synced : {"Unset", "True", "False"}, observed : Nat,
   revision : Source \cup {None}, servers : SUBSET Dir, errors : BOOLEAN]

Absent ==
  [uid |-> 0, gen |-> 0, source |-> None, deleting |-> FALSE, phase |-> "None",
   synced |-> "Unset", observed |-> 0, revision |-> None, servers |-> {},
   errors |-> FALSE]

ConfigMap ==
  [exists : BOOLEAN, owner : Nat, dir : Dir \cup {None},
   content : Content \cup {None}]

NoConfigMap == [exists |-> FALSE, owner |-> 0, dir |-> None, content |-> None]

\* The stages that end in updateStatusWithRetry, and all of them.
StatusStage == {"announce", "report", "finish"}
Stage == StatusStage \cup {"idle", "cleanup", "auth", "list", "fetch", "cache", "index"}

\* Mutant of WithStatus: the retry claims the generation it has just read.
WithStatusClaiming(o, copy) ==
  [o EXCEPT !.phase = copy.phase, !.synced = copy.synced,
            !.observed = o.gen, !.revision = copy.revision,
            !.servers = copy.servers, !.errors = copy.errors]

WithStatus(o, copy) ==
  [o EXCEPT !.phase = copy.phase, !.synced = copy.synced,
            !.observed = copy.observed, !.revision = copy.revision,
            !.servers = copy.servers, !.errors = copy.errors]

\* The directories whose server.yaml was read.
Specs == {d \in Dir : found[d] # None}

Init ==
  /\ reg = Absent /\ seen = Absent /\ fresh = TRUE
  /\ queued = FALSE /\ timer = FALSE
  /\ pc = "idle" /\ held = Absent /\ heldFresh = FALSE /\ tries = 0
  /\ found = [d \in Dir |-> None] /\ todo = {} /\ errs = FALSE
  /\ cm = [e \in Entry |-> NoConfigMap]
  /\ repo \in [Source -> [Dir -> Content \cup {None}]]
  /\ secret \in BOOLEAN
  /\ creates = 0 /\ edits = 0 /\ pushes = 0 /\ faults = 0 /\ restarts = 0

(***************************************************************************)
(* The ends of a reconcile.                                                *)
(***************************************************************************)
Finished ==
  /\ pc' = "idle"
  /\ held' = Absent /\ heldFresh' = FALSE /\ tries' = 0
  /\ found' = [d \in Dir |-> None] /\ todo' = {} /\ errs' = FALSE

\* Mutant of Later: nothing is asked for.
LaterNever == Finished /\ UNCHANGED <<timer, queued>>

\* RequeueAfter.
Later == Finished /\ timer' = TRUE /\ UNCHANGED queued

\* Mutant of Again: the error is logged and nil is returned.
AgainDropped == Finished /\ UNCHANGED <<queued, timer>>

\* An error: the rate-limited queue.
Again == Finished /\ queued' = TRUE /\ UNCHANGED timer

(***************************************************************************)
(* The reconcile.                                                          *)
(***************************************************************************)
\* Mutant of Begin: the deletion timestamp is not looked at.
BeginUnchecked ==
  /\ queued /\ pc = "idle"
  /\ queued' = FALSE
  /\ IF seen.uid = 0
     THEN UNCHANGED <<pc, held, heldFresh>>
     ELSE /\ heldFresh' = fresh
          /\ \/ /\ seen.source \in Invalid
                /\ held' = [seen EXCEPT !.synced = "False"] /\ pc' = "report"
             \/ /\ seen.source \notin Invalid
                /\ held' = [seen EXCEPT !.phase = "Syncing"] /\ pc' = "announce"
  /\ UNCHANGED <<objVars, timer, tries, syncVars, cm, envVars, bounds>>

\* Fetch, deletion, configuration check.
Begin ==
  /\ queued /\ pc = "idle"
  /\ queued' = FALSE
  /\ IF seen.uid = 0
     THEN UNCHANGED <<pc, held, heldFresh>>
     ELSE /\ heldFresh' = fresh
          /\ \/ /\ seen.deleting
                /\ held' = seen /\ pc' = "cleanup"
             \/ /\ ~seen.deleting /\ seen.source \in Invalid
                /\ held' = [seen EXCEPT !.synced = "False"] /\ pc' = "report"
             \/ /\ ~seen.deleting /\ seen.source \notin Invalid
                /\ held' = [seen EXCEPT !.phase = "Syncing"] /\ pc' = "announce"
  /\ UNCHANGED <<objVars, timer, tries, syncVars, cm, envVars, bounds>>

\* handleDeletion: of the ConfigMaps its cache shows, CleanupRegistry deletes
\* those it can; errors are only logged.
Cleanup ==
  /\ pc = "cleanup"
  /\ \E gone \in SUBSET {e \in Entry : cm[e].exists} :
       /\ cm' = [e \in Entry |-> IF e \in gone THEN NoConfigMap ELSE cm[e]]
       /\ Finished
       /\ queued' = (queued \/ gone # {})
  /\ UNCHANGED <<objVars, timer, envVars, bounds>>

\* An attempt of updateStatusWithRetry that succeeds.
SaveStatus ==
  /\ heldFresh
  /\ reg' = WithStatus(reg, held)
  /\ fresh' = (fresh /\ reg' = reg)
  /\ UNCHANGED seen

\* An attempt that ends it: the object is gone, or it is the last conflict.
GivesUp == ~heldFresh /\ (reg.uid = 0 \/ tries = Attempts - 1)

\* Mutant of RetryStatus: conflicts are not counted.
RetryStatusForever ==
  /\ pc \in StatusStage
  /\ ~heldFresh /\ reg.uid # 0
  /\ tries' = tries + 1
  /\ IF seen.uid # 0
     THEN held' = WithStatus(seen, held) /\ heldFresh' = fresh
     ELSE UNCHANGED <<held, heldFresh>>
  /\ UNCHANGED <<objVars, queued, timer, pc, syncVars, cm, envVars, bounds>>

\* A conflict: carry the status over to what the cache has, and try again.
RetryStatus ==
  /\ pc \in StatusStage
  /\ ~heldFresh /\ reg.uid # 0 /\ tries < Attempts - 1
  /\ tries' = tries + 1
  /\ IF seen.uid # 0
     THEN held' = WithStatus(seen, held) /\ heldFresh' = fresh
     ELSE UNCHANGED <<held, heldFresh>>
  /\ UNCHANGED <<objVars, queued, timer, pc, syncVars, cm, envVars, bounds>>

Announce ==
  /\ pc = "announce"
  /\ \/ /\ SaveStatus
        /\ pc' = "auth" /\ tries' = 0
        /\ UNCHANGED <<queued, timer, held, heldFresh, syncVars>>
     \/ GivesUp /\ Again /\ UNCHANGED objVars
  /\ UNCHANGED <<cm, envVars, bounds>>

Authenticate ==
  /\ pc = "auth"
  /\ IF held.source \in Private /\ ~secret
     THEN pc' = "report" /\ held' = [held EXCEPT !.synced = "False"]
     ELSE pc' = "list" /\ UNCHANGED held
  /\ UNCHANGED <<objVars, queued, timer, heldFresh, tries, syncVars, cm,
                 envVars, bounds>>

\* The status of a reconcile that goes no further; its error is only logged.
Report ==
  /\ pc = "report"
  /\ \/ SaveStatus
     \/ GivesUp /\ UNCHANGED objVars
  /\ Later
  /\ UNCHANGED <<cm, envVars, bounds>>

\* SyncRegistry returns an error.
SyncFails ==
  /\ held' = [held EXCEPT !.phase = "Failed", !.synced = "False"]
  /\ pc' = "report"
  /\ UNCHANGED <<objVars, queued, timer, heldFresh, tries, syncVars, cm>>

\* A retry of the status may have brought in a source that does not pass.
ListServers ==
  /\ pc = "list"
  /\ \/ held.source \in Invalid /\ SyncFails
     \/ /\ held.source \notin Invalid
        /\ todo' = {d \in Dir : repo[held.source][d] # None}
        /\ pc' = IF todo' = {} THEN "index" ELSE "fetch"
        /\ UNCHANGED <<objVars, queued, timer, copyVars, found, errs, cm>>
  /\ UNCHANGED <<envVars, bounds>>

\* What follows when todo = rest; specs are the directories to be cached.
NextSync(rest, specs) ==
  IF rest # {} THEN /\ todo' = rest /\ UNCHANGED pc
  ELSE IF pc = "fetch" /\ specs # {}
  THEN /\ todo' = specs /\ pc' = "cache"
  ELSE /\ todo' = {} /\ pc' = "index"

\* A server.yaml that is gone since the listing is skipped without an error.
FetchSpec(d) ==
  /\ pc = "fetch" /\ d \in todo
  /\ found' = [found EXCEPT ![d] = repo[held.source][d]]
  /\ NextSync(todo \ {d}, {x \in Dir : found'[x] # None})
  /\ UNCHANGED <<objVars, queued, timer, copyVars, errs, cm, envVars, bounds>>

\* A server-side apply with forced ownership: content and owner are replaced.
Apply(e, m) ==
  /\ cm' = [cm EXCEPT ![e] = m]
  /\ queued' = (queued \/ m # cm[e])

\* Mutant of EntryFor: no controller reference.
EntryForNobody(d) ==
  [exists |-> TRUE, owner |-> 0, dir |-> d, content |-> found[d]]

EntryFor(d) ==
  [exists |-> TRUE, owner |-> held.uid, dir |-> d, content |-> found[d]]

CacheServer(d) ==
  /\ pc = "cache" /\ d \in todo
  /\ Apply(Safe[d], EntryFor(d))
  /\ NextSync(todo \ {d}, {})
  /\ UNCHANGED <<objVars, timer, copyVars, found, errs, envVars, bounds>>

\* Mutant of Succeeded: the errors of the cache are left out of the status.
SucceededQuietly(o, failed) ==
  [o EXCEPT !.phase = "Ready", !.synced = "True", !.observed = o.gen,
            !.revision = o.source, !.servers = Specs, !.errors = FALSE]

\* The status of a synchronisation that was carried through.
Succeeded(o, failed) ==
  [o EXCEPT !.phase = "Ready", !.synced = "True", !.observed = o.gen,
            !.revision = o.source, !.servers = Specs, !.errors = failed]

\* The index holds the time it was written: it changes with every apply.
CacheIndex ==
  /\ pc = "index"
  /\ cm' = [cm EXCEPT ![IndexEntry] =
              [exists |-> TRUE, owner |-> held.uid, dir |-> None, content |-> None]]
  /\ queued' = TRUE
  /\ held' = Succeeded(held, errs)
  /\ pc' = "finish"
  /\ UNCHANGED <<objVars, timer, heldFresh, tries, syncVars, envVars, bounds>>

Finish ==
  /\ pc = "finish"
  /\ \/ SaveStatus /\ Later
     \/ GivesUp /\ Again /\ UNCHANGED objVars
  /\ UNCHANGED <<cm, envVars, bounds>>

\* A call or a request that fails by itself, or whose answer is lost.
Fault ==
  /\ faults < MaxFaults
  /\ faults' = faults + 1
  /\ \/ /\ pc \in StatusStage
        /\ SaveStatus \/ UNCHANGED objVars
        /\ IF pc = "report" THEN Later ELSE Again   \* logged; returned
        /\ UNCHANGED cm
     \/ pc = "list" /\ SyncFails
     \/ /\ pc \in {"fetch", "cache"}                \* that server is skipped
        /\ \E d \in todo :
             /\ NextSync(todo \ {d}, Specs)
             /\ \/ UNCHANGED <<queued, cm>>
                \/ pc = "cache" /\ Apply(Safe[d], EntryFor(d))
        /\ errs' = TRUE
        /\ UNCHANGED <<objVars, timer, copyVars, found>>
     \/ /\ pc = "index"                             \* the index is left out
        /\ held' = Succeeded(held, TRUE)
        /\ pc' = "finish"
        /\ UNCHANGED <<objVars, queued, timer, heldFresh, tries, syncVars, cm>>
  /\ UNCHANGED <<envVars, creates, edits, pushes, restarts>>

Reconcile ==
  \/ Begin \/ Cleanup \/ RetryStatus \/ Announce \/ Authenticate \/ Report
  \/ ListServers
  \/ \E d \in Dir : FetchSpec(d) \/ CacheServer(d)
  \/ CacheIndex \/ Finish

(***************************************************************************)
(* Events, users, repositories, the garbage collector.                     *)
(***************************************************************************)
Deliver ==
  /\ ~fresh
  /\ seen' = reg /\ fresh' = TRUE /\ queued' = TRUE
  /\ UNCHANGED <<reg, timer, pc, copyVars, syncVars, cm, envVars, bounds>>

Fire ==
  /\ timer
  /\ timer' = FALSE /\ queued' = TRUE
  /\ UNCHANGED <<objVars, pc, copyVars, syncVars, cm, envVars, bounds>>

Outside(o) ==
  /\ reg' = o /\ fresh' = FALSE /\ heldFresh' = FALSE
  /\ UNCHANGED <<seen, queued, timer, pc, held, tries, syncVars, cm, envVars,
                 pushes, faults, restarts>>

\* A new incarnation.
Created(src) == [Absent EXCEPT !.uid = creates + 1, !.gen = 1, !.source = src]

CreateRegistry ==
  /\ reg.uid = 0 /\ creates < MaxCreates
  /\ creates' = creates + 1
  /\ \E src \in Source : Outside(Created(src))
  /\ UNCHANGED edits

EditRegistry ==
  /\ reg.uid # 0 /\ edits < MaxEdits
  /\ edits' = edits + 1
  /\ \E src \in Source \ {reg.source} :
       Outside([reg EXCEPT !.gen = @ + 1, !.source = src])
  /\ UNCHANGED creates

DeleteRegistry(foreground) ==
  /\ reg.uid # 0 /\ ~reg.deleting /\ edits < MaxEdits
  /\ edits' = edits + 1
  /\ Outside(IF foreground THEN [reg EXCEPT !.gen = @ + 1, !.deleting = TRUE]
             ELSE Absent)
  /\ UNCHANGED creates

\* The garbage collector removes the ConfigMaps whose owner does not exist any
\* more, by uid, or is being deleted in the foreground; in the end the latter.
Collect(e) ==
  /\ cm[e].owner # 0
  /\ cm[e].owner # reg.uid \/ reg.deleting
  /\ cm' = [cm EXCEPT ![e] = NoConfigMap]
  /\ queued' = TRUE
  /\ UNCHANGED <<objVars, timer, pc, copyVars, syncVars, envVars, bounds>>

FinishForeground ==
  /\ reg.deleting
  /\ \A e \in Entry : cm[e].owner # reg.uid
  /\ Outside(Absent)
  /\ UNCHANGED <<creates, edits>>

Push ==
  /\ pushes < MaxPushes
  /\ pushes' = pushes + 1
  /\ \E src \in Source, d \in Dir, c \in Content \cup {None} :
       c # repo[src][d] /\ repo' = [repo EXCEPT ![src][d] = c]
  /\ UNCHANGED <<objVars, queued, timer, pc, copyVars, syncVars, cm, secret,
                 creates, edits, faults, restarts>>

EditSecret ==
  /\ edits < MaxEdits
  /\ edits' = edits + 1
  /\ secret' = ~secret
  /\ UNCHANGED <<objVars, queued, timer, pc, copyVars, syncVars, cm, repo,
                 creates, pushes, faults, restarts>>

Restart ==
  /\ restarts < MaxRestarts
  /\ restarts' = restarts + 1
  /\ seen' = reg /\ fresh' = TRUE
  /\ queued' = (reg.uid # 0) /\ timer' = FALSE
  /\ Finished
  /\ UNCHANGED <<reg, cm, envVars, creates, edits, pushes, faults>>

Next ==
  \/ Reconcile \/ Fault
  \/ Deliver \/ Fire
  \/ CreateRegistry \/ EditRegistry
  \/ \E foreground \in BOOLEAN : DeleteRegistry(foreground)
  \/ \E e \in Entry : Collect(e)
  \/ FinishForeground
  \/ Push \/ EditSecret \/ Restart

Spec == Init /\ [][Next]_vars

\* The worker, the watch, the timer and the garbage collector do their work;
\* users, repositories, faults and restarts owe nothing.
Fairness ==
  /\ WF_vars(Reconcile)
  /\ WF_vars(Deliver)
  /\ WF_vars(Fire)
  /\ WF_vars(\E e \in Entry : Collect(e))
  /\ WF_vars(FinishForeground)

FairSpec == Spec /\ Fairness

(***************************************************************************)
(* Safety.                                                                 *)
(***************************************************************************)
\* Every variable has its type.
TypeOK ==
  /\ {reg, seen, held} \subseteq Object
  /\ {fresh, heldFresh, queued, timer, errs, secret} \subseteq BOOLEAN
  /\ pc \in Stage
  /\ tries \in 0 .. Attempts - 1
  /\ found \in [Dir -> Content \cup {None}]
  /\ todo \subseteq Dir
  /\ cm \in [Entry -> ConfigMap]
  /\ repo \in [Source -> [Dir -> Content \cup {None}]]
  /\ creates \in 0 .. MaxCreates
  /\ edits \in 0 .. MaxEdits
  /\ pushes \in 0 .. MaxPushes
  /\ faults \in 0 .. MaxFaults
  /\ restarts \in 0 .. MaxRestarts

\* Nothing but a timer would start a reconcile.
Quiet == ~queued /\ pc = "idle" /\ fresh

\* A registry is never forgotten: however its last reconcile ended, it is in the
\* queue, has an event on its way, or a RequeueAfter pending.
NeverForgotten == Quiet /\ reg.uid # 0 /\ ~reg.deleting => timer

\* A status that says Synced=True for the current generation describes what the
\* current spec points to, although the spec may change at any time during a
\* synchronisation and the status is carried over to the newer object.
\* It needs that the registry is not deleted and created anew (MaxCreates = 1).
SyncedFitsSpec ==
  reg.synced = "True" /\ reg.observed = reg.gen => reg.revision = reg.source

\* Every server a Ready status lists has its ConfigMap, unless status.errors says
\* that something went wrong.  It needs different entries for different
\* directories, and MaxCreates = 1.
ReadyIsCached ==
  reg.phase = "Ready" /\ ~reg.errors /\ ~reg.deleting =>
    \A d \in reg.servers : cm[Safe[d]].owner = reg.uid /\ cm[Safe[d]].dir = d

(***************************************************************************)
(* Liveness, under FairSpec.                                               *)
(***************************************************************************)
\* The registry settles on a source it can read.
Settles(src) ==
  <>[](/\ reg.uid # 0 /\ ~reg.deleting /\ reg.source = src
       /\ src \in Private => secret)

\* A registry that settles on a source ends up with every server of it cached,
\* as it is there and owned by the registry's current incarnation.
CacheConverges ==
  \A src \in Source \ Invalid :
    Settles(src) =>
      <>[](\A d \in Dir : repo[src][d] # None =>
             cm[Safe[d]] = [exists |-> TRUE, owner |-> reg.uid, dir |-> d,
                            content |-> repo[src][d]])

\* A registry that is deleted for good leaves no ConfigMaps behind, although a
\* reconcile in progress may still apply some.
DeletionCleans == <>[](reg.uid = 0) => <>[](\A e \in Entry : ~cm[e].exists)

\* A foreground deletion completes, although such a reconcile may apply
\* ConfigMaps the garbage collector waits for.
ForegroundCompletes == reg.deleting ~> ~reg.deleting
=============================================================================
