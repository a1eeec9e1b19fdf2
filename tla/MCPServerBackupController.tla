--------------------- MODULE MCPServerBackupController ---------------------
(***************************************************************************)
(* The MCPServerBackup reconciler                                          *)
(* (controllers/mcpserverbackup_controller.go): the backups of one         *)
(* MCPServer, the single worker that reconciles them, the retention by     *)
(* which one backup deletes others, and the clean-up before a backup goes. *)
(* No main function registers this reconciler; the module models what it   *)
(* does once one does.                                                     *)
(*                                                                         *)
(* The definitions called "Mutant of" are plausible mistakes; they are no  *)
(* part of the model.                                                      *)
(***************************************************************************)
EXTENDS Naturals, FiniteSets

CONSTANTS
  Backup,       \* the names of MCPServerBackup objects
  Labelled,     \* those with the label the retention selects by
  Within,       \* <<b, x>>: the name of b is a part of the name of x
  Wanted,       \* the specs users write
  Content,      \* what the spec of the MCPServer may be
  None,         \* no MCPServer; no data
  KeepLast,     \* spec.retentionPolicy.keepLast; None if unset
  Aged,         \* spec.retentionPolicy.maxAge is set
  Ties,         \* two backups may be created within one second
  MaxCreates,   \* bound: backups created
  MaxEdits,     \* bound: other writes of users
  MaxDeletes,   \* bound: backups deleted by users
  MaxTicks,     \* bound: activations of the schedule
  MaxFaults,    \* bound: calls that fail for reasons of their own
  MaxRestarts   \* bound: restarts of the manager

\* GCS and Azure, the placeholders, behave alike, and as S3 without its settings;
\* "Unset" is any other type.
WrittenSpec ==
  [schedule : {"None", "Cron", "Invalid"}, suspend : BOOLEAN,
   storage : {"Local", "S3", "Placeholder", "Unset"}]

ASSUME ConstantsAssumption ==
  /\ IsFiniteSet(Backup)
  /\ Labelled \subseteq Backup
  /\ Within \subseteq Backup \X Backup /\ \A b \in Backup : <<b, b>> \in Within
  /\ Wanted \subseteq WrittenSpec
  /\ None \notin Content \cup Backup
  /\ KeepLast \in Nat \cup {None} /\ None \notin Nat
  /\ {Aged, Ties} \subseteq BOOLEAN
  /\ {MaxCreates, MaxEdits, MaxDeletes, MaxTicks, MaxFaults, MaxRestarts} \subseteq Nat

VARIABLES
  obj,         \* the MCPServerBackup objects, as the API server stores them
  seen,        \* the informer's copies
  fresh,       \* fresh[b]: the informer has delivered the current version
  queue,       \* the work queue
  timer,       \* the keys with a RequeueAfter pending
  cur,         \* the key of the running reconcile
  pc,          \* its stage
  held,        \* the copy it works on
  heldFresh,   \* that copy has the current resource version
  copied,      \* the spec of the MCPServer it has read
  doomed,      \* the backups the retention has still to delete
  server,      \* the spec of the MCPServer
  serverSeen,  \* the informer's copy
  remote,      \* the backups with metadata in the S3 bucket
  cloud,       \* S3: it answers, it is down, or the secret is missing
  now,         \* the activations of the schedule so far
  creates, edits, deletes, faults, restarts

objVars  == <<obj, seen, fresh>>
workVars == <<cur, held, heldFresh, copied, doomed>>
envVars  == <<server, serverSeen, remote, cloud, now>>
bounds   == <<creates, edits, deletes, faults, restarts>>
vars     == <<obj, seen, fresh, queue, timer, cur, pc, held, heldFresh, copied,
              doomed, server, serverSeen, remote, cloud, now, creates, edits,
              deletes, faults, restarts>>

(***************************************************************************)
(* Objects.  "born" is the creation time, 0 for an object that is not      *)
(* there; "last" the activation of status.lastScheduleTime, 0 for none.    *)
(***************************************************************************)
Phase == {"None", "Pending", "Running", "Completed", "Failed"}

Unwritten == [schedule |-> "None", suspend |-> FALSE, storage |-> "Unset"]

Object ==
  [born : Nat, spec : WrittenSpec, deleting : BOOLEAN, finalizer : BOOLEAN,
   phase : Phase, last : Nat, data : Content \cup {None}]

Absent ==
  [born |-> 0, spec |-> Unwritten, deleting |-> FALSE, finalizer |-> FALSE,
   phase |-> "None", last |-> 0, data |-> None]

\* The stages that end with a write of the object.
WriteStage == {"protect", "unstore", "unprotect", "running", "report", "processed"}
Stage == WriteStage \cup {"idle", "cleanup", "create", "retain"}

Init ==
  /\ obj = [b \in Backup |-> Absent] /\ seen = obj
  /\ fresh = [b \in Backup |-> TRUE]
  /\ queue = {} /\ timer = {}
  /\ pc = "idle" /\ cur = None /\ held = Absent /\ heldFresh = FALSE
  /\ copied = None /\ doomed = {}
  /\ server \in Content \cup {None} /\ serverSeen = server
  /\ remote \in SUBSET Backup
  /\ cloud \in {"up", "down", "locked"}
  /\ now = 1
  /\ creates = 0 /\ edits = 0 /\ deletes = 0 /\ faults = 0 /\ restarts = 0

Finished ==
  /\ pc' = "idle" /\ cur' = None /\ held' = Absent /\ heldFresh' = FALSE
  /\ copied' = None /\ doomed' = {}

\* A result without an error: nothing more, or a RequeueAfter.
Done  == Finished /\ UNCHANGED <<queue, timer>>
Later == Finished /\ timer' = timer \cup {cur} /\ UNCHANGED queue

\* Mutant of Again: the error is only logged.
AgainDropped == Finished /\ UNCHANGED <<queue, timer>>

\* An error: the rate-limited queue.
Again == Finished /\ queue' = queue \cup {cur} /\ UNCHANGED timer

(***************************************************************************)
(* Writes.                                                                 *)
(***************************************************************************)
\* An Update or a Status().Update of the held copy.  A status carries the present
\* time, to the second: one that is the same otherwise may be a new version or not.
Write ==
  /\ heldFresh
  /\ obj' = [obj EXCEPT ![cur] = held]
  /\ \/ fresh' = [fresh EXCEPT ![cur] = FALSE]
     \/ obj' = obj /\ UNCHANGED fresh
  /\ UNCHANGED seen

\* Every write the API server refuses: the copy is not the current version.
Conflict ==
  /\ pc \in WriteStage /\ ~heldFresh
  /\ Again
  /\ UNCHANGED <<objVars, envVars, bounds>>

\* A Delete: by name, whatever object has it.
Removed(o) == IF o.finalizer THEN [o EXCEPT !.deleting = TRUE] ELSE Absent

Delete(x) ==
  /\ obj' = [obj EXCEPT ![x] = Removed(obj[x])]
  /\ fresh' = [fresh EXCEPT ![x] = fresh[x] /\ obj' = obj]
  /\ heldFresh' = (heldFresh /\ (x = cur => obj' = obj))
  /\ UNCHANGED seen

(***************************************************************************)
(* The reconcile.                                                          *)
(***************************************************************************)
Stores(o) == o.spec.storage = "Local"

\* Mutant of Due: the first activation is not counted.
DueLate(o) == o.last + 1 < now

\* An activation of the schedule has passed since the last one that was served.
Due(o) == o.last < now

\* A backup that is being deleted, or is not protected yet.
Guard(o) ==
  \/ /\ o.deleting
     /\ held' = o /\ pc' = "cleanup" /\ copied' = None
  \/ /\ ~o.deleting /\ ~o.finalizer
     /\ held' = [o EXCEPT !.finalizer = TRUE] /\ pc' = "protect" /\ copied' = None

\* A status update that ends the reconcile.
Reports(o, phase) ==
  held' = [o EXCEPT !.phase = phase] /\ pc' = "report" /\ copied' = None

handleScheduledBackup(o) ==
  \/ o.spec.schedule = "Invalid" /\ Reports(o, "Failed")
  \/ /\ o.spec.schedule = "Cron" /\ ~Due(o)
     /\ held' = [o EXCEPT !.phase = "Completed"] /\ pc' = "processed"
     /\ copied' = None
  \/ o.spec.schedule = "Cron" /\ Due(o) /\ ~Stores(o) /\ Reports(o, "Failed")
  \/ /\ o.spec.schedule = "Cron" /\ Due(o) /\ Stores(o)
     /\ held' = [o EXCEPT !.last = now] /\ pc' = "create"
     /\ copied' = serverSeen

\* Mutant of handleOneTimeBackup: a phase the API does not know.
handleOneTimeBackupUnknown(o) ==
  /\ o.spec.schedule = "None" /\ o.phase # "Completed"
  /\ held' = [o EXCEPT !.phase = "InProgress"] /\ pc' = "running"
  /\ copied' = serverSeen

handleOneTimeBackup(o) ==
  /\ o.spec.schedule = "None" /\ o.phase # "Completed"
  /\ held' = [o EXCEPT !.phase = "Running"] /\ pc' = "running"
  /\ copied' = serverSeen

Handle(o) ==
  \/ Guard(o)
  \/ /\ ~o.deleting /\ o.finalizer
     /\ \/ o.spec.suspend /\ Reports(o, "Pending")
        \/ ~o.spec.suspend /\ serverSeen = None /\ Reports(o, "Failed")
        \/ /\ ~o.spec.suspend /\ serverSeen # None
           /\ handleScheduledBackup(o) \/ handleOneTimeBackup(o)

\* Mutant of Settled: a running backup is left to whoever runs it.
SettledRunning(o) ==
  \/ o.born = 0
  \/ /\ ~o.deleting /\ o.finalizer /\ ~o.spec.suspend /\ serverSeen # None
     /\ o.spec.schedule = "None" /\ o.phase \in {"Running", "Completed"}

\* Nothing is to be done: the object is gone, or the one-time backup is made.
Settled(o) ==
  \/ o.born = 0
  \/ /\ ~o.deleting /\ o.finalizer /\ ~o.spec.suspend /\ serverSeen # None
     /\ o.spec.schedule = "None" /\ o.phase = "Completed"

Begin(b) ==
  /\ pc = "idle" /\ b \in queue
  /\ queue' = queue \ {b}
  /\ IF Settled(seen[b])
     THEN UNCHANGED <<cur, pc, held, heldFresh, copied>>
     ELSE cur' = b /\ heldFresh' = fresh[b] /\ Handle(seen[b])
  /\ UNCHANGED <<objVars, timer, doomed, envVars, bounds>>

Protect ==
  /\ pc = "protect"
  /\ Write /\ Later
  /\ UNCHANGED <<envVars, bounds>>

\* The backups whose metadata the clean-up takes for that of b.
Matched(b) == {x \in Backup : <<b, x>> \in Within}

removeS3BackupMetadata == remote' = remote \ Matched(cur)

cleanupLocalBackup ==
  /\ held.spec.storage = "Local"
  /\ \/ /\ held.data # None
        /\ held' = [held EXCEPT !.data = None] /\ pc' = "unstore"
     \/ /\ held.data = None
        /\ pc' = "unprotect" /\ UNCHANGED held
  /\ UNCHANGED <<queue, timer, cur, heldFresh, copied, doomed, remote>>

\* While S3 is down its listing goes on without end.
cleanupS3Backup ==
  /\ held.spec.storage = "S3" /\ cloud = "up"
  /\ removeS3BackupMetadata
  /\ pc' = "unprotect"
  /\ UNCHANGED <<queue, timer, workVars>>

cleanupGCSBackup ==
  /\ held.spec.storage = "Placeholder"
  /\ pc' = "unprotect"
  /\ UNCHANGED <<queue, timer, workVars, remote>>

\* A type of storage that is not known is an error, as is a missing secret.
Uncleanable ==
  \/ held.spec.storage = "Unset"
  \/ held.spec.storage = "S3" /\ cloud = "locked"

performBackupCleanup ==
  /\ pc = "cleanup"
  /\ \/ cleanupLocalBackup \/ cleanupS3Backup \/ cleanupGCSBackup
     \/ Uncleanable /\ Again /\ UNCHANGED remote
  /\ UNCHANGED <<objVars, server, serverSeen, cloud, now, bounds>>

\* The data of a local backup is cleared before its finalizer is removed.
Unstore ==
  /\ pc = "unstore"
  /\ Write
  /\ pc' = "unprotect"
  /\ UNCHANGED <<queue, timer, workVars, envVars, bounds>>

\* Mutant of Unprotect: a patch that only removes the finalizer.
UnprotectPatched ==
  /\ pc = "unprotect"
  /\ obj' = [obj EXCEPT ![cur] = Absent]
  /\ fresh' = [fresh EXCEPT ![cur] = FALSE]
  /\ Done
  /\ UNCHANGED <<seen, envVars, bounds>>

Unprotect ==
  /\ pc = "unprotect" /\ heldFresh
  /\ obj' = [obj EXCEPT ![cur] = Absent]
  /\ fresh' = [fresh EXCEPT ![cur] = FALSE]
  /\ Done
  /\ UNCHANGED <<seen, envVars, bounds>>

Running ==
  /\ pc = "running"
  /\ Write
  /\ pc' = "create"
  /\ UNCHANGED <<queue, timer, workVars, envVars, bounds>>

\* What the retention finds in the informer: also backups on their way out.
Listed == {x \in Labelled : seen[x].born # 0 /\ seen[x].phase = "Completed"}

\* The choices of enforceRetentionPolicy: the order of backups of one second is any.
Kept ==
  IF KeepLast = 0 THEN {Listed}
  ELSE {k \in SUBSET Listed :
          /\ Cardinality(k) = IF Cardinality(Listed) < KeepLast
                              THEN Cardinality(Listed) ELSE KeepLast
          /\ \A x \in k, y \in Listed \ k : seen[x].born >= seen[y].born}

\* Mutant of Doomed: the list is not sorted.
DoomedUnsorted ==
  IF KeepLast = None THEN {{}}
  ELSE {Listed \ k :
          k \in {j \in SUBSET Listed : \A i \in Kept : Cardinality(j) = Cardinality(i)}}

\* Without keepLast nothing is deleted, with or without a maximal age.
Doomed ==
  IF KeepLast = None THEN {{}}
  ELSE {(Listed \ k) \cup {x \in Listed : seen[x].born <= age} :
          k \in Kept, age \in IF Aged THEN 0 .. creates ELSE {0}}

\* createBackup, and the list of the retention after a scheduled one.
Create ==
  /\ pc = "create"
  /\ \/ /\ held.spec.schedule = "Cron"
        /\ held' = [held EXCEPT !.phase = "Completed", !.data = copied]
        /\ doomed' \in Doomed
        /\ pc' = IF doomed' = {} THEN "processed" ELSE "retain"
     \/ /\ held.spec.schedule = "None" /\ Stores(held)
        /\ held' = [held EXCEPT !.phase = "Completed", !.data = copied]
        /\ pc' = "report" /\ UNCHANGED doomed
     \/ /\ held.spec.schedule = "None" /\ ~Stores(held)
        /\ held' = [held EXCEPT !.phase = "Failed"]
        /\ pc' = "report" /\ UNCHANGED doomed
  /\ UNCHANGED <<objVars, queue, timer, cur, heldFresh, copied, envVars, bounds>>

\* One Delete of the retention.
Retain(x) ==
  /\ pc = "retain" /\ x \in doomed
  /\ Delete(x)
  /\ doomed' = doomed \ {x}
  /\ pc' = IF doomed' = {} THEN "processed" ELSE pc
  /\ UNCHANGED <<queue, timer, cur, held, copied, envVars, bounds>>

Report ==
  /\ pc = "report"
  /\ Write /\ Done
  /\ UNCHANGED <<envVars, bounds>>

\* Mutant of Processed: no requeue for the next activation.
ProcessedOnce ==
  /\ pc = "processed"
  /\ Write /\ Done
  /\ UNCHANGED <<envVars, bounds>>

\* Requeued every minute.
Processed ==
  /\ pc = "processed"
  /\ Write /\ Later
  /\ UNCHANGED <<envVars, bounds>>

\* A call that fails by itself, or whose answer is lost.
Fault ==
  /\ faults < MaxFaults
  /\ faults' = faults + 1
  /\ \/ /\ pc \in WriteStage
        /\ \/ UNCHANGED objVars
           \/ pc # "unprotect" /\ Write
           \/ /\ pc = "unprotect" /\ heldFresh
              /\ obj' = [obj EXCEPT ![cur] = Absent]
              /\ fresh' = [fresh EXCEPT ![cur] = FALSE]
              /\ UNCHANGED seen
        /\ Again
        /\ UNCHANGED remote
     \/ /\ pc = "cleanup" /\ held.spec.storage = "S3" /\ cloud = "up"
        /\ \/ Again /\ (removeS3BackupMetadata \/ UNCHANGED remote)
           \/ pc' = "unprotect" /\ UNCHANGED <<queue, timer, workVars, remote>>
        /\ UNCHANGED objVars
     \/ /\ pc = "retain"
        /\ \/ UNCHANGED <<objVars, heldFresh>>
           \/ \E x \in doomed : Delete(x)
        /\ doomed' = {} /\ pc' = "processed"
        /\ UNCHANGED <<queue, timer, cur, held, copied, remote>>
  /\ UNCHANGED <<server, serverSeen, cloud, now, creates, edits, deletes,
                 restarts>>

(***************************************************************************)
(* Events, time, users, restarts.                                          *)
(***************************************************************************)
Deliver(b) ==
  /\ ~fresh[b]
  /\ seen' = [seen EXCEPT ![b] = obj[b]]
  /\ fresh' = [fresh EXCEPT ![b] = TRUE]
  /\ queue' = queue \cup {b}
  /\ UNCHANGED <<obj, timer, pc, workVars, envVars, bounds>>

\* The informer of MCPServers: nobody watches them for their backups.
DeliverServer ==
  /\ serverSeen # server
  /\ serverSeen' = server
  /\ UNCHANGED <<objVars, queue, timer, pc, workVars, server, remote, cloud, now,
                 bounds>>

Fire(b) ==
  /\ b \in timer
  /\ timer' = timer \ {b}
  /\ queue' = queue \cup {b}
  /\ UNCHANGED <<objVars, pc, workVars, envVars, bounds>>

\* An activation of the schedule.
Tick ==
  /\ now <= MaxTicks
  /\ now' = now + 1
  /\ UNCHANGED <<objVars, queue, timer, pc, workVars, server, serverSeen, remote,
                 cloud, bounds>>

\* A write of a user.
Outside(b, o) ==
  /\ obj' = [obj EXCEPT ![b] = o]
  /\ fresh' = [fresh EXCEPT ![b] = FALSE]
  /\ heldFresh' = (heldFresh /\ b # cur)
  /\ UNCHANGED <<seen, queue, timer, pc, cur, held, copied, doomed, envVars,
                 faults, restarts>>

\* Creation times are of one second: in order, and sometimes the same.
CreateBackup(b) ==
  /\ obj[b].born = 0 /\ creates < MaxCreates
  /\ creates' = creates + 1
  /\ \E spec \in Wanted, born \in {creates, creates + 1} :
       /\ born = creates => Ties /\ creates # 0
       /\ Outside(b, [Absent EXCEPT !.born = born, !.spec = spec])
  /\ UNCHANGED <<edits, deletes>>

\* Also one that leaves the spec as it is, such as that of a label.
EditBackup(b) ==
  /\ obj[b].born # 0 /\ edits < MaxEdits
  /\ edits' = edits + 1
  /\ \E spec \in Wanted : Outside(b, [obj[b] EXCEPT !.spec = spec])
  /\ UNCHANGED <<creates, deletes>>

DeleteBackup(b) ==
  /\ obj[b].born # 0 /\ ~obj[b].deleting /\ deletes < MaxDeletes
  /\ deletes' = deletes + 1
  /\ Outside(b, Removed(obj[b]))
  /\ UNCHANGED <<creates, edits>>

\* The MCPServer is created, edited or deleted; S3 and its secret come and go.
EditAround ==
  /\ edits < MaxEdits
  /\ edits' = edits + 1
  /\ \/ server' \in (Content \cup {None}) \ {server} /\ UNCHANGED cloud
     \/ cloud' \in {"up", "down", "locked"} \ {cloud} /\ UNCHANGED server
  /\ UNCHANGED <<objVars, queue, timer, pc, workVars, serverSeen, remote, now,
                 creates, deletes, faults, restarts>>

Restart ==
  /\ restarts < MaxRestarts
  /\ restarts' = restarts + 1
  /\ seen' = obj /\ fresh' = [b \in Backup |-> TRUE]
  /\ queue' = {b \in Backup : obj[b].born # 0} /\ timer' = {}
  /\ Finished
  /\ serverSeen' = server
  /\ UNCHANGED <<obj, server, remote, cloud, now, creates, edits, deletes, faults>>

\* The steps of a running reconcile.
Proceed ==
  \/ Protect \/ performBackupCleanup \/ Unstore \/ Unprotect \/ Running \/ Create
  \/ \E x \in Backup : Retain(x)
  \/ Report \/ Processed \/ Conflict

Next ==
  \/ \E b \in Backup : Begin(b)
  \/ Proceed \/ Fault
  \/ \E b \in Backup : Deliver(b) \/ Fire(b)
  \/ DeliverServer \/ Tick
  \/ \E b \in Backup : CreateBackup(b) \/ EditBackup(b) \/ DeleteBackup(b)
  \/ EditAround \/ Restart

Spec == Init /\ [][Next]_vars

\* The queue serves every key in its turn; the worker, the informers and the
\* timers do their work.
Fairness ==
  /\ \A b \in Backup : SF_vars(Begin(b)) /\ WF_vars(Deliver(b)) /\ WF_vars(Fire(b))
  /\ WF_vars(Proceed)
  /\ WF_vars(DeliverServer)

FairSpec == Spec /\ Fairness

(***************************************************************************)
(* Safety.                                                                 *)
(***************************************************************************)
\* Every variable has its type.
TypeOK ==
  /\ {obj, seen} \subseteq [Backup -> Object] /\ held \in Object
  /\ fresh \in [Backup -> BOOLEAN] /\ heldFresh \in BOOLEAN
  /\ {queue, timer, doomed, remote} \subseteq SUBSET Backup
  /\ pc \in Stage /\ cur \in Backup \cup {None}
  /\ {copied, server, serverSeen} \subseteq Content \cup {None}
  /\ cloud \in {"up", "down", "locked"}
  /\ now \in 1 .. MaxTicks + 1
  /\ creates \in 0 .. MaxCreates
  /\ edits \in 0 .. MaxEdits
  /\ deletes \in 0 .. MaxDeletes
  /\ faults \in 0 .. MaxFaults
  /\ restarts \in 0 .. MaxRestarts

\* A backup that says it is completed, or that its schedule was served, has the
\* data, although the copy a status is computed from may be of an earlier version
\* or of an earlier object, and the clean-up clears the data.
CompletedHasData ==
  \A b \in Backup :
    ~obj[b].deleting /\ (obj[b].phase = "Completed" \/ obj[b].last # 0)
      => obj[b].data # None

Live == {b \in Backup : obj[b].born # 0 /\ ~obj[b].deleting}

\* While users delete nothing, the retention leaves as many backups with data as
\* it has to keep, although the list it works on may be old and several backups
\* enforce it.
RetentionKeeps ==
  KeepLast # None /\ ~Aged /\ deletes = 0 /\ Cardinality(Live) < creates
  => Cardinality({b \in Live : obj[b].data # None}) >= KeepLast

\* A protected S3 backup does not go before its metadata in the bucket has gone,
\* unless a call has failed by itself, even if its storage is edited meanwhile.
CleanedBeforeGone ==
  [][\A b \in Backup :
       /\ obj[b].finalizer /\ obj[b].spec.storage = "S3" /\ obj'[b].born = 0
       /\ faults = 0
       => b \notin remote]_vars

(***************************************************************************)
(* Liveness, under FairSpec.                                               *)
(***************************************************************************)
\* The backup ends up with a spec, wanted and undisturbed.
Stays(b, schedule) ==
  <>[](/\ obj[b].born # 0 /\ ~obj[b].deleting
       /\ obj[b].spec = [schedule |-> schedule, suspend |-> FALSE, storage |-> "Local"])

\* If the MCPServer was there before, a one-time backup is made, through conflicts
\* and calls that fail.
OneTimeBackupMade ==
  [](serverSeen # None) =>
    \A b \in Backup : Stays(b, "None") => <>[](obj[b].phase = "Completed")

\* Under the same condition, every activation of the schedule is served.
ScheduleServed ==
  [](serverSeen # None) =>
    \A b \in Backup : Stays(b, "Cron") => <>[](obj[b].last = now)

\* If S3 comes back for good and the type of storage is a known one, backups that
\* are being deleted go.
DeletionCompletes ==
  <>[](cloud = "up") =>
    \A b \in Backup :
      <>[](obj[b].spec.storage # "Unset" \/ obj[b].born = 0)
        => (obj[b].deleting ~> ~obj[b].deleting)
=============================================================================
