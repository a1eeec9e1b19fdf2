------------------ MODULE MCPServerBackupControllerProofs ------------------
(***************************************************************************)
(* What TLAPS proves of MCPServerBackupController, for every value of the  *)
(* constants.  RetentionKeepsHolds needs that no two backups are created   *)
(* within one second.                                                      *)
(***************************************************************************)
EXTENDS MCPServerBackupController, FiniteSetTheorems, TLAPS

\* What the status of copy o claims is so.
Backed(o) ==
  ~o.deleting /\ (o.phase = "Completed" \/ o.last # 0) => o.data # None

CleanupStage == {"cleanup", "unstore", "unprotect"}

\* What is stored, and what the informer says of it.
Stored ==
  /\ {obj, seen} \subseteq [Backup -> Object] /\ fresh \in [Backup -> BOOLEAN]
  /\ \A b \in Backup :
       /\ obj[b].finalizer => obj[b].born # 0
       /\ fresh[b] => seen[b] = obj[b]
       /\ Backed(obj[b]) /\ Backed(seen[b])
       /\ obj[b].data # None => seen[b].born = obj[b].born

\* A held copy, with what it changes, is of the present version of object o, and
\* informer's copy s of the same incarnation.
Current(copy, o, s) ==
  /\ copy.born = o.born /\ copy.deleting = o.deleting /\ s.born = o.born
  /\ copy.deleting => copy.phase = o.phase
  /\ ~copy.deleting /\ o.data # None => copy.data # None

\* The running reconcile.  Its copy is backed, but for a scheduled one in "create",
\* which says that the activation was served before it is; and its clean-up, of a
\* backup in S3, was of the version that is stored.
Working ==
  /\ held \in Object /\ heldFresh \in BOOLEAN /\ doomed \subseteq Backup
  /\ pc \in Stage /\ cur \in Backup \cup {None} /\ copied \in Content \cup {None}
  /\ pc = "idle" => ~heldFresh
  /\ pc # "idle" =>
       /\ cur \in Backup /\ held.born # 0
       /\ held.deleting <=> pc \in CleanupStage
       /\ Backed(held) \/ (pc = "create" /\ held.spec.schedule = "Cron")
  /\ heldFresh =>
       /\ Current(held, obj[cur], seen[cur])
       /\ pc \in {"cleanup", "unprotect"} => held = obj[cur]
  /\ pc \in {"running", "create"} => copied # None
  /\ pc # "retain" => doomed = {}
  /\ pc = "unstore" => held.spec.storage = "Local"
  /\ pc = "unprotect" /\ held.spec.storage = "S3" /\ faults = 0 => cur \notin remote

\* Everything else.
Around ==
  /\ {queue, timer, remote} \subseteq SUBSET Backup
  /\ {server, serverSeen} \subseteq Content \cup {None}
  /\ cloud \in {"up", "down", "locked"}
  /\ now \in 1 .. MaxTicks + 1
  /\ creates \in 0 .. MaxCreates
  /\ edits \in 0 .. MaxEdits
  /\ deletes \in 0 .. MaxDeletes
  /\ faults \in 0 .. MaxFaults
  /\ restarts \in 0 .. MaxRestarts

Inv == Stored /\ Working /\ Around

-----------------------------------------------------------------------------
(***************************************************************************)
(* Facts about the operators.                                              *)
(***************************************************************************)
LEMMA AbsentIsObject == Absent \in Object /\ Backed(Absent) /\ Absent.born = 0
BY DEF Absent, Object, Phase, Unwritten, WrittenSpec, Backed

\* What a reconcile makes of its copy is an object.
LEMMA ObjectUpdates ==
  ASSUME NEW o \in Object
  PROVE  /\ [o EXCEPT !.finalizer = TRUE] \in Object
         /\ [o EXCEPT !.deleting = TRUE] \in Object
         /\ [o EXCEPT !.data = None] \in Object
         /\ \A phase \in Phase : [o EXCEPT !.phase = phase] \in Object
         /\ \A n \in Nat : [o EXCEPT !.last = n] \in Object
         /\ \A c \in Content \cup {None} :
              [o EXCEPT !.phase = "Completed", !.data = c] \in Object
         /\ \A s \in WrittenSpec : [o EXCEPT !.spec = s] \in Object
BY DEF Object, Phase

\* The copy stays the same backup.
Same(n, o) ==
  n.born = o.born /\ n.deleting = o.deleting /\ n.spec = o.spec

LEMMA UpdatesKeep ==
  ASSUME NEW o \in Object
  PROVE  /\ Same([o EXCEPT !.finalizer = TRUE], o)
         /\ [o EXCEPT !.finalizer = TRUE].data = o.data
         /\ Same([o EXCEPT !.data = None], o)
         /\ [o EXCEPT !.data = None].phase = o.phase
         /\ \A phase \in Phase :
              /\ Same([o EXCEPT !.phase = phase], o)
              /\ [o EXCEPT !.phase = phase].data = o.data
         /\ \A n \in Nat :
              Same([o EXCEPT !.last = n], o) /\ [o EXCEPT !.last = n].data = o.data
         /\ \A c \in Content \cup {None} :
              /\ Same([o EXCEPT !.phase = "Completed", !.data = c], o)
              /\ [o EXCEPT !.phase = "Completed", !.data = c].data = c
BY DEF Object, Phase, Same

\* Only a completed phase and a time of the last activation promise data.
LEMMA UpdatesBacked ==
  ASSUME NEW o \in Object, Backed(o)
  PROVE  /\ Backed([o EXCEPT !.finalizer = TRUE])
         /\ Backed([o EXCEPT !.deleting = TRUE])
         /\ \A phase \in Phase \ {"Completed"} : Backed([o EXCEPT !.phase = phase])
         /\ \A s \in WrittenSpec : Backed([o EXCEPT !.spec = s])
BY DEF Object, Backed

LEMMA CreatedBacked ==
  ASSUME NEW o \in Object, NEW c \in Content
  PROVE  Backed([o EXCEPT !.phase = "Completed", !.data = c])
BY ConstantsAssumption DEF Object, Backed

LEMMA RemovedIsObject ==
  ASSUME NEW o \in Object, Backed(o)
  PROVE  /\ Removed(o) \in Object /\ Backed(Removed(o))
         /\ Removed(o).finalizer => o.finalizer /\ Removed(o).born = o.born
         /\ Removed(o).data # None => Removed(o).data = o.data /\ Removed(o).born = o.born
BY AbsentIsObject, ObjectUpdates, UpdatesBacked DEF Removed, Object, Absent

\* A reconcile that ends leaves values of the right types.
LEMMA FinishedValues ==
  ASSUME Finished
  PROVE  /\ pc' = "idle" /\ cur' = None /\ held' = Absent /\ held' \in Object
         /\ heldFresh' = FALSE /\ copied' = None /\ doomed' = {}
BY AbsentIsObject DEF Finished

\* A write of the held copy is one of the present version.
LEMMA WriteKeeps ==
  ASSUME Inv, cur \in Backup, Write
  PROVE  /\ heldFresh /\ seen' = seen
         /\ obj' = [obj EXCEPT ![cur] = held] /\ obj' \in [Backup -> Object]
         /\ fresh' \in [Backup -> BOOLEAN]
         /\ obj'[cur] = held /\ \A b \in Backup \ {cur} : obj'[b] = obj[b]
         /\ \A b \in Backup : fresh'[b] => fresh[b] /\ obj'[b] = obj[b]
<1>1. obj \in [Backup -> Object] /\ fresh \in [Backup -> BOOLEAN] /\ held \in Object
  BY DEF Inv, Stored, Working
<1> QED
  BY <1>1 DEF Write

LEMMA InvTypes == Inv => TypeOK
BY DEF Inv, Stored, Working, Around, TypeOK

-----------------------------------------------------------------------------
(***************************************************************************)
(* Types, data and clean-up: the steps of a reconcile.                     *)
(***************************************************************************)
LEMMA InitInv == ASSUME Init PROVE Inv
<1> USE ConstantsAssumption
<1>1. Stored
  BY AbsentIsObject DEF Init, Stored, Absent
<1>2. Working
  BY AbsentIsObject DEF Init, Working, Stage, WriteStage
<1>3. Around
  BY DEF Init, Around
<1> QED
  BY <1>1, <1>2, <1>3 DEF Inv

\* What a reconcile does with its copy before its first write.
LEMMA HandleFits ==
  ASSUME TypeOK, NEW o \in Object, Backed(o), o.born # 0, Handle(o)
  PROVE  /\ held' \in Object /\ held'.born = o.born /\ held'.deleting = o.deleting
         /\ held'.data = o.data
         /\ pc' \in Stage \ {"idle", "unstore", "unprotect", "retain"}
         /\ pc' = "cleanup" <=> o.deleting
         /\ pc' = "cleanup" => held' = o
         /\ copied' \in Content \cup {None}
         /\ pc' \in {"running", "create"} => copied' # None
         /\ Backed(held') \/ (pc' = "create" /\ held'.spec.schedule = "Cron")
<1> USE DEF Stage, WriteStage
<1>1. serverSeen \in Content \cup {None} /\ now \in Nat /\ o.deleting \in BOOLEAN
  BY ConstantsAssumption DEF TypeOK, Object
<1>2. CASE o.deleting /\ held' = o /\ pc' = "cleanup" /\ copied' = None
  BY <1>2
<1>3. CASE /\ ~o.deleting /\ held' = [o EXCEPT !.finalizer = TRUE]
           /\ pc' = "protect" /\ copied' = None
  BY <1>3, ObjectUpdates, UpdatesBacked, UpdatesKeep DEF Same
<1>4. ASSUME NEW phase \in Phase \ {"Completed"}, ~o.deleting, Reports(o, phase)
      PROVE  /\ held' \in Object /\ held'.born = o.born /\ held'.deleting = o.deleting
             /\ held'.data = o.data
             /\ pc' = "report" /\ copied' = None /\ Backed(held')
  <2>1. held' = [o EXCEPT !.phase = phase] /\ pc' = "report" /\ copied' = None
    BY <1>4 DEF Reports
  <2>2. Same(held', o) /\ held'.data = o.data /\ held' \in Object /\ Backed(held')
    BY <2>1, ObjectUpdates, UpdatesBacked, UpdatesKeep
  <2> QED
    BY <2>1, <2>2 DEF Same
<1>5. ASSUME ~o.deleting, serverSeen # None, handleScheduledBackup(o)
      PROVE  /\ held' \in Object /\ held'.born = o.born /\ held'.deleting = o.deleting
             /\ held'.data = o.data
             /\ pc' \in {"report", "processed", "create"}
             /\ copied' \in Content \cup {None}
             /\ pc' = "create" => copied' # None /\ held'.spec.schedule = "Cron"
             /\ pc' # "create" => Backed(held')
  <2>1. CASE Reports(o, "Failed")
    BY <2>1, <1>4, <1>5 DEF Phase
  <2>2. CASE /\ o.spec.schedule = "Cron" /\ ~Due(o)
             /\ held' = [o EXCEPT !.phase = "Completed"] /\ pc' = "processed"
             /\ copied' = None
    <3>1. o.last # 0 /\ o.last \in Nat
      BY <2>2 DEF Due, TypeOK, Object
    <3>2. Same(held', o) /\ held'.data = o.data /\ held' \in Object
      BY <2>2, ObjectUpdates, UpdatesKeep DEF Phase
    <3> QED
      BY <2>2, <3>1, <3>2, <1>5 DEF Same, Backed
  <2>3. CASE /\ o.spec.schedule = "Cron"
             /\ held' = [o EXCEPT !.last = now] /\ pc' = "create"
             /\ copied' = serverSeen
    <3>1. Same(held', o) /\ held'.data = o.data /\ held' \in Object
      BY <2>3, <1>1, ObjectUpdates, UpdatesKeep
    <3> QED
      BY <2>3, <3>1, <1>1, <1>5 DEF Same
  <2> QED
    BY <1>5, <2>1, <2>2, <2>3 DEF handleScheduledBackup
<1>6. ASSUME ~o.deleting, serverSeen # None, handleOneTimeBackup(o)
      PROVE  /\ held' \in Object /\ held'.born = o.born /\ held'.deleting = o.deleting
             /\ held'.data = o.data
             /\ pc' = "running" /\ copied' \in Content /\ copied' # None /\ Backed(held')
  <2>1. held' = [o EXCEPT !.phase = "Running"] /\ pc' = "running" /\ copied' = serverSeen
    BY <1>6 DEF handleOneTimeBackup
  <2>2. Same(held', o) /\ held'.data = o.data /\ held' \in Object /\ Backed(held')
    BY <2>1, ObjectUpdates, UpdatesBacked, UpdatesKeep DEF Phase
  <2> QED
    BY <2>1, <2>2, <1>1, <1>6 DEF Same
<1>7. CASE ~o.deleting /\ (Reports(o, "Pending") \/ Reports(o, "Failed"))
  BY <1>7, <1>4 DEF Phase
<1>8. CASE ~o.deleting /\ serverSeen # None /\ handleScheduledBackup(o)
  BY <1>8, <1>5
<1>9. CASE ~o.deleting /\ serverSeen # None /\ handleOneTimeBackup(o)
  BY <1>9, <1>6
<1> QED
  BY <1>2, <1>3, <1>7, <1>8, <1>9 DEF Handle, Guard

LEMMA BeginInv == ASSUME Inv, NEW b \in Backup, Begin(b) PROVE Inv'
<1> USE DEF objVars, envVars, bounds
<1>1. Stored'
  BY DEF Inv, Stored, Begin
<1>2. Around'
  BY DEF Inv, Around, Begin
<1>3. Working'
  <2>1. CASE Settled(seen[b])
    BY <2>1 DEF Inv, Working, Begin
  <2>2. CASE ~Settled(seen[b])
    <3>1. /\ seen[b] \in Object /\ Backed(seen[b]) /\ fresh[b] \in BOOLEAN
          /\ fresh[b] => seen[b] = obj[b]
      BY DEF Inv, Stored
    <3>2. seen[b].born # 0
      BY <2>2 DEF Settled
    <3>3. /\ cur' = b /\ heldFresh' = fresh[b] /\ Handle(seen[b])
          /\ obj' = obj /\ seen' = seen /\ doomed' = {}
      BY <2>2 DEF Begin, objVars, Inv, Working
    <3>4. /\ held' \in Object /\ held'.born = seen[b].born
          /\ held'.deleting = seen[b].deleting /\ held'.data = seen[b].data
          /\ pc' \in Stage \ {"idle", "unstore", "unprotect", "retain"}
          /\ pc' = "cleanup" <=> seen[b].deleting
          /\ pc' = "cleanup" => held' = seen[b]
          /\ copied' \in Content \cup {None}
          /\ pc' \in {"running", "create"} => copied' # None
          /\ Backed(held') \/ (pc' = "create" /\ held'.spec.schedule = "Cron")
      BY <3>1, <3>2, <3>3, HandleFits, InvTypes
    <3>5. fresh[b] => Current(held', seen[b], seen[b])
      BY <3>4 DEF Current, Stage, WriteStage
    <3> QED
      BY <3>1, <3>2, <3>3, <3>4, <3>5 DEF Inv, Working, CleanupStage
  <2> QED
    BY <2>1, <2>2
<1> QED
  BY <1>1, <1>2, <1>3 DEF Inv

\* After a write what is stored is in order.
LEMMA WriteStored ==
  ASSUME Inv, pc \in WriteStage, Write
  PROVE  Stored'
<1>1. /\ cur \in Backup /\ held.born # 0 /\ Backed(held) /\ held \in Object
      /\ held.finalizer => held.born # 0
      /\ seen[cur].born = held.born
  BY DEF Inv, Working, WriteStage, Current, Write
<1> QED
  BY <1>1, WriteKeeps DEF Inv, Stored

\* A reconcile that ends leaves nothing behind.
LEMMA FinishedWorking == ASSUME Finished PROVE Working'
BY FinishedValues DEF Working, Stage, WriteStage

\* The stages that end with a write and the reconcile.
LEMMA SavedInv ==
  ASSUME Inv, pc \in WriteStage, Write, Later \/ Done, UNCHANGED <<envVars, bounds>>
  PROVE  Inv'
<1>1. cur \in Backup
  BY DEF Inv, Working, WriteStage
<1>2. Around'
  BY <1>1 DEF Inv, Around, Later, Done, envVars, bounds
<1> QED
  BY <1>2, WriteStored, FinishedWorking DEF Inv, Later, Done

LEMMA ConflictInv == ASSUME Inv, Conflict PROVE Inv'
<1> USE DEF Conflict, objVars, envVars, bounds
<1>1. cur \in Backup
  BY DEF Inv, Working, WriteStage
<1>2. Stored' /\ Around'
  BY <1>1 DEF Inv, Stored, Around, Again
<1> QED
  BY <1>2, FinishedWorking DEF Inv, Again

LEMMA CleanupInv == ASSUME Inv, performBackupCleanup PROVE Inv'
<1> USE DEF objVars, workVars, envVars, bounds
<1>1. /\ cur \in Backup /\ held \in Object /\ held.deleting /\ pc = "cleanup"
      /\ held.born # 0 /\ Backed(held) /\ heldFresh => held = obj[cur]
  BY DEF Inv, Working, CleanupStage, performBackupCleanup
<1>2. Stored'
  BY DEF Inv, Stored, performBackupCleanup
<1>3. CASE cleanupLocalBackup
  <2>1. CASE held' = [held EXCEPT !.data = None] /\ pc' = "unstore"
    <3>1. held' \in Object /\ Same(held', held)
      BY <1>1, <2>1, ObjectUpdates, UpdatesKeep
    <3> Backed(held') /\ (heldFresh => Current(held', obj[cur], seen[cur]))
      BY <1>1, <2>1, <3>1, UpdatesKeep DEF Same, Backed, Current, Inv, Working
    <3>2. Working'
      BY <1>1, <1>3, <2>1, <3>1
         DEF Inv, Working, CleanupStage, Stage, WriteStage, cleanupLocalBackup, Same,
             performBackupCleanup
    <3>3. Around'
      BY <1>3 DEF Inv, Around, cleanupLocalBackup, performBackupCleanup
    <3> QED
      BY <1>2, <3>2, <3>3 DEF Inv
  <2>2. CASE pc' = "unprotect" /\ UNCHANGED held
    <3>1. Working'
      BY <1>1, <1>3, <2>2
         DEF Inv, Working, CleanupStage, Stage, WriteStage, cleanupLocalBackup,
             performBackupCleanup
    <3>2. Around'
      BY <1>3 DEF Inv, Around, cleanupLocalBackup, performBackupCleanup
    <3> QED
      BY <1>2, <3>1, <3>2 DEF Inv
  <2> QED
    BY <1>3, <2>1, <2>2 DEF cleanupLocalBackup
<1>4. CASE cleanupS3Backup
  <2>1. cur \notin remote' /\ remote' \subseteq Backup
    BY <1>1, <1>4, ConstantsAssumption
       DEF Inv, Around, cleanupS3Backup, removeS3BackupMetadata, Matched
  <2>2. Working'
    BY <1>1, <1>4, <2>1
       DEF Inv, Working, CleanupStage, Stage, WriteStage, cleanupS3Backup,
           performBackupCleanup
  <2>3. Around'
    BY <1>4, <2>1 DEF Inv, Around, cleanupS3Backup, performBackupCleanup
  <2> QED
    BY <1>2, <2>2, <2>3 DEF Inv
<1>5. CASE cleanupGCSBackup
  <2>1. Working'
    BY <1>1, <1>5
       DEF Inv, Working, CleanupStage, Stage, WriteStage, cleanupGCSBackup,
           performBackupCleanup
  <2>2. Around'
    BY <1>5 DEF Inv, Around, cleanupGCSBackup, performBackupCleanup
  <2> QED
    BY <1>2, <2>1, <2>2 DEF Inv
<1>6. CASE Uncleanable /\ Again /\ UNCHANGED remote
  <2>1. Around'
    BY <1>1, <1>6 DEF Inv, Around, Again, performBackupCleanup
  <2> QED
    BY <1>2, <1>6, <2>1, FinishedWorking DEF Inv, Again
<1> QED
  BY <1>3, <1>4, <1>5, <1>6 DEF performBackupCleanup

\* Steps that write the copy and go on with it.
LEMMA UnstoreInv == ASSUME Inv, Unstore PROVE Inv'
<1> USE DEF Unstore, workVars, envVars, bounds
<1>1. Stored'
  BY WriteStored DEF WriteStage
<1>2. /\ cur \in Backup /\ obj'[cur] = held /\ seen' = seen
      /\ seen[cur].born = held.born
  BY WriteKeeps DEF Inv, Working, Current
<1> Current(held, held, seen[cur])
  BY <1>2 DEF Current
<1>3. Working'
  BY <1>2 DEF Inv, Working, Stage, WriteStage, CleanupStage
<1>4. Around'
  BY DEF Inv, Around
<1> QED
  BY <1>1, <1>3, <1>4 DEF Inv

LEMMA RunningInv == ASSUME Inv, Running PROVE Inv'
<1> USE DEF Running, workVars, envVars, bounds
<1>1. Stored'
  BY WriteStored DEF WriteStage
<1>2. /\ cur \in Backup /\ obj'[cur] = held /\ seen' = seen
      /\ seen[cur].born = held.born
  BY WriteKeeps DEF Inv, Working, Current
<1> Current(held, held, seen[cur])
  BY <1>2 DEF Current
<1>3. Working'
  BY <1>2 DEF Inv, Working, Stage, WriteStage, CleanupStage
<1>4. Around'
  BY DEF Inv, Around
<1> QED
  BY <1>1, <1>3, <1>4 DEF Inv

\* An object that is gone, by the removal of its finalizer.
LEMMA GoneStored ==
  ASSUME Inv, cur \in Backup, obj' = [obj EXCEPT ![cur] = Absent],
         fresh' = [fresh EXCEPT ![cur] = FALSE], UNCHANGED seen
  PROVE  Stored'
<1>1. ~Absent.finalizer /\ Absent.data = None
  BY DEF Absent
<1> QED
  BY <1>1, AbsentIsObject DEF Inv, Stored

LEMMA UnprotectInv == ASSUME Inv, Unprotect PROVE Inv'
<1> USE DEF Unprotect, envVars, bounds
<1>1. cur \in Backup
  BY DEF Inv, Working
<1>2. Stored'
  BY <1>1, GoneStored
<1>3. Around'
  BY DEF Inv, Around, Done
<1> QED
  BY <1>2, <1>3, FinishedWorking DEF Inv, Done

\* Every deletion of the retention is of some backup in the list.
LEMMA DoomedListed == ASSUME NEW d \in Doomed PROVE d \subseteq Backup
BY ConstantsAssumption DEF Doomed, Listed

LEMMA CreateInv == ASSUME Inv, Create PROVE Inv'
<1> USE DEF objVars, envVars, bounds
<1>1. /\ cur \in Backup /\ held \in Object /\ held.born # 0 /\ ~held.deleting
      /\ pc = "create" /\ copied \in Content
      /\ Backed(held) \/ held.spec.schedule = "Cron"
  BY DEF Inv, Working, Create, CleanupStage
<1>2. Stored' /\ Around'
  BY DEF Inv, Stored, Around, Create
<1>3. /\ UNCHANGED <<obj, seen, cur, heldFresh, copied>> /\ pc' \in {"processed", "retain", "report"}
      /\ doomed' \subseteq Backup /\ (pc' # "retain" => doomed' = {})
  BY DoomedListed DEF Create, Inv, Working
<1>4. /\ held' \in Object /\ Same(held', held) /\ Backed(held')
      /\ held.data # None => held'.data # None
  <2>1. CASE held' = [held EXCEPT !.phase = "Completed", !.data = copied]
    BY <1>1, <2>1, ObjectUpdates, UpdatesKeep, CreatedBacked, ConstantsAssumption
  <2>2. CASE held' = [held EXCEPT !.phase = "Failed"] /\ held.spec.schedule = "None"
    BY <1>1, <2>2, ObjectUpdates, UpdatesKeep, UpdatesBacked DEF Phase
  <2> QED
    BY <2>1, <2>2 DEF Create
<1>5. ASSUME heldFresh PROVE Current(held', obj[cur], seen[cur])
  BY <1>1, <1>4, <1>5 DEF Inv, Working, Current, Same
<1>6. Working'
  BY <1>1, <1>3, <1>4, <1>5 DEF Inv, Working, Stage, WriteStage, CleanupStage, Same
<1> QED
  BY <1>2, <1>6 DEF Inv

LEMMA DeleteKeeps ==
  ASSUME Inv, NEW x \in Backup, Delete(x)
  PROVE  /\ Stored' /\ heldFresh' \in BOOLEAN
         /\ heldFresh' => heldFresh /\ (cur = x => obj' = obj)
         /\ \A b \in Backup \ {x} : obj'[b] = obj[b]
<1>1. obj[x] \in Object /\ Backed(obj[x])
  BY DEF Inv, Stored
<1>2. /\ Removed(obj[x]) \in Object /\ Backed(Removed(obj[x]))
      /\ Removed(obj[x]).finalizer => obj[x].finalizer /\ Removed(obj[x]).born = obj[x].born
      /\ Removed(obj[x]).data # None =>
           Removed(obj[x]).data = obj[x].data /\ Removed(obj[x]).born = obj[x].born
  BY <1>1, RemovedIsObject
<1>3. Stored'
  BY <1>2 DEF Inv, Stored, Delete
<1> QED
  BY <1>3 DEF Inv, Stored, Working, Delete

LEMMA RetainInv == ASSUME Inv, NEW x \in Backup, Retain(x) PROVE Inv'
<1> USE DEF Retain, envVars, bounds
<1>1. Stored'
  BY DeleteKeeps
<1>2. (heldFresh' => heldFresh /\ obj'[cur] = obj[cur]) /\ seen' = seen
  BY DeleteKeeps DEF Inv, Working, Delete
<1>3. Working'
  BY <1>2, DeleteKeeps DEF Inv, Working, Stage, WriteStage, CleanupStage
<1>4. Around'
  BY DEF Inv, Around
<1> QED
  BY <1>1, <1>3, <1>4 DEF Inv

\* A call that fails ends the reconcile, or goes on as if it had not.
LEMMA FaultInv == ASSUME Inv, Fault PROVE Inv'
<1> USE DEF objVars, workVars
<1>1. /\ faults' \in 0 .. MaxFaults /\ faults' # 0
      /\ UNCHANGED <<server, serverSeen, cloud, now, creates, edits, deletes, restarts>>
  BY ConstantsAssumption DEF Fault, Inv, Around
<1>2. CASE /\ pc \in WriteStage
           /\ \/ UNCHANGED objVars
              \/ pc # "unprotect" /\ Write
              \/ /\ pc = "unprotect" /\ heldFresh
                 /\ obj' = [obj EXCEPT ![cur] = Absent]
                 /\ fresh' = [fresh EXCEPT ![cur] = FALSE]
                 /\ UNCHANGED seen
           /\ Again
           /\ UNCHANGED remote
  <2>1. cur \in Backup
    BY <1>2 DEF Inv, Working, WriteStage
  <2>2. Stored'
    <3>1. CASE UNCHANGED objVars
      BY <3>1 DEF Inv, Stored
    <3>2. CASE Write
      BY <1>2, <3>2, WriteStored
    <3>3. CASE /\ obj' = [obj EXCEPT ![cur] = Absent]
               /\ fresh' = [fresh EXCEPT ![cur] = FALSE] /\ UNCHANGED seen
      BY <2>1, <3>3, GoneStored
    <3> QED
      BY <1>2, <3>1, <3>2, <3>3
  <2>3. Around'
    BY <1>1, <1>2, <2>1 DEF Inv, Around, Again
  <2> QED
    BY <1>2, <2>2, <2>3, FinishedWorking DEF Inv, Again
<1>3. CASE /\ pc = "cleanup"
           /\ \/ Again /\ (removeS3BackupMetadata \/ UNCHANGED remote)
              \/ pc' = "unprotect" /\ UNCHANGED <<queue, timer, workVars, remote>>
           /\ UNCHANGED objVars
  <2>1. cur \in Backup
    BY <1>3 DEF Inv, Working
  <2>2. Stored'
    BY <1>3 DEF Inv, Stored
  <2>3. Around'
    BY <1>1, <1>3, <2>1 DEF Inv, Around, Again, removeS3BackupMetadata
  <2>4. Working'
    <3>1. CASE Again
      BY <3>1, FinishedWorking DEF Again
    <3>2. CASE pc' = "unprotect" /\ UNCHANGED <<queue, timer, workVars, remote>>
      BY <1>1, <1>3, <3>2 DEF Inv, Working, Stage, WriteStage, CleanupStage
    <3> QED
      BY <1>3, <3>1, <3>2
  <2> QED
    BY <2>2, <2>3, <2>4 DEF Inv
<1>4. CASE /\ pc = "retain"
           /\ \/ UNCHANGED <<objVars, heldFresh>>
              \/ \E x \in doomed : Delete(x)
           /\ doomed' = {} /\ pc' = "processed"
           /\ UNCHANGED <<queue, timer, cur, held, copied, remote>>
  <2>1. /\ Stored' /\ heldFresh' \in BOOLEAN /\ seen' = seen
        /\ heldFresh' => heldFresh /\ obj'[cur] = obj[cur]
    <3>1. CASE UNCHANGED <<objVars, heldFresh>>
      BY <3>1 DEF Inv, Stored, Working
    <3>2. ASSUME NEW x \in doomed, Delete(x)
          PROVE  /\ Stored' /\ heldFresh' \in BOOLEAN /\ seen' = seen
                 /\ heldFresh' => heldFresh /\ obj'[cur] = obj[cur]
      <4>1. x \in Backup /\ cur \in Backup
        BY <1>4 DEF Inv, Working
      <4> QED
        BY <4>1, <3>2, DeleteKeeps DEF Delete
    <3> QED
      BY <1>4, <3>1, <3>2
  <2>2. Working'
    BY <1>4, <2>1 DEF Inv, Working, Stage, WriteStage, CleanupStage
  <2>3. Around'
    BY <1>1, <1>4 DEF Inv, Around
  <2> QED
    BY <2>1, <2>2, <2>3 DEF Inv
<1> QED
  BY <1>2, <1>3, <1>4 DEF Fault

-----------------------------------------------------------------------------
(***************************************************************************)
(* Types, data and clean-up: events, time, users, restarts.                *)
(***************************************************************************)
LEMMA DeliverInv == ASSUME Inv, NEW b \in Backup, Deliver(b) PROVE Inv'
<1> USE DEF Deliver, workVars, envVars, bounds
<1>1. Stored'
  BY DEF Inv, Stored
<1>2. ASSUME heldFresh PROVE Current(held, obj[cur], seen'[cur])
  <2>1. cur \in Backup /\ Current(held, obj[cur], seen[cur])
    BY <1>2 DEF Inv, Working
  <2>2. seen'[cur] \in {seen[cur], obj[cur]}
    BY <2>1 DEF Inv, Stored
  <2> QED
    BY <2>1, <2>2 DEF Current
<1>3. Working'
  BY <1>2 DEF Inv, Working
<1>4. Around'
  BY DEF Inv, Around
<1> QED
  BY <1>1, <1>3, <1>4 DEF Inv

\* The timers, the schedule, the MCPServer, its informer and S3.
LEMMA TimeInv ==
  ASSUME Inv, DeliverServer \/ Tick \/ EditAround \/ (\E b \in Backup : Fire(b))
  PROVE  Inv'
<1> USE DEF objVars, workVars, envVars, bounds
<1>1. UNCHANGED <<objVars, pc, workVars, remote, faults>>
  BY DEF DeliverServer, Tick, EditAround, Fire
<1>2. Stored'
  BY <1>1 DEF Inv, Stored
<1>3. Working'
  BY <1>1 DEF Inv, Working
<1>4. Around'
  BY ConstantsAssumption DEF Inv, Around, DeliverServer, Tick, EditAround, Fire
<1> QED
  BY <1>2, <1>3, <1>4 DEF Inv

\* A user's write of a backed object: a held copy of the old one is stale.
LEMMA OutsideInv ==
  ASSUME Inv, NEW b \in Backup, NEW o \in Object, Backed(o),
         o.finalizer => o.born # 0, o.data # None => seen[b].born = o.born,
         Outside(b, o),
         creates' \in 0 .. MaxCreates, edits' \in 0 .. MaxEdits,
         deletes' \in 0 .. MaxDeletes
  PROVE  Inv'
<1> USE DEF Outside, envVars
<1>1. Stored'
  BY DEF Inv, Stored
<1>2. Working'
  <2>1. heldFresh' \in BOOLEAN /\ (heldFresh' => heldFresh /\ b # cur)
    BY DEF Inv, Working
  <2>2. heldFresh' => cur \in Backup /\ obj'[cur] = obj[cur]
    BY <2>1 DEF Inv, Working, Stored
  <2> QED
    BY <2>1, <2>2 DEF Inv, Working
<1>3. Around'
  BY DEF Inv, Around
<1> QED
  BY <1>1, <1>2, <1>3 DEF Inv

LEMMA UserInv ==
  ASSUME Inv, NEW b \in Backup, CreateBackup(b) \/ EditBackup(b) \/ DeleteBackup(b)
  PROVE  Inv'
<1>1. /\ obj[b] \in Object /\ Backed(obj[b]) /\ (obj[b].finalizer => obj[b].born # 0)
      /\ obj[b].data # None => seen[b].born = obj[b].born
  BY DEF Inv, Stored
<1>2. /\ creates \in 0 .. MaxCreates /\ edits \in 0 .. MaxEdits
      /\ deletes \in 0 .. MaxDeletes
  BY DEF Inv, Around
<1>3. CASE CreateBackup(b)
  <2>1. PICK spec \in Wanted, born \in {creates, creates + 1} :
          Outside(b, [Absent EXCEPT !.born = born, !.spec = spec])
    BY <1>3 DEF CreateBackup
  <2> DEFINE o == [Absent EXCEPT !.born = born, !.spec = spec]
  <2>2. born \in Nat /\ spec \in WrittenSpec
    BY <1>2, ConstantsAssumption
  <2>3. o \in Object /\ Backed(o) /\ ~o.finalizer /\ o.data = None
    BY <2>2, AbsentIsObject DEF Absent, Object, Backed
  <2>4. /\ creates' \in 0 .. MaxCreates /\ edits' \in 0 .. MaxEdits
        /\ deletes' \in 0 .. MaxDeletes
    <3>1. MaxCreates \in Nat /\ creates < MaxCreates
      BY <1>3, ConstantsAssumption DEF CreateBackup
    <3>2. creates' = creates + 1 /\ edits' = edits /\ deletes' = deletes
      BY <1>3 DEF CreateBackup
    <3> QED
      BY <1>2, <3>1, <3>2
  <2> QED
    BY <2>1, <2>3, <2>4, OutsideInv
<1>4. CASE EditBackup(b)
  <2>1. PICK spec \in Wanted : Outside(b, [obj[b] EXCEPT !.spec = spec])
    BY <1>4 DEF EditBackup
  <2> DEFINE o == [obj[b] EXCEPT !.spec = spec]
  <2>2. spec \in WrittenSpec
    BY ConstantsAssumption
  <2>3. o \in Object /\ Backed(o)
    BY <1>1, <2>2, ObjectUpdates, UpdatesBacked
  <2>4. (o.finalizer => o.born # 0) /\ (o.data # None => seen[b].born = o.born)
    BY <1>1 DEF Object
  <2>5. /\ creates' \in 0 .. MaxCreates /\ edits' \in 0 .. MaxEdits
        /\ deletes' \in 0 .. MaxDeletes
    BY <1>2, <1>4, ConstantsAssumption DEF EditBackup
  <2> QED
    BY <2>1, <2>3, <2>4, <2>5, OutsideInv
<1>5. CASE DeleteBackup(b)
  <2>1. /\ Removed(obj[b]) \in Object /\ Backed(Removed(obj[b]))
        /\ Removed(obj[b]).finalizer => Removed(obj[b]).born # 0
        /\ Removed(obj[b]).data # None => seen[b].born = Removed(obj[b]).born
    BY <1>1, RemovedIsObject
  <2>2. /\ creates' \in 0 .. MaxCreates /\ edits' \in 0 .. MaxEdits
        /\ deletes' \in 0 .. MaxDeletes
    BY <1>2, <1>5, ConstantsAssumption DEF DeleteBackup
  <2> QED
    BY <1>5, <2>1, <2>2, OutsideInv DEF DeleteBackup
<1> QED
  BY <1>3, <1>4, <1>5

LEMMA RestartInv == ASSUME Inv, Restart PROVE Inv'
<1>1. Stored'
  BY DEF Inv, Stored, Restart
<1>2. Around'
  BY ConstantsAssumption DEF Inv, Around, Restart
<1> QED
  BY <1>1, <1>2, FinishedWorking DEF Inv, Restart

LEMMA StepInv == Inv /\ [Next]_vars => Inv'
<1> SUFFICES ASSUME Inv, [Next]_vars PROVE Inv'
  OBVIOUS
<1>1. ASSUME NEW b \in Backup, Begin(b) PROVE Inv'
  BY <1>1, BeginInv
<1>2. CASE Proceed
  <2>1. CASE Protect \/ Report \/ Processed
    BY <2>1, SavedInv DEF Protect, Report, Processed, WriteStage
  <2>2. CASE performBackupCleanup \/ Unstore \/ Unprotect
    BY <2>2, CleanupInv, UnstoreInv, UnprotectInv
  <2>3. CASE Running \/ Create \/ Conflict
    BY <2>3, RunningInv, CreateInv, ConflictInv
  <2>4. CASE \E x \in Backup : Retain(x)
    BY <2>4, RetainInv
  <2> QED
    BY <1>2, <2>1, <2>2, <2>3, <2>4 DEF Proceed
<1>3. CASE Fault
  BY <1>3, FaultInv
<1>4. ASSUME NEW b \in Backup, Deliver(b) PROVE Inv'
  BY <1>4, DeliverInv
<1>5. CASE DeliverServer \/ Tick \/ EditAround \/ (\E b \in Backup : Fire(b))
  BY <1>5, TimeInv
<1>6. ASSUME NEW b \in Backup, CreateBackup(b) \/ EditBackup(b) \/ DeleteBackup(b)
      PROVE  Inv'
  BY <1>6, UserInv
<1>7. CASE Restart
  BY <1>7, RestartInv
<1>8. CASE UNCHANGED vars
  BY <1>8 DEF vars, Inv, Stored, Working, Around
<1> QED
  BY <1>1, <1>2, <1>3, <1>4, <1>5, <1>6, <1>7, <1>8 DEF Next

LEMMA InvHolds == Spec => []Inv
BY InitInv, StepInv, PTL DEF Spec

-----------------------------------------------------------------------------
\* Every variable has its type.
THEOREM TypeCorrect == Spec => []TypeOK
BY InvHolds, InvTypes, PTL

\* A backup that says it is completed (mcpserverbackup_controller.go:1173), or that
\* its schedule was served (1137), has the data: for any backups and specs, whatever users
\* edit and delete meanwhile.
THEOREM CompletedHasDataHolds == Spec => []CompletedHasData
<1>1. Inv => CompletedHasData
  BY DEF Inv, Stored, Backed, CompletedHasData
<1> QED
  BY InvHolds, <1>1, PTL

\* The ways in which what is stored changes.
LEMMA ObjectChanges ==
  ASSUME Inv, [Next]_vars
  PROVE  \/ UNCHANGED <<obj, creates, deletes>>
         \/ pc \in WriteStage /\ Write /\ UNCHANGED <<creates, deletes>>
         \/ /\ pc = "unprotect" /\ heldFresh /\ obj' = [obj EXCEPT ![cur] = Absent]
            /\ UNCHANGED <<seen, creates, deletes>>
         \/ \E x \in Backup : x \in doomed /\ Delete(x) /\ UNCHANGED <<creates, deletes>>
         \/ \E b \in Backup : CreateBackup(b) \/ EditBackup(b) \/ DeleteBackup(b)
<1> USE DEF objVars, bounds
<1>1. doomed \subseteq Backup
  BY DEF Inv, Working
<1>2. CASE Proceed
  <2>1. CASE Protect \/ Report \/ Processed \/ Unstore \/ Running
    BY <2>1 DEF Protect, Report, Processed, Unstore, Running, WriteStage
  <2>2. CASE performBackupCleanup \/ Create \/ Conflict
    BY <2>2 DEF performBackupCleanup, Create, Conflict
  <2>3. CASE \E x \in Backup : Retain(x)
    BY <2>3 DEF Retain
  <2> QED
    BY <1>2, <2>1, <2>2, <2>3 DEF Proceed, Unprotect
<1>3. CASE Fault
  BY <1>1, <1>3 DEF Fault
<1>4. CASE \E b \in Backup : CreateBackup(b) \/ EditBackup(b) \/ DeleteBackup(b)
  BY <1>4
<1> QED
  BY <1>2, <1>3, <1>4
     DEF Next, vars, Begin, Deliver, Fire, DeliverServer, Tick, EditAround, Restart

\* A protected backup only goes with the removal of its finalizer, from the version
\* that was cleaned up.
LEMMA GoesUnprotected ==
  ASSUME Inv, [Next]_vars, NEW b \in Backup, obj[b].finalizer, obj'[b].born = 0
  PROVE  pc = "unprotect" /\ b = cur /\ held = obj[b]
<1>1. obj[b] \in Object /\ obj[b].born # 0 /\ obj \in [Backup -> Object]
  BY DEF Inv, Stored
<1>2. obj' # obj
  BY <1>1
<1>3. ~(pc \in WriteStage /\ Write)
  <2> SUFFICES ASSUME pc \in WriteStage, Write PROVE FALSE
    OBVIOUS
  <2>1. cur \in Backup /\ held.born # 0
    BY DEF Inv, Working, WriteStage
  <2> QED
    BY <1>1, <2>1, WriteKeeps
<1>4. ASSUME NEW x \in Backup, Delete(x) PROVE FALSE
  <2>1. Removed(obj[b]).born = obj[b].born
    BY <1>1 DEF Removed, Object
  <2> QED
    BY <1>1, <1>4, <2>1 DEF Delete
<1>5. ASSUME pc = "unprotect", heldFresh, obj' = [obj EXCEPT ![cur] = Absent]
      PROVE  pc = "unprotect" /\ b = cur /\ held = obj[b]
  BY <1>1, <1>5 DEF Inv, Working
<1>6. ASSUME NEW x \in Backup, CreateBackup(x) \/ EditBackup(x) \/ DeleteBackup(x)
      PROVE  FALSE
  <2>1. obj[x] \in Object /\ creates \in Nat
    BY DEF Inv, Stored, Around
  <2>2. CASE CreateBackup(x)
    BY <1>1, <2>1, <2>2 DEF CreateBackup, Outside, Absent
  <2>3. CASE EditBackup(x)
    BY <1>1, <2>1, <2>3 DEF EditBackup, Outside, Object
  <2>4. CASE DeleteBackup(x)
    <3>1. Removed(obj[b]).born = obj[b].born
      BY <1>1 DEF Removed, Object
    <3> QED
      BY <1>1, <2>4, <3>1 DEF DeleteBackup, Outside
  <2> QED
    BY <1>6, <2>2, <2>3, <2>4
<1> QED
  BY <1>2, <1>3, <1>4, <1>5, <1>6, ObjectChanges

\* A protected S3 backup does not go before its metadata has (line 809): for any
\* names, part of each other or not, and whatever users edit between the clean-up
\* and the removal of the finalizer.
THEOREM CleanedBeforeGoneHolds == Spec => CleanedBeforeGone
<1> DEFINE Clean == \A b \in Backup :
             /\ obj[b].finalizer /\ obj[b].spec.storage = "S3" /\ obj'[b].born = 0
             /\ faults = 0
             => b \notin remote
<1>1. Inv /\ [Next]_vars => [Clean]_vars
  BY GoesUnprotected DEF Inv, Working
<1> QED
  BY InvHolds, <1>1, PTL DEF Spec, CleanedBeforeGone

-----------------------------------------------------------------------------
(***************************************************************************)
(* The retention.                                                          *)
(***************************************************************************)
\* The backups with data that were created after n.
Above(store, n) ==
  {b \in Backup : store[b].born > n /\ ~store[b].deleting /\ store[b].data # None}

Enough(store, n) == Cardinality(Above(store, n)) >= KeepLast

\* Without ties, creation times tell backups apart, those of former incarnations
\* included.
Numbered ==
  /\ \A x, y \in Backup : x # y =>
       /\ obj[x].born # 0 => obj[x].born \notin {obj[y].born, seen[y].born}
       /\ seen[x].born # 0 => seen[x].born # seen[y].born
  /\ \A b \in Backup : obj[b].born <= creates /\ seen[b].born <= creates

\* Whoever was deleted, is about to be, or is listed although it was deleted, has
\* enough backups with data after it; these remain, since one is only deleted
\* when there are enough after it.
Retained ==
  KeepLast # None /\ ~Aged /\ deletes = 0 =>
    /\ Cardinality(Live) < creates => Enough(obj, 0)
    /\ \A b \in Backup :
         /\ obj[b].deleting /\ obj[b].phase = "Completed" => Enough(obj, obj[b].born)
         /\ seen[b].born # 0 /\ seen[b].phase = "Completed" =>
              b \in Above(obj, 0) \/ Enough(obj, seen[b].born)
         /\ b \in doomed =>
              Enough(obj, 0) /\ (b \in Above(obj, 0) => Enough(obj, obj[b].born))

LEMMA MoreIsEnough ==
  ASSUME KeepLast \in Nat, NEW S, NEW T \in SUBSET Backup, S \subseteq T,
         Cardinality(S) >= KeepLast
  PROVE  Cardinality(T) >= KeepLast
<1>1. IsFiniteSet(T)
  BY FS_Subset, ConstantsAssumption
<1>2. IsFiniteSet(S) /\ Cardinality(S) <= Cardinality(T)
  BY <1>1, FS_Subset
<1>3. Cardinality(S) \in Nat /\ Cardinality(T) \in Nat
  BY <1>1, <1>2, FS_CardinalityType
<1> QED
  BY <1>2, <1>3

\* The later the time, the harder it is to have enough after it.
LEMMA EnoughAfter ==
  ASSUME KeepLast \in Nat, NEW store \in [Backup -> Object],
         NEW m \in Nat, NEW n \in Nat, n <= m, Enough(store, m)
  PROVE  Enough(store, n)
<1>1. Above(store, m) \subseteq Above(store, n) /\ Above(store, n) \in SUBSET Backup
  BY DEF Above, Object
<1> QED
  BY <1>1, MoreIsEnough DEF Enough

LEMMA EnoughRemain ==
  ASSUME KeepLast \in Nat, NEW n \in Nat,
         NEW store \in [Backup -> Object], NEW later \in [Backup -> Object],
         \A b \in Above(store, n) : b \in Above(later, n),
         Enough(store, n)
  PROVE  Enough(later, n)
<1>1. Above(store, n) \subseteq Above(later, n) /\ Above(later, n) \in SUBSET Backup
  BY DEF Above
<1> QED
  BY <1>1, MoreIsEnough DEF Enough

\* A deletion that leaves enough after itself leaves enough after any time.
LEMMA EnoughAfterDelete ==
  ASSUME Inv, KeepLast \in Nat, NEW x \in Backup, Delete(x), NEW n \in Nat,
         x \in Above(obj, 0) => Enough(obj, obj[x].born),
         Enough(obj, n)
  PROVE  Enough(obj', n)
<1>1. obj \in [Backup -> Object] /\ obj' \in [Backup -> Object]
  BY DeleteKeeps DEF Inv, Stored
<1>2. \A b \in Backup \ {x} : obj'[b] = obj[b]
  BY DeleteKeeps
<1>3. obj[x].born \in Nat
  BY <1>1 DEF Object
<1>4. CASE x \in Above(obj, n)
  <2>1. x \in Above(obj, 0) /\ obj[x].born > n
    BY <1>3, <1>4 DEF Above
  <2>2. \A b \in Above(obj, obj[x].born) : b \in Above(obj', n)
    BY <1>1, <1>2, <1>3, <2>1 DEF Above, Object
  <2>3. Above(obj, obj[x].born) \subseteq Above(obj', n) /\ Above(obj', n) \in SUBSET Backup
    BY <2>2 DEF Above
  <2> QED
    BY <2>1, <2>3, MoreIsEnough DEF Enough
<1>5. CASE x \notin Above(obj, n)
  <2>1. \A b \in Above(obj, n) : b \in Above(obj', n)
    BY <1>2, <1>5 DEF Above
  <2> QED
    BY <1>1, <2>1, EnoughRemain
<1> QED
  BY <1>4, <1>5

\* What the retention is to delete has enough backups with data after it.
LEMMA DoomedLeaveEnough ==
  ASSUME Inv, Numbered, KeepLast \in Nat, ~Aged, deletes = 0, Retained,
         NEW d \in Doomed, NEW x \in d
  PROVE  x \in Listed /\ Enough(obj, seen[x].born)
<1>1. KeepLast # None
  BY ConstantsAssumption
<1>2. /\ obj \in [Backup -> Object] /\ seen \in [Backup -> Object]
      /\ \A b \in Backup : obj[b].born \in Nat /\ seen[b].born \in Nat
  BY DEF Inv, Stored, Object
<1>3. Listed \subseteq Backup /\ IsFiniteSet(Listed) /\ \A b \in Listed : seen[b].born > 0
  <2>1. Listed \in SUBSET Backup
    BY ConstantsAssumption DEF Listed
  <2> QED
    BY <1>2, <2>1, FS_Subset, ConstantsAssumption DEF Listed
<1>4. PICK k \in Kept : d = (Listed \ k) \cup {b \in Listed : seen[b].born <= 0}
  BY <1>1 DEF Doomed
<1>5. x \in Listed \ k
  BY <1>2, <1>3, <1>4
<1>6. KeepLast # 0 /\ k \in SUBSET Listed
      /\ Cardinality(k) = (IF Cardinality(Listed) < KeepLast THEN Cardinality(Listed) ELSE KeepLast)
      /\ \A b \in k : seen[b].born >= seen[x].born
  BY <1>4, <1>5 DEF Kept
<1>7. Cardinality(k) = KeepLast
  <2>1. Cardinality(k) = Cardinality(Listed) => k = Listed
    BY <1>3, <1>6, FS_Subset
  <2> QED
    BY <1>5, <1>6, <2>1
<1>8. \A b \in k : seen[b].born > seen[x].born
  BY <1>2, <1>3, <1>5, <1>6 DEF Numbered
<1>9. CASE \E b \in k : Enough(obj, seen[b].born)
  BY <1>2, <1>3, <1>5, <1>6, <1>8, <1>9, EnoughAfter
<1>10. CASE \A b \in k : ~Enough(obj, seen[b].born)
  <2>1. \A b \in k : b \in Above(obj, 0)
    BY <1>1, <1>3, <1>6, <1>10 DEF Retained, Listed
  <2>2. \A b \in k : b \in Above(obj, seen[x].born)
    BY <1>2, <1>3, <1>6, <1>8, <2>1 DEF Above, Inv, Stored
  <2>3. k \subseteq Above(obj, seen[x].born) /\ Above(obj, seen[x].born) \in SUBSET Backup
    BY <2>2 DEF Above
  <2>4. Cardinality(k) >= KeepLast
    BY <1>7
  <2> QED
    BY <1>5, <2>3, <2>4, MoreIsEnough DEF Enough
<1> QED
  BY <1>5, <1>9, <1>10

\* What the informer says and what the retention is about to delete, in any step.
LEMMA ListChanges ==
  ASSUME Inv, [Next]_vars
  PROVE  /\ \/ doomed' \subseteq doomed
            \/ doomed' \in Doomed /\ UNCHANGED <<obj, seen, creates, deletes>>
         /\ \/ seen' = seen
            \/ /\ UNCHANGED <<obj, creates, deletes>>
               /\ \A b \in Backup : seen'[b] \in {seen[b], obj[b]}
<1> USE DEF objVars, workVars, bounds
<1>1. seen \in [Backup -> Object]
  BY DEF Inv, Stored
<1>2. CASE Proceed
  <2>1. CASE Protect \/ Report \/ Processed \/ Unstore \/ Running
    BY <2>1 DEF Protect, Report, Processed, Unstore, Running, Write, Later, Done, Finished
  <2>2. CASE performBackupCleanup \/ Conflict \/ Unprotect
    BY <2>2 DEF performBackupCleanup, cleanupLocalBackup, cleanupS3Backup,
                cleanupGCSBackup, Conflict, Unprotect, Again, Done, Finished
  <2>3. CASE Create
    BY <2>3 DEF Create
  <2>4. CASE \E x \in Backup : Retain(x)
    BY <2>4 DEF Retain, Delete
  <2> QED
    BY <1>2, <2>1, <2>2, <2>3, <2>4 DEF Proceed
<1>3. CASE Fault
  BY <1>3 DEF Fault, Again, Finished, Write, Delete
<1>4. CASE \E b \in Backup : CreateBackup(b) \/ EditBackup(b) \/ DeleteBackup(b)
  BY <1>4 DEF CreateBackup, EditBackup, DeleteBackup, Outside
<1>5. CASE \E b \in Backup : Deliver(b)
  BY <1>1, <1>5 DEF Deliver
<1>6. CASE Restart
  BY <1>6 DEF Restart, Finished
<1> QED
  BY <1>2, <1>3, <1>4, <1>5, <1>6
     DEF Next, vars, Begin, Fire, DeliverServer, Tick, EditAround

LEMMA NumberedStep ==
  ASSUME Inv, [Next]_vars, ~Ties, Numbered
  PROVE  Numbered'
<1>1. /\ obj \in [Backup -> Object] /\ seen \in [Backup -> Object] /\ creates \in Nat
      /\ \A b \in Backup : obj[b].born \in Nat /\ seen[b].born \in Nat
  BY DEF Inv, Stored, Around, Object
<1>2. ASSUME \A b \in Backup :
                obj'[b].born \in {obj[b].born, 0} /\ seen'[b].born \in {seen[b].born, obj[b].born},
             creates' = creates
      PROVE  Numbered'
  BY <1>1, <1>2 DEF Numbered
<1>3. \A b \in Backup : seen'[b].born \in {seen[b].born, obj[b].born}
  BY ListChanges
<1>4. CASE UNCHANGED <<obj, creates, deletes>>
  BY <1>2, <1>3, <1>4
<1>5. CASE pc \in WriteStage /\ Write /\ UNCHANGED <<creates, deletes>>
  <2>1. cur \in Backup /\ held.born = obj[cur].born
    BY <1>5 DEF Inv, Working, WriteStage, Write, Current
  <2>2. \A b \in Backup : obj'[b].born = obj[b].born
    BY <1>5, <2>1, WriteKeeps
  <2> QED
    BY <1>2, <1>3, <1>5, <2>2
<1>6. CASE obj' = [obj EXCEPT ![cur] = Absent] /\ UNCHANGED <<seen, creates, deletes>>
  <2>1. \A b \in Backup : obj'[b].born \in {obj[b].born, 0}
    BY <1>1, <1>6, AbsentIsObject
  <2> QED
    BY <1>2, <1>3, <1>6, <2>1
<1>7. ASSUME NEW x \in Backup, Delete(x), UNCHANGED <<creates, deletes>>
      PROVE  Numbered'
  <2>1. Removed(obj[x]).born \in {obj[x].born, 0}
    BY <1>1, AbsentIsObject DEF Removed, Object
  <2>2. \A b \in Backup : obj'[b].born \in {obj[b].born, 0}
    BY <1>1, <1>7, <2>1 DEF Delete
  <2> QED
    BY <1>2, <1>3, <1>7, <2>2
<1>8. ASSUME NEW b \in Backup, CreateBackup(b)
      PROVE  Numbered'
  <2>1. /\ obj'[b].born = creates + 1 /\ \A x \in Backup \ {b} : obj'[x] = obj[x]
        /\ seen' = seen /\ creates' = creates + 1
    BY <1>1, <1>8 DEF CreateBackup, Outside, Absent
  <2> QED
    BY <1>1, <2>1 DEF Numbered
<1>9. ASSUME NEW b \in Backup, EditBackup(b) \/ DeleteBackup(b)
      PROVE  Numbered'
  <2>1. Removed(obj[b]).born \in {obj[b].born, 0}
    BY <1>1, AbsentIsObject DEF Removed, Object
  <2>2. \A x \in Backup : obj'[x].born \in {obj[x].born, 0}
    BY <1>1, <1>9, <2>1 DEF EditBackup, DeleteBackup, Outside, Object
  <2> QED
    BY <1>2, <1>3, <1>9, <2>2 DEF EditBackup, DeleteBackup
<1> QED
  BY <1>4, <1>5, <1>6, <1>7, <1>8, <1>9, ObjectChanges

\* A step that leaves what is there, is on its way out or has data as it is, and
\* does not shorten a list.
LEMMA RetainedKeeps ==
  ASSUME Inv, Inv', Retained, KeepLast \in Nat, ~Aged, deletes = 0,
         seen' = seen, doomed' \subseteq doomed,
         Cardinality(Live') < creates' => Cardinality(Live) < creates,
         \A n \in Nat : \A b \in Above(obj, n) :
           b \in Above(obj', n) /\ obj'[b].born = obj[b].born,
         \A b \in Backup : b \in doomed' /\ b \in Above(obj', 0) => b \in Above(obj, 0),
         \A b \in Backup : obj'[b].deleting /\ obj'[b].phase = "Completed" =>
           obj[b].deleting /\ obj[b].phase = "Completed" /\ obj'[b].born = obj[b].born
  PROVE  Retained'
<1>1. KeepLast # None
  BY ConstantsAssumption
<1>2. /\ obj \in [Backup -> Object] /\ obj' \in [Backup -> Object]
      /\ seen \in [Backup -> Object]
      /\ \A b \in Backup : obj[b].born \in Nat /\ seen[b].born \in Nat
  BY DEF Inv, Stored, Object
<1>3. ASSUME NEW n \in Nat, Enough(obj, n) PROVE Enough(obj', n)
  BY <1>2, <1>3, EnoughRemain
<1>4. Cardinality(Live') < creates' => Enough(obj', 0)
  BY <1>1, <1>3 DEF Retained
<1>5. ASSUME NEW b \in Backup, obj'[b].deleting, obj'[b].phase = "Completed"
      PROVE  Enough(obj', obj'[b].born)
  BY <1>1, <1>2, <1>3, <1>5 DEF Retained
<1>6. ASSUME NEW b \in Backup, seen[b].born # 0, seen[b].phase = "Completed"
      PROVE  b \in Above(obj', 0) \/ Enough(obj', seen[b].born)
  BY <1>1, <1>2, <1>3, <1>6 DEF Retained
<1>7. ASSUME NEW b \in Backup, b \in doomed'
      PROVE  Enough(obj', 0) /\ (b \in Above(obj', 0) => Enough(obj', obj'[b].born))
  BY <1>1, <1>2, <1>3, <1>7 DEF Retained
<1> QED
  BY <1>4, <1>5, <1>6, <1>7 DEF Retained

\* A deletion by the retention.
LEMMA RetainedDelete ==
  ASSUME Inv, Inv', Retained, KeepLast \in Nat, ~Aged, deletes = 0,
         NEW x \in Backup, x \in doomed, Delete(x), doomed' \subseteq doomed
  PROVE  Retained'
<1>1. KeepLast # None /\ seen' = seen
  BY ConstantsAssumption DEF Delete
<1>2. /\ obj \in [Backup -> Object] /\ obj' \in [Backup -> Object]
      /\ seen \in [Backup -> Object] /\ \A b \in Backup \ {x} : obj'[b] = obj[b]
      /\ \A b \in Backup : obj[b].born \in Nat /\ seen[b].born \in Nat
  BY DeleteKeeps DEF Inv, Stored, Object
<1>3. Enough(obj, 0) /\ (x \in Above(obj, 0) => Enough(obj, obj[x].born))
  BY <1>1 DEF Retained
<1>4. ASSUME NEW n \in Nat, Enough(obj, n) PROVE Enough(obj', n)
  BY <1>3, <1>4, EnoughAfterDelete
<1>5. obj'[x] = Removed(obj[x]) /\ x \notin Above(obj', 0)
  BY <1>2 DEF Delete, Removed, Above, Absent, Object
<1>6. ASSUME obj'[x].deleting, obj'[x].phase = "Completed"
      PROVE  Enough(obj', obj'[x].born)
  <2>1. /\ obj'[x].born = obj[x].born /\ obj[x].phase = "Completed" /\ obj[x].finalizer
    BY <1>2, <1>5, <1>6 DEF Removed, Absent, Object
  <2>2. CASE obj[x].deleting
    BY <1>1, <1>2, <1>4, <2>1, <2>2 DEF Retained
  <2>3. CASE ~obj[x].deleting
    <3>1. obj[x].data # None /\ obj[x].born > 0
      BY <1>2, <2>1, <2>3 DEF Inv, Stored, Backed
    <3>2. x \in Above(obj, 0)
      BY <2>3, <3>1 DEF Above
    <3> QED
      BY <1>2, <1>3, <1>4, <2>1, <3>2
  <2> QED
    BY <1>2, <2>2, <2>3 DEF Object
<1>7. ASSUME NEW b \in Backup, obj'[b].deleting, obj'[b].phase = "Completed"
      PROVE  Enough(obj', obj'[b].born)
  BY <1>1, <1>2, <1>4, <1>6, <1>7 DEF Retained
<1>8. ASSUME NEW b \in Backup, seen[b].born # 0, seen[b].phase = "Completed"
      PROVE  b \in Above(obj', 0) \/ Enough(obj', seen[b].born)
  <2>1. CASE Enough(obj, seen[b].born)
    BY <1>2, <1>4, <2>1
  <2>2. CASE b \in Above(obj, 0) /\ b # x
    BY <1>2, <2>2 DEF Above
  <2>3. CASE b \in Above(obj, 0) /\ b = x
    <3>1. seen[x].born = obj[x].born
      BY <2>3 DEF Above, Inv, Stored
    <3> QED
      BY <1>2, <1>3, <1>4, <2>3, <3>1
  <2> QED
    BY <1>1, <1>8, <2>1, <2>2, <2>3 DEF Retained
<1>9. ASSUME NEW b \in Backup, b \in doomed'
      PROVE  Enough(obj', 0) /\ (b \in Above(obj', 0) => Enough(obj', obj'[b].born))
  <2>1. b # x /\ b \in Above(obj', 0) => b \in Above(obj, 0)
    BY <1>2 DEF Above
  <2> QED
    BY <1>1, <1>2, <1>3, <1>4, <1>5, <1>9, <2>1 DEF Retained
<1> QED
  BY <1>1, <1>3, <1>4, <1>7, <1>8, <1>9 DEF Retained

\* A new list.
LEMMA RetainedLists ==
  ASSUME Inv, Retained, Numbered, KeepLast \in Nat, ~Aged, deletes = 0,
         UNCHANGED <<obj, creates, deletes>>,
         \A b \in Backup : seen'[b] \in {seen[b], obj[b]},
         doomed' \subseteq doomed \/ (doomed' \in Doomed /\ seen' = seen)
  PROVE  Retained'
<1>1. KeepLast # None /\ Live' = Live
  BY ConstantsAssumption DEF Live
<1>2. /\ obj \in [Backup -> Object] /\ seen \in [Backup -> Object]
      /\ \A b \in Backup : obj[b].born \in Nat /\ seen[b].born \in Nat
  BY DEF Inv, Stored, Object
<1>3. ASSUME NEW b \in Backup, seen'[b].born # 0, seen'[b].phase = "Completed"
      PROVE  b \in Above(obj, 0) \/ Enough(obj, seen'[b].born)
  <2>1. CASE seen'[b] = seen[b]
    BY <1>1, <1>3, <2>1 DEF Retained
  <2>2. CASE seen'[b] = obj[b] /\ obj[b].deleting
    BY <1>1, <1>3, <2>2 DEF Retained
  <2>3. CASE seen'[b] = obj[b] /\ ~obj[b].deleting
    BY <1>2, <1>3, <2>3 DEF Inv, Stored, Backed, Above
  <2> QED
    BY <1>2, <2>1, <2>2, <2>3 DEF Object
<1>4. ASSUME NEW b \in Backup, b \in doomed'
      PROVE  Enough(obj, 0) /\ (b \in Above(obj, 0) => Enough(obj, obj[b].born))
  <2>1. CASE doomed' \subseteq doomed
    BY <1>1, <1>4, <2>1 DEF Retained
  <2>2. CASE doomed' \in Doomed
    <3>1. Enough(obj, seen[b].born)
      BY <1>4, <2>2, DoomedLeaveEnough
    <3>2. Enough(obj, 0)
      BY <1>2, <3>1, EnoughAfter
    <3>3. b \in Above(obj, 0) => seen[b].born = obj[b].born
      BY DEF Above, Inv, Stored
    <3> QED
      BY <3>1, <3>2, <3>3
  <2> QED
    BY <2>1, <2>2
<1>5. /\ Cardinality(Live) < creates => Enough(obj, 0)
      /\ \A b \in Backup : obj[b].deleting /\ obj[b].phase = "Completed" =>
           Enough(obj, obj[b].born)
  BY <1>1 DEF Retained
<1> QED
  BY <1>1, <1>3, <1>4, <1>5 DEF Retained

LEMMA RetainedStep ==
  ASSUME Inv, Inv', [Next]_vars, Numbered, Retained
  PROVE  Retained'
<1>1. deletes \in Nat /\ deletes' \in Nat /\ creates \in Nat
  BY DEF Inv, Around
<1>2. deletes' = 0 => deletes = 0
  <2>1. ASSUME NEW b \in Backup, CreateBackup(b) \/ EditBackup(b) PROVE deletes' = deletes
    BY <2>1 DEF CreateBackup, EditBackup
  <2>2. ASSUME NEW b \in Backup, DeleteBackup(b) PROVE deletes' # 0
    BY <1>1, <2>2 DEF DeleteBackup
  <2> QED
    BY <2>1, <2>2, ObjectChanges
<1> SUFFICES ASSUME KeepLast # None, ~Aged, deletes = 0, deletes' = 0
             PROVE  Retained'
  BY <1>2 DEF Retained
<1>3. KeepLast \in Nat
  BY ConstantsAssumption
<1>4. /\ obj \in [Backup -> Object] /\ seen \in [Backup -> Object]
      /\ \A b \in Backup : obj[b].born \in Nat /\ seen[b].born \in Nat
  BY DEF Inv, Stored, Object
<1>5. CASE UNCHANGED <<obj, creates, deletes>>
  <2>1. \A b \in Backup : seen'[b] \in {seen[b], obj[b]}
    BY ListChanges
  <2>2. CASE doomed' \subseteq doomed
    BY <1>3, <1>5, <2>1, <2>2, RetainedLists
  <2>3. CASE doomed' \in Doomed /\ seen' = seen
    BY <1>3, <1>5, <2>1, <2>3, RetainedLists
  <2> QED
    BY <2>2, <2>3, ListChanges
<1>6. obj' # obj => seen' = seen /\ doomed' \subseteq doomed
  BY ListChanges
<1>7. ASSUME obj' # obj, pc \in WriteStage, Write, UNCHANGED <<creates, deletes>>
      PROVE  Retained'
  <2>1. cur \in Backup /\ held \in Object /\ Current(held, obj[cur], seen[cur])
        /\ doomed' = {}
    BY <1>6, <1>7 DEF Inv, Working, WriteStage, Write
  <2>2. obj'[cur] = held /\ \A b \in Backup \ {cur} : obj'[b] = obj[b]
    BY <1>7, <2>1, WriteKeeps
  <2>3. Live' = Live
    BY <2>1, <2>2 DEF Live, Current
  <2>4. \A n \in Nat : \A b \in Above(obj, n) :
          b \in Above(obj', n) /\ obj'[b].born = obj[b].born
    BY <2>1, <2>2 DEF Above, Current
  <2>5. \A b \in Backup : obj'[b].deleting /\ obj'[b].phase = "Completed" =>
          obj[b].deleting /\ obj[b].phase = "Completed" /\ obj'[b].born = obj[b].born
    BY <2>1, <2>2 DEF Current
  <2> QED
    BY <1>3, <1>6, <1>7, <2>1, <2>3, <2>4, <2>5, RetainedKeeps
<1>8. ASSUME obj' # obj, pc = "unprotect", heldFresh, obj' = [obj EXCEPT ![cur] = Absent],
             UNCHANGED <<seen, creates, deletes>>
      PROVE  Retained'
  <2>1. cur \in Backup /\ obj[cur].deleting /\ doomed' = {}
    BY <1>6, <1>8 DEF Inv, Working, CleanupStage, Current
  <2>2. obj'[cur] = Absent /\ \A b \in Backup \ {cur} : obj'[b] = obj[b]
    BY <1>4, <1>8, <2>1
  <2>3. Live' = Live
    BY <2>1, <2>2 DEF Live, Absent
  <2>4. \A n \in Nat : \A b \in Above(obj, n) :
          b \in Above(obj', n) /\ obj'[b].born = obj[b].born
    BY <2>1, <2>2 DEF Above
  <2>5. \A b \in Backup : obj'[b].deleting /\ obj'[b].phase = "Completed" =>
          obj[b].deleting /\ obj[b].phase = "Completed" /\ obj'[b].born = obj[b].born
    BY <2>2 DEF Absent
  <2> QED
    BY <1>3, <1>6, <1>8, <2>1, <2>3, <2>4, <2>5, RetainedKeeps
<1>9. ASSUME obj' # obj, NEW x \in Backup, x \in doomed, Delete(x)
      PROVE  Retained'
  BY <1>3, <1>6, <1>9, RetainedDelete
<1>10. ASSUME obj' # obj, NEW b \in Backup, CreateBackup(b)
       PROVE  Retained'
  <2>1. /\ \A x \in Backup \ {b} : obj'[x] = obj[x]
        /\ obj'[b].born # 0 /\ ~obj'[b].deleting /\ obj'[b].data = None
        /\ obj[b].born = 0 /\ creates' = creates + 1
    BY <1>1, <1>4, <1>10 DEF CreateBackup, Outside, Absent
  <2>2. Live' = Live \cup {b} /\ b \notin Live /\ Live \in SUBSET Backup
    BY <2>1 DEF Live
  <2>3. IsFiniteSet(Live)
    BY <2>2, FS_Subset, ConstantsAssumption
  <2>4. Cardinality(Live') = Cardinality(Live) + 1 /\ Cardinality(Live) \in Nat
    BY <2>2, <2>3, FS_AddElement, FS_CardinalityType
  <2>5. Cardinality(Live') < creates' => Cardinality(Live) < creates
    BY <1>1, <2>1, <2>4
  <2>6. \A n \in Nat : \A x \in Above(obj, n) :
          x \in Above(obj', n) /\ obj'[x].born = obj[x].born
    BY <2>1 DEF Above
  <2>7. \A x \in Backup : x \in doomed' /\ x \in Above(obj', 0) => x \in Above(obj, 0)
    BY <2>1 DEF Above
  <2>8. \A x \in Backup : obj'[x].deleting /\ obj'[x].phase = "Completed" =>
          obj[x].deleting /\ obj[x].phase = "Completed" /\ obj'[x].born = obj[x].born
    BY <2>1
  <2> QED
    BY <1>3, <1>6, <1>10, <2>5, <2>6, <2>7, <2>8, RetainedKeeps
<1>11. ASSUME obj' # obj, NEW b \in Backup, EditBackup(b)
       PROVE  Retained'
  <2>1. /\ \A x \in Backup \ {b} : obj'[x] = obj[x]
        /\ obj'[b].born = obj[b].born /\ obj'[b].deleting = obj[b].deleting
        /\ obj'[b].data = obj[b].data /\ obj'[b].phase = obj[b].phase
        /\ creates' = creates
    BY <1>4, <1>11 DEF EditBackup, Outside, Object
  <2>2. Live' = Live
    BY <2>1 DEF Live
  <2>3. \A n \in Nat : \A x \in Above(obj, n) :
          x \in Above(obj', n) /\ obj'[x].born = obj[x].born
    BY <2>1 DEF Above
  <2>4. \A x \in Backup : x \in doomed' /\ x \in Above(obj', 0) => x \in Above(obj, 0)
    BY <2>1 DEF Above
  <2>5. \A x \in Backup : obj'[x].deleting /\ obj'[x].phase = "Completed" =>
          obj[x].deleting /\ obj[x].phase = "Completed" /\ obj'[x].born = obj[x].born
    BY <2>1
  <2> QED
    BY <1>3, <1>6, <1>11, <2>1, <2>2, <2>3, <2>4, <2>5, RetainedKeeps
<1>12. ASSUME NEW b \in Backup, DeleteBackup(b)
       PROVE  FALSE
  BY <1>1, <1>12 DEF DeleteBackup
<1>13. ASSUME obj' = obj PROVE UNCHANGED <<obj, creates, deletes>>
  <2>1. ASSUME NEW b \in Backup, CreateBackup(b) PROVE FALSE
    BY <1>1, <1>4, <1>13, <2>1 DEF CreateBackup, Outside, Absent
  <2>2. ASSUME NEW b \in Backup, EditBackup(b) PROVE UNCHANGED <<creates, deletes>>
    BY <2>2 DEF EditBackup
  <2> QED
    BY <1>12, <1>13, <2>1, <2>2, ObjectChanges
<1> QED
  BY <1>5, <1>7, <1>8, <1>9, <1>10, <1>11, <1>12, <1>13, ObjectChanges

\* While users delete nothing and ages do not count, the retention leaves as many
\* backups with data as it has to keep (mcpserverbackup_controller.go:1411), for any
\* number of backups, names used again, lists of any age, and deletions that fail
\* half-way; provided that no two backups are created within one second, since the
\* code sorts by the second of the creation.
THEOREM RetentionKeepsHolds ==
  ASSUME ~Ties
  PROVE  Spec => []RetentionKeeps
<1>1. Init => Numbered /\ Retained
  <2>1. Init => ~(Cardinality(Live) < creates) /\ doomed = {}
    <3> SUFFICES ASSUME Init PROVE ~(Cardinality(Live) < creates) /\ doomed = {}
      OBVIOUS
    <3>1. Live = {} /\ creates = 0 /\ doomed = {}
      BY AbsentIsObject DEF Init, Live
    <3> QED
      BY <3>1, FS_EmptySet
  <2>2. Init => Numbered
    BY AbsentIsObject DEF Init, Numbered
  <2>3. Init => \A b \in Backup : ~obj[b].deleting /\ seen[b].born = 0
    BY DEF Init, Absent
  <2> QED
    BY <2>1, <2>2, <2>3 DEF Retained, Init
<1>2. Inv /\ Inv' /\ [Next]_vars /\ Numbered /\ Retained => Numbered' /\ Retained'
  BY NumberedStep, RetainedStep
<1>3. Inv /\ Retained => RetentionKeeps
  <2> SUFFICES ASSUME Inv, Retained, KeepLast # None, ~Aged, deletes = 0,
                      Cardinality(Live) < creates
               PROVE  Cardinality({b \in Live : obj[b].data # None}) >= KeepLast
    BY DEF RetentionKeeps
  <2>1. Enough(obj, 0)
    BY DEF Retained
  <2>2. Above(obj, 0) = {b \in Live : obj[b].data # None}
    BY DEF Above, Live, Inv, Stored, Object
  <2> QED
    BY <2>1, <2>2 DEF Enough
<1> QED
  BY <1>1, <1>2, <1>3, InvHolds, PTL DEF Spec
=============================================================================
