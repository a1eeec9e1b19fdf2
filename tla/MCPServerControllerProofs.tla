-------------------- MODULE MCPServerControllerProofs --------------------
(***************************************************************************)
(* What TLAPS proves of MCPServerController, for every value of the        *)
(* constants.  TypeCorrect and BookkeepingHolds are invariants of every    *)
(* behaviour; NeverRendersHolds follows from them.  GuardedWorkHolds and   *)
(* FinalizerProtocolHolds need that nobody uses the deprecated field;      *)
(* NoLostWakeupHolds and RefusalReportedHolds do not.                      *)
(***************************************************************************)
EXTENDS MCPServerController, TLAPS

-----------------------------------------------------------------------------
(***************************************************************************)
(* Type correctness.                                                       *)
(***************************************************************************)
\* The value of an object that is not there is an object.
LEMMA AbsentIsObject == Absent \in Object
BY DEF Absent, Object, CondStatus

\* Every stage Reconcile chooses is a stage.
LEMMA StagesAreStages ==
  /\ {"idle", "normalise", "panic", "render"} \subseteq Stage
  /\ \A o : NextStage(o) \in Stage
BY DEF NextStage, Stage

\* What the writes of the reconciler and of the others store is an object.
LEMMA EditsAreObjects ==
  ASSUME NEW o \in Object
  PROVE  /\ \A b \in BOOLEAN : /\ [o EXCEPT !.fin = b] \in Object
                               /\ [o EXCEPT !.deleting = TRUE, !.other = @ \/ b] \in Object
         /\ [o EXCEPT !.other = FALSE] \in Object
         /\ \A c \in CondStatus : /\ [o EXCEPT !.fetched = c] \in Object
                                  /\ [o EXCEPT !.ready = c] \in Object
         /\ \A n \in Registry \cup {None} : /\ [o EXCEPT !.name = n] \in Object
                                            /\ [o EXCEPT !.alias = n] \in Object
         /\ \A i \in Template \cup {UserImage, None, Bare} : [o EXCEPT !.image = i] \in Object
         /\ \A copy \in Object, t \in Template : Enriched(o, copy, t) \in Object
         /\ Protected(o) \in Object /\ Released(o) \in Object
<1>1. \A b \in BOOLEAN : /\ [o EXCEPT !.fin = b] \in Object
                         /\ [o EXCEPT !.deleting = TRUE, !.other = @ \/ b] \in Object
  BY DEF Object
<1>2. [o EXCEPT !.other = FALSE] \in Object
  BY DEF Object
<1>3. \A c \in CondStatus : /\ [o EXCEPT !.fetched = c] \in Object
                            /\ [o EXCEPT !.ready = c] \in Object
  BY DEF Object
<1>4. \A n \in Registry \cup {None} : /\ [o EXCEPT !.name = n] \in Object
                                      /\ [o EXCEPT !.alias = n] \in Object
  BY DEF Object
<1>5. \A i \in Template \cup {UserImage, None, Bare} : [o EXCEPT !.image = i] \in Object
  BY DEF Object
<1>6. \A copy \in Object, t \in Template : Enriched(o, copy, t) \in Object
  BY DEF Object, Enriched
<1>7. Protected(o) \in Object /\ Released(o) \in Object
  BY <1>1 DEF Protected, Released
<1> QED
  BY <1>1, <1>2, <1>3, <1>4, <1>5, <1>6, <1>7

\* So is what a PUT stores, what a status PUT stores, and a decoded answer.
LEMMA PutIsObject ==
  ASSUME TypeOK, NEW s \in Server, NEW copy \in Object
  PROVE  Put(s, copy) \in Object
<1>1. obj[s] \in Object
  BY DEF TypeOK
<1>2. [copy EXCEPT !.deleting = obj[s].deleting,
                   !.fetched = obj[s].fetched, !.ready = obj[s].ready] \in Object
  BY <1>1 DEF Object
<1> QED
  BY <1>2, AbsentIsObject DEF Put

LEMMA StatusIsObject ==
  ASSUME TypeOK, NEW s \in Server, NEW copy \in Object
  PROVE  [obj[s] EXCEPT !.fetched = copy.fetched, !.ready = copy.ready] \in Object
<1>1. obj[s] \in Object
  BY DEF TypeOK
<1> QED
  BY <1>1 DEF Object

LEMMA DecodedIsObject ==
  ASSUME NEW o \in Object, NEW copy \in Object
  PROVE  Decoded(o, copy) \in Object
<1> DEFINE finalizers == o.fin \/ o.other
           conditions == o.fetched # "Unset" \/ o.ready # "Unset"
           bare == IF copy.image = Bare THEN None ELSE copy.image
<1>1. (IF o.alias = None THEN copy.alias ELSE o.alias) \in Registry \cup {None}
  BY DEF Object
<1>2. (IF o.image = Bare THEN copy.image ELSE IF o.image = None THEN bare ELSE o.image)
        \in Template \cup {UserImage, None, Bare}
  BY DEF Object
<1>3. (IF o.digest = None THEN copy.digest ELSE o.digest) \in Template \cup {None}
  BY DEF Object
<1>4. /\ (IF finalizers THEN o.fin ELSE copy.fin) \in BOOLEAN
      /\ (IF finalizers THEN o.other ELSE copy.other) \in BOOLEAN
      /\ (o.deleting \/ copy.deleting) \in BOOLEAN
  BY DEF Object
<1>5. /\ (IF conditions THEN o.fetched ELSE copy.fetched) \in CondStatus
      /\ (IF conditions THEN o.ready ELSE copy.ready) \in CondStatus
  BY DEF Object
<1> HIDE DEF finalizers, conditions, bare
<1>6. Decoded(o, copy) =
        [o EXCEPT !.alias = IF o.alias = None THEN copy.alias ELSE o.alias,
                  !.image = IF o.image = Bare THEN copy.image
                            ELSE IF o.image = None THEN bare ELSE o.image,
                  !.digest = IF o.digest = None THEN copy.digest ELSE o.digest,
                  !.fin = IF finalizers THEN o.fin ELSE copy.fin,
                  !.other = IF finalizers THEN o.other ELSE copy.other,
                  !.deleting = o.deleting \/ copy.deleting,
                  !.fetched = IF conditions THEN o.fetched ELSE copy.fetched,
                  !.ready = IF conditions THEN o.ready ELSE copy.ready]
  BY DEF Decoded, Object, finalizers, conditions, bare
<1> QED
  BY <1>1, <1>2, <1>3, <1>4, <1>5, <1>6 DEF Object

\* The template Reconcile finds in the cache is one, or None.
LEMMA CachedTemplateType ==
  ASSUME TypeOK, NEW s \in Server
  PROVE  CachedTemplate(s) \in Template \cup {None}
<1>1. CASE held[s].name \in Registry
  <2>1. cmSeen[held[s].name] \in [Server -> Template \cup {None}]
    BY <1>1 DEF TypeOK
  <2> QED
    BY <1>1, <2>1 DEF CachedTemplate
<1>2. CASE held[s].name \notin Registry
  BY <1>2 DEF CachedTemplate
<1> QED
  BY <1>1, <1>2

\* The writes and the ends of a reconcile keep the types.
LEMMA StoreTypes ==
  ASSUME TypeOK, NEW s \in Server, NEW o \in Object, Store(s, o)
  PROVE  obj' \in [Server -> Object] /\ fresh' \in [Server -> BOOLEAN]
<1>1. obj' \in [Server -> Object]
  BY DEF Store, TypeOK
<1>2. fresh' \in [Server -> BOOLEAN]
  BY DEF Store, TypeOK
<1> QED
  BY <1>1, <1>2

LEMMA FinishTypes ==
  ASSUME TypeOK, NEW s \in Server, Finish(s)
  PROVE  /\ pc' \in [Server -> Stage]
         /\ held' \in [Server -> Object]
         /\ heldFresh' \in [Server -> BOOLEAN]
<1>1. pc' \in [Server -> Stage]
  BY StagesAreStages DEF Finish, TypeOK
<1>2. held' \in [Server -> Object]
  BY AbsentIsObject DEF Finish, TypeOK
<1>3. heldFresh' \in [Server -> BOOLEAN]
  BY DEF Finish, TypeOK
<1> QED
  BY <1>1, <1>2, <1>3

LEMMA ReturnTypes ==
  ASSUME TypeOK, NEW s \in Server, Return(s) \/ Requeue(s)
  PROVE  /\ pc' \in [Server -> Stage]
         /\ held' \in [Server -> Object]
         /\ heldFresh' \in [Server -> BOOLEAN]
         /\ queue' \subseteq Server
<1>1. Finish(s) /\ queue' \subseteq Server
  BY DEF Return, Requeue, TypeOK
<1> QED
  BY <1>1, FinishTypes

LEMMA StoreAndHoldTypes ==
  ASSUME TypeOK, NEW s \in Server, NEW o \in Object, NEW copy \in Object,
         StoreAndHold(s, o, copy)
  PROVE  /\ obj' \in [Server -> Object] /\ fresh' \in [Server -> BOOLEAN]
         /\ pc' \in [Server -> Stage]
         /\ held' \in [Server -> Object]
         /\ heldFresh' \in [Server -> BOOLEAN]
         /\ queue' \subseteq Server
<1>1. Store(s, o)
  BY DEF StoreAndHold
<1>2. obj' \in [Server -> Object] /\ fresh' \in [Server -> BOOLEAN]
  BY <1>1, StoreTypes
<1>3. pc' \in [Server -> Stage]
  BY StagesAreStages DEF StoreAndHold, TypeOK
<1>4. held' \in [Server -> Object]
  BY DecodedIsObject DEF StoreAndHold, TypeOK
<1>5. heldFresh' \in [Server -> BOOLEAN] /\ queue' \subseteq Server
  BY DEF StoreAndHold, TypeOK
<1> QED
  BY <1>2, <1>3, <1>4, <1>5

LEMMA SaveStatusTypes ==
  ASSUME TypeOK, NEW s \in Server, NEW copy \in Object, SaveStatus(s, copy)
  PROVE  /\ obj' \in [Server -> Object]
         /\ fresh' \in [Server -> BOOLEAN]
         /\ stamped' \in [Server -> BOOLEAN]
<1>1. [obj[s] EXCEPT !.fetched = copy.fetched, !.ready = copy.ready] \in Object
  BY StatusIsObject
<1> QED
  BY <1>1 DEF SaveStatus, TypeOK

LEMMA OutsideTypes ==
  ASSUME TypeOK, NEW s \in Server, NEW o \in Object, Outside(s, o)
  PROVE  /\ obj' \in [Server -> Object]
         /\ fresh' \in [Server -> BOOLEAN]
         /\ heldFresh' \in [Server -> BOOLEAN]
<1>1. obj' \in [Server -> Object]
  BY DEF Outside, TypeOK
<1>2. fresh' \in [Server -> BOOLEAN] /\ heldFresh' \in [Server -> BOOLEAN]
  BY DEF Outside, TypeOK
<1> QED
  BY <1>1, <1>2

\* Every step keeps the types.
LEMMA TypeStep == TypeOK /\ [Next]_vars => TypeOK'
<1> SUFFICES ASSUME TypeOK, [Next]_vars PROVE TypeOK'
  OBVIOUS
<1> USE AbsentIsObject, StagesAreStages
<1> USE DEF apiVars, cmVars, workVars, bounds
<1>1. ASSUME NEW s \in Server, Begin(s) PROVE TypeOK'
  <2>1. held' \in [Server -> Object]
    BY <1>1 DEF Begin, TypeOK
  <2>2. pc' \in [Server -> Stage]
    BY <1>1 DEF Begin, TypeOK
  <2> QED
    BY <1>1, <2>1, <2>2 DEF Begin, TypeOK
<1>a. \A s \in Server : /\ obj[s] \in Object
                        /\ held[s] \in Object
                        /\ [obj[s] EXCEPT !.name = held[s].alias] \in Object
                        /\ Put(s, Protected(held[s])) \in Object
                        /\ Put(s, Released(held[s])) \in Object
                        /\ Protected(held[s]) \in Object
  <2> SUFFICES ASSUME NEW s \in Server
               PROVE  /\ obj[s] \in Object
                      /\ held[s] \in Object
                      /\ [obj[s] EXCEPT !.name = held[s].alias] \in Object
                      /\ Put(s, Protected(held[s])) \in Object
                      /\ Put(s, Released(held[s])) \in Object
                      /\ Protected(held[s]) \in Object
    OBVIOUS
  <2>1. held[s] \in Object /\ obj[s] \in Object
    BY DEF TypeOK
  <2>2. held[s].alias \in Registry \cup {None}
    BY <2>1 DEF Object
  <2>3. [obj[s] EXCEPT !.name = held[s].alias] \in Object
    BY <2>1, <2>2, EditsAreObjects
  <2>4. Protected(held[s]) \in Object /\ Released(held[s]) \in Object
    BY <2>1, EditsAreObjects
  <2> QED
    BY <2>1, <2>3, <2>4, PutIsObject
<1>2. ASSUME NEW s \in Server, Normalise(s) PROVE TypeOK'
  BY <1>2, <1>a, StoreAndHoldTypes, ReturnTypes DEF Normalise, TypeOK
<1>3. ASSUME NEW s \in Server, AddFinalizer(s) PROVE TypeOK'
  BY <1>3, <1>a, StoreAndHoldTypes, ReturnTypes DEF AddFinalizer, TypeOK
<1>4. ASSUME NEW s \in Server, RemoveFinalizer(s) PROVE TypeOK'
  BY <1>4, <1>a, StoreTypes, ReturnTypes DEF RemoveFinalizer, TypeOK
<1>21. ASSUME NEW s \in Server, Panic(s) PROVE TypeOK'
  BY <1>21, ReturnTypes DEF Panic, TypeOK
<1>5. ASSUME NEW s \in Server, CacheMissing(s) PROVE TypeOK'
  <2>1. [held[s] EXCEPT !.fetched = "False"] \in Object
    BY EditsAreObjects DEF TypeOK, CondStatus
  <2> QED
    BY <1>5, <2>1, SaveStatusTypes, ReturnTypes DEF CacheMissing, TypeOK
<1>6. ASSUME NEW s \in Server, Enrich(s) PROVE TypeOK'
  <2>1. CachedTemplate(s) \in Template
    BY <1>6, CachedTemplateType DEF Enrich
  <2>2. Enriched(obj[s], held[s], CachedTemplate(s)) \in Object
    BY <2>1, EditsAreObjects DEF TypeOK
  <2> QED
    BY <1>6, <2>2, StoreTypes, ReturnTypes DEF Enrich, TypeOK
<1>7. ASSUME NEW s \in Server, Validate(s) PROVE TypeOK'
  <2>1. [held[s] EXCEPT !.ready = "False"] \in Object
    BY EditsAreObjects DEF TypeOK, CondStatus
  <2> QED
    BY <1>7, <2>1, SaveStatusTypes, ReturnTypes DEF Validate, TypeOK
<1>8. ASSUME NEW s \in Server, ApiError(s) PROVE TypeOK'
  <2>1. faults' \in 0 .. MaxFaults
    BY <1>8, ConstantsAssumption DEF ApiError, TypeOK
  <2> QED
    BY <1>8, <2>1, ReturnTypes DEF ApiError, TypeOK
<1>9. ASSUME NEW s \in Server, ReplyLost(s) PROVE TypeOK'
  <2>1. faults' \in 0 .. MaxFaults
    BY <1>9, ConstantsAssumption DEF ReplyLost, TypeOK
  <2> QED
    BY <1>9, <1>a, <2>1, StoreTypes, ReturnTypes DEF ReplyLost, TypeOK
<1>10. ASSUME NEW s \in Server, Deliver(s) PROVE TypeOK'
  BY <1>10 DEF Deliver, TypeOK
<1>11. ASSUME NEW s \in Server, NEW r \in Registry, DeliverConfigMap(r, s)
       PROVE  TypeOK'
  BY <1>11 DEF DeliverConfigMap, TypeOK
<1>12. ASSUME NEW s \in Server, NEW o \in Object, UserWrites(s, o),
              stamped' \in [Server -> BOOLEAN]
       PROVE  TypeOK'
  <2>1. edits' \in 0 .. MaxEdits
    BY <1>12, ConstantsAssumption DEF UserWrites, TypeOK
  <2>2. Outside(s, o)
    BY <1>12 DEF UserWrites
  <2> QED
    BY <1>12, <2>1, <2>2, OutsideTypes DEF UserWrites, Outside, TypeOK
<1>13. ASSUME NEW s \in Server, CreateServer(s) PROVE TypeOK'
  <2>1. PICK n \in NameValues \cup {None}, a \in AliasValues \cup {None},
             i \in ImageValues :
          UserWrites(s, [Absent EXCEPT !.exists = TRUE, !.name = n, !.alias = a,
                                       !.image = i])
    BY <1>13 DEF CreateServer
  <2>2. [Absent EXCEPT !.exists = TRUE, !.name = n, !.alias = a, !.image = i] \in Object
    BY ConstantsAssumption DEF Object
  <2>3. stamped' \in [Server -> BOOLEAN]
    BY <1>13 DEF CreateServer, TypeOK
  <2> QED
    BY <1>12, <2>1, <2>2, <2>3
<1>14. ASSUME NEW s \in Server, EditServer(s) PROVE TypeOK'
  <2>1. obj[s] \in Object /\ stamped' \in [Server -> BOOLEAN]
    BY <1>14 DEF EditServer, TypeOK
  <2>2. \E o \in Object : UserWrites(s, o)
    BY <1>14, <2>1, EditsAreObjects, ConstantsAssumption DEF EditServer
  <2> QED
    BY <1>12, <2>1, <2>2
<1>15. ASSUME NEW s \in Server, NEW foreground \in BOOLEAN, DeleteServer(s, foreground)
       PROVE  TypeOK'
  <2>1. obj[s] \in Object /\ stamped' \in [Server -> BOOLEAN]
    BY <1>15 DEF DeleteServer, TypeOK
  <2>2. \E o \in Object : UserWrites(s, o)
    BY <1>15, <2>1, EditsAreObjects DEF DeleteServer
  <2> QED
    BY <1>12, <2>1, <2>2
<1>16. ASSUME NEW s \in Server, FinishForeground(s) PROVE TypeOK'
  <2>1. [obj[s] EXCEPT !.other = FALSE] \in Object
    BY EditsAreObjects DEF TypeOK
  <2> QED
    BY <1>16, <2>1, OutsideTypes DEF FinishForeground, Outside, TypeOK
<1>17. ASSUME NEW s \in Server, NEW r \in Registry, NEW t \in Template \cup {None},
              SyncConfigMap(r, s, t)
       PROVE  TypeOK'
  <2>1. syncs' \in 0 .. MaxSyncs
    BY <1>17, ConstantsAssumption DEF SyncConfigMap, TypeOK
  <2> QED
    BY <1>17, <2>1 DEF SyncConfigMap, TypeOK
<1>18. CASE Tick
  BY <1>18 DEF Tick, TypeOK
<1>19. CASE Restart
  <2>1. restarts' \in 0 .. MaxRestarts
    BY <1>19, ConstantsAssumption DEF Restart, TypeOK
  <2> QED
    BY <1>19, <2>1 DEF Restart, TypeOK
<1>20. CASE UNCHANGED vars
  BY <1>20 DEF vars, TypeOK
<1> QED
  BY <1>1, <1>2, <1>3, <1>4, <1>5, <1>6, <1>7, <1>8, <1>9, <1>10, <1>11, <1>13,
     <1>14, <1>15, <1>16, <1>17, <1>18, <1>19, <1>20, <1>21 DEF Next, ServerNext, Reconcile

\* The variables have their types in every reachable state.
THEOREM TypeCorrect == Spec => []TypeOK
<1>1. Init => TypeOK
  BY ConstantsAssumption, AbsentIsObject, StagesAreStages DEF Init, TypeOK
<1>2. TypeOK /\ [Next]_vars => TypeOK'
  BY TypeStep
<1> QED
  BY <1>1, <1>2, PTL DEF Spec

-----------------------------------------------------------------------------
(***************************************************************************)
(* The bookkeeping of versions and stages.                                 *)
(***************************************************************************)
\* What is known of the server q.
View(q) == <<obj[q], seen[q], fresh[q], pc[q], held[q], heldFresh[q]>>

\* A step of one server leaves the view of the others alone.
LEMMA Frame ==
  ASSUME TypeOK, NEW s \in Server, NEW q \in Server, q # s, ServerNext(s)
  PROVE  UNCHANGED View(q)
<1> USE DEF TypeOK, View, apiVars, cmVars, workVars, bounds
<1>1. CASE Begin(s)
  BY <1>1 DEF Begin
<1>2. CASE Normalise(s)
  BY <1>2 DEF Normalise, StoreAndHold, Store, Requeue, Finish
<1>18. CASE Panic(s)
  BY <1>18 DEF Panic, Requeue, Finish
<1>3. CASE AddFinalizer(s)
  BY <1>3 DEF AddFinalizer, StoreAndHold, Store, Requeue, Finish
<1>4. CASE RemoveFinalizer(s)
  BY <1>4 DEF RemoveFinalizer, Store, Return, Requeue, Finish
<1>5. CASE CacheMissing(s)
  BY <1>5 DEF CacheMissing, SaveStatus, Return, Finish
<1>6. CASE Enrich(s)
  BY <1>6 DEF Enrich, Store, Requeue, Finish
<1>7. CASE Validate(s)
  BY <1>7 DEF Validate, SaveStatus, Return, Finish
<1>8. CASE ApiError(s)
  BY <1>8 DEF ApiError, Return, Requeue, Finish
<1>9. CASE ReplyLost(s)
  BY <1>9 DEF ReplyLost, Store, Requeue, Finish
<1>10. CASE Deliver(s)
  BY <1>10 DEF Deliver
<1>11. ASSUME NEW o, Outside(s, o) PROVE UNCHANGED View(q)
  BY <1>11 DEF Outside
<1>12. CASE CreateServer(s)
  BY <1>11, <1>12 DEF CreateServer, UserWrites
<1>13. CASE EditServer(s)
  BY <1>11, <1>13 DEF EditServer, UserWrites
<1>14. ASSUME NEW foreground \in BOOLEAN, DeleteServer(s, foreground)
       PROVE  UNCHANGED View(q)
  BY <1>11, <1>14 DEF DeleteServer, UserWrites
<1>15. CASE FinishForeground(s)
  BY <1>11, <1>15 DEF FinishForeground
<1>16. ASSUME NEW r \in Registry, DeliverConfigMap(r, s) PROVE UNCHANGED View(q)
  BY <1>16 DEF DeliverConfigMap
<1>17. ASSUME NEW r \in Registry, NEW t \in Template \cup {None}, SyncConfigMap(r, s, t)
       PROVE  UNCHANGED View(q)
  BY <1>17 DEF SyncConfigMap
<1> QED
  BY <1>1, <1>2, <1>3, <1>4, <1>5, <1>6, <1>7, <1>8, <1>9, <1>10, <1>12, <1>13,
     <1>14, <1>15, <1>16, <1>17, <1>18 DEF ServerNext, Reconcile

\* The stage fits the object it was chosen for.
LEMMA NextStageFits ==
  ASSUME NEW o
  PROVE  /\ NextStage(o) \in {"panic", "finalizer", "delete", "enrich", "validate"}
         /\ NextStage(o) = "finalizer" => ~o.fin
         /\ NextStage(o) = "delete" => o.fin /\ o.deleting
         /\ NextStage(o) = "enrich" => o.fin /\ ~o.deleting
         /\ NextStage(o) = "validate" => /\ o.fin /\ ~o.deleting
                                         /\ RegistryOf(o) = None
BY DEF NextStage

\* A reconcile that has ended, and whose write was current, is bookkept.
LEMMA IdleBookkept ==
  ASSUME TypeOK, NEW s \in Server, Bookkept(s), Finish(s),
         UNCHANGED seen,
         UNCHANGED <<obj, fresh>> \/ \E o \in Object : (o.exists \/ ~o.fin) /\ Store(s, o)
  PROVE  Bookkept(s)'
<1>1. /\ pc'[s] = "idle"
      /\ ~heldFresh'[s]
  BY DEF Finish, TypeOK
<1>2. CASE UNCHANGED <<obj, fresh>>
  BY <1>1, <1>2 DEF Bookkept
<1>3. ASSUME NEW o \in Object, o.exists \/ ~o.fin, Store(s, o)
      PROVE  Bookkept(s)'
  BY <1>1, <1>3 DEF Bookkept, Store, TypeOK
<1> QED
  BY <1>2, <1>3

\* A decoded answer is there if the object is.
LEMMA DecodedExists ==
  ASSUME NEW o \in Object, NEW copy \in Object
  PROVE  Decoded(o, copy).exists = o.exists
BY DEF Decoded, Object

\* A reconcile that goes on from a write holds the answer.
LEMMA HoldingBookkept ==
  ASSUME TypeOK, NEW s \in Server, Bookkept(s), UNCHANGED seen,
         NEW o \in Object, NEW copy \in Object, o.exists, StoreAndHold(s, o, copy)
  PROVE  Bookkept(s)'
<1>1. /\ obj'[s] = o
      /\ held'[s] = Decoded(o, copy)
      /\ pc'[s] = NextStage(Decoded(o, copy))
  BY DEF StoreAndHold, Store, TypeOK
<1>2. fresh'[s] => o = obj[s] /\ fresh[s]
  BY DEF StoreAndHold, Store, TypeOK
<1>3. Decoded(o, copy).exists
  BY DecodedExists
<1> QED
  BY <1>1, <1>2, <1>3, NextStageFits DEF Bookkept

\* A status write keeps what the bookkeeping says of the object.
LEMMA SaveStatusBookkept ==
  ASSUME TypeOK, NEW s \in Server, Bookkept(s), Finish(s), UNCHANGED seen,
         NEW copy \in Object, SaveStatus(s, copy)
  PROVE  Bookkept(s)'
<1>1. /\ pc'[s] = "idle"
      /\ ~heldFresh'[s]
  BY DEF Finish, TypeOK
<1> DEFINE o == [obj[s] EXCEPT !.fetched = copy.fetched, !.ready = copy.ready]
<1>2. o.exists = obj[s].exists /\ o.fin = obj[s].fin
  <2>1. obj[s] \in Object
    BY DEF TypeOK
  <2> QED
    BY <2>1 DEF Object
<1>3. \/ obj'[s] = o /\ ~fresh'[s]
      \/ UNCHANGED <<obj, fresh>>
  BY DEF SaveStatus, TypeOK
<1> QED
  BY <1>1, <1>2, <1>3 DEF Bookkept

\* A write of somebody else makes every copy old.
LEMMA OutsideBookkept ==
  ASSUME TypeOK, NEW s \in Server, Bookkept(s),
         NEW o \in Object, o.exists \/ ~o.fin, Outside(s, o)
  PROVE  Bookkept(s)'
BY DEF Outside, Bookkept, TypeOK

\* The fields of an edited object.
LEMMA EditedFields ==
  ASSUME NEW o \in Object
  PROVE  /\ \A n : /\ [o EXCEPT !.name = n].exists = o.exists
                   /\ [o EXCEPT !.name = n].fin = o.fin
                   /\ [o EXCEPT !.name = n].deleting = o.deleting
                   /\ [o EXCEPT !.name = n].alias = o.alias
         /\ \A c, d : LET p == [o EXCEPT !.fetched = c, !.ready = d]
                      IN  /\ p.exists = o.exists /\ p.fin = o.fin
                          /\ p.deleting = o.deleting /\ p.alias = o.alias
         /\ \A copy, t : /\ Enriched(o, copy, t).exists = o.exists
                         /\ Enriched(o, copy, t).fin = o.fin
                         /\ Enriched(o, copy, t).deleting = o.deleting
                         /\ Enriched(o, copy, t).alias = o.alias
         /\ /\ Protected(o).exists = o.exists
            /\ Protected(o).fin
            /\ Protected(o).deleting = o.deleting
            /\ Protected(o).alias = o.alias
         /\ /\ Released(o).exists = o.exists
            /\ Released(o).fin = FALSE
            /\ Released(o).deleting = o.deleting
            /\ Released(o).alias = o.alias
BY DEF Object, Enriched, Protected, Released

\* What a PUT stores of a copy.
LEMMA PutFields ==
  ASSUME TypeOK, NEW s \in Server, NEW copy \in Object
  PROVE  /\ Put(s, copy).alias \in {copy.alias, None}
         /\ Put(s, copy).fin \in {copy.fin, FALSE}
         /\ copy.exists => Put(s, copy).exists \/ ~Put(s, copy).fin
         /\ copy.fin => /\ Put(s, copy).fin
                        /\ Put(s, copy).exists = copy.exists
                        /\ Put(s, copy).deleting = obj[s].deleting
                        /\ Put(s, copy).alias = copy.alias
<1>1. obj[s] \in Object
  BY DEF TypeOK
<1> QED
  BY <1>1 DEF Put, Object, Absent

\* Users and the garbage collector.
Surroundings(s) ==
  \/ CreateServer(s)
  \/ EditServer(s)
  \/ \E foreground \in BOOLEAN : DeleteServer(s, foreground)
  \/ FinishForeground(s)

\* What they write keeps our finalizer as it is, and the request to delete.
LEMMA SurroundingsWrite ==
  ASSUME TypeOK, NEW s \in Server, Bookkept(s), Surroundings(s)
  PROVE  \E o \in Object : /\ Outside(s, o)
                           /\ o.exists \/ ~o.fin
                           /\ o.fin = obj[s].fin
                           /\ o.fin /\ obj[s].deleting => o.deleting
                           /\ AliasValues = {} /\ obj[s].alias = None => o.alias = None
<1> DEFINE Kept(o) == /\ o.exists \/ ~o.fin
                      /\ o.fin = obj[s].fin
                      /\ o.fin /\ obj[s].deleting => o.deleting
                      /\ AliasValues = {} /\ obj[s].alias = None => o.alias = None
<1>a. obj[s] \in Object /\ obj[s].fin \in BOOLEAN
  BY DEF TypeOK, Object
<1>b. obj[s].exists \/ ~obj[s].fin
  BY DEF Bookkept
<1>1. CASE CreateServer(s)
  <2>1. PICK n \in NameValues \cup {None}, a \in AliasValues \cup {None},
             i \in ImageValues :
          UserWrites(s, [Absent EXCEPT !.exists = TRUE, !.name = n, !.alias = a,
                                       !.image = i])
    BY <1>1 DEF CreateServer
  <2> DEFINE o == [Absent EXCEPT !.exists = TRUE, !.name = n, !.alias = a, !.image = i]
  <2>2. o \in Object
    BY AbsentIsObject, ConstantsAssumption DEF Object
  <2>3. o.exists /\ o.fin = FALSE /\ o.alias = a
    BY DEF Absent
  <2>4. ~obj[s].fin
    BY <1>1, <1>b DEF CreateServer
  <2>5. Kept(o)
    <3> HIDE DEF o
    <3>1. AliasValues = {} => o.alias = None
      BY <2>3
    <3> QED
      BY <1>a, <2>3, <2>4, <3>1
  <2> QED
    BY <2>1, <2>2, <2>5 DEF UserWrites
<1>2. CASE EditServer(s)
  <2>1. CASE \E n \in NameValues \cup {None} : UserWrites(s, [obj[s] EXCEPT !.name = n])
    <3>1. PICK n \in NameValues \cup {None} : UserWrites(s, [obj[s] EXCEPT !.name = n])
      BY <2>1
    <3>2. [obj[s] EXCEPT !.name = n] \in Object
      BY <1>a, EditsAreObjects, ConstantsAssumption
    <3>3. Kept([obj[s] EXCEPT !.name = n])
      BY <1>a, <1>b, EditedFields
    <3> QED
      BY <3>1, <3>2, <3>3 DEF UserWrites
  <2>2. CASE \E a \in AliasValues \cup {None} : UserWrites(s, [obj[s] EXCEPT !.alias = a])
    <3>1. PICK a \in AliasValues \cup {None} : UserWrites(s, [obj[s] EXCEPT !.alias = a])
      BY <2>2
    <3>2. [obj[s] EXCEPT !.alias = a] \in Object
      BY <1>a, EditsAreObjects, ConstantsAssumption
    <3>3. Kept([obj[s] EXCEPT !.alias = a])
      BY <1>a, <1>b DEF Object
    <3> QED
      BY <3>1, <3>2, <3>3 DEF UserWrites
  <2>3. CASE \E i \in ImageValues : UserWrites(s, [obj[s] EXCEPT !.image = i])
    <3>1. PICK i \in ImageValues : UserWrites(s, [obj[s] EXCEPT !.image = i])
      BY <2>3
    <3>2. [obj[s] EXCEPT !.image = i] \in Object
      BY <1>a, EditsAreObjects, ConstantsAssumption
    <3>3. Kept([obj[s] EXCEPT !.image = i])
      BY <1>a, <1>b DEF Object
    <3> QED
      BY <3>1, <3>2, <3>3 DEF UserWrites
  <2> QED
    BY <1>2, <2>1, <2>2, <2>3 DEF EditServer
<1>3. ASSUME NEW foreground \in BOOLEAN, DeleteServer(s, foreground)
      PROVE  \E o \in Object : Outside(s, o) /\ Kept(o)
  <2> DEFINE o == [obj[s] EXCEPT !.deleting = TRUE, !.other = @ \/ foreground]
  <2>1. CASE obj[s].fin \/ foreground
    <3>1. o \in Object
      BY <1>a, EditsAreObjects
    <3>2. Kept(o)
      BY <1>a, <1>b DEF Object
    <3> QED
      BY <1>3, <2>1, <3>1, <3>2 DEF DeleteServer, UserWrites
  <2>2. CASE ~(obj[s].fin \/ foreground)
    <3>1. Kept(Absent)
      BY <1>a, <2>2 DEF Absent
    <3> QED
      BY <1>3, <2>2, <3>1, AbsentIsObject DEF DeleteServer, UserWrites
  <2> QED
    BY <2>1, <2>2
<1>4. CASE FinishForeground(s)
  <2>1. CASE obj[s].fin
    <3>1. [obj[s] EXCEPT !.other = FALSE] \in Object
      BY <1>a, EditsAreObjects
    <3>2. Kept([obj[s] EXCEPT !.other = FALSE])
      BY <1>a, <1>b DEF Object
    <3> QED
      BY <1>4, <2>1, <3>1, <3>2 DEF FinishForeground
  <2>2. CASE ~obj[s].fin
    <3>1. Kept(Absent)
      BY <1>a, <2>2 DEF Absent
    <3> QED
      BY <1>4, <2>2, <3>1, AbsentIsObject DEF FinishForeground
  <2> QED
    BY <2>1, <2>2
<1> QED
  BY <1>1, <1>2, <1>3, <1>4 DEF Surroundings

\* A step of a server keeps its bookkeeping.
LEMMA BookkeptStep ==
  ASSUME TypeOK, NEW s \in Server, Bookkept(s), ServerNext(s)
  PROVE  Bookkept(s)'
<1> USE DEF apiVars, cmVars, workVars, bounds
<1>a. obj[s] \in Object /\ held[s] \in Object /\ seen[s] \in Object
  BY DEF TypeOK
<1>1. CASE Begin(s)
  <2>1. CASE ~seen[s].exists
    BY <1>1, <2>1 DEF Begin, Bookkept
  <2>2. CASE seen[s].exists
    <3>1. /\ held'[s] = seen[s] /\ heldFresh'[s] = fresh[s]
          /\ pc'[s] = IF NeedsNormalise(seen[s]) THEN "normalise"
                      ELSE NextStage(seen[s])
      BY <1>1, <2>2 DEF Begin, TypeOK
    <3>2. UNCHANGED <<obj, seen, fresh>>
      BY <1>1 DEF Begin
    <3> QED
      BY <2>2, <3>1, <3>2, NextStageFits DEF Bookkept
  <2> QED
    BY <2>1, <2>2
<1>b. /\ Protected(held[s]) \in Object /\ Put(s, Protected(held[s])) \in Object
      /\ Released(held[s]) \in Object /\ Put(s, Released(held[s])) \in Object
  BY <1>a, EditsAreObjects, PutIsObject
<1>c. [obj[s] EXCEPT !.name = held[s].alias] \in Object
  <2>1. held[s].alias \in Registry \cup {None}
    BY <1>a DEF Object
  <2> QED
    BY <1>a, <2>1, EditsAreObjects
<1>d. obj[s].exists => [obj[s] EXCEPT !.name = held[s].alias].exists
  BY <1>a DEF Object
<1>e. held[s].exists => /\ Put(s, Protected(held[s])).exists
                        /\ Put(s, Released(held[s])).exists \/ ~Put(s, Released(held[s])).fin
  BY <1>a, <1>b, EditedFields, PutFields
<1>2. CASE Normalise(s)
  <2>1. CASE obj[s].exists /\ StoreAndHold(s, [obj[s] EXCEPT !.name = held[s].alias], held[s])
    BY <1>2, <1>a, <1>c, <1>d, <2>1, HoldingBookkept DEF Normalise
  <2>2. CASE Requeue(s) /\ UNCHANGED <<obj, fresh>>
    BY <1>2, <2>2, IdleBookkept DEF Normalise, Requeue
  <2> QED
    BY <1>2, <2>1, <2>2 DEF Normalise
<1>14. CASE Panic(s)
  BY <1>14, IdleBookkept DEF Panic, Requeue
<1>3. CASE AddFinalizer(s)
  <2>1. CASE StoreAndHold(s, Put(s, Protected(held[s])), Protected(held[s]))
    <3>1. held[s].exists
      BY <1>3 DEF AddFinalizer, Bookkept
    <3> QED
      BY <1>3, <1>b, <1>e, <2>1, <3>1, HoldingBookkept DEF AddFinalizer
  <2>2. CASE Requeue(s) /\ UNCHANGED <<obj, fresh>>
    BY <1>3, <2>2, IdleBookkept DEF AddFinalizer, Requeue
  <2> QED
    BY <1>3, <2>1, <2>2 DEF AddFinalizer
<1>4. CASE RemoveFinalizer(s)
  <2>1. held[s].exists
    BY <1>4 DEF RemoveFinalizer, Bookkept
  <2> QED
    BY <1>4, <1>b, <1>e, <2>1, IdleBookkept DEF RemoveFinalizer, Return, Requeue
<1>5. CASE CacheMissing(s)
  <2>1. [held[s] EXCEPT !.fetched = "False"] \in Object
    BY <1>a, EditsAreObjects DEF CondStatus
  <2> QED
    BY <1>5, <2>1, SaveStatusBookkept DEF CacheMissing, Return
<1>6. CASE Enrich(s)
  <2>1. CachedTemplate(s) \in Template
    BY <1>6, CachedTemplateType DEF Enrich
  <2>2. Enriched(obj[s], held[s], CachedTemplate(s)) \in Object
    BY <1>a, <2>1, EditsAreObjects
  <2>3. obj[s].exists => Enriched(obj[s], held[s], CachedTemplate(s)).exists
    BY <1>a, EditedFields
  <2> QED
    BY <1>6, <2>2, <2>3, IdleBookkept DEF Enrich, Requeue
<1>7. CASE Validate(s)
  <2>1. [held[s] EXCEPT !.ready = "False"] \in Object
    BY <1>a, EditsAreObjects DEF CondStatus
  <2>2. ~RegistryInfoValid(held[s])
    BY <1>7, <1>a, ConstantsAssumption
    DEF Validate, RegistryInfoValid, Bookkept, RegistryOf, Object
  <2> QED
    BY <1>7, <2>1, <2>2, SaveStatusBookkept DEF Validate, Return
<1>8. CASE ApiError(s)
  BY <1>8, IdleBookkept DEF ApiError, Return, Requeue
<1>9. CASE ReplyLost(s)
  <2>1. CASE obj[s].exists /\ Store(s, [obj[s] EXCEPT !.name = held[s].alias])
    BY <1>9, <1>c, <1>d, <2>1, IdleBookkept DEF ReplyLost, Requeue
  <2>2. CASE AddsFinalizer(s) /\ Store(s, Put(s, Protected(held[s])))
    <3>1. held[s].exists
      BY <2>2 DEF AddsFinalizer, Bookkept
    <3> QED
      BY <1>9, <1>b, <1>e, <2>2, <3>1, IdleBookkept DEF ReplyLost, Requeue
  <2>3. CASE pc[s] = "delete" /\ Store(s, Put(s, Released(held[s])))
    <3>1. held[s].exists
      BY <2>3 DEF Bookkept
    <3> QED
      BY <1>9, <1>b, <1>e, <2>3, <3>1, IdleBookkept DEF ReplyLost, Requeue
  <2> QED
    BY <1>9, <2>1, <2>2, <2>3 DEF ReplyLost
<1>10. CASE Deliver(s)
  BY <1>10 DEF Deliver, Bookkept, TypeOK
<1>11. CASE Surroundings(s)
  BY <1>11, SurroundingsWrite, OutsideBookkept
<1>12. ASSUME NEW r \in Registry, DeliverConfigMap(r, s) PROVE Bookkept(s)'
  BY <1>12 DEF DeliverConfigMap, Bookkept
<1>13. ASSUME NEW r \in Registry, NEW t \in Template \cup {None}, SyncConfigMap(r, s, t)
       PROVE  Bookkept(s)'
  BY <1>13 DEF SyncConfigMap, Bookkept
<1> QED
  BY <1>1, <1>2, <1>3, <1>4, <1>5, <1>6, <1>7, <1>8, <1>9, <1>10, <1>11, <1>12,
     <1>13, <1>14 DEF ServerNext, Reconcile, Surroundings

LEMMA BookkeepingStep ==
  TypeOK /\ Bookkeeping /\ [Next]_vars => Bookkeeping'
<1> SUFFICES ASSUME TypeOK, Bookkeeping, [Next]_vars, NEW q \in Server
             PROVE  Bookkept(q)'
  BY DEF Bookkeeping
<1>1. Bookkept(q)
  BY DEF Bookkeeping
<1>2. UNCHANGED View(q) => Bookkept(q)'
  BY <1>1 DEF View, Bookkept
<1>3. ASSUME NEW s \in Server, ServerNext(s) PROVE Bookkept(q)'
  <2>1. CASE s = q
    BY <1>1, <1>3, <2>1, BookkeptStep
  <2>2. CASE s # q
    BY <1>2, <1>3, <2>2, Frame
  <2> QED
    BY <2>1, <2>2
<1>4. CASE Tick
  BY <1>2, <1>4 DEF Tick, View, workVars
<1>5. CASE Restart
  <2>1. UNCHANGED obj /\ seen' = obj
    BY <1>5 DEF Restart, apiVars
  <2>2. pc'[q] = "idle" /\ ~heldFresh'[q]
    BY <1>5 DEF Restart
  <2> QED
    BY <1>1, <2>1, <2>2 DEF Bookkept
<1>6. CASE UNCHANGED vars
  BY <1>2, <1>6 DEF vars, View
<1> QED
  BY <1>3, <1>4, <1>5, <1>6 DEF Next

\* A copy called current is equal to the stored object, and the stage a
\* reconcile has reached fits the copy it works on, in every reachable state.
THEOREM BookkeepingHolds == Spec => []Bookkeeping
<1>1. Init => Bookkeeping
  <2> SUFFICES ASSUME Init, NEW s \in Server PROVE Bookkept(s)
    BY DEF Bookkeeping
  <2>1. seen = obj /\ pc[s] = "idle" /\ ~heldFresh[s]
    BY DEF Init
  <2>2. ~obj[s].fin
    BY DEF Init, Absent
  <2> QED
    BY <2>1, <2>2 DEF Bookkept
<1>2. TypeOK /\ Bookkeeping /\ [Next]_vars => Bookkeeping'
  BY BookkeepingStep
<1> QED
  BY <1>1, <1>2, TypeCorrect, PTL DEF Spec

\* No reconcile of the manager, whatever users write, whatever the registry
\* cache holds and whatever fails, gets past validation: no MCPServer is
\* ever rendered or deployed.
THEOREM NeverRendersHolds == Spec => []NeverRenders
<1>1. Bookkeeping => NeverRenders
  BY DEF Bookkeeping, Bookkept, NeverRenders
<1> QED
  BY <1>1, BookkeepingHolds, PTL

-----------------------------------------------------------------------------
(***************************************************************************)
(* The finalizer, if nobody uses the deprecated field.                     *)
(***************************************************************************)
\* A reconcile that has ended without touching the finalizer.
LEMMA EndGuarded ==
  ASSUME TypeOK, NEW s \in Server, Guarded(s), Finish(s), UNCHANGED seen,
         obj'[s].alias = None,
         obj[s].fin => obj'[s].fin,
         obj'[s].fin /\ seen[s].fin /\ seen[s].deleting => obj'[s].deleting
  PROVE  Guarded(s)'
<1>1. pc'[s] = "idle" /\ held'[s].alias = None /\ ~heldFresh'[s]
  BY DEF Finish, TypeOK, Absent
<1> QED
  BY <1>1 DEF Guarded

\* A PUT of a current copy with our finalizer stores that, and its answer says
\* the same.
LEMMA PutProtected ==
  ASSUME TypeOK, NEW s \in Server, held[s] = obj[s]
  PROVE  LET o == Put(s, Protected(held[s])) IN
         /\ o = Protected(obj[s])
         /\ Decoded(o, Protected(held[s])) = o
<1> DEFINE p == Protected(obj[s])
<1>1. obj[s] \in Object
  BY DEF TypeOK
<1>2. p \in Object /\ p.fin
  BY <1>1, EditsAreObjects, EditedFields
<1>3. /\ p.deleting = obj[s].deleting
      /\ p.fetched = obj[s].fetched
      /\ p.ready = obj[s].ready
  BY <1>1 DEF Protected, Object
<1> HIDE DEF p
<1>4. [p EXCEPT !.deleting = p.deleting, !.fetched = p.fetched, !.ready = p.ready] = p
  BY <1>2 DEF Object
<1>5. Put(s, p) = p
  BY <1>2, <1>3, <1>4 DEF Put
<1>6. Decoded(p, p) = p
  BY <1>2 DEF Decoded, Object
<1> QED
  BY <1>5, <1>6 DEF p

\* Adding the finalizer: the informer's copy cannot claim it yet.
LEMMA AddGuarded ==
  ASSUME TypeOK, NEW s \in Server, Guarded(s), AddsFinalizer(s)
  PROVE  /\ ~seen[s].fin
         /\ LET o == Put(s, Protected(held[s]))
            IN  /\ Decoded(o, Protected(held[s])) = o
                /\ o.fin /\ ~o.deleting /\ o.alias = None
<1>1. ~seen[s].fin /\ held[s] = obj[s] /\ obj[s].alias = None /\ ~obj[s].deleting
  BY DEF Guarded, AddsFinalizer
<1>2. obj[s] \in Object
  BY DEF TypeOK
<1>3. LET o == Put(s, Protected(held[s])) IN
      o = Protected(obj[s]) /\ Decoded(o, Protected(held[s])) = o
  BY <1>1, PutProtected
<1>4. /\ Protected(obj[s]).fin
      /\ ~Protected(obj[s]).deleting
      /\ Protected(obj[s]).alias = None
  BY <1>1, <1>2, EditedFields
<1> QED
  BY <1>1, <1>3, <1>4

\* A step of a server keeps it guarded.
LEMMA GuardedStep ==
  ASSUME AliasValues = {}, TypeOK, NEW s \in Server, Bookkept(s), Guarded(s),
         ServerNext(s)
  PROVE  Guarded(s)'
<1> USE DEF apiVars, cmVars, workVars, bounds
<1>a. obj[s] \in Object /\ held[s] \in Object /\ seen[s] \in Object
  BY DEF TypeOK
<1>b. obj \in [Server -> Object]
  BY DEF TypeOK
<1>c. ASSUME NEW o, Store(s, o) PROVE obj'[s] = o
  BY <1>c, <1>b DEF Store
<1>1. CASE Begin(s)
  <2>1. CASE ~seen[s].exists
    BY <1>1, <2>1 DEF Begin, Guarded
  <2>2. CASE seen[s].exists
    <3>1. ~NeedsNormalise(seen[s])
      BY DEF Guarded, NeedsNormalise
    <3>2. /\ held'[s] = seen[s] /\ heldFresh'[s] = fresh[s]
          /\ pc'[s] = NextStage(seen[s])
      BY <1>1, <2>2, <3>1 DEF Begin, TypeOK
    <3>3. UNCHANGED <<obj, seen, fresh>>
      BY <1>1 DEF Begin
    <3> QED
      BY <3>2, <3>3, NextStageFits DEF Guarded, Bookkept
  <2> QED
    BY <2>1, <2>2
<1>2. CASE Normalise(s)
  BY <1>2 DEF Normalise, Guarded
<1>16. CASE Panic(s)
  BY <1>16, EndGuarded DEF Panic, Requeue, Guarded
<1>3. CASE AddFinalizer(s)
  <2> DEFINE copy == Protected(held[s])
             o == Put(s, copy)
  <2>1. CASE AddsFinalizer(s) /\ StoreAndHold(s, o, copy)
    <3>1. /\ ~seen[s].fin /\ o.fin /\ ~o.deleting /\ o.alias = None
          /\ Decoded(o, copy) = o
      BY <2>1, AddGuarded
    <3> HIDE DEF o, copy
    <3>2. obj'[s] = o /\ held'[s] = o /\ pc'[s] = NextStage(o) /\ UNCHANGED seen
      BY <1>3, <2>1, <3>1 DEF AddFinalizer, StoreAndHold, Store, TypeOK
    <3>3. pc'[s] \in {"panic", "enrich", "validate"}
      BY <3>1, <3>2, NextStageFits
    <3> QED
      BY <3>1, <3>2, <3>3 DEF Guarded
  <2>2. CASE Requeue(s) /\ UNCHANGED obj
    BY <1>3, <2>2, EndGuarded DEF AddFinalizer, Requeue, Guarded
  <2> QED
    BY <1>3, <2>1, <2>2 DEF AddFinalizer
<1>4. ASSUME pc[s] = "delete", Store(s, Put(s, Released(held[s]))), Finish(s),
             UNCHANGED seen
      PROVE  Guarded(s)'
  <2> DEFINE copy == Released(held[s])
  <2>1. obj'[s] = Put(s, copy)
    BY <1>c, <1>4
  <2>2. copy \in Object /\ copy.fin = FALSE /\ copy.alias = None
    BY <1>a, EditsAreObjects, EditedFields DEF Guarded
  <2> HIDE DEF copy
  <2>3. obj'[s].fin = FALSE /\ obj'[s].alias = None
    BY <2>1, <2>2, PutFields
  <2>4. pc'[s] = "idle" /\ held'[s].alias = None /\ ~heldFresh'[s]
    BY <1>4 DEF Finish, TypeOK, Absent
  <2>5. ~seen[s].fin \/ seen[s].deleting
    BY <1>4 DEF Guarded
  <2> QED
    BY <1>4, <2>3, <2>4, <2>5 DEF Guarded
<1>5. CASE RemoveFinalizer(s)
  <2>1. CASE Requeue(s) /\ UNCHANGED obj
    BY <1>5, <2>1, EndGuarded DEF RemoveFinalizer, Requeue, Guarded
  <2> QED
    BY <1>4, <1>5, <2>1 DEF RemoveFinalizer, Return
<1>6. ASSUME NEW copy, SaveStatus(s, copy), Finish(s), UNCHANGED seen
      PROVE  Guarded(s)'
  <2> DEFINE o == [obj[s] EXCEPT !.fetched = copy.fetched, !.ready = copy.ready]
  <2>1. o.fin = obj[s].fin /\ o.deleting = obj[s].deleting /\ o.alias = obj[s].alias
    BY <1>a DEF Object
  <2>2. obj'[s] = o \/ UNCHANGED obj
    BY <1>6, <1>b DEF SaveStatus
  <2> QED
    BY <1>6, <2>1, <2>2, EndGuarded DEF Guarded
<1>7. CASE CacheMissing(s)
  BY <1>6, <1>7 DEF CacheMissing, Return
<1>8. CASE Enrich(s)
  <2> DEFINE o == Enriched(obj[s], held[s], CachedTemplate(s))
  <2>1. o.fin = obj[s].fin /\ o.deleting = obj[s].deleting /\ o.alias = obj[s].alias
    BY <1>a DEF Object, Enriched
  <2>2. obj'[s] = o \/ UNCHANGED obj
    BY <1>8, <1>c DEF Enrich
  <2> QED
    BY <1>8, <2>1, <2>2, EndGuarded DEF Enrich, Requeue, Guarded
<1>9. CASE Validate(s)
  <2>1. ~RegistryInfoValid(held[s])
    BY <1>9, <1>a, ConstantsAssumption
    DEF Validate, RegistryInfoValid, Bookkept, RegistryOf, Object
  <2> QED
    BY <1>6, <1>9, <2>1 DEF Validate, Return
<1>10. CASE ApiError(s)
  BY <1>10, EndGuarded DEF ApiError, Return, Requeue, Guarded
<1>11. CASE ReplyLost(s)
  <2>1. CASE AddsFinalizer(s) /\ Store(s, Put(s, Protected(held[s])))
    <3> DEFINE o == Put(s, Protected(held[s]))
    <3>1. ~seen[s].fin /\ o.fin /\ ~o.deleting /\ o.alias = None
      BY <2>1, AddGuarded
    <3>2. obj'[s] = o
      BY <1>c, <2>1
    <3> HIDE DEF o
    <3> QED
      BY <1>11, <3>1, <3>2, EndGuarded DEF ReplyLost, Requeue
  <2>2. CASE pc[s] = "delete" /\ Store(s, Put(s, Released(held[s])))
    BY <1>4, <1>11, <2>2 DEF ReplyLost, Requeue
  <2>3. pc[s] # "normalise"
    BY DEF Guarded
  <2> QED
    BY <1>11, <2>1, <2>2, <2>3 DEF ReplyLost
<1>12. CASE Deliver(s)
  <2>1. seen'[s] = obj[s] /\ UNCHANGED <<obj, pc, held, heldFresh>>
    BY <1>12 DEF Deliver, TypeOK
  <2> QED
    BY <2>1 DEF Guarded, Bookkept
<1>13. CASE Surroundings(s)
  <2>1. PICK o \in Object : /\ Outside(s, o)
                            /\ o.fin = obj[s].fin
                            /\ o.fin /\ obj[s].deleting => o.deleting
                            /\ o.alias = None
    BY <1>13, SurroundingsWrite DEF Guarded
  <2>2. obj'[s] = o /\ ~heldFresh'[s] /\ UNCHANGED <<seen, pc, held>>
    BY <2>1 DEF Outside, TypeOK
  <2> QED
    BY <2>1, <2>2 DEF Guarded
<1>14. ASSUME NEW r \in Registry, DeliverConfigMap(r, s) PROVE Guarded(s)'
  BY <1>14 DEF DeliverConfigMap, Guarded
<1>15. ASSUME NEW r \in Registry, NEW t \in Template \cup {None}, SyncConfigMap(r, s, t)
       PROVE  Guarded(s)'
  BY <1>15 DEF SyncConfigMap, Guarded
<1> QED
  BY <1>1, <1>2, <1>3, <1>5, <1>7, <1>8, <1>9, <1>10, <1>11, <1>12, <1>13, <1>14,
     <1>15, <1>16 DEF ServerNext, Reconcile, Surroundings

\* The inductive invariant of the finalizer.
LEMMA GuardHolds == AliasValues = {} => (Spec => []GuardInvariant)
<1> SUFFICES ASSUME AliasValues = {} PROVE Spec => []GuardInvariant
  OBVIOUS
<1>1. Init => GuardInvariant
  <2> SUFFICES ASSUME Init, NEW s \in Server PROVE Guarded(s)
    BY DEF GuardInvariant
  <2>1. /\ obj[s] = Absent /\ seen[s] = Absent /\ held[s] = Absent
        /\ pc[s] = "idle"
    BY DEF Init
  <2> QED
    BY <2>1 DEF Guarded, Absent
<1>2. TypeOK /\ Bookkeeping /\ GuardInvariant /\ [Next]_vars => GuardInvariant'
  <2> SUFFICES ASSUME TypeOK, Bookkeeping, GuardInvariant, [Next]_vars,
                      NEW q \in Server
               PROVE  Guarded(q)'
    BY DEF GuardInvariant
  <2>1. Bookkept(q) /\ Guarded(q)
    BY DEF Bookkeeping, GuardInvariant
  <2>2. UNCHANGED View(q) => Guarded(q)'
    BY <2>1 DEF View, Guarded
  <2>3. ASSUME NEW s \in Server, ServerNext(s) PROVE Guarded(q)'
    <3>1. CASE s = q
      BY <2>1, <2>3, <3>1, GuardedStep
    <3>2. CASE s # q
      BY <2>2, <2>3, <3>2, Frame
    <3> QED
      BY <3>1, <3>2
  <2>4. CASE Tick
    BY <2>2, <2>4 DEF Tick, View, workVars
  <2>5. CASE Restart
    <3>1. UNCHANGED obj /\ seen' = obj
      BY <2>5 DEF Restart, apiVars
    <3>2. pc'[q] = "idle" /\ held'[q].alias = None /\ ~heldFresh'[q]
      BY <2>5 DEF Restart, Absent
    <3> QED
      BY <2>1, <3>1, <3>2 DEF Guarded
  <2>6. CASE UNCHANGED vars
    BY <2>2, <2>6 DEF vars, View
  <2> QED
    BY <2>3, <2>4, <2>5, <2>6 DEF Next
<1> QED
  BY <1>1, <1>2, TypeCorrect, BookkeepingHolds, PTL DEF Spec

\* If nobody uses the deprecated field, a reconcile enriches and validates only
\* objects that carry the operator's finalizer.
THEOREM GuardedWorkHolds == AliasValues = {} => (Spec => []GuardedWork)
<1>1. GuardInvariant => GuardedWork
  BY DEF GuardInvariant, Guarded, GuardedWork
<1> QED
  BY <1>1, GuardHolds, PTL

\* Who takes our finalizer off the object of s.
LEMMA ReleaseStep ==
  ASSUME TypeOK, NEW s \in Server, Bookkept(s), Guarded(s), ServerNext(s),
         obj[s].fin, ~obj'[s].fin
  PROVE  obj[s].deleting /\ pc[s] = "delete" /\ heldFresh[s]
<1> USE DEF apiVars, cmVars, workVars, bounds
<1>a. obj[s] \in Object /\ held[s] \in Object
  BY DEF TypeOK
<1>b. obj \in [Server -> Object]
  BY DEF TypeOK
<1>c. pc[s] = "delete" => obj[s].deleting
  BY DEF Guarded
<1>d. Put(s, Protected(held[s])).fin
  BY <1>a, EditsAreObjects, EditedFields, PutFields
<1>1. ASSUME NEW o, Store(s, o) PROVE obj'[s] = o
  BY <1>1, <1>b DEF Store
<1>2. CASE Normalise(s)
  BY <1>2 DEF Normalise, Guarded
<1>3. CASE AddFinalizer(s)
  BY <1>1, <1>3, <1>d DEF AddFinalizer, StoreAndHold
<1>4. CASE RemoveFinalizer(s)
  BY <1>4, <1>c DEF RemoveFinalizer
<1>5. ASSUME NEW copy, SaveStatus(s, copy) PROVE FALSE
  <2>1. [obj[s] EXCEPT !.fetched = copy.fetched, !.ready = copy.ready].fin = obj[s].fin
    BY <1>a DEF Object
  <2> QED
    BY <1>5, <1>b, <2>1 DEF SaveStatus
<1>6. CASE CacheMissing(s)
  BY <1>5, <1>6 DEF CacheMissing
<1>7. CASE Enrich(s)
  <2>1. Enriched(obj[s], held[s], CachedTemplate(s)).fin = obj[s].fin
    BY <1>a, EditedFields
  <2> QED
    BY <1>1, <1>7, <2>1 DEF Enrich
<1>8. CASE Validate(s)
  BY <1>5, <1>8 DEF Validate
<1>9. CASE ReplyLost(s)
  <2>1. pc[s] # "normalise"
    BY DEF Guarded
  <2> QED
    BY <1>1, <1>9, <1>c, <1>d, <2>1 DEF ReplyLost
<1>10. CASE Surroundings(s)
  <2>1. PICK o \in Object : Outside(s, o) /\ o.fin = obj[s].fin
    BY <1>10, SurroundingsWrite
  <2>2. obj'[s] = o
    BY <1>b, <2>1 DEF Outside
  <2> QED
    BY <2>1, <2>2
<1>11. ASSUME UNCHANGED obj PROVE FALSE
  BY <1>11
<1> QED
  BY <1>2, <1>3, <1>4, <1>6, <1>7, <1>8, <1>9, <1>10, <1>11
  DEF ServerNext, Reconcile, Surroundings, Begin, Panic, ApiError, Deliver,
      DeliverConfigMap, SyncConfigMap

\* If nobody uses the deprecated field, the operator's finalizer goes only in
\* handleDeletion, from an object whose deletion was requested and which has not
\* changed since it was read.
THEOREM FinalizerProtocolHolds == AliasValues = {} => (Spec => FinalizerProtocol)
<1> DEFINE Release(s) == obj[s].fin /\ ~obj'[s].fin =>
                           /\ obj[s].deleting
                           /\ pc[s] = "delete"
                           /\ heldFresh[s]
<1>1. TypeOK /\ Bookkeeping /\ GuardInvariant /\ [Next]_vars
        => [\A s \in Server : Release(s)]_vars
  <2> SUFFICES ASSUME TypeOK, Bookkeeping, GuardInvariant, Next, NEW q \in Server,
                      obj[q].fin, ~obj'[q].fin
               PROVE  obj[q].deleting /\ pc[q] = "delete" /\ heldFresh[q]
    OBVIOUS
  <2>1. ~UNCHANGED View(q)
    BY DEF View
  <2>2. ASSUME NEW s \in Server, ServerNext(s)
        PROVE  obj[q].deleting /\ pc[q] = "delete" /\ heldFresh[q]
    <3>1. s = q
      BY <2>1, <2>2, Frame
    <3> QED
      BY <2>2, <3>1, ReleaseStep DEF Bookkeeping, GuardInvariant
  <2>3. ~Tick /\ ~Restart
    BY DEF Tick, Restart, apiVars
  <2> QED
    BY <2>2, <2>3 DEF Next
<1>2. AliasValues = {} => (Spec => [][\A s \in Server : Release(s)]_vars)
  BY <1>1, TypeCorrect, BookkeepingHolds, GuardHolds, PTL DEF Spec
<1> QED
  BY <1>2 DEF FinalizerProtocol

-----------------------------------------------------------------------------
(***************************************************************************)
(* No wake-up is lost.                                                     *)
(***************************************************************************)
\* What of the work queue and of the registry cache concerns the server q.
Entries(q) ==
  [r \in Registry |-> <<cm[r][q], cmSeen[r][q], cmFresh[r][q]>>]

\* A step of one server leaves the key and the entries of the others alone.
LEMMA FrameEntries ==
  ASSUME TypeOK, NEW s \in Server, NEW q \in Server, q # s, ServerNext(s)
  PROVE  UNCHANGED Entries(q) /\ (q \in queue' <=> q \in queue)
<1> USE DEF TypeOK, Entries, apiVars, cmVars, workVars, bounds
<1>1. CASE Begin(s)
  BY <1>1 DEF Begin
<1>2. ASSUME Return(s) \/ Requeue(s), UNCHANGED cmVars
      PROVE  UNCHANGED Entries(q) /\ (q \in queue' <=> q \in queue)
  BY <1>2 DEF Return, Requeue
<1>3. ASSUME UNCHANGED cmVars, UNCHANGED queue
      PROVE  UNCHANGED Entries(q) /\ (q \in queue' <=> q \in queue)
  BY <1>3
<1>4. CASE Normalise(s) \/ Panic(s) \/ AddFinalizer(s) \/ RemoveFinalizer(s)
  BY <1>2, <1>3, <1>4 DEF Normalise, Panic, AddFinalizer, RemoveFinalizer, StoreAndHold
<1>5. CASE CacheMissing(s) \/ Enrich(s) \/ Validate(s)
  BY <1>2, <1>3, <1>5 DEF CacheMissing, Enrich, Validate
<1>6. CASE ApiError(s) \/ ReplyLost(s)
  BY <1>2, <1>6 DEF ApiError, ReplyLost
<1>7. CASE Deliver(s)
  BY <1>7 DEF Deliver
<1>8. CASE Surroundings(s)
  BY <1>3, <1>8
  DEF Surroundings, CreateServer, EditServer, DeleteServer, FinishForeground,
      UserWrites, Outside
<1>9. ASSUME NEW r \in Registry, DeliverConfigMap(r, s)
      PROVE  UNCHANGED Entries(q) /\ (q \in queue' <=> q \in queue)
  BY <1>9 DEF DeliverConfigMap
<1>10. ASSUME NEW r \in Registry, NEW t \in Template \cup {None}, SyncConfigMap(r, s, t)
       PROVE  UNCHANGED Entries(q) /\ (q \in queue' <=> q \in queue)
  BY <1>10 DEF SyncConfigMap
<1> QED
  BY <1>1, <1>4, <1>5, <1>6, <1>7, <1>8, <1>9, <1>10
  DEF ServerNext, Reconcile, Surroundings

\* No step takes back a fault.
LEMMA FaultsStay ==
  ASSUME TypeOK, NEW s \in Server, ServerNext(s)
  PROVE  faults' = 0 => faults = 0
<1> USE DEF apiVars, cmVars, workVars, bounds
<1>1. faults \in Nat
  BY ConstantsAssumption DEF TypeOK
<1>2. faults' = faults \/ faults' = faults + 1
  BY DEF ServerNext, Reconcile, Begin, Normalise, Panic, AddFinalizer, RemoveFinalizer,
         CacheMissing, Enrich, Validate, ApiError, ReplyLost, Deliver, CreateServer,
         EditServer, DeleteServer, FinishForeground, UserWrites, DeliverConfigMap,
         SyncConfigMap
<1> QED
  BY <1>1, <1>2

\* A step that concerns another server keeps the server attended.
LEMMA SameAttended ==
  ASSUME NEW q \in Server, Attended(q), UNCHANGED View(q), UNCHANGED Entries(q),
         RegistryOf(obj[q]) \in Registry \cup {None},
         q \in queue => q \in queue',
         faults' = 0 => faults = 0
  PROVE  Attended(q)'
<1>1. /\ UNCHANGED <<obj[q], seen[q], fresh[q], pc[q], held[q], heldFresh[q]>>
  BY DEF View
<1>2. ASSUME NEW r \in Registry
      PROVE  UNCHANGED <<cm[r][q], cmSeen[r][q], cmFresh[r][q]>>
  BY <1>2 DEF Entries
<1>3. Settled(q) => Settled(q)'
  BY <1>1, <1>2 DEF Settled
<1> QED
  BY <1>1, <1>2, <1>3 DEF Attended

\* A reconcile has ended: the key is back, an event will bring it back, or the
\* object needs none.
LEMMA EndAttended ==
  ASSUME TypeOK, NEW s \in Server, Attended(s), Finish(s), UNCHANGED cmVars,
         fresh'[s] /\ s \notin queue' /\ obj'[s].exists => Settled(s)'
  PROVE  Attended(s)'
<1>1. pc'[s] = "idle"
  BY DEF Finish, TypeOK
<1> QED
  BY <1>1 DEF Attended, cmVars

\* A reconcile goes on from a write: what it holds is an answer that differs
\* from the informer's copy, so that an event follows.
LEMMA HoldingAttended ==
  ASSUME TypeOK, NEW s \in Server, Attended(s), pc[s] # "idle", UNCHANGED cmVars,
         NEW o \in Object, NEW copy \in Object, StoreAndHold(s, o, copy),
         ~NeedsNormalise(Decoded(o, copy)),
         held[s] = obj[s] => o # obj[s]
  PROVE  Attended(s)'
<1>1. /\ held'[s] = Decoded(o, copy)
      /\ pc'[s] = NextStage(Decoded(o, copy))
      /\ queue' = queue
  BY DEF StoreAndHold, TypeOK
<1>2. fresh'[s] => o = obj[s] /\ fresh[s]
  BY DEF StoreAndHold, Store, TypeOK
<1>3. fresh'[s] => s \in queue'
  BY <1>1, <1>2 DEF Attended
<1> QED
  BY <1>1, <1>3 DEF Attended, cmVars

\* A status write of a reconcile that then drops the key.
LEMMA RefusalAttended ==
  ASSUME TypeOK, NEW s \in Server, Attended(s), Return(s), UNCHANGED cmVars,
         NEW copy, SaveStatus(s, copy),
         fresh[s] /\ s \notin queue /\ obj[s].exists
           /\ obj[s] = [obj[s] EXCEPT !.fetched = copy.fetched, !.ready = copy.ready]
           /\ UNCHANGED obj
           => Settled(s)',
         pc[s] # "idle"
  PROVE  Attended(s)'
<1>1. queue' = queue /\ Finish(s)
  BY DEF Return
<1>2. CASE s \in queue
  BY <1>1, <1>2, EndAttended
<1>3. CASE ~fresh'[s]
  BY <1>1, <1>3, EndAttended
<1>4. CASE s \notin queue /\ fresh'[s]
  <2>1. /\ UNCHANGED <<obj, fresh>>
        /\ heldFresh[s] => obj[s] = [obj[s] EXCEPT !.fetched = copy.fetched,
                                                  !.ready = copy.ready]
    BY <1>4 DEF SaveStatus, TypeOK
  <2>2. heldFresh[s]
    BY <1>4, <2>1 DEF Attended
  <2> QED
    BY <1>1, <1>4, <2>1, <2>2, EndAttended
<1> QED
  BY <1>2, <1>3, <1>4

\* What the stage of a reconcile says of its copy.
LEMMA StageFits ==
  ASSUME TypeOK, NEW s \in Server, Attended(s)
  PROVE  /\ pc[s] = "finalizer" => ~held[s].fin /\ ~NeedsNormalise(held[s])
         /\ pc[s] = "delete" => held[s].fin
         /\ pc[s] = "enrich" => /\ held[s].fin /\ ~held[s].deleting
                                /\ held[s].name \in Registry
                                /\ RegistryOf(held[s]) = held[s].name
                                /\ ~NeedsNormalise(held[s])
         /\ pc[s] = "validate" => /\ held[s].fin /\ ~held[s].deleting
                                  /\ RegistryOf(held[s]) = None
                                  /\ ~NeedsNormalise(held[s])
<1>1. held[s].name \in Registry \cup {None}
  BY DEF TypeOK, Object
<1>2. pc[s] = "enrich" => RegistryOf(held[s]) # None
  BY DEF Attended, NextStage
<1> QED
  BY <1>1, <1>2, NextStageFits DEF Attended, NeedsNormalise, RegistryOf

\* A step of a server keeps it attended.
LEMMA AttendedStep ==
  ASSUME TypeOK, NEW s \in Server, Bookkept(s), Attended(s), ServerNext(s)
  PROVE  Attended(s)'
<1> USE DEF apiVars, workVars, bounds
<1>a. obj[s] \in Object /\ held[s] \in Object /\ seen[s] \in Object
  BY DEF TypeOK
<1>b. RegistryOf(obj[s]) \in Registry \cup {None}
  BY <1>a DEF RegistryOf, Object
<1>c. faults' = 0 => faults = 0
  BY FaultsStay
<1>d. obj \in [Server -> Object]
  BY DEF TypeOK
<1>1. CASE Begin(s)
  <2>1. CASE ~seen[s].exists
    <3>1. fresh[s] => ~obj[s].exists
      BY <2>1 DEF Bookkept
    <3>2. pc[s] = "idle" /\ UNCHANGED <<obj, fresh, pc, cmVars, faults>>
      BY <1>1, <2>1 DEF Begin
    <3> QED
      BY <3>1, <3>2 DEF Attended, cmVars
  <2>2. CASE seen[s].exists
    <3>1. /\ held'[s] = seen[s] /\ heldFresh'[s] = fresh[s]
          /\ pc'[s] = IF NeedsNormalise(seen[s]) THEN "normalise"
                      ELSE NextStage(seen[s])
          /\ UNCHANGED <<obj, fresh, cmVars>>
      BY <1>1, <2>2 DEF Begin, TypeOK
    <3>2. pc'[s] # "idle"
      BY <3>1, NextStageFits
    <3> QED
      BY <3>1, <3>2 DEF Attended, Bookkept, cmVars
  <2> QED
    BY <2>1, <2>2
<1>2. CASE Normalise(s)
  <2> DEFINE o == [obj[s] EXCEPT !.name = held[s].alias]
  <2>1. CASE StoreAndHold(s, o, held[s])
    <3>1. held[s].alias \in Registry /\ held[s].name = None
      BY <1>2, <1>a DEF Normalise, Bookkept, NeedsNormalise, Object
    <3>2. o \in Object
      BY <1>a, <3>1, EditsAreObjects
    <3>3. o.name = held[s].alias
      BY <1>a DEF Object
    <3>4. held[s] = obj[s] => o # obj[s]
      BY <3>1, <3>3, ConstantsAssumption
    <3>5. Decoded(o, held[s]).name = o.name
      BY <3>2 DEF Decoded, Object
    <3> HIDE DEF o
    <3>6. ~NeedsNormalise(Decoded(o, held[s]))
      BY <3>1, <3>3, <3>5, ConstantsAssumption DEF NeedsNormalise
    <3> QED
      BY <1>2, <1>a, <2>1, <3>2, <3>4, <3>6, HoldingAttended DEF Normalise
  <2>2. CASE Requeue(s)
    BY <1>2, <2>2, EndAttended DEF Normalise, Requeue
  <2> QED
    BY <1>2, <2>1, <2>2 DEF Normalise
<1>3. CASE Panic(s)
  BY <1>3, EndAttended DEF Panic, Requeue
<1>4. CASE AddFinalizer(s)
  <2> DEFINE copy == Protected(held[s])
             o == Put(s, copy)
  <2>1. CASE AddsFinalizer(s) /\ StoreAndHold(s, o, copy)
    <3>1. /\ copy \in Object /\ copy.fin
          /\ copy.name = held[s].name /\ copy.alias = held[s].alias
      BY <1>a, EditsAreObjects DEF Protected, Object
    <3>2. ~held[s].fin /\ ~NeedsNormalise(held[s]) /\ pc[s] # "idle"
      BY <2>1, StageFits DEF AddsFinalizer
    <3> HIDE DEF copy
    <3>3. /\ o \in Object /\ o.fin
          /\ o.name = copy.name /\ o.alias = copy.alias
      BY <1>a, <2>1, <3>1, PutIsObject, PutFields DEF Put, Object
    <3> HIDE DEF o
    <3>4. held[s] = obj[s] => o # obj[s]
      BY <3>2, <3>3
    <3>5. Decoded(o, copy).name = o.name /\ Decoded(o, copy).alias = o.alias
      BY <3>1, <3>3 DEF Decoded, Object
    <3>6. ~NeedsNormalise(Decoded(o, copy))
      BY <3>1, <3>2, <3>3, <3>5 DEF NeedsNormalise
    <3> QED
      BY <1>4, <2>1, <3>1, <3>2, <3>3, <3>4, <3>6, HoldingAttended DEF AddFinalizer
  <2>2. CASE Requeue(s)
    BY <1>4, <2>2, EndAttended DEF AddFinalizer, Requeue
  <2> QED
    BY <1>4, <2>1, <2>2 DEF AddFinalizer
<1>5. CASE RemoveFinalizer(s)
  <2> DEFINE o == Put(s, Released(held[s]))
  <2>1. CASE heldFresh[s] /\ Store(s, o) /\ Return(s)
    <3>1. Released(held[s]) \in Object /\ Released(held[s]).fin = FALSE
      BY <1>a, EditsAreObjects, EditedFields
    <3>2. o.fin = FALSE
      BY <3>1, PutFields
    <3>3. held[s].fin /\ pc[s] # "idle"
      BY <1>5, StageFits DEF RemoveFinalizer
    <3> HIDE DEF o
    <3>4. fresh'[s] => fresh[s] /\ o = obj[s]
      BY <2>1 DEF Store, TypeOK
    <3>5. fresh'[s] => s \in queue'
      BY <2>1, <3>2, <3>3, <3>4 DEF Attended, Return
    <3> QED
      BY <1>5, <2>1, <3>5, EndAttended DEF RemoveFinalizer, Return
  <2>2. CASE Requeue(s)
    BY <1>5, <2>2, EndAttended DEF RemoveFinalizer, Requeue
  <2> QED
    BY <1>5, <2>1, <2>2 DEF RemoveFinalizer
<1>6. ASSUME pc[s] = "enrich", CachedTemplate(s) = None, fresh[s], s \notin queue,
             UNCHANGED <<obj, cmVars>>,
             faults' = 0 => obj[s].fetched = "False"
      PROVE  Settled(s)'
  <2>1. held[s] = obj[s]
    BY <1>6 DEF Attended
  <2>2. /\ obj[s].fin /\ ~obj[s].deleting /\ ~NeedsNormalise(obj[s])
        /\ obj[s].name \in Registry /\ RegistryOf(obj[s]) = obj[s].name
    BY <1>6, <2>1, StageFits
  <2>3. cmSeen[obj[s].name][s] = None
    BY <1>6, <2>1, <2>2 DEF CachedTemplate
  <2>4. cmFresh[obj[s].name][s] => cm[obj[s].name][s] = None
    BY <2>2, <2>3 DEF Attended
  <2>5. RegistryOf(obj[s]) # None
    BY <2>2, ConstantsAssumption
  <2> QED
    BY <1>6, <2>2, <2>4, <2>5 DEF Settled, cmVars
<1>7. ASSUME pc[s] = "validate", fresh[s], s \notin queue,
             UNCHANGED <<obj, cmVars>>,
             faults' = 0 => obj[s].ready = "False"
      PROVE  Settled(s)'
  <2>1. held[s] = obj[s]
    BY <1>7 DEF Attended
  <2>2. /\ obj[s].fin /\ ~obj[s].deleting /\ ~NeedsNormalise(obj[s])
        /\ RegistryOf(obj[s]) = None
    BY <1>7, <2>1, StageFits
  <2> QED
    BY <1>7, <2>2 DEF Settled, cmVars
<1>8. CASE CacheMissing(s)
  <2> DEFINE copy == [held[s] EXCEPT !.fetched = "False"]
  <2>1. copy.fetched = "False"
    BY <1>a DEF Object
  <2>2. ASSUME obj[s] = [obj[s] EXCEPT !.fetched = copy.fetched, !.ready = copy.ready]
        PROVE  obj[s].fetched = "False"
    BY <1>a, <2>1, <2>2 DEF Object
  <2>3. SaveStatus(s, copy)
    BY <1>8 DEF CacheMissing
  <2> HIDE DEF copy
  <2> QED
    BY <1>6, <1>8, <2>2, <2>3, RefusalAttended DEF CacheMissing
<1>9. CASE Enrich(s)
  BY <1>9, EndAttended DEF Enrich, Requeue
<1>10. CASE Validate(s)
  <2> DEFINE copy == [held[s] EXCEPT !.ready = "False"]
  <2>1. copy.ready = "False"
    BY <1>a DEF Object
  <2>2. ASSUME obj[s] = [obj[s] EXCEPT !.fetched = copy.fetched, !.ready = copy.ready]
        PROVE  obj[s].ready = "False"
    BY <1>a, <2>1, <2>2 DEF Object
  <2>3. ~RegistryInfoValid(held[s])
    BY <1>10, <1>a, ConstantsAssumption
    DEF Validate, RegistryInfoValid, Bookkept, RegistryOf, Object
  <2>4. SaveStatus(s, copy) /\ Return(s)
    BY <1>10, <2>3 DEF Validate
  <2> HIDE DEF copy
  <2> QED
    BY <1>7, <1>10, <2>2, <2>4, RefusalAttended DEF Validate
<1>11. CASE ApiError(s)
  <2>1. faults' # 0
    <3>1. faults \in Nat
      BY ConstantsAssumption DEF TypeOK
    <3> QED
      BY <1>11, <3>1 DEF ApiError
  <2>2. CASE Requeue(s)
    BY <1>11, <2>2, EndAttended DEF ApiError, Requeue
  <2>3. CASE Return(s) /\ pc[s] = "validate"
    BY <1>7, <1>11, <2>1, <2>3, EndAttended DEF ApiError, Return
  <2>4. CASE Return(s) /\ pc[s] = "enrich" /\ CachedTemplate(s) = None
    BY <1>6, <1>11, <2>1, <2>4, EndAttended DEF ApiError, Return
  <2> QED
    BY <1>11, <2>2, <2>3, <2>4 DEF ApiError
<1>12. CASE ReplyLost(s)
  BY <1>12, EndAttended DEF ReplyLost, Requeue
<1>13. CASE Deliver(s)
  <2>1. s \in queue' /\ UNCHANGED <<cmVars, pc, held>>
    BY <1>13 DEF Deliver
  <2> QED
    BY <2>1 DEF Attended, cmVars
<1>14. CASE Surroundings(s)
  <2>1. PICK o \in Object : Outside(s, o)
    BY <1>14, SurroundingsWrite
  <2>2. ~fresh'[s] /\ UNCHANGED <<cmVars, pc, held>>
    BY <2>1 DEF Outside, TypeOK
  <2> QED
    BY <2>2 DEF Attended, cmVars
<1>15. ASSUME NEW r \in Registry, DeliverConfigMap(r, s) PROVE Attended(s)'
  <2>1. UNCHANGED <<obj, seen, fresh, cm, pc, held, heldFresh, faults>>
    BY <1>15 DEF DeliverConfigMap
  <2>2. /\ cmSeen'[r][s] = cm[r][s]
        /\ \A x \in Registry \ {r} : /\ cmSeen'[x][s] = cmSeen[x][s]
                                     /\ cmFresh'[x][s] = cmFresh[x][s]
    BY <1>15 DEF DeliverConfigMap, TypeOK
  <2>3. \A x \in Registry : cmFresh'[x][s] => cmSeen'[x][s] = cm'[x][s]
    BY <2>1, <2>2 DEF Attended
  <2>4. s \in queue => s \in queue'
    BY <1>15 DEF DeliverConfigMap
  <2>5. CASE fresh[s] /\ s \notin queue' /\ pc[s] = "idle" /\ obj[s].exists
    <3>1. seen[s] = obj[s]
      BY <2>5 DEF Bookkept
    <3>2. RegistryOf(obj[s]) # r
      BY <1>15, <2>5, <3>1 DEF DeliverConfigMap
    <3>3. Settled(s)
      BY <2>4, <2>5 DEF Attended
    <3>4. Settled(s)'
      BY <1>b, <2>1, <2>2, <3>2, <3>3 DEF Settled
    <3> QED
      BY <2>1, <2>3, <2>5, <3>4 DEF Attended
  <2> QED
    BY <2>1, <2>3, <2>4, <2>5 DEF Attended
<1>16. ASSUME NEW r \in Registry, NEW t \in Template \cup {None}, SyncConfigMap(r, s, t)
       PROVE  Attended(s)'
  <2>1. UNCHANGED <<obj, fresh, cmSeen, queue, pc, held, heldFresh, faults>>
    BY <1>16 DEF SyncConfigMap
  <2>2. /\ cmFresh'[r][s] = FALSE
        /\ \A x \in Registry \ {r} : /\ cm'[x][s] = cm[x][s]
                                     /\ cmFresh'[x][s] = cmFresh[x][s]
    BY <1>16 DEF SyncConfigMap, TypeOK
  <2>3. Settled(s) => Settled(s)'
    BY <1>b, <2>1, <2>2 DEF Settled
  <2> QED
    BY <2>1, <2>2, <2>3 DEF Attended
<1> QED
  BY <1>1, <1>2, <1>3, <1>4, <1>5, <1>8, <1>9, <1>10, <1>11, <1>12, <1>13, <1>14,
     <1>15, <1>16 DEF ServerNext, Reconcile, Surroundings

\* The inductive invariant of the wake-ups.
LEMMA WakeHolds == Spec => []WakeInvariant
<1>1. Init => WakeInvariant
  <2> SUFFICES ASSUME Init, NEW s \in Server PROVE Attended(s)
    BY DEF WakeInvariant
  <2>1. pc[s] = "idle" /\ ~obj[s].exists /\ cmSeen = cm
    BY DEF Init, Absent
  <2> QED
    BY <2>1 DEF Attended
<1>2. TypeOK /\ Bookkeeping /\ WakeInvariant /\ [Next]_vars => WakeInvariant'
  <2> SUFFICES ASSUME TypeOK, Bookkeeping, WakeInvariant, [Next]_vars, NEW q \in Server
               PROVE  Attended(q)'
    BY DEF WakeInvariant
  <2>1. Bookkept(q) /\ Attended(q)
    BY DEF Bookkeeping, WakeInvariant
  <2>2. RegistryOf(obj[q]) \in Registry \cup {None}
    BY DEF TypeOK, Object, RegistryOf
  <2>3. ASSUME NEW s \in Server, ServerNext(s) PROVE Attended(q)'
    <3>1. CASE s = q
      BY <2>1, <2>3, <3>1, AttendedStep
    <3>2. CASE s # q
      BY <2>1, <2>2, <2>3, <3>2, Frame, FrameEntries, FaultsStay, SameAttended
    <3> QED
      BY <3>1, <3>2
  <2>4. CASE Tick
    BY <2>1, <2>2, <2>4, SameAttended DEF Tick, View, Entries, workVars, cmVars, bounds
  <2>5. CASE Restart
    <3>1. /\ UNCHANGED <<obj, cm>> /\ cmSeen' = cm
          /\ pc'[q] = "idle"
          /\ q \in queue' <=> obj[q].exists
      BY <2>5 DEF Restart, apiVars
    <3> QED
      BY <3>1 DEF Attended
  <2>6. CASE UNCHANGED vars
    BY <2>1, <2>2, <2>6, SameAttended DEF vars, View, Entries
  <2> QED
    BY <2>3, <2>4, <2>5, <2>6 DEF Next
<1> QED
  BY <1>1, <1>2, TypeCorrect, BookkeepingHolds, PTL DEF Spec

\* Whatever users write, whatever the registry controller does, whatever fails
\* or restarts: when nothing is left to do, no server is left with work undone.
THEOREM NoLostWakeupHolds == Spec => []NoLostWakeup
<1>1. TypeOK /\ WakeInvariant => NoLostWakeup
  <2> SUFFICES ASSUME TypeOK, WakeInvariant, NEW s \in Server, Quiet(s), obj[s].exists
               PROVE  /\ obj[s].fin
                      /\ ~obj[s].deleting
                      /\ ~NeedsNormalise(obj[s])
                      /\ RegistryOf(obj[s]) # None => cm[RegistryOf(obj[s])][s] = None
    BY DEF NoLostWakeup
  <2>1. RegistryOf(obj[s]) \in Registry \cup {None}
    BY DEF TypeOK, Object, RegistryOf
  <2>2. Settled(s)
    BY DEF WakeInvariant, Attended, Quiet
  <2> QED
    BY <2>1, <2>2 DEF Settled, Quiet
<1> QED
  BY <1>1, TypeCorrect, WakeHolds, PTL

\* When nothing is left to do and no API call failed by itself, the stored
\* status of every server says why the reconciler does not go on, although a
\* conflicting status write is only logged.
THEOREM RefusalReportedHolds == Spec => []RefusalReported
<1>1. WakeInvariant => RefusalReported
  <2> SUFFICES ASSUME WakeInvariant, NEW s \in Server, Quiet(s), obj[s].exists, faults = 0
               PROVE  IF RegistryOf(obj[s]) # None THEN obj[s].fetched = "False"
                      ELSE obj[s].ready = "False"
    BY DEF RefusalReported
  <2>1. Settled(s)
    BY DEF WakeInvariant, Attended, Quiet
  <2> QED
    BY <2>1 DEF Settled
<1> QED
  BY <1>1, WakeHolds, PTL
=============================================================================
