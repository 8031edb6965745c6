--------------------------- MODULE RegistryProofs ---------------------------
(***************************************************************************)
(* Theorems about Registry for every set of goroutines, servers, requests  *)
(* and faults.                                                             *)
(***************************************************************************)
EXTENDS Registry, TLAPS

(***************************************************************************)
(* The invariant's conjuncts about control and about locks, and what the   *)
(* building blocks of the actions do to them.                              *)
(***************************************************************************)
ControlOK ==
    /\ pc \in [Goroutine -> Location]
    /\ req \in [Goroutine -> Requests]
    /\ reply \in [Goroutine -> Reply]
    /\ \A g \in Goroutine : Fits(pc[g], req[g])

LocksOK ==
    /\ modelLock \in [ModelMutex -> Goroutine \cup {Nil}]
    /\ categoryLock \in [Server -> Goroutine \cup {Nil}]

UuidsOK == newID \in [Goroutine -> EntityID \cup {Nil}]

LEMMA TypeOKParts == TypeOK <=> R!TablesOK /\ LocksOK /\ ControlOK /\ UuidsOK
  BY DEF TypeOK, ControlOK, LocksOK, UuidsOK

LEMMA RequestFields ==
    ASSUME ControlOK, NEW g \in Goroutine
    PROVE  /\ req[g] \in Request
           /\ req[g].kind \in Kind
           /\ req[g].id \in ModelID
           /\ req[g].host \in Host
           /\ req[g].status \in Status
           /\ req[g].hasModel \in BOOLEAN
           /\ CategoryOf(g) \in CategoryName
  BY ConstantsOK DEF ControlOK, Request, CategoryOf, CategoryKey

LEMMA ErrorIsReply == Error \in Reply
  BY DEF Error, Reply

LEMMA GotoControl ==
    ASSUME ControlOK, NEW g \in Goroutine, NEW there \in Location,
           Goto(g, there), UNCHANGED req, Fits(there, req[g])
    PROVE  ControlOK'
  BY ErrorIsReply DEF ControlOK, Goto

LEMMA ReturnControl ==
    ASSUME ControlOK, NEW g \in Goroutine, NEW answer \in Reply,
           Return(g, answer), UNCHANGED req
    PROVE  ControlOK'
  BY DEF ControlOK, Return, Location, Fits

LEMMA CallGotoControl ==
    ASSUME ControlOK, NEW g \in Goroutine, NEW r \in Requests, NEW there \in Location,
           Call(g, r), Goto(g, there), Fits(there, r)
    PROVE  ControlOK'
  BY ErrorIsReply DEF ControlOK, Call, Goto

LEMMA CallReturnControl ==
    ASSUME ControlOK, NEW g \in Goroutine, NEW r \in Requests, NEW answer \in Reply,
           Call(g, r), Return(g, answer)
    PROVE  ControlOK'
  BY DEF ControlOK, Call, Return, Location, Fits

LEMMA UnlockTypes ==
    ASSUME LocksOK, NEW g \in Goroutine
    PROVE  /\ UnlockModel(g) => modelLock' \in [ModelMutex -> Goroutine \cup {Nil}]
           /\ UnlockCategory(g) => categoryLock' \in [Server -> Goroutine \cup {Nil}]
  BY DEF LocksOK, UnlockModel, UnlockCategory

LEMMA FailTypes ==
    ASSUME ControlOK, LocksOK, NEW g \in Goroutine, Fail(g), UNCHANGED req
    PROVE  ControlOK' /\ LocksOK'
  BY ReturnControl, ErrorIsReply, UnlockTypes DEF Fail, LocksOK

LEMMA CategoryReadyTypes ==
    ASSUME ControlOK, LocksOK, NEW g \in Goroutine, CategoryReady(g), UNCHANGED req,
           pc[g] \in {"findCategory", "insertCategory"}
    PROVE  ControlOK' /\ LocksOK'
<1>1. LocksOK'
  BY UnlockTypes DEF CategoryReady, LocksOK
<1>2. CASE req[g].kind = "category"
  <2>1. [ok |-> TRUE, id |-> CategoryOf(g)] \in Reply
    BY RequestFields DEF Reply
  <2> QED BY <1>1, <1>2, <2>1, ReturnControl DEF CategoryReady
<1>3. CASE req[g].kind # "category"
  <2>1. Fits("insertModel", req[g])
    BY <1>3 DEF ControlOK, Fits
  <2> QED BY <1>1, <1>3, <2>1, GotoControl DEF CategoryReady, Location
<1> QED BY <1>2, <1>3

LEMMA ModelReadyTypes ==
    ASSUME ControlOK, LocksOK, NEW g \in Goroutine, ModelReady(g), UNCHANGED req,
           pc[g] \in {"findModel", "insertModel"}
    PROVE  ControlOK' /\ LocksOK'
<1>1. LocksOK'
  BY UnlockTypes DEF ModelReady, LocksOK
<1>2. CASE req[g].kind = "model"
  <2>1. [ok |-> TRUE, id |-> req[g].id] \in Reply
    BY RequestFields DEF Reply
  <2> QED BY <1>1, <1>2, <2>1, ReturnControl DEF ModelReady
<1>3. CASE req[g].kind # "model"
  <2>1. Fits("insertEntity", req[g])
    BY <1>3 DEF ControlOK, Fits, NeedsModel, EntityCall, R!EntityKind
  <2> QED BY <1>1, <1>3, <2>1, GotoControl DEF ModelReady, Location
<1> QED BY <1>2, <1>3

LEMMA NewRowTypes ==
    ASSUME ControlOK, UuidsOK, NEW g \in Goroutine
    PROVE  /\ NewModelRow(g) \in R!ModelRow
           /\ EntityCall(req[g]) /\ newID[g] \in EntityID => NewEntityRow(g) \in R!EntityRow
  BY RequestFields DEF NewModelRow, NewEntityRow, R!ModelRow, R!EntityRow, EntityCall

(* UpdateStatus keeps every row a row, with its id, category and host. *)
LEMMA StatusRow ==
    ASSUME NEW row \in R!ModelRow, NEW s \in Status
    PROVE  /\ R!WithStatus(row, s) \in R!ModelRow
           /\ R!WithStatus(row, s).id = row.id
           /\ R!WithStatus(row, s).category = row.category
           /\ R!WithStatus(row, s).host = row.host
           /\ R!WithStatus(row, row.status) = row
           /\ R!WithStatus(row, s) = R!WithStatus(row, R!WithStatus(row, s).status)
  BY DEF R!ModelRow, R!WithStatus

(***************************************************************************)
(* Type correctness, together with the freshness of the drawn uuids that   *)
(* the type of an inserted row rests on.                                   *)
(***************************************************************************)
TypeInv == TypeOK /\ UuidsFresh

LEMMA KeepFresh ==
    ASSUME UuidsFresh, UNCHANGED <<req, newID, entities>>,
           \A g \in Goroutine : pc'[g] # "idle" => pc[g] # "idle"
    PROVE  UuidsFresh'
  BY DEF UuidsFresh, R!EntityKeys, EntityCall

LEMMA GotoMoves ==
    ASSUME ControlOK, NEW g \in Goroutine, NEW there, pc[g] # "idle",
           Goto(g, there)
    PROVE  \A h \in Goroutine : pc'[h] # "idle" => pc[h] # "idle"
  BY DEF ControlOK, Goto

LEMMA ReturnMoves ==
    ASSUME ControlOK, NEW g \in Goroutine, NEW answer, Return(g, answer)
    PROVE  \A h \in Goroutine : pc'[h] # "idle" => pc[h] # "idle"
  BY DEF ControlOK, Return

(* A call that draws a uuid, and a call that draws none. *)
LEMMA DrawFresh ==
    ASSUME TypeInv, NEW g \in Goroutine, NEW r \in Requests, Call(g, r),
           NEW id \in FreshIDs, newID' = [newID EXCEPT ![g] = id],
           \A h \in Goroutine \ {g} : pc'[h] = pc[h]
    PROVE  UuidsFresh' /\ UuidsOK'
  BY DEF TypeInv, TypeOK, Call, FreshIDs, UuidsFresh, UuidsOK, R!EntityKeys, tables, EntityCall

LEMMA NoDrawFresh ==
    ASSUME TypeInv, NEW g \in Goroutine, NEW r \in Requests, Call(g, r), UNCHANGED newID,
           ~EntityCall(r), \A h \in Goroutine \ {g} : pc'[h] = pc[h]
    PROVE  UuidsFresh' /\ UuidsOK'
  BY DEF TypeInv, TypeOK, Call, UuidsFresh, UuidsOK, R!EntityKeys, tables, EntityCall

LEMMA CallAnyTypes ==
    ASSUME TypeInv, NEW g \in Goroutine, CallAny(g)
    PROVE  TypeInv'
<1> USE DEF TypeInv
<1>1. ControlOK /\ LocksOK /\ R!TablesOK /\ UuidsOK
  BY TypeOKParts
<1>2. PICK r \in Requests : \/ CallCategory(g, r) \/ CallModel(g, r) \/ CallComponent(g, r)
                            \/ CallConnectionDefinition(g, r) \/ CallRelationship(g, r)
                            \/ CallUpdateStatus(g, r) \/ CallFails(g, r)
  BY DEF CallAny
<1>3. Call(g, r)
  BY <1>2 DEF CallCategory, CallModel, CallComponent, CallConnectionDefinition, CallRelationship, CallUpdateStatus, CallFails
<1>4. R!TablesOK' /\ LocksOK'
  BY <1>1, <1>3 DEF Call, tables, locks, R!TablesOK, LocksOK
<1>5. ControlOK' /\ \A h \in Goroutine \ {g} : pc'[h] = pc[h]
  <2>1. [ok |-> TRUE, id |-> Nil] \in Reply
    BY DEF Reply
  <2>2. ASSUME NEW there \in Location, Goto(g, there), Fits(there, r)
        PROVE  ControlOK' /\ \A h \in Goroutine \ {g} : pc'[h] = pc[h]
    BY <1>1, <1>3, <2>2, CallGotoControl DEF Goto, ControlOK
  <2>3. ASSUME NEW answer \in Reply, Return(g, answer)
        PROVE  ControlOK' /\ \A h \in Goroutine \ {g} : pc'[h] = pc[h]
    BY <1>1, <1>3, <2>3, CallReturnControl DEF Return, ControlOK
  <2>4. CASE CallCategory(g, r)
    BY <2>2, <2>4 DEF CallCategory, Fits, Location, NeedsModel, EntityCall, R!EntityKind
  <2>5. CASE CallModel(g, r)
    BY <2>2, <2>3, <2>5, ErrorIsReply DEF CallModel, Fits, Location, NeedsModel, EntityCall, R!EntityKind
  <2>6. CASE CallComponent(g, r)
    BY <2>1, <2>2, <2>3, <2>6, ErrorIsReply DEF CallComponent, Fits, Location, NeedsModel, EntityCall, R!EntityKind
  <2>7. CASE CallConnectionDefinition(g, r)
    BY <2>2, <2>3, <2>7, ErrorIsReply
       DEF CallConnectionDefinition, Fits, Location, NeedsModel, EntityCall, R!EntityKind
  <2>8. CASE CallRelationship(g, r)
    BY <2>2, <2>8 DEF CallRelationship, Fits, Location, NeedsModel, EntityCall, R!EntityKind
  <2>9. CASE CallUpdateStatus(g, r)
    BY <2>2, <2>9 DEF CallUpdateStatus, Fits, Location, NeedsModel, EntityCall, R!EntityKind
  <2>10. CASE CallFails(g, r)
    BY <2>3, <2>10, ErrorIsReply DEF CallFails
  <2> QED BY <1>2, <2>4, <2>5, <2>6, <2>7, <2>8, <2>9, <2>10
<1>6. UuidsFresh' /\ UuidsOK'
  <2>1. CASE r.kind \in {"category", "model", "status"} /\ ~CallFails(g, r)
    <3>1. UNCHANGED newID /\ ~EntityCall(r)
      BY <1>2, <2>1 DEF CallCategory, CallModel, CallComponent, CallConnectionDefinition, CallRelationship,
         CallUpdateStatus, CallFails, EntityCall, R!EntityKind
    <3> QED BY <1>3, <1>5, <3>1, NoDrawFresh
  <2>2. CASE r.kind \notin {"category", "model", "status"} /\ ~CallFails(g, r)
    <3>1. PICK id \in FreshIDs : newID' = [newID EXCEPT ![g] = id]
      BY <1>2, <2>2 DEF CallCategory, CallModel, CallComponent, CallConnectionDefinition, CallRelationship,
         CallUpdateStatus, CallFails
    <3> QED BY <1>3, <1>5, <3>1, DrawFresh
  <2>3. CASE CallFails(g, r)
    <3>1. UNCHANGED <<newID, tables>> /\ pc'[g] = "idle"
      BY <1>1, <1>3, <2>3 DEF CallFails, Call, Return, ControlOK
    <3> QED BY <1>1, <1>3, <1>5, <3>1 DEF Call, UuidsFresh, UuidsOK, R!EntityKeys, tables
  <2> QED BY <2>1, <2>2, <2>3
<1> QED BY <1>4, <1>5, <1>6, TypeOKParts DEF TypeOK, LocksOK, ControlOK, UuidsOK, R!TablesOK

LEMMA LockTypes ==
    ASSUME TypeInv, NEW g \in Goroutine, LockModel(g) \/ LockCategory(g)
    PROVE  TypeInv'
<1>1. ControlOK /\ LocksOK /\ R!TablesOK /\ UuidsOK /\ UuidsFresh
  BY TypeOKParts DEF TypeInv
<1>2. R!TablesOK' /\ UuidsOK'
  BY <1>1 DEF LockModel, LockCategory, tables, R!TablesOK, UuidsOK
<1>3. LocksOK'
  BY <1>1 DEF LockModel, LockCategory, LocksOK
<1>4. ControlOK'
  BY <1>1, GotoControl DEF LockModel, LockCategory, Fits, Location, ControlOK
<1>5. UuidsFresh'
  BY <1>1, GotoMoves, KeepFresh DEF LockModel, LockCategory, tables
<1> QED BY <1>2, <1>3, <1>4, <1>5 DEF TypeInv, TypeOK, LocksOK, ControlOK, UuidsOK

LEMMA ModelReadyMoves ==
    ASSUME ControlOK, NEW g \in Goroutine, pc[g] # "idle",
           ModelReady(g) \/ CategoryReady(g) \/ Fail(g)
    PROVE  \A h \in Goroutine : pc'[h] # "idle" => pc[h] # "idle"
  BY GotoMoves, ReturnMoves DEF ModelReady, CategoryReady, Fail

LEMMA FindTypes ==
    ASSUME TypeInv, NEW g \in Goroutine, FindModel(g) \/ FindCategory(g)
    PROVE  TypeInv'
<1>1. ControlOK /\ LocksOK /\ R!TablesOK /\ UuidsOK /\ UuidsFresh
  BY TypeOKParts DEF TypeInv
<1>2. R!TablesOK' /\ UuidsOK' /\ UNCHANGED <<req, newID, entities>>
  BY <1>1 DEF FindModel, FindCategory, tables, R!TablesOK, UuidsOK
<1>3. ControlOK' /\ LocksOK' /\ \A h \in Goroutine : pc'[h] # "idle" => pc[h] # "idle"
  <2>1. CASE FindModel(g) /\ ModelReady(g)
    BY <1>1, <1>2, <2>1, ModelReadyTypes, ModelReadyMoves DEF FindModel
  <2>2. CASE FindCategory(g) /\ CategoryReady(g)
    BY <1>1, <1>2, <2>2, CategoryReadyTypes, ModelReadyMoves DEF FindCategory
  <2>3. CASE (FindModel(g) \/ FindCategory(g)) /\ Fail(g)
    BY <1>1, <1>2, <2>3, FailTypes, ModelReadyMoves DEF FindModel, FindCategory
  <2>4. CASE FindModel(g) /\ Goto(g, "lockCategory") /\ UNCHANGED locks
    <3>1. Fits("lockCategory", req[g])
      BY <1>1, <2>4 DEF FindModel, ControlOK, Fits
    <3> QED BY <1>1, <1>2, <2>4, <3>1, GotoControl, GotoMoves DEF Location, LocksOK, locks, FindModel
  <2>5. CASE FindCategory(g) /\ Goto(g, "insertCategory") /\ UNCHANGED locks
    <3>1. Fits("insertCategory", req[g])
      BY <1>1, <2>5 DEF FindCategory, ControlOK, Fits
    <3> QED BY <1>1, <1>2, <2>5, <3>1, GotoControl, GotoMoves DEF Location, LocksOK, locks, FindCategory
  <2> QED BY <2>1, <2>2, <2>3, <2>4, <2>5 DEF FindModel, FindCategory
<1>4. UuidsFresh'
  BY <1>1, <1>2, <1>3, KeepFresh
<1> QED BY <1>2, <1>3, <1>4 DEF TypeInv, TypeOK, LocksOK, ControlOK, UuidsOK

LEMMA InsertCategoryTypes ==
    ASSUME TypeInv, NEW g \in Goroutine, InsertCategory(g)
    PROVE  TypeInv'
<1>1. ControlOK /\ LocksOK /\ R!TablesOK /\ UuidsOK /\ UuidsFresh
  BY TypeOKParts DEF TypeInv
<1>2. UNCHANGED <<req, newID, models, entities>> /\ UuidsOK' /\ pc[g] = "insertCategory"
  BY <1>1 DEF InsertCategory, UuidsOK
<1>3. R!TablesOK'
  BY <1>1, <1>2, RequestFields DEF InsertCategory, R!TablesOK
<1>4. CategoryReady(g) \/ Fail(g)
  BY DEF InsertCategory
<1>5. ControlOK' /\ LocksOK' /\ UuidsFresh'
  BY <1>1, <1>2, <1>4, CategoryReadyTypes, FailTypes, ModelReadyMoves, KeepFresh
<1> QED BY <1>2, <1>3, <1>5 DEF TypeInv, TypeOK, LocksOK, ControlOK, UuidsOK

LEMMA InsertModelTypes ==
    ASSUME TypeInv, NEW g \in Goroutine, InsertModel(g)
    PROVE  TypeInv'
<1>1. ControlOK /\ LocksOK /\ R!TablesOK /\ UuidsOK /\ UuidsFresh
  BY TypeOKParts DEF TypeInv
<1>2. UNCHANGED <<req, newID, categories, entities>> /\ UuidsOK' /\ pc[g] = "insertModel"
  BY <1>1 DEF InsertModel, UuidsOK
<1>3. R!TablesOK'
  BY <1>1, <1>2, NewRowTypes DEF InsertModel, R!TablesOK
<1>4. ModelReady(g) \/ Fail(g)
  BY DEF InsertModel
<1>5. ControlOK' /\ LocksOK' /\ UuidsFresh'
  BY <1>1, <1>2, <1>4, ModelReadyTypes, FailTypes, ModelReadyMoves, KeepFresh
<1> QED BY <1>2, <1>3, <1>5 DEF TypeInv, TypeOK, LocksOK, ControlOK, UuidsOK

LEMMA UpdateStatusTypes ==
    ASSUME TypeInv, NEW g \in Goroutine, UpdateStatus(g)
    PROVE  TypeInv'
<1>1. ControlOK /\ LocksOK /\ R!TablesOK /\ UuidsOK /\ UuidsFresh
  BY TypeOKParts DEF TypeInv
<1>2. UNCHANGED <<req, newID, categories, entities, modelLock, categoryLock>> /\ UuidsOK' /\ LocksOK'
  BY <1>1 DEF UpdateStatus, UuidsOK, LocksOK, locks
<1>3. R!TablesOK'
  BY <1>1, <1>2, RequestFields, StatusRow DEF UpdateStatus, R!TablesOK
<1>4. \E answer \in Reply : Return(g, answer)
  BY DEF UpdateStatus, Reply, Error
<1>5. ControlOK' /\ UuidsFresh'
  BY <1>1, <1>2, <1>4, ReturnControl, ReturnMoves, KeepFresh
<1> QED BY <1>2, <1>3, <1>5 DEF TypeInv, TypeOK, LocksOK, ControlOK, UuidsOK

(* The row g inserts is the only one with the uuid g has drawn. *)
LEMMA InsertEntityTypes ==
    ASSUME TypeInv, NEW g \in Goroutine, InsertEntity(g)
    PROVE  TypeInv'
<1>1. ControlOK /\ LocksOK /\ R!TablesOK /\ UuidsOK /\ UuidsFresh
  BY TypeOKParts DEF TypeInv
<1>2. UNCHANGED <<req, newID, categories, models, modelLock, categoryLock>> /\ UuidsOK' /\ LocksOK'
  BY <1>1 DEF InsertEntity, UuidsOK, LocksOK, locks
<1>3. EntityCall(req[g]) /\ newID[g] \in EntityID \ R!EntityKeys /\ pc[g] # "idle"
  BY <1>1 DEF InsertEntity, ControlOK, Fits, UuidsFresh
<1>4. R!TablesOK'
  BY <1>1, <1>2, <1>3, NewRowTypes DEF InsertEntity, R!TablesOK
<1>5. \E answer \in Reply : Return(g, answer)
  BY <1>3 DEF InsertEntity, Reply, Error
<1>6. ControlOK' /\ (\A h \in Goroutine : pc'[h] # "idle" => pc[h] # "idle") /\ pc'[g] = "idle"
  BY <1>1, <1>2, <1>5, ReturnControl, ReturnMoves DEF Return, ControlOK
<1>7. R!EntityKeys' \subseteq R!EntityKeys \cup {newID[g]}
  BY DEF InsertEntity, R!EntityKeys, NewEntityRow
<1>8. UuidsFresh'
  BY ConstantsOK, <1>1, <1>2, <1>3, <1>6, <1>7 DEF UuidsFresh, UuidsOK, EntityCall
<1> QED BY <1>2, <1>4, <1>6, <1>8 DEF TypeInv, TypeOK, LocksOK, ControlOK, UuidsOK

LEMMA CrashTypes ==
    ASSUME TypeInv, NEW s \in Server, Crash(s)
    PROVE  TypeInv'
<1>1. ControlOK /\ LocksOK /\ R!TablesOK /\ UuidsOK /\ UuidsFresh
  BY TypeOKParts DEF TypeInv
<1>2. UNCHANGED <<req, newID, categories, models, entities>> /\ UuidsOK' /\ R!TablesOK'
  BY <1>1 DEF Crash, tables, UuidsOK, R!TablesOK
<1>3. LocksOK'
  BY <1>1 DEF Crash, LocksOK
<1>4. ControlOK' /\ \A h \in Goroutine : pc'[h] # "idle" => pc[h] # "idle"
  BY <1>1, <1>2, ErrorIsReply DEF Crash, ControlOK, Fits, Location
<1> QED BY <1>1, <1>2, <1>3, <1>4, KeepFresh DEF TypeInv, TypeOK, LocksOK, ControlOK, UuidsOK

LEMMA StutterTypes ==
    ASSUME TypeInv, UNCHANGED vars
    PROVE  TypeInv'
  BY DEF TypeInv, TypeOK, UuidsFresh, vars, R!TablesOK, R!EntityKeys, EntityCall

LEMMA TypeInvHolds == Spec => []TypeInv
<1>1. Init => TypeInv
  <2> SUFFICES ASSUME Init PROVE TypeInv
    OBVIOUS
  <2>1. TypeOK
    BY ConstantsOK DEF Init, R!Init, TypeOK, R!TablesOK, Location, Reply, Error, Fits
  <2>2. UuidsFresh
    BY DEF Init, UuidsFresh
  <2> QED BY <2>1, <2>2 DEF TypeInv
<1>2. TypeInv /\ [Next]_vars => TypeInv'
  BY CallAnyTypes, LockTypes, FindTypes, InsertCategoryTypes, InsertModelTypes, UpdateStatusTypes,
     InsertEntityTypes, CrashTypes, StutterTypes DEF Next, Answer
<1> QED BY <1>1, <1>2, PTL DEF Spec

(* Every reachable state has the declared types, whatever the constants. *)
THEOREM TypeCorrect == Spec => []TypeOK
  BY TypeInvHolds, PTL DEF TypeInv

(***************************************************************************)
(* The mutexes.                                                            *)
(***************************************************************************)

(* What MutexesFollowCalls says of one goroutine. *)
Holds(g) ==
    /\ \A m \in ModelMutex : modelLock[m] = g <=> InModelLock(g) /\ MutexOf(g) = m
    /\ \A s \in Server : categoryLock[s] = g <=> InCategoryLock(g) /\ ServerOf[g] = s

LEMMA HoldsAll == MutexesFollowCalls <=> \A g \in Goroutine : Holds(g)
  BY DEF MutexesFollowCalls, Holds

LEMMA MutexTyped ==
    ASSUME ControlOK, NEW g \in Goroutine
    PROVE  MutexOf(g) \in ModelMutex /\ ServerOf[g] \in Server /\ MutexOf(g)[1] = ServerOf[g]
  BY ConstantsOK, RequestFields DEF MutexOf, ModelMutex

(* A step of h does not touch what g holds. *)
LEMMA OthersHold ==
    ASSUME ControlOK, NEW g \in Goroutine, Holds(g),
           pc'[g] = pc[g], req'[g] = req[g],
           \A m \in ModelMutex : modelLock'[m] = g <=> modelLock[m] = g,
           \A s \in Server : categoryLock'[s] = g <=> categoryLock[s] = g
    PROVE  Holds(g)'
  BY DEF Holds, InModelLock, InCategoryLock, MutexOf, NeedsModel

LEMMA UnlockEffect ==
    ASSUME LocksOK, NEW g \in Goroutine, NEW h \in Goroutine
    PROVE  /\ UnlockModel(g) => \A m \in ModelMutex : modelLock'[m] = h <=> modelLock[m] = h /\ h # g
           /\ UnlockCategory(g) => \A s \in Server : categoryLock'[s] = h <=> categoryLock[s] = h /\ h # g
  BY ConstantsOK DEF UnlockModel, UnlockCategory

LEMMA CallMutexes ==
    ASSUME TypeInv, MutexesFollowCalls, NEW g \in Goroutine, CallAny(g)
    PROVE  MutexesFollowCalls'
<1>1. ControlOK /\ LocksOK
  BY TypeOKParts DEF TypeInv
<1>2. UNCHANGED locks /\ pc[g] = "idle" /\ pc'[g] \in {"idle", "lockModel", "lockCategory", "insertEntity", "updateStatus"}
      /\ (pc'[g] = "lockCategory" => req'[g].kind = "category")
      /\ \A h \in Goroutine \ {g} : pc'[h] = pc[h] /\ req'[h] = req[h]
  BY <1>1 DEF CallAny, CallCategory, CallModel, CallComponent, CallConnectionDefinition, CallRelationship,
     CallUpdateStatus, CallFails, Call, Goto, Return, ControlOK
<1>3. Holds(g)'
  BY <1>1, <1>2, HoldsAll DEF Holds, InModelLock, InCategoryLock, NeedsModel, locks
<1>4. ASSUME NEW h \in Goroutine \ {g} PROVE Holds(h)'
  BY <1>1, <1>2, OthersHold, HoldsAll DEF locks
<1> QED BY <1>3, <1>4, HoldsAll DEF MutexesFollowCalls, Holds

LEMMA FailMutexes ==
    ASSUME TypeInv, MutexesFollowCalls, NEW g \in Goroutine, Fail(g), UNCHANGED req
    PROVE  MutexesFollowCalls'
<1>1. ControlOK /\ LocksOK
  BY TypeOKParts DEF TypeInv
<1>2. pc'[g] = "idle" /\ \A h \in Goroutine \ {g} : pc'[h] = pc[h]
  BY <1>1 DEF Fail, Return, ControlOK
<1>3. ASSUME NEW h \in Goroutine PROVE Holds(h)'
  <2>1. CASE h = g
    BY <1>1, <1>2, <2>1, UnlockEffect DEF Fail, Holds, InModelLock, InCategoryLock
  <2>2. CASE h # g
    BY <1>1, <1>2, <2>2, UnlockEffect, OthersHold, HoldsAll DEF Fail
  <2> QED BY <2>1, <2>2
<1> QED BY <1>3 DEF MutexesFollowCalls, Holds

LEMMA CategoryReadyMutexes ==
    ASSUME TypeInv, MutexesFollowCalls, NEW g \in Goroutine, CategoryReady(g), UNCHANGED req,
           InCategoryLock(g)
    PROVE  MutexesFollowCalls'
<1>1. ControlOK /\ LocksOK
  BY TypeOKParts DEF TypeInv
<1>2. /\ pc'[g] = IF req[g].kind = "category" THEN "idle" ELSE "insertModel"
      /\ \A h \in Goroutine \ {g} : pc'[h] = pc[h]
  BY <1>1 DEF CategoryReady, Return, Goto, ControlOK
<1>3. ASSUME NEW h \in Goroutine PROVE Holds(h)'
  <2>1. CASE h = g
    BY <1>1, <1>2, <2>1, UnlockEffect, HoldsAll
       DEF CategoryReady, Holds, InModelLock, InCategoryLock, MutexOf, ControlOK, Fits, NeedsModel
  <2>2. CASE h # g
    BY <1>1, <1>2, <2>2, UnlockEffect, OthersHold, HoldsAll DEF CategoryReady
  <2> QED BY <2>1, <2>2
<1> QED BY <1>3 DEF MutexesFollowCalls, Holds

LEMMA ModelReadyMutexes ==
    ASSUME TypeInv, MutexesFollowCalls, NEW g \in Goroutine, ModelReady(g), UNCHANGED req,
           pc[g] \in {"findModel", "insertModel"}
    PROVE  MutexesFollowCalls'
<1>1. ControlOK /\ LocksOK
  BY TypeOKParts DEF TypeInv
<1>2. /\ pc'[g] \in {"idle", "insertEntity"}
      /\ \A h \in Goroutine \ {g} : pc'[h] = pc[h]
  BY <1>1 DEF ModelReady, Return, Goto, ControlOK
<1>3. ASSUME NEW h \in Goroutine PROVE Holds(h)'
  <2>1. CASE h = g
    BY <1>1, <1>2, <2>1, UnlockEffect, HoldsAll
       DEF ModelReady, Holds, InModelLock, InCategoryLock, NeedsModel
  <2>2. CASE h # g
    BY <1>1, <1>2, <2>2, UnlockEffect, OthersHold, HoldsAll DEF ModelReady
  <2> QED BY <2>1, <2>2
<1> QED BY <1>3 DEF MutexesFollowCalls, Holds

LEMMA LockMutexes ==
    ASSUME TypeInv, MutexesFollowCalls, NEW g \in Goroutine, LockModel(g) \/ LockCategory(g)
    PROVE  MutexesFollowCalls'
<1>1. ControlOK /\ LocksOK /\ UNCHANGED req /\ Nil \notin Goroutine
  BY ConstantsOK, TypeOKParts DEF TypeInv, LockModel, LockCategory
<1>2. /\ pc'[g] = IF pc[g] = "lockModel" THEN "findModel" ELSE "findCategory"
      /\ \A h \in Goroutine \ {g} : pc'[h] = pc[h]
  BY <1>1 DEF LockModel, LockCategory, Goto, ControlOK
<1>3. ASSUME NEW h \in Goroutine PROVE Holds(h)'
  <2>1. CASE h = g /\ LockModel(g)
    BY <1>1, <1>2, <2>1, MutexTyped, HoldsAll
       DEF LockModel, Holds, InModelLock, InCategoryLock, MutexOf, ControlOK, Fits, NeedsModel, LocksOK
  <2>2. CASE h = g /\ LockCategory(g)
    BY <1>1, <1>2, <2>2, MutexTyped, HoldsAll
       DEF LockCategory, Holds, InModelLock, InCategoryLock, MutexOf, ControlOK, Fits, NeedsModel, LocksOK
  <2>3. CASE h # g
    <3>1. \A m \in ModelMutex : modelLock'[m] = h <=> modelLock[m] = h
      BY <1>1, <2>3, MutexTyped DEF LockModel, LockCategory, LocksOK
    <3>2. \A s \in Server : categoryLock'[s] = h <=> categoryLock[s] = h
      BY <1>1, <2>3, MutexTyped DEF LockModel, LockCategory, LocksOK
    <3> QED BY <1>1, <1>2, <2>3, <3>1, <3>2, OthersHold, HoldsAll
  <2> QED BY <2>1, <2>2, <2>3
<1> QED BY <1>3 DEF MutexesFollowCalls, Holds

LEMMA AnswerMutexes ==
    ASSUME TypeInv, MutexesFollowCalls, NEW g \in Goroutine, Answer(g)
    PROVE  MutexesFollowCalls'
<1>1. ControlOK /\ LocksOK /\ UNCHANGED req
  BY TypeOKParts DEF TypeInv, Answer, FindModel, InsertModel, FindCategory, InsertCategory, InsertEntity, UpdateStatus
<1>2. CASE FindModel(g) \/ InsertModel(g)
  <2>1. CASE ModelReady(g)
    BY <1>1, <1>2, <2>1, ModelReadyMutexes DEF FindModel, InsertModel
  <2>2. CASE Fail(g)
    BY <1>1, <2>2, FailMutexes
  <2>3. CASE FindModel(g) /\ Goto(g, "lockCategory") /\ UNCHANGED locks
    <3>1. pc'[g] = "lockCategory" /\ \A h \in Goroutine \ {g} : pc'[h] = pc[h]
      BY <1>1, <2>3 DEF Goto, ControlOK
    <3>2. ASSUME NEW h \in Goroutine PROVE Holds(h)'
      BY <1>1, <2>3, <3>1, HoldsAll DEF FindModel, Holds, InModelLock, InCategoryLock, MutexOf, locks
    <3> QED BY <3>2 DEF MutexesFollowCalls, Holds
  <2> QED BY <1>2, <2>1, <2>2, <2>3 DEF FindModel, InsertModel
<1>3. CASE FindCategory(g) \/ InsertCategory(g)
  <2>1. CASE CategoryReady(g)
    BY <1>1, <1>3, <2>1, CategoryReadyMutexes DEF FindCategory, InsertCategory, InCategoryLock
  <2>2. CASE Fail(g)
    BY <1>1, <2>2, FailMutexes
  <2>3. CASE FindCategory(g) /\ Goto(g, "insertCategory") /\ UNCHANGED locks
    <3>1. pc'[g] = "insertCategory" /\ \A h \in Goroutine \ {g} : pc'[h] = pc[h]
      BY <1>1, <2>3 DEF Goto, ControlOK
    <3>2. ASSUME NEW h \in Goroutine PROVE Holds(h)'
      BY <1>1, <2>3, <3>1, HoldsAll DEF FindCategory, Holds, InModelLock, InCategoryLock, MutexOf, locks
    <3> QED BY <3>2 DEF MutexesFollowCalls, Holds
  <2> QED BY <1>3, <2>1, <2>2, <2>3 DEF FindCategory, InsertCategory
<1>4. CASE InsertEntity(g) \/ UpdateStatus(g)
  <2>1. /\ UNCHANGED locks /\ pc[g] \in {"insertEntity", "updateStatus"} /\ pc'[g] = "idle"
        /\ \A h \in Goroutine \ {g} : pc'[h] = pc[h]
    BY <1>1, <1>4 DEF InsertEntity, UpdateStatus, Return, ControlOK
  <2>2. ASSUME NEW h \in Goroutine PROVE Holds(h)'
    BY <1>1, <2>1, HoldsAll DEF Holds, InModelLock, InCategoryLock, MutexOf, locks
  <2> QED BY <2>2 DEF MutexesFollowCalls, Holds
<1> QED BY <1>2, <1>3, <1>4 DEF Answer

LEMMA CrashMutexes ==
    ASSUME TypeInv, MutexesFollowCalls, NEW s \in Server, Crash(s)
    PROVE  MutexesFollowCalls'
<1>1. ControlOK /\ LocksOK /\ UNCHANGED req /\ Nil \notin Goroutine
  BY ConstantsOK, TypeOKParts DEF TypeInv, Crash
<1>2. ASSUME NEW g \in Goroutine PROVE Holds(g)'
  <2>1. CASE ServerOf[g] = s
    BY <1>1, <2>1, HoldsAll, MutexTyped DEF Crash, Holds, InModelLock, InCategoryLock, MutexOf, LocksOK
  <2>2. CASE ServerOf[g] # s
    BY <1>1, <2>2, HoldsAll, MutexTyped DEF Crash, Holds, InModelLock, InCategoryLock, MutexOf, LocksOK
  <2> QED BY <2>1, <2>2
<1> QED BY <1>2 DEF MutexesFollowCalls, Holds

LEMMA MutexInit == Init => MutexesFollowCalls
  BY ConstantsOK DEF Init, MutexesFollowCalls, InModelLock, InCategoryLock

LEMMA MutexStep == TypeInv /\ MutexesFollowCalls /\ [Next]_vars => MutexesFollowCalls'
<1> SUFFICES ASSUME TypeInv, MutexesFollowCalls, [Next]_vars PROVE MutexesFollowCalls'
  OBVIOUS
<1>1. CASE UNCHANGED vars
  BY <1>1 DEF vars, MutexesFollowCalls, InModelLock, InCategoryLock, MutexOf, NeedsModel
<1> QED BY <1>1, CallMutexes, LockMutexes, AnswerMutexes, CrashMutexes DEF Next

(* On every return path, errors and crashes included, a mutex is held      *)
(* exactly by the one call that is between its Lock and its Unlock.        *)
THEOREM MutexesAreReleased == Spec => []MutexesFollowCalls
  BY TypeInvHolds, MutexInit, MutexStep, PTL DEF Spec

(***************************************************************************)
(* The tables.                                                             *)
(***************************************************************************)

(* A step leaves the tables alone or is one of four changes to them. *)
LEMMA TableSteps ==
    ASSUME TypeInv, [Next]_vars
    PROVE  \/ UNCHANGED tables
           \/ \E g \in Goroutine : /\ pc[g] = "insertCategory"
                                   /\ CategoryOf(g) \notin categories
                                   /\ categories' = categories \cup {CategoryOf(g)}
                                   /\ UNCHANGED <<models, entities>>
                                   /\ pc'[g] # "insertCategory"
           \/ \E g \in Goroutine : /\ pc[g] = "insertModel"
                                   /\ req[g].id \notin R!ModelKeys
                                   /\ models' = models \cup {NewModelRow(g)}
                                   /\ UNCHANGED <<categories, entities>>
                                   /\ pc'[g] \in {"idle", "insertEntity"}
           \/ \E g \in Goroutine : /\ pc[g] = "insertEntity"
                                   /\ entities' = entities \cup {NewEntityRow(g)}
                                   /\ UNCHANGED <<categories, models>>
           \/ \E g \in Goroutine : R!SetStatus(req[g].id, req[g].status)
<1>1. CASE UNCHANGED vars
  BY <1>1 DEF vars, tables
<1>2. ASSUME NEW g \in Goroutine, CallAny(g) PROVE UNCHANGED tables
  BY <1>2 DEF CallAny, CallCategory, CallModel, CallComponent, CallConnectionDefinition, CallRelationship,
     CallUpdateStatus, CallFails, Call
<1>3. ASSUME NEW g \in Goroutine, LockModel(g) \/ LockCategory(g) \/ FindModel(g) \/ FindCategory(g)
      PROVE UNCHANGED tables
  BY <1>3 DEF LockModel, LockCategory, FindModel, FindCategory
<1>4. ASSUME NEW s \in Server, Crash(s) PROVE UNCHANGED tables
  BY <1>4 DEF Crash
<1>5. ASSUME NEW g \in Goroutine
      PROVE  /\ InsertModel(g) => pc'[g] \in {"idle", "insertEntity"}
             /\ InsertCategory(g) => pc'[g] # "insertCategory"
  BY DEF TypeInv, TypeOK, InsertModel, InsertCategory, ModelReady, CategoryReady, Fail, Goto, Return
<1> QED
  BY <1>1, <1>2, <1>3, <1>4, <1>5 DEF Next, Answer, InsertModel, InsertCategory, InsertEntity, UpdateStatus, tables,
     R!SetStatus

LEMMA StatusKeeps ==
    ASSUME TypeInv, NEW id, NEW s \in Status, R!SetStatus(id, s)
    PROVE  /\ \A row \in models : \E new \in models' : new = R!WithStatus(row, new.status)
           /\ \A new \in models' : \E row \in models :
                  new.id = row.id /\ new.category = row.category /\ new.host = row.host
  BY StatusRow DEF TypeInv, TypeOK, R!TablesOK, R!SetStatus

LEMMA RowsKeptStep ==
    ASSUME TypeInv, [Next]_vars
    PROVE  RowsKept
<1>1. \A row \in models : row = R!WithStatus(row, row.status)
  <2>1. \A row \in models : row \in R!ModelRow /\ row.status \in Status
    BY DEF TypeInv, TypeOK, R!TablesOK, R!ModelRow
  <2> QED BY <2>1, StatusRow
<1>2. ASSUME NEW g \in Goroutine, R!SetStatus(req[g].id, req[g].status) PROVE RowsKept
  BY <1>2, StatusKeeps, RequestFields, TypeOKParts DEF RowsKept, R!SetStatus, TypeInv
<1> QED BY <1>1, <1>2, TableSteps DEF RowsKept, tables

(* A kept row keeps its key, its host and its category. *)
LEMMA KeptKeys ==
    ASSUME TypeInv, TypeInv', RowsKept
    PROVE  /\ R!ModelKeys \subseteq R!ModelKeys'
           /\ R!EntityKeys \subseteq R!EntityKeys'
           /\ \A g \in Goroutine : FoundModel(g) /\ req'[g] = req[g] => FoundModel(g)'
<1>1. \A row \in models : \E new \in models' : new.id = row.id /\ new.host = row.host
  BY StatusRow DEF TypeInv, TypeOK, R!TablesOK, RowsKept, R!ModelRow
<1> QED BY <1>1 DEF R!ModelKeys, R!EntityKeys, FoundModel, RowsKept

(* No step removes a row or changes its key, its category or its host. *)
THEOREM RowsStay == Spec => RowsAreKept
<1>1. TypeInv /\ [Next]_vars => [RowsKept]_vars
  BY RowsKeptStep
<1> QED BY <1>1, TypeInvHolds, PTL DEF Spec, RowsAreKept

(***************************************************************************)
(* Referential integrity.                                                  *)
(***************************************************************************)
ParentsInv == ParentsExist /\ ParentsReady

(* A goroutine moves by its own actions, or a crash makes it idle. *)
LEMMA OwnSteps ==
    ASSUME TypeInv, [Next]_vars, NEW g \in Goroutine, pc'[g] # "idle"
    PROVE  \/ pc'[g] = pc[g] /\ req'[g] = req[g]
           \/ CallAny(g) \/ LockModel(g) \/ LockCategory(g) \/ Answer(g)
<1>1. ControlOK
  BY TypeOKParts DEF TypeInv
<1>2. ASSUME NEW h \in Goroutine \ {g}, CallAny(h) \/ LockModel(h) \/ LockCategory(h) \/ Answer(h)
      PROVE  pc'[g] = pc[g] /\ req'[g] = req[g]
  <2>1. CASE CallAny(h)
    BY <1>1, <2>1 DEF ControlOK, CallAny, CallCategory, CallModel, CallComponent, CallConnectionDefinition,
       CallRelationship, CallUpdateStatus, CallFails, Call, Goto, Return
  <2>2. CASE LockModel(h) \/ LockCategory(h)
    BY <1>1, <2>2 DEF ControlOK, LockModel, LockCategory, Goto
  <2>3. CASE FindModel(h) \/ InsertModel(h)
    BY <1>1, <2>3 DEF ControlOK, FindModel, InsertModel, ModelReady, Fail, Goto, Return
  <2>4. CASE FindCategory(h) \/ InsertCategory(h)
    BY <1>1, <2>4 DEF ControlOK, FindCategory, InsertCategory, CategoryReady, Fail, Goto, Return
  <2>5. CASE InsertEntity(h) \/ UpdateStatus(h)
    BY <1>1, <2>5 DEF ControlOK, InsertEntity, UpdateStatus, Return
  <2> QED BY <1>2, <2>1, <2>2, <2>3, <2>4, <2>5 DEF Answer
<1>3. ASSUME NEW s \in Server, Crash(s) PROVE pc'[g] = pc[g] /\ req'[g] = req[g]
  BY <1>1, <1>3 DEF ControlOK, Crash
<1>4. CASE UNCHANGED vars
  BY <1>4 DEF vars
<1> QED BY <1>2, <1>3, <1>4 DEF Next

(* How a call gets to the insert of a model, and of an entity. *)
LEMMA ReachesInsertModel ==
    ASSUME TypeInv, [Next]_vars, NEW g \in Goroutine, pc'[g] = "insertModel"
    PROVE  /\ req'[g] = req[g]
           /\ pc[g] = "insertModel" \/ CategoryOf(g) \in categories'
<1>1. ControlOK
  BY TypeOKParts DEF TypeInv
<1>2. ~CallAny(g)
  BY <1>1 DEF ControlOK, CallAny, CallCategory, CallModel, CallComponent, CallConnectionDefinition,
     CallRelationship, CallUpdateStatus, CallFails, Call, Goto, Return
<1>3. ~LockModel(g) /\ ~LockCategory(g)
  BY <1>1 DEF ControlOK, LockModel, LockCategory, Goto
<1>4. ~FindModel(g) /\ ~InsertModel(g) /\ ~InsertEntity(g) /\ ~UpdateStatus(g)
  BY <1>1 DEF ControlOK, FindModel, InsertModel, ModelReady, Fail, Goto, Return, InsertEntity, UpdateStatus
<1>5. ASSUME FindCategory(g) \/ InsertCategory(g)
      PROVE  req'[g] = req[g] /\ CategoryOf(g) \in categories'
  BY <1>1, <1>5 DEF ControlOK, FindCategory, InsertCategory, Fail, Goto, Return, tables
<1> QED BY <1>2, <1>3, <1>4, <1>5, OwnSteps DEF Answer

LEMMA ReachesInsertEntity ==
    ASSUME TypeInv, [Next]_vars, NEW g \in Goroutine, pc'[g] = "insertEntity", NeedsModel(req[g])'
    PROVE  /\ req'[g] = req[g]
           /\ pc[g] = "insertEntity" \/ FoundModel(g)'
<1>1. ControlOK
  BY TypeOKParts DEF TypeInv
<1>2. ~CallAny(g)
  BY <1>1 DEF ControlOK, CallAny, CallCategory, CallModel, CallComponent, CallConnectionDefinition,
     CallRelationship, CallUpdateStatus, CallFails, Call, Goto, Return, NeedsModel
<1>3. ~LockModel(g) /\ ~LockCategory(g)
  BY <1>1 DEF ControlOK, LockModel, LockCategory, Goto
<1>4. ~FindCategory(g) /\ ~InsertCategory(g) /\ ~InsertEntity(g) /\ ~UpdateStatus(g)
  BY <1>1 DEF ControlOK, FindCategory, InsertCategory, CategoryReady, Fail, Goto, Return, InsertEntity, UpdateStatus
<1>5. ASSUME FindModel(g) \/ InsertModel(g)
      PROVE  req'[g] = req[g] /\ FoundModel(g)'
  <2>1. UNCHANGED req /\ ~Fail(g)
    BY <1>1, <1>5 DEF ControlOK, FindModel, InsertModel, Fail, Return
  <2>2. CASE FindModel(g)
    BY <1>1, <2>1, <2>2 DEF ControlOK, FindModel, Goto, FoundModel, tables
  <2>3. CASE InsertModel(g)
    <3>1. NewModelRow(g) \in models' /\ NewModelRow(g).id = req[g].id /\ NewModelRow(g).host = req[g].host
      BY <2>1, <2>3 DEF InsertModel, NewModelRow
    <3> QED BY <2>1, <3>1 DEF FoundModel
  <2> QED BY <1>5, <2>1, <2>2, <2>3
<1> QED BY <1>2, <1>3, <1>4, <1>5, OwnSteps DEF Answer

LEMMA ParentsStep == TypeInv /\ TypeInv' /\ ParentsInv /\ [Next]_vars => ParentsInv'
<1> SUFFICES ASSUME TypeInv, TypeInv', ParentsInv, [Next]_vars PROVE ParentsInv'
  OBVIOUS
<1>1. RowsKept /\ R!ModelKeys \subseteq R!ModelKeys'
  BY RowsKeptStep, KeptKeys
<1>2. \A row \in models' : row.category \in categories'
  <2>1. CASE UNCHANGED models
    BY <1>1, <2>1 DEF ParentsInv, ParentsExist, RowsKept
  <2>2. ASSUME NEW g \in Goroutine, pc[g] = "insertModel", models' = models \cup {NewModelRow(g)}
        PROVE  \A row \in models' : row.category \in categories'
    BY <1>1, <2>2 DEF ParentsInv, ParentsExist, ParentsReady, RowsKept, NewModelRow
  <2>3. ASSUME NEW g \in Goroutine, R!SetStatus(req[g].id, req[g].status)
        PROVE  \A row \in models' : row.category \in categories'
    <3>1. req[g].status \in Status
      BY TypeOKParts, RequestFields DEF TypeInv
    <3> QED BY <1>1, <2>3, <3>1, StatusKeeps DEF ParentsInv, ParentsExist, RowsKept
  <2> QED BY <2>1, <2>2, <2>3, TableSteps DEF tables
<1>3. \A row \in entities' : row.kind # "relationship" => row.model \in R!ModelKeys'
  <2>1. CASE UNCHANGED entities
    BY <1>1, <2>1 DEF ParentsInv, ParentsExist
  <2>2. ASSUME NEW g \in Goroutine, pc[g] = "insertEntity", entities' = entities \cup {NewEntityRow(g)}
        PROVE  \A row \in entities' : row.kind # "relationship" => row.model \in R!ModelKeys'
    <3>1. EntityCall(req[g]) /\ (NeedsModel(req[g]) => req[g].hasModel)
      BY <2>2 DEF TypeInv, TypeOK, Fits
    <3>2. req[g].kind # "relationship" => NewEntityRow(g).model \in R!ModelKeys
      BY <2>2, <3>1 DEF ParentsInv, ParentsReady, NewEntityRow, EntityCall, R!EntityKind, NeedsModel,
         FoundModel, R!ModelKeys
    <3>3. NewEntityRow(g).kind = req[g].kind
      BY DEF NewEntityRow
    <3> QED BY <1>1, <2>2, <3>2, <3>3 DEF ParentsInv, ParentsExist
  <2> QED BY <2>1, <2>2, TableSteps DEF tables, R!SetStatus
<1>4. ASSUME NEW g \in Goroutine, pc'[g] = "insertModel" PROVE CategoryOf(g)' \in categories'
  BY <1>1, <1>4, ReachesInsertModel DEF ParentsInv, ParentsReady, CategoryOf, RowsKept
<1>5. ASSUME NEW g \in Goroutine, pc'[g] = "insertEntity", NeedsModel(req[g])' PROVE FoundModel(g)'
  BY <1>1, <1>5, ReachesInsertEntity, KeptKeys DEF ParentsInv, ParentsReady, NeedsModel
<1> QED BY <1>2, <1>3, <1>4, <1>5 DEF ParentsInv, ParentsExist, ParentsReady

LEMMA ParentsInit == Init => ParentsInv
  BY DEF Init, R!Init, ParentsInv, ParentsExist, ParentsReady

LEMMA ParentsInvHolds == Spec => []ParentsInv
  BY TypeInvHolds, ParentsInit, ParentsStep, PTL DEF Spec

(* In every reachable state the category of each model, and the model of   *)
(* each component and connection definition, are registered.               *)
THEOREM NoDanglingReference == Spec => []ParentsExist
  BY ParentsInvHolds, PTL DEF ParentsInv

(* A parent found or inserted under its mutex is still registered when the *)
(* call uses its id, although the mutex has been released in between.      *)
THEOREM ParentsStayReady == Spec => []ParentsReady
  BY ParentsInvHolds, PTL DEF ParentsInv

(***************************************************************************)
(* Refinement: the tables behave as RegistrySpec says.                     *)
(***************************************************************************)

LEMMA AbstractStep ==
    ASSUME TypeInv, ParentsInv, [Next]_vars
    PROVE  [R!Next]_tables
<1>1. ControlOK /\ UuidsOK
  BY TypeOKParts DEF TypeInv
<1>2. ASSUME NEW g \in Goroutine, CategoryOf(g) \notin categories,
             categories' = categories \cup {CategoryOf(g)}, UNCHANGED <<models, entities>>
      PROVE  R!Next
  BY <1>1, <1>2, RequestFields DEF R!Next, R!AddCategory
<1>3. ASSUME NEW g \in Goroutine, pc[g] = "insertModel", req[g].id \notin R!ModelKeys,
             models' = models \cup {NewModelRow(g)}, UNCHANGED <<categories, entities>>
      PROVE  R!Next
  <2>1. NewModelRow(g) \in R!ModelRow
    BY <1>1, NewRowTypes
  <2>2. NewModelRow(g).id = req[g].id /\ NewModelRow(g).category \in categories
    BY <1>3 DEF NewModelRow, ParentsInv, ParentsReady
  <2>3. R!AddModel(NewModelRow(g))
    BY <1>3, <2>2 DEF R!AddModel
  <2> QED BY <2>1, <2>3 DEF R!Next
<1>4. ASSUME NEW g \in Goroutine, pc[g] = "insertEntity",
             entities' = entities \cup {NewEntityRow(g)}, UNCHANGED <<categories, models>>
      PROVE  R!Next
  <2>1. EntityCall(req[g]) /\ newID[g] \in EntityID \ R!EntityKeys
        /\ (NeedsModel(req[g]) => req[g].hasModel /\ FoundModel(g))
    BY <1>4 DEF TypeInv, TypeOK, Fits, UuidsFresh, ParentsInv, ParentsReady
  <2>2. NewEntityRow(g) \in R!EntityRow
    BY <1>1, <2>1, NewRowTypes
  <2>3. /\ NewEntityRow(g).id = newID[g]
        /\ NewEntityRow(g).kind # "relationship" => NewEntityRow(g).model \in R!ModelKeys
    BY <2>1 DEF NewEntityRow, EntityCall, R!EntityKind, NeedsModel, FoundModel, R!ModelKeys
  <2>4. R!AddEntity(NewEntityRow(g))
    BY <1>4, <2>1, <2>3 DEF R!AddEntity
  <2> QED BY <2>2, <2>4 DEF R!Next
<1>5. ASSUME NEW g \in Goroutine, R!SetStatus(req[g].id, req[g].status)
      PROVE  R!Next
  BY <1>1, <1>5, RequestFields DEF R!Next
<1>6. UNCHANGED tables => UNCHANGED R!tables
  BY DEF tables, R!tables
<1> QED BY <1>2, <1>3, <1>4, <1>5, TableSteps DEF tables

(* The goroutines, the mutexes and the failures implement the registry of  *)
(* RegistrySpec: each step inserts at most one row, below its parent and   *)
(* under a key that was absent, or rewrites a status, or changes nothing.  *)
THEOREM Refinement == Spec => RegistryRefined
<1>1. Init => R!Init
  BY DEF Init
<1>2. TypeInv /\ ParentsInv /\ [Next]_vars => [R!Next]_R!tables
  BY AbstractStep DEF tables, R!tables
<1> QED BY <1>1, <1>2, TypeInvHolds, ParentsInvHolds, PTL DEF Spec, RegistryRefined, R!Spec

(***************************************************************************)
(* What the mutexes are for.                                               *)
(***************************************************************************)

(* Every model was registered by a call on its id and its host. *)
RowsHaveCallers ==
    \A row \in models : \E r \in Requests : NeedsModel(r) /\ r.id = row.id /\ r.host = row.host

LEMMA RowsHaveCallersStep == TypeInv /\ RowsHaveCallers /\ [Next]_vars => RowsHaveCallers'
<1> SUFFICES ASSUME TypeInv, RowsHaveCallers, [Next]_vars PROVE RowsHaveCallers'
  OBVIOUS
<1>1. ASSUME NEW g \in Goroutine, pc[g] = "insertModel", models' = models \cup {NewModelRow(g)}
      PROVE  RowsHaveCallers'
  <2>1. req[g] \in Requests /\ NeedsModel(req[g])
    BY <1>1 DEF TypeInv, TypeOK, Fits
  <2>2. NewModelRow(g).id = req[g].id /\ NewModelRow(g).host = req[g].host
    BY DEF NewModelRow
  <2> QED BY <1>1, <2>1, <2>2 DEF RowsHaveCallers
<1>2. ASSUME NEW g \in Goroutine, R!SetStatus(req[g].id, req[g].status)
      PROVE  RowsHaveCallers'
  <2>1. req[g].status \in Status
    BY TypeOKParts, RequestFields DEF TypeInv
  <2> QED BY <1>2, <2>1, StatusKeeps DEF RowsHaveCallers
<1> QED BY <1>1, <1>2, TableSteps DEF RowsHaveCallers, tables

LEMMA RowsHaveCallersHolds == Spec => []RowsHaveCallers
<1>1. Init => RowsHaveCallers
  BY DEF Init, R!Init, RowsHaveCallers
<1> QED BY <1>1, RowsHaveCallersStep, TypeInvHolds, PTL DEF Spec

(* Where the part of ModelDefinition.Create after its lookup comes from. *)
PastLookup(g) == InModelLock(g) /\ pc[g] # "findModel"

LEMMA ReachesPastLookup ==
    ASSUME TypeInv, [Next]_vars, NEW g \in Goroutine, PastLookup(g)'
    PROVE  /\ req'[g] = req[g]
           /\ PastLookup(g) \/ (~FoundModel(g) /\ UNCHANGED tables)
<1>1. ControlOK
  BY TypeOKParts DEF TypeInv
<1> USE DEF PastLookup, InModelLock
<1>2. ~CallAny(g)
  BY <1>1 DEF ControlOK, CallAny, CallCategory, CallModel, CallComponent, CallConnectionDefinition,
     CallRelationship, CallUpdateStatus, CallFails, Call, Goto, Return, NeedsModel
<1>3. ~InsertModel(g) /\ ~InsertEntity(g) /\ ~UpdateStatus(g)
  BY <1>1 DEF ControlOK, InsertModel, ModelReady, Fail, Goto, Return, InsertEntity, UpdateStatus
<1>4. ASSUME LockModel(g) \/ LockCategory(g) PROVE PastLookup(g) /\ req'[g] = req[g]
  BY <1>1, <1>4 DEF ControlOK, LockModel, LockCategory, Goto
<1>5. ASSUME FindModel(g) PROVE req'[g] = req[g] /\ ~FoundModel(g) /\ UNCHANGED tables
  BY <1>1, <1>5 DEF ControlOK, FindModel, ModelReady, Fail, Goto, Return
<1>6. ASSUME FindCategory(g) \/ InsertCategory(g) PROVE PastLookup(g) /\ req'[g] = req[g]
  BY <1>6 DEF FindCategory, InsertCategory
<1>7. ASSUME pc'[g] = pc[g], req'[g] = req[g] PROVE PastLookup(g)
  BY <1>7
<1> QED BY <1>2, <1>3, <1>4, <1>5, <1>6, <1>7, OwnSteps DEF Answer

LEMMA ReachesInsertCategory ==
    ASSUME TypeInv, [Next]_vars, NEW g \in Goroutine, pc'[g] = "insertCategory"
    PROVE  /\ req'[g] = req[g]
           /\ pc[g] = "insertCategory" \/ (CategoryOf(g) \notin categories /\ UNCHANGED tables)
<1>1. ControlOK
  BY TypeOKParts DEF TypeInv
<1>2. ~CallAny(g)
  BY <1>1 DEF ControlOK, CallAny, CallCategory, CallModel, CallComponent, CallConnectionDefinition,
     CallRelationship, CallUpdateStatus, CallFails, Call, Goto, Return
<1>3. ~LockModel(g) /\ ~LockCategory(g) /\ ~InsertEntity(g) /\ ~UpdateStatus(g)
  BY <1>1 DEF ControlOK, LockModel, LockCategory, Goto, Return, InsertEntity, UpdateStatus
<1>4. ~FindModel(g) /\ ~InsertModel(g) /\ ~InsertCategory(g)
  BY <1>1 DEF ControlOK, FindModel, InsertModel, InsertCategory, ModelReady, CategoryReady, Fail, Goto, Return
<1>5. ASSUME FindCategory(g) PROVE req'[g] = req[g] /\ CategoryOf(g) \notin categories /\ UNCHANGED tables
  BY <1>1, <1>5 DEF ControlOK, FindCategory, CategoryReady, Fail, Goto, Return
<1> QED BY <1>2, <1>3, <1>4, <1>5, OwnSteps DEF Answer

LEMMA CheckedStaysAbsentStep ==
    ASSUME OneServer, OneHostPerModel, TypeInv, MutexesFollowCalls, RowsHaveCallers,
           CheckedStaysAbsent, [Next]_vars
    PROVE  CheckedStaysAbsent'
<1>1. ControlOK /\ LocksOK
  BY TypeOKParts DEF TypeInv
<1>2. ASSUME NEW g \in Goroutine, NEW h \in Goroutine, InCategoryLock(g), InCategoryLock(h)
      PROVE  g = h
  BY <1>1, <1>2, MutexTyped DEF OneServer, MutexesFollowCalls
<1>3. ASSUME NEW g \in Goroutine, NEW h \in Goroutine, InModelLock(g), InModelLock(h), req[g].id = req[h].id
      PROVE  g = h
  <2>1. MutexOf(g) = MutexOf(h)
    BY <1>3 DEF OneServer, MutexOf
  <2> QED BY <1>1, <1>3, <2>1, MutexTyped DEF MutexesFollowCalls
<1>4. ASSUME NEW g \in Goroutine, pc'[g] = "insertCategory" PROVE CategoryOf(g)' \notin categories'
  <2>1. CategoryOf(g) \notin categories /\ CategoryOf(g)' = CategoryOf(g)
    BY <1>4, ReachesInsertCategory DEF CheckedStaysAbsent, CategoryOf
  <2>2. ASSUME NEW h \in Goroutine, pc[h] = "insertCategory", categories' = categories \cup {CategoryOf(h)},
               pc'[h] # "insertCategory", pc[g] = "insertCategory"
        PROVE  FALSE
    BY <1>2, <1>4, <2>2 DEF InCategoryLock
  <2>3. categories' = categories \/ pc[g] = "insertCategory"
    BY <1>4, ReachesInsertCategory DEF tables
  <2> QED BY <2>1, <2>2, <2>3, TableSteps DEF tables, R!SetStatus
<1>5. ASSUME NEW g \in Goroutine, PastLookup(g)' PROVE req'[g].id \notin R!ModelKeys'
  <2>1. req'[g] = req[g]
    BY <1>5, ReachesPastLookup
  <2>2. CASE ~FoundModel(g) /\ UNCHANGED tables
    <3>1. req[g] \in Requests /\ NeedsModel(req[g])
      BY <1>1, <1>5, <2>1 DEF ControlOK, PastLookup, InModelLock, NeedsModel
    <3>2. req[g].id \notin R!ModelKeys
      BY <2>2, <3>1 DEF RowsHaveCallers, OneHostPerModel, FoundModel, R!ModelKeys
    <3> QED BY <2>1, <2>2, <3>2 DEF tables, R!ModelKeys
  <2>3. CASE PastLookup(g)
    <3>1. req[g].id \notin R!ModelKeys
      BY <2>3 DEF CheckedStaysAbsent, PastLookup
    <3>2. ASSUME NEW h \in Goroutine, pc[h] = "insertModel", models' = models \cup {NewModelRow(h)},
                 pc'[h] \in {"idle", "insertEntity"}
          PROVE  req[g].id \notin R!ModelKeys'
      <4>1. InModelLock(h) /\ g # h
        BY <1>1, <1>5, <3>2 DEF ControlOK, Fits, InModelLock, PastLookup
      <4>2. req[h].id # req[g].id
        BY <1>3, <2>3, <4>1 DEF PastLookup
      <4>3. NewModelRow(h).id = req[h].id
        BY DEF NewModelRow
      <4> QED BY <3>1, <3>2, <4>2, <4>3 DEF R!ModelKeys
    <3>3. ASSUME NEW h \in Goroutine, R!SetStatus(req[h].id, req[h].status)
          PROVE  req[g].id \notin R!ModelKeys'
      <4>1. req[h].status \in Status
        BY <1>1, RequestFields
      <4> QED BY <3>1, <3>3, <4>1, StatusKeeps DEF R!ModelKeys
    <3>4. CASE UNCHANGED models
      BY <2>1, <3>1, <3>4 DEF R!ModelKeys
    <3> QED BY <2>1, <3>2, <3>3, <3>4, TableSteps DEF tables
  <2> QED BY <1>5, <2>2, <2>3, ReachesPastLookup
<1> QED BY <1>4, <1>5 DEF CheckedStaysAbsent, PastLookup

(* With one server, and each model registered by one host, what a call has *)
(* found absent under its mutexes is absent when it inserts it: no         *)
(* registration fails because another one came in between.                 *)
THEOREM NoRaceOnAKey ==
    ASSUME OneServer, OneHostPerModel
    PROVE  Spec => []CheckedStaysAbsent
<1>1. Init => CheckedStaysAbsent
  BY DEF Init, CheckedStaysAbsent, InModelLock
<1>2. TypeInv /\ MutexesFollowCalls /\ RowsHaveCallers /\ CheckedStaysAbsent /\ [Next]_vars
      => CheckedStaysAbsent'
  BY CheckedStaysAbsentStep
<1> QED BY <1>1, <1>2, TypeInvHolds, MutexesAreReleased, RowsHaveCallersHolds, PTL DEF Spec

(***************************************************************************)
(* What a caller may conclude from an answer.                              *)
(***************************************************************************)

LEMMA StoredKept ==
    ASSUME TypeInv, TypeInv', RowsKept, NEW g \in Goroutine, Stored(g),
           req'[g] = req[g], reply'[g] = reply[g]
    PROVE  Stored(g)'
  BY KeptKeys DEF Stored, RowsKept, CategoryOf, EntityCall

LEMMA ReadyIsStored ==
    ASSUME TypeInv, NEW g \in Goroutine, Answer(g), pc'[g] = "idle", reply'[g].ok, reply'[g].id # Nil
    PROVE  Stored(g)'
<1>1. ControlOK /\ UNCHANGED req
  BY TypeOKParts DEF TypeInv, Answer, FindModel, InsertModel, FindCategory, InsertCategory, InsertEntity, UpdateStatus
<1>2. ~Fail(g)
  BY <1>1 DEF ControlOK, Fail, Return, Error
<1>3. ASSUME NEW there, there # "idle" PROVE ~Goto(g, there)
  BY <1>1, <1>3 DEF ControlOK, Goto
<1>4. CASE FindModel(g) \/ InsertModel(g)
  <2>1. ModelReady(g)
    BY <1>2, <1>3, <1>4 DEF FindModel, InsertModel
  <2>2. req[g].kind = "model" /\ reply'[g] = [ok |-> TRUE, id |-> req[g].id]
    BY <1>1, <1>3, <2>1 DEF ModelReady, Return, ControlOK
  <2>3. FoundModel(g)'
    <3>1. CASE FindModel(g)
      BY <1>1, <1>2, <1>3, <3>1 DEF FindModel, FoundModel, tables
    <3>2. CASE InsertModel(g)
      <4>1. NewModelRow(g) \in models' /\ NewModelRow(g).id = req[g].id /\ NewModelRow(g).host = req[g].host
        BY <1>2, <3>2 DEF InsertModel, NewModelRow
      <4> QED BY <1>1, <4>1 DEF FoundModel
    <3> QED BY <1>4, <3>1, <3>2
  <2> QED BY <1>1, <2>2, <2>3 DEF Stored, EntityCall, R!EntityKind
<1>5. CASE FindCategory(g) \/ InsertCategory(g)
  <2>1. CategoryReady(g) /\ CategoryOf(g) \in categories'
    BY <1>2, <1>3, <1>5 DEF FindCategory, InsertCategory, tables
  <2>2. req[g].kind = "category" /\ reply'[g] = [ok |-> TRUE, id |-> CategoryOf(g)]
    BY <1>1, <1>3, <2>1 DEF CategoryReady, Return, ControlOK
  <2> QED BY <1>1, <2>1, <2>2 DEF Stored, CategoryOf, EntityCall, R!EntityKind
<1>6. CASE InsertEntity(g)
  <2>1. EntityCall(req[g])
    BY <1>6 DEF InsertEntity, TypeInv, TypeOK, Fits
  <2>2. reply'[g] = [ok |-> TRUE, id |-> newID[g]] /\ NewEntityRow(g) \in entities'
    <3>1. ~Return(g, Error)
      BY <1>1 DEF Return, ControlOK, Error
    <3>2. Return(g, [ok |-> TRUE, id |-> newID[g]]) /\ NewEntityRow(g) \in entities'
      BY <1>6, <3>1 DEF InsertEntity
    <3> QED BY <1>1, <3>2 DEF Return, ControlOK
  <2>3. NewEntityRow(g).id = newID[g] /\ NewEntityRow(g).kind = req[g].kind
    BY DEF NewEntityRow
  <2> QED BY <1>1, <2>1, <2>2, <2>3 DEF Stored, EntityCall, R!EntityKind
<1>7. CASE UpdateStatus(g)
  BY <1>1, <1>7 DEF UpdateStatus, Return, ControlOK, Error
<1> QED BY <1>4, <1>5, <1>6, <1>7 DEF Answer, Next

(* A goroutine becomes idle, or stays so with the answer it had. *)
LEMMA BecomesIdle ==
    ASSUME TypeInv, [Next]_vars, NEW g \in Goroutine, pc'[g] = "idle", reply'[g].ok, reply'[g].id # Nil
    PROVE  \/ pc[g] = "idle" /\ req'[g] = req[g] /\ reply'[g] = reply[g]
           \/ Answer(g)
<1>1. ControlOK
  BY TypeOKParts DEF TypeInv
<1>2. ASSUME NEW h \in Goroutine, CallAny(h) \/ LockModel(h) \/ LockCategory(h)
      PROVE  pc[g] = "idle" /\ req'[g] = req[g] /\ reply'[g] = reply[g]
  <2>1. CASE CallAny(h)
    BY <1>1, <2>1 DEF ControlOK, CallAny, CallCategory, CallModel, CallComponent, CallConnectionDefinition,
       CallRelationship, CallUpdateStatus, CallFails, Call, Goto, Return, Error
  <2>2. CASE LockModel(h) \/ LockCategory(h)
    BY <1>1, <2>2 DEF ControlOK, LockModel, LockCategory, Goto, Error
  <2> QED BY <1>2, <2>1, <2>2
<1>3. ASSUME NEW h \in Goroutine \ {g}, Answer(h)
      PROVE  pc[g] = "idle" /\ req'[g] = req[g] /\ reply'[g] = reply[g]
  <2>1. CASE FindModel(h) \/ InsertModel(h)
    BY <1>1, <2>1 DEF ControlOK, FindModel, InsertModel, ModelReady, Fail, Goto, Return
  <2>2. CASE FindCategory(h) \/ InsertCategory(h)
    BY <1>1, <2>2 DEF ControlOK, FindCategory, InsertCategory, CategoryReady, Fail, Goto, Return
  <2>3. CASE InsertEntity(h) \/ UpdateStatus(h)
    BY <1>1, <2>3 DEF ControlOK, InsertEntity, UpdateStatus, Return
  <2> QED BY <1>3, <2>1, <2>2, <2>3 DEF Answer
<1>4. ASSUME NEW s \in Server, Crash(s)
      PROVE  pc[g] = "idle" /\ req'[g] = req[g] /\ reply'[g] = reply[g]
  BY <1>1, <1>4 DEF ControlOK, Crash, Error
<1>5. CASE UNCHANGED vars
  BY <1>5 DEF vars
<1> QED BY <1>2, <1>3, <1>4, <1>5 DEF Next

LEMMA RepliesStep == TypeInv /\ TypeInv' /\ RepliesAreStored /\ [Next]_vars => RepliesAreStored'
<1> SUFFICES ASSUME TypeInv, TypeInv', RepliesAreStored, [Next]_vars,
                    NEW g \in Goroutine, pc'[g] = "idle", reply'[g].ok, reply'[g].id # Nil
             PROVE  Stored(g)'
  BY DEF RepliesAreStored
<1>1. CASE pc[g] = "idle" /\ req'[g] = req[g] /\ reply'[g] = reply[g]
  BY <1>1, RowsKeptStep, StoredKept DEF RepliesAreStored
<1>2. CASE Answer(g)
  BY <1>2, ReadyIsStored
<1> QED BY <1>1, <1>2, BecomesIdle

(* An id returned without an error is the key of a row of its table: the   *)
(* call stored it or found it, and no later step has removed it.           *)
THEOREM AnswersAreStored == Spec => []RepliesAreStored
<1>1. Init => RepliesAreStored
  BY DEF Init, RepliesAreStored, Error
<1> QED BY <1>1, RepliesStep, TypeInvHolds, PTL DEF Spec
=============================================================================
