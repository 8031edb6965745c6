------------------------------ MODULE Registry ------------------------------
(***************************************************************************)
(* Registration of entities: CategoryDefinition.Create,                    *)
(* ModelDefinition.Create (v1beta1 and v1beta2), ComponentDefinition.Create*)
(* (v1beta1 and v1beta3), ConnectionDefinition.Create,                     *)
(* RelationshipDefinition.Create and ModelDefinition.UpdateStatus.         *)
(*                                                                         *)
(* Each call runs in a goroutine of some server.  One action is one call   *)
(* of the database or one acquisition of a mutex; code between two of them *)
(* is local to the goroutine, and the deferred unlocks that follow a       *)
(* database call are part of its action.                                   *)
(***************************************************************************)
EXTENDS FiniteSets

CONSTANTS
    Goroutine, Server,
    ServerOf,           \* the server a goroutine belongs to: package mutexes are per server
    Api,                \* versions of the model package: each has a modelCreationLock of its own
    ModelID,            \* md5 of registrant, versions and name; the struct's version is hashed too,
    ApiOf,              \*   so an id belongs to the package version ApiOf[id]
    CategoryName, DefaultCategory, NoName,
    Host, EntityID, Status,
    Requests,           \* the calls the environment may make
    Faults,             \* what may go wrong: see Fault
    Nil

Kind  == {"category", "model", "component", "connectionDefinition", "relationship", "status"}
Fault == {"id",         \* GenerateID returns an error
          "query",      \* a query or an update fails and is not applied
          "insert",     \* an insert fails and is not applied
          "lostAck",    \* an insert is applied and its answer is lost
          "crash"}      \* a server stops and starts again

(* What a caller passes: the receiver's fields that Create reads, and      *)
(* hostID.  named is Name # "", hasModel is Model # nil, hasSchema is      *)
(* Schema # "" or IsAnnotation.                                            *)
Request == [kind : Kind, id : ModelID, category : CategoryName \cup {NoName}, host : Host,
            named : BOOLEAN, hasModel : BOOLEAN, hasSchema : BOOLEAN, status : Status]

ASSUME ConstantsOK ==
    /\ ServerOf \in [Goroutine -> Server]
    /\ ApiOf \in [ModelID -> Api]
    /\ DefaultCategory \in CategoryName
    /\ NoName \notin CategoryName
    /\ Nil \notin Goroutine \cup CategoryName \cup ModelID \cup EntityID
    /\ Requests \subseteq Request
    /\ Requests # {}
    /\ Faults \subseteq Fault

VARIABLES
    categories, models, entities,   \* the tables
    modelLock,          \* modelCreationLock, one per server and package version
    categoryLock,       \* categoryCreationLock, one per server
    pc, req, newID,     \* what each goroutine does, its arguments, the uuid it has drawn
    reply               \* what its last call returned

tables == <<categories, models, entities>>
locks  == <<modelLock, categoryLock>>
vars   == <<categories, models, entities, modelLock, categoryLock, pc, req, newID, reply>>

R == INSTANCE RegistrySpec WITH
        CategoryName <- CategoryName, ModelID <- ModelID, EntityID <- EntityID,
        Host <- Host, Status <- Status, Nil <- Nil,
        categories <- categories, models <- models, entities <- entities

Location == {"idle", "lockModel", "findModel", "lockCategory", "findCategory",
             "insertCategory", "insertModel", "insertEntity", "updateStatus"}

Reply == [ok : BOOLEAN, id : CategoryName \cup ModelID \cup EntityID \cup {Nil}]
Error == [ok |-> FALSE, id |-> Nil]

ModelMutex == Server \X Api
MutexOf(g) == <<ServerOf[g], ApiOf[req[g].id]>>

(* Definitions whose name holds "__" are faulty variants of the definition *)
(* they precede: a property that no variant breaks would say nothing.      *)

CategoryKey__NotDefaulted(name) == name
(* GenerateID of a category hashes the name Create has defaulted. *)
CategoryKey(name) == IF name = NoName THEN DefaultCategory ELSE name
CategoryOf(g) == CategoryKey(req[g].category)

(* The row ModelDefinition.Create inserts. *)
NewModelRow(g) == [id |-> req[g].id, category |-> CategoryOf(g),
                   host |-> req[g].host, status |-> req[g].status]

(* db.First(&model, "id = ? and connection_id = ?", modelID, hostID) *)
FoundModel(g) == \E row \in models : row.id = req[g].id /\ row.host = req[g].host

(* The row of a component, a connection definition or a relationship: the  *)
(* first two carry the id that Model.Create returned; a relationship keeps *)
(* the ModelId its caller gave it.                                         *)
NewEntityRow(g) ==
    [id |-> newID[g], kind |-> req[g].kind,
     model |-> IF req[g].hasModel THEN req[g].id ELSE Nil]

(* NewV4 returns an id nobody else has. *)
FreshIDs == EntityID \ (R!EntityKeys \cup {newID[g] : g \in Goroutine})

-----------------------------------------------------------------------------
Init ==
    /\ R!Init
    /\ modelLock = [m \in ModelMutex |-> Nil]
    /\ categoryLock = [s \in Server |-> Nil]
    /\ pc = [g \in Goroutine |-> "idle"]
    /\ req = [g \in Goroutine |-> CHOOSE r \in Requests : TRUE]
    /\ newID = [g \in Goroutine |-> Nil]
    /\ reply = [g \in Goroutine |-> Error]

Goto(g, there) ==
    /\ pc' = [pc EXCEPT ![g] = there]
    /\ reply' = [reply EXCEPT ![g] = Error]     \* nothing is returned yet

Return(g, answer) ==
    /\ pc' = [pc EXCEPT ![g] = "idle"]
    /\ reply' = [reply EXCEPT ![g] = answer]

UnlockModel(g) ==
    modelLock' = [m \in ModelMutex |-> IF modelLock[m] = g THEN Nil ELSE modelLock[m]]
UnlockCategory(g) ==
    categoryLock' = [s \in Server |-> IF categoryLock[s] = g THEN Nil ELSE categoryLock[s]]

(* An error return: every mutex the call holds is unlocked by its defer. *)
Fail(g) ==
    /\ Return(g, Error)
    /\ UnlockModel(g)
    /\ UnlockCategory(g)

(* Category.Create returns the id of the category to its caller, which is  *)
(* ModelDefinition.Create unless the call was made on a category.          *)
CategoryReady(g) ==
    /\ UnlockCategory(g)
    /\ UNCHANGED modelLock
    /\ IF req[g].kind = "category"
       THEN Return(g, [ok |-> TRUE, id |-> CategoryOf(g)])
       ELSE Goto(g, "insertModel")

ModelReady__UnlockForgotten(g) ==
    /\ UNCHANGED locks
    /\ IF req[g].kind = "model"
       THEN Return(g, [ok |-> TRUE, id |-> req[g].id])
       ELSE Goto(g, "insertEntity")

(* Model.Create returns the id of the model to its caller. *)
ModelReady(g) ==
    /\ UnlockModel(g)
    /\ UNCHANGED categoryLock
    /\ IF req[g].kind = "model"
       THEN Return(g, [ok |-> TRUE, id |-> req[g].id])
       ELSE Goto(g, "insertEntity")

-----------------------------------------------------------------------------
(* The start of a call, up to its first mutex or database call. *)

Call(g, r) ==
    /\ pc[g] = "idle"
    /\ req' = [req EXCEPT ![g] = r]
    /\ UNCHANGED <<tables, locks>>

CallCategory(g, r) ==
    /\ r.kind = "category"
    /\ Call(g, r)
    /\ Goto(g, "lockCategory")
    /\ UNCHANGED newID

CallModel(g, r) ==
    /\ r.kind = "model"
    /\ Call(g, r)
    /\ IF r.named THEN Goto(g, "lockModel") ELSE Return(g, Error)
    /\ UNCHANGED newID

(* GenerateID fails: the call returns before it touches anything. *)
CallFails(g, r) ==
    /\ "id" \in Faults
    /\ r.kind # "status"
    /\ Call(g, r)
    /\ Return(g, Error)
    /\ UNCHANGED newID

(* A component without a schema returns uuid.Nil and no error. *)
CallComponent(g, r) ==
    /\ r.kind = "component"
    /\ Call(g, r)
    /\ \E id \in FreshIDs : newID' = [newID EXCEPT ![g] = id]
    /\ IF ~r.hasSchema THEN Return(g, [ok |-> TRUE, id |-> Nil])
       ELSE IF r.hasModel /\ r.named THEN Goto(g, "lockModel")
       ELSE Return(g, Error)

CallConnectionDefinition(g, r) ==
    /\ r.kind = "connectionDefinition"
    /\ Call(g, r)
    /\ \E id \in FreshIDs : newID' = [newID EXCEPT ![g] = id]
    /\ IF r.hasModel /\ r.named THEN Goto(g, "lockModel") ELSE Return(g, Error)

CallRelationship(g, r) ==
    /\ r.kind = "relationship"
    /\ Call(g, r)
    /\ \E id \in FreshIDs : newID' = [newID EXCEPT ![g] = id]
    /\ Goto(g, "insertEntity")

CallUpdateStatus(g, r) ==
    /\ r.kind = "status"
    /\ Call(g, r)
    /\ Goto(g, "updateStatus")
    /\ UNCHANGED newID

-----------------------------------------------------------------------------
(* ModelDefinition.Create *)

LockModel(g) ==
    /\ pc[g] = "lockModel"
    /\ modelLock[MutexOf(g)] = Nil
    /\ modelLock' = [modelLock EXCEPT ![MutexOf(g)] = g]
    /\ Goto(g, "findModel")
    /\ UNCHANGED <<tables, categoryLock, req, newID>>

FindModel__NoCategory(g) ==
    /\ pc[g] = "findModel"
    /\ IF FoundModel(g) THEN ModelReady(g) ELSE Goto(g, "insertModel") /\ UNCHANGED locks
    /\ UNCHANGED <<tables, req, newID>>

(* A miss goes on to Category.Create, whose GenerateID may fail. *)
FindModel(g) ==
    /\ pc[g] = "findModel"
    /\ \/ FoundModel(g) /\ ModelReady(g)
       \/ ~FoundModel(g) /\ Goto(g, "lockCategory") /\ UNCHANGED locks
       \/ ~FoundModel(g) /\ "id" \in Faults /\ Fail(g)
       \/ "query" \in Faults /\ Fail(g)
    /\ UNCHANGED <<tables, req, newID>>

(* The database keeps the primary key unique: inserting a key that is      *)
(* there already is an error.                                              *)
InsertModel(g) ==
    /\ pc[g] = "insertModel"
    /\ LET absent == req[g].id \notin R!ModelKeys
           stored == models' = models \cup {NewModelRow(g)}
       IN \/ absent /\ stored /\ ModelReady(g)
          \/ ~absent /\ UNCHANGED models /\ Fail(g)
          \/ "insert" \in Faults /\ UNCHANGED models /\ Fail(g)
          \/ "lostAck" \in Faults /\ absent /\ stored /\ Fail(g)
    /\ UNCHANGED <<categories, entities, req, newID>>

(* db.Model(&ModelDefinition{}).Where("id = ?", m.ID).Update("status", s)  *)
(* succeeds whether or not it finds a row.                                 *)
UpdateStatus(g) ==
    /\ pc[g] = "updateStatus"
    /\ LET id == req[g].id
           stored == models' = {IF row.id = id THEN R!WithStatus(row, req[g].status) ELSE row :
                                row \in models}
       IN \/ stored /\ Return(g, [ok |-> TRUE, id |-> Nil])
          \/ "query" \in Faults /\ UNCHANGED models /\ Return(g, Error)
          \/ "lostAck" \in Faults /\ stored /\ Return(g, Error)
    /\ UNCHANGED <<categories, entities, locks, req, newID>>

-----------------------------------------------------------------------------
(* CategoryDefinition.Create *)

LockCategory__NoWait(g) ==
    /\ pc[g] = "lockCategory"
    /\ categoryLock' = [categoryLock EXCEPT ![ServerOf[g]] = g]
    /\ Goto(g, "findCategory")
    /\ UNCHANGED <<tables, modelLock, req, newID>>

LockCategory(g) ==
    /\ pc[g] = "lockCategory"
    /\ categoryLock[ServerOf[g]] = Nil
    /\ categoryLock' = [categoryLock EXCEPT ![ServerOf[g]] = g]
    /\ Goto(g, "findCategory")
    /\ UNCHANGED <<tables, modelLock, req, newID>>

FindCategory(g) ==
    /\ pc[g] = "findCategory"
    /\ \/ CategoryOf(g) \in categories /\ CategoryReady(g)
       \/ CategoryOf(g) \notin categories /\ Goto(g, "insertCategory") /\ UNCHANGED locks
       \/ "query" \in Faults /\ Fail(g)
    /\ UNCHANGED <<tables, req, newID>>

InsertCategory__ErrorIgnored(g) ==
    /\ pc[g] = "insertCategory"
    /\ \/ categories' = categories \cup {CategoryOf(g)}
       \/ "insert" \in Faults /\ UNCHANGED categories
    /\ CategoryReady(g)
    /\ UNCHANGED <<models, entities, req, newID>>

InsertCategory(g) ==
    /\ pc[g] = "insertCategory"
    /\ LET absent == CategoryOf(g) \notin categories
           stored == categories' = categories \cup {CategoryOf(g)}
       IN \/ absent /\ stored /\ CategoryReady(g)
          \/ ~absent /\ UNCHANGED categories /\ Fail(g)
          \/ "insert" \in Faults /\ UNCHANGED categories /\ Fail(g)
          \/ "lostAck" \in Faults /\ absent /\ stored /\ Fail(g)
    /\ UNCHANGED <<models, entities, req, newID>>

-----------------------------------------------------------------------------
InsertEntity__ErrorDropped(g) ==
    /\ pc[g] = "insertEntity"
    /\ \/ entities' = entities \cup {NewEntityRow(g)}
       \/ "insert" \in Faults /\ UNCHANGED entities
    /\ Return(g, [ok |-> TRUE, id |-> newID[g]])
    /\ UNCHANGED <<categories, models, locks, req, newID>>

(* The insert that ends the Create of a component, a connection definition *)
(* or a relationship.  No mutex is held.                                   *)
InsertEntity(g) ==
    /\ pc[g] = "insertEntity"
    /\ LET stored == entities' = entities \cup {NewEntityRow(g)}
       IN \/ stored /\ Return(g, [ok |-> TRUE, id |-> newID[g]])
          \/ "insert" \in Faults /\ UNCHANGED entities /\ Return(g, Error)
          \/ "lostAck" \in Faults /\ stored /\ Return(g, Error)
    /\ UNCHANGED <<categories, models, locks, req, newID>>

(* The mutexes and the calls of a server are gone; the tables are not. *)
Crash(s) ==
    /\ "crash" \in Faults
    /\ pc' = [g \in Goroutine |-> IF ServerOf[g] = s THEN "idle" ELSE pc[g]]
    /\ reply' = [g \in Goroutine |-> IF ServerOf[g] = s THEN Error ELSE reply[g]]
    /\ modelLock' = [m \in ModelMutex |-> IF m[1] = s THEN Nil ELSE modelLock[m]]
    /\ categoryLock' = [categoryLock EXCEPT ![s] = Nil]
    /\ UNCHANGED <<tables, req, newID>>

CallAny(g) ==
    \E r \in Requests :
        \/ CallCategory(g, r)
        \/ CallModel(g, r)
        \/ CallComponent(g, r)
        \/ CallConnectionDefinition(g, r)
        \/ CallRelationship(g, r)
        \/ CallUpdateStatus(g, r)
        \/ CallFails(g, r)

Answer(g) ==
    \/ FindModel(g)
    \/ InsertModel(g)
    \/ FindCategory(g)
    \/ InsertCategory(g)
    \/ InsertEntity(g)
    \/ UpdateStatus(g)

Next ==
    \/ \E g \in Goroutine : CallAny(g) \/ LockModel(g) \/ LockCategory(g) \/ Answer(g)
    \/ \E s \in Server : Crash(s)

(* The database answers every call, with a result or an error, and a Go    *)
(* mutex in starvation mode serves its waiters in turn.                    *)
Fairness ==
    \A g \in Goroutine :
        /\ WF_vars(Answer(g))
        /\ SF_vars(LockModel(g))
        /\ SF_vars(LockCategory(g))

Spec == Init /\ [][Next]_vars
FairSpec == Spec /\ Fairness

-----------------------------------------------------------------------------
(* Properties.                                                             *)

EntityCall(r) == r.kind \in R!EntityKind
NeedsModel(r) == r.kind \in {"model", "component", "connectionDefinition"}

InModelLock(g) ==
    /\ NeedsModel(req[g])
    /\ pc[g] \in {"findModel", "lockCategory", "findCategory", "insertCategory", "insertModel"}
InCategoryLock(g) == pc[g] \in {"findCategory", "insertCategory"}

(* The statement a goroutine is at belongs to the call it makes. *)
Fits(there, r) ==
    /\ there \in {"lockModel", "findModel", "insertModel"} => NeedsModel(r)
    /\ there \in {"lockCategory", "findCategory", "insertCategory"} =>
           NeedsModel(r) \/ r.kind = "category"
    /\ there = "insertEntity" => EntityCall(r)
    /\ there # "idle" /\ NeedsModel(r) /\ EntityCall(r) => r.hasModel

(* Every variable keeps its shape, the tables hold rows of their type, and *)
(* each goroutine is at a statement of the call it was asked to make.      *)
TypeOK ==
    /\ R!TablesOK
    /\ modelLock \in [ModelMutex -> Goroutine \cup {Nil}]
    /\ categoryLock \in [Server -> Goroutine \cup {Nil}]
    /\ pc \in [Goroutine -> Location]
    /\ req \in [Goroutine -> Requests]
    /\ newID \in [Goroutine -> EntityID \cup {Nil}]
    /\ reply \in [Goroutine -> Reply]
    /\ \A g \in Goroutine : Fits(pc[g], req[g])

(* A mutex is held by exactly the call that is between its Lock and its    *)
(* deferred Unlock, on every return path, errors included.                 *)
MutexesFollowCalls ==
    /\ \A m \in ModelMutex, g \in Goroutine :
           modelLock[m] = g <=> InModelLock(g) /\ MutexOf(g) = m
    /\ \A s \in Server, g \in Goroutine :
           categoryLock[s] = g <=> InCategoryLock(g) /\ ServerOf[g] = s

(* No reader of the tables meets a dangling reference: the category of a   *)
(* model, the model of a component and of a connection definition are      *)
(* registered, whichever inserts failed, were lost or were cut by a crash. *)
ParentsExist ==
    /\ \A row \in models : row.category \in categories
    /\ \A row \in entities : row.kind # "relationship" => row.model \in R!ModelKeys

(* The id of a parent is returned from under its mutex and used after the  *)
(* mutex is released: the parent is still registered when it is used, and  *)
(* the model is the one registered by the caller's own host.               *)
ParentsReady ==
    \A g \in Goroutine :
        /\ pc[g] = "insertModel" => CategoryOf(g) \in categories
        /\ pc[g] = "insertEntity" /\ NeedsModel(req[g]) => FoundModel(g)

(* The uuid a call has drawn is its own until it is inserted. *)
UuidsFresh ==
    \A g \in Goroutine :
        /\ pc[g] # "idle" /\ EntityCall(req[g]) => newID[g] \in EntityID \ R!EntityKeys
        /\ \A h \in Goroutine \ {g} : newID[g] # Nil => newID[g] # newID[h]

(* One process serves all the callers, as the package mutexes assume. *)
OneServer == \A g, h \in Goroutine : ServerOf[g] = ServerOf[h]

(* A model is always registered by the host its identity names: the        *)
(* registrant is hashed into the id, hostID is a separate argument.        *)
OneHostPerModel ==
    \A r1, r2 \in Requests :
        NeedsModel(r1) /\ NeedsModel(r2) /\ r1.id = r2.id => r1.host = r2.host

(* "This lock will make sure that there are no race conditions": whatever  *)
(* the interleaving, what a call found absent is still absent when it      *)
(* inserts it, so no registration ever fails on a key that another call    *)
(* inserted in between.  Needs OneServer and OneHostPerModel.              *)
CheckedStaysAbsent ==
    \A g \in Goroutine :
        /\ pc[g] = "insertCategory" => CategoryOf(g) \notin categories
        /\ InModelLock(g) /\ pc[g] # "findModel" => req[g].id \notin R!ModelKeys

(* The id g was given is the key of a row of the table it asked for. *)
Stored(g) ==
    /\ req[g].kind = "category" => reply[g].id = CategoryOf(g) /\ CategoryOf(g) \in categories
    /\ req[g].kind = "model" => reply[g].id = req[g].id /\ FoundModel(g)
    /\ EntityCall(req[g]) => \E row \in entities : row.id = reply[g].id /\ row.kind = req[g].kind

(* A call that returned an id without an error has left its row in the     *)
(* table, under the caller's host, and the row is still there.             *)
RepliesAreStored ==
    \A g \in Goroutine : pc[g] = "idle" /\ reply[g].ok /\ reply[g].id # Nil => Stored(g)

(* No step removes a row, and registering a model again, with another      *)
(* category or by another host, changes nothing but its status column.     *)
RowsKept ==
    /\ categories \subseteq categories'
    /\ entities \subseteq entities'
    /\ \A row \in models : \E new \in models' : new = R!WithStatus(row, new.status)

RowsAreKept == [][RowsKept]_vars

(* A call that takes both mutexes in turn never waits for ever: every call *)
(* returns, however many callers compete and whichever answers are errors. *)
EveryCallReturns == \A g \in Goroutine : pc[g] # "idle" ~> pc[g] = "idle"

(* The registry implements RegistrySpec: the goroutines, mutexes and       *)
(* failures are hidden, and every step inserts at most one row, below its  *)
(* parent, under a key that was absent.                                    *)
RegistryRefined == R!Spec

(* What a comment says and the code does not do.  model_helper.go: "if the *)
(* model already doesn't exist, it will create a model": a call that goes  *)
(* on to create a model found none with its id.                            *)
CreatesOnlyMissingModel ==
    \A g \in Goroutine : pc[g] = "insertModel" => req[g].id \notin R!ModelKeys
=============================================================================
