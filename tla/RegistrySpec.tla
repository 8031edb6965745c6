---------------------------- MODULE RegistrySpec ----------------------------
(***************************************************************************)
(* What the entity registry promises to its readers, with the callers, the *)
(* mutexes and the database failures left out: three tables that only      *)
(* grow, whose rows are keyed by identity and are inserted one at a time,  *)
(* a parent row always before the rows that refer to it.                   *)
(***************************************************************************)

CONSTANTS
    CategoryName,   \* identities of categories: the md5 of a category is a function of its name
    ModelID,        \* identities of models: the md5 of the registrant, name, versions
    EntityID,       \* random v4 uuids of components, connection definitions, relationships
    Host,           \* ids of the connections that register models
    Status,         \* model statuses
    Nil             \* uuid.Nil

VARIABLES
    categories,     \* table category_dbs: the set of its primary keys
    models,         \* table model_dbs
    entities        \* the three tables of entities that have a random key

tables == <<categories, models, entities>>

EntityKind == {"component", "connectionDefinition", "relationship"}

ModelRow  == [id : ModelID, category : CategoryName, host : Host, status : Status]
EntityRow == [id : EntityID, kind : EntityKind, model : ModelID \cup {Nil}]

WithStatus(row, s) == [row EXCEPT !.status = s]

ModelKeys  == {row.id : row \in models}
EntityKeys == {row.id : row \in entities}

TablesOK ==
    /\ categories \subseteq CategoryName
    /\ models \subseteq ModelRow
    /\ entities \subseteq EntityRow

-----------------------------------------------------------------------------

Init ==
    /\ categories = {}
    /\ models = {}
    /\ entities = {}

(* A category appears once, under the key its name hashes to. *)
AddCategory(c) ==
    /\ c \notin categories
    /\ categories' = categories \cup {c}
    /\ UNCHANGED <<models, entities>>

(* A model appears once, and only below a category that is there already. *)
AddModel(row) ==
    /\ row.id \notin ModelKeys
    /\ row.category \in categories
    /\ models' = models \cup {row}
    /\ UNCHANGED <<categories, entities>>

(* A component or a connection definition appears only below its model. *)
AddEntity(row) ==
    /\ row.id \notin EntityKeys
    /\ row.kind # "relationship" => row.model \in ModelKeys
    /\ entities' = entities \cup {row}
    /\ UNCHANGED <<categories, models>>

(* UpdateStatus rewrites the status column of a model and nothing else. *)
SetStatus(id, s) ==
    /\ models' = {IF row.id = id THEN WithStatus(row, s) ELSE row : row \in models}
    /\ UNCHANGED <<categories, entities>>

Next ==
    \/ \E c \in CategoryName : AddCategory(c)
    \/ \E row \in ModelRow : AddModel(row)
    \/ \E row \in EntityRow : AddEntity(row)
    \/ \E id \in ModelID, s \in Status : SetStatus(id, s)

Spec == Init /\ [][Next]_tables
=============================================================================
