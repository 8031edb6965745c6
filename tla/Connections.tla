---------------------------- MODULE Connections ----------------------------
(***************************************************************************)
(* Connection.Create (v1beta1): get-or-create of a connection whose id is  *)
(* the md5 of the whole struct, the ID field included.  The struct's ID is *)
(* assigned before the insert, so a struct that has been through Create    *)
(* once hashes to another id the next time.                                *)
(***************************************************************************)
EXTENDS Naturals

CONSTANTS
    Goroutine,          \* callers in one server
    Description,        \* everything in a Connection but its ID
    MaxGeneration,      \* bound on the calls that may change one struct's ID
    Faults,             \* subset of Fault
    Nil

Fault == {"id",         \* the struct cannot be marshalled: GenerateID returns an error
          "query",      \* the lookup fails
          "insert",     \* the insert fails and is not applied
          "lostAck",    \* the insert is applied and its answer is lost
          "crash"}      \* the server stops and starts again

ASSUME ConstantsOK ==
    /\ Nil \notin Goroutine \cup [of : Description, generation : Nat]
    /\ Faults \subseteq Fault
    /\ MaxGeneration \in Nat \ {0}

VARIABLES
    connections,        \* the table: the set of its primary keys
    lock,               \* connectionCreation
    pc, struct, hID,    \* of each goroutine: its statement, *h, the local hID
    reply

vars == <<connections, lock, pc, struct, hID, reply>>

(* The id of a struct whose ID was never assigned has generation 1; that   *)
(* of a struct whose ID has generation n has generation n + 1.  md5 keeps  *)
(* all of them apart.                                                      *)
ConnectionID == [of : Description, generation : 1 .. MaxGeneration]
Struct == [of : Description, id : ConnectionID \cup {Nil}]

(* Definitions whose name holds "__" are faulty variants of the definition *)
(* they precede.                                                           *)

GenerateID__StructID(h) == h.id

GenerateID(h) ==
    [of |-> h.of, generation |-> IF h.id = Nil THEN 1 ELSE h.id.generation + 1]

Reply == [ok : BOOLEAN, id : ConnectionID \cup {Nil}]
Error == [ok |-> FALSE, id |-> Nil]

Init ==
    /\ connections = {}
    /\ lock = Nil
    /\ pc = [g \in Goroutine |-> "idle"]
    /\ struct \in [Goroutine -> [of : Description, id : {Nil}]]
    /\ hID = [g \in Goroutine |-> Nil]
    /\ reply = [g \in Goroutine |-> Error]

Return__LockKept(g, answer) ==
    /\ pc' = [pc EXCEPT ![g] = "idle"]
    /\ reply' = [reply EXCEPT ![g] = answer]
    /\ UNCHANGED lock

Return(g, answer) ==
    /\ pc' = [pc EXCEPT ![g] = "idle"]
    /\ reply' = [reply EXCEPT ![g] = answer]
    /\ lock' = IF lock = g THEN Nil ELSE lock

(* The id is hashed before the mutex is taken. *)
Enter(g, h) ==
    /\ pc[g] = "idle"
    /\ struct' = [struct EXCEPT ![g] = h]
    /\ reply' = [reply EXCEPT ![g] = Error]
    /\ \/ /\ hID' = [hID EXCEPT ![g] = GenerateID(h)]
          /\ pc' = [pc EXCEPT ![g] = "lock"]
       \/ /\ "id" \in Faults
          /\ UNCHANGED <<pc, hID>>
    /\ UNCHANGED <<connections, lock>>

(* Create on a struct that has just been filled in. *)
Create(g) ==
    \E d \in Description : Enter(g, [of |-> d, id |-> Nil])

(* Create again on the struct of the last call, whatever became of it. *)
CreateAgain(g) ==
    /\ struct[g].id # Nil => struct[g].id.generation < MaxGeneration
    /\ Enter(g, struct[g])

Lock__NoWait(g) ==
    /\ pc[g] = "lock"
    /\ lock' = g
    /\ pc' = [pc EXCEPT ![g] = "find"]
    /\ UNCHANGED <<connections, struct, hID, reply>>

Lock(g) ==
    /\ pc[g] = "lock"
    /\ lock = Nil
    /\ lock' = g
    /\ pc' = [pc EXCEPT ![g] = "find"]
    /\ UNCHANGED <<connections, struct, hID, reply>>

(* db.First(&connection, "id = ?", hID); a miss assigns h.ID. *)
Find(g) ==
    /\ pc[g] = "find"
    /\ \/ /\ hID[g] \in connections
          /\ Return(g, [ok |-> TRUE, id |-> hID[g]])
          /\ UNCHANGED struct
       \/ /\ hID[g] \notin connections
          /\ struct' = [struct EXCEPT ![g].id = hID[g]]
          /\ pc' = [pc EXCEPT ![g] = "insert"]
          /\ UNCHANGED <<lock, reply>>
       \/ /\ "query" \in Faults
          /\ Return(g, Error)
          /\ UNCHANGED struct
    /\ UNCHANGED <<connections, hID>>

Insert__ErrorIgnored(g) ==
    /\ pc[g] = "insert"
    /\ \/ connections' = connections \cup {hID[g]}
       \/ "insert" \in Faults /\ UNCHANGED connections
    /\ Return(g, [ok |-> TRUE, id |-> hID[g]])
    /\ UNCHANGED <<struct, hID>>

(* db.Create(h); the primary key is unique. *)
Insert(g) ==
    /\ pc[g] = "insert"
    /\ LET absent == hID[g] \notin connections
           stored == connections' = connections \cup {hID[g]}
       IN \/ absent /\ stored /\ Return(g, [ok |-> TRUE, id |-> hID[g]])
          \/ ~absent /\ UNCHANGED connections /\ Return(g, Error)
          \/ "insert" \in Faults /\ UNCHANGED connections /\ Return(g, Error)
          \/ "lostAck" \in Faults /\ absent /\ stored /\ Return(g, Error)
    /\ UNCHANGED <<struct, hID>>

(* The server stops and starts again: its callers fill their structs anew. *)
Crash ==
    /\ "crash" \in Faults
    /\ pc' = [g \in Goroutine |-> "idle"]
    /\ struct' = [g \in Goroutine |-> [struct[g] EXCEPT !.id = Nil]]
    /\ reply' = [g \in Goroutine |-> Error]
    /\ lock' = Nil
    /\ UNCHANGED <<connections, hID>>

Next ==
    \/ \E g \in Goroutine : Create(g) \/ CreateAgain(g) \/ Lock(g) \/ Find(g) \/ Insert(g)
    \/ Crash

Fairness == \A g \in Goroutine : WF_vars(Find(g) \/ Insert(g)) /\ SF_vars(Lock(g))

Spec == Init /\ [][Next]_vars
FairSpec == Spec /\ Fairness

-----------------------------------------------------------------------------
(* Properties. *)

(* Every variable keeps its shape; past the lookup the struct carries hID. *)
TypeOK ==
    /\ connections \subseteq ConnectionID
    /\ lock \in Goroutine \cup {Nil}
    /\ pc \in [Goroutine -> {"idle", "lock", "find", "insert"}]
    /\ struct \in [Goroutine -> Struct]
    /\ hID \in [Goroutine -> ConnectionID \cup {Nil}]
    /\ reply \in [Goroutine -> Reply]
    /\ \A g \in Goroutine : pc[g] # "idle" => hID[g] # Nil

(* The mutex is held exactly by the call between its Lock and its Unlock. *)
MutexFollowsCalls == \A g \in Goroutine : lock = g <=> pc[g] \in {"find", "insert"}

(* "check if the connection already exists": what a call has found absent  *)
(* is absent when it inserts it, whatever the other callers do.            *)
CheckedStaysAbsent == \A g \in Goroutine : pc[g] = "insert" => hID[g] \notin connections

(* An id that was returned is the id of the connection that was described, *)
(* and its row is in the table.                                            *)
RepliesAreStored ==
    \A g \in Goroutine :
        pc[g] = "idle" /\ reply[g].ok => reply[g].id \in connections /\ reply[g].id.of = struct[g].of

(* Every call returns: no caller waits for the mutex for ever. *)
EveryCallReturns == \A g \in Goroutine : pc[g] # "idle" ~> pc[g] = "idle"
=============================================================================
