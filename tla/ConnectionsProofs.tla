-------------------------- MODULE ConnectionsProofs --------------------------
(***************************************************************************)
(* Theorems about Connections for every set of goroutines, descriptions    *)
(* and faults, and every bound on the generations.                         *)
(***************************************************************************)
EXTENDS Connections, TLAPS

LEMMA Constants ==
    /\ Nil \notin ConnectionID
    /\ Nil \notin Goroutine
    /\ MaxGeneration \in Nat \ {0}
  BY ConstantsOK DEF ConnectionID

LEMMA GeneratedType ==
    ASSUME NEW h \in Struct, h.id # Nil => h.id.generation < MaxGeneration
    PROVE  /\ GenerateID(h) \in ConnectionID
           /\ GenerateID(h).of = h.of
<1>1. MaxGeneration \in Nat \ {0}
  BY Constants
<1>2. CASE h.id = Nil
  BY <1>1, <1>2 DEF GenerateID, ConnectionID, Struct
<1>3. CASE h.id # Nil
  <2>1. h.id \in ConnectionID
    BY <1>3 DEF Struct
  <2>2. h.id.generation + 1 \in 1 .. MaxGeneration
    BY <1>1, <1>3, <2>1 DEF ConnectionID
  <2> QED BY <1>3, <2>2 DEF GenerateID, ConnectionID, Struct
<1> QED BY <1>2, <1>3

LEMMA ReplyTypes ==
    /\ Error \in Reply
    /\ \A id \in ConnectionID : [ok |-> TRUE, id |-> id] \in Reply
  BY DEF Error, Reply

(* A call starts from a struct that has its description, and an id that    *)
(* leaves room below the bound.                                             *)
LEMMA EnterStruct ==
    ASSUME TypeOK, NEW g \in Goroutine, Create(g) \/ CreateAgain(g)
    PROVE  \E h \in Struct : /\ h.id # Nil => h.id.generation < MaxGeneration
                             /\ Enter(g, h)
<1>1. CASE Create(g)
  <2>1. PICK d \in Description : Enter(g, [of |-> d, id |-> Nil])
    BY <1>1 DEF Create
  <2>2. [of |-> d, id |-> Nil] \in Struct
    BY DEF Struct
  <2> QED BY <2>1, <2>2
<1>2. CASE CreateAgain(g)
  <2>1. struct[g] \in Struct
    BY DEF TypeOK
  <2> QED BY <1>2, <2>1 DEF CreateAgain
<1> QED BY <1>1, <1>2

-----------------------------------------------------------------------------
(* TypeOK is inductive. *)

LEMMA TypeStep ==
    ASSUME TypeOK, [Next]_vars
    PROVE  TypeOK'
<1> USE DEF TypeOK
<1>1. ASSUME NEW g \in Goroutine, Create(g) \/ CreateAgain(g)
      PROVE  TypeOK'
  <2>1. PICK h \in Struct : (h.id # Nil => h.id.generation < MaxGeneration) /\ Enter(g, h)
    BY <1>1, EnterStruct
  <2>2. GenerateID(h) \in ConnectionID
    BY <2>1, GeneratedType
  <2> QED BY <2>1, <2>2, ReplyTypes, Constants DEF Enter
<1>2. ASSUME NEW g \in Goroutine, Lock(g)
      PROVE  TypeOK'
  BY <1>2 DEF Lock
<1>3. ASSUME NEW g \in Goroutine, Find(g)
      PROVE  TypeOK'
  <2>1. hID[g] \in ConnectionID
    BY <1>3 DEF Find
  <2>2. struct' \in [Goroutine -> Struct]
    BY <1>3, <2>1 DEF Find, Struct
  <2> QED BY <1>3, <2>1, <2>2, ReplyTypes DEF Find, Return
<1>4. ASSUME NEW g \in Goroutine, Insert(g)
      PROVE  TypeOK'
  <2>1. hID[g] \in ConnectionID
    BY <1>4 DEF Insert
  <2> QED BY <1>4, <2>1, ReplyTypes DEF Insert, Return
<1>5. CASE Crash
  <2>1. struct' \in [Goroutine -> Struct]
    BY <1>5 DEF Crash, Struct
  <2> QED BY <1>5, <2>1, ReplyTypes DEF Crash
<1>6. CASE UNCHANGED vars
  BY <1>6 DEF vars
<1> QED BY <1>1, <1>2, <1>3, <1>4, <1>5, <1>6 DEF Next

(* Every variable keeps its shape, in every interleaving of Create. *)
THEOREM TypeCorrect == Spec => []TypeOK
<1>1. Init => TypeOK
  BY ReplyTypes DEF Init, TypeOK, Struct
<1> QED BY <1>1, TypeStep, PTL DEF Spec

-----------------------------------------------------------------------------
(* The mutex, and what it protects. *)

LockInv == TypeOK /\ MutexFollowsCalls /\ CheckedStaysAbsent

LEMMA LockStep ==
    ASSUME LockInv, [Next]_vars
    PROVE  MutexFollowsCalls' /\ CheckedStaysAbsent'
<1> USE Constants DEF LockInv, TypeOK, MutexFollowsCalls, CheckedStaysAbsent
<1>1. ASSUME NEW g \in Goroutine, Create(g) \/ CreateAgain(g)
      PROVE  MutexFollowsCalls' /\ CheckedStaysAbsent'
  <2>1. PICK h \in Struct : Enter(g, h)
    BY <1>1, EnterStruct
  <2> QED BY <2>1 DEF Enter
<1>2. ASSUME NEW g \in Goroutine, Lock(g)
      PROVE  MutexFollowsCalls' /\ CheckedStaysAbsent'
  BY <1>2 DEF Lock
<1>3. ASSUME NEW g \in Goroutine, Find(g)
      PROVE  MutexFollowsCalls' /\ CheckedStaysAbsent'
  BY <1>3 DEF Find, Return
<1>4. ASSUME NEW g \in Goroutine, Insert(g)
      PROVE  MutexFollowsCalls' /\ CheckedStaysAbsent'
  <2>1. \A h \in Goroutine \ {g} : pc[h] \notin {"find", "insert"}
    BY <1>4 DEF Insert
  <2> QED BY <1>4, <2>1 DEF Insert, Return
<1>5. CASE Crash
  BY <1>5 DEF Crash
<1>6. CASE UNCHANGED vars
  BY <1>6 DEF vars
<1> QED BY <1>1, <1>2, <1>3, <1>4, <1>5, <1>6 DEF Next

LEMMA LockCorrect == Spec => []LockInv
<1>1. Init => MutexFollowsCalls /\ CheckedStaysAbsent
  BY Constants DEF Init, MutexFollowsCalls, CheckedStaysAbsent
<1>2. Init => LockInv
  <2>1. Init => TypeOK
    BY ReplyTypes DEF Init, TypeOK, Struct
  <2> QED BY <1>1, <2>1 DEF LockInv
<1>3. LockInv /\ [Next]_vars => LockInv'
  BY LockStep, TypeStep DEF LockInv
<1> QED BY <1>2, <1>3, PTL DEF Spec

(* The mutex is held by exactly one call between Lock and the deferred     *)
(* Unlock, on every return path.                                           *)
THEOREM MutexIsReleased == Spec => []MutexFollowsCalls
<1>1. LockInv => MutexFollowsCalls
  BY DEF LockInv
<1> QED BY <1>1, LockCorrect, PTL

(* "This lock will make sure that there are no race conditions": what the  *)
(* lookup found absent is absent when it is inserted.                      *)
THEOREM NoRaceOnAConnection == Spec => []CheckedStaysAbsent
<1>1. LockInv => CheckedStaysAbsent
  BY DEF LockInv
<1> QED BY <1>1, LockCorrect, PTL

-----------------------------------------------------------------------------
(* The id under way is that of the struct, and a reply that of a row. *)

HashOfStruct == \A g \in Goroutine : pc[g] # "idle" => hID[g].of = struct[g].of
AnswerInv == TypeOK /\ HashOfStruct /\ RepliesAreStored

LEMMA AnswerStep ==
    ASSUME AnswerInv, [Next]_vars
    PROVE  HashOfStruct' /\ RepliesAreStored'
<1> USE DEF AnswerInv, HashOfStruct, RepliesAreStored
<1>0. TypeOK
  OBVIOUS
<1>1. ASSUME NEW g \in Goroutine, Create(g) \/ CreateAgain(g)
      PROVE  HashOfStruct' /\ RepliesAreStored'
  <2>1. PICK h \in Struct : (h.id # Nil => h.id.generation < MaxGeneration) /\ Enter(g, h)
    BY <1>0, <1>1, EnterStruct
  <2>2. GenerateID(h).of = h.of
    BY <2>1, GeneratedType
  <2> QED BY <1>0, <2>1, <2>2 DEF Enter, TypeOK, Error
<1>2. ASSUME NEW g \in Goroutine, Lock(g)
      PROVE  HashOfStruct' /\ RepliesAreStored'
  BY <1>2 DEF Lock, TypeOK
<1>3. ASSUME NEW g \in Goroutine, Find(g)
      PROVE  HashOfStruct' /\ RepliesAreStored'
  <2>1. \A h \in Goroutine : struct'[h].of = struct[h].of
    BY <1>3 DEF Find, TypeOK, Struct
  <2> QED BY <1>3, <2>1 DEF Find, Return, TypeOK, Error
<1>4. ASSUME NEW g \in Goroutine, Insert(g)
      PROVE  HashOfStruct' /\ RepliesAreStored'
  BY <1>4 DEF Insert, Return, TypeOK, Error
<1>5. CASE Crash
  BY <1>5 DEF Crash, Error
<1>6. CASE UNCHANGED vars
  BY <1>6 DEF vars
<1> QED BY <1>1, <1>2, <1>3, <1>4, <1>5, <1>6 DEF Next

(* An id that Create returned is that of the connection described, and its *)
(* row is in the table.                                                    *)
THEOREM AnswersAreStored == Spec => []RepliesAreStored
<1>1. Init => HashOfStruct /\ RepliesAreStored
  BY DEF Init, HashOfStruct, RepliesAreStored, Error
<1>2. AnswerInv /\ [Next]_vars => HashOfStruct' /\ RepliesAreStored'
  BY AnswerStep
<1>3. HashOfStruct /\ RepliesAreStored /\ TypeOK => AnswerInv
  BY DEF AnswerInv
<1> QED BY <1>1, <1>2, <1>3, TypeCorrect, PTL DEF Spec

=============================================================================
