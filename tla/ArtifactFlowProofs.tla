------------------------- MODULE ArtifactFlowProofs -------------------------
(***************************************************************************)
(* The workflow never replaces generated files by older ones, for any      *)
(* number of runs, units and pushes.  The argument: a commit that master   *)
(* gets after a pull makes the push be rejected, and a file that master got*)
(* between checkout and pull makes the pull be refused when the run changes*)
(* that file too; so the files a run pushes are, on master, still those it *)
(* checked out, and it generated them from schemas at least as new.  And   *)
(* for every change some run is still to come, is on its way with it, or   *)
(* has failed with it or warned that it left it out.                       *)
(***************************************************************************)
EXTENDS ArtifactFlow, TLAPS

(* What a run has seen is no newer than master, and what master generated  *)
(* is no newer than its schemas.                                           *)
Snapshots ==
    /\ \A u \in Unit : art[u] <= src[u] /\ src[u] <= tip
    /\ \A j \in Job : head[j] <= tip
    /\ \A j \in Job, u \in Unit : base[j].art[u] <= base[j].src[u]
    /\ \A j \in Job, u \in Unit : base[j].src[u] <= src[u]

(* A run whose pull is still the newest commit has lost no race.           *)
PulledIsNewest ==
    \A j \in Job : pc[j] = "pulled" /\ head[j] = tip => ~Refused(j)

IInv == TypeOK /\ Snapshots /\ PulledIsNewest

LEMMA InitIInv == Init => IInv
<1> SUFFICES ASSUME Init PROVE IInv
  OBVIOUS
<1> USE DEF Init
<1>1. TypeOK
  BY ConstantsOK DEF TypeOK, Location, Commits
<1>2. Snapshots
  BY DEF Snapshots
<1>3. PulledIsNewest
  BY DEF PulledIsNewest
<1> QED BY <1>1, <1>2, <1>3 DEF IInv

(* Steps that leave the files of master and the snapshots alone.           *)
LEMMA QuietStep ==
    ASSUME IInv, TypeOK', UNCHANGED <<src, art, base, tip>>,
           \A j \in Job : pc[j] = "building" \/ built'[j] = built[j],
           \A j \in Job : head'[j] = head[j] \/ (head'[j] = tip /\ ~Refused(j)),
           \A j \in Job : pc'[j] = "pulled" =>
               pc[j] # "building" /\ ((pc[j] = "pulled" /\ head'[j] = head[j]) \/ ~Refused(j))
    PROVE  IInv'
<1>1. Snapshots'
  BY DEF IInv, Snapshots, TypeOK
<1>2. \A j \in Job : Incoming(j)' = Incoming(j)
  BY DEF Incoming
<1>3. PulledIsNewest'
  BY <1>2 DEF IInv, PulledIsNewest, Refused, TypeOK
<1> QED BY <1>1, <1>3 DEF IInv

(* An event queues a run that was not used yet. *)
LEMMA TriggerQueues ==
    ASSUME TypeOK, Trigger
    PROVE  /\ \E k \in Job : pc[k] = "none" /\ pc' = [pc EXCEPT ![k] = "queued"]
           /\ pc' \in [Job -> Location]
           /\ \A j \in Job : pc'[j] = "pulled" => pc[j] = "pulled"
<1> DEFINE k == CHOOSE j \in Unused : TRUE
<1>1. k \in Job /\ pc[k] = "none"
  BY DEF Trigger, Unused
<1>2. pc' = [pc EXCEPT ![k] = "queued"]
  BY DEF Trigger
<1> HIDE DEF k
<1> QED BY <1>1, <1>2 DEF TypeOK, Location

LEMMA PushStep ==
    ASSUME IInv, NEW U \in SUBSET Unit, Push(U) PROVE IInv'
<1> USE DEF IInv
<1>1. TypeOK'
  BY ConstantsOK, TriggerQueues DEF Push, TypeOK, Commits
<1>2. Snapshots'
  BY DEF Push, Snapshots, TypeOK, Commits
<1>3. PulledIsNewest'
  BY DEF Push, Snapshots, TypeOK, PulledIsNewest
<1> QED BY <1>1, <1>2, <1>3

LEMMA PushIgnoredStep == ASSUME IInv, PushIgnored PROVE IInv'
<1> USE DEF IInv
<1>1. TypeOK'
  BY ConstantsOK DEF PushIgnored, TypeOK
<1>2. Snapshots'
  BY DEF PushIgnored, Snapshots, TypeOK, Commits
<1>3. PulledIsNewest'
  BY DEF PushIgnored, Snapshots, TypeOK, PulledIsNewest
<1> QED BY <1>1, <1>2, <1>3

LEMMA DispatchStep == ASSUME IInv, Dispatch PROVE IInv'
<1>1. TypeOK'
  BY ConstantsOK, TriggerQueues DEF IInv, Dispatch, TypeOK, master
<1>2. \A j \in Job : pc'[j] = "pulled" => pc[j] = "pulled"
  BY TriggerQueues DEF IInv, Dispatch
<1>3. UNCHANGED <<src, art, base, tip>> /\ head' = head /\ built' = built
  BY DEF Dispatch, master
<1> QED BY <1>1, <1>2, <1>3, QuietStep

LEMMA CheckoutStep == ASSUME IInv, NEW j \in Job, Checkout(j) PROVE IInv'
<1> USE DEF IInv
<1>1. TypeOK'
  BY DEF Checkout, master, TypeOK, Location
<1>2. Snapshots'
  BY DEF Checkout, master, Snapshots, TypeOK, Commits
<1>3. ASSUME NEW k \in Job, pc'[k] = "pulled"
      PROVE  /\ k # j /\ pc[k] = "pulled" /\ head'[k] = head[k]
             /\ built'[k] = built[k] /\ Incoming(k)' = Incoming(k)
  BY <1>3 DEF Checkout, master, TypeOK, Incoming
<1>4. PulledIsNewest'
  BY <1>3 DEF PulledIsNewest, Refused, Checkout, master
<1> QED BY <1>1, <1>2, <1>4

(* What a run that fails records is of the type of lost. *)
LEMMA FailedType ==
    ASSUME TypeOK, NEW j \in Job, NEW S \in SUBSET Unit, Failed(j, S)
    PROVE  /\ pc' \in [Job -> Location]
           /\ lost' \subseteq Unit \X Nat
           /\ \A k \in Job : pc'[k] = "pulled" => pc[k] = "pulled"
BY DEF TypeOK, Failed, Of, Location, Commits

LEMMA MakeBuildStep == ASSUME IInv, NEW j \in Job, MakeBuild(j) PROVE IInv'
<1>1. TypeOK' /\ (\A k \in Job : pc'[k] = "pulled" => pc[k] = "pulled")
      /\ (\A k \in Job : pc[k] = "building" \/ built'[k] = built[k])
  <2>1. ASSUME NEW kept \in SUBSET (Dirty(j) \cap TypeScript),
               built' = [built EXCEPT ![j] = Dirty(j) \ kept],
               skipped' = skipped \cup Of(j, kept),
               pc' = [pc EXCEPT ![j] = "built"], UNCHANGED lost
        PROVE  /\ TypeOK'
               /\ \A k \in Job : pc'[k] = "pulled" => pc[k] = "pulled"
               /\ \A k \in Job : pc[k] = "building" \/ built'[k] = built[k]
    <3>1. Dirty(j) \ kept \in SUBSET Unit
      BY DEF Dirty
    <3>2. Of(j, kept) \subseteq TypeScript \X Nat
      BY ConstantsOK DEF Of, IInv, TypeOK, Commits
    <3> QED BY <2>1, <3>1, <3>2 DEF IInv, TypeOK, MakeBuild, master, Location
  <2>2. CASE Failed(j, Dirty(j)) /\ UNCHANGED <<built, skipped>>
    <3>1. Dirty(j) \in SUBSET Unit
      BY DEF Dirty
    <3> QED BY <2>2, <3>1, FailedType DEF IInv, TypeOK, MakeBuild, master
  <2> QED BY <2>1, <2>2 DEF MakeBuild
<1> QED BY <1>1, QuietStep DEF MakeBuild, master

LEMMA PullStep == ASSUME IInv, NEW j \in Job, Pull(j) PROVE IInv'
<1>1. CASE Refused(j)
  <2>1. TypeOK' /\ \A k \in Job : pc'[k] = "pulled" => pc[k] = "pulled"
    BY <1>1, FailedType DEF IInv, TypeOK, Pull, master
  <2> QED BY <1>1, <2>1, QuietStep DEF Pull, master
<1>2. CASE ~Refused(j)
  <2>1. /\ pc' = [pc EXCEPT ![j] = "pulled"]
        /\ head' = [head EXCEPT ![j] = tip]
        /\ UNCHANGED <<tip, src, art, base, built, pushes, lost, skipped>>
        /\ pc[j] = "built"
    BY <1>2 DEF Pull, master
  <2>2. TypeOK'
    BY <2>1 DEF IInv, TypeOK, Location
  <2>3. \A k \in Job : head'[k] = head[k] \/ (head'[k] = tip /\ ~Refused(k))
    BY <1>2, <2>1 DEF IInv, TypeOK
  <2>4. \A k \in Job : pc'[k] = "pulled" =>
            pc[k] # "building" /\ ((pc[k] = "pulled" /\ head'[k] = head[k]) \/ ~Refused(k))
    BY <1>2, <2>1 DEF IInv, TypeOK
  <2> QED BY <2>1, <2>2, <2>3, <2>4, QuietStep
<1> QED BY <1>1, <1>2

(* The heart of it: what is pushed is at least as new as what it replaces. *)
LEMMA PushedIsNewer ==
    ASSUME IInv, NEW j \in Job, pc[j] = "pulled", ~Rejected(j), NEW u \in Unit
    PROVE  Generated(j)[u] \in Nat /\ Generated(j)[u] >= art[u] /\ Generated(j)[u] <= src[u]
<1>1. ~Refused(j)
  BY DEF IInv, PulledIsNewest, Rejected
<1>2. CASE u \in built[j]
  <2>1. art[u] = base[j].art[u]
    BY <1>1, <1>2 DEF Refused, Incoming
  <2> QED BY <1>2, <2>1 DEF Generated, IInv, Snapshots, TypeOK, Commits
<1>3. CASE u \notin built[j]
  BY <1>3 DEF Generated, IInv, Snapshots, TypeOK, Commits
<1> QED BY <1>2, <1>3

LEMMA CommitStep == ASSUME IInv, NEW j \in Job, CommitAndPush(j) PROVE IInv'
<1> USE DEF CommitAndPush
<1>1. CASE built[j] = {}
  <2>1. TypeOK' /\ \A k \in Job : pc'[k] = "pulled" => pc[k] = "pulled"
    BY <1>1 DEF IInv, TypeOK, Location
  <2> QED BY <1>1, <2>1, QuietStep
<1>2. CASE built[j] # {} /\ Rejected(j)
  <2>1. TypeOK' /\ \A k \in Job : pc'[k] = "pulled" => pc[k] = "pulled"
    BY <1>2, FailedType DEF IInv, TypeOK
  <2> QED BY <1>2, <2>1, QuietStep
<1>3. CASE built[j] # {} /\ ~Rejected(j)
  <2>1. /\ art' = Generated(j) /\ tip' = tip + 1
        /\ pc' = [pc EXCEPT ![j] = "succeeded"]
        /\ UNCHANGED <<src, base, built, head, pushes, lost, skipped>>
    BY <1>3
  <2>2. \A u \in Unit : /\ art'[u] \in Nat
                        /\ art'[u] <= src[u]
    BY <1>3, <2>1, PushedIsNewer
  <2>3. art' \in Commits
    BY <2>1, <2>2 DEF Generated, Commits
  <2>4. TypeOK'
    BY <2>1, <2>3 DEF IInv, TypeOK, Location
  <2>5. Snapshots'
    BY <2>1, <2>2 DEF IInv, Snapshots, TypeOK, Commits
  <2>6. PulledIsNewest'
    BY <2>1 DEF IInv, Snapshots, TypeOK, PulledIsNewest
  <2> QED BY <2>4, <2>5, <2>6 DEF IInv
<1> QED BY <1>1, <1>2, <1>3

LEMMA NextIInv == IInv /\ [Next]_vars => IInv'
<1> SUFFICES ASSUME IInv, [Next]_vars PROVE IInv'
  OBVIOUS
<1>1. CASE UNCHANGED vars
  BY <1>1 DEF IInv, vars, TypeOK, Snapshots, PulledIsNewest, Refused, Incoming
<1> QED BY <1>1, PushStep, PushIgnoredStep, DispatchStep, CheckoutStep, MakeBuildStep, PullStep,
           CommitStep DEF Next, Run

LEMMA NextKeeps == IInv /\ [Next]_vars => (\A u \in Unit : art'[u] >= art[u])
<1> SUFFICES ASSUME IInv, [Next]_vars, NEW u \in Unit PROVE art'[u] >= art[u]
  OBVIOUS
<1>1. CASE UNCHANGED art
  BY <1>1 DEF IInv, TypeOK, Commits
<1>2. CASE \E j \in Job : CommitAndPush(j)
  BY <1>1, <1>2, PushedIsNewer DEF CommitAndPush
<1> QED BY <1>1, <1>2 DEF Next, Push, PushIgnored, Dispatch, Run, Checkout, MakeBuild, Pull,
                          master, vars

(* Every variable keeps its type. *)
THEOREM TypeCorrect == Spec => []TypeOK
<1>1. IInv => TypeOK
  BY DEF IInv
<1> QED BY <1>1, InitIInv, NextIInv, PTL DEF Spec

(* No overlap of runs makes the workflow replace generated files on master *)
(* by ones that were generated from older schemas.                         *)
THEOREM NeverRegress == Spec => ArtifactsNeverRegress
<1>1. IInv /\ [Next]_vars => [\A u \in Unit : art'[u] >= art[u]]_vars
  BY NextKeeps
<1> QED BY <1>1, InitIInv, NextIInv, PTL DEF Spec, ArtifactsNeverRegress

-----------------------------------------------------------------------------
(* How far the workflow keeps up *)

(* Job j will generate u from its present schemas, or has.                 *)
Pending(j, u) ==
    \/ pc[j] = "queued"
    \/ pc[j] = "building" /\ base[j].src[u] = src[u] /\ u \in Dirty(j)
    \/ pc[j] \in {"built", "pulled"} /\ base[j].src[u] = src[u] /\ u \in built[j]

Awaited == \A u \in Unit : Settled(u) \/ \E j \in Job : Pending(j, u)

(* Files that are those of the schemas stay so until these change. *)
LEMMA SettledStays ==
    ASSUME IInv, IInv', NEW u \in Unit, Settled(u), src'[u] = src[u],
           art'[u] >= art[u], lost \subseteq lost', skipped \subseteq skipped'
    PROVE  Settled(u)'
<1>1. CASE art[u] = src[u]
  <2>1. art'[u] <= src'[u]
    BY DEF IInv, Snapshots
  <2>2. art'[u] \in Nat /\ src'[u] \in Nat
    BY DEF IInv, TypeOK, Commits
  <2>3. art'[u] = src'[u]
    BY <1>1, <2>1, <2>2
  <2> QED BY <2>3 DEF Settled
<1>2. CASE <<u, src[u]>> \in lost \cup skipped
  BY <1>2 DEF Settled
<1> QED BY <1>1, <1>2 DEF Settled

(* A step that changes no schemas and moves one job leaves what the other  *)
(* jobs are about to do.                                                   *)
LEMMA OthersPending ==
    ASSUME IInv, NEW j \in Job, NEW k \in Job, k # j, NEW u \in Unit, Pending(k, u),
           src' = src, pc'[k] = pc[k], base'[k] = base[k], built'[k] = built[k]
    PROVE  Pending(k, u)'
BY DEF Pending, Dirty

(* What a failed job was about to generate is recorded. *)
LEMMA FailedSettles ==
    ASSUME NEW j \in Job, NEW S, NEW u \in S, Failed(j, S), src' = src,
           base[j].src[u] = src[u]
    PROVE  Settled(u)'
BY DEF Failed, Of, Settled

LEMMA EventAwaited ==
    ASSUME IInv, Trigger
    PROVE  Awaited'
<1>1. PICK k \in Job : pc' = [pc EXCEPT ![k] = "queued"]
  BY TriggerQueues DEF IInv
<1> QED BY <1>1 DEF Awaited, Pending, IInv, TypeOK

LEMMA RunAwaited ==
    ASSUME IInv, IInv', Awaited, NEW j \in Job, Run(j)
    PROVE  Awaited'
<1> SUFFICES ASSUME NEW u \in Unit
             PROVE  Settled(u)' \/ \E k \in Job : Pending(k, u)'
  BY DEF Awaited
<1>1. /\ src' = src /\ lost \subseteq lost' /\ skipped \subseteq skipped' /\ art'[u] >= art[u]
      /\ \A k \in Job \ {j} : pc'[k] = pc[k] /\ base'[k] = base[k] /\ built'[k] = built[k]
  <2>1. src' = src
    BY DEF Run, Checkout, MakeBuild, Pull, CommitAndPush, master
  <2>2. lost \subseteq lost' /\ skipped \subseteq skipped'
    BY DEF Run, Checkout, MakeBuild, Pull, CommitAndPush, Failed
  <2>3. art'[u] >= art[u]
    BY NextKeeps DEF Next
  <2>4. \A k \in Job \ {j} : pc'[k] = pc[k] /\ base'[k] = base[k] /\ built'[k] = built[k]
    BY DEF IInv, TypeOK, Run, Checkout, MakeBuild, Pull, CommitAndPush, Failed
  <2> QED BY <2>1, <2>2, <2>3, <2>4
<1>2. CASE Settled(u)
  BY <1>1, <1>2, SettledStays
<1>3. ASSUME NEW k \in Job, k # j, Pending(k, u)
      PROVE  Pending(k, u)'
  BY <1>1, <1>3, OthersPending
<1>4. ASSUME ~Settled(u), Pending(j, u)
      PROVE  Settled(u)' \/ Pending(j, u)'
  <2>1. CASE Checkout(j)
    <3>1. pc'[j] = "building" /\ base'[j] = [src |-> src, art |-> art] /\ src' = src
      BY <2>1 DEF Checkout, IInv, TypeOK, master
    <3>2. art[u] # src[u]
      BY <1>4 DEF Settled
    <3> QED BY <3>1, <3>2 DEF Pending, Dirty
  <2>2. CASE MakeBuild(j)
    <3>1. pc[j] = "building" /\ base[j].src[u] = src[u] /\ u \in Dirty(j) /\ base' = base
      BY <1>4, <2>2 DEF Pending, MakeBuild
    <3>2. CASE Failed(j, Dirty(j))
      BY <1>1, <3>1, <3>2, FailedSettles
    <3>3. ASSUME NEW kept \in SUBSET (Dirty(j) \cap TypeScript),
                 built' = [built EXCEPT ![j] = Dirty(j) \ kept],
                 skipped' = skipped \cup Of(j, kept),
                 pc' = [pc EXCEPT ![j] = "built"]
          PROVE  Settled(u)' \/ Pending(j, u)'
      <4>1. CASE u \in kept
        BY <1>1, <3>1, <3>3, <4>1 DEF Of, Settled
      <4>2. CASE u \notin kept
        BY <1>1, <3>1, <3>3, <4>2 DEF Pending, IInv, TypeOK
      <4> QED BY <4>1, <4>2
    <3> QED BY <2>2, <3>2, <3>3 DEF MakeBuild
  <2>3. CASE Pull(j) \/ CommitAndPush(j)
    <3>1. /\ pc[j] \in {"built", "pulled"}
          /\ base[j].src[u] = src[u] /\ u \in built[j] /\ base' = base /\ built' = built
      BY <1>4, <2>3 DEF Pending, Pull, CommitAndPush
    <3>2. CASE Failed(j, built[j])
      BY <1>1, <3>1, <3>2, FailedSettles
    <3>3. CASE ~Failed(j, built[j]) /\ CommitAndPush(j)
      <4>1. art' = Generated(j)
        BY <3>1, <3>3 DEF CommitAndPush
      <4>2. art'[u] = src'[u]
        BY <1>1, <3>1, <4>1 DEF Generated
      <4> QED BY <4>2 DEF Settled
    <3>4. CASE ~Failed(j, built[j]) /\ Pull(j)
      <4>1. pc'[j] = "pulled"
        BY <3>4 DEF Pull, IInv, TypeOK
      <4> QED BY <1>1, <3>1, <4>1 DEF Pending
    <3> QED BY <2>3, <3>2, <3>3, <3>4
  <2> QED BY <2>1, <2>2, <2>3 DEF Run
<1> QED BY <1>2, <1>3, <1>4 DEF Awaited

LEMMA NextAwaited ==
    ASSUME IInv, IInv', Awaited, [Next]_vars
    PROVE  Awaited'
<1>1. ASSUME NEW U \in SUBSET Unit, Push(U) PROVE Awaited'
  BY <1>1, EventAwaited DEF Push
<1>2. CASE Dispatch
  BY <1>2, EventAwaited DEF Dispatch
<1>3. ASSUME UNCHANGED <<src, art, pc, base, built, lost, skipped>> PROVE Awaited'
  BY <1>3 DEF Awaited, Settled, Pending, Dirty
<1>4. CASE PushIgnored \/ UNCHANGED vars
  BY <1>3, <1>4 DEF PushIgnored, vars
<1>5. ASSUME NEW j \in Job, Run(j) PROVE Awaited'
  BY <1>5, RunAwaited
<1> QED BY <1>1, <1>2, <1>4, <1>5 DEF Next

(* When no run is under way, a file that is not that of its schemas was    *)
(* left by a run that failed with them, or that succeeded and warned of it,*)
(* however many runs and pushes there were.                                *)
THEOREM LeftBehindOnlyIfReported == Spec => []StaleOnlyIfReported
<1>1. Init => Awaited
  BY DEF Init, Awaited, Settled
<1>2. Awaited => StaleOnlyIfReported
  BY DEF Awaited, Pending, StaleOnlyIfReported, Quiet
<1>3. IInv /\ Awaited /\ [Next]_vars => IInv' /\ Awaited'
  BY NextIInv, NextAwaited
<1> QED BY <1>1, <1>2, <1>3, InitIInv, PTL DEF Spec
=============================================================================
