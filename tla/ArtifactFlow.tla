---------------------------- MODULE ArtifactFlow ----------------------------
(***************************************************************************)
(* How the generated files on master follow the schemas:                   *)
(* .github/workflows/generate-artifacts-from-schemas.yml.                  *)
(*                                                                         *)
(* A push starts a job that checks master out, builds, pulls and pushes    *)
(* what the build changed.  Nothing keeps two jobs from running at once    *)
(* (the workflow has no concurrency group); what orders them is git: a pull*)
(* refuses to overwrite files that the build has changed, a push is        *)
(* rejected when master has moved.  A job that is refused fails, and its   *)
(* own push to master, made with the workflow's token, starts no job.      *)
(*                                                                         *)
(* A definition whose name holds "__" is a faulty variant of the one it    *)
(* precedes.                                                               *)
(***************************************************************************)
EXTENDS Naturals

CONSTANTS
    Unit,       \* generated files; a schema change touches any set of them
    TypeScript, \* those whose generator only warns when it fails
    Job,        \* runs of the workflow
    BuildFails, \* TRUE: make build may fail
    MaxPushes   \* bound on what people and the release flow do

ASSUME ConstantsOK ==
    TypeScript \subseteq Unit /\ BuildFails \in BOOLEAN /\ MaxPushes \in Nat

VARIABLES
    tip,        \* how many commits master has
    src,        \* for each unit, the commit that last changed its schemas
    art,        \* for each unit, the commit of the schemas its files were generated from
    pc,         \* where each run of the workflow is
    base,       \* what a run has checked out
    built,      \* what its build has changed, and not committed yet
    head,       \* the commit it has pulled up to
    pushes,
    lost,       \* history: what runs that failed would have generated
    skipped     \* history: what the build of a run left with a warning

master == <<tip, src, art>>
vars   == <<tip, src, art, pc, base, built, head, pushes, lost, skipped>>

Location == {"none", "queued", "building", "built", "pulled", "succeeded", "failed"}
Commits  == [Unit -> Nat]

TypeOK ==
    /\ tip \in Nat
    /\ src \in Commits /\ art \in Commits
    /\ pc \in [Job -> Location]
    /\ base \in [Job -> [src : Commits, art : Commits]]
    /\ built \in [Job -> SUBSET Unit]
    /\ head \in [Job -> Nat]
    /\ pushes \in 0..MaxPushes
    /\ lost \subseteq Unit \X Nat /\ skipped \subseteq TypeScript \X Nat

(* The files that the build of job j would change. *)
Dirty(j) == {u \in Unit : base[j].art[u] # base[j].src[u]}

(* The files that master has changed since j checked it out. *)
Incoming(j) == {u \in Unit : art[u] # base[j].art[u]}

Refused__Never(j) == FALSE
(* git pull: "Your local changes would be overwritten by merge". *)
Refused(j) == built[j] \cap Incoming(j) # {}

Rejected__Forced(j) == FALSE
(* git push: not a fast-forward. *)
Rejected(j) == head[j] # tip

-----------------------------------------------------------------------------

Init ==
    /\ tip = 0
    /\ src = [u \in Unit |-> 0]
    /\ art = [u \in Unit |-> 0]
    /\ pc = [j \in Job |-> "none"]
    /\ base = [j \in Job |-> [src |-> src, art |-> art]]
    /\ head = [j \in Job |-> 0]
    /\ pushes = 0
    /\ built = [j \in Job |-> {}]
    /\ lost = {} /\ skipped = {}

Unused == {j \in Job : pc[j] = "none"}

Trigger__Lost == UNCHANGED pc
(* A run for an event; runs start in any order. *)
Trigger == Unused # {} /\ pc' = [pc EXCEPT ![CHOOSE j \in Unused : TRUE] = "queued"]

(* People push commits that change the schemas of some units; the release  *)
(* flow pushes package.json, which changes those of none and is not ignored.*)
Push(U) ==
    /\ pushes < MaxPushes
    /\ tip' = tip + 1
    /\ src' = [u \in Unit |-> IF u \in U THEN tip + 1 ELSE src[u]]
    /\ pushes' = pushes + 1
    /\ Trigger
    /\ UNCHANGED <<art, base, built, head, lost, skipped>>

(* workflow_dispatch. *)
Dispatch ==
    /\ pushes < MaxPushes
    /\ pushes' = pushes + 1
    /\ Trigger
    /\ UNCHANGED <<master, base, built, head, lost, skipped>>

(* The release flow's commit of schemas/base_*.yml is ignored. *)
PushIgnored ==
    /\ pushes < MaxPushes
    /\ tip' = tip + 1
    /\ pushes' = pushes + 1
    /\ UNCHANGED <<src, art, pc, base, built, head, lost, skipped>>

(* ref: master, the newest commit and not the one of the event. *)
Checkout(j) ==
    /\ pc[j] = "queued"
    /\ pc' = [pc EXCEPT ![j] = "building"]
    /\ base' = [base EXCEPT ![j] = [src |-> src, art |-> art]]
    /\ head' = [head EXCEPT ![j] = tip]
    /\ UNCHANGED <<master, built, pushes, lost, skipped>>

Of(j, files) == {<<u, base[j].src[u]>> : u \in files}

Failed(j, files) ==
    /\ pc' = [pc EXCEPT ![j] = "failed"]
    /\ lost' = lost \cup Of(j, files)

(* generate-typescript.js warns of a file it cannot generate, keeps the old*)
(* one and succeeds.                                                       *)
MakeBuild(j) ==
    /\ pc[j] = "building"
    /\ \/ \E kept \in SUBSET (Dirty(j) \cap TypeScript) :
            /\ built' = [built EXCEPT ![j] = Dirty(j) \ kept]
            /\ skipped' = skipped \cup Of(j, kept)
            /\ pc' = [pc EXCEPT ![j] = "built"]
            /\ UNCHANGED lost
       \/ BuildFails /\ Failed(j, Dirty(j)) /\ UNCHANGED <<built, skipped>>
    /\ UNCHANGED <<master, base, head, pushes>>

Pull(j) ==
    /\ pc[j] = "built"
    /\ IF Refused(j)
         THEN Failed(j, built[j]) /\ UNCHANGED head
         ELSE /\ pc' = [pc EXCEPT ![j] = "pulled"]
              /\ head' = [head EXCEPT ![j] = tip]
              /\ UNCHANGED lost
    /\ UNCHANGED <<master, base, built, pushes, skipped>>

Generated(j) == [u \in Unit |-> IF u \in built[j] THEN base[j].src[u] ELSE art[u]]

(* git-auto-commit-action: nothing to commit is a success. *)
CommitAndPush(j) ==
    /\ pc[j] = "pulled"
    /\ \/ /\ built[j] = {}
          /\ pc' = [pc EXCEPT ![j] = "succeeded"]
          /\ UNCHANGED <<tip, art, lost>>
       \/ /\ built[j] # {} /\ Rejected(j)
          /\ Failed(j, built[j])
          /\ UNCHANGED <<tip, art>>
       \/ /\ built[j] # {} /\ ~Rejected(j)
          /\ art' = Generated(j)
          /\ tip' = tip + 1
          /\ pc' = [pc EXCEPT ![j] = "succeeded"]
          /\ UNCHANGED lost
    /\ UNCHANGED <<src, base, built, head, pushes, skipped>>

Run(j) == Checkout(j) \/ MakeBuild(j) \/ Pull(j) \/ CommitAndPush(j)

Next ==
    \/ \E U \in SUBSET Unit : Push(U)
    \/ PushIgnored
    \/ Dispatch
    \/ \E j \in Job : Run(j)

Spec == Init /\ [][Next]_vars

(* The service runs every job, and a step of a job ends: it is stopped     *)
(* after six hours at the latest.                                          *)
FairSpec == Spec /\ \A j \in Job : WF_vars(Run(j))

-----------------------------------------------------------------------------

(* Generated files on master are never replaced by ones of older schemas,  *)
(* however the runs of the workflow overlap.                               *)
ArtifactsNeverRegress == [][\A u \in Unit : art'[u] >= art[u]]_vars

Quiet == \A j \in Job : pc[j] \in {"none", "succeeded", "failed"}

(* They are those of its schemas, or a run that was to generate exactly    *)
(* these failed, or succeeded and warned that it had not.                  *)
Settled(u) == art[u] = src[u] \/ <<u, src[u]>> \in lost \cup skipped

(* When no run is under way, every stale file on master is accounted for:  *)
(* a run that had the present schemas has failed, or has warned of this    *)
(* file, a TypeScript one.                                                 *)
StaleOnlyIfReported == Quiet => \A u \in Unit : Settled(u)

(* Once people stop changing a file's schemas the file catches up with     *)
(* them, or a run that had them fails or warns of it: no change is left    *)
(* without a run, however the runs refuse each other's files.              *)
EventuallySettled == \A u \in Unit : art[u] # src[u] ~> Settled(u)
=============================================================================
