---------------------------- MODULE BuildProofs ----------------------------
(***************************************************************************)
(* The build for any packages, schemas, failures and edits: its variables  *)
(* keep their types, the specifications it writes are whole, it implements *)
(* BuildSpec, and one that succeeds leaves current files.  That TLC's      *)
(* bounds on edits and builds do not matter follows from MaxEdits and      *)
(* MaxBuilds being any numbers.  The walk by which a build prunes the      *)
(* components of a client's specification is exact, for every document.    *)
(***************************************************************************)
EXTENDS Build, PruneComponents, FiniteSetTheorems, WellFoundedInduction, TLAPS

-----------------------------------------------------------------------------
(* How far runCommand is *)

JobType == [cmd : Command \ {"all"}, pc : {"start", "packages"} \cup Client,
            found : SUBSET Package, left : SUBSET Package]

(* The calls to come and the parts completed, at every point of a build. *)
Stage ==
    \/ todo = <<target>> /\ completed = {}
    \/ todo = <<>> /\ completed = Promise!Needed(target)
    \/ /\ target # "all"
       /\ \/ todo = <<"bundle", target>> /\ completed = {} /\ DependsOn(target) = {"bundle"}
          \/ todo = <<target>> /\ completed = DependsOn(target)
    \/ /\ target = "all"
       /\ \/ todo = Pipeline /\ completed = {}
          \/ /\ todo = <<"bundle", "golang", "rtk", "types">>
             /\ completed = {"validate"}
          \/ /\ todo = <<"golang", "rtk", "types">>
             /\ completed = {"validate", "bundle"}
          \/ /\ todo = <<"rtk", "types">>
             /\ completed = {"validate", "bundle", "golang"}
          \/ /\ todo = <<"types">>
             /\ completed = {"validate", "bundle", "golang", "rtk"}

JobFits ==
    /\ status = "running" /\ todo # <<>>
    /\ job \in JobType /\ job.cmd = Head(todo) /\ Ready(job.cmd)

Control ==
    /\ target \in Command
    /\ status \in {"none", "running", "ok", "failed"}
    /\ job = NoJob \/ JobFits
    /\ IF status = "running" THEN Stage ELSE todo = <<>>
    /\ completed \subseteq Command \ {"all"}

LEMMA NoJobIsNone == NoJob \notin JobType /\ NoJob.cmd = "none" /\ \A j \in JobType : j.cmd # "none"
BY DEF NoJob, JobType, Command

PromiseNext == [Promise!Next]_<<target, completed, status>>

(* A script's step ends it well, ends it badly, or goes on with it. *)
LEMMA ExitControl ==
    ASSUME Control, JobFits, Exit
    PROVE  Control' /\ PromiseNext
<1> USE DEF Command
<1> DEFINE c == job.cmd
<1>1. status' = "running" /\ target' = target /\ job' = NoJob /\ todo' = Tail(todo)
      /\ completed' = completed \cup {c} /\ c \in Command \ {"all"}
  BY DEF Exit, JobFits, JobType
<1>2. Stage /\ c = Head(todo) /\ c \notin completed /\ DependsOn(c) \subseteq completed
      /\ target \in Command
  BY DEF Control, JobFits, Ready
<1>3. CASE target # "all"
  <2>1. \/ todo = <<target>> /\ completed \subseteq DependsOn(target) /\ c = target
        \/ todo = <<"bundle", target>> /\ completed = {} /\ DependsOn(target) = {"bundle"} /\ c = "bundle"
    BY <1>2, <1>3 DEF Stage, JobFits, DependsOn
  <2>2. CASE todo = <<target>> /\ completed \subseteq DependsOn(target) /\ c = target
    <3>1. todo' = <<>> /\ completed' = Promise!Needed(target')
      <4>1. todo' = <<>>
        BY <1>1, <2>2
      <4>2. completed' = DependsOn(target) \cup {target}
        BY <1>1, <1>2, <2>2
      <4>3. Promise!Needed(target) = {target} \cup DependsOn(target)
        BY <1>3 DEF Promise!Needed, Promise!Requires, DependsOn
      <4> QED BY <1>1, <4>1, <4>2, <4>3
    <3>2. Promise!Run(c)
      BY <1>1, <1>2, <1>3, <2>2 DEF Promise!Run, Promise!Needed, Promise!Requires, DependsOn, JobFits
    <3>3. Promise!Next
      BY <3>2, <1>1 DEF Promise!Next, Promise!Script, Promise!Target
    <3> QED BY <3>1, <3>3, <1>1, <1>2 DEF Control, Stage, PromiseNext
  <2>3. CASE todo = <<"bundle", target>> /\ completed = {} /\ DependsOn(target) = {"bundle"} /\ c = "bundle"
    <3>1. todo' = <<target'>> /\ completed' = DependsOn(target')
      BY <1>1, <2>3
    <3>2. Promise!Run(c)
      BY <1>1, <1>2, <1>3, <2>3 DEF Promise!Run, Promise!Needed, Promise!Requires, DependsOn, JobFits
    <3>3. Promise!Next
      BY <3>2, <1>1 DEF Promise!Next, Promise!Script, Promise!Target
    <3> QED BY <3>1, <3>3, <1>1, <1>2, <1>3 DEF Control, Stage, PromiseNext
  <2> QED BY <2>1, <2>2, <2>3
<1>4. CASE target = "all"
  <2>1. \/ todo = Pipeline /\ completed = {}
        \/ todo = <<"bundle", "golang", "rtk", "types">> /\ completed = {"validate"}
        \/ todo = <<"golang", "rtk", "types">> /\ completed = {"validate", "bundle"}
        \/ todo = <<"rtk", "types">> /\ completed = {"validate", "bundle", "golang"}
        \/ todo = <<"types">> /\ completed = {"validate", "bundle", "golang", "rtk"}
    BY <1>1, <1>2, <1>4 DEF Stage, JobFits
  <2>2. Stage'
    <3> USE <1>1, <1>2, <1>4 DEF Stage
    <3>1. CASE todo = Pipeline /\ completed = {}
      <4>1. todo' = <<"bundle", "golang", "rtk", "types">> /\ c = "validate"
        BY <3>1 DEF Pipeline
      <4> QED BY <3>1, <4>1
    <3>2. CASE todo = <<"bundle", "golang", "rtk", "types">> /\ completed = {"validate"}
      <4>1. todo' = <<"golang", "rtk", "types">> /\ c = "bundle"
        BY <3>2
      <4> QED BY <3>2, <4>1
    <3>3. CASE todo = <<"golang", "rtk", "types">> /\ completed = {"validate", "bundle"}
      <4>1. todo' = <<"rtk", "types">> /\ c = "golang"
        BY <3>3
      <4> QED BY <3>3, <4>1
    <3>4. CASE todo = <<"rtk", "types">> /\ completed = {"validate", "bundle", "golang"}
      <4>1. todo' = <<"types">> /\ c = "rtk"
        BY <3>4
      <4> QED BY <3>4, <4>1
    <3>5. CASE todo = <<"types">> /\ completed = {"validate", "bundle", "golang", "rtk"}
      <4>1. todo' = <<>> /\ c = "types"
        BY <3>5
      <4>2. completed' = Promise!Needed(target')
        BY <3>5, <4>1 DEF Promise!Needed, Promise!Script, Promise!Target
      <4> QED BY <4>1, <4>2
    <3> QED BY <2>1, <3>1, <3>2, <3>3, <3>4, <3>5
  <2>3. Promise!Run(c)
    BY <2>1, <1>1, <1>2, <1>4 DEF Promise!Run, Promise!Needed, Promise!Requires,
       Promise!Script, Promise!Target, DependsOn, JobFits, Pipeline
  <2>4. Promise!Next
    BY <2>3, <1>1 DEF Promise!Next, Promise!Script, Promise!Target
  <2> QED BY <2>2, <2>4, <1>1, <1>2 DEF Control, PromiseNext
<1> QED BY <1>3, <1>4

LEMMA AbortControl ==
    ASSUME Control, status = "running", Abort
    PROVE  Control' /\ PromiseNext
BY DEF Control, Abort, PromiseNext, Promise!Next, Promise!Fail

LEMMA MoveControl ==
    ASSUME Control, JobFits, KeepBuild, job' \in JobType, job'.cmd = job.cmd
    PROVE  Control' /\ PromiseNext
BY DEF Control, JobFits, KeepBuild, PromiseNext, Stage, Ready, DependsOn

ScriptMove ==
    \/ Exit
    \/ Abort
    \/ KeepBuild /\ job' \in JobType /\ job'.cmd = job.cmd

LEMMA ScriptControl ==
    ASSUME Control, JobFits, ScriptMove
    PROVE  Control' /\ PromiseNext
BY ExitControl, AbortControl, MoveControl DEF ScriptMove, JobFits

(* The moves a script makes. *)
LEMMA GoToMove ==
    ASSUME JobFits, NEW at \in {"start", "packages"} \cup Client, GoTo(at), KeepBuild
    PROVE  ScriptMove
BY DEF JobFits, GoTo, ScriptMove, JobType

LEMMA LeftMove ==
    ASSUME JobFits, NEW p, job' = [job EXCEPT !.left = Left(p)], KeepBuild
    PROVE  ScriptMove
BY DEF JobFits, Left, ScriptMove, JobType

LEMMA ClientMove ==
    ASSUME JobFits, NEW c, AfterClient(c)
    PROVE  ScriptMove
BY GoToMove DEF AfterClient, ScriptMove, Client

ScriptStep ==
    \/ Validate \/ Begin \/ PackagesDone
    \/ BundleSchema \/ MergeSchemas
    \/ \E c \in Client : FilterByTag(c) \/ GenerateRtk(c)
    \/ GenerateGo \/ GenerateTypes
    \/ ToolFails

LEMMA ScriptStepMoves ==
    ASSUME Control, ScriptStep
    PROVE  JobFits /\ ScriptMove
<1>1. job.cmd \in {"validate", "bundle", "golang", "rtk", "types"}
  BY DEF ScriptStep, Validate, Begin, PackagesDone, BundleSchema, MergeSchemas, FilterByTag,
         GenerateRtk, GenerateGo, GenerateTypes, ToolFails, At
<1>2. JobFits
  BY <1>1, NoJobIsNone DEF Control
<1>3. CASE Validate \/ ToolFails \/ PackagesDone
  BY <1>2, <1>3 DEF Validate, ToolFails, PackagesDone, ScriptMove
<1>4. CASE Begin
  BY <1>2, <1>4, GoToMove DEF Begin, ScriptMove, Client
<1>5. CASE BundleSchema
  BY <1>2, <1>5, LeftMove DEF BundleSchema, ScriptMove
<1>6. CASE MergeSchemas
  BY <1>2, <1>6, GoToMove DEF MergeSchemas, ScriptMove, Client
<1>7. ASSUME NEW c \in Client, FilterByTag(c) PROVE ScriptMove
  BY <1>2, <1>7, ClientMove DEF FilterByTag, ScriptMove
<1>8. ASSUME NEW c \in Client, GenerateRtk(c) PROVE ScriptMove
  BY <1>2, <1>8, ClientMove DEF GenerateRtk, ScriptMove
<1>9. CASE GenerateGo
  BY <1>2, <1>9, LeftMove DEF GenerateGo, ScriptMove
<1>10. CASE GenerateTypes
  BY <1>2, <1>10, LeftMove DEF GenerateTypes
<1> QED BY <1>2, <1>3, <1>4, <1>5, <1>6, <1>7, <1>8, <1>9, <1>10 DEF ScriptStep

LEMMA InitControl == Init => Control /\ Promise!Init
BY DEF Init, Control, Promise!Init, Command

LEMMA NextControl ==
    ASSUME Control, [Next]_vars
    PROVE  Control' /\ PromiseNext
<1> USE DEF Command
<1>1. CASE Resolve
  <2>1. UNCHANGED <<target, completed, status, job>> /\ job = NoJob /\ status = "running"
    BY <1>1 DEF Resolve
  <2>2. target \in Command /\ Stage /\ todo # <<>> /\ ~Ready(Head(todo))
    BY <1>1 DEF Resolve, Control
  <2>3. \/ target = "all" /\ todo = <<"all">> /\ completed = {}
        \/ target # "all" /\ DependsOn(target) = {"bundle"} /\ todo = <<target>> /\ completed = {}
    BY <2>2 DEF Stage, Ready, DependsOn, Pipeline
  <2>4. todo' = Calls(Head(todo)) \o Tail(todo)
    BY <1>1 DEF Resolve
  <2>5. Stage'
    <3>1. CASE target = "all" /\ todo = <<"all">> /\ completed = {}
      <4>1. Calls("all") = Pipeline
        BY <3>1 DEF Calls
      <4>2. todo' = Pipeline
        BY <2>4, <3>1, <4>1 DEF Pipeline
      <4> QED BY <3>1, <4>2, <2>1 DEF Stage
    <3>2. CASE target # "all" /\ DependsOn(target) = {"bundle"} /\ todo = <<target>> /\ completed = {}
      <4>1. Calls(target) = <<"bundle", target>>
        BY <3>2 DEF Calls
      <4>2. todo' = <<"bundle", target>>
        BY <2>4, <3>2, <4>1
      <4> QED BY <3>2, <4>2, <2>1 DEF Stage
    <3> QED BY <2>3, <3>1, <3>2
  <2> QED BY <2>1, <2>2, <2>5 DEF Control, PromiseNext
<1>2. CASE Spawn
  <2>1. UNCHANGED <<target, todo, completed, status>> /\ status = "running"
    BY <1>2 DEF Spawn
  <2>2. Head(todo) \in Command \ {"all"}
    BY <1>2 DEF Spawn, Control, Stage, Ready, Pipeline
  <2>3. JobFits'
    BY <1>2, <2>1, <2>2 DEF Spawn, JobFits, JobType, Ready, DependsOn, Found
  <2> QED BY <2>1, <2>3 DEF Control, PromiseNext, Stage
<1>3. CASE Succeed
  <2>1. completed = Promise!Needed(target)
    BY <1>3 DEF Succeed, Control, Stage, Pipeline
  <2> QED BY <1>3, <2>1 DEF Succeed, Control, PromiseNext, Promise!Next, Promise!Succeed
<1>4. CASE ScriptStep
  BY <1>4, ScriptStepMoves, ScriptControl
<1>5. CASE Kill
  BY <1>5, AbortControl DEF Kill
<1>6. ASSUME NEW p \in Package, NEW doc \in Document \cup {Absent}, Edit(p, doc)
      PROVE  Control' /\ PromiseNext
  BY <1>6 DEF Edit, Control, JobFits, Stage, Ready, DependsOn, PromiseNext
<1>7. ASSUME NEW t \in Command, Invoke(t) PROVE Control' /\ PromiseNext
  <2>1. job = NoJob /\ job' = NoJob
    BY <1>7 DEF Invoke, Control, JobFits
  <2>2. Promise!Ask(t) /\ t \in Promise!Target
    BY <1>7 DEF Invoke, Promise!Ask, Promise!Target
  <2> QED BY <1>7, <2>1, <2>2 DEF Invoke, Control, Stage, PromiseNext, Promise!Next
<1>8. CASE UNCHANGED vars
  BY <1>8 DEF vars, Control, JobFits, Stage, Ready, DependsOn, PromiseNext
<1> QED BY <1>1, <1>2, <1>3, <1>4, <1>5, <1>6, <1>7, <1>8 DEF Next, Step, ScriptStep

(* The build command implements BuildSpec: TLC's run build shows it for two *)
(* packages, this theorem for any number of packages, edits and builds.     *)
THEOREM Refinement == Spec => BuildRefined
<1>1. Init => Promise!Init /\ Control
  BY InitControl
<1>2. Control /\ [Next]_vars => Control' /\ [Promise!Next]_<<target, completed, status>>
  BY NextControl DEF PromiseNext
<1> QED BY <1>1, <1>2, PTL DEF Spec, BuildRefined, Promise!Spec

-----------------------------------------------------------------------------
(* Types *)

FilesType ==
    /\ src \in [Package -> Document \cup {Absent}]
    /\ bundled \in [Package -> Document \cup {Absent}]
    /\ DOMAIN spec = Client /\ DOMAIN go = Package /\ DOMAIN rtk = Client
    /\ types \in [Package -> [types : Document \cup {Absent}, schema : Document \cup {Absent}]]
    /\ edited \in BOOLEAN /\ warned \in BOOLEAN
    /\ edits \in 0..MaxEdits /\ builds \in 0..MaxBuilds

LEMMA ControlTypes ==
    ASSUME Control
    PROVE  todo \in Seq(Command) /\ (job = NoJob \/ job \in JobType)
<1>1. CASE status = "running"
  <2>1. job = NoJob \/ job \in JobType
    BY DEF Control, JobFits
  <2>2. target \in Command /\ Stage
    BY <1>1 DEF Control
  <2>3. <<target>> \in Seq(Command) /\ <<"bundle", target>> \in Seq(Command)
    BY <2>2 DEF Command
  <2>4. /\ <<>> \in Seq(Command) /\ <<"types">> \in Seq(Command)
        /\ <<"rtk", "types">> \in Seq(Command) /\ <<"golang", "rtk", "types">> \in Seq(Command)
        /\ <<"bundle", "golang", "rtk", "types">> \in Seq(Command) /\ Pipeline \in Seq(Command)
    BY DEF Command, Pipeline
  <2>5. todo \in {<<target>>, <<"bundle", target>>, <<>>, <<"types">>, <<"rtk", "types">>,
                  <<"golang", "rtk", "types">>, <<"bundle", "golang", "rtk", "types">>, Pipeline}
    BY <2>2 DEF Stage
  <2> QED BY <2>1, <2>3, <2>4, <2>5
<1>2. CASE status # "running"
  BY <1>2 DEF Control, JobFits
<1> QED BY <1>1, <1>2

LEMMA InitFiles == Init => FilesType
<1> SUFFICES ASSUME Init PROVE FilesType
  OBVIOUS
<1>1. src \in [Package -> Document \cup {Absent}]
  BY ConstantsOK DEF Init
<1>2. bundled \in [Package -> Document \cup {Absent}]
  BY DEF Init
<1>3. types \in [Package -> [types : Document \cup {Absent}, schema : Document \cup {Absent}]]
  BY DEF Init
<1>4. DOMAIN spec = Client /\ DOMAIN go = Package /\ DOMAIN rtk = Client
  BY DEF Init
<1>5. edited \in BOOLEAN /\ warned \in BOOLEAN
  BY DEF Init
<1>6. edits \in 0..MaxEdits /\ builds \in 0..MaxBuilds
  BY ConstantsOK DEF Init
<1> QED BY <1>1, <1>2, <1>3, <1>4, <1>5, <1>6 DEF FilesType

(* A table keeps its domain, whatever package is written to.               *)
LEMMA NextFiles ==
    ASSUME FilesType, [Next]_vars
    PROVE  FilesType'
<1> USE DEF FilesType, Rest, bounds, files
<1>1. CASE Resolve \/ Spawn \/ Succeed
  BY <1>1 DEF Resolve, Spawn, Succeed
<1>2. CASE Validate \/ Begin \/ PackagesDone \/ ToolFails \/ Kill
  BY <1>2 DEF Validate, Begin, PackagesDone, ToolFails, Kill
<1>3. CASE BundleSchema
  <2>1. bundled' \in [Package -> Document \cup {Absent}]
    <3> DEFINE p == First(job.left)
    <3>1. bundled' = bundled \/ bundled' = [bundled EXCEPT ![p] = src[p]]
      BY <1>3 DEF BundleSchema
    <3>2. CASE p \in Package
      BY <3>1, <3>2
    <3>3. CASE p \notin Package
      BY <3>1, <3>3
    <3> QED BY <3>2, <3>3
  <2> QED BY <1>3, <2>1 DEF BundleSchema
<1>4. CASE MergeSchemas
  BY <1>4 DEF MergeSchemas
<1>5. ASSUME NEW c \in Client, FilterByTag(c) PROVE FilesType'
  <2>1. DOMAIN spec' = Client
    BY <1>5 DEF FilterByTag
  <2> QED BY <1>5, <2>1 DEF FilterByTag
<1>6. ASSUME NEW c \in Client, GenerateRtk(c) PROVE FilesType'
  <2>1. DOMAIN rtk' = Client
    BY <1>6 DEF GenerateRtk
  <2> QED BY <1>6, <2>1 DEF GenerateRtk
<1>7. CASE GenerateGo
  <2>1. DOMAIN go' = Package
    BY <1>7 DEF GenerateGo
  <2> QED BY <1>7, <2>1 DEF GenerateGo
<1>8. CASE GenerateTypes
  <2> DEFINE p == First(job.left)
             new == bundled[p]
  <2>1. \/ types' = types
        \/ types' = [types EXCEPT ![p] = [types |-> new, schema |-> new]]
        \/ types' = [types EXCEPT ![p].types = new]
    BY <1>8 DEF GenerateTypes
  <2>2. warned' \in BOOLEAN
    BY <1>8 DEF GenerateTypes
  <2>3. types' \in [Package -> [types : Document \cup {Absent}, schema : Document \cup {Absent}]]
    <3>1. CASE p \in Package
      <4>1. new \in Document \cup {Absent} /\ types[p] \in [types : Document \cup {Absent}, schema : Document \cup {Absent}]
        BY <3>1
      <4> HIDE DEF new, p
      <4> QED BY <2>1, <3>1, <4>1
    <3>2. CASE p \notin Package
      BY <2>1, <3>2
    <3> QED BY <3>1, <3>2
  <2> QED BY <1>8, <2>2, <2>3 DEF GenerateTypes
<1>9. ASSUME NEW p \in Package, NEW doc \in Document \cup {Absent}, Edit(p, doc)
      PROVE  FilesType'
  BY <1>9, ConstantsOK DEF Edit
<1>10. ASSUME NEW t \in Command, Invoke(t) PROVE FilesType'
  <2>1. edited' \in BOOLEAN /\ warned' \in BOOLEAN
    BY <1>10 DEF Invoke
  <2>2. builds' \in 0..MaxBuilds
    BY <1>10, ConstantsOK DEF Invoke
  <2>3. UNCHANGED <<src, files, edits>>
    BY <1>10 DEF Invoke
  <2> QED BY <2>1, <2>2, <2>3
<1>11. CASE UNCHANGED vars
  BY <1>11 DEF vars
<1> QED BY <1>1, <1>2, <1>3, <1>4, <1>5, <1>6, <1>7, <1>8, <1>9, <1>10, <1>11 DEF Next, Step

LEMMA TypeFromParts == Control /\ FilesType => TypeOK
BY ControlTypes DEF TypeOK, FilesType, Control, JobType

(* Every variable keeps its type, for any packages, schemas and failures.  *)
THEOREM TypeCorrect == Spec => []TypeOK
<1>1. Init => Control /\ FilesType
  BY InitControl, InitFiles
<1>2. Control /\ FilesType /\ [Next]_vars => Control' /\ FilesType'
  BY NextControl, NextFiles
<1> QED BY <1>1, <1>2, TypeFromParts, PTL DEF Spec

-----------------------------------------------------------------------------
(* The specifications *)

(* Any nonempty set of package numbers has a last one: p is last when the  *)
(* set of those after it is minimal.                                       *)
LEMMA LastOfSet ==
    ASSUME NEW S \in SUBSET Package, S # {}
    PROVE  Last(S) \in S /\ \A p \in S : Last(S) >= p
<1> DEFINE After(p) == {q \in S : q > p}
           Tails == {After(p) : p \in S}
<1>1. Package \subseteq Nat /\ IsFiniteSet(Package)
  BY ConstantsOK, FS_Interval DEF Package
<1>2. IsFiniteSet(S)
  BY <1>1, FS_Subset
<1>3. Tails \subseteq FiniteSubsetsOf(S) /\ Tails # {}
  <2>1. \A p \in S : After(p) \in SUBSET S /\ IsFiniteSet(After(p))
    BY <1>2, FS_Subset
  <2> QED BY <2>1 DEF FiniteSubsetsOf
<1>4. PICK T \in Tails : \A U \in Tails : <<U, T>> \notin StrictSubsetOrdering(S)
  BY <1>3, WFMin, FS_StrictSubsetOrderingWellFounded
<1>5. PICK p \in S : T = After(p)
  OBVIOUS
<1>6. \A q \in S : ~(q > p)
  <2> SUFFICES ASSUME NEW q \in S, q > p PROVE FALSE
    OBVIOUS
  <2>1. \A r \in S : r \in Nat
    BY <1>1
  <2>2. \A r \in S : r > q => r > p
    BY <2>1
  <2>3. After(q) \subseteq After(p) /\ q \in After(p) /\ q \notin After(q)
    BY <2>1, <2>2
  <2>4. <<After(q), After(p)>> \in StrictSubsetOrdering(S)
    BY <2>3 DEF StrictSubsetOrdering
  <2> QED BY <2>4, <1>4, <1>5
<1>7. \A q \in S : p >= q
  BY <1>1, <1>6
<1> QED BY <1>7 DEF Last

(* What holds of a specification with these operations and schemes. *)
Resolved(operations, schemes) ==
    \A op \in operations : \A name \in op.needs :
        /\ name \in DOMAIN schemes
        /\ schemes[name].package >= op.package
        /\ Begins(op.title, schemes[name].title) \/ Begins(schemes[name].title, op.title)

MergedIsWhole == merged # Absent => Resolved(merged.operations, merged.schemes)

(* Of two texts that read the same when put together with others, one begins *)
(* with the other.                                                           *)
LEMMA SharedBeginning ==
    ASSUME NEW t \in Seq(Word), NEW u \in Seq(Word), NEW m \in Seq(Word), NEW n \in Seq(Word),
           t \o m = u \o n
    PROVE  Begins(t, u) \/ Begins(u, t)
<1>1. ASSUME NEW v \in Seq(Word), NEW w \in Seq(Word), NEW k \in Seq(Word), NEW l \in Seq(Word),
             v \o k = w \o l, Len(v) <= Len(w)
      PROVE  Begins(v, w)
  <2>1. \A i \in 1..Len(v) : (v \o k)[i] = v[i]
    OBVIOUS
  <2>2. \A i \in 1..Len(w) : (w \o l)[i] = w[i]
    OBVIOUS
  <2>3. \A i \in 1..Len(v) : v[i] = w[i]
    BY <2>1, <2>2, <1>1
  <2>4. SubSeq(w, 1, Len(v)) = [i \in 1..Len(v) |-> w[i]]
    BY <1>1
  <2>5. v = [i \in 1..Len(v) |-> v[i]]
    OBVIOUS
  <2>6. v = SubSeq(w, 1, Len(v))
    BY <2>3, <2>4, <2>5
  <2> QED BY <2>6, <1>1 DEF Begins
<1>2. CASE Len(t) <= Len(u)
  BY <1>1, <1>2
<1>3. CASE Len(u) <= Len(t)
  BY <1>1, <1>3
<1> QED BY <1>2, <1>3

(* Packages that can be merged have a title. *)
Titled(P, content) == \A p \in P : content[p] \in Document /\ content[p].title # NoTitle

LEMMA TitledTexts ==
    ASSUME NEW doc \in Document, doc.title # NoTitle
    PROVE  doc.title \in Seq(Word) /\ doc.name \in Seq(Word)
BY ConstantsOK DEF DocumentType

(* The scheme that an operation requires is that of its own package or of a *)
(* later one whose title and name read the same.                            *)
LEMMA MergeIsWhole ==
    ASSUME NEW P \in SUBSET Package, NEW content, Titled(P, content)
    PROVE  Resolved(Merge(P, content).operations, Merge(P, content).schemes)
<1> SUFFICES ASSUME NEW op \in Merge(P, content).operations, NEW name \in op.needs
             PROVE  LET schemes == Merge(P, content).schemes
                    IN  /\ name \in DOMAIN schemes
                        /\ schemes[name].package >= op.package
                        /\ \/ Begins(op.title, schemes[name].title)
                           \/ Begins(schemes[name].title, op.title)
  BY DEF Resolved
<1>1. PICK p \in P : op = Operation(p, content[p])
  BY DEF Merge
<1>2. name = Prefixed(content[p]) /\ op.package = p /\ op.title = content[p].title
  BY <1>1 DEF Operation, Required
<1> DEFINE sharing == {q \in P : Prefixed(content[q]) = name}
           last == Last(sharing)
<1>3. sharing \in SUBSET Package /\ p \in sharing
  BY <1>2
<1>4. last \in sharing /\ last >= p
  BY <1>3, LastOfSet
<1>5. name \in {Prefixed(content[q]) : q \in P}
  BY <1>2
<1>6. Merge(P, content).schemes[name] =
        [scheme |-> content[last].scheme, package |-> last, title |-> content[last].title]
  BY <1>5 DEF Merge
<1>7. name \in DOMAIN Merge(P, content).schemes
  BY <1>5 DEF Merge
<1>8. Begins(content[p].title, content[last].title) \/ Begins(content[last].title, content[p].title)
  <2>1. last \in P /\ p \in P /\ Prefixed(content[last]) = Prefixed(content[p])
    BY <1>2, <1>4
  <2> HIDE DEF last
  <2>2. /\ content[p].title \in Seq(Word) /\ content[p].name \in Seq(Word)
        /\ content[last].title \in Seq(Word) /\ content[last].name \in Seq(Word)
    BY <2>1, TitledTexts DEF Titled
  <2>3. content[p].title \o content[p].name = content[last].title \o content[last].name
    BY <2>1 DEF Prefixed
  <2> QED BY <2>2, <2>3, SharedBeginning
<1> HIDE DEF last
<1> QED BY <1>2, <1>4, <1>6, <1>7, <1>8

(* What filterOpenapiByTag keeps of a whole document is whole. *)
LEMMA FilterIsWhole ==
    ASSUME NEW c \in Client, MergedIsWhole, merged # Absent
    PROVE  LET new == Filter(merged, c)
           IN  /\ DOMAIN new.schemes = Needs(new.operations)
               /\ \A op \in new.operations : c \in op.clients
               /\ Resolved(new.operations, new.schemes)
<1> DEFINE operations == Filtered(merged, c)
           kept == Needs(operations) \cap DOMAIN merged.schemes
           schemes == [name \in kept |-> merged.schemes[name]]
<1>1. Filter(merged, c).operations = operations /\ Filter(merged, c).schemes = schemes
  BY DEF Filter
<1>2. \A op \in operations : op \in merged.operations /\ c \in op.clients
  BY DEF Filtered
<1>3. Resolved(operations, merged.schemes)
  BY <1>2 DEF MergedIsWhole, Resolved
<1>4. kept = Needs(operations)
  BY <1>3 DEF Needs, Resolved
<1>5. DOMAIN schemes = kept /\ \A name \in kept : schemes[name] = merged.schemes[name]
  OBVIOUS
<1>6. \A op \in operations : op.needs \subseteq kept
  BY <1>4 DEF Needs
<1> HIDE DEF operations, kept, schemes
<1>7. Resolved(operations, schemes)
  BY <1>3, <1>5, <1>6 DEF Resolved
<1> QED BY <1>1, <1>2, <1>4, <1>5, <1>7

SpecIsWhole(c) ==
    spec[c] # Absent =>
        /\ DOMAIN spec[c].schemes = Needs(spec[c].operations)
        /\ \A op \in spec[c].operations : c \in op.clients
        /\ Resolved(spec[c].operations, spec[c].schemes)

LEMMA WholeSpecs == (\A c \in Client : SpecIsWhole(c)) => SpecsAreWhole
BY DEF SpecIsWhole, SpecsAreWhole, Resolved

WholeInv == Control /\ FilesType /\ MergedIsWhole /\ \A c \in Client : SpecIsWhole(c)

LEMMA NextWhole ==
    ASSUME WholeInv, [Next]_vars
    PROVE  MergedIsWhole' /\ \A c \in Client : SpecIsWhole(c)'
<1> DEFINE Goal == MergedIsWhole' /\ \A c \in Client : SpecIsWhole(c)'
<1> USE DEF files
<1>1. CASE MergeSchemas
  <2> DEFINE P == MergePackages(job.found, src)
  <2>1. UNCHANGED spec
    BY <1>1 DEF MergeSchemas
  <2>2. P \in SUBSET Package /\ job.found \subseteq Package
    <3>1. JobFits
      BY <1>1, NoJobIsNone DEF WholeInv, Control, MergeSchemas, At
    <3> QED BY <3>1 DEF JobFits, JobType, MergePackages
  <2>3. merged' = merged \/ (~CannotMerge(P, bundled) /\ merged' = Merge(P, bundled))
    BY <1>1 DEF MergeSchemas
  <2>4. ASSUME ~CannotMerge(P, bundled), merged' = Merge(P, bundled) PROVE MergedIsWhole'
    <3>1. Titled(P, bundled)
      BY <2>2, <2>4 DEF Titled, CannotMerge, WholeInv, FilesType
    <3>2. Resolved(Merge(P, bundled).operations, Merge(P, bundled).schemes)
      BY <2>2, <3>1, MergeIsWhole
    <3> QED BY <2>4, <3>2 DEF MergedIsWhole
  <2>5. MergedIsWhole'
    BY <2>3, <2>4 DEF MergedIsWhole, WholeInv
  <2> QED BY <2>1, <2>5 DEF SpecIsWhole, WholeInv
<1>2. ASSUME NEW c \in Client, FilterByTag(c) PROVE Goal
  <2>1. merged' = merged
    BY <1>2 DEF FilterByTag
  <2>2. spec' = spec \/ (merged # Absent /\ spec' = [spec EXCEPT ![c] = Filter(merged, c)])
    BY <1>2 DEF FilterByTag
  <2>3. CASE merged # Absent /\ spec' = [spec EXCEPT ![c] = Filter(merged, c)]
    <3>1. spec'[c] = Filter(merged, c) /\ \A d \in Client \ {c} : spec'[d] = spec[d]
      BY <2>3 DEF WholeInv, FilesType
    <3>2. SpecIsWhole(c)'
      BY <2>3, <3>1, FilterIsWhole DEF WholeInv, SpecIsWhole
    <3>3. \A d \in Client \ {c} : SpecIsWhole(d)'
      BY <3>1 DEF WholeInv, SpecIsWhole
    <3> QED BY <2>1, <3>2, <3>3 DEF WholeInv, MergedIsWhole
  <2> QED BY <2>1, <2>2, <2>3 DEF WholeInv, SpecIsWhole, MergedIsWhole
<1>3. ASSUME UNCHANGED <<merged, spec>> PROVE Goal
  BY <1>3 DEF WholeInv, SpecIsWhole, MergedIsWhole
<1>4. CASE Resolve \/ Spawn \/ Succeed
  BY <1>3, <1>4 DEF Resolve, Spawn, Succeed
<1>5. CASE Validate \/ Begin \/ PackagesDone \/ ToolFails \/ Kill
  BY <1>3, <1>5 DEF Validate, Begin, PackagesDone, ToolFails, Kill
<1>6. CASE BundleSchema \/ GenerateGo \/ GenerateTypes
  BY <1>3, <1>6 DEF BundleSchema, GenerateGo, GenerateTypes
<1>7. ASSUME NEW c \in Client, GenerateRtk(c) PROVE Goal
  BY <1>3, <1>7 DEF GenerateRtk
<1>8. ASSUME NEW p \in Package, NEW doc \in Document \cup {Absent}, Edit(p, doc)
      PROVE  Goal
  BY <1>3, <1>8 DEF Edit
<1>9. ASSUME NEW t \in Command, Invoke(t) PROVE Goal
  BY <1>3, <1>9 DEF Invoke
<1>10. CASE UNCHANGED vars
  BY <1>3, <1>10 DEF vars
<1> QED BY <1>1, <1>2, <1>4, <1>5, <1>6, <1>7, <1>8, <1>9, <1>10 DEF Next, Step

(* However many packages there are, whatever their titles and scheme names *)
(* and whatever fails: a client's specification holds operations of that   *)
(* client only and exactly the schemes they require themselves, and a name *)
(* leads to the scheme of the operation's package or of a later one, whose *)
(* title begins with the other's or the other way round.                   *)
THEOREM SpecsWhole == Spec => []SpecsAreWhole
<1>1. Init => WholeInv
  BY InitControl, InitFiles DEF WholeInv, Init, MergedIsWhole, SpecIsWhole
<1>2. WholeInv /\ [Next]_vars => WholeInv'
  BY NextControl, NextFiles, NextWhole DEF WholeInv
<1>3. WholeInv => SpecsAreWhole
  BY WholeSpecs DEF WholeInv
<1> QED BY <1>1, <1>2, <1>3, PTL DEF Spec

-----------------------------------------------------------------------------
(* A build that succeeds leaves current files.  The invariant follows each *)
(* script: what it has gone through is current, and so is what a completed *)
(* one wrote.                                                              *)

Work(c) == IF c = "golang" THEN Found \ NoGo ELSE Found

BundledCurrent(S) == \A p \in S : bundled[p] = src[p]
MergedCurrent == ToMerge # {} => merged = Merge(ToMerge, src)
SpecCurrent(c) == ToMerge # {} => spec[c] = Filter(Merge(ToMerge, src), c)
GoCurrent(S) == \A p \in S : go[p] = [of |-> src[p], whole |-> TRUE]
RtkCurrent(c) ==
    ToMerge # {} => rtk[c] = [of |-> Filter(Merge(ToMerge, src), c), whole |-> TRUE]
TypesCurrent(S) ==
    ~warned => \A p \in S : types[p] = [types |-> src[p], schema |-> src[p]]

(* Nobody has edited the schemas since the build began. *)
Live == status \in {"running", "ok"} /\ ~edited

CompletedCurrent ==
    /\ "bundle" \in completed => BundledCurrent(Found) /\ \A c \in Client : SpecCurrent(c)
    /\ "golang" \in completed => GoCurrent(Found \ NoGo)
    /\ "rtk" \in completed => \A c \in Client : RtkCurrent(c)
    /\ "types" \in completed => TypesCurrent(Found)

JobCurrent ==
    /\ job # NoJob => job.found = Work(job.cmd)
    /\ job # NoJob /\ job.pc = "start" => job.left = job.found
    /\ job.cmd = "bundle" =>
          /\ job.pc = "packages" => BundledCurrent(Found \ job.left)
          /\ job.pc \in Client => BundledCurrent(Found) /\ MergedCurrent
          /\ job.pc = "meshery" => SpecCurrent("cloud")
    /\ job.cmd = "golang" /\ job.pc = "packages" => GoCurrent((Found \ NoGo) \ job.left)
    /\ job.cmd = "rtk" /\ job.pc = "meshery" => RtkCurrent("cloud")
    /\ job.cmd = "types" /\ job.pc = "packages" => TypesCurrent(Found \ job.left)

Current == Live => CompletedCurrent /\ JobCurrent

(* What merging makes depends on the contents of the merged packages only. *)
LEMMA MergeSame ==
    ASSUME NEW P \in SUBSET Package, NEW f, NEW g, \A p \in P : f[p] = g[p]
    PROVE  Merge(P, f) = Merge(P, g)
<1> DEFINE names(h) == {Prefixed(h[p]) : p \in P}
           sharing(h, name) == {p \in P : Prefixed(h[p]) = name}
           schemes(h) == [name \in names(h) |-> LET last == Last(sharing(h, name))
                                                IN  [scheme |-> h[last].scheme, package |-> last,
                                                     title |-> h[last].title]]
<1>1. {Operation(p, f[p]) : p \in P} = {Operation(p, g[p]) : p \in P}
  OBVIOUS
<1>2. names(f) = names(g)
  OBVIOUS
<1>3. ASSUME NEW name \in names(f)
      PROVE  /\ Last(sharing(f, name)) = Last(sharing(g, name))
             /\ f[Last(sharing(f, name))] = g[Last(sharing(g, name))]
  <2>1. sharing(f, name) = sharing(g, name)
    OBVIOUS
  <2>2. sharing(f, name) \in SUBSET Package /\ sharing(f, name) # {}
    OBVIOUS
  <2>3. Last(sharing(f, name)) \in sharing(f, name)
    BY <2>2, LastOfSet
  <2>4. Last(sharing(f, name)) \in P
    BY <2>3
  <2> HIDE DEF sharing
  <2> QED BY <2>1, <2>4
<1>4. schemes(f) = schemes(g)
  <2> HIDE DEF names, sharing
  <2> QED BY <1>2, <1>3
<1>5. Merge(P, f) = [operations |-> {Operation(p, f[p]) : p \in P}, schemes |-> schemes(f)]
      /\ Merge(P, g) = [operations |-> {Operation(p, g[p]) : p \in P}, schemes |-> schemes(g)]
  BY DEF Merge
<1> HIDE DEF schemes
<1> QED BY <1>1, <1>4, <1>5

LEMMA MergedPackages ==
    /\ ToMerge \in SUBSET Package /\ ToMerge \subseteq Found
    /\ Found \in SUBSET Package /\ \A p \in Found : src[p] # Absent
BY DEF ToMerge, MergePackages, Found

(* While the schemas stay, so does what is to be merged. *)
LEMMA SourceStays ==
    ASSUME UNCHANGED src
    PROVE  Found' = Found /\ ToMerge' = ToMerge /\ \A c : Work(c)' = Work(c)
BY DEF Found, ToMerge, MergePackages, Work

StepInv == Control /\ FilesType /\ Current

(* A script that ends badly ends the build. *)
LEMMA AbortCurrent == Abort => Current'
BY DEF Abort, Current, Live

LEMMA JobRunning ==
    ASSUME Control, job.cmd # "none"
    PROVE  /\ JobFits /\ job # NoJob /\ job.cmd \notin completed
           /\ DependsOn(job.cmd) \subseteq completed /\ status = "running"
BY NoJobIsNone DEF Control, JobFits, Ready

BundleStep == BundleSchema \/ MergeSchemas \/ \E c \in Client : FilterByTag(c)

LEMMA BundleCurrent ==
    ASSUME StepInv, BundleStep, Live'
    PROVE  CompletedCurrent' /\ JobCurrent'
<1> USE DEF Rest
<1>1. job.cmd = "bundle" /\ UNCHANGED <<src, edited, go, rtk, types, warned>>
  BY DEF BundleStep, BundleSchema, MergeSchemas, FilterByTag, At
<1>2. /\ JobFits /\ job # NoJob /\ "bundle" \notin completed /\ status = "running"
      /\ job \in JobType
  BY <1>1, JobRunning DEF StepInv, JobFits
<1>3. ~Abort
  BY DEF Abort, Live
<1>4. CompletedCurrent /\ JobCurrent
  BY <1>1, <1>2 DEF StepInv, Current, Live
<1>5. Found' = Found /\ ToMerge' = ToMerge
  BY <1>1, SourceStays
<1>6. CASE BundleSchema
  <2> DEFINE p == First(job.left)
  <2>1. /\ job.pc = "packages" /\ src[p] # Absent
        /\ bundled' = [bundled EXCEPT ![p] = src[p]]
        /\ job' = [job EXCEPT !.left = Left(p)]
        /\ UNCHANGED <<completed, spec, merged>>
    BY <1>3, <1>6 DEF BundleSchema, At, KeepBuild
  <2>2. job'.cmd = "bundle" /\ job'.pc = "packages" /\ job'.found = job.found /\ job'.left = job.left \ {p}
    BY <1>1, <1>2, <2>1 DEF JobType, Left
  <2>3. \A q \in Found \ (job.left \ {p}) : bundled'[q] = src[q]
    <3> SUFFICES ASSUME NEW q \in Found \ (job.left \ {p}) PROVE bundled'[q] = src[q]
      OBVIOUS
    <3>1. q \in Package
      BY DEF Found
    <3>2. q # p => bundled[q] = src[q]
      BY <1>1, <1>4, <2>1 DEF JobCurrent, BundledCurrent
    <3> QED BY <2>1, <3>1, <3>2 DEF StepInv, FilesType
  <2>4. job' # NoJob
    BY <2>2 DEF NoJob
  <2>5. CompletedCurrent'
    BY <1>1, <1>2, <1>4, <1>5, <2>1 DEF CompletedCurrent, GoCurrent, RtkCurrent, TypesCurrent
  <2> QED BY <1>1, <1>2, <1>4, <1>5, <2>2, <2>3, <2>4, <2>5 DEF JobCurrent, BundledCurrent, Work, Client
<1>7. CASE MergeSchemas
  <2>1. /\ job.pc = "packages" /\ job.left = {} /\ GoTo("cloud")
        /\ merged' = IF MergePackages(job.found, src) = {} THEN merged
                     ELSE Merge(MergePackages(job.found, src), bundled)
        /\ UNCHANGED <<completed, spec, bundled>>
    BY <1>3, <1>7 DEF MergeSchemas, At, KeepBuild
  <2>2. job'.cmd = "bundle" /\ job'.pc = "cloud" /\ job'.found = job.found
    BY <1>1, <1>2, <2>1 DEF JobType, GoTo
  <2>3. job.found = Found /\ BundledCurrent(Found)
    BY <1>1, <1>2, <1>4, <2>1 DEF JobCurrent, Work
  <2>4. MergedCurrent'
    <3>1. MergePackages(job.found, src) = ToMerge
      BY <2>3 DEF ToMerge
    <3>2. Merge(ToMerge, bundled) = Merge(ToMerge, src)
      BY <2>3, MergedPackages, MergeSame DEF BundledCurrent
    <3>3. ToMerge # {} => merged' = Merge(ToMerge, src)
      BY <2>1, <3>1, <3>2
    <3> QED BY <1>1, <1>5, <3>3 DEF MergedCurrent
  <2>5. job' # NoJob
    BY <2>2 DEF NoJob
  <2>6. CompletedCurrent'
    BY <1>1, <1>2, <1>4, <1>5, <2>1 DEF CompletedCurrent, GoCurrent, RtkCurrent, TypesCurrent
  <2> QED BY <1>1, <1>5, <2>1, <2>2, <2>3, <2>4, <2>5, <2>6 DEF JobCurrent, BundledCurrent, Work, Client
<1>8. ASSUME NEW c \in Client, FilterByTag(c) PROVE CompletedCurrent' /\ JobCurrent'
  <2>1. /\ job.pc = c /\ merged # Absent
        /\ spec' = [spec EXCEPT ![c] = Filter(merged, c)]
        /\ AfterClient(c) /\ UNCHANGED <<bundled, merged>>
    BY <1>3, <1>8 DEF FilterByTag, At
  <2>2. BundledCurrent(Found) /\ MergedCurrent /\ (c = "meshery" => SpecCurrent("cloud"))
    BY <1>1, <1>4, <2>1 DEF JobCurrent, Client
  <2>3. BundledCurrent(Found)' /\ MergedCurrent' /\ SpecCurrent(c)'
        /\ (c = "meshery" => SpecCurrent("cloud")')
    BY <1>1, <1>5, <2>1, <2>2 DEF BundledCurrent, MergedCurrent, SpecCurrent, StepInv, FilesType
  <2>4. CASE c = "cloud"
    <3>1. GoTo("meshery") /\ UNCHANGED completed
      BY <2>1, <2>4 DEF AfterClient, KeepBuild
    <3>2. job'.cmd = "bundle" /\ job'.pc = "meshery" /\ job'.found = job.found
      BY <1>1, <1>2, <3>1 DEF JobType, GoTo
    <3>3. job' # NoJob
      BY <3>2 DEF NoJob
    <3>4. CompletedCurrent'
      BY <1>1, <1>2, <1>4, <1>5, <3>1 DEF CompletedCurrent, GoCurrent, RtkCurrent, TypesCurrent
    <3> QED BY <1>1, <1>2, <1>4, <1>5, <2>3, <2>4, <3>2, <3>3, <3>4 DEF JobCurrent, Work
  <2>5. CASE c = "meshery"
    <3>1. completed' = completed \cup {"bundle"} /\ job' = NoJob
      BY <1>1, <2>1, <2>5 DEF AfterClient, Exit
    <3>2. CompletedCurrent'
      BY <1>1, <1>2, <1>4, <1>5, <2>3, <2>5, <3>1
         DEF CompletedCurrent, GoCurrent, RtkCurrent, TypesCurrent, Client
    <3> QED BY <3>1, <3>2, NoJobIsNone DEF JobCurrent
  <2> QED BY <2>4, <2>5 DEF Client
<1> QED BY <1>6, <1>7, <1>8 DEF BundleStep

LEMMA GoCurrentStep ==
    ASSUME StepInv, GenerateGo, Live'
    PROVE  CompletedCurrent' /\ JobCurrent'
<1> USE DEF Rest
<1> DEFINE p == First(job.left)
<1>1. /\ job.cmd = "golang" /\ job.pc = "packages"
      /\ UNCHANGED <<src, edited, bundled, merged, spec, rtk, types, warned>>
  BY DEF GenerateGo, At
<1>2. /\ JobFits /\ job # NoJob /\ "golang" \notin completed /\ status = "running"
      /\ job \in JobType
  BY <1>1, JobRunning DEF StepInv, JobFits
<1>3. ~Abort
  BY DEF Abort, Live
<1>4. CompletedCurrent /\ JobCurrent
  BY <1>1, <1>2 DEF StepInv, Current, Live
<1>5. Found' = Found /\ ToMerge' = ToMerge
  BY <1>1, SourceStays
<1>6. /\ go' = IF src[p] = Absent THEN go
               ELSE [go EXCEPT ![p] = [of |-> src[p], whole |-> TRUE]]
      /\ job' = [job EXCEPT !.left = Left(p)]
      /\ UNCHANGED completed
  BY <1>3 DEF GenerateGo, KeepBuild
<1>7. job'.cmd = "golang" /\ job'.pc = "packages" /\ job'.found = job.found /\ job'.left = job.left \ {p}
  BY <1>1, <1>2, <1>6 DEF JobType, Left
<1>8. \A q \in (Found \ NoGo) \ (job.left \ {p}) : go'[q] = [of |-> src[q], whole |-> TRUE]
  <2> SUFFICES ASSUME NEW q \in (Found \ NoGo) \ (job.left \ {p})
               PROVE  go'[q] = [of |-> src[q], whole |-> TRUE]
    OBVIOUS
  <2>1. q \in Package /\ src[q] # Absent /\ DOMAIN go = Package
    BY DEF Found, StepInv, FilesType
  <2>2. q # p => go[q] = [of |-> src[q], whole |-> TRUE]
    BY <1>1, <1>4 DEF JobCurrent, GoCurrent
  <2> HIDE DEF p
  <2>3. CASE q = p
    BY <1>6, <2>1, <2>3
  <2>4. CASE q # p
    BY <1>6, <2>1, <2>2, <2>4
  <2> QED BY <2>3, <2>4
<1>9. job' # NoJob
  BY <1>7 DEF NoJob
<1>10. CompletedCurrent'
  BY <1>1, <1>2, <1>4, <1>5, <1>6 DEF CompletedCurrent, BundledCurrent, SpecCurrent, RtkCurrent, TypesCurrent
<1> QED BY <1>1, <1>2, <1>4, <1>5, <1>7, <1>8, <1>9, <1>10 DEF JobCurrent, GoCurrent, Work, Client

(* The clients are generated from specifications that bundling left current. *)
LEMMA RtkCurrentStep ==
    ASSUME StepInv, NEW c \in Client, GenerateRtk(c), Live'
    PROVE  CompletedCurrent' /\ JobCurrent'
<1> USE DEF Rest
<1>1. /\ job.cmd = "rtk" /\ job.pc = c
      /\ UNCHANGED <<src, edited, bundled, merged, spec, go, types, warned>>
  BY DEF GenerateRtk, At
<1>2. /\ JobFits /\ job # NoJob /\ "rtk" \notin completed /\ status = "running"
      /\ job \in JobType /\ "bundle" \in completed
  BY <1>1, JobRunning DEF StepInv, JobFits, DependsOn
<1>3. ~Abort
  BY DEF Abort, Live
<1>4. CompletedCurrent /\ JobCurrent
  BY <1>1, <1>2 DEF StepInv, Current, Live
<1>5. Found' = Found /\ ToMerge' = ToMerge
  BY <1>1, SourceStays
<1>6. rtk' = [rtk EXCEPT ![c] = [of |-> spec[c], whole |-> TRUE]] /\ AfterClient(c)
  BY <1>3 DEF GenerateRtk
<1>7. SpecCurrent(c) /\ DOMAIN rtk = Client
  BY <1>2, <1>4 DEF CompletedCurrent, StepInv, FilesType
<1>8. RtkCurrent(c)'
  BY <1>1, <1>5, <1>6, <1>7 DEF RtkCurrent, SpecCurrent
<1>9. CASE c = "cloud"
  <2>1. GoTo("meshery") /\ UNCHANGED completed
    BY <1>6, <1>9 DEF AfterClient, KeepBuild
  <2>2. job'.cmd = "rtk" /\ job'.pc = "meshery" /\ job'.found = job.found
    BY <1>1, <1>2, <2>1 DEF JobType, GoTo
  <2>3. job' # NoJob
    BY <2>2 DEF NoJob
  <2>4. CompletedCurrent'
    BY <1>1, <1>2, <1>4, <1>5, <2>1 DEF CompletedCurrent, BundledCurrent, SpecCurrent, GoCurrent, TypesCurrent
  <2> QED BY <1>1, <1>2, <1>4, <1>5, <1>8, <1>9, <2>2, <2>3, <2>4 DEF JobCurrent, Work
<1>10. CASE c = "meshery"
  <2>1. completed' = completed \cup {"rtk"} /\ job' = NoJob
    BY <1>1, <1>6, <1>10 DEF AfterClient, Exit
  <2>2. RtkCurrent("cloud")'
    <3>1. RtkCurrent("cloud")
      BY <1>1, <1>4, <1>10 DEF JobCurrent
    <3>2. rtk'["cloud"] = rtk["cloud"]
      BY <1>6, <1>7, <1>10 DEF Client
    <3> QED BY <1>1, <1>5, <3>1, <3>2 DEF RtkCurrent
  <2>3. CompletedCurrent'
    <3>1. \A d \in Client : RtkCurrent(d)'
      BY <1>8, <1>10, <2>2 DEF Client
    <3> QED BY <1>1, <1>2, <1>4, <1>5, <2>1, <3>1
            DEF CompletedCurrent, BundledCurrent, SpecCurrent, GoCurrent, TypesCurrent
  <2> QED BY <2>1, <2>3, NoJobIsNone DEF JobCurrent
<1> QED BY <1>9, <1>10 DEF Client

(* The types come from bundles that bundling left current. *)
LEMMA TypesCurrentStep ==
    ASSUME StepInv, GenerateTypes, Live'
    PROVE  CompletedCurrent' /\ JobCurrent'
<1> USE DEF Rest
<1> DEFINE p == First(job.left)
           new == bundled[p]
<1>1. /\ job.cmd = "types" /\ job.pc = "packages"
      /\ UNCHANGED <<src, edited, bundled, merged, spec, go, rtk, completed>>
      /\ job' = [job EXCEPT !.left = Left(p)]
      /\ ~warned' => ~warned /\ new # Absent
                     /\ types' = [types EXCEPT ![p] = [types |-> new, schema |-> new]]
  BY DEF GenerateTypes, At, KeepBuild
<1>2. /\ JobFits /\ job # NoJob /\ "types" \notin completed /\ status = "running"
      /\ job \in JobType /\ "bundle" \in completed
  BY <1>1, JobRunning DEF StepInv, JobFits, DependsOn
<1>4. CompletedCurrent /\ JobCurrent
  BY <1>1, <1>2 DEF StepInv, Current, Live
<1>5. Found' = Found /\ ToMerge' = ToMerge
  BY <1>1, SourceStays
<1>7. job'.cmd = "types" /\ job'.pc = "packages" /\ job'.found = job.found /\ job'.left = job.left \ {p}
  BY <1>1, <1>2 DEF JobType, Left
<1>8. ASSUME ~warned', NEW q \in Found \ (job.left \ {p})
      PROVE  types'[q] = [types |-> src[q], schema |-> src[q]]
  <2>1. q \in Package /\ DOMAIN types = Package /\ bundled[q] = src[q]
    BY <1>2, <1>4 DEF Found, StepInv, FilesType, CompletedCurrent, BundledCurrent
  <2>2. q # p => types[q] = [types |-> src[q], schema |-> src[q]]
    BY <1>1, <1>4, <1>8 DEF JobCurrent, TypesCurrent
  <2>3. types' = [types EXCEPT ![p] = [types |-> new, schema |-> new]]
    BY <1>1, <1>8
  <2> HIDE DEF p
  <2>4. CASE q = p
    BY <2>1, <2>3, <2>4
  <2>5. CASE q # p
    BY <2>1, <2>2, <2>3, <2>5
  <2> QED BY <2>4, <2>5
<1>9. job' # NoJob
  BY <1>7 DEF NoJob
<1>10. CompletedCurrent'
  BY <1>1, <1>2, <1>4, <1>5 DEF CompletedCurrent, BundledCurrent, SpecCurrent, RtkCurrent, GoCurrent
<1> QED BY <1>1, <1>2, <1>4, <1>5, <1>7, <1>8, <1>9, <1>10 DEF JobCurrent, TypesCurrent, Work, Client

(* A script that has written for every package has left them all current. *)
LEMMA DoneCurrent ==
    ASSUME StepInv, PackagesDone, Live'
    PROVE  CompletedCurrent' /\ JobCurrent'
<1> USE DEF Rest, files
<1>1. /\ job.cmd \in {"golang", "types"} /\ job.pc = "packages" /\ job.left = {}
      /\ UNCHANGED <<src, edited, bundled, merged, spec, go, rtk, types, warned>>
      /\ completed' = completed \cup {job.cmd} /\ job' = NoJob
  BY DEF PackagesDone, Exit
<1>2. job # NoJob /\ status = "running"
  BY <1>1, JobRunning DEF StepInv
<1>3. CompletedCurrent /\ JobCurrent
  BY <1>1, <1>2 DEF StepInv, Current, Live
<1>4. Found' = Found /\ ToMerge' = ToMerge
  BY <1>1, SourceStays
<1>5. (job.cmd = "golang" => GoCurrent(Found \ NoGo)) /\ (job.cmd = "types" => TypesCurrent(Found))
  BY <1>1, <1>3 DEF JobCurrent, GoCurrent, TypesCurrent
<1>6. CompletedCurrent'
  BY <1>1, <1>3, <1>4, <1>5
     DEF CompletedCurrent, BundledCurrent, SpecCurrent, RtkCurrent, GoCurrent, TypesCurrent
<1> QED BY <1>1, <1>6, NoJobIsNone DEF JobCurrent

(* A script writes nothing before its first package or client, and one that *)
(* only validates writes nothing at all.                                    *)
LEMMA StartCurrent ==
    ASSUME StepInv, Validate \/ Begin \/ Spawn, Live'
    PROVE  CompletedCurrent' /\ JobCurrent'
<1> USE DEF Rest, files
<1>1. UNCHANGED <<src, edited, bundled, merged, spec, go, rtk, types, warned>> /\ status = "running"
  BY DEF Validate, Begin, Spawn, At
<1>2. CompletedCurrent /\ JobCurrent
  BY <1>1 DEF StepInv, Current, Live
<1>3. Found' = Found /\ ToMerge' = ToMerge
  BY <1>1, SourceStays
<1>4. ~Abort
  BY DEF Abort, Live
<1>5. completed' = completed \/ completed' = completed \cup {"validate"}
  BY <1>4 DEF Validate, Begin, Spawn, Exit, At, KeepBuild
<1>6. CompletedCurrent'
  BY <1>1, <1>2, <1>3, <1>5
     DEF CompletedCurrent, BundledCurrent, SpecCurrent, RtkCurrent, GoCurrent, TypesCurrent
<1>7. CASE Validate
  BY <1>4, <1>6, <1>7, NoJobIsNone DEF Validate, Exit, JobCurrent
<1>8. CASE Spawn
  <2>1. job'.pc = "start" /\ job'.found = Work(job'.cmd) /\ job'.left = job'.found
    BY <1>8 DEF Spawn, Work
  <2>2. job'.found = (IF job'.cmd = "golang" THEN Found' \ NoGo ELSE Found')
    BY <2>1, <1>3 DEF Work
  <2> QED BY <1>6, <2>1, <2>2 DEF JobCurrent, Work, Client
<1>9. CASE Begin
  <2>1. /\ job.cmd \in {"bundle", "golang", "rtk", "types"} /\ job.pc = "start"
        /\ GoTo(IF job.cmd = "rtk" THEN "cloud" ELSE "packages")
    BY <1>4, <1>9 DEF Begin
  <2>2. JobFits /\ job # NoJob /\ job \in JobType
    BY <2>1, JobRunning DEF StepInv, JobFits
  <2>3. /\ job'.cmd = job.cmd /\ job'.found = job.found /\ job'.left = job.left
        /\ job'.pc = IF job.cmd = "rtk" THEN "cloud" ELSE "packages"
    BY <2>1, <2>2 DEF JobType, GoTo
  <2>4. job.found = Work(job.cmd) /\ job.left = job.found
    BY <1>2, <2>1, <2>2 DEF JobCurrent
  <2>5. job'.found = (IF job'.cmd = "golang" THEN Found' \ NoGo ELSE Found')
    BY <2>3, <2>4, <1>3 DEF Work
  <2>6. /\ job'.cmd = "bundle" => Found' \ job'.left = {}
        /\ job'.cmd = "types" => Found' \ job'.left = {}
        /\ job'.cmd = "golang" => (Found' \ NoGo) \ job'.left = {}
    BY <2>3, <2>4, <1>3 DEF Work
  <2> QED BY <1>6, <2>1, <2>3, <2>5, <2>6
          DEF JobCurrent, BundledCurrent, GoCurrent, TypesCurrent, Work, Client
<1> QED BY <1>7, <1>8, <1>9

LEMMA NextCurrent ==
    ASSUME StepInv, [Next]_vars
    PROVE  Current'
<1> SUFFICES ASSUME Live' PROVE CompletedCurrent' /\ JobCurrent'
  BY DEF Current
<1>1. CASE Validate \/ Begin \/ Spawn
  BY <1>1, StartCurrent
<1>2. CASE PackagesDone
  BY <1>2, DoneCurrent
<1>3. CASE BundleStep
  BY <1>3, BundleCurrent
<1>4. CASE GenerateGo
  BY <1>4, GoCurrentStep
<1>5. ASSUME NEW c \in Client, GenerateRtk(c) PROVE CompletedCurrent' /\ JobCurrent'
  BY <1>5, RtkCurrentStep
<1>6. CASE GenerateTypes
  BY <1>6, TypesCurrentStep
<1>7. CASE ToolFails \/ Kill
  BY <1>7 DEF ToolFails, Kill, Abort, Live
<1>8. ASSUME NEW p \in Package, NEW doc \in Document \cup {Absent}, Edit(p, doc)
      PROVE  CompletedCurrent' /\ JobCurrent'
  BY <1>8 DEF Edit, Live
<1>9. ASSUME NEW t \in Command, Invoke(t) PROVE CompletedCurrent' /\ JobCurrent'
  <2>1. completed' = {} /\ job' = job /\ job = NoJob
    BY <1>9 DEF Invoke, StepInv, Control, JobFits
  <2> QED BY <2>1, NoJobIsNone DEF CompletedCurrent, JobCurrent
<1>10. ASSUME UNCHANGED <<src, files, completed, job, edited, warned>>, status \in {"running", "ok"}
       PROVE  CompletedCurrent' /\ JobCurrent'
  <2>1. CompletedCurrent /\ JobCurrent
    BY <1>10 DEF StepInv, Current, Live
  <2>2. Found' = Found /\ ToMerge' = ToMerge /\ Work(job.cmd)' = Work(job.cmd)
    BY <1>10, SourceStays DEF Work
  <2> QED BY <1>10, <2>1, <2>2 DEF CompletedCurrent, JobCurrent, BundledCurrent, MergedCurrent,
          SpecCurrent, GoCurrent, RtkCurrent, TypesCurrent, Work, files
<1>11. CASE Resolve \/ Succeed
  BY <1>10, <1>11 DEF Resolve, Succeed
<1>12. CASE UNCHANGED vars
  BY <1>10, <1>12 DEF vars, files, Live
<1> QED BY <1>1, <1>2, <1>3, <1>4, <1>5, <1>6, <1>7, <1>8, <1>9, <1>11, <1>12 DEF Next, Step, BundleStep

(* A build that succeeds leaves every file of the commands it ran as the   *)
(* present schemas determine it, for any packages and whatever builds that *)
(* failed or were killed have left, with the exceptions SuccessIsCurrent   *)
(* names.                                                                  *)
THEOREM SuccessLeavesCurrent == Spec => []SuccessIsCurrent
<1>1. Init => StepInv
  BY InitControl, InitFiles DEF StepInv, Init, Current, Live
<1>2. StepInv /\ [Next]_vars => StepInv'
  BY NextControl, NextFiles, NextCurrent DEF StepInv
<1>3. StepInv => SuccessIsCurrent
  <2> SUFFICES ASSUME StepInv, status = "ok", ~edited, ToMerge # {}
               PROVE  /\ "bundle" \in completed =>
                           BundledCurrent(Found) /\ \A c \in Client : SpecCurrent(c)
                      /\ "golang" \in completed => GoCurrent(Found \ NoGo)
                      /\ "rtk" \in completed => \A c \in Client : RtkCurrent(c)
                      /\ "types" \in completed => TypesCurrent(Found)
    BY DEF SuccessIsCurrent, BundledCurrent, SpecCurrent, GoCurrent, RtkCurrent, TypesCurrent
  <2> QED BY DEF StepInv, Current, Live, CompletedCurrent
<1> QED BY <1>1, <1>2, <1>3, PTL DEF Spec

-----------------------------------------------------------------------------
(* The walk of pruneComponents: what is reached or queued lies in every    *)
(* closed set, and what a reached component refers to is reached or queued;*)
(* when the queue is empty the reached references are themselves a closed  *)
(* set, hence the least one.                                               *)

Pending == reached \cup Range(queue)

WalkInv ==
    /\ WalkTypeOK
    /\ roots \subseteq Pending
    /\ \A r \in reached \cap Defined : components[r] \subseteq Pending
    /\ \A C \in SUBSET Ref : Closed(C) => Pending \subseteq C
    /\ pc = "done" => queue = <<>> /\ pruned = Defined \cap reached

(* The elements of an ordering of S are those of S. *)
LEMMA OrdersOf ==
    ASSUME NEW S \in SUBSET Ref, NEW s \in Orders(S)
    PROVE  s \in Seq(Ref) /\ Range(s) = S
<1>1. IsFiniteSet(S)
  BY RefsFinite, FS_Subset
<1>2. Cardinality(S) \in Nat
  BY <1>1, FS_CardinalityType
<1>3. s \in [1..Cardinality(S) -> S] /\ \A t \in S : \E i \in 1..Cardinality(S) : s[i] = t
  BY DEF Orders, Bijection, Surjection
<1>4. s \in Seq(S)
  BY <1>2, <1>3
<1>5. s \in Seq(Ref)
  BY <1>2, <1>3
<1> QED BY <1>3, <1>5 DEF Range

(* A pop takes the last element away and nothing else. *)
LEMMA PopRange ==
    ASSUME NEW q \in Seq(Ref), q # <<>>
    PROVE  /\ Popped(q) \in Seq(Ref)
           /\ q[Len(q)] \in Ref
           /\ Range(q) = Range(Popped(q)) \cup {q[Len(q)]}
<1> DEFINE n == Len(q)
<1>1. n \in Nat /\ n > 0 /\ DOMAIN q = 1..n /\ \A i \in 1..n : q[i] \in Ref
  OBVIOUS
<1>2. Popped(q) = [i \in 1..(n - 1) |-> q[i]]
  BY <1>1 DEF Popped
<1>3. Popped(q) \in Seq(Ref)
  <2>1. n - 1 \in Nat /\ \A i \in 1..(n - 1) : q[i] \in Ref
    BY <1>1
  <2> HIDE DEF n
  <2> QED BY <1>2, <2>1
<1>4. Range(q) = {q[i] : i \in 1..n} /\ Range(Popped(q)) = {q[i] : i \in 1..(n - 1)}
  BY <1>1, <1>2 DEF Range
<1>5. 1..n = (1..(n - 1)) \cup {n}
  BY <1>1
<1>6. {q[i] : i \in 1..n} = {q[i] : i \in 1..(n - 1)} \cup {q[n]}
  BY <1>5
<1> QED BY <1>1, <1>3, <1>4, <1>6

(* Pushing a sequence adds its elements. *)
LEMMA PushRange ==
    ASSUME NEW q \in Seq(Ref), NEW s \in Seq(Ref)
    PROVE  q \o s \in Seq(Ref) /\ Range(q \o s) = Range(q) \cup Range(s)
<1>1. /\ q \o s \in Seq(Ref)
      /\ Len(q \o s) = Len(q) + Len(s)
      /\ \A i \in 1..Len(q) : (q \o s)[i] = q[i]
      /\ \A i \in 1..Len(s) : (q \o s)[Len(q) + i] = s[i]
  OBVIOUS
<1>2. Range(q \o s) \subseteq Range(q) \cup Range(s)
  <2> SUFFICES ASSUME NEW i \in 1..(Len(q) + Len(s))
               PROVE  (q \o s)[i] \in Range(q) \cup Range(s)
    BY <1>1 DEF Range
  <2>1. CASE i <= Len(q)
    BY <2>1, <1>1 DEF Range
  <2>2. CASE i > Len(q)
    <3>1. i - Len(q) \in 1..Len(s) /\ i = Len(q) + (i - Len(q))
      BY <2>2
    <3>2. (q \o s)[i] = s[i - Len(q)]
      BY <3>1, <1>1
    <3> QED BY <3>1, <3>2 DEF Range
  <2> QED BY <2>1, <2>2
<1>3. Range(q) \subseteq Range(q \o s)
  <2> SUFFICES ASSUME NEW i \in 1..Len(q) PROVE q[i] \in Range(q \o s)
    BY DEF Range
  <2>1. i \in 1..(Len(q) + Len(s))
    OBVIOUS
  <2> QED BY <2>1, <1>1 DEF Range
<1>4. Range(s) \subseteq Range(q \o s)
  <2> SUFFICES ASSUME NEW i \in 1..Len(s) PROVE s[i] \in Range(q \o s)
    BY DEF Range
  <2>1. Len(q) + i \in 1..(Len(q) + Len(s))
    OBVIOUS
  <2> QED BY <2>1, <1>1 DEF Range
<1> QED BY <1>1, <1>2, <1>3, <1>4

LEMMA InitWalk == WalkInit => WalkInv
<1> SUFFICES ASSUME WalkInit PROVE WalkInv
  OBVIOUS
<1>1. queue \in Seq(Ref) /\ Range(queue) = roots
  BY OrdersOf DEF WalkInit
<1>2. Pending = roots
  BY <1>1 DEF Pending, WalkInit
<1>3. WalkTypeOK
  BY <1>1 DEF WalkInit, WalkTypeOK, Defined
<1>4. \A C \in SUBSET Ref : Closed(C) => Pending \subseteq C
  BY <1>2 DEF Closed
<1> QED BY <1>2, <1>3, <1>4 DEF WalkInv, WalkInit

LEMMA NextWalk == WalkInv /\ [WalkNext]_walk => WalkInv'
<1> SUFFICES ASSUME WalkInv, [WalkNext]_walk PROVE WalkInv'
  OBVIOUS
<1> USE DEF WalkInv
<1>1. CASE SkipReached
  <2>1. /\ Popped(queue) \in Seq(Ref)
        /\ Range(queue) = Range(Popped(queue)) \cup {Top}
    BY <1>1, PopRange DEF SkipReached, WalkTypeOK, Top
  <2>2. Pending' = Pending
    BY <1>1, <2>1 DEF SkipReached, Pending, Seen
  <2>3. WalkTypeOK'
    BY <1>1, <2>1 DEF SkipReached, WalkTypeOK, document, Defined
  <2>4. \A C : Closed(C)' <=> Closed(C)
    BY <1>1 DEF SkipReached, document, Closed, Defined
  <2> QED BY <1>1, <2>2, <2>3, <2>4 DEF SkipReached, document, Defined
<1>2. CASE SkipUndefined
  <2>1. /\ Popped(queue) \in Seq(Ref)
        /\ Top \in Ref
        /\ Range(queue) = Range(Popped(queue)) \cup {Top}
    BY <1>2, PopRange DEF SkipUndefined, WalkTypeOK, Top
  <2>2. Pending' = Pending
    BY <1>2, <2>1 DEF SkipUndefined, Pending
  <2>3. WalkTypeOK'
    BY <1>2, <2>1 DEF SkipUndefined, WalkTypeOK, document, Defined
  <2>4. \A C : Closed(C)' <=> Closed(C)
    BY <1>2 DEF SkipUndefined, document, Closed, Defined
  <2>5. reached' \cap Defined' = reached \cap Defined
    BY <1>2 DEF SkipUndefined, document, Defined
  <2> QED BY <1>2, <2>2, <2>3, <2>4, <2>5 DEF SkipUndefined, document, Defined
<1>3. CASE Visit
  <2>1. PICK nested \in Orders(Nested(Top)) : queue' = Popped(queue) \o nested
    BY <1>3 DEF Visit
  <2>2. /\ Popped(queue) \in Seq(Ref)
        /\ Top \in Ref \cap Defined
        /\ Range(queue) = Range(Popped(queue)) \cup {Top}
    BY <1>3, PopRange DEF Visit, WalkTypeOK, Top
  <2>3. Nested(Top) \in SUBSET Ref
    BY <2>2 DEF Nested, WalkTypeOK
  <2>4. nested \in Seq(Ref) /\ Range(nested) = Nested(Top)
    BY <2>3, OrdersOf
  <2>5. queue' \in Seq(Ref) /\ Range(queue') = Range(Popped(queue)) \cup Nested(Top)
    BY <2>1, <2>2, <2>4, PushRange
  <2>6. Pending' = Pending \cup components[Top]
    BY <1>3, <2>2, <2>5 DEF Visit, Pending, Nested
  <2>7. WalkTypeOK'
    BY <1>3, <2>2, <2>5 DEF Visit, WalkTypeOK, document, Defined
  <2>8. \A C : Closed(C)' <=> Closed(C)
    BY <1>3 DEF Visit, document, Closed, Defined
  <2>9. ASSUME NEW C \in SUBSET Ref, Closed(C) PROVE Pending' \subseteq C
    <3>1. Pending \subseteq C
      BY <2>9
    <3>2. Top \in C \cap Defined
      BY <3>1, <2>2 DEF Pending
    <3> QED BY <2>6, <2>9, <3>1, <3>2 DEF Closed
  <2>10. \A r \in reached' \cap Defined' : components'[r] \subseteq Pending'
    BY <1>3, <2>6 DEF Visit, document, Defined
  <2> QED BY <1>3, <2>6, <2>7, <2>8, <2>9, <2>10 DEF Visit, document
<1>4. CASE Finish
  <2>1. Pending' = Pending /\ Defined' = Defined /\ components' = components /\ roots' = roots
    BY <1>4 DEF Finish, Pending, document, Defined
  <2>2. WalkTypeOK'
    BY <1>4, <2>1 DEF Finish, WalkTypeOK
  <2>3. \A C : Closed(C)' <=> Closed(C)
    BY <2>1 DEF Closed
  <2> QED BY <1>4, <2>1, <2>2, <2>3 DEF Finish
<1>5. CASE UNCHANGED walk
  BY <1>5 DEF walk, document, WalkTypeOK, Pending, Closed, Defined
<1> QED BY <1>1, <1>2, <1>3, <1>4, <1>5 DEF WalkNext

LEMMA WalkPruned == WalkInv => PrunedExactly
<1> SUFFICES ASSUME WalkInv, pc = "done"
             PROVE  pruned = {r \in Defined : \A C \in SUBSET Ref : Closed(C) => r \in C}
  BY DEF PrunedExactly
<1>1. Pending = reached
  BY DEF WalkInv, Pending, Range
<1>2. reached \in SUBSET Ref /\ Closed(reached)
  BY <1>1 DEF WalkInv, WalkTypeOK, Closed
<1>3. \A C \in SUBSET Ref : Closed(C) => reached \subseteq C
  BY <1>1 DEF WalkInv
<1> QED BY <1>2, <1>3 DEF WalkInv

(* Every variable keeps its type, whatever the references of the document. *)
THEOREM WalkTypeCorrect == WalkSpec => []WalkTypeOK
<1>1. WalkInv => WalkTypeOK
  BY DEF WalkInv
<1> QED BY <1>1, InitWalk, NextWalk, PTL DEF WalkSpec

(* pruneComponents keeps the components that the roots need and no other,  *)
(* for documents of any size and shape.                                    *)
THEOREM PruneIsExact == WalkSpec => []PrunedExactly
<1> QED BY InitWalk, NextWalk, WalkPruned, PTL DEF WalkSpec
=============================================================================
