------------------------------- MODULE Build -------------------------------
(***************************************************************************)
(* The build command, build/index.js, with the scripts it runs:            *)
(* bundle-openapi.js and filterOpenapiByTag.js, generate-golang.js,        *)
(* generate-rtk.js and generate-typescript.js, and the files they leave.   *)
(*                                                                         *)
(* One action is one file, or one pair of files, that a script writes, one *)
(* of its checks, or one step of runCommand.  Meanwhile people edit the    *)
(* schemas, a tool fails, or the build is killed; what was written stays.  *)
(*                                                                         *)
(* A definition whose name holds "__" is a faulty variant of the one it    *)
(* precedes.                                                               *)
(***************************************************************************)
EXTENDS Naturals, Sequences, FiniteSets

CONSTANTS
    NumPackages,        \* packages are numbered in the order of discovery
    Document,           \* contents an api.yml may have: see DocumentType
    Word,               \* what stands between the underscores of a text
    Title, NoTitle,     \* info.title, with its white space replaced by "_"
    Route,              \* a path and a method
    Name, Scheme,       \* names and definitions of security schemes
    NeverMerged,        \* excludeFromMergeStatic
    NoGo,               \* excludeFromGoGeneration
    Absent,             \* the content of a file that is not there
    Checkouts,          \* the schemas to begin with
    Faults,             \* what may go wrong: see Fault
    MaxEdits, MaxBuilds \* bounds on the environment

Package == 1 .. NumPackages
Client  == {"cloud", "meshery"}
Fault   == {"validate", "tool", "types", "kill"}

(* An api.yml with one operation and one security scheme.  That the scheme *)
(* is required is said by the operation, or by the document for all its    *)
(* operations.  clients is x-internal: empty when it is missing.           *)
DocumentType == [title : Title \cup {NoTitle}, route : Route, clients : SUBSET Client,
                 name : Name, scheme : Scheme, required : {"operation", "document"},
                 deprecated : BOOLEAN]

ASSUME ConstantsOK ==
    /\ NumPackages \in Nat /\ MaxEdits \in Nat /\ MaxBuilds \in Nat
    /\ Document \subseteq DocumentType
    /\ Absent \notin Document
    /\ Checkouts \subseteq [Package -> Document]
    /\ Title \subseteq Seq(Word) /\ Name \subseteq Seq(Word)
    /\ NoTitle \notin Title
    /\ NeverMerged \subseteq Package /\ NoGo \subseteq Package
    /\ Faults \subseteq Fault

VARIABLES
    src,                \* schemas/constructs: the api.yml of each package
    bundled, merged, spec,  \* _openapi_build
    go, rtk, types,     \* the generated Go, RTK and TypeScript files
    target, todo, completed, status,    \* the build: runCommand's calls to come and its Set
    job,                \* the script that runs
    edited, warned,     \* the schemas changed since it began; it warned of TypeScript files
    edits, builds

files   == <<bundled, merged, spec, go, rtk, types>>
bounds  == <<edits, builds>>
vars    == <<src, bundled, merged, spec, go, rtk, types, target, todo, completed, status,
             job, edited, warned, edits, builds>>

Command == {"validate", "bundle", "golang", "rtk", "types", "all"}
Pipeline == <<"validate", "bundle", "golang", "rtk", "types">>
DependsOn__Ignored(c) == {}
DependsOn(c) == IF c \in {"golang", "rtk", "types"} THEN {"bundle"} ELSE {}

NoJob == [cmd |-> "none", pc |-> "none", found |-> {}, left |-> {}]

TypeOK ==
    /\ src \in [Package -> Document \cup {Absent}]
    /\ bundled \in [Package -> Document \cup {Absent}]
    /\ DOMAIN spec = Client /\ DOMAIN go = Package /\ DOMAIN rtk = Client
    /\ types \in [Package -> [types : Document \cup {Absent}, schema : Document \cup {Absent}]]
    /\ target \in Command
    /\ todo \in Seq(Command)
    /\ completed \subseteq Command \ {"all"}
    /\ status \in {"none", "running", "ok", "failed"}
    /\ job = NoJob \/
       job \in [cmd : Command \ {"all"}, pc : {"start", "packages"} \cup Client,
               found : SUBSET Package, left : SUBSET Package]
    /\ edited \in BOOLEAN /\ warned \in BOOLEAN
    /\ edits \in 0..MaxEdits /\ builds \in 0..MaxBuilds

-----------------------------------------------------------------------------
(* Merging and filtering *)

First(S) == CHOOSE p \in S : \A q \in S : p <= q
Last(S)  == CHOOSE p \in S : \A q \in S : p >= q

(* getMergePackages: x-deprecated is read from the schemas, and an api.yml *)
(* that cannot be read is not deprecated.                                  *)
MergePackages(found, content) ==
    {p \in found \ NeverMerged : content[p] = Absent \/ ~content[p].deprecated}

(* "<title>_<name>": the texts are put together, so that their words may   *)
(* read the same with another title and another name.                      *)
Prefixed(doc) == doc.title \o doc.name

Required__Plain(doc) == IF doc.required = "operation" THEN {doc.name} ELSE {}
(* prefixSecurityRequirement renames what the operation itself requires.   *)
(* What the document requires for all its operations is not merged.        *)
Required(doc) == IF doc.required = "operation" THEN {Prefixed(doc)} ELSE {}

Operation(p, doc) == [route |-> doc.route, clients |-> doc.clients, needs |-> Required(doc),
                      package |-> p, title |-> doc.title]

(* A bundle is missing, or mergeOpenapiSpec throws. *)
CannotMerge(P, content) ==
    \/ \E p \in P : content[p] = Absent \/ content[p].title = NoTitle
    \/ \E p, q \in P : p # q /\ content[p].route = content[q].route

(* Of two definitions with one name the later package's stays. *)
Merge(P, content) ==
    [operations |-> {Operation(p, content[p]) : p \in P},
     schemes |-> [name \in {Prefixed(content[p]) : p \in P} |->
                    LET last == Last({p \in P : Prefixed(content[p]) = name})
                    IN  [scheme |-> content[last].scheme, package |-> last,
                         title |-> content[last].title]]]

Filtered(doc, c) == {op \in doc.operations : c \in op.clients}

Needs(operations) == UNION {op.needs : op \in operations}

(* filterOpenapiByTag of a merged document. *)
Filter(doc, c) ==
    LET operations == Filtered(doc, c)
        kept == Needs(operations) \cap DOMAIN doc.schemes
    IN  [operations |-> operations, schemes |-> [name \in kept |-> doc.schemes[name]]]

-----------------------------------------------------------------------------

Init ==
    /\ src \in Checkouts
    /\ bundled = [p \in Package |-> Absent]
    /\ merged = Absent
    /\ spec = [c \in Client |-> Absent]
    /\ go = [p \in Package |-> Absent]
    /\ rtk = [c \in Client |-> Absent]
    /\ types = [p \in Package |-> [types |-> Absent, schema |-> Absent]]
    /\ target = "all" /\ todo = <<>> /\ completed = {} /\ status = "none"
    /\ job = NoJob
    /\ edited = FALSE /\ warned = FALSE
    /\ edits = 0 /\ builds = 0

(* People change, delete or restore a package's schema at any time. *)
Edit(p, doc) ==
    /\ edits < MaxEdits
    /\ doc # src[p]
    /\ src' = [src EXCEPT ![p] = doc]
    /\ edited' = TRUE
    /\ edits' = edits + 1
    /\ UNCHANGED <<files, target, todo, completed, status, job, warned, builds>>

Invoke(t) ==
    /\ status # "running"
    /\ builds < MaxBuilds
    /\ target' = t
    /\ todo' = <<t>>
    /\ completed' = {}
    /\ status' = "running"
    /\ edited' = FALSE
    /\ warned' = FALSE
    /\ builds' = builds + 1
    /\ UNCHANGED <<src, files, job, edits>>

(* What runCommand(c) calls before anything of its own: nothing when c has *)
(* been completed.                                                         *)
Ready(c) == c # "all" /\ c \notin completed /\ DependsOn(c) \subseteq completed
Calls(c) ==
    CASE c \in completed -> <<>>
      [] c = "all"       -> Pipeline
      [] OTHER           -> <<"bundle", c>>

Resolve ==
    /\ status = "running" /\ job = NoJob /\ todo # <<>>
    /\ ~Ready(Head(todo))
    /\ todo' = Calls(Head(todo)) \o Tail(todo)
    /\ UNCHANGED <<src, files, target, completed, status, job, edited, warned, bounds>>

(* A script discovers the packages once (getSchemaPackages caches them).   *)
Found == {p \in Package : src[p] # Absent}
Spawn ==
    /\ status = "running" /\ job = NoJob /\ todo # <<>>
    /\ Ready(Head(todo))
    /\ LET c == Head(todo)
           work == IF c = "golang" THEN Found \ NoGo ELSE Found
       IN  job' = [cmd |-> c, pc |-> "start", found |-> work, left |-> work]
    /\ UNCHANGED <<src, files, target, todo, completed, status, edited, warned, bounds>>

Succeed ==
    /\ status = "running" /\ job = NoJob /\ todo = <<>>
    /\ status' = "ok"
    /\ UNCHANGED <<src, files, target, todo, completed, job, edited, warned, bounds>>

-----------------------------------------------------------------------------
(* Steps of the scripts *)

At(c, pc) == status = "running" /\ job.cmd = c /\ job.pc = pc

Left__Same(p) == job.left
Left(p) == job.left \ {p}

GoTo(pc) == job' = [job EXCEPT !.pc = pc]
KeepBuild == UNCHANGED <<target, todo, completed, status>>
Rest == UNCHANGED <<src, edited, bounds>>

Exit__Target ==
    /\ completed' = completed \cup {target}
    /\ todo' = Tail(todo)
    /\ job' = NoJob
    /\ UNCHANGED <<target, status>>
(* The script exits with 0 and runCommand goes on. *)
Exit ==
    /\ completed' = completed \cup {job.cmd}
    /\ todo' = Tail(todo)
    /\ job' = NoJob
    /\ UNCHANGED <<target, status>>

Abort__Ignored ==
    /\ job' = NoJob
    /\ todo' = Tail(todo)
    /\ UNCHANGED <<target, completed, status>>
(* The script exits with 1, runProcess rejects and main exits with 1. *)
Abort ==
    /\ status' = "failed"
    /\ job' = NoJob
    /\ todo' = <<>>
    /\ UNCHANGED <<target, completed>>

Validate ==
    /\ At("validate", "start")
    /\ Exit \/ ("validate" \in Faults /\ Abort)
    /\ Rest /\ UNCHANGED <<files, warned>>

(* checkPrerequisites and the discovery of packages. *)
MissingPrerequisite ==
    \/ job.cmd # "rtk" /\ job.left = {}
    \/ job.cmd = "rtk" /\ \E c \in Client : spec[c] = Absent
Begin ==
    /\ job.cmd \in {"bundle", "golang", "rtk", "types"} /\ job.pc = "start"
    /\ status = "running"
    /\ IF MissingPrerequisite
         THEN Abort
         ELSE /\ GoTo(CASE job.cmd = "rtk" -> "cloud" [] OTHER -> "packages")
              /\ KeepBuild
    /\ Rest /\ UNCHANGED <<files, warned>>

(* A tool (the reference parser, oapi-codegen, npx) fails: nothing written. *)
ToolFails ==
    /\ status = "running" /\ job.cmd \in {"bundle", "golang", "rtk"}
    /\ "tool" \in Faults
    /\ Abort
    /\ Rest /\ UNCHANGED <<files, warned>>

BundleSchema ==
    /\ At("bundle", "packages") /\ job.left # {}
    /\ LET p == First(job.left)
       IN  IF src[p] = Absent
             THEN Abort /\ UNCHANGED bundled
             ELSE /\ bundled' = [bundled EXCEPT ![p] = src[p]]
                  /\ job' = [job EXCEPT !.left = Left(p)]
                  /\ KeepBuild
    /\ Rest /\ UNCHANGED <<merged, spec, go, rtk, types, warned>>

(* mergeSchemas: with nothing to merge it warns and leaves what an earlier *)
(* build has merged.                                                       *)
MergeSchemas ==
    /\ At("bundle", "packages") /\ job.left = {}
    /\ LET P == MergePackages(job.found, src)
       IN  IF P # {} /\ CannotMerge(P, bundled)
             THEN Abort /\ UNCHANGED merged
             ELSE /\ merged' = IF P = {} THEN merged ELSE Merge(P, bundled)
                  /\ GoTo("cloud") /\ KeepBuild
    /\ Rest /\ UNCHANGED <<bundled, spec, go, rtk, types, warned>>

AfterClient(c) == IF c = "cloud" THEN GoTo("meshery") /\ KeepBuild ELSE Exit

(* filterOpenapiByTag throws when an operation has no x-internal. *)
FilterByTag(c) ==
    /\ At("bundle", c)
    /\ IF merged = Absent \/ \E op \in merged.operations : op.clients = {}
         THEN Abort /\ UNCHANGED spec
         ELSE /\ spec' = [spec EXCEPT ![c] = Filter(merged, c)]
              /\ AfterClient(c)
    /\ Rest /\ UNCHANGED <<bundled, merged, go, rtk, types, warned>>

(* generateGoModels reads the schemas, not their bundles.  oapi-codegen    *)
(* writes the file and the later passes rewrite it or throw.               *)
GenerateGo ==
    /\ At("golang", "packages") /\ job.left # {}
    /\ LET p == First(job.left)
           file(whole) == [go EXCEPT ![p] = [of |-> src[p], whole |-> whole]]
       IN  \/ /\ go' = IF src[p] = Absent THEN go ELSE file(TRUE)
              /\ job' = [job EXCEPT !.left = Left(p)]
              /\ KeepBuild
           \/ /\ "tool" \in Faults /\ src[p] # Absent
              /\ go' = file(FALSE)
              /\ Abort
    /\ Rest /\ UNCHANGED <<bundled, merged, spec, rtk, types, warned>>

(* generateRtkClient: the codegen's file, then guardOptionalQueryParams,   *)
(* which throws and leaves the unguarded file.                             *)
GenerateRtk(c) ==
    /\ At("rtk", c)
    /\ LET file(whole) == [rtk EXCEPT ![c] = [of |-> spec[c], whole |-> whole]]
       IN  \/ rtk' = file(TRUE) /\ AfterClient(c)
           \/ "tool" \in Faults /\ rtk' = file(FALSE) /\ Abort
    /\ Rest /\ UNCHANGED <<bundled, merged, spec, go, types, warned>>

(* generateTypescriptTypes: the types, then the document as a constant.    *)
(* Either failure is a warning, after which the script goes on.            *)
GenerateTypes ==
    /\ At("types", "packages") /\ job.left # {}
    /\ LET p == First(job.left)
           new == bundled[p]
       IN  /\ \/ /\ types' = IF new = Absent THEN types
                             ELSE [types EXCEPT ![p] = [types |-> new, schema |-> new]]
                 /\ warned' = (warned \/ new = Absent)
              \/ /\ "types" \in Faults
                 /\ \/ types' = types
                    \/ new # Absent /\ types' = [types EXCEPT ![p].types = new]
                 /\ warned' = TRUE
           /\ job' = [job EXCEPT !.left = Left(p)]
    /\ KeepBuild /\ Rest /\ UNCHANGED <<bundled, merged, spec, go, rtk>>

PackagesDone ==
    /\ status = "running" /\ job.cmd \in {"golang", "types"}
    /\ job.pc = "packages" /\ job.left = {}
    /\ Exit
    /\ Rest /\ UNCHANGED <<files, warned>>

(* The process is interrupted. *)
Kill ==
    /\ status = "running" /\ "kill" \in Faults
    /\ Abort
    /\ Rest /\ UNCHANGED <<files, warned>>

Step ==
    \/ Resolve \/ Spawn \/ Succeed
    \/ Validate \/ Begin \/ PackagesDone
    \/ BundleSchema \/ MergeSchemas
    \/ \E c \in Client : FilterByTag(c) \/ GenerateRtk(c)
    \/ GenerateGo \/ GenerateTypes

Next ==
    \/ Step \/ ToolFails \/ Kill
    \/ \E p \in Package, doc \in Document \cup {Absent} : Edit(p, doc)
    \/ \E t \in Command : Invoke(t)

Spec == Init /\ [][Next]_vars

(* A child process ends, with an answer or without one: runProcess waits   *)
(* for it without a limit.                                                 *)
FairSpec == Spec /\ WF_vars(Step)

-----------------------------------------------------------------------------
(* Properties *)

ToMerge == MergePackages(Found, src)

(* A build that succeeds, and during which nobody edits the schemas, leaves*)
(* every file of the commands it ran as the present schemas determine it,  *)
(* whatever earlier builds that failed, were killed or raced with an edit  *)
(* have left on the disk.  In three cases it succeeds with stale files:    *)
(* nothing is left to merge; it warned of a package's TypeScript files; or *)
(* SCHEMA_PACKAGE, which no invocation here sets, kept generate-golang.js  *)
(* to some of the packages.                                                *)
SuccessIsCurrent ==
    status = "ok" /\ ~edited /\ ToMerge # {} =>
        /\ "bundle" \in completed =>
             /\ \A p \in Found : bundled[p] = src[p]
             /\ \A c \in Client : spec[c] = Filter(Merge(ToMerge, src), c)
        /\ "golang" \in completed =>
             \A p \in Found \ NoGo : go[p] = [of |-> src[p], whole |-> TRUE]
        /\ "rtk" \in completed =>
             \A c \in Client : rtk[c] = [of |-> Filter(Merge(ToMerge, src), c), whole |-> TRUE]
        /\ "types" \in completed /\ ~warned =>
             \A p \in Found : types[p] = [types |-> src[p], schema |-> src[p]]

(* One title goes on where the other ends, or they are the same. *)
Begins(t, u) == Len(t) <= Len(u) /\ t = SubSeq(u, 1, Len(t))

(* A client's specification is whole at any time, even between the steps of*)
(* a build and after one that failed.  It holds operations of that client  *)
(* only, and the security schemes that these operations require themselves,*)
(* no fewer and no more: a scheme that only a whole document requires is   *)
(* left out.  The name an operation uses leads to its own package's scheme,*)
(* or to that of a later package, and of one with another title only when  *)
(* one of the two titles begins with the other.                            *)
SpecsAreWhole ==
    \A c \in Client : spec[c] # Absent =>
        LET schemes == spec[c].schemes
        IN  /\ DOMAIN schemes = Needs(spec[c].operations)
            /\ \A op \in spec[c].operations :
                 /\ c \in op.clients
                 /\ \A name \in op.needs :
                      /\ schemes[name].package >= op.package
                      /\ \/ Begins(op.title, schemes[name].title)
                         \/ Begins(schemes[name].title, op.title)

Promise == INSTANCE BuildSpec WITH target <- target, done <- completed, status <- status

(* The build command keeps the promise of BuildSpec: each part of a command*)
(* runs once and after those it reads from, the full pipeline validates    *)
(* first, and the command succeeds exactly when all its parts have.        *)
BuildRefined == Promise!Spec

(* Every invocation ends: resolving dependencies, going through the        *)
(* packages and the clients does not go round in circles.                  *)
InvocationEnds == status = "running" ~> status # "running"
=============================================================================
