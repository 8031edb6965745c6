# TLA+ models of meshery-schemas

This directory holds the verification project of the repository: TLA+ modules
for the parts of it that keep state or decide something, TLC configurations that
check them on small instances, and proofs that TLAPS checks for every instance.
Paths below are relative to the repository.

## 1. The system

The repository is the schema hub of Meshery: OpenAPI and JSON schemas of the
platform's constructs, the Go and TypeScript code generated from them, helpers
written by hand beside the generated Go types, and the tools that build, audit
and publish all of it. Most of its files are schemas, generated code and
templates. The logic is in these parts.

| Component | Where | State it keeps | Operations | What is hard |
|---|---|---|---|---|
| Entity registry | `models/v1beta1/{category,model,component}/*_helper.go`, `models/v1beta2/model`, `models/v1beta3/{component,connection}`, `models/v1alpha3/relationship` | tables of categories, models, components, connection definitions, relationships; the package mutexes `categoryCreationLock`, `modelCreationLock` | `Create` of each entity (a component creates its model, a model its category), `UpdateStatus` | check-then-insert by many goroutines and several servers, one mutex taken inside the other, an insert that fails or whose answer is lost, crashes between the inserts |
| Connections | `models/v1beta1/connection/connection_helper.go` | table of connections, mutex `connectionCreation`, the caller's struct | `Create` | the id is a hash of a struct that `Create` changes |
| Consumer audit: matching | `validation/matcher.go`, `validation/consumer_audit.go`, `validation/endpoint_index.go` | the index of schema endpoints, the routes of two servers, which of them have been joined | `matchEndpoints`, `assessConsumers`, `buildAuditRows`, `sortAuditRows` | exact and loose keys, exclusive and shared joins, an order that depends on map iteration |
| Consumer audit: sheet | `validation/sheets.go` | a Google sheet that people edit too, with rows keyed by endpoint | `reconcile`, `planSheetUpdateWithSummary`, `writeSheet` | two calls that are not atomic together, row numbers that are stale when used, retries after a failure, rows keyed by a key that is not unique |
| Schema audit | `validation/audit.go`, `validation/baseline.go`, `validation/severity.go`, `validation/rules_*.go`, `cmd/validate-schemas` | violations, the baseline of known ones | classify, compare with the baseline, exit status | two classifications of one rule, strict and advisory modes |
| Permission updates | `build/generate-permission-golang.js`, `build/generate-permissions-ts.js`, `build/lib/permissions.js`, `build/diff-permissions.js`, `build/apply-permissions-updates.js` | the sheet of keys, `permissions_history`, two files of constants, a diff, the files of a consumer rewritten in place by `sed` | parse, save an index, write constants, diff two indexes, rename | two generators that overlap or are interrupted, renames that chain or overlap, a failure half-way, a diff applied twice |
| Build command | `build/index.js`, `build/lib/exec.js`, `Makefile` | the set of completed commands, the child process, every file the scripts leave | `runCommand`, `runProcess`, `main` | files left by builds that failed, were killed or raced with an edit |
| OpenAPI bundling, filtering | `build/bundle-openapi.js`, `build/filterOpenapiByTag.js`, `build/lib/config.js` | `_openapi_build`: bundles, the merged document, a specification per client | bundle, merge with prefixes, filter by `x-internal`, prune components | collisions of titles, references that cycle or dangle, schemas edited between two readings |
| RTK generation | `build/generate-rtk.js`, `typescript/rtk/api.ts` | generated client files, patched after generation | generate, guard optional parameters, inject the API export | a patch that throws after the file was written |
| Go and TypeScript generation | `build/generate-golang.js`, `build/generate-typescript.js` | generated files | generate, rewrite | failures that are only warnings, files written from bundles and from schemas |
| Artifact workflow | `.github/workflows/generate-artifacts-from-schemas.yml` | master, the checkouts of jobs | a job per push: checkout, build, pull, commit and push | several jobs at once, a pull that is refused, a push that is rejected |
| Publishing workflows | other files of `.github/workflows` | releases and npm versions, outside the repository | publish, push the new version | a version that is taken and not recorded |
| CSV download | `build/lib/csv.js` | a partly written file, redirects | `downloadUrl` | redirects, timeout against a late end |
| Design conversion | `models/v1beta1/pattern/design_conversion.go`, `models/v1beta3/design/design_conversion.go` | a design and a legacy file, which share maps | `ConvertTo`, `ConvertFrom` | a failure half-way changes the source and the destination; converting twice; values whose dynamic type depends on whether they were decoded |
| Core data types | `models/core/*.go` | values scanned from and written to columns | `Scan`, `Value`, `MarshalJSON` | NULL into a value that holds something |
| Academy and user helpers | `models/v1beta1/academy`, `models/v1beta1/user` | none | `Scan`, `Value` of JSON columns | none beyond encoding |
| Schema and generated code | `schemas/`, generated `models/`, `typescript/generated` | none | none | none: data |

How they interact: the registry's `Create` calls nest (component, model,
category) and share the database; the audit's matcher gives the rows that the
sheet update reconciles; the sheet is shared with other runs and with people; the
build command runs the bundling, the filters and the generators one after the
other, each reading the files its predecessor wrote; the artifact workflow runs
the build for every push to master and pushes what it has changed; a diff of two
saved permission indexes changes the code of consumers.

## 2. The modules

| Module | Models | Its runs | Its proofs |
|---|---|---|---|
| `RegistrySpec` | what the registry promises: three tables that only grow, a parent always before its children | as `RegistryRefined` | |
| `Registry` | every `Create` and `UpdateStatus` of the registry, one action per database call or mutex acquisition | `registry`, `registry_fair`, `registry_two_hosts` | `RegistryProofs` |
| `Connections` | `Connection.Create` | `connections` | `ConnectionsProofs` |
| `BuildSpec` | what the build command promises: which parts run, in which order, and when it succeeds | as `BuildRefined` | |
| `Build` | `runCommand` and the scripts it runs, one action per file or pair of files they write, with edits, failures and kills in between | `build` | `BuildProofs` |
| `PruneComponents` | the worklist of `pruneComponents` | `prune` | `BuildProofs` |
| `ArtifactFlow` | the jobs that regenerate master's files | `artifacts` | `ArtifactFlowProofs` |
| `Permissions` | the generators of permission constants, their saved indexes, the diff and its application | `permissions` | `PermissionsProofs` |
| `SheetSync` | the read, the reconciliation, the plan and the two write calls of the audit's sheet update, and what people do to the sheet | `sheet`, `sheet_deletions` | `SheetSyncProofs` |
| `EndpointMatch` | the join of declared endpoints with the routes of two servers, and the rows of the audit with their status | `endpoints` | `EndpointMatchProofs` |
| `DesignConversion` | both directions of the conversion of designs to the legacy format, with the maps they share | `designs` | `DesignConversionProofs` |

`Build` takes the result of the walk of `PruneComponents` as known (`Filter` keeps exactly
the schemes that are needed), which is what `PrunedExactly` establishes; `ArtifactFlow` takes
a build as one step that fails or writes the files of what is checked out, but for
TypeScript files it warns about, which is `SuccessIsCurrent`.

The modules whose names begin with `MC` give the constants their values
for TLC; a module without one is given its constants by the `.cfg`. Definitions whose name holds `__` are faulty variants of the definition
that follows them, the way a plausible mistake in the code would change it; each
property is broken by one of them, so none holds for want of behaviours.

### Registry

State: `categories`, `models`, `entities` are the tables; `modelLock` and
`categoryLock` the package mutexes, one per server process (a model mutex per
package version, `v1beta1/model` and `v1beta2/model` have one each); `pc`, `req`,
`newID`, `reply` what each goroutine does, its arguments, the random id it has
drawn and its last answer. A category and a model are identified by a hash of
their own fields, so an identity is a value (`CategoryName`, `ModelID`); components,
connection definitions and relationships draw a random uuid, so an identity is
one nobody has (`FreshIDs`).

Actions: `CallCategory` to `CallUpdateStatus` enter a `Create` or `UpdateStatus`
and run to the first mutex or database call, early returns included; `LockModel`,
`FindModel`, `InsertModel` are the three steps of `ModelDefinition.Create`,
`LockCategory`, `FindCategory`, `InsertCategory` those of
`CategoryDefinition.Create` (which a miss of `FindModel` calls, inside the model
mutex), `InsertEntity` the insert that ends the three other `Create`s. The
deferred unlocks happen with the answer that makes the function return. Each
database call may fail without effect, an insert may be applied and its answer
lost, `GenerateID` may fail, and a server may stop and start again at any point.

What must hold: `MutexesFollowCalls` (each mutex is held exactly between its
`Lock` and its deferred `Unlock`, whatever the return path), `CheckedStaysAbsent`
(check and insert are atomic in one process), `ParentsExist` and `ParentsReady` (no
dangling reference, in the tables or about to be written),
`RepliesAreStored` (an id that was returned is in its table), `RowsAreKept` (no row
is lost or rewritten but for a status), `EveryCallReturns`, and `RegistryRefined`: the
whole implements `RegistrySpec` under the identity mapping of the tables.

`RelationshipDefinition.Create` registers no model, and a component with an empty
schema returns `uuid.Nil` and no error, though comments
(`model_helper.go:21`, `component_helper.go:53`) say otherwise; `ParentsExist` and
`RepliesAreStored` exempt both.

### Connections

The id of a connection is the md5 of the whole struct, the `ID` field included, and
a lookup that misses assigns that field before the insert. An id is modelled as
the description it was hashed from and a `generation`: 1 when `ID` was empty, n + 1
when `ID` held an id of generation n. `Create` is a call on a struct that has just
been filled in, `CreateAgain` one on the struct of the last call.

`CheckedStaysAbsent` says that no other call inserts between a lookup that misses and
the insert, `RepliesAreStored` that an id that is returned has a row and that the row is
of the connection described, `EveryCallReturns` that the mutex is released on every path.
A struct that went through `Create` hashes to another id and makes a second row
(section 3); that is how the code is, and no property forbids it.

### Build

State: `src` is the `api.yml` of each package; `bundled`, `merged` and `spec` are
`_openapi_build`; `go`, `rtk` and `types` the generated files, each remembered by the content
it was made from and by whether its later passes went through (`whole`). `target`,
`todo`, `completed` and `status` are `runCommand`: its calls to come, in order, and its
`Set`. `job` is the script that runs: which, where it is, the packages it discovered
and those it has not dealt with. A document has one operation, with a route and
the clients of its `x-internal`, and one security scheme. The operation states that the
scheme is required, or the document does for all its operations, as in 48 `api.yml` files; the
merge drops the latter (`bundle-openapi.js:162-178`). Titles and names are sequences
of words, and `Prefixed` puts them together (`${prefix}_${name}`, line 119), so that
`Design` and `User_jwt` make the same text as `Design_User` and `jwt`.

Actions: `Invoke` is `main`; `Resolve` the calls that a command makes before anything of
its own; `Spawn` a child process; `Exit` and `Abort` its end. `BundleSchema`, `MergeSchemas`,
`FilterByTag`, `GenerateGo`, `GenerateRtk` and `GenerateTypes` each write one file or pair of
files, or throw. `Edit` changes, deletes or restores a schema at any point, `ToolFails`
and `Kill` end a script between two writes. The scripts read different things:
Go comes from the schemas, TypeScript from the bundles, a deprecation from the schemas when
merging, and each script discovers the packages anew.

`SuccessIsCurrent` is what a build is for: whatever earlier builds have left, one that
succeeds leaves every file of its commands as the present schemas determine it. It
excepts what the code does not promise: schemas edited meanwhile, TypeScript files it
warned about, a checkout with nothing to merge (`bundle-openapi.js:224`: it
warns and filters what an earlier build merged), and a `SCHEMA_PACKAGE` in the environment, with
which `generate-golang.js:1534-1556` passes over the other packages and which no invocation of the model sets.
`SpecsAreWhole` holds at every moment, failed builds
included: a client's specification has its operations only and exactly the schemes that these require
themselves, and a name leads to the scheme of its own package or of a later one, and of one with an
unrelated title never. It does not say that a client's operations keep the security their document
states, which the merge does not keep, nor that no two packages' schemes meet in one name, which they can.
`BuildRefined` compares the calls with `BuildSpec`: `target`, `status` as
they are, `done` is `completed`. `InvocationEnds` is termination.

The text of the files is left out, and with it the passes of the generators (rewrites by
regular expression); tags, servers and the metadata of the base specifications; files of packages that
no longer exist, which no script deletes; two builds at once, and npm scripts run by hand.
A file is written at once: nothing reads a file while a script writes it.

### PruneComponents

State: `components`, what each component refers to; `roots`, the references of
the operations; `reached`, `queue` and `pruned` as in the code. Every turn of the loop
is an action (`SkipReached`, `SkipUndefined`, `Visit`), and the elements of a JavaScript `Set`
come in any order. `PrunedExactly` compares the result with its definition, the least set
that is closed under references, and `PruneEnds` says that there is always a result.

### ArtifactFlow

State: `tip`, the number of commits on master; for each unit (files generated from
schemas that change together) the commit that last changed its schemas (`src`) and the one
its files come from (`art`); for each job where it is, what it has checked out and the commit
it has pulled up to, and what its build has changed (`built`). `Checkout` takes the newest master, not the commit of the event. `Pull`
is refused when master has changed a file that the build has changed too; a push
is rejected when master has moved since the pull. A job that is refused fails and nobody
repeats it. A build that cannot generate the TypeScript file of a package warns, keeps the old one
and succeeds (`generate-typescript.js:100-106`, `122-127`; `Makefile:238` does not ask for more):
`TypeScript` are the units of which that is so, `skipped` what builds have warned of, `lost` what failed jobs had.

`ArtifactsNeverRegress` says that overlapping jobs never put older files over newer ones:
git's two refusals suffice, without a concurrency group. `StaleOnlyIfReported` and
`EventuallySettled` say how far the workflow keeps up: a unit's files are those of its schemas
once the jobs have ended, unless a job that had exactly these schemas has failed, or has succeeded
and warned of this TypeScript file. Both
exceptions are real. After a warning nothing repeats the build until another push. And of two jobs of which the first pushes, the second fails when it pulls, even
if it had the newer schemas, and master stays behind until another push. The condition
of the workflow (line 16) is meant to skip commits of the release flow by the author's address, but
`publish-npm-package.yml:100` sets another author; such commits start a job (`Push({})`).

### Permissions

State: `sheet`; for each generator (Go, TypeScript) where it is and what it has
parsed; `history`, the saved indexes; `keys`, the files of constants there are; `diff`; `files`, the
constants that the other files mention, each with the id it stood for at first; `apply`, the
run of `apply-permissions-updates.js`. A name is a sequence of words (`Word`), since `sed` replaces a name inside
a longer one. `Parsed` and `Refuses` are `parsePermissions` with its guards, `Updates` is
`diffIndexes`, whose map keeps the last constant of an id that several share.

The directory to change is a consumer's or, when none is given, the project's root
(`apply-permissions-updates.js:26`; `Root`). In the latter the search finds the saved indexes and the
generated files too, and `sed` rewrites them: an index keeps the name of its file and with it its id, but no
longer has the constants it was named for. So a target of `sed` is a file of the directory, perhaps
the diff itself (`DiffFile`), a file of constants or a saved index (`Containing`). `FilesContaining` is the
search as the code makes it: `rg -l`, which passes over hidden, ignored and binary files (`Hidden`),
and `grep -R` only when `rg` lists nothing or fails; when `grep` fails as well the entry is taken to be
nowhere, without a word (`SearchFails`).

`IndexBeforeKeys` says that a file of constants always names an index that was saved, with the same
keys, so that it can be compared later, whatever is interrupted. The constants of the two are the same too,
except in the project's root while a run of renames is under way, or after one was killed or
failed, or when a generator has written since: then the one is renamed and the other is not.
`RenamesKeepIds` says that renaming never makes a file speak of another
permission, and `RenamesAreComplete` that as long as no search and no `sed` has failed a run that ends leaves no
old name in the files that `rg` does not pass over. Both
are about diffs of independent names (`Independent`): with a diff that chains two names, or
one of whose names holds another, the renames do corrupt the files, because each is applied
to what the ones before have left. When a shared id's constants are reordered in the
sheet, the diff has a rename of a constant that is still there. A run whose directory holds the diff rewrites
the diff as well; the next one then finds nothing to do. The case of UUIDs, `--dry` and the download
of the sheet are left out.

### SheetSync

State: `sheet`, the grid up to its last row that is not empty; for each run `pc`
(its next call), `seen` (what it read, what it audited, and the number of the run as
its time) and `result`. A row has the columns that the properties tell apart: the
loose key of its endpoint, the columns whose change is logged, the other generated
columns, the Change Log, and the columns that belong to people.

`Read` is the audit, the read and the planning; `ApplyRows` the call that moves,
inserts and deletes rows, `ApplyCells` the one that writes cells. `Plan` is
`planSheetUpdateWithSummary`: rows inserted on top for the summary and the header,
deletions from the bottom up, then for each audited endpoint a row that is there, a
later one moved up or a new one. `RowsApplied` is what the Sheets service does with
these operations, on the sheet as it is then. Either call may fail, or be applied
after the run has given up (the timeout of two minutes, a lost answer). `WriteNote`,
`MarkNA`, `AddRow`, `MoveRow`, `DeleteRow` are people.

`UndisturbedRunRepairs` is what the update is for: from whatever state failures,
overlaps or people left the sheet in, a run that nothing disturbs between its read
and its writes leaves the sheet equal to the audit. `NotesStayAttached` and
`OverridesSurvive` protect what people wrote. `UnchangedAuditIsQuiet` says that a run that
audits what the sheet says already moves no row and writes none, time stamps included; the one cell it
may write is the summary, whose text holds the figures and their change against the rows read
(`sheets.go:637-653`, `711-733`): the first such run sets the changes to none, and the next writes nothing at all. It is
stated for audits whose loose keys differ (`DistinctKeys`). When previous rows share a key, the
planner keeps the first and `reconcile` reads the last (`prevByKey`), so an "n/a" in
the first may be lost: `OverridesSurvive` is stated for keys with one previous row.

`NotesStayAttached` says nothing of a run whose sheet has changed since it was read: its
row operations are then applied to other rows than those they were made for, and can
move people's cells beside other endpoints. The next undisturbed run repairs the
generated columns, which is what `UndisturbedRunRepairs` says.

### EndpointMatch

State: `schema`, the endpoints the schemas declare, sorted by path and method, and
`routes`, the sorted routes of each server. The audit is a function of the two (`Match`
is `matchEndpoints`, `Rows` is `buildAuditRows`); the actions `Declare` and `Register` are the
edits that change what it reads, so that TLC enumerates the inputs and a property can
compare an audit with that of the next edit. A path is a number, with the two keys
`normalizeMatchKey` and `looseMatchKey` make of it; the routes of the cloud never end in a slash
(`consumer_echo.go:307`), those of Meshery may.

An endpoint takes every route that spells its path, of its method or of any, and only
when a server has none, those routes that differ in the names of parameters and that no
earlier endpoint has used. `NothingIsLost` and `RowsAreTrue` say that rows and routes
imply each other, `JoinsRespectScope` that an endpoint joins routes of its scope, key and method only, drifted ones
only when no route spells it, and that the second pass never counts one route twice,
`NewRouteKeepsTheOthers` that competing for it takes no server from any endpoint when a
route is added. (Adding an endpoint may: it comes first and takes the route. Which of two endpoints
gets a drifted route depends on their order, and no property says that it is the better one.)
`consumer_audit.go:432` says that an endpoint without a schema "appears once"; its rows
are keyed by the text of the path, so one written with a trailing slash by one server
only has two, which no property forbids. `endpoint_index.go:19` takes a missing `x-internal` for both servers,
`xInternalAllows` for none; `README.md:574` requires it.

### DesignConversion

State: `design`, the components of each design; `services`, those of one legacy file;
`maps`, the `metadata` entry of every configuration map, to which components and
services refer by number, because a Go map is shared by all who hold it; `result`, how the
last call ended (an error, or a panic). What an untyped value holds is kept as far as
`utils.Cast` tells it apart (`Held`): nothing, a nil slice, the type that was asked for, or the type
a decoder makes. Whether `Cast` accepts nil is decided in meshkit, not here, so
`accepts` ranges over the three possibilities and every property holds for each.

`ConvertTo` and `ConvertFrom` are one action each, with every early return: what was
written before an error or a panic stays. `OpenDesign`, `OpenFile`, `NewDesign`, `NewFile`,
`ReopenDesign` and `ReopenFile` are what the program does around them; saving and
opening turns typed values into decoded ones and separates shared maps.
`StylesAllocated` selects the package: `models/v1beta3/design` allocates the styles of a
new component, `models/v1beta1/pattern` does not and panics when it reads a service back; they are otherwise
alike. The run is about the former.

`RoundTripKeeps` says that a stored file which is read into a design and written again has the
services it had, `IdentityKept` that reading keeps every id and refuses a file whose ids are not strings.
`LabelsKept` is about failures: `ConvertTo` moves labels out of the maps of the design, which other
designs may hold too, and into the file. If it succeeds none is lost, and if it stops it has
lost those of the component it stopped at, and no others. It is stated for designs in which no two components have
one id or one map: a file read twice into one design does make such components, and the second
writes over the first.

## 3. The runs

| Run | Bounds | What it shows |
|---|---|---|
| `registry` | 2 goroutines, 1 server, 2 package versions, 2 models, 2 categories, 2 uuids, 11 requests (each kind of call, each early return), all faults but a failing `GenerateID` | the safety properties and the refinement |
| `registry_fair` | 2 goroutines of one server and 1 of another, 3 competing requests, `GenerateID` may fail | the tables stay right across servers; every call returns |
| `registry_two_hosts` | as `registry`, one model for 2 hosts | violates `CreatesOnlyMissingModel` |
| `connections` | 2 goroutines, 2 connections, 1 of them reused, 3 generations, all faults | the safety properties and that every call returns |
| `build` | 2 packages, 7 documents (2 titles and 2 names whose texts collide, a shared route, operations of one, both and no client, security of an operation and of a document, deprecated, untitled), 6 checkouts, 1 edit, 2 builds of any command, all faults | a success is current, a specification is whole, the command keeps its promise and ends |
| `prune` | every document of 3 components, every set of roots, every order | exactly what is needed is kept, and the walk ends |
| `artifacts` | 2 units, one of TypeScript, 3 jobs, 3 pushes, dispatches or release commits, builds may fail or warn | files never go back, and catch up unless a job fails or warns |
| `permissions` | the project's root; 5 sheets of 3 keys, of which 1 is the first, 2 generations, 1 edit, 2 applications, 2 files of which `rg` passes over one, the diff, the saved indexes and the files of constants; generators that are killed, 1 kill of a run or failure of a search or of `sed` | an index for every file of constants; renames keep ids and are complete |
| `sheet` | 2 runs by 2 processes that interleave at every call, 5 audits of up to 3 endpoints (one with a repeated key), 2 figures, 4 layouts of the sheet (empty, header first, no header, header below other rows, with duplicated and foreign rows), 1 edit, both faults | a run that nothing disturbs repairs whatever it finds; people's cells and overrides stay |
| `sheet_deletions` | 2 runs, faults | violates `DeletionsReported` |
| `endpoints` | 2 constructs, 3 paths with one exact key or one loose key, 1 method and "any", up to 2 endpoints and 2 routes of each server | the audit loses nothing and says nothing false |
| `designs` | 2 designs, 1 file, up to 2 components or services of 5 and 4 kinds, 4 calls of which 2 open stored documents | ids stay, a stored file survives the round trip, a failure loses the labels of one component at most |

Why the bounds are enough. The races of the registry are between two callers of
one key, or one key and its parent; a third caller adds only another waiter, which
`registry_fair` has. Two categories and two models let a call find its parent,
create it, or share it with another call. What a build can find wrong was left by one
build before it or by one edit during it, hence two builds and one edit; two packages
are what it takes to collide in a title or a route and to be stopped between one
file and the next. Three components make a cycle, a diamond, a chain and a dangling
reference. Two overlapping jobs race for one unit, the third works on what they leave.
Two renames are what it takes to be independent, to chain, or to nest; the second
application is the repeated one, and one failure is enough for a run that repeats it to meet what it left. In the sheet, three rows let a row move
over another, stay, appear and disappear in one plan; a second run works on what a
failed, a complete or an interleaved one has left. Two endpoints and two routes are what
it takes to compete for a route in either pass; two equal endpoints need the two
constructs. A conversion that goes wrong needs a document, one conversion there and one
back, or two in a row with a saving in between: four calls. The theorems of section 4 remove
the bounds for everything but liveness.

Fairness (`FairSpec`). The registry and connections: the database answers every call,
with a result or an error (weak fairness of the steps that wait for it), and a Go mutex that is released again
and again is given to each waiter in time (strong fairness of the lock steps: since
Go 1.9 a waiter that fails for 1 ms puts the mutex in starvation mode, which hands it
over in order). The build: a child process ends, with an answer or without one, and
`runProcess` waits for it without a limit (weak fairness of a step). Pruning is a
synchronous loop. The workflow: the service runs every job, and ends a step after six
hours at the latest (weak fairness of each job's next step). Nothing makes a caller call, a
person edit or push, a tool fail or a process crash.

`CHECK_DEADLOCK FALSE` is given where the runs, edits, pushes and calls are bounded (sheet, endpoints,
designs, build, artifacts, permissions: a model that has used them up stops) and for
pruning, which ends. Symmetry is used among goroutines' interchangeable values, runs,
constructs and designs, in runs that check no liveness.

### What the code does differently from what its comments say

Shown by a run:

- `registry_two_hosts`: `ModelDefinition.Create` looks a model up by `id` and
  `connection_id`, but the id does not depend on the host, so registering a model for a
  second host tries to insert an existing primary key and fails.
- `sheet_deletions`: when the rows of removed endpoints have been deleted and the second
  call fails, the error is returned before `NewDeletions` is set (`sheets.go:952-956`), so the run does not
  report those endpoints. The next run does not see them any more.

Met while modelling, and left as they are by the properties:

- `Connection.Create` on a struct it has been through hashes the `ID` it assigned and makes a second
  row, though `connection_helper.go:17` says that an existing connection is not created.
- `ConvertFrom` of `models/v1beta1/pattern` writes the position of a component that has no styles
  and panics on every file that has a service (`design_conversion.go:175`).
- "do not perform partial conversion" (`design_conversion.go:267`), but a `ConvertTo` that fails at the
  dependencies of a component has deleted its labels and written the services before it.
- `ConvertFrom` reads positions into `Styles`, `ConvertTo` writes those of
  `AdditionalProperties`, so a round trip loses them. `ConvertFrom` appends to the components that its
  receiver has, and `ConvertTo` panics on a file whose `Services` is nil.
- `mergeOpenapiSpec` keeps tags, paths and components; a security requirement of the whole
  document, which 48 `api.yml` files state, is dropped
  (`bundle-openapi.js:162-178`), and the filter then prunes its scheme.
- A job whose build warns of TypeScript files pushes the others and succeeds; master keeps the old ones.
- `apply-permissions-updates.js` without a directory rewrites the saved indexes, whose names are
  hashes of what they held.
- The npm workflow publishes before it pulls and pushes the version
  (`publish-npm-package.yml:88`): when one of them fails the version is taken and master does not have it.

## 4. The proofs

Each proof module holds for every value of the constants that satisfies the
`ConstantsOK` (or `RefsFinite`) of its module, which TLC evaluates in the runs, unless the theorem
states more: any number of goroutines, servers, packages, components,
jobs, edits and builds, any set of faults.

Registry. `TypeOK` is inductive once it says that a goroutine is at a statement of the
call it was asked to make (`Fits`). The rest follows in layers, each using the ones
before: `UuidsFresh` (an id is drawn outside the tables and the other calls, and only
its owner inserts it); `MutexesFollowCalls`; `RowsAreKept`, from the form of each
insert; `ParentsExist` together with `ParentsReady`, because an id of a parent is only
used after the parent was found or inserted, and rows stay; from these the step
simulation of `RegistrySpec` (`RegistryRefined`), each action being an insert of one
absent key below its parent, a status update, or a stutter. `CheckedStaysAbsent`
needs two more assumptions, which the theorem states: all goroutines belong to one
server (the mutexes are per process) and each model is registered for one host (the
lookup is by id and host). `UuidsFresh`, `MutexesFollowCalls` and `RowsAreKept` are
proved and not run: TLC checks the properties that rest on them.

Connections. `LockInv` puts the mutex and the absence of the row together: while a
call is at its insert it holds the mutex, so no other call inserts.

Build. `Control` lists how far `runCommand` can be (`Stage`: each pair of calls to come and
completed commands) and says that the script that runs is the next call (`JobFits`); every
script step ends it well, ends it badly or goes on with it (`ScriptMove`), and each of the
three maps to a step of `BuildSpec` or a stutter (`BuildRefined`). `SpecsAreWhole` needs that every name the merged
document requires leads to a scheme of that or a later package (`MergedIsWhole`), which rests on the prefixes being
the same on both sides, on the fact that of two titles that begin one text one begins with the other (`SharedBeginning`), and on
a finite set of packages having a last one (`LastOfSet`, by well-founded induction on what comes after).
`SuccessIsCurrent` needs an invariant for the middle of a build: while
nobody edits, what the running script has gone through is current (`JobCurrent`) and so is all
that completed ones wrote (`CompletedCurrent`). That a script which reads another's files finds
them current follows from `Control`: it runs after the commands it depends on.
`MergeSame` says that merging depends on the contents of the merged packages only.

PruneComponents. The invariant of a worklist: what is reached or queued lies in every
closed set, and what a reached component refers to is reached or queued. When the queue is empty
the reached references are closed, hence the least closed set.

ArtifactFlow. `Snapshots` orders what a job has seen before what master has;
`PulledIsNewest` says that a job whose pull is the newest commit changes no file that master has
changed since its checkout. So the files a job replaces are those it checked out, and it
generated newer ones. `Awaited` is the invariant of `StaleOnlyIfReported`: a unit's files are settled, or a
job is queued or will push exactly them; it uses that files never go back.

Permissions. `SavedInv`: a generator that writes its file has saved the index of what it
parsed, and an index is only replaced by one of the same id; whatever `sed` does to its constants, its keys are those of the
id. `PristineInv` says that the constants are too where no rename is made. In the project's root a run breaks that, and
`Agree` takes its place: a file of constants and the index it names have the same constants once the
entry that is being renamed has been renamed in both, since either both hold the old name, and the search finds
both, or neither does. `ConsumerInv` adds the consumer. Until a
diff is made its files use names of the index `old`, which the diff must start from (`DiffInv`);
afterwards, when the names are independent, a mention has a name that either index gives to its id, an
entry of the diff is as it was or renames a new constant to itself (`sed` rewrites the diff when it lies among
the files), and for every update and every file either no mention is left or the run that
is under way is still to make it, unless something has failed or `rg` passes over the file (`RenameInv`). The lemma the steps
rest on is `RenamedMention`: replacing the old name of one update changes a mention only when it is
that very name, into one that the second index gives to the same id, and brings back no name another update
has removed. A row of an index is found by its name, because `parsePermissions` keeps the first row
of each (`ItemFacts`). TLC checked `ConsumerInv` on the bounds of `permissions` first.

EndpointMatch. The audit is a recursive function over the endpoints, `Matched`, whose element `n` says what is
known after `n` endpoints. `TypesStay` is inductive; the four properties of the audit hold of any typed state, and
follow from what `Matched` keeps from one endpoint to the next (`JoinedUpto`): what is used is the union of the joins so
far (`Taken`), and each join is `Hits` of the endpoint given what the earlier ones have taken.
`NewRoutesTakeNothing` compares the audits before and after (`MoreRoutes`): an old route that an
endpoint has taken after the insertion was taken by it or an earlier one before it, so an endpoint that loses a route to an earlier
one cannot be left without any.

DesignConversion. `Inv` is type correctness and what a stored file guarantees (services that were decoded do not
share their configuration maps, `FileInv`). A conversion is a recursive function over the
components or services; an induction along it shows that each writes under its own key and leaves what
the others have written, which is where the sharing of maps matters. `RoundTripsKeep` composes the two
conversions; `LabelsMove` follows the maps through one (`LabelsWritten`): what has been taken out of a map is in the
service of that map, but at the place where the conversion stopped. The theorems assume `IDsNeverRunOut` (`ID` is never used up: `Design` is finite and no finite set
of ids is all of them), as for UUIDs; the 16 ids of the run stand for it and suffice there. `RoundTripsKeep` assumes
`StylesAllocated` as well: without it the code panics before there is a design to write (section 3).

SheetSync. The state's own invariant is small, `SheetInv`: the sheet and what each run has read are trimmed grids,
and a run that is under way has not reported success. TLC checked it on the bounds of `sheet` first. The work is in the
operators, of which the theorems say the following for any sheet.

- Grids. `At` continues a grid with blank rows without end, so that each operation on rows is a statement about
  `At` alone (`InsertApplied`, `DeleteApplied`, `MoveApplied`), with no case for a row beyond the last; two trimmed
  grids with the same `At` are the same (`SameRowsSameGrid`).
- The plan is a simulation. The planner keeps a list of rows and a list of operations, and never looks at the grid
  again: `ThinApplies` and `AlignKeepsBelow` say that at every step the operations so far, applied to the grid that was
  read, leave these rows below the header and nothing else. For deletions, which are put in front of
  those found before, the statement is about every grid that holds the rows; for moves and insertions about the one
  grid.
- There is one row for each endpoint (`OneRowEach`): the first pass keeps of no key more rows than were audited
  (`ThinCounts`), and the second never has more rows left to place than endpoints (`AlignCounts`).
- `PlanFacts` puts these together, `CellsFacts` adds the second call, `WrittenFacts` is the sheet that a run leaves
  when nothing disturbs it. `RunRepairs` reads it off with the last row of each endpoint (`TrackedFacts`), `NotesStay` and
  `OverridesStay` with the rows that must be among the planned ones (`ThinKeeps`).

`UnchangedAuditIsQuiet` is stated for audits in which no two endpoints have the same loose key (`DistinctKeys`).
Without that it is false: of two such endpoints the last row's cells count for both, and an "n/a"
in the first is overwritten. The theorems assume nothing but `ConstantsOK`.

Sequences. An induction over data is done along the model's own recursive functions
(`f[n] == ... f[n - 1] ...`) with the invariant written out at each use, or by taking the least
element for which a statement fails; the library's induction theorems cannot be instantiated by the provers.

Only model-checked:

- liveness (`EveryCallReturns`, `InvocationEnds`, `PruneEnds`, `EventuallySettled`), which needs fairness and `ENABLED`;
- the two properties that the code violates (section 3), of which TLC shows the counterexamples.

## 5. Not modelled, and what is left

Out of the parts that are modelled: the text of notes and the wording of the summary (its figures are there), columns'
positions, growing the grid, writing definitions to files, the text that generators produce.

Not modelled at all:

- The generated Go and TypeScript code, the schemas and the templates: data and clients that other
  tools make from them. They are nearly all of the repository's lines (the TypeScript files
  are generated but for a handful), so the models stand for a small share of them, and no
  further modelling would change that.
- The parsers of Go and TypeScript sources (`validation/consumer_*.go`): walks of syntax trees. `EndpointMatch`
  starts from the routes they find.
- The assessment of shapes, and the schema audit's rules with their severities and baseline: functions of
  one input without state, decision tables whose translation would repeat them.
- The download of a CSV: one request; its promise settles once whatever the order of events, and each
  redirect has a timeout of its own.
- Core data types, academy and user helpers: encodings of single columns. (Scanning NULL into a
  `core.Map` that holds something leaves it, `datatype_map.go:45`.)
- Migration reports, written once and without state; the publishing workflows, whose state
  is in npm and in releases.

What is left to do, in this order:

1. The rows of `EndpointMatch` as the audits of `SheetSync`, with the decision table of `assessConsumers`.
2. A refinement of `SheetSync`: the abstract sheet as a map from endpoints to what people
   and the audit say of them.
3. Two builds at once in one checkout, and commands run by hand between them.
