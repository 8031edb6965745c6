---------------------------- MODULE EndpointMatch ----------------------------
(***************************************************************************)
(* The consumer audit's join of the endpoints that the schemas declare     *)
(* with the routes that two servers register (matcher.go), and the rows it *)
(* makes of them (consumer_audit.go).  The audit is a function of what it  *)
(* reads; the actions are the edits that change what it reads.             *)
(***************************************************************************)
EXTENDS Naturals, Sequences, FiniteSets, SequencesExt

CONSTANTS
    Path,               \* paths as they are written, numbered in the order of their strings
    Exact,              \* of each path: the path without its trailing slash
    Loose,              \* of each path: that, with the parameter names left out
    Slashed,            \* the paths with a trailing slash
    Method,             \* HTTP methods, numbered likewise
    AnyMethod,          \* the method of a route that is registered for all of them
    Construct,          \* constructs: each declares its endpoints in a file of its own
    MaxEndpoints, MaxRoutes

Repo == {"meshery", "cloud"}

Endpoint == [method : Method, path : Path, scope : SUBSET Repo, construct : Construct]
Route    == [method : Method \cup {AnyMethod}, path : Path]

ASSUME ConstantsOK ==
    /\ Path \subseteq Nat
    /\ DOMAIN Exact = Path /\ DOMAIN Loose = Path
    /\ \A p, q \in Path : Exact[p] = Exact[q] => Loose[p] = Loose[q]
    /\ Slashed \subseteq Path
    /\ Method \subseteq Nat /\ AnyMethod \in Nat \ Method
    /\ MaxEndpoints \in Nat /\ MaxRoutes \in Nat

VARIABLES
    schema,             \* schemaIndex.Endpoints: sorted by path and method
    routes              \* of each server: its routes, sorted likewise

vars == <<schema, routes>>

(* Definitions whose name holds "__" are faulty variants of the definition *)
(* they precede.                                                           *)

-----------------------------------------------------------------------------
(* matchEndpoints *)

ExactHits__VerbOnly(ep, list) ==
    {i \in DOMAIN list : list[i].method = ep.method /\ Exact[list[i].path] = Exact[ep.path]}
(* A route registered for any method implements every verb on its path. *)
ExactHits(ep, list) ==
    {i \in DOMAIN list : list[i].method \in {ep.method, AnyMethod} /\ Exact[list[i].path] = Exact[ep.path]}

(* The second pass, for an endpoint the first has found no route for. *)
LooseHits(ep, list) ==
    {i \in DOMAIN list : list[i].method = ep.method /\ Loose[list[i].path] = Loose[ep.path]}

Hits__Shared(ep, list, used, repo) ==
    IF repo \notin ep.scope THEN {}
    ELSE IF ExactHits(ep, list) # {} THEN ExactHits(ep, list) ELSE LooseHits(ep, list)
(* The routes of one server that are joined to an endpoint.  A route that  *)
(* spells the endpoint's path may be joined to several; one that does not  *)
(* is only joined when no earlier endpoint has used it.                    *)
Hits(ep, list, used, repo) ==
    IF repo \notin ep.scope THEN {}
    ELSE IF ExactHits(ep, list) # {} THEN ExactHits(ep, list) ELSE LooseHits(ep, list) \ used

JoinEndpoint__MarksLoose(m, ep, lists) ==
    LET hits == [r \in Repo |-> Hits(ep, lists[r], m.used[r], r)]
    IN  [used   |-> [r \in Repo |-> m.used[r] \cup IF r \in ep.scope THEN LooseHits(ep, lists[r]) ELSE {}],
         joined |-> Append(m.joined, hits)]
JoinEndpoint__OneHit(m, ep, lists) ==
    LET exact == [r \in Repo |-> IF r \in ep.scope THEN ExactHits(ep, lists[r]) ELSE {}]
        hits == IF \E r \in Repo : exact[r] # {} THEN exact
                ELSE [r \in Repo |-> Hits(ep, lists[r], m.used[r], r)]
    IN  [used |-> [r \in Repo |-> m.used[r] \cup hits[r]], joined |-> Append(m.joined, hits)]
(* Both servers are searched for one endpoint, each by itself.             *)
JoinEndpoint(m, ep, lists) ==
    LET hits == [r \in Repo |-> Hits(ep, lists[r], m.used[r], r)]
    IN  [used |-> [r \in Repo |-> m.used[r] \cup hits[r]], joined |-> Append(m.joined, hits)]

(* The endpoints are gone through in their order; after the first n:       *)
Matched(endpoints, lists) ==
    LET m[n \in 0 .. Len(endpoints)] ==
            IF n = 0 THEN [used |-> [r \in Repo |-> {}], joined |-> <<>>]
            ELSE JoinEndpoint(m[n - 1], endpoints[n], lists)
    IN  m

(* joined is parallel to endpoints; what used leaves out is ConsumerOnly,  *)
(* an endpoint joined to nothing SchemaOnly.                               *)
Match(endpoints, lists) == Matched(endpoints, lists)[Len(endpoints)]

-----------------------------------------------------------------------------
(* buildAuditRows *)

ConsumerOnly(m, lists) == UNION {{r} \X (DOMAIN lists[r] \ m.used[r]) : r \in Repo}

Displays(c, lists, method, path) ==
    lists[c[1]][c[2]].method = method /\ lists[c[1]][c[2]].path = path

(* Whether an endpoint is the first with its method and path. *)
First(endpoints, i) ==
    \A j \in 1 .. i - 1 :
        endpoints[j].method # endpoints[i].method \/ endpoints[j].path # endpoints[i].path

(* Routes that were joined to nothing and are written as the endpoint is:  *)
(* they go into the row of the first such endpoint.                        *)
Extras(m, endpoints, lists, i) ==
    {c \in ConsumerOnly(m, lists) :
        First(endpoints, i) /\ Displays(c, lists, endpoints[i].method, endpoints[i].path)}

(* A row: active and missing are what its Endpoint Status says. *)
RowOf(method, path, construct, scope, active) ==
    [method |-> method, path |-> path, construct |-> construct,
     active |-> active, missing |-> scope \ active]

SchemaRow(m, endpoints, lists, i) ==
    LET ep == endpoints[i]
        live == {r \in Repo : m.joined[i][r] # {} \/ \E c \in Extras(m, endpoints, lists, i) : c[1] = r}
    IN  RowOf(ep.method, ep.path, {ep.construct}, ep.scope, live)

(* One row for all the routes that no endpoint has taken and that are      *)
(* written alike.                                                          *)
ConsumerRows(m, endpoints, lists) ==
    LET rest == {c \in ConsumerOnly(m, lists) :
                    \A i \in DOMAIN endpoints : c \notin Extras(m, endpoints, lists, i)}
        Like(c) == {d \in rest : lists[d[1]][d[2]] = lists[c[1]][c[2]]}
    IN  {RowOf(lists[c[1]][c[2]].method, lists[c[1]][c[2]].path, {}, {}, {d[1] : d \in Like(c)}) :
            c \in rest}

Rows(endpoints, lists) ==
    LET m == Match(endpoints, lists)
    IN  {SchemaRow(m, endpoints, lists, i) : i \in DOMAIN endpoints}
            \cup ConsumerRows(m, endpoints, lists)

-----------------------------------------------------------------------------
(* What the audit reads. *)

Init ==
    /\ schema = <<>>
    /\ routes = [r \in Repo |-> <<>>]

Sorted(list) ==
    \A i, j \in DOMAIN list :
        i < j => \/ list[i].path < list[j].path
                 \/ list[i].path = list[j].path /\ list[i].method <= list[j].method

(* A construct declares an endpoint.  Endpoints with the same path and     *)
(* method are in any order: the sort is not stable.                        *)
Declare(ep) ==
    /\ Len(schema) < MaxEndpoints
    /\ \A i \in DOMAIN schema :
           <<schema[i].method, schema[i].path, schema[i].construct>> # <<ep.method, ep.path, ep.construct>>
    /\ \E i \in 1 .. Len(schema) + 1 : schema' = InsertAt(schema, i, ep)
    /\ Sorted(schema')
    /\ UNCHANGED routes

Register__Appended(r, route) ==
    /\ Len(routes[r]) < MaxRoutes
    /\ r = "cloud" => route.path \notin Slashed
    /\ routes' = [routes EXCEPT ![r] = Append(@, route)]
    /\ UNCHANGED schema
(* A server registers a route.  The parser of the cloud's routes takes the *)
(* trailing slash off, that of Meshery's does not.                         *)
Register(r, route) ==
    /\ Len(routes[r]) < MaxRoutes
    /\ r = "cloud" => route.path \notin Slashed
    /\ \E i \in 1 .. Len(routes[r]) + 1 : routes' = [routes EXCEPT ![r] = InsertAt(@, i, route)]
    /\ Sorted(routes'[r])
    /\ UNCHANGED schema

Next ==
    \/ \E ep \in Endpoint : Declare(ep)
    \/ \E r \in Repo, route \in Route : Register(r, route)

Spec == Init /\ [][Next]_vars

-----------------------------------------------------------------------------
(* Properties. *)

(* What the audit reads keeps its shape. *)
TypeOK ==
    /\ schema \in Seq(Endpoint) /\ Sorted(schema)
    /\ routes \in [Repo -> Seq(Route)] /\ \A r \in Repo : Sorted(routes[r])

Spells(route, row) == Exact[route.path] = Exact[row.path] /\ route.method \in {row.method, AnyMethod}
Drifts(route, row) == Loose[route.path] = Loose[row.path] /\ route.method = row.method

(* "Three explicit categories - no information loss" (matchResult): every  *)
(* endpoint has its row, and every route is active in a row that spells    *)
(* its path, or in that of an endpoint no route of the server spells.      *)
NothingIsLost ==
    LET rows == Rows(schema, routes)
    IN  /\ \A i \in DOMAIN schema :
               \E row \in rows : /\ row.construct = {schema[i].construct}
                                 /\ row.path = schema[i].path /\ row.method = schema[i].method
        /\ \A r \in Repo : \A i \in DOMAIN routes[r] :
               \E row \in rows :
                   /\ r \in row.active
                   /\ \/ Spells(routes[r][i], row)
                      \/ /\ Drifts(routes[r][i], row) /\ row.construct # {}
                         /\ \A j \in DOMAIN routes[r] : ~Spells(routes[r][j], row)

(* A row calls an endpoint active in a server only when that server has a  *)
(* route for it, and calls it missing only when the endpoint is meant for  *)
(* the server and none of its routes spells the path                       *)
(* (computeEndpointStatus, over what was joined).                          *)
RowsAreTrue ==
    \A row \in Rows(schema, routes), r \in Repo :
        /\ r \in row.active =>
               \E i \in DOMAIN routes[r] : Spells(routes[r][i], row) \/ Drifts(routes[r][i], row)
        /\ r \in row.missing =>
               /\ \E i \in DOMAIN schema : r \in schema[i].scope /\ schema[i].path = row.path
               /\ \A i \in DOMAIN routes[r] : ~Spells(routes[r][i], row)

(* Joins stay within the scope that x-internal gives an endpoint.  A route *)
(* that is joined spells the endpoint's path with its method, or differs   *)
(* in the names of parameters from an endpoint that no route spells; such  *)
(* a drifted route stands for one endpoint only: the drift of one route is *)
(* not counted as several implementations.                                 *)
JoinsRespectScope ==
    LET m == Match(schema, routes)
        Drifted(i, r, n) == n \in m.joined[i][r] /\ Exact[routes[r][n].path] # Exact[schema[i].path]
    IN  \A i \in DOMAIN schema, r \in Repo :
            /\ m.joined[i][r] # {} => r \in schema[i].scope
            /\ \A n \in m.joined[i][r] :
                   \/ Spells(routes[r][n], schema[i])
                   \/ /\ Drifts(routes[r][n], schema[i])
                      /\ \A k \in DOMAIN routes[r] : ~Spells(routes[r][k], schema[i])
            /\ \A j \in DOMAIN schema \ {i}, n \in DOMAIN routes[r] :
                   ~(Drifted(i, r, n) /\ Drifted(j, r, n))

(* Registering a route never makes another endpoint lose the server it was *)
(* implemented by, although the routes compete for the second pass.        *)
ActiveStaysActive ==
    routes' # routes =>
        \A row \in Rows(schema, routes) :
            row.construct # {} =>
                \E new \in Rows(schema, routes') :
                    /\ <<new.construct, new.method, new.path>> = <<row.construct, row.method, row.path>>
                    /\ row.active \subseteq new.active
NewRouteKeepsTheOthers == [][ActiveStaysActive]_vars
=============================================================================
