------------------------ MODULE EndpointMatchProofs ------------------------
(***************************************************************************)
(* The consumer audit, for any paths, methods, constructs and bounds: what *)
(* its join does with the endpoints in their order, and the rows it makes. *)
(***************************************************************************)
EXTENDS EndpointMatch, FiniteSetTheorems, WellFoundedInduction, TLAPS

-----------------------------------------------------------------------------
(* The join. *)

Nothing == [used |-> [r \in Repo |-> {}], joined |-> <<>>]

(* A nonempty set of numbers up to L has a least one: n is least when the  *)
(* set of those before it is minimal.                                      *)
LEMMA LeastOfSet ==
    ASSUME NEW L \in Nat, NEW T \in SUBSET (0 .. L), T # {}
    PROVE  \E n \in T : \A k \in T : n <= k
<1> DEFINE Before(n) == {k \in T : k < n}
           Heads == {Before(n) : n \in T}
<1>1. IsFiniteSet(T)
  <2>1. 0 \in Int /\ L \in Int
    OBVIOUS
  <2>2. IsFiniteSet(0 .. L)
    BY <2>1, FS_Interval
  <2> QED BY <2>2, FS_Subset
<1>2. Heads \subseteq FiniteSubsetsOf(T) /\ Heads # {}
  <2>1. \A n \in T : Before(n) \in SUBSET T /\ IsFiniteSet(Before(n))
    BY <1>1, FS_Subset
  <2> QED BY <2>1 DEF FiniteSubsetsOf
<1>3. PICK H \in Heads : \A G \in Heads : <<G, H>> \notin StrictSubsetOrdering(T)
  BY <1>1, <1>2, WFMin, FS_StrictSubsetOrderingWellFounded
<1>4. PICK n \in T : H = Before(n)
  OBVIOUS
<1>5. \A k \in T : ~(k < n)
  <2> SUFFICES ASSUME NEW k \in T, k < n PROVE FALSE
    OBVIOUS
  <2>1. \A j \in T : j \in Nat
    OBVIOUS
  <2>2. (\A j \in T : j < k => j < n) /\ ~(k < k)
    BY <2>1
  <2>3. Before(k) \subseteq Before(n) /\ k \in Before(n) /\ k \notin Before(k)
    BY <2>2, Zenon
  <2>4. <<Before(k), Before(n)>> \in StrictSubsetOrdering(T)
    BY <2>3 DEF StrictSubsetOrdering
  <2> QED BY <2>4, <1>3, <1>4
<1>6. \A k \in T : n <= k
  BY <1>5
<1> QED BY <1>6

(* What holds at 0 and, with each number, at the next one, holds up to L.  *)
LEMMA UpTo ==
    ASSUME NEW L \in Nat, NEW T \in SUBSET (0 .. L), 0 \in T,
           \A n \in 1 .. L : n - 1 \in T => n \in T
    PROVE  T = 0 .. L
<1> SUFFICES ASSUME (0 .. L) \ T # {} PROVE FALSE
  OBVIOUS
<1>1. PICK n \in (0 .. L) \ T : \A k \in (0 .. L) \ T : n <= k
  BY LeastOfSet
<1>2. n \in 1 .. L /\ n - 1 \in 0 .. L /\ ~(n <= n - 1)
  BY <1>1
<1>3. n - 1 \in T
  BY <1>1, <1>2
<1> QED BY <1>1, <1>2, <1>3

(* Matched satisfies the equation it is defined by. *)
LEMMA MatchedEquation ==
    ASSUME NEW endpoints \in Seq(Endpoint), NEW lists
    PROVE  Matched(endpoints, lists) =
               [n \in 0 .. Len(endpoints) |->
                   IF n = 0 THEN Nothing
                   ELSE JoinEndpoint(Matched(endpoints, lists)[n - 1], endpoints[n], lists)]
<1> DEFINE L == Len(endpoints)
           Step(g, n) == IF n = 0 THEN Nothing ELSE JoinEndpoint(g[n - 1], endpoints[n], lists)
           Upto(g, n) == g = [k \in 0 .. n |-> Step(g, k)]
           Good == {n \in 0 .. L : \E g : Upto(g, n)}
<1>1. L \in Nat
  OBVIOUS
<1>2. Good = 0 .. L
  <2>1. 0 \in Good
    <3>1. Upto([k \in 0 .. 0 |-> Nothing], 0)
      OBVIOUS
    <3>2. \E g : Upto(g, 0)
      <4> HIDE DEF Upto
      <4> QED BY <3>1
    <3> HIDE DEF Upto
    <3> QED BY <1>1, <3>2
  <2>2. ASSUME NEW n \in 1 .. L, n - 1 \in Good PROVE n \in Good
    <3>1. PICK g : Upto(g, n - 1)
      BY <2>2
    <3> DEFINE h == [k \in 0 .. n |-> IF k = n THEN Step(g, n) ELSE g[k]]
    <3>2. n \in Nat /\ n # 0 /\ n \in 0 .. L
      BY <1>1
    <3>3. \A k \in 0 .. n - 1 : h[k] = g[k]
      BY <3>2
    <3>4. \A k \in 0 .. n : Step(h, k) = Step(g, k)
      <4> SUFFICES ASSUME NEW k \in 0 .. n, k # 0 PROVE h[k - 1] = g[k - 1]
        OBVIOUS
      <4>1. k - 1 \in 0 .. n - 1
        BY <3>2
      <4> QED BY <4>1, <3>3
    <3>5. \A k \in 0 .. n : h[k] = Step(g, k)
      <4> SUFFICES ASSUME NEW k \in 0 .. n, k # n PROVE g[k] = Step(g, k)
        OBVIOUS
      <4>1. k \in 0 .. n - 1
        BY <3>2
      <4> QED BY <4>1, <3>1
    <3>6. Upto(h, n)
      <4>1. h = [k \in 0 .. n |-> h[k]]
        OBVIOUS
      <4> HIDE DEF h, Step
      <4> QED BY <4>1, <3>4, <3>5
    <3>7. \E f : Upto(f, n)
      <4> HIDE DEF Upto, h
      <4> QED BY <3>6
    <3> HIDE DEF Upto
    <3> QED BY <3>2, <3>7
  <2>3. Good \in SUBSET (0 .. L)
    OBVIOUS
  <2> HIDE DEF Good
  <2> QED BY <1>1, <2>1, <2>2, <2>3, UpTo
<1>3. \E g : Upto(g, L)
  <2>1. L \in Good
    <3> HIDE DEF Good
    <3> QED BY <1>1, <1>2
  <2> QED BY <2>1
<1>4. Matched(endpoints, lists) = CHOOSE g : Upto(g, L)
  BY DEF Matched, Nothing
<1> HIDE DEF Step, L
<1>5. Upto(Matched(endpoints, lists), L)
  BY <1>3, <1>4
<1> QED BY <1>5 DEF Step, L

(* The routes of server r that the first n endpoints are joined to. *)
Taken(m, n, r) == UNION {m.joined[j][r] : j \in 1 .. n}

(* What the join has made of the first n endpoints. *)
JoinedUpto(m, n, endpoints, lists) ==
    /\ m = [used |-> m.used, joined |-> m.joined]
    /\ m.joined \in Seq([Repo -> SUBSET Nat]) /\ Len(m.joined) = n
    /\ m.used = [r \in Repo |-> Taken(m, n, r)]
    /\ \A i \in 1 .. n, r \in Repo :
           m.joined[i][r] = Hits(endpoints[i], lists[r], Taken(m, i - 1, r), r)

Lists == [Repo -> Seq(Route)]

LEMMA HitsInList ==
    ASSUME NEW ep, NEW list \in Seq(Route), NEW used, NEW r
    PROVE  Hits(ep, list, used, r) \subseteq DOMAIN list /\ DOMAIN list \subseteq Nat
BY DEF Hits, ExactHits, LooseHits

LEMMA HitsSpellOrDrift ==
    ASSUME NEW ep, NEW list, NEW used, NEW r, NEW n \in Hits(ep, list, used, r)
    PROVE  /\ r \in ep.scope
           /\ \/ n \in ExactHits(ep, list)
              \/ ExactHits(ep, list) = {} /\ n \in LooseHits(ep, list) \ used
BY DEF Hits

(* One more endpoint is joined to what the ones before it leave. *)
LEMMA JoinOne ==
    ASSUME NEW endpoints \in Seq(Endpoint), NEW lists \in Lists,
           NEW n \in 1 .. Len(endpoints), NEW m, JoinedUpto(m, n - 1, endpoints, lists)
    PROVE  JoinedUpto(JoinEndpoint(m, endpoints[n], lists), n, endpoints, lists)
<1> DEFINE hits == [r \in Repo |-> Hits(endpoints[n], lists[r], m.used[r], r)]
           next == JoinEndpoint(m, endpoints[n], lists)
<1>1. next = [used |-> next.used, joined |-> next.joined]
      /\ next.used = [r \in Repo |-> m.used[r] \cup hits[r]]
      /\ next.joined = Append(m.joined, hits)
  BY DEF JoinEndpoint
<1>2. hits \in [Repo -> SUBSET Nat]
  <2> SUFFICES ASSUME NEW r \in Repo PROVE Hits(endpoints[n], lists[r], m.used[r], r) \in SUBSET Nat
    OBVIOUS
  <2>1. lists[r] \in Seq(Route)
    BY DEF Lists
  <2> QED BY <2>1, HitsInList
<1>3. \A r \in Repo : hits[r] = Hits(endpoints[n], lists[r], m.used[r], r)
  OBVIOUS
<1> HIDE DEF hits, next
<1>4. n \in Nat /\ n - 1 \in Nat /\ n \in 1 .. n
  OBVIOUS
<1>5. /\ m.joined \in Seq([Repo -> SUBSET Nat]) /\ Len(m.joined) = n - 1
      /\ m.used = [r \in Repo |-> Taken(m, n - 1, r)]
      /\ \A i \in 1 .. n - 1, r \in Repo :
             m.joined[i][r] = Hits(endpoints[i], lists[r], Taken(m, i - 1, r), r)
  BY DEF JoinedUpto
<1>6. next.joined \in Seq([Repo -> SUBSET Nat]) /\ Len(next.joined) = n
  BY <1>1, <1>2, <1>4, <1>5
<1>7. next.joined[n] = hits /\ \A i \in 1 .. n - 1 : next.joined[i] = m.joined[i]
  BY <1>1, <1>2, <1>4, <1>5
<1>8. \A k \in 0 .. n - 1, r \in Repo : Taken(next, k, r) = Taken(m, k, r)
  <2> SUFFICES ASSUME NEW k \in 0 .. n - 1, NEW r \in Repo
               PROVE  \A j \in 1 .. k : next.joined[j][r] = m.joined[j][r]
    BY DEF Taken
  <2>1. 1 .. k \subseteq 1 .. n - 1
    BY <1>4
  <2> QED BY <1>7, <2>1
<1>9. \A r \in Repo : Taken(next, n, r) = m.used[r] \cup hits[r]
  <2> SUFFICES ASSUME NEW r \in Repo PROVE Taken(next, n, r) = Taken(m, n - 1, r) \cup hits[r]
    BY <1>5
  <2>1. 1 .. n = (1 .. n - 1) \cup {n}
    BY <1>4
  <2>2. {next.joined[j][r] : j \in 1 .. n} = {m.joined[j][r] : j \in 1 .. n - 1} \cup {hits[r]}
    BY <1>7, <2>1
  <2> QED BY <2>2 DEF Taken
<1>10. next.used = [r \in Repo |-> Taken(next, n, r)]
  BY <1>1, <1>9
<1>11. ASSUME NEW i \in 1 .. n, NEW r \in Repo
       PROVE  next.joined[i][r] = Hits(endpoints[i], lists[r], Taken(next, i - 1, r), r)
  <2>1. i - 1 \in 0 .. n - 1 /\ (i = n \/ i \in 1 .. n - 1)
    BY <1>4
  <2>2. Taken(next, i - 1, r) = Taken(m, i - 1, r)
    BY <1>8, <2>1
  <2>3. CASE i = n
    <3>1. m.used[r] = Taken(m, n - 1, r)
      BY <1>5
    <3> QED BY <1>3, <1>7, <2>2, <2>3, <3>1
  <2>4. CASE i \in 1 .. n - 1
    BY <1>5, <1>7, <2>2, <2>4
  <2> QED BY <2>1, <2>3, <2>4
<1>12. JoinedUpto(next, n, endpoints, lists)
  BY <1>1, <1>6, <1>10, <1>11 DEF JoinedUpto
<1> QED BY <1>12 DEF next

(* What the join makes of all of them. *)
LEMMA MatchJoins ==
    ASSUME NEW endpoints \in Seq(Endpoint), NEW lists \in Lists
    PROVE  JoinedUpto(Match(endpoints, lists), Len(endpoints), endpoints, lists)
<1> DEFINE L == Len(endpoints)
           M == Matched(endpoints, lists)
           Good == {n \in 0 .. L : JoinedUpto(M[n], n, endpoints, lists)}
<1>1. L \in Nat
  OBVIOUS
<1>2. /\ M[0] = Nothing
      /\ \A n \in 1 .. L : M[n] = JoinEndpoint(M[n - 1], endpoints[n], lists)
  <2> HIDE DEF M
  <2>1. M = [n \in 0 .. L |-> IF n = 0 THEN Nothing ELSE JoinEndpoint(M[n - 1], endpoints[n], lists)]
    BY MatchedEquation DEF M
  <2>2. 0 \in 0 .. L /\ \A n \in 1 .. L : n \in 0 .. L /\ n # 0
    BY <1>1
  <2> HIDE DEF L
  <2> QED BY <2>1, <2>2
<1> HIDE DEF M
<1>3. JoinedUpto(M[0], 0, endpoints, lists)
  <2>1. 1 .. 0 = {}
    OBVIOUS
  <2>2. \A r \in Repo : Taken(Nothing, 0, r) = {}
    BY <2>1 DEF Taken
  <2>3. Nothing.used = [r \in Repo |-> Taken(Nothing, 0, r)]
    BY <2>2 DEF Nothing
  <2>4. Nothing.joined \in Seq([Repo -> SUBSET Nat]) /\ Len(Nothing.joined) = 0
    BY DEF Nothing
  <2>5. Nothing = [used |-> Nothing.used, joined |-> Nothing.joined]
    BY DEF Nothing
  <2> QED BY <1>2, <2>1, <2>3, <2>4, <2>5 DEF JoinedUpto
<1>4. Good = 0 .. L
  <2>1. 0 \in Good
    BY <1>1, <1>3
  <2>2. ASSUME NEW n \in 1 .. L, n - 1 \in Good PROVE n \in Good
    <3>1. JoinedUpto(M[n - 1], n - 1, endpoints, lists)
      BY <2>2
    <3>2. JoinedUpto(M[n], n, endpoints, lists)
      BY <1>2, <3>1, JoinOne
    <3> QED BY <3>2
  <2>3. Good \in SUBSET (0 .. L)
    OBVIOUS
  <2> HIDE DEF Good
  <2> QED BY <1>1, <2>1, <2>2, <2>3, UpTo
<1>5. L \in 0 .. L
  BY <1>1
<1>6. JoinedUpto(M[L], L, endpoints, lists)
  BY <1>4, <1>5
<1> QED BY <1>6 DEF Match, M

LEMMA JoinedRoutes ==
    ASSUME NEW endpoints \in Seq(Endpoint), NEW lists \in Lists, NEW r \in Repo
    PROVE  LET m == Match(endpoints, lists)
           IN  /\ \A i \in DOMAIN endpoints :
                      m.joined[i][r] = Hits(endpoints[i], lists[r], Taken(m, i - 1, r), r)
               /\ \A i, j \in DOMAIN endpoints :
                      i < j => m.joined[i][r] \subseteq Taken(m, j - 1, r)
               /\ \A n : n \in m.used[r] <=> \E i \in DOMAIN endpoints : n \in m.joined[i][r]
<1> DEFINE m == Match(endpoints, lists)
<1>1. JoinedUpto(m, Len(endpoints), endpoints, lists)
  BY MatchJoins
<1> HIDE DEF m
<1>2. DOMAIN endpoints = 1 .. Len(endpoints) /\ Len(endpoints) \in Nat
  OBVIOUS
<1>3. \A i \in DOMAIN endpoints :
          m.joined[i][r] = Hits(endpoints[i], lists[r], Taken(m, i - 1, r), r)
  BY <1>1, <1>2 DEF JoinedUpto
<1>4. m.used[r] = Taken(m, Len(endpoints), r)
  BY <1>1 DEF JoinedUpto
<1>5. ASSUME NEW i \in DOMAIN endpoints, NEW j \in DOMAIN endpoints, i < j
      PROVE  m.joined[i][r] \subseteq Taken(m, j - 1, r)
  <2>1. i \in 1 .. j - 1
    BY <1>2, <1>5
  <2> QED BY <2>1 DEF Taken
<1>6. \A n : n \in m.used[r] <=> \E i \in DOMAIN endpoints : n \in m.joined[i][r]
  BY <1>2, <1>4 DEF Taken
<1> QED BY <1>3, <1>5, <1>6 DEF m

-----------------------------------------------------------------------------
(* The properties of the join and of its rows, for anything the audit reads. *)

Inv == schema \in Seq(Endpoint) /\ routes \in Lists

LEMMA EndpointFields ==
    ASSUME Inv
    PROVE  /\ \A i \in DOMAIN schema :
                  /\ schema[i].method \in Method /\ schema[i].path \in Path
                  /\ schema[i].scope \subseteq Repo /\ schema[i].construct \in Construct
           /\ \A r \in Repo : /\ routes[r] \in Seq(Route)
                               /\ \A n \in DOMAIN routes[r] :
                                      /\ routes[r][n].path \in Path
                                      /\ routes[r][n].method \in Method \cup {AnyMethod}
<1>1. \A i \in DOMAIN schema : schema[i] \in Endpoint
  BY DEF Inv
<1>2. \A r \in Repo : routes[r] \in Seq(Route) /\ \A n \in DOMAIN routes[r] : routes[r][n] \in Route
  BY DEF Inv, Lists
<1> QED BY <1>1, <1>2 DEF Endpoint, Route

LEMMA ScopeOfJoins == Inv => JoinsRespectScope
<1> SUFFICES ASSUME Inv PROVE JoinsRespectScope
  OBVIOUS
<1> DEFINE m == Match(schema, routes)
           Drifted(i, r, n) == n \in m.joined[i][r] /\ Exact[routes[r][n].path] # Exact[schema[i].path]
<1>1. ASSUME NEW r \in Repo
      PROVE  /\ \A i \in DOMAIN schema :
                    m.joined[i][r] = Hits(schema[i], routes[r], Taken(m, i - 1, r), r)
             /\ \A i, j \in DOMAIN schema : i < j => m.joined[i][r] \subseteq Taken(m, j - 1, r)
  BY JoinedRoutes DEF Inv
<1> HIDE DEF m
<1>2. ASSUME NEW i \in DOMAIN schema, NEW r \in Repo, m.joined[i][r] # {}
      PROVE  r \in schema[i].scope
  BY <1>1, <1>2 DEF Hits
<1>3. ASSUME NEW i \in DOMAIN schema, NEW j \in DOMAIN schema, i < j,
             NEW r \in Repo, NEW n \in DOMAIN routes[r], Drifted(i, r, n), Drifted(j, r, n)
      PROVE  FALSE
  <2>1. n \notin ExactHits(schema[j], routes[r])
    BY <1>3 DEF ExactHits
  <2>2. n \in Taken(m, j - 1, r)
    BY <1>1, <1>3
  <2>3. n \notin Hits(schema[j], routes[r], Taken(m, j - 1, r), r)
    BY <2>1, <2>2 DEF Hits
  <2> QED BY <1>1, <1>3, <2>3
<1>4. DOMAIN schema \subseteq Nat
  BY DEF Inv
<1>5. ASSUME NEW i \in DOMAIN schema, NEW r \in Repo, NEW j \in DOMAIN schema \ {i}, NEW n \in DOMAIN routes[r]
      PROVE  ~(Drifted(i, r, n) /\ Drifted(j, r, n))
  <2>1. i < j \/ j < i
    BY <1>4
  <2> HIDE DEF Drifted
  <2> QED BY <1>3, <2>1
<1>6. ASSUME NEW i \in DOMAIN schema, NEW r \in Repo, NEW n \in m.joined[i][r]
      PROVE  \/ Spells(routes[r][n], schema[i])
             \/ /\ Drifts(routes[r][n], schema[i])
                /\ \A k \in DOMAIN routes[r] : ~Spells(routes[r][k], schema[i])
  <2>1. n \in Hits(schema[i], routes[r], Taken(m, i - 1, r), r)
    BY <1>1, <1>6
  <2>2. CASE n \in ExactHits(schema[i], routes[r])
    BY <2>2 DEF ExactHits, Spells
  <2>3. CASE ExactHits(schema[i], routes[r]) = {} /\ n \in LooseHits(schema[i], routes[r])
    BY <2>3 DEF ExactHits, LooseHits, Spells, Drifts
  <2> QED BY <2>1, <2>2, <2>3 DEF Hits
<1> QED BY <1>2, <1>5, <1>6 DEF JoinsRespectScope, m

LEMMA TruthOfRows == Inv => RowsAreTrue
<1> SUFFICES ASSUME Inv, NEW row \in Rows(schema, routes), NEW r \in Repo
             PROVE  /\ r \in row.active =>
                           \E i \in DOMAIN routes[r] : Spells(routes[r][i], row) \/ Drifts(routes[r][i], row)
                    /\ r \in row.missing =>
                           /\ \E i \in DOMAIN schema : r \in schema[i].scope /\ schema[i].path = row.path
                           /\ \A i \in DOMAIN routes[r] : ~Spells(routes[r][i], row)
  BY DEF RowsAreTrue
<1> DEFINE m == Match(schema, routes)
<1>1. \A i \in DOMAIN schema : m.joined[i][r] = Hits(schema[i], routes[r], Taken(m, i - 1, r), r)
  BY JoinedRoutes DEF Inv
<1>2. row \in {SchemaRow(m, schema, routes, i) : i \in DOMAIN schema} \/ row \in ConsumerRows(m, schema, routes)
  BY DEF Rows
<1> HIDE DEF m
<1>3. ASSUME NEW i \in DOMAIN schema, row = SchemaRow(m, schema, routes, i)
      PROVE  /\ r \in row.active =>
                    \E n \in DOMAIN routes[r] : Spells(routes[r][n], row) \/ Drifts(routes[r][n], row)
             /\ r \in row.missing =>
                    /\ \E k \in DOMAIN schema : r \in schema[k].scope /\ schema[k].path = row.path
                    /\ \A n \in DOMAIN routes[r] : ~Spells(routes[r][n], row)
  <2> DEFINE live == {q \in Repo : m.joined[i][q] # {} \/ \E c \in Extras(m, schema, routes, i) : c[1] = q}
  <2>1. /\ row.method = schema[i].method /\ row.path = schema[i].path
        /\ row.active = live /\ row.missing = schema[i].scope \ live
    BY <1>3 DEF SchemaRow, RowOf
  <2>2. ASSUME NEW n \in m.joined[i][r]
        PROVE  n \in DOMAIN routes[r] /\ (Spells(routes[r][n], row) \/ Drifts(routes[r][n], row))
    <3>1. n \in ExactHits(schema[i], routes[r]) \/ n \in LooseHits(schema[i], routes[r])
      BY <1>1, <2>2, HitsSpellOrDrift
    <3>2. CASE n \in ExactHits(schema[i], routes[r])
      BY <2>1, <3>2 DEF ExactHits, Spells
    <3>3. CASE n \in LooseHits(schema[i], routes[r])
      BY <2>1, <3>3 DEF LooseHits, Drifts
    <3> QED BY <3>1, <3>2, <3>3
  <2>3. ASSUME NEW c \in Extras(m, schema, routes, i), c[1] = r
        PROVE  c[2] \in DOMAIN routes[r] /\ Spells(routes[r][c[2]], row)
    BY <2>1, <2>3 DEF Extras, ConsumerOnly, Displays, Spells
  <2>4. ASSUME r \in schema[i].scope, r \notin live
        PROVE  \A n \in DOMAIN routes[r] : ~Spells(routes[r][n], row)
    <3>1. m.joined[i][r] = {}
      BY <2>4
    <3>2. ExactHits(schema[i], routes[r]) = {}
      BY <1>1, <2>4, <3>1 DEF Hits
    <3> QED BY <2>1, <3>2 DEF ExactHits, Spells
  <2>5. r \in row.active => \E n \in DOMAIN routes[r] : Spells(routes[r][n], row) \/ Drifts(routes[r][n], row)
    BY <2>1, <2>2, <2>3
  <2> QED BY <2>1, <2>4, <2>5
<1>4. ASSUME row \in ConsumerRows(m, schema, routes)
      PROVE  /\ r \in row.active => \E n \in DOMAIN routes[r] : Spells(routes[r][n], row)
             /\ row.missing = {}
  <2> DEFINE rest == {c \in ConsumerOnly(m, routes) :
                        \A i \in DOMAIN schema : c \notin Extras(m, schema, routes, i)}
             Like(c) == {d \in rest : routes[d[1]][d[2]] = routes[c[1]][c[2]]}
  <2>1. PICK c \in rest : row = RowOf(routes[c[1]][c[2]].method, routes[c[1]][c[2]].path, {}, {},
                                      {d[1] : d \in Like(c)})
    BY <1>4 DEF ConsumerRows
  <2>2. /\ row.method = routes[c[1]][c[2]].method /\ row.path = routes[c[1]][c[2]].path
        /\ row.active = {d[1] : d \in Like(c)} /\ row.missing = {}
    BY <2>1 DEF RowOf
  <2>3. ASSUME NEW d \in Like(c), d[1] = r
        PROVE  d[2] \in DOMAIN routes[r] /\ Spells(routes[r][d[2]], row)
    BY <2>2, <2>3 DEF ConsumerOnly, Spells
  <2> QED BY <2>2, <2>3
<1> QED BY <1>2, <1>3, <1>4

LEMMA NothingLost == Inv => NothingIsLost
<1> SUFFICES ASSUME Inv PROVE NothingIsLost
  OBVIOUS
<1> DEFINE m == Match(schema, routes)
           rows == Rows(schema, routes)
           row(i) == SchemaRow(m, schema, routes, i)
<1>1. ASSUME NEW i \in DOMAIN schema
      PROVE  /\ row(i) \in rows
             /\ row(i).construct = {schema[i].construct}
             /\ row(i).path = schema[i].path /\ row(i).method = schema[i].method
  BY DEF Rows, SchemaRow, RowOf
<1>2. ASSUME NEW i \in DOMAIN schema, NEW r \in Repo,
             m.joined[i][r] # {} \/ \E c \in Extras(m, schema, routes, i) : c[1] = r
      PROVE  r \in row(i).active
  BY <1>2 DEF SchemaRow, RowOf
<1>3. ConsumerRows(m, schema, routes) \subseteq rows
  BY DEF Rows
<1>4. ASSUME NEW r \in Repo
      PROVE  /\ \A i \in DOMAIN schema :
                    m.joined[i][r] = Hits(schema[i], routes[r], Taken(m, i - 1, r), r)
             /\ \A n : n \in m.used[r] <=> \E i \in DOMAIN schema : n \in m.joined[i][r]
  BY JoinedRoutes DEF Inv
<1> HIDE DEF m, rows, row
<1>5. ASSUME NEW r \in Repo, NEW n \in DOMAIN routes[r]
      PROVE  \E w \in rows :
                 /\ r \in w.active
                 /\ \/ Spells(routes[r][n], w)
                    \/ /\ Drifts(routes[r][n], w) /\ w.construct # {}
                       /\ \A j \in DOMAIN routes[r] : ~Spells(routes[r][j], w)
  <2>1. CASE n \in m.used[r]
    <3>1. PICK i \in DOMAIN schema : n \in m.joined[i][r]
      BY <1>4, <2>1
    <3>2. row(i) \in rows /\ r \in row(i).active
      BY <1>1, <1>2, <3>1
    <3>3. \/ n \in ExactHits(schema[i], routes[r])
          \/ ExactHits(schema[i], routes[r]) = {} /\ n \in LooseHits(schema[i], routes[r])
      BY <1>4, <3>1, HitsSpellOrDrift
    <3>4. CASE n \in ExactHits(schema[i], routes[r])
      BY <1>1, <3>2, <3>4 DEF ExactHits, Spells
    <3>5. CASE ExactHits(schema[i], routes[r]) = {} /\ n \in LooseHits(schema[i], routes[r])
      <4>1. Drifts(routes[r][n], row(i)) /\ row(i).construct # {}
        BY <1>1, <3>5 DEF LooseHits, Drifts
      <4>2. \A j \in DOMAIN routes[r] : ~Spells(routes[r][j], row(i))
        BY <1>1, <3>5 DEF ExactHits, Spells
      <4> QED BY <3>2, <4>1, <4>2
    <3> QED BY <3>3, <3>4, <3>5
  <2>2. CASE n \notin m.used[r]
    <3> DEFINE c == <<r, n>>
    <3>1. c \in ConsumerOnly(m, routes)
      BY <2>2 DEF ConsumerOnly
    <3>2. CASE \E i \in DOMAIN schema : c \in Extras(m, schema, routes, i)
      <4>1. PICK i \in DOMAIN schema : c \in Extras(m, schema, routes, i)
        BY <3>2
      <4>2. routes[r][n].method = schema[i].method /\ routes[r][n].path = schema[i].path
        BY <4>1 DEF Extras, Displays
      <4>3. row(i) \in rows /\ r \in row(i).active /\ Spells(routes[r][n], row(i))
        BY <1>1, <1>2, <4>1, <4>2 DEF Spells
      <4> QED BY <4>3
    <3>3. CASE \A i \in DOMAIN schema : c \notin Extras(m, schema, routes, i)
      <4> DEFINE rest == {d \in ConsumerOnly(m, routes) :
                            \A i \in DOMAIN schema : d \notin Extras(m, schema, routes, i)}
                 like == {d \in rest : routes[d[1]][d[2]] = routes[c[1]][c[2]]}
                 w == RowOf(routes[c[1]][c[2]].method, routes[c[1]][c[2]].path, {}, {}, {d[1] : d \in like})
      <4>1. c \in rest /\ c \in like
        BY <3>1, <3>3
      <4>2. w \in rows
        BY <1>3, <4>1 DEF ConsumerRows
      <4>3. w.method = routes[r][n].method /\ w.path = routes[r][n].path /\ w.active = {d[1] : d \in like}
        BY DEF RowOf
      <4>4. r \in w.active
        BY <4>1, <4>3
      <4>5. Spells(routes[r][n], w)
        BY <4>3 DEF Spells
      <4> QED BY <4>2, <4>4, <4>5
    <3> QED BY <3>2, <3>3
  <2> QED BY <2>1, <2>2
<1>6. \A i \in DOMAIN schema :
          \E w \in rows : /\ w.construct = {schema[i].construct}
                          /\ w.path = schema[i].path /\ w.method = schema[i].method
  BY <1>1
<1> QED BY <1>5, <1>6 DEF NothingIsLost, rows

-----------------------------------------------------------------------------
(* A server registers one more route. *)

LEMMA InsertedBetween ==
    ASSUME NEW S, NEW a \in Seq(S), NEW e \in S, NEW b \in Seq(S),
           NEW c, c = (a \o <<e>>) \o b
    PROVE  /\ c \in Seq(S) /\ Len(c) = Len(a) + 1 + Len(b)
           /\ c[Len(a) + 1] = e
           /\ \A k \in 1 .. Len(a) : c[k] = a[k]
           /\ \A k \in 1 .. Len(b) : c[Len(a) + 1 + k] = b[k]
<1>1. Len(a) \in Nat /\ Len(b) \in Nat
  OBVIOUS
<1>2. c \in Seq(S) /\ Len(c) = Len(a) + 1 + Len(b)
  OBVIOUS
<1>3. c[Len(a) + 1] = e
  OBVIOUS
<1>4. \A k \in 1 .. Len(a) : c[k] = a[k]
  OBVIOUS
<1>5. \A k \in 1 .. Len(b) : c[Len(a) + 1 + k] = b[k]
  OBVIOUS
<1> QED BY <1>2, <1>3, <1>4, <1>5

LEMMA Cut ==
    ASSUME NEW S, NEW s \in Seq(S), NEW i \in 1 .. Len(s) + 1
    PROVE  /\ SubSeq(s, 1, i - 1) \in Seq(S) /\ Len(SubSeq(s, 1, i - 1)) = i - 1
           /\ \A k \in 1 .. i - 1 : SubSeq(s, 1, i - 1)[k] = s[k]
           /\ SubSeq(s, i, Len(s)) \in Seq(S) /\ Len(SubSeq(s, i, Len(s))) = Len(s) - i + 1
           /\ \A k \in 1 .. Len(s) - i + 1 : SubSeq(s, i, Len(s))[k] = s[i + k - 1]
<1>1. Len(s) \in Nat /\ i \in Nat /\ i >= 1 /\ i <= Len(s) + 1
  OBVIOUS
<1>2. SubSeq(s, 1, i - 1) \in Seq(S) /\ Len(SubSeq(s, 1, i - 1)) = i - 1
  BY <1>1
<1>3. \A k \in 1 .. i - 1 : SubSeq(s, 1, i - 1)[k] = s[k]
  BY <1>1
<1>4. SubSeq(s, i, Len(s)) \in Seq(S) /\ Len(SubSeq(s, i, Len(s))) = Len(s) - i + 1
  BY <1>1
<1>5. \A k \in 1 .. Len(s) - i + 1 : SubSeq(s, i, Len(s))[k] = s[i + k - 1]
  BY <1>1
<1> QED BY <1>2, <1>3, <1>4, <1>5

(* What InsertAt returns: e in the i-th place, the others in their order.  *)
LEMMA Inserted ==
    ASSUME NEW S, NEW s \in Seq(S), NEW i \in 1 .. Len(s) + 1, NEW e \in S
    PROVE  /\ InsertAt(s, i, e) \in Seq(S) /\ Len(InsertAt(s, i, e)) = Len(s) + 1
           /\ InsertAt(s, i, e)[i] = e
           /\ \A k \in DOMAIN s : InsertAt(s, i, e)[IF k < i THEN k ELSE k + 1] = s[k]
<1>1. Len(s) \in Nat /\ i \in Nat /\ i >= 1 /\ i <= Len(s) + 1
  OBVIOUS
<1>2. PICK a : a = SubSeq(s, 1, i - 1)
  OBVIOUS
<1>3. PICK b : b = SubSeq(s, i, Len(s))
  OBVIOUS
<1>4. a \in Seq(S) /\ Len(a) = i - 1 /\ \A k \in 1 .. i - 1 : a[k] = s[k]
  BY <1>2, Cut
<1>5. b \in Seq(S) /\ Len(b) = Len(s) - i + 1 /\ \A k \in 1 .. Len(s) - i + 1 : b[k] = s[i + k - 1]
  BY <1>3, Cut
<1>6. InsertAt(s, i, e) = (a \o <<e>>) \o b
  BY <1>2, <1>3 DEF InsertAt
<1>7. PICK c : c = (a \o <<e>>) \o b
  OBVIOUS
<1>8. a \in Seq(S) /\ b \in Seq(S) /\ e \in S
  BY <1>4, <1>5
<1>9. c \in Seq(S)
  BY ONLY <1>8, <1>7, InsertedBetween
<1>10. Len(c) = Len(a) + 1 + Len(b)
  BY ONLY <1>8, <1>7, InsertedBetween
<1>11. c[Len(a) + 1] = e
  BY ONLY <1>8, <1>7, InsertedBetween
<1>12. \A k \in 1 .. Len(a) : c[k] = a[k]
  BY ONLY <1>8, <1>7, InsertedBetween
<1>13. \A k \in 1 .. Len(b) : c[Len(a) + 1 + k] = b[k]
  BY ONLY <1>8, <1>7, InsertedBetween
<1>14. c \in Seq(S) /\ Len(c) = Len(a) + 1 + Len(b) /\ c[Len(a) + 1] = e
               /\ (\A k \in 1 .. Len(a) : c[k] = a[k]) /\ \A k \in 1 .. Len(b) : c[Len(a) + 1 + k] = b[k]
  BY <1>9, <1>10, <1>11, <1>12, <1>13
<1>15. c = InsertAt(s, i, e)
  BY <1>6, <1>7
<1>16. c \in Seq(S) /\ Len(c) = Len(s) + 1 /\ c[i] = e
  BY <1>1, <1>4, <1>5, <1>14
<1>17. \A k \in 1 .. i - 1 : c[k] = s[k]
  BY <1>1, <1>4, <1>14
<1>18. ASSUME NEW k \in i .. Len(s) PROVE c[k + 1] = s[k]
  <2>1. k + 1 - i \in 1 .. Len(b) /\ Len(a) + 1 + (k + 1 - i) = k + 1 /\ i + (k + 1 - i) - 1 = k
    BY <1>1, <1>4, <1>5
  <2>2. c[Len(a) + 1 + (k + 1 - i)] = b[k + 1 - i]
    BY <1>14, <2>1
  <2>3. b[k + 1 - i] = s[i + (k + 1 - i) - 1]
    BY <1>5, <2>1
  <2> QED BY <2>1, <2>2, <2>3
<1>19. ASSUME NEW k \in 1 .. Len(s) PROVE c[IF k < i THEN k ELSE k + 1] = s[k]
  <2>1. CASE k < i
    <3>1. k \in 1 .. i - 1
      BY <1>1, <2>1
    <3> QED BY <1>17, <2>1, <3>1
  <2>2. CASE ~(k < i)
    <3>1. k \in i .. Len(s)
      BY <1>1, <2>2
    <3> QED BY <1>18, <2>2, <3>1
  <2> QED BY <2>1, <2>2
<1> QED BY <1>15, <1>16, <1>19

(* The routes of server r in lists are also in more, in other places: what *)
(* an endpoint is joined to in lists it is not left without in more, and a *)
(* route that is left over in lists is left over in more.                  *)
LEMMA MoreRoutes ==
    ASSUME NEW endpoints \in Seq(Endpoint), NEW lists \in Lists, NEW more \in Lists, NEW r \in Repo,
           NEW place \in [DOMAIN lists[r] -> DOMAIN more[r]],
           \A k \in DOMAIN lists[r] : more[r][place[k]] = lists[r][k]
    PROVE  LET m == Match(endpoints, lists)
               n == Match(endpoints, more)
           IN  /\ \A i \in DOMAIN endpoints : m.joined[i][r] # {} => n.joined[i][r] # {}
               /\ \A k \in DOMAIN lists[r] : place[k] \in n.used[r] => k \in m.used[r]
<1> DEFINE m == Match(endpoints, lists)
           n == Match(endpoints, more)
<1>1. /\ \A i \in DOMAIN endpoints :
             m.joined[i][r] = Hits(endpoints[i], lists[r], Taken(m, i - 1, r), r)
      /\ \A k : k \in m.used[r] <=> \E i \in DOMAIN endpoints : k \in m.joined[i][r]
  BY JoinedRoutes
<1>2. /\ \A i \in DOMAIN endpoints :
             n.joined[i][r] = Hits(endpoints[i], more[r], Taken(n, i - 1, r), r)
      /\ \A k : k \in n.used[r] <=> \E i \in DOMAIN endpoints : k \in n.joined[i][r]
  BY JoinedRoutes
<1> HIDE DEF m, n
<1>3. DOMAIN endpoints = 1 .. Len(endpoints) /\ Len(endpoints) \in Nat
  OBVIOUS
<1>4. ASSUME NEW ep, NEW k \in DOMAIN lists[r]
      PROVE  /\ k \in ExactHits(ep, lists[r]) <=> place[k] \in ExactHits(ep, more[r])
             /\ k \in LooseHits(ep, lists[r]) <=> place[k] \in LooseHits(ep, more[r])
  BY DEF ExactHits, LooseHits
<1>5. ASSUME NEW ep, NEW used, NEW k \in Hits(ep, lists[r], used, r) PROVE k \in DOMAIN lists[r]
  BY <1>5 DEF Hits, ExactHits, LooseHits
<1>6. ASSUME NEW j \in DOMAIN endpoints, NEW k \in DOMAIN lists[r], place[k] \in n.joined[j][r]
      PROVE  \E i \in 1 .. j : k \in m.joined[i][r]
  <2>1. /\ r \in endpoints[j].scope
        /\ \/ place[k] \in ExactHits(endpoints[j], more[r])
           \/ ExactHits(endpoints[j], more[r]) = {} /\ place[k] \in LooseHits(endpoints[j], more[r])
    BY <1>2, <1>6, HitsSpellOrDrift
  <2>2. j \in 1 .. j /\ \A i \in 1 .. j - 1 : i \in 1 .. j
    BY <1>3
  <2>3. CASE place[k] \in ExactHits(endpoints[j], more[r])
    <3>1. k \in ExactHits(endpoints[j], lists[r])
      BY <1>4, <2>3
    <3>2. k \in m.joined[j][r]
      BY <1>1, <2>1, <3>1 DEF Hits
    <3> QED BY <2>2, <3>2
  <2>4. CASE ExactHits(endpoints[j], more[r]) = {} /\ place[k] \in LooseHits(endpoints[j], more[r])
    <3>1. ExactHits(endpoints[j], lists[r]) = {}
      <4>1. \A x \in ExactHits(endpoints[j], lists[r]) : x \in DOMAIN lists[r]
        BY DEF ExactHits
      <4> QED BY <1>4, <2>4, <4>1
    <3>2. k \in LooseHits(endpoints[j], lists[r])
      BY <1>4, <2>4
    <3>3. CASE k \in Taken(m, j - 1, r)
      BY <2>2, <3>3 DEF Taken
    <3>4. CASE k \notin Taken(m, j - 1, r)
      <4>1. k \in m.joined[j][r]
        BY <1>1, <2>1, <3>1, <3>2, <3>4 DEF Hits
      <4> QED BY <2>2, <4>1
    <3> QED BY <3>3, <3>4
  <2> QED BY <2>1, <2>3, <2>4
<1>7. ASSUME NEW i \in DOMAIN endpoints, NEW k \in DOMAIN lists[r], place[k] \in Taken(n, i - 1, r)
      PROVE  k \in Taken(m, i - 1, r)
  <2>1. PICK j \in 1 .. i - 1 : place[k] \in n.joined[j][r]
    BY <1>7 DEF Taken
  <2>2. j \in DOMAIN endpoints /\ 1 .. j \subseteq 1 .. i - 1
    BY <1>3
  <2>3. PICK h \in 1 .. j : k \in m.joined[h][r]
    BY <1>6, <2>1, <2>2
  <2> QED BY <2>2, <2>3 DEF Taken
<1>8. ASSUME NEW i \in DOMAIN endpoints, NEW k \in m.joined[i][r]
      PROVE  n.joined[i][r] # {}
  <2>1. k \in DOMAIN lists[r]
    BY <1>1, <1>5
  <2>2. /\ r \in endpoints[i].scope
        /\ \/ k \in ExactHits(endpoints[i], lists[r])
           \/ k \in LooseHits(endpoints[i], lists[r]) \ Taken(m, i - 1, r)
    BY <1>1, <1>8, HitsSpellOrDrift
  <2>3. CASE ExactHits(endpoints[i], more[r]) # {}
    BY <1>2, <2>2, <2>3 DEF Hits
  <2>4. CASE ExactHits(endpoints[i], more[r]) = {}
    <3>1. place[k] \in LooseHits(endpoints[i], more[r]) \ Taken(n, i - 1, r)
      BY <1>4, <1>7, <2>1, <2>2, <2>4
    <3> QED BY <1>2, <2>2, <2>4, <3>1 DEF Hits
  <2> QED BY <2>3, <2>4
<1>9. ASSUME NEW k \in DOMAIN lists[r], place[k] \in n.used[r] PROVE k \in m.used[r]
  <2>1. PICK j \in DOMAIN endpoints : place[k] \in n.joined[j][r]
    BY <1>2, <1>9
  <2>2. PICK h \in 1 .. j : k \in m.joined[h][r]
    BY <1>6, <2>1
  <2>3. h \in DOMAIN endpoints
    BY <1>3
  <2> QED BY <1>1, <2>2, <2>3
<1> QED BY <1>8, <1>9 DEF m, n

(* Registering a route gives each old one a place in the new lists. *)
LEMMA OldRoutesHavePlaces ==
    ASSUME Inv, NEW q \in Repo, NEW route \in Route, Register(q, route), NEW r \in Repo
    PROVE  /\ routes' \in Lists
           /\ \E place \in [DOMAIN routes[r] -> DOMAIN routes'[r]] :
                  \A k \in DOMAIN routes[r] : routes'[r][place[k]] = routes[r][k]
<1>1. PICK i \in 1 .. Len(routes[q]) + 1 : routes' = [routes EXCEPT ![q] = InsertAt(@, i, route)]
  BY DEF Register
<1>2. routes \in [Repo -> Seq(Route)] /\ routes[q] \in Seq(Route)
  BY DEF Inv, Lists
<1> DEFINE new == InsertAt(routes[q], i, route)
<1>3. /\ new \in Seq(Route) /\ Len(new) = Len(routes[q]) + 1
      /\ \A k \in DOMAIN routes[q] : new[IF k < i THEN k ELSE k + 1] = routes[q][k]
  BY <1>2, Inserted
<1> HIDE DEF new
<1>4. routes'[q] = new /\ \A p \in Repo \ {q} : routes'[p] = routes[p]
  BY <1>1, <1>2 DEF new
<1>5. routes' \in Lists
  BY <1>1, <1>2, <1>3 DEF Lists, new
<1>6. CASE r = q
  <2> DEFINE place == [k \in DOMAIN routes[q] |-> IF k < i THEN k ELSE k + 1]
  <2>1. ASSUME NEW k \in DOMAIN routes[q] PROVE (IF k < i THEN k ELSE k + 1) \in DOMAIN new
    <3>1. k \in 1 .. Len(routes[q]) /\ Len(routes[q]) \in Nat /\ i \in Nat
      BY <1>2
    <3>2. DOMAIN new = 1 .. Len(routes[q]) + 1
      BY <1>3
    <3> QED BY <3>1, <3>2
  <2>2. place \in [DOMAIN routes[q] -> DOMAIN new]
    BY <2>1
  <2>3. \A k \in DOMAIN routes[q] : new[place[k]] = routes[q][k]
    BY <1>3
  <2> HIDE DEF place
  <2> QED BY <1>4, <1>5, <1>6, <2>2, <2>3
<1>7. CASE r # q
  <2> DEFINE place == [k \in DOMAIN routes[r] |-> k]
  <2>1. place \in [DOMAIN routes[r] -> DOMAIN routes[r]] /\ \A k \in DOMAIN routes[r] : place[k] = k
    OBVIOUS
  <2> HIDE DEF place
  <2>2. routes'[r] = routes[r]
    BY <1>4, <1>7
  <2> QED BY <1>5, <2>1, <2>2
<1> QED BY <1>6, <1>7

LEMMA RegisterKeepsRows ==
    ASSUME Inv, NEW q \in Repo, NEW route \in Route, Register(q, route)
    PROVE  ActiveStaysActive
<1> DEFINE m == Match(schema, routes)
           n == Match(schema, routes')
           old(i) == SchemaRow(m, schema, routes, i)
           new(i) == SchemaRow(n, schema, routes', i)
<1>1. ASSUME NEW row \in Rows(schema, routes), row.construct # {}
      PROVE  \E i \in DOMAIN schema : row = old(i)
  BY <1>1 DEF Rows, ConsumerRows, RowOf
<1>2. \A i \in DOMAIN schema : new(i) \in Rows(schema, routes')
  BY DEF Rows
<1>3. \A i \in DOMAIN schema :
          /\ <<new(i).construct, new(i).method, new(i).path>> = <<old(i).construct, old(i).method, old(i).path>>
          /\ old(i).active = {r \in Repo : m.joined[i][r] # {} \/ \E c \in Extras(m, schema, routes, i) : c[1] = r}
          /\ new(i).active = {r \in Repo : n.joined[i][r] # {} \/ \E c \in Extras(n, schema, routes', i) : c[1] = r}
  BY DEF SchemaRow, RowOf
<1>4. ASSUME NEW r \in Repo
      PROVE  /\ \A i \in DOMAIN schema : m.joined[i][r] # {} => n.joined[i][r] # {}
             /\ \E place \in [DOMAIN routes[r] -> DOMAIN routes'[r]] :
                    \A k \in DOMAIN routes[r] :
                        /\ routes'[r][place[k]] = routes[r][k]
                        /\ place[k] \in n.used[r] => k \in m.used[r]
  <2>1. PICK place \in [DOMAIN routes[r] -> DOMAIN routes'[r]] :
            \A k \in DOMAIN routes[r] : routes'[r][place[k]] = routes[r][k]
    BY OldRoutesHavePlaces
  <2>2. routes' \in Lists /\ routes \in Lists /\ schema \in Seq(Endpoint)
    BY OldRoutesHavePlaces DEF Inv
  <2>3. /\ \A i \in DOMAIN schema : m.joined[i][r] # {} => n.joined[i][r] # {}
        /\ \A k \in DOMAIN routes[r] : place[k] \in n.used[r] => k \in m.used[r]
    BY <2>1, <2>2, MoreRoutes
  <2> QED BY <2>1, <2>3
<1> HIDE DEF m, n
<1>5. ASSUME NEW i \in DOMAIN schema, NEW r \in Repo,
             NEW c \in Extras(m, schema, routes, i), c[1] = r
      PROVE  \E d \in Extras(n, schema, routes', i) : d[1] = r
  <2>1. PICK place \in [DOMAIN routes[r] -> DOMAIN routes'[r]] :
            \A k \in DOMAIN routes[r] : /\ routes'[r][place[k]] = routes[r][k]
                                        /\ place[k] \in n.used[r] => k \in m.used[r]
    BY <1>4
  <2>2. /\ c[2] \in DOMAIN routes[r] /\ c[2] \notin m.used[r] /\ First(schema, i)
        /\ routes[r][c[2]].method = schema[i].method /\ routes[r][c[2]].path = schema[i].path
    BY <1>5 DEF Extras, ConsumerOnly, Displays
  <2> DEFINE d == <<r, place[c[2]]>>
  <2>3. d \in ConsumerOnly(n, routes')
    BY <2>1, <2>2 DEF ConsumerOnly
  <2>4. Displays(d, routes', schema[i].method, schema[i].path)
    BY <2>1, <2>2 DEF Displays
  <2> QED BY <2>2, <2>3, <2>4 DEF Extras
<1>6. \A i \in DOMAIN schema : old(i).active \subseteq new(i).active
  BY <1>3, <1>4, <1>5
<1> HIDE DEF old, new
<1> QED BY <1>1, <1>2, <1>3, <1>6 DEF ActiveStaysActive

-----------------------------------------------------------------------------
(* The specification. *)

LEMMA InvInductive == Init /\ [][Next]_vars => [](Inv /\ TypeOK)
<1>1. Init => Inv /\ TypeOK
  BY DEF Init, Inv, Lists, TypeOK, Sorted
<1>2. Inv /\ TypeOK /\ [Next]_vars => (Inv /\ TypeOK)'
  <2> SUFFICES ASSUME Inv, TypeOK, [Next]_vars PROVE Inv' /\ TypeOK'
    OBVIOUS
  <2>1. ASSUME NEW ep \in Endpoint, Declare(ep) PROVE Inv' /\ TypeOK'
    <3>1. PICK i \in 1 .. Len(schema) + 1 : schema' = InsertAt(schema, i, ep)
      BY <2>1 DEF Declare
    <3>2. schema' \in Seq(Endpoint)
      BY <3>1, Inserted DEF Inv
    <3> QED BY <2>1, <3>2 DEF Declare, Inv, TypeOK
  <2>2. ASSUME NEW q \in Repo, NEW route \in Route, Register(q, route) PROVE Inv' /\ TypeOK'
    <3>1. PICK i \in 1 .. Len(routes[q]) + 1 : routes' = [routes EXCEPT ![q] = InsertAt(@, i, route)]
      BY <2>2 DEF Register
    <3>2. routes' \in Lists
      BY <2>2, OldRoutesHavePlaces
    <3>3. ASSUME NEW r \in Repo PROVE Sorted(routes'[r])
      <4>1. CASE r = q
        BY <2>2, <4>1 DEF Register
      <4>2. CASE r # q
        <5>1. routes'[r] = routes[r]
          BY <3>1, <4>2 DEF Inv, Lists
        <5> QED BY <5>1 DEF TypeOK
      <4> QED BY <4>1, <4>2
    <3> QED BY <2>2, <3>2, <3>3 DEF Register, Inv, Lists, TypeOK
  <2>3. CASE UNCHANGED vars
    BY <2>3 DEF vars, Inv, TypeOK
  <2> QED BY <2>1, <2>2, <2>3 DEF Next
<1> QED BY <1>1, <1>2, PTL

(* What the audit reads keeps its shape and its order (buildEndpointIndex, *)
(* sortConsumerEndpoints), whatever is declared and registered.            *)
THEOREM TypesStay == Spec => []TypeOK
BY InvInductive, PTL DEF Spec

(* No endpoint and no route is left out of the rows, and a route counts as *)
(* the drifted one of an endpoint only when none of its server's routes    *)
(* spells that endpoint's path (matchEndpoints, buildAuditRows).           *)
THEOREM NothingIsEverLost == Spec => []NothingIsLost
BY InvInductive, NothingLost, PTL DEF Spec

(* A row never says that a server has an endpoint without a route of that  *)
(* server behind it, nor that one is missing that some route spells        *)
(* (computeEndpointStatus).                                                *)
THEOREM RowsAreAlwaysTrue == Spec => []RowsAreTrue
BY InvInductive, TruthOfRows, PTL DEF Spec

(* No join leaves the scope of its endpoint, what is joined spells it or   *)
(* drifts from one that nothing spells, and no drifted route stands for    *)
(* two endpoints (matchEndpoints).                                         *)
THEOREM JoinsAlwaysInScope == Spec => []JoinsRespectScope
BY InvInductive, ScopeOfJoins, PTL DEF Spec

(* A route more takes no server from any endpoint (matchEndpoints): what   *)
(* the second pass has left does not become less for any of them.          *)
THEOREM NewRoutesTakeNothing == Spec => NewRouteKeepsTheOthers
<1>1. Inv /\ [Next]_vars => [ActiveStaysActive]_vars
  <2> SUFFICES ASSUME Inv, Next PROVE ActiveStaysActive
    OBVIOUS
  <2>1. ASSUME NEW ep \in Endpoint, Declare(ep) PROVE ActiveStaysActive
    BY <2>1 DEF Declare, ActiveStaysActive
  <2> QED BY <2>1, RegisterKeepsRows DEF Next
<1> QED BY <1>1, InvInductive, PTL DEF Spec, NewRouteKeepsTheOthers
=============================================================================
