------------------------ MODULE DesignConversionProofs ------------------------
(***************************************************************************)
(* The conversions of designs, for any stored designs and files, any ids   *)
(* that do not run out, and any order in which maps are ranged over.       *)
(***************************************************************************)
EXTENDS DesignConversion, FiniteSetTheorems, WellFoundedInduction, TLAPS

-----------------------------------------------------------------------------
(* Going through a sequence. *)

(* A nonempty set of numbers up to L has a least one: n is least when the  *)
(* set of those before it is minimal.                                      *)
LEMMA LeastOfSet ==
    ASSUME NEW L \in Nat, NEW T \in SUBSET (0 .. L), T # {}
    PROVE  \E n \in T : \A k \in T : n <= k
<1> DEFINE Before(n) == {k \in T : k < n}
           Heads == {Before(n) : n \in T}
<1>1. IsFiniteSet(T)
  <2>1. 0 \in Int /\ L \in Int
    OBVIOUS
  <2>2. IsFiniteSet(0 .. L)
    BY <2>1, FS_Interval
  <2> QED BY <2>2, FS_Subset
<1>2. Heads \subseteq FiniteSubsetsOf(T) /\ Heads # {}
  <2>1. \A n \in T : Before(n) \in SUBSET T /\ IsFiniteSet(Before(n))
    BY <1>1, FS_Subset
  <2> QED BY <2>1 DEF FiniteSubsetsOf
<1>3. PICK H \in Heads : \A G \in Heads : <<G, H>> \notin StrictSubsetOrdering(T)
  BY <1>1, <1>2, WFMin, FS_StrictSubsetOrderingWellFounded
<1>4. PICK n \in T : H = Before(n)
  OBVIOUS
<1>5. \A k \in T : ~(k < n)
  <2> SUFFICES ASSUME NEW k \in T, k < n PROVE FALSE
    OBVIOUS
  <2>1. \A j \in T : j \in Nat
    OBVIOUS
  <2>2. (\A j \in T : j < k => j < n) /\ ~(k < k)
    BY <2>1
  <2>3. Before(k) \subseteq Before(n) /\ k \in Before(n) /\ k \notin Before(k)
    BY <2>2, Zenon
  <2>4. <<Before(k), Before(n)>> \in StrictSubsetOrdering(T)
    BY <2>3 DEF StrictSubsetOrdering
  <2> QED BY <2>4, <1>3, <1>4
<1>6. \A k \in T : n <= k
  BY <1>5
<1> QED BY <1>6

(* What holds at 0 and, with each number, at the next one, holds up to L.  *)
LEMMA UpTo ==
    ASSUME NEW L \in Nat, NEW T \in SUBSET (0 .. L), 0 \in T,
           \A n \in 1 .. L : n - 1 \in T => n \in T
    PROVE  T = 0 .. L
<1> SUFFICES ASSUME (0 .. L) \ T # {} PROVE FALSE
  OBVIOUS
<1>1. PICK n \in (0 .. L) \ T : \A k \in (0 .. L) \ T : n <= k
  BY LeastOfSet
<1>2. n \in 1 .. L /\ n - 1 \in 0 .. L /\ ~(n <= n - 1)
  BY <1>1
<1>3. n - 1 \in T
  BY <1>1, <1>2
<1> QED BY <1>1, <1>2, <1>3

(* Written goes through the components one after the other.                *)
LEMMA WrittenSteps ==
    ASSUME NEW components \in Seq(Component), NEW file, NEW store
    PROVE  \E m : /\ m[0] = [services |-> file, maps |-> store, status |-> "ok"]
                  /\ \A n \in 1 .. Len(components) : m[n] = WriteComponent(m[n - 1], components[n])
                  /\ Written(components, file, store) = m[Len(components)]
<1> DEFINE L == Len(components)
           Start == [services |-> file, maps |-> store, status |-> "ok"]
           Step(g, n) == IF n = 0 THEN Start ELSE WriteComponent(g[n - 1], components[n])
           Upto(g, n) == g = [k \in 0 .. n |-> Step(g, k)]
           Good == {n \in 0 .. L : \E g : Upto(g, n)}
<1>1. L \in Nat
  OBVIOUS
<1>2. Good = 0 .. L
  <2>1. 0 \in Good
    <3>1. Upto([k \in 0 .. 0 |-> Start], 0)
      OBVIOUS
    <3>2. \E g : Upto(g, 0)
      <4> HIDE DEF Upto
      <4> QED BY <3>1
    <3> HIDE DEF Upto
    <3> QED BY <1>1, <3>2
  <2>2. ASSUME NEW n \in 1 .. L, n - 1 \in Good PROVE n \in Good
    <3>1. PICK g : Upto(g, n - 1)
      BY <2>2
    <3> DEFINE h == [k \in 0 .. n |-> IF k = n THEN Step(g, n) ELSE g[k]]
    <3>2. n \in Nat /\ n # 0 /\ n \in 0 .. L
      BY <1>1
    <3>3. \A k \in 0 .. n - 1 : h[k] = g[k]
      BY <3>2
    <3>4. \A k \in 0 .. n : Step(h, k) = Step(g, k)
      <4> SUFFICES ASSUME NEW k \in 0 .. n, k # 0 PROVE h[k - 1] = g[k - 1]
        OBVIOUS
      <4>1. k - 1 \in 0 .. n - 1
        BY <3>2
      <4> QED BY <4>1, <3>3
    <3>5. \A k \in 0 .. n : h[k] = Step(g, k)
      <4> SUFFICES ASSUME NEW k \in 0 .. n, k # n PROVE g[k] = Step(g, k)
        OBVIOUS
      <4>1. k \in 0 .. n - 1
        BY <3>2
      <4> QED BY <4>1, <3>1
    <3>6. Upto(h, n)
      <4>1. h = [k \in 0 .. n |-> h[k]]
        OBVIOUS
      <4> HIDE DEF h, Step
      <4> QED BY <4>1, <3>4, <3>5
    <3>7. \E f : Upto(f, n)
      <4> HIDE DEF Upto, h
      <4> QED BY <3>6
    <3> HIDE DEF Upto
    <3> QED BY <3>2, <3>7
  <2>3. Good \in SUBSET (0 .. L)
    OBVIOUS
  <2> HIDE DEF Good
  <2> QED BY <1>1, <2>1, <2>2, <2>3, UpTo
<1>3. \E g : Upto(g, L)
  <2>1. L \in Good
    <3> HIDE DEF Good
    <3> QED BY <1>1, <1>2
  <2> QED BY <2>1
<1> DEFINE M == CHOOSE g : Upto(g, L)
<1>4. Written(components, file, store) = M[L]
  BY DEF Written
<1>5. M = [k \in 0 .. L |-> Step(M, k)]
  <2>1. Upto(M, L)
    <3> HIDE DEF Upto
    <3> QED BY <1>3
  <2> HIDE DEF M
  <2> QED BY <2>1
<1> HIDE DEF M
<1>6. 0 \in 0 .. L /\ \A n \in 1 .. L : n \in 0 .. L /\ n # 0
  BY <1>1
<1>7. M[0] = Start /\ \A n \in 1 .. L : M[n] = Step(M, n)
  <2> HIDE DEF Step, L
  <2>1. M[0] = Step(M, 0) /\ \A n \in 1 .. L : M[n] = Step(M, n)
    BY <1>5, <1>6
  <2> QED BY <2>1 DEF Step
<1> QED BY <1>4, <1>6, <1>7

(* ReadBack goes through the services in the order it is given.            *)
LEMMA ReadBackSteps ==
    ASSUME NEW components, NEW file, NEW store, NEW order \in Seq(ID)
    PROVE  \E m : /\ m[0] = [components |-> components, services |-> file, maps |-> store, status |-> "ok"]
                  /\ \A n \in 1 .. Len(order) : m[n] = ReadService(m[n - 1], order[n])
                  /\ ReadBack(components, file, store, order) = m[Len(order)]
<1> DEFINE L == Len(order)
           Start == [components |-> components, services |-> file, maps |-> store, status |-> "ok"]
           Step(g, n) == IF n = 0 THEN Start ELSE ReadService(g[n - 1], order[n])
           Upto(g, n) == g = [k \in 0 .. n |-> Step(g, k)]
           Good == {n \in 0 .. L : \E g : Upto(g, n)}
<1>1. L \in Nat
  OBVIOUS
<1>2. Good = 0 .. L
  <2>1. 0 \in Good
    <3>1. Upto([k \in 0 .. 0 |-> Start], 0)
      OBVIOUS
    <3>2. \E g : Upto(g, 0)
      <4> HIDE DEF Upto
      <4> QED BY <3>1
    <3> HIDE DEF Upto
    <3> QED BY <1>1, <3>2
  <2>2. ASSUME NEW n \in 1 .. L, n - 1 \in Good PROVE n \in Good
    <3>1. PICK g : Upto(g, n - 1)
      BY <2>2
    <3> DEFINE h == [k \in 0 .. n |-> IF k = n THEN Step(g, n) ELSE g[k]]
    <3>2. n \in Nat /\ n # 0 /\ n \in 0 .. L
      BY <1>1
    <3>3. \A k \in 0 .. n - 1 : h[k] = g[k]
      BY <3>2
    <3>4. \A k \in 0 .. n : Step(h, k) = Step(g, k)
      <4> SUFFICES ASSUME NEW k \in 0 .. n, k # 0 PROVE h[k - 1] = g[k - 1]
        OBVIOUS
      <4>1. k - 1 \in 0 .. n - 1
        BY <3>2
      <4> QED BY <4>1, <3>3
    <3>5. \A k \in 0 .. n : h[k] = Step(g, k)
      <4> SUFFICES ASSUME NEW k \in 0 .. n, k # n PROVE g[k] = Step(g, k)
        OBVIOUS
      <4>1. k \in 0 .. n - 1
        BY <3>2
      <4> QED BY <4>1, <3>1
    <3>6. Upto(h, n)
      <4>1. h = [k \in 0 .. n |-> h[k]]
        OBVIOUS
      <4> HIDE DEF h, Step
      <4> QED BY <4>1, <3>4, <3>5
    <3>7. \E f : Upto(f, n)
      <4> HIDE DEF Upto, h
      <4> QED BY <3>6
    <3> HIDE DEF Upto
    <3> QED BY <3>2, <3>7
  <2>3. Good \in SUBSET (0 .. L)
    OBVIOUS
  <2> HIDE DEF Good
  <2> QED BY <1>1, <2>1, <2>2, <2>3, UpTo
<1>3. \E g : Upto(g, L)
  <2>1. L \in Good
    <3> HIDE DEF Good
    <3> QED BY <1>1, <1>2
  <2> QED BY <2>1
<1> DEFINE M == CHOOSE g : Upto(g, L)
<1>4. ReadBack(components, file, store, order) = M[L]
  BY DEF ReadBack
<1>5. M = [k \in 0 .. L |-> Step(M, k)]
  <2>1. Upto(M, L)
    <3> HIDE DEF Upto
    <3> QED BY <1>3
  <2> HIDE DEF M
  <2> QED BY <2>1
<1> HIDE DEF M
<1>6. 0 \in 0 .. L /\ \A n \in 1 .. L : n \in 0 .. L /\ n # 0
  BY <1>1
<1>7. M[0] = Start /\ \A n \in 1 .. L : M[n] = Step(M, n)
  <2> HIDE DEF Step, L
  <2>1. M[0] = Step(M, 0) /\ \A n \in 1 .. L : M[n] = Step(M, n)
    BY <1>5, <1>6
  <2> QED BY <2>1 DEF Step
<1> QED BY <1>4, <1>6, <1>7

-----------------------------------------------------------------------------
(* One component is written, one service is read. *)

Strip(store, n) == [store EXCEPT ![n] = IF @ = Nil THEN Nil ELSE NoEntries]

With(file, c, s) == [k \in DOMAIN file \cup {c.id} |-> IF k = c.id THEN s ELSE file[k]]

LEMMA WriteCases ==
    ASSUME NEW file, NEW store, NEW status, NEW c, NEW m, NEW new,
           m = [services |-> file, maps |-> store, status |-> status], new = WriteComponent(m, c)
    PROVE  \/ status # "ok" /\ new = m
           \/ /\ status = "ok"
              /\ \/ ~CanCast(Entries(c, store).labels) \/ ~CanCast(Entries(c, store).namespace)
                 \/ c.config = 0 \/ ~CanCast(c.dependsOn) \/ file = Nil
              /\ \E left \in {store, Strip(store, c.config)}, why \in {"error", "panic"} :
                     new = [services |-> file, maps |-> left, status |-> why]
           \/ /\ status = "ok" /\ file # Nil /\ c.config # 0
              /\ CanCast(Entries(c, store).labels) /\ CanCast(Entries(c, store).namespace)
              /\ CanCast(c.dependsOn)
              /\ new = [services |-> With(file, c, ServiceOf(c, Entries(c, store))),
                        maps |-> Strip(store, c.config), status |-> "ok"]
<1> DEFINE entries == Entries(c, store)
           refused == ~CanCast(entries.labels) \/ ~CanCast(entries.namespace)
<1> HIDE DEF entries
<1>1. m.services = file /\ m.maps = store /\ m.status = status
  OBVIOUS
<1>2. CASE status # "ok"
  BY <1>1, <1>2 DEF WriteComponent
<1>3. CASE status = "ok" /\ refused
  <2>1. new = [m EXCEPT !.status = "error"]
    BY <1>1, <1>3 DEF WriteComponent, entries
  <2>2. new = [services |-> file, maps |-> store, status |-> "error"]
    BY <2>1
  <2> QED BY <1>3, <2>2 DEF entries
<1>4. CASE status = "ok" /\ ~refused /\ c.config = 0
  <2>1. new = [m EXCEPT !.status = "panic"]
    BY <1>1, <1>4 DEF WriteComponent, entries
  <2>2. new = [services |-> file, maps |-> store, status |-> "panic"]
    BY <2>1
  <2> QED BY <1>4, <2>2
<1> DEFINE stripped == [services |-> file, maps |-> Strip(store, c.config), status |-> "ok"]
<1>5. status = "ok" => [m EXCEPT !.maps[c.config] = IF @ = Nil THEN Nil ELSE NoEntries] = stripped
  BY DEF Strip
<1>6. CASE status = "ok" /\ ~refused /\ c.config # 0 /\ ~CanCast(c.dependsOn)
  <2>1. new = [stripped EXCEPT !.status = "error"]
    BY <1>1, <1>5, <1>6 DEF WriteComponent, entries
  <2>2. new = [services |-> file, maps |-> Strip(store, c.config), status |-> "error"]
    BY <2>1
  <2> QED BY <1>6, <2>2
<1>7. CASE status = "ok" /\ ~refused /\ c.config # 0 /\ CanCast(c.dependsOn) /\ file = Nil
  <2>1. new = [stripped EXCEPT !.status = "panic"]
    BY <1>1, <1>5, <1>7 DEF WriteComponent, entries
  <2>2. new = [services |-> file, maps |-> Strip(store, c.config), status |-> "panic"]
    BY <2>1
  <2> QED BY <1>7, <2>2
<1>8. CASE status = "ok" /\ ~refused /\ c.config # 0 /\ CanCast(c.dependsOn) /\ file # Nil
  <2>1. new = [stripped EXCEPT !.services =
                  [k \in DOMAIN @ \cup {c.id} |-> IF k = c.id THEN ServiceOf(c, entries) ELSE @[k]]]
    BY <1>1, <1>5, <1>8 DEF WriteComponent, entries
  <2>2. new = [services |-> With(file, c, ServiceOf(c, entries)), maps |-> Strip(store, c.config), status |-> "ok"]
    BY <2>1 DEF With
  <2> QED BY <1>8, <2>2 DEF entries
<1> QED BY <1>2, <1>3, <1>4, <1>6, <1>7, <1>8

(* What convertFromSettings has done to the maps, convertFromTraits to the *)
(* traits of the service. *)
Taken(s, store) == Put(store, ConfigOf(s, store), [labels |-> s.labels, namespace |-> s.namespace])

Untraited(file, k) ==
    [file EXCEPT ![k].traits = IF @ = Nil THEN Nil ELSE [@ EXCEPT !.namespaced = FALSE]]

LEMMA ReadCases ==
    ASSUME NEW cs, NEW file, NEW store, NEW status, NEW k, NEW m, NEW new,
           m = [components |-> cs, services |-> file, maps |-> store, status |-> status],
           new = ReadService(m, k)
    PROVE  \/ status # "ok" /\ new = m
           \/ /\ status = "ok" /\ Refused(file[k])
              /\ new = [components |-> cs, services |-> file, maps |-> Taken(file[k], store), status |-> "error"]
           \/ /\ status = "ok" /\ ~Refused(file[k]) /\ ~StylesAllocated
              /\ new = [components |-> cs, services |-> Untraited(file, k),
                        maps |-> Taken(file[k], store), status |-> "panic"]
           \/ /\ status = "ok" /\ ~Refused(file[k]) /\ StylesAllocated
              /\ new = [components |-> Append(cs, ComponentOf(file[k], ConfigOf(file[k], store), Unused(m))),
                        services |-> Untraited(file, k), maps |-> Taken(file[k], store), status |-> "ok"]
<1> DEFINE s == file[k]
           n == ConfigOf(s, store)
           begun == [components |-> cs, services |-> file, maps |-> Taken(s, store), status |-> "ok"]
           read == [components |-> cs, services |-> Untraited(file, k), maps |-> Taken(s, store), status |-> "ok"]
<1>1. m.components = cs /\ m.services = file /\ m.maps = store /\ m.status = status
  OBVIOUS
<1>2. CASE status # "ok"
  BY <1>1, <1>2 DEF ReadService
<1>3. CASE status = "ok"
  <2>1. [m EXCEPT !.maps = Put(@, n, [labels |-> s.labels, namespace |-> s.namespace])] = begun
    BY <1>3 DEF Taken
  <2>2. [begun EXCEPT !.services[k].traits = IF @ = Nil THEN Nil ELSE [@ EXCEPT !.namespaced = FALSE]] = read
    <3> DEFINE x == IF file[k].traits = Nil THEN Nil ELSE [file[k].traits EXCEPT !.namespaced = FALSE]
    <3>1. begun.services = file
      OBVIOUS
    <3>2. Untraited(file, k) = [file EXCEPT ![k].traits = x]
      BY DEF Untraited
    <3> HIDE DEF x
    <3>3. [begun EXCEPT !.services[k].traits = x] = read
      BY <3>2
    <3> QED BY <3>1, <3>3 DEF x
  <2> HIDE DEF begun, read, n, s
  <2>3. CASE Refused(s)
    <3>1. new = [begun EXCEPT !.status = "error"]
      BY <1>1, <1>3, <2>1, <2>2, <2>3 DEF ReadService, n, s
    <3>2. new = [components |-> cs, services |-> file, maps |-> Taken(s, store), status |-> "error"]
      BY <3>1 DEF begun
    <3> QED BY <1>3, <2>3, <3>2 DEF s
  <2>4. CASE ~Refused(s) /\ ~StylesAllocated
    <3>1. new = [read EXCEPT !.status = "panic"]
      BY <1>1, <1>3, <2>1, <2>2, <2>4 DEF ReadService, n, s, Positioned
    <3>2. new = [components |-> cs, services |-> Untraited(file, k), maps |-> Taken(s, store), status |-> "panic"]
      BY <3>1 DEF read
    <3> QED BY <1>3, <2>4, <3>2 DEF s
  <2>5. CASE ~Refused(s) /\ StylesAllocated
    <3>1. new = [read EXCEPT !.components = Append(@, ComponentOf(s, n, Unused(m)))]
      BY <1>1, <1>3, <2>1, <2>2, <2>5 DEF ReadService, n, s, Positioned
    <3>2. new = [components |-> Append(cs, ComponentOf(s, n, Unused(m))), services |-> Untraited(file, k),
                 maps |-> Taken(s, store), status |-> "ok"]
      BY <3>1 DEF read
    <3> QED BY <1>3, <2>5, <3>2 DEF n, s
  <2> QED BY <2>3, <2>4, <2>5
<1> QED BY <1>2, <1>3

-----------------------------------------------------------------------------
(* The types of what the conversions make. *)

IsStore(store) == store \in Seq(Metadata \cup {Nil})

IsFile(file, n) ==
    /\ DOMAIN file \subseteq ID /\ IsFiniteSet(DOMAIN file) /\ file \in [DOMAIN file -> Service]
    /\ \A k \in DOMAIN file :
           /\ file[k].settings \in 0 .. n
           /\ file[k].traits # Nil => file[k].traits.id = k

AreComponents(cs, n) == cs \in Seq(Component) /\ \A i \in DOMAIN cs : cs[i].config \in 0 .. n

AcceptsOK == accepts \in {{}, {"empty"}, {"empty", "nil"}}

LEMMA FileFields ==
    ASSUME NEW n, NEW file, IsFile(file, n), NEW k \in DOMAIN file
    PROVE  /\ file[k] \in Service /\ k \in ID
           /\ file[k].settings \in 0 .. n
           /\ file[k].labels \in {"nil", "typed"} /\ file[k].namespace \in {"nil", "typed"}
           /\ file[k].dependsOn \in {"nil", "typed"}
           /\ file[k].traits \in Traits \cup {Nil}
           /\ file[k].traits # Nil => file[k].traits.id = k
<1>1. file[k] \in Service
  BY DEF IsFile
<1>2. k \in ID
  BY DEF IsFile
<1>3. file[k].settings \in 0 .. n
  BY DEF IsFile
<1>4. file[k].traits # Nil => file[k].traits.id = k
  BY DEF IsFile
<1>5. /\ file[k].labels \in {"nil", "typed"} /\ file[k].namespace \in {"nil", "typed"}
      /\ file[k].dependsOn \in {"nil", "typed"} /\ file[k].traits \in Traits \cup {Nil}
  BY <1>1 DEF Service
<1> QED BY <1>1, <1>2, <1>3, <1>4, <1>5

LEMMA ComponentFields ==
    ASSUME NEW c \in Component
    PROVE  /\ c.id \in ID /\ c.config \in Nat /\ c.dependsOn \in Held /\ c.namespaced \in BOOLEAN
           /\ c.drawn \in BOOLEAN
BY DEF Component

LEMMA StripTypes ==
    ASSUME NEW store, IsStore(store), NEW n
    PROVE  /\ IsStore(Strip(store, n)) /\ Len(Strip(store, n)) = Len(store)
           /\ \A i \in 1 .. Len(store) : i # n => Strip(store, n)[i] = store[i]
<1>1. NoEntries \in Metadata
  BY DEF NoEntries, Metadata, Held
<1>2. DOMAIN store = 1 .. Len(store) /\ Len(store) \in Nat
  BY DEF IsStore
<1>3. Strip(store, n) \in [1 .. Len(store) -> Metadata \cup {Nil}]
  <2>1. \A i \in 1 .. Len(store) : store[i] \in Metadata \cup {Nil}
    BY DEF IsStore
  <2>2. store = [i \in 1 .. Len(store) |-> store[i]]
    BY <1>2 DEF IsStore
  <2> DEFINE x == IF store[n] = Nil THEN Nil ELSE NoEntries
  <2>3. x \in Metadata \cup {Nil}
    BY <1>1
  <2>4. Strip(store, n) = [store EXCEPT ![n] = x]
    BY DEF Strip
  <2> HIDE DEF x
  <2>5. store \in [1 .. Len(store) -> Metadata \cup {Nil}]
    BY <2>1, <2>2
  <2> QED BY <2>3, <2>4, <2>5
<1>4. Strip(store, n) \in Seq(Metadata \cup {Nil}) /\ Len(Strip(store, n)) = Len(store)
  BY <1>2, <1>3
<1> QED BY <1>2, <1>4 DEF Strip, IsStore

LEMMA PutTypes ==
    ASSUME NEW store, IsStore(store), NEW n \in 1 .. Len(store) + 1, NEW entries \in Metadata
    PROVE  /\ IsStore(Put(store, n, entries))
           /\ Len(Put(store, n, entries)) \in {Len(store), Len(store) + 1}
           /\ n <= Len(Put(store, n, entries)) /\ Put(store, n, entries)[n] = entries
           /\ \A i \in 1 .. Len(store) : i # n => Put(store, n, entries)[i] = store[i]
<1>1. Len(store) \in Nat /\ n \in Nat
  BY DEF IsStore
<1>2. CASE n > Len(store)
  <2>1. n = Len(store) + 1 /\ Put(store, n, entries) = Append(store, entries)
    BY <1>1, <1>2 DEF Put
  <2> QED BY <1>1, <2>1 DEF IsStore
<1>3. CASE ~(n > Len(store))
  <2>1. Put(store, n, entries) = [store EXCEPT ![n] = entries] /\ n \in 1 .. Len(store)
    BY <1>1, <1>3 DEF Put
  <2> QED BY <1>1, <2>1 DEF IsStore
<1> QED BY <1>2, <1>3

LEMMA EntriesType ==
    ASSUME NEW store, IsStore(store), NEW c \in Component, c.config \in 0 .. Len(store)
    PROVE  Entries(c, store) \in Metadata
<1>1. NoEntries \in Metadata
  BY DEF NoEntries, Metadata, Held
<1>2. c.config # 0 => store[c.config] \in Metadata \cup {Nil}
  BY DEF IsStore
<1> QED BY <1>1, <1>2 DEF Entries

LEMMA ServiceOfType ==
    ASSUME AcceptsOK, NEW c \in Component, NEW entries \in Metadata,
           CanCast(entries.labels), CanCast(entries.namespace)
    PROVE  /\ ServiceOf(c, entries) \in Service /\ ServiceOf(c, entries).settings = c.config
           /\ ServiceOf(c, entries).traits # Nil /\ ServiceOf(c, entries).traits.id = c.id
           /\ ~ServiceOf(c, entries).traits.decoded
<1>1. entries.labels \in {"nil", "typed"} /\ entries.namespace \in {"nil", "typed"}
  BY DEF CanCast, AcceptsOK, Metadata, Held
<1>2. [decoded |-> FALSE, id |-> c.id, namespaced |-> c.namespaced, drawn |-> c.drawn] \in Traits
  BY ComponentFields DEF Traits
<1> DEFINE t == [decoded |-> FALSE, id |-> c.id, namespaced |-> c.namespaced, drawn |-> c.drawn]
<1>3. /\ ServiceOf(c, entries) = [settings |-> c.config, labels |-> entries.labels, namespace |-> entries.namespace,
                                 dependsOn |-> IF c.dependsOn = "typed" THEN "typed" ELSE "nil", traits |-> t]
      /\ t \in Traits /\ t.id = c.id /\ ~t.decoded
  BY <1>2 DEF ServiceOf
<1> HIDE DEF t
<1>4. t # Nil
  BY <1>3, ConstantsOK
<1> QED BY <1>1, <1>3, <1>4, ComponentFields DEF Service

LEMMA WithTypes ==
    ASSUME NEW n \in Nat, NEW file, IsFile(file, n), NEW c \in Component, NEW s \in Service,
           s.settings \in 0 .. n, s.traits # Nil, s.traits.id = c.id
    PROVE  IsFile(With(file, c, s), n)
<1> DEFINE new == With(file, c, s)
<1>1. DOMAIN new = DOMAIN file \cup {c.id}
      /\ \A k \in DOMAIN new : new[k] = IF k = c.id THEN s ELSE file[k]
  BY DEF With
<1>f. new = [k \in DOMAIN new |-> new[k]]
  BY DEF With
<1> HIDE DEF new
<1>2. c.id \in ID /\ DOMAIN file \subseteq ID /\ IsFiniteSet(DOMAIN file)
  BY ComponentFields DEF IsFile
<1>3. IsFiniteSet(DOMAIN new) /\ DOMAIN new \subseteq ID
  BY <1>1, <1>2, FS_AddElement
<1>4. ASSUME NEW k \in DOMAIN new
      PROVE  new[k] \in Service /\ new[k].settings \in 0 .. n /\ (new[k].traits # Nil => new[k].traits.id = k)
  <2>1. CASE k = c.id
    BY <1>1, <2>1
  <2>2. CASE k # c.id
    <3>1. k \in DOMAIN file /\ new[k] = file[k]
      BY <1>1, <2>2
    <3> QED BY <3>1, FileFields
  <2> QED BY <2>1, <2>2
<1>5. new \in [DOMAIN new -> Service]
  BY <1>f, <1>4, Zenon
<1> QED BY <1>3, <1>4, <1>5 DEF IsFile, new

-----------------------------------------------------------------------------
(* What a whole conversion to the legacy format makes. *)

Writing(m, file, store) ==
    /\ m = [services |-> m.services, maps |-> m.maps, status |-> m.status]
    /\ m.status \in {"ok", "error", "panic"}
    /\ IsStore(m.maps) /\ Len(m.maps) = Len(store)
    /\ file = Nil => m.services = Nil
    /\ file # Nil => m.services # Nil /\ IsFile(m.services, Len(store))
    /\ \/ m.services = file
       \/ \E k \in DOMAIN m.services : m.services[k].traits # Nil /\ ~m.services[k].traits.decoded

(* A map of services is not a nil one. *)
LEMMA FilesAreNotNil ==
    ASSUME NEW n, NEW file, IsFile(file, n)
    PROVE  file # Nil
<1>1. DOMAIN file \in SUBSET ID /\ file \in [DOMAIN file -> Service]
  BY DEF IsFile
<1> QED BY <1>1, ConstantsOK

LEMMA WriteKeepsTypes ==
    ASSUME AcceptsOK, NEW file, NEW store, IsStore(store), NEW m, Writing(m, file, store),
           NEW c \in Component, c.config \in 0 .. Len(store)
    PROVE  Writing(WriteComponent(m, c), file, store)
<1> DEFINE new == WriteComponent(m, c)
<1>0. Len(store) \in Nat
  BY DEF IsStore
<1>1. m = [services |-> m.services, maps |-> m.maps, status |-> m.status] /\ IsStore(m.maps)
      /\ Len(m.maps) = Len(store) /\ m.status \in {"ok", "error", "panic"}
  BY DEF Writing
<1> HIDE DEF new
<1>2. CASE m.status # "ok" /\ new = m
  BY <1>2 DEF new
<1>3. CASE \E left \in {m.maps, Strip(m.maps, c.config)}, why \in {"error", "panic"} :
                new = [services |-> m.services, maps |-> left, status |-> why]
  <2>1. PICK left \in {m.maps, Strip(m.maps, c.config)}, why \in {"error", "panic"} :
                new = [services |-> m.services, maps |-> left, status |-> why]
    BY <1>3
  <2>2. IsStore(left) /\ Len(left) = Len(store)
    BY <1>1, StripTypes
  <2>3. new.services = m.services /\ new.maps = left /\ new.status = why
    BY <2>1
  <2> QED BY <2>1, <2>2, <2>3 DEF Writing, new
<1>4. CASE /\ m.services # Nil
           /\ CanCast(Entries(c, m.maps).labels) /\ CanCast(Entries(c, m.maps).namespace)
           /\ new = [services |-> With(m.services, c, ServiceOf(c, Entries(c, m.maps))),
                     maps |-> Strip(m.maps, c.config), status |-> "ok"]
  <2> DEFINE s == ServiceOf(c, Entries(c, m.maps))
  <2>1. Entries(c, m.maps) \in Metadata
    BY <1>1, EntriesType
  <2>2. s \in Service /\ s.settings = c.config /\ s.traits # Nil /\ s.traits.id = c.id /\ ~s.traits.decoded
    BY <1>4, <2>1, ServiceOfType
  <2> HIDE DEF s
  <2>3. IsStore(new.maps) /\ Len(new.maps) = Len(store)
    BY <1>1, <1>4, StripTypes
  <2>4. new.services = With(m.services, c, s) /\ new.status = "ok"
    BY <1>4 DEF s
  <2>5. file # Nil /\ IsFile(m.services, Len(store))
    BY <1>4 DEF Writing
  <2>6. IsFile(new.services, Len(store))
    BY <1>0, <2>2, <2>4, <2>5, WithTypes
  <2>7. new.services # Nil
    BY <2>6, FilesAreNotNil
  <2>8. c.id \in DOMAIN new.services /\ new.services[c.id] = s
    BY <2>4 DEF With
  <2>9. new = [services |-> new.services, maps |-> new.maps, status |-> new.status]
    BY <1>4
  <2>10. \E k \in DOMAIN new.services : new.services[k].traits # Nil /\ ~new.services[k].traits.decoded
    BY <2>2, <2>8
  <2> QED BY <2>3, <2>4, <2>5, <2>6, <2>7, <2>9, <2>10 DEF Writing, new
<1> QED BY <1>1, <1>2, <1>3, <1>4, WriteCases DEF new

LEMMA WrittenTypes ==
    ASSUME AcceptsOK, NEW store, IsStore(store), NEW file, file = Nil \/ IsFile(file, Len(store)),
           NEW components, AreComponents(components, Len(store))
    PROVE  Writing(Written(components, file, store), file, store)
<1> DEFINE L == Len(components)
<1>1. components \in Seq(Component) /\ L \in Nat
  BY DEF AreComponents
<1>2. PICK m : /\ m[0] = [services |-> file, maps |-> store, status |-> "ok"]
               /\ \A n \in 1 .. L : m[n] = WriteComponent(m[n - 1], components[n])
               /\ Written(components, file, store) = m[L]
  BY <1>1, WrittenSteps
<1> DEFINE T == {n \in 0 .. L : Writing(m[n], file, store)}
<1>3. 0 \in T
  <2>1. file # Nil => IsFile(file, Len(store))
    OBVIOUS
  <2>2. Writing(m[0], file, store)
    BY <1>2, <2>1 DEF Writing
  <2> QED BY <1>1, <2>2
<1>4. ASSUME NEW n \in 1 .. L, n - 1 \in T PROVE n \in T
  <2>1. components[n] \in Component /\ components[n].config \in 0 .. Len(store)
    BY <1>1 DEF AreComponents
  <2>2. Writing(m[n], file, store)
    BY <1>2, <1>4, <2>1, WriteKeepsTypes
  <2> QED BY <1>1, <2>2
<1>5. T = 0 .. L
  <2> HIDE DEF T
  <2>1. T \in SUBSET (0 .. L)
    BY DEF T
  <2> QED BY <1>1, <1>3, <1>4, <2>1, UpTo
<1>6. L \in T
  BY <1>1, <1>5
<1> QED BY <1>2, <1>6

-----------------------------------------------------------------------------
(* The orders in which a map is ranged over, and new ids. *)

Ranges(order, S) ==
    /\ order \in [1 .. Cardinality(S) -> S] /\ order \in Seq(S) /\ Len(order) = Cardinality(S)
    /\ \A i, j \in DOMAIN order : order[i] = order[j] => i = j
    /\ \A k \in S : \E i \in DOMAIN order : order[i] = k

LEMMA Orders ==
    ASSUME NEW S, IsFiniteSet(S), NEW order \in SetToSeqs(S)
    PROVE  Ranges(order, S)
<1> DEFINE N == Cardinality(S)
<1>1. N \in Nat
  BY FS_CardinalityType
<1>2. order \in [1 .. N -> S] /\ \A i, j \in 1 .. N : order[i] = order[j] => i = j
  BY DEF SetToSeqs
<1>3. order \in Seq(S) /\ Len(order) = N /\ DOMAIN order = 1 .. N
  BY <1>1, <1>2
<1>4. order \in Injection(1 .. N, S)
  BY <1>2 DEF Injection, IsInjective
<1>5. IsFiniteSet(1 .. N) /\ Cardinality(1 .. N) = N
  <2>1. 1 \in Int /\ N \in Int
    BY <1>1
  <2>2. IsFiniteSet(1 .. N) /\ Cardinality(1 .. N) = IF 1 > N THEN 0 ELSE N - 1 + 1
    BY ONLY <2>1, FS_Interval
  <2> QED BY <1>1, <2>2
<1>6. order \in Surjection(1 .. N, S)
  BY <1>4, <1>5, FS_Injection
<1>7. \A k \in S : \E i \in 1 .. N : order[i] = k
  BY <1>6 DEF Surjection
<1> QED BY <1>2, <1>3, <1>7 DEF Ranges

LEMMA OneOrder ==
    ASSUME NEW S, IsFiniteSet(S)
    PROVE  SetToSeq(S) \in SetToSeqs(S)
<1> DEFINE N == Cardinality(S)
<1>1. ExistsBijection(1 .. N, S)
  BY FS_CardinalityType
<1>2. PICK f : f \in Bijection(1 .. N, S)
  BY <1>1 DEF ExistsBijection
<1>3. f \in [1 .. N -> S] /\ IsInjective(f)
  BY <1>2 DEF Bijection, Injection
<1>4. SetToSeq(S) \in [1 .. N -> S] /\ IsInjective(SetToSeq(S))
  BY <1>3 DEF SetToSeq
<1> QED BY <1>4 DEF SetToSeqs, IsInjective

LEMMA FiniteIDs ==
    ASSUME NEW cs \in Seq(Component)
    PROVE  IsFiniteSet(IDsOf(cs)) /\ IDsOf(cs) \subseteq ID
<1> DEFINE f == [i \in 1 .. Len(cs) |-> cs[i].id]
<1>1. Len(cs) \in Nat /\ DOMAIN cs = 1 .. Len(cs)
  OBVIOUS
<1>2. IDsOf(cs) = {cs[i].id : i \in 1 .. Len(cs)}
  BY <1>1 DEF IDsOf, ToSet
<1>3. f \in Surjection(1 .. Len(cs), IDsOf(cs))
  BY <1>2 DEF Surjection
<1>4. IsFiniteSet(1 .. Len(cs))
  <2>1. 1 \in Int /\ Len(cs) \in Int
    BY <1>1
  <2> QED BY ONLY <2>1, FS_Interval
<1>5. \A i \in 1 .. Len(cs) : cs[i].id \in ID
  <2> SUFFICES ASSUME NEW i \in 1 .. Len(cs) PROVE cs[i].id \in ID
    OBVIOUS
  <2>1. cs[i] \in Component
    OBVIOUS
  <2> QED BY <2>1, ComponentFields
<1> QED BY <1>2, <1>3, <1>4, <1>5, FS_Surjection

(* uuid.NewV4 always finds an id that nobody has. *)
IDsNeverRunOut ==
    /\ IsFiniteSet(Design)
    /\ \A used \in SUBSET ID : IsFiniteSet(used) => used # ID

LEMMA FreshID ==
    ASSUME IDsNeverRunOut, design \in [Design -> Seq(Component)],
           NEW n, NEW m, m.components \in Seq(Component), IsFile(m.services, n)
    PROVE  Unused(m) \in ID /\ Unused(m) \notin TraitIDs(m.services) /\ Unused(m) \notin IDsOf(m.components)
<1> DEFINE Others == {IDsOf(design[d]) : d \in Design}
           used == IDsOf(m.components) \cup DOMAIN m.services \cup TraitIDs(m.services) \cup UNION Others
           free == ID \ used
<1>1. IsFiniteSet(IDsOf(m.components)) /\ IsFiniteSet(DOMAIN m.services)
  BY FiniteIDs DEF IsFile
<1>2. TraitIDs(m.services) \subseteq DOMAIN m.services
  <2> SUFFICES ASSUME NEW k \in DOMAIN m.services, m.services[k].traits # Nil
               PROVE  m.services[k].traits.id \in DOMAIN m.services
    BY DEF TraitIDs
  <2> QED BY FileFields
<1>3. IsFiniteSet(UNION Others)
  <2>1. IsFiniteSet(Others)
    <3> DEFINE f == [d \in Design |-> IDsOf(design[d])]
    <3>1. f \in Surjection(Design, Others)
      BY DEF Surjection
    <3> HIDE DEF f, Others
    <3> QED BY <3>1, FS_Surjection DEF IDsNeverRunOut
  <2>2. \A T \in Others : IsFiniteSet(T)
    BY FiniteIDs
  <2> HIDE DEF Others
  <2> QED BY <2>1, <2>2, FS_UNION
<1>4. IsFiniteSet(used)
  <2> DEFINE a == IDsOf(m.components)
             b == DOMAIN m.services
             c == TraitIDs(m.services)
             e == UNION Others
  <2>1. IsFiniteSet(a) /\ IsFiniteSet(b) /\ IsFiniteSet(c) /\ IsFiniteSet(e)
    BY <1>1, <1>2, <1>3, FS_Subset
  <2> HIDE DEF a, b, c, e
  <2>2. IsFiniteSet(a \cup b)
    BY <2>1, FS_Union
  <2>3. IsFiniteSet((a \cup b) \cup c)
    BY <2>1, <2>2, FS_Union
  <2>4. IsFiniteSet(((a \cup b) \cup c) \cup e)
    BY <2>1, <2>3, FS_Union
  <2> QED BY <2>4 DEF a, b, c, e
<1>5. free # {}
  <2>1. IsFiniteSet(used \cap ID) /\ used \cap ID \in SUBSET ID
    BY <1>4, FS_Subset
  <2>2. used \cap ID # ID
    BY <2>1 DEF IDsNeverRunOut
  <2> QED BY <2>2
<1>6. free \subseteq Nat
  BY ConstantsOK
<1> HIDE DEF free
<1>7. \E id \in free : \A other \in free : id <= other
  <2>1. PICK x \in free : TRUE
    BY <1>5
  <2> DEFINE T == {y \in free : y <= x}
  <2>6. x \in Nat /\ free \subseteq Nat
    BY <1>6, <2>1
  <2>2. x \in Nat /\ T \in SUBSET (0 .. x) /\ x \in T
    <3>1. T \subseteq 0 .. x
      <4> SUFFICES ASSUME NEW y \in free, y <= x PROVE y \in 0 .. x
        OBVIOUS
      <4>1. y \in Nat
        BY <2>6
      <4> QED BY <2>6, <4>1
    <3>2. x <= x
      BY <2>6
    <3>3. x \in T
      BY <2>1, <3>2
    <3> QED BY <2>6, <3>1, <3>3
  <2>3. PICK id \in T : \A k \in T : id <= k
    <3> HIDE DEF T
    <3> QED BY <2>2, LeastOfSet
  <2>4. id \in free /\ id \in Nat /\ id <= x
    BY <1>6, <2>3
  <2>5. ASSUME NEW other \in free PROVE id <= other
    <3>1. other \in Nat
      BY <1>6
    <3>2. CASE other <= x
      BY <2>3, <3>2
    <3>3. CASE ~(other <= x)
      BY <2>2, <2>4, <3>1, <3>3
    <3> QED BY <3>2, <3>3
  <2> QED BY <2>4, <2>5
<1>8. Unused(m) \in free
  <2>1. Unused(m) = CHOOSE id \in free : \A other \in free : id <= other
    BY DEF Unused, free
  <2> QED BY <1>7, <2>1
<1> QED BY <1>8 DEF free

-----------------------------------------------------------------------------
(* What a whole conversion from the legacy format makes. *)

(* Two services that are the same but for isNamespaced. *)
Alike(s, t) ==
    /\ s.settings = t.settings /\ s.labels = t.labels /\ s.namespace = t.namespace
    /\ s.dependsOn = t.dependsOn
    /\ s.traits = Nil <=> t.traits = Nil
    /\ t.traits # Nil => s.traits.decoded = t.traits.decoded /\ s.traits.id = t.traits.id

LEMMA UntraitedTypes ==
    ASSUME NEW n \in Nat, NEW file, IsFile(file, n), NEW k \in DOMAIN file
    PROVE  /\ IsFile(Untraited(file, k), n) /\ DOMAIN Untraited(file, k) = DOMAIN file
           /\ \A l \in DOMAIN file : Alike(Untraited(file, k)[l], file[l])
           /\ \A l \in DOMAIN file : l # k => Untraited(file, k)[l] = file[l]
<1> DEFINE t == IF file[k].traits = Nil THEN Nil ELSE [file[k].traits EXCEPT !.namespaced = FALSE]
           s == [file[k] EXCEPT !.traits = t]
           new == Untraited(file, k)
<1>1. new = [file EXCEPT ![k] = s]
  <2>1. new = [file EXCEPT ![k].traits = t]
    BY DEF Untraited
  <2> HIDE DEF t, new
  <2> QED BY <2>1
<1>2. file[k] \in Service /\ file[k].traits \in Traits \cup {Nil} /\ (file[k].traits # Nil => file[k].traits.id = k)
  BY FileFields
<1>3. t \in Traits \cup {Nil} /\ (file[k].traits = Nil <=> t = Nil)
  <2>1. CASE file[k].traits = Nil
    BY <2>1
  <2>2. CASE file[k].traits # Nil
    <3>1. file[k].traits \in Traits
      BY <1>2, <2>2
    <3>2. [file[k].traits EXCEPT !.namespaced = FALSE] \in Traits
      BY <3>1 DEF Traits
    <3> QED BY <2>2, <3>2, ConstantsOK
  <2> QED BY <2>1, <2>2
<1>4. file[k].traits # Nil => t.decoded = file[k].traits.decoded /\ t.id = file[k].traits.id
  <2> SUFFICES ASSUME file[k].traits # Nil
               PROVE  t.decoded = file[k].traits.decoded /\ t.id = file[k].traits.id
    OBVIOUS
  <2>1. file[k].traits \in Traits /\ t = [file[k].traits EXCEPT !.namespaced = FALSE]
    BY <1>2
  <2> QED BY <2>1 DEF Traits
<1> HIDE DEF t
<1>5. s \in Service /\ s.traits = t /\ s.settings = file[k].settings /\ s.labels = file[k].labels
      /\ s.namespace = file[k].namespace /\ s.dependsOn = file[k].dependsOn
  BY <1>2, <1>3 DEF Service
<1> HIDE DEF s, new
<1>6. DOMAIN new = DOMAIN file /\ new[k] = s /\ \A l \in DOMAIN file : l # k => new[l] = file[l]
  BY <1>1
<1>7. Alike(s, file[k])
  BY <1>3, <1>4, <1>5 DEF Alike
<1>8. \A l \in DOMAIN file : Alike(new[l], file[l])
  <2> SUFFICES ASSUME NEW l \in DOMAIN file, l # k PROVE Alike(new[l], file[l])
    BY <1>6, <1>7
  <2>1. new[l] = file[l]
    BY <1>6
  <2> QED BY <2>1 DEF Alike
<1>9. IsFile(new, n)
  <2>1. file \in [DOMAIN file -> Service] /\ DOMAIN file \subseteq ID /\ IsFiniteSet(DOMAIN file)
    BY DEF IsFile
  <2>2. new \in [DOMAIN new -> Service]
    BY <1>1, <1>5, <2>1
  <2>3. \A l \in DOMAIN new : new[l].settings \in 0 .. n /\ (new[l].traits # Nil => new[l].traits.id = l)
    <3> SUFFICES ASSUME NEW l \in DOMAIN file
                 PROVE  new[l].settings \in 0 .. n /\ (new[l].traits # Nil => new[l].traits.id = l)
      BY <1>6
    <3>1. Alike(new[l], file[l])
      BY <1>8
    <3>2. file[l].settings \in 0 .. n /\ (file[l].traits # Nil => file[l].traits.id = l)
      BY FileFields
    <3> QED BY <3>1, <3>2 DEF Alike
  <2> QED BY <1>6, <2>1, <2>2, <2>3 DEF IsFile
<1> QED BY <1>6, <1>8, <1>9 DEF new

(* The component that is made of a service. *)
Became(c, file, k) ==
    LET s == file[k]
    IN  /\ s.traits # Nil => s.traits.decoded /\ c.id = k /\ c.namespaced = s.traits.namespaced
        /\ s.traits = Nil => c.id \notin TraitIDs(file)
        /\ c.dependsOn = IF s.dependsOn = "nil" THEN "empty" ELSE "typed"

LEMMA ComponentOfType ==
    ASSUME NEW n, NEW file, IsFile(file, n), NEW k \in DOMAIN file, ~Refused(file[k]),
           NEW config \in Nat, NEW unused \in ID, unused \notin TraitIDs(file)
    PROVE  /\ ComponentOf(file[k], config, unused) \in Component
           /\ ComponentOf(file[k], config, unused).config = config
           /\ Became(ComponentOf(file[k], config, unused), file, k)
<1> DEFINE s == file[k]
           t == IF s.traits = Nil THEN [namespaced |-> FALSE, drawn |-> FALSE] ELSE s.traits
           id == IF s.traits # Nil /\ s.traits.decoded THEN s.traits.id ELSE unused
           dependsOn == IF s.dependsOn = "nil" THEN "empty" ELSE "typed"
           styles == IF t.drawn THEN "drawn" ELSE "zero"
           c == ComponentOf(s, config, unused)
<1>1. s.traits \in Traits \cup {Nil} /\ k \in ID /\ (s.traits # Nil => s.traits.id = k)
  BY FileFields
<1>2. s.traits # Nil => s.traits.decoded
  BY DEF Refused
<1>3. c = [id |-> id, config |-> config, dependsOn |-> dependsOn, namespaced |-> t.namespaced,
           styles |-> styles, drawn |-> FALSE]
  BY DEF ComponentOf
<1>4. t.namespaced \in BOOLEAN /\ (s.traits # Nil => t.namespaced = s.traits.namespaced)
  BY <1>1 DEF Traits
<1>5. id \in ID /\ (s.traits # Nil => id = k) /\ (s.traits = Nil => id \notin TraitIDs(file))
  BY <1>1, <1>2
<1>6. dependsOn \in Held /\ styles \in {"none", "zero", "drawn"}
  BY DEF Held
<1> HIDE DEF t, id, styles, c
<1>7. c \in Component /\ c.config = config /\ c.id = id /\ c.namespaced = t.namespaced /\ c.dependsOn = dependsOn
  BY <1>3, <1>4, <1>5, <1>6 DEF Component
<1>8. Became(c, file, k)
  BY <1>2, <1>4, <1>5, <1>7 DEF Became
<1> QED BY <1>7, <1>8 DEF c

Reading(m, cs, file, store, order, n) ==
    /\ m = [components |-> m.components, services |-> m.services, maps |-> m.maps, status |-> m.status]
    /\ m.status \in {"ok", "error", "panic"} /\ (StylesAllocated => m.status # "panic")
    /\ StylesAllocated /\ (\A k \in DOMAIN file : ~Refused(file[k])) => m.status = "ok"
    /\ IsStore(m.maps) /\ Len(store) <= Len(m.maps)
    /\ IsFile(m.services, Len(store)) /\ DOMAIN m.services = DOMAIN file
    /\ \A k \in DOMAIN file : Alike(m.services[k], file[k])
    /\ \A j \in n + 1 .. Len(order) : m.services[order[j]] = file[order[j]]
    /\ AreComponents(m.components, Len(m.maps))
    /\ m.status = "ok" =>
           /\ Len(m.components) = Len(cs) + n
           /\ \A j \in 1 .. n : Became(m.components[Len(cs) + j], file, order[j])

LEMMA AlikeTraits ==
    ASSUME NEW file, NEW other, DOMAIN other = DOMAIN file, \A k \in DOMAIN file : Alike(other[k], file[k])
    PROVE  TraitIDs(other) = TraitIDs(file)
BY DEF TraitIDs, Alike

(* The state of a conversion in the middle of reading service order[n].    *)
LEMMA ReadOne ==
    ASSUME IDsNeverRunOut, design \in [Design -> Seq(Component)],
           NEW cs \in Seq(Component), NEW store, IsStore(store), NEW file, IsFile(file, Len(store)),
           NEW order, Ranges(order, DOMAIN file), NEW n \in 1 .. Len(order),
           NEW m, Reading(m, cs, file, store, order, n - 1)
    PROVE  /\ order[n] \in DOMAIN file /\ m.services[order[n]] = file[order[n]]
           /\ ConfigOf(file[order[n]], m.maps) \in 1 .. Len(m.maps) + 1
           /\ [labels |-> file[order[n]].labels, namespace |-> file[order[n]].namespace] \in Metadata
           /\ Unused(m) \in ID /\ Unused(m) \notin TraitIDs(file)
           /\ IsFile(Untraited(m.services, order[n]), Len(store))
           /\ DOMAIN Untraited(m.services, order[n]) = DOMAIN file
           /\ \A k \in DOMAIN file : Alike(Untraited(m.services, order[n])[k], file[k])
           /\ \A j \in n + 1 .. Len(order) : Untraited(m.services, order[n])[order[j]] = file[order[j]]
<1> DEFINE k == order[n]
           s == file[k]
<1>1. n \in Nat /\ Len(order) \in Nat /\ Len(store) \in Nat /\ n \in n - 1 + 1 .. Len(order)
      /\ n \in DOMAIN order /\ DOMAIN order = 1 .. Len(order)
  BY DEF Ranges, IsStore
<1>2. k \in DOMAIN file
  BY <1>1 DEF Ranges
<1>3. m.services[k] = s
  BY <1>1 DEF Reading
<1>4. IsFile(m.services, Len(store)) /\ DOMAIN m.services = DOMAIN file
      /\ (\A l \in DOMAIN file : Alike(m.services[l], file[l]))
      /\ IsStore(m.maps) /\ Len(store) <= Len(m.maps) /\ Len(m.maps) \in Nat
  BY DEF Reading, IsStore
<1>5. s.settings \in 0 .. Len(store) /\ s.labels \in {"nil", "typed"} /\ s.namespace \in {"nil", "typed"}
  BY <1>2, FileFields
<1>6. ConfigOf(s, m.maps) \in 1 .. Len(m.maps) + 1
  BY <1>1, <1>4, <1>5 DEF ConfigOf
<1>7. [labels |-> s.labels, namespace |-> s.namespace] \in Metadata
  BY <1>5 DEF Metadata, Held
<1>8. Unused(m) \in ID /\ Unused(m) \notin TraitIDs(file)
  <2>1. m.components \in Seq(Component)
    BY DEF Reading, AreComponents
  <2>2. Unused(m) \in ID /\ Unused(m) \notin TraitIDs(m.services)
    BY <1>4, <2>1, FreshID
  <2> QED BY <1>4, <2>2, AlikeTraits
<1>9. IsFile(Untraited(m.services, k), Len(store)) /\ DOMAIN Untraited(m.services, k) = DOMAIN file
  BY <1>1, <1>2, <1>4, UntraitedTypes
<1>10. ASSUME NEW l \in DOMAIN file PROVE Alike(Untraited(m.services, k)[l], file[l])
  <2>1. Alike(Untraited(m.services, k)[l], m.services[l])
    BY <1>1, <1>2, <1>4, UntraitedTypes
  <2>2. Alike(m.services[l], file[l])
    BY <1>4
  <2> QED BY <2>1, <2>2 DEF Alike
<1>11. ASSUME NEW j \in n + 1 .. Len(order) PROVE Untraited(m.services, k)[order[j]] = file[order[j]]
  <2>1. j \in DOMAIN order /\ j # n /\ j \in n - 1 + 1 .. Len(order)
    BY <1>1
  <2>2. order[j] \in DOMAIN file /\ order[j] # k
    BY <1>1, <2>1 DEF Ranges
  <2>3. Untraited(m.services, k)[order[j]] = m.services[order[j]]
    BY <1>1, <1>2, <1>4, <2>2, UntraitedTypes
  <2>4. m.services[order[j]] = file[order[j]]
    BY <2>1 DEF Reading
  <2> QED BY <2>3, <2>4
<1> QED BY <1>2, <1>3, <1>6, <1>7, <1>8, <1>9, <1>10, <1>11

LEMMA ReadKeeps ==
    ASSUME IDsNeverRunOut, design \in [Design -> Seq(Component)],
           NEW cs \in Seq(Component), NEW store, IsStore(store), NEW file, IsFile(file, Len(store)),
           NEW order, Ranges(order, DOMAIN file), NEW n \in 1 .. Len(order),
           NEW m, Reading(m, cs, file, store, order, n - 1)
    PROVE  Reading(ReadService(m, order[n]), cs, file, store, order, n)
<1>0. /\ order[n] \in DOMAIN file /\ m.services[order[n]] = file[order[n]]
      /\ ConfigOf(file[order[n]], m.maps) \in 1 .. Len(m.maps) + 1
      /\ [labels |-> file[order[n]].labels, namespace |-> file[order[n]].namespace] \in Metadata
      /\ Unused(m) \in ID /\ Unused(m) \notin TraitIDs(file)
      /\ IsFile(Untraited(m.services, order[n]), Len(store))
      /\ DOMAIN Untraited(m.services, order[n]) = DOMAIN file
      /\ \A k \in DOMAIN file : Alike(Untraited(m.services, order[n])[k], file[k])
      /\ \A j \in n + 1 .. Len(order) : Untraited(m.services, order[n])[order[j]] = file[order[j]]
  BY ReadOne
<1> DEFINE k == order[n]
           s == file[k]
           new == ReadService(m, k)
           left == Taken(s, m.maps)
           after == Untraited(m.services, k)
           c == ComponentOf(s, ConfigOf(s, m.maps), Unused(m))
<1>1. k \in DOMAIN file /\ m.services[k] = s
  BY <1>0
<1>2. IsFile(after, Len(store)) /\ DOMAIN after = DOMAIN file
  BY <1>0
<1>3. \A l \in DOMAIN file : Alike(after[l], file[l])
  BY <1>0
<1>4. \A j \in n + 1 .. Len(order) : after[order[j]] = file[order[j]]
  BY <1>0
<1>5. ConfigOf(s, m.maps) \in 1 .. Len(m.maps) + 1 /\ Unused(m) \in ID /\ Unused(m) \notin TraitIDs(file)
  BY <1>0
<1>6. [labels |-> s.labels, namespace |-> s.namespace] \in Metadata
  BY <1>0
<1>7. /\ n \in Nat /\ Len(order) \in Nat /\ Len(store) \in Nat /\ Len(m.maps) \in Nat
      /\ Len(store) <= Len(m.maps) /\ IsStore(m.maps)
      /\ \A j \in n + 1 .. Len(order) : j \in n - 1 + 1 .. Len(order)
  BY DEF Reading, IsStore, Ranges
<1>8. IsStore(left) /\ Len(left) \in Nat /\ Len(m.maps) <= Len(left) /\ Len(store) <= Len(left)
      /\ ConfigOf(s, m.maps) <= Len(left)
  <2>1. IsStore(left) /\ Len(left) \in {Len(m.maps), Len(m.maps) + 1} /\ ConfigOf(s, m.maps) <= Len(left)
    BY <1>5, <1>6, <1>7, PutTypes DEF Taken
  <2> QED BY <1>7, <2>1
<1>9. m = [components |-> m.components, services |-> m.services, maps |-> m.maps, status |-> m.status]
  BY DEF Reading
<1>10. /\ IsFile(m.services, Len(store)) /\ DOMAIN m.services = DOMAIN file
       /\ \A l \in DOMAIN file : Alike(m.services[l], file[l])
       /\ \A j \in n + 1 .. Len(order) : m.services[order[j]] = file[order[j]]
  BY <1>7 DEF Reading
<1>11. AreComponents(m.components, Len(m.maps)) /\ AreComponents(m.components, Len(left))
  <2>1. AreComponents(m.components, Len(m.maps))
    BY DEF Reading
  <2> QED BY <1>7, <1>8, <2>1 DEF AreComponents
<1>12. m.status \in {"ok", "error", "panic"} /\ (StylesAllocated => m.status # "panic")
       /\ (StylesAllocated /\ (\A l \in DOMAIN file : ~Refused(file[l])) => m.status = "ok")
  BY DEF Reading
<1> HIDE DEF new, left, after, c, k, s
<1>13. CASE m.status # "ok" /\ new = m
  <2> QED BY <1>7, <1>9, <1>10, <1>11, <1>12, <1>13 DEF Reading, new, k
<1>14. CASE /\ Refused(s)
            /\ new = [components |-> m.components, services |-> m.services, maps |-> left, status |-> "error"]
  <2>1. new.components = m.components /\ new.services = m.services /\ new.maps = left /\ new.status = "error"
    BY <1>14
  <2>2. ~\A l \in DOMAIN file : ~Refused(file[l])
    BY <1>1, <1>14 DEF s
  <2> QED BY <1>7, <1>8, <1>10, <1>11, <1>14, <2>1, <2>2 DEF Reading, new, k
<1>15. CASE /\ ~StylesAllocated
            /\ new = [components |-> m.components, services |-> after, maps |-> left, status |-> "panic"]
  <2>1. new.components = m.components /\ new.services = after /\ new.maps = left /\ new.status = "panic"
    BY <1>15
  <2> QED BY <1>2, <1>3, <1>4, <1>7, <1>8, <1>11, <1>15, <2>1 DEF Reading, new, k
<1>16. CASE /\ m.status = "ok" /\ ~Refused(s)
            /\ new = [components |-> Append(m.components, c), services |-> after, maps |-> left, status |-> "ok"]
  <2>1. new.components = Append(m.components, c) /\ new.services = after /\ new.maps = left /\ new.status = "ok"
    BY <1>16
  <2>2. c \in Component /\ c.config = ConfigOf(s, m.maps) /\ Became(c, file, k)
    <3>1. ConfigOf(s, m.maps) \in Nat
      BY <1>5, <1>7
    <3> QED BY <1>1, <1>5, <1>16, <3>1, ComponentOfType DEF c, s
  <2>3. m.components \in Seq(Component) /\ Len(m.components) \in Nat /\ Len(cs) \in Nat
    BY <1>11 DEF AreComponents
  <2>4. Len(m.components) = Len(cs) + (n - 1)
        /\ \A j \in 1 .. n - 1 : Became(m.components[Len(cs) + j], file, order[j])
    BY <1>16 DEF Reading
  <2>5. /\ new.components \in Seq(Component) /\ Len(new.components) = Len(cs) + n
        /\ new.components[Len(cs) + n] = c
        /\ \A j \in 1 .. Len(m.components) : new.components[j] = m.components[j]
    BY <1>7, <2>1, <2>2, <2>3, <2>4
  <2>6. AreComponents(new.components, Len(left))
    <3> SUFFICES ASSUME NEW j \in DOMAIN new.components PROVE new.components[j].config \in 0 .. Len(left)
      BY <2>5 DEF AreComponents
    <3>1. j \in 1 .. Len(cs) + n
      BY <2>5
    <3>2. CASE j = Len(cs) + n
      BY <1>5, <1>7, <1>8, <2>2, <2>5, <3>2
    <3>3. CASE j # Len(cs) + n
      <4>1. j \in 1 .. Len(m.components) /\ j \in DOMAIN m.components
        BY <1>7, <2>3, <2>4, <3>1, <3>3
      <4> QED BY <1>11, <2>5, <4>1 DEF AreComponents
    <3> QED BY <3>2, <3>3
  <2>7. ASSUME NEW j \in 1 .. n PROVE Became(new.components[Len(cs) + j], file, order[j])
    <3>1. CASE j = n
      BY <2>2, <2>5, <3>1 DEF k
    <3>2. CASE j # n
      <4>1. j \in 1 .. n - 1 /\ Len(cs) + j \in 1 .. Len(m.components)
        BY <1>7, <2>3, <2>4, <3>2
      <4> QED BY <2>4, <2>5, <4>1
    <3> QED BY <3>1, <3>2
  <2> QED BY <1>2, <1>3, <1>4, <1>7, <1>8, <1>16, <2>1, <2>5, <2>6, <2>7 DEF Reading, new, k
<1> QED
  <2>1. \/ m.status # "ok" /\ new = m
        \/ /\ m.status = "ok" /\ Refused(m.services[k])
           /\ new = [components |-> m.components, services |-> m.services,
                     maps |-> Taken(m.services[k], m.maps), status |-> "error"]
        \/ /\ m.status = "ok" /\ ~Refused(m.services[k]) /\ ~StylesAllocated
           /\ new = [components |-> m.components, services |-> Untraited(m.services, k),
                     maps |-> Taken(m.services[k], m.maps), status |-> "panic"]
        \/ /\ m.status = "ok" /\ ~Refused(m.services[k]) /\ StylesAllocated
           /\ new = [components |-> Append(m.components,
                         ComponentOf(m.services[k], ConfigOf(m.services[k], m.maps), Unused(m))),
                     services |-> Untraited(m.services, k), maps |-> Taken(m.services[k], m.maps), status |-> "ok"]
    BY <1>9, ReadCases DEF new
  <2> QED BY <1>1, <1>13, <1>14, <1>15, <1>16, <2>1 DEF left, after, c

LEMMA ReadAll ==
    ASSUME IDsNeverRunOut, design \in [Design -> Seq(Component)],
           NEW cs, NEW store, IsStore(store), AreComponents(cs, Len(store)),
           NEW file, IsFile(file, Len(store)), NEW order, Ranges(order, DOMAIN file)
    PROVE  \E m : /\ m[0] = [components |-> cs, services |-> file, maps |-> store, status |-> "ok"]
                  /\ \A n \in 1 .. Len(order) : m[n] = ReadService(m[n - 1], order[n])
                  /\ ReadBack(cs, file, store, order) = m[Len(order)]
                  /\ \A n \in 0 .. Len(order) : Reading(m[n], cs, file, store, order, n)
<1> DEFINE L == Len(order)
<1>1. order \in Seq(ID) /\ L \in Nat /\ cs \in Seq(Component) /\ Len(store) \in Nat
  <2>1. DOMAIN file \subseteq ID /\ order \in Seq(DOMAIN file)
    BY DEF IsFile, Ranges
  <2> QED BY <2>1 DEF AreComponents, IsStore
<1>2. PICK m : /\ m[0] = [components |-> cs, services |-> file, maps |-> store, status |-> "ok"]
               /\ \A n \in 1 .. L : m[n] = ReadService(m[n - 1], order[n])
               /\ ReadBack(cs, file, store, order) = m[L]
  <2> HIDE DEF L
  <2>1. order \in Seq(ID)
    BY <1>1
  <2>2. \E m : /\ m[0] = [components |-> cs, services |-> file, maps |-> store, status |-> "ok"]
               /\ \A n \in 1 .. Len(order) : m[n] = ReadService(m[n - 1], order[n])
               /\ ReadBack(cs, file, store, order) = m[Len(order)]
    BY <2>1, ReadBackSteps
  <2> QED BY <2>2, Zenon DEF L
<1> DEFINE T == {n \in 0 .. L : Reading(m[n], cs, file, store, order, n)}
<1>3. 0 \in T
  <2>1. \A k \in DOMAIN file : Alike(file[k], file[k])
    BY DEF Alike
  <2>2. m[0].status = "ok" /\ m[0].components = cs /\ m[0].services = file /\ m[0].maps = store
    BY <1>2
  <2>3. Reading(m[0], cs, file, store, order, 0)
    BY <1>1, <1>2, <2>1, <2>2 DEF Reading
  <2> QED BY <1>1, <2>3
<1>4. ASSUME NEW n \in 1 .. L, n - 1 \in T PROVE n \in T
  <2>2. Reading(m[n - 1], cs, file, store, order, n - 1)
    BY <1>4
  <2>3. m[n] = ReadService(m[n - 1], order[n])
    BY <1>2
  <2> HIDE DEF L
  <2>1. Reading(m[n], cs, file, store, order, n)
    BY <1>1, <2>2, <2>3, ReadKeeps DEF L
  <2> QED BY <1>1, <2>1
<1>5. T = 0 .. L
  <2> HIDE DEF T
  <2>1. T \in SUBSET (0 .. L)
    BY DEF T
  <2> QED BY <1>1, <1>3, <1>4, <2>1, UpTo
<1>6. \A n \in 0 .. L : Reading(m[n], cs, file, store, order, n)
  BY <1>5
<1> QED BY <1>2, <1>6

-----------------------------------------------------------------------------
(* The inductive invariant.  The services of a stored file do not share a  *)
(* configuration map: no map is given two services' entries.               *)

Distinct(file) ==
    \A k, l \in DOMAIN file : file[k].settings # 0 /\ file[k].settings = file[l].settings => k = l

TypeInv ==
    /\ AcceptsOK
    /\ IsStore(maps)
    /\ design \in [Design -> Seq(Component)]
    /\ \A d \in Design : AreComponents(design[d], Len(maps))
    /\ services = Nil \/ IsFile(services, Len(maps))
    /\ calls \in 0 .. MaxCalls

FileInv == Stored => Distinct(services)

Inv == TypeInv /\ FileInv

LEMMA LaterMaps ==
    ASSUME NEW n \in Nat, NEW o \in Nat, n <= o
    PROVE  /\ \A cs : AreComponents(cs, n) => AreComponents(cs, o)
           /\ \A file : IsFile(file, n) => IsFile(file, o)
<1>1. 0 .. n \subseteq 0 .. o
  OBVIOUS
<1>2. ASSUME NEW cs, AreComponents(cs, n) PROVE AreComponents(cs, o)
  BY <1>1, <1>2 DEF AreComponents
<1>3. ASSUME NEW file, IsFile(file, n) PROVE IsFile(file, o)
  BY <1>1, <1>3 DEF IsFile
<1> QED BY <1>2, <1>3

(* More maps are made.                                                     *)
LEMMA MoreMaps ==
    ASSUME NEW store, IsStore(store), NEW L \in Nat, NEW more \in [1 .. L -> Metadata \cup {Nil}]
    PROVE  IsStore(store \o more) /\ Len(store \o more) = Len(store) + L
<1>1. more \in Seq(Metadata \cup {Nil}) /\ Len(more) = L
  OBVIOUS
<1> QED BY <1>1 DEF IsStore

LEMMA CallBound ==
    ASSUME TypeInv, NEW call, NEW of, NEW status, Call(call, of, status)
    PROVE  /\ calls' \in 0 .. MaxCalls /\ accepts' = accepts /\ calls' # calls
           /\ result' = [call |-> call, of |-> of, status |-> status]
BY ConstantsOK DEF TypeInv, Call, Result

LEMMA InitInv == Init => Inv
<1> SUFFICES ASSUME Init PROVE Inv
  OBVIOUS
<1>1. IsStore(maps) /\ Len(maps) = 0
  BY DEF Init, IsStore
<1>2. design \in [Design -> Seq(Component)] /\ \A d \in Design : AreComponents(design[d], Len(maps))
  BY DEF Init, AreComponents
<1>3. DOMAIN services = {} /\ services = [k \in {} |-> Nil]
  BY DEF Init, EmptyMap
<1>4. IsFile(services, Len(maps)) /\ Distinct(services)
  BY <1>3, FS_EmptySet DEF IsFile, Distinct
<1>5. calls \in 0 .. MaxCalls
  BY ConstantsOK DEF Init
<1>6. result.call # "from"
  BY DEF Init, Result
<1> QED BY <1>1, <1>2, <1>4, <1>5, <1>6 DEF Inv, TypeInv, FileInv, Init, AcceptsOK

LEMMA OpenDesignInv ==
    ASSUME Inv, NEW d \in Design, OpenDesign(d)
    PROVE  Inv'
<1>0. PICK n \in 1 .. MaxComponents : \E opened \in [1 .. n -> OpenedComponents] :
          /\ design' = [design EXCEPT ![d] =
                 [i \in 1 .. n |->
                     [id |-> i, config |-> IF opened[i].configured THEN Len(maps) + i ELSE 0,
                      dependsOn |-> opened[i].dependsOn, namespaced |-> opened[i].namespaced,
                      styles |-> "none", drawn |-> FALSE]]]
          /\ maps' = maps \o [i \in 1 .. n |-> opened[i].metadata]
  BY DEF OpenDesign
<1>1. PICK opened \in [1 .. n -> OpenedComponents] :
          /\ design' = [design EXCEPT ![d] =
                 [i \in 1 .. n |->
                     [id |-> i, config |-> IF opened[i].configured THEN Len(maps) + i ELSE 0,
                      dependsOn |-> opened[i].dependsOn, namespaced |-> opened[i].namespaced,
                      styles |-> "none", drawn |-> FALSE]]]
          /\ maps' = maps \o [i \in 1 .. n |-> opened[i].metadata]
  BY <1>0
<1> DEFINE cs == [i \in 1 .. n |->
                     [id |-> i, config |-> IF opened[i].configured THEN Len(maps) + i ELSE 0,
                      dependsOn |-> opened[i].dependsOn, namespaced |-> opened[i].namespaced,
                      styles |-> "none", drawn |-> FALSE]]
<1>2. n \in Nat /\ IsStore(maps) /\ Len(maps) \in Nat /\ 1 .. n \subseteq ID
  <2>1. n \in Nat /\ 1 .. n \subseteq 1 .. MaxComponents
    BY ConstantsOK
  <2> QED BY <2>1, ConstantsOK DEF Inv, TypeInv, IsStore
<1>3. ASSUME NEW i \in 1 .. n
      PROVE  opened[i].metadata \in Metadata \cup {Nil} /\ opened[i].dependsOn \in Held
             /\ opened[i].namespaced \in BOOLEAN
  <2>1. opened[i] \in [metadata : [labels : {"nil", "generic"}, namespace : {"nil", "typed"}] \cup {Nil},
                       configured : BOOLEAN, dependsOn : {"nil", "generic"}, namespaced : BOOLEAN]
    BY ConstantsOK
  <2>2. [labels : {"nil", "generic"}, namespace : {"nil", "typed"}] \subseteq Metadata
    BY DEF Metadata, Held
  <2> QED BY <2>1, <2>2 DEF Held
<1>4. IsStore(maps') /\ Len(maps') = Len(maps) + n
  <2> DEFINE more == [i \in 1 .. n |-> opened[i].metadata]
  <2>1. more \in [1 .. n -> Metadata \cup {Nil}]
    BY <1>3
  <2>2. maps' = maps \o more
    BY <1>1
  <2> HIDE DEF more
  <2> QED BY <1>2, <2>1, <2>2, MoreMaps
<1>5. AreComponents(cs, Len(maps'))
  <2>1. ASSUME NEW i \in 1 .. n PROVE cs[i] \in Component /\ cs[i].config \in 0 .. Len(maps')
    <3>1. i \in ID /\ i \in Nat
      BY <1>2
    <3>2. cs[i].config \in 0 .. Len(maps') /\ cs[i].config \in Nat
      BY <1>2, <1>4, <3>1
    <3> QED BY <1>3, <3>1, <3>2 DEF Component
  <2>2. DOMAIN cs = 1 .. n /\ cs = [i \in 1 .. n |-> cs[i]]
    OBVIOUS
  <2> HIDE DEF cs
  <2> QED BY <1>2, <2>1, <2>2 DEF AreComponents
<1> HIDE DEF cs
<1>6. design' = [design EXCEPT ![d] = cs]
  BY <1>1 DEF cs
<1>7. ASSUME NEW e \in Design PROVE AreComponents(design'[e], Len(maps'))
  <2>1. AreComponents(design[e], Len(maps'))
    BY <1>2, <1>4, LaterMaps DEF Inv, TypeInv
  <2> QED BY <1>5, <1>6, <2>1 DEF Inv, TypeInv
<1>8. design' \in [Design -> Seq(Component)]
  BY <1>5, <1>6 DEF AreComponents, Inv, TypeInv
<1>9. services' = services /\ (services' = Nil \/ IsFile(services', Len(maps')))
  BY <1>2, <1>4, LaterMaps DEF Inv, TypeInv, OpenDesign
<1>10. Call("open", d, "ok")
  BY DEF OpenDesign
<1>11. calls' \in 0 .. MaxCalls /\ accepts' = accepts /\ result'.call # "from"
  BY <1>10, CallBound DEF Inv
<1>12. TypeInv'
  BY <1>4, <1>7, <1>8, <1>9, <1>11 DEF TypeInv, Inv, AcceptsOK
<1>13. FileInv'
  BY <1>9 DEF Inv, FileInv, Stored
<1> QED BY <1>11, <1>12, <1>13 DEF Inv

LEMMA OpenFileInv ==
    ASSUME Inv, OpenFile
    PROVE  Inv'
<1>0. PICK n \in 1 .. MaxComponents : \E opened \in [1 .. n -> OpenedServices] :
          /\ services' =
                 [k \in 1 .. n |->
                     [settings |-> IF opened[k].configured THEN Len(maps) + k ELSE 0,
                      labels |-> opened[k].labels, namespace |-> opened[k].namespace,
                      dependsOn |-> opened[k].dependsOn,
                      traits |-> IF opened[k].traits = Nil THEN Nil
                                 ELSE [decoded |-> TRUE, id |-> k,
                                       namespaced |-> opened[k].traits.namespaced,
                                       drawn |-> opened[k].traits.drawn]]]
          /\ maps' = maps \o [k \in 1 .. n |-> Nil]
  BY DEF OpenFile
<1>1. PICK opened \in [1 .. n -> OpenedServices] :
          /\ services' =
                 [k \in 1 .. n |->
                     [settings |-> IF opened[k].configured THEN Len(maps) + k ELSE 0,
                      labels |-> opened[k].labels, namespace |-> opened[k].namespace,
                      dependsOn |-> opened[k].dependsOn,
                      traits |-> IF opened[k].traits = Nil THEN Nil
                                 ELSE [decoded |-> TRUE, id |-> k,
                                       namespaced |-> opened[k].traits.namespaced,
                                       drawn |-> opened[k].traits.drawn]]]
          /\ maps' = maps \o [k \in 1 .. n |-> Nil]
  BY <1>0
<1>2. n \in Nat /\ IsStore(maps) /\ Len(maps) \in Nat /\ 1 .. n \subseteq ID
  <2>1. n \in Nat /\ 1 .. n \subseteq 1 .. MaxComponents
    BY ConstantsOK
  <2> QED BY <2>1, ConstantsOK DEF Inv, TypeInv, IsStore
<1>3. IsStore(maps') /\ Len(maps') = Len(maps) + n
  <2> DEFINE more == [k \in 1 .. n |-> Nil]
  <2>1. more \in [1 .. n -> Metadata \cup {Nil}] /\ maps' = maps \o more
    BY <1>1
  <2> HIDE DEF more
  <2> QED BY <1>2, <2>1, MoreMaps
<1>4. ASSUME NEW k \in 1 .. n
      PROVE  /\ services'[k] \in Service /\ services'[k].settings \in {0, Len(maps) + k}
             /\ services'[k].settings \in 0 .. Len(maps')
             /\ services'[k].traits # Nil => services'[k].traits.id = k
  <2> DEFINE t == IF opened[k].traits = Nil THEN Nil
                  ELSE [decoded |-> TRUE, id |-> k, namespaced |-> opened[k].traits.namespaced,
                        drawn |-> opened[k].traits.drawn]
             x == IF opened[k].configured THEN Len(maps) + k ELSE 0
  <2>1. opened[k] \in [configured : BOOLEAN, labels : {"nil", "typed"}, namespace : {"nil", "typed"},
                       dependsOn : {"nil", "typed"}, traits : [namespaced : BOOLEAN, drawn : BOOLEAN] \cup {Nil}]
    BY ConstantsOK
  <2>2. k \in ID /\ k \in Nat /\ x \in {0, Len(maps) + k} /\ x \in 0 .. Len(maps') /\ x \in Nat
    BY <1>2, <1>3
  <2>3. t \in Traits \cup {Nil} /\ (t # Nil => t.id = k)
    BY <2>1, <2>2 DEF Traits
  <2>4. services'[k] = [settings |-> x, labels |-> opened[k].labels, namespace |-> opened[k].namespace,
                        dependsOn |-> opened[k].dependsOn, traits |-> t]
    BY <1>1
  <2> HIDE DEF t, x
  <2> QED BY <2>1, <2>2, <2>3, <2>4 DEF Service
<1>5. DOMAIN services' = 1 .. n /\ services' = [k \in DOMAIN services' |-> services'[k]]
  BY <1>1
<1>6. IsFiniteSet(1 .. n)
  <2>1. 1 \in Int /\ n \in Int
    BY <1>2
  <2> QED BY ONLY <2>1, FS_Interval
<1>7. IsFile(services', Len(maps'))
  <2>1. services' \in [DOMAIN services' -> Service]
    BY <1>4, <1>5, Zenon
  <2> QED BY <1>2, <1>4, <1>5, <1>6, <2>1 DEF IsFile
<1>8. Distinct(services')
  BY <1>2, <1>4, <1>5 DEF Distinct
<1>9. design' = design /\ \A d \in Design : AreComponents(design'[d], Len(maps'))
  <2>1. Len(maps') \in Nat /\ Len(maps) <= Len(maps')
    BY <1>2, <1>3
  <2> QED BY <1>2, <2>1, LaterMaps DEF OpenFile, Inv, TypeInv
<1>10. Call("open", Nil, "ok")
  BY DEF OpenFile
<1>11. calls' \in 0 .. MaxCalls /\ accepts' = accepts /\ result'.call # "from"
  BY <1>10, CallBound DEF Inv
<1>12. TypeInv'
  BY <1>3, <1>7, <1>9, <1>11 DEF TypeInv, Inv, AcceptsOK
<1> QED BY <1>8, <1>11, <1>12 DEF Inv, FileInv

LEMMA NewInv ==
    ASSUME Inv, NewFile \/ \E d \in Design : NewDesign(d)
    PROVE  Inv'
<1>1. CASE NewFile
  <2>1. Call("new", Nil, "ok") /\ design' = design /\ maps' = maps /\ services' \in {EmptyMap, Nil}
    BY <1>1 DEF NewFile
  <2>2. IsFile(EmptyMap, Len(maps)) /\ Distinct(EmptyMap)
    BY FS_EmptySet DEF EmptyMap, IsFile, Distinct
  <2>3. calls' \in 0 .. MaxCalls /\ accepts' = accepts /\ result'.call # "from"
    BY <2>1, CallBound DEF Inv
  <2>4. TypeInv'
    BY <2>1, <2>2, <2>3 DEF Inv, TypeInv, AcceptsOK
  <2>5. FileInv'
    BY <2>1, <2>2 DEF FileInv, Stored
  <2> QED BY <2>3, <2>4, <2>5 DEF Inv
<1>2. ASSUME NEW d \in Design, NewDesign(d) PROVE Inv'
  <2>1. Call("new", d, "ok") /\ design' = [design EXCEPT ![d] = <<>>] /\ maps' = maps /\ services' = services
    BY <1>2 DEF NewDesign
  <2>2. AreComponents(<<>>, Len(maps))
    BY DEF AreComponents
  <2>3. calls' \in 0 .. MaxCalls /\ accepts' = accepts /\ result'.call # "from"
    BY <2>1, CallBound DEF Inv
  <2>4. TypeInv'
    BY <2>1, <2>2, <2>3 DEF Inv, TypeInv, AcceptsOK
  <2>5. FileInv'
    BY <2>1 DEF Inv, FileInv, Stored
  <2> QED BY <2>3, <2>4, <2>5 DEF Inv
<1> QED BY <1>1, <1>2

LEMMA DecodedTypes ==
    ASSUME NEW entries \in Metadata \cup {Nil}
    PROVE  DecodedMetadata(entries) \in Metadata \cup {Nil}
<1>1. ASSUME entries # Nil PROVE [entries EXCEPT !.labels = Decoded(@)] \in Metadata
  <2>1. entries \in Metadata /\ entries.labels \in {"nil", "typed", "generic"}
    BY <1>1 DEF Metadata, Held
  <2>2. Decoded(entries.labels) \in {"nil", "generic"}
    BY <2>1 DEF Decoded
  <2> QED BY <2>1, <2>2 DEF Metadata, Held
<1> QED BY <1>1 DEF DecodedMetadata

LEMMA DecodedComponentType ==
    ASSUME NEW c \in Component, NEW config \in Nat, NEW dependsOn \in Held
    PROVE  /\ [c EXCEPT !.config = config, !.dependsOn = dependsOn] \in Component
           /\ [c EXCEPT !.config = config, !.dependsOn = dependsOn].config = config
BY DEF Component

LEMMA ReopenDesignInv ==
    ASSUME Inv, NEW d \in Design, ReopenDesign(d)
    PROVE  Inv'
<1> DEFINE old == design[d]
           L == Len(old)
           cs == [i \in DOMAIN old |->
                     [old[i] EXCEPT !.config = IF @ = 0 THEN 0 ELSE Len(maps) + i,
                                    !.dependsOn = Decoded(@)]]
           more == [i \in DOMAIN old |->
                       IF old[i].config = 0 THEN Nil ELSE DecodedMetadata(maps[old[i].config])]
<1>1. /\ design' = [design EXCEPT ![d] = cs] /\ maps' = maps \o more
      /\ Call("reopen", d, "ok") /\ services' = services
  BY DEF ReopenDesign
<1>2. /\ AreComponents(old, Len(maps)) /\ IsStore(maps) /\ Len(maps) \in Nat
      /\ L \in Nat /\ DOMAIN old = 1 .. L
  BY DEF Inv, TypeInv, AreComponents, IsStore
<1>3. more \in [1 .. L -> Metadata \cup {Nil}]
  <2> SUFFICES ASSUME NEW i \in 1 .. L, old[i].config # 0
               PROVE  DecodedMetadata(maps[old[i].config]) \in Metadata \cup {Nil}
    BY <1>2
  <2>1. old[i].config \in 1 .. Len(maps)
    BY <1>2 DEF AreComponents
  <2>2. maps[old[i].config] \in Metadata \cup {Nil}
    BY <1>2, <2>1 DEF IsStore
  <2> QED BY <2>2, DecodedTypes
<1>4. IsStore(maps') /\ Len(maps') = Len(maps) + L
  <2> HIDE DEF more, L
  <2> QED BY <1>1, <1>2, <1>3, MoreMaps
<1>5. ASSUME NEW i \in 1 .. L PROVE cs[i] \in Component /\ cs[i].config \in 0 .. Len(maps')
  <2> DEFINE x == IF old[i].config = 0 THEN 0 ELSE Len(maps) + i
             y == Decoded(old[i].dependsOn)
  <2>1. cs[i] = [old[i] EXCEPT !.config = x, !.dependsOn = y]
    BY <1>2
  <2>2. old[i] \in Component
    BY <1>2 DEF AreComponents
  <2>3. x \in 0 .. Len(maps') /\ x \in Nat
    BY <1>2, <1>4
  <2>4. y \in Held
    BY <2>2 DEF Decoded, Component, Held
  <2> HIDE DEF x, y, cs
  <2>5. [old[i] EXCEPT !.config = x, !.dependsOn = y] \in Component
        /\ [old[i] EXCEPT !.config = x, !.dependsOn = y].config = x
    BY <2>2, <2>3, <2>4, DecodedComponentType
  <2> QED BY <2>1, <2>3, <2>5
<1>6. AreComponents(cs, Len(maps'))
  <2>1. DOMAIN cs = 1 .. L /\ cs = [i \in 1 .. L |-> cs[i]]
    BY <1>2
  <2> HIDE DEF cs, L
  <2> QED BY <1>2, <1>5, <2>1 DEF AreComponents
<1> HIDE DEF cs
<1>7. ASSUME NEW e \in Design PROVE AreComponents(design'[e], Len(maps'))
  <2>1. AreComponents(design[e], Len(maps'))
    BY <1>2, <1>4, LaterMaps DEF Inv, TypeInv
  <2> QED BY <1>1, <1>6, <2>1 DEF Inv, TypeInv
<1>8. design' \in [Design -> Seq(Component)]
  BY <1>1, <1>6 DEF AreComponents, Inv, TypeInv
<1>9. services' = Nil \/ IsFile(services', Len(maps'))
  BY <1>1, <1>2, <1>4, LaterMaps DEF Inv, TypeInv
<1>10. calls' \in 0 .. MaxCalls /\ accepts' = accepts /\ result'.call # "from"
  BY <1>1, CallBound DEF Inv
<1>11. TypeInv'
  BY <1>4, <1>7, <1>8, <1>9, <1>10 DEF TypeInv, Inv, AcceptsOK
<1>12. FileInv'
  BY <1>1 DEF Inv, FileInv, Stored
<1> QED BY <1>10, <1>11, <1>12 DEF Inv

LEMMA ReopenFileInv ==
    ASSUME Inv, ReopenFile
    PROVE  Inv'
<1> DEFINE order == SetToSeq(DOMAIN services)
           At(k) == CHOOSE i \in DOMAIN order : order[i] = k
           L == Len(order)
           more == [i \in DOMAIN order |->
                       IF services[order[i]].settings = 0 THEN Nil
                       ELSE DecodedMetadata(maps[services[order[i]].settings])]
<1>1. /\ services # Nil
      /\ services' = [k \in DOMAIN services |-> DecodedService(services[k], Len(maps) + At(k))]
      /\ maps' = maps \o more
      /\ Call("reopen", Nil, "ok") /\ design' = design
  BY DEF ReopenFile
<1>2. IsFile(services, Len(maps)) /\ IsStore(maps) /\ Len(maps) \in Nat /\ IsFiniteSet(DOMAIN services)
  BY <1>1 DEF Inv, TypeInv, IsStore, IsFile
<1>3. Ranges(order, DOMAIN services)
  BY <1>2, OneOrder, Orders
<1>4. L \in Nat /\ DOMAIN order = 1 .. L
  BY <1>3 DEF Ranges
<1>5. ASSUME NEW k \in DOMAIN services PROVE At(k) \in 1 .. L /\ order[At(k)] = k
  <2>1. \E i \in DOMAIN order : order[i] = k
    BY <1>3 DEF Ranges
  <2> QED BY <1>4, <2>1
<1>6. more \in [1 .. L -> Metadata \cup {Nil}]
  <2> SUFFICES ASSUME NEW i \in 1 .. L, services[order[i]].settings # 0
               PROVE  DecodedMetadata(maps[services[order[i]].settings]) \in Metadata \cup {Nil}
    BY <1>4
  <2>1. order[i] \in DOMAIN services
    BY <1>3, <1>4 DEF Ranges
  <2>2. services[order[i]].settings \in 0 .. Len(maps)
    BY <1>2, <2>1, FileFields
  <2>3. maps[services[order[i]].settings] \in Metadata \cup {Nil}
    BY <1>2, <2>2 DEF IsStore
  <2> QED BY <2>3, DecodedTypes
<1>7. IsStore(maps') /\ Len(maps') = Len(maps) + L
  <2> HIDE DEF more, L
  <2> QED BY <1>1, <1>2, <1>4, <1>6, MoreMaps
<1>8. ASSUME NEW k \in DOMAIN services
      PROVE  /\ services'[k] \in Service /\ services'[k].settings \in {0, Len(maps) + At(k)}
             /\ services'[k].settings \in 0 .. Len(maps')
             /\ services'[k].traits # Nil => services'[k].traits.id = k
  <2> DEFINE s == services[k]
             x == IF s.settings = 0 THEN 0 ELSE Len(maps) + At(k)
             t == IF s.traits = Nil THEN Nil ELSE [s.traits EXCEPT !.decoded = TRUE]
  <2>1. s \in Service /\ s.traits \in Traits \cup {Nil} /\ (s.traits # Nil => s.traits.id = k)
    BY <1>2, FileFields
  <2>2. services'[k] = [s EXCEPT !.settings = x, !.traits = t]
    BY <1>1 DEF DecodedService
  <2>3. x \in {0, Len(maps) + At(k)} /\ x \in 0 .. Len(maps') /\ x \in Nat
    <3> HIDE DEF At
    <3> QED BY <1>2, <1>4, <1>5, <1>7
  <2>4. t \in Traits \cup {Nil} /\ (t # Nil => t.id = k)
    BY <2>1 DEF Traits
  <2> HIDE DEF s, x, t, At
  <2> QED BY <2>1, <2>2, <2>3, <2>4 DEF Service
<1>9. DOMAIN services' = DOMAIN services /\ services' = [k \in DOMAIN services' |-> services'[k]]
  BY <1>1
<1>10. IsFile(services', Len(maps'))
  <2>1. services' \in [DOMAIN services' -> Service]
    BY <1>8, <1>9, Zenon
  <2> QED BY <1>2, <1>8, <1>9, <2>1 DEF IsFile
<1>11. Distinct(services')
  <2> SUFFICES ASSUME NEW k \in DOMAIN services, NEW l \in DOMAIN services,
                      services'[k].settings # 0, services'[k].settings = services'[l].settings
               PROVE  k = l
    BY <1>9 DEF Distinct
  <2>1. At(k) \in 1 .. L /\ order[At(k)] = k /\ At(l) \in 1 .. L /\ order[At(l)] = l
    BY <1>5
  <2>2. services'[k].settings = Len(maps) + At(k) /\ services'[l].settings = Len(maps) + At(l)
    BY <1>8
  <2> DEFINE a == At(k)
             b == At(l)
  <2>3. a \in 1 .. L /\ order[a] = k /\ b \in 1 .. L /\ order[b] = l /\ Len(maps) + a = Len(maps) + b
    BY <2>1, <2>2
  <2> HIDE DEF a, b
  <2>4. a = b
    BY <1>2, <1>4, <2>3
  <2> QED BY <2>3, <2>4
<1>12. \A d \in Design : AreComponents(design'[d], Len(maps'))
  <2>1. Len(maps') \in Nat /\ Len(maps) <= Len(maps')
    BY <1>2, <1>4, <1>7
  <2> QED BY <1>1, <1>2, <2>1, LaterMaps DEF Inv, TypeInv
<1>13. calls' \in 0 .. MaxCalls /\ accepts' = accepts /\ result'.call # "from"
  BY <1>1, CallBound DEF Inv
<1>14. TypeInv'
  BY <1>1, <1>7, <1>10, <1>12, <1>13 DEF TypeInv, Inv, AcceptsOK
<1> QED BY <1>11, <1>13, <1>14 DEF Inv, FileInv

LEMMA ConvertToInv ==
    ASSUME Inv, NEW d \in Design, ConvertTo(d)
    PROVE  Inv'
<1> DEFINE m == Written(design[d], services, maps)
<1>1. services' = m.services /\ maps' = m.maps /\ Call("to", d, m.status) /\ design' = design
  BY DEF ConvertTo
<1>2. Writing(m, services, maps)
  BY WrittenTypes DEF Inv, TypeInv
<1> HIDE DEF m
<1>3. IsStore(maps') /\ Len(maps') = Len(maps)
  BY <1>1, <1>2 DEF Writing
<1>4. services' = Nil \/ IsFile(services', Len(maps'))
  BY <1>1, <1>2, <1>3 DEF Writing
<1>5. calls' \in 0 .. MaxCalls /\ accepts' = accepts /\ result'.call # "from"
  BY <1>1, CallBound DEF Inv
<1>6. TypeInv'
  BY <1>1, <1>3, <1>4, <1>5 DEF Inv, TypeInv, AcceptsOK
<1>7. FileInv'
  <2>1. CASE services' = services
    BY <2>1 DEF Inv, FileInv, Stored
  <2>2. CASE services' # services
    <3>1. \E k \in DOMAIN services' : services'[k].traits # Nil /\ ~services'[k].traits.decoded
      BY <1>1, <1>2, <2>2 DEF Writing
    <3> QED BY <3>1 DEF FileInv, Stored
  <2> QED BY <2>1, <2>2
<1> QED BY <1>5, <1>6, <1>7 DEF Inv

(* What reading a file back into a design does to the state.               *)
LEMMA ConvertFromReads ==
    ASSUME IDsNeverRunOut, Inv, NEW d \in Design, ConvertFrom(d)
    PROVE  \E m, order :
               /\ services # Nil /\ Ranges(order, DOMAIN services)
               /\ Reading(m, design[d], services, maps, order, Len(order))
               /\ design' = [design EXCEPT ![d] = m.components]
               /\ services' = m.services /\ maps' = m.maps /\ Call("from", d, m.status)
<1>1. services # Nil /\ IsFile(services, Len(maps)) /\ IsFiniteSet(DOMAIN services)
  BY DEF ConvertFrom, Inv, TypeInv, IsFile
<1>2. PICK order \in SetToSeqs(DOMAIN services) :
          LET m == ReadBack(design[d], services, maps, order)
          IN  /\ design' = [design EXCEPT ![d] = m.components]
              /\ services' = m.services
              /\ maps' = m.maps
              /\ Call("from", d, m.status)
  BY DEF ConvertFrom
<1>3. Ranges(order, DOMAIN services)
  BY <1>1, Orders
<1>4. PICK g : /\ ReadBack(design[d], services, maps, order) = g[Len(order)]
               /\ \A n \in 0 .. Len(order) : Reading(g[n], design[d], services, maps, order, n)
  BY <1>1, <1>3, ReadAll DEF Inv, TypeInv
<1>5. Len(order) \in 0 .. Len(order)
  BY <1>3 DEF Ranges
<1>6. Reading(ReadBack(design[d], services, maps, order), design[d], services, maps, order, Len(order))
  BY <1>4, <1>5
<1> QED BY <1>1, <1>2, <1>3, <1>6

LEMMA ConvertFromInv ==
    ASSUME IDsNeverRunOut, Inv, NEW d \in Design, ConvertFrom(d)
    PROVE  Inv'
<1>1. PICK m, order :
          /\ services # Nil /\ Ranges(order, DOMAIN services)
          /\ Reading(m, design[d], services, maps, order, Len(order))
          /\ design' = [design EXCEPT ![d] = m.components]
          /\ services' = m.services /\ maps' = m.maps /\ Call("from", d, m.status)
  BY ConvertFromReads
<1>2. IsStore(maps') /\ Len(maps) <= Len(maps') /\ Len(maps) \in Nat /\ Len(maps') \in Nat
  BY <1>1 DEF Reading, IsStore, Inv, TypeInv
<1>3. DOMAIN services' = DOMAIN services /\ \A k \in DOMAIN services : Alike(services'[k], services[k])
  BY <1>1 DEF Reading
<1>4. IsFile(services', Len(maps'))
  BY <1>1, <1>2, LaterMaps DEF Reading
<1>5. AreComponents(m.components, Len(maps'))
  BY <1>1 DEF Reading
<1>6. ASSUME NEW e \in Design PROVE AreComponents(design'[e], Len(maps'))
  <2>1. AreComponents(design[e], Len(maps'))
    BY <1>2, LaterMaps DEF Inv, TypeInv
  <2> QED BY <1>1, <1>5, <2>1 DEF Inv, TypeInv
<1>7. design' \in [Design -> Seq(Component)]
  BY <1>1, <1>5 DEF AreComponents, Inv, TypeInv
<1>8. calls' \in 0 .. MaxCalls /\ accepts' = accepts /\ result'.status = m.status
  BY <1>1, CallBound DEF Inv
<1>9. TypeInv'
  BY <1>2, <1>4, <1>6, <1>7, <1>8 DEF Inv, TypeInv, AcceptsOK
<1>10. FileInv'
  <2> SUFFICES ASSUME Stored' PROVE Distinct(services')
    BY DEF FileInv
  <2>1. Stored
    <3> SUFFICES ASSUME NEW k \in DOMAIN services, services[k].traits # Nil PROVE services[k].traits.decoded
      BY <1>1 DEF Stored
    <3>1. Alike(services'[k], services[k])
      BY <1>3
    <3>2. services'[k].traits # Nil => services'[k].traits.decoded
      BY <1>3 DEF Stored
    <3> QED BY <3>1, <3>2 DEF Alike
  <2>2. Distinct(services)
    BY <2>1 DEF Inv, FileInv
  <2> QED BY <1>3, <2>2 DEF Distinct, Alike
<1> QED BY <1>9, <1>10 DEF Inv

LEMMA NextInv == IDsNeverRunOut /\ Inv /\ [Next]_vars => Inv'
<1> SUFFICES ASSUME IDsNeverRunOut, Inv, [Next]_vars PROVE Inv'
  OBVIOUS
<1>1. ASSUME NEW d \in Design, OpenDesign(d) PROVE Inv'
  BY <1>1, OpenDesignInv
<1>2. CASE NewFile \/ \E d \in Design : NewDesign(d)
  BY <1>2, NewInv
<1>3. ASSUME NEW d \in Design, ReopenDesign(d) PROVE Inv'
  BY <1>3, ReopenDesignInv
<1>4. ASSUME NEW d \in Design, ConvertTo(d) PROVE Inv'
  BY <1>4, ConvertToInv
<1>5. ASSUME NEW d \in Design, ConvertFrom(d) PROVE Inv'
  BY <1>5, ConvertFromInv
<1>6. CASE OpenFile
  BY <1>6, OpenFileInv
<1>7. CASE ReopenFile
  BY <1>7, ReopenFileInv
<1>8. CASE UNCHANGED vars
  BY <1>8 DEF vars, Inv, TypeInv, FileInv, Stored, AcceptsOK
<1> QED BY <1>1, <1>2, <1>3, <1>4, <1>5, <1>6, <1>7, <1>8 DEF Next

LEMMA Invariance == IDsNeverRunOut => (Spec => []Inv)
<1> SUFFICES ASSUME IDsNeverRunOut PROVE Spec => []Inv
  OBVIOUS
<1>1. Inv /\ [Next]_vars => Inv'
  BY NextInv
<1> QED BY <1>1, InitInv, PTL DEF Spec

-----------------------------------------------------------------------------
(* The results. *)

LEMMA InvTypes == Inv => TypeOK
<1> SUFFICES ASSUME Inv PROVE TypeOK
  OBVIOUS
<1>1. ASSUME NEW d \in Design, NEW c \in ToSet(design[d]) PROVE c.config \in 0 .. Len(maps)
  BY <1>1 DEF Inv, TypeInv, AreComponents, ToSet
<1>2. services = Nil \/ (DOMAIN services \subseteq ID /\ services \in [DOMAIN services -> Service])
  BY DEF Inv, TypeInv, IsFile
<1>3. ASSUME services # Nil, NEW k \in DOMAIN services PROVE services[k].settings \in 0 .. Len(maps)
  BY <1>3, FileFields DEF Inv, TypeInv
<1>4. References \subseteq 0 .. Len(maps)
  BY <1>1, <1>3 DEF References
<1> QED BY <1>2, <1>4 DEF TypeOK, Inv, TypeInv, IsStore

(* Every variable keeps its shape, and every component and service refers  *)
(* to a configuration map that exists, whatever is opened, converted in    *)
(* either direction, also when a conversion stops half way, and saved.     *)
THEOREM TypesStay == IDsNeverRunOut => (Spec => []TypeOK)
<1> SUFFICES ASSUME IDsNeverRunOut PROVE Spec => []TypeOK
  OBVIOUS
<1> QED BY Invariance, InvTypes, PTL

(* A file that was read back without an error gave the design one          *)
(* component for each of its services, and each service with traits gave   *)
(* it a component with the id it was written with.                         *)
THEOREM IdentitiesAreKept == IDsNeverRunOut => (Spec => IdentityKept)
<1> SUFFICES ASSUME IDsNeverRunOut PROVE Spec => IdentityKept
  OBVIOUS
<1>1. Inv /\ [Next]_vars => IdentityStep
  <2> SUFFICES ASSUME Inv, [Next]_vars, NEW d \in Design, result'.call = "from", result'.of = d,
                      result'.status = "ok", calls' # calls
               PROVE  /\ TraitIDs(services) \subseteq IDsOf(design'[d])
                      /\ Len(design'[d]) = Len(design[d]) + Cardinality(DOMAIN services)
    BY DEF IdentityStep
  <2>1. ConvertFrom(d)
    <3>0. ASSUME NEW call, NEW of, NEW status, Call(call, of, status) PROVE call = "from" /\ of = d
      BY <3>0 DEF Call, Result
    <3>1. ASSUME NEW e \in Design, OpenDesign(e) \/ NewDesign(e) \/ ReopenDesign(e) \/ ConvertTo(e) PROVE FALSE
      <4>1. CASE OpenDesign(e)
        BY <3>0, <4>1 DEF OpenDesign
      <4>2. CASE NewDesign(e)
        BY <3>0, <4>2 DEF NewDesign
      <4>3. CASE ReopenDesign(e)
        BY <3>0, <4>3 DEF ReopenDesign
      <4>4. CASE ConvertTo(e)
        BY <3>0, <4>4 DEF ConvertTo
      <4> QED BY <3>1, <4>1, <4>2, <4>3, <4>4
    <3>2. CASE OpenFile \/ NewFile \/ ReopenFile
      BY <3>0, <3>2 DEF OpenFile, NewFile, ReopenFile
    <3>3. ASSUME NEW e \in Design, ConvertFrom(e) PROVE e = d
      BY <3>0, <3>3 DEF ConvertFrom
    <3>4. CASE UNCHANGED vars
      BY <3>4 DEF vars
    <3> QED BY <3>1, <3>2, <3>3, <3>4 DEF Next
  <2>2. PICK m, order :
            /\ services # Nil /\ Ranges(order, DOMAIN services)
            /\ Reading(m, design[d], services, maps, order, Len(order))
            /\ design' = [design EXCEPT ![d] = m.components]
            /\ services' = m.services /\ maps' = m.maps /\ Call("from", d, m.status)
    BY <2>1, ConvertFromReads
  <2>3. m.status = "ok" /\ design'[d] = m.components
    <3>1. result'.status = m.status
      BY <2>2 DEF Call, Result
    <3>2. design'[d] = m.components
      BY <2>2 DEF Inv, TypeInv
    <3> QED BY <3>1, <3>2
  <2>4. Len(design'[d]) = Len(design[d]) + Len(order)
        /\ \A j \in 1 .. Len(order) : Became(design'[d][Len(design[d]) + j], services, order[j])
    BY <2>2, <2>3 DEF Reading
  <2>5. Len(order) = Cardinality(DOMAIN services) /\ Len(order) \in Nat /\ DOMAIN order = 1 .. Len(order)
    BY <2>2 DEF Ranges
  <2>6. design'[d] \in Seq(Component) /\ design[d] \in Seq(Component)
    BY <2>2, <2>3 DEF Reading, AreComponents, Inv, TypeInv
  <2>7. ASSUME NEW k \in DOMAIN services, services[k].traits # Nil
        PROVE  services[k].traits.id \in IDsOf(design'[d])
    <3>1. PICK j \in 1 .. Len(order) : order[j] = k
      BY <2>2, <2>5 DEF Ranges
    <3> DEFINE i == Len(design[d]) + j
    <3>2. design'[d][i].id = k
      BY <2>4, <2>7, <3>1 DEF Became
    <3>3. i \in DOMAIN design'[d]
      BY <2>4, <2>5, <2>6
    <3>4. services[k].traits.id = k
      BY <2>2, <2>7, FileFields DEF Inv, TypeInv
    <3> QED BY <3>2, <3>3, <3>4 DEF IDsOf, ToSet
  <2> QED BY <2>4, <2>5, <2>7 DEF TraitIDs
<1> QED BY <1>1, Invariance, PTL DEF Spec, IdentityKept

-----------------------------------------------------------------------------
(* The labels of a design that is converted.                               *)

(* The j-th component's service has the labels that its map k had.         *)
Moved(m, components, store, k, j) ==
    /\ components[j].config = k
    /\ m.services # Nil /\ components[j].id \in DOMAIN m.services
    /\ m.services[components[j].id].settings = k
    /\ m.services[components[j].id].labels = store[k].labels
    /\ m.services[components[j].id].namespace = store[k].namespace

(* All of the first n components' labels have moved, or those of all but   *)
(* the one that the conversion stopped at.                                 *)
LabelsWritten(m, components, store, n) ==
    \E stop \in 0 .. Len(store) :
        /\ m.status = "ok" => stop = 0
        /\ \A k \in 1 .. Len(store) :
               k # stop /\ m.maps[k] # store[k] => \E j \in 1 .. n : Moved(m, components, store, k, j)

LEMMA LabelsOfOne ==
    ASSUME NEW store, IsStore(store), NEW components, AreComponents(components, Len(store)), Unshared(components),
           NEW n \in 1 .. Len(components), NEW file, NEW m,
           Writing(m, file, store), Writing(WriteComponent(m, components[n]), file, store),
           LabelsWritten(m, components, store, n - 1)
    PROVE  LabelsWritten(WriteComponent(m, components[n]), components, store, n)
<1> DEFINE new == WriteComponent(m, components[n])
<1>1. /\ n \in Nat /\ Len(components) \in Nat /\ DOMAIN components = 1 .. Len(components) /\ Len(store) \in Nat
      /\ 1 .. n - 1 \subseteq 1 .. n /\ n \in 1 .. n /\ n \in DOMAIN components
      /\ \A j \in 1 .. n - 1 : j \in DOMAIN components /\ j # n
  BY DEF AreComponents, IsStore
<1>2. m = [services |-> m.services, maps |-> m.maps, status |-> m.status]
      /\ IsStore(m.maps) /\ Len(m.maps) = Len(store)
  BY DEF Writing
<1>3. PICK c : c = components[n]
  OBVIOUS
<1>4. c.config \in 0 .. Len(store)
  BY <1>1, <1>3 DEF AreComponents
<1>5. PICK stop \in 0 .. Len(store) :
          /\ m.status = "ok" => stop = 0
          /\ \A k \in 1 .. Len(store) :
                 k # stop /\ m.maps[k] # store[k] => \E j \in 1 .. n - 1 : Moved(m, components, store, k, j)
  BY DEF LabelsWritten
<1>6. \/ m.status # "ok" /\ new = m
      \/ /\ m.status = "ok"
         /\ \E left \in {m.maps, Strip(m.maps, c.config)}, why \in {"error", "panic"} :
                new = [services |-> m.services, maps |-> left, status |-> why]
      \/ /\ m.status = "ok" /\ m.services # Nil /\ c.config # 0
         /\ new = [services |-> With(m.services, c, ServiceOf(c, Entries(c, m.maps))),
                   maps |-> Strip(m.maps, c.config), status |-> "ok"]
  <2> HIDE DEF new
  <2> QED BY <1>2, <1>3, WriteCases DEF new
<1> HIDE DEF new
<1>7. CASE m.status # "ok" /\ new = m
  BY <1>1, <1>5, <1>7 DEF LabelsWritten, new
<1>8. CASE /\ m.status = "ok"
           /\ \E left \in {m.maps, Strip(m.maps, c.config)}, why \in {"error", "panic"} :
                  new = [services |-> m.services, maps |-> left, status |-> why]
  <2>1. PICK left \in {m.maps, Strip(m.maps, c.config)}, why \in {"error", "panic"} :
                new = [services |-> m.services, maps |-> left, status |-> why]
    BY <1>8
  <2>2. new.services = m.services /\ new.maps = left /\ new.status # "ok"
    BY <2>1
  <2>3. \A k \in 1 .. Len(store) : k # c.config => left[k] = m.maps[k]
    BY <1>2, StripTypes
  <2>4. ASSUME NEW k \in 1 .. Len(store), k # c.config, new.maps[k] # store[k]
        PROVE  \E j \in 1 .. n : Moved(new, components, store, k, j)
    <3>1. k # stop /\ m.maps[k] # store[k]
      BY <1>5, <1>8, <2>2, <2>3, <2>4
    <3>2. PICK j \in 1 .. n - 1 : Moved(m, components, store, k, j)
      BY <1>5, <3>1
    <3>3. Moved(new, components, store, k, j)
      BY <2>2, <3>2 DEF Moved
    <3> QED BY <1>1, <3>3
  <2> QED BY <1>4, <2>2, <2>4 DEF LabelsWritten, new
<1>9. CASE /\ m.status = "ok" /\ m.services # Nil /\ c.config # 0
           /\ new = [services |-> With(m.services, c, ServiceOf(c, Entries(c, m.maps))),
                     maps |-> Strip(m.maps, c.config), status |-> "ok"]
  <2>1. PICK s : s = ServiceOf(c, Entries(c, m.maps))
    OBVIOUS
  <2>2. new.services = With(m.services, c, s) /\ new.maps = Strip(m.maps, c.config) /\ new.status = "ok"
    BY <1>9, <2>1
  <2>3. DOMAIN new.services = DOMAIN m.services \cup {c.id}
        /\ \A k \in DOMAIN new.services : new.services[k] = IF k = c.id THEN s ELSE m.services[k]
    BY <2>2 DEF With
  <2>4. new.services # Nil
    BY <1>9 DEF Writing, new
  <2>5. s.settings = c.config /\ s.labels = Entries(c, m.maps).labels /\ s.namespace = Entries(c, m.maps).namespace
    BY <2>1 DEF ServiceOf
  <2>6. ASSUME NEW k \in 1 .. Len(store), new.maps[k] # store[k]
        PROVE  \E j \in 1 .. n : Moved(new, components, store, k, j)
    <3>1. CASE k = c.config
      <4>1. m.maps[k] = store[k]
        <5> SUFFICES ASSUME m.maps[k] # store[k] PROVE FALSE
          OBVIOUS
        <5>1. PICK j \in 1 .. n - 1 : Moved(m, components, store, k, j)
          BY <1>5, <1>9
        <5>2. components[j].config = components[n].config /\ components[n].config # 0 /\ j # n
          BY <1>1, <1>3, <1>9, <3>1, <5>1 DEF Moved
        <5> QED BY <1>1, <5>2 DEF Unshared
      <4>2. k \in DOMAIN m.maps
        BY <1>2 DEF IsStore
      <4>3. new.maps[k] = IF m.maps[k] = Nil THEN Nil ELSE NoEntries
        BY <2>2, <3>1, <4>2 DEF Strip
      <4>4. Entries(c, m.maps) = store[k]
        BY <1>9, <2>6, <3>1, <4>1, <4>3 DEF Entries
      <4>5. Moved(new, components, store, k, n)
        BY <1>3, <2>3, <2>4, <2>5, <3>1, <4>4 DEF Moved
      <4> QED BY <1>1, <4>5
    <3>2. CASE k # c.config
      <4>1. m.maps[k] # store[k] /\ k # stop
        BY <1>2, <1>5, <1>9, <2>2, <2>6, <3>2, StripTypes
      <4>2. PICK j \in 1 .. n - 1 : Moved(m, components, store, k, j)
        BY <1>5, <4>1
      <4>3. components[j].id # c.id
        BY <1>1, <1>3 DEF Unshared
      <4>4. Moved(new, components, store, k, j)
        BY <2>3, <2>4, <4>2, <4>3 DEF Moved
      <4> QED BY <1>1, <4>4
    <3> QED BY <3>1, <3>2
  <2>7. 0 \in 0 .. Len(store)
    BY <1>1
  <2> QED BY <2>2, <2>6, <2>7 DEF LabelsWritten, new
<1> QED BY <1>6, <1>7, <1>8, <1>9

LEMMA LabelsOfAll ==
    ASSUME AcceptsOK, NEW store, IsStore(store), NEW file, file = Nil \/ IsFile(file, Len(store)),
           NEW components, AreComponents(components, Len(store)), Unshared(components)
    PROVE  LabelsWritten(Written(components, file, store), components, store, Len(components))
<1> DEFINE L == Len(components)
<1>1. components \in Seq(Component) /\ L \in Nat /\ DOMAIN components = 1 .. L /\ Len(store) \in Nat
  BY DEF AreComponents, IsStore
<1>2. PICK m : /\ m[0] = [services |-> file, maps |-> store, status |-> "ok"]
               /\ \A n \in 1 .. L : m[n] = WriteComponent(m[n - 1], components[n])
               /\ Written(components, file, store) = m[L]
  BY <1>1, WrittenSteps
<1> DEFINE T == {n \in 0 .. L : Writing(m[n], file, store) /\ LabelsWritten(m[n], components, store, n)}
<1>3. 0 \in T
  <2>1. file # Nil => IsFile(file, Len(store))
    OBVIOUS
  <2>2. m[0].services = file /\ m[0].maps = store /\ m[0].status = "ok"
    BY <1>2
  <2>3. Writing(m[0], file, store)
    BY <1>2, <2>1, <2>2 DEF Writing
  <2>4. 0 \in 0 .. Len(store)
    BY <1>1
  <2>5. LabelsWritten(m[0], components, store, 0)
    BY <2>2, <2>4 DEF LabelsWritten
  <2> QED BY <1>1, <2>3, <2>5
<1>4. ASSUME NEW n \in 1 .. L, n - 1 \in T PROVE n \in T
  <2>1. components[n] \in Component /\ components[n].config \in 0 .. Len(store)
    BY <1>1 DEF AreComponents
  <2>2. Writing(m[n - 1], file, store) /\ LabelsWritten(m[n - 1], components, store, n - 1)
    BY <1>4
  <2>3. m[n] = WriteComponent(m[n - 1], components[n]) /\ n \in 0 .. L
    BY <1>1, <1>2
  <2> HIDE DEF L
  <2>4. Writing(m[n], file, store)
    BY <2>1, <2>2, <2>3, WriteKeepsTypes
  <2>5. LabelsWritten(m[n], components, store, n)
    BY <2>2, <2>3, <2>4, LabelsOfOne DEF L
  <2> QED BY <2>3, <2>4, <2>5
<1>5. T = 0 .. L
  <2> HIDE DEF T
  <2>1. T \in SUBSET (0 .. L)
    BY DEF T
  <2> QED BY <1>1, <1>3, <1>4, <2>1, UpTo
<1>6. L \in T
  BY <1>1, <1>5
<1> QED BY <1>2, <1>6

(* A conversion to the legacy format takes the labels out of the design's  *)
(* maps (convertToSettings).  Whatever the design, the file and the maps   *)
(* that others share, one that succeeds leaves each map's labels in the    *)
(* service that holds the map, and one that stops loses those of one map   *)
(* at most.                                                                *)
THEOREM LabelsMove == IDsNeverRunOut => (Spec => LabelsKept)
<1> SUFFICES ASSUME IDsNeverRunOut PROVE Spec => LabelsKept
  OBVIOUS
<1>1. Inv /\ [Next]_vars => [LabelsStep]_vars
  <2> SUFFICES ASSUME Inv, [Next]_vars, NEW d \in Design, result'.call = "to", result'.of = d,
                      calls' # calls, Unshared(design[d])
               PROVE  Cardinality({n \in DOMAIN maps : maps'[n] # maps[n] /\ ~LabelsMoved(n)})
                          <= IF result'.status = "ok" THEN 0 ELSE 1
    BY DEF LabelsStep
  <2>1. ConvertTo(d)
    <3>0. ASSUME NEW call, NEW of, NEW status, Call(call, of, status) PROVE call = "to" /\ of = d
      BY <3>0 DEF Call, Result
    <3>1. ASSUME NEW e \in Design, OpenDesign(e) \/ NewDesign(e) \/ ReopenDesign(e) \/ ConvertFrom(e) PROVE FALSE
      <4>1. CASE OpenDesign(e)
        BY <3>0, <4>1 DEF OpenDesign
      <4>2. CASE NewDesign(e)
        BY <3>0, <4>2 DEF NewDesign
      <4>3. CASE ReopenDesign(e)
        BY <3>0, <4>3 DEF ReopenDesign
      <4>4. CASE ConvertFrom(e)
        BY <3>0, <4>4 DEF ConvertFrom
      <4> QED BY <3>1, <4>1, <4>2, <4>3, <4>4
    <3>2. CASE OpenFile \/ NewFile \/ ReopenFile
      BY <3>0, <3>2 DEF OpenFile, NewFile, ReopenFile
    <3>3. ASSUME NEW e \in Design, ConvertTo(e) PROVE e = d
      BY <3>0, <3>3 DEF ConvertTo
    <3>4. CASE UNCHANGED vars
      BY <3>4 DEF vars
    <3> QED BY <3>1, <3>2, <3>3, <3>4 DEF Next
  <2>2. PICK m : m = Written(design[d], services, maps)
    OBVIOUS
  <2>3. services' = m.services /\ maps' = m.maps /\ result'.status = m.status
    BY <2>1, <2>2 DEF ConvertTo, Call, Result
  <2>4. LabelsWritten(m, design[d], maps, Len(design[d]))
    BY <2>2, LabelsOfAll DEF Inv, TypeInv
  <2>5. PICK stop \in 0 .. Len(maps) :
            /\ m.status = "ok" => stop = 0
            /\ \A k \in 1 .. Len(maps) :
                   k # stop /\ m.maps[k] # maps[k] => \E j \in 1 .. Len(design[d]) : Moved(m, design[d], maps, k, j)
    BY <2>4 DEF LabelsWritten
  <2>6. PICK lost : lost = {n \in DOMAIN maps : maps'[n] # maps[n] /\ ~LabelsMoved(n)}
    OBVIOUS
  <2>7. DOMAIN maps = 1 .. Len(maps) /\ Len(maps) \in Nat
    BY DEF Inv, TypeInv, IsStore
  <2>8. ASSUME NEW k \in lost PROVE k = stop /\ k # 0
    <3>1. k \in 1 .. Len(maps) /\ m.maps[k] # maps[k] /\ ~LabelsMoved(k)
      BY <2>3, <2>6, <2>7
    <3>2. ASSUME k # stop PROVE FALSE
      <4>1. PICK j \in 1 .. Len(design[d]) : Moved(m, design[d], maps, k, j)
        BY <2>5, <3>1, <3>2
      <4> QED BY <2>3, <3>1, <4>1 DEF Moved, LabelsMoved
    <3> QED BY <2>7, <3>1, <3>2
  <2>9. lost = {} \/ (lost = {stop} /\ m.status # "ok")
    BY <2>5, <2>8
  <2>10. Cardinality({}) = 0 /\ Cardinality({stop}) = 1
    BY FS_EmptySet, FS_Singleton
  <2>11. Cardinality(lost) <= IF result'.status = "ok" THEN 0 ELSE 1
    <3>1. CASE lost = {}
      <4>1. Cardinality(lost) = 0
        BY <2>10, <3>1
      <4> QED BY <4>1
    <3>2. CASE lost = {stop} /\ m.status # "ok"
      <4>1. Cardinality(lost) = 1 /\ result'.status # "ok"
        BY <2>3, <2>10, <3>2
      <4> QED BY <4>1
    <3> QED BY <2>9, <3>1, <3>2
  <2> QED BY <2>6, <2>11, Zenon
<1> QED BY <1>1, Invariance, PTL DEF Spec, LabelsKept

-----------------------------------------------------------------------------
(* The round trip.  Reading gives each service a configuration map of its  *)
(* own that holds the service's entries, ...                               *)

Keeping(m, file, store, order, n) ==
    m.status = "ok" =>
        /\ Len(m.components) = n
        /\ \A j \in 1 .. n :
               LET c == m.components[j]
                   s == file[order[j]]
               IN  /\ c.config \in 1 .. Len(m.maps)
                   /\ m.maps[c.config] = [labels |-> s.labels, namespace |-> s.namespace]
                   /\ s.settings # 0 => c.config = s.settings
                   /\ s.settings = 0 => c.config > Len(store)
        /\ \A i, j \in 1 .. n : m.components[i].config = m.components[j].config => i = j

LEMMA ReadOk ==
    ASSUME NEW k, NEW s, NEW m, m.services[k] = s,
           m = [components |-> m.components, services |-> m.services, maps |-> m.maps, status |-> m.status],
           NEW new, new = ReadService(m, k), new.status = "ok"
    PROVE  /\ m.status = "ok" /\ new.maps = Taken(s, m.maps)
           /\ new.components = Append(m.components, ComponentOf(s, ConfigOf(s, m.maps), Unused(m)))
<1>1. m = [components |-> m.components, services |-> m.services, maps |-> m.maps, status |-> m.status]
  OBVIOUS
<1>2. \/ m.status # "ok" /\ new = m
      \/ /\ m.status = "ok" /\ Refused(m.services[k])
         /\ new = [components |-> m.components, services |-> m.services,
                   maps |-> Taken(m.services[k], m.maps), status |-> "error"]
      \/ /\ m.status = "ok" /\ ~Refused(m.services[k]) /\ ~StylesAllocated
         /\ new = [components |-> m.components, services |-> Untraited(m.services, k),
                   maps |-> Taken(m.services[k], m.maps), status |-> "panic"]
      \/ /\ m.status = "ok" /\ ~Refused(m.services[k]) /\ StylesAllocated
         /\ new = [components |-> Append(m.components,
                       ComponentOf(m.services[k], ConfigOf(m.services[k], m.maps), Unused(m))),
                   services |-> Untraited(m.services, k), maps |-> Taken(m.services[k], m.maps), status |-> "ok"]
  BY <1>1, ReadCases
<1>4. /\ m.status = "ok"
      /\ new = [components |-> Append(m.components,
                    ComponentOf(m.services[k], ConfigOf(m.services[k], m.maps), Unused(m))),
                services |-> Untraited(m.services, k), maps |-> Taken(m.services[k], m.maps), status |-> "ok"]
  BY <1>2
<1>5. /\ new.components = Append(m.components, ComponentOf(s, ConfigOf(s, m.maps), Unused(m)))
      /\ new.maps = Taken(s, m.maps)
  BY <1>4
<1> QED BY <1>4, <1>5

LEMMA KeepOne ==
    ASSUME IDsNeverRunOut, design \in [Design -> Seq(Component)],
           NEW cs \in Seq(Component), NEW store, IsStore(store),
           NEW file, IsFile(file, Len(store)), Distinct(file),
           NEW order, Ranges(order, DOMAIN file), NEW n \in 1 .. Len(order),
           NEW m, Reading(m, cs, file, store, order, n - 1), Keeping(m, file, store, order, n - 1)
    PROVE  Keeping(ReadService(m, order[n]), file, store, order, n)
<1>0. /\ order[n] \in DOMAIN file /\ m.services[order[n]] = file[order[n]]
      /\ ConfigOf(file[order[n]], m.maps) \in 1 .. Len(m.maps) + 1
      /\ [labels |-> file[order[n]].labels, namespace |-> file[order[n]].namespace] \in Metadata
      /\ Unused(m) \in ID /\ Unused(m) \notin TraitIDs(file)
      /\ IsFile(Untraited(m.services, order[n]), Len(store))
      /\ DOMAIN Untraited(m.services, order[n]) = DOMAIN file
      /\ \A k \in DOMAIN file : Alike(Untraited(m.services, order[n])[k], file[k])
      /\ \A j \in n + 1 .. Len(order) : Untraited(m.services, order[n])[order[j]] = file[order[j]]
  BY ReadOne
<1> DEFINE k == order[n]
           s == file[k]
           new == ReadService(m, k)
           N == ConfigOf(s, m.maps)
           c == ComponentOf(s, N, Unused(m))
           entries == [labels |-> s.labels, namespace |-> s.namespace]
<1> SUFFICES ASSUME new.status = "ok" PROVE Keeping(new, file, store, order, n)
  BY DEF Keeping
<1>1. k \in DOMAIN file /\ m.services[k] = s /\ N \in 1 .. Len(m.maps) + 1 /\ entries \in Metadata
  BY <1>0
<1>2. /\ m.status = "ok" /\ new.components = Append(m.components, c) /\ new.maps = Put(m.maps, N, entries)
  <2>1. /\ m.status = "ok"
        /\ ReadService(m, order[n]).components =
               Append(m.components, ComponentOf(file[order[n]], ConfigOf(file[order[n]], m.maps), Unused(m)))
        /\ ReadService(m, order[n]).maps = Taken(file[order[n]], m.maps)
    <3>1. m.services[order[n]] = file[order[n]]
      BY <1>0
    <3>2. m = [components |-> m.components, services |-> m.services, maps |-> m.maps, status |-> m.status]
      BY DEF Reading
    <3>3. new.status = "ok" /\ new = ReadService(m, order[n])
      OBVIOUS
    <3> HIDE DEF new
    <3>4. /\ m.status = "ok" /\ new.maps = Taken(file[order[n]], m.maps)
          /\ new.components = Append(m.components,
                 ComponentOf(file[order[n]], ConfigOf(file[order[n]], m.maps), Unused(m)))
      BY ONLY <3>1, <3>2, <3>3, ReadOk
    <3> QED BY <3>3, <3>4
  <2> QED BY <2>1 DEF Taken
<1>3. /\ n \in Nat /\ Len(order) \in Nat /\ Len(store) \in Nat /\ Len(m.maps) \in Nat
      /\ Len(store) <= Len(m.maps) /\ IsStore(m.maps) /\ DOMAIN order = 1 .. Len(order)
      /\ m.components \in Seq(Component)
  BY DEF Reading, IsStore, Ranges, AreComponents
<1>4. c.config = N
  BY DEF ComponentOf
<1> HIDE DEF new, N, c, entries
<1>5. Len(m.components) = n - 1
  BY <1>2 DEF Keeping
<1>6. /\ Len(new.components) = n /\ new.components[n] = c
      /\ \A j \in 1 .. n - 1 : new.components[j] = m.components[j]
  BY <1>2, <1>3, <1>5
<1>7. /\ Len(m.maps) <= Len(new.maps) /\ N \in 1 .. Len(new.maps) /\ new.maps[N] = entries
      /\ \A i \in 1 .. Len(m.maps) : i # N => new.maps[i] = m.maps[i]
  <2>1. /\ Len(Put(m.maps, N, entries)) \in {Len(m.maps), Len(m.maps) + 1}
        /\ N <= Len(Put(m.maps, N, entries)) /\ Put(m.maps, N, entries)[N] = entries
        /\ \A i \in 1 .. Len(m.maps) : i # N => Put(m.maps, N, entries)[i] = m.maps[i]
    BY <1>1, <1>3, PutTypes
  <2> QED BY <1>1, <1>2, <1>3, <2>1
<1>8. ASSUME NEW j \in 1 .. n - 1
      PROVE  /\ m.components[j].config \in 1 .. Len(m.maps)
             /\ m.maps[m.components[j].config] =
                    [labels |-> file[order[j]].labels, namespace |-> file[order[j]].namespace]
             /\ file[order[j]].settings # 0 => m.components[j].config = file[order[j]].settings
             /\ file[order[j]].settings = 0 => m.components[j].config > Len(store)
  BY <1>2 DEF Keeping
<1>9. /\ s.settings # 0 => N = s.settings
      /\ s.settings = 0 => N = Len(m.maps) + 1
      /\ s.settings \in 0 .. Len(store)
  BY <1>1, FileFields DEF N, ConfigOf
<1>10. ASSUME NEW j \in 1 .. n - 1 PROVE m.components[j].config # N
  <2> DEFINE o == m.components[j].config
  <2> SUFFICES o # N
    OBVIOUS
  <2>1. o \in 1 .. Len(m.maps)
    BY <1>8
  <2>2. CASE s.settings = 0
    <3> HIDE DEF o
    <3> QED BY <1>3, <1>9, <2>1, <2>2
  <2>3. CASE s.settings # 0 /\ file[order[j]].settings = 0
    <3>1. o > Len(store)
      BY <1>8, <2>3
    <3> HIDE DEF o
    <3> QED BY <1>3, <1>9, <2>1, <2>3, <3>1
  <2>4. CASE s.settings # 0 /\ file[order[j]].settings # 0
    <3>1. o = file[order[j]].settings /\ N = s.settings
      BY <1>8, <1>9, <2>4
    <3>2. j \in DOMAIN order /\ n \in DOMAIN order /\ j # n
      BY <1>3
    <3>3. order[j] # k /\ order[j] \in DOMAIN file
      BY <1>3, <3>2 DEF Ranges
    <3>4. file[order[j]].settings # s.settings
      BY <1>1, <2>4, <3>3 DEF Distinct
    <3> QED BY <3>1, <3>4
  <2> QED BY <2>2, <2>3, <2>4
<1>11. ASSUME NEW j \in 1 .. n
       PROVE  /\ new.components[j].config \in 1 .. Len(new.maps)
              /\ new.maps[new.components[j].config] =
                     [labels |-> file[order[j]].labels, namespace |-> file[order[j]].namespace]
              /\ file[order[j]].settings # 0 => new.components[j].config = file[order[j]].settings
              /\ file[order[j]].settings = 0 => new.components[j].config > Len(store)
  <2>1. CASE j = n
    <3>1. new.components[j].config = N /\ file[order[j]] = s
      BY <1>4, <1>6, <2>1
    <3>2. s.settings = 0 => N > Len(store)
      BY <1>3, <1>9
    <3> QED BY <1>7, <1>9, <3>1, <3>2 DEF entries
  <2>2. CASE j # n
    <3>1. j \in 1 .. n - 1
      BY <1>3, <2>2
    <3> DEFINE o == m.components[j].config
    <3>2. new.components[j].config = o /\ o \in 1 .. Len(m.maps) /\ o # N
      BY <1>6, <1>8, <1>10, <3>1
    <3>3. /\ m.maps[o] = [labels |-> file[order[j]].labels, namespace |-> file[order[j]].namespace]
          /\ file[order[j]].settings # 0 => o = file[order[j]].settings
          /\ file[order[j]].settings = 0 => o > Len(store)
      BY <1>8, <3>1
    <3> HIDE DEF o
    <3>4. new.maps[o] = m.maps[o] /\ o \in 1 .. Len(new.maps)
      <4>1. Len(new.maps) \in Nat
        BY <1>1, <1>2, <1>3, PutTypes DEF IsStore
      <4> QED BY <1>3, <1>7, <3>2, <4>1
    <3> QED BY <3>2, <3>3, <3>4
  <2> QED BY <2>1, <2>2
<1>12. ASSUME NEW i \in 1 .. n, NEW j \in 1 .. n, new.components[i].config = new.components[j].config
       PROVE  i = j
  <2> SUFFICES ASSUME i # j PROVE FALSE
    OBVIOUS
  <2>1. CASE i = n
    <3>1. j \in 1 .. n - 1
      BY <1>3, <2>1
    <3> QED BY <1>4, <1>6, <1>10, <1>12, <2>1, <3>1
  <2>2. CASE j = n
    <3>1. i \in 1 .. n - 1
      BY <1>3, <2>2
    <3> QED BY <1>4, <1>6, <1>10, <1>12, <2>2, <3>1
  <2>3. CASE i # n /\ j # n
    <3>1. i \in 1 .. n - 1 /\ j \in 1 .. n - 1
      BY <1>3, <2>3
    <3>2. m.components[i].config = m.components[j].config
      BY <1>6, <1>12, <3>1
    <3> QED BY <1>2, <3>1, <3>2 DEF Keeping
  <2> QED BY <2>1, <2>2, <2>3
<1> QED BY <1>6, <1>11, <1>12 DEF Keeping

LEMMA KeepAll ==
    ASSUME IDsNeverRunOut, design \in [Design -> Seq(Component)],
           NEW store, IsStore(store), NEW file, IsFile(file, Len(store)), Distinct(file),
           NEW order, Ranges(order, DOMAIN file)
    PROVE  /\ Reading(ReadBack(<<>>, file, store, order), <<>>, file, store, order, Len(order))
           /\ Keeping(ReadBack(<<>>, file, store, order), file, store, order, Len(order))
<1> DEFINE L == Len(order)
           cs == <<>>
<1>1. L \in Nat /\ cs \in Seq(Component) /\ Len(cs) = 0 /\ AreComponents(cs, Len(store))
  BY DEF Ranges, AreComponents
<1> HIDE DEF cs
<1>2. PICK m : /\ m[0] = [components |-> cs, services |-> file, maps |-> store, status |-> "ok"]
               /\ \A n \in 1 .. L : m[n] = ReadService(m[n - 1], order[n])
               /\ ReadBack(cs, file, store, order) = m[L]
               /\ \A n \in 0 .. L : Reading(m[n], cs, file, store, order, n)
  BY <1>1, ReadAll
<1> DEFINE T == {n \in 0 .. L : Keeping(m[n], file, store, order, n)}
<1>3. 0 \in T
  <2>1. m[0].components = cs
    BY <1>2
  <2>2. Keeping(m[0], file, store, order, 0)
    BY <1>1, <2>1 DEF Keeping
  <2> QED BY <1>1, <2>2
<1>4. ASSUME NEW n \in 1 .. L, n - 1 \in T PROVE n \in T
  <2>1. n - 1 \in 0 .. L /\ n \in 0 .. L /\ n \in 1 .. Len(order)
    BY <1>1
  <2>2. Reading(m[n - 1], cs, file, store, order, n - 1) /\ Keeping(m[n - 1], file, store, order, n - 1)
    BY <1>2, <1>4, <2>1
  <2>3. m[n] = ReadService(m[n - 1], order[n])
    BY <1>2
  <2> HIDE DEF L
  <2>4. Keeping(m[n], file, store, order, n)
    BY <1>1, <2>1, <2>2, <2>3, KeepOne
  <2> QED BY <2>1, <2>4
<1>5. T = 0 .. L
  <2> HIDE DEF T
  <2>1. T \in SUBSET (0 .. L)
    BY DEF T
  <2> QED BY <1>1, <1>3, <1>4, <2>1, UpTo
<1>6. L \in T /\ L \in 0 .. L
  BY <1>1, <1>5
<1>7. Reading(m[L], cs, file, store, order, L) /\ Keeping(m[L], file, store, order, L)
  BY <1>2, <1>6
<1> QED BY <1>2, <1>7 DEF cs

(* ... and writing finds them there, since no other component was given    *)
(* the same map, and writes them under the component's id.                 *)

Writable(c, store) ==
    /\ c.config # 0
    /\ CanCast(Entries(c, store).labels) /\ CanCast(Entries(c, store).namespace) /\ CanCast(c.dependsOn)

Wrote(m, components, store, n) ==
    /\ (\A i \in DOMAIN components : Writable(components[i], store)) => m.status = "ok"
    /\ m.status = "ok" =>
           /\ \A i \in n + 1 .. Len(components) : m.maps[components[i].config] = store[components[i].config]
           /\ \A j \in 1 .. n :
                  (\A i \in DOMAIN components : components[i].id = components[j].id => i = j) =>
                      /\ components[j].id \in DOMAIN m.services
                      /\ m.services[components[j].id] =
                             ServiceOf(components[j], Entries(components[j], store))

LEMMA WriteOne ==
    ASSUME NEW store, IsStore(store), NEW file, IsFile(file, Len(store)),
           NEW components, AreComponents(components, Len(store)),
           \A i, j \in DOMAIN components : components[i].config = components[j].config => i = j,
           \A i \in DOMAIN components : components[i].config # 0,
           NEW n \in 1 .. Len(components), NEW m,
           Writing(m, file, store), Wrote(m, components, store, n - 1)
    PROVE  Wrote(WriteComponent(m, components[n]), components, store, n)
<1> DEFINE c == components[n]
           new == WriteComponent(m, c)
           L == Len(components)
<1>1. /\ n \in Nat /\ L \in Nat /\ DOMAIN components = 1 .. L /\ Len(store) \in Nat
      /\ \A i \in n + 1 .. L : i \in n - 1 + 1 .. L /\ i \in DOMAIN components /\ i # n
  BY DEF AreComponents, IsStore
<1>2. m = [services |-> m.services, maps |-> m.maps, status |-> m.status] /\ m.services # Nil
      /\ IsStore(m.maps) /\ Len(m.maps) = Len(store)
  BY FilesAreNotNil DEF Writing
<1>3. m.status = "ok" => Entries(c, m.maps) = Entries(c, store)
  <2> SUFFICES ASSUME m.status = "ok" PROVE m.maps[c.config] = store[c.config]
    BY DEF Entries
  <2>1. n \in n - 1 + 1 .. L
    BY <1>1
  <2> QED BY <2>1 DEF Wrote
<1> HIDE DEF new
<1>4. CASE m.status # "ok" /\ new = m
  <2>1. ~\A i \in DOMAIN components : Writable(components[i], store)
    BY <1>4 DEF Wrote
  <2> QED BY <1>4, <2>1 DEF Wrote, new
<1>5. CASE /\ m.status = "ok"
           /\ \/ ~CanCast(Entries(c, m.maps).labels) \/ ~CanCast(Entries(c, m.maps).namespace)
              \/ c.config = 0 \/ ~CanCast(c.dependsOn) \/ m.services = Nil
           /\ \E left \in {m.maps, Strip(m.maps, c.config)}, why \in {"error", "panic"} :
                  new = [services |-> m.services, maps |-> left, status |-> why]
  <2>1. ~Writable(c, store)
    BY <1>2, <1>3, <1>5 DEF Writable
  <2>2. new.status # "ok"
    BY <1>5
  <2>3. n \in DOMAIN components
    BY <1>1
  <2> QED BY <2>1, <2>2, <2>3 DEF Wrote, new
<1>6. CASE /\ m.status = "ok"
           /\ new = [services |-> With(m.services, c, ServiceOf(c, Entries(c, m.maps))),
                     maps |-> Strip(m.maps, c.config), status |-> "ok"]
  <2> DEFINE s == ServiceOf(c, Entries(c, store))
  <2>1. new.services = With(m.services, c, s) /\ new.maps = Strip(m.maps, c.config) /\ new.status = "ok"
    BY <1>3, <1>6
  <2> HIDE DEF s
  <2>2. ASSUME NEW i \in n + 1 .. L PROVE new.maps[components[i].config] = store[components[i].config]
    <3>1. i \in DOMAIN components /\ n \in DOMAIN components /\ i # n /\ i \in n - 1 + 1 .. L
      BY <1>1
    <3>2. components[i].config # c.config /\ components[i].config \in 1 .. Len(m.maps)
      BY <1>1, <1>2, <3>1 DEF AreComponents
    <3>3. new.maps[components[i].config] = m.maps[components[i].config]
      BY <1>2, <2>1, <3>2, StripTypes
    <3> QED BY <1>6, <3>1, <3>3 DEF Wrote
  <2>3. ASSUME NEW j \in 1 .. n,
               \A i \in DOMAIN components : components[i].id = components[j].id => i = j
        PROVE  /\ components[j].id \in DOMAIN new.services
               /\ new.services[components[j].id] = ServiceOf(components[j], Entries(components[j], store))
    <3>1. DOMAIN new.services = DOMAIN m.services \cup {c.id}
          /\ \A k \in DOMAIN new.services : new.services[k] = IF k = c.id THEN s ELSE m.services[k]
      BY <2>1 DEF With
    <3>2. CASE j = n
      BY <3>1, <3>2 DEF s
    <3>3. CASE j # n
      <4>1. j \in 1 .. n - 1 /\ n \in DOMAIN components
        BY <1>1, <3>3
      <4>2. c.id # components[j].id
        BY <2>3, <3>3, <4>1
      <4>3. /\ components[j].id \in DOMAIN m.services
            /\ m.services[components[j].id] = ServiceOf(components[j], Entries(components[j], store))
        BY <1>6, <2>3, <4>1 DEF Wrote
      <4> QED BY <3>1, <4>2, <4>3
    <3> QED BY <3>2, <3>3
  <2> QED BY <2>1, <2>2, <2>3 DEF Wrote, new
<1> QED BY <1>2, <1>4, <1>5, <1>6, WriteCases DEF new

LEMMA WriteAll ==
    ASSUME AcceptsOK, NEW store, IsStore(store), NEW file, IsFile(file, Len(store)),
           NEW components, AreComponents(components, Len(store)),
           \A i, j \in DOMAIN components : components[i].config = components[j].config => i = j,
           \A i \in DOMAIN components : components[i].config # 0
    PROVE  Wrote(Written(components, file, store), components, store, Len(components))
<1> DEFINE L == Len(components)
<1>1. components \in Seq(Component) /\ L \in Nat /\ DOMAIN components = 1 .. L
  BY DEF AreComponents
<1>2. PICK m : /\ m[0] = [services |-> file, maps |-> store, status |-> "ok"]
               /\ \A n \in 1 .. L : m[n] = WriteComponent(m[n - 1], components[n])
               /\ Written(components, file, store) = m[L]
  BY <1>1, WrittenSteps
<1> DEFINE T == {n \in 0 .. L : Writing(m[n], file, store) /\ Wrote(m[n], components, store, n)}
<1>3. 0 \in T
  <2>1. file # Nil
    BY FilesAreNotNil
  <2>2. m[0].services = file /\ m[0].maps = store /\ m[0].status = "ok"
    BY <1>2
  <2>3. Writing(m[0], file, store)
    BY <1>2, <2>1, <2>2 DEF Writing
  <2>4. Wrote(m[0], components, store, 0)
    BY <1>1, <2>2 DEF Wrote
  <2> QED BY <1>1, <2>3, <2>4
<1>4. ASSUME NEW n \in 1 .. L, n - 1 \in T PROVE n \in T
  <2>1. components[n] \in Component /\ components[n].config \in 0 .. Len(store)
    BY <1>1 DEF AreComponents
  <2>2. Writing(m[n - 1], file, store) /\ Wrote(m[n - 1], components, store, n - 1)
    BY <1>4
  <2>3. m[n] = WriteComponent(m[n - 1], components[n]) /\ n \in 0 .. L
    BY <1>1, <1>2
  <2> HIDE DEF L
  <2>4. Writing(m[n], file, store)
    BY <2>1, <2>2, <2>3, WriteKeepsTypes
  <2>5. Wrote(m[n], components, store, n)
    BY <2>2, <2>3, WriteOne DEF L
  <2> QED BY <2>3, <2>4, <2>5
<1>5. T = 0 .. L
  <2> HIDE DEF T
  <2>1. T \in SUBSET (0 .. L)
    BY DEF T
  <2> QED BY <1>1, <1>3, <1>4, <2>1, UpTo
<1>6. L \in T
  BY <1>1, <1>5
<1> QED BY <1>2, <1>6

(* One service that has an id comes back under it, unless a conversion     *)
(* fails; and none fails when every service can be cast.                   *)
LEMMA RoundTripOfStored ==
    ASSUME IDsNeverRunOut, StylesAllocated, Inv, Stored
    PROVE  /\ CanCast("nil") => RoundTrip.status = "ok"
           /\ RoundTrip.status = "ok" =>
                  \A k \in DOMAIN services :
                      services[k].traits # Nil =>
                          /\ k \in DOMAIN RoundTrip.services
                          /\ RoundTrip.services[k].labels = services[k].labels
                          /\ RoundTrip.services[k].namespace = services[k].namespace
                          /\ RoundTrip.services[k].dependsOn = services[k].dependsOn
                          /\ RoundTrip.services[k].traits.namespaced = services[k].traits.namespaced
<1> DEFINE order == SetToSeq(DOMAIN services)
           there == ReadBack(<<>>, services, maps, order)
           cs == there.components
           store == there.maps
           back == Written(cs, EmptyMap, store)
           L == Len(order)
<1>1. /\ RoundTrip.status = IF there.status # "ok" THEN there.status ELSE back.status
      /\ RoundTrip.services = back.services
  BY DEF RoundTrip
<1>2. /\ IsStore(maps) /\ IsFile(services, Len(maps)) /\ Distinct(services)
      /\ design \in [Design -> Seq(Component)] /\ AcceptsOK /\ IsFiniteSet(DOMAIN services)
  BY DEF Inv, TypeInv, FileInv, Stored, IsFile
<1>3. Ranges(order, DOMAIN services)
  BY <1>2, OneOrder, Orders
<1> HIDE DEF order
<1>4. Reading(there, <<>>, services, maps, order, L) /\ Keeping(there, services, maps, order, L)
  BY <1>2, <1>3, KeepAll
<1> HIDE DEF there
<1>5. /\ IsStore(store) /\ Len(store) \in Nat /\ AreComponents(cs, Len(store))
      /\ cs \in Seq(Component) /\ L \in Nat /\ DOMAIN order = 1 .. L
  BY <1>3, <1>4 DEF Reading, IsStore, AreComponents, Ranges
<1>6. IsFile(EmptyMap, Len(store))
  BY FS_EmptySet DEF EmptyMap, IsFile
<1>7. CanCast("nil") => there.status = "ok"
  <2> SUFFICES ASSUME CanCast("nil"), NEW k \in DOMAIN services PROVE ~Refused(services[k])
    BY <1>4 DEF Reading
  <2> QED BY DEF Refused, Stored
<1>8. ASSUME there.status = "ok"
      PROVE  /\ DOMAIN cs = 1 .. L /\ Len(cs) = L
             /\ \A i, j \in DOMAIN cs : cs[i].config = cs[j].config => i = j
             /\ \A i \in DOMAIN cs : cs[i].config # 0
             /\ Wrote(back, cs, store, L)
  <2>1. DOMAIN cs = 1 .. L /\ Len(cs) = L
    BY <1>4, <1>5, <1>8 DEF Keeping
  <2>2. \A i, j \in DOMAIN cs : cs[i].config = cs[j].config => i = j
    BY <1>4, <1>8, <2>1 DEF Keeping
  <2>3. \A i \in DOMAIN cs : cs[i].config # 0
    <3> SUFFICES ASSUME NEW i \in 1 .. L PROVE cs[i].config # 0
      BY <2>1
    <3>1. cs[i].config \in 1 .. Len(store)
      BY <1>4, <1>8 DEF Keeping
    <3> QED BY <1>5, <3>1
  <2> HIDE DEF cs, store
  <2>4. Wrote(back, cs, store, Len(cs))
    BY <1>2, <1>5, <1>6, <2>2, <2>3, WriteAll
  <2> QED BY <2>1, <2>2, <2>3, <2>4
<1>9. ASSUME there.status = "ok", NEW j \in 1 .. L
      PROVE  /\ order[j] \in DOMAIN services
             /\ Entries(cs[j], store) = [labels |-> services[order[j]].labels,
                                         namespace |-> services[order[j]].namespace]
             /\ Became(cs[j], services, order[j])
  <2> DEFINE entries == [labels |-> services[order[j]].labels, namespace |-> services[order[j]].namespace]
  <2>1. order[j] \in DOMAIN services
    BY <1>3, <1>5 DEF Ranges
  <2>2. entries # Nil
    <3>1. services[order[j]].labels \in {"nil", "typed"} /\ services[order[j]].namespace \in {"nil", "typed"}
      BY <1>2, <2>1, FileFields
    <3>2. entries \in Metadata
      BY <3>1 DEF Metadata, Held
    <3> QED BY <3>2, ConstantsOK
  <2>3. store[cs[j].config] = entries /\ cs[j].config # 0
    BY <1>4, <1>8, <1>9 DEF Keeping
  <2>4. Entries(cs[j], store) = entries
    <3> HIDE DEF entries
    <3> QED BY <2>2, <2>3 DEF Entries
  <2>5. Became(cs[j], services, order[j])
    <3>1. Became(cs[Len(<<>>) + j], services, order[j]) /\ Len(<<>>) = 0
      BY <1>4, <1>9 DEF Reading
    <3>2. Len(<<>>) + j = j
      BY <1>5, <3>1
    <3> QED BY <3>1, <3>2
  <2> QED BY <2>1, <2>4, <2>5
<1> HIDE DEF cs, store, back
<1>10. ASSUME CanCast("nil") PROVE RoundTrip.status = "ok"
  <2>1. there.status = "ok"
    BY <1>7, <1>10
  <2>2. \A i \in DOMAIN cs : Writable(cs[i], store)
    <3> SUFFICES ASSUME NEW i \in 1 .. L PROVE Writable(cs[i], store)
      BY <1>8, <2>1
    <3>1. CanCast("typed") /\ CanCast("nil") /\ CanCast("empty")
      BY <1>2, <1>10 DEF CanCast, AcceptsOK
    <3>2. order[i] \in DOMAIN services
          /\ Entries(cs[i], store) = [labels |-> services[order[i]].labels,
                                      namespace |-> services[order[i]].namespace]
      BY <1>9, <2>1
    <3>3. services[order[i]].labels \in {"nil", "typed"} /\ services[order[i]].namespace \in {"nil", "typed"}
      BY <1>2, <3>2, FileFields
    <3>4. CanCast(Entries(cs[i], store).labels) /\ CanCast(Entries(cs[i], store).namespace)
      BY <3>1, <3>2, <3>3
    <3>5. cs[i].dependsOn \in {"empty", "typed"}
      BY <1>9, <2>1 DEF Became
    <3>6. cs[i].config # 0
      BY <1>8, <2>1
    <3> QED BY <3>1, <3>4, <3>5, <3>6 DEF Writable
  <2> QED BY <1>1, <1>8, <2>1, <2>2 DEF Wrote
<1>11. ASSUME RoundTrip.status = "ok", NEW k \in DOMAIN services, services[k].traits # Nil
       PROVE  /\ k \in DOMAIN RoundTrip.services
              /\ RoundTrip.services[k].labels = services[k].labels
              /\ RoundTrip.services[k].namespace = services[k].namespace
              /\ RoundTrip.services[k].dependsOn = services[k].dependsOn
              /\ RoundTrip.services[k].traits.namespaced = services[k].traits.namespaced
  <2>1. there.status = "ok" /\ back.status = "ok"
    BY <1>1, <1>11
  <2>2. PICK j \in 1 .. L : order[j] = k
    BY <1>3, <1>5 DEF Ranges
  <2>3. cs[j].id = k /\ cs[j].namespaced = services[k].traits.namespaced
        /\ cs[j].dependsOn = (IF services[k].dependsOn = "nil" THEN "empty" ELSE "typed")
    BY <1>9, <1>11, <2>1, <2>2 DEF Became
  <2>4. services[k].traits.id = k /\ services[k].dependsOn \in {"nil", "typed"}
    BY <1>2, <1>11, FileFields
  <2>5. k \in TraitIDs(services)
    BY <1>11, <2>4 DEF TraitIDs
  <2>6. ASSUME NEW i \in DOMAIN cs, cs[i].id = cs[j].id PROVE i = j
    <3>1. i \in 1 .. L
      BY <1>8, <2>1
    <3>2. order[i] \in DOMAIN services /\ Became(cs[i], services, order[i])
      BY <1>9, <2>1, <3>1
    <3>3. services[order[i]].traits # Nil
      BY <2>3, <2>5, <2>6, <3>2 DEF Became
    <3>4. order[i] = k
      BY <2>3, <2>6, <3>2, <3>3 DEF Became
    <3> QED BY <1>3, <1>5, <2>2, <3>1, <3>4 DEF Ranges
  <2>7. k \in DOMAIN back.services /\ back.services[k] = ServiceOf(cs[j], Entries(cs[j], store))
    <3>1. Wrote(back, cs, store, L)
      BY <1>8, <2>1
    <3> QED BY <2>1, <2>3, <2>6, <3>1 DEF Wrote
  <2>8. Entries(cs[j], store) = [labels |-> services[k].labels, namespace |-> services[k].namespace]
    BY <1>9, <2>1, <2>2
  <2> DEFINE new == ServiceOf(cs[j], Entries(cs[j], store))
  <2>9. /\ new.labels = services[k].labels /\ new.namespace = services[k].namespace
        /\ new.dependsOn = IF cs[j].dependsOn = "typed" THEN "typed" ELSE "nil"
        /\ new.traits.namespaced = cs[j].namespaced
    BY <2>8 DEF ServiceOf
  <2> HIDE DEF new
  <2>10. new.dependsOn = services[k].dependsOn /\ new.traits.namespaced = services[k].traits.namespaced
    BY <2>3, <2>4, <2>9
  <2> QED BY <1>1, <2>7, <2>9, <2>10 DEF new
<1> QED BY <1>10, <1>11

(* A stored legacy file that is converted to a new design, back to a new   *)
(* file and saved keeps every service that has an id, with its labels, its *)
(* namespace, what it depends on and whether it is namespaced; and where   *)
(* nil is cast both conversions succeed on every file                      *)
(* (design_conversion.go:1).                                               *)
THEOREM RoundTripsKeep == IDsNeverRunOut /\ StylesAllocated => (Spec => []RoundTripKeeps)
<1> SUFFICES ASSUME IDsNeverRunOut, StylesAllocated PROVE Spec => []RoundTripKeeps
  OBVIOUS
<1>1. Inv => RoundTripKeeps
  <2> SUFFICES ASSUME Inv, Stored
               PROVE  /\ CanCast("nil") => RoundTrip.status = "ok"
                      /\ RoundTrip.status = "ok" =>
                             \A k \in DOMAIN services :
                                 LET old == services[k]
                                 IN  old.traits # Nil =>
                                         /\ old.traits.id \in DOMAIN RoundTrip.services
                                         /\ LET new == RoundTrip.services[old.traits.id]
                                            IN  /\ new.labels = old.labels /\ new.namespace = old.namespace
                                                /\ new.dependsOn = old.dependsOn
                                                /\ new.traits.namespaced = old.traits.namespaced
    BY DEF RoundTripKeeps
  <2>1. \A k \in DOMAIN services : services[k].traits # Nil => services[k].traits.id = k
    BY FileFields DEF Inv, TypeInv, Stored
  <2> QED BY <2>1, RoundTripOfStored
<1> QED BY <1>1, Invariance, PTL
=============================================================================
