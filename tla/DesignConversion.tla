-------------------------- MODULE DesignConversion --------------------------
(***************************************************************************)
(* The conversion of designs to and from the legacy v1alpha2 format        *)
(* (design_conversion.go): one program that opens, converts and saves      *)
(* designs and a legacy file.  Go's maps are shared by whoever holds them, *)
(* so the "metadata" entries of configuration maps live in a store of      *)
(* their own and a configuration is a reference into it.                   *)
(***************************************************************************)
EXTENDS Naturals, Sequences, FiniteSets, SequencesExt

CONSTANTS
    Design,             \* the designs in the program's memory
    ID,                 \* UUIDs: numbers
    Nil,                \* a nil map
    OpenedComponents,   \* what the components of stored designs are like
    OpenedServices,     \* what the services of stored legacy files are like
    StylesAllocated,    \* TRUE: models/v1beta3/design, FALSE: models/v1beta1/pattern
    MaxComponents,      \* of a stored design or file
    MaxOpens, MaxCalls  \* stored documents are opened in the first MaxOpens calls

(* What an untyped value holds: nothing, a nil slice of the type that Cast *)
(* asks for, a value of that type, or one of the type that a decoder gives *)
(* it, []any or map[string]any.                                            *)
Held == {"nil", "empty", "typed", "generic"}

(* configuration.metadata: labels stands for annotations also. *)
Metadata == [labels : Held \ {"empty"}, namespace : {"nil", "typed"}]
NoEntries == [labels |-> "nil", namespace |-> "nil"]

(* config is the number of a configuration map, 0 for a nil one; styles    *)
(* the position that is shown, drawn that of the additional properties.    *)
Component == [id : ID, config : Nat, dependsOn : Held, namespaced : BOOLEAN,
              styles : {"none", "zero", "drawn"}, drawn : BOOLEAN]

(* The meshmap traits.  They are decoded when they come from a file and    *)
(* Go structs when ConvertTo has made them.                                *)
Traits == [decoded : BOOLEAN, id : ID, namespaced : BOOLEAN, drawn : BOOLEAN]

Service == [settings : Nat, labels : {"nil", "typed"}, namespace : {"nil", "typed"},
            dependsOn : {"nil", "typed"}, traits : Traits \cup {Nil}]

ASSUME ConstantsOK ==
    /\ ID \subseteq Nat
    /\ OpenedComponents \subseteq
           [metadata : [labels : {"nil", "generic"}, namespace : {"nil", "typed"}] \cup {Nil},
            configured : BOOLEAN, dependsOn : {"nil", "generic"}, namespaced : BOOLEAN]
    /\ OpenedServices \subseteq
           [configured : BOOLEAN, labels : {"nil", "typed"}, namespace : {"nil", "typed"},
            dependsOn : {"nil", "typed"}, traits : [namespaced : BOOLEAN, drawn : BOOLEAN] \cup {Nil}]
    /\ Nil \notin Traits \cup Metadata
    /\ \A keys \in SUBSET ID : Nil \notin [keys -> Service]
    /\ StylesAllocated \in BOOLEAN
    /\ MaxComponents \in Nat \ {0} /\ 1 .. MaxComponents \subseteq ID
    /\ MaxOpens \in Nat /\ MaxCalls \in Nat

VARIABLES
    accepts,            \* what utils.Cast accepts besides values: nothing, nil slices, nil
    design,             \* the components of each design
    services,           \* Services of the legacy file
    maps,               \* the metadata entry of every configuration map
    result,             \* of the last call
    calls

vars == <<accepts, design, services, maps, result, calls>>

(* Definitions whose name holds "__" are faulty variants of the definition *)
(* they precede.                                                           *)

CanCast(held) == held \in {"typed"} \cup accepts

EmptyMap == [k \in {} |-> Nil]
Result(call, of, status) == [call |-> call, of |-> of, status |-> status]

-----------------------------------------------------------------------------
(* ConvertTo *)

Entries(c, store) == IF c.config = 0 \/ store[c.config] = Nil THEN NoEntries ELSE store[c.config]

ServiceOf__Stripped(c, entries) ==
    [settings |-> c.config, labels |-> "nil", namespace |-> "nil",
     dependsOn |-> IF c.dependsOn = "typed" THEN "typed" ELSE "nil",
     traits |-> [decoded |-> FALSE, id |-> c.id, namespaced |-> c.namespaced, drawn |-> c.drawn]]
(* The service holds the map of the component. *)
ServiceOf(c, entries) ==
    [settings |-> c.config, labels |-> entries.labels, namespace |-> entries.namespace,
     dependsOn |-> IF c.dependsOn = "typed" THEN "typed" ELSE "nil",
     traits |-> [decoded |-> FALSE, id |-> c.id, namespaced |-> c.namespaced, drawn |-> c.drawn]]

(* convertToSettings deletes the entries from the map it shares, and only  *)
(* then convertToTraits may fail.                                          *)
WriteComponent(m, c) ==
    LET entries  == Entries(c, m.maps)
        refused  == ~CanCast(entries.labels) \/ ~CanCast(entries.namespace)
        stripped == [m EXCEPT !.maps[c.config] = IF @ = Nil THEN Nil ELSE NoEntries]
    IN  IF m.status # "ok" THEN m
        ELSE IF refused THEN [m EXCEPT !.status = "error"]
        ELSE IF c.config = 0 THEN [m EXCEPT !.status = "panic"]
        ELSE IF ~CanCast(c.dependsOn) THEN [stripped EXCEPT !.status = "error"]
        ELSE IF m.services = Nil THEN [stripped EXCEPT !.status = "panic"]
        ELSE [stripped EXCEPT !.services =
                  [k \in DOMAIN @ \cup {c.id} |-> IF k = c.id THEN ServiceOf(c, entries) ELSE @[k]]]

Written__Undone(components, file, store) ==
    LET m[n \in 0 .. Len(components)] ==
            IF n = 0 THEN [services |-> file, maps |-> store, status |-> "ok"]
            ELSE WriteComponent(m[n - 1], components[n])
        last == m[Len(components)]
    IN  IF last.status = "ok" THEN last ELSE [last EXCEPT !.services = file]
(* What was written stays when a later component cannot be. *)
Written(components, file, store) ==
    LET m[n \in 0 .. Len(components)] ==
            IF n = 0 THEN [services |-> file, maps |-> store, status |-> "ok"]
            ELSE WriteComponent(m[n - 1], components[n])
    IN  m[Len(components)]

-----------------------------------------------------------------------------
(* ConvertFrom *)

IDsOf(components) == {c.id : c \in ToSet(components)}
TraitIDs(file) == {file[k].traits.id : k \in {x \in DOMAIN file : file[x].traits # Nil}}

(* uuid.NewV4: an id that nobody has. *)
Unused(m) ==
    LET free == ID \ (IDsOf(m.components) \cup DOMAIN m.services \cup TraitIDs(m.services)
                        \cup UNION {IDsOf(design[d]) : d \in Design})
    IN  CHOOSE id \in free : \A other \in free : id <= other

Put__Dropped(store, n, entries) == IF n > Len(store) THEN store ELSE [store EXCEPT ![n] = entries]
Put(store, n, entries) == IF n > Len(store) THEN Append(store, entries) ELSE [store EXCEPT ![n] = entries]

(* convertFromSettings: the component takes the map of the service, or a   *)
(* new one, and gives it a new metadata entry.                             *)
ConfigOf(s, store) == IF s.settings = 0 THEN Len(store) + 1 ELSE s.settings

(* The casts of convertFromTraits: a struct is not a map[string]any. *)
Refused__NoTraits(s) == s.traits = Nil /\ ~CanCast("nil")
Refused(s) == IF s.traits = Nil THEN ~CanCast("nil") ELSE ~s.traits.decoded

ComponentOf(s, config, unused) ==
    LET t == IF s.traits = Nil THEN [namespaced |-> FALSE, drawn |-> FALSE] ELSE s.traits
    IN  [id |-> IF s.traits # Nil /\ s.traits.decoded THEN s.traits.id ELSE unused,
         config |-> config,
         dependsOn |-> IF s.dependsOn = "nil" THEN "empty" ELSE "typed", namespaced |-> t.namespaced,
         styles |-> IF t.drawn THEN "drawn" ELSE "zero", drawn |-> FALSE]

(* The new component has no styles yet to write the position into. *)
Positioned(styles) == styles # Nil \/ StylesAllocated

(* isNamespaced is deleted from the traits of the service. *)
ReadService(m, k) ==
    LET s     == m.services[k]
        n     == ConfigOf(s, m.maps)
        begun == [m EXCEPT !.maps = Put(@, n, [labels |-> s.labels, namespace |-> s.namespace])]
        read  == [begun EXCEPT !.services[k].traits = IF @ = Nil THEN Nil ELSE [@ EXCEPT !.namespaced = FALSE]]
    IN  IF m.status # "ok" THEN m
        ELSE IF Refused(s) THEN [begun EXCEPT !.status = "error"]
        ELSE IF ~Positioned(Nil) THEN [read EXCEPT !.status = "panic"]
        ELSE [read EXCEPT !.components = Append(@, ComponentOf(s, n, Unused(m)))]

ReadBack(components, file, store, order) ==
    LET m[n \in 0 .. Len(order)] ==
            IF n = 0 THEN [components |-> components, services |-> file, maps |-> store, status |-> "ok"]
            ELSE ReadService(m[n - 1], order[n])
    IN  m[Len(order)]

-----------------------------------------------------------------------------
(* Saving and opening: what a decoder makes of a document. *)

Decoded(held) == CASE held = "typed" -> "generic" [] held = "empty" -> "nil" [] OTHER -> held

DecodedMetadata(entries) ==
    IF entries = Nil THEN Nil ELSE [entries EXCEPT !.labels = Decoded(@)]

DecodedService(s, config) ==
    [s EXCEPT !.settings = IF @ = 0 THEN 0 ELSE config,
              !.traits = IF @ = Nil THEN Nil ELSE [@ EXCEPT !.decoded = TRUE]]

-----------------------------------------------------------------------------
Init ==
    /\ accepts \in {{}, {"empty"}, {"empty", "nil"}}
    /\ design = [d \in Design |-> <<>>]
    /\ services = EmptyMap
    /\ maps = <<>>
    /\ result = Result("none", Nil, "ok")
    /\ calls = 0

Call(call, of, status) ==
    /\ calls < MaxCalls
    /\ calls' = calls + 1
    /\ result' = Result(call, of, status)
    /\ UNCHANGED accepts

OpenDesign(d) ==
    /\ calls < MaxOpens
    /\ \E n \in 1 .. MaxComponents : \E opened \in [1 .. n -> OpenedComponents] :
           /\ design' = [design EXCEPT ![d] =
                  [i \in 1 .. n |->
                      [id |-> i, config |-> IF opened[i].configured THEN Len(maps) + i ELSE 0,
                       dependsOn |-> opened[i].dependsOn, namespaced |-> opened[i].namespaced,
                       styles |-> "none", drawn |-> FALSE]]]
           /\ maps' = maps \o [i \in 1 .. n |-> opened[i].metadata]
    /\ Call("open", d, "ok")
    /\ UNCHANGED services

OpenFile ==
    /\ calls < MaxOpens
    /\ \E n \in 1 .. MaxComponents : \E opened \in [1 .. n -> OpenedServices] :
           /\ services' =
                  [k \in 1 .. n |->
                      [settings |-> IF opened[k].configured THEN Len(maps) + k ELSE 0,
                       labels |-> opened[k].labels, namespace |-> opened[k].namespace,
                       dependsOn |-> opened[k].dependsOn,
                       traits |-> IF opened[k].traits = Nil THEN Nil
                                  ELSE [decoded |-> TRUE, id |-> k,
                                        namespaced |-> opened[k].traits.namespaced,
                                        drawn |-> opened[k].traits.drawn]]]
           /\ maps' = maps \o [k \in 1 .. n |-> Nil]
    /\ Call("open", Nil, "ok")
    /\ UNCHANGED design

(* A new PatternFile, with or without its map; a new design. *)
NewFile ==
    /\ services' \in {EmptyMap, Nil}
    /\ Call("new", Nil, "ok")
    /\ UNCHANGED <<design, maps>>

NewDesign(d) ==
    /\ design' = [design EXCEPT ![d] = <<>>]
    /\ Call("new", d, "ok")
    /\ UNCHANGED <<services, maps>>

(* A design is saved and opened again. *)
ReopenDesign(d) ==
    LET old == design[d]
    IN  /\ design' = [design EXCEPT ![d] =
               [i \in DOMAIN old |->
                   [old[i] EXCEPT !.config = IF @ = 0 THEN 0 ELSE Len(maps) + i,
                                  !.dependsOn = Decoded(@)]]]
        /\ maps' = maps \o [i \in DOMAIN old |->
               IF old[i].config = 0 THEN Nil ELSE DecodedMetadata(maps[old[i].config])]
        /\ Call("reopen", d, "ok")
        /\ UNCHANGED services

ReopenFile ==
    LET order == SetToSeq(DOMAIN services)
        At(k) == CHOOSE i \in DOMAIN order : order[i] = k
    IN  /\ services # Nil
        /\ services' = [k \in DOMAIN services |-> DecodedService(services[k], Len(maps) + At(k))]
        /\ maps' = maps \o [i \in DOMAIN order |->
               LET n == services[order[i]].settings
               IN  IF n = 0 THEN Nil ELSE DecodedMetadata(maps[n])]
        /\ Call("reopen", Nil, "ok")
        /\ UNCHANGED design

ConvertTo(d) ==
    LET m == Written(design[d], services, maps)
    IN  /\ services' = m.services
        /\ maps' = m.maps
        /\ Call("to", d, m.status)
        /\ UNCHANGED design

(* A map is ranged over in any order. *)
ConvertFrom(d) ==
    /\ services # Nil
    /\ \E order \in SetToSeqs(DOMAIN services) :
           LET m == ReadBack(design[d], services, maps, order)
           IN  /\ design' = [design EXCEPT ![d] = m.components]
               /\ services' = m.services
               /\ maps' = m.maps
               /\ Call("from", d, m.status)

Next ==
    \/ \E d \in Design : OpenDesign(d) \/ NewDesign(d) \/ ReopenDesign(d) \/ ConvertTo(d) \/ ConvertFrom(d)
    \/ OpenFile \/ NewFile \/ ReopenFile

Spec == Init /\ [][Next]_vars

-----------------------------------------------------------------------------
(* Properties. *)

References ==
    {c.config : c \in UNION {ToSet(design[d]) : d \in Design}}
        \cup {services[k].settings : k \in IF services = Nil THEN {} ELSE DOMAIN services}

(* Every variable keeps its shape; a configuration is one that exists. *)
TypeOK ==
    /\ design \in [Design -> Seq(Component)]
    /\ services = Nil \/ (DOMAIN services \subseteq ID /\ services \in [DOMAIN services -> Service])
    /\ maps \in Seq(Metadata \cup {Nil})
    /\ References \subseteq 0 .. Len(maps)
    /\ calls \in 0 .. MaxCalls

(* What becomes of the services of a stored file that is converted to a    *)
(* new design, back to a new file and saved.                               *)
RoundTrip ==
    LET order == SetToSeq(DOMAIN services)
        there == ReadBack(<<>>, services, maps, order)
        back  == Written(there.components, EmptyMap, there.maps)
    IN  [status |-> IF there.status # "ok" THEN there.status ELSE back.status, services |-> back.services]

Stored == services # Nil /\ \A k \in DOMAIN services : services[k].traits # Nil => services[k].traits.decoded

(* "The file implements the conversion.Hub round-trip between the legacy   *)
(* v1alpha2 PatternFile and the v1beta3 design PatternFile"                *)
(* (design_conversion.go:1): a service that has an id comes back under it, *)
(* as it was but for its position, and when nil is cast every file does.   *)
RoundTripKeeps ==
    Stored =>
        /\ CanCast("nil") => RoundTrip.status = "ok"
        /\ RoundTrip.status = "ok" =>
               \A k \in DOMAIN services :
                   LET old == services[k]
                   IN  old.traits # Nil =>
                           /\ old.traits.id \in DOMAIN RoundTrip.services
                           /\ LET new == RoundTrip.services[old.traits.id]
                              IN  /\ new.labels = old.labels /\ new.namespace = old.namespace
                                  /\ new.dependsOn = old.dependsOn
                                  /\ new.traits.namespaced = old.traits.namespaced

(* A component that is read back has the id it was written with: a file    *)
(* that was never saved, whose ids are not strings, is refused and its     *)
(* components are not given new ids.                                       *)
IdentityStep ==
    \A d \in Design :
        result'.call = "from" /\ result'.of = d /\ result'.status = "ok" /\ calls' # calls =>
            /\ TraitIDs(services) \subseteq IDsOf(design'[d])
            /\ Len(design'[d]) = Len(design[d]) + Cardinality(DOMAIN services)
IdentityKept == [][IdentityStep]_vars

(* No two components of a design have one id or hold one map, as they do   *)
(* when a file has been read into it twice.                                *)
Unshared(components) ==
    \A i, j \in DOMAIN components :
        \/ components[i].id = components[j].id
        \/ components[i].config # 0 /\ components[i].config = components[j].config
        => i = j

(* The service that holds a map has the labels that were taken out of it.  *)
LabelsMoved(n) ==
    /\ services' # Nil
    /\ \E k \in DOMAIN services' :
           /\ services'[k].settings = n
           /\ services'[k].labels = maps[n].labels
           /\ services'[k].namespace = maps[n].namespace

(* "if errors occurs exit the conversion, do not perform partial           *)
(* conversion" (design_conversion.go:267): ConvertTo takes the labels out  *)
(* of the maps of the design, which other designs may hold too.  A         *)
(* conversion that succeeds leaves all of them in the file, and one that   *)
(* stops has lost those of the component it stopped at and no others.      *)
LabelsStep ==
    \A d \in Design :
        result'.call = "to" /\ result'.of = d /\ calls' # calls /\ Unshared(design[d]) =>
            LET lost == {n \in DOMAIN maps : maps'[n] # maps[n] /\ ~LabelsMoved(n)}
            IN  Cardinality(lost) <= IF result'.status = "ok" THEN 0 ELSE 1
LabelsKept == [][LabelsStep]_vars
=============================================================================
