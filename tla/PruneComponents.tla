-------------------------- MODULE PruneComponents --------------------------
(***************************************************************************)
(* pruneComponents of build/filterOpenapiByTag.js: which components of the *)
(* merged OpenAPI document go into a client's specification.               *)
(*                                                                         *)
(* The roots are what collectRefs finds in the operations that carry the   *)
(* client's tag and in the document's own security requirement; the        *)
(* worklist follows references through the components, which may be cyclic,*)
(* shared or dangling.  One action is one turn of the loop.                *)
(*                                                                         *)
(* A definition whose name holds "__" is a faulty variant of the one it    *)
(* precedes.                                                               *)
(***************************************************************************)
EXTENDS Naturals, Sequences, FiniteSets, Functions

CONSTANT
    Ref     \* the texts "#/components/<section>/<name>"

ASSUME RefsFinite == IsFiniteSet(Ref)

VARIABLES
    components, \* the document: what each component that is defined refers to
    roots,      \* references of the filtered operations and of doc.security
    reached, queue, pruned, pc

document == <<components, roots>>
walk     == <<components, roots, reached, queue, pruned, pc>>

Defined == DOMAIN components

(* Elements of a Set come in the order they were inserted, which follows   *)
(* the text of the document: any order.                                    *)
Orders(S) == Bijection(1..Cardinality(S), S)

Top      == queue[Len(queue)]
Seen     == Top \in reached

Popped__Peeked(q) == q
(* What Array.pop leaves. *)
Popped(q) == SubSeq(q, 1, Len(q) - 1)

Nested__OneLevel(ref) == {}
(* The references below a component that the walk has not met. *)
Nested(ref) == components[ref] \ (reached \cup {ref})

WalkTypeOK ==
    /\ Defined \subseteq Ref
    /\ components \in [Defined -> SUBSET Ref]
    /\ roots \subseteq Ref
    /\ reached \subseteq Ref
    /\ queue \in Seq(Ref)
    /\ pruned \subseteq Ref
    /\ pc \in {"walk", "done"}

-----------------------------------------------------------------------------

WalkInit ==
    /\ components \in UNION {[D -> SUBSET Ref] : D \in SUBSET Ref}
    /\ roots \in SUBSET Ref
    /\ reached = {}
    /\ queue \in Orders(roots)
    /\ pruned = {}
    /\ pc = "walk"

SkipReached ==
    /\ pc = "walk" /\ queue # <<>> /\ Seen
    /\ queue' = Popped(queue)
    /\ UNCHANGED <<document, reached, pruned, pc>>

(* A reference to a component that the document does not define is marked  *)
(* and otherwise ignored.                                                  *)
SkipUndefined ==
    /\ pc = "walk" /\ queue # <<>> /\ ~Seen
    /\ Top \notin Defined
    /\ reached' = reached \cup {Top}
    /\ queue' = Popped(queue)
    /\ UNCHANGED <<document, pruned, pc>>

Visit ==
    /\ pc = "walk" /\ queue # <<>> /\ ~Seen
    /\ Top \in Defined
    /\ reached' = reached \cup {Top}
    /\ \E nested \in Orders(Nested(Top)) : queue' = Popped(queue) \o nested
    /\ UNCHANGED <<document, pruned, pc>>

Finish ==
    /\ pc = "walk" /\ queue = <<>>
    /\ pruned' = Defined \cap reached
    /\ pc' = "done"
    /\ UNCHANGED <<document, reached, queue>>

WalkNext == SkipReached \/ SkipUndefined \/ Visit \/ Finish

WalkSpec == WalkInit /\ [][WalkNext]_walk

(* The loop is synchronous code: it goes on until it ends. *)
FairWalk == WalkSpec /\ WF_walk(WalkNext)

-----------------------------------------------------------------------------

(* A set of references that holds the roots and, with a component, all that*)
(* the component refers to.                                                *)
Closed(C) ==
    /\ roots \subseteq C
    /\ \A r \in C \cap Defined : components[r] \subseteq C

(* The specification of a client holds exactly the components that its     *)
(* operations need, directly or through others: no reference that resolved *)
(* in the merged document dangles, and no component is published that only *)
(* the operations of another client use.                                   *)
PrunedExactly ==
    pc = "done" => pruned = {r \in Defined : \A C \in SUBSET Ref : Closed(C) => r \in C}

(* The walk ends for every document, whatever cycles its components make.  *)
PruneEnds == <>(pc = "done")
=============================================================================
