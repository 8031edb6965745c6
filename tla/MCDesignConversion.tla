------------------------- MODULE MCDesignConversion -------------------------
(***************************************************************************)
(* Instances of DesignConversion for TLC: stored components and services   *)
(* with everything, with nothing, and with what makes a conversion stop.   *)
(***************************************************************************)
EXTENDS DesignConversion

IDs == 1 .. 16

Stored1(metadata, configured, dependsOn, namespaced) ==
    [metadata |-> metadata, configured |-> configured, dependsOn |-> dependsOn, namespaced |-> namespaced]
Labelled  == [labels |-> "generic", namespace |-> "typed"]
Unlabelled == [labels |-> "nil", namespace |-> "typed"]

StoredComponents ==
    {Stored1(Labelled, TRUE, "generic", TRUE), Stored1(Unlabelled, TRUE, "nil", FALSE),
     Stored1(Unlabelled, TRUE, "generic", FALSE), Stored1(Nil, TRUE, "nil", TRUE),
     Stored1(Nil, FALSE, "nil", FALSE)}

Stored2(configured, labels, dependsOn, traits) ==
    [configured |-> configured, labels |-> labels, namespace |-> labels, dependsOn |-> dependsOn,
     traits |-> traits]

StoredServices ==
    {Stored2(TRUE, "typed", "typed", [namespaced |-> TRUE, drawn |-> TRUE]),
     Stored2(TRUE, "typed", "nil", [namespaced |-> FALSE, drawn |-> FALSE]),
     Stored2(FALSE, "nil", "typed", [namespaced |-> TRUE, drawn |-> FALSE]),
     Stored2(TRUE, "typed", "typed", Nil)}


Designs == Permutations(Design)
=============================================================================
