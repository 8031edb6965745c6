--------------------------- MODULE MCPermissions ---------------------------
(***************************************************************************)
(* Sheets of three keys: one that renames two keys independently and has   *)
(* them in another order, one whose new name holds a name that is renamed  *)
(* too, one that repeats a name, one that gives two keys one id, and two   *)
(* orders of a shared id.                                                  *)
(***************************************************************************)
EXTENDS Permissions

CONSTANTS k1, k2, k3

Key(name, id) == [name |-> name, id |-> id]
ViewDesign == <<"View", "Design">>
ReadDesign == <<"Read", "Design">>
ViewModel  == <<"View", "Model">>
EditModel  == <<"Edit", "Model">>
ViewDesignFile == <<"View", "Design", "File">>
Snapshots  == <<"Snapshots">>
ArgoEvents == <<"ArgoEvents">>
Shared == <<Key(Snapshots, k3), Key(ArgoEvents, k3)>>

Names == {ViewDesign, ReadDesign, ViewModel, EditModel, ViewDesignFile, Snapshots, ArgoEvents}
Words == UNION {ToSet(name) : name \in Names}

SomeFirstSheets == {<<Key(ViewDesign, k1), Key(ViewModel, k2)>> \o Shared}

SomeSheets ==
    SomeFirstSheets \cup
    {<<Key(EditModel, k2), Key(ReadDesign, k1)>> \o Shared,
     <<Key(ReadDesign, k1), Key(ViewDesignFile, k2)>> \o Shared,
     <<Key(ViewDesign, k1), Key(ViewDesign, k2)>> \o Reverse(Shared),
     <<Key(ViewDesign, k1), Key(ViewModel, k1)>> \o Shared}

SomeUses == [consumer |-> <<k1, k2, k1>>, other |-> <<k2, k3>>]
=============================================================================
