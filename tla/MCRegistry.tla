----------------------------- MODULE MCRegistry -----------------------------
(***************************************************************************)
(* Instances of Registry for TLC.  Two models, one of each package         *)
(* version; mA is described by three callers with different categories.    *)
(***************************************************************************)
EXTENDS Registry, TLC

CONSTANTS g1, g2, g3, s1, s2, v1beta1, v1beta2, mA, mB, net, uncategorized,
          hostA, hostB, enabled, ignored, e1, e2

ApiOfModel == (mA :> v1beta1) @@ (mB :> v1beta2)

OneServerOf  == (g1 :> s1) @@ (g2 :> s1)
TwoAndOne    == (g1 :> s1) @@ (g2 :> s1) @@ (g3 :> s2)

Plain(kind, id, category) ==
    [kind |-> kind, id |-> id, category |-> category, host |-> hostA,
     named |-> TRUE, hasModel |-> TRUE, hasSchema |-> TRUE, status |-> enabled]

(* One call of each kind, the models shared between them. *)
EveryKind ==
    {Plain("category", mA, net),
     Plain("model", mA, net),
     Plain("model", mB, NoName),
     Plain("component", mA, NoName),
     Plain("connectionDefinition", mA, net),
     Plain("relationship", mB, net),
     [Plain("status", mA, net) EXCEPT !.status = ignored]}

(* Calls that return before they reach the database. *)
EarlyReturns ==
    {[Plain("model", mA, net) EXCEPT !.named = FALSE],
     [Plain("component", mA, net) EXCEPT !.hasSchema = FALSE],
     [Plain("component", mA, net) EXCEPT !.hasModel = FALSE],
     [Plain("connectionDefinition", mA, net) EXCEPT !.named = FALSE]}

AllRequests == EveryKind \cup EarlyReturns

(* Calls that compete for the mutexes and the same rows. *)
Contended ==
    {Plain("category", mA, net),
     Plain("model", mA, net),
     Plain("model", mB, net)}

(* The same model registered on behalf of two hosts. *)
TwoHosts ==
    {Plain("model", mA, net),
     [Plain("component", mA, net) EXCEPT !.host = hostB]}

(* Goroutines of one server and uuids can be exchanged: Requests, ServerOf *)
(* and ApiOf tell none of them apart.                                      *)
Interchangeable == Permutations({g1, g2}) \cup Permutations({e1, e2})
=============================================================================
