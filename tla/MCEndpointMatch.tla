-------------------------- MODULE MCEndpointMatch --------------------------
(***************************************************************************)
(* An instance of EndpointMatch for TLC: /x/{a}, /x/{a}/ and /x/{b}.       *)
(***************************************************************************)
EXTENDS EndpointMatch

Paths == 1 .. 3
ExactPath == <<1, 1, 3>>
LoosePath == <<1, 1, 1>>

Constructs == Permutations(Construct)
=============================================================================
