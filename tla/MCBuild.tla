------------------------------ MODULE MCBuild ------------------------------
(***************************************************************************)
(* Two packages whose schemas are any of these: two titles, one of which   *)
(* begins with the other, and schemes whose names make up for it; a route  *)
(* that documents share, an operation of each client, of both and of none, *)
(* one secured by its document, a deprecated document and one without a    *)
(* title.                                                                  *)
(***************************************************************************)
EXTENDS Build

CONSTANTS design, user, jwt, get, put, bearer, oauth

Design == <<design>>
DesignUser == <<design, user>>
Jwt == <<jwt>>
UserJwt == <<user, jwt>>

Titles == {Design, DesignUser}
Names == {Jwt, UserJwt}

Doc(t, r, c, n, s, q, d) == [title |-> t, route |-> r, clients |-> c, name |-> n,
                             scheme |-> s, required |-> q, deprecated |-> d]

cloudOnly  == Doc(Design, get, {"cloud"}, UserJwt, bearer, "operation", FALSE)
both       == Doc(Design, put, Client, Jwt, oauth, "document", FALSE)
other      == Doc(DesignUser, get, {"meshery"}, Jwt, oauth, "operation", FALSE)
namesake   == Doc(DesignUser, put, {"meshery", "cloud"}, Jwt, oauth, "operation", FALSE)
deprecated == Doc(DesignUser, put, {"meshery"}, Jwt, bearer, "operation", TRUE)
untagged   == Doc(DesignUser, put, {}, Jwt, bearer, "operation", FALSE)
untitled   == Doc(NoTitle, put, {"cloud"}, Jwt, bearer, "operation", FALSE)

Documents == {cloudOnly, both, other, namesake, deprecated, untagged, untitled}

(* Every document is there at the start of some behaviour; edits lead to   *)
(* the other combinations.                                                 *)
SomeCheckouts == {<<cloudOnly, both>>, <<both, other>>, <<cloudOnly, namesake>>,
                  <<deprecated, other>>, <<cloudOnly, untagged>>, <<untitled, other>>}
=============================================================================
