--------------------------- MODULE MCCloudSnapshot ---------------------------
(* Instances of CloudSnapshot for TLC.                                     *)
EXTENDS CloudSnapshot, TLC

\* With and without the token, below /api and not; the paths that /api stands
\* for and the open ones differ in nothing else.
Calls ==
  {[route |-> <<"POST", "/api">>, bearer |-> b] : b \in BOOLEAN} \union
  {[route |-> r, bearer |-> FALSE] :
     r \in {<<"POST", "/verify">>, <<"GET", "/health">>, <<"OPTIONS", "/api">>}}

\* Requests that seal and that put a snapshot; the other paths seal, too, and a
\* GET nothing, so that they are left to the other instances.
SealAndPut ==
  {[route |-> r, bearer |-> b] :
     r \in {<<"POST", "/api">>, <<"PUT", "/snapshot">>}, b \in BOOLEAN}

\* A list no earlier trail was: its head is cut off, and its last record has no
\* hash.
BrokenTrail == <<[id |-> 0, prev |-> 2, for |-> [route |-> <<"POST", "/api">>, bearer |-> TRUE]]>>
BrokenTrails == {BrokenTrail}

Symmetry == Permutations(Client)
=============================================================================
