----------------------------- MODULE MCDiscovery ------------------------------
(* Two peers asked with packets of two hashes: a full packet and a rest.    *)
(* One hash is with one peer, one with the other, one with nobody.          *)
EXTENDS Discovery

CONSTANTS p1, p2, h1, h2, h3, h4

MCPeers == {p1, p2}
MCHashes == {h1, h2, h3, h4}
MCHas == [p \in MCPeers |-> IF p = p1 THEN {h1, h2} ELSE {h2, h3}]
MCNeedlist == <<h1, h4, h3>>
=============================================================================
