-------------------------- MODULE MCBridgeFailover --------------------------
(***************************************************************************)
(* Instances of BridgeFailover: vanilla bridges b1 and b2, an obfs4 bridge *)
(* b3, a line naming a transport that is not installed, and a line that    *)
(* does not parse.                                                         *)
(***************************************************************************)
EXTENDS BridgeFailover, TLC

CONSTANTS b1, b2, b3, noBinary, garbage, obfs4, meek

MCTransport == [l \in Lines |->
    CASE l = b3 -> obfs4 [] l = noBinary -> meek [] OTHER -> NoTransport]

MCTwo == <<b1, b2>>
MCOne == <<b1>>
\* The tasks that add a bridge are interchangeable.
Symmetric == Permutations(Adders)
=============================================================================
