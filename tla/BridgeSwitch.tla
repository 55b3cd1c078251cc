---------------------------- MODULE BridgeSwitch ----------------------------
(***************************************************************************)
(* What the bridge failover promises, whatever tasks carry it out: the     *)
(* list of candidate bridges only grows, a candidate becomes eligible by   *)
(* passing a health check, and the client that carries traffic is only     *)
(* ever moved to an eligible candidate.  In particular a client that runs  *)
(* through a bridge never falls back to a direct Tor connection.           *)
(***************************************************************************)
EXTENDS Naturals

VARIABLES
    listed,   \* number of candidate bridges; candidate i is one of 1..listed
    verified, \* the candidates that have passed a health check
    client    \* the candidate the live client uses, 0 for a direct connection

vars == <<listed, verified, client>>

Init ==
    /\ listed \in Nat
    /\ verified = {}
    /\ client = 0

List == 
    /\ listed' = listed + 1
    /\ UNCHANGED <<verified, client>>

Verify ==
    /\ \E i \in 1..listed : verified' = verified \cup {i}
    /\ UNCHANGED <<listed, client>>

Switch ==
    /\ client' \in verified
    /\ UNCHANGED <<listed, verified>>

Next == List \/ Verify \/ Switch

Spec == Init /\ [][Next]_vars
=============================================================================
