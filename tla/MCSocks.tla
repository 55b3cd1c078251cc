------------------------------ MODULE MCSocks -------------------------------
(* Instances of Socks.  Connections are interchangeable.                   *)
EXTENDS Socks, TLC

CONSTANTS s1, s2, alice

Symmetric == Permutations(Sessions)
=============================================================================
