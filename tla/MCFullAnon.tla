----------------------------- MODULE MCFullAnon -----------------------------
(* Instances of FullAnon.  Task slots are interchangeable, and *)
(* so are the UIDs the user may confine.                                   *)
EXTENDS FullAnon, TLC

CONSTANTS t1, t2, t3, u1, u2

Symmetric == Permutations(Slots) \cup Permutations(OtherUids)
=============================================================================
