--------------------------- MODULE MCInstanceLock ---------------------------
(* Instances of InstanceLock.  PIDs are interchangeable.                   *)
EXTENDS InstanceLock, TLC

Symmetric == Permutations(Pids)
=============================================================================
