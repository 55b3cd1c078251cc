------------------------- MODULE InstanceLockProofs -------------------------
(***************************************************************************)
(* The single-instance guard, for every set of PIDs.  SingleInstance is    *)
(* inductive only with what an instance inside acquire() knows: while      *)
(* another one runs, the PID it goes after is that one's, and it does not  *)
(* get to write the file.  The status socket rests on it: between unlink   *)
(* and bind nobody else puts a file there, because nobody else runs.       *)
(***************************************************************************)
EXTENDS InstanceLock, TLAPS

\* An instance is a live anonet process.
Alive == \A p \in Pids : pc[p] # "none" => proc[p] = "anonet"

\* Without a race one instance acquires at a time, the one that runs is named
\* by the PID file, and the acquiring one is after it.
Chase ==
    ~ raced =>
        /\ \A p, q \in Acquiring : p = q
        /\ \A p \in Running : pidFile = p
        /\ \A p \in Acquiring, q \in Running :
              pc[p] = "read" \/ (pc[p] # "write" /\ target[p] = q)

\* Only an instance past acquire() has a status server.
Unserved ==
    \A p \in Pids : pc[p] \notin {"running", "leaving"} => status[p] = "unbound"

\* The one instance that runs owns the socket file, or has just removed it.
Owned ==
    ~ raced /\ ~ late =>
        \A p \in Running :
            /\ status[p] = "removed" => sock = NoPid
            /\ status[p] \in {"listening", "failed"} => sock = p

IndInv == TypeOK /\ Alive /\ Chase /\ Unserved /\ Owned

\* Every step of acquire(), Drop and the machine keeps the types.
LEMMA StepTypeOK ==
    ASSUME TypeOK, Next
    PROVE  TypeOK'
  <1> PICK p \in Pids :
        \/ Launch(p) \/ InstanceStep(p) \/ DropGuard(p) \/ Crash(p)
        \/ OtherStarts(p) \/ OtherEnds(p)
    BY DEF Next
  <1> USE DEF TypeOK, Goto, Die, socketVars
  <1>1. CASE Launch(p)
    BY <1>1 DEF Launch
  <1>2. CASE ReadPidFile(p)
    BY <1>2 DEF ReadPidFile
  <1>3. CASE SendTerm(p)
    BY <1>3 DEF SendTerm, ProcessAlive
  <1>4. CASE WaitTerm(p)
    BY <1>4 DEF WaitTerm, AfterTerm
  <1>5. CASE SendKill(p)
    BY <1>5 DEF SendKill, ProcessAlive
  <1>6. CASE WaitKill(p)
    BY <1>6 DEF WaitKill
  <1>7. CASE WritePidFile(p)
    BY <1>7 DEF WritePidFile
  <1>8. CASE DropGuard(p)
    BY <1>8 DEF DropGuard
  <1>9. CASE Leave(p)
    BY <1>9 DEF Leave
  <1>10. CASE Crash(p)
    BY <1>10 DEF Crash
  <1>11. CASE OtherStarts(p)
    BY <1>11 DEF OtherStarts
  <1>12. CASE OtherEnds(p)
    BY <1>12 DEF OtherEnds
  <1>13. CASE RemoveSocket(p)
    BY <1>13 DEF RemoveSocket, Serving, Unlinked
  <1>14. CASE BindSocket(p)
    BY <1>14 DEF BindSocket, Serving
  <1> QED
    BY <1>1, <1>2, <1>3, <1>4, <1>5, <1>6, <1>7, <1>8, <1>9, <1>10, <1>11,
       <1>12, <1>13, <1>14 DEF InstanceStep

\* Signals, exits and crashes end the instance together with the process.
LEMMA StepAlive ==
    ASSUME TypeOK, Alive, Next
    PROVE  Alive'
  <1> PICK p \in Pids :
        \/ Launch(p) \/ InstanceStep(p) \/ DropGuard(p) \/ Crash(p)
        \/ OtherStarts(p) \/ OtherEnds(p)
    BY DEF Next
  <1> USE DEF TypeOK, Alive, Goto, Die, socketVars
  <1>1. CASE Launch(p)
    BY <1>1 DEF Launch
  <1>2. CASE ReadPidFile(p)
    BY <1>2 DEF ReadPidFile
  <1>3. CASE SendTerm(p)
    BY <1>3 DEF SendTerm, ProcessAlive
  <1>4. CASE WaitTerm(p)
    BY <1>4 DEF WaitTerm
  <1>5. CASE SendKill(p)
    BY <1>5 DEF SendKill, ProcessAlive
  <1>6. CASE WaitKill(p)
    BY <1>6 DEF WaitKill
  <1>7. CASE WritePidFile(p)
    BY <1>7 DEF WritePidFile
  <1>8. CASE DropGuard(p)
    BY <1>8 DEF DropGuard
  <1>9. CASE Leave(p)
    BY <1>9 DEF Leave
  <1>10. CASE Crash(p)
    BY <1>10 DEF Crash
  <1>11. CASE OtherStarts(p)
    BY <1>11 DEF OtherStarts
  <1>12. CASE OtherEnds(p)
    BY <1>12 DEF OtherEnds
  <1>13. CASE RemoveSocket(p)
    BY <1>13 DEF RemoveSocket, Serving, Unlinked
  <1>14. CASE BindSocket(p)
    BY <1>14 DEF BindSocket, Serving
  <1> QED
    BY <1>1, <1>2, <1>3, <1>4, <1>5, <1>6, <1>7, <1>8, <1>9, <1>10, <1>11,
       <1>12, <1>13, <1>14 DEF InstanceStep

\* An instance writes the PID file only when the one it was after is gone.
LEMMA StepChase ==
    ASSUME TypeOK, Alive, Chase, Next
    PROVE  Chase'
  <1> PICK p \in Pids :
        \/ Launch(p) \/ InstanceStep(p) \/ DropGuard(p) \/ Crash(p)
        \/ OtherStarts(p) \/ OtherEnds(p)
    BY DEF Next
  <1> USE PidAssumption DEF TypeOK, Alive, Chase, Goto, Acquiring, Running
  <1>1. CASE Launch(p)
    <2> SUFFICES ASSUME ~ raced' PROVE Chase'
      BY DEF Chase
    <2>1. ~ raced /\ Acquiring = {}
      BY <1>1 DEF Launch
    <2>2. \A q \in Pids : q \in Acquiring' => q = p
      BY <1>1, <2>1 DEF Launch
    <2>3. \A q \in Pids : q \in Running' => q \in Running
      BY <1>1 DEF Launch
    <2>4. pc'[p] = "read" /\ pidFile' = pidFile
      BY <1>1 DEF Launch
    <2> QED
      BY <2>1, <2>2, <2>3, <2>4
  <1>2. CASE ReadPidFile(p)
    BY <1>2 DEF ReadPidFile, ProcessAlive
  <1>3. CASE SendTerm(p)
    BY <1>3 DEF SendTerm, ProcessAlive
  <1>4. CASE WaitTerm(p)
    BY <1>4 DEF WaitTerm, AfterTerm, ProcessAlive
  <1>5. CASE SendKill(p)
    BY <1>5 DEF SendKill, ProcessAlive
  <1>6. CASE WaitKill(p)
    BY <1>6 DEF WaitKill, ProcessAlive
  <1>7. CASE WritePidFile(p)
    BY <1>7 DEF WritePidFile
  <1>8. CASE DropGuard(p)
    BY <1>8 DEF DropGuard
  <1>9. CASE Leave(p)
    BY <1>9 DEF Leave
  <1>10. CASE Crash(p)
    BY <1>10 DEF Crash
  <1>11. CASE OtherStarts(p)
    BY <1>11 DEF OtherStarts
  <1>12. CASE OtherEnds(p)
    BY <1>12 DEF OtherEnds
  <1>13. CASE RemoveSocket(p)
    BY <1>13 DEF RemoveSocket, Serving, Unlinked
  <1>14. CASE BindSocket(p)
    BY <1>14 DEF BindSocket, Serving
  <1> QED
    BY <1>1, <1>2, <1>3, <1>4, <1>5, <1>6, <1>7, <1>8, <1>9, <1>10, <1>11,
       <1>12, <1>13, <1>14 DEF InstanceStep

\* A status server ends with its process.
LEMMA StepUnserved ==
    ASSUME TypeOK, Alive, Unserved, Next
    PROVE  Unserved'
  <1> PICK p \in Pids :
        \/ Launch(p) \/ InstanceStep(p) \/ DropGuard(p) \/ Crash(p)
        \/ OtherStarts(p) \/ OtherEnds(p)
    BY DEF Next
  <1> USE DEF TypeOK, Alive, Unserved, Goto, Die, socketVars
  <1>1. CASE Launch(p)
    BY <1>1 DEF Launch
  <1>2. CASE ReadPidFile(p)
    BY <1>2 DEF ReadPidFile
  <1>3. CASE SendTerm(p)
    BY <1>3 DEF SendTerm, ProcessAlive
  <1>4. CASE WaitTerm(p)
    BY <1>4 DEF WaitTerm
  <1>5. CASE SendKill(p)
    BY <1>5 DEF SendKill, ProcessAlive
  <1>6. CASE WaitKill(p)
    BY <1>6 DEF WaitKill
  <1>7. CASE WritePidFile(p)
    BY <1>7 DEF WritePidFile
  <1>8. CASE DropGuard(p)
    BY <1>8 DEF DropGuard
  <1>9. CASE Leave(p)
    BY <1>9 DEF Leave
  <1>10. CASE Crash(p)
    BY <1>10 DEF Crash
  <1>11. CASE OtherStarts(p)
    BY <1>11 DEF OtherStarts
  <1>12. CASE OtherEnds(p)
    BY <1>12 DEF OtherEnds
  <1>13. CASE RemoveSocket(p)
    BY <1>13 DEF RemoveSocket, Serving, Unlinked
  <1>14. CASE BindSocket(p)
    BY <1>14 DEF BindSocket, Serving
  <1> QED
    BY <1>1, <1>2, <1>3, <1>4, <1>5, <1>6, <1>7, <1>8, <1>9, <1>10, <1>11,
       <1>12, <1>13, <1>14 DEF InstanceStep

\* Nobody but the instance that runs touches its socket file.
LEMMA StepOwned ==
    ASSUME TypeOK, Alive, Chase, Unserved, Owned, Next
    PROVE  Owned'
  <1> PICK p \in Pids :
        \/ Launch(p) \/ InstanceStep(p) \/ DropGuard(p) \/ Crash(p)
        \/ OtherStarts(p) \/ OtherEnds(p)
    BY DEF Next
  <1> USE PidAssumption DEF TypeOK, Alive, Unserved, Owned, Goto,
           Die, socketVars, Running
  <1>1. CASE Launch(p)
    BY <1>1 DEF Launch
  <1>2. CASE ReadPidFile(p)
    BY <1>2 DEF ReadPidFile
  <1>3. CASE SendTerm(p)
    BY <1>3 DEF SendTerm, ProcessAlive
  <1>4. CASE WaitTerm(p)
    BY <1>4 DEF WaitTerm
  <1>5. CASE SendKill(p)
    BY <1>5 DEF SendKill, ProcessAlive
  <1>6. CASE WaitKill(p)
    BY <1>6 DEF WaitKill
  <1>7. CASE WritePidFile(p)
    BY <1>7 DEF WritePidFile
  <1>8. CASE DropGuard(p)
    BY <1>8 DEF DropGuard
  <1>9. CASE Leave(p)
    BY <1>9 DEF Leave
  <1>10. CASE Crash(p)
    BY <1>10 DEF Crash
  <1>11. CASE OtherStarts(p)
    BY <1>11 DEF OtherStarts
  <1>12. CASE OtherEnds(p)
    BY <1>12 DEF OtherEnds
  <1>13. CASE RemoveSocket(p)
    BY <1>13 DEF RemoveSocket, Serving, Unlinked, Chase
  <1>14. CASE BindSocket(p)
    <2> SUFFICES ASSUME ~ raced', ~ late', NEW q \in Running'
                 PROVE  /\ status'[q] # "removed"
                        /\ status'[q] \in {"listening", "failed"} => sock' = q
      BY DEF Owned
    <2>1. ~ raced /\ ~ late /\ pc[p] = "running" /\ status[p] = "removed"
      BY <1>14 DEF BindSocket, Serving
    <2>2. q = p
      BY <1>14, <2>1 DEF BindSocket, Chase
    <2>3. sock = NoPid
      BY <2>1
    <2>4. sock' = p /\ status'[p] = "listening"
      BY <1>14, <2>3 DEF BindSocket
    <2> QED
      BY <2>2, <2>4
  <1> QED
    BY <1>1, <1>2, <1>3, <1>4, <1>5, <1>6, <1>7, <1>8, <1>9, <1>10, <1>11,
       <1>12, <1>13, <1>14 DEF InstanceStep

\* The strengthened invariant holds throughout.
THEOREM Inductive == Spec => []IndInv
  <1>1. Init => IndInv
    BY DEF Init, IndInv, TypeOK, Alive, Chase, Unserved, Owned, Acquiring,
          Running
  <1>2. IndInv /\ [Next]_vars => IndInv'
    <2> SUFFICES ASSUME IndInv, [Next]_vars PROVE IndInv'
      OBVIOUS
    <2>1. CASE Next
      BY <2>1, StepTypeOK, StepAlive, StepChase, StepUnserved, StepOwned
         DEF IndInv
    <2>2. CASE UNCHANGED vars
      BY <2>2 DEF vars, socketVars, IndInv, TypeOK, Alive, Chase, Unserved,
                  Owned, Acquiring, Running
    <2> QED
      BY <2>1, <2>2
  <1> QED
    BY <1>1, <1>2, PTL DEF Spec

\* The PID file, the processes and acquire()'s state keep their types.
THEOREM TypeCorrect == Spec => []TypeOK
  BY Inductive, PTL DEF IndInv

\* Whatever the number of PIDs, and whoever crashes or reuses one, acquire()
\* lets at most one instance run as long as no two acquire at a time.
THEOREM SingleInstanceHolds == Spec => []SingleInstance
  <1>1. IndInv => SingleInstance
    BY DEF IndInv, Chase, SingleInstance, Running
  <1> QED
    BY <1>1, Inductive, PTL

\* Whatever files crashed instances left, `anonet status` reaches the instance
\* that runs once its server is past its bind.
THEOREM StatusReachesInstanceHolds == Spec => []StatusReachesInstance
  <1>1. IndInv => StatusReachesInstance
    BY DEF IndInv, Owned, StatusReachesInstance, Reached
  <1> QED
    BY <1>1, Inductive, PTL
=============================================================================
