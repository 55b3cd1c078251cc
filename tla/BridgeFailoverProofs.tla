------------------------ MODULE BridgeFailoverProofs ------------------------
(***************************************************************************)
(* Proofs about BridgeFailover for any set of lines, configuration, number *)
(* of concurrent try_add_bridge tasks and threshold.                       *)
(***************************************************************************)
EXTENDS BridgeFailover, FiniteSetTheorems, TLAPS

MonitorLabels == {"startScan", "startBoot", "startDirect", "exited", "sleep",
                  "check", "scan", "boot", "replace", "setIdx", "setTel"}
AdderLabels == {"idle", "add", "push", "verify", "boot", "replace", "setIdx",
                "setTel", "done", "failed"}

\* The bridge a task is about to activate has passed a health check, and
\* what is being checked exists.
TargetsInv ==
    /\ pc[Monitor] \in MonitorLabels
    /\ \A a \in Adders : pc[a] \in AdderLabels
    /\ \A a \in Adders : ~ Started => pc[a] = "idle"
    /\ pc[Monitor] \in {"startScan", "scan"} => target[Monitor] \in 1..mCount
    /\ pc[Monitor] = "check" => mIdx # 0
    /\ pc[Monitor] = "startBoot" => target[Monitor] \in passed
    /\ \A a \in Adders : pc[a] = "verify" => target[a] \in 1..Len(candidates)
    /\ \A t \in Tasks : pc[t] \in {"boot", "replace", "setIdx", "setTel"}
                            => target[t] \in passed

\* What an activation that runs alone has done so far.
WindowInv ==
    ~ overlap =>
        /\ \A t, u \in InWindow : t = u
        /\ \A t \in InWindow : core = target[t]
        /\ \A t \in InWindow : pc[t] = "setTel" => activeIdx = target[t]
        /\ InWindow = {} => core = activeIdx /\ activeIdx = telActive

\* The registration that precedes an append is not undone before it.
PushInv ==
    /\ TransportsReady
    /\ \A a \in Adders : pc[a] = "push" => TransportsOf(line[a]) \subseteq transports

NoAdderSwitched == \A a \in Adders : pc[a] \notin {"setIdx", "setTel", "done"}

\* While no added bridge was activated the monitor's local state is accurate.
CountInv ==
    NoAdderSwitched =>
        /\ ~ overlap
        /\ pc[Monitor] \notin {"setIdx", "setTel"} => mFailures = streak
        /\ pc[Monitor] \in {"setIdx", "setTel"} => streak = 0
        /\ pc[Monitor] \in {"check", "scan", "boot", "replace"} => mIdx = core
        /\ pc[Monitor] \in {"scan", "boot", "replace"} => ThresholdReached(streak)

\* The candidates that have a row in the dashboard's table.
Rows == {table[k] : k \in DOMAIN table}

Increasing(s) == \A j, k \in DOMAIN s : j < k => s[j] < s[k]

\* The rows are in order, exist, and are missing only for added bridges
\* whose first check has not ended; a bridge that passed a check has one.
RowsInv ==
    /\ table \in Seq(Nat)
    /\ Increasing(table)
    /\ Rows \subseteq 1..Len(candidates)
    /\ \A i \in 1..Len(candidates) :
         i \in Rows \/ \E a \in Adders : pc[a] = "verify" /\ target[a] = i
    /\ passed \subseteq Rows
    /\ telActive \in Rows \cup {0}

IndInv == TypeOK /\ TargetsInv /\ WindowInv /\ PushInv /\ CountInv /\ RowsInv
          /\ FailuresShown

-----------------------------------------------------------------------------
\* Every step keeps the types.
LEMMA TypeStep ==
    ASSUME TypeOK, TargetsInv, [Next]_vars
    PROVE  TypeOK'
<1> USE LinesAssumption, TaskAssumption, ThresholdAssumption DEF TypeOK, TaskLabels, TargetsInv, Tasks
<1>1. CASE ScanHit
  <2>1. target[Monitor] \in 1..Len(candidates)
    BY <1>1 DEF ScanHit
  <2>2. passed' \subseteq 1..Len(candidates)
    BY <1>1, <2>1 DEF ScanHit
  <2>3. pc' \in [Tasks -> TaskLabels]
    BY <1>1 DEF ScanHit, Goto
  <2>4. /\ telFailures' \in 0..MaxFailures /\ mFailures' \in 0..MaxFailures
        /\ streak' \in 0..MaxFailures
    BY <1>1 DEF ScanHit, Reset
  <2>5. UNCHANGED <<candidates, transports, core, activeIdx, telActive, lastError,
                    checkNow, up, target, line, mIdx, mCount, overlap>>
    BY <1>1 DEF ScanHit, listVars
  <2>6. QED
    BY <2>2, <2>3, <2>4, <2>5
<1>2. CASE ScanMiss
  BY <1>2 DEF ScanMiss, At, Goto, listVars, shownVars, monitorVars, historyVars
<1>3. CASE StartupBridge
  <2>1. target[Monitor] \in 1..Len(candidates)
    BY <1>3 DEF StartupBridge, At
  <2>2. QED
    BY <1>3, <2>1 DEF StartupBridge, At, Goto, listVars, monitorVars, historyVars
<1>4. CASE StartupDirect
  BY <1>4 DEF StartupDirect, At, Goto, listVars, shownVars, monitorVars, historyVars
<1>5. CASE WakeByTimer
  BY <1>5 DEF WakeByTimer, At, Goto, listVars, shownVars, monitorVars, historyVars
<1>6. CASE WakeByNotify
  BY <1>6 DEF WakeByNotify, At, Goto, listVars, shownVars, monitorVars, historyVars
<1>7. CASE CheckOk
  <2>1. mIdx \in 1..Len(candidates)
    BY <1>7 DEF CheckOk, At
  <2>2. passed' \subseteq 1..Len(candidates)
    BY <1>7, <2>1 DEF CheckOk
  <2>3. QED
    BY <1>7, <2>2 DEF CheckOk, At, Goto, listVars, Reset
<1>8. CASE CheckFail
  BY <1>8 DEF CheckFail, At, Goto, listVars, shownVars, monitorVars, historyVars, Increment, ScanStart, ShownFailures, CandidateCount
<1>9. CASE CheckNow
  BY <1>9 DEF CheckNow, At, Goto, listVars, shownVars, monitorVars, historyVars
<1>10. CASE NetworkChange
  BY <1>10 DEF NetworkChange, At, Goto, listVars, shownVars, monitorVars, historyVars
<1>11. ASSUME NEW a \in Adders, SubmitBridge(a) PROVE TypeOK'
  <2>1. pc' \in [Tasks -> TaskLabels] /\ line' \in [Adders -> Lines]
    BY <1>11 DEF SubmitBridge, Goto
  <2>2. /\ lastError' = FALSE
        /\ UNCHANGED <<candidates, transports, core, activeIdx, telActive,
                       telFailures, checkNow, up, target, mIdx, mFailures,
                       mCount, passed, overlap, streak>>
    BY <1>11 DEF SubmitBridge, listVars, monitorVars, historyVars
  <2>3. QED
    BY <2>1, <2>2
<1>12. ASSUME NEW a \in Adders, AddReject(a) PROVE TypeOK'
  BY <1>12 DEF AddReject, At, Goto, listVars, shownVars, monitorVars, historyVars
<1>13. ASSUME NEW a \in Adders, AddAccept(a) PROVE TypeOK'
  BY <1>13 DEF AddAccept, At, Goto, listVars, shownVars, monitorVars, historyVars, EnsureTransport, TransportsOf
<1>14. ASSUME NEW a \in Adders, PushCandidate(a) PROVE TypeOK'
  BY <1>14 DEF PushCandidate, At, Goto, listVars, shownVars, monitorVars, historyVars
<1>15. ASSUME NEW a \in Adders, VerifyCandidate(a) PROVE TypeOK'
  BY <1>15 DEF VerifyCandidate, At, Goto, listVars, shownVars, monitorVars, historyVars
<1>16. ASSUME NEW t \in Tasks, BootOk(t) PROVE TypeOK'
  BY <1>16 DEF BootOk, At, Goto, listVars, shownVars, monitorVars, historyVars
<1>17. ASSUME NEW t \in Tasks, BootFail(t) PROVE TypeOK'
  BY <1>17 DEF BootFail, At, Goto, listVars, shownVars, monitorVars, historyVars
<1>18. ASSUME NEW t \in Tasks, Replace(t) PROVE TypeOK'
  BY <1>18 DEF Replace, At, Goto, listVars, shownVars, monitorVars, historyVars
<1>19. ASSUME NEW t \in Tasks, SetIdx(t) PROVE TypeOK'
  BY <1>19 DEF SetIdx, At, Goto, listVars, shownVars, monitorVars, historyVars, NewIdx
<1>20. ASSUME NEW t \in Tasks, SetTel(t) PROVE TypeOK'
  BY <1>20 DEF SetTel, At, Goto, listVars, shownVars, monitorVars, historyVars, Reset
<1>21. CASE UNCHANGED vars
  BY <1>21 DEF vars, listVars, shownVars, monitorVars, historyVars
<1>22. QED
  BY <1>1, <1>2, <1>3, <1>4, <1>5, <1>6, <1>7, <1>8, <1>9, <1>10, <1>11, <1>12, <1>13, <1>14, <1>15, <1>16, <1>17, <1>18, <1>19, <1>20, <1>21
     DEF Next, MonitorStep, AdderStep, Activate, Tasks

\* Every step keeps TargetsInv.
LEMMA TargetsStep ==
    ASSUME TypeOK, TargetsInv, [Next]_vars
    PROVE  TargetsInv'
<1> USE LinesAssumption, TaskAssumption, ThresholdAssumption DEF TypeOK, TaskLabels, TargetsInv, Tasks, Started, MonitorLabels, AdderLabels
<1>1. CASE ScanHit
  BY <1>1 DEF ScanHit, At, Goto, listVars, shownVars, monitorVars, historyVars
<1>2. CASE ScanMiss
  <2>1. UNCHANGED <<candidates, mCount, mIdx, passed>>
    BY <1>2 DEF ScanMiss, listVars, monitorVars, historyVars
  <2>2. \/ /\ target[Monitor] < mCount
           /\ target' = [target EXCEPT ![Monitor] = @ + 1]
           /\ UNCHANGED pc
        \/ /\ \E l \in {"sleep", "startDirect"} : Goto(Monitor, l)
           /\ UNCHANGED target
    BY <1>2 DEF ScanMiss
  <2>3. QED
    BY <1>2, <2>1, <2>2 DEF ScanMiss, At, Goto
<1>3. CASE StartupBridge
  BY <1>3 DEF StartupBridge, At, Goto, listVars, shownVars, monitorVars, historyVars
<1>4. CASE StartupDirect
  BY <1>4 DEF StartupDirect, At, Goto, listVars, shownVars, monitorVars, historyVars
<1>5. CASE WakeByTimer
  BY <1>5 DEF WakeByTimer, At, Goto, listVars, shownVars, monitorVars, historyVars
<1>6. CASE WakeByNotify
  BY <1>6 DEF WakeByNotify, At, Goto, listVars, shownVars, monitorVars, historyVars
<1>7. CASE CheckOk
  BY <1>7 DEF CheckOk, At, Goto, listVars, shownVars, monitorVars, historyVars
<1>8. CASE CheckFail
  <2>1. 1 \in 1..Len(candidates)
    BY <1>8 DEF CheckFail, At
  <2>2. /\ UNCHANGED <<candidates, mIdx, passed>>
        /\ \/ /\ Goto(Monitor, "scan")
              /\ target' = [target EXCEPT ![Monitor] = 1]
              /\ mCount' = Len(candidates)
           \/ Goto(Monitor, "sleep") /\ UNCHANGED <<target, mCount>>
    BY <1>8 DEF CheckFail, listVars, ScanStart, CandidateCount
  <2>3. CASE Goto(Monitor, "scan") /\ target' = [target EXCEPT ![Monitor] = 1]
             /\ mCount' = Len(candidates)
    BY <1>8, <2>1, <2>2, <2>3 DEF CheckFail, At, Goto
  <2>4. CASE Goto(Monitor, "sleep") /\ UNCHANGED <<target, mCount>>
    BY <1>8, <2>2, <2>4 DEF CheckFail, At, Goto
  <2>5. QED
    BY <2>2, <2>3, <2>4
<1>9. CASE CheckNow
  BY <1>9 DEF CheckNow, At, Goto, listVars, shownVars, monitorVars, historyVars
<1>10. CASE NetworkChange
  BY <1>10 DEF NetworkChange, At, Goto, listVars, shownVars, monitorVars, historyVars
<1>11. ASSUME NEW a \in Adders, SubmitBridge(a) PROVE TargetsInv'
  BY <1>11 DEF SubmitBridge, At, Goto, listVars, shownVars, monitorVars, historyVars
<1>12. ASSUME NEW a \in Adders, AddReject(a) PROVE TargetsInv'
  BY <1>12 DEF AddReject, At, Goto, listVars, shownVars, monitorVars, historyVars
<1>13. ASSUME NEW a \in Adders, AddAccept(a) PROVE TargetsInv'
  BY <1>13 DEF AddAccept, At, Goto, listVars, shownVars, monitorVars, historyVars
<1>14. ASSUME NEW a \in Adders, PushCandidate(a) PROVE TargetsInv'
  <2>1. /\ candidates' = Append(candidates, line[a])
        /\ target' = [target EXCEPT ![a] = Len(candidates')]
        /\ pc' = [pc EXCEPT ![a] = "verify"] /\ pc[a] = "push"
        /\ UNCHANGED <<mIdx, mCount, passed>>
    BY <1>14 DEF PushCandidate, At, Goto, monitorVars, historyVars
  <2>2. Len(candidates') = Len(candidates) + 1 /\ Len(candidates) \in Nat
    BY <2>1
  <2>3. a # Monitor /\ a \in Tasks
    OBVIOUS
  <2>4. pc'[Monitor] = pc[Monitor] /\ target'[Monitor] = target[Monitor]
    BY <2>1, <2>3
  <2>5. \A t \in Tasks : IF t = a THEN pc'[t] = "verify" /\ target'[t] = Len(candidates) + 1
                                  ELSE pc'[t] = pc[t] /\ target'[t] = target[t]
    BY <2>1, <2>2, <2>3
  <2>6. QED
    BY <2>1, <2>2, <2>3, <2>4, <2>5
<1>15. ASSUME NEW a \in Adders, VerifyCandidate(a) PROVE TargetsInv'
  BY <1>15 DEF VerifyCandidate, At, Goto, listVars, shownVars, monitorVars, historyVars
<1>16. ASSUME NEW t \in Tasks, BootOk(t) PROVE TargetsInv'
  BY <1>16 DEF BootOk, At, Goto, listVars, shownVars, monitorVars, historyVars
<1>17. ASSUME NEW t \in Tasks, BootFail(t) PROVE TargetsInv'
  BY <1>17 DEF BootFail, At, Goto, listVars, shownVars, monitorVars, historyVars
<1>18. ASSUME NEW t \in Tasks, Replace(t) PROVE TargetsInv'
  BY <1>18 DEF Replace, At, Goto, listVars, shownVars, monitorVars, historyVars
<1>19. ASSUME NEW t \in Tasks, SetIdx(t) PROVE TargetsInv'
  BY <1>19 DEF SetIdx, At, Goto, listVars, shownVars, monitorVars, historyVars
<1>20. ASSUME NEW t \in Tasks, SetTel(t) PROVE TargetsInv'
  BY <1>20 DEF SetTel, At, Goto, listVars, shownVars, monitorVars, historyVars
<1>21. CASE UNCHANGED vars
  BY <1>21 DEF vars, listVars, shownVars, monitorVars, historyVars
<1>22. QED
  BY <1>1, <1>2, <1>3, <1>4, <1>5, <1>6, <1>7, <1>8, <1>9, <1>10, <1>11, <1>12, <1>13, <1>14, <1>15, <1>16, <1>17, <1>18, <1>19, <1>20, <1>21
     DEF Next, MonitorStep, AdderStep, Activate, Tasks

\* Every step keeps WindowInv.
LEMMA WindowStep ==
    ASSUME TypeOK, TargetsInv, WindowInv, [Next]_vars
    PROVE  WindowInv'
<1> USE TaskAssumption DEF TypeOK, TaskLabels, TargetsInv, WindowInv, InWindow, Tasks, Started, MonitorLabels, AdderLabels
<1>1. CASE ScanHit
  BY <1>1 DEF ScanHit, At, Goto, listVars, shownVars, monitorVars, historyVars
<1>2. CASE ScanMiss
  <2>1. UNCHANGED <<core, activeIdx, telActive, overlap>>
    BY <1>2 DEF ScanMiss, historyVars
  <2>2. /\ pc[Monitor] \in {"startScan", "scan"}
        /\ pc' = pc \/ \E l \in {"sleep", "startDirect"} : Goto(Monitor, l)
        /\ \A t \in Tasks : t # Monitor => target'[t] = target[t]
    BY <1>2 DEF ScanMiss
  <2>3. InWindow' = InWindow /\ Monitor \notin InWindow
    BY <2>2 DEF Goto
  <2>4. \A t \in InWindow : pc'[t] = pc[t] /\ target'[t] = target[t]
    BY <2>2, <2>3 DEF Goto
  <2>5. QED
    BY <2>1, <2>3, <2>4
<1>3. CASE StartupBridge
  BY <1>3 DEF StartupBridge, At, Goto, listVars, shownVars, monitorVars, historyVars
<1>4. CASE StartupDirect
  BY <1>4 DEF StartupDirect, At, Goto, listVars, shownVars, monitorVars, historyVars
<1>5. CASE WakeByTimer
  BY <1>5 DEF WakeByTimer, At, Goto, listVars, shownVars, monitorVars, historyVars
<1>6. CASE WakeByNotify
  BY <1>6 DEF WakeByNotify, At, Goto, listVars, shownVars, monitorVars, historyVars
<1>7. CASE CheckOk
  BY <1>7 DEF CheckOk, At, Goto, listVars, shownVars, monitorVars, historyVars
<1>8. CASE CheckFail
  BY <1>8 DEF CheckFail, At, Goto, listVars, shownVars, monitorVars, historyVars
<1>9. CASE CheckNow
  BY <1>9 DEF CheckNow, At, Goto, listVars, shownVars, monitorVars, historyVars
<1>10. CASE NetworkChange
  BY <1>10 DEF NetworkChange, At, Goto, listVars, shownVars, monitorVars, historyVars
<1>11. ASSUME NEW a \in Adders, SubmitBridge(a) PROVE WindowInv'
  BY <1>11 DEF SubmitBridge, At, Goto, listVars, shownVars, monitorVars, historyVars
<1>12. ASSUME NEW a \in Adders, AddReject(a) PROVE WindowInv'
  BY <1>12 DEF AddReject, At, Goto, listVars, shownVars, monitorVars, historyVars
<1>13. ASSUME NEW a \in Adders, AddAccept(a) PROVE WindowInv'
  BY <1>13 DEF AddAccept, At, Goto, listVars, shownVars, monitorVars, historyVars
<1>14. ASSUME NEW a \in Adders, PushCandidate(a) PROVE WindowInv'
  BY <1>14 DEF PushCandidate, At, Goto, listVars, shownVars, monitorVars, historyVars
<1>15. ASSUME NEW a \in Adders, VerifyCandidate(a) PROVE WindowInv'
  <2>1. InWindow' = InWindow
    BY <1>15 DEF VerifyCandidate, At, Goto
  <2>2. \A u \in InWindow : pc'[u] = pc[u] /\ target'[u] = target[u]
    BY <1>15 DEF VerifyCandidate, At, Goto
  <2>3. QED
    BY <1>15, <2>1, <2>2 DEF VerifyCandidate
<1>16. ASSUME NEW t \in Tasks, BootOk(t) PROVE WindowInv'
  BY <1>16 DEF BootOk, At, Goto, listVars, shownVars, monitorVars, historyVars
<1>17. ASSUME NEW t \in Tasks, BootFail(t) PROVE WindowInv'
  BY <1>17 DEF BootFail, At, Goto, listVars, shownVars, monitorVars, historyVars
<1>18. ASSUME NEW t \in Tasks, Replace(t) PROVE WindowInv'
  BY <1>18 DEF Replace, At, Goto, listVars, shownVars, monitorVars, historyVars
<1>19. ASSUME NEW t \in Tasks, SetIdx(t) PROVE WindowInv'
  BY <1>19 DEF SetIdx, At, Goto, listVars, shownVars, monitorVars, historyVars, NewIdx
<1>20. ASSUME NEW t \in Tasks, SetTel(t) PROVE WindowInv'
  BY <1>20 DEF SetTel, At, Goto, listVars, shownVars, monitorVars, historyVars
<1>21. CASE UNCHANGED vars
  BY <1>21 DEF vars, listVars, shownVars, monitorVars, historyVars
<1>22. QED
  BY <1>1, <1>2, <1>3, <1>4, <1>5, <1>6, <1>7, <1>8, <1>9, <1>10, <1>11, <1>12, <1>13, <1>14, <1>15, <1>16, <1>17, <1>18, <1>19, <1>20, <1>21
     DEF Next, MonitorStep, AdderStep, Activate, Tasks

\* Every step keeps PushInv.
LEMMA PushStep ==
    ASSUME TypeOK, TargetsInv, PushInv, [Next]_vars
    PROVE  PushInv'
<1> USE TaskAssumption DEF TypeOK, TaskLabels, TargetsInv, PushInv, TransportsReady, Tasks
<1>1. CASE ScanHit
  BY <1>1 DEF ScanHit, At, Goto, listVars, shownVars, monitorVars, historyVars
<1>2. CASE ScanMiss
  BY <1>2 DEF ScanMiss, At, Goto, listVars, shownVars, monitorVars, historyVars
<1>3. CASE StartupBridge
  BY <1>3 DEF StartupBridge, At, Goto, listVars, shownVars, monitorVars, historyVars
<1>4. CASE StartupDirect
  BY <1>4 DEF StartupDirect, At, Goto, listVars, shownVars, monitorVars, historyVars
<1>5. CASE WakeByTimer
  BY <1>5 DEF WakeByTimer, At, Goto, listVars, shownVars, monitorVars, historyVars
<1>6. CASE WakeByNotify
  BY <1>6 DEF WakeByNotify, At, Goto, listVars, shownVars, monitorVars, historyVars
<1>7. CASE CheckOk
  BY <1>7 DEF CheckOk, At, Goto, listVars, shownVars, monitorVars, historyVars
<1>8. CASE CheckFail
  BY <1>8 DEF CheckFail, At, Goto, listVars, shownVars, monitorVars, historyVars
<1>9. CASE CheckNow
  BY <1>9 DEF CheckNow, At, Goto, listVars, shownVars, monitorVars, historyVars
<1>10. CASE NetworkChange
  BY <1>10 DEF NetworkChange, At, Goto, listVars, shownVars, monitorVars, historyVars
<1>11. ASSUME NEW a \in Adders, SubmitBridge(a) PROVE PushInv'
  BY <1>11 DEF SubmitBridge, At, Goto, listVars, shownVars, monitorVars, historyVars
<1>12. ASSUME NEW a \in Adders, AddReject(a) PROVE PushInv'
  BY <1>12 DEF AddReject, At, Goto, listVars, shownVars, monitorVars, historyVars
<1>13. ASSUME NEW a \in Adders, AddAccept(a) PROVE PushInv'
  BY <1>13 DEF AddAccept, At, Goto, listVars, shownVars, monitorVars, historyVars, EnsureTransport
<1>14. ASSUME NEW a \in Adders, PushCandidate(a) PROVE PushInv'
  BY <1>14 DEF PushCandidate, At, Goto, listVars, shownVars, monitorVars, historyVars
<1>15. ASSUME NEW a \in Adders, VerifyCandidate(a) PROVE PushInv'
  BY <1>15 DEF VerifyCandidate, At, Goto, listVars, shownVars, monitorVars, historyVars
<1>16. ASSUME NEW t \in Tasks, BootOk(t) PROVE PushInv'
  BY <1>16 DEF BootOk, At, Goto, listVars, shownVars, monitorVars, historyVars
<1>17. ASSUME NEW t \in Tasks, BootFail(t) PROVE PushInv'
  BY <1>17 DEF BootFail, At, Goto, listVars, shownVars, monitorVars, historyVars
<1>18. ASSUME NEW t \in Tasks, Replace(t) PROVE PushInv'
  BY <1>18 DEF Replace, At, Goto, listVars, shownVars, monitorVars, historyVars
<1>19. ASSUME NEW t \in Tasks, SetIdx(t) PROVE PushInv'
  BY <1>19 DEF SetIdx, At, Goto, listVars, shownVars, monitorVars, historyVars
<1>20. ASSUME NEW t \in Tasks, SetTel(t) PROVE PushInv'
  BY <1>20 DEF SetTel, At, Goto, listVars, shownVars, monitorVars, historyVars
<1>21. CASE UNCHANGED vars
  BY <1>21 DEF vars, listVars, shownVars, monitorVars, historyVars
<1>22. QED
  BY <1>1, <1>2, <1>3, <1>4, <1>5, <1>6, <1>7, <1>8, <1>9, <1>10, <1>11, <1>12, <1>13, <1>14, <1>15, <1>16, <1>17, <1>18, <1>19, <1>20, <1>21
     DEF Next, MonitorStep, AdderStep, Activate, Tasks

\* Every step keeps CountInv.
LEMMA CountStep ==
    ASSUME TypeOK, TargetsInv, WindowInv, CountInv, [Next]_vars
    PROVE  CountInv'
<1> USE TaskAssumption, ThresholdAssumption DEF TypeOK, TaskLabels, TargetsInv, WindowInv, CountInv, NoAdderSwitched, InWindow, Tasks, Started, MonitorLabels, AdderLabels, ThresholdReached
<1>1. CASE ScanHit
  BY <1>1 DEF ScanHit, At, Goto, listVars, shownVars, monitorVars, historyVars, Reset
<1>2. CASE ScanMiss
  BY <1>2 DEF ScanMiss, At, Goto, listVars, shownVars, monitorVars, historyVars
<1>3. CASE StartupBridge
  BY <1>3 DEF StartupBridge, At, Goto, listVars, shownVars, monitorVars, historyVars
<1>4. CASE StartupDirect
  BY <1>4 DEF StartupDirect, At, Goto, listVars, shownVars, monitorVars, historyVars
<1>5. CASE WakeByTimer
  BY <1>5 DEF WakeByTimer, At, Goto, listVars, shownVars, monitorVars, historyVars
<1>6. CASE WakeByNotify
  BY <1>6 DEF WakeByNotify, At, Goto, listVars, shownVars, monitorVars, historyVars
<1>7. CASE CheckOk
  BY <1>7 DEF CheckOk, At, Goto, listVars, shownVars, monitorVars, historyVars, Reset
<1>8. CASE CheckFail
  BY <1>8 DEF CheckFail, At, Goto, listVars, shownVars, monitorVars, historyVars, Increment, ScanStart
<1>9. CASE CheckNow
  BY <1>9 DEF CheckNow, At, Goto, listVars, shownVars, monitorVars, historyVars
<1>10. CASE NetworkChange
  BY <1>10 DEF NetworkChange, At, Goto, listVars, shownVars, monitorVars, historyVars
<1>11. ASSUME NEW a \in Adders, SubmitBridge(a) PROVE CountInv'
  BY <1>11 DEF SubmitBridge, At, Goto, listVars, shownVars, monitorVars, historyVars
<1>12. ASSUME NEW a \in Adders, AddReject(a) PROVE CountInv'
  BY <1>12 DEF AddReject, At, Goto, listVars, shownVars, monitorVars, historyVars
<1>13. ASSUME NEW a \in Adders, AddAccept(a) PROVE CountInv'
  BY <1>13 DEF AddAccept, At, Goto, listVars, shownVars, monitorVars, historyVars
<1>14. ASSUME NEW a \in Adders, PushCandidate(a) PROVE CountInv'
  BY <1>14 DEF PushCandidate, At, Goto, listVars, shownVars, monitorVars, historyVars
<1>15. ASSUME NEW a \in Adders, VerifyCandidate(a) PROVE CountInv'
  BY <1>15 DEF VerifyCandidate, At, Goto, listVars, shownVars, monitorVars, historyVars
<1>16. ASSUME NEW t \in Tasks, BootOk(t) PROVE CountInv'
  BY <1>16 DEF BootOk, At, Goto, listVars, shownVars, monitorVars, historyVars
<1>17. ASSUME NEW t \in Tasks, BootFail(t) PROVE CountInv'
  BY <1>17 DEF BootFail, At, Goto, listVars, shownVars, monitorVars, historyVars
<1>18. ASSUME NEW t \in Tasks, Replace(t) PROVE CountInv'
  BY <1>18 DEF Replace, At, Goto, listVars, shownVars, monitorVars, historyVars
<1>19. ASSUME NEW t \in Tasks, SetIdx(t) PROVE CountInv'
  BY <1>19 DEF SetIdx, At, Goto, listVars, shownVars, monitorVars, historyVars
<1>20. ASSUME NEW t \in Tasks, SetTel(t) PROVE CountInv'
  <2>1. CASE t = Monitor
    BY <1>20, <2>1 DEF SetTel, At, Goto, Reset, historyVars
  <2>2. CASE t \in Adders
    BY <1>20, <2>2 DEF SetTel, At, Goto
  <2>3. QED
    BY <2>1, <2>2
<1>21. CASE UNCHANGED vars
  BY <1>21 DEF vars, listVars, shownVars, monitorVars, historyVars
<1>22. QED
  BY <1>1, <1>2, <1>3, <1>4, <1>5, <1>6, <1>7, <1>8, <1>9, <1>10, <1>11, <1>12, <1>13, <1>14, <1>15, <1>16, <1>17, <1>18, <1>19, <1>20, <1>21
     DEF Next, MonitorStep, AdderStep, Activate, Tasks

\* Every step keeps FailuresShown.
LEMMA ShownStep ==
    ASSUME TypeOK, FailuresShown, [Next]_vars
    PROVE  FailuresShown'
<1> USE DEF FailuresShown, TypeOK
<1>1. CASE ScanHit
  BY <1>1 DEF ScanHit, At, Goto, listVars, shownVars, monitorVars, historyVars, Reset
<1>2. CASE ScanMiss
  BY <1>2 DEF ScanMiss, At, Goto, listVars, shownVars, monitorVars, historyVars
<1>3. CASE StartupBridge
  BY <1>3 DEF StartupBridge, At, Goto, listVars, shownVars, monitorVars, historyVars
<1>4. CASE StartupDirect
  BY <1>4 DEF StartupDirect, At, Goto, listVars, shownVars, monitorVars, historyVars
<1>5. CASE WakeByTimer
  BY <1>5 DEF WakeByTimer, At, Goto, listVars, shownVars, monitorVars, historyVars
<1>6. CASE WakeByNotify
  BY <1>6 DEF WakeByNotify, At, Goto, listVars, shownVars, monitorVars, historyVars
<1>7. CASE CheckOk
  BY <1>7 DEF CheckOk, At, Goto, listVars, shownVars, monitorVars, historyVars, Reset
<1>8. CASE CheckFail
  BY <1>8 DEF CheckFail, At, Goto, listVars, shownVars, monitorVars, historyVars, ShownFailures
<1>9. CASE CheckNow
  BY <1>9 DEF CheckNow, At, Goto, listVars, shownVars, monitorVars, historyVars
<1>10. CASE NetworkChange
  BY <1>10 DEF NetworkChange, At, Goto, listVars, shownVars, monitorVars, historyVars
<1>11. ASSUME NEW a \in Adders, SubmitBridge(a) PROVE FailuresShown'
  BY <1>11 DEF SubmitBridge, At, Goto, listVars, shownVars, monitorVars, historyVars
<1>12. ASSUME NEW a \in Adders, AddReject(a) PROVE FailuresShown'
  BY <1>12 DEF AddReject, At, Goto, listVars, shownVars, monitorVars, historyVars
<1>13. ASSUME NEW a \in Adders, AddAccept(a) PROVE FailuresShown'
  BY <1>13 DEF AddAccept, At, Goto, listVars, shownVars, monitorVars, historyVars
<1>14. ASSUME NEW a \in Adders, PushCandidate(a) PROVE FailuresShown'
  BY <1>14 DEF PushCandidate, At, Goto, listVars, shownVars, monitorVars, historyVars
<1>15. ASSUME NEW a \in Adders, VerifyCandidate(a) PROVE FailuresShown'
  BY <1>15 DEF VerifyCandidate, At, Goto, listVars, shownVars, monitorVars, historyVars
<1>16. ASSUME NEW t \in Tasks, BootOk(t) PROVE FailuresShown'
  BY <1>16 DEF BootOk, At, Goto, listVars, shownVars, monitorVars, historyVars
<1>17. ASSUME NEW t \in Tasks, BootFail(t) PROVE FailuresShown'
  BY <1>17 DEF BootFail, At, Goto, listVars, shownVars, monitorVars, historyVars
<1>18. ASSUME NEW t \in Tasks, Replace(t) PROVE FailuresShown'
  BY <1>18 DEF Replace, At, Goto, listVars, shownVars, monitorVars, historyVars
<1>19. ASSUME NEW t \in Tasks, SetIdx(t) PROVE FailuresShown'
  BY <1>19 DEF SetIdx, At, Goto, listVars, shownVars, monitorVars, historyVars
<1>20. ASSUME NEW t \in Tasks, SetTel(t) PROVE FailuresShown'
  BY <1>20 DEF SetTel, At, Goto, listVars, shownVars, monitorVars, historyVars, Reset
<1>21. CASE UNCHANGED vars
  BY <1>21 DEF vars, listVars, shownVars, monitorVars, historyVars
<1>22. QED
  BY <1>1, <1>2, <1>3, <1>4, <1>5, <1>6, <1>7, <1>8, <1>9, <1>10, <1>11, <1>12, <1>13, <1>14, <1>15, <1>16, <1>17, <1>18, <1>19, <1>20, <1>21
     DEF Next, MonitorStep, AdderStep, Activate, Tasks

\* In an increasing sequence the entries below i are the first ones.
LEMMA InsertPoint ==
    ASSUME NEW s \in Seq(Nat), Increasing(s), NEW i \in Nat,
           NEW c, c = Cardinality({k \in DOMAIN s : s[k] < i})
    PROVE  /\ c \in 0..Len(s)
           /\ \A k \in DOMAIN s : s[k] < i <=> k <= c
<1> DEFINE n == Len(s)
           S == {k \in DOMAIN s : s[k] < i}
<1>1. n \in Nat /\ DOMAIN s = 1..n /\ s \in [1..n -> Nat]
  OBVIOUS
<1>2. c = Cardinality(S)
  OBVIOUS
<1> HIDE DEF n
<1>3. \A m \in Nat : IsFiniteSet(1..m) /\ Cardinality(1..m) = m
  <2> SUFFICES ASSUME NEW m \in Nat PROVE IsFiniteSet(1..m) /\ Cardinality(1..m) = m
    OBVIOUS
  <2>1. /\ IsFiniteSet(1..m)
        /\ Cardinality(1..m) = IF 1 > m THEN 0 ELSE m - 1 + 1
    BY FS_Interval
  <2>2. QED
    BY <2>1
<1>4. IsFiniteSet(S) /\ c \in Nat /\ c <= n
  BY <1>1, <1>2, <1>3, FS_Subset, FS_CardinalityType
<1>5. \A k \in S : k <= c
  <2> SUFFICES ASSUME NEW k \in S PROVE k <= c
    OBVIOUS
  <2>1. k \in 1..n /\ s[k] < i /\ s[k] \in Nat
    BY <1>1
  <2>2. 1..k \subseteq S
    <3> SUFFICES ASSUME NEW j \in 1..k, j # k PROVE j \in DOMAIN s /\ s[j] < i
      BY <2>1, <1>1
    <3>1. j \in 1..n /\ s[j] \in Nat
      BY <1>1, <2>1
    <3>2. s[j] < s[k]
      BY <1>1, <2>1, <3>1 DEF Increasing
    <3>3. QED
      BY <1>1, <2>1, <3>1, <3>2
  <2>3. Cardinality(1..k) = k
    BY <1>1, <1>3
  <2>4. QED
    BY <1>2, <1>4, <2>2, <2>3, FS_Subset
<1>6. S = 1..c
  <2>1. S \subseteq 1..c
    BY <1>1, <1>4, <1>5
  <2>2. IsFiniteSet(1..c) /\ Cardinality(1..c) = c
    BY <1>3, <1>4
  <2>3. QED
    BY <1>2, <2>1, <2>2, FS_Subset
<1>7. QED
  BY <1>1, <1>4, <1>6 DEF n

\* Recording a check adds its candidate to the rows and keeps their order.
LEMMA RecordInserts ==
    ASSUME table \in Seq(Nat), Increasing(table), NEW i \in Nat, Record(i)
    PROVE  /\ table' \in Seq(Nat)
           /\ Increasing(table')
           /\ Rows' = Rows \cup {i}
<1>1. CASE \E k \in DOMAIN table : table[k] = i
  BY <1>1 DEF Record, Rows
<1>2. CASE ~ \E k \in DOMAIN table : table[k] = i
  <2> DEFINE n == Len(table)
             c == RowAt(i) - 1
             new == [k \in 1..(n + 1) |-> IF k < c + 1 THEN table[k]
                                          ELSE IF k = c + 1 THEN i ELSE table[k - 1]]
  <2>1. n \in Nat /\ DOMAIN table = 1..n /\ table \in [1..n -> Nat]
    OBVIOUS
  <2>2. c = Cardinality({k \in DOMAIN table : table[k] < i})
    <3>1. Cardinality({k \in DOMAIN table : table[k] < i}) \in 0..n
      BY InsertPoint
    <3>2. QED
      BY <3>1 DEF RowAt
  <2>3. c \in 0..n /\ \A k \in 1..n : table[k] < i <=> k <= c
    BY <2>1, <2>2, InsertPoint, Zenon
  <2>4. RowAt(i) = c + 1
    BY <2>2, <2>3 DEF RowAt
  <2>5. table' = new
    BY <1>2, <2>4 DEF Record
  <2>6. \A k \in 1..n : k > c => table[k] > i
    BY <1>2, <2>1, <2>3
  <2> HIDE DEF c, n
  <2>7. new \in [1..(n + 1) -> Nat]
    <3>1. ASSUME NEW k \in 1..(n + 1) PROVE new[k] \in Nat
      <4>1. CASE k < c + 1
        BY <2>1, <2>3, <4>1
      <4>2. CASE k = c + 1
        BY <2>3, <4>2
      <4>3. CASE k > c + 1
        <5>1. k - 1 \in 1..n /\ new[k] = table[k - 1]
          BY <2>1, <2>3, <4>3
        <5>2. QED
          BY <2>1, <5>1
      <4>4. QED
        BY <2>1, <2>3, <4>1, <4>2, <4>3
    <3>2. new = [k \in 1..(n + 1) |-> new[k]]
      OBVIOUS
    <3> HIDE DEF new
    <3>3. QED
      BY <3>1, <3>2
  <2>8. table' \in Seq(Nat) /\ DOMAIN table' = 1..(n + 1)
    <3> HIDE DEF new
    <3>1. QED
      BY <2>1, <2>5, <2>7
  <2>9. Increasing(new)
    <3> SUFFICES ASSUME NEW j \in 1..(n + 1), NEW k \in 1..(n + 1), j < k
                 PROVE  new[j] < new[k]
      BY <2>7 DEF Increasing
    <3>1. \A a, b \in 1..n : a < b => table[a] < table[b]
      BY <2>1 DEF Increasing
    <3>2. CASE k < c + 1
      BY <2>1, <2>3, <3>1, <3>2
    <3>3. CASE k = c + 1
      BY <2>1, <2>3, <3>3
    <3>4. CASE k > c + 1 /\ j < c + 1
      <4>1. new[j] = table[j] /\ new[k] = table[k - 1]
        BY <2>1, <2>3, <3>4
      <4>2. table[j] < i /\ i < table[k - 1] /\ table[j] \in Nat /\ table[k - 1] \in Nat
        BY <2>1, <2>3, <2>6, <3>4
      <4>3. QED
        BY <4>1, <4>2
    <3>5. CASE k > c + 1 /\ j = c + 1
      BY <2>1, <2>3, <2>6, <3>5
    <3>6. CASE k > c + 1 /\ j > c + 1
      BY <2>1, <2>3, <3>1, <3>6
    <3>7. QED
      BY <2>1, <2>3, <3>2, <3>3, <3>4, <3>5, <3>6
  <2>10. {new[k] : k \in 1..(n + 1)} = {table[k] : k \in 1..n} \cup {i}
    <3>1. ASSUME NEW k \in 1..(n + 1)
          PROVE  new[k] \in {table[j] : j \in 1..n} \cup {i}
      <4>1. CASE k < c + 1
        <5>1. k \in 1..n /\ new[k] = table[k]
          BY <2>1, <2>3, <4>1
        <5>2. QED
          BY <5>1
      <4>2. CASE k = c + 1
        <5>1. new[k] = i
          BY <2>3, <4>2
        <5>2. QED
          BY <5>1
      <4>3. CASE k > c + 1
        <5>1. k - 1 \in 1..n /\ new[k] = table[k - 1]
          BY <2>1, <2>3, <4>3
        <5>2. QED
          BY <5>1
      <4>4. QED
        BY <2>1, <2>3, <4>1, <4>2, <4>3
    <3>2. ASSUME NEW k \in 1..n
          PROVE  \E j \in 1..(n + 1) : new[j] = table[k]
      <4>1. CASE k <= c
        BY <2>1, <2>3, <4>1
      <4>2. CASE k > c
        <5>1. k + 1 \in 1..(n + 1) /\ new[k + 1] = table[k]
          BY <2>1, <2>3, <4>2
        <5>2. QED
          BY <5>1
      <4>3. QED
        BY <2>1, <2>3, <4>1, <4>2
    <3>3. c + 1 \in 1..(n + 1) /\ new[c + 1] = i
      BY <2>1, <2>3
    <3>4. {new[k] : k \in 1..(n + 1)} \subseteq {table[k] : k \in 1..n} \cup {i}
      BY <3>1, Zenon
    <3> HIDE DEF new
    <3>5. {table[k] : k \in 1..n} \subseteq {new[k] : k \in 1..(n + 1)}
      BY <3>2, Zenon
    <3>6. i \in {new[k] : k \in 1..(n + 1)}
      BY <3>3, Zenon
    <3>7. QED
      BY <3>4, <3>5, <3>6
  <2>11. Rows' = {table'[k] : k \in DOMAIN table'}
    BY DEF Rows
  <2>12. Rows' = Rows \cup {i}
    BY <2>1, <2>5, <2>8, <2>10, <2>11, Zenon DEF Rows
  <2>13. Increasing(table')
    BY <2>5, <2>9, Zenon
  <2>14. QED
    BY <2>8, <2>12, <2>13, Zenon
<1>3. QED
  BY <1>1, <1>2

\* Every step keeps RowsInv.
LEMMA RowsStep ==
    ASSUME TypeOK, TargetsInv, RowsInv, [Next]_vars
    PROVE  RowsInv'
<1> USE TaskAssumption DEF At, Goto
<1>1. /\ Len(candidates) \in Nat
      /\ DOMAIN pc = Tasks /\ DOMAIN target = Tasks
      /\ Monitor \in Tasks /\ Adders \subseteq Tasks
  BY DEF TypeOK, Tasks
\* A check of the candidate i by a task other than a first check of it.
<1>2. ASSUME NEW i \in 1..Len(candidates), Record(i),
             passed' \subseteq passed \cup {i},
             UNCHANGED <<candidates, telActive>>,
             \A a \in Adders : pc[a] = "verify" =>
               \/ target[a] = i
               \/ pc'[a] = "verify" /\ target'[a] = target[a]
      PROVE  RowsInv'
  <2>1. /\ table' \in Seq(Nat)
        /\ Increasing(table')
        /\ Rows' = Rows \cup {i}
    BY <1>1, <1>2, RecordInserts DEF RowsInv
  <2>2. /\ Rows' \subseteq 1..Len(candidates')
        /\ passed' \subseteq Rows'
        /\ telActive' \in Rows' \cup {0}
    BY <1>2, <2>1 DEF RowsInv
  <2>3. ASSUME NEW j \in 1..Len(candidates), j \notin Rows \cup {i}
        PROVE  \E a \in Adders : pc'[a] = "verify" /\ target'[a] = j
    BY <1>2, <2>3 DEF RowsInv
  <2>4. QED
    BY <1>2, <2>1, <2>2, <2>3, Zenon DEF RowsInv, Increasing
\* A step that adds no row.
<1>3. ASSUME UNCHANGED <<candidates, table, passed>>,
             telActive' \in passed \cup {0, telActive},
             \A a \in Adders : pc[a] = "verify" =>
               pc'[a] = "verify" /\ target'[a] = target[a]
      PROVE  RowsInv'
  <2>1. Rows' = Rows
    BY <1>3 DEF Rows
  <2>2. telActive' \in Rows \cup {0}
    BY <1>3 DEF RowsInv
  <2>3. QED
    BY <1>3, <2>1, <2>2 DEF RowsInv, Increasing
<1>4. CASE ScanHit
  <2>1. target[Monitor] \in 1..Len(candidates)
    BY <1>4 DEF ScanHit, TargetsInv, TypeOK
  <2>2. \A a \in Adders : pc'[a] = pc[a] /\ target'[a] = target[a]
    BY <1>1, <1>4 DEF ScanHit
  <2>3. QED
    BY <1>2, <1>4, <2>1, <2>2 DEF ScanHit, listVars
<1>5. CASE ScanMiss
  <2>1. target[Monitor] \in 1..Len(candidates)
    BY <1>5 DEF ScanMiss, TargetsInv, TypeOK
  <2>2. \A a \in Adders : pc'[a] = pc[a] /\ target'[a] = target[a]
    BY <1>1, <1>5 DEF ScanMiss
  <2>3. QED
    BY <1>2, <1>5, <2>1, <2>2 DEF ScanMiss, listVars, historyVars
<1>6. CASE CheckOk
  <2>1. mIdx \in 1..Len(candidates)
    BY <1>6 DEF CheckOk, TargetsInv, TypeOK
  <2>2. \A a \in Adders : pc'[a] = pc[a] /\ target'[a] = target[a]
    BY <1>1, <1>6 DEF CheckOk
  <2>3. QED
    BY <1>2, <1>6, <2>1, <2>2 DEF CheckOk, listVars
<1>7. CASE CheckFail
  <2>1. mIdx \in 1..Len(candidates)
    BY <1>7 DEF CheckFail, TargetsInv, TypeOK
  <2>2. \A a \in Adders : pc'[a] = pc[a] /\ target'[a] = target[a]
    BY <1>1, <1>7 DEF CheckFail
  <2>3. QED
    BY <1>2, <1>7, <2>1, <2>2 DEF CheckFail, listVars
<1>8. ASSUME NEW b \in Adders, VerifyCandidate(b) PROVE RowsInv'
  <2>1. target[b] \in 1..Len(candidates)
    BY <1>8 DEF VerifyCandidate, TargetsInv
  <2>2. \A a \in Adders : target'[a] = target[a] /\ (a # b => pc'[a] = pc[a])
    BY <1>1, <1>8 DEF VerifyCandidate
  <2>3. passed' \subseteq passed \cup {target[b]}
    BY <1>8 DEF VerifyCandidate
  <2>4. QED
    BY <1>2, <1>8, <2>1, <2>2, <2>3 DEF VerifyCandidate, listVars
<1>9. ASSUME NEW b \in Adders, PushCandidate(b) PROVE RowsInv'
  <2>1. /\ Len(candidates') = Len(candidates) + 1
        /\ pc'[b] = "verify" /\ target'[b] = Len(candidates) + 1
        /\ \A a \in Adders \ {b} : pc'[a] = pc[a] /\ target'[a] = target[a]
        /\ pc[b] # "verify"
    BY <1>1, <1>9 DEF PushCandidate, TypeOK
  <2>2. UNCHANGED <<table, passed, telActive>> /\ Rows' = Rows
    BY <1>9 DEF PushCandidate, shownVars, historyVars, Rows
  <2>3. Rows \subseteq 1..Len(candidates')
    BY <1>1, <2>1 DEF RowsInv
  <2>4. ASSUME NEW i \in 1..Len(candidates'), i \notin Rows
        PROVE  \E a \in Adders : pc'[a] = "verify" /\ target'[a] = i
    <3>1. CASE i = Len(candidates) + 1
      BY <2>1, <3>1
    <3>2. CASE i \in 1..Len(candidates)
      BY <2>1, <2>4, <3>2 DEF RowsInv
    <3>3. QED
      BY <1>1, <2>1, <3>1, <3>2
  <2>5. QED
    BY <2>2, <2>3, <2>4 DEF RowsInv, Increasing
<1>10. CASE StartupBridge
  BY <1>1, <1>3, <1>10 DEF StartupBridge, TargetsInv, listVars, historyVars
<1>11. ASSUME NEW t \in Tasks, SetTel(t) PROVE RowsInv'
  BY <1>1, <1>3, <1>11 DEF SetTel, TargetsInv, listVars, historyVars
<1>12. CASE StartupDirect \/ WakeByTimer \/ WakeByNotify
  BY <1>1, <1>3, <1>12
     DEF StartupDirect, WakeByTimer, WakeByNotify, listVars, shownVars, historyVars
<1>13. ASSUME NEW a \in Adders, SubmitBridge(a) \/ AddReject(a) \/ AddAccept(a)
       PROVE  RowsInv'
  BY <1>1, <1>3, <1>13
     DEF SubmitBridge, AddReject, AddAccept, listVars, shownVars, historyVars
<1>14. ASSUME NEW t \in Tasks, BootOk(t) \/ BootFail(t) \/ SetIdx(t)
       PROVE  RowsInv'
  BY <1>1, <1>3, <1>14 DEF BootOk, BootFail, SetIdx, listVars, shownVars, historyVars
<1>15. ASSUME NEW t \in Tasks, Replace(t) PROVE RowsInv'
  BY <1>1, <1>3, <1>15 DEF Replace, listVars, shownVars
<1>16. CASE CheckNow \/ NetworkChange \/ UNCHANGED vars
  BY <1>3, <1>16 DEF CheckNow, NetworkChange, vars, listVars, shownVars, historyVars
<1>17. QED
  BY <1>4, <1>5, <1>6, <1>7, <1>8, <1>9, <1>10, <1>11, <1>12, <1>13, <1>14,
     <1>15, <1>16
     DEF Next, MonitorStep, AdderStep, Activate, Tasks

\* The initial states satisfy the inductive invariant.
LEMMA InitInd == Init => IndInv
<1> SUFFICES ASSUME Init PROVE IndInv
  OBVIOUS
<1> USE LinesAssumption, TaskAssumption, ThresholdAssumption DEF Init, Tasks
<1>1. Len(Configured) \in Nat /\ (Configured # <<>> => 1 \in 1..Len(Configured))
  OBVIOUS
<1>2. TypeOK
  <2>1. transports \subseteq {Transport[l] : l \in Lines} \cup PtFlags
    BY DEF TransportsOf
  <2>2. line \in [Adders -> Lines]
    <3>1. (CHOOSE l \in Lines : TRUE) \in Lines
      BY Zenon
    <3>2. QED
      BY <3>1
  <2>3. pc \in [Tasks -> TaskLabels] /\ target \in [Tasks -> Nat]
    BY DEF TaskLabels, ScanStart
  <2>4. candidates \in Seq(Lines) /\ up \subseteq Lines \ Malformed
    OBVIOUS
  <2>5. /\ core \in 0..Len(candidates) /\ mCount \in 0..Len(candidates)
        /\ passed \subseteq 1..Len(candidates)
        /\ 0 \in 0..MaxFailures
    BY <1>1
  <2>6. QED
    BY <2>1, <2>2, <2>3, <2>4, <2>5 DEF TypeOK
<1>3. TargetsInv
  BY <1>1 DEF TargetsInv, MonitorLabels, AdderLabels, Started, ScanStart
<1>4. WindowInv
  BY DEF WindowInv, InWindow
<1>5. PushInv
  BY DEF PushInv, TransportsReady
<1>6. CountInv /\ FailuresShown
  BY DEF CountInv, NoAdderSwitched, FailuresShown
<1>7. RowsInv
  BY <1>1 DEF RowsInv, Rows, Increasing
<1>8. QED
  BY <1>2, <1>3, <1>4, <1>5, <1>6, <1>7 DEF IndInv

\* The conjunction is inductive.
THEOREM Inductive == Spec => []IndInv
<1>1. IndInv /\ [Next]_vars => IndInv'
  BY TypeStep, TargetsStep, WindowStep, PushStep, CountStep, RowsStep, ShownStep
     DEF IndInv
<1>2. QED
  BY InitInd, <1>1, PTL DEF Spec

\* The types, and the fact that every candidate index held anywhere is that
\* of a listed candidate, for any number of tasks.
THEOREM TypeCorrect == Spec => []TypeOK
BY Inductive, PTL DEF IndInv

\* The three records of the active bridge agree between activations unless
\* the last one began inside another: the swap, active_idx and the telemetry
\* are three separate writes in both rescan_and_activate and try_add_bridge.
THEOREM AgreementHolds == Spec => []Agreement
<1>1. IndInv => Agreement
  BY DEF IndInv, WindowInv, Agreement
<1>2. QED
  BY Inductive, <1>1, PTL

\* A listed candidate's transport is registered, although add_bridge_line
\* takes the two locks one after the other.
THEOREM TransportsReadyHolds == Spec => []TransportsReady
<1>1. IndInv => TransportsReady
  BY DEF IndInv, PushInv
<1>2. QED
  BY Inductive, <1>1, PTL

\* The dashboard's failure count is the monitor's or 0.
THEOREM FailuresShownHolds == Spec => []FailuresShown
BY Inductive, PTL DEF IndInv

\* The dashboard's table has the candidates in failover order and each once,
\* whatever the order in which the concurrent checks of the monitor and of
\* the added bridges end; only a first check under way leaves a row out.
THEOREM TableCompleteHolds == Spec => []TableComplete
<1>1. IndInv => TableComplete
  BY DEF IndInv, RowsInv, Rows, Increasing, TableComplete, At
<1>2. QED
  BY Inductive, <1>1, PTL

\* Until an added bridge is activated, the monitor replaces a bridge only
\* after failure_threshold consecutive failed checks of it.
THEOREM DueFailoverHolds == Spec => DueFailover
<1>1. IndInv => (At(Monitor, "replace") /\ NoAdderSwitched => streak >= Threshold)
  BY DEF IndInv, CountInv, At, ThresholdReached
<1>2. QED
  BY Inductive, <1>1, PTL DEF Spec, DueFailover, NoAdderSwitched

\* The failover implements BridgeSwitch: only checked candidates are switched
\* to, and a bridge is never left for a direct connection.
THEOREM RefinesSwitch == Spec => SwitchSpec
<1>1. Init => Switch!Init
  BY LinesAssumption DEF Init, Switch!Init
<1>2. IndInv /\ [Next]_vars => [Switch!Next]_(Switch!vars)
  <2> SUFFICES ASSUME IndInv, [Next]_vars PROVE [Switch!Next]_(Switch!vars)
    OBVIOUS
  <2> USE DEF IndInv, TypeOK, TargetsInv, Switch!Next, Switch!vars, At, Tasks,
              listVars, historyVars
  <2>1. CASE ScanHit
    <3>1. target[Monitor] \in 1..Len(candidates)
      BY <2>1 DEF ScanHit
    <3>2. Switch!Verify
      BY <2>1, <3>1 DEF ScanHit, Switch!Verify
    <3>3. QED
      BY <3>2
  <2>2. CASE CheckOk
    <3>1. mIdx \in 1..Len(candidates)
      BY <2>2 DEF CheckOk
    <3>2. Switch!Verify
      BY <2>2, <3>1 DEF CheckOk, Switch!Verify
    <3>3. QED
      BY <3>2
  <2>3. CASE StartupBridge
    BY <2>3 DEF StartupBridge, Switch!Switch
  <2>4. ASSUME NEW a \in Adders, VerifyCandidate(a) PROVE [Switch!Next]_(Switch!vars)
    BY <2>4 DEF VerifyCandidate, Switch!Verify
  <2>5. ASSUME NEW a \in Adders, PushCandidate(a) PROVE [Switch!Next]_(Switch!vars)
    <3>1. Switch!List
      BY <2>5 DEF PushCandidate, Switch!List
    <3>2. QED
      BY <3>1
  <2>6. ASSUME NEW t \in Tasks, Replace(t) PROVE [Switch!Next]_(Switch!vars)
    BY <2>6 DEF Replace, Switch!Switch
  <2>7. CASE ScanMiss \/ StartupDirect \/ WakeByTimer \/ WakeByNotify \/ CheckFail
    BY <2>7 DEF ScanMiss, StartupDirect, WakeByTimer, WakeByNotify, CheckFail
  <2>8. ASSUME NEW a \in Adders, SubmitBridge(a) \/ AddReject(a) \/ AddAccept(a)
        PROVE  [Switch!Next]_(Switch!vars)
    BY <2>8 DEF SubmitBridge, AddReject, AddAccept
  <2>9. ASSUME NEW t \in Tasks, BootOk(t) \/ BootFail(t) \/ SetIdx(t) \/ SetTel(t)
        PROVE  [Switch!Next]_(Switch!vars)
    BY <2>9 DEF BootOk, BootFail, SetIdx, SetTel
  <2>10. CASE CheckNow \/ NetworkChange \/ UNCHANGED vars
    BY <2>10 DEF CheckNow, NetworkChange, vars
  <2>11. QED
    BY <2>1, <2>2, <2>3, <2>4, <2>5, <2>6, <2>7, <2>8, <2>9, <2>10
       DEF Next, MonitorStep, AdderStep, Activate
<1>3. QED
  BY Inductive, <1>1, <1>2, PTL DEF Spec, SwitchSpec, Switch!Spec

=============================================================================
