--------------------------- MODULE BridgeFailover ---------------------------
(***************************************************************************)
(* Startup bridge selection (cli/main.rs), the BridgeManager's candidate   *)
(* list (bridges/lib.rs) and the BridgeCoordinator (bridges/coordinator.rs)*)
(* with its two kinds of task: the periodic monitor run() and one          *)
(* try_add_bridge() task per bridge line the user submits.  They share the *)
(* candidate list, the transport registry, the CoreHandle, active_idx and  *)
(* the telemetry, each behind a lock of its own, and interleave at every   *)
(* await and between two locks.                                            *)
(*                                                                         *)
(* A health check and a bootstrap are external: each takes arbitrarily     *)
(* long and succeeds iff the line works when it completes.  Candidate      *)
(* indices are 1-based here; 0 stands for None, a direct connection.       *)
(***************************************************************************)
EXTENDS Integers, Sequences, FiniteSets

CONSTANTS
    Lines,       \* the bridge lines a user may give
    Malformed,   \* those that BridgeConfigBuilder's parser rejects
    Transport,   \* the pluggable transport each line names ...
    NoTransport, \* ... or this value when it names none
    PtFlags,     \* transports registered with --pt
    Locatable,   \* transports discovery finds on disk
    Configured,  \* the --bridge lines, in order
    Adders,      \* the try_add_bridge tasks
    Monitor,     \* the task of startup and of BridgeCoordinator::run
    Threshold,   \* --bridge-failure-threshold
    MaxFailures  \* bound: where the failure counters saturate

Tasks == Adders \cup {Monitor}

\* add_bridge_line can accept l: it parses, and its transport is registered
\* or can be found on disk.
Acceptable(l, registered) ==
    /\ l \notin Malformed
    /\ Transport[l] \in registered \cup Locatable \cup {NoTransport}

\* main.rs exits before the model starts when a --bridge line is rejected.
ASSUME LinesAssumption ==
    /\ Lines # {}
    /\ Malformed \subseteq Lines
    /\ Configured \in Seq(Lines)
    /\ \A i \in 1..Len(Configured) : Acceptable(Configured[i], PtFlags)

ASSUME TaskAssumption == Monitor \notin Adders

ASSUME ThresholdAssumption ==
    /\ Threshold \in Nat
    /\ MaxFailures \in Nat
    /\ Threshold <= MaxFailures

VARIABLES
    candidates,  \* BridgeManager.candidates: lines in failover order
    transports,  \* BridgeManager.transports: the registered protocols
    core,        \* the candidate the AnonCore in CoreHandle runs through
    activeIdx,   \* BridgeCoordinator.active_idx
    telActive,   \* HealthStatus.active_bridge_index
    telFailures, \* HealthStatus.consecutive_failures
    lastError,   \* HealthStatus.last_error.is_some()
    table,       \* HealthStatus.candidates: the index of each row
    checkNow,    \* the permit stored in the Notify
    up,          \* external: the lines through which Tor works now
    pc,          \* where each task is
    target,      \* candidate a task checks or activates
    line,        \* the line argument of a try_add_bridge task
    mIdx,        \* run(): the idx read from active()
    mFailures,   \* run(): consecutive_failures
    mCount       \* find_healthy_config_reporting: the count it read

\* History, read by properties only.
VARIABLES
    passed,      \* candidates that have passed a health check
    overlap,     \* the last activation began inside another one
    streak       \* consecutive failed checks of the bridge core runs through

listVars == <<candidates, transports>>
shownVars == <<telActive, telFailures, lastError, table>>
monitorVars == <<mIdx, mFailures, mCount>>
historyVars == <<passed, overlap, streak>>
vars == <<listVars, core, activeIdx, shownVars, checkNow, up, pc, target,
          line, monitorVars, historyVars>>

-----------------------------------------------------------------------------
(* Helpers.  An operator named X_fault is X with a plausible coding error; *)
(* none is used in the specification: they show that the properties would  *)
(* notice such an error.                                                   *)

\* The protocols a line needs registered (extract_transport_protocol).
TransportsOf(l) == {Transport[l]} \ {NoTransport}

\* The external outcome of a health check of, or a bootstrap through, i.
Works(i) == candidates[i] \in up

Increment(n) == IF n < MaxFailures THEN n + 1 ELSE n

\* ensure_transport registers the transport of an acceptable line.
EnsureTransport_checkOnly(l, registered) == registered
EnsureTransport(l, registered) == registered \cup TransportsOf(l)

CandidateCount_plusOne == Len(candidates) + 1
CandidateCount == Len(candidates)

ThresholdReached_early(n) == n + 1 >= Threshold
ThresholdReached(n) == n >= Threshold

\* find_healthy_config_reporting starts at the most preferred candidate.
ScanStart_skipsFirst == 2
ScanStart == 1

\* What run() reports after a failed check: its own count, not one more than
\* the count shown.
ShownFailures_counted(shown, local) == Increment(shown)
ShownFailures(shown, local) == local

\* The index an activation stores in active_idx.
NewIdx_failedOne(t) == IF t = Monitor THEN mIdx ELSE target[t]
NewIdx(t) == target[t]

\* record_candidate_result: a candidate without a row gets one, and the rows
\* are sorted by index again.
RowAt_last(i) == Len(table) + 1
RowAt(i) == 1 + Cardinality({k \in DOMAIN table : table[k] < i})

Record(i) ==
    table' = IF \E k \in DOMAIN table : table[k] = i THEN table
             ELSE [k \in 1..(Len(table) + 1) |->
                     IF k < RowAt(i) THEN table[k]
                     ELSE IF k = RowAt(i) THEN i ELSE table[k - 1]]

\* The counter after a successful check or switch.
Reset(n) == 0

At(t, label) == pc[t] = label

Goto(t, label) == pc' = [pc EXCEPT ![t] = label]

\* Tasks between the swap of the client and the end of the activation.
InWindow == {t \in Tasks : pc[t] \in {"setIdx", "setTel"}}

-----------------------------------------------------------------------------
Init ==
    /\ candidates = Configured
    /\ transports = PtFlags \cup
         UNION {TransportsOf(Configured[i]) : i \in 1..Len(Configured)}
    /\ core = 0
    /\ activeIdx = 0
    /\ telActive = 0
    /\ telFailures = 0
    /\ lastError = FALSE
    /\ table = [k \in 1..Len(Configured) |-> k]
    /\ checkNow = FALSE
    /\ up \in SUBSET (Lines \ Malformed)
    /\ pc = [t \in Tasks |->
                IF t # Monitor THEN "idle"
                ELSE IF Configured = <<>> THEN "startDirect" ELSE "startScan"]
    /\ target = [t \in Tasks |-> IF t = Monitor THEN ScanStart ELSE 0]
    /\ line = [a \in Adders |-> CHOOSE l \in Lines : TRUE]
    /\ mIdx = 0
    /\ mFailures = 0
    /\ mCount = Len(Configured)
    /\ passed = {}
    /\ overlap = FALSE
    /\ streak = 0

\* External: a bridge or the path to it breaks or recovers.
NetworkChange ==
    /\ \E l \in Lines \ Malformed :
         up' = IF l \in up THEN up \ {l} ELSE up \cup {l}
    /\ UNCHANGED <<listVars, core, activeIdx, shownVars, checkNow, pc, target,
                   line, monitorVars, historyVars>>

-----------------------------------------------------------------------------
(* find_healthy_config_reporting, at startup and in rescan_and_activate *)

\* The candidate at the scan position passes: the scan ends with it.  In
\* run() finding the bridge that was judged failed only resets the counters.
ScanHit ==
    /\ pc[Monitor] \in {"startScan", "scan"}
    /\ Works(target[Monitor])
    /\ passed' = passed \cup {target[Monitor]}
    /\ Record(target[Monitor])
    /\ \/ /\ At(Monitor, "startScan")
          /\ Goto(Monitor, "startBoot")
          /\ UNCHANGED <<telFailures, mFailures, streak>>
       \/ /\ At(Monitor, "scan")
          /\ target[Monitor] = mIdx
          /\ Goto(Monitor, "sleep")
          /\ telFailures' = Reset(telFailures)
          /\ mFailures' = Reset(mFailures)
          /\ streak' = IF mIdx = core THEN 0 ELSE streak
       \/ /\ At(Monitor, "scan")
          /\ target[Monitor] # mIdx
          /\ Goto(Monitor, "boot")
          /\ UNCHANGED <<telFailures, mFailures, streak>>
    /\ UNCHANGED <<listVars, core, activeIdx, telActive, lastError, checkNow,
                   up, target, line, mIdx, mCount, overlap>>

\* It fails: the scan moves on, and past the count read at its start it ends
\* in a direct bootstrap (startup) or with the failure count kept (run).
ScanMiss ==
    /\ pc[Monitor] \in {"startScan", "scan"}
    /\ ~ Works(target[Monitor])
    /\ Record(target[Monitor])
    /\ \/ /\ target[Monitor] < mCount
          /\ target' = [target EXCEPT ![Monitor] = @ + 1]
          /\ UNCHANGED pc
       \/ /\ target[Monitor] >= mCount
          /\ Goto(Monitor, IF At(Monitor, "scan") THEN "sleep"
                                                  ELSE "startDirect")
          /\ UNCHANGED target
    /\ UNCHANGED <<listVars, core, activeIdx, telActive, telFailures, lastError,
                   checkNow, up, line, monitorVars, historyVars>>

\* main.rs: bootstrap through the bridge found, then build CoreHandle and
\* BridgeCoordinator, whose constructor reports the initial bridge; no other
\* task exists yet.  A failed bootstrap ends the process.
StartupBridge ==
    /\ At(Monitor, "startBoot")
    /\ \/ /\ Works(target[Monitor])
          /\ core' = target[Monitor]
          /\ activeIdx' = target[Monitor]
          /\ telActive' = target[Monitor]
          /\ Goto(Monitor, "sleep")
       \/ /\ ~ Works(target[Monitor])
          /\ Goto(Monitor, "exited")
          /\ UNCHANGED <<core, activeIdx, telActive>>
    /\ UNCHANGED <<listVars, telFailures, lastError, table, checkNow, up,
                   target, line, monitorVars, historyVars>>

\* main.rs: the direct connection, with no bridge or as the fallback.
StartupDirect ==
    /\ At(Monitor, "startDirect")
    /\ \E l \in {"sleep", "exited"} : Goto(Monitor, l)
    /\ UNCHANGED <<listVars, core, activeIdx, shownVars, checkNow, up, target,
                   line, monitorVars, historyVars>>

-----------------------------------------------------------------------------
(* BridgeCoordinator::run *)

\* The interval elapses.  With no active bridge the loop just continues,
\* which changes nothing.
WakeByTimer ==
    /\ At(Monitor, "sleep")
    /\ activeIdx # 0
    /\ mIdx' = activeIdx
    /\ Goto(Monitor, "check")
    /\ UNCHANGED <<listVars, core, activeIdx, shownVars, checkNow, up, target,
                   line, mFailures, mCount, historyVars>>

\* check_now is notified: the permit is used up, active bridge or not.
WakeByNotify ==
    /\ At(Monitor, "sleep")
    /\ checkNow
    /\ checkNow' = FALSE
    /\ IF activeIdx # 0 THEN mIdx' = activeIdx /\ Goto(Monitor, "check")
                        ELSE UNCHANGED <<mIdx, pc>>
    /\ UNCHANGED <<listVars, core, activeIdx, shownVars, up, target, line,
                   mFailures, mCount, historyVars>>

CheckOk ==
    /\ At(Monitor, "check")
    /\ Works(mIdx)
    /\ passed' = passed \cup {mIdx}
    /\ Record(mIdx)
    /\ mFailures' = Reset(mFailures)
    /\ telFailures' = Reset(telFailures)
    /\ streak' = IF mIdx = core THEN 0 ELSE streak
    /\ Goto(Monitor, "sleep")
    /\ UNCHANGED <<listVars, core, activeIdx, telActive, lastError, checkNow,
                   up, target, line, mIdx, mCount, overlap>>

\* The counter grows; at the threshold rescan_and_activate(Some(idx)) starts.
CheckFail ==
    /\ At(Monitor, "check")
    /\ ~ Works(mIdx)
    /\ Record(mIdx)
    /\ mFailures' = Increment(mFailures)
    /\ telFailures' = ShownFailures(telFailures, mFailures')
    /\ streak' = IF mIdx = core THEN Increment(streak) ELSE streak
    /\ IF ThresholdReached(mFailures')
         THEN /\ Goto(Monitor, "scan")
              /\ target' = [target EXCEPT ![Monitor] = ScanStart]
              /\ mCount' = CandidateCount
         ELSE /\ Goto(Monitor, "sleep")
              /\ UNCHANGED <<target, mCount>>
    /\ UNCHANGED <<listVars, core, activeIdx, telActive, lastError, checkNow,
                   up, line, mIdx, passed, overlap>>

-----------------------------------------------------------------------------
(* BridgeCoordinator::try_add_bridge *)

Started == pc[Monitor] \notin {"startScan", "startBoot", "startDirect", "exited"}

\* TUI: Enter on a line spawns the task, whose first step clears the error.
SubmitBridge(a) ==
    /\ Started
    /\ At(a, "idle")
    /\ \E l \in Lines : line' = [line EXCEPT ![a] = l]
    /\ lastError' = FALSE
    /\ Goto(a, "add")
    /\ UNCHANGED <<listVars, core, activeIdx, telActive, telFailures, table,
                   checkNow, up, target, monitorVars, historyVars>>

\* add_bridge_line, up to and including ensure_transport.
AddReject(a) ==
    /\ At(a, "add")
    /\ ~ Acceptable(line[a], transports)
    /\ lastError' = TRUE
    /\ Goto(a, "failed")
    /\ UNCHANGED <<listVars, core, activeIdx, telActive, telFailures, table,
                   checkNow, up, target, line, monitorVars, historyVars>>

AddAccept(a) ==
    /\ At(a, "add")
    /\ Acceptable(line[a], transports)
    /\ transports' = EnsureTransport(line[a], transports)
    /\ Goto(a, "push")
    /\ UNCHANGED <<candidates, core, activeIdx, shownVars, checkNow, up,
                   target, line, monitorVars, historyVars>>

\* The rest of add_bridge_line, under the candidates lock.
PushCandidate(a) ==
    /\ At(a, "push")
    /\ candidates' = Append(candidates, line[a])
    /\ target' = [target EXCEPT ![a] = Len(candidates')]
    /\ Goto(a, "verify")
    /\ UNCHANGED <<transports, core, activeIdx, shownVars, checkNow, up, line,
                   monitorVars, historyVars>>

VerifyCandidate_ignored(a) ==
    /\ At(a, "verify")
    /\ Goto(a, "boot")
    /\ UNCHANGED <<listVars, core, activeIdx, shownVars, checkNow, up, target,
                   line, monitorVars, historyVars>>

\* The health check of the new candidate.
VerifyCandidate(a) ==
    /\ At(a, "verify")
    /\ Record(target[a])
    /\ \/ /\ Works(target[a])
          /\ passed' = passed \cup {target[a]}
          /\ Goto(a, "boot")
          /\ UNCHANGED lastError
       \/ /\ ~ Works(target[a])
          /\ lastError' = TRUE
          /\ Goto(a, "failed")
          /\ UNCHANGED passed
    /\ UNCHANGED <<listVars, core, activeIdx, telActive, telFailures, checkNow,
                   up, target, line, monitorVars, overlap, streak>>

-----------------------------------------------------------------------------
(* Activation: the same statements end rescan_and_activate and             *)
(* try_add_bridge.                                                         *)

BootOk(t) ==
    /\ At(t, "boot")
    /\ Works(target[t])
    /\ Goto(t, "replace")
    /\ UNCHANGED <<listVars, core, activeIdx, shownVars, checkNow, up, target,
                   line, monitorVars, historyVars>>

\* The monitor keeps its count and retries; try_add_bridge returns the error
\* to a caller that drops it.
BootFail(t) ==
    /\ At(t, "boot")
    /\ ~ Works(target[t])
    /\ Goto(t, IF t = Monitor THEN "sleep" ELSE "failed")
    /\ UNCHANGED <<listVars, core, activeIdx, shownVars, checkNow, up, target,
                   line, monitorVars, historyVars>>

\* core_handle.replace(new_core)
Replace(t) ==
    /\ At(t, "replace")
    /\ core' = target[t]
    /\ streak' = 0
    /\ overlap' = (InWindow # {})
    /\ Goto(t, "setIdx")
    /\ UNCHANGED <<listVars, activeIdx, shownVars, checkNow, up, target, line,
                   monitorVars, passed>>

\* *active_idx.lock() = Some(idx)
SetIdx(t) ==
    /\ At(t, "setIdx")
    /\ activeIdx' = NewIdx(t)
    /\ Goto(t, "setTel")
    /\ UNCHANGED <<listVars, core, shownVars, checkNow, up, target, line,
                   monitorVars, historyVars>>

\* telemetry.update(..), and run() resets its local count.
SetTel(t) ==
    /\ At(t, "setTel")
    /\ telActive' = target[t]
    /\ telFailures' = Reset(telFailures)
    /\ mFailures' = IF t = Monitor THEN Reset(mFailures) ELSE mFailures
    /\ Goto(t, IF t = Monitor THEN "sleep" ELSE "done")
    /\ UNCHANGED <<listVars, core, activeIdx, lastError, table, checkNow, up,
                   target, line, mIdx, mCount, historyVars>>

\* TUI: the `c` key stores a permit in the Notify.
CheckNow ==
    /\ Started
    /\ checkNow' = TRUE
    /\ UNCHANGED <<listVars, core, activeIdx, shownVars, up, pc, target, line,
                   monitorVars, historyVars>>

-----------------------------------------------------------------------------
Activate(t) == BootOk(t) \/ BootFail(t) \/ Replace(t) \/ SetIdx(t) \/ SetTel(t)

MonitorStep ==
    \/ ScanHit \/ ScanMiss \/ StartupBridge \/ StartupDirect
    \/ WakeByTimer \/ WakeByNotify \/ CheckOk \/ CheckFail
    \/ Activate(Monitor)

AdderStep(a) ==
    \/ AddReject(a) \/ AddAccept(a) \/ PushCandidate(a) \/ VerifyCandidate(a)
    \/ Activate(a)

Next ==
    \/ MonitorStep
    \/ \E a \in Adders : SubmitBridge(a) \/ AdderStep(a)
    \/ CheckNow
    \/ NetworkChange

\* The runtime keeps polling spawned tasks, timers fire, and health checks
\* have a deadline; that a bootstrap returns is arti's part.  Nothing is
\* assumed of the user or of the network.
Fairness ==
    /\ WF_vars(MonitorStep)
    /\ \A a \in Adders : WF_vars(AdderStep(a))

Spec == Init /\ [][Next]_vars

FairSpec == Spec /\ Fairness

-----------------------------------------------------------------------------
(* Properties *)

TaskLabels == {"idle", "add", "push", "verify", "boot", "replace", "setIdx",
               "setTel", "done", "failed", "startScan", "startBoot",
               "startDirect", "exited", "sleep", "check", "scan"}

\* Every variable has its type; the indices the tasks share are those of
\* candidates that exist, or 0.
TypeOK ==
    /\ candidates \in Seq(Lines)
    /\ transports \subseteq {Transport[l] : l \in Lines} \cup PtFlags
    /\ core \in 0..Len(candidates)
    /\ activeIdx \in 0..Len(candidates)
    /\ telActive \in 0..Len(candidates)
    /\ mIdx \in 0..Len(candidates)
    /\ telFailures \in 0..MaxFailures
    /\ lastError \in BOOLEAN
    /\ checkNow \in BOOLEAN
    /\ up \subseteq Lines \ Malformed
    /\ pc \in [Tasks -> TaskLabels]
    /\ target \in [Tasks -> Nat]
    /\ line \in [Adders -> Lines]
    /\ mFailures \in 0..MaxFailures
    /\ mCount \in 0..Len(candidates)
    /\ passed \subseteq 1..Len(candidates)
    /\ overlap \in BOOLEAN
    /\ streak \in 0..MaxFailures

\* Between activations the client in CoreHandle, active_idx and the bridge
\* the dashboard shows are the same one, unless the last activation began
\* inside another; the next activation that runs alone repairs that.
Agreement ==
    InWindow = {} /\ ~ overlap => core = activeIdx /\ activeIdx = telActive

\* A candidate a scan can see has its transport registered, although
\* add_bridge_line registers and appends under two different locks.
TransportsReady ==
    \A i \in 1..Len(candidates) : TransportsOf(candidates[i]) \subseteq transports

\* The failure count the dashboard shows is the monitor's own, or 0 since a
\* switch: try_add_bridge resets the shown count and not the local one.
FailuresShown == telFailures \in {0, mFailures}

\* The dashboard's table lists the candidates in failover order, each once,
\* in whatever order the checks of added bridges and of scans end; only a
\* bridge whose first check is under way may be missing, and the bridge
\* shown as active never is.
TableComplete ==
    LET rows == {table[k] : k \in DOMAIN table}
    IN  /\ \A j, k \in DOMAIN table : j < k => table[j] < table[k]
        /\ rows \subseteq 1..Len(candidates)
        /\ (1..Len(candidates)) \ rows
             \subseteq {target[a] : a \in {b \in Adders : At(b, "verify")}}
        /\ telActive \in rows \cup {0}

\* As long as no added bridge was activated, the monitor replaces a bridge
\* only after failure_threshold consecutive failed checks of that bridge.
DueFailover ==
    [][ At(Monitor, "replace") /\ pc'[Monitor] = "setIdx"
          /\ (\A a \in Adders : pc[a] \notin {"setIdx", "setTel", "done"})
        => streak >= Threshold ]_vars

\* The switch of the live client is that of BridgeSwitch: the new bridge has
\* always passed a health check, and a bridge is never left for a direct
\* connection.
Switch == INSTANCE BridgeSwitch WITH listed <- Len(candidates),
                                     verified <- passed, client <- core
SwitchSpec == Switch!Spec

\* Once the network is stable and no activation overlaps another, traffic
\* ends up on a bridge that works for good, unless none works or none was
\* ever activated (the monitor idles in direct mode).
Recovers ==
    <>[][up' = up]_vars /\ <>[]~overlap =>
        <>[] \/ core = 0
             \/ Works(core)
             \/ \A i \in 1..Len(candidates) : ~ Works(i)

\* coordinator.rs: "so `try_add_bridge` and the periodic loop agree on what's
\* currently active", "safe to run concurrently with the background `run()`
\* loop": between activations active_idx names the bridge that is in use.
AlwaysAgree == InWindow = {} => activeIdx = core
=============================================================================
