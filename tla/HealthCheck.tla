----------------------------- MODULE HealthCheck -----------------------------
(***************************************************************************)
(* `anonet run` from its arguments to a running Tor client: the --pt and   *)
(* --bridge arguments (cli/main.rs), the search for transport binaries     *)
(* (bridges/discovery.rs), and the health check of one candidate after the *)
(* other (bridges/lib.rs), under one clock.  BridgeFailover takes all of   *)
(* this as a few steps; here a check is its temporary directories, its     *)
(* configuration, a bootstrap and a test connection, each with a limit.    *)
(*                                                                         *)
(* Candidates are numbered from 1 and 0 is the public network, which is    *)
(* reached without a bridge.  Time is counted in units of ten seconds.     *)
(***************************************************************************)
EXTENDS Integers, Sequences, FiniteSets, FiniteSetsExt, Functions

CONSTANTS
    Specs,        \* the --pt arguments a user may give
    BridgeLists,  \* the lists of --bridge arguments a user may give
    Malformed,    \* bridge lines that BridgeConfigBuilder's parser rejects
    Transport,    \* the pluggable transport each line names ...
    NoTransport,  \* ... or this value when it names none
    InvalidName,  \* a protocol name that arti's parser rejects
    Empty,        \* the empty string
    Paths,        \* the paths a --pt argument may name
    NotFound,     \* locate_transport_binary's None
    PathDirs,     \* the directories on $PATH, in order
    ExtraDirs,    \* EXTRA_SEARCH_DIRS
    Timeouts,     \* the values of --bridge-timeout-secs
    MinConnect    \* the least time the test connection gets

Protocols == {"obfs4", "snowflake", "webtunnel", "other"}

\* split: the argument contains an equals sign.
ASSUME SpecsAssumption ==
    Specs \subseteq [split : BOOLEAN,
                     protocol : Protocols \cup {InvalidName, Empty},
                     path : Paths \cup {Empty}]

ASSUME LinesAssumption == BridgeLists \subseteq Seq(DOMAIN Transport)

ASSUME TimeAssumption ==
    /\ Timeouts \subseteq Nat
    /\ MinConnect \in Nat \ {0}

VARIABLES
    phase,       \* where startup is
    specs,       \* the --pt arguments of this run
    given,       \* its --bridge arguments
    transports,  \* BridgeManager.transports
    candidates,  \* BridgeManager.candidates
    timeout,     \* the timeout of this run
    idx,         \* find_healthy_config_reporting: the candidate in turn
    elapsed,     \* start.elapsed() of the check under way
    connectBy,   \* elapsed when the test connection is given up
    guards,      \* guard state in the check's temporary directories
    rows,        \* HealthStatus.candidates: the status of each row
    active,      \* active_bridge_idx: the bridge of the real client, or 0
    works        \* external: the bridges through which Tor works now

\* History, read by properties only.
VARIABLES
    booted,      \* elapsed when the check's bootstrap succeeded
    via          \* the bridges successful test connections went through

argVars == <<specs, given, timeout>>
managerVars == <<transports, candidates>>
checkVars == <<elapsed, connectBy, guards>>
historyVars == <<booted, via>>
vars == <<phase, argVars, managerVars, idx, checkVars, rows, active, works,
          historyVars>>

-----------------------------------------------------------------------------
(* The search for a transport binary                                       *)

\* candidate_binary_names, in order of preference.
BinaryNames(protocol) ==
    CASE protocol = "obfs4" -> <<"obfs4proxy", "lyrebird">>
      [] protocol = "snowflake" -> <<"snowflake-client">>
      [] protocol = "webtunnel" -> <<"webtunnel-client">>
      [] OTHER -> <<>>

SearchDirs == PathDirs \o ExtraDirs

Files == (UNION {Range(BinaryNames(p)) : p \in Protocols}) \X Range(SearchDirs)

\* The directories are sequences, and None is not Some of a file.
ASSUME SearchAssumption ==
    /\ PathDirs \in Seq(Range(PathDirs))
    /\ ExtraDirs \in Seq(Range(ExtraDirs))
    /\ NotFound \notin Files

\* Where to look, in order: each name in every directory, then the next name.
SearchOrder_dirByDir(protocol) ==
    LET names == BinaryNames(protocol)
        count == Len(names)
    IN  [k \in 1..(count * Len(SearchDirs)) |->
           <<names[((k - 1) % count) + 1], SearchDirs[((k - 1) \div count) + 1]>>]
SearchOrder(protocol) ==
    LET names == BinaryNames(protocol)
        count == Len(SearchDirs)
    IN  [k \in 1..(Len(names) * count) |->
           <<names[((k - 1) \div count) + 1], SearchDirs[((k - 1) % count) + 1]>>]

\* locate_transport_binary, when disk is the set of executable files.
LocateTransport(protocol, disk) ==
    LET order == SearchOrder(protocol)
        hits == {k \in DOMAIN order : order[k] \in disk}
    IN  IF hits = {} THEN NotFound ELSE order[Min(hits)]

-----------------------------------------------------------------------------
(* Helpers.  An operator named X_fault is X with a plausible coding error; *)
(* none is used in the specification: they show that the properties would  *)
(* notice such an error.                                                   *)

\* parse_pt_spec accepts s.
Parses(s) == s.split /\ s.protocol # Empty /\ s.path # Empty

Registered(protocol) == \E t \in transports : t.protocol = protocol

\* build_config gives arti the candidate and every registered transport.
TransportsGiven_ownOnly(i) ==
    {t \in transports : t.protocol = Transport[candidates[i]]}
TransportsGiven(i) == transports

Buildable(i) == \A t \in TransportsGiven(i) : t.protocol # InvalidName

\* A check's directories are new, so they hold no guard of an earlier one.
FreshGuards_shared == guards
FreshGuards == {}

\* What arti may connect through: the bridge of its configuration, or a guard
\* its directories hold.
Usable(i) == ({i} \cup guards) \cap works

Longest(a, b) == IF a < b THEN b ELSE a

\* timeout.saturating_sub(start.elapsed()).max(10 s)
Remaining_whole == Longest(timeout, MinConnect)
Remaining ==
    Longest(IF elapsed < timeout THEN timeout - elapsed ELSE 0, MinConnect)

BootstrapDue == phase = "bootstrap" /\ elapsed = timeout

ConnectDue == phase = "connect" /\ elapsed = connectBy

\* The loop after a check that failed.
NextIdx_same == idx
NextIdx == idx + 1

AfterFailure_givesUp == "direct"
AfterFailure_lastAnyway == IF idx < Len(candidates) THEN "prepare" ELSE "passed"
AfterFailure == IF idx < Len(candidates) THEN "prepare" ELSE "direct"

-----------------------------------------------------------------------------
Init ==
    /\ phase = "parse"
    /\ specs \in SUBSET Specs
    /\ given \in BridgeLists
    /\ transports = {}
    /\ candidates = <<>>
    /\ timeout \in Timeouts
    /\ idx = 1
    /\ elapsed = 0
    /\ connectBy = 0
    /\ guards = {}
    /\ rows = <<>>
    /\ active = 0
    /\ works \in SUBSET (0..Len(given))
    /\ booted = 0
    /\ via = {}

\* External: a bridge, or the way to the public network, breaks or recovers.
NetworkChange ==
    /\ \E n \in 0..Len(given) :
         works' = IF n \in works THEN works \ {n} ELSE works \cup {n}
    /\ UNCHANGED <<phase, argVars, managerVars, idx, checkVars, rows, active,
                   historyVars>>

\* External: a unit of time passes; a timer that is due fires first.
Tick ==
    /\ phase \in {"bootstrap", "connect"}
    /\ ~BootstrapDue /\ ~ConnectDue
    /\ elapsed' = elapsed + 1
    /\ UNCHANGED <<phase, argVars, managerVars, idx, connectBy, guards, rows,
                   active, works, historyVars>>

-----------------------------------------------------------------------------
(* The arguments                                                           *)

ParsePtSpecs ==
    /\ phase = "parse"
    /\ IF \A s \in specs : Parses(s)
       THEN /\ phase' = "add"
            /\ transports' = {[protocol |-> s.protocol, path |-> s.path] :
                                s \in specs}
       ELSE /\ phase' = "exit"
            /\ UNCHANGED transports
    /\ UNCHANGED <<argVars, candidates, idx, checkVars, rows, active, works,
                   historyVars>>

\* add_bridge_line of the next --bridge argument: the line is malformed, its
\* transport cannot be found, or it becomes a candidate.
AddBridge(disk) ==
    LET line == given[Len(candidates) + 1]
        protocol == Transport[line]
        located == LocateTransport(protocol, disk)
        missing == protocol # NoTransport /\ ~Registered(protocol)
    IN  /\ phase = "add"
        /\ Len(candidates) < Len(given)
        /\ IF line \in Malformed \/ (missing /\ located = NotFound)
           THEN /\ phase' = "exit"
                /\ UNCHANGED managerVars
           ELSE /\ transports' = transports \cup
                     (IF missing
                      THEN {[protocol |-> protocol, path |-> located]} ELSE {})
                /\ candidates' = Append(candidates, line)
                /\ UNCHANGED phase
        /\ UNCHANGED <<argVars, idx, checkVars, rows, active, works,
                       historyVars>>

\* seed_candidates, then the scan or, without candidates, a direct bootstrap.
BeginScan ==
    /\ phase = "add"
    /\ Len(candidates) = Len(given)
    /\ phase' = IF candidates = <<>> THEN "direct" ELSE "prepare"
    /\ rows' = [i \in DOMAIN candidates |-> "untested"]
    /\ UNCHANGED <<argVars, managerVars, idx, checkVars, active, works,
                   historyVars>>

-----------------------------------------------------------------------------
(* One health check                                                        *)

\* Temporary directories and the configuration; either may fail.
Prepare ==
    /\ phase = "prepare"
    /\ elapsed' = 0
    /\ connectBy' = 0
    /\ booted' = 0
    /\ guards' = FreshGuards
    /\ phase' \in {"failed"} \cup (IF Buildable(idx) THEN {"bootstrap"} ELSE {})
    /\ UNCHANGED <<argVars, managerVars, idx, rows, active, works, via>>

Bootstrapped ==
    /\ phase = "bootstrap"
    /\ Usable(idx) # {}
    /\ phase' = "connect"
    /\ booted' = elapsed
    /\ connectBy' = elapsed + Remaining
    /\ guards' = guards \cup Usable(idx)
    /\ UNCHANGED <<argVars, managerVars, idx, elapsed, rows, active, works, via>>

\* bootstrap_with_deadline: an error of arti's, or the deadline.
BootstrapFailed ==
    /\ phase = "bootstrap"
    /\ phase' = "failed"
    /\ UNCHANGED <<argVars, managerVars, idx, checkVars, rows, active, works,
                   historyVars>>

BootstrapTimedOut == BootstrapDue /\ BootstrapFailed

Connected ==
    /\ phase = "connect"
    /\ \E n \in Usable(idx) : via' = via \cup {<<idx, n>>}
    /\ phase' = "passed"
    /\ UNCHANGED <<argVars, managerVars, idx, checkVars, rows, active, works,
                   booted>>

ConnectFailed ==
    /\ phase = "connect"
    /\ phase' = "failed"
    /\ UNCHANGED <<argVars, managerVars, idx, checkVars, rows, active, works,
                   historyVars>>

ConnectTimedOut == ConnectDue /\ ConnectFailed

-----------------------------------------------------------------------------
(* The scan, and the real client                                           *)

\* on_result reports a failed check, and the loop goes on or ends.
ReportFailed ==
    /\ phase = "failed"
    /\ rows' = [rows EXCEPT ![idx] = "unhealthy"]
    /\ idx' = NextIdx
    /\ phase' = AfterFailure
    /\ UNCHANGED <<argVars, managerVars, checkVars, active, works, historyVars>>

\* on_result reports the winner, and production_config builds its
\* configuration again.
ReportPassed ==
    /\ phase = "passed"
    /\ rows' = [rows EXCEPT ![idx] = "healthy"]
    /\ IF Buildable(idx)
       THEN phase' = "bridge" /\ active' = idx
       ELSE phase' = "direct" /\ UNCHANGED active
    /\ UNCHANGED <<argVars, managerVars, idx, checkVars, works, historyVars>>

\* bootstrap_with has no deadline: it may also never return.
RealBootstrap ==
    /\ phase \in {"bridge", "direct"}
    /\ \/ active \in works /\ phase' = "running"
       \/ phase' = "exit"
    /\ UNCHANGED <<argVars, managerVars, idx, checkVars, rows, active, works,
                   historyVars>>

CheckStep == Prepare \/ Bootstrapped \/ BootstrapFailed \/ Connected \/ ConnectFailed

Next ==
    \/ ParsePtSpecs
    \/ \E disk \in SUBSET Files : AddBridge(disk)
    \/ BeginScan
    \/ CheckStep
    \/ ReportFailed
    \/ ReportPassed
    \/ RealBootstrap
    \/ NetworkChange
    \/ Tick

\* The program's own steps are taken, its timers fire and time passes.  How a
\* bootstrap or a connection ends before its limit is left open.
Fairness ==
    /\ WF_vars(ParsePtSpecs)
    /\ WF_vars(\E disk \in SUBSET Files : AddBridge(disk))
    /\ WF_vars(BeginScan)
    /\ WF_vars(Prepare)
    /\ WF_vars(BootstrapTimedOut)
    /\ WF_vars(ConnectTimedOut)
    /\ WF_vars(ReportFailed)
    /\ WF_vars(ReportPassed)
    /\ WF_vars(Tick)

Spec == Init /\ [][Next]_vars /\ Fairness

-----------------------------------------------------------------------------
(* Properties                                                              *)

\* "Binary names to search for, in preference order" (discovery.rs:12): the
\* binary found is executable, no preferred name is executable in any
\* directory searched, and its name in no directory searched earlier; and
\* one is found whenever there is one.  The disk is any, so this is looked at
\* once, before the arguments are parsed.
PreferredBinary ==
    phase = "parse" =>
        \A protocol \in Protocols, disk \in SUBSET Files :
            LET found == LocateTransport(protocol, disk)
                names == BinaryNames(protocol)
            IN  IF found = NotFound
                THEN \A f \in disk : f[1] \notin Range(names)
                ELSE \E n \in DOMAIN names, d \in DOMAIN SearchDirs :
                       /\ found = <<names[n], SearchDirs[d]>>
                       /\ found \in disk
                       /\ \A f \in disk, m \in 1..(n - 1) : f[1] # names[m]
                       /\ \A e \in 1..(d - 1) :
                             <<names[n], SearchDirs[e]>> \notin disk

\* How far health_check overruns --bridge-timeout-secs: only in the test
\* connection, by no more than the connection's least time, and only after a
\* bootstrap that left less than that.
CheckBounded ==
    elapsed > timeout =>
        /\ phase # "bootstrap"
        /\ booted <= timeout
        /\ booted + MinConnect > timeout
        /\ elapsed <= booted + MinConnect

\* "If it reports success, the connection could only have gone through the
\* bridge that config names" (bridges/lib.rs:22), whatever the bridges tried
\* before it do.
OwnBridgeTested == \A t \in via : t[1] = t[2]

\* The scan keeps the order of the arguments: the real client goes through
\* the first candidate to pass, every one before it is reported unhealthy,
\* every one after it untested; and it is direct only when all have failed.
FirstToPass ==
    phase \in {"bridge", "direct", "running"} =>
        \A i \in DOMAIN candidates :
            rows[i] = IF active = 0 \/ i < active THEN "unhealthy"
                      ELSE IF i = active THEN "healthy" ELSE "untested"

\* build_config hands every registered transport to arti, so one --pt whose
\* protocol name is invalid leaves a direct connection as the only outcome,
\* also with bridges that need no transport.
OneBadNameNoBridge == Registered(InvalidName) => active = 0

\* Startup keeps the promise that the failover keeps later: the list only
\* grows, traffic is given only to a bridge a test connection of this run got
\* through, and no bridge is left for a direct connection.
Switch == INSTANCE BridgeSwitch WITH listed <- Len(candidates),
                                     verified <- {t[1] : t \in via},
                                     client <- active
SwitchSpec == Switch!Spec

\* Startup leaves the scan: each check ends at its limits at the latest, and
\* the scan after its last candidate.  The real bootstrap has no limit.
ScanEnds ==
    [](phase = "add" => <>(phase \in {"exit", "bridge", "direct"}))

=============================================================================
