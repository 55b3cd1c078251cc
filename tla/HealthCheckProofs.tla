------------------------- MODULE HealthCheckProofs -------------------------
(***************************************************************************)
(* The scan of `anonet run`, for any arguments, any number of bridges and  *)
(* transports, any timeout and a network that changes at any time.  What   *)
(* it ends with rests on where it is: which rows are written (Progress),   *)
(* that a check past its configuration had one arti accepts (Built), which *)
(* guards its directories hold (OwnGuards), that the one reported healthy  *)
(* was tested (Tested), and how its two limits relate (Timing).            *)
(***************************************************************************)
EXTENDS HealthCheck, WellFoundedInduction, TLAPS

\* Before the scan, in it, and with a configuration that was built.
Early == {"parse", "add"}
Scanning == {"prepare", "bootstrap", "connect", "failed", "passed"}
WithConfig == {"bootstrap", "connect", "passed"}
Over == {"bridge", "direct", "running", "exit"}

Types ==
    /\ phase \in Early \cup Scanning \cup Over
    /\ given \in Seq(DOMAIN Transport)
    /\ candidates \in Seq(DOMAIN Transport)
    /\ timeout \in Nat
    /\ elapsed \in Nat
    /\ connectBy \in Nat
    /\ booted \in Nat
    /\ idx \in Nat \ {0}
    /\ active \in Nat

\* A bootstrap keeps to the timeout; a test connection to what was left of it
\* when the bootstrap ended, or the minimum.
Timing ==
    /\ phase \in Early => elapsed = 0
    /\ phase = "bootstrap" => elapsed <= timeout
    /\ phase = "connect" =>
          /\ booted <= timeout
          /\ \/ connectBy = timeout
             \/ connectBy = booted + MinConnect /\ booted + MinConnect > timeout
          /\ elapsed <= connectBy

\* The directories of a check know no bridge but its own.
OwnGuards == phase \in WithConfig => guards \subseteq {idx}

\* The candidates before the one in turn have failed, the others are untested.
Progress ==
    /\ phase \in Early \cup Scanning => active = 0
    /\ phase \in Early => idx = 1
    /\ phase \in Scanning =>
          /\ idx \in DOMAIN candidates
          /\ rows = [i \in DOMAIN candidates |->
                       IF i < idx THEN "unhealthy" ELSE "untested"]

\* arti accepts the names of all transports given to a check that got past its
\* configuration, and so to the real client if it uses a bridge.
Built ==
    phase \in WithConfig \/ active # 0 =>
        \A t \in transports : t.protocol # InvalidName

\* A check that passed had a successful test connection.
Tested == phase = "passed" => \E t \in via : t[1] = idx

IndInv ==
    /\ Types /\ Timing /\ OwnGuards /\ Progress /\ Built /\ Tested
    /\ CheckBounded /\ OwnBridgeTested /\ FirstToPass

-----------------------------------------------------------------------------
\* Every step keeps the types.
LEMMA StepTypes == ASSUME IndInv, [Next]_vars PROVE Types'
  <1> USE TimeAssumption DEF IndInv, Types, Early, Scanning, Over,
          argVars, managerVars, checkVars, historyVars
  <1>1. CASE ParsePtSpecs \/ BeginScan \/ NetworkChange \/ Tick \/ UNCHANGED vars
    BY <1>1 DEF ParsePtSpecs, BeginScan, NetworkChange, Tick, vars
  <1>2. ASSUME NEW disk \in SUBSET Files, AddBridge(disk)
        PROVE  Types'
    <2>1. given[Len(candidates) + 1] \in DOMAIN Transport
      BY <1>2 DEF AddBridge
    <2>2. candidates' = candidates
            \/ candidates' = Append(candidates, given[Len(candidates) + 1])
      BY <1>2 DEF AddBridge
    <2>3. candidates' \in Seq(DOMAIN Transport)
      BY <2>1, <2>2
    <2> QED
      BY <1>2, <2>3 DEF AddBridge
  <1>3. CASE CheckStep
    BY <1>3 DEF CheckStep, Prepare, Bootstrapped, BootstrapFailed, Connected,
                ConnectFailed, Remaining, Longest
  <1>4. CASE ReportFailed \/ ReportPassed \/ RealBootstrap
    BY <1>4 DEF ReportFailed, ReportPassed, RealBootstrap, NextIdx, AfterFailure
  <1> QED
    BY <1>1, <1>2, <1>3, <1>4 DEF Next

\* A clock that does not pass a due timer keeps both limits.
LEMMA StepTiming == ASSUME IndInv, [Next]_vars PROVE Timing' /\ CheckBounded'
  <1> USE TimeAssumption DEF IndInv, Types, Timing, CheckBounded, Early,
          argVars, managerVars, checkVars, historyVars
  <1>1. CASE Tick
    BY <1>1 DEF Tick, BootstrapDue, ConnectDue
  <1>2. CASE Bootstrapped
    BY <1>2 DEF Bootstrapped, Remaining, Longest
  <1>3. CASE Prepare \/ BootstrapFailed \/ Connected \/ ConnectFailed
    BY <1>3 DEF Prepare, BootstrapFailed, Connected, ConnectFailed
  <1>4. CASE ParsePtSpecs \/ BeginScan \/ NetworkChange \/ UNCHANGED vars
             \/ \E disk \in SUBSET Files : AddBridge(disk)
    BY <1>4 DEF ParsePtSpecs, AddBridge, BeginScan, NetworkChange, vars
  <1>5. CASE ReportFailed \/ ReportPassed \/ RealBootstrap
    BY <1>5 DEF ReportFailed, ReportPassed, RealBootstrap, AfterFailure
  <1> QED
    BY <1>1, <1>2, <1>3, <1>4, <1>5 DEF Next, CheckStep

\* Directories made for a check learn of its own bridge only, and so a test
\* connection goes through it.
LEMMA StepOwnGuards ==
    ASSUME IndInv, [Next]_vars PROVE OwnGuards' /\ OwnBridgeTested'
  <1> USE DEF IndInv, OwnGuards, OwnBridgeTested, WithConfig,
          argVars, managerVars, checkVars, historyVars
  <1>1. CASE Prepare
    BY <1>1 DEF Prepare, FreshGuards
  <1>2. CASE Bootstrapped
    BY <1>2 DEF Bootstrapped, Usable
  <1>3. CASE Connected
    BY <1>3 DEF Connected, Usable
  <1>4. CASE BootstrapFailed \/ ConnectFailed
    BY <1>4 DEF BootstrapFailed, ConnectFailed
  <1>5. CASE ParsePtSpecs \/ BeginScan \/ NetworkChange \/ Tick \/ UNCHANGED vars
             \/ \E disk \in SUBSET Files : AddBridge(disk)
    BY <1>5 DEF ParsePtSpecs, AddBridge, BeginScan, NetworkChange, Tick, vars
  <1>6. CASE ReportFailed \/ ReportPassed \/ RealBootstrap
    BY <1>6 DEF ReportFailed, ReportPassed, RealBootstrap, AfterFailure
  <1> QED
    BY <1>1, <1>2, <1>3, <1>4, <1>5, <1>6 DEF Next, CheckStep

\* A configuration with a name arti rejects is not built.
LEMMA StepBuilt == ASSUME IndInv, [Next]_vars PROVE Built'
  <1> USE DEF IndInv, Built, WithConfig, argVars, managerVars, checkVars,
          historyVars
  <1>1. CASE Prepare
    BY <1>1 DEF Prepare, Buildable, TransportsGiven
  <1>2. CASE Bootstrapped \/ Connected \/ BootstrapFailed \/ ConnectFailed
    BY <1>2 DEF Bootstrapped, Connected, BootstrapFailed, ConnectFailed
  <1>3. CASE BeginScan \/ NetworkChange \/ Tick \/ UNCHANGED vars
    BY <1>3 DEF BeginScan, NetworkChange, Tick, vars
  <1>4. CASE ParsePtSpecs \/ \E disk \in SUBSET Files : AddBridge(disk)
    BY <1>4 DEF ParsePtSpecs, AddBridge, Progress, Early
  <1>5. CASE ReportFailed \/ ReportPassed \/ RealBootstrap
    BY <1>5 DEF ReportFailed, ReportPassed, RealBootstrap, AfterFailure
  <1> QED
    BY <1>1, <1>2, <1>3, <1>4, <1>5 DEF Next, CheckStep

\* After a failed check the rows tell how far the scan is, and if it was the
\* last one that all bridges have failed.
LEMMA FailureReported ==
    ASSUME IndInv, ReportFailed PROVE Progress' /\ FirstToPass'
  <1>1. active = 0 /\ idx \in DOMAIN candidates
        /\ rows = [i \in DOMAIN candidates |->
                     IF i < idx THEN "unhealthy" ELSE "untested"]
    BY DEF IndInv, Progress, Scanning, ReportFailed
  <1>2. idx \in 1..Len(candidates) /\ DOMAIN candidates = 1..Len(candidates)
        /\ Len(candidates) \in Nat
    BY <1>1 DEF IndInv, Types
  <1>3. /\ rows' = [rows EXCEPT ![idx] = "unhealthy"]
        /\ idx' = idx + 1
        /\ candidates' = candidates
        /\ active' = 0
        /\ phase' = IF idx < Len(candidates) THEN "prepare" ELSE "direct"
    BY <1>1 DEF ReportFailed, NextIdx, AfterFailure, managerVars
  <1>4. rows' = [i \in DOMAIN candidates |->
                   IF i < idx + 1 THEN "unhealthy" ELSE "untested"]
    BY <1>1, <1>2, <1>3
  <1>5. CASE idx < Len(candidates)
    <2>1. phase' = "prepare" /\ idx + 1 \in DOMAIN candidates
      BY <1>2, <1>3, <1>5
    <2> QED
      BY <2>1, <1>3, <1>4 DEF Progress, FirstToPass, Early, Scanning
  <1>6. CASE ~ idx < Len(candidates)
    <2>1. phase' = "direct" /\ \A i \in DOMAIN candidates : i < idx + 1
      BY <1>2, <1>3, <1>6
    <2> QED
      BY <2>1, <1>3, <1>4 DEF Progress, FirstToPass, Early, Scanning
  <1> QED
    BY <1>5, <1>6

\* The scan goes on with the next candidate after a failure, and ends at the
\* first success or after the last candidate.
LEMMA StepProgress ==
    ASSUME IndInv, [Next]_vars PROVE Progress' /\ FirstToPass'
  <1> USE DEF IndInv, Types, Progress, FirstToPass, Early, Scanning,
          argVars, managerVars, checkVars, historyVars
  <1>1. CASE CheckStep
    BY <1>1 DEF CheckStep, Prepare, Bootstrapped, BootstrapFailed, Connected,
                ConnectFailed
  <1>2. CASE NetworkChange \/ Tick \/ UNCHANGED vars
    BY <1>2 DEF NetworkChange, Tick, vars
  <1>3. CASE ParsePtSpecs \/ \E disk \in SUBSET Files : AddBridge(disk)
    BY <1>3 DEF ParsePtSpecs, AddBridge
  <1>4. CASE BeginScan
    <2>1. CASE candidates = <<>>
      <3>1. phase' = "direct" /\ active' = 0 /\ candidates' = <<>>
        BY <1>4, <2>1 DEF BeginScan
      <3> QED
        BY <3>1
    <2>2. CASE candidates # <<>>
      <3>1. phase' = "prepare" /\ active' = 0 /\ idx' = idx
            /\ candidates' = candidates
            /\ rows' = [i \in DOMAIN candidates |-> "untested"]
        BY <1>4, <2>2 DEF BeginScan
      <3>2. idx = 1 /\ 1 \in DOMAIN candidates
        BY <1>4, <2>2 DEF BeginScan
      <3> QED
        BY <3>1, <3>2
    <2> QED
      BY <2>1, <2>2
  <1>5. CASE ReportFailed
    BY <1>5, FailureReported
  <1>6. CASE ReportPassed
    <2>1. Buildable(idx)
      BY <1>6 DEF ReportPassed, Built, WithConfig, Buildable, TransportsGiven
    <2> QED
      BY <1>6, <2>1 DEF ReportPassed
  <1>7. CASE RealBootstrap
    BY <1>7 DEF RealBootstrap
  <1> QED
    BY <1>1, <1>2, <1>3, <1>4, <1>5, <1>6, <1>7 DEF Next

\* Only a test connection makes a check pass.
LEMMA StepTested == ASSUME IndInv, [Next]_vars PROVE Tested'
  <1> USE DEF IndInv, Tested, argVars, managerVars, checkVars, historyVars
  <1>1. CASE Connected
    <2>1. PICK n \in Usable(idx) : via' = via \cup {<<idx, n>>}
      BY <1>1 DEF Connected
    <2>2. <<idx, n>> \in via' /\ <<idx, n>>[1] = idx /\ idx' = idx
      BY <1>1, <2>1 DEF Connected
    <2> QED
      BY <2>2
  <1>2. CASE Prepare \/ Bootstrapped \/ BootstrapFailed \/ ConnectFailed
    BY <1>2 DEF Prepare, Bootstrapped, BootstrapFailed, ConnectFailed
  <1>3. CASE BeginScan \/ NetworkChange \/ Tick \/ UNCHANGED vars
    BY <1>3 DEF BeginScan, NetworkChange, Tick, vars
  <1>4. CASE ParsePtSpecs \/ \E disk \in SUBSET Files : AddBridge(disk)
    BY <1>4 DEF ParsePtSpecs, AddBridge
  <1>5. CASE ReportFailed \/ ReportPassed \/ RealBootstrap
    BY <1>5 DEF ReportFailed, ReportPassed, RealBootstrap, AfterFailure
  <1> QED
    BY <1>1, <1>2, <1>3, <1>4, <1>5 DEF Next, CheckStep

-----------------------------------------------------------------------------
\* The invariant holds initially and is kept by every step.
THEOREM Inductive == Spec => []IndInv
  <1>1. Init => IndInv
    <2> SUFFICES ASSUME Init PROVE IndInv
      OBVIOUS
    <2>1. Types
      BY LinesAssumption, TimeAssumption DEF Init, Types, Early
    <2>2. Timing /\ OwnGuards /\ Progress /\ Built /\ Tested
      BY DEF Init, Timing, OwnGuards, Progress, Built, Tested, Early, Scanning,
             WithConfig
    <2>3. CheckBounded /\ OwnBridgeTested /\ FirstToPass
      BY <2>1 DEF Init, CheckBounded, OwnBridgeTested, FirstToPass, Types
    <2> QED
      BY <2>1, <2>2, <2>3 DEF IndInv
  <1>2. IndInv /\ [Next]_vars => IndInv'
    BY StepTypes, StepTiming, StepOwnGuards, StepBuilt, StepProgress, StepTested
       DEF IndInv
  <1> QED
    BY <1>1, <1>2, PTL DEF Spec

\* A check overruns the timeout in its test connection only, and by less than
\* the connection's minimum, for any timeout.
THEOREM CheckBoundedHolds == Spec => []CheckBounded
  BY Inductive, PTL DEF IndInv

\* A test connection that succeeds went through the bridge under test, however
\* bridges break and recover.
THEOREM OwnBridgeTestedHolds == Spec => []OwnBridgeTested
  BY Inductive, PTL DEF IndInv

\* The real client uses the first bridge to pass, for any list of bridges.
THEOREM FirstToPassHolds == Spec => []FirstToPass
  BY Inductive, PTL DEF IndInv

\* One transport with a name arti rejects rules out every bridge.
THEOREM OneBadNameNoBridgeHolds == Spec => []OneBadNameNoBridge
  <1>1. IndInv => OneBadNameNoBridge
    BY DEF IndInv, Built, OneBadNameNoBridge, Registered
  <1> QED
    BY <1>1, Inductive, PTL

\* Startup implements BridgeSwitch: a successful test connection verifies a
\* candidate, and the real client is given the one verified last or none.
THEOREM RefinesSwitch == Spec => SwitchSpec
  <1>1. Init => Switch!Init
    <2> SUFFICES ASSUME Init PROVE Switch!Init
      OBVIOUS
    <2>1. Len(candidates) = 0 /\ via = {} /\ active = 0
      BY DEF Init
    <2> QED
      BY <2>1 DEF Switch!Init
  <1>2. IndInv /\ [Next]_vars => [Switch!Next]_(Switch!vars)
    <2> SUFFICES ASSUME IndInv, [Next]_vars PROVE [Switch!Next]_(Switch!vars)
      OBVIOUS
    <2> USE DEF argVars, managerVars, checkVars, historyVars
    <2>1. ASSUME NEW disk \in SUBSET Files, AddBridge(disk)
          PROVE  [Switch!Next]_(Switch!vars)
      <3> DEFINE line == given[Len(candidates) + 1]
      <3>1. UNCHANGED <<via, active>>
        BY <2>1 DEF AddBridge
      <3>2. candidates' = candidates \/ candidates' = Append(candidates, line)
        BY <2>1 DEF AddBridge
      <3>3. CASE candidates' = candidates
        BY <3>1, <3>3 DEF Switch!vars
      <3>4. CASE candidates' = Append(candidates, line)
        <4>1. candidates \in Seq(DOMAIN Transport) /\ given \in Seq(DOMAIN Transport)
          BY DEF IndInv, Types
        <4>2. line \in DOMAIN Transport
          BY <2>1, <4>1 DEF AddBridge
        <4> HIDE DEF line
        <4>3. Len(candidates') = Len(candidates) + 1
          BY <3>4, <4>1, <4>2
        <4>4. Switch!List
          BY <3>1, <4>3 DEF Switch!List
        <4> QED
          BY <4>4 DEF Switch!Next
      <3> QED
        BY <3>2, <3>3, <3>4
    <2>2. CASE Connected
      <3>1. PICK n \in Usable(idx) : via' = via \cup {<<idx, n>>}
        BY <2>2 DEF Connected
      <3>2. idx \in 1..Len(candidates)
        <4>1. idx \in DOMAIN candidates
          BY <2>2 DEF IndInv, Progress, Scanning, Connected
        <4> QED
          BY <4>1 DEF IndInv, Types
      <3>3. {t[1] : t \in via'} = {t[1] : t \in via} \cup {idx}
        <4> DEFINE new == <<idx, n>>
        <4>1. new[1] = idx /\ via' = via \cup {new}
          BY <3>1
        <4> HIDE DEF new
        <4>2. ASSUME NEW x PROVE x \in {t[1] : t \in via'}
                                  <=> x \in {t[1] : t \in via} \cup {idx}
          BY <4>1
        <4> QED
          BY <4>2
      <3>4. UNCHANGED <<candidates, active>>
        BY <2>2 DEF Connected
      <3>5. Switch!Verify
        BY <3>2, <3>3, <3>4 DEF Switch!Verify
      <3> QED
        BY <3>5 DEF Switch!Next
    <2>3. CASE ReportPassed
      <3>1. UNCHANGED <<candidates, via>>
        BY <2>3 DEF ReportPassed
      <3>2. CASE active' = active
        BY <3>1, <3>2 DEF Switch!vars
      <3>3. CASE active' = idx
        <4>1. active' \in {t[1] : t \in via}
          BY <2>3, <3>3 DEF ReportPassed, IndInv, Tested
        <4>2. Switch!Switch
          BY <3>1, <4>1 DEF Switch!Switch
        <4> QED
          BY <4>2 DEF Switch!Next
      <3> QED
        BY <2>3, <3>2, <3>3 DEF ReportPassed
    <2>4. CASE \/ ParsePtSpecs \/ BeginScan \/ Prepare \/ Bootstrapped
               \/ BootstrapFailed \/ ConnectFailed \/ ReportFailed \/ RealBootstrap
               \/ NetworkChange \/ Tick \/ UNCHANGED vars
      <3>1. UNCHANGED <<candidates, via, active>>
        BY <2>4 DEF ParsePtSpecs, BeginScan, Prepare, Bootstrapped, BootstrapFailed,
                    ConnectFailed, ReportFailed, RealBootstrap, NetworkChange, Tick, vars
      <3> QED
        BY <3>1 DEF Switch!vars
    <2> QED
      BY <2>1, <2>2, <2>3, <2>4 DEF Next, CheckStep
  <1> QED
    BY <1>1, <1>2, Inductive, PTL DEF Spec, SwitchSpec, Switch!Spec

-----------------------------------------------------------------------------
(* The search for a transport binary, for any directories and any disk     *)

\* A set of natural numbers has a least element, and Min is it.
LEMMA LeastElement ==
    ASSUME NEW S \in SUBSET Nat, S # {}
    PROVE  Min(S) \in S /\ \A y \in S : Min(S) <= y
  <1>1. PICK x \in S : \A y \in S : <<y, x>> \notin OpToRel(<, Nat)
    BY WFMin, NatLessThanWellFounded
  <1>2. ASSUME NEW y \in S, ~ x <= y PROVE FALSE
    <2>1. x \in Nat /\ y \in Nat /\ y < x
      BY <1>2
    <2>2. <<y, x>> \in OpToRel(<, Nat)
      BY <2>1 DEF OpToRel
    <2> QED
      BY <1>1, <2>2
  <1> QED
    BY <1>2 DEF Min

\* Quotient and remainder number the pairs of a row and one of c columns ...
LEMMA Division ==
    ASSUME NEW c \in Nat \ {0}, NEW j \in Nat
    PROVE  /\ j \div c \in Nat
           /\ j % c \in 0..(c - 1)
           /\ j = c * (j \div c) + (j % c)
  <1>1. j \div c \in Nat
    OBVIOUS
  <1>2. j % c \in 0..(c - 1)
    OBVIOUS
  <1>3. j = c * (j \div c) + (j % c)
    OBVIOUS
  <1> QED
    BY <1>1, <1>2, <1>3

\* ... row by row ...
LEMMA NextRow ==
    ASSUME NEW c \in Nat \ {0}, NEW p \in Nat, NEW q \in Nat, p < q
    PROVE  c * p + c <= c * q
  OBVIOUS

\* ... and each pair once.
LEMMA DivisionUnique ==
    ASSUME NEW c \in Nat \ {0}, NEW q \in Nat, NEW r \in 0..(c - 1),
           NEW j, j = c * q + r
    PROVE  j \div c = q /\ j % c = r
  <1>1. j \in Nat
    OBVIOUS
  <1> DEFINE p == j \div c
  <1>2. p \in Nat /\ j % c \in 0..(c - 1) /\ j = c * p + (j % c)
    BY <1>1, Division
  <1> HIDE DEF p
  <1>3. c * p \in Nat /\ c * q \in Nat
    BY <1>2
  <1>4. ~ p < q
    BY <1>2, <1>3, NextRow
  <1>5. ~ q < p
    <2> SUFFICES ASSUME q < p PROVE FALSE
      OBVIOUS
    <2>1. c * q + c <= c * p
      BY <1>2, NextRow
    <2> QED
      BY <1>2, <1>3, <2>1
  <1>6. p = q
    BY <1>2, <1>4, <1>5
  <1>7. j % c = r
    BY <1>2, <1>3, <1>6
  <1> QED
    BY <1>6, <1>7 DEF p

\* The place of directory d under name n in the search.
Place(n, d) == Len(SearchDirs) * (n - 1) + d

\* What a protocol's binaries may be called, and where they are looked for.
LEMMA SearchTypes ==
    /\ SearchDirs \in Seq(Range(SearchDirs))
    /\ Len(SearchDirs) \in Nat
    /\ \A protocol \in Protocols :
         /\ BinaryNames(protocol) \in Seq(Range(BinaryNames(protocol)))
         /\ Len(BinaryNames(protocol)) \in Nat
         /\ \A n \in DOMAIN BinaryNames(protocol), d \in DOMAIN SearchDirs :
              <<BinaryNames(protocol)[n], SearchDirs[d]>> \in Files
  <1>1. SearchDirs \in Seq(Range(PathDirs) \cup Range(ExtraDirs))
    BY SearchAssumption DEF SearchDirs
  <1>2. SearchDirs \in Seq(Range(SearchDirs)) /\ Len(SearchDirs) \in Nat
    BY <1>1 DEF Range
  <1>3. ASSUME NEW protocol \in Protocols
        PROVE  /\ BinaryNames(protocol) \in Seq(Range(BinaryNames(protocol)))
               /\ Len(BinaryNames(protocol)) \in Nat
    <2>1. CASE protocol = "obfs4"
      BY <2>1 DEF BinaryNames, Range
    <2>2. CASE protocol = "snowflake"
      BY <2>2 DEF BinaryNames, Range
    <2>3. CASE protocol = "webtunnel"
      BY <2>3 DEF BinaryNames, Range
    <2>4. CASE protocol = "other"
      BY <2>4 DEF BinaryNames, Range
    <2> QED
      BY <2>1, <2>2, <2>3, <2>4 DEF Protocols
  <1>4. ASSUME NEW protocol \in Protocols,
               NEW n \in DOMAIN BinaryNames(protocol), NEW d \in DOMAIN SearchDirs
        PROVE  <<BinaryNames(protocol)[n], SearchDirs[d]>> \in Files
    BY DEF Files, Range
  <1> QED
    BY <1>2, <1>3, <1>4

\* The places are those of the search, the n-th name in the d-th directory is
\* looked at in Place(n, d), and an earlier name or, under the same name, an
\* earlier directory comes first.
LEMMA SearchPlaces ==
    ASSUME NEW protocol \in Protocols,
           NEW names, names = BinaryNames(protocol),
           NEW order, order = SearchOrder(protocol)
    PROVE  /\ DOMAIN order \subseteq Nat
           /\ \A n \in DOMAIN names, d \in DOMAIN SearchDirs :
                /\ Place(n, d) \in DOMAIN order
                /\ order[Place(n, d)] = <<names[n], SearchDirs[d]>>
           /\ \A k \in DOMAIN order :
                \E n \in DOMAIN names, d \in DOMAIN SearchDirs : k = Place(n, d)
           /\ \A m, n \in DOMAIN names, e, d \in DOMAIN SearchDirs :
                m < n \/ (m = n /\ e < d) => Place(m, e) < Place(n, d)
  <1> DEFINE c == Len(SearchDirs)
             N == Len(names)
  <1>1. /\ c \in Nat /\ DOMAIN SearchDirs = 1..c
        /\ N \in Nat /\ DOMAIN names = 1..N
    BY SearchTypes
  <1>2. order = [k \in 1..(N * c) |-> <<names[((k - 1) \div c) + 1],
                                        SearchDirs[((k - 1) % c) + 1]>>]
    BY DEF SearchOrder
  <1> HIDE DEF c, N
  <1>3. N * c \in Nat /\ DOMAIN order = 1..(N * c)
    BY <1>1, <1>2
  <1>4. ASSUME NEW n \in 1..N, NEW d \in 1..c
        PROVE  /\ Place(n, d) \in 1..(N * c)
               /\ order[Place(n, d)] = <<names[n], SearchDirs[d]>>
    <2>1. c \in Nat \ {0} /\ n - 1 \in Nat /\ d - 1 \in 0..(c - 1)
      BY <1>1
    <2>2. Place(n, d) - 1 = c * (n - 1) + (d - 1) /\ c * (n - 1) \in Nat
      BY <1>1, <2>1 DEF Place, c
    <2>3. c * (n - 1) + c <= c * N
      BY <1>1, <2>1, NextRow
    <2>4. Place(n, d) \in 1..(N * c)
      <3>1. c * N = N * c
        BY <1>1
      <3> QED
        BY <1>1, <2>1, <2>2, <2>3, <3>1 DEF Place, c
    <2>5. /\ (Place(n, d) - 1) \div c = n - 1
          /\ (Place(n, d) - 1) % c = d - 1
      <3> DEFINE j == Place(n, d) - 1
                 q == n - 1
                 r == d - 1
      <3>1. q \in Nat /\ r \in 0..(c - 1) /\ j = c * q + r
        BY <2>1, <2>2
      <3> HIDE DEF j, q, r
      <3>2. j \div c = q /\ j % c = r
        BY <2>1, <3>1, DivisionUnique
      <3> QED
        BY <3>2 DEF j, q, r
    <2>6. /\ ((Place(n, d) - 1) \div c) + 1 = n
          /\ ((Place(n, d) - 1) % c) + 1 = d
      BY <1>1, <2>5
    <2>7. order[Place(n, d)] = <<names[((Place(n, d) - 1) \div c) + 1],
                                 SearchDirs[((Place(n, d) - 1) % c) + 1]>>
      BY <1>2, <2>4, Zenon
    <2> QED
      BY <2>4, <2>6, <2>7, Zenon
  <1>5. ASSUME NEW k \in 1..(N * c)
        PROVE  \E n \in 1..N, d \in 1..c : k = Place(n, d)
    <2> DEFINE n == ((k - 1) \div c) + 1
               d == ((k - 1) % c) + 1
    <2>1. c \in Nat \ {0} /\ k - 1 \in Nat /\ k - 1 < N * c
      BY <1>1, <1>3
    <2>2. /\ n - 1 \in Nat /\ d - 1 \in 0..(c - 1)
          /\ k - 1 = c * (n - 1) + (d - 1)
      BY <2>1, Division
    <2> HIDE DEF n, d
    <2>3. n \in Int /\ d \in Int
      BY <2>1, Division DEF n, d
    <2>4. ~ N < n
      <3> SUFFICES ASSUME N <= n - 1 PROVE FALSE
        BY <1>1, <2>2, <2>3
      <3>1. N * c <= c * (n - 1)
        <4>1. CASE N = n - 1
          BY <1>1, <4>1, <2>1
        <4>2. CASE N < n - 1
          <5>1. c * N + c <= c * (n - 1)
            BY <1>1, <2>1, <2>2, <4>2, NextRow
          <5>2. c * N = N * c /\ c * (n - 1) \in Nat
            BY <1>1, <2>2, <2>1
          <5> QED
            BY <1>3, <2>1, <5>1, <5>2
        <4> QED
          BY <1>1, <2>2, <4>1, <4>2
      <3>2. c * (n - 1) \in Nat
        BY <2>1, <2>2
      <3> QED
        BY <1>3, <2>1, <2>2, <3>1, <3>2
    <2>5. n \in 1..N /\ d \in 1..c
      BY <1>1, <2>1, <2>2, <2>3, <2>4
    <2>6. k = Place(n, d)
      <3>1. c * (n - 1) \in Nat
        BY <2>1, <2>2
      <3> QED
        BY <2>1, <2>2, <2>3, <3>1 DEF Place, c
    <2> QED
      BY <2>5, <2>6
  <1>6. ASSUME NEW m \in 1..N, NEW n \in 1..N, NEW e \in 1..c, NEW d \in 1..c,
               m < n \/ (m = n /\ e < d)
        PROVE  Place(m, e) < Place(n, d)
    <2>1. c \in Nat \ {0} /\ m - 1 \in Nat /\ n - 1 \in Nat
      BY <1>1
    <2>2. c * (m - 1) \in Nat /\ c * (n - 1) \in Nat
      BY <2>1
    <2>3. Place(m, e) = c * (m - 1) + e /\ Place(n, d) = c * (n - 1) + d
      BY DEF Place, c
    <2>4. CASE m < n
      <3>1. c * (m - 1) + c <= c * (n - 1)
        BY <2>1, <2>4, NextRow
      <3> QED
        BY <1>1, <2>2, <2>3, <3>1
    <2>5. CASE m = n /\ e < d
      BY <1>1, <2>2, <2>3, <2>5
    <2> QED
      BY <1>6, <2>4, <2>5
  <1>7. DOMAIN order \subseteq Nat
    BY <1>3
  <1> QED
    BY <1>1, <1>3, <1>4, <1>5, <1>6, <1>7

\* The search of discovery.rs finds an executable binary whenever there is
\* one, the most preferred name first and then the first directory, for any
\* directories on $PATH and any set of executable files.
THEOREM PreferredBinaryHolds == Spec => []PreferredBinary
  <1>1. ASSUME NEW protocol \in Protocols, NEW disk \in SUBSET Files
        PROVE  LET found == LocateTransport(protocol, disk)
                   names == BinaryNames(protocol)
               IN  IF found = NotFound
                   THEN \A f \in disk : f[1] \notin Range(names)
                   ELSE \E n \in DOMAIN names, d \in DOMAIN SearchDirs :
                          /\ found = <<names[n], SearchDirs[d]>>
                          /\ found \in disk
                          /\ \A f \in disk, m \in 1..(n - 1) : f[1] # names[m]
                          /\ \A e \in 1..(d - 1) :
                                <<names[n], SearchDirs[e]>> \notin disk
    <2> DEFINE found == LocateTransport(protocol, disk)
               names == BinaryNames(protocol)
               order == SearchOrder(protocol)
               hits == {k \in DOMAIN order : order[k] \in disk}
    <2>1. found = IF hits = {} THEN NotFound ELSE order[Min(hits)]
      BY DEF LocateTransport
    <2>2. /\ DOMAIN order \subseteq Nat
          /\ \A n \in DOMAIN names, d \in DOMAIN SearchDirs :
               /\ Place(n, d) \in DOMAIN order
               /\ order[Place(n, d)] = <<names[n], SearchDirs[d]>>
          /\ \A k \in DOMAIN order :
               \E n \in DOMAIN names, d \in DOMAIN SearchDirs : k = Place(n, d)
          /\ \A m, n \in DOMAIN names, e, d \in DOMAIN SearchDirs :
               m < n \/ (m = n /\ e < d) => Place(m, e) < Place(n, d)
      BY SearchPlaces
    <2>3. /\ \E N \in Nat : DOMAIN names = 1..N
          /\ \E c \in Nat : DOMAIN SearchDirs = 1..c
      BY SearchTypes
    <2>4. ASSUME NEW f \in disk, NEW m \in DOMAIN names, f[1] = names[m]
          PROVE  \E e \in DOMAIN SearchDirs :
                   f = <<names[m], SearchDirs[e]>> /\ Place(m, e) \in hits
      <3>1. PICK e \in DOMAIN SearchDirs : f = <<names[m], SearchDirs[e]>>
        BY <2>4 DEF Files, Range
      <3> QED
        BY <2>2, <3>1
    <2> HIDE DEF found, names, order
    <2>5. CASE hits = {}
      <3>1. found = NotFound
        BY <2>1, <2>5
      <3>2. \A f \in disk : f[1] \notin Range(names)
        BY <2>4, <2>5 DEF Range
      <3> QED
        BY <3>1, <3>2 DEF found, names
    <2>6. CASE hits # {}
      <3> DEFINE k == Min(hits)
      <3>1. k \in hits /\ \A j \in hits : k <= j
        BY <2>2, <2>6, LeastElement
      <3> HIDE DEF k
      <3>2. PICK n \in DOMAIN names, d \in DOMAIN SearchDirs : k = Place(n, d)
        BY <2>2, <3>1
      <3>3. found = <<names[n], SearchDirs[d]>> /\ found \in disk
        BY <2>1, <2>2, <2>6, <3>1, <3>2 DEF k
      <3>4. found # NotFound
        BY <3>3, SearchAssumption
      <3>5. \A m \in DOMAIN names, e \in DOMAIN SearchDirs :
              Place(m, e) \in hits => ~ (m < n \/ (m = n /\ e < d))
        <4> SUFFICES ASSUME NEW m \in DOMAIN names, NEW e \in DOMAIN SearchDirs,
                            Place(m, e) \in hits, m < n \/ (m = n /\ e < d)
                     PROVE  FALSE
          OBVIOUS
        <4>1. Place(m, e) < k /\ k <= Place(m, e)
          BY <2>2, <3>1, <3>2
        <4>2. k \in Nat /\ Place(m, e) \in Nat
          BY <2>2, <3>1
        <4> QED
          BY <4>1, <4>2
      <3>6. \A m \in 1..(n - 1) : m \in DOMAIN names /\ m < n
        BY <2>3
      <3>7. \A e \in 1..(d - 1) : e \in DOMAIN SearchDirs /\ e < d
        BY <2>3
      <3>8. \A f \in disk, m \in 1..(n - 1) : f[1] # names[m]
        BY <2>4, <3>5, <3>6
      <3>9. ASSUME NEW e \in 1..(d - 1), <<names[n], SearchDirs[e]>> \in disk
            PROVE  FALSE
        <4>1. Place(n, e) \in hits
          BY <2>2, <3>7, <3>9
        <4> QED
          BY <3>5, <3>7, <4>1
      <3> QED
        BY <3>3, <3>4, <3>8, <3>9 DEF found, names
    <2> QED
      BY <2>5, <2>6
  <1>2. PreferredBinary
    BY <1>1 DEF PreferredBinary
  <1> QED
    BY <1>2, PTL
=============================================================================
