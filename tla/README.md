# Verification of anonet

TLA+ models of [anonet](../src/README.md), the runs that model-check them with
TLC, and proofs checked by TLAPS. Paths below are relative to `src/crates/`;
line numbers are those of the commit beside this directory.

## 1. The system

anonet is one process on a multi-threaded tokio runtime. It embeds a Tor client
(arti) and adds a SOCKS5 front end, bridge failover, a DNS shim, nftables kill
switches, a supervised system `tor` for full anonymization, and a dashboard.
Nothing is a database and there are no network protocols between instances:
what is hard is that tasks share state through several small locks, that
external steps (a bootstrap, `nft`, a signal) take long and fail, and that
tables, `tor` processes and the PID file outlive the process that made them.

| Part | State | Operations | Interacts with | What makes it correct |
|---|---|---|---|---|
| bridge manager (`bridges/lib.rs`) | candidate list, transport registry, each under its own mutex | `add_bridge_line`, `health_check`, `find_healthy_config_reporting` | coordinator, startup, discovery | a candidate that can be seen can be checked; indices stay valid |
| bridge coordinator (`bridges/coordinator.rs`) | `active_idx`, `check_now`, the local failure count of `run()` | `run`, `rescan_and_activate`, `try_add_bridge` | manager, core handle, telemetry, dashboard | only checked bridges carry traffic; never back to a direct connection; failover when due and not before; the records of the active bridge agree |
| core handle, Tor client (`core/lib.rs`) | the current `AnonCore` | `current`, `replace`, `bootstrap_with`, `resolve`, `connect_isolated` | everything that opens a stream | users of a replaced client are not mixed with the new one |
| isolation policy (`core/lib.rs`) | identity -> token, age, uses; one map per client | `token_for` | SOCKS5 server | a token belongs to one identity and respects both limits |
| SOCKS5 server, leak policy (`socks/server.rs`, `leakguard/policy.rs`) | one task per connection, two counters | negotiate, authenticate, request, connect, splice | core handle, telemetry | isolation across failovers; connections counted however they end |
| DNS shim and controller (`leakguard/dns_shim*.rs`) | the server task, one task per query | `start`, `stop`, `run`, `handle_query`, `parse_query`, `build_response` | core handle, dashboard | one server at a time; queries in flight answered; address released; what is echoed is the question asked, and an ordinary name is looked up as it is echoed |
| full anonymization (`transparent/full_anon.rs`, `supervisor.rs`) | the `tor` child under an async mutex | `enable`, rollback, `disable`, `is_running` | kill switch, redirect, dashboard | all on or all off; no lost `tor`; a redirect only to a `tor` that was started and not stopped |
| kill switches, redirect (`leakguard/killswitch.rs`, `transparent_redirect.rs`) | nftables tables of the machine | `enable`, `disable`, `status` | full anonymization, dashboard, `anonet killswitch` | the fail-safe stays while it is relied on; the radical switch reverts; the rules of the tables add up |
| dashboard (`tui/lib.rs`) | input mode, last refresh | keys, tick | all of the above | it keeps refreshing; a request is not lost |
| telemetry (`telemetry/lib.rs`) | one `HealthStatus` in a watch channel | counters, setters | all of the above | what is shown is what is |
| single-instance guard (`cli/instance_lock.rs`) | the PID file, signals to a process group | `acquire`, `Drop` | the previous instance | one instance at a time |
| startup (`cli/main.rs`) | - | `--pt` and `--bridge` arguments; bridge, direct fallback or exit | manager, coordinator | the first bridge to pass is used; the coordinator starts with what is in use |
| discovery (`bridges/discovery.rs`) | - | `locate_transport_binary` | manager | the preferred binary wins, wherever it is |
| status socket (`cli/status_server.rs`) | the socket file | `serve`, one snapshot per client | telemetry, single-instance guard | a client reaches the instance that runs |
| ControlPort watcher (`transparent/control.rs`) | - | reads events | telemetry | - |

Hard to test, and listed line by line under `hazards` in `PROJECT.json`: the
order of two activations of a bridge; a candidate added during a scan; a
failover between the clone of a client and its use; `enable` and `disable`
overlapping; each step of `enable` failing; quitting during a TTL; a stop of the
DNS shim with queries in flight; crashes and PID reuse around the PID file and
the socket file; limits of 0 and limits reached exactly; a health check's two
limits and its minimum; datagrams cut anywhere; rule sets of three tables that
others add and delete.

## 2. Modules

An action is one section between two awaits or under one lock; everything that
the code does in that section is in the action. Operators called `X_fault` are
plausible coding errors, kept next to the `X` they alter and used nowhere: with
`X` replaced by `X_fault` TLC refutes the property named in `mutants`.

**BridgeFailover** - startup, `BridgeCoordinator::run`, and one `try_add_bridge`
task for every element of `Adders`. `candidates`, `transports`, `core`,
`activeIdx`, `telActive`, `telFailures` and `checkNow` are the shared
variables of the code, `pc`, `target`, `line`, `mIdx`, `mFailures`, `mCount`
the locals. A scan examines one candidate at a time (`ScanHit`, `ScanMiss`) up
to the count it read when it started. An activation is four steps, as in the
code: bootstrap, `core_handle.replace`, `active_idx`, telemetry. `up`, the set of
lines that work, changes at any time (`NetworkChange`); a check or a bootstrap
succeeds iff its line works when it completes. Index 0 is `None`. Counters
saturate at `MaxFailures`, which is at least the threshold, so saturation hides
nothing from a comparison with the threshold. Not in the model: latencies,
timestamps, samples, text.

`table` is the dashboard's list of candidates, which the tasks fill in whatever
order their checks end.

**BridgeSwitch** - the abstract specification of the above: the list grows, a
candidate is verified, the client moves to a verified candidate. BridgeFailover
and HealthCheck each implement it (`SwitchSpec`): the client that startup gives
the traffic to keeps the promise that the failover keeps from then on. In
HealthCheck a candidate is verified by a test connection that succeeds.

**HealthCheck** - what BridgeFailover takes as a few steps, step by step: the
`--pt` arguments, `add_bridge_line` with the search for a transport binary over
names and directories, and `health_check` with its temporary directories,
`build_config`, a bootstrap with a deadline and a test connection with what is
left of the time, at least 10 s. There is one task and one clock, which counts
units of ten seconds and does not pass a timer that is due. Which guard arti
uses is external: a bridge of the configuration, or a guard the check's
directories know of.

**PacketFilter** - the rules inside the three nftables tables as a function from
a packet (UID, kind of destination, service) to where it ends up; definitions
only.

**FullAnon** - the dashboard's dialogs for full anonymization and for both kill
switches, the refresh tick, `enable` with its rollback, `disable`, the 5-minute
task of the radical switch, and `anonet killswitch` with and without a TTL as a
process of its own. `mutex` is the supervisor's tokio mutex, which `start` keeps
during the whole bootstrap; `child` is `TorSupervisor.child`. `tor`, `redirect`,
`radical` and `scoped` belong to the machine: quitting does not touch them.
`Faults` says which external failures can happen. `TakenOver` is the signal a new
instance sends to the old one's process group. A task slot is used once in a
behaviour, so `Slots` bounds the number of requests. PacketFilter turns the three
tables into the set of packets that get out past Tor, of which `NoLeak` and
`Confined` speak. That set includes the packets of anonet's own UID, which every
rule set lets through. `died` is history: the child's process has ended by itself,
which `is_running` and `start` do not notice.

**Isolation** - `IsolationPolicy::token_for`, one map for each client. `issued`
is history: who was given a token, how often and when. `IsolationSpec` is what
the policy allows by itself, and the abstract specification of the next module.

**Socks** - extends Isolation: the accept loop, which ends at the first error of
`accept()`; one task per connection up to `splice`, with the leak policy by kind of
destination, `CoreHandle`, and the counters. `Abandon` is a read or write that
fails, at every await that reads or writes. `IsolationSpec` is checked as the
refinement: the server drives the maps only as Isolation allows.

**DnsMessage** - `parse_query` and `build_response` on bytes, by a recursive
function; the wire format of a question from the format's side (`Encode`) as the
reference definition. A query carries the bytes to echo (`question`) and the name
to look up (`qname`), which is made as in the code: `FromUtf8Lossy` converts each
label, `Joined` puts dots between them. `FromUtf8Lossy` is Rust's conversion (what
is UTF-8 stays, the longest beginning of a character, or else one byte, becomes
U+FFFD), external to the repository.

**DnsShim** - the controller, a server task per start, a task per query.
`running` is the controller's entry; `aborted` are the tasks `abort()` was
called on, which can finish the poll that is under way before they are dropped.
In the state a query is only what DnsMessage makes of it: malformed, A, AAAA or
another type, and a response is its code. A socket is open as long as the server
task or one of its queries refers to it, and binding needs the address.

**InstanceLock** - `acquire()` with one action per read, signal, wait and write;
`Drop`; crashes; PIDs reused by `anonet run` and by other programs; group leaders
or not (the signals go to the process group of the PID in the file). The status
server removes the socket file and binds it anew; `sock` is who listens on it.

**MC...** modules declare the model values of the runs. **...Proofs** modules
hold the theorems.

## 3. Runs

| Run | Question | Instance |
|---|---|---|
| `bridge_failover` | With the monitor and two added bridges interleaving at every await: do the three records of the active bridge agree (`Agreement`), is a visible candidate checkable (`TransportsReady`), is the count shown right (`FailuresShown`) and the table complete (`TableComplete`), is a failover due (`DueFailover`), are only verified bridges used (`SwitchSpec`)? | one configured bridge; a plain, an obfs4 and an unparsable line to add; threshold 2 |
| `bridge_failover_live` | Does traffic end up on a working bridge for good once the network is stable? | two configured bridges, one added, a line whose transport is missing; threshold 2 |
| `bridge_agree_violation` | "`try_add_bridge` and the periodic loop agree on what's currently active" - refuted | two configured, one added; threshold 1 |
| `full_anon` | Are `tor` processes tracked, does the redirect lead to a `tor` that lives, or ended by itself (`RedirectHasTor`), is the outcome all or nothing, whichever step fails? Which packets get out past Tor while it is on (`NoLeak`), and does a confined UID stay confined (`Confined`)? | three tasks, every fault, two UIDs, one restart |
| `full_anon_live` | Does every task end and every tick return? | two requests, all faults, one restart |
| `full_anon_revert_violation` | "it auto-reverts after 5 minutes regardless" - refuted | one request, one restart, fair |
| `full_anon_fail_safe_violation` | full anonymization "enables the radical kill switch as a fail-safe" - it is removed by an earlier request's timer | two requests, no fault |
| `health_check` | Is the preferred binary found, does a check keep its limits (`CheckBounded`) and go through its own bridge (`OwnBridgeTested`), is the first bridge to pass used (`FirstToPass`), what does one bad `--pt` do (`OneBadNameNoBridge`), does the scan end (`ScanEnds`), and is only a tested bridge given the traffic (`SwitchSpec`)? | four kinds of `--pt`, seven lists of bridges of up to three, any binaries on disk, timeouts below, at and above the minimum, a network that changes at any time |
| `socks` | Is no token shared and no limit exceeded, do streams stay isolated across failovers, and are connections counted, also after the accept loop ended? | two sessions at a time, four connections, two clients, a username and the empty one, limits 2 and 2, four tokens |
| `dns_shim` | Can a server escape its controller, a query use a stale client, a stop lose a query or an address? Is every question echoed as it came, and nothing else, and is a name of plain labels looked up as it is echoed (`ParsesQuestions`)? Do answers have the length of their type? | two starts on two addresses, two queries, two clients; bodies of up to 5 bytes of name and any cut tail; labels with a dot and with bytes that are no UTF-8 |
| `instance_lock` | Is there one instance, and does `anonet status` reach it, through crashes, stale files and PID reuse? | three PIDs |
| `instance_lock_two_violation` | "refuses to start a second `anonet run`" - refuted | three PIDs |

Why the bounds are enough to be interesting. The races in BridgeFailover need
two activations that overlap, which one adder and the monitor already make; the
second adder makes overlaps that do not involve the monitor. One scan position
before and one after the failed bridge occur with two candidates and more with
the added ones. FullAnon needs an enable, a disable and a TTL for every pairwise
overlap: three slots, one of which may be a command-line switch with a TTL; two
UIDs show what a second one does to the first. HealthCheck needs a bridge with a
transport, one without, one whose transport cannot be found and a malformed
line, and a bridge with others before and after it. Isolation needs a token that
is rotated while another client's map holds the same identity: two of each. A
limit of 2 separates "at the limit" from "beyond it". The clock and the number of tokens, connections, starts
and clients are bounded by the constants named `Max...`. InstanceLock needs an
instance, its successor, and a PID for a stranger or a third launch. Symmetry is
used only for interchangeable tasks, slots, sessions, UIDs and PIDs, and never
in a run with a liveness property. `PreferredBinary` and `ParsesQuestions`
quantify over every disk and every datagram, which no step changes, so they are
looked at in the initial states only.

`CHECK_DEADLOCK FALSE` is set for FullAnon and DnsShim: after the last restart or
start everything may be over. All other specifications never stop.

Assumptions about what is outside: nat chains come before filter chains, a packet
that is redirected to `tor` counts as loopback traffic in the latter (as
`transparent_redirect.rs` says), a guard is one arti was configured with or
learned in the same directories, and the clock does not pass a due timer.

### Fairness

- BridgeFailover: weak fairness of the monitor and of each adder. The runtime
  polls spawned tasks, the interval fires, health checks have a deadline. A
  bootstrap has none (`bootstrap_with`, core/src/lib.rs:142); that it returns is
  assumed of arti. Nothing is assumed of the user or the network; `Recovers`
  has "the network is stable" and "activations stop overlapping" as premises.
- FullAnon: weak fairness of each task and of the end of a tick. tokio's mutex
  is first come, first served, and each holder releases it: `start` after at
  most 120 s. `nft` and `id` are assumed to return.
- HealthCheck: weak fairness of the program's own steps, of the two timers and of
  time. Whether arti answers before a limit is left open; the bootstrap of the
  real client has none, and `ScanEnds` stops before it.
- DnsShim: weak fairness of each query, of binding and of the dropping of an
  aborted task. That `resolve` returns is assumed of arti. A serving task need
  never end.

### What the violations show

1. `AlwaysAgree`: the monitor replaces the client, then `try_add_bridge`
   replaces it and finishes, then the monitor stores *its* index. From then on
   `run()` checks a bridge that carries no traffic, until a later activation
   runs alone. `Agreement` is what does hold.
2. `RadicalReverts`: the timer is a task of the process; quitting within the five
   minutes leaves the machine offline until the table is removed by hand.
3. `FailSafeKept`: the radical switch is enabled by hand and full anonymization
   is turned on, in either order, as long as the first request's timer runs out
   last: it deletes the one table both use.
4. `NeverTwo`: two launches read the PID file before either writes it.

### Further observations

Made while modelling, visible in the actions, and not among the runs:

- The failure count of `run()` survives a switch made by `try_add_bridge`
  (coordinator.rs:82), so the first failed check of the new bridge can trigger a
  failover; `DueFailover` therefore speaks of behaviours without such a switch.
- A bootstrap that fails after a passed health check leaves the added bridge
  listed, inactive and without an error shown (coordinator.rs:224): the error
  goes to a caller that drops it.
- `tor` is spawned without `kill_on_drop`, so it survives a quit; the next
  instance's `tor` cannot bind the same ports (`TorTracked` counts those as
  `orphans`).
- A `tor` that ends by itself stays the supervisor's child (supervisor.rs:139,
  `child.is_some()`): full anonymization goes on being reported as on, the redirect
  sends TCP and DNS to a closed port, and a new `enable` is refused with "already
  running" until it is disabled. `RedirectHasTor` has that exception (`died`).
- `disable` overlapping `enable` can end with full anonymization reported on and
  no `tor` (`AllOrNothing` excludes overlaps by `disturbed`). `t` during a
  bootstrap opens the enable dialog, and a second `enable` waits for the mutex
  and is refused.
- The dashboard's tick waits for that mutex and therefore stands still during a
  bootstrap of up to two minutes; `Settles` says it goes on afterwards.
- `disable` and the rollback ignore errors of `nft` by design, so a redirect may
  stay behind while full anonymization is reported off, or without a `tor` after a
  rollback; `leftover` marks that exception in `RedirectHasTor` and `AllOrNothing`.
- anonet's UID is let through by the redirect (transparent_redirect.rs:32) and by
  the radical switch (killswitch.rs:63). anonet needs root for nftables, so
  whatever else runs as root goes out past Tor as well while full anonymization is
  on. `NoLeak` speaks of the other UIDs and of what is forwarded.
- The empty username and the username `default` share a bucket
  (socks/src/server.rs:181), although server.rs:9 separates connections by
  username.
- The PID in a stale file may belong to any process; if it leads a group, the
  group is signalled.
- A name with addresses only of the other family is answered NXDOMAIN
  (dns_shim.rs:97), which says that the name does not exist. A label that
  contains a dot or is not UTF-8 is looked up under another name than the one
  echoed (dns_shim.rs:141, 144): the labels are joined by dots after a lossy
  conversion, so `a.b` as one label and as two, or two labels that differ in bytes
  that are no UTF-8, are one name for the lookup. `ParsesQuestions` claims that names
  stay apart for plain labels only, and TLC refutes it for all.
- A health check can take up to 10 s more than `--bridge-timeout-secs`
  (bridges/src/lib.rs:307), which lib.rs:273 calls a bound "overall";
  `CheckBounded` says how much and when.
- One `--pt` whose protocol name arti refuses makes `build_config` fail for every
  candidate, also for those that need no transport (`OneBadNameNoBridge`): the
  program then goes out without a bridge.
- The documentation is of two minds about LAN traffic and SSH. The redirect leaves
  them alone "so LAN traffic and SSH sessions keep working" (src/README.md:131,
  transparent_redirect.rs:10); the radical switch, which the same `enable` applies,
  drops both for every UID but anonet's (killswitch.rs:64), as src/README.md:120 and
  :132 say of it. `NoLeak` states what the code does, the second: LAN and SSH get
  out only for anonet's own UID, for forwarded packets, and once the fail-safe was
  lifted (`lifted`).
- All filter chains hook output, so what is forwarded for other hosts is covered by
  the redirect's prerouting chain only: its TCP and DNS find a closed port, the
  rest passes, SSH and the private ranges included. `NoLeak` has that exception.
- Deleting the scoped table for one UID, by hand or by a TTL, releases all
  (killswitch.rs). While the redirect is on, a confined UID's TCP and DNS reach
  `tor`, since redirected packets count as loopback.
- "Neither is applied automatically by `anonet run`" (killswitch.rs:18) does not
  hold for the radical switch once full anonymization is turned on; and the child
  is not "killed [...] when this supervisor is dropped" (supervisor.rs:64).
- `last_error` is cleared at the start of the next attempt of full anonymization or
  of adding a bridge, not on "the next successful attempt"
  (telemetry/src/lib.rs:70).
- An error of `accept()` ends the SOCKS5 server for good while the dashboard
  says it is up (tui/src/lib.rs:540); the status server repeats its `accept()`
  at once, so a lasting error keeps a core busy (status_server.rs:48).

## 4. Proofs

TLC's instances are small; these theorems hold for all values of the constants
that satisfy the named assumptions, which TLC evaluates in every run. Every
proof module has an inductive invariant, one lemma per conjunct of it with one
step per action, a theorem `Inductive`, and the properties as consequences.

**BridgeFailoverProofs** (`LinesAssumption`, `TaskAssumption`,
`ThresholdAssumption`): `TypeCorrect`, `AgreementHolds`, `TransportsReadyHolds`,
`FailuresShownHolds`, `DueFailoverHolds`, `TableCompleteHolds`, `RefinesSwitch`. None but the type
invariant is inductive. The inductive invariant adds: what a task is about to
activate is in `passed` (`TargetsInv`, for the refinement); what an activation
that runs alone has written so far (`WindowInv`, for `Agreement`: in the middle
of an activation only part of the records has moved); an accepted line's
transport is still registered when it is appended (`PushInv`, for
`TransportsReady`: two locks); and, as long as no added bridge was activated,
the monitor's local count is the streak of failures of the bridge in use and the
bridge it looks at is that one (`CountInv`, for `DueFailover`).
`TableComplete` needs to know that whatever passed a check already has its row
(`passed \subseteq Rows` in `RowsInv`): otherwise a bridge could be shown as
active before it is listed. Lemma `InsertPoint` shows that the number of smaller
rows is where the order of a sorted table lets a row in (by cardinalities: that
number is the length of an initial part), `RecordInserts` what
`record_candidate` makes of the table.

**FullAnonProofs** (`SlotAssumption`, `RestartAssumption`):
`TypeCorrect`, `TorTrackedHolds`, `RedirectHasTorHolds`, `AllOrNothingHolds`,
`NoLeakHolds`, `ConfinedHolds`, for any number of requests, UIDs and restarts
and any set of faults. `AllOrNothing` speaks of moments between requests and is
far from inductive. What carries it through a request is what the request knows
half-way: an `enable` past its bootstrap is the one the child comes from (`Owned`),
a `disable` past its first step finds no redirect but one `nft` would not delete
(`Undone`), and otherwise the state is settled (`Settled`). Two requests do not
destroy each other's knowledge because enable and disable did not overlap
(`Apart`) and because there is no child while a bootstrap holds the mutex
(`Locked`). `RedirectHasTor` has two halves: a redirect is
there only with a child (`RedirectOwned`), and a child is a process that lives or has
ended by itself (`Supervised`). `NoLeak` follows with
one fact about the rules alone, `ExposedWhenOn`, which says what gets out for each
kind of sender with and without the radical table; `Confined` from `Kept`. Most actions belong to other tasks and
are dealt with once, by `StepsElsewhere`.

**HealthCheckProofs** (`LinesAssumption`, `TimeAssumption`, `SearchAssumption`):
`CheckBoundedHolds`, `OwnBridgeTestedHolds`, `FirstToPassHolds`,
`OneBadNameNoBridgeHolds`, `RefinesSwitch`, for any arguments, bridges and
timeouts, and `PreferredBinaryHolds` for any directories on `$PATH`. The invariant says where the scan is: which rows
are written (`Progress`), that a check past its configuration, and so the
configuration of the real client, had names arti accepts (`Built`; without it the
winner's configuration might fail and leave a direct connection with a healthy
row), which guards the directories hold (`OwnGuards`), and how the two limits
relate (`Timing`). For the refinement it also says that a check that passed had a
test connection of its candidate (`Tested`). The search walks the pairs of a name
and a directory; lemma `SearchPlaces` gives the place of each pair and that
every place has one, by quotient and remainder (`Division`, `DivisionUnique`),
and shows that a preferred name, or an earlier directory of the same name, comes
first; `LeastElement` makes the first hit the least place. `SearchAssumption`
says that the two lists of directories are sequences and that `None` is no file.

**IsolationProofs** (`LimitAssumption`): `TypeCorrect`, `NoSharingHolds`,
`RotationLimitsHolds`, for any policy, limit 0 and no limit included. The history
says nothing of the maps, so `Linked` ties them: an entry's token was issued to
that entry only, when it was created, as often as it counts. Lemma `Handed` says
what `token_for` hands out, `Effects` that it changes nothing else.

**SocksProofs** (`SocksAssumption`, and Isolation's): `RefinesIsolation` - every
step of the server is a step of Isolation or leaves it alone, so Isolation's
theorems and its inductive invariant hold of the server without a second proof.
With them, `Owned` (a session's token was issued to it) gives
`StreamOfOwnCoreHolds` and `StreamsIsolatedHolds`. `ActiveCountedHolds` counts
tasks as the cardinality of a finite set; `SocksTypeCorrect`.

**InstanceLockProofs** (`PidAssumption`): `TypeCorrect`, `SingleInstanceHolds`,
`StatusReachesInstanceHolds`, for any set of PIDs. `Alive`: an instance is a live
anonet process. `Chase`: without a race the instance that acquires has yet to
read, or is after the instance that runs, and reaches "write" only when that one
is gone. For the socket: only an instance past `acquire()` has a status
server (`Unserved`), and the one that runs owns the socket file or has just
removed it (`Owned`).

**DnsMessageProofs** (`BodyAssumption`): `QuestionRead`, `NothingElseReadHolds` and
`PlainNamesApart`, the three parts of `ParsesQuestions`. Every question of class IN
is echoed as it was encoded and looked up as what its labels convert to, for any
number of labels of any bytes; whatever is accepted begins with the question it was
taken for, for bodies of any bytes and length; plain labels (ASCII without a dot)
are looked up unchanged, and no two names of plain labels are looked up as one, for
any number of labels. `QuestionsReadHolds` and `NamesApartHolds` are the same for
the names of up to two labels that TLC tries. For labels that are not plain nothing
is claimed of the name looked up but that it is `QName`.

`ReadName`, `EncodeName`, `Joined` and `FromUtf8Lossy` are recursive functions, so
the equation that defines each must first be shown to have a solution
(`ReadIsFunction`, `EncodedIsFunction`, `JoinedIsFunction`, `LossyIsFunction`; the
last three recur from one index to one greater one, which lemma `Chained` deals
with). All recur to a greater index and stop at a last one, which makes induction a
statement about a *set* of indices: `Downward` takes the greatest index outside the
set, and needs no operator as a parameter. `ReadSound` is the induction for
`NothingElseReadHolds` - what is read from a position on is the code of those
labels -, `EncodedRead` for `QuestionRead`, `AsciiKept` for the conversion (every
ASCII byte is a chunk of its own and stays), and `PlainNamesApart` compares two
joined names from label to label: the first dot ends a label on both sides
(`UpToDot`), and what remains is equal again (`Cancel`).

**DnsShimProofs** (`DnsAssumption`, `AddressAssumption`, `BodyAssumption`):
`TypeCorrect`, `OneShimHolds`, `FreshClientHolds`, `ParsesQuestionsHolds` (from the
theorems above), and
`AnswersMatchTypeHolds` for any addresses.
`BornBefore` - no query was received in the future - makes `FreshClient`
inductive.

Every invariant, action property and refinement of the runs is proved. Model-checked
only is liveness (`Recovers`, `Settles`, `Answered`, `Released`, `ScanEnds`): it
needs fairness, which is out of the prover's reach. The four refutations are TLC's
counterexamples.

## 5. Not modelled

- Drawing the dashboard and editing the text of a field: rendering has no state,
  and a field's text matters only once it is submitted, which is modelled. The
  modes of the DNS and bridge dialogs, which only lead there.
- The ControlPort watcher, the two bounded histories of the telemetry, the
  bootstrap progress and the text of `anonet status`: displayed and read by
  nothing else.
- Argument parsing by clap, logging and log rotation, the installation hint, the
  torrc, service files and scripts.
- The bytes of SOCKS5 messages: a short or wrong one ends the session as a lost
  connection does. What the splice carries.
- A transport binary that disappears after it was found: it looks like a bridge
  that does not work.
- The inside of arti and `tor`: whether a bootstrap, a resolution or a connection
  succeeds, and when, is open.

## 6. Possible continuations

The plan this development started from is done: packet rules and the scoped
switch, DNS messages, the candidates table, the health check under one clock, the
command line's TTL, and proofs of all but liveness. What would
add most from here: the dashboard's DNS and bridge dialogs composed with the tasks
they spawn; a bound on how long a tick can wait in FullAnon, which needs a clock
there.
