------------------------------ MODULE FullAnon ------------------------------
(***************************************************************************)
(* Full anonymization: FullAnonController (transparent/full_anon.rs) over  *)
(* the TorSupervisor (supervisor.rs) and the nftables tables               *)
(* anonet_transparent (redirect), anonet_ks_system (radical kill switch)   *)
(* and anonet_ks_scoped (scoped kill switch), driven by the dashboard's    *)
(* keys (tui/lib.rs) and by `anonet killswitch` (cli/main.rs).             *)
(*                                                                         *)
(* enable(), disable() and the kill switch's 5-minute TTL are tasks the    *)
(* dashboard spawns and forgets; they interleave with one another and with *)
(* the dashboard, which on every tick waits for the supervisor's mutex.    *)
(* `anonet killswitch` is a process of its own.  Tables and tor processes  *)
(* belong to the machine and outlive the program.                          *)
(***************************************************************************)
EXTENDS Integers, FiniteSets, PacketFilter

CONSTANTS
    Slots,       \* bound: the tasks spawned in a behaviour; each runs once
    NoTask,      \* the empty value of the mutex and of the child
    Faults,      \* which external failures can happen
    Confinable,  \* the UIDs the user may name for the scoped kill switch
    MaxRestarts  \* bound: how often the program is started again

FaultKinds == {"uid", "nftAdd", "nftDelete", "torSpawn", "torDies"}

ASSUME SlotAssumption == NoTask \notin Slots
ASSUME FaultAssumption == Faults \subseteq FaultKinds
ASSUME RestartAssumption == MaxRestarts \in Nat
ASSUME ConfinableAssumption == Confinable \subseteq Uids

VARIABLES
    mode,        \* AppState.mode
    running,     \* AppState.transparent_running
    ui,          \* the dashboard loop: "ready", in a tick, or "quit"
    pc,          \* where each spawned task is
    mutex,       \* the task that holds the supervisor's mutex across awaits
    child,       \* TorSupervisor.child: whose start() the process is from
    transparentEnabled, \* HealthStatus.transparent_enabled
    lastError,   \* HealthStatus.last_error.is_some()
    tor,         \* external: live tor processes, by the task that spawned them
    redirect,    \* external: table anonet_transparent exists
    radical,     \* external: table anonet_ks_system exists
    scoped,      \* external: the UIDs that table anonet_ks_scoped confines
    reachable,   \* external: tor can bootstrap
    restarts

\* History, read by properties only.
VARIABLES
    orphans,     \* tor processes alive when an instance quit
    died,        \* the child's process has ended by itself
    disturbed,   \* enable and disable overlapped in this instance
    leftover,    \* the redirect is one whose deletion failed or an earlier
                 \* instance's
    lifted,      \* somebody else deleted the radical table enable() applied
    asked        \* the UIDs the user was told are confined

uiVars == <<mode, running, ui>>
machineVars == <<tor, redirect, radical, scoped, reachable>>
shownVars == <<transparentEnabled, lastError>>
historyVars == <<restarts, orphans, died, disturbed, leftover, lifted, asked>>
vars == <<uiVars, pc, mutex, child, shownVars, machineVars, historyVars>>

EnableLabels == {"uid", "start", "boot", "redirect", "radical", "undoRedirect",
                 "undoStop", "report"}
DisableLabels == {"offRedirect", "offRadical", "offStop", "offReport"}
TtlLabels == {"ttlOn", "ttlSleep"}
CliLabels == {"cliRadical", "cliScoped"}
Labels == EnableLabels \cup DisableLabels \cup TtlLabels \cup CliLabels
            \cup {"free", "done"}

Enabling == {t \in Slots : pc[t] \in EnableLabels}
Disabling == {t \in Slots : pc[t] \in DisableLabels}
Quiet == Enabling \cup Disabling = {}

-----------------------------------------------------------------------------
(* Helpers.  An operator named X_fault is X with a plausible coding error; *)
(* none is used in the specification.                                      *)

Goto(t, label) == pc' = [pc EXCEPT ![t] = label]

\* A step of a task that ends in an error: enable() records it.
Fail(t) == Goto(t, "done") /\ lastError' = TRUE

\* nft: adding rules or deleting a table may fail, leaving the table as it
\* was.  Deleting an absent table is not an error.
NftDelete(table, absent) ==
    {absent} \cup (IF "nftDelete" \in Faults THEN {table} ELSE {})

DeleteRedirect ==
    /\ redirect' \in NftDelete(redirect, FALSE)
    /\ leftover' = redirect'

\* The radical table is deleted by somebody other than disable().
DeleteRadical ==
    /\ radical' \in NftDelete(radical, FALSE)
    /\ lifted' = (lifted \/ radical # radical')

\* nft -f adds the rules of one more UID to the table that is there;
\* deleting the table releases every UID.
AddScoped_replaces(u) == {u}
AddScoped(u) == scoped \cup {u}

Confine(u) ==
    /\ scoped' = AddScoped(u)
    /\ asked' = asked \cup {u}

DeleteScoped ==
    /\ scoped' \in NftDelete(scoped, {})
    /\ asked' = IF scoped' = {} THEN {} ELSE asked

\* start() gives up after 120 s, whatever tor does.
TimesOut_never == FALSE
TimesOut == TRUE

\* The processes left when start() gives up: it kills the one it spawned.
AfterGivingUp_leaked(t) == tor
AfterGivingUp(t) == tor \ {t}

\* enable_inner's rollback: where it goes when a ruleset is refused.
OnRedirectError_keepsTor == "done"
OnRedirectError == "undoStop"
OnRadicalError_keepsRedirect == "undoStop"
OnRadicalError_ignored == "report"
OnRadicalError == "undoRedirect"

-----------------------------------------------------------------------------
Init ==
    /\ mode = "Normal"
    /\ running = FALSE
    /\ ui = "ready"
    /\ pc = [t \in Slots |-> "free"]
    /\ mutex = NoTask
    /\ child = NoTask
    /\ transparentEnabled = FALSE
    /\ lastError = FALSE
    /\ tor = {}
    /\ redirect = FALSE
    /\ radical = FALSE
    /\ scoped = {}
    /\ reachable \in BOOLEAN
    /\ restarts = 0
    /\ orphans = {}
    /\ died = FALSE
    /\ disturbed = FALSE
    /\ leftover = FALSE
    /\ lifted = FALSE
    /\ asked = {}

-----------------------------------------------------------------------------
(* tui/lib.rs: handle_key and the refresh tick *)

\* Keys that only change the mode: `t` with full anonymization off, `d`, `k`,
\* and in the menu `k` opens, `s` and `r`.
OpenDialog ==
    /\ ui = "ready"
    /\ \/ /\ mode = "Normal"
          /\ \/ mode' = "ConfirmTransparentEnable" /\ ~ running
             \/ mode' \in {"KillSwitchMenu", "ConfirmDisable"}
       \/ /\ mode = "KillSwitchMenu"
          /\ mode' \in {"EnterScopedUid", "ConfirmRadicalEnable"}
    /\ UNCHANGED <<running, ui, pc, mutex, child, shownVars, machineVars,
                   historyVars>>

Cancel ==
    /\ ui = "ready"
    /\ mode # "Normal"
    /\ mode' = "Normal"
    /\ UNCHANGED <<running, ui, pc, mutex, child, shownVars, machineVars,
                   historyVars>>

\* `y`: spawn enable(), which first clears the error.
ConfirmEnable(t) ==
    /\ ui = "ready"
    /\ mode = "ConfirmTransparentEnable"
    /\ pc[t] = "free"
    /\ mode' = "Normal"
    /\ lastError' = FALSE
    /\ Goto(t, "uid")
    /\ disturbed' = (disturbed \/ Disabling # {})
    /\ UNCHANGED <<running, ui, mutex, child, transparentEnabled, machineVars,
                   restarts, orphans, died, leftover, lifted, asked>>

\* `t` with full anonymization on: spawn disable().
PressDisable(t) ==
    /\ ui = "ready"
    /\ mode = "Normal"
    /\ running
    /\ pc[t] = "free"
    /\ running' = FALSE
    /\ Goto(t, "offRedirect")
    /\ disturbed' = (disturbed \/ Enabling # {})
    /\ UNCHANGED <<mode, ui, mutex, child, shownVars, machineVars, restarts,
                   orphans, died, leftover, lifted, asked>>

\* `y`: spawn the radical kill switch with its TTL.
ConfirmRadical(t) ==
    /\ ui = "ready"
    /\ mode = "ConfirmRadicalEnable"
    /\ pc[t] = "free"
    /\ mode' = "Normal"
    /\ Goto(t, "ttlOn")
    /\ UNCHANGED <<running, ui, mutex, child, shownVars, machineVars,
                   historyVars>>

\* Enter in the UID dialog: the dashboard itself waits for nft, which may
\* refuse; what is typed may be no UID at all.
EnterUid ==
    /\ ui = "ready"
    /\ mode = "EnterScopedUid"
    /\ mode' = "Normal"
    /\ \/ \E u \in Confinable : Confine(u)
       \/ UNCHANGED <<scoped, asked>>
    /\ UNCHANGED <<running, ui, pc, mutex, child, shownVars, tor, redirect,
                   radical, reachable, restarts, orphans, died, disturbed,
                   leftover, lifted>>

\* `r` and `s` in the disable dialog, awaited by the dashboard itself.
DisableRadical ==
    /\ ui = "ready"
    /\ mode = "ConfirmDisable"
    /\ mode' = "Normal"
    /\ DeleteRadical
    /\ UNCHANGED <<running, ui, pc, mutex, child, shownVars, tor, redirect,
                   scoped, reachable, restarts, orphans, died, disturbed,
                   leftover, asked>>

DisableScoped ==
    /\ ui = "ready"
    /\ mode = "ConfirmDisable"
    /\ mode' = "Normal"
    /\ DeleteScoped
    /\ UNCHANGED <<running, ui, pc, mutex, child, shownVars, tor, redirect,
                   radical, reachable, restarts, orphans, died, disturbed,
                   leftover, lifted>>

\* The refresh tick calls full_anon.is_running(), which waits for the mutex.
TickBegin ==
    /\ ui = "ready"
    /\ ui' = "refresh"
    /\ UNCHANGED <<mode, running, pc, mutex, child, shownVars, machineVars,
                   historyVars>>

TickEnd ==
    /\ ui = "refresh"
    /\ mutex = NoTask
    /\ ui' = "ready"
    /\ running' = (child # NoTask)
    /\ UNCHANGED <<mode, pc, mutex, child, shownVars, machineVars, historyVars>>

\* The process ends: its tasks and its supervisor are gone.
EndProcess ==
    /\ ui' = "quit"
    /\ pc' = [t \in Slots |->
                IF pc[t] \in {"free"} \cup CliLabels THEN pc[t] ELSE "done"]
    /\ mutex' = NoTask
    /\ child' = NoTask
    /\ died' = FALSE
    /\ orphans' = tor'
    /\ UNCHANGED <<mode, running, shownVars, redirect, radical, scoped,
                   reachable, restarts, disturbed, leftover, lifted, asked>>

\* `q`, or the end of the input: run() returns, the runtime drops every task
\* and the supervisor.  Nothing kills tor (no kill_on_drop) or removes a table.
Quit ==
    /\ ui = "ready"
    /\ UNCHANGED tor
    /\ EndProcess

\* A new `anonet run` finds this one alive and signals its process group,
\* which its own tor belongs to; see InstanceLock.
TakenOver ==
    /\ ui # "quit"
    /\ tor' = tor \cap orphans
    /\ EndProcess

\* `anonet run` again: new telemetry and a supervisor without a child.
Restart ==
    /\ ui = "quit"
    /\ restarts < MaxRestarts
    /\ restarts' = restarts + 1
    /\ ui' = "ready"
    /\ mode' = "Normal"
    /\ running' = FALSE
    /\ transparentEnabled' = FALSE
    /\ lastError' = FALSE
    /\ disturbed' = FALSE
    /\ leftover' = redirect
    /\ UNCHANGED <<pc, mutex, child, machineVars, orphans, died, lifted, asked>>

-----------------------------------------------------------------------------
(* FullAnonController::enable and TorSupervisor::start *)

CurrentUid(t) ==
    /\ pc[t] = "uid"
    /\ \/ Goto(t, "start") /\ UNCHANGED lastError
       \/ "uid" \in Faults /\ Fail(t)
    /\ UNCHANGED <<uiVars, mutex, child, transparentEnabled, machineVars,
                   historyVars>>

\* The mutex is taken; start() refuses a second child or spawns tor and keeps
\* the mutex while it waits for the bootstrap.
StartTor(t) ==
    /\ pc[t] = "start"
    /\ mutex = NoTask
    /\ \/ /\ child # NoTask \/ "torSpawn" \in Faults
          /\ Fail(t)
          /\ UNCHANGED <<mutex, tor>>
       \/ /\ child = NoTask
          /\ mutex' = t
          /\ tor' = tor \cup {t}
          /\ Goto(t, "boot")
          /\ UNCHANGED lastError
    /\ UNCHANGED <<uiVars, child, transparentEnabled, redirect, radical,
                   scoped, reachable, historyVars>>

\* "Bootstrapped 100%" on stdout: the child is stored and the mutex released.
\* A tor beside another one cannot bind its ports and exits.
BootOk(t) ==
    /\ pc[t] = "boot"
    /\ reachable
    /\ tor = {t}
    /\ child' = t
    /\ mutex' = NoTask
    /\ Goto(t, "redirect")
    /\ UNCHANGED <<uiVars, shownVars, machineVars, historyVars>>

\* tor exits, or the 120 s pass: the process is killed, the child not stored.
BootFail(t) ==
    /\ pc[t] = "boot"
    /\ tor # {t} \/ TimesOut
    /\ tor' = AfterGivingUp(t)
    /\ mutex' = NoTask
    /\ Fail(t)
    /\ UNCHANGED <<uiVars, child, transparentEnabled, redirect, radical,
                   scoped, reachable, historyVars>>

ApplyRedirect(t) ==
    /\ pc[t] = "redirect"
    /\ \/ /\ redirect' = TRUE
          /\ leftover' = FALSE
          /\ Goto(t, "radical")
       \/ /\ "nftAdd" \in Faults
          /\ Goto(t, OnRedirectError)
          /\ UNCHANGED <<redirect, leftover>>
    /\ UNCHANGED <<uiVars, mutex, child, shownVars, tor, radical, scoped,
                   reachable, restarts, orphans, died, disturbed, lifted,
                   asked>>

ApplyRadical(t) ==
    /\ pc[t] = "radical"
    /\ \/ /\ radical' = TRUE
          /\ lifted' = FALSE
          /\ Goto(t, "report")
       \/ /\ "nftAdd" \in Faults
          /\ Goto(t, OnRadicalError)
          /\ UNCHANGED <<radical, lifted>>
    /\ UNCHANGED <<uiVars, mutex, child, shownVars, tor, redirect, scoped,
                   reachable, restarts, orphans, died, disturbed, leftover,
                   asked>>

\* stop(): under the mutex, the child, whoever started it, is killed.
StopChild ==
    /\ mutex = NoTask
    /\ tor' = tor \ {child}
    /\ child' = NoTask
    /\ died' = FALSE

UndoRedirect(t) ==
    /\ pc[t] = "undoRedirect"
    /\ DeleteRedirect
    /\ Goto(t, "undoStop")
    /\ UNCHANGED <<uiVars, mutex, child, shownVars, tor, radical, scoped,
                   reachable, restarts, orphans, died, disturbed, lifted,
                   asked>>

UndoStop(t) ==
    /\ pc[t] = "undoStop"
    /\ StopChild
    /\ Fail(t)
    /\ UNCHANGED <<uiVars, mutex, transparentEnabled, redirect, radical,
                   scoped, reachable, restarts, orphans, disturbed, leftover,
                   lifted, asked>>

ReportEnabled(t) ==
    /\ pc[t] = "report"
    /\ transparentEnabled' = TRUE
    /\ Goto(t, "done")
    /\ UNCHANGED <<uiVars, mutex, child, lastError, machineVars, historyVars>>

-----------------------------------------------------------------------------
(* FullAnonController::disable *)

RemoveRedirect(t) ==
    /\ pc[t] = "offRedirect"
    /\ DeleteRedirect
    /\ Goto(t, "offRadical")
    /\ UNCHANGED <<uiVars, mutex, child, shownVars, tor, radical, scoped,
                   reachable, restarts, orphans, died, disturbed, lifted,
                   asked>>

RemoveRadical(t) ==
    /\ pc[t] = "offRadical"
    /\ radical' \in NftDelete(radical, FALSE)
    /\ Goto(t, "offStop")
    /\ UNCHANGED <<uiVars, mutex, child, shownVars, tor, redirect, scoped,
                   reachable, historyVars>>

StopTor(t) ==
    /\ pc[t] = "offStop"
    /\ StopChild
    /\ Goto(t, "offReport")
    /\ UNCHANGED <<uiVars, mutex, shownVars, redirect, radical, scoped,
                   reachable, restarts, orphans, disturbed, leftover, lifted,
                   asked>>

ReportDisabled(t) ==
    /\ pc[t] = "offReport"
    /\ transparentEnabled' = FALSE
    /\ Goto(t, "done")
    /\ UNCHANGED <<uiVars, mutex, child, lastError, machineVars, historyVars>>

-----------------------------------------------------------------------------
(* The task ConfirmRadicalEnable spawns *)

TtlEnable(t) ==
    /\ pc[t] = "ttlOn"
    /\ \/ radical' = TRUE /\ Goto(t, "ttlSleep")
       \/ /\ Faults \cap {"uid", "nftAdd"} # {}
          /\ Goto(t, "done")
          /\ UNCHANGED radical
    /\ UNCHANGED <<uiVars, mutex, child, shownVars, tor, redirect, scoped,
                   reachable, historyVars>>

TtlElapsed(t) ==
    /\ pc[t] = "ttlSleep"
    /\ DeleteRadical
    /\ Goto(t, "done")
    /\ UNCHANGED <<uiVars, mutex, child, shownVars, tor, redirect, scoped,
                   reachable, restarts, orphans, died, disturbed, leftover,
                   asked>>

-----------------------------------------------------------------------------
(* `anonet killswitch` (cli/main.rs), a process of its own.  A command     *)
(* that fails before nft, or that nft refuses, changes nothing.            *)

\* enable with a TTL, 300 s by default for the radical switch.
CliEnable(t) ==
    /\ pc[t] = "free"
    /\ \/ /\ radical' = TRUE
          /\ Goto(t, "cliRadical")
          /\ UNCHANGED <<scoped, asked>>
       \/ /\ \E u \in Confinable : Confine(u)
          /\ Goto(t, "cliScoped")
          /\ UNCHANGED radical
    /\ UNCHANGED <<uiVars, mutex, child, shownVars, tor, redirect, reachable,
                   restarts, orphans, died, disturbed, leftover, lifted>>

\* The TTL elapses, or Ctrl+C.
CliEnd(t) ==
    /\ pc[t] \in CliLabels
    /\ Goto(t, "done")
    /\ \/ pc[t] = "cliRadical" /\ DeleteRadical /\ UNCHANGED <<scoped, asked>>
       \/ pc[t] = "cliScoped" /\ DeleteScoped /\ UNCHANGED <<radical, lifted>>
    /\ UNCHANGED <<uiVars, mutex, child, shownVars, tor, redirect, reachable,
                   restarts, orphans, died, disturbed, leftover>>

\* enable --mode scoped without a TTL.
CliConfine ==
    /\ \E u \in Confinable : Confine(u)
    /\ UNCHANGED <<uiVars, pc, mutex, child, shownVars, tor, redirect,
                   radical, reachable, restarts, orphans, died, disturbed,
                   leftover, lifted>>

CliDisable ==
    /\ \/ DeleteRadical /\ UNCHANGED <<scoped, asked>>
       \/ DeleteScoped /\ UNCHANGED <<radical, lifted>>
    /\ UNCHANGED <<uiVars, pc, mutex, child, shownVars, tor, redirect,
                   reachable, restarts, orphans, died, disturbed, leftover>>

-----------------------------------------------------------------------------
(* The machine *)

TorDies ==
    /\ "torDies" \in Faults
    /\ \E p \in tor : tor' = tor \ {p} /\ died' = (died \/ p = child)
    /\ UNCHANGED <<uiVars, pc, mutex, child, shownVars, redirect, radical,
                   scoped, reachable, restarts, orphans, disturbed, leftover,
                   lifted, asked>>

NetworkChange ==
    /\ reachable' = ~ reachable
    /\ UNCHANGED <<uiVars, pc, mutex, child, shownVars, tor, redirect, radical,
                   scoped, historyVars>>

-----------------------------------------------------------------------------
TaskStep(t) ==
    \/ CurrentUid(t) \/ StartTor(t) \/ BootOk(t) \/ BootFail(t)
    \/ ApplyRedirect(t) \/ ApplyRadical(t) \/ UndoRedirect(t) \/ UndoStop(t)
    \/ ReportEnabled(t)
    \/ RemoveRedirect(t) \/ RemoveRadical(t) \/ StopTor(t) \/ ReportDisabled(t)
    \/ TtlEnable(t) \/ TtlElapsed(t) \/ CliEnd(t)

Next ==
    \/ OpenDialog \/ Cancel \/ EnterUid \/ DisableRadical \/ DisableScoped
    \/ TickBegin \/ TickEnd
    \/ Quit \/ TakenOver \/ Restart
    \/ CliConfine \/ CliDisable
    \/ \E t \in Slots : \/ ConfirmEnable(t) \/ PressDisable(t)
                        \/ ConfirmRadical(t) \/ CliEnable(t) \/ TaskStep(t)
    \/ TorDies
    \/ NetworkChange

\* The runtime polls every task, nft and id return, the timers fire; tokio's
\* mutex is fair, so a tick that waits gets it.
Fairness ==
    /\ \A t \in Slots : WF_vars(TaskStep(t))
    /\ WF_vars(TickEnd)

Spec == Init /\ [][Next]_vars

FairSpec == Spec /\ Fairness

-----------------------------------------------------------------------------
(* Properties *)

ShownTypeOK ==
    /\ mode \in {"Normal", "ConfirmTransparentEnable", "KillSwitchMenu",
                 "EnterScopedUid", "ConfirmRadicalEnable", "ConfirmDisable"}
    /\ running \in BOOLEAN
    /\ ui \in {"ready", "refresh", "quit"}
    /\ transparentEnabled \in BOOLEAN
    /\ lastError \in BOOLEAN

TaskTypeOK ==
    /\ pc \in [Slots -> Labels]
    /\ mutex \in Slots \cup {NoTask}
    /\ child \in Slots \cup {NoTask}

MachineTypeOK ==
    /\ tor \subseteq Slots
    /\ redirect \in BOOLEAN
    /\ radical \in BOOLEAN
    /\ scoped \subseteq Confinable
    /\ reachable \in BOOLEAN

HistoryTypeOK ==
    /\ restarts \in 0..MaxRestarts
    /\ orphans \subseteq Slots
    /\ died \in BOOLEAN
    /\ disturbed \in BOOLEAN
    /\ leftover \in BOOLEAN
    /\ lifted \in BOOLEAN
    /\ asked \subseteq Confinable

TypeOK == ShownTypeOK /\ TaskTypeOK /\ MachineTypeOK /\ HistoryTypeOK

\* However enable, disable and rollback interleave, a live instance never
\* loses a tor process: each one is the supervisor's child or still inside
\* start(), except those an earlier instance left behind.
TorTracked == tor \subseteq {child} \cup {t \in Slots : pc[t] = "boot"} \cup orphans

\* As long as no enable and disable overlapped, traffic is redirected only
\* while the tor that receives it lives, at every step of enable, its rollback
\* and disable.  There are two exceptions: a table nft would not delete, or
\* that an instance left when it quit; and a tor that ended by itself, which
\* the supervisor does not notice: what is redirected then finds no listener.
RedirectHasTor ==
    ui # "quit" /\ ~ disturbed /\ redirect /\ ~ leftover =>
        child # NoTask /\ (child \in tor \/ died)

\* Under the same conditions, once enable, disable and rollback are over, the
\* child, the redirect and what the dashboard reports are all on or all off,
\* whichever step failed.
AllOrNothing ==
    ui # "quit" /\ ~ disturbed /\ Quiet =>
        /\ transparentEnabled = (child # NoTask)
        /\ transparentEnabled => redirect
        /\ redirect => transparentEnabled \/ leftover

\* While full anonymization is reported on, only two kinds of packets leave
\* the machine outside Tor: those of the UID anonet runs under (its tor, and
\* every other program of that UID, which is root's) and those forwarded for
\* other hosts, of which no TCP but SSH and no DNS reaches the internet.  This
\* survives every fault, restart and kill switch command but one that lifts
\* the fail-safe.  If one does, the packets of other UIDs get out too: all
\* those to private ranges, SSH, and what is neither TCP nor DNS; their other
\* TCP and their DNS still do not reach the internet.  This is what the radical
\* switch is documented to do (README.md:120); "LAN traffic and SSH sessions
\* keep working" (README.md:131) is what the redirect alone would do.
NoLeak ==
    ui # "quit" /\ ~ disturbed /\ Quiet /\ transparentEnabled =>
        \A p \in Exposed(redirect, scoped, radical) :
            p.uid # AnonetUid =>
                /\ p.uid = Forwarded \/ lifted
                /\ p.dst = "internet" => p.service \notin {"tcp", "dns"}

\* A UID the user was told is confined reaches nothing but this machine and
\* Tor until the scoped table is deleted: not when a second UID is confined,
\* not when other tables come and go, not after a restart.
Confined ==
    \A p \in Exposed(redirect, scoped, radical) : p.uid \notin asked

\* Every spawned task ends, and a tick that waits for the mutex goes on: no
\* bootstrap, stop or tick blocks another for ever.
Settles ==
    /\ \A t \in Slots : pc[t] \notin {"free", "done"} ~> pc[t] = "done"
    /\ ui = "refresh" ~> ui # "refresh"

\* tui/lib.rs: the radical kill switch "auto-reverts after 5 minutes
\* regardless, so a confirmed mistake here is never permanent".
RadicalReverts == \A t \in Slots : pc[t] = "ttlSleep" ~> ~ radical

\* README: full anonymization "enables the radical kill switch as a
\* fail-safe": while it is reported on and nothing is under way, only a
\* request to remove the kill switch removes the fail-safe.
FailSafeKept ==
    [][ Quiet /\ transparentEnabled /\ radical /\ ~ radical'
        => DisableRadical \/ CliDisable \/ \E t \in Slots : CliEnd(t) ]_vars
=============================================================================
