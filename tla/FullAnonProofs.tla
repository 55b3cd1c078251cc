--------------------------- MODULE FullAnonProofs ---------------------------
(***************************************************************************)
(* Full anonymization, for any number of tasks, UIDs and restarts, with    *)
(* every fault.  What holds between requests (Settled) rests on what a     *)
(* request knows half-way: an enable() past its bootstrap is the one the   *)
(* supervisor's child comes from (Owned), and a disable() past its first   *)
(* step finds no redirect but one nft would not delete (Undone).  Both     *)
(* need that enable() and disable() have not overlapped (Apart) and that   *)
(* nobody has a child while a bootstrap holds the mutex (Locked).          *)
(***************************************************************************)
EXTENDS FullAnon, TLAPS

\* The labels of an enable() whose tor has become the supervisor's child.
OwnerLabels == {"redirect", "radical", "undoRedirect", "undoStop", "report"}

RequestLabels == EnableLabels \cup DisableLabels

\* An instance runs in which enable and disable have not overlapped.
Calm == ui # "quit" /\ ~ disturbed

\* The mutex is held across a bootstrap and nowhere else, and until that ends
\* there is no child.
Locked ==
    /\ \A t \in Slots : pc[t] = "boot" <=> mutex = t
    /\ mutex # NoTask => child = NoTask

\* When the process has ended its requests and its supervisor are gone.
Over ==
    ui = "quit" => /\ mutex = NoTask /\ child = NoTask
                   /\ \A t \in Slots : pc[t] \notin RequestLabels

Apart ==
    Calm => \A s, t \in Slots :
                pc[s] \in EnableLabels => pc[t] \notin DisableLabels

Owned ==
    Calm => \A t \in Slots :
        /\ pc[t] \in OwnerLabels => child = t /\ ~ transparentEnabled
        /\ pc[t] \in {"redirect", "undoStop"} => (redirect => leftover)
        /\ pc[t] \in {"radical", "report"} => redirect
        /\ pc[t] = "report" => radical \/ lifted

Undone ==
    Calm => \A t \in Slots :
        /\ pc[t] \in {"offRadical", "offStop", "offReport"} => (redirect => leftover)
        /\ pc[t] = "offReport" => child = NoTask

Settled ==
    Calm /\ (\A t \in Slots : pc[t] \notin OwnerLabels \cup DisableLabels) =>
        /\ transparentEnabled <=> child # NoTask
        /\ transparentEnabled => redirect /\ (radical \/ lifted)
        /\ redirect => transparentEnabled \/ leftover

\* Without overlapping requests a redirect is there only with a child.
RedirectOwned == Calm /\ redirect /\ ~ leftover => child # NoTask

\* The child's process runs, or has ended by itself.
Supervised == child # NoTask => child \in tor \/ died

\* The scoped table confines whoever the user was told is confined.
Kept == asked \subseteq scoped

IndInv ==
    /\ TypeOK /\ TorTracked /\ Supervised /\ Locked /\ Over /\ Kept
    /\ Apart /\ Owned /\ Undone /\ RedirectOwned /\ Settled

\* The steps that leave requests and the supervisor alone: only the machine's
\* kill switches, labels of other tasks and the dashboard's mode may change,
\* and a radical table that goes is noted in `lifted`.
Elsewhere ==
    /\ UNCHANGED <<mutex, child, transparentEnabled, tor, redirect, orphans,
                   died, disturbed, leftover>>
    /\ ui' = "quit" <=> ui = "quit"
    /\ \A t \in Slots : \/ pc'[t] = pc[t]
                         \/ {pc[t], pc'[t]} \cap RequestLabels = {}
    /\ radical \/ lifted => radical' \/ lifted'

\* Which steps those are.
ElsewhereStep ==
    \/ OpenDialog \/ Cancel \/ EnterUid \/ DisableRadical \/ DisableScoped
    \/ TickBegin \/ TickEnd \/ CliConfine \/ CliDisable \/ NetworkChange
    \/ \E t \in Slots : \/ ConfirmRadical(t) \/ CliEnable(t)
                        \/ TtlEnable(t) \/ TtlElapsed(t) \/ CliEnd(t)
    \/ UNCHANGED vars

\* The steps of enable() and disable(), and their requests.
EnableStep(t) ==
    \/ ConfirmEnable(t) \/ CurrentUid(t) \/ StartTor(t) \/ BootOk(t)
    \/ BootFail(t) \/ ApplyRedirect(t) \/ ApplyRadical(t) \/ UndoRedirect(t)
    \/ UndoStop(t) \/ ReportEnabled(t)

DisableStep(t) ==
    \/ PressDisable(t) \/ RemoveRedirect(t) \/ RemoveRadical(t) \/ StopTor(t)
    \/ ReportDisabled(t)

-----------------------------------------------------------------------------
\* Every step is of one of these kinds.
LEMMA Kinds ==
    ASSUME [Next]_vars
    PROVE  \/ ElsewhereStep
           \/ Quit \/ TakenOver \/ Restart \/ TorDies
           \/ \E t \in Slots : EnableStep(t) \/ DisableStep(t)
  BY DEF Next, TaskStep, ElsewhereStep, EnableStep, DisableStep

\* Deleting the radical table is noted.
LEMMA RadicalNoted ==
    ASSUME DeleteRadical, radical \in BOOLEAN, lifted \in BOOLEAN
    PROVE  radical' \in BOOLEAN /\ lifted' \in BOOLEAN
           /\ (radical \/ lifted => radical' \/ lifted')
  BY DEF DeleteRadical, NftDelete

\* A redirect that is still there after a deletion is a leftover.
LEMMA RedirectNoted ==
    ASSUME DeleteRedirect, redirect \in BOOLEAN
    PROVE  redirect' \in BOOLEAN /\ leftover' = redirect'
  BY DEF DeleteRedirect, NftDelete

\* Deleting the scoped table releases every UID, or changes nothing.
LEMMA ScopedReleased ==
    ASSUME DeleteScoped
    PROVE  \/ scoped' = {} /\ asked' = {}
           \/ scoped' = scoped /\ asked' \in {asked, {}}
  BY DEF DeleteScoped, NftDelete

\* The steps of other tasks and the dashboard's own leave requests alone.
LEMMA StepsElsewhere ==
    ASSUME TypeOK, ElsewhereStep
    PROVE  Elsewhere
  <1> USE DEF TypeOK, ShownTypeOK, TaskTypeOK, MachineTypeOK, HistoryTypeOK,
              Labels, Elsewhere, RequestLabels, EnableLabels, DisableLabels,
              TtlLabels, CliLabels, Goto, uiVars, machineVars, shownVars,
              historyVars
  <1>1. CASE OpenDialog \/ Cancel \/ EnterUid \/ DisableScoped \/ CliConfine
    BY <1>1 DEF OpenDialog, Cancel, EnterUid, DisableScoped, CliConfine
  <1>2. CASE TickBegin \/ TickEnd \/ NetworkChange \/ UNCHANGED vars
    BY <1>2 DEF TickBegin, TickEnd, NetworkChange, vars
  <1>3. CASE DisableRadical \/ CliDisable
    BY <1>3, RadicalNoted DEF DisableRadical, CliDisable
  <1>4. ASSUME NEW t \in Slots, ConfirmRadical(t) \/ CliEnable(t) \/ TtlEnable(t)
        PROVE  Elsewhere
    BY <1>4 DEF ConfirmRadical, CliEnable, TtlEnable
  <1>5. ASSUME NEW t \in Slots, TtlElapsed(t) \/ CliEnd(t)
        PROVE  Elsewhere
    BY <1>5, RadicalNoted DEF TtlElapsed, CliEnd
  <1> QED
    BY <1>1, <1>2, <1>3, <1>4, <1>5 DEF ElsewhereStep

\* What the dashboard shows keeps its types.
LEMMA StepShownTypeOK ==
    ASSUME TypeOK, [Next]_vars
    PROVE  ShownTypeOK'
  <1> USE DEF TypeOK, ShownTypeOK, TaskTypeOK, MachineTypeOK, HistoryTypeOK,
              Fail, uiVars, machineVars, shownVars, historyVars
  <1>1. CASE OpenDialog \/ Cancel \/ TickBegin \/ TickEnd \/ UNCHANGED vars
    BY <1>1 DEF OpenDialog, Cancel, TickBegin, TickEnd, vars
  <1>2. CASE EnterUid \/ CliConfine
    BY <1>2 DEF EnterUid, CliConfine, Confine, AddScoped
  <1>3. CASE DisableRadical \/ DisableScoped \/ CliDisable
    BY <1>3, RadicalNoted, ScopedReleased
       DEF DisableRadical, DisableScoped, CliDisable
  <1>4. CASE Quit \/ TakenOver \/ Restart
    <2>1. CASE Quit \/ TakenOver
      BY <2>1 DEF Quit, TakenOver, EndProcess
    <2>2. CASE Restart
      <3>1. restarts' \in 0..MaxRestarts
        BY <2>2, RestartAssumption DEF Restart
      <3> QED
        BY <2>2, <3>1 DEF Restart
    <2> QED
      BY <1>4, <2>1, <2>2
  <1>5. CASE TorDies \/ NetworkChange
    BY <1>5 DEF TorDies, NetworkChange
  <1>6. ASSUME NEW t \in Slots, ConfirmRadical(t) \/ CliEnable(t) \/ CliEnd(t)
        PROVE  ShownTypeOK'
    BY <1>6, RadicalNoted, ScopedReleased
       DEF ConfirmRadical, CliEnable, CliEnd, Confine, AddScoped
  <1>7. ASSUME NEW t \in Slots, TtlEnable(t) \/ TtlElapsed(t)
        PROVE  ShownTypeOK'
    BY <1>7, RadicalNoted DEF TtlEnable, TtlElapsed
  <1>8. ASSUME NEW t \in Slots, EnableStep(t)
        PROVE  ShownTypeOK'
    <2>1. CASE ConfirmEnable(t) \/ CurrentUid(t) \/ StartTor(t)
      BY <2>1 DEF ConfirmEnable, CurrentUid, StartTor
    <2>2. CASE BootOk(t) \/ BootFail(t) \/ ApplyRedirect(t) \/ ApplyRadical(t)
      BY <2>2 DEF BootOk, BootFail, AfterGivingUp, ApplyRedirect, ApplyRadical
    <2>3. CASE UndoRedirect(t) \/ UndoStop(t) \/ ReportEnabled(t)
      BY <2>3, RedirectNoted DEF UndoRedirect, UndoStop, StopChild, ReportEnabled
    <2> QED
      BY <1>8, <2>1, <2>2, <2>3 DEF EnableStep
  <1>9. ASSUME NEW t \in Slots, DisableStep(t)
        PROVE  ShownTypeOK'
    BY <1>9, RedirectNoted
       DEF DisableStep, PressDisable, RemoveRedirect, RemoveRadical, NftDelete,
           StopTor, StopChild, ReportDisabled
  <1> HIDE DEF ShownTypeOK
  <1> QED
    BY Kinds, <1>1, <1>2, <1>3, <1>4, <1>5, <1>6, <1>7, <1>8, <1>9
       DEF ElsewhereStep

\* Every task stays at one of its labels.
LEMMA StepTaskTypeOK ==
    ASSUME TypeOK, [Next]_vars
    PROVE  TaskTypeOK'
  <1> USE DEF TypeOK, ShownTypeOK, TaskTypeOK, MachineTypeOK, HistoryTypeOK,
              Labels, EnableLabels, DisableLabels, TtlLabels, CliLabels, Goto,
              Fail, uiVars, machineVars, shownVars, historyVars
  <1>1. CASE OpenDialog \/ Cancel \/ TickBegin \/ TickEnd \/ UNCHANGED vars
    BY <1>1 DEF OpenDialog, Cancel, TickBegin, TickEnd, vars
  <1>2. CASE EnterUid \/ CliConfine
    BY <1>2 DEF EnterUid, CliConfine, Confine, AddScoped
  <1>3. CASE DisableRadical \/ DisableScoped \/ CliDisable
    BY <1>3, RadicalNoted, ScopedReleased
       DEF DisableRadical, DisableScoped, CliDisable
  <1>4. CASE Quit \/ TakenOver \/ Restart
    <2>1. CASE Quit \/ TakenOver
      BY <2>1 DEF Quit, TakenOver, EndProcess
    <2>2. CASE Restart
      <3>1. restarts' \in 0..MaxRestarts
        BY <2>2, RestartAssumption DEF Restart
      <3> QED
        BY <2>2, <3>1 DEF Restart
    <2> QED
      BY <1>4, <2>1, <2>2
  <1>5. CASE TorDies \/ NetworkChange
    BY <1>5 DEF TorDies, NetworkChange
  <1>6. ASSUME NEW t \in Slots, ConfirmRadical(t) \/ CliEnable(t) \/ CliEnd(t)
        PROVE  TaskTypeOK'
    BY <1>6, RadicalNoted, ScopedReleased
       DEF ConfirmRadical, CliEnable, CliEnd, Confine, AddScoped
  <1>7. ASSUME NEW t \in Slots, TtlEnable(t) \/ TtlElapsed(t)
        PROVE  TaskTypeOK'
    BY <1>7, RadicalNoted DEF TtlEnable, TtlElapsed
  <1>8. ASSUME NEW t \in Slots, EnableStep(t)
        PROVE  TaskTypeOK'
    BY <1>8, RedirectNoted
       DEF EnableStep, ConfirmEnable, CurrentUid, StartTor, BootOk, BootFail,
           AfterGivingUp, ApplyRedirect, OnRedirectError, ApplyRadical,
           OnRadicalError, UndoRedirect, UndoStop, StopChild, ReportEnabled
  <1>9. ASSUME NEW t \in Slots, DisableStep(t)
        PROVE  TaskTypeOK'
    BY <1>9, RedirectNoted
       DEF DisableStep, PressDisable, RemoveRedirect, RemoveRadical, NftDelete,
           StopTor, StopChild, ReportDisabled
  <1> HIDE DEF TaskTypeOK
  <1> QED
    BY Kinds, <1>1, <1>2, <1>3, <1>4, <1>5, <1>6, <1>7, <1>8, <1>9
       DEF ElsewhereStep

\* What the machine keeps has its types.
LEMMA StepMachineTypeOK ==
    ASSUME TypeOK, [Next]_vars
    PROVE  MachineTypeOK'
  <1> USE DEF TypeOK, ShownTypeOK, TaskTypeOK, MachineTypeOK, HistoryTypeOK,
              uiVars, machineVars, shownVars, historyVars
  <1>1. CASE OpenDialog \/ Cancel \/ TickBegin \/ TickEnd \/ UNCHANGED vars
    BY <1>1 DEF OpenDialog, Cancel, TickBegin, TickEnd, vars
  <1>2. CASE EnterUid \/ CliConfine
    BY <1>2 DEF EnterUid, CliConfine, Confine, AddScoped
  <1>3. CASE DisableRadical \/ DisableScoped \/ CliDisable
    BY <1>3, RadicalNoted, ScopedReleased
       DEF DisableRadical, DisableScoped, CliDisable
  <1>4. CASE Quit \/ TakenOver \/ Restart
    <2>1. CASE Quit \/ TakenOver
      BY <2>1 DEF Quit, TakenOver, EndProcess
    <2>2. CASE Restart
      <3>1. restarts' \in 0..MaxRestarts
        BY <2>2, RestartAssumption DEF Restart
      <3> QED
        BY <2>2, <3>1 DEF Restart
    <2> QED
      BY <1>4, <2>1, <2>2
  <1>5. CASE TorDies \/ NetworkChange
    BY <1>5 DEF TorDies, NetworkChange
  <1>6. ASSUME NEW t \in Slots, ConfirmRadical(t) \/ CliEnable(t) \/ CliEnd(t)
        PROVE  MachineTypeOK'
    BY <1>6, RadicalNoted, ScopedReleased
       DEF ConfirmRadical, CliEnable, CliEnd, Confine, AddScoped
  <1>7. ASSUME NEW t \in Slots, TtlEnable(t) \/ TtlElapsed(t)
        PROVE  MachineTypeOK'
    BY <1>7, RadicalNoted DEF TtlEnable, TtlElapsed
  <1>8. ASSUME NEW t \in Slots, EnableStep(t)
        PROVE  MachineTypeOK'
    BY <1>8, RedirectNoted
       DEF EnableStep, ConfirmEnable, CurrentUid, StartTor, BootOk, BootFail,
           AfterGivingUp, ApplyRedirect, OnRedirectError, ApplyRadical,
           OnRadicalError, UndoRedirect, UndoStop, StopChild, ReportEnabled
  <1>9. ASSUME NEW t \in Slots, DisableStep(t)
        PROVE  MachineTypeOK'
    BY <1>9, RedirectNoted
       DEF DisableStep, PressDisable, RemoveRedirect, RemoveRadical, NftDelete,
           StopTor, StopChild, ReportDisabled
  <1> HIDE DEF MachineTypeOK
  <1> QED
    BY Kinds, <1>1, <1>2, <1>3, <1>4, <1>5, <1>6, <1>7, <1>8, <1>9
       DEF ElsewhereStep

\* So has the history.
LEMMA StepHistoryTypeOK ==
    ASSUME TypeOK, [Next]_vars
    PROVE  HistoryTypeOK'
  <1> USE DEF TypeOK, ShownTypeOK, TaskTypeOK, MachineTypeOK, HistoryTypeOK,
              uiVars, machineVars, shownVars, historyVars
  <1>1. CASE OpenDialog \/ Cancel \/ TickBegin \/ TickEnd \/ UNCHANGED vars
    BY <1>1 DEF OpenDialog, Cancel, TickBegin, TickEnd, vars
  <1>2. CASE EnterUid \/ CliConfine
    BY <1>2 DEF EnterUid, CliConfine, Confine, AddScoped
  <1>3. CASE DisableRadical \/ DisableScoped \/ CliDisable
    BY <1>3, RadicalNoted, ScopedReleased
       DEF DisableRadical, DisableScoped, CliDisable
  <1>4. CASE Quit \/ TakenOver \/ Restart
    <2>1. CASE Quit \/ TakenOver
      BY <2>1 DEF Quit, TakenOver, EndProcess
    <2>2. CASE Restart
      <3>1. restarts' \in 0..MaxRestarts
        BY <2>2, RestartAssumption DEF Restart
      <3> QED
        BY <2>2, <3>1 DEF Restart
    <2> QED
      BY <1>4, <2>1, <2>2
  <1>5. CASE TorDies \/ NetworkChange
    BY <1>5 DEF TorDies, NetworkChange
  <1>6. ASSUME NEW t \in Slots, ConfirmRadical(t) \/ CliEnable(t) \/ CliEnd(t)
        PROVE  HistoryTypeOK'
    BY <1>6, RadicalNoted, ScopedReleased
       DEF ConfirmRadical, CliEnable, CliEnd, Confine, AddScoped
  <1>7. ASSUME NEW t \in Slots, TtlEnable(t) \/ TtlElapsed(t)
        PROVE  HistoryTypeOK'
    BY <1>7, RadicalNoted DEF TtlEnable, TtlElapsed
  <1>8. ASSUME NEW t \in Slots, EnableStep(t)
        PROVE  HistoryTypeOK'
    BY <1>8, RedirectNoted
       DEF EnableStep, ConfirmEnable, CurrentUid, StartTor, BootOk, BootFail,
           AfterGivingUp, ApplyRedirect, OnRedirectError, ApplyRadical,
           OnRadicalError, UndoRedirect, UndoStop, StopChild, ReportEnabled
  <1>9. ASSUME NEW t \in Slots, DisableStep(t)
        PROVE  HistoryTypeOK'
    BY <1>9, RedirectNoted
       DEF DisableStep, PressDisable, RemoveRedirect, RemoveRadical, NftDelete,
           StopTor, StopChild, ReportDisabled
  <1> HIDE DEF HistoryTypeOK
  <1> QED
    BY Kinds, <1>1, <1>2, <1>3, <1>4, <1>5, <1>6, <1>7, <1>8, <1>9
       DEF ElsewhereStep

\* No live tor is lost: start() kills the one it spawned, BootOk makes it the
\* child, StopChild kills the child, and the end of the process notes the rest.
LEMMA StepTorTracked ==
    ASSUME TypeOK, Locked, TorTracked, [Next]_vars
    PROVE  TorTracked'
  <1> USE DEF TypeOK, ShownTypeOK, TaskTypeOK, MachineTypeOK, HistoryTypeOK,
              TorTracked, Goto, Fail
  <1>1. CASE ElsewhereStep
    BY <1>1, StepsElsewhere DEF Elsewhere, RequestLabels, EnableLabels
  <1>2. CASE Quit \/ TakenOver \/ Restart \/ TorDies
    BY <1>2 DEF Quit, TakenOver, EndProcess, Restart, TorDies, machineVars,
                historyVars
  <1>3. ASSUME NEW t \in Slots, EnableStep(t)
        PROVE  TorTracked'
    <2> USE DEF machineVars, historyVars
    <2>1. CASE ConfirmEnable(t) \/ CurrentUid(t)
      BY <2>1 DEF ConfirmEnable, CurrentUid
    <2>2. CASE StartTor(t)
      BY <2>2 DEF StartTor
    <2>3. CASE BootOk(t)
      BY <2>3 DEF BootOk
    <2>4. CASE BootFail(t)
      BY <2>4 DEF BootFail, AfterGivingUp
    <2>5. CASE ApplyRedirect(t) \/ ApplyRadical(t)
      BY <2>5 DEF ApplyRedirect, ApplyRadical
    <2>6. CASE UndoRedirect(t) \/ ReportEnabled(t)
      BY <2>6 DEF UndoRedirect, ReportEnabled
    <2>7. CASE UndoStop(t)
      BY <2>7 DEF UndoStop, StopChild
    <2> QED
      BY <1>3, <2>1, <2>2, <2>3, <2>4, <2>5, <2>6, <2>7 DEF EnableStep
  <1>4. ASSUME NEW t \in Slots, DisableStep(t)
        PROVE  TorTracked'
    BY <1>4 DEF DisableStep, PressDisable, RemoveRedirect, RemoveRadical,
                StopTor, ReportDisabled, StopChild, machineVars, historyVars
  <1> QED
    BY Kinds, <1>1, <1>2, <1>3, <1>4

\* A tor becomes the child while it runs; it is killed only when it is not the
\* child, or stops being it.
LEMMA StepSupervised ==
    ASSUME TypeOK, Locked, Supervised, [Next]_vars
    PROVE  Supervised'
  <1> USE DEF TypeOK, ShownTypeOK, TaskTypeOK, MachineTypeOK, HistoryTypeOK,
              Supervised
  <1>1. CASE ElsewhereStep
    BY <1>1, StepsElsewhere DEF Elsewhere
  <1>2. CASE Quit \/ TakenOver \/ Restart
    BY <1>2 DEF Quit, TakenOver, EndProcess, Restart, machineVars
  <1>3. CASE TorDies
    <2>1. PICK p \in tor : tor' = tor \ {p} /\ died' = (died \/ p = child)
      BY <1>3 DEF TorDies
    <2>2. child' = child
      BY <1>3 DEF TorDies
    <2>3. CASE p = child
      BY <2>1, <2>3, Zenon
    <2>4. CASE p # child
      <3>1. died => died'
        BY <2>1, Zenon
      <3> QED
        BY <2>1, <2>2, <2>4, <3>1, Zenon
    <2> QED
      BY <2>3, <2>4
  <1>4. ASSUME NEW t \in Slots, EnableStep(t)
        PROVE  Supervised'
    <2> USE DEF machineVars, historyVars
    <2>1. CASE ConfirmEnable(t) \/ CurrentUid(t) \/ StartTor(t)
      BY <2>1 DEF ConfirmEnable, CurrentUid, StartTor
    <2>2. CASE BootOk(t)
      BY <2>2 DEF BootOk
    <2>3. CASE BootFail(t)
      <3>1. child = NoTask
        BY <2>3, SlotAssumption DEF BootFail, Locked
      <3> QED
        BY <2>3, <3>1 DEF BootFail
    <2>4. CASE ApplyRedirect(t) \/ ApplyRadical(t) \/ UndoRedirect(t)
               \/ ReportEnabled(t)
      BY <2>4 DEF ApplyRedirect, ApplyRadical, UndoRedirect, ReportEnabled
    <2>5. CASE UndoStop(t)
      BY <2>5 DEF UndoStop, StopChild
    <2> QED
      BY <1>4, <2>1, <2>2, <2>3, <2>4, <2>5 DEF EnableStep
  <1>5. ASSUME NEW t \in Slots, DisableStep(t)
        PROVE  Supervised'
    <2> USE DEF machineVars, historyVars
    <2>1. CASE PressDisable(t)
      BY <2>1 DEF PressDisable
    <2>2. CASE RemoveRedirect(t) \/ RemoveRadical(t)
      <3>1. UNCHANGED <<tor, child, died>>
        BY <2>2 DEF RemoveRedirect, RemoveRadical
      <3> QED
        BY <3>1
    <2>3. CASE StopTor(t)
      BY <2>3 DEF StopTor, StopChild
    <2>4. CASE ReportDisabled(t)
      BY <2>4 DEF ReportDisabled
    <2> QED
      BY <1>5, <2>1, <2>2, <2>3, <2>4 DEF DisableStep
  <1> QED
    BY Kinds, <1>1, <1>2, <1>3, <1>4, <1>5

\* The mutex is taken and given back with the label `boot'.
LEMMA StepLocked ==
    ASSUME TypeOK, Locked, Over, Apart, Owned, Undone, RedirectOwned, Settled,
           [Next]_vars
    PROVE  Locked'
  <1> USE DEF TaskTypeOK, Locked, Labels, RequestLabels, EnableLabels,
              DisableLabels, TtlLabels, CliLabels, Goto, Fail
  <1>1. CASE ElsewhereStep
    BY <1>1, StepsElsewhere DEF TypeOK, Elsewhere
  <1>2. CASE Quit \/ TakenOver
    BY <1>2, SlotAssumption DEF TypeOK, Quit, TakenOver, EndProcess
  <1>3. CASE Restart \/ TorDies
    BY <1>3 DEF TypeOK, Restart, TorDies, uiVars, machineVars, shownVars, historyVars, Over
  <1>4. ASSUME NEW t \in Slots, EnableStep(t)
        PROVE  Locked'
    BY <1>4, SlotAssumption, RedirectNoted
       DEF TypeOK, EnableStep, ConfirmEnable, CurrentUid, StartTor, BootOk, BootFail,
           ApplyRedirect, OnRedirectError, ApplyRadical, OnRadicalError,
           UndoRedirect, UndoStop, StopChild, ReportEnabled,
           uiVars, machineVars, shownVars, historyVars, Enabling, Disabling
  <1>5. ASSUME NEW t \in Slots, DisableStep(t)
        PROVE  Locked'
    BY <1>5, SlotAssumption, RedirectNoted
       DEF TypeOK, DisableStep, PressDisable, RemoveRedirect, RemoveRadical, StopTor,
           StopChild, ReportDisabled,
           uiVars, machineVars, shownVars, historyVars, Enabling, Disabling
  <1> QED
    BY Kinds, <1>1, <1>2, <1>3, <1>4, <1>5


\* The end of the process ends its requests.
LEMMA StepOver ==
    ASSUME TypeOK, Locked, Over, Apart, Owned, Undone, RedirectOwned, Settled,
           [Next]_vars
    PROVE  Over'
  <1> USE DEF TaskTypeOK, Over, Labels, RequestLabels, EnableLabels,
              DisableLabels, TtlLabels, CliLabels, Goto, Fail
  <1>1. CASE ElsewhereStep
    BY <1>1, StepsElsewhere DEF TypeOK, Elsewhere
  <1>2. CASE Quit \/ TakenOver
    BY <1>2 DEF TypeOK, Quit, TakenOver, EndProcess
  <1>3. CASE Restart \/ TorDies
    BY <1>3 DEF TypeOK, Restart, TorDies, uiVars, machineVars, shownVars, historyVars, Over
  <1>4. ASSUME NEW t \in Slots, EnableStep(t)
        PROVE  Over'
    BY <1>4, SlotAssumption, RedirectNoted
       DEF TypeOK, EnableStep, ConfirmEnable, CurrentUid, StartTor, BootOk, BootFail,
           ApplyRedirect, OnRedirectError, ApplyRadical, OnRadicalError,
           UndoRedirect, UndoStop, StopChild, ReportEnabled,
           uiVars, machineVars, shownVars, historyVars, Enabling, Disabling
  <1>5. ASSUME NEW t \in Slots, DisableStep(t)
        PROVE  Over'
    BY <1>5, SlotAssumption, RedirectNoted
       DEF TypeOK, DisableStep, PressDisable, RemoveRedirect, RemoveRadical, StopTor,
           StopChild, ReportDisabled,
           uiVars, machineVars, shownVars, historyVars, Enabling, Disabling
  <1> QED
    BY Kinds, <1>1, <1>2, <1>3, <1>4, <1>5


\* A request that overlaps one of the other kind is noted.
LEMMA StepApart ==
    ASSUME TypeOK, Locked, Over, Apart, Owned, Undone, RedirectOwned, Settled,
           [Next]_vars
    PROVE  Apart'
  <1> USE DEF TaskTypeOK, Apart, Calm, Labels, RequestLabels, EnableLabels,
              DisableLabels, TtlLabels, CliLabels, Goto, Fail
  <1>1. CASE ElsewhereStep
    BY <1>1, StepsElsewhere DEF TypeOK, Elsewhere
  <1>2. CASE Quit \/ TakenOver
    BY <1>2 DEF TypeOK, Quit, TakenOver, EndProcess
  <1>3. CASE Restart \/ TorDies
    BY <1>3 DEF TypeOK, Restart, TorDies, uiVars, machineVars, shownVars, historyVars, Over
  <1>4. ASSUME NEW t \in Slots, EnableStep(t)
        PROVE  Apart'
    <2> USE DEF TypeOK, uiVars, machineVars, shownVars, historyVars
    <2>1. CASE ConfirmEnable(t)
      BY <2>1 DEF ConfirmEnable, Disabling
    <2>2. CASE CurrentUid(t) \/ StartTor(t) \/ BootOk(t) \/ BootFail(t)
      BY <2>2 DEF CurrentUid, StartTor, BootOk, BootFail
    <2>3. CASE ApplyRedirect(t) \/ ApplyRadical(t)
      BY <2>3 DEF ApplyRedirect, OnRedirectError, ApplyRadical, OnRadicalError
    <2>4. CASE UndoRedirect(t) \/ UndoStop(t) \/ ReportEnabled(t)
      BY <2>4 DEF UndoRedirect, UndoStop, ReportEnabled
    <2> QED
      BY <1>4, <2>1, <2>2, <2>3, <2>4 DEF EnableStep
  <1>5. ASSUME NEW t \in Slots, DisableStep(t)
        PROVE  Apart'
    <2> USE DEF TypeOK, uiVars, machineVars, shownVars, historyVars
    <2>1. CASE PressDisable(t)
      BY <2>1 DEF PressDisable, Enabling
    <2>2. CASE RemoveRedirect(t) \/ RemoveRadical(t)
      BY <2>2, RedirectNoted DEF RemoveRedirect, RemoveRadical
    <2>3. CASE StopTor(t) \/ ReportDisabled(t)
      BY <2>3, SlotAssumption DEF StopTor, StopChild, ReportDisabled
    <2> QED
      BY <1>5, <2>1, <2>2, <2>3 DEF DisableStep
  <1> QED
    BY Kinds, <1>1, <1>2, <1>3, <1>4, <1>5

\* An enable() past its bootstrap owns the child until it is over.
LEMMA StepOwned ==
    ASSUME TypeOK, Locked, Over, Apart, Owned, Undone, RedirectOwned, Settled,
           [Next]_vars
    PROVE  Owned'
  <1> USE DEF TaskTypeOK, Owned, Calm, OwnerLabels, Labels, RequestLabels,
              EnableLabels, DisableLabels, TtlLabels, CliLabels, Goto, Fail
  <1>1. CASE ElsewhereStep
    <2>1. Elsewhere
      BY <1>1, StepsElsewhere
    <2>2. ASSUME Calm', NEW t \in Slots
          PROVE  (/\ pc[t] \in OwnerLabels => child = t /\ ~ transparentEnabled
                  /\ pc[t] \in {"redirect", "undoStop"} => (redirect => leftover)
                  /\ pc[t] \in {"radical", "report"} => redirect
                  /\ pc[t] = "report" => radical \/ lifted)'
      <3>1. CASE pc'[t] = pc[t]
        BY <2>1, <2>2, <3>1 DEF Elsewhere
      <3>2. CASE pc'[t] \notin RequestLabels
        BY <3>2
      <3> QED
        BY <2>1, <3>1, <3>2 DEF Elsewhere
    <2> QED
      BY <2>2
  <1>2. CASE Quit \/ TakenOver
    BY <1>2 DEF Quit, TakenOver, EndProcess
  <1>3. CASE Restart
    BY <1>3 DEF TypeOK, Restart, machineVars, Over
  <1>4. CASE TorDies
    BY <1>4 DEF TypeOK, TorDies, uiVars, shownVars, historyVars
  <1>5. ASSUME NEW t \in Slots, EnableStep(t)
        PROVE  Owned'
    <2> USE SlotAssumption
        DEF TypeOK, uiVars, machineVars, shownVars, historyVars
    <2>1. CASE ConfirmEnable(t)
      BY <2>1 DEF ConfirmEnable, Disabling
    <2>2. CASE CurrentUid(t)
      BY <2>2 DEF CurrentUid, Locked, Apart, Owned, Undone, Settled
    <2>3. CASE StartTor(t)
      BY <2>3 DEF StartTor, Locked, Apart, Owned, Undone, Settled
    <2>4. CASE BootOk(t)
      BY <2>4 DEF BootOk, Locked, Apart, Owned, Undone, Settled, RedirectOwned
    <2>5. CASE BootFail(t)
      BY <2>5 DEF BootFail, Locked, Apart, Owned, Undone, Settled
    <2>6. CASE ApplyRedirect(t)
      BY <2>6 DEF OnRedirectError, ApplyRedirect, Locked, Apart, Owned, Undone, Settled
    <2>7. CASE ApplyRadical(t)
      BY <2>7 DEF OnRadicalError, ApplyRadical, Locked, Apart, Owned, Undone, Settled
    <2>8. CASE UndoRedirect(t)
      <3>1. leftover' = redirect'
        BY <2>8 DEF UndoRedirect, DeleteRedirect
      <3> QED
        BY <2>8, <3>1 DEF UndoRedirect, Apart, Owned, Undone, Settled
    <2>9. CASE UndoStop(t)
      BY <2>9 DEF StopChild, UndoStop, Locked, Apart, Owned, Undone, Settled
    <2>10. CASE ReportEnabled(t)
      BY <2>10 DEF ReportEnabled, Locked, Apart, Owned, Undone, Settled
    <2> QED
      BY <1>5, <2>1, <2>2, <2>3, <2>4, <2>5, <2>6, <2>7, <2>8, <2>9, <2>10 DEF EnableStep
  <1>6. ASSUME NEW t \in Slots, DisableStep(t)
        PROVE  Owned'
    <2> USE SlotAssumption
        DEF TypeOK, uiVars, machineVars, shownVars, historyVars
    <2>1. CASE PressDisable(t)
      BY <2>1 DEF PressDisable, Enabling, Settled, Apart
    <2>2. CASE RemoveRedirect(t)
      <3>1. leftover' = redirect'
        BY <2>2 DEF RemoveRedirect, DeleteRedirect
      <3> QED
        BY <2>2, <3>1 DEF RemoveRedirect, Apart, Owned, Undone, Settled
    <2>3. CASE RemoveRadical(t)
      BY <2>3 DEF RemoveRadical, Apart, Undone, Owned, Settled
    <2>4. CASE StopTor(t)
      BY <2>4 DEF StopTor, StopChild, Apart, Undone, Owned, Settled
    <2>5. CASE ReportDisabled(t)
      BY <2>5 DEF ReportDisabled, Apart, Undone, Owned, Settled
    <2> QED
      BY <1>6, <2>1, <2>2, <2>3, <2>4, <2>5 DEF DisableStep
  <1> QED
    BY Kinds, <1>1, <1>2, <1>3, <1>4, <1>5, <1>6


\* A disable() past a step has undone it.
LEMMA StepUndone ==
    ASSUME TypeOK, Locked, Over, Apart, Owned, Undone, RedirectOwned, Settled,
           [Next]_vars
    PROVE  Undone'
  <1> USE DEF TaskTypeOK, Undone, Calm, OwnerLabels, Labels, RequestLabels,
              EnableLabels, DisableLabels, TtlLabels, CliLabels, Goto, Fail
  <1>1. CASE ElsewhereStep
    <2>1. Elsewhere
      BY <1>1, StepsElsewhere
    <2>2. ASSUME Calm', NEW t \in Slots
          PROVE  (/\ pc[t] \in {"offRadical", "offStop", "offReport"} =>
                       (redirect => leftover)
                  /\ pc[t] = "offReport" => child = NoTask)'
      <3>1. CASE pc'[t] = pc[t]
        BY <2>1, <2>2, <3>1 DEF Elsewhere
      <3>2. CASE pc'[t] \notin RequestLabels
        BY <3>2
      <3> QED
        BY <2>1, <3>1, <3>2 DEF Elsewhere
    <2> QED
      BY <2>2
  <1>2. CASE Quit \/ TakenOver
    BY <1>2 DEF Quit, TakenOver, EndProcess
  <1>3. CASE Restart
    BY <1>3 DEF TypeOK, Restart, machineVars, Over
  <1>4. CASE TorDies
    BY <1>4 DEF TypeOK, TorDies, uiVars, shownVars, historyVars
  <1>5. ASSUME NEW t \in Slots, EnableStep(t)
        PROVE  Undone'
    <2> USE SlotAssumption
        DEF TypeOK, uiVars, machineVars, shownVars, historyVars
    <2>1. CASE ConfirmEnable(t)
      BY <2>1 DEF ConfirmEnable, Disabling
    <2>2. CASE CurrentUid(t)
      BY <2>2 DEF CurrentUid, Locked, Apart, Owned, Undone, Settled
    <2>3. CASE StartTor(t)
      BY <2>3 DEF StartTor, Locked, Apart, Owned, Undone, Settled
    <2>4. CASE BootOk(t)
      BY <2>4 DEF BootOk, Locked, Apart, Owned, Undone, Settled, RedirectOwned
    <2>5. CASE BootFail(t)
      BY <2>5 DEF BootFail, Locked, Apart, Owned, Undone, Settled
    <2>6. CASE ApplyRedirect(t)
      BY <2>6 DEF OnRedirectError, ApplyRedirect, Locked, Apart, Owned, Undone, Settled
    <2>7. CASE ApplyRadical(t)
      BY <2>7 DEF OnRadicalError, ApplyRadical, Locked, Apart, Owned, Undone, Settled
    <2>8. CASE UndoRedirect(t)
      <3>1. leftover' = redirect'
        BY <2>8 DEF UndoRedirect, DeleteRedirect
      <3> QED
        BY <2>8, <3>1 DEF UndoRedirect, Apart, Owned, Undone, Settled
    <2>9. CASE UndoStop(t)
      BY <2>9 DEF StopChild, UndoStop, Locked, Apart, Owned, Undone, Settled
    <2>10. CASE ReportEnabled(t)
      BY <2>10 DEF ReportEnabled, Locked, Apart, Owned, Undone, Settled
    <2> QED
      BY <1>5, <2>1, <2>2, <2>3, <2>4, <2>5, <2>6, <2>7, <2>8, <2>9, <2>10 DEF EnableStep
  <1>6. ASSUME NEW t \in Slots, DisableStep(t)
        PROVE  Undone'
    <2> USE SlotAssumption
        DEF TypeOK, uiVars, machineVars, shownVars, historyVars
    <2>1. CASE PressDisable(t)
      BY <2>1 DEF PressDisable, Enabling, Settled, Apart
    <2>2. CASE RemoveRedirect(t)
      <3>1. leftover' = redirect'
        BY <2>2 DEF RemoveRedirect, DeleteRedirect
      <3> QED
        BY <2>2, <3>1 DEF RemoveRedirect, Apart, Owned, Undone, Settled
    <2>3. CASE RemoveRadical(t)
      BY <2>3 DEF RemoveRadical, Apart, Undone, Owned, Settled
    <2>4. CASE StopTor(t)
      BY <2>4 DEF StopTor, StopChild, Apart, Undone, Owned, Settled
    <2>5. CASE ReportDisabled(t)
      BY <2>5 DEF ReportDisabled, Apart, Undone, Owned, Settled
    <2> QED
      BY <1>6, <2>1, <2>2, <2>3, <2>4, <2>5 DEF DisableStep
  <1> QED
    BY Kinds, <1>1, <1>2, <1>3, <1>4, <1>5, <1>6


\* A redirect is made while its enable() owns the child, and goes first.
LEMMA StepRedirectOwned ==
    ASSUME TypeOK, Locked, Over, Apart, Owned, Undone, RedirectOwned, Settled,
           [Next]_vars
    PROVE  RedirectOwned'
  <1> USE DEF TaskTypeOK, RedirectOwned, Calm, OwnerLabels, Labels, RequestLabels,
              EnableLabels, DisableLabels, TtlLabels, CliLabels, Goto, Fail
  <1>1. CASE ElsewhereStep
    BY <1>1, StepsElsewhere DEF TypeOK, Elsewhere
  <1>2. CASE Quit \/ TakenOver
    BY <1>2 DEF Quit, TakenOver, EndProcess
  <1>3. CASE Restart
    BY <1>3 DEF TypeOK, Restart, machineVars, Over
  <1>4. CASE TorDies
    BY <1>4 DEF TypeOK, TorDies, uiVars, shownVars, historyVars
  <1>5. ASSUME NEW t \in Slots, EnableStep(t)
        PROVE  RedirectOwned'
    <2> USE SlotAssumption
        DEF TypeOK, uiVars, machineVars, shownVars, historyVars
    <2>1. CASE ConfirmEnable(t)
      BY <2>1 DEF ConfirmEnable, Disabling
    <2>2. CASE CurrentUid(t)
      BY <2>2 DEF CurrentUid, Locked, Apart, Owned, Undone, Settled
    <2>3. CASE StartTor(t)
      BY <2>3 DEF StartTor, Locked, Apart, Owned, Undone, Settled
    <2>4. CASE BootOk(t)
      BY <2>4 DEF BootOk, Locked, Apart, Owned, Undone, Settled, RedirectOwned
    <2>5. CASE BootFail(t)
      BY <2>5 DEF BootFail, Locked, Apart, Owned, Undone, Settled
    <2>6. CASE ApplyRedirect(t)
      BY <2>6 DEF OnRedirectError, ApplyRedirect, Locked, Apart, Owned, Undone, Settled
    <2>7. CASE ApplyRadical(t)
      BY <2>7 DEF OnRadicalError, ApplyRadical, Locked, Apart, Owned, Undone, Settled
    <2>8. CASE UndoRedirect(t)
      <3>1. leftover' = redirect'
        BY <2>8 DEF UndoRedirect, DeleteRedirect
      <3> QED
        BY <2>8, <3>1 DEF UndoRedirect, Apart, Owned, Undone, Settled
    <2>9. CASE UndoStop(t)
      BY <2>9 DEF StopChild, UndoStop, Locked, Apart, Owned, Undone, Settled
    <2>10. CASE ReportEnabled(t)
      BY <2>10 DEF ReportEnabled, Locked, Apart, Owned, Undone, Settled
    <2> QED
      BY <1>5, <2>1, <2>2, <2>3, <2>4, <2>5, <2>6, <2>7, <2>8, <2>9, <2>10 DEF EnableStep
  <1>6. ASSUME NEW t \in Slots, DisableStep(t)
        PROVE  RedirectOwned'
    <2> USE SlotAssumption
        DEF TypeOK, uiVars, machineVars, shownVars, historyVars
    <2>1. CASE PressDisable(t)
      BY <2>1 DEF PressDisable, Enabling, Settled, Apart
    <2>2. CASE RemoveRedirect(t)
      <3>1. leftover' = redirect'
        BY <2>2 DEF RemoveRedirect, DeleteRedirect
      <3> QED
        BY <2>2, <3>1 DEF RemoveRedirect, Apart, Owned, Undone, Settled
    <2>3. CASE RemoveRadical(t)
      BY <2>3 DEF RemoveRadical, Apart, Undone, Owned, Settled
    <2>4. CASE StopTor(t)
      BY <2>4 DEF StopTor, StopChild, Apart, Undone, Owned, Settled
    <2>5. CASE ReportDisabled(t)
      BY <2>5 DEF ReportDisabled, Apart, Undone, Owned, Settled
    <2> QED
      BY <1>6, <2>1, <2>2, <2>3, <2>4, <2>5 DEF DisableStep
  <1> QED
    BY Kinds, <1>1, <1>2, <1>3, <1>4, <1>5, <1>6


\* Requests leave all on or all off behind.
LEMMA StepSettled ==
    ASSUME TypeOK, Locked, Over, Apart, Owned, Undone, RedirectOwned, Settled,
           [Next]_vars
    PROVE  Settled'
  <1> USE DEF TaskTypeOK, Settled, Calm, OwnerLabels, Labels, RequestLabels,
              EnableLabels, DisableLabels, TtlLabels, CliLabels, Goto, Fail
  <1>1. CASE ElsewhereStep
    BY <1>1, StepsElsewhere DEF TypeOK, Elsewhere
  <1>2. CASE Quit \/ TakenOver
    BY <1>2 DEF Quit, TakenOver, EndProcess
  <1>3. CASE Restart
    BY <1>3 DEF TypeOK, Restart, machineVars, Over
  <1>4. CASE TorDies
    BY <1>4 DEF TypeOK, TorDies, uiVars, shownVars, historyVars
  <1>5. ASSUME NEW t \in Slots, EnableStep(t)
        PROVE  Settled'
    <2> USE SlotAssumption
        DEF TypeOK, uiVars, machineVars, shownVars, historyVars
    <2>1. CASE ConfirmEnable(t)
      BY <2>1 DEF ConfirmEnable, Disabling
    <2>2. CASE CurrentUid(t)
      BY <2>2 DEF CurrentUid, Locked, Apart, Owned, Undone, Settled
    <2>3. CASE StartTor(t)
      BY <2>3 DEF StartTor, Locked, Apart, Owned, Undone, Settled
    <2>4. CASE BootOk(t)
      BY <2>4 DEF BootOk, Locked, Apart, Owned, Undone, Settled, RedirectOwned
    <2>5. CASE BootFail(t)
      BY <2>5 DEF BootFail, Locked, Apart, Owned, Undone, Settled
    <2>6. CASE ApplyRedirect(t)
      BY <2>6 DEF OnRedirectError, ApplyRedirect, Locked, Apart, Owned, Undone, Settled
    <2>7. CASE ApplyRadical(t)
      BY <2>7 DEF OnRadicalError, ApplyRadical, Locked, Apart, Owned, Undone, Settled
    <2>8. CASE UndoRedirect(t)
      <3>1. leftover' = redirect'
        BY <2>8 DEF UndoRedirect, DeleteRedirect
      <3> QED
        BY <2>8, <3>1 DEF UndoRedirect, Apart, Owned, Undone, Settled
    <2>9. CASE UndoStop(t)
      BY <2>9 DEF StopChild, UndoStop, Locked, Apart, Owned, Undone, Settled
    <2>10. CASE ReportEnabled(t)
      BY <2>10 DEF ReportEnabled, Locked, Apart, Owned, Undone, Settled
    <2> QED
      BY <1>5, <2>1, <2>2, <2>3, <2>4, <2>5, <2>6, <2>7, <2>8, <2>9, <2>10 DEF EnableStep
  <1>6. ASSUME NEW t \in Slots, DisableStep(t)
        PROVE  Settled'
    <2> USE SlotAssumption
        DEF TypeOK, uiVars, machineVars, shownVars, historyVars
    <2>1. CASE PressDisable(t)
      BY <2>1 DEF PressDisable, Enabling, Settled, Apart
    <2>2. CASE RemoveRedirect(t)
      <3>1. leftover' = redirect'
        BY <2>2 DEF RemoveRedirect, DeleteRedirect
      <3> QED
        BY <2>2, <3>1 DEF RemoveRedirect, Apart, Owned, Undone, Settled
    <2>3. CASE RemoveRadical(t)
      BY <2>3 DEF RemoveRadical, Apart, Undone, Owned, Settled
    <2>4. CASE StopTor(t)
      BY <2>4 DEF StopTor, StopChild, Apart, Undone, Owned, Settled
    <2>5. CASE ReportDisabled(t)
      BY <2>5 DEF ReportDisabled, Apart, Undone, Owned, Settled
    <2> QED
      BY <1>6, <2>1, <2>2, <2>3, <2>4, <2>5 DEF DisableStep
  <1> QED
    BY Kinds, <1>1, <1>2, <1>3, <1>4, <1>5, <1>6

\* Confining a UID confines it; releasing them releases what was promised.
LEMMA StepKept ==
    ASSUME Kept, [Next]_vars
    PROVE  Kept'
  <1> USE DEF Kept, machineVars, historyVars
  <1>1. CASE ElsewhereStep
    <2>1. CASE OpenDialog \/ Cancel \/ TickBegin \/ TickEnd \/ UNCHANGED vars
               \/ DisableRadical \/ NetworkChange
      BY <2>1 DEF OpenDialog, Cancel, TickBegin, TickEnd, vars, DisableRadical,
                  NetworkChange
    <2>2. CASE EnterUid \/ CliConfine
      BY <2>2 DEF EnterUid, CliConfine, Confine, AddScoped
    <2>3. CASE DisableScoped \/ CliDisable
      BY <2>3, ScopedReleased DEF DisableScoped, CliDisable
    <2>4. ASSUME NEW t \in Slots, ConfirmRadical(t) \/ TtlEnable(t)
                                  \/ TtlElapsed(t)
          PROVE  Kept'
      BY <2>4 DEF ConfirmRadical, TtlEnable, TtlElapsed
    <2>5. ASSUME NEW t \in Slots, CliEnable(t) \/ CliEnd(t)
          PROVE  Kept'
      BY <2>5, ScopedReleased DEF CliEnable, CliEnd, Confine, AddScoped
    <2> QED
      BY <1>1, <2>1, <2>2, <2>3, <2>4, <2>5 DEF ElsewhereStep
  <1>2. CASE Quit \/ TakenOver \/ Restart \/ TorDies
    BY <1>2 DEF Quit, TakenOver, EndProcess, Restart, TorDies
  <1>3. ASSUME NEW t \in Slots, EnableStep(t)
        PROVE  Kept'
    BY <1>3 DEF EnableStep, ConfirmEnable, CurrentUid, StartTor, BootOk,
                BootFail, ApplyRedirect, ApplyRadical, UndoRedirect, UndoStop,
                ReportEnabled
  <1>4. ASSUME NEW t \in Slots, DisableStep(t)
        PROVE  Kept'
    BY <1>4 DEF DisableStep, PressDisable, RemoveRedirect, RemoveRadical,
                StopTor, ReportDisabled
  <1> QED
    BY Kinds, <1>1, <1>2, <1>3, <1>4

-----------------------------------------------------------------------------
\* The invariant holds initially and is kept by every step.
THEOREM Inductive == Spec => []IndInv
  <1>1. Init => IndInv
    <2> SUFFICES ASSUME Init PROVE IndInv
      OBVIOUS
    <2> USE SlotAssumption, RestartAssumption DEF Init
    <2>1. ShownTypeOK /\ MachineTypeOK
      BY DEF ShownTypeOK, MachineTypeOK
    <2>2. TaskTypeOK
      BY DEF TaskTypeOK, Labels
    <2>3. HistoryTypeOK
      <3>1. restarts \in 0..MaxRestarts
        OBVIOUS
      <3> QED
        BY <3>1 DEF HistoryTypeOK
    <2>4. TorTracked /\ Supervised /\ Locked /\ Over /\ Kept
      BY DEF TorTracked, Supervised, Locked, Over, Kept
    <2>5. Apart /\ Owned /\ Undone /\ RedirectOwned /\ Settled
      BY DEF Apart, Owned, Undone, RedirectOwned, Settled, Calm, OwnerLabels,
             EnableLabels, DisableLabels
    <2> QED
      BY <2>1, <2>2, <2>3, <2>4, <2>5 DEF IndInv, TypeOK
  <1>2. IndInv /\ [Next]_vars => IndInv'
    <2> SUFFICES ASSUME IndInv, [Next]_vars PROVE IndInv'
      OBVIOUS
    <2>1. TypeOK'
      BY StepShownTypeOK, StepTaskTypeOK, StepMachineTypeOK, StepHistoryTypeOK
         DEF IndInv, TypeOK
    <2>2. TorTracked' /\ Supervised' /\ Locked' /\ Over' /\ Kept'
      BY StepTorTracked, StepSupervised, StepLocked, StepOver, StepKept
         DEF IndInv
    <2>3. Apart' /\ Owned' /\ Undone' /\ RedirectOwned' /\ Settled'
      BY StepApart, StepOwned, StepUndone, StepRedirectOwned, StepSettled
         DEF IndInv
    <2> QED
      BY <2>1, <2>2, <2>3 DEF IndInv
  <1> QED
    BY <1>1, <1>2, PTL DEF Spec

\* Every variable keeps its type, for any tasks, UIDs and faults.
THEOREM TypeCorrect == Spec => []TypeOK
  BY Inductive, PTL DEF IndInv

\* No live instance loses a tor process, however enable(), disable(), the
\* rollback and restarts interleave.
THEOREM TorTrackedHolds == Spec => []TorTracked
  BY Inductive, PTL DEF IndInv

\* Without overlapping requests traffic is redirected only to a tor that runs,
\* or that ended by itself, unless nft would not delete the redirect or an
\* earlier instance left it.
THEOREM RedirectHasTorHolds == Spec => []RedirectHasTor
  <1>1. IndInv => RedirectHasTor
    BY DEF IndInv, RedirectOwned, Supervised, Calm, RedirectHasTor
  <1> QED
    BY <1>1, Inductive, PTL

\* Between requests nobody owns the child and nothing is half undone.
LEMMA QuietSettled ==
    ASSUME IndInv, Calm, Quiet
    PROVE  /\ transparentEnabled = (child # NoTask)
           /\ transparentEnabled => redirect /\ (radical \/ lifted)
           /\ redirect => transparentEnabled \/ leftover
  <1>1. \A t \in Slots : pc[t] \notin OwnerLabels \cup DisableLabels
    BY DEF Quiet, Enabling, Disabling, OwnerLabels, EnableLabels
  <1>2. transparentEnabled \in BOOLEAN
    BY DEF IndInv, TypeOK, ShownTypeOK
  <1> QED
    BY <1>1, <1>2 DEF IndInv, Settled

\* Without overlapping requests full anonymization is all on or all off.
THEOREM AllOrNothingHolds == Spec => []AllOrNothing
  <1>1. IndInv => AllOrNothing
    BY QuietSettled DEF AllOrNothing, Calm
  <1> QED
    BY <1>1, Inductive, PTL

\* A packet of another UID than anonet's that leaves outside Tor although both
\* tables are there is one that is forwarded; without the radical table it is
\* still, on its way to the internet, no TCP but SSH and no DNS.  This is a
\* fact about the rules alone.
LEMMA ExposedWhenOn ==
    ASSUME redirect = TRUE, NEW p \in Exposed(redirect, scoped, radical),
           p.uid # AnonetUid
    PROVE  /\ radical => p.uid = Forwarded
           /\ p.dst = "internet" => p.service \notin {"tcp", "dns"}
  <1>1. p \in Packets /\ Routed(p, TRUE) \in {"private", "internet"}
        /\ ~ (radical /\ RadicalDrops(p, Routed(p, TRUE)))
    BY DEF Exposed
  <1>2. p.uid \in OtherUids \cup {AnonetUid, Forwarded}
    BY <1>1 DEF Packets, Uids
  <1>3. radical => p.uid = Forwarded
    BY <1>1, <1>2 DEF RadicalDrops, Loopback
  <1>4. ~ Redirected(p)
    BY <1>1 DEF Routed
  <1> QED
    BY <1>1, <1>3, <1>4 DEF Redirected, Skipped

\* While full anonymization is reported on, what leaves outside Tor is of
\* anonet's own UID, or forwarded, or passes because somebody lifted the
\* fail-safe; and but for anonet's UID no TCP except SSH, and no DNS, reaches
\* the internet.
THEOREM NoLeakHolds == Spec => []NoLeak
  <1>1. IndInv => NoLeak
    <2> SUFFICES ASSUME IndInv, ui # "quit", ~ disturbed, Quiet,
                        transparentEnabled,
                        NEW p \in Exposed(redirect, scoped, radical),
                        p.uid # AnonetUid
                 PROVE  /\ p.uid = Forwarded \/ lifted
                        /\ p.dst = "internet" => p.service \notin {"tcp", "dns"}
      BY DEF NoLeak
    <2>1. redirect /\ (radical \/ lifted)
      BY QuietSettled DEF Calm
    <2>2. redirect = TRUE
      BY <2>1 DEF IndInv, TypeOK, MachineTypeOK
    <2> QED
      BY <2>1, <2>2, ExposedWhenOn
  <1> QED
    BY <1>1, Inductive, PTL

\* A UID the user was told is confined is confined.
THEOREM ConfinedHolds == Spec => []Confined
  <1>1. IndInv => Confined
    BY DEF IndInv, Kept, Confined, Exposed, ScopedDrops, Loopback
  <1> QED
    BY <1>1, Inductive, PTL
=============================================================================
