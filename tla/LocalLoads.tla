------------------------------ MODULE LocalLoads ------------------------------
(***************************************************************************)
(* The data components load into their own state, in an effect that runs   *)
(* again when what it depends on changes.  Each is a slice of its own, in  *)
(* the vocabulary of Effects.  All of them ignore the answer of a call     *)
(* that a later run of the effect has overtaken; they differ in what the   *)
(* screen shows meanwhile and in what a failure becomes.                   *)
(***************************************************************************)
EXTENDS Effects

Local(kind, case) == Slice([load |-> kind], [load |-> case], NoReducers)
LocalWith(kind, case, reducers) == Slice([load |-> kind], [load |-> case], reducers)

(* BookingScheduleGantt: every environment's bookings in the window; a     *)
(* failed environment reads as an empty lane, so the call cannot fail.     *)
BookingScheduleGanttLoad == LocalWith("query",
    Cancelled({Up("loading")}, {Put("bookingsByEnv"), Down("loading")},
              {Put("bookingsByEnv"), Down("loading")}),
    [noEnvironments |-> {Drop("load"), Wipe("bookingsByEnv")}])

(* EnvSubsystemHostsDialog: the hosts of one component, while open.        *)
EnvSubsystemHostsDialogLoad == LocalWith("of",
    Cancelled({Up("loading"), NoErr("error")}, {Put("rows"), Down("loading")},
              {Err("error"), Down("loading")}),
    [close |-> {Drop("load")}])

(* RunbookTaskHistoryDialog: wiped before each read.                       *)
RunbookTaskHistoryDialogLoad == Local("of",
    Cancelled({Wipe("events"), NoErr("error")}, {Put("events")}, {Err("error")}))

(* RollbackPanel: the readiness verdict, read again after every write, and *)
(* the release's systems.  A failed verdict shows nothing.                 *)
RollbackPanelLoads == Slice(
    [readiness |-> "of", systems |-> "of"],
    [readiness |-> Cancelled({Wipe("readiness")}, {Put("readiness")}, {Wipe("readiness")}),
     systems |-> Cancelled({Wipe("systems"), NoErr("systemsError")}, {Put("systems")},
                           {Err("systemsError")})],
    NoReducers)

(* ScopeHistoryDrawer: every release's name, while open.                   *)
ScopeHistoryDrawerLoad == LocalWith("all",
    Cancelled({}, {Put("releases")}, {Wipe("releases")}),
    [close |-> {Drop("load")}])

(* ReadinessBanner: nothing is wiped, so the last release's verdict stays  *)
(* until the answer.                                                       *)
ReadinessBannerLoad == Local("of",
    Cancelled({}, {Put("readiness")}, {Wipe("readiness")}))

(* TopologyCanvas: laying a graph out is asynchronous too.                 *)
TopologyCanvasLayout == LocalWith("query",
    Cancelled({Up("layingOut")}, {Put("layout"), Down("layingOut")},
              {Wipe("layout"), Down("layingOut")}),
    [noGraph |-> {Drop("load"), Wipe("layout")}])

(* GroupTransitionPanel: what the group may do next, and what each member  *)
(* may; the second read ignores its failures.                              *)
GroupTransitionPanelLoads == Slice(
    [group |-> "of", members |-> "of"],
    [group |-> Cancelled({Up("loading"), NoErr("loadError")},
                         {Put("transitions"), Down("loading")},
                         {Err("loadError"), Down("loading")}),
     members |-> Cancelled({}, {Put("memberTransitions")}, {})],
    NoReducers)

(* ContentionVerdict: the users to escalate to, once the form is opened.   *)
ContentionVerdictLoad == LocalWith("all",
    Cancelled({}, {Put("users")}, {Wipe("users")}),
    [close |-> {Drop("load")}])

(* EnvironmentsPanel: what each booking may do next.                       *)
EnvironmentsPanelLoad == Local("of",
    Cancelled({}, {Put("transitionsByBooking")}, {}))

(* HandoverSection and DecommissionPanel: is the user in the operating     *)
(* team?  Without a team, or for an administrator, it is not asked.        *)
HandoverSectionLoad == LocalWith("of",
    Cancelled({}, {Put("inOperatingTeam")}, {Wipe("inOperatingTeam")}),
    [notAsked |-> {Drop("load"), Wipe("inOperatingTeam")}])

DecommissionPanelLoad == LocalWith("of",
    Cancelled({}, {Put("inOperatingTeam")}, {Wipe("inOperatingTeam")}),
    [notAsked |-> {Drop("load"), Wipe("inOperatingTeam")}])

(* HealthAlertBanner: a failure is its own message, never silence.         *)
HealthAlertBannerLoad == Local("all",
    Cancelled({}, {Put("alertingNames")}, {Err("failed")}))

(* StatTile: each tile owns its request and its failure.                   *)
StatTileLoad == Local("query",
    Cancelled({Wipe("count"), NoErr("failed")}, {Put("count")}, {Err("failed")}))

(* Dashboard: the two previews and the governance line, each once.         *)
ComingUpBookingsLoad == Local("all", Cancelled({}, {Put("rows")}, {Err("failed")}))

ComingUpReleasesLoad == Local("all", Cancelled({}, {Put("rows")}, {Err("failed")}))

GovernanceGapLineLoads == Slice(
    [gap |-> "all", quarantined |-> "all"],
    [gap |-> Cancelled({}, {Put("gap")}, {Err("gapFailed")}),
     quarantined |-> Cancelled({}, {Put("quarantined")}, {Err("quarantinedFailed")})],
    NoReducers)

(* ChangeRequestDetail: the transitions of the shown change request.       *)
ChangeRequestDetailLoad == Local("id",
    Cancelled({}, {Put("allowed")}, {Wipe("allowed")}))

(* EnvironmentSchedule: what happens in the visible window.                *)
EnvironmentScheduleLoad == Local("query",
    Cancelled({Up("loading"), NoErr("error")}, {Put("data"), Down("loading")},
              {Err("error"), Down("loading")}))

(* EscalationWorklist and PirActionList: a grid that keeps its own rows    *)
(* and counts its questions.                                               *)
EscalationWorklistLoad == Local("query",
    Cancelled({Up("loading")}, {Put("rows"), NoErr("loadError"), Down("loading")},
              {Wipe("rows"), Err("loadError"), Down("loading")}))

PirActionListLoad == Local("query",
    Cancelled({Up("loading")}, {Put("rows"), NoErr("loadError"), Down("loading")},
              {Wipe("rows"), Err("loadError"), Down("loading")}))

(* ConflictsPanel: read again after every acknowledgement; the first read  *)
(* of a page is the one that shows the spinner.                            *)
ConflictsPanelLoad == Local("of",
    Cancelled({}, {Put("items"), NoErr("conflictsError")}, {Err("conflictsError")}))

LocalStore ==
    [bookingScheduleGantt |-> BookingScheduleGanttLoad,
     envSubsystemHostsDialog |-> EnvSubsystemHostsDialogLoad,
     runbookTaskHistoryDialog |-> RunbookTaskHistoryDialogLoad,
     rollbackPanel |-> RollbackPanelLoads,
     scopeHistoryDrawer |-> ScopeHistoryDrawerLoad,
     readinessBanner |-> ReadinessBannerLoad,
     topologyCanvas |-> TopologyCanvasLayout,
     groupTransitionPanel |-> GroupTransitionPanelLoads,
     contentionVerdict |-> ContentionVerdictLoad,
     environmentsPanel |-> EnvironmentsPanelLoad,
     handoverSection |-> HandoverSectionLoad,
     decommissionPanel |-> DecommissionPanelLoad,
     healthAlertBanner |-> HealthAlertBannerLoad,
     statTile |-> StatTileLoad,
     comingUpBookings |-> ComingUpBookingsLoad,
     comingUpReleases |-> ComingUpReleasesLoad,
     governanceGapLine |-> GovernanceGapLineLoads,
     changeRequestDetail |-> ChangeRequestDetailLoad,
     environmentSchedule |-> EnvironmentScheduleLoad,
     escalationWorklist |-> EscalationWorklistLoad,
     pirActionList |-> PirActionListLoad,
     conflictsPanel |-> ConflictsPanelLoad]
=============================================================================
