--------------------------- MODULE AsyncStateProofs ---------------------------
(***************************************************************************)
(* What the slices of the store and the loading effects guarantee, for any *)
(* number of keys and calls.  Each theorem has two halves: a discipline of *)
(* the handlers that suffices, whatever the slice, and a look at the       *)
(* tables that finds the discipline kept.                                  *)
(***************************************************************************)
EXTENDS AsyncState, WellFoundedInduction, TLAPS

(* ---- disciplines of the handlers ---- *)

AbortsIn(s, t) == s \in DOMAIN GridDriven /\ t \in GridDriven[s]

(* Flags: a handler pair that raises one lowers it whatever the answer.    *)
Lowers(es, f) == Down(f) \in es
RaisesNone(c) == \A e \in c.pending : e.op /= "up"
IdleCase(c) ==
    /\ \A e \in c.pending : e.op = "up" => Lowers(c.fulfilled, e.f) /\ Lowers(c.rejected, e.f)
    /\ \A e \in c.fulfilled \cup c.rejected : e.op /= "up"
(* What a refused call asks again is an operation that no list page aborts *)
(* and that asks nothing again itself.                                     *)
RereadOk(s, S, c) ==
    \/ c.then = "none"
    \/ /\ c.then \in Names(S.cases) /\ ~AbortsIn(s, c.then)
       /\ \A i \in DOMAIN S.cases :
            c.then \in DOMAIN S.cases[i] => S.cases[i][c.then].then = "none"
(* A reducer raises no flag, and drops no call that has one up.            *)
ReducerOk(s, S, es) ==
    \A e \in es :
        /\ e.op /= "up"
        /\ (e.op = "drop" /\ s \notin LeavesFlagUp) =>
                \A i \in DOMAIN S.cases : e.f \in DOMAIN S.cases[i] => RaisesNone(S.cases[i][e.f])
SliceOk(s, S) ==
    /\ \A i \in DOMAIN S.cases : \A t \in DOMAIN S.cases[i] :
            IdleCase(S.cases[i][t]) /\ RereadOk(s, S, S.cases[i][t])
    /\ \A r \in DOMAIN S.reducers : ReducerOk(s, S, S.reducers[r])

(* The operations on a field.                                              *)
AtOps == {"putat", "addat", "mergeat", "cutat"}
FlatOps == {"wipe", "put", "add", "merge", "same", "forget"}

(* All that the effects do to a field is among these operations.           *)
OnlyOps(es, f, ops) == \A e \in es : e.f = f => e.op \in ops
CaseOnly(c, f, ops) ==
    OnlyOps(c.pending, f, ops) /\ OnlyOps(c.fulfilled, f, ops) /\ OnlyOps(c.rejected, f, ops)
SliceOnly(S, f, ops) ==
    /\ \A i \in DOMAIN S.cases : \A t \in DOMAIN S.cases[i] : CaseOnly(S.cases[i][t], f, ops)
    /\ \A r \in DOMAIN S.reducers : OnlyOps(S.reducers[r], f, ops)

(* The effects do none of these operations to a field.                     *)
Without(es, f, ops) == \A e \in es : e.f = f => e.op \notin ops
ClearOps == {"noerr", "noerrat"}
ReportOps == {"err", "errat"}
Reports(es, f) == Err(f) \in es \/ ErrAt(f) \in es

(* Effects that put no other answer into a field.                          *)
KeepOps == {"wipe", "add", "merge", "forget"}
Keeps(es, f) == \A e \in es : e.f = f => e.op \in KeepOps \/ (e.op = "same" /\ e.on = f)

(* Only the answer to a read puts another item into the field.             *)
Reads(S, t) == /\ t \in Names(S.calls)
               /\ \A i \in DOMAIN S.calls : t \in DOMAIN S.calls[i] => S.calls[i][t] \in ReadKinds
OpensCase(S, t, c, f) ==
    /\ Keeps(c.pending, f) /\ Keeps(c.rejected, f)
    /\ Keeps(c.fulfilled, f) \/ (OnlyOps(c.fulfilled, f, {"put"}) /\ Reads(S, t))
ReadsOpen(S, f) ==
    /\ \A i \in DOMAIN S.cases : \A t \in DOMAIN S.cases[i] : OpensCase(S, t, S.cases[i][t], f)
    /\ \A r \in DOMAIN S.reducers : Keeps(S.reducers[r], f)

(* An overtaken call of a list page has been aborted; one under the        *)
(* "latest" guard is not heard.                                            *)
GuardFor(s, t) == IF AbortsIn(s, t) THEN "aborted" ELSE "latest"

ShownCase(s, t, f, u, c) ==
    /\ Keeps(c.pending, f)
    /\ u /= t => Keeps(c.fulfilled, f) /\ Keeps(c.rejected, f)
    /\ u = t => /\ c.then = "none" /\ c.guard = GuardFor(s, t)
                /\ Put(f) \in c.fulfilled /\ OnlyOps(c.fulfilled, f, {"put"})
                /\ OnlyOps(c.rejected, f, FlatOps)
ShownRow(s, S, t, f) ==
    /\ \A i \in DOMAIN S.cases : \A u \in DOMAIN S.cases[i] : ShownCase(s, t, f, u, S.cases[i][u])
    /\ \A r \in DOMAIN S.reducers : Keeps(S.reducers[r], f)

(* Only a new question of the read itself clears its message.              *)
VisibleCase(s, t, f, u, c) ==
    /\ Without(c.rejected, f, ClearOps)
    /\ u /= t => Without(c.pending, f, ClearOps) /\ Without(c.fulfilled, f, ClearOps)
    /\ u = t => /\ c.then = "none" /\ Reports(c.rejected, f)
                /\ c.guard = GuardFor(s, t) \/ Without(c.fulfilled, f, ClearOps)
VisibleRow(s, S, t, f) ==
    /\ \A i \in DOMAIN S.cases : \A u \in DOMAIN S.cases[i] : VisibleCase(s, t, f, u, S.cases[i][u])
    /\ \A r \in DOMAIN S.reducers : Without(S.reducers[r], f, ClearOps)

(* Of the operations of the slice only the list page's own answers lower   *)
(* its flag, an aborted call is not an answer, and errors are reported by  *)
(* refused calls alone.                                                    *)
SilentCase(s, t, fl, er, u, c) ==
    /\ Without(c.pending, fl, {"down"})
    /\ Without(c.pending, er, ReportOps) /\ Without(c.fulfilled, er, ReportOps)
    /\ u /= t => /\ Without(c.fulfilled, fl, {"down"}) /\ Without(c.rejected, fl, {"down"})
                 /\ ~AbortsIn(s, u)
    /\ u = t => /\ Up(fl) \in c.pending /\ Err(er) \in c.rejected
                /\ c.guard = "aborted" /\ c.then = "none"
SilentRow(s, S, t, fl, er) ==
    /\ AbortsIn(s, t)
    /\ \A i \in DOMAIN S.cases : \A u \in DOMAIN S.cases[i] :
            SilentCase(s, t, fl, er, u, S.cases[i][u])
    /\ \A r \in DOMAIN S.reducers : /\ Without(S.reducers[r], fl, {"down"})
                                    /\ Without(S.reducers[r], er, ReportOps)

(* ---- the tables ---- *)

(* The one slice whose table is long.                                      *)
ReleaseSlice ==
    SliceOf(<<ReleaseCalls, ReleasePhaseCalls, ReleaseGateCalls, ReleaseScopeCalls>>,
            <<ReleaseCases, ReleasePhaseCases, ReleaseGateCases, ReleaseScopeCases>>,
            ReleaseReducers)

LEMMA AreaNames ==
    ASSUME NEW a \in DOMAIN Areas
    PROVE  Areas[a] \in {BookingStore, EnvironmentStore, ReleaseStore, CatalogueStore,
                         AdminStore, LocalStore, OpenStore}
<1> DEFINE A == <<BookingStore, EnvironmentStore, ReleaseStore, CatalogueStore,
                  AdminStore, LocalStore, OpenStore>>
<1>1. Areas = A
    BY DEF Areas
<1> QED BY <1>1

PlainCases(cases) == \A t \in DOMAIN cases : IdleCase(cases[t]) /\ cases[t].then = "none"
PlainReducers(reds) == \A r \in DOMAIN reds : \A e \in reds[r] : e.op \notin {"up", "drop"}

(* Most slices ask nothing again and drop nothing.                         *)
LEMMA PlainSlice ==
    ASSUME NEW s, NEW S, \A i \in DOMAIN S.cases : PlainCases(S.cases[i]),
           PlainReducers(S.reducers)
    PROVE  SliceOk(s, S)
BY DEF SliceOk, PlainCases, PlainReducers, RereadOk, ReducerOk

USE DEF Effect, Up, Down, NoErr, Err, NoErrAt, ErrAt, Wipe, Put, Add, Merge, Same, Forget,
        PutWith, PutAt, AddAt, MergeAt, CutAt, Drop, Case, Guarded, Rereading, Spins, Settles,
        Unseen, Cancelled, NoReducers, Slice, SliceOf, Local, LocalWith

LEMMA BookingSlices == \A s \in DOMAIN BookingStore : SliceOk(s, BookingStore[s])
<1> USE DEF SliceOk, RereadOk, ReducerOk, IdleCase, Lowers
<1>1. SliceOk("booking", Slice(BookingCalls, BookingCases, BookingReducers))
    BY DEF BookingCases, BookingReducers
<1>2. SliceOk("bookingRequest", Slice(BookingRequestCalls, BookingRequestCases, NoReducers))
    BY DEF BookingRequestCases
<1>3. SliceOk("bookingLifecycle",
              Slice(BookingLifecycleCalls, BookingLifecycleCases, NoReducers))
    BY DEF BookingLifecycleCases
<1>4. SliceOk("contentionForecast",
              Slice(ContentionForecastCalls, ContentionForecastCases, NoReducers))
    BY DEF ContentionForecastCases
<1>5. SliceOk("environmentRequest",
              Slice(EnvironmentRequestCalls, EnvironmentRequestCases, NoReducers))
    BY DEF EnvironmentRequestCases
<1> HIDE DEF SliceOk, Slice, SliceOf, NoReducers, Local, LocalWith
<1> QED BY <1>1, <1>2, <1>3, <1>4, <1>5
       DEF BookingStore

LEMMA EnvironmentSlices == \A s \in DOMAIN EnvironmentStore : SliceOk(s, EnvironmentStore[s])
<1> USE DEF SliceOk, RereadOk, ReducerOk, IdleCase, Lowers
<1>1. SliceOk("environment",
              SliceOf(<<EnvironmentCalls>>,
                      <<EnvironmentCases, EnvironmentRowCases>>,
                      NoReducers))
    <2>1. PlainCases(EnvironmentCases)
        BY DEF PlainCases, EnvironmentCases
    <2>2. PlainCases(EnvironmentRowCases)
        BY DEF PlainCases, EnvironmentRowCases
    <2>3. PlainReducers(NoReducers)
        BY DEF PlainReducers
    <2> HIDE DEF SliceOk
    <2> QED BY <2>1, <2>2, <2>3, PlainSlice
<1>2. SliceOk("environmentGroup",
              Slice(EnvironmentGroupCalls, EnvironmentGroupCases, NoReducers))
    BY DEF EnvironmentGroupCases
<1>3. SliceOk("environmentTier",
              Slice(EnvironmentTierCalls, EnvironmentTierCases, NoReducers))
    BY DEF EnvironmentTierCases
<1>4. SliceOk("environmentNamingPolicy",
              Slice(NamingPolicyCalls, NamingPolicyCases, NoReducers))
    BY DEF NamingPolicyCases
<1>5. SliceOk("environmentLifecyclePolicy",
              Slice(LifecyclePolicyCalls, LifecyclePolicyCases, NoReducers))
    BY DEF LifecyclePolicyCases
<1>6. SliceOk("decommission",
              SliceOf(<<DecommissionCalls, DecommissionListCalls>>,
                      <<DecommissionCases>>,
                      NoReducers))
    <2>1. PlainCases(DecommissionCases)
        BY DEF PlainCases, DecommissionCases
    <2>2. PlainReducers(NoReducers)
        BY DEF PlainReducers
    <2> HIDE DEF SliceOk
    <2> QED BY <2>1, <2>2, PlainSlice
<1>7. SliceOk("infrastructureComponent", Slice(HostCalls, HostCases, NoReducers))
    BY DEF HostCases
<1>8. SliceOk("version", Slice(VersionCalls, VersionCases, VersionReducers))
    BY DEF VersionCases, VersionReducers
<1>9. SliceOk("build", Slice(BuildCalls, BuildCases, NoReducers))
    BY DEF BuildCases
<1>10. SliceOk("deployment", Slice(DeploymentCalls, DeploymentCases, NoReducers))
    BY DEF DeploymentCases
<1> HIDE DEF SliceOk, Slice, SliceOf, NoReducers, Local, LocalWith
<1> QED BY <1>1, <1>2, <1>3, <1>4, <1>5, <1>6, <1>7, <1>8, <1>9, <1>10
       DEF EnvironmentStore

LEMMA ReleaseSlices == \A s \in DOMAIN ReleaseStore : SliceOk(s, ReleaseStore[s])
<1> USE DEF SliceOk, RereadOk, ReducerOk, IdleCase, Lowers
<1>1. SliceOk("release", ReleaseSlice)
    <2>1. PlainCases(ReleaseCases)
        BY DEF PlainCases, ReleaseCases
    <2>2. PlainCases(ReleasePhaseCases)
        BY DEF PlainCases, ReleasePhaseCases
    <2>3. PlainCases(ReleaseGateCases)
        BY DEF PlainCases, ReleaseGateCases
    <2>4. PlainCases(ReleaseScopeCases)
        BY DEF PlainCases, ReleaseScopeCases
    <2>5. PlainReducers(ReleaseReducers)
        BY DEF PlainReducers, ReleaseReducers
    <2> HIDE DEF SliceOk
    <2> QED BY <2>1, <2>2, <2>3, <2>4, <2>5, PlainSlice DEF ReleaseSlice
<1>2. SliceOk("goNoGo", Slice(GoNoGoCalls, GoNoGoCases, NoReducers))
    BY DEF GoNoGoCases
<1>3. SliceOk("rollback", Slice(RollbackCalls, RollbackCases, NoReducers))
    <2>1. PlainCases(RollbackCases)
        BY DEF PlainCases, RollbackCases
    <2>2. PlainReducers(NoReducers)
        BY DEF PlainReducers
    <2> HIDE DEF SliceOk
    <2> QED BY <2>1, <2>2, PlainSlice
<1>4. SliceOk("runbook", Slice(RunbookCalls, RunbookCases, NoReducers))
    <2>1. \A t \in DOMAIN RunbookCases : /\ IdleCase(RunbookCases[t])
                                          /\ RunbookCases[t].then \in {"none", "fetchRunbook"}
        BY DEF RunbookCases
    <2>2. "fetchRunbook" \in DOMAIN RunbookCases /\ RunbookCases["fetchRunbook"].then = "none"
        BY DEF RunbookCases
    <2>3. ~AbortsIn("runbook", "fetchRunbook")
        BY DEF AbortsIn, GridDriven
    <2> HIDE DEF IdleCase
    <2> QED BY <2>1, <2>2, <2>3 DEF Names
<1>5. SliceOk("raid", Slice(RaidCalls, RaidCases, RaidReducers))
    BY DEF RaidCases, RaidReducers
<1>6. SliceOk("closeout", Slice(CloseoutCalls, CloseoutCases, NoReducers))
    BY DEF CloseoutCases
<1>7. SliceOk("gateType", Slice(GateTypeCalls, GateTypeCases, NoReducers))
    BY DEF GateTypeCases
<1>8. SliceOk("enterpriseMembership",
              Slice(EnterpriseMembershipCalls, EnterpriseMembershipCases, NoReducers))
    BY DEF EnterpriseMembershipCases
<1>9. SliceOk("releaseTemplate",
              Slice(ReleaseTemplateCalls, ReleaseTemplateCases, ReleaseTemplateReducers))
    BY DEF ReleaseTemplateCases, ReleaseTemplateReducers
<1>10. SliceOk("releaseEventType",
               Slice(ReleaseEventTypeCalls, ReleaseEventTypeCases, NoReducers))
    BY DEF ReleaseEventTypeCases
<1>11. SliceOk("scopeChangeRules",
               Slice(ScopeChangeRulesCalls, ScopeChangeRulesCases, NoReducers))
    BY DEF ScopeChangeRulesCases
<1> HIDE DEF SliceOk, Slice, SliceOf, NoReducers, Local, LocalWith
<1> QED BY <1>1, <1>2, <1>3, <1>4, <1>5, <1>6, <1>7, <1>8, <1>9, <1>10, <1>11
       DEF ReleaseStore, ReleaseSlice

LEMMA CatalogueSlices == \A s \in DOMAIN CatalogueStore : SliceOk(s, CatalogueStore[s])
<1> USE DEF SliceOk, RereadOk, ReducerOk, IdleCase, Lowers
<1>1. SliceOk("system", Slice(SystemCalls, SystemCases, NoReducers))
    BY DEF SystemCases
<1>2. SliceOk("dependency", Slice(DependencyCalls, DependencyCases, DependencyReducers))
    <2>1. PlainCases(DependencyCases)
        BY DEF PlainCases, DependencyCases
    <2>2. PlainReducers(DependencyReducers)
        BY DEF PlainReducers, DependencyReducers
    <2> HIDE DEF SliceOk
    <2> QED BY <2>1, <2>2, PlainSlice
<1>3. SliceOk("componentType", Slice(ComponentTypeCalls, ComponentTypeCases, NoReducers))
    BY DEF ComponentTypeCases
<1>4. SliceOk("topology", Slice(TopologyCalls, TopologyCases, TopologyReducers))
    BY DEF TopologyCases, TopologyReducers
<1>5. SliceOk("project", Slice(ProjectCalls, ProjectCases, NoReducers))
    BY DEF ProjectCases
<1>6. SliceOk("changeRequest",
              Slice(ChangeRequestCalls, ChangeRequestCases, ChangeRequestReducers))
    BY DEF ChangeRequestCases, ChangeRequestReducers
<1>7. SliceOk("incidents", Slice(IncidentCalls, IncidentCases, IncidentReducers))
    BY DEF IncidentCases, IncidentReducers
<1> HIDE DEF SliceOk, Slice, SliceOf, NoReducers, Local, LocalWith
<1> QED BY <1>1, <1>2, <1>3, <1>4, <1>5, <1>6, <1>7
       DEF CatalogueStore

LEMMA AdminSlices == \A s \in DOMAIN AdminStore : SliceOk(s, AdminStore[s])
<1> USE DEF SliceOk, RereadOk, ReducerOk, IdleCase, Lowers
<1>1. SliceOk("admin", Slice(AdminCalls, AdminCases, NoReducers))
    <2>1. PlainCases(AdminCases)
        BY DEF PlainCases, AdminCases
    <2>2. PlainReducers(NoReducers)
        BY DEF PlainReducers
    <2> HIDE DEF SliceOk
    <2> QED BY <2>1, <2>2, PlainSlice
<1>2. SliceOk("tenantAdmin", Slice(TenantAdminCalls, TenantAdminCases, NoReducers))
    BY DEF TenantAdminCases
<1>3. SliceOk("userGroup", Slice(UserGroupCalls, UserGroupCases, NoReducers))
    BY DEF UserGroupCases
<1>4. SliceOk("apiKey", Slice(ApiKeyCalls, ApiKeyCases, ApiKeyReducers))
    BY DEF ApiKeyCases, ApiKeyReducers
<1>5. SliceOk("customField", Slice(CustomFieldCalls, CustomFieldCases, NoReducers))
    BY DEF CustomFieldCases
<1>6. SliceOk("myWork", Slice(MyWorkCalls, MyWorkCases, NoReducers))
    BY DEF MyWorkCases
<1> HIDE DEF SliceOk, Slice, SliceOf, NoReducers, Local, LocalWith
<1> QED BY <1>1, <1>2, <1>3, <1>4, <1>5, <1>6
       DEF AdminStore

LEMMA LocalSlices == \A s \in DOMAIN LocalStore : SliceOk(s, LocalStore[s])
<1> USE DEF SliceOk, RereadOk, ReducerOk, RaisesNone, IdleCase, Lowers, LeavesFlagUp
<1>1. SliceOk("bookingScheduleGantt", BookingScheduleGanttLoad)
    BY DEF BookingScheduleGanttLoad
<1>2. SliceOk("envSubsystemHostsDialog", EnvSubsystemHostsDialogLoad)
    BY DEF EnvSubsystemHostsDialogLoad
<1>3. SliceOk("runbookTaskHistoryDialog", RunbookTaskHistoryDialogLoad)
    BY DEF RunbookTaskHistoryDialogLoad
<1>4. SliceOk("rollbackPanel", RollbackPanelLoads)
    BY DEF RollbackPanelLoads
<1>5. SliceOk("scopeHistoryDrawer", ScopeHistoryDrawerLoad)
    BY DEF ScopeHistoryDrawerLoad
<1>6. SliceOk("readinessBanner", ReadinessBannerLoad)
    BY DEF ReadinessBannerLoad
<1>7. SliceOk("topologyCanvas", TopologyCanvasLayout)
    BY DEF TopologyCanvasLayout
<1>8. SliceOk("groupTransitionPanel", GroupTransitionPanelLoads)
    BY DEF GroupTransitionPanelLoads
<1>9. SliceOk("contentionVerdict", ContentionVerdictLoad)
    BY DEF ContentionVerdictLoad
<1>10. SliceOk("environmentsPanel", EnvironmentsPanelLoad)
    BY DEF EnvironmentsPanelLoad
<1>11. SliceOk("handoverSection", HandoverSectionLoad)
    BY DEF HandoverSectionLoad
<1>12. SliceOk("decommissionPanel", DecommissionPanelLoad)
    BY DEF DecommissionPanelLoad
<1>13. SliceOk("healthAlertBanner", HealthAlertBannerLoad)
    BY DEF HealthAlertBannerLoad
<1>14. SliceOk("statTile", StatTileLoad)
    BY DEF StatTileLoad
<1>15. SliceOk("comingUpBookings", ComingUpBookingsLoad)
    BY DEF ComingUpBookingsLoad
<1>16. SliceOk("comingUpReleases", ComingUpReleasesLoad)
    BY DEF ComingUpReleasesLoad
<1>17. SliceOk("governanceGapLine", GovernanceGapLineLoads)
    BY DEF GovernanceGapLineLoads
<1>18. SliceOk("changeRequestDetail", ChangeRequestDetailLoad)
    BY DEF ChangeRequestDetailLoad
<1>19. SliceOk("environmentSchedule", EnvironmentScheduleLoad)
    BY DEF EnvironmentScheduleLoad
<1>20. SliceOk("escalationWorklist", EscalationWorklistLoad)
    BY DEF EscalationWorklistLoad
<1>21. SliceOk("pirActionList", PirActionListLoad)
    BY DEF PirActionListLoad
<1>22. SliceOk("conflictsPanel", ConflictsPanelLoad)
    BY DEF ConflictsPanelLoad
<1> HIDE DEF SliceOk, Slice, SliceOf, NoReducers, Local, LocalWith
<1> QED BY <1>1, <1>2, <1>3, <1>4, <1>5, <1>6, <1>7, <1>8, <1>9, <1>10, <1>11, <1>12, <1>13,
          <1>14, <1>15, <1>16, <1>17, <1>18, <1>19, <1>20, <1>21, <1>22
       DEF LocalStore

LEMMA OpenSlices == \A s \in DOMAIN OpenStore : SliceOk(s, OpenStore[s])
<1> USE DEF SliceOk, RereadOk, ReducerOk, RaisesNone, IdleCase, Lowers, LeavesFlagUp
<1>1. SliceOk("bookingDetail", BookingDetailLoad)
    BY DEF BookingDetailLoad
<1>2. SliceOk("bookingCalendar", BookingCalendarLoad)
    BY DEF BookingCalendarLoad
<1>3. SliceOk("bookingDrawer", BookingCalendarDrawer)
    BY DEF BookingCalendarDrawer
<1>4. SliceOk("environmentCompare", EnvironmentCompareLoad)
    BY DEF EnvironmentCompareLoad
<1>5. SliceOk("doraDashboard", DoraDashboardLoad)
    BY DEF DoraDashboardLoad
<1>6. SliceOk("healthDashboard", HealthDashboardLoad)
    BY DEF HealthDashboardLoad
<1>7. SliceOk("releaseAnalytics", ReleaseAnalyticsLoads)
    BY DEF ReleaseAnalyticsLoads
<1>8. SliceOk("deploymentDetail", DeploymentDetailLoad)
    BY DEF DeploymentDetailLoad
<1>9. SliceOk("componentDependencies", ComponentDependenciesLoad)
    BY DEF ComponentDependenciesLoad
<1>10. SliceOk("raidRollupTab", RaidRollupTabLoad)
    BY DEF RaidRollupTabLoad
<1>11. SliceOk("reportTab", ReportTabLoad)
    BY DEF ReportTabLoad
<1>12. SliceOk("scopeRollupTab", ScopeRollupTabLoad)
    BY DEF ScopeRollupTabLoad
<1>13. SliceOk("systemsRollupTab", SystemsRollupTabLoad)
    BY DEF SystemsRollupTabLoad
<1>14. SliceOk("timelineTab", TimelineTabLoad)
    BY DEF TimelineTabLoad
<1>15. SliceOk("enterpriseMembershipTab", EnterpriseMembershipTabLoad)
    BY DEF EnterpriseMembershipTabLoad
<1>16. SliceOk("releaseEnvironmentsTab", ReleaseEnvironmentsTabLoad)
    BY DEF ReleaseEnvironmentsTabLoad
<1>17. SliceOk("releaseSystemsTab", ReleaseSystemsTabLoad)
    BY DEF ReleaseSystemsTabLoad
<1>18. SliceOk("releasePirTab", ReleasePirTabLoad)
    BY DEF ReleasePirTabLoad
<1>19. SliceOk("environmentHealthTab", EnvironmentHealthTabLoad)
    BY DEF EnvironmentHealthTabLoad
<1>20. SliceOk("operatingHoursTab", EnvironmentOperatingHoursTabLoads)
    BY DEF EnvironmentOperatingHoursTabLoads
<1>21. SliceOk("raidItemLinks", RaidItemDialogLinks)
    BY DEF RaidItemDialogLinks
<1>22. SliceOk("incidentFormSubsystems", IncidentFormSubsystems)
    BY DEF IncidentFormSubsystems
<1>23. SliceOk("bookingPreview", BookingFormPreview)
    BY DEF BookingFormPreview
<1>24. SliceOk("changeRequestPreviews", ChangeRequestFormPreviews)
    BY DEF ChangeRequestFormPreviews
<1>25. SliceOk("changeRequestEditPreview", ChangeRequestEditPreview)
    BY DEF ChangeRequestEditPreview
<1>26. SliceOk("requestAdmission", RequestAdmissionReleases)
    BY DEF RequestAdmissionReleases
<1>27. SliceOk("linkIncident", LinkIncidentLookups)
    BY DEF LinkIncidentLookups
<1>28. SliceOk("citeIncident", CiteIncidentList)
    BY DEF CiteIncidentList
<1> HIDE DEF SliceOk, Slice, SliceOf, NoReducers, Local, LocalWith
<1> QED BY <1>1, <1>2, <1>3, <1>4, <1>5, <1>6, <1>7, <1>8, <1>9, <1>10, <1>11, <1>12, <1>13,
          <1>14, <1>15, <1>16, <1>17, <1>18, <1>19, <1>20, <1>21, <1>22, <1>23, <1>24,
          <1>25, <1>26, <1>27, <1>28
       DEF OpenStore

LEMMA EverySlice == \A a \in DOMAIN Areas : \A s \in DOMAIN Areas[a] : SliceOk(s, Areas[a][s])
BY AreaNames, BookingSlices, EnvironmentSlices, ReleaseSlices, CatalogueSlices,
   AdminSlices, LocalSlices, OpenSlices

LEMMA OwnersTable ==
    \A a \in DOMAIN Areas : \A s \in DOMAIN Areas[a] : \A c \in KeptPerKey :
        c[1] = s => SliceOnly(Areas[a][s], c[2], AtOps)
<1> USE DEF SliceOnly, CaseOnly, OnlyOps, AtOps
<1>1. SliceOnly(Slice(CloseoutCalls, CloseoutCases, NoReducers), "byRelease", AtOps)
    BY DEF CloseoutCases
<1>2. SliceOnly(
                Slice(EnterpriseMembershipCalls, EnterpriseMembershipCases, NoReducers),
                "byEnterprise", AtOps)
    BY DEF EnterpriseMembershipCases
<1>3. SliceOnly(ReleaseSlice, "gateEvidenceByGate", AtOps)
    <2> DEFINE Ok(cases) == \A u \in DOMAIN cases :
                   CaseOnly(cases[u], "gateEvidenceByGate", AtOps)
    <2>1. Ok(ReleaseCases)
        BY DEF ReleaseCases
    <2>2. Ok(ReleasePhaseCases)
        BY DEF ReleasePhaseCases
    <2>3. Ok(ReleaseGateCases)
        BY DEF ReleaseGateCases
    <2>4. Ok(ReleaseScopeCases)
        BY DEF ReleaseScopeCases
    <2>5. \A r \in DOMAIN ReleaseReducers :
            OnlyOps(ReleaseReducers[r], "gateEvidenceByGate", AtOps)
        BY DEF ReleaseReducers
    <2> HIDE DEF CaseOnly
    <2> QED BY <2>1, <2>2, <2>3, <2>4, <2>5 DEF ReleaseSlice
<1>4. SliceOnly(
                Slice(BookingLifecycleCalls, BookingLifecycleCases, NoReducers),
                "templatesByEntity", AtOps)
    BY DEF BookingLifecycleCases
<1>5. SliceOnly(Slice(CustomFieldCalls, CustomFieldCases, NoReducers), "definitions", AtOps)
    BY DEF CustomFieldCases
<1>6. SliceOnly(Slice(BookingCalls, BookingCases, BookingReducers), "conflicts", AtOps)
    BY DEF BookingCases, BookingReducers
<1>7. SliceOnly(Slice(DeploymentCalls, DeploymentCases, NoReducers), "byBuild", AtOps)
    BY DEF DeploymentCases
<1>8. SliceOnly(Slice(RunbookCalls, RunbookCases, NoReducers), "byPlan", AtOps)
    BY DEF RunbookCases
<1>9. SliceOnly(Slice(RunbookCalls, RunbookCases, NoReducers), "plansByRelease", AtOps)
    BY DEF RunbookCases
<1> HIDE DEF SliceOnly, Slice, SliceOf, NoReducers
<1> QED BY <1>1, <1>2, <1>3, <1>4, <1>5, <1>6, <1>7, <1>8, <1>9, AreaNames
       DEF KeptPerKey, BookingStore, EnvironmentStore, ReleaseStore, CatalogueStore,
           AdminStore, LocalStore, OpenStore, ReleaseSlice

LEMMA NewestTable ==
    \A a \in DOMAIN Areas : \A s \in DOMAIN Areas[a] : \A c \in NewestWins :
        c[1] = s => ShownRow(s, Areas[a][s], c[2], c[3])
<1> USE DEF ShownRow, ShownCase, Keeps, KeepOps, OnlyOps, FlatOps, GuardFor, AbortsIn,
            GridDriven
<1>1. ShownRow("environment",
               SliceOf(<<EnvironmentCalls>>,
                       <<EnvironmentCases, EnvironmentRowCases>>,
                       NoReducers), "fetchEnvironments", "environments")
    BY DEF EnvironmentCases, EnvironmentRowCases
<1>2. ShownRow("booking",
               Slice(BookingCalls, BookingCases, BookingReducers),
               "fetchBookings", "bookings")
    BY DEF BookingCases, BookingReducers
<1>3. ShownRow("build", Slice(BuildCalls, BuildCases, NoReducers), "fetchBuilds", "items")
    BY DEF BuildCases
<1>4. ShownRow("changeRequest",
               Slice(ChangeRequestCalls, ChangeRequestCases, ChangeRequestReducers),
               "fetchChangeRequests", "list")
    BY DEF ChangeRequestCases, ChangeRequestReducers
<1>5. ShownRow("decommission",
               SliceOf(<<DecommissionCalls, DecommissionListCalls>>,
                       <<DecommissionCases>>,
                       NoReducers), "fetchDecommissionWorklist", "worklist")
    BY DEF DecommissionCases
<1>6. ShownRow("goNoGo",
               Slice(GoNoGoCalls, GoNoGoCases, NoReducers), "fetchDecisions", "decisions")
    BY DEF GoNoGoCases
<1>7. ShownRow("incidents",
               Slice(IncidentCalls, IncidentCases, IncidentReducers),
               "fetchIncidents", "list")
    BY DEF IncidentCases, IncidentReducers
<1>8. ShownRow("infrastructureComponent",
               Slice(HostCalls, HostCases, NoReducers),
               "fetchInfrastructureComponents", "components")
    BY DEF HostCases
<1>9. ShownRow("release", ReleaseSlice, "fetchReleases", "list")
    <2> DEFINE Ok(cases) == \A u \in DOMAIN cases :
                   ShownCase("release", "fetchReleases", "list", u, cases[u])
    <2>1. Ok(ReleaseCases)
        BY DEF ReleaseCases
    <2>2. Ok(ReleasePhaseCases)
        BY DEF ReleasePhaseCases
    <2>3. Ok(ReleaseGateCases)
        BY DEF ReleaseGateCases
    <2>4. Ok(ReleaseScopeCases)
        BY DEF ReleaseScopeCases
    <2>5. \A r \in DOMAIN ReleaseReducers : Keeps(ReleaseReducers[r], "list")
        BY DEF ReleaseReducers
    <2> HIDE DEF ShownCase
    <2> QED BY <2>1, <2>2, <2>3, <2>4, <2>5 DEF ReleaseSlice
<1>10. ShownRow("system",
                Slice(SystemCalls, SystemCases, NoReducers), "fetchSystems", "systems")
    BY DEF SystemCases
<1>11. ShownRow("contentionForecast",
                Slice(ContentionForecastCalls, ContentionForecastCases, NoReducers),
                "fetchContentionHorizon", "count")
    BY DEF ContentionForecastCases
<1>12. ShownRow("environmentGroup",
                Slice(EnvironmentGroupCalls, EnvironmentGroupCases, NoReducers),
                "fetchGroupsForEnvironment", "environmentGroups")
    BY DEF EnvironmentGroupCases
<1>13. ShownRow("bookingScheduleGantt", BookingScheduleGanttLoad, "load", "bookingsByEnv")
    BY DEF BookingScheduleGanttLoad
<1>14. ShownRow("envSubsystemHostsDialog", EnvSubsystemHostsDialogLoad, "load", "rows")
    BY DEF EnvSubsystemHostsDialogLoad
<1>15. ShownRow("runbookTaskHistoryDialog", RunbookTaskHistoryDialogLoad, "load", "events")
    BY DEF RunbookTaskHistoryDialogLoad
<1>16. ShownRow("rollbackPanel", RollbackPanelLoads, "systems", "systems")
    BY DEF RollbackPanelLoads
<1>17. ShownRow("readinessBanner", ReadinessBannerLoad, "load", "readiness")
    BY DEF ReadinessBannerLoad
<1>18. ShownRow("topologyCanvas", TopologyCanvasLayout, "load", "layout")
    BY DEF TopologyCanvasLayout
<1>19. ShownRow("groupTransitionPanel", GroupTransitionPanelLoads, "group", "transitions")
    BY DEF GroupTransitionPanelLoads
<1>20. ShownRow("environmentsPanel", EnvironmentsPanelLoad, "load", "transitionsByBooking")
    BY DEF EnvironmentsPanelLoad
<1>21. ShownRow("decommissionPanel", DecommissionPanelLoad, "load", "inOperatingTeam")
    BY DEF DecommissionPanelLoad
<1>22. ShownRow("statTile", StatTileLoad, "load", "count")
    BY DEF StatTileLoad
<1>23. ShownRow("changeRequestDetail", ChangeRequestDetailLoad, "load", "allowed")
    BY DEF ChangeRequestDetailLoad
<1>24. ShownRow("environmentSchedule", EnvironmentScheduleLoad, "load", "data")
    BY DEF EnvironmentScheduleLoad
<1>25. ShownRow("escalationWorklist", EscalationWorklistLoad, "load", "rows")
    BY DEF EscalationWorklistLoad
<1>26. ShownRow("pirActionList", PirActionListLoad, "load", "rows")
    BY DEF PirActionListLoad
<1>27. ShownRow("conflictsPanel", ConflictsPanelLoad, "load", "items")
    BY DEF ConflictsPanelLoad
<1> HIDE DEF ShownRow, Slice, SliceOf, NoReducers
<1> QED BY <1>1, <1>2, <1>3, <1>4, <1>5, <1>6, <1>7, <1>8, <1>9, <1>10, <1>11, <1>12, <1>13,
          <1>14, <1>15, <1>16, <1>17, <1>18, <1>19, <1>20, <1>21, <1>22, <1>23, <1>24,
          <1>25, <1>26, <1>27, AreaNames
       DEF NewestWins, BookingStore, EnvironmentStore, ReleaseStore, CatalogueStore,
           AdminStore, LocalStore, OpenStore, ReleaseSlice

LEMMA ErrorTable ==
    \A a \in DOMAIN Areas : \A s \in DOMAIN Areas[a] : \A c \in OwnError :
        c[1] = s => VisibleRow(s, Areas[a][s], c[2], c[3])
<1> USE DEF VisibleRow, VisibleCase, Without, ClearOps, Reports, GuardFor, AbortsIn,
            GridDriven
<1>1. VisibleRow("environmentGroup",
                 Slice(EnvironmentGroupCalls, EnvironmentGroupCases, NoReducers),
                 "fetchGroupsForEnvironment", "environmentGroupsError")
    BY DEF EnvironmentGroupCases
<1>2. VisibleRow("goNoGo",
                 Slice(GoNoGoCalls, GoNoGoCases, NoReducers), "fetchDecisions", "listError")
    BY DEF GoNoGoCases
<1>3. VisibleRow("decommission",
                 SliceOf(<<DecommissionCalls, DecommissionListCalls>>,
                         <<DecommissionCases>>,
                         NoReducers), "fetchDecommissionWorklist", "worklistError")
    <2> DEFINE Ok(cases) == \A u \in DOMAIN cases :
                   VisibleCase("decommission", "fetchDecommissionWorklist", "worklistError", u, cases[u])
    <2>1. Ok(DecommissionCases)
        BY DEF DecommissionCases
    <2> HIDE DEF VisibleCase
    <2> QED BY <2>1
<1>4. VisibleRow("decommission",
                 SliceOf(<<DecommissionCalls, DecommissionListCalls>>,
                         <<DecommissionCases>>,
                         NoReducers), "fetchDecommissionSteps", "stepsError")
    <2> DEFINE Ok(cases) == \A u \in DOMAIN cases :
                   VisibleCase("decommission", "fetchDecommissionSteps", "stepsError", u, cases[u])
    <2>1. Ok(DecommissionCases)
        BY DEF DecommissionCases
    <2> HIDE DEF VisibleCase
    <2> QED BY <2>1
<1>5. VisibleRow("decommission",
                 SliceOf(<<DecommissionCalls, DecommissionListCalls>>,
                         <<DecommissionCases>>,
                         NoReducers), "fetchAllDecommissionSteps", "adminStepsError")
    <2> DEFINE Ok(cases) == \A u \in DOMAIN cases :
                   VisibleCase("decommission", "fetchAllDecommissionSteps", "adminStepsError", u, cases[u])
    <2>1. Ok(DecommissionCases)
        BY DEF DecommissionCases
    <2> HIDE DEF VisibleCase
    <2> QED BY <2>1
<1>6. VisibleRow("rollback",
                 Slice(RollbackCalls, RollbackCases, NoReducers),
                 "fetchRollbackPlans", "plansError")
    BY DEF RollbackCases
<1>7. VisibleRow("rollback",
                 Slice(RollbackCalls, RollbackCases, NoReducers),
                 "fetchRollbackAuthorisations", "authorisationsError")
    BY DEF RollbackCases
<1>8. VisibleRow("rollback",
                 Slice(RollbackCalls, RollbackCases, NoReducers),
                 "fetchRehearsals", "rehearsalsError")
    BY DEF RollbackCases
<1>9. VisibleRow("runbook",
                 Slice(RunbookCalls, RunbookCases, NoReducers),
                 "fetchRunbooks", "listError")
    BY DEF RunbookCases
<1> HIDE DEF VisibleRow, Slice, SliceOf, NoReducers
<1> QED BY <1>1, <1>2, <1>3, <1>4, <1>5, <1>6, <1>7, <1>8, <1>9, AreaNames
       DEF OwnError, BookingStore, EnvironmentStore, ReleaseStore, CatalogueStore,
           AdminStore, LocalStore, OpenStore, ReleaseSlice

LEMMA GridTable ==
    \A a \in DOMAIN Areas : \A s \in DOMAIN Areas[a] : \A c \in GridPages :
        c[1] = s => SilentRow(s, Areas[a][s], c[2], c[3], c[4])
<1> USE DEF SilentRow, SilentCase, Without, ReportOps, AbortsIn, GridDriven
<1>1. SilentRow("environment",
                SliceOf(<<EnvironmentCalls>>,
                        <<EnvironmentCases, EnvironmentRowCases>>,
                        NoReducers), "fetchEnvironments", "listLoading", "error")
    BY DEF EnvironmentCases, EnvironmentRowCases
<1>2. SilentRow("booking",
                Slice(BookingCalls, BookingCases, BookingReducers),
                "fetchBookings", "listLoading", "error")
    BY DEF BookingCases, BookingReducers
<1>3. SilentRow("build",
                Slice(BuildCalls, BuildCases, NoReducers),
                "fetchBuilds", "listLoading", "error")
    BY DEF BuildCases
<1>4. SilentRow("changeRequest",
                Slice(ChangeRequestCalls, ChangeRequestCases, ChangeRequestReducers),
                "fetchChangeRequests", "listLoading", "error")
    BY DEF ChangeRequestCases, ChangeRequestReducers
<1>5. SilentRow("decommission",
                SliceOf(<<DecommissionCalls, DecommissionListCalls>>,
                        <<DecommissionCases>>,
                        NoReducers),
                "fetchDecommissionWorklist", "worklistLoading", "worklistError")
    BY DEF DecommissionCases
<1>6. SilentRow("deployment",
                Slice(DeploymentCalls, DeploymentCases, NoReducers),
                "fetchDeployments", "listLoading", "error")
    BY DEF DeploymentCases
<1>7. SilentRow("goNoGo",
                Slice(GoNoGoCalls, GoNoGoCases, NoReducers),
                "fetchDecisions", "listLoading", "listError")
    BY DEF GoNoGoCases
<1>8. SilentRow("incidents",
                Slice(IncidentCalls, IncidentCases, IncidentReducers),
                "fetchIncidents", "listLoading", "error")
    BY DEF IncidentCases, IncidentReducers
<1>9. SilentRow("infrastructureComponent",
                Slice(HostCalls, HostCases, NoReducers),
                "fetchInfrastructureComponents", "listLoading", "error")
    BY DEF HostCases
<1>10. SilentRow("release", ReleaseSlice, "fetchReleases", "listLoading", "error")
    <2> DEFINE Ok(cases) == \A u \in DOMAIN cases :
                   SilentCase("release", "fetchReleases", "listLoading", "error", u, cases[u])
    <2>1. Ok(ReleaseCases)
        BY DEF ReleaseCases
    <2>2. Ok(ReleasePhaseCases)
        BY DEF ReleasePhaseCases
    <2>3. Ok(ReleaseGateCases)
        BY DEF ReleaseGateCases
    <2>4. Ok(ReleaseScopeCases)
        BY DEF ReleaseScopeCases
    <2>5. \A r \in DOMAIN ReleaseReducers :
            Without(ReleaseReducers[r], "listLoading", {"down"})
            /\ Without(ReleaseReducers[r], "error", ReportOps)
        BY DEF ReleaseReducers
    <2> HIDE DEF SilentCase
    <2> QED BY <2>1, <2>2, <2>3, <2>4, <2>5 DEF ReleaseSlice
<1>11. SilentRow("system",
                 Slice(SystemCalls, SystemCases, NoReducers),
                 "fetchSystems", "listLoading", "error")
    BY DEF SystemCases
<1> HIDE DEF SilentRow, Slice, SliceOf, NoReducers
<1> QED BY <1>1, <1>2, <1>3, <1>4, <1>5, <1>6, <1>7, <1>8, <1>9, <1>10, <1>11, AreaNames
       DEF GridPages, BookingStore, EnvironmentStore, ReleaseStore, CatalogueStore,
           AdminStore, LocalStore, OpenStore, ReleaseSlice

LEMMA DetailTable ==
    \A a \in DOMAIN Areas : \A s \in DOMAIN Areas[a] : \A c \in DetailPages :
        c[1] = s => ReadsOpen(Areas[a][s], c[2])
<1> USE DEF ReadsOpen, OpensCase, Keeps, KeepOps, OnlyOps, Reads, Names, ReadKinds
<1>1. ReadsOpen(
                SliceOf(<<EnvironmentCalls>>,
                        <<EnvironmentCases, EnvironmentRowCases>>,
                        NoReducers), "currentEnvironment")
    BY DEF EnvironmentCalls, EnvironmentCases, EnvironmentRowCases
<1>2. ReadsOpen(Slice(SystemCalls, SystemCases, NoReducers), "currentSystem")
    BY DEF SystemCalls, SystemCases
<1>3. ReadsOpen(
                Slice(ChangeRequestCalls, ChangeRequestCases, ChangeRequestReducers),
                "detail")
    BY DEF ChangeRequestCalls, ChangeRequestCases, ChangeRequestReducers
<1>4. ReadsOpen(ReleaseSlice, "detail")
    <2> DEFINE Ok(cases) == \A u \in DOMAIN cases :
                   OpensCase(ReleaseSlice, u, cases[u], "detail")
    <2>r. Reads(ReleaseSlice, "fetchRelease")
        BY DEF ReleaseSlice, ReleaseCalls, ReleasePhaseCalls, ReleaseGateCalls, ReleaseScopeCalls
    <2> HIDE DEF Reads
    <2>1. Ok(ReleaseCases)
        BY <2>r DEF ReleaseCases
    <2>2. Ok(ReleasePhaseCases)
        BY DEF ReleasePhaseCases
    <2>3. Ok(ReleaseGateCases)
        BY DEF ReleaseGateCases
    <2>4. Ok(ReleaseScopeCases)
        BY DEF ReleaseScopeCases
    <2>5. \A r \in DOMAIN ReleaseReducers : Keeps(ReleaseReducers[r], "detail")
        BY DEF ReleaseReducers
    <2> HIDE DEF OpensCase
    <2> QED BY <2>1, <2>2, <2>3, <2>4, <2>5 DEF ReleaseSlice
<1>5. ReadsOpen(
                Slice(ReleaseTemplateCalls, ReleaseTemplateCases, ReleaseTemplateReducers),
                "detail")
    BY DEF ReleaseTemplateCalls, ReleaseTemplateCases, ReleaseTemplateReducers
<1>6. ReadsOpen(Slice(BookingCalls, BookingCases, BookingReducers), "selectedBooking")
    BY DEF BookingCalls, BookingCases, BookingReducers
<1> HIDE DEF ReadsOpen, Slice, SliceOf, NoReducers
<1> QED BY <1>1, <1>2, <1>3, <1>4, <1>5, <1>6, AreaNames
       DEF DetailPages, BookingStore, EnvironmentStore, ReleaseStore, CatalogueStore,
           AdminStore, LocalStore, OpenStore, ReleaseSlice

HIDE DEF Effect, Up, Down, NoErr, Err, NoErrAt, ErrAt, Wipe, Put, Add, Merge, Same, Forget,
         PutWith, PutAt, AddAt, MergeAt, CutAt, Drop, Case, Guarded, Rereading, Spins, Settles,
         Unseen, Cancelled, NoReducers, Slice, SliceOf, Local, LocalWith

(* ---- looking a handler up ---- *)

(* The slice as its table describes it.                                    *)
Raw == Areas[area][slice]
InPlace == area \in DOMAIN Areas /\ slice \in DOMAIN Areas[area]

LEMMA EntryFound ==
    ASSUME NEW parts, NEW t \in Names(parts)
    PROVE  \E i \in DOMAIN parts : t \in DOMAIN parts[i] /\ Entry(parts, t) = parts[i][t]
<1>1. \E i \in DOMAIN parts : t \in DOMAIN parts[i]
    BY DEF Names
<1> DEFINE i == CHOOSE j \in DOMAIN parts : t \in DOMAIN parts[j]
<1>2. i \in DOMAIN parts /\ t \in DOMAIN parts[i]
    BY <1>1
<1> QED BY <1>2 DEF Entry

LEMMA StoreIsRaw ==
    ASSUME InPlace
    PROVE  /\ Store.cases = Joined(Raw.cases)
           /\ Store.calls = Joined(Raw.calls)
           /\ Store.reducers = Raw.reducers
BY DEF InPlace, Store, Tables, Raw

(* An operation of the slice is in one of the parts of its table.          *)
LEMMA CaseFound ==
    ASSUME InPlace, NEW t \in DOMAIN Store.cases
    PROVE  \E i \in DOMAIN Raw.cases :
                t \in DOMAIN Raw.cases[i] /\ CaseOf(t) = Raw.cases[i][t]
<1>1. t \in Names(Raw.cases) /\ CaseOf(t) = Entry(Raw.cases, t)
    BY StoreIsRaw DEF Joined, CaseOf
<1> QED BY <1>1, EntryFound

LEMMA KindFound ==
    ASSUME InPlace, NEW t \in Names(Raw.calls)
    PROVE  \E i \in DOMAIN Raw.calls :
                t \in DOMAIN Raw.calls[i] /\ KindOf(t) = Raw.calls[i][t]
<1>1. KindOf(t) = Entry(Raw.calls, t)
    BY StoreIsRaw DEF Joined, KindOf
<1> QED BY <1>1, EntryFound

(* ---- the newest call ---- *)

LEMMA LargestIndex ==
    ASSUME NEW n \in Nat, NEW S \in SUBSET (1..n), S /= {}
    PROVE  \E i \in S : \A j \in S : j <= i
<1> DEFINE D == {n - i : i \in S}
<1>1. D \subseteq Nat
    OBVIOUS
<1>2. D /= {}
    <2>1. PICK i \in S : TRUE
        OBVIOUS
    <2>2. n - i \in D
        OBVIOUS
    <2> QED BY <2>2
<1>3. PICK d \in D : \A e \in D : ~(<<e, d>> \in OpToRel(<, Nat))
    BY <1>1, <1>2, NatLessThanWellFounded, WFMin
<1>4. \A e \in D : ~(e < d)
    BY <1>1, <1>3 DEF OpToRel
<1>5. PICK i \in S : d = n - i
    OBVIOUS
<1>6. ASSUME NEW j \in S PROVE j <= i
    BY <1>4, <1>5
<1> QED BY <1>6

Mine(cs, t) == {i \in DOMAIN cs : cs[i].t = t}
NewestOf(cs, t) ==
    IF Mine(cs, t) = {} THEN 0
    ELSE CHOOSE i \in Mine(cs, t) : \A j \in Mine(cs, t) : j <= i

LEMMA NewestIn ==
    ASSUME NEW t
    PROVE  Newest(t) = NewestOf(calls, t) /\ Newest(t)' = NewestOf(calls', t)
BY DEF Newest, NewestOf, Mine

LEMMA NewestOfIsLast ==
    ASSUME NEW C, NEW cs \in Seq(C), NEW t, Mine(cs, t) /= {}
    PROVE  /\ NewestOf(cs, t) \in DOMAIN cs
           /\ NewestOf(cs, t) >= 1
           /\ cs[NewestOf(cs, t)].t = t
           /\ \A j \in DOMAIN cs : cs[j].t = t => j <= NewestOf(cs, t)
           /\ \A i \in DOMAIN cs :
                (cs[i].t = t /\ \A j \in DOMAIN cs : cs[j].t = t => j <= i)
                    => i = NewestOf(cs, t)
<1>1. Len(cs) \in Nat /\ Mine(cs, t) \in SUBSET (1..Len(cs))
    BY DEF Mine
<1>2. \E i \in Mine(cs, t) : \A j \in Mine(cs, t) : j <= i
    BY <1>1, LargestIndex
<1>3. NewestOf(cs, t) \in Mine(cs, t) /\ \A j \in Mine(cs, t) : j <= NewestOf(cs, t)
    BY <1>2 DEF NewestOf
<1>4. NewestOf(cs, t) \in 1..Len(cs)
    BY <1>1, <1>3
<1>5. \A i \in Mine(cs, t) : (\A j \in Mine(cs, t) : j <= i) => i = NewestOf(cs, t)
    BY <1>1, <1>3
<1> QED BY <1>3, <1>4, <1>5 DEF Mine

(* The newest call of an operation, if it has one.                         *)
LEMMA NewestIsLast ==
    ASSUME NEW C, calls \in Seq(C), NEW t
    PROVE  /\ Newest(t) /= 0 => /\ Newest(t) \in DOMAIN calls
                                /\ calls[Newest(t)].t = t
           /\ \A i \in DOMAIN calls : calls[i].t = t => Newest(t) /= 0 /\ i <= Newest(t)
<1>1. CASE Mine(calls, t) = {}
    BY <1>1, NewestIn DEF NewestOf, Mine
<1>2. CASE Mine(calls, t) /= {}
    BY <1>2, NewestIn, NewestOfIsLast
<1> QED BY <1>1, <1>2

(* What a step does to the list of calls: every call keeps its operation   *)
(* and its key, and one may be added.                                      *)
Kept == \A i \in DOMAIN calls : /\ i \in DOMAIN calls'
                                /\ calls'[i].t = calls[i].t
                                /\ calls'[i].key = calls[i].key
Settled == DOMAIN calls' = DOMAIN calls /\ Kept
Grown(t, k) == /\ Len(calls') = Len(calls) + 1
               /\ calls'[Len(calls) + 1] = Call(t, k)
               /\ Kept

LEMMA NewestSettled ==
    ASSUME Settled, NEW u
    PROVE  Newest(u)' = Newest(u)
<1>1. Mine(calls', u) = Mine(calls, u)
    BY DEF Settled, Kept, Mine
<1>2. NewestOf(calls', u) = NewestOf(calls, u)
    BY <1>1 DEF NewestOf
<1> QED BY <1>2, NewestIn

LEMMA NewestGrown ==
    ASSUME NEW C, calls \in Seq(C), NEW D, calls' \in Seq(D), NEW t, NEW k, Grown(t, k)
    PROVE  /\ Newest(t)' = Len(calls) + 1
           /\ \A u : u /= t => Newest(u)' = Newest(u)
<1>1. DOMAIN calls' = 1..(Len(calls) + 1) /\ DOMAIN calls = 1..Len(calls) /\ Len(calls) \in Nat
    BY DEF Grown
<1>2. calls'[Len(calls) + 1].t = t
    BY DEF Grown, Call
<1>3. Len(calls) + 1 \in Mine(calls', t)
    BY <1>1, <1>2 DEF Mine
<1>4. Len(calls) + 1 = NewestOf(calls', t)
    <2>1. \A j \in DOMAIN calls' : j <= Len(calls) + 1
        BY <1>1
    <2> QED BY <1>1, <1>2, <1>3, <2>1, NewestOfIsLast
<1>5. ASSUME NEW u, u /= t PROVE Newest(u)' = Newest(u)
    <2>1. Mine(calls', u) = Mine(calls, u)
        BY <1>1, <1>2, <1>5 DEF Grown, Kept, Mine
    <2>2. NewestOf(calls', u) = NewestOf(calls, u)
        BY <2>1 DEF NewestOf
    <2> QED BY <2>2, NewestIn
<1> QED BY <1>4, <1>5, NewestIn

(* ---- what each action does to the calls ---- *)

Stages == {"inflight", "aborting", "aborted", "ok", "failed", "dropped"}
CallSet == [t : Players(cast), key : Slots, st : Stages]
CallsTyped == calls \in Seq(CallSet)

LEMMA MappedCalls ==
    ASSUME NEW C, NEW s \in Seq(C), NEW u, u = [i \in DOMAIN s |-> u[i]],
           \A i \in DOMAIN s : u[i] \in C
    PROVE  u \in Seq(C) /\ Len(u) = Len(s) /\ DOMAIN u = DOMAIN s
OBVIOUS

LEMMA StageSet ==
    ASSUME NEW c \in CallSet, NEW st \in Stages
    PROVE  LET d == [c EXCEPT !.st = st]
           IN  d \in CallSet /\ d.t = c.t /\ d.key = c.key /\ d.st = st
BY DEF CallSet

LEMMA AbortedCalls ==
    ASSUME CallsTyped, NEW t
    PROVE  /\ Abort(t) \in Seq(CallSet) /\ Len(Abort(t)) = Len(calls)
           /\ DOMAIN Abort(t) = DOMAIN calls
           /\ \A i \in DOMAIN calls :
                /\ Abort(t)[i].t = calls[i].t /\ Abort(t)[i].key = calls[i].key
                /\ Abort(t)[i].st = IF Aborts(t) /\ calls[i].t = t /\ calls[i].st = "inflight"
                                    THEN "aborting" ELSE calls[i].st
<1>1. \A i \in DOMAIN calls : calls[i] \in CallSet
    BY DEF CallsTyped
<1>2. "aborting" \in Stages
    BY DEF Stages
<1>3. ASSUME NEW i \in DOMAIN calls
      PROVE  /\ Abort(t)[i] \in CallSet
             /\ Abort(t)[i].t = calls[i].t /\ Abort(t)[i].key = calls[i].key
             /\ Abort(t)[i].st = IF Aborts(t) /\ calls[i].t = t /\ calls[i].st = "inflight"
                                 THEN "aborting" ELSE calls[i].st
    <2> DEFINE d == [calls[i] EXCEPT !.st = "aborting"]
    <2>1. d \in CallSet /\ d.t = calls[i].t /\ d.key = calls[i].key /\ d.st = "aborting"
        BY <1>1, <1>2, StageSet
    <2>2. Abort(t)[i] = IF Aborts(t) /\ calls[i].t = t /\ calls[i].st = "inflight"
                        THEN d ELSE calls[i]
        BY DEF Abort
    <2> HIDE DEF d
    <2> QED BY <1>1, <2>1, <2>2
<1>4. Abort(t) = [i \in DOMAIN calls |-> Abort(t)[i]]
    BY DEF Abort
<1>5. Abort(t) \in Seq(CallSet) /\ Len(Abort(t)) = Len(calls) /\ DOMAIN Abort(t) = DOMAIN calls
    BY <1>3, <1>4, MappedCalls DEF CallsTyped
<1> QED BY <1>3, <1>5

LEMMA AppendedCall ==
    ASSUME NEW s \in Seq(CallSet), NEW t \in Players(cast), NEW k \in Slots
    PROVE  LET u == Append(s, Call(t, k))
           IN  /\ u \in Seq(CallSet) /\ Len(u) = Len(s) + 1
               /\ u[Len(s) + 1] = Call(t, k)
               /\ \A i \in DOMAIN s : i \in DOMAIN u /\ u[i] = s[i]
<1>1. Call(t, k) \in CallSet
    BY DEF Call, CallSet, Stages
<1> HIDE DEF CallSet
<1> QED BY <1>1

LEMMA AskedKeys == ASSUME NEW kind PROVE KeysOf(kind) \subseteq Slots
BY DEF KeysOf, Slots

LEMMA DispatchCalls ==
    ASSUME CallsTyped, NEW t \in cast, NEW k \in Slots, Dispatch(t, k)
    PROVE  /\ calls' \in Seq(CallSet) /\ Grown(t, k)
           /\ \A i \in DOMAIN calls : calls'[i].st =
                IF Aborts(t) /\ calls[i].t = t /\ calls[i].st = "inflight"
                THEN "aborting" ELSE calls[i].st
<1>1. t \in Players(cast)
    BY DEF Players
<1>2. calls' = Append(Abort(t), Call(t, k))
    BY DEF Dispatch
<1> QED BY <1>1, <1>2, AbortedCalls, AppendedCall DEF Grown, Kept

(* The calls with one of them in another stage.                            *)
Restaged(i, st) == [calls EXCEPT ![i].st = st]

LEMMA StageChanged ==
    ASSUME CallsTyped, NEW i \in DOMAIN calls, NEW st \in Stages
    PROVE  LET s == Restaged(i, st)
           IN  /\ s \in Seq(CallSet) /\ Len(s) = Len(calls) /\ DOMAIN s = DOMAIN calls
               /\ \A j \in DOMAIN calls :
                    /\ s[j].t = calls[j].t /\ s[j].key = calls[j].key
                    /\ s[j].st = IF j = i THEN st ELSE calls[j].st
<1>1. \A j \in DOMAIN calls : calls[j] \in CallSet
    BY DEF CallsTyped
<1> DEFINE d == [calls[i] EXCEPT !.st = st]
           s == [calls EXCEPT ![i] = d]
<1>2. d \in CallSet /\ d.t = calls[i].t /\ d.key = calls[i].key /\ d.st = st
    BY <1>1, StageSet
<1>3. Restaged(i, st) = s
    BY DEF Restaged
<1> HIDE DEF d
<1>4. \A j \in DOMAIN calls : s[j] = (IF j = i THEN d ELSE calls[j])
    BY DEF CallsTyped
<1>5. s \in Seq(CallSet) /\ Len(s) = Len(calls) /\ DOMAIN s = DOMAIN calls
    <2>1. \A j \in DOMAIN calls : s[j] \in CallSet
        BY <1>1, <1>2, <1>4
    <2>2. s = [j \in DOMAIN calls |-> s[j]]
        BY DEF CallsTyped
    <2> QED BY <2>1, <2>2, MappedCalls DEF CallsTyped
<1> HIDE DEF s
<1> QED BY <1>2, <1>3, <1>4, <1>5

(* One call is settled.                                                    *)
Turned(i, st) ==
    /\ Settled
    /\ calls'[i].st = st
    /\ \A j \in DOMAIN calls : j /= i => calls'[j].st = calls[j].st

LEMMA TurnedCalls ==
    ASSUME CallsTyped, NEW i \in DOMAIN calls, NEW st \in Stages,
           calls' = Restaged(i, st)
    PROVE  calls' \in Seq(CallSet) /\ Turned(i, st)
BY StageChanged DEF Turned, Settled, Kept

LEMMA SettleCalls ==
    ASSUME CallsTyped, NEW i \in DOMAIN calls
    PROVE  /\ Fulfil(i) => calls' \in Seq(CallSet) /\ Turned(i, "ok")
           /\ Reject(i) => calls' \in Seq(CallSet) /\ Turned(i, "failed")
           /\ Aborted(i) => calls' \in Seq(CallSet) /\ Turned(i, "aborted")
<1>1. {"ok", "failed", "aborted"} \subseteq Stages
    BY DEF Stages
<1>2. /\ Fulfil(i) => calls' = Restaged(i, "ok")
      /\ Reject(i) => calls' = Restaged(i, "failed")
      /\ Aborted(i) => calls' = Restaged(i, "aborted")
    BY DEF Fulfil, Reject, Aborted, Restaged
<1> QED BY <1>1, <1>2, TurnedCalls

LEMMA RereadCalls ==
    ASSUME CallsTyped, NEW i \in DOMAIN calls, RejectAndReread(i),
           CaseOf(calls[i].t).then \in Players(cast)
    PROVE  /\ calls' \in Seq(CallSet)
           /\ Grown(CaseOf(calls[i].t).then, calls[i].key)
           /\ calls'[i].st = "failed"
           /\ \A j \in DOMAIN calls : j /= i => calls'[j].st = calls[j].st
<1> DEFINE s == Restaged(i, "failed")
           w == CaseOf(calls[i].t).then
<1>1. "failed" \in Stages
    BY DEF Stages
<1>2. /\ s \in Seq(CallSet) /\ Len(s) = Len(calls) /\ DOMAIN s = DOMAIN calls
      /\ \A j \in DOMAIN calls :
            /\ s[j].t = calls[j].t /\ s[j].key = calls[j].key
            /\ s[j].st = IF j = i THEN "failed" ELSE calls[j].st
    BY <1>1, StageChanged
<1>3. calls' = Append(s, Call(w, calls[i].key))
    BY DEF RejectAndReread, Restaged
<1>4. calls[i].key \in Slots
    <2>1. calls[i] \in CallSet
        BY DEF CallsTyped
    <2> QED BY <2>1 DEF CallSet
<1> HIDE DEF s, w
<1>5. w \in Players(cast)
    BY DEF w
<1>6. /\ calls' \in Seq(CallSet) /\ Len(calls') = Len(calls) + 1
      /\ calls'[Len(calls) + 1] = Call(w, calls[i].key)
      /\ \A j \in DOMAIN calls : j \in DOMAIN calls' /\ calls'[j] = s[j]
    BY <1>2, <1>3, <1>4, <1>5, AppendedCall
<1> QED BY <1>2, <1>6 DEF Grown, Kept, w

LEMMA ReduceCalls ==
    ASSUME CallsTyped, NEW r, Reduce(r)
    PROVE  /\ calls' \in Seq(CallSet) /\ Settled
           /\ \A i \in DOMAIN calls : calls'[i].st =
                IF calls[i].st = "inflight" /\ Drop(calls[i].t) \in Store.reducers[r]
                THEN "dropped" ELSE calls[i].st
<1>1. \A j \in DOMAIN calls : calls[j] \in CallSet
    BY DEF CallsTyped
<1>2. ASSUME NEW i \in DOMAIN calls
      PROVE  /\ calls'[i] \in CallSet
             /\ calls'[i].t = calls[i].t /\ calls'[i].key = calls[i].key
             /\ calls'[i].st = IF calls[i].st = "inflight" /\ Drop(calls[i].t) \in Store.reducers[r]
                               THEN "dropped" ELSE calls[i].st
    <2> DEFINE d == [calls[i] EXCEPT !.st = "dropped"]
    <2>1. d \in CallSet /\ d.t = calls[i].t /\ d.key = calls[i].key /\ d.st = "dropped"
        BY <1>1, StageSet DEF Stages
    <2>2. calls'[i] = IF calls[i].st = "inflight" /\ Drop(calls[i].t) \in Store.reducers[r]
                      THEN d ELSE calls[i]
        BY DEF Reduce
    <2> HIDE DEF d
    <2> QED BY <1>1, <2>1, <2>2
<1>3. calls' = [i \in DOMAIN calls |-> calls'[i]]
    BY DEF Reduce
<1>4. calls' \in Seq(CallSet) /\ DOMAIN calls' = DOMAIN calls
    BY <1>2, <1>3, MappedCalls DEF CallsTyped
<1> QED BY <1>2, <1>4 DEF Settled, Kept

LEMMA LeaveCalls ==
    ASSUME CallsTyped, NEW t, Leave(t)
    PROVE  /\ calls' \in Seq(CallSet) /\ Settled
           /\ \A i \in DOMAIN calls : calls'[i].st =
                IF calls[i].t = t /\ calls[i].st = "inflight"
                THEN "aborting" ELSE calls[i].st
BY AbortedCalls DEF Leave, Settled, Kept

(* ---- the calls, for every slice ---- *)

LEMMA AbortsHere == ASSUME NEW t PROVE Aborts(t) = AbortsIn(slice, t)
BY DEF Aborts, AbortsIn

LEMMA CaseOk ==
    ASSUME InPlace, NEW t \in DOMAIN Store.cases
    PROVE  IdleCase(CaseOf(t)) /\ RereadOk(slice, Raw, CaseOf(t))
<1>1. SliceOk(slice, Raw)
    BY EverySlice DEF InPlace, Raw
<1> QED BY <1>1, CaseFound DEF SliceOk

AbortingIsGrid == \A i \in DOMAIN calls : calls[i].st = "aborting" => Aborts(calls[i].t)
OneRunning == \A i \in DOMAIN calls :
    (calls[i].st = "inflight" /\ Aborts(calls[i].t)) => i = Newest(calls[i].t)
(* Every call is one of the cast's, a page's aborted calls come from its   *)
(* grid, and a grid has at most one call in flight, its newest.            *)
CallsInv == /\ InPlace /\ cast \subseteq DOMAIN Store.cases
            /\ CallsTyped /\ AbortingIsGrid /\ OneRunning

LEMMA PlayersHaveCases ==
    ASSUME InPlace, cast \subseteq DOMAIN Store.cases
    PROVE  /\ Players(cast) \subseteq DOMAIN Store.cases
           /\ \A t \in Players(cast) : CaseOf(t).then /= "none" =>
                CaseOf(t).then \in Players(cast) /\ ~Aborts(CaseOf(t).then)
<1>1. DOMAIN Store.cases = Names(Raw.cases)
    BY StoreIsRaw DEF Joined
<1>2. ASSUME NEW t \in DOMAIN Store.cases, CaseOf(t).then /= "none"
      PROVE  /\ CaseOf(t).then \in DOMAIN Store.cases /\ ~Aborts(CaseOf(t).then)
             /\ CaseOf(CaseOf(t).then).then = "none"
    <2>1. /\ CaseOf(t).then \in DOMAIN Store.cases /\ ~Aborts(CaseOf(t).then)
          /\ \A i \in DOMAIN Raw.cases : CaseOf(t).then \in DOMAIN Raw.cases[i]
                => Raw.cases[i][CaseOf(t).then].then = "none"
        BY <1>1, <1>2, CaseOk, AbortsHere DEF RereadOk
    <2> QED BY <2>1, CaseFound
<1>3. \A t \in Players(cast) : t \in cast \/ \E u \in cast : t = CaseOf(u).then /\ t /= "none"
    BY DEF Players, CaseOf
<1>4. \A u \in cast : CaseOf(u).then /= "none" => CaseOf(u).then \in Players(cast)
    BY DEF Players, CaseOf
<1> QED BY <1>2, <1>3, <1>4

(* A behaviour stays with its slice and its cast.                          *)
LEMMA Frozen ==
    [Next]_vars => /\ area' = area /\ slice' = slice /\ cast' = cast
BY DEF Next, Dispatch, Fulfil, Reject, RejectAndReread, Aborted, Reduce, Leave, vars

LEMMA FrozenTables ==
    ASSUME area' = area, slice' = slice, cast' = cast
    PROVE  /\ Store' = Store /\ Raw' = Raw /\ InPlace' = InPlace
           /\ Players(cast)' = Players(cast) /\ CallSet' = CallSet
           /\ AllEffects(cast)' = AllEffects(cast)
           /\ \A t : /\ CaseOf(t)' = CaseOf(t) /\ KindOf(t)' = KindOf(t)
                     /\ Aborts(t)' = Aborts(t)
<1>1. Store' = Store /\ Raw' = Raw /\ InPlace' = InPlace
    BY DEF Store, Raw, InPlace
<1>2. Players(cast)' = Players(cast)
    BY <1>1 DEF Players
<1>3. AllEffects(cast)' = AllEffects(cast)
    BY <1>1, <1>2 DEF AllEffects
<1> QED BY <1>1, <1>2, <1>3 DEF CaseOf, KindOf, Aborts, CallSet

LEMMA CallsInitially == Init => CallsInv
<1> SUFFICES ASSUME Init PROVE CallsInv
    OBVIOUS
<1>1. InPlace /\ cast \subseteq DOMAIN Store.cases
    BY DEF Init, InPlace, Distinct
<1>2. CallsTyped /\ AbortingIsGrid /\ OneRunning
    BY DEF Init, CallsTyped, AbortingIsGrid, OneRunning
<1> QED BY <1>1, <1>2 DEF CallsInv

LEMMA CallParts ==
    ASSUME CallsTyped, NEW i \in DOMAIN calls
    PROVE  calls[i].t \in Players(cast) /\ calls[i].key \in Slots
<1>1. calls[i] \in CallSet
    BY DEF CallsTyped
<1> QED BY <1>1 DEF CallSet

LEMMA CallsPreserved == CallsInv /\ [Next]_vars => CallsInv'
<1> SUFFICES ASSUME CallsInv, [Next]_vars PROVE CallsInv'
    OBVIOUS
<1>0. /\ area' = area /\ slice' = slice /\ cast' = cast
      /\ InPlace' /\ (cast \subseteq DOMAIN Store.cases)' /\ CallSet' = CallSet
      /\ \A t : Aborts(t)' = Aborts(t)
    BY Frozen, FrozenTables DEF CallsInv
<1>t. CallsTyped /\ \A i \in DOMAIN calls : calls[i].t \in Players(cast)
    BY CallParts DEF CallsInv
<1> DEFINE Goal == calls' \in Seq(CallSet) /\ AbortingIsGrid' /\ OneRunning'
<1>1. ASSUME NEW t \in cast, NEW k \in KeysOf(KindOf(t)), Dispatch(t, k) PROVE Goal
    <2>1. k \in Slots
        BY AskedKeys
    <2>2. /\ calls' \in Seq(CallSet) /\ Grown(t, k)
          /\ \A i \in DOMAIN calls : calls'[i].st =
                IF Aborts(t) /\ calls[i].t = t /\ calls[i].st = "inflight"
                THEN "aborting" ELSE calls[i].st
        BY <1>t, <1>1, <2>1, DispatchCalls
    <2>3. /\ Newest(t)' = Len(calls) + 1
          /\ \A u : u /= t => Newest(u)' = Newest(u)
        BY <1>t, <2>2, NewestGrown DEF CallsTyped
    <2>4. /\ \A i \in DOMAIN calls' : i \in DOMAIN calls \/ i = Len(calls) + 1
          /\ calls'[Len(calls) + 1].t = t /\ calls'[Len(calls) + 1].st = "inflight"
          /\ \A i \in DOMAIN calls : calls'[i].t = calls[i].t
        BY <1>t, <2>2 DEF CallsTyped, Grown, Kept, Call
    <2>5. AbortingIsGrid'
        BY <1>0, <2>2, <2>4 DEF AbortingIsGrid, CallsInv
    <2>6. OneRunning'
        BY <1>0, <2>2, <2>3, <2>4 DEF OneRunning, CallsInv
    <2> QED BY <2>2, <2>5, <2>6
(* A step after which no call is in flight or being aborted that was not.  *)
<1>s. ASSUME calls' \in Seq(CallSet), Settled,
             \A i \in DOMAIN calls : /\ calls'[i].st = "inflight" => calls[i].st = "inflight"
                                     /\ calls'[i].st = "aborting" =>
                                            calls[i].st = "aborting" \/ Aborts(calls[i].t)
      PROVE  Goal
    <2>1. \A u : Newest(u)' = Newest(u)
        BY <1>s, NewestSettled
    <2>2. AbortingIsGrid'
        BY <1>0, <1>s DEF AbortingIsGrid, CallsInv, Settled, Kept
    <2>3. OneRunning'
        BY <1>0, <1>s, <2>1 DEF OneRunning, CallsInv, Settled, Kept
    <2> QED BY <1>s, <2>2, <2>3
<1>2. ASSUME NEW i \in DOMAIN calls, Fulfil(i) \/ Reject(i) \/ Aborted(i) PROVE Goal
    <2>1. calls' \in Seq(CallSet) /\ \E st \in {"ok", "failed", "aborted"} : Turned(i, st)
        BY <1>t, <1>2, SettleCalls
    <2> QED BY <1>s, <2>1 DEF Turned
<1>3. ASSUME NEW i \in DOMAIN calls, RejectAndReread(i) PROVE Goal
    <2> DEFINE w == CaseOf(calls[i].t).then
               k == calls[i].key
    <2>1. w \in Players(cast) /\ ~Aborts(w)
        BY <1>t, <1>3, PlayersHaveCases DEF RejectAndReread, CallsInv
    <2>2. /\ calls' \in Seq(CallSet) /\ Grown(w, k)
          /\ calls'[i].st = "failed"
          /\ \A j \in DOMAIN calls : j /= i => calls'[j].st = calls[j].st
        BY <1>t, <1>3, <2>1, RereadCalls
    <2> HIDE DEF w, k
    <2>3. \A u : u /= w => Newest(u)' = Newest(u)
        BY <1>t, <2>2, NewestGrown DEF CallsTyped
    <2>4. /\ \A j \in DOMAIN calls' : j \in DOMAIN calls \/ j = Len(calls) + 1
          /\ calls'[Len(calls) + 1].t = w /\ calls'[Len(calls) + 1].st = "inflight"
          /\ \A j \in DOMAIN calls : calls'[j].t = calls[j].t
        BY <1>t, <2>2 DEF CallsTyped, Grown, Kept, Call
    <2>5. AbortingIsGrid'
        BY <1>0, <2>2, <2>4 DEF AbortingIsGrid, CallsInv
    <2>6. OneRunning'
        BY <1>0, <2>1, <2>2, <2>3, <2>4 DEF OneRunning, CallsInv
    <2> QED BY <2>2, <2>5, <2>6
<1>4. ASSUME NEW r, Reduce(r) PROVE Goal
    BY <1>t, <1>4, <1>s, ReduceCalls
<1>5. ASSUME NEW t, Leave(t) PROVE Goal
    BY <1>t, <1>5, <1>s, LeaveCalls DEF Leave
<1>6. ASSUME UNCHANGED vars PROVE Goal
    BY <1>t, <1>6, <1>s DEF vars, CallsTyped, Settled, Kept
<1>7. Goal
    BY <1>1, <1>2, <1>3, <1>4, <1>5, <1>6 DEF Next
<1> QED BY <1>0, <1>7 DEF CallsInv, CallsTyped

LEMMA CallsAlways == Spec => []CallsInv
BY CallsInitially, CallsPreserved, PTL DEF Spec

(* ---- what a handler does to a field ---- *)

Value == [of : Slots \cup {"nothing"}, rows : SUBSET Slots]
LEMMA OnlyOpsJoin ==
    ASSUME NEW a, NEW b, NEW f, NEW ops, OnlyOps(a, f, ops), OnlyOps(b, f, ops)
    PROVE  OnlyOps(a \cup b, f, ops) /\ OnlyOps({}, f, ops)
BY DEF OnlyOps

(* Every step runs handlers of the slice, or none.                         *)
LEMMA StepEffects ==
    ASSUME CallsInv, [Next]_vars, NEW f, NEW ops, SliceOnly(Raw, f, ops)
    PROVE  \/ UNCHANGED <<data, flags, errs>>
           \/ \E es : \E k \in Slots : Run(es, k) /\ OnlyOps(es, f, ops)
<1> DEFINE Goal == \/ UNCHANGED <<data, flags, errs>>
                   \/ \E es : \E k \in Slots : Run(es, k) /\ OnlyOps(es, f, ops)
<1>0. /\ InPlace /\ Players(cast) \subseteq DOMAIN Store.cases
      /\ \A t \in Players(cast) : CaseOf(t).then /= "none" => CaseOf(t).then \in Players(cast)
      /\ \A i \in DOMAIN calls : calls[i].t \in Players(cast) /\ calls[i].key \in Slots
    BY PlayersHaveCases, CallParts DEF CallsInv
<1>c. ASSUME NEW t \in Players(cast) PROVE CaseOnly(CaseOf(t), f, ops)
    BY <1>0, CaseFound DEF SliceOnly
<1>e. OnlyOps({}, f, ops)
    BY DEF OnlyOps
<1>1. ASSUME NEW t \in cast, NEW k \in KeysOf(KindOf(t)), Dispatch(t, k) PROVE Goal
    <2>1. k \in Slots /\ t \in Players(cast)
        BY AskedKeys DEF Players
    <2> QED BY <1>1, <1>c, <2>1 DEF Dispatch, CaseOnly
<1>2. ASSUME NEW i \in DOMAIN calls, Fulfil(i) PROVE Goal
    BY <1>0, <1>2, <1>c, <1>e DEF Fulfil, CaseOnly
<1>3. ASSUME NEW i \in DOMAIN calls, Reject(i) PROVE Goal
    BY <1>0, <1>3, <1>c, <1>e DEF Reject, CaseOnly
<1>4. ASSUME NEW i \in DOMAIN calls, RejectAndReread(i) PROVE Goal
    <2> DEFINE es == CaseOf(CaseOf(calls[i].t).then).pending \cup CaseOf(calls[i].t).rejected
    <2>1. OnlyOps(es, f, ops)
        BY <1>0, <1>4, <1>c, OnlyOpsJoin DEF RejectAndReread, CaseOnly
    <2>2. Run(es, calls[i].key)
        BY <1>4 DEF RejectAndReread
    <2> HIDE DEF es
    <2> QED BY <1>0, <2>1, <2>2
<1>5. ASSUME NEW i \in DOMAIN calls, Aborted(i) PROVE Goal
    BY <1>0, <1>5, <1>c, <1>e DEF Aborted, CaseOnly
<1>6. ASSUME NEW r \in DOMAIN Store.reducers, Reduce(r) PROVE Goal
    <2>1. OnlyOps(Store.reducers[r], f, ops)
        BY <1>0, StoreIsRaw DEF SliceOnly
    <2>2. Whole \in Slots
        BY DEF Slots
    <2> QED BY <1>6, <2>1, <2>2 DEF Reduce
<1>7. ASSUME NEW t, Leave(t) PROVE Goal
    BY <1>7 DEF Leave
<1> QED BY <1>1, <1>2, <1>3, <1>4, <1>5, <1>6, <1>7 DEF Next, vars

(* What an operation on a field leaves in it.                              *)
LEMMA ValueTyped ==
    ASSUME NEW e, NEW d, NEW k \in Slots, e.op \in FlatOps \cup AtOps,
           d[e.f] \in [Slots -> Value]
    PROVE  NewValue(e, d, k) \in [Slots -> Value]
<1>1. Flat \in Slots
    BY DEF Slots
<1>2. Nothing \in Value /\ [of |-> k, rows |-> {k}] \in Value
    BY DEF Nothing, Value
<1>3. /\ [d[e.f][Flat] EXCEPT !.rows = @ \cup {k}] \in Value
      /\ [of |-> k, rows |-> d[e.f][k].rows \cup {k}] \in Value
    BY <1>1 DEF Value
<1> DEFINE u == [of |-> k, rows |-> {k}]
           v == [d[e.f][Flat] EXCEPT !.rows = @ \cup {k}]
           w == [of |-> k, rows |-> d[e.f][k].rows \cup {k}]
<1>4. NewValue(e, d, k) \in {[d[e.f] EXCEPT ![Flat] = Nothing], [d[e.f] EXCEPT ![Flat] = u],
                             [d[e.f] EXCEPT ![Flat] = v], d[e.f], [d[e.f] EXCEPT ![k] = u],
                             [d[e.f] EXCEPT ![k] = w], [d[e.f] EXCEPT ![k] = Nothing]}
    BY DEF NewValue, FlatOps, AtOps
<1> HIDE DEF u, v, w
<1>5. u \in Value /\ v \in Value /\ w \in Value
    BY <1>2, <1>3 DEF u, v, w
<1> QED BY <1>1, <1>2, <1>4, <1>5

LEMMA FieldAfter ==
    ASSUME NEW es, NEW k, Run(es, k)
    PROVE  /\ DOMAIN data' = DOMAIN data
           /\ \A f \in DOMAIN data :
                IF \E e \in es : e.f = f
                THEN \E e \in es : e.f = f /\ data'[f] = NewValue(e, data, k)
                ELSE data'[f] = data[f]
<1>1. data' = DataAfter(es, k)
    BY DEF Run
<1>2. DOMAIN data' = DOMAIN data
    BY <1>1 DEF DataAfter
<1>3. ASSUME NEW f \in DOMAIN data, \E e \in es : e.f = f
      PROVE  \E e \in es : e.f = f /\ data'[f] = NewValue(e, data, k)
    <2> DEFINE x == CHOOSE e \in es : e.f = f
    <2>1. x \in es /\ x.f = f
        BY <1>3
    <2>2. data'[f] = NewValue(x, data, k)
        BY <1>1, <1>3 DEF DataAfter
    <2> QED BY <2>1, <2>2
<1>4. ASSUME NEW f \in DOMAIN data, ~\E e \in es : e.f = f
      PROVE  data'[f] = data[f]
    BY <1>1, <1>4 DEF DataAfter
<1> QED BY <1>2, <1>3, <1>4

(* ---- fields kept per owner ---- *)

PerOwner(f) == f \in DOMAIN data => /\ data[f] \in [Slots -> Value]
                                    /\ \A s \in Slots : /\ data[f][s].of \in {s, "nothing"}
                                                        /\ data[f][s].rows \subseteq {s}

LEMMA PerOwnerInitially == ASSUME Init, NEW f PROVE PerOwner(f)
BY DEF Init, PerOwner, Value, Nothing

LEMMA PerOwnerPreserved ==
    ASSUME CallsInv, [Next]_vars, NEW f, SliceOnly(Raw, f, AtOps), PerOwner(f)
    PROVE  PerOwner(f)'
<1> SUFFICES ASSUME f \in DOMAIN data' PROVE PerOwner(f)'
    BY DEF PerOwner
<1>1. CASE UNCHANGED data
    BY <1>1 DEF PerOwner
<1>2. ASSUME NEW es, NEW k \in Slots, Run(es, k), OnlyOps(es, f, AtOps) PROVE PerOwner(f)'
    <2>1. f \in DOMAIN data
        BY <1>2, FieldAfter
    <2>2. CASE data'[f] = data[f]
        BY <2>1, <2>2 DEF PerOwner
    <2>3. ASSUME NEW e \in es, e.f = f, data'[f] = NewValue(e, data, k) PROVE PerOwner(f)'
        <3>1. e.op \in AtOps
            BY <1>2, <2>3 DEF OnlyOps
        <3>2. data'[f] \in [Slots -> Value]
            BY <2>1, <2>3, <3>1, ValueTyped DEF PerOwner
        <3>3. \/ data'[f] = data[f]
              \/ \E v \in {Nothing, [of |-> k, rows |-> {k}],
                           [of |-> k, rows |-> data[f][k].rows \cup {k}]} :
                    data'[f] = [data[f] EXCEPT ![k] = v]
            BY <2>3, <3>1 DEF NewValue, AtOps
        <3>4. ASSUME NEW s \in Slots
              PROVE  data'[f][s].of \in {s, "nothing"} /\ data'[f][s].rows \subseteq {s}
            BY <2>1, <3>3 DEF PerOwner, Nothing
        <3> QED BY <3>2, <3>4 DEF PerOwner
    <2> QED BY <1>2, <2>1, <2>2, <2>3, FieldAfter
<1> QED BY <1>1, <1>2, StepEffects

(* What is kept for one owner never holds rows of another, whatever order  *)
(* the answers come in: every handler of such a field writes under the key *)
(* of its own call.                                                        *)
THEOREM OwnersKeptApartHolds == Spec => []OwnersKeptApart
<1> DEFINE Inv == \A c \in KeptPerKey : c[1] = slice => PerOwner(c[2])
<1>1. Init => Inv
    BY PerOwnerInitially
<1>2. CallsInv /\ Inv /\ [Next]_vars => Inv'
    <2> SUFFICES ASSUME CallsInv, Inv, [Next]_vars, NEW c \in KeptPerKey, c[1] = slice'
                 PROVE  PerOwner(c[2])'
        OBVIOUS
    <2>1. c[1] = slice
        BY Frozen
    <2>2. SliceOnly(Raw, c[2], AtOps)
        BY <2>1, OwnersTable DEF CallsInv, InPlace, Raw
    <2> QED BY <2>1, <2>2, PerOwnerPreserved
<1>3. Inv => OwnersKeptApart
    BY DEF OwnersKeptApart, PerOwner
<1> QED BY <1>1, <1>2, <1>3, CallsAlways, PTL DEF Spec

(* ---- how calls and fields move in one step ---- *)

(* A settled call stays settled; one that is answered or refused in this   *)
(* step was in flight; a newest call changes only to one just dispatched.  *)
LEMMA CallSteps ==
    ASSUME CallsInv, [Next]_vars
    PROVE  /\ Kept
           /\ \A i \in DOMAIN calls :
                /\ calls[i].st \in {"ok", "failed"} => calls'[i].st = calls[i].st
                /\ calls'[i].st = "inflight" => calls[i].st = "inflight"
                /\ calls'[i].st = "ok" => calls[i].st = "ok" \/ Fulfil(i)
                /\ calls'[i].st = "failed" =>
                        calls[i].st = "failed" \/ Reject(i) \/ RejectAndReread(i)
           /\ \A t : \/ Newest(t)' = Newest(t)
                     \/ Newest(t)' \notin DOMAIN calls /\ calls'[Newest(t)'].st = "inflight"
<1> DEFINE Stays == \A i \in DOMAIN calls :
                /\ calls[i].st \in {"ok", "failed"} => calls'[i].st = calls[i].st
                /\ calls'[i].st = "inflight" => calls[i].st = "inflight"
                /\ calls'[i].st = "ok" => calls[i].st = "ok" \/ Fulfil(i)
                /\ calls'[i].st = "failed" =>
                        calls[i].st = "failed" \/ Reject(i) \/ RejectAndReread(i)
           Moves == \A t : \/ Newest(t)' = Newest(t)
                           \/ Newest(t)' \notin DOMAIN calls /\ calls'[Newest(t)'].st = "inflight"
           Goal == Kept /\ Stays /\ Moves
<1>0. CallsTyped
    BY DEF CallsInv
<1>g. ASSUME calls' \in Seq(CallSet), NEW t, NEW k, Grown(t, k) PROVE Moves
    <2>1. /\ Newest(t)' = Len(calls) + 1
          /\ \A u : u /= t => Newest(u)' = Newest(u)
        BY <1>0, <1>g, NewestGrown DEF CallsTyped
    <2>2. Len(calls) + 1 \notin DOMAIN calls /\ calls'[Len(calls) + 1].st = "inflight"
        BY <1>0, <1>g DEF CallsTyped, Grown, Call
    <2> QED BY <2>1, <2>2
<1>s. ASSUME Settled PROVE Kept /\ Moves
    BY <1>s, NewestSettled DEF Settled
<1>1. ASSUME NEW t \in cast, NEW k \in KeysOf(KindOf(t)), Dispatch(t, k) PROVE Goal
    <2>1. k \in Slots
        BY AskedKeys
    <2>2. /\ calls' \in Seq(CallSet) /\ Grown(t, k)
          /\ \A i \in DOMAIN calls : calls'[i].st =
                IF Aborts(t) /\ calls[i].t = t /\ calls[i].st = "inflight"
                THEN "aborting" ELSE calls[i].st
        BY <1>0, <1>1, <2>1, DispatchCalls
    <2> QED BY <1>g, <2>2 DEF Grown
<1>2. ASSUME NEW i \in DOMAIN calls, Fulfil(i) PROVE Goal
    <2>1. Turned(i, "ok") /\ calls[i].st = "inflight"
        BY <1>0, <1>2, SettleCalls DEF Fulfil, Running
    <2> QED BY <1>2, <1>s, <2>1 DEF Turned
<1>3. ASSUME NEW i \in DOMAIN calls, Reject(i) PROVE Goal
    <2>1. Turned(i, "failed") /\ calls[i].st = "inflight"
        BY <1>0, <1>3, SettleCalls DEF Reject, Running
    <2> QED BY <1>3, <1>s, <2>1 DEF Turned
<1>4. ASSUME NEW i \in DOMAIN calls, Aborted(i) PROVE Goal
    <2>1. Turned(i, "aborted") /\ calls[i].st = "aborting"
        BY <1>0, <1>4, SettleCalls DEF Aborted, Aborting
    <2> QED BY <1>4, <1>s, <2>1 DEF Turned
<1>5. ASSUME NEW i \in DOMAIN calls, RejectAndReread(i) PROVE Goal
    <2>1. CaseOf(calls[i].t).then \in Players(cast)
        BY <1>0, <1>5, PlayersHaveCases, CallParts DEF RejectAndReread, CallsInv
    <2>2. /\ calls' \in Seq(CallSet) /\ Grown(CaseOf(calls[i].t).then, calls[i].key)
          /\ calls'[i].st = "failed"
          /\ \A j \in DOMAIN calls : j /= i => calls'[j].st = calls[j].st
        BY <1>0, <1>5, <2>1, RereadCalls
    <2>3. calls[i].st = "inflight"
        BY <1>5 DEF RejectAndReread, Running
    <2> QED BY <1>5, <1>g, <2>2, <2>3 DEF Grown
<1>6. ASSUME NEW r, Reduce(r) PROVE Goal
    BY <1>0, <1>6, <1>s, ReduceCalls
<1>7. ASSUME NEW t, Leave(t) PROVE Goal
    BY <1>0, <1>7, <1>s, LeaveCalls
<1>8. ASSUME UNCHANGED vars PROVE Goal
    BY <1>8, <1>s DEF vars, Settled, Kept
<1> QED BY <1>1, <1>2, <1>3, <1>4, <1>5, <1>6, <1>7, <1>8 DEF Next

(* The fields the cast can touch.                                          *)
DomainsInv == DOMAIN data = DataOf(AllEffects(cast)) /\ DOMAIN errs = ErrsOf(AllEffects(cast))

LEMMA DomainsAlways == Spec => []DomainsInv
<1>1. Init => DomainsInv
    BY DEF Init, DomainsInv
<1>2. DomainsInv /\ [Next]_vars => DomainsInv'
    <2> SUFFICES ASSUME DomainsInv, [Next]_vars PROVE DomainsInv'
        OBVIOUS
    <2>1. AllEffects(cast)' = AllEffects(cast)
        BY Frozen, FrozenTables
    <2>2. (\E es, k : Run(es, k)) \/ UNCHANGED <<data, errs>>
        BY DEF Next, Dispatch, Fulfil, Reject, RejectAndReread, Aborted, Reduce, Leave, vars
    <2>3. DOMAIN data' = DOMAIN data /\ DOMAIN errs' = DOMAIN errs
        BY <2>2 DEF Run, DataAfter, ErrsAfter
    <2>4. DataOf(AllEffects(cast))' = DataOf(AllEffects(cast))
          /\ ErrsOf(AllEffects(cast))' = ErrsOf(AllEffects(cast))
        BY <2>1 DEF DataOf, ErrsOf
    <2> QED BY <2>3, <2>4 DEF DomainsInv
<1> QED BY <1>1, <1>2, PTL DEF Spec

LEMMA PlayersEffects ==
    ASSUME NEW t \in Players(cast)
    PROVE  /\ CaseOf(t).pending \subseteq AllEffects(cast)
           /\ CaseOf(t).fulfilled \subseteq AllEffects(cast)
           /\ CaseOf(t).rejected \subseteq AllEffects(cast)
<1> DEFINE H == {"pending", "fulfilled", "rejected"}
           X == {UNION {Store.cases[u][h] : h \in H} : u \in Players(cast)}
           Y == {Store.reducers[r] : r \in DOMAIN Store.reducers}
           M == UNION {Store.cases[t][h] : h \in H}
<1>1. AllEffects(cast) = UNION (X \cup Y)
    BY DEF AllEffects
<1>2. M \in X
    OBVIOUS
<1>3. \A h \in H : Store.cases[t][h] \subseteq M
    OBVIOUS
<1> HIDE DEF X, Y, M
<1>4. M \subseteq AllEffects(cast)
    BY <1>1, <1>2
<1> QED BY <1>3, <1>4 DEF CaseOf

(* ---- fields that hold one answer at a time ---- *)

TypedField(f) == f \in DOMAIN data => data[f] \in [Slots -> Value]

LEMMA TypedInitially == ASSUME Init, NEW f PROVE TypedField(f)
BY DEF Init, TypedField, Value, Nothing

LEMMA TypedPreserved ==
    ASSUME CallsInv, [Next]_vars, NEW f, SliceOnly(Raw, f, FlatOps), TypedField(f)
    PROVE  TypedField(f)'
<1> SUFFICES ASSUME f \in DOMAIN data' PROVE data'[f] \in [Slots -> Value]
    BY DEF TypedField
<1>1. CASE UNCHANGED data
    BY <1>1 DEF TypedField
<1>2. ASSUME NEW es, NEW k \in Slots, Run(es, k), OnlyOps(es, f, FlatOps)
      PROVE  data'[f] \in [Slots -> Value]
    BY <1>2, FieldAfter, ValueTyped DEF TypedField, OnlyOps
<1> QED BY <1>1, <1>2, StepEffects

LEMMA KeepsJoin ==
    ASSUME NEW a, NEW b, NEW f, Keeps(a, f), Keeps(b, f)
    PROVE  Keeps(a \cup b, f)
BY DEF Keeps

LEMMA KeepsNone == ASSUME NEW f PROVE Keeps({}, f)
BY DEF Keeps

LEMMA KeptField ==
    ASSUME NEW es, NEW k \in Slots, Run(es, k), NEW f \in DOMAIN data, Keeps(es, f),
           TypedField(f)
    PROVE  data'[f][Flat].of \in {data[f][Flat].of, "nothing"}
<1>1. data[f] \in [Slots -> Value] /\ Flat \in Slots
    BY DEF TypedField, Slots
<1>2. CASE data'[f] = data[f]
    BY <1>2
<1>3. ASSUME NEW e \in es, e.f = f, data'[f] = NewValue(e, data, k)
      PROVE  data'[f][Flat].of \in {data[f][Flat].of, "nothing"}
    <2>1. e.op \in KeepOps \/ (e.op = "same" /\ e.on = f)
        BY <1>3 DEF Keeps
    <2> DEFINE u == [of |-> k, rows |-> {k}]
               v == [data[f][Flat] EXCEPT !.rows = @ \cup {k}]
    <2>2. u.of = k /\ v.of = data[f][Flat].of /\ Nothing.of = "nothing"
        BY <1>1 DEF Value, Nothing
    <2>3. \/ data'[f] = data[f]
          \/ data'[f] = [data[f] EXCEPT ![Flat] = Nothing]
          \/ data'[f] = [data[f] EXCEPT ![Flat] = v]
          \/ data'[f] = [data[f] EXCEPT ![Flat] = u] /\ data[f][Flat].of = k
        BY <1>3, <2>1 DEF NewValue, KeepOps
    <2> HIDE DEF u, v
    <2> QED BY <1>1, <2>2, <2>3
<1> QED BY <1>2, <1>3, FieldAfter

LEMMA PutField ==
    ASSUME NEW es, NEW k \in Slots, Run(es, k), NEW f \in DOMAIN data, TypedField(f),
           OnlyOps(es, f, {"put"})
    PROVE  \/ data'[f] = data[f] /\ ~\E e \in es : e.f = f
           \/ data'[f][Flat].of = k
<1>1. data[f] \in [Slots -> Value] /\ Flat \in Slots
    BY DEF TypedField, Slots
<1>2. ASSUME NEW e \in es, e.f = f, data'[f] = NewValue(e, data, k)
      PROVE  data'[f][Flat].of = k
    <2>1. e.op = "put"
        BY <1>2 DEF OnlyOps
    <2>2. data'[f] = [data[f] EXCEPT ![Flat] = [of |-> k, rows |-> {k}]]
        BY <1>2, <2>1 DEF NewValue
    <2> QED BY <1>1, <2>2
<1> QED BY <1>2, FieldAfter

(* ---- what a detail page shows ---- *)

LEMMA OpensFlat == ASSUME NEW S, NEW f, ReadsOpen(S, f) PROVE SliceOnly(S, f, FlatOps)
BY DEF ReadsOpen, OpensCase, SliceOnly, CaseOnly, OnlyOps, Keeps, KeepOps, FlatOps

ReadGot(k) == \E i \in DOMAIN calls :
    calls[i].st = "ok" /\ calls[i].key = k /\ KindOf(calls[i].t) \in ReadKinds
Opened(f) == (f \in DOMAIN data /\ data[f][Flat].of /= "nothing") => ReadGot(data[f][Flat].of)

LEMMA OpenedPreserved ==
    ASSUME CallsInv, [Next]_vars, NEW f, ReadsOpen(Raw, f), TypedField(f), Opened(f)
    PROVE  Opened(f)'
<1> SUFFICES ASSUME f \in DOMAIN data', data'[f][Flat].of /= "nothing"
             PROVE  ReadGot(data[f][Flat].of)'
    BY DEF Opened
<1>0. /\ InPlace /\ Players(cast) \subseteq DOMAIN Store.cases
      /\ \A t \in Players(cast) : CaseOf(t).then /= "none" => CaseOf(t).then \in Players(cast)
      /\ \A i \in DOMAIN calls : calls[i].t \in Players(cast) /\ calls[i].key \in Slots
      /\ \A t : KindOf(t)' = KindOf(t)
    BY PlayersHaveCases, CallParts, Frozen, FrozenTables DEF CallsInv
<1>1. \A k : ReadGot(k) => ReadGot(k)'
    BY <1>0, CallSteps DEF ReadGot, Kept
<1>2. ASSUME UNCHANGED data PROVE ReadGot(data[f][Flat].of)'
    BY <1>1, <1>2 DEF Opened
<1>k. ASSUME NEW es, NEW k \in Slots, Run(es, k), Keeps(es, f) PROVE ReadGot(data[f][Flat].of)'
    <2>1. f \in DOMAIN data
        BY <1>k, FieldAfter
    <2>2. data'[f][Flat].of = data[f][Flat].of
        BY <1>k, <2>1, KeptField
    <2> QED BY <1>1, <2>1, <2>2 DEF Opened
<1>c. \A t \in Players(cast) : OpensCase(Raw, t, CaseOf(t), f)
    BY <1>0, CaseFound DEF ReadsOpen
<1>3. ASSUME NEW t \in cast, NEW k \in KeysOf(KindOf(t)), Dispatch(t, k)
      PROVE  ReadGot(data[f][Flat].of)'
    <2>1. k \in Slots /\ t \in Players(cast)
        BY AskedKeys DEF Players
    <2> QED BY <1>3, <1>k, <1>c, <2>1 DEF Dispatch, OpensCase
<1>4. ASSUME NEW i \in DOMAIN calls, Fulfil(i) PROVE ReadGot(data[f][Flat].of)'
    <2> DEFINE c == CaseOf(calls[i].t)
    <2>1. CASE ~Heard(i) \/ Keeps(c.fulfilled, f)
        BY <1>0, <1>4, <1>k, <2>1, KeepsNone DEF Fulfil
    <2>2. CASE Heard(i) /\ OnlyOps(c.fulfilled, f, {"put"}) /\ Reads(Raw, calls[i].t)
        <3>1. Run(c.fulfilled, calls[i].key)
            BY <1>4, <2>2 DEF Fulfil
        <3>2. f \in DOMAIN data
            BY <3>1, FieldAfter
        <3>3. KindOf(calls[i].t) \in ReadKinds
            BY <1>0, <2>2, KindFound DEF Reads
        <3>4. Turned(i, "ok")
            BY <1>4, SettleCalls DEF CallsInv
        <3>5. ReadGot(calls[i].key)'
            BY <1>0, <3>3, <3>4 DEF ReadGot, Turned, Settled, Kept
        <3>6. data'[f] = data[f] \/ data'[f][Flat].of = calls'[i].key
            BY <1>0, <2>2, <3>1, <3>2, <3>4, PutField DEF Turned, Settled, Kept
        <3> QED BY <1>1, <3>2, <3>5, <3>6 DEF Opened
    <2> QED BY <1>0, <1>c, <2>1, <2>2 DEF OpensCase
<1>5. ASSUME NEW i \in DOMAIN calls, Reject(i) \/ Aborted(i) PROVE ReadGot(data[f][Flat].of)'
    <2>1. Keeps(CaseOf(calls[i].t).rejected, f)
        BY <1>0, <1>c DEF OpensCase
    <2> QED BY <1>0, <1>5, <1>k, <2>1, KeepsNone DEF Reject, Aborted
<1>6. ASSUME NEW i \in DOMAIN calls, RejectAndReread(i) PROVE ReadGot(data[f][Flat].of)'
    <2> DEFINE es == CaseOf(CaseOf(calls[i].t).then).pending \cup CaseOf(calls[i].t).rejected
    <2>1. Keeps(es, f)
        BY <1>0, <1>6, <1>c, KeepsJoin DEF RejectAndReread, OpensCase
    <2>2. Run(es, calls[i].key)
        BY <1>6 DEF RejectAndReread
    <2> HIDE DEF es
    <2> QED BY <1>0, <1>k, <2>1, <2>2
<1>7. ASSUME NEW r \in DOMAIN Store.reducers, Reduce(r) PROVE ReadGot(data[f][Flat].of)'
    <2>1. Keeps(Store.reducers[r], f) /\ Whole \in Slots
        BY <1>0, StoreIsRaw DEF ReadsOpen, Slots
    <2> QED BY <1>7, <1>k, <2>1 DEF Reduce
<1>8. ASSUME NEW t, Leave(t) PROVE ReadGot(data[f][Flat].of)'
    BY <1>2, <1>8 DEF Leave
<1> QED BY <1>2, <1>3, <1>4, <1>5, <1>6, <1>7, <1>8 DEF Next, vars

(* The item a detail page shows is one a read asked for and received: the  *)
(* handlers of a write replace an item only by itself.                     *)
THEOREM WritesNeverOpenHolds == Spec => []WritesNeverOpen
<1> DEFINE Inv == \A c \in DetailPages : c[1] = slice => TypedField(c[2]) /\ Opened(c[2])
<1>1. Init => Inv
    BY TypedInitially DEF Init, Opened, Nothing, Slots
<1>2. CallsInv /\ Inv /\ [Next]_vars => Inv'
    <2> SUFFICES ASSUME CallsInv, Inv, [Next]_vars, NEW c \in DetailPages, c[1] = slice'
                 PROVE  TypedField(c[2])' /\ Opened(c[2])'
        OBVIOUS
    <2>1. c[1] = slice
        BY Frozen
    <2>2. ReadsOpen(Raw, c[2])
        BY <2>1, DetailTable DEF CallsInv, InPlace, Raw
    <2> QED BY <2>1, <2>2, OpensFlat, TypedPreserved, OpenedPreserved
<1>3. Inv => WritesNeverOpen
    BY DEF WritesNeverOpen, Opened, ReadGot
<1> QED BY <1>1, <1>2, <1>3, CallsAlways, PTL DEF Spec

(* ---- reads whose newest question wins ---- *)

LEMMA OvertakenUnheard ==
    ASSUME CallsInv, NEW i \in DOMAIN calls, calls[i].st = "inflight", i /= Newest(calls[i].t),
           CaseOf(calls[i].t).guard = GuardFor(slice, calls[i].t)
    PROVE  ~Heard(i)
BY AbortsHere DEF CallsInv, OneRunning, Heard, GuardFor

LEMMA AbortUnheard ==
    ASSUME CallsInv, NEW i \in DOMAIN calls, Aborted(i),
           CaseOf(calls[i].t).guard = GuardFor(slice, calls[i].t)
    PROVE  Run({}, calls[i].key)
BY AbortsHere DEF CallsInv, AbortingIsGrid, Aborted, Aborting, GuardFor

LEMMA PutLands ==
    ASSUME DomainsInv, NEW t \in Players(cast), NEW f, Put(f) \in CaseOf(t).fulfilled
    PROVE  f \in DOMAIN data
<1>1. Put(f) \in AllEffects(cast)
    BY PlayersEffects
<1>2. Put(f).op = "put" /\ Put(f).f = f
    BY DEF Put, Effect
<1> QED BY <1>1, <1>2 DEF DomainsInv, DataOf, FlagOps, ErrOps

LEMMA ShownFlat == ASSUME NEW s, NEW S, NEW t, NEW f, ShownRow(s, S, t, f)
                   PROVE  SliceOnly(S, f, FlatOps)
BY DEF ShownRow, ShownCase, SliceOnly, CaseOnly, OnlyOps, Keeps, KeepOps, FlatOps

Answered(t) == Newest(t) /= 0 /\ calls[Newest(t)].st = "ok"
Shown(t, f) == Answered(t) => /\ f \in DOMAIN data
                              /\ data[f][Flat].of \in {calls[Newest(t)].key, "nothing"}

LEMMA ShownPreserved ==
    ASSUME CallsInv, DomainsInv, [Next]_vars, NEW t, NEW f, ShownRow(slice, Raw, t, f),
           TypedField(f), Shown(t, f)
    PROVE  Shown(t, f)'
<1> SUFFICES ASSUME Answered(t)' PROVE Shown(t, f)'
    BY DEF Shown
<1> DEFINE n == Newest(t)
<1>0. /\ InPlace /\ Players(cast) \subseteq DOMAIN Store.cases /\ CallsTyped
      /\ \A u \in Players(cast) : CaseOf(u).then /= "none" => CaseOf(u).then \in Players(cast)
      /\ \A i \in DOMAIN calls : calls[i].t \in Players(cast) /\ calls[i].key \in Slots
    BY PlayersHaveCases, CallParts DEF CallsInv
<1>c. \A u \in Players(cast) : ShownCase(slice, t, f, u, CaseOf(u))
    BY <1>0, CaseFound DEF ShownRow
<1>1. Newest(t)' = n /\ n /= 0
    BY CallSteps DEF Answered
<1>2. n \in DOMAIN calls /\ calls[n].t = t
    BY <1>0, <1>1, NewestIsLast DEF CallsTyped
<1>3. calls'[n].st = "ok" /\ calls'[n].key = calls[n].key
    BY <1>1, <1>2, CallSteps DEF Answered, Kept
<1> HIDE DEF n
<1>4. CASE Fulfil(n)
    <2>1. Heard(n)
        BY <1>2 DEF Heard, n
    <2>2. Run(CaseOf(t).fulfilled, calls[n].key)
        BY <1>2, <1>4, <2>1 DEF Fulfil
    <2>3. Put(f) \in CaseOf(t).fulfilled /\ OnlyOps(CaseOf(t).fulfilled, f, {"put"})
        BY <1>0, <1>2, <1>c DEF ShownCase
    <2>4. f \in DOMAIN data /\ Put(f).f = f
        BY <1>0, <1>2, <2>3, PutLands DEF Put, Effect
    <2>5. data'[f][Flat].of = calls[n].key /\ f \in DOMAIN data'
        BY <1>0, <1>2, <2>2, <2>3, <2>4, PutField, FieldAfter
    <2> QED BY <1>1, <1>3, <2>5 DEF Shown
<1>5. CASE calls[n].st = "ok"
    <2>1. f \in DOMAIN data /\ data[f][Flat].of \in {calls[n].key, "nothing"}
        BY <1>1, <1>5 DEF Shown, Answered, n
    <2>2. ASSUME UNCHANGED data PROVE Shown(t, f)'
        BY <1>1, <1>3, <2>1, <2>2 DEF Shown
    <2>k. ASSUME NEW es, NEW k \in Slots, Run(es, k), Keeps(es, f) PROVE Shown(t, f)'
        BY <1>1, <1>3, <2>1, <2>k, KeptField, FieldAfter DEF Shown
    <2>o. ASSUME NEW i \in DOMAIN calls, calls[i].st = "inflight", calls[i].t = t PROVE ~Heard(i)
        BY <1>0, <1>c, <1>5, <2>o, OvertakenUnheard DEF ShownCase, n
    <2>3. ASSUME NEW u \in cast, NEW k \in KeysOf(KindOf(u)), Dispatch(u, k) PROVE Shown(t, f)'
        <3>1. k \in Slots /\ u \in Players(cast)
            BY AskedKeys DEF Players
        <3> QED BY <2>3, <2>k, <1>c, <3>1 DEF Dispatch, ShownCase
    <2>4. ASSUME NEW i \in DOMAIN calls, Fulfil(i) PROVE Shown(t, f)'
        <3>1. ~Heard(i) \/ Keeps(CaseOf(calls[i].t).fulfilled, f)
            BY <1>0, <1>c, <2>4, <2>o DEF Fulfil, Running, ShownCase
        <3> QED BY <1>0, <2>4, <2>k, <3>1, KeepsNone DEF Fulfil
    <2>5. ASSUME NEW i \in DOMAIN calls, Reject(i) PROVE Shown(t, f)'
        <3>1. ~Heard(i) \/ Keeps(CaseOf(calls[i].t).rejected, f)
            BY <1>0, <1>c, <2>5, <2>o DEF Reject, Running, ShownCase
        <3> QED BY <1>0, <2>5, <2>k, <3>1, KeepsNone DEF Reject
    <2>6. ASSUME NEW i \in DOMAIN calls, RejectAndReread(i) PROVE Shown(t, f)'
        <3> DEFINE es == CaseOf(CaseOf(calls[i].t).then).pending \cup CaseOf(calls[i].t).rejected
        <3>1. calls[i].t /= t /\ CaseOf(calls[i].t).then \in Players(cast)
            BY <1>0, <1>c, <2>6 DEF RejectAndReread, ShownCase
        <3>2. Keeps(es, f)
            BY <1>0, <1>c, <3>1, KeepsJoin DEF ShownCase
        <3>3. Run(es, calls[i].key)
            BY <2>6 DEF RejectAndReread
        <3> HIDE DEF es
        <3> QED BY <1>0, <2>k, <3>2, <3>3
    <2>7. ASSUME NEW i \in DOMAIN calls, Aborted(i) PROVE Shown(t, f)'
        <3>1. CASE calls[i].t = t
            BY <1>0, <1>c, <2>7, <2>k, <3>1, AbortUnheard, KeepsNone DEF ShownCase
        <3>2. CASE calls[i].t /= t
            BY <1>0, <1>c, <2>7, <2>k, <3>2, KeepsNone DEF ShownCase, Aborted
        <3> QED BY <3>1, <3>2
    <2>8. ASSUME NEW r \in DOMAIN Store.reducers, Reduce(r) PROVE Shown(t, f)'
        <3>1. Keeps(Store.reducers[r], f) /\ Whole \in Slots
            BY <1>0, StoreIsRaw DEF ShownRow, Slots
        <3> QED BY <2>8, <2>k, <3>1 DEF Reduce
    <2>9. ASSUME NEW u, Leave(u) PROVE Shown(t, f)'
        BY <2>2, <2>9 DEF Leave
    <2> QED BY <2>2, <2>3, <2>4, <2>5, <2>6, <2>7, <2>8, <2>9 DEF Next, vars
<1> QED BY <1>2, <1>3, <1>4, <1>5, CallSteps

(* Once the newest question of such a read is answered the screen shows    *)
(* that answer: an older call was aborted, or is not heard.                *)
THEOREM NewestAnswerShownHolds == Spec => []NewestAnswerShown
<1> DEFINE Inv == \A c \in NewestWins : c[1] = slice => TypedField(c[3]) /\ Shown(c[2], c[3])
<1>1. Init => Inv
    <2> SUFFICES ASSUME Init, NEW t PROVE ~Answered(t)
        BY TypedInitially DEF Shown
    <2>1. Newest(t) = 0
        BY DEF Init, Newest
    <2> QED BY <2>1 DEF Answered
<1>2. CallsInv /\ DomainsInv /\ Inv /\ [Next]_vars => Inv'
    <2> SUFFICES ASSUME CallsInv, DomainsInv, Inv, [Next]_vars, NEW c \in NewestWins, c[1] = slice'
                 PROVE  TypedField(c[3])' /\ Shown(c[2], c[3])'
        OBVIOUS
    <2>1. c[1] = slice
        BY Frozen
    <2>2. ShownRow(slice, Raw, c[2], c[3])
        BY <2>1, NewestTable DEF CallsInv, InPlace, Raw
    <2> QED BY <2>1, <2>2, ShownFlat, TypedPreserved, ShownPreserved
<1>3. Inv => NewestAnswerShown
    BY DEF NewestAnswerShown, Shown, Answered
<1> QED BY <1>1, <1>2, <1>3, CallsAlways, DomainsAlways, PTL DEF Spec

(* ---- errors ---- *)

LEMMA WithoutJoin ==
    ASSUME NEW a, NEW b, NEW f, NEW ops, Without(a, f, ops), Without(b, f, ops)
    PROVE  Without(a \cup b, f, ops)
BY DEF Without

LEMMA WithoutNone == ASSUME NEW f, NEW ops PROVE Without({}, f, ops)
BY DEF Without

LEMMA ErrorAfter ==
    ASSUME NEW es, NEW k, Run(es, k), NEW f \in DOMAIN errs
    PROVE  /\ f \in DOMAIN errs'
           /\ errs'[f] \subseteq errs[f] \cup {k}
           /\ Without(es, f, ReportOps) => errs'[f] \subseteq errs[f]
           /\ Without(es, f, ClearOps) => errs[f] \subseteq errs'[f] \/ errs'[f] = {k}
           /\ Without(es, f, ClearOps) /\ Reports(es, f) => errs'[f] /= {}
<1> DEFINE Has(op) == \E e \in es : e.op = op /\ e.f = f
<1>1. errs'[f] = CASE Has("noerr") -> {}
                   [] Has("err") -> {k}
                   [] Has("noerrat") -> errs[f] \ {k}
                   [] Has("errat") -> errs[f] \cup {k}
                   [] OTHER -> errs[f]
    BY DEF Run, ErrsAfter
<1>2. Without(es, f, ClearOps) => ~Has("noerr") /\ ~Has("noerrat")
    BY DEF Without, ClearOps
<1>3. Without(es, f, ReportOps) => ~Has("err") /\ ~Has("errat")
    BY DEF Without, ReportOps
<1>4. Reports(es, f) => Has("err") \/ Has("errat")
    BY DEF Reports, Err, ErrAt, Effect
<1>5. f \in DOMAIN errs'
    BY DEF Run, ErrsAfter
<1>6. \/ Has("noerr") /\ errs'[f] = {}
      \/ Has("err") /\ errs'[f] = {k}
      \/ Has("noerrat") /\ errs'[f] = errs[f] \ {k}
      \/ Has("errat") /\ errs'[f] = errs[f] \cup {k}
      \/ ~Has("err") /\ ~Has("errat") /\ errs'[f] = errs[f]
    BY <1>1
<1> HIDE DEF Has
<1> QED BY <1>2, <1>3, <1>4, <1>5, <1>6

LEMMA ErrorLands ==
    ASSUME DomainsInv, NEW t \in Players(cast), NEW f, Reports(CaseOf(t).rejected, f)
    PROVE  f \in DOMAIN errs
<1>1. PICK e \in {Err(f), ErrAt(f)} : e \in AllEffects(cast)
    BY PlayersEffects DEF Reports
<1>2. e.op \in ErrOps /\ e.f = f
    BY DEF Err, ErrAt, Effect, ErrOps
<1> QED BY <1>1, <1>2 DEF DomainsInv, ErrsOf

Failed(t) == Newest(t) /= 0 /\ calls[Newest(t)].st = "failed"
Visible(t, f) == Failed(t) => f \in DOMAIN errs /\ errs[f] /= {}

LEMMA VisiblePreserved ==
    ASSUME CallsInv, DomainsInv, [Next]_vars, NEW t, NEW f, VisibleRow(slice, Raw, t, f),
           Visible(t, f)
    PROVE  Visible(t, f)'
<1> SUFFICES ASSUME Failed(t)' PROVE Visible(t, f)'
    BY DEF Visible
<1> DEFINE n == Newest(t)
<1>0. /\ InPlace /\ Players(cast) \subseteq DOMAIN Store.cases /\ CallsTyped
      /\ \A u \in Players(cast) : CaseOf(u).then /= "none" => CaseOf(u).then \in Players(cast)
      /\ \A i \in DOMAIN calls : calls[i].t \in Players(cast) /\ calls[i].key \in Slots
    BY PlayersHaveCases, CallParts DEF CallsInv
<1>c. \A u \in Players(cast) : VisibleCase(slice, t, f, u, CaseOf(u))
    BY <1>0, CaseFound DEF VisibleRow
<1>1. Newest(t)' = n /\ n /= 0
    BY CallSteps DEF Failed
<1>2. n \in DOMAIN calls /\ calls[n].t = t
    BY <1>0, <1>1, NewestIsLast DEF CallsTyped
<1>3. calls'[n].st = "failed"
    BY <1>1 DEF Failed
<1> HIDE DEF n
<1>4. CASE Reject(n) \/ RejectAndReread(n)
    <2>1. Reject(n) /\ Heard(n)
        BY <1>0, <1>2, <1>4, <1>c DEF RejectAndReread, VisibleCase, Heard, n
    <2>2. Run(CaseOf(t).rejected, calls[n].key)
        BY <1>2, <2>1 DEF Reject
    <2>3. Reports(CaseOf(t).rejected, f) /\ Without(CaseOf(t).rejected, f, ClearOps)
        BY <1>0, <1>2, <1>c DEF VisibleCase
    <2>4. f \in DOMAIN errs
        BY <1>0, <1>2, <2>3, ErrorLands
    <2> QED BY <2>2, <2>3, <2>4, ErrorAfter DEF Visible
<1>5. CASE calls[n].st = "failed"
    <2>1. f \in DOMAIN errs /\ errs[f] /= {}
        BY <1>1, <1>5 DEF Visible, Failed, n
    <2>2. ASSUME UNCHANGED errs PROVE Visible(t, f)'
        BY <2>1, <2>2 DEF Visible
    <2>k. ASSUME NEW es, NEW k, Run(es, k), Without(es, f, ClearOps) PROVE Visible(t, f)'
        BY <2>1, <2>k, ErrorAfter DEF Visible
    <2>3. ASSUME NEW u \in cast, NEW k \in KeysOf(KindOf(u)), Dispatch(u, k) PROVE Visible(t, f)'
        <3>1. k \in Slots /\ u \in Players(cast)
            BY AskedKeys DEF Players
        <3>2. u /= t
            <4>1. calls' \in Seq(CallSet) /\ Grown(u, k)
                BY <1>0, <2>3, <3>1, DispatchCalls
            <4>2. Newest(u)' = Len(calls) + 1
                BY <1>0, <4>1, NewestGrown DEF CallsTyped
            <4> QED BY <1>0, <1>1, <1>2, <4>2 DEF CallsTyped
        <3> QED BY <2>3, <2>k, <1>c, <3>1, <3>2 DEF Dispatch, VisibleCase
    <2>4. ASSUME NEW i \in DOMAIN calls, Fulfil(i) PROVE Visible(t, f)'
        <3>1. calls[i].st = "inflight" /\ i /= n
            BY <1>5, <2>4 DEF Fulfil, Running
        <3>2. ~Heard(i) \/ Without(CaseOf(calls[i].t).fulfilled, f, ClearOps)
            BY <1>0, <1>c, <3>1, OvertakenUnheard DEF VisibleCase, n
        <3> QED BY <2>4, <2>k, <3>2, WithoutNone DEF Fulfil
    <2>5. ASSUME NEW i \in DOMAIN calls, Reject(i) \/ Aborted(i) PROVE Visible(t, f)'
        BY <1>0, <1>c, <2>5, <2>k, WithoutNone DEF Reject, Aborted, VisibleCase
    <2>6. ASSUME NEW i \in DOMAIN calls, RejectAndReread(i) PROVE Visible(t, f)'
        <3>1. PICK w \in Players(cast) : w = CaseOf(calls[i].t).then
            BY <1>0, <2>6 DEF RejectAndReread
        <3> DEFINE es == CaseOf(w).pending \cup CaseOf(calls[i].t).rejected
        <3>2. w /= t
            <4>1. calls' \in Seq(CallSet) /\ Grown(w, calls[i].key)
                BY <1>0, <2>6, <3>1, RereadCalls
            <4>2. Newest(w)' = Len(calls) + 1
                BY <1>0, <4>1, NewestGrown DEF CallsTyped
            <4> QED BY <1>0, <1>1, <1>2, <4>2 DEF CallsTyped
        <3>3. Without(es, f, ClearOps)
            BY <1>0, <1>c, <3>1, <3>2, WithoutJoin DEF VisibleCase
        <3>4. Run(es, calls[i].key)
            BY <2>6, <3>1 DEF RejectAndReread
        <3> HIDE DEF es
        <3> QED BY <2>k, <3>3, <3>4
    <2>7. ASSUME NEW r \in DOMAIN Store.reducers, Reduce(r) PROVE Visible(t, f)'
        <3>1. Without(Store.reducers[r], f, ClearOps)
            BY <1>0, StoreIsRaw DEF VisibleRow
        <3> QED BY <2>7, <2>k, <3>1 DEF Reduce
    <2>8. ASSUME NEW u, Leave(u) PROVE Visible(t, f)'
        BY <2>2, <2>8 DEF Leave
    <2> QED BY <2>2, <2>3, <2>4, <2>5, <2>6, <2>7, <2>8 DEF Next, vars
<1> QED BY <1>2, <1>3, <1>4, <1>5, CallSteps

(* When the newest such read failed its message stays on screen until the  *)
(* read is asked again: no other handler of the slice clears its error.    *)
THEOREM FailureStaysVisibleHolds == Spec => []FailureStaysVisible
<1> DEFINE Inv == \A c \in OwnError : c[1] = slice => Visible(c[2], c[3])
<1>1. Init => Inv
    <2> SUFFICES ASSUME Init, NEW t PROVE ~Failed(t)
        BY DEF Visible
    <2>1. Newest(t) = 0
        BY DEF Init, Newest
    <2> QED BY <2>1 DEF Failed
<1>2. CallsInv /\ DomainsInv /\ Inv /\ [Next]_vars => Inv'
    <2> SUFFICES ASSUME CallsInv, DomainsInv, Inv, [Next]_vars, NEW c \in OwnError, c[1] = slice'
                 PROVE  Visible(c[2], c[3])'
        OBVIOUS
    <2>1. c[1] = slice
        BY Frozen
    <2>2. VisibleRow(slice, Raw, c[2], c[3])
        BY <2>1, ErrorTable DEF CallsInv, InPlace, Raw
    <2> QED BY <2>1, <2>2, VisiblePreserved
<1>3. Inv => FailureStaysVisible
    BY DEF FailureStaysVisible, Visible, Failed
<1> QED BY <1>1, <1>2, <1>3, CallsAlways, DomainsAlways, PTL DEF Spec

(* ---- flags and list pages ---- *)

Raises(es, f) == \E e \in es : e.op = "up" /\ e.f = f

LEMMA FlagAfter ==
    ASSUME NEW es, NEW k, Run(es, k), NEW f
    PROVE  /\ Without(es, f, {"down"}) /\ (f \in flags \/ Up(f) \in es) => f \in flags'
           /\ f \in flags' => (f \in flags \/ Raises(es, f)) /\ ~Lowers(es, f)
<1>1. f \in flags' <=> /\ f \in flags \/ Raises(es, f)
                       /\ ~\E e \in es : e.op = "down" /\ e.f = f
    BY DEF Run, FlagsAfter, Raises
<1>2. Up(f).op = "up" /\ Up(f).f = f /\ Down(f).op = "down" /\ Down(f).f = f
    BY DEF Up, Down, Effect
<1> QED BY <1>1, <1>2 DEF Without, Lowers, Raises

Asking(t) == Newest(t) /= 0 /\ calls[Newest(t)].st = "inflight"
Spinning(t, fl) == Asking(t) => fl \in flags
FailedFor(k) == \E i \in DOMAIN calls : calls[i].key = k /\ calls[i].st = "failed"
Honest(er) == er \in DOMAIN errs /\ \A k \in errs[er] : FailedFor(k)

LEMMA SpinningPreserved ==
    ASSUME CallsInv, [Next]_vars, NEW t, NEW fl, NEW er, SilentRow(slice, Raw, t, fl, er),
           Spinning(t, fl)
    PROVE  Spinning(t, fl)'
<1> SUFFICES ASSUME Asking(t)' PROVE fl \in flags'
    BY DEF Spinning
<1>0. /\ InPlace /\ Players(cast) \subseteq DOMAIN Store.cases /\ CallsTyped
      /\ \A u \in Players(cast) : CaseOf(u).then /= "none" =>
            CaseOf(u).then \in Players(cast) /\ ~Aborts(CaseOf(u).then)
      /\ \A i \in DOMAIN calls : calls[i].t \in Players(cast) /\ calls[i].key \in Slots
      /\ Aborts(t)
    BY PlayersHaveCases, CallParts, AbortsHere DEF CallsInv, SilentRow
<1>c. \A u \in Players(cast) : SilentCase(slice, t, fl, er, u, CaseOf(u))
    BY <1>0, CaseFound DEF SilentRow
(* A step that leaves the newest question as it is.                        *)
<1>k. ASSUME Newest(t)' = Newest(t), NEW es, NEW k, Run(es, k), Without(es, fl, {"down"})
      PROVE  fl \in flags'
    <2>1. Asking(t)
        <3>1. Newest(t) \in DOMAIN calls
            BY <1>0, <1>k, NewestIsLast DEF Asking, CallsTyped
        <3> QED BY <1>k, <3>1, CallSteps DEF Asking
    <2> QED BY <1>k, <2>1, FlagAfter DEF Spinning
<1>1. ASSUME NEW u \in cast, NEW k \in KeysOf(KindOf(u)), Dispatch(u, k) PROVE fl \in flags'
    <2>1. k \in Slots /\ u \in Players(cast)
        BY AskedKeys DEF Players
    <2>2. Run(CaseOf(u).pending, k) /\ Without(CaseOf(u).pending, fl, {"down"})
        BY <1>1, <1>c, <2>1 DEF Dispatch, SilentCase
    <2>3. CASE u = t
        BY <1>c, <2>1, <2>2, <2>3, FlagAfter DEF SilentCase
    <2>4. CASE u /= t
        <3>1. calls' \in Seq(CallSet) /\ Grown(u, k)
            BY <1>0, <1>1, <2>1, DispatchCalls
        <3>2. Newest(t)' = Newest(t)
            BY <1>0, <2>4, <3>1, NewestGrown DEF CallsTyped
        <3> QED BY <1>k, <2>2, <3>2
    <2> QED BY <2>3, <2>4
<1>2. ASSUME NEW i \in DOMAIN calls, Fulfil(i) \/ Reject(i) PROVE fl \in flags'
    <2>1. \E st \in {"ok", "failed"} : Turned(i, st)
        BY <1>0, <1>2, SettleCalls
    <2>2. Newest(t)' = Newest(t)
        BY <2>1, NewestSettled DEF Turned
    <2>3. calls[i].t /= t
        <3>1. ASSUME calls[i].t = t PROVE FALSE
            <4>1. i = Newest(t)
                BY <1>0, <1>2, <3>1 DEF CallsInv, OneRunning, Fulfil, Reject, Running
            <4> QED BY <2>1, <2>2, <4>1 DEF Asking, Turned
        <3> QED BY <3>1
    <2>4. \E es : Run(es, calls[i].key) /\ Without(es, fl, {"down"})
        BY <1>0, <1>2, <1>c, <2>3, WithoutNone DEF Fulfil, Reject, SilentCase
    <2> QED BY <1>k, <2>2, <2>4
<1>3. ASSUME NEW i \in DOMAIN calls, RejectAndReread(i) PROVE fl \in flags'
    <2>1. PICK w \in Players(cast) : w = CaseOf(calls[i].t).then /\ ~Aborts(w)
        BY <1>0, <1>3 DEF RejectAndReread
    <2> DEFINE es == CaseOf(w).pending \cup CaseOf(calls[i].t).rejected
    <2>2. calls' \in Seq(CallSet) /\ Grown(w, calls[i].key)
        BY <1>0, <1>3, <2>1, RereadCalls
    <2>3. Newest(t)' = Newest(t)
        <3>1. t /= w
            BY <1>0, <2>1
        <3> QED BY <1>0, <2>2, <3>1, NewestGrown DEF CallsTyped
    <2>4. calls[i].t /= t
        BY <1>0, <1>3, <1>c DEF SilentCase, RejectAndReread
    <2>5. Without(es, fl, {"down"})
        BY <1>0, <1>c, <2>1, <2>4, WithoutJoin DEF SilentCase
    <2>6. Run(es, calls[i].key)
        BY <1>3, <2>1 DEF RejectAndReread
    <2> HIDE DEF es
    <2> QED BY <1>k, <2>3, <2>5, <2>6
<1>4. ASSUME NEW i \in DOMAIN calls, Aborted(i) PROVE fl \in flags'
    <2>1. Newest(t)' = Newest(t)
        BY <1>0, <1>4, SettleCalls, NewestSettled DEF Turned
    <2>2. calls[i].t = t
        BY <1>0, <1>4, <1>c, AbortsHere DEF CallsInv, AbortingIsGrid, Aborted, Aborting, SilentCase
    <2>3. Run({}, calls[i].key)
        BY <1>0, <1>4, <1>c, <2>2 DEF Aborted, SilentCase
    <2> QED BY <1>k, <2>1, <2>3, WithoutNone
<1>5. ASSUME NEW r \in DOMAIN Store.reducers, Reduce(r) PROVE fl \in flags'
    <2>1. Newest(t)' = Newest(t)
        BY <1>0, <1>5, ReduceCalls, NewestSettled
    <2>2. Without(Store.reducers[r], fl, {"down"})
        BY <1>0, StoreIsRaw DEF SilentRow
    <2> QED BY <1>5, <1>k, <2>1, <2>2 DEF Reduce
<1>6. ASSUME NEW u, Leave(u) \/ UNCHANGED vars PROVE fl \in flags'
    <2>1. Settled
        BY <1>0, <1>6, LeaveCalls DEF vars, Settled, Kept
    <2>2. Newest(t)' = Newest(t)
        BY <2>1, NewestSettled
    <2>3. Newest(t) \in DOMAIN calls
        BY <1>0, <2>2, NewestIsLast DEF Asking, CallsTyped
    <2>4. Asking(t)
        BY <2>2, <2>3, CallSteps DEF Asking
    <2> QED BY <1>6, <2>4 DEF Spinning, Leave, vars
<1> QED BY <1>1, <1>2, <1>3, <1>4, <1>5, <1>6 DEF Next

LEMMA HonestPreserved ==
    ASSUME CallsInv, [Next]_vars, NEW t, NEW fl, NEW er, SilentRow(slice, Raw, t, fl, er),
           Honest(er)
    PROVE  Honest(er)'
<1>0. /\ InPlace /\ Players(cast) \subseteq DOMAIN Store.cases /\ CallsTyped
      /\ \A u \in Players(cast) : CaseOf(u).then /= "none" => CaseOf(u).then \in Players(cast)
      /\ \A i \in DOMAIN calls : calls[i].t \in Players(cast) /\ calls[i].key \in Slots
    BY PlayersHaveCases, CallParts DEF CallsInv
<1>c. \A u \in Players(cast) : SilentCase(slice, t, fl, er, u, CaseOf(u))
    BY <1>0, CaseFound DEF SilentRow
<1>f. \A k : FailedFor(k) => FailedFor(k)'
    BY CallSteps DEF FailedFor, Kept
<1>u. ASSUME UNCHANGED errs PROVE Honest(er)'
    BY <1>f, <1>u DEF Honest
<1>k. ASSUME NEW es, NEW k, Run(es, k), Without(es, er, ReportOps) PROVE Honest(er)'
    <2>1. er \in DOMAIN errs /\ er \in DOMAIN errs' /\ errs'[er] \subseteq errs[er]
        BY <1>k, ErrorAfter DEF Honest
    <2> QED BY <1>f, <2>1 DEF Honest
(* A refused call is what its error is about.                              *)
<1>r. ASSUME NEW es, NEW i \in DOMAIN calls, Run(es, calls[i].key), calls'[i].st = "failed"
      PROVE  Honest(er)'
    <2>1. er \in DOMAIN errs /\ er \in DOMAIN errs' /\ errs'[er] \subseteq errs[er] \cup {calls[i].key}
        BY <1>r, ErrorAfter DEF Honest
    <2>2. i \in DOMAIN calls' /\ calls'[i].key = calls[i].key
        BY CallSteps DEF Kept
    <2>3. ASSUME NEW k \in errs'[er] PROVE FailedFor(k)'
        <3>1. CASE k = calls[i].key
            BY <1>r, <2>2, <3>1 DEF FailedFor
        <3>2. CASE k \in errs[er]
            BY <1>f, <3>2 DEF Honest
        <3> QED BY <2>1, <3>1, <3>2
    <2> QED BY <2>1, <2>3 DEF Honest
<1>1. ASSUME NEW u \in cast, NEW k \in KeysOf(KindOf(u)), Dispatch(u, k) PROVE Honest(er)'
    <2>1. u \in Players(cast)
        BY DEF Players
    <2> QED BY <1>1, <1>c, <1>k, <2>1 DEF Dispatch, SilentCase
<1>2. ASSUME NEW i \in DOMAIN calls, Fulfil(i) PROVE Honest(er)'
    BY <1>0, <1>2, <1>c, <1>k, WithoutNone DEF Fulfil, SilentCase
<1>3. ASSUME NEW i \in DOMAIN calls, Reject(i) PROVE Honest(er)'
    <2>1. calls'[i].st = "failed"
        BY <1>0, <1>3, SettleCalls DEF Turned
    <2> QED BY <1>3, <1>r, <2>1 DEF Reject
<1>4. ASSUME NEW i \in DOMAIN calls, RejectAndReread(i) PROVE Honest(er)'
    <2>1. calls'[i].st = "failed"
        BY <1>0, <1>4, RereadCalls DEF RejectAndReread
    <2> QED BY <1>4, <1>r, <2>1 DEF RejectAndReread
<1>5. ASSUME NEW i \in DOMAIN calls, Aborted(i) PROVE Honest(er)'
    <2>1. calls[i].t = t
        BY <1>0, <1>5, <1>c, AbortsHere DEF CallsInv, AbortingIsGrid, Aborted, Aborting, SilentCase
    <2>2. Run({}, calls[i].key)
        BY <1>0, <1>5, <1>c, <2>1 DEF Aborted, SilentCase
    <2> QED BY <1>k, <2>2, WithoutNone
<1>6. ASSUME NEW r \in DOMAIN Store.reducers, Reduce(r) PROVE Honest(er)'
    <2>1. Without(Store.reducers[r], er, ReportOps)
        BY <1>0, StoreIsRaw DEF SilentRow
    <2> QED BY <1>6, <1>k, <2>1 DEF Reduce
<1>7. ASSUME NEW u, Leave(u) PROVE Honest(er)'
    BY <1>7, <1>u DEF Leave
<1> QED BY <1>1, <1>2, <1>3, <1>4, <1>5, <1>6, <1>7, <1>u DEF Next, vars

(* Aborting a list page's previous question is invisible: the grid spins   *)
(* until its newest question is answered, and the page shows no error but  *)
(* a refusal's.                                                            *)
THEOREM AbortsAreSilentHolds == Spec => []AbortsAreSilent
<1> DEFINE Inv == \A c \in GridPages : (c[1] = slice /\ c[2] \in cast) =>
                        Spinning(c[2], c[3]) /\ Honest(c[4])
<1>1. Init => Inv
    <2> SUFFICES ASSUME Init, NEW c \in GridPages, c[1] = slice, c[2] \in cast
                 PROVE  Spinning(c[2], c[3]) /\ Honest(c[4])
        OBVIOUS
    <2>0. CallsInv /\ DomainsInv
        BY CallsInitially DEF Init, DomainsInv
    <2>1. SilentRow(slice, Raw, c[2], c[3], c[4])
        BY <2>0, GridTable DEF CallsInv, InPlace, Raw
    <2>2. c[2] \in Players(cast) /\ Reports(CaseOf(c[2]).rejected, c[4])
        BY <2>0, <2>1, CaseFound DEF Players, CallsInv, SilentRow, SilentCase, Reports
    <2>3. c[4] \in DOMAIN errs
        BY <2>0, <2>2, ErrorLands
    <2>4. Honest(c[4])
        BY <2>3 DEF Honest, Init
    <2>5. Newest(c[2]) = 0
        BY DEF Init, Newest
    <2> QED BY <2>4, <2>5 DEF Spinning, Asking
<1>2. CallsInv /\ Inv /\ [Next]_vars => Inv'
    <2> SUFFICES ASSUME CallsInv, Inv, [Next]_vars, NEW c \in GridPages,
                        c[1] = slice', c[2] \in cast'
                 PROVE  Spinning(c[2], c[3])' /\ Honest(c[4])'
        OBVIOUS
    <2>1. c[1] = slice /\ c[2] \in cast
        BY Frozen
    <2>2. SilentRow(slice, Raw, c[2], c[3], c[4])
        BY <2>1, GridTable DEF CallsInv, InPlace, Raw
    <2> QED BY <2>1, <2>2, SpinningPreserved, HonestPreserved
<1>3. Inv => AbortsAreSilent
    BY DEF AbortsAreSilent, Spinning, Asking, Honest, FailedFor
<1> QED BY <1>1, <1>2, <1>3, CallsAlways, PTL DEF Spec

(* ---- no spinner without an answer to come ---- *)

LEMMA OnePerPage == \A s, t, u : AbortsIn(s, t) /\ AbortsIn(s, u) => t = u
BY DEF AbortsIn, GridDriven

(* A flag that is up waits for a call in flight that will be heard, or for *)
(* the return of the list page that was left.                              *)
Awaits(i, f) == /\ calls[i].st = "inflight"
                /\ Raises(CaseOf(calls[i].t).pending, f)
                /\ CaseOf(calls[i].t).guard = "latest" => i = Newest(calls[i].t)
Answerable(f) == \E i \in DOMAIN calls : Awaits(i, f)
Returning(f) == ~mounted /\ \E t \in cast : Aborts(t) /\ Raises(CaseOf(t).pending, f)
IdleInv == slice \notin LeavesFlagUp => \A f \in flags : Answerable(f) \/ Returning(f)

(* What the tables say of the handlers, and of what a reducer drops.       *)
LEMMA FlagRules ==
    ASSUME CallsInv
    PROVE  /\ \A t \in Players(cast) : \A f :
                /\ Raises(CaseOf(t).pending, f) =>
                        Lowers(CaseOf(t).fulfilled, f) /\ Lowers(CaseOf(t).rejected, f)
                /\ ~Raises(CaseOf(t).fulfilled, f) /\ ~Raises(CaseOf(t).rejected, f)
           /\ \A r \in DOMAIN Store.reducers : \A f : ~Raises(Store.reducers[r], f)
           /\ slice \notin LeavesFlagUp =>
                \A r \in DOMAIN Store.reducers : \A t \in Players(cast) : \A f :
                    Drop(t) \in Store.reducers[r] => ~Raises(CaseOf(t).pending, f)
<1>0. InPlace /\ Players(cast) \subseteq DOMAIN Store.cases
    BY PlayersHaveCases DEF CallsInv
<1>1. SliceOk(slice, Raw)
    BY <1>0, EverySlice DEF InPlace, Raw
<1>2. \A t \in Players(cast) : IdleCase(CaseOf(t))
    BY <1>0, CaseOk
<1>3. \A r \in DOMAIN Store.reducers : ReducerOk(slice, Raw, Store.reducers[r])
    BY <1>0, <1>1, StoreIsRaw DEF SliceOk
<1>4. ASSUME slice \notin LeavesFlagUp, NEW r \in DOMAIN Store.reducers, NEW t \in Players(cast),
             NEW f, Drop(t) \in Store.reducers[r]
      PROVE  ~Raises(CaseOf(t).pending, f)
    <2>1. Drop(t).op = "drop" /\ Drop(t).f = t
        BY DEF Drop, Effect
    <2>2. \A i \in DOMAIN Raw.cases : t \in DOMAIN Raw.cases[i] => RaisesNone(Raw.cases[i][t])
        BY <1>3, <1>4, <2>1 DEF ReducerOk
    <2>3. RaisesNone(CaseOf(t))
        BY <1>0, <2>2, CaseFound
    <2> QED BY <2>3 DEF RaisesNone, Raises
<1> QED BY <1>2, <1>3, <1>4 DEF IdleCase, ReducerOk, Raises

LEMMA IdlePreserved == CallsInv /\ IdleInv /\ [Next]_vars => IdleInv'
<1> SUFFICES ASSUME CallsInv, IdleInv, [Next]_vars, slice \notin LeavesFlagUp, NEW f \in flags'
             PROVE  (Answerable(f) \/ Returning(f))'
    BY Frozen DEF IdleInv
<1> DEFINE Goal == (Answerable(f) \/ Returning(f))'
<1>0. /\ Players(cast) \subseteq DOMAIN Store.cases /\ CallsTyped
      /\ \A u \in Players(cast) : CaseOf(u).then /= "none" => CaseOf(u).then \in Players(cast)
      /\ \A i \in DOMAIN calls : calls[i].t \in Players(cast) /\ calls[i].key \in Slots
    BY PlayersHaveCases, CallParts DEF CallsInv
<1>z. cast' = cast /\ \A t : CaseOf(t)' = CaseOf(t) /\ Aborts(t)' = Aborts(t)
    BY Frozen, FrozenTables
<1>k. Kept
    BY CallSteps
(* A call that stays in flight, and stays newest if it was.                *)
<1>a. ASSUME NEW i \in DOMAIN calls, Awaits(i, f), calls'[i].st = "inflight",
             \A t : t = calls[i].t => Newest(t)' = Newest(t)
      PROVE  Goal
    <2>1. i \in DOMAIN calls' /\ calls'[i].t = calls[i].t
        BY <1>k DEF Kept
    <2>2. Awaits(i, f)'
        BY <1>a, <1>z, <2>1 DEF Awaits
    <2> QED BY <2>1, <2>2 DEF Answerable
(* A call that was just dispatched.                                        *)
<1>n. ASSUME NEW w, NEW k, calls' \in Seq(CallSet), Grown(w, k), Raises(CaseOf(w).pending, f)
      PROVE  Goal
    <2>1. Newest(w)' = Len(calls) + 1
        BY <1>0, <1>n, NewestGrown DEF CallsTyped
    <2> DEFINE n == Len(calls')
    <2>2. n = Len(calls) + 1 /\ n \in DOMAIN calls' /\ calls'[n] = Call(w, k)
        BY <1>0, <1>n DEF CallsTyped, Grown
    <2>3. calls'[n].st = "inflight" /\ calls'[n].t = w /\ Newest(w)' = n
        BY <2>1, <2>2 DEF Call
    <2>4. \E j \in DOMAIN calls' : Awaits(j, f)'
        BY <1>n, <1>z, <2>2, <2>3 DEF Awaits
    <2> QED BY <2>4 DEF Answerable
<1>r. ASSUME Returning(f), mounted' = mounted PROVE Goal
    BY <1>r, <1>z DEF Returning
<1>1. ASSUME NEW u \in cast, NEW k \in KeysOf(KindOf(u)), Dispatch(u, k) PROVE Goal
    <2>1. k \in Slots
        BY AskedKeys
    <2>2. /\ calls' \in Seq(CallSet) /\ Grown(u, k)
          /\ \A i \in DOMAIN calls : calls'[i].st =
                IF Aborts(u) /\ calls[i].t = u /\ calls[i].st = "inflight"
                THEN "aborting" ELSE calls[i].st
        BY <1>0, <1>1, <2>1, DispatchCalls
    <2>3. \A t : t /= u => Newest(t)' = Newest(t)
        BY <1>0, <2>2, NewestGrown DEF CallsTyped
    <2>4. CASE Raises(CaseOf(u).pending, f)
        BY <1>n, <2>2, <2>4
    <2>5. CASE ~Raises(CaseOf(u).pending, f)
        <3>1. f \in flags
            BY <1>1, <2>5, FlagAfter DEF Dispatch
        <3>2. ASSUME NEW i \in DOMAIN calls, Awaits(i, f) PROVE Goal
            <4>1. calls[i].t /= u
                BY <2>5, <3>2 DEF Awaits
            <4> QED BY <1>a, <2>2, <2>3, <3>2, <4>1 DEF Awaits
        <3>3. ASSUME Returning(f) PROVE Goal
            <4>1. ~Aborts(u)
                BY <2>5, <3>3, OnePerPage, AbortsHere DEF Returning
            <4>2. ~mounted'
                BY <1>1, <3>3, <4>1 DEF Dispatch, Returning
            <4> QED BY <1>z, <3>3, <4>2 DEF Returning
        <3> QED BY <3>1, <3>2, <3>3 DEF IdleInv, Answerable
    <2> QED BY <2>4, <2>5
<1>2. ASSUME NEW i \in DOMAIN calls, Fulfil(i) \/ Reject(i) PROVE Goal
    <2> DEFINE c == CaseOf(calls[i].t)
    <2>1. \E st \in {"ok", "failed"} : Turned(i, st)
        BY <1>0, <1>2, SettleCalls
    <2>2. \A t : Newest(t)' = Newest(t)
        BY <2>1, NewestSettled DEF Turned
    <2>3. PICK es \in {c.fulfilled, c.rejected, {}} :
                Run(es, calls[i].key) /\ (Heard(i) => es /= {} \/ es \in {c.fulfilled, c.rejected})
        BY <1>2 DEF Fulfil, Reject
    <2>4. ~Raises(es, f)
        BY <1>0, <2>3, FlagRules DEF Raises
    <2>5. f \in flags /\ ~Lowers(es, f)
        BY <2>3, <2>4, FlagAfter
    <2>6. ASSUME NEW j \in DOMAIN calls, Awaits(j, f) PROVE Goal
        <3>1. j /= i
            <4>1. ASSUME j = i PROVE FALSE
                <5>1. Heard(i) /\ Raises(c.pending, f)
                    BY <2>6, <4>1 DEF Heard, Awaits
                <5>2. Lowers(c.fulfilled, f) /\ Lowers(c.rejected, f)
                    BY <1>0, <5>1, FlagRules
                <5> QED BY <2>3, <2>5, <5>1, <5>2
            <4> QED BY <4>1
        <3> QED BY <1>a, <2>1, <2>2, <2>6, <3>1 DEF Turned, Awaits
    <2> QED BY <1>2, <1>r, <2>5, <2>6 DEF IdleInv, Answerable, Fulfil, Reject
<1>3. ASSUME NEW i \in DOMAIN calls, RejectAndReread(i) PROVE Goal
    <2>1. PICK w \in Players(cast) : w = CaseOf(calls[i].t).then
        BY <1>0, <1>3 DEF RejectAndReread
    <2> DEFINE es == CaseOf(w).pending \cup CaseOf(calls[i].t).rejected
    <2>2. /\ calls' \in Seq(CallSet) /\ Grown(w, calls[i].key)
          /\ \A j \in DOMAIN calls : j /= i => calls'[j].st = calls[j].st
        BY <1>0, <1>3, <2>1, RereadCalls
    <2>3. \A t : t /= w => Newest(t)' = Newest(t)
        BY <1>0, <2>2, NewestGrown DEF CallsTyped
    <2>4. Run(es, calls[i].key)
        BY <1>3, <2>1 DEF RejectAndReread
    <2>5. CASE Raises(CaseOf(w).pending, f)
        BY <1>n, <2>2, <2>5
    <2>6. CASE ~Raises(CaseOf(w).pending, f)
        <3>1. ~Raises(es, f)
            BY <1>0, <2>6, FlagRules DEF Raises
        <3>2. f \in flags /\ ~Lowers(es, f)
            BY <2>4, <3>1, FlagAfter
        <3>3. ASSUME NEW j \in DOMAIN calls, Awaits(j, f) PROVE Goal
            <4>1. calls[j].t /= w
                BY <2>6, <3>3 DEF Awaits
            <4>2. j /= i
                BY <1>0, <3>2, <3>3, FlagRules DEF Awaits, Lowers
            <4> QED BY <1>a, <2>2, <2>3, <3>3, <4>1, <4>2 DEF Awaits
        <3> QED BY <1>3, <1>r, <3>2, <3>3 DEF IdleInv, Answerable, RejectAndReread
    <2> QED BY <2>5, <2>6
<1>4. ASSUME NEW i \in DOMAIN calls, Aborted(i) PROVE Goal
    <2>1. Turned(i, "aborted")
        BY <1>0, <1>4, SettleCalls
    <2>2. \A t : Newest(t)' = Newest(t)
        BY <2>1, NewestSettled DEF Turned
    <2>3. PICK es \in {CaseOf(calls[i].t).rejected, {}} : Run(es, calls[i].key)
        BY <1>4 DEF Aborted
    <2>4. f \in flags
        BY <1>0, <2>3, FlagRules, FlagAfter DEF Raises
    <2>5. ASSUME NEW j \in DOMAIN calls, Awaits(j, f) PROVE Goal
        <3>1. j /= i
            BY <1>4, <2>5 DEF Aborted, Aborting, Awaits
        <3> QED BY <1>a, <2>1, <2>2, <2>5, <3>1 DEF Turned, Awaits
    <2> QED BY <1>4, <1>r, <2>4, <2>5 DEF IdleInv, Answerable, Aborted
<1>5. ASSUME NEW r \in DOMAIN Store.reducers, Reduce(r) PROVE Goal
    <2>1. /\ Settled
          /\ \A i \in DOMAIN calls : calls'[i].st =
                IF calls[i].st = "inflight" /\ Drop(calls[i].t) \in Store.reducers[r]
                THEN "dropped" ELSE calls[i].st
        BY <1>0, <1>5, ReduceCalls
    <2>2. \A t : Newest(t)' = Newest(t)
        BY <2>1, NewestSettled
    <2>3. f \in flags
        BY <1>5, FlagRules, FlagAfter DEF Reduce
    <2>4. ASSUME NEW j \in DOMAIN calls, Awaits(j, f) PROVE Goal
        <3>1. Drop(calls[j].t) \notin Store.reducers[r]
            BY <1>0, <2>4, FlagRules DEF Awaits
        <3> QED BY <1>a, <2>1, <2>2, <2>4, <3>1 DEF Awaits
    <2> QED BY <1>5, <1>r, <2>3, <2>4 DEF IdleInv, Answerable, Reduce
<1>6. ASSUME NEW u \in cast, Leave(u) PROVE Goal
    <2>1. /\ Settled
          /\ \A i \in DOMAIN calls : calls'[i].st =
                IF calls[i].t = u /\ calls[i].st = "inflight" THEN "aborting" ELSE calls[i].st
        BY <1>0, <1>6, LeaveCalls
    <2>2. \A t : Newest(t)' = Newest(t)
        BY <2>1, NewestSettled
    <2>3. f \in flags /\ mounted /\ ~mounted' /\ Aborts(u)
        BY <1>6 DEF Leave
    <2>4. ASSUME NEW j \in DOMAIN calls, Awaits(j, f) PROVE Goal
        <3>1. CASE calls[j].t = u
            BY <1>z, <2>3, <2>4, <3>1 DEF Awaits, Returning
        <3>2. CASE calls[j].t /= u
            BY <1>a, <2>1, <2>2, <2>4, <3>2 DEF Awaits
        <3> QED BY <3>1, <3>2
    <2> QED BY <2>3, <2>4 DEF IdleInv, Answerable, Returning
<1>7. ASSUME UNCHANGED vars PROVE Goal
    <2>1. \A t : Newest(t)' = Newest(t)
        BY <1>7, NewestSettled DEF vars, Settled, Kept
    <2> QED BY <1>7, <1>a, <1>r, <2>1 DEF vars, IdleInv, Answerable, Awaits
<1> QED BY <1>1, <1>2, <1>3, <1>4, <1>5, <1>6, <1>7 DEF Next

(* With nothing in flight and the list page on screen no loading flag is   *)
(* up: what raised it is answered, refused, or asked again.                *)
THEOREM QuietMeansIdleHolds == Spec => []QuietMeansIdle
<1>1. Init => IdleInv
    BY DEF Init, IdleInv
<1>2. IdleInv => QuietMeansIdle
    <2> SUFFICES ASSUME IdleInv, mounted, Running = {}, slice \notin LeavesFlagUp,
                        NEW f \in flags
                 PROVE  FALSE
        BY DEF QuietMeansIdle
    <2> QED BY DEF IdleInv, Answerable, Returning, Awaits, Running
<1> QED BY <1>1, <1>2, IdlePreserved, CallsAlways, PTL DEF Spec
=============================================================================
