------------------------------- MODULE OpenLoads -------------------------------
(***************************************************************************)
(* The data components load into their own state with nothing to cancel a  *)
(* call: an answer is kept whenever it comes, so the one that comes last   *)
(* is what the screen shows, whatever was asked last.  In the vocabulary   *)
(* of Effects, one slice per component.                                    *)
(***************************************************************************)
EXTENDS LocalLoads

(* ---- pages ---- *)

(* BookingDetail: the booking with its transitions and history.            *)
BookingDetailLoad == Local("id",
    Case({Up("loading"), NoErr("error")}, {Put("booking"), Down("loading")},
         {Err("error"), Down("loading")}))

(* BookingCalendar: the bookings of the filter, and the transitions of the *)
(* booking in the drawer.                                                  *)
BookingCalendarLoad == Local("query",
    Case({Up("loading")}, {Put("bookings"), Down("loading")},
         {Wipe("bookings"), Down("loading")}))

BookingCalendarDrawer == Local("of",
    Case({}, {Put("selectedTransitions")}, {Wipe("selectedTransitions")}))

EnvironmentCompareLoad == LocalWith("query",
    Case({Up("loading"), NoErr("error")},
         {Put("comparison"), NoErr("error"), Down("loading")},
         {Wipe("comparison"), Err("error"), Down("loading")}),
    [oneSideOnly |-> {Wipe("comparison")}])

DoraDashboardLoad == Local("query",
    Case({NoErr("fetchError")}, {Put("data"), NoErr("fetchError")},
         {Wipe("data"), Err("fetchError")}))

HealthDashboardLoad == Local("all",
    Case({Up("loading"), NoErr("fetchError")},
         {Put("rows"), NoErr("fetchError"), Down("loading")},
         {Wipe("rows"), Err("fetchError"), Down("loading")}))

ReleaseAnalyticsLoads == Slice(
    [churn |-> "query", metrics |-> "query", conflicts |-> "query", hours |-> "query"],
    [churn |-> Case({}, {Put("data")}, {Wipe("data")}),
     metrics |-> Case({}, {Put("metrics")}, {Wipe("metrics")}),
     conflicts |-> Case({}, {Put("conflicts")}, {Wipe("conflicts")}),
     hours |-> Case({}, {Put("utilization")}, {Wipe("utilization")})],
    NoReducers)

DeploymentDetailLoad == LocalWith("id",
    Case({}, {Put("cr")}, {}), [noDeployment |-> {Wipe("cr")}])

(* SystemDetail: the dependencies of every component; a failed component   *)
(* reads as having none, so the call does not fail.                        *)
ComponentDependenciesLoad == Local("of",
    Case({Up("compDepsLoading")}, {Put("allCompDeps"), Down("compDepsLoading")},
         {Put("allCompDeps"), Down("compDepsLoading")}))

(* ---- tabs of a release or an environment ---- *)

(* The roll-up tabs without a catch leave what they show in place.         *)
RaidRollupTabLoad == Local("of", Case({}, {Put("rollup")}, {Wipe("rollup")}))

ReportTabLoad == Local("of", Settles({Put("report")}))

ScopeRollupTabLoad == Local("query", Settles({Put("rows")}))

SystemsRollupTabLoad == Local("of", Settles({Put("rows")}))

TimelineTabLoad == Local("of", Settles({Put("data")}))

EnterpriseMembershipTabLoad == Local("of", Settles({Put("current")}))

ReleaseEnvironmentsTabLoad == Local("of",
    Case({Up("loading")}, {Put("bookings"), Down("loading")},
         {Wipe("bookings"), Down("loading")}))

ReleaseSystemsTabLoad == Local("of",
    Case({Up("loading")}, {Put("rows"), Down("loading")}, {Wipe("rows"), Down("loading")}))

ReleasePirTabLoad == Local("of",
    Case({Up("loading")}, {Put("pir"), NoErr("error"), Down("loading")},
         {Err("error"), Down("loading")}))

EnvironmentHealthTabLoad == Local("of",
    Case({Up("loading"), NoErr("fetchError")},
         {Put("samples"), NoErr("fetchError"), Down("loading")},
         {Wipe("samples"), Err("fetchError"), Down("loading")}))

EnvironmentOperatingHoursTabLoads == Slice(
    [config |-> "of", utilization |-> "of"],
    [config |-> Settles({Put("week")}),
     utilization |-> Case({}, {Put("util")}, {Wipe("util")})],
    NoReducers)

(* ---- what a form looks up while it is filled in ---- *)

RaidItemDialogLinks == LocalWith("id",
    Case({}, {Put("links")}, {Wipe("links")}), [newItem |-> {Wipe("links")}])

IncidentFormSubsystems == LocalWith("of",
    Case({}, {Put("subsystems")}, {Wipe("subsystems")}),
    [noSystem |-> {Wipe("subsystems")}])

(* The previews wait for a pause in typing; the timer of an overtaken      *)
(* question is cleared, a call that has left is not.                       *)
BookingFormPreview == LocalWith("query",
    Case({}, {Put("conflictWarnings")}, {Wipe("conflictWarnings")}),
    [incomplete |-> {Wipe("conflictWarnings")}])

ChangeRequestFormPreviews == Slice(
    [hosts |-> "query", outage |-> "query"],
    [hosts |-> Case({Up("hostImpactLoading")}, {Put("hostImpact"), Down("hostImpactLoading")},
                    {Wipe("hostImpact"), Down("hostImpactLoading")}),
     outage |-> Case({}, {Put("outageConflicts")}, {Wipe("outageConflicts")})],
    [noHosts |-> {Wipe("hostImpact"), Down("hostImpactLoading")},
     noOutage |-> {Wipe("outageConflicts")}])

ChangeRequestEditPreview == LocalWith("query",
    Case({Up("hostImpactLoading")}, {Put("hostImpact"), Down("hostImpactLoading")},
         {Wipe("hostImpact"), Down("hostImpactLoading")}),
    [noHosts |-> {Wipe("hostImpact"), Down("hostImpactLoading")}])

RequestAdmissionReleases == Local("all",
    Case({}, {Put("releases")}, {Wipe("releases")}))

LinkIncidentLookups == Slice(
    [releases |-> "query", findings |-> "of"],
    [releases |-> Case({}, {Put("releases")}, {Err("error")}),
     findings |-> Case({}, {Put("findings")}, {Wipe("findings")})],
    [noRelease |-> {Wipe("findings")}])

CiteIncidentList == Local("all",
    Case({}, {Put("incidents"), NoErr("incidentsFailed")},
         {Wipe("incidents"), Err("incidentsFailed")}))

OpenStore ==
    [bookingDetail |-> BookingDetailLoad, bookingCalendar |-> BookingCalendarLoad,
     bookingDrawer |-> BookingCalendarDrawer, environmentCompare |-> EnvironmentCompareLoad,
     doraDashboard |-> DoraDashboardLoad, healthDashboard |-> HealthDashboardLoad,
     releaseAnalytics |-> ReleaseAnalyticsLoads, deploymentDetail |-> DeploymentDetailLoad,
     componentDependencies |-> ComponentDependenciesLoad,
     raidRollupTab |-> RaidRollupTabLoad, reportTab |-> ReportTabLoad,
     scopeRollupTab |-> ScopeRollupTabLoad, systemsRollupTab |-> SystemsRollupTabLoad,
     timelineTab |-> TimelineTabLoad, enterpriseMembershipTab |-> EnterpriseMembershipTabLoad,
     releaseEnvironmentsTab |-> ReleaseEnvironmentsTabLoad,
     releaseSystemsTab |-> ReleaseSystemsTabLoad, releasePirTab |-> ReleasePirTabLoad,
     environmentHealthTab |-> EnvironmentHealthTabLoad,
     operatingHoursTab |-> EnvironmentOperatingHoursTabLoads,
     raidItemLinks |-> RaidItemDialogLinks, incidentFormSubsystems |-> IncidentFormSubsystems,
     bookingPreview |-> BookingFormPreview, changeRequestPreviews |-> ChangeRequestFormPreviews,
     changeRequestEditPreview |-> ChangeRequestEditPreview,
     requestAdmission |-> RequestAdmissionReleases, linkIncident |-> LinkIncidentLookups,
     citeIncident |-> CiteIncidentList]
=============================================================================
