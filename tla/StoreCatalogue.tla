---------------------------- MODULE StoreCatalogue ----------------------------
(***************************************************************************)
(* The slices of the store behind the system catalogue, its dependency     *)
(* graph and topology, and behind projects, change requests and incidents. *)
(* See Effects for the vocabulary.                                         *)
(***************************************************************************)
EXTENDS Effects

(* ---- systemSlice: one flag for the list, one for everything else ---- *)
SystemCalls ==
    [fetchSystems |-> "query", fetchSystem |-> "id", createSystem |-> "new",
     updateSystem |-> "write", deleteSystem |-> "write",
     fetchSubSystems |-> "of", createSubSystem |-> "write",
     updateSubSystem |-> "write", fetchSubSystem |-> "id",
     deleteSubSystem |-> "write"]

SystemCases ==
    LET Busy(effects) == Spins("loading", "error", effects)
    IN  [fetchSystems |-> Guarded("aborted",
            Spins("listLoading", "error", {Put("systems")})),
         fetchSystem |-> Busy({Put("currentSystem")}),
         createSystem |-> Busy({}),
         updateSystem |-> Busy({Same("currentSystem")}),
         deleteSystem |-> Busy({Forget("currentSystem")}),
         fetchSubSystem |-> Busy({Put("currentSubSystem")}),
         fetchSubSystems |-> Busy({Put("subsystems")}),
         createSubSystem |-> Busy({Add("subsystems")}),
         updateSubSystem |-> Busy({Merge("subsystems")}),
         deleteSubSystem |-> Busy({Merge("subsystems")})]

(* ---- dependencySlice ---- *)
DependencyCalls ==
    [fetchSystemDependencies |-> "of", createSystemDependency |-> "write",
     deleteSystemDependency |-> "write", updateSystemDependency |-> "write",
     fetchComponentDependencies |-> "of", createComponentDependency |-> "write",
     deleteComponentDependency |-> "write", updateComponentDependency |-> "write",
     verifyEnvironment |-> "id"]

DependencyReducers == [clearVerifyResult |-> {Wipe("verifyResult")}]

DependencyCases ==
    LET Busy(effects) == Spins("loading", "error", effects)
    IN  [fetchSystemDependencies |-> Busy({Put("systemDependencies")}),
         createSystemDependency |-> Busy({Add("systemDependencies")}),
         deleteSystemDependency |-> Busy({Merge("systemDependencies")}),
         updateSystemDependency |-> Busy({Merge("systemDependencies")}),
         fetchComponentDependencies |-> Busy({Put("componentDependencies")}),
         createComponentDependency |-> Busy({Add("componentDependencies")}),
         deleteComponentDependency |-> Busy({Merge("componentDependencies")}),
         updateComponentDependency |-> Busy({Merge("componentDependencies")}),
         verifyEnvironment |-> Busy({Put("verifyResult")})]

(* ---- componentTypeSlice ---- *)
ComponentTypeCalls ==
    [fetchComponentTypes |-> "all", createComponentType |-> "new",
     updateComponentType |-> "write", deleteComponentType |-> "write"]

ComponentTypeCases ==
    [fetchComponentTypes |-> Spins("loading", "error", {Put("definitions")}),
     createComponentType |-> Settles({Add("definitions")}),
     updateComponentType |-> Settles({Merge("definitions")}),
     deleteComponentType |-> Settles({Merge("definitions")})]

(* ---- topologySlice: clearing the map does not cancel the call ---- *)
TopologyCalls == [fetchTopology |-> "query"]

TopologyCases == [fetchTopology |-> Spins("loading", "error", {Put("data")})]

TopologyReducers ==
    [clearTopology |-> {Wipe("data"), NoErr("error"), Down("loading")}]

(* ---- projectSlice: agreements are listed by project or by environment -- *)
ProjectCalls ==
    [fetchProjects |-> "query", fetchProject |-> "id", createProject |-> "new",
     updateProject |-> "write", deleteProject |-> "write",
     fetchProjectAgreements |-> "of", fetchProjectGapBookingCount |-> "of",
     fetchEnvironmentAgreements |-> "ofOther",
     createUsageAgreement |-> "write", deleteUsageAgreement |-> "write"]

ProjectCases ==
    LET Read(f, err) ==
            Case({Wipe(f), NoErr(err)}, {Put(f), NoErr(err)}, {Err(err)})
    IN  [fetchProjects |-> Spins("loading", "error", {Put("projects")}),
         fetchProject |-> Read("current", "error"),
         createProject |-> Unseen, updateProject |-> Unseen,
         deleteProject |-> Unseen,
         fetchProjectAgreements |-> Read("agreements", "error"),
         fetchProjectGapBookingCount |->
            Read("gapBookingCount", "gapBookingCountError"),
         fetchEnvironmentAgreements |-> Read("agreements", "error"),
         createUsageAgreement |-> Unseen, deleteUsageAgreement |-> Unseen]

(* ---- changeRequestSlice ---- *)
ChangeRequestCalls ==
    [fetchChangeRequests |-> "query", fetchChangeRequest |-> "id",
     createChangeRequest |-> "new", updateChangeRequest |-> "write",
     transitionChangeRequest |-> "write", deleteChangeRequest |-> "write"]

ChangeRequestReducers == [clearDetail |-> {Wipe("detail")}]

(* Mutant: a transition shows its answer whatever the page shows.          *)
ChangeRequestCases_TransitionOpens ==
    [fetchChangeRequests |-> Guarded("aborted",
        Spins("listLoading", "error", {Put("list")})),
     fetchChangeRequest |-> Spins("loading", "error", {Put("detail")}),
     createChangeRequest |-> Unseen,
     updateChangeRequest |-> Settles({Same("detail")}),
     transitionChangeRequest |-> Settles({Put("detail")}),
     deleteChangeRequest |-> Settles({Forget("detail")})]

ChangeRequestCases ==
    [fetchChangeRequests |-> Guarded("aborted",
        Spins("listLoading", "error", {Put("list")})),
     fetchChangeRequest |-> Spins("loading", "error", {Put("detail")}),
     createChangeRequest |-> Unseen,
     updateChangeRequest |-> Settles({Same("detail")}),
     transitionChangeRequest |-> Settles({Same("detail")}),
     deleteChangeRequest |-> Settles({Forget("detail")})]

(* ---- incidentSlice: a write replaces detail whatever detail shows ---- *)
IncidentCalls ==
    [fetchIncidents |-> "query", fetchIncident |-> "id", createIncident |-> "new",
     updateIncident |-> "write", transitionIncident |-> "write",
     deleteIncident |-> "write"]

IncidentReducers == [clearDetail |-> {Wipe("detail")}]

(* Mutant: the rejected handler does not look whether the call was aborted.*)
IncidentCases_AbortReported ==
    [fetchIncidents |-> Spins("listLoading", "error", {Put("list")}),
     fetchIncident |-> Settles({Put("detail")}),
     createIncident |-> Settles({Put("detail")}),
     updateIncident |-> Settles({Put("detail")}),
     transitionIncident |-> Settles({Put("detail")}),
     deleteIncident |-> Settles({Forget("detail")})]

IncidentCases ==
    [fetchIncidents |-> Guarded("aborted",
        Spins("listLoading", "error", {Put("list")})),
     fetchIncident |-> Settles({Put("detail")}),
     createIncident |-> Settles({Put("detail")}),
     updateIncident |-> Settles({Put("detail")}),
     transitionIncident |-> Settles({Put("detail")}),
     deleteIncident |-> Settles({Forget("detail")})]

CatalogueStore ==
    [system |-> Slice(SystemCalls, SystemCases, NoReducers),
     dependency |-> Slice(DependencyCalls, DependencyCases, DependencyReducers),
     componentType |-> Slice(ComponentTypeCalls, ComponentTypeCases, NoReducers),
     topology |-> Slice(TopologyCalls, TopologyCases, TopologyReducers),
     project |-> Slice(ProjectCalls, ProjectCases, NoReducers),
     changeRequest |-> Slice(ChangeRequestCalls, ChangeRequestCases, ChangeRequestReducers),
     incidents |-> Slice(IncidentCalls, IncidentCases, IncidentReducers)]
=============================================================================
