-------------------------- MODULE StoreEnvironments --------------------------
(***************************************************************************)
(* The slices behind the environment pages: environments, their groups,    *)
(* tiers, naming and lifecycle policies, decommissions, hosts, deployed    *)
(* versions and builds.  See Effects for the vocabulary.                   *)
(***************************************************************************)
EXTENDS Effects

(* ---- environmentSlice ---- *)
EnvironmentCalls ==
    [fetchEnvironments |-> "query", fetchEnvironment |-> "id",
     createEnvironment |-> "new", updateEnvironment |-> "write",
     deleteEnvironment |-> "write", fetchEnvironmentSystems |-> "of",
     addSystemToEnvironment |-> "write", updateSystemInEnvironment |-> "write",
     removeSystemFromEnvironment |-> "write", fetchEnvSubsystems |-> "of",
     updateEnvSubsystem |-> "write",
     updateEnvironmentHandover |-> "write"]   \* a thunk of environmentRequestSlice

EnvironmentCases ==
    [fetchEnvironments |-> Guarded("aborted",
        Spins("listLoading", "error", {Put("environments")})),
     fetchEnvironment |-> Spins("loading", "error", {Put("currentEnvironment")}),
     createEnvironment |-> Spins("loading", "error", {}),
     updateEnvironment |-> Spins("loading", "error", {Same("currentEnvironment")}),
     deleteEnvironment |-> Spins("loading", "error", {Forget("currentEnvironment")}),
     fetchEnvironmentSystems |-> Spins("loading", "error", {Put("environmentSystemsData")})]

(* The rows under one environment.                                         *)
EnvironmentRowCases ==
    [addSystemToEnvironment |-> Spins("loading", "error", {Add("environmentSystemsData")}),
     updateSystemInEnvironment |-> Spins("loading", "error", {Merge("environmentSystemsData")}),
     removeSystemFromEnvironment |-> Spins("loading", "error", {Merge("environmentSystemsData")}),
     fetchEnvSubsystems |-> Spins("loading", "error", {Put("envSubsystems")}),
     updateEnvSubsystem |-> Spins("loading", "error", {Merge("envSubsystems")}),
     updateEnvironmentHandover |-> Settles({Same("currentEnvironment")})]

(* ---- environmentGroupSlice ---- *)
EnvironmentGroupCalls ==
    [fetchEnvironmentGroups |-> "query", fetchEnvironmentGroup |-> "id",
     createEnvironmentGroup |-> "new", updateEnvironmentGroup |-> "write",
     deleteEnvironmentGroup |-> "write", fetchGroupMembers |-> "of",
     fetchGroupsForEnvironment |-> "of", addGroupMember |-> "write",
     removeGroupMember |-> "write"]

(* Mutant: the answer of an overtaken read is not recognised.              *)
EnvironmentGroupCases_AnyAnswer ==
    [fetchEnvironmentGroups |-> Spins("loading", "error", {Put("groups")}),
     fetchEnvironmentGroup |-> Case({Wipe("current"), NoErr("error")},
        {Put("current"), NoErr("error")}, {Err("error")}),
     createEnvironmentGroup |-> Unseen,
     updateEnvironmentGroup |-> Unseen,
     deleteEnvironmentGroup |-> Unseen,
     fetchGroupMembers |-> Case({Wipe("members"), NoErr("error")},
        {Put("members"), NoErr("error")}, {Err("error")}),
     fetchGroupsForEnvironment |-> Case(
        {Wipe("environmentGroups"), NoErr("environmentGroupsError")},
        {Put("environmentGroups"), NoErr("environmentGroupsError")},
        {Err("environmentGroupsError")}),
     addGroupMember |-> Unseen,
     removeGroupMember |-> Unseen]

EnvironmentGroupCases ==
    [fetchEnvironmentGroups |-> Spins("loading", "error", {Put("groups")}),
     fetchEnvironmentGroup |-> Case({Wipe("current"), NoErr("error")},
        {Put("current"), NoErr("error")}, {Err("error")}),
     createEnvironmentGroup |-> Unseen,
     updateEnvironmentGroup |-> Unseen,
     deleteEnvironmentGroup |-> Unseen,
     fetchGroupMembers |-> Case({Wipe("members"), NoErr("error")},
        {Put("members"), NoErr("error")}, {Err("error")}),
     fetchGroupsForEnvironment |-> Guarded("latest", Case(
        {Wipe("environmentGroups"), NoErr("environmentGroupsError")},
        {Put("environmentGroups"), NoErr("environmentGroupsError")},
        {Err("environmentGroupsError")})),
     addGroupMember |-> Unseen,
     removeGroupMember |-> Unseen]

(* ---- environmentTierSlice ---- *)
EnvironmentTierCalls ==
    [fetchEnvironmentTiers |-> "all", createEnvironmentTier |-> "new",
     updateEnvironmentTier |-> "write", deleteEnvironmentTier |-> "write"]

EnvironmentTierCases ==
    [fetchEnvironmentTiers |-> Spins("loading", "error", {Put("tiers")}),
     createEnvironmentTier |-> Settles({Add("tiers")}),
     updateEnvironmentTier |-> Settles({Merge("tiers")}),
     deleteEnvironmentTier |-> Settles({Merge("tiers")})]

(* ---- environmentNamingPolicySlice ---- *)
NamingPolicyCalls ==
    [fetchNamingPolicy |-> "all", saveNamingPolicy |-> "new", previewNamingPolicy |-> "query"]

NamingPolicyCases ==
    [fetchNamingPolicy |-> Case(
        {Up("loading"), NoErr("error"), Wipe("policy"), Wipe("preview")},
        {Down("loading"), Put("policy")}, {Down("loading"), Err("error")}),
     saveNamingPolicy |-> Case({}, {Put("policy"), NoErr("error"), Wipe("preview")}, {Err("error")}),
     previewNamingPolicy |-> Case({Wipe("preview"), NoErr("error")}, {Put("preview")}, {Err("error")})]

(* ---- environmentLifecyclePolicySlice ---- *)
LifecyclePolicyCalls == [fetchLifecyclePolicy |-> "all", saveLifecyclePolicy |-> "new"]

LifecyclePolicyCases ==
    [fetchLifecyclePolicy |-> Case({Up("loading"), NoErr("error"), Wipe("policy")},
        {Down("loading"), Put("policy")}, {Down("loading"), Err("error")}),
     saveLifecyclePolicy |-> Case({}, {Put("policy"), NoErr("error")}, {Err("error")})]

(* ---- decommissionSlice ---- *)
DecommissionCalls ==
    [fetchDecommission |-> "id", initiateDecommission |-> "write",
     requestExtension |-> "write", decideExtension |-> "write",
     signAttestation |-> "write", tearDown |-> "write", cancelDecommission |-> "write"]

DecommissionListCalls ==
    [fetchDecommissionWorklist |-> "query", fetchDecommissionSteps |-> "all",
     fetchAllDecommissionSteps |-> "all", createDecommissionStep |-> "new",
     updateDecommissionStep |-> "write", deleteDecommissionStep |-> "write"]

(* fetchDecommission wipes the panel before the answer; the answers of the *)
(* write calls land only if the panel still shows that decommission.       *)
DecommissionCases ==
    [fetchDecommission |-> Case(
        {Up("loading"), NoErr("error"), Wipe("current"), Wipe("remainingBookings")},
        {Down("loading"), Put("current")}, {Down("loading"), Err("error")}),
     initiateDecommission |-> Settles({Put("current"), NoErr("error")}),
     requestExtension |-> Settles({Same("current")}),
     decideExtension |-> Settles({Same("current")}),
     signAttestation |-> Unseen,
     tearDown |-> Settles({Same("current"), PutWith("remainingBookings", "current")}),
     cancelDecommission |-> Settles({Same("current")}),
     fetchDecommissionWorklist |-> Guarded("aborted",
        Spins("worklistLoading", "worklistError", {Put("worklist")})),
     fetchDecommissionSteps |-> Spins("stepsLoading", "stepsError", {Put("steps")}),
     fetchAllDecommissionSteps |-> Spins("adminStepsLoading", "adminStepsError", {Put("adminSteps")}),
     createDecommissionStep |-> Settles({Add("adminSteps")}),
     updateDecommissionStep |-> Settles({Merge("adminSteps")}),
     deleteDecommissionStep |-> Settles({Merge("adminSteps")})]

(* ---- infrastructureComponentSlice ---- *)
HostCalls ==
    [fetchInfrastructureComponents |-> "query", createInfrastructureComponent |-> "new",
     updateInfrastructureComponent |-> "write", deleteInfrastructureComponent |-> "write",
     setEnvSubsystemHosts |-> "write"]

HostCases ==
    [fetchInfrastructureComponents |-> Guarded("aborted",
        Spins("listLoading", "error", {Put("components")})),
     createInfrastructureComponent |-> Unseen,
     updateInfrastructureComponent |-> Unseen,
     deleteInfrastructureComponent |-> Unseen,
     setEnvSubsystemHosts |-> Unseen]

(* ---- versionSlice ---- *)
VersionCalls ==
    [fetchVersions |-> "of", recordVersion |-> "write", updateVersion |-> "write",
     deleteVersion |-> "write", importEnvironments |-> "new", importSystems |-> "new"]

VersionReducers ==
    [clearVersions |-> {Wipe("versions")},
     clearImportResult |-> {Wipe("lastImportResult"), NoErr("importError")}]

VersionCases ==
    LET Import == Case({Up("importLoading"), NoErr("importError"), Wipe("lastImportResult")},
                       {Down("importLoading"), Put("lastImportResult")},
                       {Down("importLoading"), Err("importError")})
    IN  [fetchVersions |-> Spins("loading", "error", {Put("versions")}),
         recordVersion |-> Spins("loading", "error", {Add("versions")}),
         updateVersion |-> Settles({Merge("versions")}),
         deleteVersion |-> Settles({Merge("versions")}),
         importEnvironments |-> Import,
         importSystems |-> Import]

(* ---- buildSlice and deploymentSlice ---- *)
BuildCalls == [fetchBuilds |-> "query", fetchBuildById |-> "id"]

(* Mutant: a failure leaves the flag up.                                   *)
BuildCases_FlagForgotten ==
    [fetchBuilds |-> Guarded("aborted", Case({Up("listLoading"), NoErr("error")},
        {Down("listLoading"), Put("items")}, {Err("error")})),
     fetchBuildById |-> Settles({Put("current")})]

BuildCases ==
    [fetchBuilds |-> Guarded("aborted", Spins("listLoading", "error", {Put("items")})),
     fetchBuildById |-> Settles({Put("current")})]

DeploymentCalls ==
    [fetchDeployments |-> "query", fetchDeploymentById |-> "id",
     fetchDeploymentsByBuild |-> "of", linkDeploymentChange |-> "write"]

DeploymentCases ==
    [fetchDeployments |-> Guarded("aborted", Spins("listLoading", "error", {Put("items")})),
     fetchDeploymentById |-> Settles({Put("current")}),
     fetchDeploymentsByBuild |-> Settles({PutAt("byBuild")}),
     linkDeploymentChange |-> Settles({Put("current"), Merge("items")})]

EnvironmentStore ==
    [environment |-> SliceOf(<<EnvironmentCalls>>, <<EnvironmentCases, EnvironmentRowCases>>,
                             NoReducers),
     environmentGroup |-> Slice(EnvironmentGroupCalls, EnvironmentGroupCases, NoReducers),
     environmentTier |-> Slice(EnvironmentTierCalls, EnvironmentTierCases, NoReducers),
     environmentNamingPolicy |-> Slice(NamingPolicyCalls, NamingPolicyCases, NoReducers),
     environmentLifecyclePolicy |-> Slice(LifecyclePolicyCalls, LifecyclePolicyCases, NoReducers),
     decommission |-> SliceOf(<<DecommissionCalls, DecommissionListCalls>>, <<DecommissionCases>>,
                              NoReducers),
     infrastructureComponent |-> Slice(HostCalls, HostCases, NoReducers),
     version |-> Slice(VersionCalls, VersionCases, VersionReducers),
     build |-> Slice(BuildCalls, BuildCases, NoReducers),
     deployment |-> Slice(DeploymentCalls, DeploymentCases, NoReducers)]
=============================================================================
