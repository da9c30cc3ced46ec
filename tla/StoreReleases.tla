---------------------------- MODULE StoreReleases ----------------------------
(***************************************************************************)
(* The slices behind the release pages: releases with their phases, gates, *)
(* dependencies, events and scope; go/no-go decisions; rollback; runbooks; *)
(* RAID; close-out; gate types, templates, event types, scope rules and    *)
(* enterprise membership.  See Effects for the vocabulary.                 *)
(***************************************************************************)
EXTENDS Effects

(* ---- releaseSlice ---- *)
ReleaseCalls ==
    [fetchReleases |-> "query", fetchRelease |-> "id", createRelease |-> "new",
     updateRelease |-> "write", transitionRelease |-> "write", deleteRelease |-> "write",
     fetchReleaseHistory |-> "of", fetchReleaseCalendar |-> "query",
     fetchReleaseTimeline |-> "query"]

ReleasePhaseCalls ==
    [fetchPhases |-> "of", createPhase |-> "write", updatePhase |-> "write",
     deletePhase |-> "write", fetchGates |-> "of", createGate |-> "write",
     updateGate |-> "write", deleteGate |-> "write", passGate |-> "write",
     failGate |-> "write", overrideGate |-> "write"]

ReleaseGateCalls ==
    [fetchGateEvidence |-> "of", addGateEvidence |-> "write",
     deleteGateEvidence |-> "write", createCriterion |-> "write",
     updateCriterion |-> "write", completeCriterion |-> "write",
     reopenCriterion |-> "write", deleteCriterion |-> "write"]

ReleaseScopeCalls ==
    [fetchDependencies |-> "of", addDependency |-> "write", removeDependency |-> "write",
     fetchDependencyAlerts |-> "of", acknowledgeAlert |-> "write",
     fetchReleaseEvents |-> "of", createReleaseEvent |-> "write",
     fetchReleaseChanges |-> "of", createReleaseChange |-> "write",
     updateReleaseChange |-> "write", deleteReleaseChange |-> "write",
     moveReleaseChange |-> "write", fetchBacklogChanges |-> "all",
     fetchReleaseChangeReleaseHistory |-> "of", fetchReleaseChangeStatusHistory |-> "of"]

(* clearDetail forgets one release's rows; the evidence, the backlog and   *)
(* the change histories are not among them.                                *)
ReleaseReducers ==
    [clearDetail |-> {Wipe(f) : f \in {"detail", "phases", "gates", "dependencies",
                                       "dependencyAlerts", "events", "changes", "history"}}]

ReleaseCases ==
    [fetchReleases |-> Guarded("aborted", Spins("listLoading", "error", {Put("list")})),
     fetchRelease |-> Spins("loading", "error", {Put("detail")}),
     createRelease |-> Settles({Add("list")}),
     updateRelease |-> Settles({Merge("list"), Same("detail")}),
     transitionRelease |-> Settles({Merge("list"), Same("detail")}),
     deleteRelease |-> Settles({Merge("list"), Forget("detail")}),
     fetchReleaseHistory |-> Settles({Put("history")}),
     fetchReleaseCalendar |-> Spins("loading", "error", {Put("calendar")}),
     fetchReleaseTimeline |-> Spins("loading", "error", {Put("timeline")})]

ReleasePhaseCases ==
    [fetchPhases |-> Settles({Put("phases")}),
     createPhase |-> Settles({Add("phases")}),
     updatePhase |-> Settles({Merge("phases")}),
     deletePhase |-> Settles({Merge("phases")}),
     fetchGates |-> Settles({Put("gates")}),
     createGate |-> Settles({Add("gates")}),
     updateGate |-> Settles({Merge("gates")}),
     deleteGate |-> Unseen,
     passGate |-> Settles({Merge("gates")}),
     failGate |-> Settles({Merge("gates")}),
     overrideGate |-> Settles({Merge("gates")})]

(* Evidence is kept per gate; criteria sit inside the gates already shown. *)
ReleaseGateCases ==
    [fetchGateEvidence |-> Settles({PutAt("gateEvidenceByGate")}),
     addGateEvidence |-> Settles({AddAt("gateEvidenceByGate")}),
     deleteGateEvidence |-> Settles({MergeAt("gateEvidenceByGate")}),
     createCriterion |-> Settles({Merge("gates")}),
     updateCriterion |-> Settles({Merge("gates")}),
     completeCriterion |-> Settles({Merge("gates")}),
     reopenCriterion |-> Settles({Merge("gates")}),
     deleteCriterion |-> Settles({Merge("gates")})]

ReleaseScopeCases ==
    [fetchDependencies |-> Settles({Put("dependencies")}),
     addDependency |-> Settles({Add("dependencies")}),
     removeDependency |-> Settles({Merge("dependencies")}),
     fetchDependencyAlerts |-> Settles({Put("dependencyAlerts")}),
     acknowledgeAlert |-> Settles({Merge("dependencyAlerts")}),
     fetchReleaseEvents |-> Settles({Put("events")}),
     createReleaseEvent |-> Settles({Add("events")}),
     fetchReleaseChanges |-> Settles({Put("changes")}),
     createReleaseChange |-> Settles({Add("changes")}),
     updateReleaseChange |-> Settles({Merge("changes")}),
     deleteReleaseChange |-> Settles({Merge("changes")}),
     moveReleaseChange |-> Settles({Merge("changes"), Merge("backlog")}),
     fetchBacklogChanges |-> Settles({Put("backlog")}),
     fetchReleaseChangeReleaseHistory |-> Settles({Put("changeReleaseHistory")}),
     fetchReleaseChangeStatusHistory |-> Settles({Put("changeStatusHistory")})]

(* ---- goNoGoSlice ---- *)
GoNoGoCalls ==
    [fetchDecisions |-> "query", fetchPerspectives |-> "query", recordDecision |-> "write",
     closeCondition |-> "write", createPerspective |-> "new", updatePerspective |-> "write"]

GoNoGoCases ==
    [fetchDecisions |-> Guarded("aborted", Spins("listLoading", "listError", {Put("decisions")})),
     fetchPerspectives |-> Guarded("aborted",
        Spins("perspectivesLoading", "perspectivesError", {Put("perspectives")})),
     recordDecision |-> Unseen,
     closeCondition |-> Case({NoErr("conditionError")}, {Merge("decisions")}, {Err("conditionError")}),
     createPerspective |-> Settles({Add("perspectives")}),
     updatePerspective |-> Settles({Merge("perspectives")})]

(* ---- rollbackSlice: every read wipes its field first ---- *)
RollbackCalls ==
    [fetchRollbackPlans |-> "of", upsertRollbackPlan |-> "write", agreeRollbackPlan |-> "write",
     deleteRollbackPlan |-> "write", fetchRollbackAuthorisations |-> "of",
     recordRollbackAuthorisation |-> "write", fetchRehearsals |-> "of",
     recordRehearsal |-> "write", fetchRollbackPolicy |-> "all", updateRollbackPolicy |-> "new"]

RollbackCases ==
    LET Fresh(flag, err, f) == Case({Up(flag), NoErr(err), Wipe(f)}, {Down(flag), Put(f)},
                                    {Down(flag), Err(err)})
    IN  [fetchRollbackPlans |-> Fresh("plansLoading", "plansError", "plans"),
         upsertRollbackPlan |-> Settles({Add("plans")}),
         agreeRollbackPlan |-> Settles({Merge("plans")}),
         deleteRollbackPlan |-> Settles({Merge("plans")}),
         fetchRollbackAuthorisations |->
            Fresh("authorisationsLoading", "authorisationsError", "authorisations"),
         recordRollbackAuthorisation |-> Settles({Add("authorisations")}),
         fetchRehearsals |-> Fresh("rehearsalsLoading", "rehearsalsError", "rehearsals"),
         recordRehearsal |-> Settles({Add("rehearsals")}),
         fetchRollbackPolicy |-> Fresh("policyLoading", "policyError", "policy"),
         updateRollbackPolicy |-> Case({}, {Put("policy"), NoErr("policyError")},
                                       {Err("policyError")})]

(* ---- runbookSlice: kept per plan and per release (plan k is release k's) ---- *)
RunbookCalls ==
    [fetchRunbooks |-> "of", fetchRunbook |-> "id", createRunbook |-> "write",
     updateRunbook |-> "write", deleteRunbook |-> "write", createTask |-> "write",
     updateTask |-> "write", deleteTask |-> "write", setPredecessors |-> "write",
     transitionTask |-> "write", fetchTaskEvents |-> "of"]

(* Every write answers with the whole runbook; a refused write asks for it *)
(* again.                                                                  *)
RunbookCases ==
    LET Composite == {PutAt("byPlan"), NoErrAt("refreshError"), MergeAt("plansByRelease")}
        Rewrites  == Rereading("fetchRunbook", Settles(Composite))
    IN  [fetchRunbooks |-> Case({Up("loading"), NoErrAt("listError")},
            {Down("loading"), PutAt("plansByRelease")}, {Down("loading"), ErrAt("listError")}),
         fetchRunbook |-> Case({}, Composite, {ErrAt("refreshError")}),
         createRunbook |-> Settles(Composite),
         updateRunbook |-> Rewrites,
         deleteRunbook |-> Rereading("fetchRunbook",
            Settles({CutAt("byPlan"), NoErrAt("refreshError"), MergeAt("plansByRelease")})),
         createTask |-> Rewrites, updateTask |-> Rewrites, deleteTask |-> Rewrites,
         setPredecessors |-> Rewrites, transitionTask |-> Rewrites,
         fetchTaskEvents |-> Unseen]

(* ---- raidSlice ---- *)
RaidCalls ==
    [fetchRaidItems |-> "of", createRaidItem |-> "write", updateRaidItem |-> "write",
     deleteRaidItem |-> "write", promoteRaidItem |-> "write", fetchRaidSummary |-> "of",
     fetchRaidConfig |-> "all", updateRaidConfig |-> "new"]

RaidReducers == [clearRaid |-> {Wipe("items"), Wipe("summary"), NoErr("error")}]

RaidCases ==
    [fetchRaidItems |-> Spins("loading", "error", {Put("items")}),
     createRaidItem |-> Settles({Add("items")}),
     updateRaidItem |-> Settles({Merge("items")}),
     deleteRaidItem |-> Settles({Merge("items")}),
     promoteRaidItem |-> Settles({Add("items")}),
     fetchRaidSummary |-> Settles({Put("summary")}),
     fetchRaidConfig |-> Settles({Put("config")}),
     updateRaidConfig |-> Settles({Put("config")})]

(* ---- closeoutSlice: a write, then a read of the same release ---- *)
CloseoutCalls ==
    [fetchCloseout |-> "of", declareStable |-> "write", withdrawStable |-> "write",
     confirmHandover |-> "write", withdrawHandover |-> "write"]

(* Mutant: one release at a time is kept, without its id.                  *)
CloseoutCases_OneSlot ==
    LET Reads == Settles({PutAt("byRelease")})
    IN  [fetchCloseout |-> Spins("loading", "error", {Put("byRelease")}),
         declareStable |-> Reads, withdrawStable |-> Reads,
         confirmHandover |-> Reads, withdrawHandover |-> Reads]

CloseoutCases ==
    LET Reads == Settles({PutAt("byRelease")})
    IN  [fetchCloseout |-> Spins("loading", "error", {PutAt("byRelease")}),
         declareStable |-> Reads, withdrawStable |-> Reads,
         confirmHandover |-> Reads, withdrawHandover |-> Reads]

(* ---- gateTypeSlice ---- *)
GateTypeCalls ==
    [fetchGateTypes |-> "all", createGateType |-> "new",
     updateGateType |-> "write", deleteGateType |-> "write"]

GateTypeCases ==
    [fetchGateTypes |-> Spins("loading", "error", {Put("gateTypes")}),
     createGateType |-> Settles({Add("gateTypes")}),
     updateGateType |-> Settles({Merge("gateTypes")}),
     deleteGateType |-> Settles({Merge("gateTypes")})]

(* ---- enterpriseMembershipSlice: kept per enterprise; no case clears the error ---- *)
EnterpriseMembershipCalls ==
    [fetchMemberships |-> "of", requestMembership |-> "write", acceptMembership |-> "write",
     rejectMembership |-> "write", withdrawMembership |-> "write", removeMembership |-> "write"]

EnterpriseMembershipCases ==
    LET Upsert == Settles({AddAt("byEnterprise")})
    IN  [fetchMemberships |-> Case({Up("loading")}, {Down("loading"), PutAt("byEnterprise")},
                                   {Down("loading"), Err("error")}),
         requestMembership |-> Upsert, acceptMembership |-> Upsert,
         rejectMembership |-> Upsert, withdrawMembership |-> Upsert,
         removeMembership |-> Upsert]

(* ---- releaseTemplateSlice ---- *)
ReleaseTemplateCalls ==
    [fetchReleaseTemplates |-> "all", fetchReleaseTemplate |-> "id",
     createReleaseTemplate |-> "new", updateReleaseTemplate |-> "write",
     deleteReleaseTemplate |-> "write", instantiateReleaseTemplate |-> "write"]

ReleaseTemplateReducers == [clearDetail |-> {Wipe("detail")}]

ReleaseTemplateCases ==
    [fetchReleaseTemplates |-> Spins("loading", "error", {Put("list")}),
     fetchReleaseTemplate |-> Spins("loading", "error", {Put("detail")}),
     createReleaseTemplate |-> Settles({Add("list")}),
     updateReleaseTemplate |-> Settles({Merge("list"), Same("detail")}),
     deleteReleaseTemplate |-> Settles({Merge("list"), Forget("detail")}),
     instantiateReleaseTemplate |-> Unseen]

(* ---- releaseEventTypeSlice ---- *)
ReleaseEventTypeCalls ==
    [fetchReleaseEventTypes |-> "all", createReleaseEventType |-> "new",
     updateReleaseEventType |-> "write", deleteReleaseEventType |-> "write"]

ReleaseEventTypeCases ==
    [fetchReleaseEventTypes |-> Spins("loading", "error", {Put("list")}),
     createReleaseEventType |-> Settles({Add("list")}),
     updateReleaseEventType |-> Settles({Merge("list")}),
     deleteReleaseEventType |-> Settles({Merge("list")})]

(* ---- scopeChangeRulesSlice (kindsLoaded, which nothing reads, is left out) ---- *)
ScopeChangeRulesCalls ==
    [fetchScopeChangeRules |-> "all", fetchScopeChangeKinds |-> "all",
     upsertScopeChangeRules |-> "new"]

ScopeChangeRulesCases ==
    LET Rules == Spins("loading", "error", {Put("rules"), Put("kinds")})
    IN  [fetchScopeChangeRules |-> Rules,
         fetchScopeChangeKinds |-> Settles({Put("kinds")}),
         upsertScopeChangeRules |-> Rules]

ReleaseStore ==
    [release |-> SliceOf(<<ReleaseCalls, ReleasePhaseCalls, ReleaseGateCalls, ReleaseScopeCalls>>,
                         <<ReleaseCases, ReleasePhaseCases, ReleaseGateCases, ReleaseScopeCases>>,
                         ReleaseReducers),
     goNoGo |-> Slice(GoNoGoCalls, GoNoGoCases, NoReducers),
     rollback |-> Slice(RollbackCalls, RollbackCases, NoReducers),
     runbook |-> Slice(RunbookCalls, RunbookCases, NoReducers),
     raid |-> Slice(RaidCalls, RaidCases, RaidReducers),
     closeout |-> Slice(CloseoutCalls, CloseoutCases, NoReducers),
     gateType |-> Slice(GateTypeCalls, GateTypeCases, NoReducers),
     enterpriseMembership |->
        Slice(EnterpriseMembershipCalls, EnterpriseMembershipCases, NoReducers),
     releaseTemplate |->
        Slice(ReleaseTemplateCalls, ReleaseTemplateCases, ReleaseTemplateReducers),
     releaseEventType |-> Slice(ReleaseEventTypeCalls, ReleaseEventTypeCases, NoReducers),
     scopeChangeRules |-> Slice(ScopeChangeRulesCalls, ScopeChangeRulesCases, NoReducers)]
=============================================================================
