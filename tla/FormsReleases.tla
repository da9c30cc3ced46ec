---------------------------- MODULE FormsReleases ----------------------------
(***************************************************************************)
(* The forms of a release: scope, phases, gates, evidence, waivers, RAID,  *)
(* decisions, rollback, runbook, review and close-out.                     *)
(***************************************************************************)
EXTENDS FormParts

(* ---- gates ---- *)
WaiverDialog == Dialog(
    Handlers("edit", "id", {"ok", "dismiss"}, "toast", {}, "ok"), "own", TRUE)
(* Mounted when it opens.                                                  *)
AddEvidenceDialog == Dialog(
    Handlers("edit", "mount", {"ok", "dismiss"}, "toast", {}, "ok"), "own", TRUE)
(* Mutant: Cancel keeps the notes of one gate for the next.                *)
GateDecisionDialog_KeepsFields == Dialog(
    Handlers("edit", "never", {"ok"}, "toast", {}, "ok"), "own", TRUE)
(* Mutant: Escape closes it while the decision is on its way.              *)
GateDecisionDialog_Dismissible == Dialog(
    Handlers("edit", "never", {"ok", "dismiss"}, "toast", {}, "ok"), "own", FALSE)
GateDecisionDialog == Dialog(
    Handlers("edit", "never", {"ok", "dismiss"}, "toast", {}, "ok"), "own", TRUE)
GateCreate == Handlers("create", "never", {"ok"}, "toast", {}, "ok")
GateCreateDialog == Dialog(GateCreate, "none", FALSE)
GateDelete == Command("toast")
GateTypeChange == Command("toast")
EvidenceDelete == Command("toast")
CriterionSave == Handlers("both", "opener", {}, "toast", {}, "ok")
CriterionDialog == Dialog(CriterionSave, "none", FALSE)
CriterionToggle == Command("toast")
CriterionDelete == Command("toast")

(* ---- phases, scope, systems, change requests ---- *)
PhaseSave == Handlers("both", "opener", {}, "toast", {}, "ok")
PhaseDialog == Dialog(PhaseSave, "none", FALSE)
PhaseDelete == Command("toast")
AddPhaseBookingDialog == Dialog(
    Handlers("edit", "never", {"ok", "dismiss"}, "toast", {}, "ok"), "own", TRUE)
BulkBookEnvironmentsDialog == Dialog(
    Handlers("create", "opener", {}, "toast", {}, "stays"), "own", FALSE)
ScopeItemDialog == Dialog(
    Handlers("both", "opener", {}, "toast", {}, "ok"), "own", TRUE)
MoveScopeItemDialog == Dialog(
    Handlers("edit", "opener", {}, "toast", {}, "ok"), "own", TRUE)
ScopeImportDialog == Dialog(
    Handlers("create", "never", {"dismiss"}, "toast", {}, "stays"), "own", TRUE)
ScopeItemDelete == Command("toast")
ReleaseSystemAdd == Dialog(
    Handlers("create", "opener", {}, "toast", {}, "ok"), "none", FALSE)
LinkChangeRequestDialog == Dialog(
    Handlers("create", "never", {"ok", "dismiss"}, "toast", {}, "ok"), "own", TRUE)
ChangeRequestUnlink == Command("toast")
ReleaseEventDrawer == Dialog(
    Handlers("create", "never", {"ok"}, "toast", {}, "ok"), "own", FALSE)
ReleaseFieldSave == Command("toast")
RequestAdmissionDialog == Dialog(
    Handlers("create", "opener", {"ok"}, "silent", {}, "always"), "none", FALSE)
MembershipDecision == Command("silent")

(* ---- RAID ---- *)
RaidItemSave == Handlers("both", "opener", {}, "toast", {}, "ok")
(* Mutant: Save is not disabled while it saves.                            *)
RaidItemDialog_NotDisabled == Dialog(RaidItemSave, "none", FALSE)
RaidItemDialog == Dialog(RaidItemSave, "own", FALSE)
RaidItemPromote == Command("toast")
RaidItemLinks == Command("silent")
RaidItemDelete == Command("toast")

(* ---- go/no-go and rollback ---- *)
RecordDecisionSave == Handlers("both", "opener", {}, "inline", {"open", "submit"}, "ok")
(* Mutant: the dialog closes on a click outside while it saves.            *)
RecordDecisionDialog_Backdrop == Dialog(RecordDecisionSave, "own", FALSE)
RecordDecisionDialog == Dialog(RecordDecisionSave, "own", TRUE)
(* Mounted when it opens, with a flag of its own each time.                *)
RollbackPlanDialog == Dialog(
    Handlers("both", "mount", {}, "inline", {"open", "submit"}, "ok"), "own", FALSE)
(* Mutant: opening does not remove the error of the last time.             *)
RecordRollbackDialog_KeepsError == Dialog(
    Handlers("create", "opener", {}, "inline", {"submit"}, "ok"), "own", FALSE)
(* Mutant: the flag is lowered on success only.                            *)
RecordRollbackDialog_NoFinally == Dialog(
    [Handlers("create", "opener", {}, "inline", {"open", "submit"}, "ok")
        EXCEPT !.frees = {"ok"}], "own", FALSE)
RecordRollbackDialog == Dialog(
    Handlers("create", "opener", {}, "inline", {"open", "submit"}, "ok"), "own", FALSE)
RollbackPlanAgree == Command("page")
RehearsalsPanel == Dialog(
    Handlers("create", "opener", {}, "inline", {"open", "submit"}, "ok"), "own", FALSE)

(* ---- runbook: these three are mounted when they open ---- *)
RunbookTaskDialog == Dialog(
    Handlers("both", "mount", {}, "inline", {"submit"}, "ok"), "none", FALSE)
RunbookPlanDialog == Dialog(
    Handlers("both", "mount", {}, "inline", {"submit"}, "ok"), "none", FALSE)
RunbookTransitionDialog == Dialog(
    Handlers("edit", "mount", {}, "inline", {"submit"}, "ok"), "own", FALSE)
(* One transition of a task at a time, remembered in a ref.                *)
RunbookAction == BusyCommand("row", "page")

(* ---- review and close-out ---- *)
CiteIncidentDialog == Dialog(
    Handlers("edit", "opener", {}, "inline", {"open", "submit"}, "ok"), "own", FALSE)
PirActionDialog == Dialog(
    Handlers("both", "opener", {}, "inline", {"open", "submit"}, "ok"), "own", FALSE)
PirFindingDialog == Dialog(
    Handlers("both", "opener", {}, "inline", {"open", "submit"}, "ok"), "own", FALSE)
PirSummary == Dialog(
    Handlers("page", "live", {}, "page", {}, "stays"), "own", FALSE)
PirDelete == Command("page")
CloseoutNote == Dialog(
    Handlers("edit", "never", {"ok"}, "inline", {"open", "submit"}, "ok"), "own", TRUE)

(* ---- the release itself, and templates ---- *)
ReleaseSave == Handlers("both", "live", {}, "toast", {}, "ok")
ReleaseForm == Dialog(ReleaseSave, "none", FALSE)
ReleaseDelete == Command("toast")
ReleaseTemplateSave == Handlers("page", "live", {}, "toast", {}, "stays")
ReleaseTemplateForm == Dialog(ReleaseTemplateSave, "own", FALSE)
(* A success navigates away and leaves `instantiating` up.                 *)
TemplateInstantiate == Dialog(
    [Handlers("edit", "opener", {}, "toast", {}, "ok") EXCEPT !.frees = {"failed"}],
    "own", FALSE)

ReleaseHeld ==
    [waiver |-> WaiverDialog, evidence |-> AddEvidenceDialog,
     gateDecision |-> GateDecisionDialog, phaseBooking |-> AddPhaseBookingDialog,
     scopeItem |-> ScopeItemDialog, moveScopeItem |-> MoveScopeItemDialog,
     scopeImport |-> ScopeImportDialog, linkChangeRequest |-> LinkChangeRequestDialog,
     recordDecision |-> RecordDecisionDialog, closeout |-> CloseoutNote]
ReleaseSingle ==
    [bulkBook |-> BulkBookEnvironmentsDialog, releaseEvent |-> ReleaseEventDrawer,
     raidItem |-> RaidItemDialog,
     recordRollback |-> RecordRollbackDialog, rehearsals |-> RehearsalsPanel,
     runbookAction |-> RunbookAction, citeIncident |-> CiteIncidentDialog,
     pirAction |-> PirActionDialog, pirFinding |-> PirFindingDialog,
     pirSummary |-> PirSummary, releaseTemplate |-> ReleaseTemplateForm,
     templateInstantiate |-> TemplateInstantiate]
ReleaseLoose ==
    [gateCreate |-> GateCreateDialog, gateDelete |-> GateDelete,
     gateTypeChange |-> GateTypeChange, evidenceDelete |-> EvidenceDelete,
     criterion |-> CriterionDialog, criterionToggle |-> CriterionToggle,
     criterionDelete |-> CriterionDelete, phase |-> PhaseDialog,
     phaseDelete |-> PhaseDelete, scopeItemDelete |-> ScopeItemDelete,
     releaseSystem |-> ReleaseSystemAdd, unlink |-> ChangeRequestUnlink,
     releaseField |-> ReleaseFieldSave, admission |-> RequestAdmissionDialog,
     membership |-> MembershipDecision, raidPromote |-> RaidItemPromote,
     raidLinks |-> RaidItemLinks, raidDelete |-> RaidItemDelete,
     rollbackPlan |-> RollbackPlanDialog, rollbackAgree |-> RollbackPlanAgree,
     runbookTask |-> RunbookTaskDialog, runbookPlan |-> RunbookPlanDialog,
     runbookTransition |-> RunbookTransitionDialog,
     pirDelete |-> PirDelete, release |-> ReleaseForm, releaseDelete |-> ReleaseDelete]
=============================================================================
