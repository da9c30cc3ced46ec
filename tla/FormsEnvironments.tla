-------------------------- MODULE FormsEnvironments --------------------------
(***************************************************************************)
(* The forms of environments: the register, an environment's page, its     *)
(* handover and decommission, groups, requests and the policies.           *)
(***************************************************************************)
EXTENDS FormParts

(* ---- the register ---- *)
EnvironmentSave == Handlers("both", "opener", {}, "inline", {"open"}, "ok")
EnvironmentDialog == Dialog(EnvironmentSave, "store", FALSE)
EnvironmentDelete == Handlers("confirm", "opener", {}, "toast", {}, "ok")
EnvironmentDeleteDialog == Dialog(EnvironmentDelete, "none", FALSE)

(* ---- an environment's page ---- *)
(* The edit mode survives a change of route; Save is disabled by the       *)
(* slice's loading flag.                                                   *)
EnvironmentUpdate == Handlers("page", "live", {}, "inline", {}, "stays")
EnvironmentEdit == Dialog(EnvironmentUpdate, "store", FALSE)
EnvironmentSystemAdd == Handlers("create", "opener", {}, "inline", {"open"}, "ok")
EnvironmentSystemDialog == Dialog(EnvironmentSystemAdd, "store", FALSE)
EnvironmentSystemRemove == Handlers("confirm", "opener", {}, "toast", {}, "ok")
EnvironmentSystemRemoveDialog == Dialog(EnvironmentSystemRemove, "none", FALSE)
VersionRecord == Handlers("create", "opener", {"ok"}, "inline", {"open", "ok"}, "ok")
VersionRecordDialog == Dialog(VersionRecord, "store", FALSE)
(* These two are mounted when they open.                                   *)
EnvSubsystemHostsDialog == Dialog(
    Handlers("edit", "mount", {}, "inline", {"open", "submit"}, "ok"), "own", FALSE)
ComponentTypeAssignDialog == Dialog(
    Handlers("edit", "mount", {}, "inline", {"open", "submit"}, "ok"), "own", FALSE)
(* An environment without hours of its own leaves the last one's in place. *)
OperatingHours == Dialog(
    Handlers("page", "value", {}, "inline", {"submit"}, "stays"), "none", FALSE)
HandoverSection == Dialog(
    Handlers("edit", "live", {"dismiss"}, "inline", {"submit", "dismiss"}, "ok"),
    "own", TRUE)

(* ---- decommission: errors go to the panel behind the dialogs ---- *)
(* `signing` holds one step: signing a second one forgets the first.       *)
DecommissionSign == BusyCommand("last", "page")
DecommissionDecide == BusyCommand("own", "page")
DecommissionExtend == Handlers("edit", "never", {"ok"}, "page", {}, "ok")
DecommissionExtendDialog == Dialog(DecommissionExtend, "own", FALSE)
DecommissionCancel == Handlers("edit", "never", {"ok"}, "page", {}, "ok")
DecommissionCancelDialog == Dialog(DecommissionCancel, "own", FALSE)
DecommissionInitiate == Handlers("edit", "never", {"ok"}, "page", {}, "ok")
DecommissionInitiateDialog == Dialog(DecommissionInitiate, "own", FALSE)

(* ---- groups ---- *)
EnvironmentGroupCreate == Handlers("create", "never", {"ok"}, "inline", {"open", "submit"}, "ok")
EnvironmentGroupCreateDialog == Dialog(EnvironmentGroupCreate, "none", FALSE)
EnvironmentGroupUpdate == Handlers("edit", "opener", {}, "inline", {"open", "submit"}, "ok")
EnvironmentGroupEditDialog == Dialog(EnvironmentGroupUpdate, "none", FALSE)
EnvironmentGroupDelete == Handlers("confirm", "opener", {}, "inline", {"open", "submit"}, "ok")
EnvironmentGroupDeleteDialog == Dialog(EnvironmentGroupDelete, "none", FALSE)
EnvironmentGroupMembers == Dialog(
    Handlers("page", "never", {"ok"}, "inline", {"submit"}, "stays"), "none", FALSE)

(* ---- requests ---- *)
EnvironmentRequestForm == Dialog(
    Handlers("create", "mount", {}, "inline", {"submit"}, "ok"), "own", FALSE)
EnvironmentRequestTransition == BusyCommand("own", "page")
(* Seeded when the stored group changes: two requests without one share    *)
(* what was picked.                                                        *)
(* fetchEnvironmentRequest clears `current`, which takes the page off the  *)
(* screen and empties the picker: after a save and after a transition too. *)
RequestGroupSave == OffScreen(
    Handlers("page", "read", {}, "inline", {"submit", "ok"}, "stays"), {"own", "other"})
RequestGroupPicker == Dialog(RequestGroupSave, "own", FALSE)

(* ---- tiers and policies ---- *)
TierCreate == Handlers("create", "never", {"ok"}, "inline", {"submit"}, "ok")
TierCreateDialog == Dialog(TierCreate, "none", FALSE)
TierUpdate == Handlers("edit", "opener", {}, "inline", {"open", "submit"}, "ok")
TierEditDialog == Dialog(TierUpdate, "none", FALSE)
TierDelete == Handlers("confirm", "opener", {}, "inline", {"submit"}, "ok")
TierDeleteDialog == Dialog(TierDelete, "none", FALSE)
NamingPolicyPanel == Settings("store", "page", {})
LifecyclePolicySave == Handlers("settings", "live", {}, "page", {}, "stays")
LifecyclePolicyPanel == Dialog(LifecyclePolicySave, "store", FALSE)
DecommissionStepSave == Handlers("both", "opener", {}, "inline", {"open", "submit"}, "ok")
DecommissionStepDialog == Dialog(DecommissionStepSave, "none", FALSE)
DecommissionStepDelete == Handlers("confirm", "opener", {}, "inline", {"submit"}, "ok")
DecommissionStepDeleteDialog == Dialog(DecommissionStepDelete, "none", FALSE)

EnvironmentHeld == [handover |-> HandoverSection]
EnvironmentSingle ==
    [decomDecide |-> DecommissionDecide,
     decomExtend |-> DecommissionExtendDialog, decomCancel |-> DecommissionCancelDialog,
     decomInitiate |-> DecommissionInitiateDialog,
     requestTransition |-> EnvironmentRequestTransition, requestGroup |-> RequestGroupPicker]
EnvironmentLoose ==
    [envHosts |-> EnvSubsystemHostsDialog, envComponentType |-> ComponentTypeAssignDialog,
     environment |-> EnvironmentDialog, environmentDelete |-> EnvironmentDeleteDialog,
     environmentEdit |-> EnvironmentEdit, envSystem |-> EnvironmentSystemDialog,
     envSystemRemove |-> EnvironmentSystemRemoveDialog,
     versionRecord |-> VersionRecordDialog,
     decomSign |-> DecommissionSign, operatingHours |-> OperatingHours,
     envGroupCreate |-> EnvironmentGroupCreateDialog,
     envGroupEdit |-> EnvironmentGroupEditDialog,
     envGroupDelete |-> EnvironmentGroupDeleteDialog,
     envGroupMembers |-> EnvironmentGroupMembers, requestForm |-> EnvironmentRequestForm,
     tierCreate |-> TierCreateDialog, tierEdit |-> TierEditDialog,
     tierDelete |-> TierDeleteDialog, namingPolicy |-> NamingPolicyPanel,
     lifecyclePolicy |-> LifecyclePolicyPanel, decomStep |-> DecommissionStepDialog,
     decomStepDelete |-> DecommissionStepDeleteDialog]
=============================================================================
