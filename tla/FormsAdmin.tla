------------------------------ MODULE FormsAdmin ------------------------------
(***************************************************************************)
(* The forms of administration: vocabularies, templates, settings, users,  *)
(* tenants, groups and keys.                                               *)
(***************************************************************************)
EXTENDS FormParts

(* ---- lifecycle templates, booking and gate types, perspectives ---- *)
LifecycleTemplateSave == Handlers("both", "opener", {}, "inline", {"open", "submit"}, "ok")
LifecycleTemplateDialog == Dialog(LifecycleTemplateSave, "own", FALSE)
LifecycleTemplateDelete == Handlers("confirm", "opener", {}, "inline", {"open", "submit"}, "ok")
LifecycleTemplateDeleteDialog == Dialog(LifecycleTemplateDelete, "none", FALSE)
BookingTypeCreate == Handlers("create", "never", {"ok"}, "inline", {"submit"}, "ok")
BookingTypeCreateDialog == Dialog(BookingTypeCreate, "none", FALSE)
BookingTypeUpdate == Handlers("edit", "opener", {}, "inline", {"open", "submit"}, "ok")
BookingTypeEditDialog == Dialog(BookingTypeUpdate, "none", FALSE)
BookingTypeDelete == Handlers("confirm", "opener", {}, "inline", {"open", "submit"}, "ok")
BookingTypeDeleteDialog == Dialog(BookingTypeDelete, "none", FALSE)
GateTypeCreate == Handlers("create", "never", {"ok"}, "inline", {"submit"}, "ok")
GateTypeCreateDialog == Dialog(GateTypeCreate, "none", FALSE)
GateTypeUpdate == Handlers("edit", "opener", {}, "inline", {"open", "submit"}, "ok")
GateTypeEditDialog == Dialog(GateTypeUpdate, "none", FALSE)
GateTypeDelete == Handlers("confirm", "opener", {}, "inline", {"submit"}, "ok")
GateTypeDeleteDialog == Dialog(GateTypeDelete, "none", FALSE)
PerspectiveCreate == Handlers("create", "never", {"ok"}, "inline", {"submit"}, "ok")
PerspectiveCreateDialog == Dialog(PerspectiveCreate, "none", FALSE)
PerspectiveUpdate == Handlers("edit", "opener", {}, "inline", {"open", "submit"}, "ok")
PerspectiveEditDialog == Dialog(PerspectiveUpdate, "none", FALSE)
ReleaseEventTypeSave == Handlers("both", "opener", {}, "toast", {}, "ok")
ReleaseEventTypeDialog == Dialog(ReleaseEventTypeSave, "own", FALSE)
ReleaseEventTypeDelete == Command("toast")
CustomFieldDefinitionDialog == Dialog(
    Handlers("both", "opener", {}, "inline", {"open", "submit"}, "ok"), "none", FALSE)
CustomFieldDefinitionDelete == Command("silent")

(* ---- settings pages ---- *)
RollbackPolicyPanel == Settings("store", "page", {})
RaidSettings == Settings("own", "toast", {})
TenantScopeChangeRules == Settings("own", "toast", {})
TenantSettings == Settings("store", "inline", {"submit"})
ApiKeyCreateDialog == Dialog(
    Handlers("create", "never", {"dismiss"}, "toast", {}, "stays"), "own", TRUE)
ApiKeyRevoke == Command("toast")
ImportCommit == BusyCommand("last", "page")

(* ---- users, tenants, groups ---- *)
UserCreate == Handlers("create", "never", {"ok"}, "inline", {"ok"}, "ok")
UserCreateDialog == Dialog(UserCreate, "none", FALSE)
UserUpdate == Handlers("edit", "opener", {}, "inline", {"open"}, "ok")
UserEditDialog == Dialog(UserUpdate, "none", FALSE)
UserRoleChange == Command("toast")
UserReactivate == Command("silent")
TenantCreate == Handlers("create", "never", {"ok"}, "inline", {"ok"}, "ok")
TenantCreateDialog == Dialog(TenantCreate, "none", FALSE)
TenantDisable == Command("toast")
(* Saves the user, then the password.                                      *)
TenantUserUpdate == Handlers("edit", "opener", {}, "inline", {"open"}, "ok")
TenantUserEditDialog == Dialog(TenantUserUpdate, "none", FALSE)
TenantUserCreate == Handlers("create", "never", {"ok"}, "inline", {"ok"}, "ok")
TenantUserCreateDialog == Dialog(TenantUserCreate, "none", FALSE)
TenantUserRole == Command("toast")
UserGroupCreate == Handlers("create", "never", {"ok"}, "inline", {"open", "submit"}, "ok")
UserGroupCreateDialog == Dialog(UserGroupCreate, "none", FALSE)
UserGroupUpdate == Handlers("edit", "opener", {}, "inline", {"open", "submit"}, "ok")
UserGroupEditDialog == Dialog(UserGroupUpdate, "none", FALSE)
UserGroupDelete == Handlers("confirm", "opener", {}, "inline", {"open", "submit"}, "ok")
UserGroupDeleteDialog == Dialog(UserGroupDelete, "none", FALSE)
UserGroupMembers == Dialog(
    Handlers("page", "never", {"ok"}, "inline", {"submit"}, "stays"), "none", FALSE)

AdminHeld == [apiKey |-> ApiKeyCreateDialog]
AdminSingle ==
    [lifecycleTemplate |-> LifecycleTemplateDialog,
     releaseEventType |-> ReleaseEventTypeDialog, raidSettings |-> RaidSettings,
     scopeChangeRules |-> TenantScopeChangeRules]
AdminLoose ==
    [lifecycleTemplateDelete |-> LifecycleTemplateDeleteDialog,
     bookingTypeCreate |-> BookingTypeCreateDialog, bookingTypeEdit |-> BookingTypeEditDialog,
     bookingTypeDelete |-> BookingTypeDeleteDialog, gateTypeCreate |-> GateTypeCreateDialog,
     gateTypeEdit |-> GateTypeEditDialog, gateTypeDelete |-> GateTypeDeleteDialog,
     perspectiveCreate |-> PerspectiveCreateDialog, perspectiveEdit |-> PerspectiveEditDialog,
     releaseEventTypeDelete |-> ReleaseEventTypeDelete,
     customField |-> CustomFieldDefinitionDialog,
     customFieldDelete |-> CustomFieldDefinitionDelete,
     rollbackPolicy |-> RollbackPolicyPanel, tenantSettings |-> TenantSettings,
     apiKeyRevoke |-> ApiKeyRevoke, import |-> ImportCommit,
     userCreate |-> UserCreateDialog, userEdit |-> UserEditDialog,
     userRole |-> UserRoleChange, userReactivate |-> UserReactivate,
     tenantCreate |-> TenantCreateDialog, tenantDisable |-> TenantDisable,
     tenantUserEdit |-> TenantUserEditDialog, tenantUserCreate |-> TenantUserCreateDialog,
     tenantUserRole |-> TenantUserRole, userGroupCreate |-> UserGroupCreateDialog,
     userGroupEdit |-> UserGroupEditDialog, userGroupDelete |-> UserGroupDeleteDialog,
     userGroupMembers |-> UserGroupMembers]
=============================================================================
