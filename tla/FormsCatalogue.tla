---------------------------- MODULE FormsCatalogue ----------------------------
(***************************************************************************)
(* The forms of the catalogue: systems and their components, dependencies  *)
(* and imports, and infrastructure components.                             *)
(***************************************************************************)
EXTENDS FormParts

(* ---- systems ---- *)
SystemSave == Handlers("both", "opener", {}, "inline", {"open"}, "ok")
SystemDialog == Dialog(SystemSave, "store", FALSE)
SystemDelete == Handlers("confirm", "opener", {}, "toast", {}, "ok")
SystemDeleteDialog == Dialog(SystemDelete, "none", FALSE)
(* The edit mode survives a change of route; Save is disabled by the       *)
(* slice's loading flag, which the read of the components lowers too.      *)
SystemUpdate == Handlers("page", "live", {}, "inline", {}, "stays")
SystemEdit == Dialog(SystemUpdate, "store", FALSE)
SubSystemSave == Handlers("both", "opener", {}, "inline", {"open"}, "ok")
SubSystemDialog == Dialog(SubSystemSave, "store", FALSE)
(* No catch: a refusal closes the question and is never shown.             *)
SubSystemDelete == Handlers("confirm", "opener", {}, "silent", {}, "always")
SubSystemDeleteDialog == Dialog(SubSystemDelete, "none", FALSE)

(* ---- dependencies ---- *)
SystemDependencyCreate == Handlers("create", "opener", {}, "inline", {"open"}, "ok")
SystemDependencyDialog == Dialog(SystemDependencyCreate, "store", FALSE)
SystemDependencyDelete == Handlers("confirm", "opener", {}, "silent", {}, "always")
SystemDependencyDeleteDialog == Dialog(SystemDependencyDelete, "none", FALSE)
SystemDependencyUpdate == Handlers("edit", "opener", {}, "inline", {"open"}, "ok")
SystemDependencyEditDialog == Dialog(SystemDependencyUpdate, "store", FALSE)
ComponentDependencyCreate == Handlers("create", "opener", {}, "inline", {"open"}, "ok")
ComponentDependencyDialog == Dialog(ComponentDependencyCreate, "store", FALSE)
ComponentDependencyUpdate == Handlers("edit", "opener", {}, "inline", {"open"}, "ok")
ComponentDependencyEditDialog == Dialog(ComponentDependencyUpdate, "none", FALSE)
ComponentDependencyDelete == Handlers("confirm", "opener", {}, "toast", {}, "ok")
ComponentDependencyDeleteDialog == Dialog(ComponentDependencyDelete, "none", FALSE)
EndpointAdd == Dialog(
    Handlers("edit", "opener", {"ok"}, "inline", {"open", "submit"}, "stays"), "own", FALSE)
EndpointDelete == Command("toast")

(* ---- imports and scans ---- *)
DockerImport == Handlers("create", "opener", {}, "inline", {"open", "submit"}, "stays")
DockerImportDialog == Dialog(DockerImport, "own", FALSE)
TerraformImport == Handlers("create", "opener", {}, "inline", {"open", "submit"}, "stays")
TerraformImportDialog == Dialog(TerraformImport, "own", FALSE)
ScanRepositoryDialog == Dialog(
    Handlers("create", "never", {"dismiss"}, "inline", {"submit", "dismiss"}, "stays"),
    "own", TRUE)
DriftDialog == Dialog(
    Handlers("create", "never", {"dismiss"}, "inline", {"submit", "dismiss"}, "stays"),
    "own", TRUE)

(* ---- infrastructure ---- *)
InfrastructureComponentSave == Handlers("both", "opener", {}, "inline", {"open"}, "ok")
InfrastructureComponentDialog == Dialog(InfrastructureComponentSave, "store", FALSE)
InfrastructureComponentDelete ==
    Handlers("confirm", "opener", {}, "inline", {"submit", "dismiss"}, "ok")
InfrastructureComponentDeleteDialog == Dialog(InfrastructureComponentDelete, "none", FALSE)
ComponentTypeDialog == Dialog(
    Handlers("both", "opener", {}, "inline", {"open", "submit"}, "ok"), "own", FALSE)
ComponentTypeDelete == Handlers("confirm", "opener", {}, "inline", {"open", "submit"}, "ok")
ComponentTypeDeleteDialog == Dialog(ComponentTypeDelete, "none", FALSE)

CatalogueHeld == [scanRepository |-> ScanRepositoryDialog, drift |-> DriftDialog]
CatalogueSingle ==
    [endpointAdd |-> EndpointAdd, dockerImport |-> DockerImportDialog,
     terraformImport |-> TerraformImportDialog, componentType |-> ComponentTypeDialog]
CatalogueLoose ==
    [system |-> SystemDialog, systemDelete |-> SystemDeleteDialog,
     systemEdit |-> SystemEdit, subSystem |-> SubSystemDialog,
     subSystemDelete |-> SubSystemDeleteDialog,
     systemDependency |-> SystemDependencyDialog,
     systemDependencyDelete |-> SystemDependencyDeleteDialog,
     systemDependencyEdit |-> SystemDependencyEditDialog,
     componentDependency |-> ComponentDependencyDialog,
     componentDependencyEdit |-> ComponentDependencyEditDialog,
     componentDependencyDelete |-> ComponentDependencyDeleteDialog,
     endpointDelete |-> EndpointDelete,
     infraComponent |-> InfrastructureComponentDialog,
     infraComponentDelete |-> InfrastructureComponentDeleteDialog,
     componentTypeDelete |-> ComponentTypeDeleteDialog]
=============================================================================
