----------------------------- MODULE FormsProofs -----------------------------
(***************************************************************************)
(* What the web client's forms promise, for any number of items, openings  *)
(* and submissions and for every form of the tables: the runs check the    *)
(* same properties for a few.  Each proof goes from the table (the classes *)
(* of the first part) to the behaviour: an invariant for the forms of one  *)
(* class, kept by every action.                                            *)
(***************************************************************************)
EXTENDS Forms, TLAPS

-----------------------------------------------------------------------------
(* What the tables say of every form, as far as the properties need it.    *)

(* The entry d of form f, other than what the sets of exceptions allow: it *)
(* reports refusals, keeps to one item, clears its errors, and is not      *)
(* filled again by a background read.                                      *)
KeepsToItem(h) ==
    \/ h.kind \in {"create", "settings"} /\ h.seed \notin {"read", "value"}
    \/ h.seed = "id"
    \/ h.kind /= "page" /\ h.seed \in {"opener", "live", "mount"}
    \/ /\ h.kind /= "page" /\ h.seed = "never"
       /\ {"ok", "dismiss"} \subseteq h.clears /\ h.closes \in {"ok", "stays"}

(* Its flag disables submit and every way to dismiss: FormDialog's         *)
(* `submitting`, and that of every dialog that guards its onClose.         *)
HoldsOn(d) ==
    /\ d.busy = "own" /\ d.holds = TRUE
    /\ d.does.kind \notin {"page", "settings"} /\ d.does.rereads = {}
    /\ d.does.closes /= "atonce"

ClearsErrors(d) ==
    \/ d.does.fails /= "inline"
    \/ "open" \in d.does.resets /\ (d.does.kind = "page" => d.does.seed \in {"id", "read"})
    \/ d.does.seed = "mount" /\ d.does.kind /= "page"
    \/ d.does.kind = "settings" /\ d.does.closes = "stays"
    \/ /\ HoldsOn(d) /\ {"submit", "dismiss"} \subseteq d.does.resets
       /\ d.does.closes \in {"ok", "stays"}

Reports(f, d) == f \notin NeverReports => d.does.fails /= "silent"
OneItem(f, d) == f \notin CarriesOver => KeepsToItem(d.does)
FreshError(f, d) == f \notin KeepsErrors => ClearsErrors(d)
NoReseed(f, d) ==
    f \notin Reseeds => d.does.seed \notin {"live", "read", "value"}
                            /\ "own" \notin d.does.rereads
Fit(f, d) == Reports(f, d) /\ OneItem(f, d) /\ FreshError(f, d) /\ NoReseed(f, d)

(* Its submit button is disabled by a flag that only its own calls raise   *)
(* and that no new opening resets while one of them is in flight.          *)
SubmitsOnce(d) == d.busy \in {"own", "row"} /\ (d.does.seed = "mount" => HoldsOn(d))
LowersFlag(d) == d.does.frees = {"ok", "failed"}

(* What the class of a form promises of its entry.                         *)
HeldOk(f, d) == Fit(f, d) /\ HoldsOn(d) /\ LowersFlag(d)
SingleOk(f, d) == /\ Fit(f, d) /\ SubmitsOnce(d)
                  /\ f /= "templateInstantiate" => LowersFlag(d)

(* Every entry of the tables keeps the promises of its class.             *)
LEMMA ReleaseForms ==
    /\ \A f \in DOMAIN ReleaseHeld : HeldOk(f, ReleaseHeld[f])
    /\ \A f \in DOMAIN ReleaseSingle : SingleOk(f, ReleaseSingle[f])
    /\ \A f \in DOMAIN ReleaseLoose : Fit(f, ReleaseLoose[f])
<1>1. \A f \in DOMAIN ReleaseHeld : HeldOk(f, ReleaseHeld[f])
    <2> USE DEF ReleaseHeld, WaiverDialog, Dialog, Handlers, AddEvidenceDialog,
                GateDecisionDialog, AddPhaseBookingDialog, ScopeItemDialog,
                MoveScopeItemDialog, ScopeImportDialog, LinkChangeRequestDialog,
                RecordDecisionDialog, CloseoutNote, RecordDecisionSave
    <2>1. \A f \in DOMAIN ReleaseHeld : HoldsOn(ReleaseHeld[f]) /\ LowersFlag(ReleaseHeld[f])
        BY DEF HoldsOn, LowersFlag
    <2>2. \A f \in DOMAIN ReleaseHeld :
              Reports(f, ReleaseHeld[f]) /\ NoReseed(f, ReleaseHeld[f])
        BY DEF Reports, NeverReports, NoReseed, Reseeds
    <2>3. \A f \in DOMAIN ReleaseHeld : OneItem(f, ReleaseHeld[f])
        BY DEF OneItem, CarriesOver, KeepsToItem
    <2>4. \A f \in DOMAIN ReleaseHeld : FreshError(f, ReleaseHeld[f])
        BY DEF FreshError, KeepsErrors, ClearsErrors, HoldsOn
    <2> HIDE DEF ReleaseHeld
    <2> QED BY <2>1, <2>2, <2>3, <2>4 DEF HeldOk, Fit
<1>2. \A f \in DOMAIN ReleaseSingle : SingleOk(f, ReleaseSingle[f])
    BY DEF SingleOk, Fit, Reports, OneItem, FreshError, NoReseed, NeverReports, CarriesOver,
           KeepsErrors, Reseeds, KeepsToItem, ClearsErrors, LowersFlag, SubmitsOnce,
           ReleaseSingle, BulkBookEnvironmentsDialog, Dialog, Handlers,
           ReleaseEventDrawer, RaidItemDialog, RecordRollbackDialog,
           RehearsalsPanel, RunbookAction, BusyCommand, CiteIncidentDialog,
           PirActionDialog, PirFindingDialog, PirSummary, ReleaseTemplateForm,
           TemplateInstantiate, RaidItemSave, ReleaseTemplateSave
<1>3. \A f \in DOMAIN ReleaseLoose : Fit(f, ReleaseLoose[f])
    <2> USE DEF ReleaseLoose, GateCreateDialog, Dialog, GateDelete, Command,
                GateTypeChange, EvidenceDelete, CriterionDialog, CriterionToggle,
                CriterionDelete, PhaseDialog, PhaseDelete, ScopeItemDelete,
                ReleaseSystemAdd, Handlers, ChangeRequestUnlink, ReleaseFieldSave,
                RequestAdmissionDialog, MembershipDecision, RaidItemPromote,
                RaidItemLinks, RaidItemDelete, RollbackPlanDialog, RollbackPlanAgree,
                RunbookTaskDialog,
                RunbookPlanDialog, RunbookTransitionDialog, PirDelete, ReleaseForm,
                ReleaseDelete, GateCreate, CriterionSave, PhaseSave, ReleaseSave
    <2>1. \A f \in DOMAIN ReleaseLoose : Reports(f, ReleaseLoose[f])
        BY DEF Reports, NeverReports
    <2>2. \A f \in DOMAIN ReleaseLoose : OneItem(f, ReleaseLoose[f])
        BY DEF OneItem, CarriesOver, KeepsToItem
    <2>3. \A f \in DOMAIN ReleaseLoose : FreshError(f, ReleaseLoose[f])
        <3>1. \A f \in DOMAIN ReleaseLoose \ KeepsErrors :
                  \/ ReleaseLoose[f].does.fails /= "inline"
                  \/ "open" \in ReleaseLoose[f].does.resets
                  \/ ReleaseLoose[f].does.seed = "mount"
            BY DEF KeepsErrors
        <3>2. \A f \in DOMAIN ReleaseLoose \ KeepsErrors :
                  ReleaseLoose[f].does.kind = "page" => ReleaseLoose[f].does.fails /= "inline"
            BY DEF KeepsErrors
        <3> HIDE DEF ReleaseLoose
        <3> QED BY <3>1, <3>2 DEF FreshError, ClearsErrors
    <2>4. \A f \in DOMAIN ReleaseLoose : NoReseed(f, ReleaseLoose[f])
        BY DEF NoReseed, Reseeds
    <2> HIDE DEF ReleaseLoose
    <2> QED BY <2>1, <2>2, <2>3, <2>4 DEF Fit
<1> QED BY <1>1, <1>2, <1>3

LEMMA EnvironmentForms ==
    /\ \A f \in DOMAIN EnvironmentHeld : HeldOk(f, EnvironmentHeld[f])
    /\ \A f \in DOMAIN EnvironmentSingle : SingleOk(f, EnvironmentSingle[f])
    /\ \A f \in DOMAIN EnvironmentLoose : Fit(f, EnvironmentLoose[f])
<1>1. \A f \in DOMAIN EnvironmentHeld : HeldOk(f, EnvironmentHeld[f])
    BY DEF HeldOk, Fit, Reports, OneItem, FreshError, NoReseed, NeverReports, CarriesOver,
           KeepsErrors, Reseeds, KeepsToItem, ClearsErrors, LowersFlag, HoldsOn,
           EnvironmentHeld, HandoverSection, Dialog, Handlers
<1>2. \A f \in DOMAIN EnvironmentSingle : SingleOk(f, EnvironmentSingle[f])
    BY DEF SingleOk, Fit, Reports, OneItem, FreshError, NoReseed, NeverReports, CarriesOver,
           KeepsErrors, Reseeds, KeepsToItem, ClearsErrors, LowersFlag, SubmitsOnce,
           EnvironmentSingle, Dialog, Handlers, OffScreen, DecommissionDecide, BusyCommand,
           DecommissionExtendDialog, DecommissionCancelDialog,
           DecommissionInitiateDialog, EnvironmentRequestTransition, RequestGroupPicker,
           DecommissionExtend, DecommissionCancel, DecommissionInitiate,
           RequestGroupSave
<1>3. \A f \in DOMAIN EnvironmentLoose : Fit(f, EnvironmentLoose[f])
    <2> USE DEF EnvironmentLoose, EnvSubsystemHostsDialog, ComponentTypeAssignDialog,
                EnvironmentDialog, Dialog, EnvironmentDeleteDialog,
                EnvironmentEdit, EnvironmentSystemDialog, EnvironmentSystemRemoveDialog,
                VersionRecordDialog, DecommissionSign, BusyCommand, OperatingHours,
                Handlers, EnvironmentGroupCreateDialog, EnvironmentGroupEditDialog,
                EnvironmentGroupDeleteDialog, EnvironmentGroupMembers,
                EnvironmentRequestForm, TierCreateDialog, TierEditDialog,
                TierDeleteDialog, NamingPolicyPanel, Settings, LifecyclePolicyPanel,
                DecommissionStepDialog, DecommissionStepDeleteDialog, EnvironmentSave,
                EnvironmentDelete, EnvironmentUpdate, EnvironmentSystemAdd,
                EnvironmentSystemRemove, VersionRecord, EnvironmentGroupCreate,
                EnvironmentGroupUpdate, EnvironmentGroupDelete, TierCreate, TierUpdate,
                TierDelete, LifecyclePolicySave, DecommissionStepSave,
                DecommissionStepDelete
    <2>1. \A f \in DOMAIN EnvironmentLoose : Reports(f, EnvironmentLoose[f])
        BY SMTT(40) DEF Reports, NeverReports
    <2>2. \A f \in DOMAIN EnvironmentLoose : OneItem(f, EnvironmentLoose[f])
        BY SMTT(40) DEF OneItem, CarriesOver, KeepsToItem
    <2>3. \A f \in DOMAIN EnvironmentLoose : FreshError(f, EnvironmentLoose[f])
        BY DEF FreshError, KeepsErrors, ClearsErrors
    <2>4. \A f \in DOMAIN EnvironmentLoose : NoReseed(f, EnvironmentLoose[f])
        BY DEF NoReseed, Reseeds
    <2> HIDE DEF EnvironmentLoose
    <2> QED BY <2>1, <2>2, <2>3, <2>4 DEF Fit
<1> QED BY <1>1, <1>2, <1>3

LEMMA BookingForms ==
    /\ \A f \in DOMAIN BookingHeld : HeldOk(f, BookingHeld[f])
    /\ \A f \in DOMAIN BookingSingle : SingleOk(f, BookingSingle[f])
    /\ \A f \in DOMAIN BookingLoose : Fit(f, BookingLoose[f])
<1>1. \A f \in DOMAIN BookingHeld : HeldOk(f, BookingHeld[f])
    BY DEF HeldOk, Fit, Reports, OneItem, FreshError, NoReseed, NeverReports, CarriesOver,
           KeepsErrors, Reseeds, KeepsToItem, ClearsErrors, LowersFlag, HoldsOn,
           BookingHeld, BookingForm, TransitionControls, Dialog, Handlers,
           ChangeRequestForm, ChangeRequestEditDialog, LinkChangeDialog, FormDialog,
           BookingSave, ChangeRequestSave, ChangeRequestUpdate
<1>2. \A f \in DOMAIN BookingSingle : SingleOk(f, BookingSingle[f])
    BY DEF SingleOk, Fit, Reports, OneItem, FreshError, NoReseed, NeverReports, CarriesOver,
           KeepsErrors, Reseeds, KeepsToItem, ClearsErrors, LowersFlag, SubmitsOnce,
           BookingSingle, BookingAddEnvironmentDialog, Dialog, EditStandardFieldsDialog,
           Handlers, EditCustomFieldsDialog, EditEnvOverridesDialog, GroupTransition,
           BusyCommand, AgreementGapPanel, ConflictAcknowledge, ContentionEscalate,
           EscalationDecideDialog, LinkIncidentToPirDialog, ProjectRank,
           BookingAddEnvironment, EscalationDecide, ProjectRankSave, OffScreen
<1>3. \A f \in DOMAIN BookingLoose : Fit(f, BookingLoose[f])
    <2> USE DEF BookingLoose, BookingRowTransition, Command, BookingTransition,
                CalendarTransition, ChangeRequestTransition, ChangeRequestDelete,
                IncidentForm, Dialog, IncidentTransition, ProjectCreateDialog,
                ProjectEditDialog, ProjectDeleteDialog, AgreementAdd, Handlers,
                IncidentSave, ProjectCreate, ProjectUpdate, ProjectDelete,
                AgreementAddSave, OffScreen
    <2>1. \A f \in DOMAIN BookingLoose : Reports(f, BookingLoose[f])
        BY DEF Reports, NeverReports
    <2>2. \A f \in DOMAIN BookingLoose : OneItem(f, BookingLoose[f])
        BY DEF OneItem, CarriesOver, KeepsToItem
    <2>3. \A f \in DOMAIN BookingLoose : FreshError(f, BookingLoose[f])
        BY DEF FreshError, KeepsErrors, ClearsErrors
    <2>4. \A f \in DOMAIN BookingLoose : NoReseed(f, BookingLoose[f])
        BY DEF NoReseed, Reseeds
    <2> HIDE DEF BookingLoose
    <2> QED BY <2>1, <2>2, <2>3, <2>4 DEF Fit
<1> QED BY <1>1, <1>2, <1>3

LEMMA CatalogueForms ==
    /\ \A f \in DOMAIN CatalogueHeld : HeldOk(f, CatalogueHeld[f])
    /\ \A f \in DOMAIN CatalogueSingle : SingleOk(f, CatalogueSingle[f])
    /\ \A f \in DOMAIN CatalogueLoose : Fit(f, CatalogueLoose[f])
<1>1. \A f \in DOMAIN CatalogueHeld : HeldOk(f, CatalogueHeld[f])
    BY DEF HeldOk, Fit, Reports, OneItem, FreshError, NoReseed, NeverReports, CarriesOver,
           KeepsErrors, Reseeds, KeepsToItem, ClearsErrors, LowersFlag, HoldsOn,
           CatalogueHeld, ScanRepositoryDialog, Dialog, Handlers, DriftDialog
<1>2. \A f \in DOMAIN CatalogueSingle : SingleOk(f, CatalogueSingle[f])
    BY DEF SingleOk, Fit, Reports, OneItem, FreshError, NoReseed, NeverReports, CarriesOver,
           KeepsErrors, Reseeds, KeepsToItem, ClearsErrors, LowersFlag, SubmitsOnce,
           CatalogueSingle, EndpointAdd, Dialog, Handlers, DockerImportDialog,
           TerraformImportDialog, ComponentTypeDialog, DockerImport, TerraformImport
<1>3. \A f \in DOMAIN CatalogueLoose : Fit(f, CatalogueLoose[f])
    <2> USE DEF CatalogueLoose, SystemDialog, Dialog, SystemDeleteDialog, SystemEdit,
                SubSystemDialog, SubSystemDeleteDialog, SystemDependencyDialog,
                SystemDependencyDeleteDialog, SystemDependencyEditDialog,
                ComponentDependencyDialog, ComponentDependencyEditDialog,
                ComponentDependencyDeleteDialog, EndpointDelete, Command,
                InfrastructureComponentDialog, InfrastructureComponentDeleteDialog,
                ComponentTypeDeleteDialog, SystemSave, Handlers, SystemDelete,
                SystemUpdate, SubSystemSave, SubSystemDelete, SystemDependencyCreate,
                SystemDependencyDelete, SystemDependencyUpdate,
                ComponentDependencyCreate, ComponentDependencyUpdate,
                ComponentDependencyDelete, InfrastructureComponentSave,
                InfrastructureComponentDelete, ComponentTypeDelete
    <2>1. \A f \in DOMAIN CatalogueLoose : Reports(f, CatalogueLoose[f])
        BY DEF Reports, NeverReports
    <2>2. \A f \in DOMAIN CatalogueLoose : OneItem(f, CatalogueLoose[f])
        BY DEF OneItem, CarriesOver, KeepsToItem
    <2>3. \A f \in DOMAIN CatalogueLoose : FreshError(f, CatalogueLoose[f])
        BY DEF FreshError, KeepsErrors, ClearsErrors
    <2>4. \A f \in DOMAIN CatalogueLoose : NoReseed(f, CatalogueLoose[f])
        BY DEF NoReseed, Reseeds
    <2> HIDE DEF CatalogueLoose
    <2> QED BY <2>1, <2>2, <2>3, <2>4 DEF Fit
<1> QED BY <1>1, <1>2, <1>3

LEMMA AdminForms ==
    /\ \A f \in DOMAIN AdminHeld : HeldOk(f, AdminHeld[f])
    /\ \A f \in DOMAIN AdminSingle : SingleOk(f, AdminSingle[f])
    /\ \A f \in DOMAIN AdminLoose : Fit(f, AdminLoose[f])
<1>1. \A f \in DOMAIN AdminHeld : HeldOk(f, AdminHeld[f])
    BY DEF HeldOk, Fit, Reports, OneItem, FreshError, NoReseed, NeverReports, CarriesOver,
           KeepsErrors, Reseeds, KeepsToItem, ClearsErrors, LowersFlag, HoldsOn,
           AdminHeld, ApiKeyCreateDialog, Dialog, Handlers
<1>2. \A f \in DOMAIN AdminSingle : SingleOk(f, AdminSingle[f])
    BY DEF SingleOk, Fit, Reports, OneItem, FreshError, NoReseed, NeverReports, CarriesOver,
           KeepsErrors, Reseeds, KeepsToItem, ClearsErrors, LowersFlag, SubmitsOnce,
           AdminSingle, LifecycleTemplateDialog, Dialog, ReleaseEventTypeDialog,
           RaidSettings, Settings, TenantScopeChangeRules, LifecycleTemplateSave,
           Handlers, ReleaseEventTypeSave
<1>3. \A f \in DOMAIN AdminLoose : Fit(f, AdminLoose[f])
    <2> USE DEF AdminLoose, LifecycleTemplateDeleteDialog, Dialog,
                BookingTypeCreateDialog, BookingTypeEditDialog, BookingTypeDeleteDialog,
                GateTypeCreateDialog, GateTypeEditDialog, GateTypeDeleteDialog,
                PerspectiveCreateDialog, PerspectiveEditDialog, ReleaseEventTypeDelete,
                Command, CustomFieldDefinitionDialog, Handlers,
                CustomFieldDefinitionDelete, RollbackPolicyPanel, Settings,
                TenantSettings, ApiKeyRevoke, ImportCommit, BusyCommand,
                UserCreateDialog, UserEditDialog, UserRoleChange, UserReactivate,
                TenantCreateDialog, TenantDisable, TenantUserEditDialog,
                TenantUserCreateDialog, TenantUserRole, UserGroupCreateDialog,
                UserGroupEditDialog, UserGroupDeleteDialog, UserGroupMembers,
                LifecycleTemplateDelete, BookingTypeCreate, BookingTypeUpdate,
                BookingTypeDelete, GateTypeCreate, GateTypeUpdate, GateTypeDelete,
                PerspectiveCreate, PerspectiveUpdate, UserCreate, UserUpdate,
                TenantCreate, TenantUserUpdate, TenantUserCreate, UserGroupCreate,
                UserGroupUpdate, UserGroupDelete
    <2>1. \A f \in DOMAIN AdminLoose : Reports(f, AdminLoose[f])
        BY SMTT(40) DEF Reports, NeverReports
    <2>2. \A f \in DOMAIN AdminLoose : OneItem(f, AdminLoose[f])
        BY DEF OneItem, CarriesOver, KeepsToItem
    <2>3. \A f \in DOMAIN AdminLoose : FreshError(f, AdminLoose[f])
        <3>1. \A f \in DOMAIN AdminLoose \ KeepsErrors :
                  \/ AdminLoose[f].does.fails /= "inline"
                  \/ "open" \in AdminLoose[f].does.resets
                  \/ AdminLoose[f].does.kind = "settings"
            BY DEF KeepsErrors
        <3>2. \A f \in DOMAIN AdminLoose \ KeepsErrors :
                  /\ AdminLoose[f].does.kind = "settings" => AdminLoose[f].does.closes = "stays"
                  /\ AdminLoose[f].does.kind /= "page"
            BY DEF KeepsErrors
        <3> HIDE DEF AdminLoose
        <3> QED BY <3>1, <3>2 DEF FreshError, ClearsErrors
    <2>4. \A f \in DOMAIN AdminLoose : NoReseed(f, AdminLoose[f])
        BY DEF NoReseed, Reseeds
    <2> HIDE DEF AdminLoose
    <2> QED BY <2>1, <2>2, <2>3, <2>4 DEF Fit
<1> QED BY <1>1, <1>2, <1>3

(* What holds for each of two tables holds for their union.                *)
LEMMA BothOk ==
    ASSUME NEW s, NEW t
    PROVE  /\ (/\ \A f \in DOMAIN s : HeldOk(f, s[f])
               /\ \A f \in DOMAIN t : HeldOk(f, t[f]))
                 => \A f \in DOMAIN Both(s, t) : HeldOk(f, Both(s, t)[f])
           /\ (/\ \A f \in DOMAIN s : SingleOk(f, s[f])
               /\ \A f \in DOMAIN t : SingleOk(f, t[f]))
                 => \A f \in DOMAIN Both(s, t) : SingleOk(f, Both(s, t)[f])
           /\ (/\ \A f \in DOMAIN s : Fit(f, s[f])
               /\ \A f \in DOMAIN t : Fit(f, t[f]))
                 => \A f \in DOMAIN Both(s, t) : Fit(f, Both(s, t)[f])
BY DEF Both

LEMMA HeldForms == \A f \in DOMAIN Held : HeldOk(f, Held[f])
<1> DEFINE a == Both(CatalogueHeld, AdminHeld)
           b == Both(BookingHeld, a)
           c == Both(EnvironmentHeld, b)
<1>1. \A f \in DOMAIN a : HeldOk(f, a[f])
    BY CatalogueForms, AdminForms, BothOk
<1>2. \A f \in DOMAIN b : HeldOk(f, b[f])
    BY BookingForms, <1>1, BothOk
<1>3. \A f \in DOMAIN c : HeldOk(f, c[f])
    BY EnvironmentForms, <1>2, BothOk
<1> QED BY ReleaseForms, <1>3, BothOk DEF Held

LEMMA SingleForms == \A f \in DOMAIN Single : SingleOk(f, Single[f])
<1> DEFINE a == Both(CatalogueSingle, AdminSingle)
           b == Both(BookingSingle, a)
           c == Both(EnvironmentSingle, b)
<1>1. \A f \in DOMAIN a : SingleOk(f, a[f])
    BY CatalogueForms, AdminForms, BothOk
<1>2. \A f \in DOMAIN b : SingleOk(f, b[f])
    BY BookingForms, <1>1, BothOk
<1>3. \A f \in DOMAIN c : SingleOk(f, c[f])
    BY EnvironmentForms, <1>2, BothOk
<1> QED BY ReleaseForms, <1>3, BothOk DEF Single

LEMMA LooseForms == \A f \in DOMAIN Loose : Fit(f, Loose[f])
<1> DEFINE a == Both(CatalogueLoose, AdminLoose)
           b == Both(BookingLoose, a)
           c == Both(EnvironmentLoose, b)
<1>1. \A f \in DOMAIN a : Fit(f, a[f])
    BY CatalogueForms, AdminForms, BothOk
<1>2. \A f \in DOMAIN b : Fit(f, b[f])
    BY BookingForms, <1>1, BothOk
<1>3. \A f \in DOMAIN c : Fit(f, c[f])
    BY EnvironmentForms, <1>2, BothOk
<1> QED BY ReleaseForms, <1>3, BothOk DEF Loose

(* Every form of the web client is as its class and the lists of           *)
(* exceptions say.                                                         *)
LEMMA TableIsFit ==
    /\ \A f \in DOMAIN Table : Fit(f, Table[f])
    /\ \A f \in DOMAIN Held : HoldsOn(Table[f])
    /\ \A f \in Guarded : /\ SubmitsOnce(Table[f])
                          /\ f /= "templateInstantiate" => LowersFlag(Table[f])
<1>1. \A f \in DOMAIN Table : Fit(f, Table[f])
    <2>1. /\ \A f \in DOMAIN Held : Fit(f, Held[f])
          /\ \A f \in DOMAIN Single : Fit(f, Single[f])
      BY HeldForms, SingleForms DEF HeldOk, SingleOk
    <2>2. \A f \in DOMAIN Both(Single, Loose) : Fit(f, Both(Single, Loose)[f])
      BY <2>1, LooseForms, BothOk
    <2> QED BY <2>1, <2>2, BothOk DEF Table
<1>2. \A f \in DOMAIN Held : HoldsOn(Table[f]) /\ LowersFlag(Table[f])
    BY HeldForms DEF Table, Both, HeldOk
<1>3. \A f \in DOMAIN Single : \/ f \in DOMAIN Held
                              \/ Table[f] = Single[f]
    BY DEF Table, Both
<1>4. \A d : HoldsOn(d) => SubmitsOnce(d)
    BY DEF HoldsOn, SubmitsOnce
<1> QED BY <1>1, <1>2, <1>3, <1>4, SingleForms DEF Guarded, SingleOk

-----------------------------------------------------------------------------
(* What the forms do.                                                      *)

(* The discipline of a held form: FormDialog's, and that of every dialog   *)
(* that disables its buttons and its onClose with its own `submitting`.    *)
Disciplined == HoldsOn(F)

(* While a call is in flight the flag is up, it is the only one, and the   *)
(* form is open as it was when it was sent.                                *)
HeldInv ==
    Disciplined =>
        /\ \A k \in InFlight : flag /= {} /\ shown /= Closed /\ calls[k].opening = opening
        /\ \A j, k \in InFlight : j = k

IInv == TypeOK /\ HeldInv

LEMMA TargetsAreItems ==
    ASSUME NEW kind PROVE Targets(kind) \subseteq AllItems
  BY DEF Targets, AllItems

(* Appending a call keeps the sequence of calls well typed.                *)
LEMMA AppendCall ==
    ASSUME NEW S, NEW s \in Seq(S), NEW c \in S
    PROVE  /\ Append(s, c) \in Seq(S)
           /\ DOMAIN Append(s, c) = DOMAIN s \cup {Len(s) + 1}
           /\ Append(s, c)[Len(s) + 1] = c
           /\ \A k \in DOMAIN s : k /= Len(s) + 1 /\ Append(s, c)[k] = s[k]
  OBVIOUS

(* So does replacing one.                                                  *)
LEMMA ReplaceCall ==
    ASSUME NEW S, NEW s \in Seq(S), NEW k \in DOMAIN s, NEW c \in S
    PROVE  /\ [s EXCEPT ![k] = c] \in Seq(S)
           /\ DOMAIN [s EXCEPT ![k] = c] = DOMAIN s
           /\ [s EXCEPT ![k] = c][k] = c
           /\ \A j \in DOMAIN s \ {k} : [s EXCEPT ![k] = c][j] = s[j]
  <1>1. s \in [1..Len(s) -> S] /\ Len(s) \in Nat
    OBVIOUS
  <1>2. [s EXCEPT ![k] = c] \in [1..Len(s) -> S]
    BY <1>1
  <1>3. [s EXCEPT ![k] = c] \in Seq(S)
    BY <1>1, <1>2, SMT
  <1> QED
    BY <1>1, <1>3

LEMMA InitTyped == Init => TypeOK
  <1> SUFFICES ASSUME Init PROVE TypeOK
    OBVIOUS
  <1>0. shown \in AllItems \/ ~AlwaysOpen
    BY TargetsAreItems DEF Init
  <1>5. record \in AllItems \cup {Blank} /\ reads \subseteq AllItems
    BY <1>0 DEF Init
  <1>1. calls \in Seq(CallSet)
    BY DEF Init
  <1>2. /\ form \in DOMAIN Table /\ err \in 0..MaxOpenings /\ flag \subseteq AllItems
    BY FormsConstants DEF Init
  <1>3. CASE AlwaysOpen
    <2>1. PICK i \in Targets(D.kind) :
              /\ shown = i /\ opening = 1
              /\ draft = IF D.seed = "never" THEN Empty ELSE Fresh(i)
      BY <1>3 DEF Init
    <2>2. i \in AllItems
      BY TargetsAreItems
    <2>3. draft \in [of : AllItems \cup {Blank}, typed : SUBSET AllItems]
      BY <2>1, <2>2 DEF Empty, Fresh
    <2>4. opening \in 0..MaxOpenings
      BY <2>1, FormsConstants
    <2> QED
      BY <1>1, <1>2, <1>5, <2>1, <2>2, <2>3, <2>4 DEF TypeOK
  <1>4. CASE ~AlwaysOpen
    <2>1. shown = Closed /\ draft = Empty /\ opening = 0
      BY <1>4 DEF Init
    <2>2. opening \in 0..MaxOpenings
      BY <2>1, FormsConstants
    <2> QED
      BY <1>1, <1>2, <1>5, <2>1, <2>2 DEF TypeOK, Empty
  <1> QED
    BY <1>3, <1>4

LEMMA NextTyped == TypeOK /\ [Next]_vars => TypeOK'
  <1> SUFFICES ASSUME TypeOK, [Next]_vars PROVE TypeOK'
    OBVIOUS
  <1> USE FormsConstants
  <1>0. \A k \in DOMAIN calls : calls[k] \in CallSet
    BY DEF TypeOK
  <1>1. ASSUME NEW i \in Targets(D.kind), Open(i) PROVE TypeOK'
    <2>1. i \in AllItems
      BY TargetsAreItems
    <2>2. draft' \in [of : AllItems \cup {Blank}, typed : SUBSET AllItems]
      BY <1>1, <2>1 DEF Open, TypeOK, Seeded, Fresh
    <2> QED
      BY <1>1, <2>1, <2>2 DEF Open, TypeOK, page
  <1>2. ASSUME NEW i \in Targets(D.kind), Navigate(i) PROVE TypeOK'
    <2>1. i \in AllItems
      BY TargetsAreItems
    <2>2. draft' \in [of : AllItems \cup {Blank}, typed : SUBSET AllItems]
      BY <1>2, <2>1 DEF Navigate, TypeOK, Fresh, Empty
    <2> QED
      BY <1>2, <2>1, <2>2 DEF Navigate, TypeOK
  <1>3. CASE Type
    <2>1. draft' \in [of : AllItems \cup {Blank}, typed : SUBSET AllItems]
      BY <1>3 DEF Type, TypeOK
    <2> QED
      BY <1>3, <2>1 DEF Type, TypeOK, page
  <1>4. CASE Submit
    <2>1. shown \in AllItems
      BY <1>4 DEF Submit, TypeOK
    <2>2. Call \in CallSet
      BY <2>1 DEF Call, CallSet, TypeOK
    <2>3. calls' \in Seq(CallSet)
      BY <1>4, <2>2, AppendCall DEF Submit, TypeOK
    <2>4. flag' \subseteq AllItems
      BY <1>4, <2>1 DEF Submit, Raised, TypeOK
    <2> QED
      BY <1>4, <2>1, <2>3, <2>4 DEF Submit, TypeOK, page
  <1>5. CASE Dismiss
    <2>1. draft' \in [of : AllItems \cup {Blank}, typed : SUBSET AllItems]
      BY <1>5 DEF Dismiss, TypeOK, Empty
    <2> QED
      BY <1>5, <2>1 DEF Dismiss, TypeOK, page
  <1>6. CASE Arrive
    <2>1. shown \in AllItems
      BY <1>6 DEF Arrive, TypeOK
    <2> QED
      BY <1>6, <2>1 DEF Arrive, TypeOK, Fresh, page
  <1>7. CASE Refresh
    <2>1. shown \in AllItems
      BY <1>7 DEF Refresh, TypeOK
    <2> QED
      BY <1>7, <2>1 DEF Refresh, TypeOK, Fresh, page
  <1>8. CASE OtherSettles
    BY <1>8 DEF OtherSettles, TypeOK, page
  <1>9. ASSUME NEW k \in DOMAIN calls, Succeed(k) PROVE TypeOK'
    <2>0. [calls[k] EXCEPT !.st = "ok"] \in CallSet
      BY <1>0 DEF CallSet
    <2>1. calls' \in Seq(CallSet)
      BY <1>9, <2>0, ReplaceCall DEF Succeed, TypeOK
    <2>2. flag' \subseteq AllItems
      BY <1>9 DEF Succeed, Lowered, TypeOK
    <2>3. draft' \in [of : AllItems \cup {Blank}, typed : SUBSET AllItems]
      BY <1>9 DEF Succeed, TypeOK, Empty
    <2>4. record' \in AllItems \cup {Blank} /\ reads' \subseteq AllItems
      BY <1>0, <1>9 DEF Succeed, TypeOK, CallSet
    <2> QED
      BY <1>9, <2>1, <2>2, <2>3, <2>4 DEF Succeed, TypeOK
  <1>10. ASSUME NEW k \in DOMAIN calls, Fail(k) PROVE TypeOK'
    <2>1. Seen(calls[k]) \in BOOLEAN
      BY DEF Seen
    <2>0. [calls[k] EXCEPT !.st = "failed", !.seen = Seen(calls[k])] \in CallSet
      BY <1>0, <2>1 DEF CallSet
    <2>2. calls' \in Seq(CallSet)
      BY <1>10, <2>0, ReplaceCall DEF Fail, TypeOK
    <2>3. flag' \subseteq AllItems
      BY <1>10 DEF Fail, Lowered, TypeOK
    <2> QED
      BY <1>10, <2>2, <2>3 DEF Fail, TypeOK, page
  <1>11. CASE UNCHANGED vars
    BY <1>11 DEF vars, TypeOK
  <1>12. ASSUME NEW i \in reads, ReadAnswered(i) \/ ReadRefused(i) PROVE TypeOK'
    <2>1. i \in AllItems
      BY DEF TypeOK
    <2>2. draft' \in [of : AllItems \cup {Blank}, typed : SUBSET AllItems]
      BY <1>12, <2>1 DEF ReadAnswered, ReadRefused, TypeOK, Fresh
    <2> QED
      BY <1>12, <2>1, <2>2 DEF ReadAnswered, ReadRefused, TypeOK
  <1>13. CASE ReadAgain
    <2>1. shown \in AllItems
      BY <1>13 DEF ReadAgain, TypeOK
    <2>2. draft' \in [of : AllItems \cup {Blank}, typed : SUBSET AllItems]
      BY <1>13 DEF ReadAgain, TypeOK, Empty
    <2> QED
      BY <1>13, <2>1, <2>2 DEF ReadAgain, TypeOK
  <1> QED
    BY <1>1, <1>2, <1>3, <1>4, <1>5, <1>6, <1>7, <1>8, <1>9, <1>10, <1>11, <1>12, <1>13
    DEF Next

(* ---- calls sent and answered ---- *)

(* A submission adds one call, in flight, and leaves the others alone.     *)
LEMMA CallSent ==
    ASSUME TypeOK, Submit
    PROVE  LET n == Len(calls) + 1
           IN  /\ n \notin DOMAIN calls
               /\ DOMAIN calls' = DOMAIN calls \cup {n}
               /\ calls'[n] = Call
               /\ \A k \in DOMAIN calls : calls'[k] = calls[k]
               /\ n \in InFlight' /\ InFlight' = InFlight \cup {n}
  <1>1. Call \in CallSet
    BY DEF Submit, Call, CallSet, TypeOK
  <1>2. /\ DOMAIN calls' = DOMAIN calls \cup {Len(calls) + 1}
        /\ calls'[Len(calls) + 1] = Call
        /\ \A k \in DOMAIN calls : k /= Len(calls) + 1 /\ calls'[k] = calls[k]
    BY <1>1, AppendCall DEF Submit, TypeOK
  <1> QED
    BY <1>2 DEF InFlight, Call

(* An answer changes what is known of one call, which is no longer in      *)
(* flight, and nothing of what was sent.                                   *)
SameSent(c, d) == c.item = d.item /\ c.of = d.of /\ c.typed = d.typed
LEMMA CallAnswered ==
    ASSUME TypeOK, NEW k \in DOMAIN calls, Succeed(k) \/ Fail(k)
    PROVE  /\ k \in InFlight
           /\ DOMAIN calls' = DOMAIN calls
           /\ \A j \in DOMAIN calls : SameSent(calls'[j], calls[j])
           /\ \A j \in DOMAIN calls \ {k} : calls'[j] = calls[j]
           /\ Succeed(k) => calls'[k].st = "ok"
           /\ Fail(k) => calls'[k].st = "failed" /\ calls'[k].seen = Seen(calls[k])
           /\ InFlight' = InFlight \ {k}
  <1> DEFINE good == [calls[k] EXCEPT !.st = "ok"]
             bad  == [calls[k] EXCEPT !.st = "failed", !.seen = Seen(calls[k])]
  <1>1. calls \in Seq(CallSet) /\ calls[k] \in CallSet /\ Seen(calls[k]) \in BOOLEAN
    BY DEF TypeOK, Seen
  <1>2. /\ good \in CallSet /\ good.st = "ok" /\ SameSent(good, calls[k])
        /\ bad \in CallSet /\ bad.st = "failed" /\ bad.seen = Seen(calls[k])
        /\ SameSent(bad, calls[k])
    BY <1>1 DEF CallSet, SameSent
  <1>3. calls[k].st = "inflight"
    BY DEF Succeed, Fail
  <1>4. /\ Succeed(k) => calls' = [calls EXCEPT ![k] = good]
        /\ Fail(k) => calls' = [calls EXCEPT ![k] = bad]
    BY DEF Succeed, Fail
  <1> HIDE DEF good, bad
  <1>5. /\ DOMAIN calls' = DOMAIN calls
        /\ \A j \in DOMAIN calls \ {k} : calls'[j] = calls[j]
        /\ Succeed(k) => calls'[k] = good
        /\ Fail(k) => calls'[k] = bad
    BY <1>1, <1>2, <1>4, ReplaceCall
  <1>6. \A j \in DOMAIN calls : SameSent(calls'[j], calls[j])
    BY <1>2, <1>5 DEF SameSent
  <1>7. InFlight' = InFlight \ {k}
    BY <1>2, <1>3, <1>5 DEF InFlight
  <1> QED
    BY <1>2, <1>3, <1>5, <1>6, <1>7 DEF InFlight

LEMMA SameForm == [Next]_vars => form' = form /\ (Disciplined' <=> Disciplined)
  <1> SUFFICES ASSUME [Next]_vars PROVE form' = form
    BY DEF Disciplined, F, D
  <1> QED
    BY DEF Next, vars, Open, Navigate, Type, Submit, Dismiss, Arrive, Refresh,
           OtherSettles, Succeed, Fail, ReadAnswered, ReadRefused, ReadAgain

LEMMA NextHeld == IInv /\ [Next]_vars => HeldInv'
  <1> SUFFICES ASSUME IInv, [Next]_vars, Disciplined'
               PROVE  /\ \A k \in InFlight' : /\ flag' /= {} /\ shown' /= Closed
                                            /\ calls'[k].opening = opening'
                      /\ \A j, k \in InFlight' : j = k
    BY DEF HeldInv
  <1>0. Disciplined /\ calls \in Seq(CallSet)
    BY SameForm DEF IInv, TypeOK
  <1>a. \A k \in InFlight : flag /= {} /\ shown /= Closed /\ calls[k].opening = opening
    BY <1>0 DEF IInv, HeldInv
  <1>b. \A j, k \in InFlight : j = k
    BY <1>0 DEF IInv, HeldInv
  (* A step that neither sends nor answers leaves the calls alone.         *)
  <1>c. ASSUME UNCHANGED calls, InFlight = {} \/ UNCHANGED <<flag, shown, opening>>
        PROVE  /\ \A k \in InFlight' : /\ flag' /= {} /\ shown' /= Closed
                                     /\ calls'[k].opening = opening'
               /\ \A j, k \in InFlight' : j = k
    <2>1. InFlight' = InFlight
      BY <1>c DEF InFlight
    <2> QED
      BY <1>a, <1>b, <1>c, <2>1
  (* The only call in flight is answered.                                  *)
  <1>d. ASSUME NEW k \in DOMAIN calls, NEW c \in CallSet, calls[k].st = "inflight",
               c.st /= "inflight", calls' = [calls EXCEPT ![k] = c]
        PROVE  InFlight' = {}
    <2>1. k \in InFlight
      BY <1>d DEF InFlight
    <2>2. DOMAIN calls' = DOMAIN calls /\ calls'[k] = c
             /\ \A j \in DOMAIN calls \ {k} : calls'[j] = calls[j]
      BY <1>0, <1>d, ReplaceCall
    <2>3. ASSUME NEW j \in InFlight' PROVE FALSE
      <3>1. j \in DOMAIN calls /\ calls'[j].st = "inflight"
        BY <2>2, <2>3 DEF InFlight
      <3>2. j /= k
        BY <1>d, <2>2, <3>1
      <3>3. j \in InFlight
        BY <2>2, <3>1, <3>2 DEF InFlight
      <3> QED
        BY <1>b, <2>1, <3>2, <3>3
    <2> QED
      BY <2>3
  <1>e. \A k \in DOMAIN calls : calls[k] \in CallSet
    BY <1>0
  <1>1. ASSUME NEW i \in Targets(D.kind), Open(i) PROVE InFlight = {} /\ UNCHANGED calls
    BY <1>1, <1>a DEF Open
  <1>2. ASSUME NEW i \in Targets(D.kind), Navigate(i) PROVE FALSE
    BY <1>2, <1>0 DEF Navigate, Disciplined, HoldsOn, D
  <1>3. CASE Type
    BY <1>3, <1>c DEF Type
  <1>4. CASE Submit
    <2>1. flag = {}
      BY <1>4, <1>0 DEF Submit, Disabled, Disciplined, HoldsOn, D
    <2>2. InFlight = {}
      BY <1>a, <2>1
    <2>3. Call \in CallSet
      BY <1>4 DEF Submit, Call, CallSet, IInv, TypeOK
    <2>4. DOMAIN calls' = DOMAIN calls \cup {Len(calls) + 1}
             /\ calls'[Len(calls) + 1] = Call
             /\ \A k \in DOMAIN calls : calls'[k] = calls[k]
      BY <1>0, <1>4, <2>3, AppendCall DEF Submit
    <2>5. InFlight' \subseteq {Len(calls) + 1}
      BY <2>2, <2>4 DEF InFlight
    <2>6. flag' = {shown} /\ shown' = shown /\ shown /= Closed /\ opening' = opening
      BY <1>4, <1>0 DEF Submit, Raised, Disciplined, HoldsOn, D
    <2> QED
      BY <2>4, <2>5, <2>6 DEF Call
  <1>5. CASE Dismiss
    <2>1. flag = {}
      BY <1>5, <1>0 DEF Dismiss, Disciplined, HoldsOn, D
    <2> QED
      BY <1>5, <1>a, <1>c, <2>1 DEF Dismiss
  <1>6. CASE Arrive
    BY <1>6, <1>0 DEF Arrive, Disciplined, HoldsOn, D
  <1>7. CASE Refresh
    BY <1>7, <1>c DEF Refresh
  <1>8. CASE OtherSettles
    BY <1>8, <1>0 DEF OtherSettles, Disciplined, HoldsOn, D
  <1>9. ASSUME NEW k \in DOMAIN calls, Succeed(k) PROVE InFlight' = {}
    <2>1. [calls[k] EXCEPT !.st = "ok"] \in CallSet
             /\ [calls[k] EXCEPT !.st = "ok"].st = "ok"
      BY <1>e DEF CallSet
    <2> QED
      BY <1>9, <1>d, <2>1 DEF Succeed
  <1>10. ASSUME NEW k \in DOMAIN calls, Fail(k) PROVE InFlight' = {}
    <2>1. Seen(calls[k]) \in BOOLEAN
      BY DEF Seen
    <2>2. [calls[k] EXCEPT !.st = "failed", !.seen = Seen(calls[k])] \in CallSet
             /\ [calls[k] EXCEPT !.st = "failed", !.seen = Seen(calls[k])].st = "failed"
      BY <1>e, <2>1 DEF CallSet
    <2> QED
      BY <1>10, <1>d, <2>2 DEF Fail
  <1>11. CASE UNCHANGED vars
    BY <1>11, <1>c DEF vars
  <1>12. ASSUME NEW i \in reads, ReadAnswered(i) \/ ReadRefused(i)
         PROVE  UNCHANGED <<calls, flag, shown, opening>>
    BY <1>12 DEF ReadAnswered, ReadRefused
  <1>13. CASE ReadAgain
    BY <1>13, <1>c DEF ReadAgain
  <1> QED
    BY <1>c, <1>1, <1>2, <1>3, <1>4, <1>5, <1>6, <1>7, <1>8, <1>9, <1>10, <1>11, <1>12,
       <1>13
    DEF Next

(* ---- a flag of the form's own ---- *)

(* The flag is up for exactly the items with a call in flight, one call    *)
(* each; a flag for the whole form lets only one call through.             *)
OneEach ==
    \A j, k \in InFlight : (F.busy = "own" \/ calls[j].item = calls[k].item) => j = k
UpForEach == \A k \in InFlight : calls[k].item \in flag
DownOtherwise == \A i \in flag : \E k \in InFlight : calls[k].item = i
FlagInv ==
    SubmitsOnce(F) => /\ OneEach /\ UpForEach
                      /\ LowersFlag(F) => DownOtherwise

LEMMA NextFlag == IInv /\ FlagInv /\ [Next]_vars => FlagInv'
  <1> SUFFICES ASSUME IInv, FlagInv, [Next]_vars, SubmitsOnce(F)'
               PROVE  (OneEach /\ UpForEach /\ (LowersFlag(F) => DownOtherwise))'
    BY DEF FlagInv
  <1>0. /\ F' = F /\ SubmitsOnce(F) /\ (LowersFlag(F)' <=> LowersFlag(F))
        /\ OneEach /\ UpForEach /\ TypeOK
        /\ LowersFlag(F) => DownOtherwise
    BY SameForm DEF FlagInv, F, IInv
  <1>a. F.busy \in {"own", "row"} /\ (D.seed = "mount" => Disciplined)
    BY <1>0 DEF SubmitsOnce, D, Disciplined
  <1>m. \A k \in InFlight : D.seed = "mount" => Mounted(calls[k]) /\ shown /= Closed
    BY <1>a DEF IInv, HeldInv, Mounted
  <1>b. ASSUME UNCHANGED <<calls, flag>>
        PROVE  (OneEach /\ UpForEach /\ (LowersFlag(F) => DownOtherwise))'
    BY <1>0, <1>b DEF OneEach, UpForEach, DownOtherwise, InFlight
  <1>1. CASE Submit
    <2> DEFINE n == Len(calls) + 1
    <2>1. /\ n \notin DOMAIN calls
          /\ calls'[n].item = shown
          /\ \A k \in DOMAIN calls : calls'[k] = calls[k]
          /\ InFlight' = InFlight \cup {n}
      BY <1>0, <1>1, CallSent DEF Call
    <2>2. InFlight \subseteq DOMAIN calls
      BY DEF InFlight
    <2> HIDE DEF n
    <2>3. CASE F.busy = "own"
      <3>1. flag = {} /\ flag' = {shown}
        BY <1>1, <2>3 DEF Submit, Disabled, Raised
      <3>2. InFlight = {}
        BY <1>0, <3>1 DEF UpForEach
      <3> QED
        BY <2>1, <3>1, <3>2 DEF OneEach, UpForEach, DownOtherwise
    <2>4. CASE F.busy = "row"
      <3>1. shown \notin flag /\ flag' = flag \cup {shown}
        BY <1>1, <2>4 DEF Submit, Disabled, Raised
      <3>2. \A k \in InFlight : calls[k].item /= shown
        BY <1>0, <3>1 DEF UpForEach
      <3>3. OneEach'
        BY <1>0, <2>1, <2>2, <2>4, <3>2 DEF OneEach
      <3>4. UpForEach'
        BY <1>0, <2>1, <2>2, <3>1 DEF UpForEach
      <3>5. DownOtherwise => DownOtherwise'
        BY <2>1, <2>2, <3>1 DEF DownOtherwise
      <3> QED
        BY <1>0, <3>3, <3>4, <3>5
    <2> QED
      BY <1>a, <2>3, <2>4
  <1>2. ASSUME NEW k \in DOMAIN calls, Succeed(k) \/ Fail(k)
        PROVE  (OneEach /\ UpForEach /\ (LowersFlag(F) => DownOtherwise))'
    <2>1. /\ k \in InFlight /\ InFlight' = InFlight \ {k}
          /\ \A j \in InFlight : calls'[j].item = calls[j].item
      BY <1>0, <1>2, CallAnswered DEF SameSent, InFlight
    <2>6. Mounted(calls[k])
      BY <1>m, <2>1 DEF Mounted
    <2>2. /\ flag' \in {flag, IF F.busy = "row" THEN flag \ {calls[k].item} ELSE {}}
          /\ LowersFlag(F) => flag' = IF F.busy = "row" THEN flag \ {calls[k].item} ELSE {}
      BY <1>2, <1>a, <2>6 DEF Succeed, Fail, Lowered, LowersFlag, D
    <2>3. OneEach'
      BY <1>0, <2>1 DEF OneEach
    <2>4. UpForEach'
      BY <1>0, <1>a, <2>1, <2>2 DEF UpForEach, OneEach
    <2>5. LowersFlag(F) => DownOtherwise'
      BY <1>0, <1>a, <2>1, <2>2 DEF DownOtherwise, OneEach
    <2> QED
      BY <1>0, <2>3, <2>4, <2>5
  <1>3. ASSUME NEW i \in Targets(D.kind), Open(i)
        PROVE  (OneEach /\ UpForEach /\ (LowersFlag(F) => DownOtherwise))'
    <2>1. CASE D.seed /= "mount"
      BY <1>3, <1>b, <2>1 DEF Open
    <2>2. CASE D.seed = "mount"
      <3>1. InFlight = {} /\ UNCHANGED calls /\ flag' = {}
        BY <1>3, <1>m, <2>2 DEF Open
      <3>2. InFlight' = {}
        BY <3>1 DEF InFlight
      <3> QED
        BY <3>1, <3>2 DEF OneEach, UpForEach, DownOtherwise
    <2> QED
      BY <2>1, <2>2
  <1>4. ASSUME NEW i, Navigate(i) \/ ReadAnswered(i) \/ ReadRefused(i)
        PROVE  UNCHANGED <<calls, flag>>
    BY <1>4, <1>a DEF Navigate, ReadAnswered, ReadRefused
  <1>5. ASSUME \/ Type \/ Dismiss \/ Arrive \/ Refresh \/ OtherSettles \/ ReadAgain
               \/ UNCHANGED vars
        PROVE  UNCHANGED <<calls, flag>>
    BY <1>5, <1>a DEF Type, Dismiss, Arrive, Refresh, OtherSettles, ReadAgain, vars
  <1> QED
    BY <1>b, <1>1, <1>2, <1>3, <1>4, <1>5 DEF Next

(* The state of a form is always well formed, for every form of the        *)
(* tables, any items and any number of openings and submissions.           *)
THEOREM FormsTyped == Spec => []TypeOK
  BY InitTyped, NextTyped, PTL DEF Spec

(* A form that keeps the discipline is still open, in the opening that     *)
(* submitted, when any answer comes, and has at most one call in flight:   *)
(* `submitting` disabling Save, Cancel and onClose is enough, whatever the *)
(* handlers do about fields, errors and closing.                           *)
THEOREM DisciplineSuffices ==
    Spec => [](Disciplined => StillOpenWhenAnswered
                                /\ \A j, k \in InFlight : j = k)
  <1>1. Init => IInv
    <2>1. Init => InFlight = {}
      BY DEF Init, InFlight
    <2> QED
      BY <2>1, InitTyped DEF IInv, HeldInv
  <1>2. IInv /\ [Next]_vars => IInv'
    BY NextTyped, NextHeld DEF IInv
  <1>3. IInv => (Disciplined => StillOpenWhenAnswered
                                  /\ \A j, k \in InFlight : j = k)
    BY DEF IInv, HeldInv, StillOpenWhenAnswered
  <1> QED
    BY <1>1, <1>2, <1>3, PTL DEF Spec

(* Every reachable state is well typed and keeps the two flag invariants.  *)
LEMMA FormsInvariant == Spec => [](IInv /\ FlagInv)
  <1>1. Init => IInv /\ FlagInv
    <2>1. Init => InFlight = {} /\ flag = {}
      BY DEF Init, InFlight
    <2> QED
      BY <2>1, InitTyped DEF IInv, HeldInv, FlagInv, OneEach, UpForEach, DownOtherwise
  <1>2. IInv /\ FlagInv /\ [Next]_vars => (IInv /\ FlagInv)'
    BY NextTyped, NextHeld, NextFlag DEF IInv
  <1> QED
    BY <1>1, <1>2, PTL DEF Spec

(* No double submission: a form that disables its submit button with a     *)
(* flag of its own, for the form or for each row, never has two calls in   *)
(* flight for one item, however often it is dismissed and reopened.        *)
THEOREM OneSubmitPerItemHolds == Spec => []OneSubmitPerItem
  <1>1. IInv /\ FlagInv => OneSubmitPerItem
    BY TableIsFit DEF FlagInv, OneEach, OneSubmitPerItem, F
  <1> QED
    BY <1>1, FormsInvariant, PTL

(* No button stays disabled for ever: a form's own flag is up only while   *)
(* one of its calls is in flight, whichever way the calls end.             *)
THEOREM NeverStuckHolds == Spec => []NeverStuck
  <1>1. IInv /\ FlagInv => NeverStuck
    BY TableIsFit DEF FlagInv, DownOtherwise, NeverStuck, F
  <1> QED
    BY <1>1, FormsInvariant, PTL

(* Every dialog the tables call held really is: it is open, in the opening *)
(* that submitted, when its answer comes.                                  *)
THEOREM AnswersMeetTheirOpeningHolds == Spec => []AnswersMeetTheirOpening
  <1>1. IInv /\ FlagInv => AnswersMeetTheirOpening
    BY TableIsFit DEF IInv, HeldInv, Disciplined, F, AnswersMeetTheirOpening,
                      StillOpenWhenAnswered
  <1> QED
    BY <1>1, FormsInvariant, PTL

(* ---- refusals ---- *)

LEMMA NextSeen ==
    IInv /\ form \in DOMAIN Table /\ FailureIsSeen /\ [Next]_vars => FailureIsSeen'
  <1> SUFFICES ASSUME IInv, FailureIsSeen, [Next]_vars, form \in DOMAIN Table,
                      form' \notin NeverReports,
                      D'.fails = "inline" => form' \in DOMAIN Held,
                      NEW j \in DOMAIN calls', calls'[j].st = "failed"
               PROVE  calls'[j].seen
    BY DEF FailureIsSeen
  <1>0. /\ form' = form /\ D' = D /\ TypeOK
        /\ \A k \in DOMAIN calls : calls[k].st = "failed" => calls[k].seen
    BY SameForm DEF FailureIsSeen, D, F, IInv
  <1>1. D.fails /= "silent" /\ (D.fails = "inline" => Disciplined)
    BY <1>0, TableIsFit DEF Fit, Reports, D, F, Disciplined
  <1>2. CASE UNCHANGED calls
    BY <1>0, <1>2
  <1>3. CASE Submit
    BY <1>0, <1>3, CallSent DEF Call
  <1>4. ASSUME NEW k \in DOMAIN calls, Succeed(k) PROVE calls'[j].seen
    BY <1>0, <1>4, CallAnswered
  <1>5. ASSUME NEW k \in DOMAIN calls, Fail(k) PROVE calls'[j].seen
    <2>1. k \in InFlight
      BY <1>0, <1>5, CallAnswered
    <2>2. Seen(calls[k])
      BY <1>1, <2>1
      DEF Seen, Mounted, Hidden, WaitsForRecord, IInv, HeldInv, Disciplined, HoldsOn, D
    <2> QED
      BY <1>0, <1>5, <2>2, CallAnswered
  <1> QED
    BY <1>2, <1>3, <1>4, <1>5
    DEF Next, vars, Open, Navigate, Type, Dismiss, Arrive, Refresh, OtherSettles,
        ReadAnswered, ReadRefused, ReadAgain

(* No refusal is lost: outside the handlers without a catch, and the forms *)
(* that report inside themselves and may be dismissed first, every failed  *)
(* call was shown to the user when it failed.                              *)
THEOREM FailureIsSeenHolds == Spec => []FailureIsSeen
  <1>1. Init => FailureIsSeen
    BY DEF Init, FailureIsSeen
  <1>2. IInv => form \in DOMAIN Table
    BY DEF IInv, TypeOK
  <1> QED
    BY <1>1, <1>2, NextSeen, FormsInvariant, PTL DEF Spec

(* ---- what was typed ---- *)

(* Nothing typed is thrown away behind the user's back: in a form whose    *)
(* fields no read fills again, what was typed is still there after any     *)
(* step that leaves the form open and is not a success that empties it,    *)
(* background reads and answers to earlier submits included.               *)
THEOREM TypingSurvivesHolds == Spec => TypingSurvives
  <1>1. ASSUME TypeOK, [Next]_vars, form \notin Reseeds, <<shown, opening>>' = <<shown, opening>>,
               "ok" \in D.clears => Succeeded' = Succeeded
        PROVE  draft.typed \subseteq draft'.typed
    <2>0. D.seed \notin {"live", "read", "value"} /\ "own" \notin D.rereads /\ opening \in Nat
      BY <1>1, TableIsFit, FormsConstants DEF TypeOK, Fit, NoReseed, D, F
    <2>1. ASSUME NEW k \in DOMAIN calls, Succeed(k) PROVE draft' = draft
      <3>1. k \in Succeeded' /\ k \notin Succeeded
        BY <1>1, <2>1, CallAnswered DEF Succeeded, InFlight
      <3> QED
        BY <1>1, <2>0, <2>1, <3>1 DEF Succeed
    <2>2. ASSUME NEW k \in DOMAIN calls, Fail(k) PROVE draft' = draft
      BY <2>2 DEF Fail
    <2>3. ASSUME NEW i \in Targets(D.kind), Open(i) \/ Navigate(i) PROVE FALSE
      BY <1>1, <2>0, <2>3 DEF Open, Navigate
    <2>4. CASE Type
      BY <1>1, <2>4 DEF Type, TypeOK
    <2>5. ASSUME Dismiss \/ Arrive \/ Refresh PROVE FALSE
      BY <1>1, <2>0, <2>5 DEF Dismiss, Arrive, Refresh
    <2>6. ASSUME NEW i \in reads, ReadAnswered(i) \/ ReadRefused(i) PROVE draft' = draft
      BY <2>0, <2>6 DEF ReadAnswered, ReadRefused
    <2>7. CASE Submit \/ OtherSettles \/ ReadAgain \/ UNCHANGED vars
      BY <2>0, <2>7 DEF Submit, OtherSettles, ReadAgain, vars
    <2> QED
      BY <1>1, <2>1, <2>2, <2>3, <2>4, <2>5, <2>6, <2>7 DEF Next
  <1>2. TypeOK /\ [Next]_vars =>
          [(/\ form \notin Reseeds
            /\ <<shown, opening>>' = <<shown, opening>>
            /\ ("ok" \in D.clears => Succeeded' = Succeeded))
             => draft.typed \subseteq draft'.typed]_vars
    BY <1>1
  <1> QED
    BY <1>2, FormsTyped, PTL DEF Spec, TypingSurvives

(* ---- whose text is sent ---- *)

(* What is in the fields of an open form belongs to the item on screen.    *)
DraftIsForShown ==
    shown /= Closed => draft.of \in {Blank, shown} /\ draft.typed \subseteq {shown}
(* The reason depends on how the form is seeded: there is one item only;   *)
(* the fields are filled when the id changes; they are filled at every     *)
(* opening; or they are empty whenever the form is closed.                 *)
OnlyOneItem == D.kind \in {"create", "settings"} =>
                  \E i \in AllItems : /\ Targets(D.kind) = {i} /\ shown \in {Closed, i}
                                      /\ draft.of \in {Blank, i} /\ draft.typed \subseteq {i}
TypedForItsSeed == D.seed = "id" => (draft.of /= Blank => draft.typed \subseteq {draft.of})
EmptyWhenClosed ==
    (D.seed = "never" /\ D.kind /= "page" /\ {"ok", "dismiss"} \subseteq D.clears
        /\ D.closes \in {"ok", "stays"})
      => (shown = Closed => draft = Empty)
CallsKeepToItem == \A k \in DOMAIN calls : /\ calls[k].of \in {Blank, calls[k].item}
                                           /\ calls[k].typed \subseteq {calls[k].item}
SentInv ==
    KeepsToItem(D) => /\ DraftIsForShown /\ OnlyOneItem /\ TypedForItsSeed
                      /\ EmptyWhenClosed /\ CallsKeepToItem

LEMMA OneTarget ==
    /\ Targets("create") = {New} /\ Targets("settings") = {TheRecord}
  BY DEF Targets

LEMMA SpecialItems ==
    /\ Closed \notin AllItems /\ Blank \notin AllItems
  BY FormsConstants DEF AllItems, Closed, Blank, New, TheRecord

LEMMA InitSent == Init => SentInv
  <1> SUFFICES ASSUME Init, KeepsToItem(D)
               PROVE  /\ DraftIsForShown /\ OnlyOneItem /\ TypedForItsSeed
                      /\ EmptyWhenClosed /\ CallsKeepToItem
    BY DEF SentInv
  <1>1. CallsKeepToItem
    BY DEF Init, CallsKeepToItem
  <1>2. Targets("create") = {New} /\ Targets("settings") = {TheRecord}
           /\ New \in AllItems /\ TheRecord \in AllItems
    BY OneTarget DEF AllItems
  <1>3. CASE AlwaysOpen
    <2>1. PICK i \in Targets(D.kind) : shown = i /\ (draft = Empty \/ draft = Fresh(i))
      BY <1>3 DEF Init
    <2>2. i \in AllItems /\ i /= Closed /\ i /= Blank
      BY SpecialItems, TargetsAreItems
    <2>3. draft.of \in {Blank, i} /\ draft.typed = {}
      BY <2>1 DEF Empty, Fresh
    <2>4. OnlyOneItem
      BY <1>2, <2>1, <2>2, <2>3 DEF OnlyOneItem
    <2> QED
      BY <1>1, <2>1, <2>2, <2>3, <2>4 DEF DraftIsForShown, TypedForItsSeed, EmptyWhenClosed
  <1>4. CASE ~AlwaysOpen
    <2>1. shown = Closed /\ draft = Empty
      BY <1>4 DEF Init
    <2>2. draft.of = Blank /\ draft.typed = {}
      BY <2>1 DEF Empty
    <2>3. OnlyOneItem
      BY <1>2, <2>1, <2>2 DEF OnlyOneItem
    <2> QED
      BY <1>1, <2>1, <2>2, <2>3 DEF DraftIsForShown, TypedForItsSeed, EmptyWhenClosed
  <1> QED
    BY <1>3, <1>4

LEMMA NextSent == TypeOK /\ SentInv /\ [Next]_vars => SentInv'
  <1> SUFFICES ASSUME TypeOK, SentInv, [Next]_vars, KeepsToItem(D)'
               PROVE  (/\ DraftIsForShown /\ OnlyOneItem /\ TypedForItsSeed
                       /\ EmptyWhenClosed /\ CallsKeepToItem)'
    BY DEF SentInv
  <1>0. /\ D' = D /\ KeepsToItem(D)
        /\ DraftIsForShown /\ OnlyOneItem /\ TypedForItsSeed /\ EmptyWhenClosed
        /\ CallsKeepToItem
    BY SameForm DEF SentInv, D, F
  <1>1. CallsKeepToItem'
    <2>1. CASE UNCHANGED calls
      BY <1>0, <2>1 DEF CallsKeepToItem
    <2>2. CASE Submit
      <3>1. Call.of \in {Blank, Call.item} /\ Call.typed \subseteq {Call.item}
        BY <1>0, <2>2 DEF Submit, Call, DraftIsForShown
      <3> QED
        BY <1>0, <2>2, <3>1, CallSent DEF CallsKeepToItem
    <2>3. ASSUME NEW k \in DOMAIN calls, Succeed(k) \/ Fail(k) PROVE CallsKeepToItem'
      BY <1>0, <2>3, CallAnswered DEF CallsKeepToItem, SameSent
    <2> QED
      BY <2>1, <2>2, <2>3
      DEF Next, vars, Open, Navigate, Type, Dismiss, Arrive, Refresh, OtherSettles,
          ReadAnswered, ReadRefused, ReadAgain
  <1> SUFFICES (DraftIsForShown /\ OnlyOneItem /\ TypedForItsSeed /\ EmptyWhenClosed)'
    BY <1>1
  <1>a. /\ draft.typed \subseteq AllItems /\ shown \in AllItems \cup {Closed}
        /\ draft \in [of : AllItems \cup {Blank}, typed : SUBSET AllItems]
    BY DEF TypeOK
  <1>b. Empty.of = Blank /\ Empty.typed = {} /\ \A i : Fresh(i).of = i /\ Fresh(i).typed = {}
    BY DEF Empty, Fresh
  (* The fields are kept, or emptied, and the form stays or closes.        *)
  <1>c. ASSUME draft' = draft \/ draft' = Empty, shown' = shown \/ shown' = Closed,
               EmptyWhenClosed'
        PROVE  (DraftIsForShown /\ OnlyOneItem /\ TypedForItsSeed)'
    <2>1. draft'.of \in {Blank, draft.of} /\ draft'.typed \subseteq draft.typed
             /\ (draft'.of = draft.of \/ draft'.of = Blank)
      BY <1>b, <1>c
    <2>2. OnlyOneItem'
      BY <1>0, <1>c, <2>1 DEF OnlyOneItem, Targets
    <2>3. DraftIsForShown'
      BY <1>0, <1>c, <2>1 DEF DraftIsForShown
    <2>4. TypedForItsSeed'
      BY <1>0, <1>b, <1>c DEF TypedForItsSeed
    <2> QED
      BY <2>2, <2>3, <2>4
  (* The fields are filled from the item that is shown.                    *)
  <1>d. ASSUME NEW i \in AllItems, i \in Targets(D.kind) \/ i = shown,
               shown' = i, draft' = Fresh(i)
        PROVE  (DraftIsForShown /\ OnlyOneItem /\ TypedForItsSeed /\ EmptyWhenClosed)'
    <2>1. i \in AllItems /\ i /= Closed
      BY SpecialItems
    <2>2. OnlyOneItem'
      BY <1>0, <1>b, <1>d, <2>1 DEF OnlyOneItem, Targets
    <2> QED
      BY <1>0, <1>b, <1>d, <2>1, <2>2 DEF DraftIsForShown, TypedForItsSeed, EmptyWhenClosed
  <1>e. CASE UNCHANGED <<draft, shown>>
    <2>1. EmptyWhenClosed'
      BY <1>0, <1>e DEF EmptyWhenClosed
    <2> QED
      BY <1>c, <1>e, <2>1
  <1>2. ASSUME NEW i \in Targets(D.kind), Open(i)
        PROVE  (DraftIsForShown /\ OnlyOneItem /\ TypedForItsSeed /\ EmptyWhenClosed)'
    <2>0. shown = Closed /\ shown' = i /\ draft' = Seeded(i)
      BY <1>2 DEF Open
    <2>1. i \in AllItems /\ i /= Closed /\ i /= Blank
      BY SpecialItems, TargetsAreItems
    <2>2. CASE draft' = Fresh(i)
      BY <1>d, <2>0, <2>1, <2>2
    <2>3. CASE draft' = draft /\ draft' /= Fresh(i)
      <3>1. D.seed \notin {"opener", "live", "mount"} /\ (D.seed = "id" => draft.of = i)
        BY <2>0, <2>3 DEF Seeded
      <3>2. draft.of \in {Blank, i} /\ draft.typed \subseteq {i}
        <4>1. CASE D.kind \in {"create", "settings"}
          BY <1>0, <4>1 DEF OnlyOneItem
        <4>2. CASE D.seed = "id"
          BY <1>0, <2>1, <3>1, <4>2 DEF TypedForItsSeed
        <4>3. CASE draft = Empty
          BY <1>b, <4>3
        <4> QED
          BY <1>0, <2>0, <3>1, <4>1, <4>2, <4>3 DEF KeepsToItem, EmptyWhenClosed
      <3>3. OnlyOneItem'
        BY <1>0, <2>0, <2>3 DEF OnlyOneItem, Targets
      <3> QED
        BY <1>0, <2>0, <2>1, <2>3, <3>2, <3>3
        DEF DraftIsForShown, TypedForItsSeed, EmptyWhenClosed
    <2> QED
      BY <2>0, <2>2, <2>3 DEF Seeded
  <1>3. ASSUME NEW i \in Targets(D.kind), Navigate(i)
        PROVE  (DraftIsForShown /\ OnlyOneItem /\ TypedForItsSeed /\ EmptyWhenClosed)'
    <2>1. shown' = i /\ draft' = Fresh(i)
      BY <1>0, <1>3 DEF Navigate, KeepsToItem
    <2> QED
      BY <1>d, <2>1, TargetsAreItems
  <1>4. CASE Type
    <2>1. shown \in AllItems /\ shown' = shown /\ shown /= Closed
      BY <1>4, <1>a DEF Type
    <2>2. draft'.of = draft.of /\ draft'.typed = draft.typed \cup {shown}
      BY <1>4, <1>a DEF Type
    <2>3. draft.of \in {Blank, shown} /\ draft.typed \subseteq {shown}
      BY <1>0, <2>1 DEF DraftIsForShown
    <2>4. OnlyOneItem'
      BY <1>0, <2>1, <2>2 DEF OnlyOneItem, Targets
    <2> QED
      BY <1>0, <2>1, <2>2, <2>3, <2>4 DEF DraftIsForShown, TypedForItsSeed, EmptyWhenClosed
  <1>5. CASE Submit
    <2>1. draft' = draft /\ (shown' = shown \/ shown' = Closed)
      BY <1>5 DEF Submit
    <2>2. EmptyWhenClosed'
      BY <1>0, <1>5 DEF EmptyWhenClosed, Submit
    <2> QED
      BY <1>c, <2>1, <2>2
  <1>6. CASE Dismiss
    <2>1. draft' \in {draft, Empty} /\ shown' = Closed
      BY <1>6 DEF Dismiss
    <2>2. EmptyWhenClosed'
      BY <1>0, <1>6 DEF EmptyWhenClosed, Dismiss
    <2> QED
      BY <1>c, <2>1, <2>2
  <1>7. ASSUME Arrive PROVE FALSE
    BY <1>0, <1>7 DEF Arrive, KeepsToItem
  <1>8. CASE Refresh
    <2>1. shown \in AllItems /\ shown' = shown /\ draft' = Fresh(shown)
      BY <1>8, <1>a DEF Refresh
    <2> QED
      BY <1>d, <2>1
  <1>9. ASSUME NEW k \in DOMAIN calls, Succeed(k)
        PROVE  (DraftIsForShown /\ OnlyOneItem /\ TypedForItsSeed /\ EmptyWhenClosed)'
    <2>1. draft' \in {draft, Empty} /\ shown' \in {shown, Closed}
      BY <1>9 DEF Succeed
    <2>2. EmptyWhenClosed'
      BY <1>0, <1>9 DEF EmptyWhenClosed, Succeed, Mounted
    <2> QED
      BY <1>c, <2>1, <2>2
  <1>10. ASSUME NEW k \in DOMAIN calls, Fail(k)
         PROVE  (DraftIsForShown /\ OnlyOneItem /\ TypedForItsSeed /\ EmptyWhenClosed)'
    <2>1. draft' = draft /\ shown' \in {shown, Closed}
      BY <1>10 DEF Fail
    <2>2. EmptyWhenClosed'
      BY <1>0, <1>10 DEF EmptyWhenClosed, Fail
    <2> QED
      BY <1>c, <2>1, <2>2
  <1>11. CASE OtherSettles \/ ReadAgain \/ UNCHANGED vars
    <2>1. D.seed /= "read"
      BY <1>0 DEF KeepsToItem
    <2> QED
      BY <1>e, <1>11, <2>1 DEF OtherSettles, ReadAgain, vars
  <1>12. ASSUME NEW i \in reads, ReadAnswered(i) \/ ReadRefused(i)
         PROVE  UNCHANGED <<draft, shown>>
    <2>1. D.seed \notin {"read", "value"}
      BY <1>0 DEF KeepsToItem
    <2> QED
      BY <1>12, <2>1 DEF ReadAnswered, ReadRefused
  <1> QED
    BY <1>e, <1>2, <1>3, <1>4, <1>5, <1>6, <1>7, <1>8, <1>9, <1>10, <1>11, <1>12 DEF Next

(* No text crosses over: outside the pages and dialogs listed as           *)
(* exceptions, what a form sends about an item was seeded from that item   *)
(* or from nothing, and typed while the form was open on it.               *)
THEOREM SentForItsItemHolds == Spec => []SentForItsItem
  <1>1. IInv /\ FlagInv => TypeOK
    BY DEF IInv
  <1>2. TypeOK /\ SentInv => SentForItsItem
    BY TableIsFit DEF TypeOK, SentInv, SentForItsItem, CallsKeepToItem, Fit, OneItem, D, F
  <1> QED
    BY <1>1, <1>2, InitSent, NextSent, FormsInvariant, PTL DEF Spec

(* ---- whose error is shown ---- *)

(* The error of an open form is of this opening.  Again the reason depends *)
(* on the form: it shows none itself; a settings page never closes; or     *)
(* dismissing clears it, submitting clears it, and the form cannot close   *)
(* between a refusal and either.                                           *)
ErrorOfThisOpening == shown /= Closed => err \in {0, opening}
NoneShown == D.fails /= "inline" => err = 0
NeverCloses == (D.kind = "settings" /\ D.closes = "stays") => shown /= Closed
CleanWhenClosed ==
    (/\ HoldsOn(F) /\ {"submit", "dismiss"} \subseteq D.resets
     /\ D.closes \in {"ok", "stays"})
      => (shown = Closed \/ InFlight /= {} => err = 0)
ErrInv ==
    ClearsErrors(F) => ErrorOfThisOpening /\ NoneShown /\ NeverCloses /\ CleanWhenClosed

LEMMA InitErr == Init => ErrInv
  <1> SUFFICES ASSUME Init
               PROVE  ErrorOfThisOpening /\ NoneShown /\ NeverCloses /\ CleanWhenClosed
    BY DEF ErrInv
  <1>1. err = 0
    BY DEF Init
  <1>2. NeverCloses
    BY SpecialItems, TargetsAreItems DEF NeverCloses, Init, AlwaysOpen
  <1> QED
    BY <1>1, <1>2 DEF ErrorOfThisOpening, NoneShown, CleanWhenClosed

LEMMA NextErr == IInv /\ ErrInv /\ [Next]_vars => ErrInv'
  <1> SUFFICES ASSUME IInv, ErrInv, [Next]_vars, ClearsErrors(F)'
               PROVE  (ErrorOfThisOpening /\ NoneShown /\ NeverCloses /\ CleanWhenClosed)'
    BY DEF ErrInv
  <1> DEFINE Tidy == /\ HoldsOn(F) /\ {"submit", "dismiss"} \subseteq D.resets
                     /\ D.closes \in {"ok", "stays"}
  <1>0. /\ D' = D /\ F' = F /\ ClearsErrors(F) /\ TypeOK /\ (Tidy' <=> Tidy)
        /\ ErrorOfThisOpening /\ NoneShown /\ NeverCloses /\ CleanWhenClosed
    BY SameForm DEF ErrInv, D, F, IInv
  <1>t. Tidy => /\ \A k \in InFlight : flag /= {} /\ shown /= Closed
                /\ \A j, k \in InFlight : j = k
                /\ D.kind \notin {"page", "settings"}
                /\ F.busy = "own" /\ F.holds = TRUE
    BY DEF IInv, HeldInv, Disciplined, HoldsOn, D
  <1>c. Tidy => (shown = Closed \/ InFlight /= {} => err = 0)
    BY <1>0 DEF CleanWhenClosed
  <1>u. SUFFICES /\ (ErrorOfThisOpening /\ NoneShown /\ NeverCloses)'
                 /\ Tidy => (shown' = Closed \/ InFlight' /= {} => err' = 0)
    BY <1>0 DEF CleanWhenClosed
  <1>v. ClearsErrors(F) <=>
           \/ D.fails /= "inline"
           \/ "open" \in D.resets /\ (D.kind = "page" => D.seed \in {"id", "read"})
           \/ D.seed = "mount" /\ D.kind /= "page"
           \/ D.kind = "settings" /\ D.closes = "stays"
           \/ Tidy
    BY DEF ClearsErrors, D
  <1> HIDE DEF Tidy
  <1>1. ASSUME NEW i \in Targets(D.kind), Open(i)
        PROVE  /\ (ErrorOfThisOpening /\ NoneShown /\ NeverCloses)'
               /\ Tidy => (shown' = Closed \/ InFlight' /= {} => err' = 0)
    <2>1. shown = Closed /\ shown' = i /\ i /= Closed /\ UNCHANGED calls
      BY <1>1, SpecialItems, TargetsAreItems DEF Open
    <2>2. err' = 0
      BY <1>0, <1>1, <1>c, <1>v, <2>1 DEF Open, NoneShown, NeverCloses
    <2> QED
      BY <2>1, <2>2 DEF ErrorOfThisOpening, NoneShown, NeverCloses
  <1>2. ASSUME NEW i \in Targets(D.kind), Navigate(i)
        PROVE  /\ (ErrorOfThisOpening /\ NoneShown /\ NeverCloses)'
               /\ Tidy => (shown' = Closed \/ InFlight' /= {} => err' = 0)
    <2>1. D.kind = "page" /\ ~Tidy
      BY <1>2, <1>t DEF Navigate
    <2>2. err' = 0
      BY <1>0, <1>2, <1>v, <2>1 DEF Navigate, NoneShown
    <2> QED
      BY <1>0, <2>1, <2>2 DEF ErrorOfThisOpening, NoneShown, NeverCloses
  (* Steps that leave the error, or remove it, while the form stays open.  *)
  <1>3. ASSUME UNCHANGED <<shown, opening>>, err' \in {0, err},
               InFlight' \subseteq InFlight \/ err' = 0
        PROVE  /\ (ErrorOfThisOpening /\ NoneShown /\ NeverCloses)'
               /\ Tidy => (shown' = Closed \/ InFlight' /= {} => err' = 0)
    BY <1>0, <1>3, <1>c DEF ErrorOfThisOpening, NoneShown, NeverCloses
  <1>4. ASSUME \/ Type \/ Arrive \/ Refresh \/ OtherSettles \/ ReadAgain \/ UNCHANGED vars
               \/ \E i \in reads : ReadAnswered(i) \/ ReadRefused(i)
        PROVE  /\ (ErrorOfThisOpening /\ NoneShown /\ NeverCloses)'
               /\ Tidy => (shown' = Closed \/ InFlight' /= {} => err' = 0)
    <2>1. UNCHANGED <<shown, opening, calls>> /\ err' \in {0, err}
      BY <1>4
      DEF Type, Arrive, Refresh, OtherSettles, ReadAgain, ReadAnswered, ReadRefused, vars
    <2>2. InFlight' = InFlight
      BY <2>1 DEF InFlight
    <2> QED
      BY <1>3, <2>1, <2>2
  <1>5. CASE Submit
    <2>1. shown /= Closed /\ err' \in {0, err} /\ UNCHANGED opening
      BY <1>5 DEF Submit
    <2>2. Tidy => err' = 0
      BY <1>5 DEF Submit, Tidy
    <2>3. shown' = shown \/ shown' = Closed
      BY <1>5 DEF Submit
    <2>4. NeverCloses'
      BY <1>0, <1>5, <2>1 DEF NeverCloses, Submit
    <2> QED
      BY <1>0, <2>1, <2>2, <2>3, <2>4 DEF ErrorOfThisOpening, NoneShown
  <1>6. CASE Dismiss
    <2>1. shown' = Closed /\ err' \in {0, err} /\ D.kind /= "settings"
      BY <1>6 DEF Dismiss, AlwaysOpen
    <2>2. Tidy => err' = 0
      BY <1>6 DEF Dismiss, Tidy
    <2> QED
      BY <1>0, <2>1, <2>2 DEF ErrorOfThisOpening, NoneShown, NeverCloses
  <1>7. ASSUME NEW k \in DOMAIN calls, Succeed(k)
        PROVE  /\ (ErrorOfThisOpening /\ NoneShown /\ NeverCloses)'
               /\ Tidy => (shown' = Closed \/ InFlight' /= {} => err' = 0)
    <2>1. k \in InFlight /\ InFlight' = InFlight \ {k}
      BY <1>0, <1>7, CallAnswered
    <2>2. err' \in {0, err} /\ UNCHANGED opening /\ shown' \in {shown, Closed}
      BY <1>7 DEF Succeed
    <2>3. Tidy => err' = 0
      BY <1>c, <2>1, <2>2
    <2>4. NeverCloses'
      BY <1>0, <1>7 DEF NeverCloses, Succeed
    <2> QED
      BY <1>0, <2>2, <2>3, <2>4 DEF ErrorOfThisOpening, NoneShown
  <1>8. ASSUME NEW k \in DOMAIN calls, Fail(k)
        PROVE  /\ (ErrorOfThisOpening /\ NoneShown /\ NeverCloses)'
               /\ Tidy => (shown' = Closed \/ InFlight' /= {} => err' = 0)
    <2>1. k \in InFlight /\ InFlight' = InFlight \ {k}
      BY <1>0, <1>8, CallAnswered
    <2>2. err' \in {opening, err} /\ UNCHANGED opening /\ shown' \in {shown, Closed}
      BY <1>8 DEF Fail
    <2>3. Tidy => InFlight' = {} /\ shown' = shown /\ shown /= Closed
      BY <1>8, <1>t, <2>1 DEF Fail, Tidy
    <2>4. NeverCloses' /\ NoneShown'
      BY <1>0, <1>8 DEF NeverCloses, NoneShown, Fail
    <2> QED
      BY <1>0, <2>2, <2>3, <2>4 DEF ErrorOfThisOpening
  <1> QED
    BY <1>1, <1>2, <1>4, <1>5, <1>6, <1>7, <1>8 DEF Next

(* No stale error: outside the forms listed as exceptions, an error on an  *)
(* open form appeared since it was opened, however late the refusal came.  *)
THEOREM ErrorIsFreshHolds == Spec => []ErrorIsFresh
  <1>1. IInv /\ ErrInv => ErrorIsFresh
    BY TableIsFit DEF IInv, TypeOK, ErrInv, ErrorOfThisOpening, ErrorIsFresh, Fit,
                      FreshError, F
  <1> QED
    BY <1>1, InitErr, NextErr, FormsInvariant, PTL DEF Spec
=============================================================================
