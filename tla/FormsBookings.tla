---------------------------- MODULE FormsBookings ----------------------------
(***************************************************************************)
(* The forms of bookings, contention, change requests, incidents,          *)
(* deployments and projects.                                               *)
(***************************************************************************)
EXTENDS FormParts

(* ---- bookings ---- *)
(* The shell BookingForm and the change request forms share: Save, Cancel, *)
(* Escape and the backdrop are all dead while it submits.                  *)
FormDialog(handlers) == Dialog(handlers, "own", TRUE)
BookingSave == Handlers("create", "opener", {"dismiss"}, "toast", {}, "ok")
BookingForm == FormDialog(BookingSave)
BookingRowTransition == Command("page")
BookingTransition == Command("page")
BookingAddEnvironment == Handlers("create", "never", {"ok", "dismiss"}, "page", {}, "ok")
BookingAddEnvironmentDialog == Dialog(BookingAddEnvironment, "own", FALSE)
(* These three are initialised when the booking's page has loaded it and   *)
(* keep what was typed when they are dismissed.                            *)
EditStandardFieldsDialog == Dialog(
    Handlers("edit", "id", {}, "page", {}, "ok"), "own", FALSE)
EditCustomFieldsDialog == Dialog(
    Handlers("edit", "id", {}, "page", {}, "ok"), "own", FALSE)
EditEnvOverridesDialog == Dialog(
    Handlers("edit", "id", {}, "page", {}, "ok"), "own", FALSE)
CalendarTransition == Command("page")
GroupTransition == BusyCommand("own", "page")
TransitionControls == Dialog(
    Handlers("edit", "opener", {}, "toast", {}, "always"), "own", TRUE)
(* Mutant: keyed on the booking object, which every refetch replaces.      *)
AgreementGapPanel_OnObject == Dialog(
    Handlers("page", "live", {}, "inline", {"open", "submit"}, "stays"), "own", FALSE)
AgreementGapPanel == Dialog(
    Handlers("page", "id", {}, "inline", {"open", "submit"}, "stays"), "own", FALSE)
ConflictAcknowledge == BusyCommand("row", "silent")

(* ---- contention ---- *)
ContentionEscalate == Dialog(
    Handlers("edit", "opener", {}, "inline", {"open", "submit"}, "ok"), "own", FALSE)
EscalationDecide == Handlers("edit", "opener", {}, "inline", {"open", "submit"}, "ok")
EscalationDecideDialog == Dialog(EscalationDecide, "own", FALSE)

(* ---- change requests, incidents, deployments ---- *)
ChangeRequestSave == Handlers("create", "never", {"ok", "dismiss"}, "toast", {}, "ok")
ChangeRequestForm == FormDialog(ChangeRequestSave)
ChangeRequestUpdate == Handlers("edit", "live", {}, "toast", {}, "ok")
ChangeRequestEditDialog == FormDialog(ChangeRequestUpdate)
ChangeRequestTransition == Command("toast")
ChangeRequestDelete == Command("toast")
IncidentSave == Handlers("page", "live", {}, "toast", {}, "stays")
IncidentForm == Dialog(IncidentSave, "none", FALSE)
IncidentTransition == Command("toast")
LinkIncidentToPirDialog == Dialog(
    Handlers("edit", "opener", {}, "inline", {"open", "submit"}, "ok"), "own", FALSE)
LinkChangeDialog == Dialog(
    Handlers("edit", "never", {"ok"}, "toast", {}, "ok"), "own", TRUE)

(* ---- projects ---- *)
ProjectCreate == Handlers("create", "never", {"ok"}, "inline", {"open", "submit"}, "ok")
ProjectCreateDialog == Dialog(ProjectCreate, "none", FALSE)
ProjectUpdate == Handlers("edit", "opener", {}, "inline", {"open", "submit"}, "ok")
ProjectEditDialog == Dialog(ProjectUpdate, "none", FALSE)
ProjectDelete == Handlers("confirm", "opener", {}, "inline", {"open", "submit"}, "ok")
ProjectDeleteDialog == Dialog(ProjectDelete, "none", FALSE)
(* Both are on the project's page, which shows nothing while the store's   *)
(* `current` is null: fetchProject clears it when it is sent.  The rank is *)
(* keyed on the id and the rank of `current`, so each read of the project, *)
(* the one after a save included, empties the draft and fills it again.    *)
ProjectRankSave == OffScreen(
    Handlers("page", "read", {}, "inline", {"open", "submit", "ok"}, "stays"), {"own"})
ProjectRank == Dialog(ProjectRankSave, "own", FALSE)
AgreementAddSave == OffScreen(
    Handlers("page", "never", {"ok"}, "inline", {"submit"}, "stays"), {"other"})
AgreementAdd == Dialog(AgreementAddSave, "none", FALSE)

BookingHeld ==
    [booking |-> BookingForm, transition |-> TransitionControls,
     changeRequest |-> ChangeRequestForm, changeRequestEdit |-> ChangeRequestEditDialog,
     linkChange |-> LinkChangeDialog]
BookingSingle ==
    [bookingAddEnvironment |-> BookingAddEnvironmentDialog,
     standardFields |-> EditStandardFieldsDialog, customFields |-> EditCustomFieldsDialog,
     envOverrides |-> EditEnvOverridesDialog, groupTransition |-> GroupTransition,
     agreementGap |-> AgreementGapPanel, conflictAck |-> ConflictAcknowledge,
     escalate |-> ContentionEscalate, escalationDecide |-> EscalationDecideDialog,
     linkIncident |-> LinkIncidentToPirDialog, projectRank |-> ProjectRank]
BookingLoose ==
    [bookingRow |-> BookingRowTransition, bookingTransition |-> BookingTransition,
     calendarTransition |-> CalendarTransition,
     changeRequestTransition |-> ChangeRequestTransition,
     changeRequestDelete |-> ChangeRequestDelete, incident |-> IncidentForm,
     incidentTransition |-> IncidentTransition, projectCreate |-> ProjectCreateDialog,
     projectEdit |-> ProjectEditDialog, projectDelete |-> ProjectDeleteDialog,
     agreementAdd |-> AgreementAdd]
=============================================================================
