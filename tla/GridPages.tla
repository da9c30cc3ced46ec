------------------------------ MODULE GridPages ------------------------------
(***************************************************************************)
(* The pages that show a server-driven grid: for each, its free-text boxes,*)
(* the other filters it keeps in the address, and how onFetch applies an   *)
(* answer that a later question has overtaken.                             *)
(*                                                                         *)
(* A filter value is abstracted to "v" (something chosen or typed), "any"  *)
(* and "all" (spellings of no selection), Cleared or Absent.               *)
(***************************************************************************)

Absent == "absent"     \* the address does not name the filter
Cleared == "cleared"   \* it names it with the empty value
Unset  == "unset"      \* nothing is sent: the server does not narrow by it

(* none    what choosing "no selection" writes to the address              *)
(* silent  what the control shows when the address does not name it        *)
(* api     how the value is sent: "asis"; "known", only a value of the     *)
(*         page's own vocabulary; "window", as apiScopeWindow does         *)
(* empty   what it shows when the address names it with an empty value     *)
Filter(none, api) == [none |-> none, silent |-> none, api |-> api, empty |-> none]
Plain(none)  == Filter(none, "asis")
Known(none)  == Filter(none, "known")

(* ScopeWindowsTable opens on the actionable window.  Its kind toggle      *)
(* reads "Project" while the address is silent, and nothing is sent then.  *)
WindowToggle == [none |-> "any", silent |-> "v", api |-> "window", empty |-> "v"]
KindToggle == [none |-> "all", silent |-> "v", api |-> "asis", empty |-> "v"]

(* The "Open only" chip of the incident and the release lists is shown     *)
(* whenever the address names open at all.                                 *)
OpenChip == [none |-> Cleared, silent |-> Cleared, api |-> "asis", empty |-> "v"]

(* The rows are applied by a thunk that is aborted when overtaken, by a    *)
(* handler that compares generations, or by whichever answers last.        *)
Answers == {"abort", "generation", "bare"}

NoFilters == <<>>

Grid(text, filters, answers) == [text |-> text, filters |-> filters, answers |-> answers]

(* Mutant: choosing no window writes what the address says anyway.         *)
ScopeWindowsGrid_All == Grid({},
    [scope_window |-> [WindowToggle EXCEPT !.none = "all"], release_kind |-> KindToggle,
     system_id |-> Plain(Cleared)], "bare")

ScopeWindowsGrid == Grid({},
    [scope_window |-> WindowToggle, release_kind |-> KindToggle, system_id |-> Plain(Cleared)],
    "bare")

GoNoGoGrid == Grid({}, NoFilters, "abort")

ChangeRequestGrid == Grid({},
    [status |-> Plain("all"), environment_id |-> Plain("all"), host_id |-> Plain("all")],
    "abort")

BuildGrid == Grid({"subsystem_search", "branch"},
    [date_from |-> Plain(Cleared), date_to |-> Plain(Cleared)], "abort")

PirActionGrid == Grid({},
    [status |-> Known("any"), action_owner |-> Known("any"), overdue |-> Known("any")],
    "generation")

InfrastructureComponentGrid == Grid({"search"}, [component_type |-> Plain(Cleared)], "abort")

IncidentGrid == Grid({},
    [status |-> Plain("all"), severity |-> Plain("all"), system_id |-> Plain("all"),
     open |-> OpenChip], "abort")

ReleaseGrid == Grid({},
    [status |-> Plain("all"), release_type |-> Plain("all"), release_kind |-> Plain("all"),
     system_id |-> Plain("all"), project_id |-> Known("any"),
     open |-> OpenChip], "abort")

SystemGrid == Grid({"search"}, NoFilters, "abort")

EscalationGrid == Grid({},
    [escalation_state |-> Known("any"), escalation_owner |-> Known("any")], "generation")

BookingGrid == Grid({},
    [booking_status |-> Plain("all"), project_id |-> Known("any"),
     agreement_gap |-> Known("any"), protection |-> Known("any"), start |-> Plain(Cleared),
     end |-> Plain(Cleared), active |-> Known(Cleared)],
    "abort")

EnvironmentGrid == Grid({"search"},
    [status |-> Plain("all"), tier_id |-> Plain(Cleared), governance_gap |-> Plain(Cleared),
     compliance_gap |-> Plain(Cleared), quarantined |-> Plain(Cleared),
     owner_user_id |-> Plain(Cleared), expiring_within_days |-> Plain(Cleared),
     operations_group_id |-> Plain(Cleared), idle |-> Plain(Cleared)], "abort")

EnvironmentRequestGrid == Grid({}, [queue |-> Known("any")], "abort")

DeploymentGrid == Grid({"environment_search", "release_search"},
    [status |-> Plain(Cleared)], "abort")

DecommissionGrid == Grid({}, [state |-> Known("any"), mine |-> Known(Cleared)], "abort")

Pages ==
    [scopeWindows |-> ScopeWindowsGrid, goNoGo |-> GoNoGoGrid,
     changeRequests |-> ChangeRequestGrid, builds |-> BuildGrid,
     pirActions |-> PirActionGrid, components |-> InfrastructureComponentGrid,
     incidents |-> IncidentGrid, releases |-> ReleaseGrid, systems |-> SystemGrid,
     escalations |-> EscalationGrid, bookings |-> BookingGrid,
     environments |-> EnvironmentGrid, environmentRequests |-> EnvironmentRequestGrid,
     deployments |-> DeploymentGrid, decommissions |-> DecommissionGrid]
=============================================================================
