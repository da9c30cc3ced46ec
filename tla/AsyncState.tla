------------------------------ MODULE AsyncState ------------------------------
(***************************************************************************)
(* The web client's asynchronous state: one slice of the Redux store, or   *)
(* the local state of one component, and the calls it has in flight.       *)
(*                                                                         *)
(* A behaviour is about one slice and about a cast of one or two of its    *)
(* operations, chosen in Init: every read of the slice meets itself and    *)
(* every operation that has a field in common with it, one for each kind   *)
(* of operation whose handlers do the same.  A dispatch runs the pending   *)
(* handler at once; the answers arrive in any order and run the fulfilled  *)
(* or the rejected handler.                                                *)
(* A list page that changes its question aborts the call it had in flight: *)
(* the rejected handler of an aborted call runs in a microtask, that is    *)
(* after the pending handler of the new call and before anything else.     *)
(***************************************************************************)
EXTENDS StoreBookings, StoreEnvironments, StoreReleases, StoreCatalogue,
        StoreAdmin, LocalLoads, OpenLoads, Sequences, FiniteSets, TLC

CONSTANTS Keys,        \* queries, ids or owners a user asks about
          MaxCalls     \* bound: calls in one behaviour

Whole == "whole"       \* the key of a call without an argument
Other == "other"       \* an owner of another sort
Flat  == "flat"        \* the slot of a field that is not kept per key
Slots == Keys \cup {Flat, Whole, Other}

(* The root reducer, and the component-local states.                       *)
Areas == <<BookingStore, EnvironmentStore, ReleaseStore, CatalogueStore, AdminStore,
           LocalStore, OpenStore>>

(* Each slice with its parts joined.                                       *)
Joined(parts) == [t \in Names(parts) |-> Entry(parts, t)]
Tables == [a \in DOMAIN Areas |->
              [s \in DOMAIN Areas[a] |->
                  [calls |-> Joined(Areas[a][s].calls), cases |-> Joined(Areas[a][s].cases),
                   reducers |-> Areas[a][s].reducers]]]

KeysOf(kind) == CASE kind \in {"all", "new"} -> {Whole}
                  [] kind = "ofOther" -> {Other}
                  [] OTHER -> Keys

(* Operations a server-driven grid or a list page dispatches from an       *)
(* effect whose cleanup aborts the promise.                                *)
GridDriven ==
    [environment |-> {"fetchEnvironments"}, booking |-> {"fetchBookings"},
     build |-> {"fetchBuilds"}, changeRequest |-> {"fetchChangeRequests"},
     decommission |-> {"fetchDecommissionWorklist"},
     deployment |-> {"fetchDeployments"}, goNoGo |-> {"fetchDecisions"},
     incidents |-> {"fetchIncidents"},
     infrastructureComponent |-> {"fetchInfrastructureComponents"},
     release |-> {"fetchReleases"}, system |-> {"fetchSystems"},
     environmentRequest |-> {"fetchEnvironmentRequests"}]

VARIABLES area,     \* the part of the store, and
          slice,    \* the slice this behaviour is about
          cast,     \* the operations of it that are used
          data,     \* field -> slot -> what is kept there
          flags,    \* the loading flags that are up
          errs,     \* error field -> the keys of the failures it reports
          calls,    \* every call dispatched, oldest first
          mounted   \* the list page is on screen

vars == <<area, slice, cast, data, flags, errs, calls, mounted>>

Store == Tables[area][slice]

Nothing == [of |-> "nothing", rows |-> {}]

CaseOf(t) == Store.cases[t]
KindOf(t) == Store.calls[t]
Aborts(t) == slice \in DOMAIN GridDriven /\ t \in GridDriven[slice]
(* The operations that may run, and the fields they and the reducers use.  *)
Players(c) == c \cup ({Store.cases[t].then : t \in c} \ {"none"})
AllEffects(c) ==
    UNION ({UNION {Store.cases[t][h] : h \in {"pending", "fulfilled", "rejected"}} :
                t \in Players(c)}
           \cup {Store.reducers[r] : r \in DOMAIN Store.reducers})
FieldsOf(t) == {e.f : e \in UNION {Store.cases[u][h] : u \in Players({t}),
                                        h \in {"pending", "fulfilled", "rejected"}}}
Distinct(ts) ==
    {t \in ts : t = CHOOSE u \in ts : CaseOf(u) = CaseOf(t) /\ KindOf(u) = KindOf(t)}
FlagsOf(es) == {e.f : e \in {x \in es : x.op \in FlagOps}}
ErrsOf(es)  == {e.f : e \in {x \in es : x.op \in ErrOps}}
DataOf(es)  == {e.f : e \in {x \in es : x.op \notin FlagOps \cup ErrOps \cup {"drop"}}}

TypeOK ==
    /\ area \in DOMAIN Areas
    /\ slice \in DOMAIN Areas[area]
    /\ cast \subseteq DOMAIN Store.cases
    /\ \A f \in DOMAIN data : data[f] \in
            [Slots -> [of : Slots \cup {"nothing"}, rows : SUBSET Slots]]
    /\ flags \subseteq FlagsOf(AllEffects(cast))
    /\ errs \in [ErrsOf(AllEffects(cast)) -> SUBSET Slots]
    /\ \A i \in DOMAIN calls :
            /\ calls[i].t \in Players(cast) /\ calls[i].key \in Slots
            /\ calls[i].st \in {"inflight", "aborting", "aborted", "ok", "failed", "dropped"}
    /\ mounted \in BOOLEAN

Init ==
    /\ area \in DOMAIN Areas
    /\ slice \in DOMAIN Areas[area]
    /\ \E a \in DOMAIN Store.cases, b \in Distinct(DOMAIN Store.cases) :
            /\ KindOf(a) \in ReadKinds
            /\ FieldsOf(a) \cap FieldsOf(b) /= {}
            /\ cast = {a, b}
    /\ data = [f \in DataOf(AllEffects(cast)) |-> [s \in Slots |-> Nothing]]
    /\ flags = {}
    /\ errs = [f \in ErrsOf(AllEffects(cast)) |-> {}]
    /\ calls = <<>>
    /\ mounted = TRUE

(* ---- what a handler does to the three parts of the state ---- *)

NewValue(e, d, k) ==
    LET here == d[e.f][Flat]
        mine == d[e.f][k]
        full == [of |-> k, rows |-> {k}]
        Plus(v) == [v EXCEPT !.rows = @ \cup {k}]
    IN  CASE e.op = "wipe"   -> [d[e.f] EXCEPT ![Flat] = Nothing]
          [] e.op = "put"    -> [d[e.f] EXCEPT ![Flat] = full]
          [] e.op = "add"    -> [d[e.f] EXCEPT ![Flat] = Plus(here)]
          [] e.op = "merge"  -> d[e.f]
          [] e.op = "same"   -> IF d[e.on][Flat].of = k
                                THEN [d[e.f] EXCEPT ![Flat] = full] ELSE d[e.f]
          [] e.op = "forget" -> IF here.of = k
                                THEN [d[e.f] EXCEPT ![Flat] = Nothing] ELSE d[e.f]
          [] e.op = "putat"  -> [d[e.f] EXCEPT ![k] = full]
          [] e.op = "addat"  -> [d[e.f] EXCEPT ![k] = [of |-> k, rows |-> mine.rows \cup {k}]]
          [] e.op = "mergeat" -> d[e.f]
          [] e.op = "cutat"  -> [d[e.f] EXCEPT ![k] = Nothing]

DataAfter(es, k) ==
    [f \in DOMAIN data |->
        IF \E e \in es : e.f = f THEN NewValue(CHOOSE e \in es : e.f = f, data, k)
        ELSE data[f]]

FlagsAfter(es) ==
    (flags \cup {e.f : e \in {x \in es : x.op = "up"}})
        \ {e.f : e \in {x \in es : x.op = "down"}}

ErrsAfter(es, k) ==
    [f \in DOMAIN errs |->
        LET Has(op) == \E e \in es : e.op = op /\ e.f = f
        IN  CASE Has("noerr") -> {}
              [] Has("err") -> {k}
              [] Has("noerrat") -> errs[f] \ {k}
              [] Has("errat") -> errs[f] \cup {k}
              [] OTHER -> errs[f]]

Run(es, k) ==
    /\ data' = DataAfter(es, k)
    /\ flags' = FlagsAfter(es)
    /\ errs' = ErrsAfter(es, k)

(* ---- the life of a call ---- *)

Running == {i \in DOMAIN calls : calls[i].st = "inflight"}
Aborting == {i \in DOMAIN calls : calls[i].st = "aborting"}
Newest(t) == LET mine == {i \in DOMAIN calls : calls[i].t = t}
             IN  IF mine = {} THEN 0 ELSE CHOOSE i \in mine : \A j \in mine : j <= i

(* The effect cleanup aborts the running calls of a list page.             *)
Abort(t) == [i \in DOMAIN calls |->
                IF Aborts(t) /\ calls[i].t = t /\ calls[i].st = "inflight"
                THEN [calls[i] EXCEPT !.st = "aborting"] ELSE calls[i]]

Call(t, k) == [t |-> t, key |-> k, st |-> "inflight"]

(* dispatch(t(k)) from an effect or a click: abort the page's previous     *)
(* call, then run the pending handler.                                     *)
Dispatch(t, k) ==
    /\ Aborting = {}
    /\ Len(calls) < MaxCalls
    /\ calls' = Append(Abort(t), Call(t, k))
    /\ mounted' = (mounted \/ Aborts(t))
    /\ Run(CaseOf(t).pending, k)
    /\ UNCHANGED <<area, slice, cast>>

(* A handler under the "latest" guard returns early for an overtaken call. *)
Heard(i) == CaseOf(calls[i].t).guard = "latest" => i = Newest(calls[i].t)

Fulfil(i) ==
    /\ Aborting = {}
    /\ i \in Running
    /\ Run(IF Heard(i) THEN CaseOf(calls[i].t).fulfilled ELSE {}, calls[i].key)
    /\ calls' = [calls EXCEPT ![i].st = "ok"]
    /\ UNCHANGED <<area, slice, cast, mounted>>

(* The server refuses, or the network fails.                               *)
Reject(i) ==
    /\ Aborting = {}
    /\ i \in Running
    /\ CaseOf(calls[i].t).then = "none"
    /\ Run(IF Heard(i) THEN CaseOf(calls[i].t).rejected ELSE {}, calls[i].key)
    /\ calls' = [calls EXCEPT ![i].st = "failed"]
    /\ UNCHANGED <<area, slice, cast, mounted>>

(* A refused write that reads the item again before it rejects.            *)
RejectAndReread(i) ==
    /\ Aborting = {}
    /\ i \in Running
    /\ Len(calls) < MaxCalls
    /\ LET c == CaseOf(calls[i].t)
       IN  /\ c.then /= "none"
           /\ Run(CaseOf(c.then).pending \cup c.rejected, calls[i].key)
           /\ calls' = Append([calls EXCEPT ![i].st = "failed"],
                              Call(c.then, calls[i].key))
    /\ UNCHANGED <<area, slice, cast, mounted>>

(* The rejected handler of an aborted call.                                *)
Aborted(i) ==
    /\ i \in Aborting
    /\ Run(IF CaseOf(calls[i].t).guard = "aborted"
           THEN {} ELSE CaseOf(calls[i].t).rejected, calls[i].key)
    /\ calls' = [calls EXCEPT ![i].st = "aborted"]
    /\ UNCHANGED <<area, slice, cast, mounted>>

(* An ordinary action of the slice; or an effect that runs its cleanup and *)
(* returns early, so that what was asked is no longer heard.               *)
Reduce(r) ==
    LET es == Store.reducers[r]
        Dropped(c) == c.st = "inflight" /\ Drop(c.t) \in es
    IN  /\ Aborting = {}
        /\ es /= {}
        /\ Run(es, Whole)
        /\ calls' = [i \in DOMAIN calls |->
                        IF Dropped(calls[i]) THEN [calls[i] EXCEPT !.st = "dropped"]
                        ELSE calls[i]]
        /\ UNCHANGED <<area, slice, cast, mounted>>

(* The user leaves the list page: its cleanup aborts, nothing is asked.    *)
Leave(t) ==
    /\ Aborting = {}
    /\ mounted /\ Aborts(t)
    /\ calls' = Abort(t)
    /\ mounted' = FALSE
    /\ UNCHANGED <<area, slice, cast, data, flags, errs>>

Next ==
    \/ \E t \in cast : \E k \in KeysOf(KindOf(t)) : Dispatch(t, k)
    \/ \E i \in DOMAIN calls : Fulfil(i) \/ Reject(i) \/ RejectAndReread(i) \/ Aborted(i)
    \/ \E r \in DOMAIN Store.reducers : Reduce(r)
    \/ \E t \in cast : Leave(t)

Spec == Init /\ [][Next]_vars

(* ---- properties ---- *)

(* Reads whose overtaken answers are meant to be ignored: list pages abort *)
(* them, the others compare them with the newest.                          *)
NewestWins ==
    {<<"environment", "fetchEnvironments", "environments">>,
     <<"booking", "fetchBookings", "bookings">>,
     <<"build", "fetchBuilds", "items">>,
     <<"changeRequest", "fetchChangeRequests", "list">>,
     <<"decommission", "fetchDecommissionWorklist", "worklist">>,
     <<"goNoGo", "fetchDecisions", "decisions">>,
     <<"incidents", "fetchIncidents", "list">>,
     <<"infrastructureComponent", "fetchInfrastructureComponents", "components">>,
     <<"release", "fetchReleases", "list">>,
     <<"system", "fetchSystems", "systems">>,
     <<"contentionForecast", "fetchContentionHorizon", "count">>,
     <<"environmentGroup", "fetchGroupsForEnvironment", "environmentGroups">>,
     <<"bookingScheduleGantt", "load", "bookingsByEnv">>,
     <<"envSubsystemHostsDialog", "load", "rows">>,
     <<"runbookTaskHistoryDialog", "load", "events">>,
     <<"rollbackPanel", "systems", "systems">>,
     <<"readinessBanner", "load", "readiness">>,
     <<"topologyCanvas", "load", "layout">>,
     <<"groupTransitionPanel", "group", "transitions">>,
     <<"environmentsPanel", "load", "transitionsByBooking">>,
     <<"decommissionPanel", "load", "inOperatingTeam">>,
     <<"statTile", "load", "count">>,
     <<"changeRequestDetail", "load", "allowed">>,
     <<"environmentSchedule", "load", "data">>,
     <<"escalationWorklist", "load", "rows">>,
     <<"pirActionList", "load", "rows">>,
     <<"conflictsPanel", "load", "items">>}

(* Once the newest question of such a read is answered, the screen shows   *)
(* that answer (or was cleared since) and no late answer replaces it.      *)
NewestAnswerShown ==
    \A c \in NewestWins :
        (c[1] = slice /\ Newest(c[2]) /= 0 /\ calls[Newest(c[2])].st = "ok")
            => data[c[3]][Flat].of \in {calls[Newest(c[2])].key, "nothing"}

(* The list pages, with the flag and the error their grid shows.           *)
GridPages ==
    {<<"environment", "fetchEnvironments", "listLoading", "error">>,
     <<"booking", "fetchBookings", "listLoading", "error">>,
     <<"build", "fetchBuilds", "listLoading", "error">>,
     <<"changeRequest", "fetchChangeRequests", "listLoading", "error">>,
     <<"decommission", "fetchDecommissionWorklist", "worklistLoading", "worklistError">>,
     <<"deployment", "fetchDeployments", "listLoading", "error">>,
     <<"goNoGo", "fetchDecisions", "listLoading", "listError">>,
     <<"incidents", "fetchIncidents", "listLoading", "error">>,
     <<"infrastructureComponent", "fetchInfrastructureComponents", "listLoading", "error">>,
     <<"release", "fetchReleases", "listLoading", "error">>,
     <<"system", "fetchSystems", "listLoading", "error">>}

(* Aborting a page's previous question is invisible: while the newest is   *)
(* in flight the grid spins, and an error on the page is the failure of a  *)
(* call that failed, never the abort.                                      *)
AbortsAreSilent ==
    \A c \in GridPages : (c[1] = slice /\ c[2] \in cast) =>
        /\ (Newest(c[2]) /= 0 /\ calls[Newest(c[2])].st = "inflight") => c[3] \in flags
        /\ \A k \in errs[c[4]] : \E i \in DOMAIN calls :
               calls[i].key = k /\ calls[i].st = "failed"

(* Fields that are kept per owner (a release, a gate, an entity type).     *)
KeptPerKey ==
    {<<"closeout", "byRelease">>, <<"enterpriseMembership", "byEnterprise">>,
     <<"release", "gateEvidenceByGate">>, <<"bookingLifecycle", "templatesByEntity">>,
     <<"customField", "definitions">>, <<"booking", "conflicts">>,
     <<"deployment", "byBuild">>, <<"runbook", "byPlan">>, <<"runbook", "plansByRelease">>}

(* In whatever order the answers come, what is kept for one owner never    *)
(* holds rows that were read or written for another.                       *)
OwnersKeptApart ==
    \A c \in KeptPerKey : (c[1] = slice /\ c[2] \in DOMAIN data) =>
        \A s \in Slots : /\ data[c[2]][s].of \in {s, "nothing"}
                         /\ data[c[2]][s].rows \subseteq {s}

(* Reads with an error field of their own.                                 *)
OwnError ==
    {<<"environmentGroup", "fetchGroupsForEnvironment", "environmentGroupsError">>,
     <<"goNoGo", "fetchDecisions", "listError">>,
     <<"decommission", "fetchDecommissionWorklist", "worklistError">>,
     <<"decommission", "fetchDecommissionSteps", "stepsError">>,
     <<"decommission", "fetchAllDecommissionSteps", "adminStepsError">>,
     <<"rollback", "fetchRollbackPlans", "plansError">>,
     <<"rollback", "fetchRollbackAuthorisations", "authorisationsError">>,
     <<"rollback", "fetchRehearsals", "rehearsalsError">>,
     <<"runbook", "fetchRunbooks", "listError">>}

(* When the newest such read failed, its message stays on screen: neither  *)
(* the success of another operation nor a late answer of an older read     *)
(* erases it.                                                              *)
FailureStaysVisible ==
    \A c \in OwnError :
        (c[1] = slice /\ Newest(c[2]) /= 0 /\ calls[Newest(c[2])].st = "failed")
            => errs[c[3]] /= {}

(* Detail pages, with the reads that open an item on them.                 *)
DetailPages ==
    {<<"environment", "currentEnvironment">>, <<"system", "currentSystem">>,
     <<"changeRequest", "detail">>, <<"release", "detail">>,
     <<"releaseTemplate", "detail">>, <<"booking", "selectedBooking">>}

(* The item a detail page shows is one some read asked for and received: a *)
(* late answer to a write never puts another item on the page, nor brings  *)
(* back one the page has let go of.                                        *)
WritesNeverOpen ==
    \A c \in DetailPages :
        (c[1] = slice /\ c[2] \in DOMAIN data /\ data[c[2]][Flat].of /= "nothing") =>
            \E i \in DOMAIN calls :
                /\ calls[i].st = "ok"
                /\ calls[i].key = data[c[2]][Flat].of
                /\ KindOf(calls[i].t) \in ReadKinds

(* Effects that leave their flag up when they run their cleanup and return *)
(* early.                                                                  *)
LeavesFlagUp == {"bookingScheduleGantt", "topologyCanvas", "envSubsystemHostsDialog"}

(* When nothing is in flight and the list page is on screen, no loading    *)
(* flag is up: no spinner waits for an answer that will not come.          *)
QuietMeansIdle ==
    (mounted /\ Running = {} /\ Aborting = {} /\ slice \notin LeavesFlagUp) => flags = {}
=============================================================================
