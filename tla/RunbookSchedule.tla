-------------------------- MODULE RunbookSchedule --------------------------
(***************************************************************************)
(* runbook_schedule_service.compute: the schedule read off a plan, composed *)
(* with the Runbook transitions that change what it reads.                  *)
(*                                                                          *)
(* Time is in minutes, the precision _utc truncates to.  The passes of      *)
(* compute visit tasks in topological order so that a predecessor's value   *)
(* is known; here they are functions defined by recursion over the          *)
(* (acyclic) predecessors, which is the same computation.                   *)
(***************************************************************************)
EXTENDS Runbook, FiniteSetsExt, Relation

CONSTANTS ThePlan,      \* the plan being carried out
          Anchors,      \* values of anchor_start_at
          Durations,    \* values of duration_minutes
          FixedStarts   \* values of fixed_start_at, None included

\* The tasks of a plan are a list; a duration is validated as ge=0.
ASSUME ScheduleAssumption ==
    /\ ThePlan \in Plans
    /\ IsFiniteSet(Tasks)
    /\ Anchors \subseteq Int
    /\ Durations \subseteq Nat
    /\ FixedStarts \subseteq Int \cup {None}
    /\ None \notin Int

VARIABLES anchor,       \* runbook_plan.anchor_start_at
          duration,     \* runbook_task.duration_minutes
          fixedStart    \* runbook_task.fixed_start_at

planning == <<anchor, duration, fixedStart>>
svars == <<vars, planning>>

-----------------------------------------------------------------------------
(* compute.                                                                 *)

MaxOr(S, default) == IF S = {} THEN default ELSE Max(S)
MinOr(S, default) == IF S = {} THEN default ELSE Min(S)
NotBefore(start, floor) == IF floor = None \/ floor < start THEN start ELSE floor

\* Mutant: the baseline ignores fixed starts.
Planned_NoFixedStart ==
    LET plan[t \in taskLive] ==
            LET start == MaxOr({plan[p].finish : p \in Preds(t)}, anchor)
            IN [start |-> start, finish |-> start + duration[t]]
    IN plan
\* The planned pass: ignores status.
Planned ==
    LET plan[t \in taskLive] ==
            LET start == NotBefore(MaxOr({plan[p].finish : p \in Preds(t)}, anchor), fixedStart[t])
            IN [start |-> start, finish |-> start + duration[t]]
    IN plan

\* Mutant: the remaining minutes of a running task are added to its start.
ForecastRow_RemainingFromStart(t, driven) ==
    LET start == IF status[t] \in {"in_progress", "failed", "done"} THEN startedAt[t]
                 ELSE IF status[t] = "skipped" THEN driven
                 ELSE NotBefore(NotBefore(driven, fixedStart[t]), now)
        finish == CASE status[t] = "done" -> finishedAt[t]
                    [] status[t] \in {"in_progress", "failed"} -> start + (duration[t] - (now - start))
                    [] status[t] = "skipped" -> driven
                    [] status[t] = "not_started" -> start + duration[t]
    IN [start |-> start, finish |-> finish]

\* The forecast pass: one row of the table per status.  `delay[t]` minutes are
\* added to t's finish; compute is Forecast of no delay, and a property asks
\* what a delay would do.
ForecastRow(t, driven) ==
    LET start == IF status[t] = "done"
                     THEN IF startedAt[t] # None THEN startedAt[t]
                          ELSE IF finishedAt[t] # None THEN finishedAt[t] ELSE driven
                 ELSE IF status[t] \in {"in_progress", "failed"}
                     THEN IF startedAt[t] # None THEN startedAt[t] ELSE now
                 ELSE IF status[t] = "skipped" THEN driven
                 ELSE NotBefore(NotBefore(driven, fixedStart[t]), now)
        finish == IF status[t] = "done"
                      THEN IF finishedAt[t] # None THEN finishedAt[t] ELSE start
                  ELSE IF status[t] \in {"in_progress", "failed"}
                      THEN NotBefore(start + duration[t], now)
                  ELSE IF status[t] = "skipped" THEN driven
                  ELSE start + duration[t]
    IN [start |-> start, finish |-> finish]

Forecast(delay) ==
    LET fc[t \in taskLive] ==
            LET driven == MaxOr({fc[p].finish : p \in Preds(t)}, anchor)
                row == ForecastRow(t, driven)
            IN [start |-> row.start, finish |-> row.finish + delay[t], driven |-> driven]
    IN fc

NoDelay == [t \in Tasks |-> 0]

EndOf(rows) == MaxOr({rows[t].finish : t \in taskLive}, anchor)

\* Mutant: the backward pass starts from the planned end.
LatestFinish_FromPlannedEnd(fc) ==
    LET latest[t \in taskLive] ==
            MinOr({latest[s] - (fc[s].finish - fc[s].start) : s \in Succs(t)}, EndOf(Planned))
    IN latest
\* The backward pass from the forecast end.
LatestFinish(fc) ==
    LET latest[t \in taskLive] ==
            MinOr({latest[s] - (fc[s].finish - fc[s].start) : s \in Succs(t)}, EndOf(fc))
    IN latest

Critical(t) ==
    LET fc == Forecast(NoDelay) IN
    status[t] \notin SATISFIED_STATUSES /\ LatestFinish(fc)[t] = fc[t].finish

Blocked(t) ==
    LET blocked[x \in taskLive] == \E p \in Preds(x) : status[p] = "failed" \/ blocked[p]
    IN blocked[t]

LateStart(t) == Forecast(NoDelay)[t].start > Planned[t].start
SlippedPastFixedStart(t) == fixedStart[t] # None /\ Forecast(NoDelay)[t].driven > fixedStart[t]

PlanState ==
    LET s == {status[t] : t \in taskLive} IN
    IF s # {} /\ s \subseteq SATISFIED_STATUSES THEN "complete"
    ELSE IF "failed" \in s THEN "failed"
    ELSE IF s \subseteq {"not_started"} THEN "not_started"
    ELSE "in_progress"

SlipMinutes == Max({EndOf(Forecast(NoDelay)) - EndOf(Planned), 0})

-----------------------------------------------------------------------------
(* A plan being edited and carried out.                                     *)

\* update_plan
UpdatePlan(a) ==
    /\ PlanFound(ThePlan)
    /\ anchor' = a
    /\ UNCHANGED <<vars, duration, fixedStart>>

\* update_task: duration and fixed start stay editable at any time.
UpdateTaskTimes(t, d, f) ==
    /\ TaskFound(t)
    /\ duration' = [duration EXCEPT ![t] = d]
    /\ fixedStart' = [fixedStart EXCEPT ![t] = f]
    /\ UNCHANGED <<vars, anchor>>

Report(u, t, to, at) == Transition(u, t, to, TRUE, at) /\ UNCHANGED planning

Advance == Tick /\ UNCHANGED planning

\* One live plan whose tasks have been created with any acyclic dependencies.
ScheduleInit ==
    /\ slot \in [Plans -> Slots]
    /\ planLive = {ThePlan}
    /\ taskPlan = [t \in Tasks |-> ThePlan]
    /\ taskLive = Tasks
    /\ team = [t \in Tasks |-> None]
    /\ status = [t \in Tasks |-> "not_started"]
    /\ startedAt = [t \in Tasks |-> None]
    /\ finishedAt = [t \in Tasks |-> None]
    /\ lastEvent = [t \in Tasks |-> None]
    /\ deps \in {E \in SUBSET (Tasks \X Tasks) : Acyclic(Tasks, E)}
    /\ retired = {}
    /\ now = 0
    /\ anchor \in Anchors
    /\ duration \in [Tasks -> Durations]
    /\ fixedStart \in [Tasks -> FixedStarts]

ScheduleNext ==
    \/ \E a \in Anchors : UpdatePlan(a)
    \/ \E t \in Tasks, d \in Durations, f \in FixedStarts : UpdateTaskTimes(t, d, f)
    \/ \E u \in Managers, t \in Tasks, to \in Statuses, at \in Time : Report(u, t, to, at)
    \/ Advance

ScheduleSpec == ScheduleInit /\ [][ScheduleNext]_svars

-----------------------------------------------------------------------------
(* Properties.                                                              *)

Delay(t) == [NoDelay EXCEPT ![t] = 1]
DelayMovesEnd(t) == EndOf(Forecast(Delay(t))) > EndOf(Forecast(NoDelay))

\* The design: a task is critical when a delay to it moves the plan's end.
CriticalIffDelayMovesEnd ==
    \A t \in taskLive : status[t] \notin SATISFIED_STATUSES => (Critical(t) <=> DelayMovesEnd(t))

\* It holds as long as nothing was skipped ahead of its predecessors.
CriticalPathExact ==
    (\A t \in taskLive : status[t] = "skipped" => PredsSatisfied(t)) => CriticalIffDelayMovesEnd

\* "Before the anchor the forecast equals the plan", and nothing is late.
OnPlanBeforeAnchor ==
    (now <= anchor /\ \A t \in taskLive : status[t] = "not_started") =>
        /\ \A t \in taskLive : /\ Forecast(NoDelay)[t].start = Planned[t].start
                               /\ Forecast(NoDelay)[t].finish = Planned[t].finish
                               /\ ~LateStart(t)
        /\ SlipMinutes = 0

\* blocked: some transitive predecessor is failed.
BlockedIffFailedAncestor ==
    LET before == TransitiveClosure([x, y \in Tasks |-> <<x, y>> \in deps], Tasks) IN
    \A t \in taskLive : Blocked(t) <=> \E f \in taskLive : before[t, f] /\ status[f] = "failed"

\* The plan's state against what is left to do: an unfinished plan is never
\* forecast to have ended, and it is complete exactly when no transition but a
\* reopen is left.
StateMatchesWork ==
    /\ PlanState # "complete" => EndOf(Forecast(NoDelay)) >= now
    /\ PlanState = "complete" <=>
            \A t \in taskLive, to \in Statuses : <<status[t], to>> \in EDGES => to = "not_started"

\* Waiting never improves the forecast: with no report and no edit, a later
\* clock gives a later or equal end.
WaitingNeverHelps ==
    [][Advance => EndOf(Forecast(NoDelay))' >= EndOf(Forecast(NoDelay))]_svars
=============================================================================
