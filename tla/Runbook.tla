------------------------------ MODULE Runbook ------------------------------
(***************************************************************************)
(* The cutover runbook: a plan per (release, environment), tasks carried    *)
(* out by one team each, dependencies between the tasks of a plan, and the  *)
(* status changes people report.                                            *)
(*                                                                          *)
(*   runbook_service.py            plan, task and dependency writes         *)
(*   runbook_execution_service.py  status transitions, the ready queue      *)
(*   api/v1/runbooks.py            one request = one transaction            *)
(*                                                                          *)
(* Every action is one accepted request, executed alone.  A refused request *)
(* (404, 403, 409, 422) rolls back and changes nothing, so it is the        *)
(* negation of the action's guard.  Each handler is written as a guard      *)
(* (...Accepted) and the values it stores, so that RunbookRacing can reuse  *)
(* them with the check and the write at different moments.                  *)
(*                                                                          *)
(* Names, descriptions, kinds, systems, notes and sort orders are left out; *)
(* anchor, duration and fixed start are in RunbookSchedule, which alone     *)
(* reads them.                                                              *)
(***************************************************************************)
EXTENDS TaskGraph, Integers, FiniteSets

CONSTANTS
    Releases, Envs,     \* the neighbours a plan refers to
    Teams,              \* user groups
    Plans,              \* ids of runbook_plan rows (numbers: the oldest row is revived)
    Tasks,              \* ids of runbook_task rows
    Users,              \* everyone signed in to the tenant
    Managers,           \* is_manager: Admin, Release Manager, master admin
    MemberOf,           \* MemberOf[u]: the teams u belongs to
    MaxTime,            \* bound on the clock
    MaxRetired,         \* bound on how many neighbours are archived
    None                \* SQL NULL

Slots == Releases \X Envs
Neighbours == Releases \cup Envs \cup Teams
Time == 0 .. MaxTime
MaybeTime == Time \cup {None}

Statuses == {"not_started", "in_progress", "done", "failed", "skipped"}
SATISFIED_STATUSES == {"done", "skipped"}

ASSUME RunbookAssumption ==
    /\ Plans \subseteq Nat
    /\ Managers \subseteq Users
    /\ MemberOf \in [Users -> SUBSET Teams]
    /\ MaxTime \in Nat
    /\ MaxRetired \in Nat
    /\ None \notin Slots /\ None \notin Plans /\ None \notin Teams
    /\ None \notin Nat /\ None \notin Statuses

VARIABLES
    slot,       \* slot[p]: the (release, environment) of plan row p, None if never inserted
    planLive,   \* plans whose deleted_at is NULL
    taskPlan,   \* taskPlan[t]: plan_id of task row t, None if never inserted
    taskLive,   \* tasks whose deleted_at is NULL
    team,       \* team_group_id
    status,     \* status
    startedAt,  \* actual_started_at
    finishedAt, \* actual_finished_at
    lastEvent,  \* to_status of the newest history row of t, None if it has none
    deps,       \* runbook_task_dependency rows <<task, predecessor>>
    retired,    \* archived releases, environments and teams
    now         \* the server's clock

planVars == <<slot, planLive>>
rowVars == <<taskPlan, taskLive, team>>
execVars == <<status, startedAt, finishedAt, lastEvent>>
vars == <<slot, planLive, taskPlan, taskLive, team, status, startedAt,
          finishedAt, lastEvent, deps, retired, now>>

-----------------------------------------------------------------------------
(* What the queries return.                                                 *)

\* get_plan, get_task: a task is found only under a live plan.
PlanFound(p) == p \in planLive
TaskFound(t) == t \in taskLive /\ taskPlan[t] \in planLive

LiveTasks(p) == {t \in taskLive : taskPlan[t] = p}

\* live_edges: both ends are live tasks of the plan.
LiveEdges(p) == {e \in deps : e[1] \in LiveTasks(p) /\ e[2] \in LiveTasks(p)}

\* _neighbours
Preds(t) == {p \in Tasks : <<t, p>> \in LiveEdges(taskPlan[t])}
Succs(t) == {s \in Tasks : <<s, t>> \in LiveEdges(taskPlan[t])}

-----------------------------------------------------------------------------
(* runbook_execution_service: the transition table and who may use it.      *)

EDGES == {<<"not_started", "in_progress">>, <<"not_started", "done">>,
          <<"not_started", "skipped">>, <<"in_progress", "done">>,
          <<"in_progress", "failed">>, <<"failed", "in_progress">>,
          <<"failed", "skipped">>, <<"done", "not_started">>,
          <<"skipped", "not_started">>}
MANAGER_ONLY == {<<"not_started", "skipped">>, <<"failed", "skipped">>,
                 <<"done", "not_started">>, <<"skipped", "not_started">>}
\* Mutant: ticking a task off in one step forgets the predecessor rule.
NEEDS_PREDECESSORS_StartOnly == {<<"not_started", "in_progress">>}
NEEDS_PREDECESSORS == {<<"not_started", "in_progress">>, <<"not_started", "done">>}
NEEDS_QUIET_SUCCESSORS == {<<"done", "not_started">>, <<"skipped", "not_started">>}

TeamMember(u, t) == team[t] # None /\ team[t] \in MemberOf[u]

PredsSatisfied(t) == \A p \in Preds(t) : status[p] \in SATISFIED_STATUSES
SuccsQuiet(t) == \A s \in Succs(t) : status[s] = "not_started"

\* transition: may u report `to` for t, said to have happened at `at`?
TransitionAccepted(u, t, to, reason, at) ==
    LET pair == <<status[t], to>> IN
    /\ TaskFound(t)
    /\ pair \in EDGES
    /\ IF pair \in MANAGER_ONLY THEN u \in Managers /\ reason
                                ELSE u \in Managers \/ TeamMember(u, t)
    /\ at <= now
    /\ status[t] = "in_progress" /\ startedAt[t] # None => at >= startedAt[t]
    /\ pair \in NEEDS_PREDECESSORS => PredsSatisfied(t)
    /\ pair \in NEEDS_QUIET_SUCCESSORS => SuccsQuiet(t)

\* The actual times a transition from `frm` to `to` stores.
StampStart(t, frm, to, at) ==
    IF to = "in_progress" \/ (to = "done" /\ frm = "not_started") THEN at
    ELSE IF to = "not_started" THEN None ELSE startedAt[t]
StampFinish(to, at) ==
    IF to \in {"in_progress", "not_started"} THEN None ELSE at

\* Mutant: the read offers a reopen without looking at the successors.
AllowedTransitions_ReopenAnytime(u, t) ==
    {to \in Statuses :
        LET pair == <<status[t], to>> IN
        /\ pair \in EDGES
        /\ IF pair \in MANAGER_ONLY THEN u \in Managers
                                    ELSE u \in Managers \/ TeamMember(u, t)
        /\ pair \in NEEDS_PREDECESSORS => PredsSatisfied(t)}

\* allowed_transitions: what the composite read offers the caller.
AllowedTransitions(u, t) ==
    {to \in Statuses :
        LET pair == <<status[t], to>> IN
        /\ pair \in EDGES
        /\ IF pair \in MANAGER_ONLY THEN u \in Managers
                                    ELSE u \in Managers \/ TeamMember(u, t)
        /\ ~(pair \in NEEDS_PREDECESSORS /\ \E p \in Preds(t) : status[p] \notin SATISFIED_STATUSES)
        /\ ~(pair \in NEEDS_QUIET_SUCCESSORS /\ \E s \in Succs(t) : status[s] # "not_started")}

\* Mutant: the SQL twin lists "done" alone as satisfied.
ReadyClause_DoneOnly(t) ==
    /\ status[t] = "not_started"
    /\ t \in taskLive
    /\ ~ \E p \in Tasks : <<t, p>> \in deps /\ p \in taskLive /\ status[p] # "done"

\* ready_clause: the SQL twin.  It joins dependency rows to live predecessors
\* and, unlike live_edges, does not look at the predecessor's plan.
ReadyClause(t) ==
    /\ status[t] = "not_started"
    /\ t \in taskLive
    /\ ~ \E p \in Tasks : /\ <<t, p>> \in deps
                          /\ p \in taskLive
                          /\ status[p] \notin SATISFIED_STATUSES

\* ready_queue: the tasks "waiting on" u.
ReadyQueue(u) ==
    {t \in Tasks : /\ ReadyClause(t)
                   /\ TeamMember(u, t)
                   /\ taskPlan[t] \in planLive
                   /\ slot[taskPlan[t]][1] \notin retired}

-----------------------------------------------------------------------------
(* runbook_service: guards of the structural writes.                        *)

PlanRows(r, e) == {p \in Plans : slot[p] = <<r, e>>}

\* create_plan picks the oldest row of the slot, else the next id.
CreatePlanAccepted(r, e) ==
    /\ r \notin retired
    /\ e \notin retired
    /\ PlanRows(r, e) \cap planLive = {}
PlanRowChosen(r, e, p) ==
    LET rows == IF PlanRows(r, e) # {} THEN PlanRows(r, e)
                                       ELSE {q \in Plans : slot[q] = None}
    IN p \in rows /\ \A q \in rows : p <= q

DeletePlanAccepted(p) ==
    /\ PlanFound(p)
    /\ \A t \in LiveTasks(p) : status[t] = "not_started"

\* _validate_team: an unchanged team is accepted even if archived.
ValidTeam(new, current) == new = None \/ new = current \/ new \notin retired

\* Mutant: only a task that waits on itself is refused.
PredecessorsAccepted_SelfOnly(t, st, ids, tasks, edges) ==
    /\ t \notin ids
    /\ ids \subseteq tasks
    /\ st # "not_started" => \A p \in ids : status[p] \in SATISFIED_STATUSES

\* set_predecessors on task t, whose status is st, of a plan whose live tasks
\* are `tasks` and live edges `edges`.
PredecessorsAccepted(t, st, ids, tasks, edges) ==
    /\ t \notin ids
    /\ ids \subseteq tasks
    /\ st # "not_started" => \A p \in ids : status[p] \in SATISFIED_STATUSES
    /\ Acyclic(tasks, {e \in edges : e[1] # t} \cup ({t} \X ids))

SetPredecessorsAccepted(t, ids) ==
    /\ TaskFound(t)
    /\ PredecessorsAccepted(t, status[t], ids, LiveTasks(taskPlan[t]), LiveEdges(taskPlan[t]))

CreateTaskAccepted(p, t, g, ids) ==
    /\ PlanFound(p)
    /\ taskPlan[t] = None                    \* a fresh id
    /\ ValidTeam(g, None)
    /\ ids # {} => PredecessorsAccepted(t, "not_started", ids, LiveTasks(p) \cup {t}, LiveEdges(p))

UpdateTaskAccepted(t, g) == TaskFound(t) /\ ValidTeam(g, team[t])

DeleteTaskAccepted(t) == TaskFound(t) /\ status[t] = "not_started"

-----------------------------------------------------------------------------
Init ==
    /\ slot = [p \in Plans |-> None]
    /\ planLive = {}
    /\ taskPlan = [t \in Tasks |-> None]
    /\ taskLive = {}
    /\ team = [t \in Tasks |-> None]
    /\ status = [t \in Tasks |-> "not_started"]
    /\ startedAt = [t \in Tasks |-> None]
    /\ finishedAt = [t \in Tasks |-> None]
    /\ lastEvent = [t \in Tasks |-> None]
    /\ deps = {}
    /\ retired = {}
    /\ now = 0

\* Mutant: reviving the plan revives its old tasks too.
CreatePlan_RevivesTasks(r, e, p) ==
    /\ CreatePlanAccepted(r, e)
    /\ PlanRowChosen(r, e, p)
    /\ slot' = [slot EXCEPT ![p] = <<r, e>>]
    /\ planLive' = planLive \cup {p}
    /\ taskLive' = taskLive \cup {t \in Tasks : taskPlan[t] = p}
    /\ UNCHANGED <<taskPlan, team, execVars, deps, retired, now>>

\* create_plan: a soft-deleted row of the slot is revived, not duplicated.
CreatePlan(r, e, p) ==
    /\ CreatePlanAccepted(r, e)
    /\ PlanRowChosen(r, e, p)
    /\ slot' = [slot EXCEPT ![p] = <<r, e>>]
    /\ planLive' = planLive \cup {p}
    /\ UNCHANGED <<rowVars, execVars, deps, retired, now>>

\* delete_plan: the plan and its tasks; the dependency rows stay.
DeletePlan(p) ==
    /\ DeletePlanAccepted(p)
    /\ planLive' = planLive \ {p}
    /\ taskLive' = taskLive \ LiveTasks(p)
    /\ UNCHANGED <<slot, taskPlan, team, execVars, deps, retired, now>>

CreateTask(p, t, g, ids) ==
    /\ CreateTaskAccepted(p, t, g, ids)
    /\ taskPlan' = [taskPlan EXCEPT ![t] = p]
    /\ taskLive' = taskLive \cup {t}
    /\ team' = [team EXCEPT ![t] = g]
    /\ deps' = deps \cup ({t} \X ids)
    /\ UNCHANGED <<planVars, execVars, retired, now>>

UpdateTask(t, g) ==
    /\ UpdateTaskAccepted(t, g)
    /\ team' = [team EXCEPT ![t] = g]
    /\ UNCHANGED <<planVars, taskPlan, taskLive, execVars, deps, retired, now>>

\* delete_task: dependency rows go in both directions, the row is soft-deleted.
DeleteTask(t) ==
    /\ DeleteTaskAccepted(t)
    /\ deps' = {e \in deps : e[1] # t /\ e[2] # t}
    /\ taskLive' = taskLive \ {t}
    /\ UNCHANGED <<planVars, taskPlan, team, execVars, retired, now>>

\* set_predecessors: replaces the whole set.
SetPredecessors(t, ids) ==
    /\ SetPredecessorsAccepted(t, ids)
    /\ deps' = {e \in deps : e[1] # t} \cup ({t} \X ids)
    /\ UNCHANGED <<planVars, rowVars, execVars, retired, now>>

Transition(u, t, to, reason, at) ==
    /\ TransitionAccepted(u, t, to, reason, at)
    /\ startedAt' = [startedAt EXCEPT ![t] = StampStart(t, status[t], to, at)]
    /\ finishedAt' = [finishedAt EXCEPT ![t] = StampFinish(to, at)]
    /\ status' = [status EXCEPT ![t] = to]
    /\ lastEvent' = [lastEvent EXCEPT ![t] = to]
    /\ UNCHANGED <<planVars, rowVars, deps, retired, now>>

\* Other services archive releases, environments and teams; none of them
\* consults the runbook.
RetireNeighbour(x) ==
    /\ Cardinality(retired) < MaxRetired
    /\ x \notin retired
    /\ retired' = retired \cup {x}
    /\ UNCHANGED <<planVars, rowVars, execVars, deps, now>>

Tick ==
    /\ now < MaxTime
    /\ now' = now + 1
    /\ UNCHANGED <<planVars, rowVars, execVars, deps, retired>>

Next ==
    \/ \E r \in Releases, e \in Envs, p \in Plans : CreatePlan(r, e, p)
    \/ \E p \in Plans : DeletePlan(p)
    \/ \E p \in Plans, t \in Tasks, g \in Teams \cup {None}, ids \in SUBSET Tasks :
            CreateTask(p, t, g, ids)
    \/ \E t \in Tasks, g \in Teams \cup {None} : UpdateTask(t, g)
    \/ \E t \in Tasks : DeleteTask(t)
    \/ \E t \in Tasks, ids \in SUBSET Tasks : SetPredecessors(t, ids)
    \/ \E u \in Users, t \in Tasks, to \in Statuses, reason \in BOOLEAN, at \in Time :
            Transition(u, t, to, reason, at)
    \/ \E x \in Neighbours : RetireNeighbour(x)
    \/ Tick

Spec == Init /\ [][Next]_vars

-----------------------------------------------------------------------------
(* Properties.                                                              *)

\* Every column holds a value of its type.
TypeOK ==
    /\ slot \in [Plans -> Slots \cup {None}]
    /\ planLive \subseteq Plans
    /\ taskPlan \in [Tasks -> Plans \cup {None}]
    /\ taskLive \subseteq Tasks
    /\ team \in [Tasks -> Teams \cup {None}]
    /\ status \in [Tasks -> Statuses]
    /\ startedAt \in [Tasks -> MaybeTime]
    /\ finishedAt \in [Tasks -> MaybeTime]
    /\ lastEvent \in [Tasks -> Statuses \cup {None}]
    /\ deps \subseteq Tasks \X Tasks
    /\ retired \subseteq Neighbours
    /\ now \in Time

\* The invariant the execution service names as the one every refusal protects:
\* no task is in_progress or done while a predecessor is anything other than
\* done or skipped.
PredecessorInvariant ==
    \A t \in taskLive : status[t] \in {"in_progress", "done"} => PredsSatisfied(t)

\* Writes refuse cycles: the live dependency graph of a plan can always be
\* scheduled by compute.
LiveGraphAcyclic == \A p \in Plans : Acyclic(LiveTasks(p), LiveEdges(p))

\* A dependency row never joins tasks of two plans, so ready_clause, which does
\* not compare plans, sees the predecessors live_edges sees.
EdgesStayInPlan ==
    \A e \in deps : taskPlan[e[1]] # None /\ taskPlan[e[1]] = taskPlan[e[2]]

\* delete_plan leaves no live task behind, and a revived row is the only row of
\* its slot: every live task is reachable through a live plan, and a
\* (release, environment) never has two plan rows.
NoOrphanTask == \A t \in taskLive : taskPlan[t] \in planLive
OneRowPerSlot == \A p, q \in Plans : slot[p] # None /\ slot[p] = slot[q] => p = q

\* A transition always stamps the matching actual times, and a task that ran
\* does not finish before it started; nothing is stamped in the future.
ActualsMatchStatus ==
    \A t \in Tasks :
        /\ (status[t] = "not_started") <=> (startedAt[t] = None /\ finishedAt[t] = None)
        /\ status[t] = "in_progress" => startedAt[t] # None /\ finishedAt[t] = None
        /\ status[t] \in {"done", "failed"} =>
               startedAt[t] # None /\ finishedAt[t] # None /\ startedAt[t] <= finishedAt[t]
        /\ startedAt[t] # None => startedAt[t] <= now
        /\ finishedAt[t] # None => finishedAt[t] <= now

\* The history is the record: its newest row says what the status column says,
\* and a task without history was never touched.
HistoryMatchesStatus ==
    \A t \in Tasks :
        IF lastEvent[t] = None THEN status[t] = "not_started" ELSE status[t] = lastEvent[t]

\* The composite read offers a target exactly when transition would accept it
\* now (with a reason).
OfferedIffPerformable ==
    \A u \in Users, t \in taskLive, to \in Statuses :
        to \in AllowedTransitions(u, t) <=> TransitionAccepted(u, t, to, TRUE, now)

\* "Waiting on me": every queued task can be started by that member, and a task
\* a member may start is queued unless its release is archived.
ReadyQueueIsStartable ==
    \A u \in Users, t \in taskLive :
        (TeamMember(u, t) /\ slot[taskPlan[t]][1] \notin retired) =>
            (t \in ReadyQueue(u) <=>
                status[t] = "not_started" /\ TransitionAccepted(u, t, "in_progress", FALSE, now))

\* An unfinished plan never wedges: some task of it is running, failed (so it
\* can be retried or skipped) or free to start.
CutoverNeverWedges ==
    \A p \in planLive :
        LET open == {t \in LiveTasks(p) : status[t] \notin SATISFIED_STATUSES} IN
        open # {} => \E t \in open : status[t] \in {"in_progress", "failed"} \/ PredsSatisfied(t)

\* A revived plan starts empty: its old tasks stay deleted for good.
RevivedPlanStartsEmpty ==
    [][/\ \A p \in planLive' \ planLive : \A t \in taskLive' : taskPlan'[t] # p
       /\ \A t \in Tasks : taskPlan[t] # None /\ t \notin taskLive => t \notin taskLive']_vars

\* A recorded start stands while work that relied on it is under way: a task is
\* taken back to not_started only while everything after it is untouched.
ReopenLeavesSuccessorsUntouched ==
    [][\A t \in Tasks : status[t] # "not_started" /\ status'[t] = "not_started"
            => \A s \in taskLive : <<s, t>> \in deps => status'[s] = "not_started"]_vars

\* A code comment says a task cannot finish before its own recorded start.
FinishNotBeforeStart ==
    \A t \in Tasks : startedAt[t] # None /\ finishedAt[t] # None => startedAt[t] <= finishedAt[t]
=============================================================================
