--------------------------- MODULE RunbookRacing ---------------------------
(***************************************************************************)
(* The same runbook handlers, run by concurrent requests.                   *)
(*                                                                          *)
(* A request is one READ COMMITTED transaction with no row locks on its     *)
(* reads (db/base.py get_db, api/v1/runbooks.py):                           *)
(*   Read    the handler's queries and checks, on what is committed now;    *)
(*           the ORM holds the columns that differ from the loaded row;     *)
(*   Flush   the UPDATE, DELETE and INSERT statements, which wait for the   *)
(*           rows another open transaction has written, and then the        *)
(*           composite read over the result, which fails on a cycle;        *)
(*   Commit  after the handler returned.                                    *)
(* The reads of one handler are one step, and so are its writes: the model  *)
(* has fewer interleavings than the database, and none it does not have.    *)
(***************************************************************************)
EXTENDS Runbook

CONSTANTS Requests,   \* requests in flight at once
          Kinds       \* the handlers this instance exercises

VARIABLE req          \* req[q]: phase and uncommitted writes of request q

rvars == <<vars, req>>

\* The writes of a handler: one partial function per column, dependency rows,
\* and the plan whose composite read ends the handler (deletes return 204).
NoWrites == [slot |-> <<>>, planLive |-> <<>>, taskPlan |-> <<>>, taskLive |-> <<>>,
             team |-> <<>>, status |-> <<>>, startedAt |-> <<>>, finishedAt |-> <<>>,
             lastEvent |-> <<>>, dropDeps |-> {}, addDeps |-> {}, reads |-> None]

Idle == [phase |-> "idle", writes |-> NoWrites]

\* A value for one row; the writes of a column over what the column held.
Sets(row, value) == [x \in {row} |-> value]
Over(writes, column) ==
    [x \in DOMAIN writes \cup DOMAIN column |->
        IF x \in DOMAIN writes THEN writes[x] ELSE column[x]]

\* The unit of work sends a column only when it differs from the loaded row.
Dirty(row, loaded, value) == IF loaded = value THEN <<>> ELSE Sets(row, value)

PendingRows(col) == UNION {DOMAIN req[q].writes[col] : q \in Requests}

-----------------------------------------------------------------------------
CreatePlanWrites(r, e, p) ==
    [NoWrites EXCEPT !.slot = Dirty(p, slot[p], <<r, e>>), !.planLive = Sets(p, TRUE), !.reads = p]

\* Two creates never draw the same new id; both may revive the same row.
CreatePlanRead(r, e, p) ==
    /\ CreatePlanAccepted(r, e)
    /\ IF PlanRows(r, e) # {} THEN PlanRowChosen(r, e, p)
                              ELSE slot[p] = None /\ p \notin PendingRows("slot")

DeletePlanWrites(p) ==
    [NoWrites EXCEPT !.planLive = Sets(p, FALSE),
                     !.taskLive = [t \in LiveTasks(p) |-> FALSE]]

CreateTaskWrites(p, t, ids) ==
    [NoWrites EXCEPT !.taskPlan = Sets(t, p), !.taskLive = Sets(t, TRUE), !.addDeps = {t} \X ids,
                     !.reads = p]

CreateTaskRead(p, t, ids) ==
    CreateTaskAccepted(p, t, None, ids) /\ t \notin PendingRows("taskPlan")

DeleteTaskWrites(t) ==
    [NoWrites EXCEPT !.taskLive = Sets(t, FALSE),
                     !.dropDeps = ({t} \X Tasks) \cup (Tasks \X {t})]

SetPredecessorsWrites(t, ids) ==
    [NoWrites EXCEPT !.dropDeps = {t} \X Tasks, !.addDeps = {t} \X ids,
                     !.reads = taskPlan[t]]

UpdateTaskWrites(t, g) ==
    [NoWrites EXCEPT !.team = Dirty(t, team[t], g), !.reads = taskPlan[t]]

TransitionWrites(t, to, at) ==
    [NoWrites EXCEPT !.status = Sets(t, to), !.lastEvent = Sets(t, to), !.reads = taskPlan[t],
        !.startedAt = Dirty(t, startedAt[t], StampStart(t, status[t], to, at)),
        !.finishedAt = Dirty(t, finishedAt[t], StampFinish(to, at))]

\* The handler of this kind is under way: it has decided on its writes.
Decide(q, kind, w) ==
    /\ kind \in Kinds
    /\ req[q].phase = "idle"
    /\ req' = [req EXCEPT ![q] = [phase |-> "decided", writes |-> w]]
    /\ UNCHANGED vars

\* A request of each kind, on the committed state.
Read(q) ==
    \/ \E r \in Releases, e \in Envs, p \in Plans :
            CreatePlanRead(r, e, p) /\ Decide(q, "create_plan", CreatePlanWrites(r, e, p))
    \/ \E p \in Plans :
            DeletePlanAccepted(p) /\ Decide(q, "delete_plan", DeletePlanWrites(p))
    \/ \E p \in Plans, t \in Tasks, ids \in SUBSET Tasks :
            CreateTaskRead(p, t, ids) /\ Decide(q, "create_task", CreateTaskWrites(p, t, ids))
    \/ \E t \in Tasks :
            DeleteTaskAccepted(t) /\ Decide(q, "delete_task", DeleteTaskWrites(t))
    \/ \E t \in Tasks, g \in Teams \cup {None} :
            UpdateTaskAccepted(t, g) /\ Decide(q, "update_task", UpdateTaskWrites(t, g))
    \/ \E t \in Tasks, ids \in SUBSET Tasks :
            /\ SetPredecessorsAccepted(t, ids)
            /\ Decide(q, "set_predecessors", SetPredecessorsWrites(t, ids))
    \/ \E u \in Users, t \in Tasks, to \in Statuses, at \in Time :
            /\ TransitionAccepted(u, t, to, TRUE, at)
            /\ Decide(q, "transition", TransitionWrites(t, to, at))

\* Rows written by a request: an UPDATE of one waits for the other to end; so
\* does an INSERT of the same unique dependency pair.
LockedRows(w) ==
    <<DOMAIN w.slot \cup DOMAIN w.planLive,
      UNION {DOMAIN w[c] : c \in {"taskPlan", "taskLive", "team", "status", "startedAt", "finishedAt"}},
      w.addDeps>>
Conflict(v, w) == \E i \in 1 .. 3 : LockedRows(v)[i] \cap LockedRows(w)[i] # {}

DepsAfter(w) == (deps \ w.dropDeps) \cup w.addDeps

\* The DELETE removes the rows committed by now.  An INSERT of a pair that is
\* still there violates uq_runbook_task_dependency.  The composite read raises
\* CycleError if the plan, with this request's own writes, has a cycle.
Flush(q) ==
    LET w == req[q].writes
        seen == [w EXCEPT !.dropDeps = @ \cap deps]
        live == {t \in Tasks : /\ Over(w.taskLive, [x \in Tasks |-> x \in taskLive])[t]
                              /\ Over(w.taskPlan, taskPlan)[t] = w.reads}
    IN
    /\ req[q].phase = "decided"
    /\ \A r \in Requests : req[r].phase = "flushed" => ~Conflict(req[r].writes, w)
    /\ (deps \ seen.dropDeps) \cap w.addDeps = {}
    /\ w.reads # None => Acyclic(live, DepsAfter(seen))
    /\ req' = [req EXCEPT ![q] = [phase |-> "flushed", writes |-> seen]]
    /\ UNCHANGED vars

Commit(q) ==
    LET w == req[q].writes
        Flags(f, S, U) == {x \in U : Over(f, [y \in U |-> y \in S])[x]}
    IN
    /\ req[q].phase = "flushed"
    /\ slot' = Over(w.slot, slot)
    /\ planLive' = Flags(w.planLive, planLive, Plans)
    /\ taskPlan' = Over(w.taskPlan, taskPlan)
    /\ taskLive' = Flags(w.taskLive, taskLive, Tasks)
    /\ team' = Over(w.team, team)
    /\ status' = Over(w.status, status)
    /\ startedAt' = Over(w.startedAt, startedAt)
    /\ finishedAt' = Over(w.finishedAt, finishedAt)
    /\ lastEvent' = Over(w.lastEvent, lastEvent)
    /\ deps' = DepsAfter(w)
    /\ req' = [req EXCEPT ![q] = Idle]
    /\ UNCHANGED <<retired, now>>

\* An exception rolls the transaction back: a lost constraint race, a cycle
\* found by the composite read, a dropped connection.
Rollback(q) ==
    /\ req[q].phase # "idle"
    /\ req' = [req EXCEPT ![q] = Idle]
    /\ UNCHANGED vars

RacingInit == Init /\ req = [q \in Requests |-> Idle]

RacingNext ==
    \/ \E q \in Requests : Read(q)
    \/ \E q \in Requests : Flush(q)
    \/ \E q \in Requests : Commit(q)
    \/ \E q \in Requests : Rollback(q)

RacingSpec == RacingInit /\ [][RacingNext]_rvars

-----------------------------------------------------------------------------
(* Properties.                                                              *)

\* The model's docstring: at most one LIVE plan per (release, environment).
OneLivePlanPerSlot == \A p, q \in planLive : slot[p] = slot[q] => p = q

\* Whatever the race, the SQL ready clause and the transition guard agree on
\* what can be started: both read committed rows, and a dependency row never
\* leaves its plan.
QueueAgreesUnderRaces ==
    /\ EdgesStayInPlan
    /\ \A t \in Tasks : TaskFound(t) =>
            (ReadyClause(t) <=> status[t] = "not_started" /\ PredsSatisfied(t))
=============================================================================
