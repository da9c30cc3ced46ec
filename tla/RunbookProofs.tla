--------------------------- MODULE RunbookProofs ---------------------------
(***************************************************************************)
(* What the runbook handlers guarantee for any number of plans, tasks,      *)
(* teams and users: most of it when requests do not overlap (Spec), and what *)
(* survives when they do (RacingSpec).                                      *)
(***************************************************************************)
EXTENDS RunbookRacing, TLAPS

\* Statuses of a task whose work was begun and not taken back.
Begun == {"in_progress", "done", "failed"}

\* PredecessorInvariant is not inductive: a failed task is retried without
\* looking at its predecessors, so they must stay satisfied while it is failed.
BegunTasksRest ==
    \A t, p \in taskLive :
        <<t, p>> \in deps /\ status[t] \in Begun => status[p] \in SATISFIED_STATUSES

\* Dependency rows join two different inserted tasks of one plan.
RowsStayInPlan ==
    \A t, p \in Tasks : <<t, p>> \in deps => t # p /\ taskPlan[t] # None /\ taskPlan[t] = taskPlan[p]

\* A row is inserted as not_started and only an inserted row is transitioned.
FreshRows == \A t \in Tasks : taskPlan[t] = None => status[t] = "not_started"

IInv == TypeOK /\ RowsStayInPlan /\ NoOrphanTask /\ FreshRows /\ BegunTasksRest

-----------------------------------------------------------------------------
(* The types.                                                               *)

\* Every handler keeps every column in its type.
LEMMA TypeInit == Init => TypeOK
BY RunbookAssumption DEF Init, TypeOK, Statuses, MaybeTime, Time

LEMMA TypeNext == TypeOK /\ [Next]_vars => TypeOK'
<1> SUFFICES ASSUME TypeOK, [Next]_vars PROVE TypeOK'
    OBVIOUS
<1> USE RunbookAssumption DEF TypeOK
<1>1. ASSUME NEW r \in Releases, NEW e \in Envs, NEW p \in Plans, CreatePlan(r, e, p)
      PROVE  TypeOK'
    BY <1>1 DEF CreatePlan, rowVars, execVars, Slots
<1>2. ASSUME NEW p \in Plans, DeletePlan(p)
      PROVE  TypeOK'
    BY <1>2 DEF DeletePlan, execVars
<1>3. ASSUME NEW p \in Plans, NEW t \in Tasks, NEW g \in Teams \cup {None},
             NEW ids \in SUBSET Tasks, CreateTask(p, t, g, ids)
      PROVE  TypeOK'
    BY <1>3 DEF CreateTask, planVars, execVars
<1>4. ASSUME NEW t \in Tasks, NEW g \in Teams \cup {None}, UpdateTask(t, g)
      PROVE  TypeOK'
    BY <1>4 DEF UpdateTask, planVars, execVars
<1>5. ASSUME NEW t \in Tasks, DeleteTask(t)
      PROVE  TypeOK'
    BY <1>5 DEF DeleteTask, planVars, execVars
<1>6. ASSUME NEW t \in Tasks, NEW ids \in SUBSET Tasks, SetPredecessors(t, ids)
      PROVE  TypeOK'
    BY <1>6 DEF SetPredecessors, planVars, rowVars, execVars
<1>7. ASSUME NEW u \in Users, NEW t \in Tasks, NEW to \in Statuses, NEW reason \in BOOLEAN,
             NEW at \in Time, Transition(u, t, to, reason, at)
      PROVE  TypeOK'
    <2>1. StampStart(t, status[t], to, at) \in MaybeTime /\ StampFinish(to, at) \in MaybeTime
        BY DEF StampStart, StampFinish, MaybeTime
    <2> QED BY <1>7, <2>1 DEF Transition, planVars, rowVars
<1>8. ASSUME NEW x \in Neighbours, RetireNeighbour(x)
      PROVE  TypeOK'
    BY <1>8 DEF RetireNeighbour, planVars, rowVars, execVars
<1>9. ASSUME Tick PROVE TypeOK'
    BY <1>9 DEF Tick, planVars, rowVars, execVars, Time
<1>10. ASSUME UNCHANGED vars PROVE TypeOK'
    BY <1>10 DEF vars
<1> QED BY <1>1, <1>2, <1>3, <1>4, <1>5, <1>6, <1>7, <1>8, <1>9, <1>10 DEF Next

\* Every reachable state of the runbook tables is well typed.
THEOREM RunbookTypes == Spec => []TypeOK
BY TypeInit, TypeNext, PTL DEF Spec

-----------------------------------------------------------------------------
(* The predecessor invariant.                                               *)

LEMMA IInvInit == Init => IInv
<1> SUFFICES ASSUME Init PROVE IInv
    OBVIOUS
<1>1. TypeOK
    BY TypeInit
<1> QED BY <1>1 DEF Init, IInv, RowsStayInPlan, NoOrphanTask, FreshRows, BegunTasksRest

LEMMA IInvNext == IInv /\ [Next]_vars => IInv'
<1> SUFFICES ASSUME IInv, [Next]_vars PROVE RowsStayInPlan' /\ NoOrphanTask' /\ FreshRows' /\ BegunTasksRest'
    BY TypeNext DEF IInv
<1> DEFINE Goal == RowsStayInPlan' /\ NoOrphanTask' /\ FreshRows' /\ BegunTasksRest'
<1> USE RunbookAssumption
<1> USE DEF IInv, TypeOK
<1>1. ASSUME NEW r \in Releases, NEW e \in Envs, NEW p \in Plans, CreatePlan(r, e, p)
      PROVE  Goal
    BY <1>1 DEF CreatePlan, rowVars, execVars, RowsStayInPlan, NoOrphanTask, FreshRows, BegunTasksRest
<1>2. ASSUME NEW p \in Plans, DeletePlan(p)
      PROVE  Goal
    BY <1>2 DEF DeletePlan, execVars, LiveTasks, RowsStayInPlan, NoOrphanTask, FreshRows, BegunTasksRest
<1>3. ASSUME NEW p \in Plans, NEW t \in Tasks, NEW g \in Teams \cup {None},
             NEW ids \in SUBSET Tasks, CreateTask(p, t, g, ids)
      PROVE  Goal
    <2>1. t \notin taskLive /\ t \notin ids
        BY <1>3 DEF CreateTask, CreateTaskAccepted, PredecessorsAccepted, NoOrphanTask
    <2>2. \A x \in ids : x \in taskLive /\ taskPlan[x] = p
        BY <1>3, <2>1 DEF CreateTask, CreateTaskAccepted, PredecessorsAccepted, LiveTasks
    <2>3. \A x \in Tasks : <<t, x>> \notin deps /\ <<x, t>> \notin deps
        BY <1>3 DEF CreateTask, CreateTaskAccepted, RowsStayInPlan
    <2>4. RowsStayInPlan'
        <3>1. \A x, y \in Tasks : <<x, y>> \in deps' <=> <<x, y>> \in deps \/ (x = t /\ y \in ids)
            BY <1>3 DEF CreateTask
        <3>2. taskPlan' = [taskPlan EXCEPT ![t] = p] /\ p # None
            BY <1>3 DEF CreateTask
        <3> SUFFICES ASSUME NEW x \in Tasks, NEW y \in Tasks, <<x, y>> \in deps'
                     PROVE  x # y /\ taskPlan'[x] # None /\ taskPlan'[x] = taskPlan'[y]
            BY DEF RowsStayInPlan
        <3>3. CASE <<x, y>> \in deps
            <4>1. x # t /\ y # t
                BY <2>3, <3>3
            <4> QED BY <3>2, <3>3, <4>1 DEF RowsStayInPlan
        <3>4. CASE x = t /\ y \in ids
            BY <2>1, <2>2, <3>2, <3>4
        <3> QED BY <3>1, <3>3, <3>4
    <2>5. NoOrphanTask'
        BY <1>3 DEF CreateTask, CreateTaskAccepted, PlanFound, planVars, NoOrphanTask
    <2>6. FreshRows' /\ status'[t] = "not_started"
        BY <1>3 DEF CreateTask, CreateTaskAccepted, execVars, FreshRows
    <2>7. BegunTasksRest'
        BY <1>3, <2>3, <2>6 DEF CreateTask, execVars, BegunTasksRest, Begun
    <2> QED BY <2>4, <2>5, <2>6, <2>7
<1>4. ASSUME NEW t \in Tasks, NEW g \in Teams \cup {None}, UpdateTask(t, g)
      PROVE  Goal
    BY <1>4 DEF UpdateTask, planVars, execVars, RowsStayInPlan, NoOrphanTask, FreshRows, BegunTasksRest
<1>5. ASSUME NEW t \in Tasks, DeleteTask(t)
      PROVE  Goal
    BY <1>5 DEF DeleteTask, planVars, execVars, RowsStayInPlan, NoOrphanTask, FreshRows, BegunTasksRest
<1>6. ASSUME NEW t \in Tasks, NEW ids \in SUBSET Tasks, SetPredecessors(t, ids)
      PROVE  Goal
    <2>1. \A x \in ids : x # t /\ x \in taskLive /\ taskPlan[x] = taskPlan[t]
        BY <1>6 DEF SetPredecessors, SetPredecessorsAccepted, PredecessorsAccepted, LiveTasks
    <2>2. taskPlan[t] # None
        BY <1>6 DEF SetPredecessors, SetPredecessorsAccepted, TaskFound
    <2>3. \A x, y \in Tasks : <<x, y>> \in deps' <=>
                \/ x # t /\ <<x, y>> \in deps
                \/ x = t /\ y \in ids
        BY <1>6 DEF SetPredecessors
    <2>4. status[t] # "not_started" => \A x \in ids : status[x] \in SATISFIED_STATUSES
        BY <1>6 DEF SetPredecessors, SetPredecessorsAccepted, PredecessorsAccepted
    <2>5. RowsStayInPlan' /\ NoOrphanTask' /\ FreshRows'
        BY <1>6, <2>1, <2>2, <2>3
        DEF SetPredecessors, rowVars, planVars, execVars, RowsStayInPlan, NoOrphanTask, FreshRows
    <2>6. BegunTasksRest'
        BY <1>6, <2>3, <2>4 DEF SetPredecessors, rowVars, execVars, BegunTasksRest, Begun
    <2> QED BY <2>5, <2>6
<1>7. ASSUME NEW u \in Users, NEW t \in Tasks, NEW to \in Statuses, NEW reason \in BOOLEAN,
             NEW at \in Time, Transition(u, t, to, reason, at)
      PROVE  Goal
    <2>1. t \in taskLive /\ taskPlan[t] # None
        BY <1>7 DEF Transition, TransitionAccepted, TaskFound
    <2>2. RowsStayInPlan' /\ NoOrphanTask' /\ FreshRows'
        BY <1>7, <2>1 DEF Transition, rowVars, planVars, RowsStayInPlan, NoOrphanTask, FreshRows
    <2>3. \A x, y \in taskLive : <<x, y>> \in deps =>
                <<x, y>> \in LiveEdges(taskPlan[x]) /\ taskPlan[x] = taskPlan[y]
        BY DEF LiveEdges, LiveTasks, RowsStayInPlan
    <2>4. to \in Begun /\ status[t] \notin Begun =>
                \A y \in taskLive : <<t, y>> \in deps => status[y] \in SATISFIED_STATUSES
        <3> SUFFICES ASSUME to \in Begun, status[t] \notin Begun PROVE PredsSatisfied(t)
            BY <2>1, <2>3 DEF PredsSatisfied, Preds
        <3> QED BY <1>7 DEF Transition, TransitionAccepted, EDGES, NEEDS_PREDECESSORS, Begun, Statuses
    <2>5. to \notin SATISFIED_STATUSES /\ status[t] \in SATISFIED_STATUSES =>
                \A x \in taskLive : <<x, t>> \in deps => status[x] = "not_started"
        <3> SUFFICES ASSUME to \notin SATISFIED_STATUSES, status[t] \in SATISFIED_STATUSES
                     PROVE  SuccsQuiet(t)
            BY <2>1, <2>3 DEF SuccsQuiet, Succs
        <3> QED BY <1>7 DEF Transition, TransitionAccepted, EDGES, NEEDS_QUIET_SUCCESSORS,
                            SATISFIED_STATUSES, Statuses
    <2>6. status' = [status EXCEPT ![t] = to] /\ taskLive' = taskLive /\ deps' = deps
        BY <1>7 DEF Transition, rowVars
    <2>7. BegunTasksRest'
        <3> SUFFICES ASSUME NEW x \in taskLive, NEW y \in taskLive, <<x, y>> \in deps,
                            status'[x] \in Begun
                     PROVE  status'[y] \in SATISFIED_STATUSES
            BY <2>6 DEF BegunTasksRest
        <3>1. x # y
            BY DEF RowsStayInPlan
        <3>2. CASE x = t
            BY <2>4, <2>6, <3>1, <3>2 DEF BegunTasksRest
        <3>3. CASE y = t
            BY <2>5, <2>6, <3>1, <3>3 DEF BegunTasksRest, Begun
        <3>4. CASE x # t /\ y # t
            BY <2>6, <3>4 DEF BegunTasksRest
        <3> QED BY <3>2, <3>3, <3>4
    <2> QED BY <2>2, <2>7
<1>8. ASSUME NEW x \in Neighbours, RetireNeighbour(x)
      PROVE  Goal
    BY <1>8 DEF RetireNeighbour, planVars, rowVars, execVars, RowsStayInPlan, NoOrphanTask, FreshRows, BegunTasksRest
<1>9. ASSUME Tick PROVE Goal
    BY <1>9 DEF Tick, planVars, rowVars, execVars, RowsStayInPlan, NoOrphanTask, FreshRows, BegunTasksRest
<1>10. ASSUME UNCHANGED vars PROVE Goal
    BY <1>10 DEF vars, RowsStayInPlan, NoOrphanTask, FreshRows, BegunTasksRest
<1> QED BY <1>1, <1>2, <1>3, <1>4, <1>5, <1>6, <1>7, <1>8, <1>9, <1>10 DEF Next

\* The invariant that runbook_execution_service says every refusal protects:
\* however many tasks a plan has and in whatever order people report, edit and
\* delete, no task is in_progress or done while a predecessor is not done or
\* skipped.
THEOREM PredecessorInvariantHolds == Spec => []PredecessorInvariant
<1>1. IInv => PredecessorInvariant
    BY DEF IInv, BegunTasksRest, Begun, PredecessorInvariant, PredsSatisfied, Preds, LiveEdges, LiveTasks
<1> QED BY <1>1, IInvInit, IInvNext, PTL DEF Spec

\* live_edges, which compares plans, and ready_clause, which does not, see the
\* same predecessors: no write joins tasks of two plans.
THEOREM EdgesStayInPlanHolds == Spec => []EdgesStayInPlan
<1>1. IInv => EdgesStayInPlan
    <2> SUFFICES ASSUME IInv, NEW e \in deps
                 PROVE  taskPlan[e[1]] # None /\ taskPlan[e[1]] = taskPlan[e[2]]
        BY DEF EdgesStayInPlan
    <2>1. e[1] \in Tasks /\ e[2] \in Tasks /\ e = <<e[1], e[2]>>
        BY DEF IInv, TypeOK
    <2> QED BY <2>1 DEF IInv, RowsStayInPlan
<1> QED BY <1>1, IInvInit, IInvNext, PTL DEF Spec

\* delete_plan takes every live task with it, so no live task is ever out of
\* reach of get_task.
THEOREM NoOrphanTaskHolds == Spec => []NoOrphanTask
<1>1. IInv => NoOrphanTask
    BY DEF IInv
<1> QED BY <1>1, IInvInit, IInvNext, PTL DEF Spec


-----------------------------------------------------------------------------
(* The graph stays acyclic, so a cutover cannot wedge.                      *)

\* Dropping tasks and edges keeps a graph acyclic.
LEMMA AcyclicSubgraph ==
    ASSUME NEW S, NEW E, NEW T \in SUBSET S, NEW F, Acyclic(S, E),
           \A x, y \in T : <<x, y>> \in F => <<x, y>> \in E
    PROVE  Acyclic(T, F)
BY DEF Acyclic

\* So does adding a task that waits on nothing and on which nothing waits.
LEMMA AcyclicIsolated ==
    ASSUME NEW S, NEW E, NEW t, Acyclic(S, E),
           \A x \in S \cup {t} : <<t, x>> \notin E
    PROVE  Acyclic(S \cup {t}, E)
<1> SUFFICES ASSUME NEW U \in SUBSET (S \cup {t}), U # {}
             PROVE  \E x \in U : \A y \in U : <<x, y>> \notin E
    BY DEF Acyclic
<1>1. CASE t \in U
    BY <1>1
<1>2. CASE t \notin U
    BY <1>2 DEF Acyclic
<1> QED BY <1>1, <1>2

LEMMA AcyclicNext == IInv /\ LiveGraphAcyclic /\ [Next]_vars => LiveGraphAcyclic'
<1> SUFFICES ASSUME IInv, LiveGraphAcyclic, [Next]_vars, NEW q \in Plans
             PROVE  Acyclic(LiveTasks(q)', LiveEdges(q)')
    BY DEF LiveGraphAcyclic
<1>0. /\ Acyclic(LiveTasks(q), LiveEdges(q))
      /\ TypeOK /\ RowsStayInPlan /\ NoOrphanTask
    BY DEF LiveGraphAcyclic, IInv
<1>a. ASSUME LiveTasks(q)' \subseteq LiveTasks(q),
             \A x, y \in LiveTasks(q)' : <<x, y>> \in deps' => <<x, y>> \in deps
      PROVE  Acyclic(LiveTasks(q)', LiveEdges(q)')
    <2>1. \A x, y \in LiveTasks(q)' : <<x, y>> \in LiveEdges(q)' => <<x, y>> \in LiveEdges(q)
        BY <1>a DEF LiveEdges
    <2> QED BY <1>0, <1>a, <2>1, AcyclicSubgraph
<1>1. ASSUME NEW p \in Plans, NEW t \in Tasks, NEW g \in Teams \cup {None},
             NEW ids \in SUBSET Tasks, CreateTask(p, t, g, ids)
      PROVE  Acyclic(LiveTasks(q)', LiveEdges(q)')
    <2>1. t \notin taskLive /\ \A x \in Tasks : <<t, x>> \notin deps /\ <<x, t>> \notin deps
        BY <1>0, <1>1, RunbookAssumption DEF CreateTask, CreateTaskAccepted, RowsStayInPlan, NoOrphanTask, TypeOK
    <2>2. LiveTasks(q)' = IF q = p THEN LiveTasks(q) \cup {t} ELSE LiveTasks(q)
        BY <1>0, <1>1, <2>1 DEF CreateTask, LiveTasks, TypeOK
    <2>3. \A x, y \in Tasks : <<x, y>> \in deps' <=> <<x, y>> \in deps \/ (x = t /\ y \in ids)
        BY <1>1 DEF CreateTask
    <2>4. LiveTasks(q) \subseteq Tasks /\ t \notin LiveTasks(q)
        BY <1>0, <2>1 DEF LiveTasks, TypeOK
    <2>5. CASE q # p
        BY <1>a, <2>2, <2>3, <2>4, <2>5
    <2>6. CASE q = p /\ ids = {}
        <3>1. \A x \in LiveTasks(q) \cup {t} : <<t, x>> \notin LiveEdges(q)
            BY <2>4 DEF LiveEdges
        <3>2. Acyclic(LiveTasks(q) \cup {t}, LiveEdges(q))
            BY <1>0, <3>1, AcyclicIsolated
        <3>3. \A x, y \in LiveTasks(q)' : <<x, y>> \in LiveEdges(q)' => <<x, y>> \in LiveEdges(q)
            <4> SUFFICES ASSUME NEW x \in LiveTasks(q)', NEW y \in LiveTasks(q)', <<x, y>> \in LiveEdges(q)'
                         PROVE  <<x, y>> \in LiveEdges(q)
                OBVIOUS
            <4>1. x \in Tasks /\ y \in Tasks /\ <<x, y>> \in deps
                BY <2>2, <2>3, <2>4, <2>6 DEF LiveEdges
            <4>2. x # t /\ y # t
                BY <2>1, <4>1
            <4> QED BY <2>2, <4>1, <4>2 DEF LiveEdges
        <3> QED BY <2>2, <2>6, <3>2, <3>3, AcyclicSubgraph
    <2>7. CASE q = p /\ ids # {}
        <3> DEFINE E == {e \in LiveEdges(p) : e[1] # t} \cup ({t} \X ids)
        <3>1. Acyclic(LiveTasks(p) \cup {t}, E)
            BY <1>1, <2>7 DEF CreateTask, CreateTaskAccepted, PredecessorsAccepted
        <3>2. \A x, y \in LiveTasks(q)' : <<x, y>> \in LiveEdges(q)' => <<x, y>> \in E
            <4> SUFFICES ASSUME NEW x \in LiveTasks(q)', NEW y \in LiveTasks(q)', <<x, y>> \in LiveEdges(q)'
                         PROVE  <<x, y>> \in E
                OBVIOUS
            <4>1. x \in Tasks /\ y \in Tasks /\ (<<x, y>> \in deps \/ (x = t /\ y \in ids))
                BY <2>2, <2>3, <2>4 DEF LiveEdges
            <4>2. CASE <<x, y>> \in deps
                <5>1. x # t /\ y # t
                    BY <2>1, <4>1, <4>2
                <5>2. <<x, y>> \in LiveEdges(p)
                    BY <2>2, <2>7, <4>2, <5>1 DEF LiveEdges
                <5> QED BY <5>1, <5>2
            <4> QED BY <4>1, <4>2
        <3> HIDE DEF E
        <3> QED BY <2>2, <2>7, <3>1, <3>2, AcyclicSubgraph
    <2> QED BY <2>5, <2>6, <2>7
<1>2. ASSUME NEW t \in Tasks, NEW ids \in SUBSET Tasks, SetPredecessors(t, ids)
      PROVE  Acyclic(LiveTasks(q)', LiveEdges(q)')
    <2>1. LiveTasks(q)' = LiveTasks(q)
        BY <1>2 DEF SetPredecessors, rowVars, LiveTasks
    <2>2. \A x, y \in Tasks : <<x, y>> \in deps' <=>
                \/ x # t /\ <<x, y>> \in deps
                \/ x = t /\ y \in ids
        BY <1>2 DEF SetPredecessors
    <2>3. LiveTasks(q) \subseteq Tasks
        BY <1>0 DEF LiveTasks, TypeOK
    <2>4. CASE taskPlan[t] # q
        <3>1. t \notin LiveTasks(q)
            BY <2>4 DEF LiveTasks
        <3> QED BY <1>a, <2>1, <2>2, <2>3, <3>1
    <2>5. CASE taskPlan[t] = q
        <3> DEFINE E == {e \in LiveEdges(q) : e[1] # t} \cup ({t} \X ids)
        <3>1. Acyclic(LiveTasks(q), E)
            BY <1>2, <2>5 DEF SetPredecessors, SetPredecessorsAccepted, PredecessorsAccepted
        <3>2. \A x, y \in LiveTasks(q)' : <<x, y>> \in LiveEdges(q)' => <<x, y>> \in E
            <4> SUFFICES ASSUME NEW x \in LiveTasks(q), NEW y \in LiveTasks(q), <<x, y>> \in deps'
                         PROVE  <<x, y>> \in E
                BY <2>1 DEF LiveEdges
            <4>1. CASE x # t /\ <<x, y>> \in deps
                BY <4>1 DEF LiveEdges
            <4>2. CASE x = t /\ y \in ids
                BY <4>2
            <4> QED BY <2>2, <2>3, <4>1, <4>2
        <3> HIDE DEF E
        <3> QED BY <2>1, <3>1, <3>2, AcyclicSubgraph
    <2> QED BY <2>4, <2>5
<1>3. ASSUME NEW p \in Plans, DeletePlan(p)
      PROVE  Acyclic(LiveTasks(q)', LiveEdges(q)')
    BY <1>3, <1>a DEF DeletePlan, LiveTasks
<1>4. ASSUME NEW t \in Tasks, DeleteTask(t)
      PROVE  Acyclic(LiveTasks(q)', LiveEdges(q)')
    BY <1>4, <1>a DEF DeleteTask, LiveTasks
<1>5. ASSUME UNCHANGED <<taskPlan, taskLive, deps>>
      PROVE  Acyclic(LiveTasks(q)', LiveEdges(q)')
    BY <1>5, <1>a DEF LiveTasks
<1>6. CASE \/ \E r \in Releases, e \in Envs, p \in Plans : CreatePlan(r, e, p)
           \/ \E t \in Tasks, g \in Teams \cup {None} : UpdateTask(t, g)
           \/ \E u \in Users, t \in Tasks, to \in Statuses, reason \in BOOLEAN, at \in Time :
                    Transition(u, t, to, reason, at)
           \/ \E x \in Neighbours : RetireNeighbour(x)
           \/ Tick
           \/ UNCHANGED vars
    <2>1. UNCHANGED <<taskPlan, taskLive, deps>>
        BY <1>6 DEF CreatePlan, UpdateTask, Transition, RetireNeighbour, Tick, rowVars, vars
    <2> QED BY <1>5, <2>1
<1> QED BY <1>1, <1>2, <1>3, <1>4, <1>6 DEF Next

\* Writes refuse cycles, so a cycle cannot reach the schedule: compute never
\* raises CycleError on a plan edited by requests that do not overlap.
THEOREM LiveGraphAcyclicHolds == Spec => []LiveGraphAcyclic
<1>1. Init => LiveGraphAcyclic
    BY DEF Init, LiveGraphAcyclic, Acyclic, LiveTasks
<1> QED BY <1>1, IInvInit, IInvNext, AcyclicNext, PTL DEF Spec

\* An unfinished plan always has a task that is running, failed or free to
\* start: the open tasks have a member with no open predecessor.
THEOREM CutoverNeverWedgesHolds == Spec => []CutoverNeverWedges
<1>1. TypeOK /\ LiveGraphAcyclic => CutoverNeverWedges
    <2> SUFFICES ASSUME TypeOK, LiveGraphAcyclic, NEW p \in planLive,
                        {t \in LiveTasks(p) : status[t] \notin SATISFIED_STATUSES} # {}
                 PROVE  \E t \in {t \in LiveTasks(p) : status[t] \notin SATISFIED_STATUSES} :
                            PredsSatisfied(t)
        BY DEF CutoverNeverWedges
    <2> DEFINE open == {t \in LiveTasks(p) : status[t] \notin SATISFIED_STATUSES}
    <2>1. Acyclic(LiveTasks(p), LiveEdges(p)) /\ open \in SUBSET LiveTasks(p)
        BY DEF TypeOK, LiveGraphAcyclic
    <2>2. PICK t \in open : \A x \in open : <<t, x>> \notin LiveEdges(p)
        BY <2>1 DEF Acyclic
    <2>3. taskPlan[t] = p
        BY DEF LiveTasks
    <2>4. \A x \in Preds(t) : status[x] \in SATISFIED_STATUSES
        BY <2>2, <2>3 DEF Preds, LiveEdges
    <2> QED BY <2>4 DEF PredsSatisfied
<1> QED BY <1>1, RunbookTypes, LiveGraphAcyclicHolds, PTL

-----------------------------------------------------------------------------
(* The actual times, the history, and what the reads offer.                 *)

\* The stamps a transition stores fit the status it stores.
LEMMA StampsFit ==
    ASSUME TypeOK, ActualsMatchStatus, NEW u \in Users, NEW t \in Tasks, NEW to \in Statuses,
           NEW reason \in BOOLEAN, NEW at \in Time, TransitionAccepted(u, t, to, reason, at),
           NEW start, start = StampStart(t, status[t], to, at),
           NEW finish, finish = StampFinish(to, at)
    PROVE  /\ (to = "not_started") <=> (start = None /\ finish = None)
           /\ to = "in_progress" => start # None /\ finish = None
           /\ to \in {"done", "failed"} => start # None /\ finish # None /\ start <= finish
           /\ start # None => start <= now
           /\ finish # None => finish <= now
<1> USE RunbookAssumption DEF TypeOK, Time, MaybeTime
<1>1. at <= now /\ at # None /\ at \in Nat /\ now \in Nat
    BY DEF TransitionAccepted
<1>2. /\ <<status[t], to>> \in EDGES
      /\ status[t] = "in_progress" /\ startedAt[t] # None => at >= startedAt[t]
    BY DEF TransitionAccepted
<1>3. /\ status[t] = "in_progress" => startedAt[t] # None
      /\ startedAt[t] # None => startedAt[t] <= now
    BY DEF ActualsMatchStatus
<1>4. CASE to = "in_progress" \/ to = "not_started"
    BY <1>1, <1>3, <1>4 DEF StampStart, StampFinish
<1>5. CASE to = "done"
    <2>1. status[t] \in {"not_started", "in_progress"}
        BY <1>2, <1>5 DEF EDGES
    <2> QED BY <1>1, <1>2, <1>3, <1>5, <2>1 DEF StampStart, StampFinish
<1>6. CASE to = "failed"
    <2>1. status[t] = "in_progress"
        BY <1>2, <1>6 DEF EDGES
    <2> QED BY <1>1, <1>2, <1>3, <1>6, <2>1 DEF StampStart, StampFinish
<1>7. CASE to = "skipped"
    BY <1>1, <1>3, <1>7 DEF StampStart, StampFinish
<1> QED BY <1>4, <1>5, <1>6, <1>7 DEF Statuses

LEMMA ActualsNext == TypeOK /\ ActualsMatchStatus /\ [Next]_vars => ActualsMatchStatus'
<1> SUFFICES ASSUME TypeOK, ActualsMatchStatus, [Next]_vars PROVE ActualsMatchStatus'
    OBVIOUS
<1>1. ASSUME NEW u \in Users, NEW t \in Tasks, NEW to \in Statuses, NEW reason \in BOOLEAN,
             NEW at \in Time, Transition(u, t, to, reason, at)
      PROVE  ActualsMatchStatus'
    <2> DEFINE start == StampStart(t, status[t], to, at)
               finish == StampFinish(to, at)
    <2>1. TransitionAccepted(u, t, to, reason, at)
        BY <1>1 DEF Transition
    <2>2. /\ (to = "not_started") <=> (start = None /\ finish = None)
          /\ to = "in_progress" => start # None /\ finish = None
          /\ to \in {"done", "failed"} => start # None /\ finish # None /\ start <= finish
          /\ start # None => start <= now
          /\ finish # None => finish <= now
        BY <2>1, StampsFit
    <2>3. /\ startedAt' = [startedAt EXCEPT ![t] = start]
          /\ finishedAt' = [finishedAt EXCEPT ![t] = finish]
          /\ status' = [status EXCEPT ![t] = to]
          /\ now' = now
        BY <1>1 DEF Transition
    <2> HIDE DEF start, finish
    <2> QED BY <2>2, <2>3 DEF ActualsMatchStatus, TypeOK
<1>2. ASSUME Tick PROVE ActualsMatchStatus'
    BY <1>2, RunbookAssumption DEF Tick, execVars, ActualsMatchStatus, TypeOK, Time, MaybeTime
<1>3. ASSUME UNCHANGED <<status, startedAt, finishedAt, now>> PROVE ActualsMatchStatus'
    BY <1>3 DEF ActualsMatchStatus
<1>4. CASE \/ \E r \in Releases, e \in Envs, p \in Plans : CreatePlan(r, e, p)
           \/ \E p \in Plans : DeletePlan(p)
           \/ \E p \in Plans, t \in Tasks, g \in Teams \cup {None}, ids \in SUBSET Tasks :
                    CreateTask(p, t, g, ids)
           \/ \E t \in Tasks, g \in Teams \cup {None} : UpdateTask(t, g)
           \/ \E t \in Tasks : DeleteTask(t)
           \/ \E t \in Tasks, ids \in SUBSET Tasks : SetPredecessors(t, ids)
           \/ \E x \in Neighbours : RetireNeighbour(x)
           \/ UNCHANGED vars
    BY <1>3, <1>4 DEF CreatePlan, DeletePlan, CreateTask, UpdateTask, DeleteTask,
                      SetPredecessors, RetireNeighbour, execVars, vars
<1> QED BY <1>1, <1>2, <1>4 DEF Next

\* transition always stamps the times that belong to the status it writes, in
\* the order they happened and never in the future.
THEOREM ActualsMatchStatusHolds == Spec => []ActualsMatchStatus
<1>1. Init => ActualsMatchStatus
    BY DEF Init, ActualsMatchStatus
<1> QED BY <1>1, RunbookTypes, ActualsNext, PTL DEF Spec

\* The history a transition writes stays the record of the status column: no
\* other write touches either.
THEOREM HistoryMatchesStatusHolds == Spec => []HistoryMatchesStatus
<1>1. Init => HistoryMatchesStatus
    BY DEF Init, HistoryMatchesStatus
<1>2. TypeOK /\ HistoryMatchesStatus /\ [Next]_vars => HistoryMatchesStatus'
    <2> SUFFICES ASSUME TypeOK, HistoryMatchesStatus, [Next]_vars PROVE HistoryMatchesStatus'
        OBVIOUS
    <2>1. ASSUME NEW u \in Users, NEW t \in Tasks, NEW to \in Statuses, NEW reason \in BOOLEAN,
                 NEW at \in Time, Transition(u, t, to, reason, at)
          PROVE  HistoryMatchesStatus'
        BY <2>1, RunbookAssumption DEF Transition, HistoryMatchesStatus, TypeOK
    <2>2. CASE UNCHANGED <<status, lastEvent>>
        BY <2>2 DEF HistoryMatchesStatus
    <2> QED BY <2>1, <2>2 DEF Next, CreatePlan, DeletePlan, CreateTask, UpdateTask, DeleteTask,
                              SetPredecessors, RetireNeighbour, Tick, execVars, vars
<1> QED BY <1>1, <1>2, RunbookTypes, PTL DEF Spec

\* allowed_transitions offers exactly what transition accepts: the composite
\* read never shows a button that is refused, nor hides one that would work.
THEOREM OfferedIffPerformableHolds == Spec => []OfferedIffPerformable
<1>1. IInv /\ ActualsMatchStatus => OfferedIffPerformable
    <2> SUFFICES ASSUME IInv, ActualsMatchStatus, NEW u \in Users, NEW t \in taskLive, NEW to \in Statuses
                 PROVE  to \in AllowedTransitions(u, t) <=> TransitionAccepted(u, t, to, TRUE, now)
        BY DEF OfferedIffPerformable
    <2>1. TypeOK /\ TaskFound(t) /\ t \in Tasks
        BY DEF IInv, NoOrphanTask, TypeOK, TaskFound
    <2>2. now <= now /\ (startedAt[t] # None => now >= startedAt[t])
        BY <2>1, RunbookAssumption DEF ActualsMatchStatus, TypeOK, Time, MaybeTime
    <2>3. PredsSatisfied(t) <=> ~ \E p \in Preds(t) : status[p] \notin SATISFIED_STATUSES
        BY DEF PredsSatisfied
    <2>4. SuccsQuiet(t) <=> ~ \E s \in Succs(t) : status[s] # "not_started"
        BY DEF SuccsQuiet
    <2> QED BY <2>1, <2>2, <2>3, <2>4 DEF AllowedTransitions, TransitionAccepted
<1> QED BY <1>1, IInvInit, IInvNext, ActualsMatchStatusHolds, PTL DEF Spec

\* The SQL of "waiting on me" and the check of transition agree, although the
\* SQL does not compare plans: a queued task can be started by that member, and
\* a task the member may start is queued.
THEOREM ReadyQueueIsStartableHolds == Spec => []ReadyQueueIsStartable
<1>1. IInv /\ ActualsMatchStatus => ReadyQueueIsStartable
    <2> SUFFICES ASSUME IInv, ActualsMatchStatus, NEW u \in Users, NEW t \in taskLive,
                        TeamMember(u, t), slot[taskPlan[t]][1] \notin retired
                 PROVE  t \in ReadyQueue(u) <=>
                            /\ status[t] = "not_started"
                            /\ TransitionAccepted(u, t, "in_progress", FALSE, now)
        BY DEF ReadyQueueIsStartable
    <2>1. TypeOK /\ TaskFound(t) /\ t \in Tasks /\ taskPlan[t] \in planLive
        BY DEF IInv, NoOrphanTask, TypeOK, TaskFound
    <2>2. \A p \in Tasks : p \in Preds(t) <=> <<t, p>> \in deps /\ p \in taskLive
        BY <2>1 DEF IInv, RowsStayInPlan, Preds, LiveEdges, LiveTasks
    <2>3. PredsSatisfied(t) <=> ~ \E p \in Tasks : /\ <<t, p>> \in deps
                                                   /\ p \in taskLive
                                                   /\ status[p] \notin SATISFIED_STATUSES
        <3>1. Preds(t) \subseteq Tasks
            BY DEF Preds
        <3> QED BY <2>2, <3>1 DEF PredsSatisfied
    <2>4. t \in ReadyQueue(u) <=> status[t] = "not_started" /\ PredsSatisfied(t)
        BY <2>1, <2>3 DEF ReadyQueue, ReadyClause
    <2>5. now <= now
        BY <2>1, RunbookAssumption DEF TypeOK, Time
    <2>6. status[t] = "not_started" =>
            (TransitionAccepted(u, t, "in_progress", FALSE, now) <=> PredsSatisfied(t))
        <3> SUFFICES ASSUME status[t] = "not_started"
                     PROVE  TransitionAccepted(u, t, "in_progress", FALSE, now) <=> PredsSatisfied(t)
            OBVIOUS
        <3>1. /\ <<status[t], "in_progress">> \in EDGES
              /\ <<status[t], "in_progress">> \notin MANAGER_ONLY
              /\ <<status[t], "in_progress">> \in NEEDS_PREDECESSORS
              /\ <<status[t], "in_progress">> \notin NEEDS_QUIET_SUCCESSORS
            BY DEF EDGES, MANAGER_ONLY, NEEDS_PREDECESSORS, NEEDS_QUIET_SUCCESSORS
        <3> QED BY <2>1, <2>5, <3>1 DEF TransitionAccepted
    <2> QED BY <2>4, <2>6
<1> QED BY <1>1, IInvInit, IInvNext, ActualsMatchStatusHolds, PTL DEF Spec

\* create_plan revives a row without its tasks: delete_plan deleted them, no
\* write undeletes a task, and no live task waits under a deleted plan.
THEOREM RevivedPlanStartsEmptyHolds == Spec => RevivedPlanStartsEmpty
<1> DEFINE A == /\ \A p \in planLive' \ planLive : \A t \in taskLive' : taskPlan'[t] # p
                /\ \A t \in Tasks : taskPlan[t] # None /\ t \notin taskLive => t \notin taskLive'
<1>1. IInv /\ [Next]_vars => [A]_vars
    <2> SUFFICES ASSUME IInv, Next PROVE A
        OBVIOUS
    <2>1. ASSUME NEW r \in Releases, NEW e \in Envs, NEW p \in Plans, CreatePlan(r, e, p)
          PROVE  A
        BY <2>1 DEF CreatePlan, rowVars, IInv, NoOrphanTask
    <2>2. ASSUME NEW p \in Plans, NEW t \in Tasks, NEW g \in Teams \cup {None},
                 NEW ids \in SUBSET Tasks, CreateTask(p, t, g, ids)
          PROVE  A
        BY <2>2 DEF CreateTask, CreateTaskAccepted, planVars
    <2>3. CASE planLive' \subseteq planLive /\ taskLive' \subseteq taskLive
        BY <2>3
    <2> QED BY <2>1, <2>2, <2>3 DEF Next, DeletePlan, UpdateTask, DeleteTask, SetPredecessors,
                    Transition, RetireNeighbour, Tick, planVars, rowVars
<1>2. Spec => [][A]_vars
    BY <1>1, IInvInit, IInvNext, PTL DEF Spec
<1> QED BY <1>2 DEF RevivedPlanStartsEmpty

\* transition takes a task back only while everything after it is untouched, so
\* no record of a start is left without the work it relied on.
THEOREM ReopenLeavesSuccessorsUntouchedHolds == Spec => ReopenLeavesSuccessorsUntouched
<1> DEFINE A == \A t \in Tasks : status[t] # "not_started" /\ status'[t] = "not_started"
                    => \A s \in taskLive : <<s, t>> \in deps => status'[s] = "not_started"
<1>1. IInv /\ [Next]_vars => [A]_vars
    <2> SUFFICES ASSUME IInv, Next PROVE A
        OBVIOUS
    <2>1. ASSUME NEW u \in Users, NEW t \in Tasks, NEW to \in Statuses, NEW reason \in BOOLEAN,
                 NEW at \in Time, Transition(u, t, to, reason, at)
          PROVE  A
        <3> SUFFICES ASSUME NEW x \in Tasks, status[x] # "not_started", status'[x] = "not_started",
                            NEW s \in taskLive, <<s, x>> \in deps
                     PROVE  status'[s] = "not_started"
            OBVIOUS
        <3>1. status' = [status EXCEPT ![t] = to] /\ status \in [Tasks -> Statuses] /\ s \in Tasks
            BY <2>1 DEF Transition, IInv, TypeOK
        <3>2. x = t /\ to = "not_started"
            BY <3>1
        <3>3. <<status[t], to>> \in NEEDS_QUIET_SUCCESSORS
            BY <2>1, <3>2 DEF Transition, TransitionAccepted, EDGES, NEEDS_QUIET_SUCCESSORS
        <3>4. SuccsQuiet(t) /\ TaskFound(t)
            BY <2>1, <3>3 DEF Transition, TransitionAccepted
        <3>5. s \in Succs(t)
            BY <3>1, <3>2, <3>4 DEF IInv, RowsStayInPlan, TaskFound, Succs, LiveEdges, LiveTasks
        <3> QED BY <3>1, <3>2, <3>4, <3>5 DEF SuccsQuiet
    <2>2. CASE UNCHANGED status
        BY <2>2
    <2> QED BY <2>1, <2>2 DEF Next, CreatePlan, DeletePlan, CreateTask, UpdateTask, DeleteTask,
                              SetPredecessors, RetireNeighbour, Tick, execVars
<1>2. Spec => [][A]_vars
    BY <1>1, IInvInit, IInvNext, PTL DEF Spec
<1> QED BY <1>2 DEF ReopenLeavesSuccessorsUntouched

\* create_plan looks for a row of the slot before it inserts one, and rows keep
\* their slot: a (release, environment) never has two plan rows.
THEOREM OneRowPerSlotHolds == Spec => []OneRowPerSlot
<1>1. Init => OneRowPerSlot
    BY DEF Init, OneRowPerSlot
<1>2. TypeOK /\ OneRowPerSlot /\ [Next]_vars => OneRowPerSlot'
    <2> SUFFICES ASSUME TypeOK, OneRowPerSlot, [Next]_vars PROVE OneRowPerSlot'
        OBVIOUS
    <2>1. ASSUME NEW r \in Releases, NEW e \in Envs, NEW p \in Plans, CreatePlan(r, e, p)
          PROVE  OneRowPerSlot'
        <3>1. slot' = [slot EXCEPT ![p] = <<r, e>>]
            BY <2>1 DEF CreatePlan
        <3>2. \A q \in Plans : slot[q] = <<r, e>> => q = p
            <4>1. CASE PlanRows(r, e) = {}
                BY <4>1 DEF PlanRows
            <4>2. CASE PlanRows(r, e) # {}
                <5>1. p \in PlanRows(r, e)
                    BY <2>1, <4>2 DEF CreatePlan, PlanRowChosen
                <5>2. <<r, e>> # None
                    BY RunbookAssumption DEF Slots
                <5> QED BY <5>1, <5>2 DEF PlanRows, OneRowPerSlot
            <4> QED BY <4>1, <4>2
        <3> QED BY <3>1, <3>2 DEF OneRowPerSlot, TypeOK
    <2>2. CASE UNCHANGED slot
        BY <2>2 DEF OneRowPerSlot
    <2> QED BY <2>1, <2>2 DEF Next, DeletePlan, CreateTask, UpdateTask, DeleteTask, SetPredecessors,
                    Transition, RetireNeighbour, Tick, planVars, vars
<1> QED BY <1>1, <1>2, RunbookTypes, PTL DEF Spec

-----------------------------------------------------------------------------
(* What survives overlapping requests.                                      *)

\* Functions on part of S.
Partial(S, V) == UNION {[D -> V] : D \in SUBSET S}

\* The writes of a request, by column.
Writes ==
    [slot : Partial(Plans, Slots), planLive : Partial(Plans, BOOLEAN),
     taskPlan : Partial(Tasks, Plans), taskLive : Partial(Tasks, BOOLEAN),
     team : Partial(Tasks, Teams \cup {None}), status : Partial(Tasks, Statuses),
     startedAt : Partial(Tasks, MaybeTime), finishedAt : Partial(Tasks, MaybeTime),
     lastEvent : Partial(Tasks, Statuses),
     dropDeps : SUBSET (Tasks \X Tasks), addDeps : SUBSET (Tasks \X Tasks),
     reads : Plans \cup {None}]

\* What it is to be one of them.
LEMMA PartialFacts ==
    ASSUME NEW S, NEW V, NEW f
    PROVE  f \in Partial(S, V) <=> DOMAIN f \subseteq S /\ f \in [DOMAIN f -> V]
BY DEF Partial

\* A column that is not written.
LEMMA EmptyPartial ==
    ASSUME NEW S, NEW V
    PROVE  <<>> \in Partial(S, V) /\ DOMAIN <<>> = {}
<1>1. DOMAIN <<>> = {}
    OBVIOUS
<1>2. <<>> \in [{} -> V]
    OBVIOUS
<1> QED BY <1>1, <1>2 DEF Partial

\* A column written for one row.
LEMMA SinglePartial ==
    ASSUME NEW S, NEW V, NEW a \in S, NEW b \in V
    PROVE  Sets(a, b) \in Partial(S, V) /\ DOMAIN Sets(a, b) = {a} /\ Sets(a, b)[a] = b
<1>1. Sets(a, b) = [x \in {a} |-> b]
    BY DEF Sets
<1> QED BY <1>1, PartialFacts

\* Writes over a column keep it a column of its type, row by row.
LEMMA Overlay ==
    ASSUME NEW S, NEW V, NEW X, X \subseteq V, NEW f \in Partial(S, X), NEW g \in [S -> V]
    PROVE  /\ Over(f, g) \in [S -> V]
           /\ \A x \in S : Over(f, g)[x] = IF x \in DOMAIN f THEN f[x] ELSE g[x]
<1>1. Over(f, g) = [x \in (DOMAIN f) \cup (DOMAIN g) |-> IF x \in DOMAIN f THEN f[x] ELSE g[x]]
    BY DEF Over
<1>2. DOMAIN f \subseteq S /\ f \in [DOMAIN f -> X]
    BY PartialFacts
<1> QED BY <1>1, <1>2

\* The unit of work sends one row or none.
LEMMA DirtyPartial ==
    ASSUME NEW S, NEW V, NEW a \in S, NEW b \in V, NEW l
    PROVE  Dirty(a, l, b) \in Partial(S, V)
BY SinglePartial, EmptyPartial DEF Dirty

\* A request that has written nothing.
LEMMA NoWritesTyped == NoWrites \in Writes
BY EmptyPartial DEF NoWrites, Writes

\* A request between its read and its commit.
Request == [phase : {"idle", "decided", "flushed"}, writes : Writes]

\* What the writes of request q will do to the rows: an id it inserts is new and
\* its own, and a dependency row it inserts stays in one plan.
NewRows(q) == DOMAIN req[q].writes.taskPlan
WritesFit(q) ==
    LET w == req[q].writes IN
    /\ \A t \in NewRows(q) : taskPlan[t] = None
    /\ \A t, p \in Tasks : <<t, p>> \in w.addDeps =>
            /\ t # p
            /\ taskPlan[p] # None
            /\ IF t \in NewRows(q) THEN w.taskPlan[t] = taskPlan[p] ELSE taskPlan[t] = taskPlan[p]
    /\ w.status = w.lastEvent

\* Neither property is inductive under races: what a request decided on an older
\* committed state must still fit the state it commits to.  The columns of the
\* status and of its history row are written together; the plan of a row is never
\* rewritten, so a dependency row checked against it stays in the plan.
RacingInv ==
    /\ TypeOK
    /\ req \in [Requests -> Request]
    /\ RowsStayInPlan
    /\ HistoryMatchesStatus
    /\ \A q \in Requests : WritesFit(q)
    /\ \A q, r \in Requests : q # r => NewRows(q) \cap NewRows(r) = {}

\* At the start no request is under way.
LEMMA RacingInvInit == RacingInit => RacingInv
<1> SUFFICES ASSUME RacingInit PROVE RacingInv
    OBVIOUS
<1>1. TypeOK /\ RowsStayInPlan /\ HistoryMatchesStatus
    BY TypeInit DEF RacingInit, Init, RowsStayInPlan, HistoryMatchesStatus
<1>2. req \in [Requests -> Request]
    BY NoWritesTyped DEF RacingInit, Idle, Request
<1>3. \A q \in Requests : /\ NewRows(q) = {} /\ req[q].writes.addDeps = {}
                          /\ req[q].writes.status = req[q].writes.lastEvent
    BY EmptyPartial DEF RacingInit, Idle, NoWrites, NewRows
<1> QED BY <1>1, <1>2, <1>3 DEF RacingInv, WritesFit

\* A decision fits the committed state when the ids it inserts are new and drawn by
\* no other request, and its dependency rows join rows of one plan.
LEMMA DecideKeeps ==
    ASSUME RacingInv, NEW q \in Requests, NEW kind, NEW w \in Writes, Decide(q, kind, w),
           \A t \in DOMAIN w.taskPlan : taskPlan[t] = None /\ t \notin PendingRows("taskPlan"),
           \A t, p \in Tasks : <<t, p>> \in w.addDeps =>
                /\ t # p
                /\ taskPlan[p] # None
                /\ IF t \in DOMAIN w.taskPlan THEN w.taskPlan[t] = taskPlan[p]
                                              ELSE taskPlan[t] = taskPlan[p],
           w.status = w.lastEvent
    PROVE  RacingInv'
<1>1. /\ UNCHANGED vars
      /\ req' = [req EXCEPT ![q] = [phase |-> "decided", writes |-> w]]
    BY DEF Decide
<1>2. req' \in [Requests -> Request]
    BY <1>1 DEF RacingInv, Request
<1>3. req \in [Requests -> Request]
    BY DEF RacingInv
<1>4. /\ req'[q].writes = w
      /\ \A r \in Requests \ {q} : req'[r].writes = req[r].writes
    BY <1>1, <1>3
<1>5. \A r \in Requests : WritesFit(r)'
    BY <1>1, <1>4 DEF RacingInv, WritesFit, NewRows, vars
<1>6. \A r \in Requests : NewRows(r) \subseteq PendingRows("taskPlan")
    <2> SUFFICES ASSUME NEW r \in Requests, NEW x \in DOMAIN req[r].writes.taskPlan
                 PROVE  x \in UNION {DOMAIN req[z].writes["taskPlan"] : z \in Requests}
        BY DEF NewRows, PendingRows
    <2>1. req[r].writes["taskPlan"] = req[r].writes.taskPlan
        OBVIOUS
    <2> QED BY <2>1
<1>7. NewRows(q)' = DOMAIN w.taskPlan /\ \A r \in Requests \ {q} : NewRows(r)' = NewRows(r)
    BY <1>4 DEF NewRows
<1>8. \A r, z \in Requests : r # z => NewRows(r)' \cap NewRows(z)' = {}
    BY <1>6, <1>7 DEF RacingInv
<1>9. (TypeOK /\ RowsStayInPlan /\ HistoryMatchesStatus)'
    BY <1>1 DEF RacingInv, TypeOK, RowsStayInPlan, HistoryMatchesStatus, vars
<1> QED BY <1>2, <1>5, <1>8, <1>9 DEF RacingInv

\* The checks of every handler make its decision fit.
LEMMA ReadKeeps ==
    ASSUME RacingInv, NEW q \in Requests, Read(q)
    PROVE  RacingInv'
<1> USE RunbookAssumption
<1>1. TypeOK /\ NoWrites \in Writes
    BY NoWritesTyped DEF RacingInv
<1>2. ASSUME NEW r \in Releases, NEW e \in Envs, NEW p \in Plans,
             Decide(q, "create_plan", CreatePlanWrites(r, e, p))
      PROVE  RacingInv'
    <2> DEFINE w == CreatePlanWrites(r, e, p)
    <2>1. Dirty(p, slot[p], <<r, e>>) \in Partial(Plans, Slots)
          /\ Sets(p, TRUE) \in Partial(Plans, BOOLEAN)
        BY DirtyPartial, SinglePartial DEF Slots
    <2>2. w \in Writes /\ w.taskPlan = <<>> /\ w.addDeps = {} /\ w.status = w.lastEvent
        BY <1>1, <2>1 DEF CreatePlanWrites, Writes, NoWrites
    <2> HIDE DEF w
    <2> QED BY <1>2, <2>2, EmptyPartial, DecideKeeps DEF w
<1>3. ASSUME NEW p \in Plans, Decide(q, "delete_plan", DeletePlanWrites(p))
      PROVE  RacingInv'
    <2> DEFINE w == DeletePlanWrites(p)
               gone == [t \in LiveTasks(p) |-> FALSE]
    <2>1. gone \in Partial(Tasks, BOOLEAN) /\ Sets(p, FALSE) \in Partial(Plans, BOOLEAN)
        BY <1>1, PartialFacts, SinglePartial DEF LiveTasks, TypeOK
    <2>2. w \in Writes /\ w.taskPlan = <<>> /\ w.addDeps = {} /\ w.status = w.lastEvent
        BY <1>1, <2>1 DEF DeletePlanWrites, Writes, NoWrites
    <2> HIDE DEF w
    <2> QED BY <1>3, <2>2, EmptyPartial, DecideKeeps DEF w
<1>4. ASSUME NEW p \in Plans, NEW t \in Tasks, NEW ids \in SUBSET Tasks,
             CreateTaskRead(p, t, ids), Decide(q, "create_task", CreateTaskWrites(p, t, ids))
      PROVE  RacingInv'
    <2> DEFINE w == CreateTaskWrites(p, t, ids)
    <2>1. /\ Sets(t, p) \in Partial(Tasks, Plans) /\ DOMAIN Sets(t, p) = {t} /\ Sets(t, p)[t] = p
          /\ Sets(t, TRUE) \in Partial(Tasks, BOOLEAN)
          /\ {t} \X ids \in SUBSET (Tasks \X Tasks)
        BY SinglePartial
    <2>2. /\ w \in Writes /\ w.status = w.lastEvent
          /\ w.taskPlan = Sets(t, p) /\ w.addDeps = {t} \X ids
        BY <1>1, <2>1 DEF CreateTaskWrites, Writes, NoWrites
    <2>3. taskPlan[t] = None /\ t \notin PendingRows("taskPlan")
        BY <1>4 DEF CreateTaskRead, CreateTaskAccepted
    <2>4. \A x \in ids : x # t /\ taskPlan[x] = p
        BY <1>4 DEF CreateTaskRead, CreateTaskAccepted, PredecessorsAccepted, LiveTasks
    <2> HIDE DEF w
    <2>5. \A y, x \in Tasks : <<y, x>> \in w.addDeps =>
                y = t /\ y # x /\ taskPlan[x] # None /\ w.taskPlan[y] = taskPlan[x]
        BY <2>1, <2>2, <2>4
    <2>6. \A y, x \in Tasks : <<y, x>> \in w.addDeps =>
                /\ y # x
                /\ taskPlan[x] # None
                /\ IF y \in DOMAIN w.taskPlan THEN w.taskPlan[y] = taskPlan[x]
                                              ELSE taskPlan[y] = taskPlan[x]
        BY <2>1, <2>2, <2>5
    <2>7. \A y \in DOMAIN w.taskPlan : taskPlan[y] = None /\ y \notin PendingRows("taskPlan")
        BY <2>1, <2>2, <2>3
    <2> QED BY <1>4, <2>2, <2>6, <2>7, DecideKeeps DEF w
<1>5. ASSUME NEW t \in Tasks, Decide(q, "delete_task", DeleteTaskWrites(t))
      PROVE  RacingInv'
    <2> DEFINE w == DeleteTaskWrites(t)
               rows == ({t} \X Tasks) \cup (Tasks \X {t})
    <2>1. rows \in SUBSET (Tasks \X Tasks) /\ Sets(t, FALSE) \in Partial(Tasks, BOOLEAN)
        BY SinglePartial
    <2>2. w \in Writes /\ w.taskPlan = <<>> /\ w.addDeps = {} /\ w.status = w.lastEvent
        BY <1>1, <2>1 DEF DeleteTaskWrites, Writes, NoWrites
    <2> HIDE DEF w
    <2> QED BY <1>5, <2>2, EmptyPartial, DecideKeeps DEF w
<1>6. ASSUME NEW t \in Tasks, NEW g \in Teams \cup {None}, UpdateTaskAccepted(t, g),
             Decide(q, "update_task", UpdateTaskWrites(t, g))
      PROVE  RacingInv'
    <2> DEFINE w == UpdateTaskWrites(t, g)
    <2>1. /\ Dirty(t, team[t], g) \in Partial(Tasks, Teams \cup {None})
          /\ taskPlan[t] \in Plans \cup {None}
        BY <1>1, DirtyPartial DEF TypeOK
    <2>2. w \in Writes /\ w.taskPlan = <<>> /\ w.addDeps = {} /\ w.status = w.lastEvent
        BY <1>1, <2>1 DEF UpdateTaskWrites, Writes, NoWrites
    <2> HIDE DEF w
    <2> QED BY <1>6, <2>2, EmptyPartial, DecideKeeps DEF w
<1>7. ASSUME NEW t \in Tasks, NEW ids \in SUBSET Tasks, SetPredecessorsAccepted(t, ids),
             Decide(q, "set_predecessors", SetPredecessorsWrites(t, ids))
      PROVE  RacingInv'
    <2> DEFINE w == SetPredecessorsWrites(t, ids)
    <2>1. /\ {t} \X Tasks \in SUBSET (Tasks \X Tasks) /\ {t} \X ids \in SUBSET (Tasks \X Tasks)
          /\ taskPlan[t] \in Plans \cup {None}
        BY <1>1 DEF TypeOK
    <2>2. /\ w \in Writes /\ w.status = w.lastEvent
          /\ w.taskPlan = <<>> /\ w.addDeps = {t} \X ids
        BY <1>1, <2>1 DEF SetPredecessorsWrites, Writes, NoWrites
    <2>3. taskPlan[t] \in Plans /\ \A x \in ids : x # t /\ taskPlan[x] = taskPlan[t]
        BY <1>1, <1>7 DEF SetPredecessorsAccepted, PredecessorsAccepted, LiveTasks, TaskFound, TypeOK
    <2> HIDE DEF w
    <2>4. \A y, x \in Tasks : <<y, x>> \in w.addDeps =>
                y # x /\ taskPlan[x] # None /\ taskPlan[y] = taskPlan[x]
        BY <2>2, <2>3
    <2> QED BY <1>7, <2>2, <2>4, EmptyPartial, DecideKeeps DEF w
<1>8. ASSUME NEW t \in Tasks, NEW to \in Statuses, NEW at \in Time,
             Decide(q, "transition", TransitionWrites(t, to, at))
      PROVE  RacingInv'
    <2> DEFINE w == TransitionWrites(t, to, at)
    <2>1. StampStart(t, status[t], to, at) \in MaybeTime /\ StampFinish(to, at) \in MaybeTime
        BY <1>1 DEF StampStart, StampFinish, MaybeTime, TypeOK
    <2>2. /\ Sets(t, to) \in Partial(Tasks, Statuses)
          /\ Dirty(t, startedAt[t], StampStart(t, status[t], to, at)) \in Partial(Tasks, MaybeTime)
          /\ Dirty(t, finishedAt[t], StampFinish(to, at)) \in Partial(Tasks, MaybeTime)
          /\ taskPlan[t] \in Plans \cup {None}
        BY <1>1, <2>1, SinglePartial, DirtyPartial DEF TypeOK
    <2>3. w \in Writes /\ w.taskPlan = <<>> /\ w.addDeps = {} /\ w.status = w.lastEvent
        BY <1>1, <2>2 DEF TransitionWrites, Writes, NoWrites
    <2> HIDE DEF w
    <2> QED BY <1>8, <2>3, EmptyPartial, DecideKeeps DEF w
<1> QED BY <1>2, <1>3, <1>4, <1>5, <1>6, <1>7, <1>8 DEF Read

\* The statements a request sends change no table before it commits.
LEMMA FlushKeeps ==
    ASSUME RacingInv, NEW q \in Requests, Flush(q)
    PROVE  RacingInv'
<1> DEFINE w == req[q].writes
           seen == [w EXCEPT !.dropDeps = @ \cap deps]
<1>1. UNCHANGED vars /\ req' = [req EXCEPT ![q] = [phase |-> "flushed", writes |-> seen]]
    BY DEF Flush
<1>2. req \in [Requests -> Request] /\ w \in Writes
    BY DEF RacingInv, Request
<1>3. /\ seen \in Writes /\ seen.taskPlan = w.taskPlan /\ seen.addDeps = w.addDeps
      /\ seen.status = w.status /\ seen.lastEvent = w.lastEvent
    BY <1>2 DEF Writes
<1> HIDE DEF seen
<1>4. req' \in [Requests -> Request]
    BY <1>1, <1>2, <1>3 DEF Request
<1>5. \A r \in Requests :
          /\ req'[r].writes.taskPlan = req[r].writes.taskPlan
          /\ req'[r].writes.addDeps = req[r].writes.addDeps
          /\ req'[r].writes.status = req[r].writes.status
          /\ req'[r].writes.lastEvent = req[r].writes.lastEvent
    BY <1>1, <1>2, <1>3
<1>6. \A r \in Requests : NewRows(r)' = NewRows(r) /\ WritesFit(r)'
    BY <1>1, <1>5 DEF NewRows, WritesFit, RacingInv, vars
<1>7. (TypeOK /\ RowsStayInPlan /\ HistoryMatchesStatus)'
    BY <1>1 DEF RacingInv, TypeOK, RowsStayInPlan, HistoryMatchesStatus, vars
<1> QED BY <1>4, <1>6, <1>7 DEF RacingInv

\* A rolled-back request leaves nothing behind.
LEMMA RollbackKeeps ==
    ASSUME RacingInv, NEW q \in Requests, Rollback(q)
    PROVE  RacingInv'
<1>1. UNCHANGED vars /\ req' = [req EXCEPT ![q] = Idle]
    BY DEF Rollback
<1>2. req \in [Requests -> Request]
    BY DEF RacingInv
<1>3. Idle \in Request /\ Idle.writes.taskPlan = <<>> /\ Idle.writes.addDeps = {}
      /\ Idle.writes.status = Idle.writes.lastEvent
    BY NoWritesTyped DEF Idle, Request, NoWrites
<1>4. req' \in [Requests -> Request]
    BY <1>1, <1>2, <1>3
<1>5. req'[q] = Idle /\ \A r \in Requests \ {q} : req'[r] = req[r]
    BY <1>1, <1>2
<1>6. NewRows(q)' = {} /\ \A r \in Requests \ {q} : NewRows(r)' = NewRows(r)
    BY <1>3, <1>5, EmptyPartial DEF NewRows
<1>7. \A r \in Requests : WritesFit(r)'
    BY <1>1, <1>3, <1>5, <1>6 DEF WritesFit, NewRows, RacingInv, vars
<1>8. \A r, z \in Requests : r # z => NewRows(r)' \cap NewRows(z)' = {}
    BY <1>6 DEF RacingInv
<1>9. (TypeOK /\ RowsStayInPlan /\ HistoryMatchesStatus)'
    BY <1>1 DEF RacingInv, TypeOK, RowsStayInPlan, HistoryMatchesStatus, vars
<1> QED BY <1>4, <1>7, <1>8, <1>9 DEF RacingInv

\* A commit applies one request's writes; the other requests' decisions, made before
\* it, still fit afterwards.
LEMMA CommitKeeps ==
    ASSUME RacingInv, NEW q \in Requests, Commit(q)
    PROVE  RacingInv'
<1> USE RunbookAssumption
<1> DEFINE w == req[q].writes
<1>1. req \in [Requests -> Request] /\ w \in Writes /\ TypeOK
    BY DEF RacingInv, Request
<1>2. /\ slot' = Over(w.slot, slot) /\ taskPlan' = Over(w.taskPlan, taskPlan)
      /\ team' = Over(w.team, team) /\ status' = Over(w.status, status)
      /\ startedAt' = Over(w.startedAt, startedAt) /\ finishedAt' = Over(w.finishedAt, finishedAt)
      /\ lastEvent' = Over(w.lastEvent, lastEvent)
      /\ deps' = (deps \ w.dropDeps) \cup w.addDeps
      /\ planLive' \subseteq Plans /\ taskLive' \subseteq Tasks
      /\ req' = [req EXCEPT ![q] = Idle]
      /\ UNCHANGED <<retired, now>>
    BY DEF Commit, DepsAfter
<1>3. /\ w.slot \in Partial(Plans, Slots) /\ w.taskPlan \in Partial(Tasks, Plans)
      /\ w.team \in Partial(Tasks, Teams \cup {None}) /\ w.status \in Partial(Tasks, Statuses)
      /\ w.startedAt \in Partial(Tasks, MaybeTime) /\ w.finishedAt \in Partial(Tasks, MaybeTime)
      /\ w.lastEvent \in Partial(Tasks, Statuses)
      /\ w.dropDeps \subseteq Tasks \X Tasks /\ w.addDeps \subseteq Tasks \X Tasks
    BY <1>1 DEF Writes
<1> HIDE DEF w
<1>4. /\ slot' \in [Plans -> Slots \cup {None}]
      /\ team' \in [Tasks -> Teams \cup {None}]
      /\ startedAt' \in [Tasks -> MaybeTime] /\ finishedAt' \in [Tasks -> MaybeTime]
    BY <1>1, <1>2, <1>3, Overlay DEF TypeOK
<1>5. /\ taskPlan' \in [Tasks -> Plans \cup {None}]
      /\ \A t \in Tasks :
            taskPlan'[t] = IF t \in DOMAIN w.taskPlan THEN w.taskPlan[t] ELSE taskPlan[t]
    <2>1. taskPlan \in [Tasks -> Plans \cup {None}] /\ Plans \subseteq Plans \cup {None}
        BY <1>1 DEF TypeOK
    <2>2. DOMAIN w.taskPlan \subseteq Tasks /\ w.taskPlan \in [DOMAIN w.taskPlan -> Plans]
        BY <1>3, PartialFacts
    <2> QED BY <1>2, <2>1, <2>2 DEF Over
<1>6. /\ status' \in [Tasks -> Statuses]
      /\ \A t \in Tasks : status'[t] = IF t \in DOMAIN w.status THEN w.status[t] ELSE status[t]
    <2>1. status \in [Tasks -> Statuses] /\ Statuses \subseteq Statuses
        BY <1>1 DEF TypeOK
    <2>2. DOMAIN w.status \subseteq Tasks /\ w.status \in [DOMAIN w.status -> Statuses]
        BY <1>3, PartialFacts
    <2> QED BY <1>2, <2>1, <2>2 DEF Over
<1>7. /\ lastEvent' \in [Tasks -> Statuses \cup {None}]
      /\ \A t \in Tasks :
            lastEvent'[t] = IF t \in DOMAIN w.lastEvent THEN w.lastEvent[t] ELSE lastEvent[t]
    <2>1. lastEvent \in [Tasks -> Statuses \cup {None}] /\ Statuses \subseteq Statuses \cup {None}
        BY <1>1 DEF TypeOK
    <2>2. DOMAIN w.lastEvent \subseteq Tasks /\ w.lastEvent \in [DOMAIN w.lastEvent -> Statuses]
        BY <1>3, PartialFacts
    <2> QED BY <1>2, <2>1, <2>2 DEF Over
<1>8. TypeOK'
    BY <1>1, <1>2, <1>3, <1>4, <1>5, <1>6, <1>7 DEF TypeOK
<1>9. WritesFit(q) /\ NewRows(q) = DOMAIN w.taskPlan
    BY DEF RacingInv, NewRows, w
<1>10. \A t \in DOMAIN w.taskPlan : t \in Tasks /\ taskPlan[t] = None /\ w.taskPlan[t] \in Plans
    BY <1>3, <1>9, PartialFacts DEF WritesFit
<1>11. \A t \in Tasks : taskPlan[t] # None => taskPlan'[t] = taskPlan[t]
    BY <1>5, <1>10
<1>12. RowsStayInPlan'
    <2> SUFFICES ASSUME NEW t \in Tasks, NEW p \in Tasks, <<t, p>> \in deps'
                 PROVE  t # p /\ taskPlan'[t] # None /\ taskPlan'[t] = taskPlan'[p]
        BY DEF RowsStayInPlan
    <2>1. CASE <<t, p>> \in deps
        <3>1. t # p /\ taskPlan[t] # None /\ taskPlan[t] = taskPlan[p]
            BY <2>1 DEF RacingInv, RowsStayInPlan
        <3> QED BY <1>11, <3>1
    <2>2. CASE <<t, p>> \in w.addDeps
        <3>1. /\ t # p /\ taskPlan[p] # None
              /\ IF t \in DOMAIN w.taskPlan THEN w.taskPlan[t] = taskPlan[p]
                                            ELSE taskPlan[t] = taskPlan[p]
            BY <1>9, <2>2 DEF WritesFit, w
        <3> QED BY <1>5, <1>11, <3>1
    <2> QED BY <1>2, <2>1, <2>2
<1>13. HistoryMatchesStatus'
    <2>1. w.status = w.lastEvent
        BY <1>9 DEF WritesFit, w
    <2>2. \A t \in DOMAIN w.status : w.status[t] \in Statuses
        BY <1>3, PartialFacts
    <2> SUFFICES ASSUME NEW t \in Tasks
                 PROVE  IF lastEvent'[t] = None THEN status'[t] = "not_started"
                                                ELSE status'[t] = lastEvent'[t]
        BY DEF HistoryMatchesStatus
    <2>3. CASE t \in DOMAIN w.status
        BY <1>6, <1>7, <2>1, <2>2, <2>3
    <2>4. CASE t \notin DOMAIN w.status
        BY <1>6, <1>7, <2>1, <2>4 DEF RacingInv, HistoryMatchesStatus
    <2> QED BY <2>3, <2>4
<1>14. /\ Idle \in Request /\ Idle.writes.taskPlan = <<>> /\ Idle.writes.addDeps = {}
       /\ Idle.writes.status = Idle.writes.lastEvent
    BY NoWritesTyped DEF Idle, Request, NoWrites
<1>15. req' \in [Requests -> Request]
    BY <1>1, <1>2, <1>14
<1>16. req'[q] = Idle /\ \A r \in Requests \ {q} : req'[r] = req[r]
    BY <1>1, <1>2
<1>17. NewRows(q)' = {} /\ \A r \in Requests \ {q} : NewRows(r)' = NewRows(r)
    BY <1>14, <1>16, EmptyPartial DEF NewRows
<1>18. ASSUME NEW r \in Requests PROVE WritesFit(r)'
    <2>1. CASE r = q
        BY <1>14, <1>16, <1>17, <2>1 DEF WritesFit
    <2>2. CASE r # q
        <3> DEFINE v == req[r].writes
        <3>1. req'[r].writes = v /\ NewRows(r)' = NewRows(r) /\ NewRows(r) \cap NewRows(q) = {}
            BY <1>16, <1>17, <2>2 DEF RacingInv
        <3>2. WritesFit(r) /\ v \in Writes
            BY <1>1 DEF RacingInv, Request
        <3>3. NewRows(r) \subseteq Tasks
            BY <3>2, PartialFacts DEF Writes, NewRows
        <3>4. \A t \in NewRows(r) : taskPlan'[t] = None
            BY <1>5, <1>9, <3>1, <3>2, <3>3 DEF WritesFit
        <3>5. ASSUME NEW t \in Tasks, NEW p \in Tasks, <<t, p>> \in v.addDeps
              PROVE  /\ t # p /\ taskPlan'[p] # None
                     /\ IF t \in NewRows(r) THEN v.taskPlan[t] = taskPlan'[p]
                                            ELSE taskPlan'[t] = taskPlan'[p]
            <4>1. /\ t # p /\ taskPlan[p] # None
                  /\ IF t \in NewRows(r) THEN v.taskPlan[t] = taskPlan[p]
                                         ELSE taskPlan[t] = taskPlan[p]
                BY <3>2, <3>5 DEF WritesFit
            <4> QED BY <1>11, <4>1
        <3>6. v.status = v.lastEvent
            BY <3>2 DEF WritesFit
        <3> QED BY <3>1, <3>4, <3>5, <3>6 DEF WritesFit
    <2> QED BY <2>1, <2>2
<1>19. \A r, z \in Requests : r # z => NewRows(r)' \cap NewRows(z)' = {}
    BY <1>17 DEF RacingInv
<1> QED BY <1>8, <1>12, <1>13, <1>15, <1>18, <1>19 DEF RacingInv

\* Every step of every request keeps the invariant.
LEMMA RacingInvNext == RacingInv /\ [RacingNext]_rvars => RacingInv'
<1> SUFFICES ASSUME RacingInv, [RacingNext]_rvars PROVE RacingInv'
    OBVIOUS
<1>1. CASE UNCHANGED rvars
    BY <1>1 DEF rvars, vars, RacingInv, TypeOK, RowsStayInPlan, HistoryMatchesStatus, WritesFit,
                NewRows
<1>2. CASE RacingNext
    BY <1>2, ReadKeeps, FlushKeeps, CommitKeeps, RollbackKeeps DEF RacingNext
<1> QED BY <1>1, <1>2

\* So it holds in every reachable state.
LEMMA RacingInvHolds == RacingSpec => []RacingInv
BY RacingInvInit, RacingInvNext, PTL DEF RacingSpec

\* However requests overlap, the SQL ready clause of the task queue and the guard of
\* transition_task say the same of every task that can be found, and no dependency
\* row leads out of its plan: overlapping edits can break the execution order, never
\* the agreement between what is offered and what is accepted.
THEOREM QueueAgreesUnderRacesHolds == RacingSpec => []QueueAgreesUnderRaces
<1>1. RacingInv => QueueAgreesUnderRaces
    <2> SUFFICES ASSUME RacingInv PROVE QueueAgreesUnderRaces
        OBVIOUS
    <2>1. TypeOK /\ RowsStayInPlan
        BY DEF RacingInv
    <2>2. EdgesStayInPlan
        BY <2>1 DEF EdgesStayInPlan, RowsStayInPlan, TypeOK
    <2>3. ASSUME NEW t \in Tasks, TaskFound(t)
          PROVE  ReadyClause(t) <=> status[t] = "not_started" /\ PredsSatisfied(t)
        <3>1. \A p \in Tasks : p \in Preds(t) <=> <<t, p>> \in deps /\ p \in taskLive
            BY <2>1, <2>3 DEF RowsStayInPlan, Preds, LiveEdges, LiveTasks, TaskFound
        <3>2. Preds(t) \subseteq Tasks
            BY DEF Preds
        <3> QED BY <2>3, <3>1, <3>2 DEF ReadyClause, PredsSatisfied, TaskFound
    <2> QED BY <2>2, <2>3 DEF QueueAgreesUnderRaces
<1> QED BY <1>1, RacingInvHolds, PTL

\* However requests overlap, the newest history row of a task names its status:
\* transition_task writes both in one transaction, and the loser of a race overwrites
\* both.
THEOREM HistoryMatchesStatusUnderRaces == RacingSpec => []HistoryMatchesStatus
<1>1. RacingInv => HistoryMatchesStatus
    BY DEF RacingInv
<1> QED BY <1>1, RacingInvHolds, PTL
=============================================================================
