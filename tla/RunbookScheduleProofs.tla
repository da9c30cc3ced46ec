----------------------- MODULE RunbookScheduleProofs -----------------------
(***************************************************************************)
(* What compute's passes say of any plan: any number of tasks, any acyclic  *)
(* dependencies, any durations, fixed starts and anchor, after any edits    *)
(* and reports.                                                             *)
(*                                                                          *)
(* A pass is a function defined by recursion along the graph.  That such a  *)
(* function exists at all (that the recursion is well founded) is the first *)
(* result; every later fact about a pass is an argument about the first, or *)
(* the last, task in dependency order at which it could fail.               *)
(***************************************************************************)
EXTENDS RunbookSchedule, RunbookProofs, FiniteSetTheorems, WellFoundedInduction

-----------------------------------------------------------------------------
(* The largest and the smallest of finitely many times.                     *)

\* A set of naturals that is not empty has a least member.
LEMMA LeastNatural ==
    ASSUME NEW S \in SUBSET Nat, S # {}
    PROVE  \E n \in S : \A m \in S : n <= m
<1>1. PICK n \in S : \A m \in S : ~(<<m, n>> \in OpToRel(<, Nat))
    BY NatLessThanWellFounded, WFMin
<1>2. \A m \in S : ~(m < n)
    BY <1>1 DEF OpToRel
<1>3. \A m \in S : n <= m
    BY <1>2
<1> QED BY <1>3

\* A family of subsets of a finite set has a member that loses its membership
\* with any one element.
LEMMA SmallestSubset ==
    ASSUME NEW T, IsFiniteSet(T), NEW F \in SUBSET (SUBSET T), F # {}
    PROVE  \E S \in F : \A x \in S : S \ {x} \notin F
<1> DEFINE Sizes == {Cardinality(S) : S \in F}
<1>1. \A S \in F : IsFiniteSet(S) /\ Cardinality(S) \in Nat
    BY FS_Subset, FS_CardinalityType
<1>2. Sizes \in SUBSET Nat /\ Sizes # {}
    BY <1>1
<1>3. PICK n \in Sizes : \A m \in Sizes : n <= m
    BY <1>2, LeastNatural
<1>4. PICK S \in F : n = Cardinality(S)
    OBVIOUS
<1>5. ASSUME NEW x \in S, S \ {x} \in F PROVE FALSE
    <2>1. Cardinality(S \ {x}) = Cardinality(S) - 1
        BY <1>1, FS_RemoveElement
    <2>2. Cardinality(S) <= Cardinality(S \ {x})
        BY <1>3, <1>4, <1>5
    <2> QED BY <1>1, <2>1, <2>2
<1> QED BY <1>5

\* An integer function on a finite set takes a largest value.
LEMMA LargestValue ==
    ASSUME NEW P, IsFiniteSet(P), P # {}, NEW f \in [P -> Int]
    PROVE  \E m \in P : \A q \in P : f[q] <= f[m]
<1> DEFINE F == {S \in SUBSET P : S # {} /\ ~ \E m \in S : \A q \in S : f[q] <= f[m]}
<1>1. SUFFICES ASSUME F # {} PROVE FALSE
    <2>1. P \notin F
        BY <1>1
    <2> QED BY <2>1
<1>2. F \in SUBSET (SUBSET P)
    OBVIOUS
<1>3. PICK S \in F : \A x \in S : S \ {x} \notin F
    BY <1>1, <1>2, SmallestSubset
<1>4. PICK x \in S : TRUE
    OBVIOUS
<1>5. CASE S \ {x} = {}
    <2>1. \A q \in S : q = x
        BY <1>5
    <2>2. f[x] \in Int
        OBVIOUS
    <2> QED BY <2>1, <2>2
<1>6. CASE S \ {x} # {}
    <2>1. PICK m \in S \ {x} : \A q \in S \ {x} : f[q] <= f[m]
        BY <1>3, <1>6
    <2>2. f[x] \in Int /\ f[m] \in Int /\ \A q \in S : f[q] \in Int
        OBVIOUS
    <2>3. CASE f[x] <= f[m]
        <3>1. \A q \in S : f[q] <= f[m]
            BY <2>1, <2>3
        <3> QED BY <3>1
    <2>4. CASE ~(f[x] <= f[m])
        <3>1. \A q \in S : f[q] <= f[x]
            BY <2>1, <2>2, <2>4
        <3> QED BY <3>1
    <2> QED BY <2>3, <2>4
<1> QED BY <1>5, <1>6

\* m is the largest of the values of f on P, and d when there are none.
IsLargest(m, P, f, d) ==
    /\ m \in Int
    /\ \A p \in P : f[p] <= m
    /\ P = {} => m = d
    /\ P # {} => \E p \in P : m = f[p]

\* m is the smallest of the values of f on P, and d when there are none.
IsSmallest(m, P, f, d) ==
    /\ m \in Int
    /\ \A p \in P : m <= f[p]
    /\ P = {} => m = d
    /\ P # {} => \E p \in P : m = f[p]

\* max(..., default=d) over a finite set of integers.
LEMMA MaxOrFacts ==
    ASSUME NEW P, IsFiniteSet(P), NEW f, f \in [P -> Int], NEW d, d \in Int,
           NEW S, \A y : y \in S <=> \E p \in P : y = f[p]
    PROVE  IsLargest(MaxOr(S, d), P, f, d)
<1> USE DEF IsLargest
<1>1. CASE P = {}
    BY <1>1 DEF MaxOr
<1>2. CASE P # {}
    <2>1. PICK m \in P : \A q \in P : f[q] <= f[m]
        BY <1>2, LargestValue
    <2>2. f[m] \in S /\ \A y \in S : f[m] >= y
        BY <2>1
    <2>3. Max(S) \in S /\ \A y \in S : Max(S) >= y
        BY <2>2, Zenon DEF Max
    <2>4. MaxOr(S, d) = Max(S)
        BY <2>2 DEF MaxOr
    <2> QED BY <1>2, <2>3, <2>4
<1> QED BY <1>1, <1>2

\* min(..., default=d) over a finite set of integers.
LEMMA MinOrFacts ==
    ASSUME NEW P, IsFiniteSet(P), NEW f, f \in [P -> Int], NEW d, d \in Int,
           NEW S, \A y : y \in S <=> \E p \in P : y = f[p]
    PROVE  IsSmallest(MinOr(S, d), P, f, d)
<1> USE DEF IsSmallest
<1>1. CASE P = {}
    BY <1>1 DEF MinOr
<1>2. CASE P # {}
    <2> DEFINE g == [p \in P |-> -f[p]]
    <2>1. PICK m \in P : \A q \in P : g[q] <= g[m]
        <3>1. g \in [P -> Int]
            OBVIOUS
        <3> HIDE DEF g
        <3> QED BY <1>2, <3>1, LargestValue
    <2>2. f[m] \in S /\ \A y \in S : f[m] =< y
        BY <2>1
    <2>3. Min(S) \in S /\ \A y \in S : Min(S) =< y
        BY <2>2, Zenon DEF Min
    <2>4. MinOr(S, d) = Min(S)
        BY <2>2 DEF MinOr
    <2> QED BY <1>2, <2>3, <2>4
<1> QED BY <1>1, <1>2

-----------------------------------------------------------------------------
(* Recursion along an acyclic graph.                                        *)

\* Every set of tasks holds one that waits for none of the others.
Grounded(T, P) == \A U \in SUBSET T : U # {} => \E t \in U : \A p \in U : p \notin P[t]

\* On finitely many tasks this holds of the successors if it holds of the
\* predecessors, so the backward pass ends too.
LEMMA GroundedBothWays ==
    ASSUME NEW T, IsFiniteSet(T), NEW P, NEW S, Grounded(T, P),
           \A x, y \in T : y \in S[x] <=> x \in P[y]
    PROVE  Grounded(T, S)
<1> DEFINE F == {U \in SUBSET T : U # {} /\ \A t \in U : \E s \in U : s \in S[t]}
<1>1. SUFFICES ASSUME F # {} PROVE FALSE
    BY <1>1 DEF Grounded
<1>2. PICK U \in F : \A x \in U : U \ {x} \notin F
    BY <1>1, SmallestSubset
<1>3. PICK t \in U : \A p \in U : p \notin P[t]
    BY DEF Grounded
<1>4. \A x \in U : t \notin S[x]
    BY <1>3
<1>5. \A x \in U : \E s \in U \ {t} : s \in S[x]
    BY <1>4
<1>6. U \ {t} \in F
    BY <1>3, <1>5
<1> QED BY <1>2, <1>3, <1>6

\* f is the result of visiting T so that every t is given step of itself and
\* of what was computed for the tasks it waits for.
IsPass(f, T, P, step) == \A t \in T : f[t] = step[<<t, {<<p, f[p]>> : p \in P[t]}>>]

\* A pass over a grounded graph has a result: the solutions on closed parts of
\* the graph agree, and the first task outside all of them could be added.
LEMMA PassExists ==
    ASSUME NEW T, NEW P, NEW V, NEW step,
           \A t \in T : P[t] \subseteq T,
           Grounded(T, P),
           step \in [T \X SUBSET (T \X V) -> V]
    PROVE  \E f \in [T -> V] : IsPass(f, T, P, step)
<1> DEFINE Seen(f, t) == {<<p, f[p]>> : p \in P[t]}
           Closed(K) == K \subseteq T /\ \A x \in K : P[x] \subseteq K
           Solves(K, f) == f \in [K -> V] /\ \A x \in K : f[x] = step[<<x, Seen(f, x)>>]
<1>1. ASSUME NEW K, NEW J, NEW f, NEW g, Closed(K), Closed(J), Solves(K, f), Solves(J, g)
      PROVE  \A x \in K \cap J : f[x] = g[x]
    <2> DEFINE U == {x \in K \cap J : f[x] # g[x]}
    <2>1. SUFFICES ASSUME U # {} PROVE FALSE
        BY <2>1
    <2>2. U \in SUBSET T
        BY <1>1
    <2>3. PICK t \in U : \A p \in U : p \notin P[t]
        BY <2>1, <2>2 DEF Grounded
    <2>4. \A p \in P[t] : f[p] = g[p]
        BY <1>1, <2>3
    <2>5. Seen(f, t) = Seen(g, t)
        BY <2>4
    <2> QED BY <1>1, <2>5
<1> DEFINE Good == {x \in T : \E K \in SUBSET T : \E f \in [K -> V] :
                                Closed(K) /\ Solves(K, f) /\ x \in K}
           F == [x \in Good |-> CHOOSE v : \E K \in SUBSET T : \E f \in [K -> V] :
                                Closed(K) /\ Solves(K, f) /\ x \in K /\ v = f[x]]
<1>2. ASSUME NEW K \in SUBSET T, NEW f \in [K -> V], Closed(K), Solves(K, f)
      PROVE  K \subseteq Good /\ \A x \in K : F[x] = f[x]
    <2>1. K \subseteq Good
        BY <1>2
    <2>2. ASSUME NEW x \in K PROVE F[x] = f[x]
        <3>1. PICK J \in SUBSET T : \E g \in [J -> V] :
                    Closed(J) /\ Solves(J, g) /\ x \in J /\ F[x] = g[x]
            <4> DEFINE Q(v) == \E J \in SUBSET T : \E g \in [J -> V] :
                            Closed(J) /\ Solves(J, g) /\ x \in J /\ v = g[x]
            <4>1. Q(f[x])
                BY <1>2, <2>2, Zenon
            <4>2. Q(CHOOSE v : Q(v))
                BY <4>1, Zenon
            <4>3. F[x] = CHOOSE v : Q(v)
                BY <2>1, <2>2, Zenon
            <4> QED BY <4>2, <4>3, Zenon
        <3>2. PICK g \in [J -> V] : Closed(J) /\ Solves(J, g) /\ x \in J /\ F[x] = g[x]
            BY <3>1
        <3> HIDE DEF F, Good, Closed, Solves
        <3>3. \A y \in K \cap J : f[y] = g[y]
            BY <1>1, <1>2, <3>2
        <3> QED BY <2>2, <3>2, <3>3
    <2> QED BY <2>1, <2>2
<1>3. Closed(Good) /\ Solves(Good, F)
    <2>1. ASSUME NEW x \in Good
          PROVE  P[x] \subseteq Good /\ F[x] \in V /\ F[x] = step[<<x, Seen(F, x)>>]
        <3>1. PICK K \in SUBSET T : \E f \in [K -> V] : Closed(K) /\ Solves(K, f) /\ x \in K
            BY <2>1
        <3>2. PICK f \in [K -> V] : Closed(K) /\ Solves(K, f) /\ x \in K
            BY <3>1
        <3>3. K \subseteq Good /\ \A y \in K : F[y] = f[y]
            <4> HIDE DEF F, Good, Closed, Solves
            <4> QED BY <1>2, <3>2
        <3> HIDE DEF F, Good
        <3>4. P[x] \subseteq K
            BY <3>2
        <3>5. Seen(F, x) = Seen(f, x)
            BY <3>3, <3>4
        <3> QED BY <3>2, <3>3, <3>4, <3>5
    <2>2. Good \subseteq T /\ DOMAIN F = Good /\ F = [x \in Good |-> F[x]]
        BY Zenon
    <2> HIDE DEF F, Good
    <2>3. F \in [Good -> V]
        BY <2>1, <2>2
    <2> QED BY <2>1, <2>2, <2>3
<1>4. Good = T
    <2> DEFINE U == T \ Good
    <2>1. SUFFICES ASSUME U # {} PROVE FALSE
        BY <2>1
    <2> HIDE DEF F, Good
    <2>2. PICK m \in U : \A p \in U : p \notin P[m]
        BY <2>1 DEF Grounded
    <2>3. Good \subseteq T
        BY <1>3
    <2>4. P[m] \subseteq Good /\ m \notin Good /\ m \in T
        BY <2>2
    <2> DEFINE K == Good \cup {m}
               f == [x \in K |-> IF x = m THEN step[<<m, Seen(F, m)>>] ELSE F[x]]
    <2>5. step[<<m, Seen(F, m)>>] \in V
        <3>1. Seen(F, m) \in SUBSET (T \X V)
            BY <1>3, <2>3, <2>4
        <3> QED BY <2>4, <3>1
    <2>6. f \in [K -> V]
        BY <1>3, <2>5
    <2>7. Closed(K)
        BY <1>3, <2>3, <2>4
    <2>8. ASSUME NEW x \in K PROVE f[x] = step[<<x, Seen(f, x)>>]
        <3>1. P[x] \subseteq Good
            BY <1>3, <2>4, <2>8
        <3>2. Seen(f, x) = Seen(F, x)
            BY <2>4, <3>1
        <3> QED BY <1>3, <2>4, <3>2
    <2>9. Solves(K, f)
        BY <2>6, <2>8
    <2>10. K \in SUBSET T /\ m \in K
        BY <2>3, <2>4
    <2> HIDE DEF K, f, Closed, Solves
    <2>11. K \subseteq Good
        BY <1>2, <2>6, <2>7, <2>9, <2>10
    <2> QED BY <2>4, <2>10, <2>11
<1> HIDE DEF F, Good
<1> QED BY <1>3, <1>4 DEF IsPass

-----------------------------------------------------------------------------
(* The invariant.                                                           *)

\* The columns only the schedule reads.
PlanningTyped ==
    /\ anchor \in Int
    /\ duration \in [Tasks -> Nat]
    /\ fixedStart \in [Tasks -> Int \cup {None}]

\* What the runbook handlers guarantee, on the plan being carried out.  The
\* passes need the graph acyclic and the actual times set as the statuses say.
ScheduleInv == IInv /\ LiveGraphAcyclic /\ ActualsMatchStatus /\ PlanningTyped

\* A new plan satisfies it.
LEMMA ScheduleInvInit == ScheduleInit => ScheduleInv
<1> SUFFICES ASSUME ScheduleInit PROVE ScheduleInv
    OBVIOUS
<1> USE RunbookAssumption, ScheduleAssumption
<1>1. TypeOK
    <2>1. deps \subseteq Tasks \X Tasks
        BY DEF ScheduleInit
    <2>2. \A t \in Tasks : None \in Teams \cup {None} /\ None \in MaybeTime
                           /\ None \in Statuses \cup {None} /\ "not_started" \in Statuses
        BY DEF MaybeTime, Statuses
    <2>3. now \in Time
        BY DEF ScheduleInit, Time
    <2> QED BY <2>1, <2>2, <2>3 DEF ScheduleInit, TypeOK
<1>2. Acyclic(Tasks, deps)
    BY DEF ScheduleInit
<1>3. RowsStayInPlan
    <2> SUFFICES ASSUME NEW t \in Tasks, NEW p \in Tasks, <<t, p>> \in deps
                 PROVE  t # p /\ taskPlan[t] # None /\ taskPlan[t] = taskPlan[p]
        BY DEF RowsStayInPlan
    <2>1. <<t, t>> \notin deps
        <3>1. {t} \in SUBSET Tasks /\ {t} # {}
            OBVIOUS
        <3> QED BY <1>2, <3>1 DEF Acyclic
    <2> QED BY <2>1 DEF ScheduleInit
<1>4. NoOrphanTask /\ FreshRows /\ BegunTasksRest
    BY DEF ScheduleInit, NoOrphanTask, FreshRows, BegunTasksRest, Begun
<1>5. LiveGraphAcyclic
    <2> SUFFICES ASSUME NEW p \in Plans PROVE Acyclic(LiveTasks(p), LiveEdges(p))
        BY DEF LiveGraphAcyclic
    <2>1. LiveTasks(p) \subseteq Tasks /\ LiveEdges(p) \subseteq deps
        BY DEF LiveTasks, LiveEdges, ScheduleInit
    <2> QED BY <1>2, <2>1, AcyclicSubgraph
<1>6. ActualsMatchStatus
    BY DEF ScheduleInit, ActualsMatchStatus
<1>7. PlanningTyped
    BY DEF ScheduleInit, PlanningTyped
<1> QED BY <1>1, <1>3, <1>4, <1>5, <1>6, <1>7 DEF ScheduleInv, IInv

\* Edits of the planning columns leave the runbook alone; reports and the clock
\* are steps of the runbook.
LEMMA ScheduleInvNext == ScheduleInv /\ [ScheduleNext]_svars => ScheduleInv'
<1> SUFFICES ASSUME ScheduleInv, [ScheduleNext]_svars PROVE ScheduleInv'
    OBVIOUS
<1> USE RunbookAssumption, ScheduleAssumption
<1>1. ASSUME NEW a \in Anchors, UpdatePlan(a)
      PROVE  UNCHANGED vars /\ PlanningTyped'
    BY <1>1 DEF UpdatePlan, ScheduleInv, PlanningTyped
<1>2. ASSUME NEW t \in Tasks, NEW d \in Durations, NEW f \in FixedStarts, UpdateTaskTimes(t, d, f)
      PROVE  UNCHANGED vars /\ PlanningTyped'
    BY <1>2 DEF UpdateTaskTimes, ScheduleInv, PlanningTyped
<1>3. ASSUME NEW u \in Managers, NEW t \in Tasks, NEW to \in Statuses, NEW at \in Time,
             Report(u, t, to, at)
      PROVE  Next /\ PlanningTyped'
    <2>1. u \in Users
        OBVIOUS
    <2>2. Next
        BY <1>3, <2>1 DEF Report, Next
    <2> QED BY <1>3, <2>2 DEF Report, planning, ScheduleInv, PlanningTyped
<1>4. ASSUME Advance
      PROVE  Next /\ PlanningTyped'
    BY <1>4 DEF Advance, Next, planning, ScheduleInv, PlanningTyped
<1>5. ASSUME UNCHANGED svars
      PROVE  UNCHANGED vars /\ PlanningTyped'
    BY <1>5 DEF svars, planning, ScheduleInv, PlanningTyped
<1>6. [Next]_vars /\ PlanningTyped'
    BY <1>1, <1>2, <1>3, <1>4, <1>5 DEF ScheduleNext
<1> QED BY <1>6, IInvNext, AcyclicNext, ActualsNext DEF ScheduleInv, IInv

\* It holds throughout.
LEMMA ScheduleInvHolds == ScheduleSpec => []ScheduleInv
BY ScheduleInvInit, ScheduleInvNext, PTL DEF ScheduleSpec

-----------------------------------------------------------------------------
(* What compute reads of the plan.                                          *)

\* The preds and succs of compute: finite, mutually inverse and
\* grounded.
LEMMA TaskGraphFacts ==
    ASSUME ScheduleInv
    PROVE  /\ IsFiniteSet(taskLive)
           /\ taskLive \subseteq Tasks
           /\ \A t \in taskLive : Preds(t) \subseteq taskLive /\ Succs(t) \subseteq taskLive
           /\ \A t \in taskLive : IsFiniteSet(Preds(t)) /\ IsFiniteSet(Succs(t))
           /\ \A x, y \in taskLive : y \in Succs(x) <=> x \in Preds(y)
           /\ Grounded(taskLive, [t \in taskLive |-> Preds(t)])
           /\ Grounded(taskLive, [t \in taskLive |-> Succs(t)])
<1>1. taskLive \subseteq Tasks /\ IsFiniteSet(taskLive)
    BY ScheduleAssumption, FS_Subset DEF ScheduleInv, IInv, TypeOK
<1>2. \A t \in taskLive : Preds(t) \subseteq taskLive /\ Succs(t) \subseteq taskLive
    BY DEF Preds, Succs, LiveEdges, LiveTasks
<1>3. \A t \in taskLive : IsFiniteSet(Preds(t)) /\ IsFiniteSet(Succs(t))
    BY <1>1, <1>2, FS_Subset
<1>4. \A x, y \in taskLive : y \in Succs(x) <=> x \in Preds(y)
    BY <1>1 DEF Preds, Succs, LiveEdges, LiveTasks
<1> DEFINE P == [t \in taskLive |-> Preds(t)]
           S == [t \in taskLive |-> Succs(t)]
<1>5. Grounded(taskLive, P)
    <2> SUFFICES ASSUME NEW U \in SUBSET taskLive, U # {}
                 PROVE  \E t \in U : \A p \in U : p \notin P[t]
        BY DEF Grounded
    <2>1. PICK x \in U : TRUE
        OBVIOUS
    <2> DEFINE q == taskPlan[x]
               W == {t \in U : taskPlan[t] = q}
    <2>2. q \in Plans
        BY <2>1 DEF ScheduleInv, IInv, TypeOK, NoOrphanTask
    <2>3. W \in SUBSET LiveTasks(q) /\ W # {}
        BY <2>1 DEF LiveTasks
    <2>4. PICK t \in W : \A p \in W : <<t, p>> \notin LiveEdges(q)
        BY <2>2, <2>3, Zenon DEF ScheduleInv, LiveGraphAcyclic, Acyclic
    <2>5. \A p \in U : p \notin Preds(t)
        BY <2>4 DEF Preds, LiveEdges, LiveTasks
    <2> QED BY <2>4, <2>5
<1>6. \A x, y \in taskLive : y \in S[x] <=> x \in P[y]
    BY <1>4
<1>7. Grounded(taskLive, S)
    <2> HIDE DEF P, S
    <2> QED BY <1>1, <1>5, <1>6, GroundedBothWays
<1> QED BY <1>1, <1>2, <1>3, <1>4, <1>5, <1>7

\* The columns of a live task, with the actual times its status promises.
LEMMA TaskFacts ==
    ASSUME ScheduleInv, NEW t \in taskLive
    PROVE  /\ t \in Tasks /\ status[t] \in Statuses /\ duration[t] \in Nat
           /\ now \in Int /\ anchor \in Int
           /\ fixedStart[t] \in Int \cup {None}
           /\ status[t] \in {"in_progress", "done", "failed"} => startedAt[t] \in Int
           /\ status[t] = "done" => finishedAt[t] \in Int
<1>1. t \in Tasks /\ status[t] \in Statuses /\ duration[t] \in Nat /\ now \in Int /\ anchor \in Int
      /\ fixedStart[t] \in Int \cup {None}
    BY RunbookAssumption DEF ScheduleInv, IInv, TypeOK, PlanningTyped, Time
<1>2. startedAt[t] \in Int \cup {None} /\ finishedAt[t] \in Int \cup {None}
    BY <1>1, RunbookAssumption DEF ScheduleInv, IInv, TypeOK, MaybeTime, Time
<1>3. /\ status[t] \in {"in_progress", "done", "failed"} => startedAt[t] # None
      /\ status[t] = "done" => finishedAt[t] # None
    BY <1>1 DEF ScheduleInv, ActualsMatchStatus
<1> QED BY <1>1, <1>2, <1>3

\* The forecast table by status: on states the handlers leave, the fallbacks for
\* a missing actual time are never taken.
LEMMA RowFacts ==
    ASSUME ScheduleInv, NEW t \in taskLive, NEW d \in Int
    PROVE  /\ ForecastRow(t, d).start \in Int /\ ForecastRow(t, d).finish \in Int
           /\ status[t] \in Statuses
           /\ duration[t] \in Nat /\ now \in Int
           /\ status[t] = "done" =>
                /\ ForecastRow(t, d).finish = finishedAt[t]
                /\ ForecastRow(t, d).start = startedAt[t]
           /\ status[t] \in {"in_progress", "failed"} =>
                /\ ForecastRow(t, d).start = startedAt[t]
                /\ startedAt[t] \in Int
                /\ ForecastRow(t, d).finish = NotBefore(startedAt[t] + duration[t], now)
           /\ status[t] = "skipped" => ForecastRow(t, d).start = d /\ ForecastRow(t, d).finish = d
           /\ status[t] = "not_started" =>
                /\ ForecastRow(t, d).start = NotBefore(NotBefore(d, fixedStart[t]), now)
                /\ ForecastRow(t, d).finish = ForecastRow(t, d).start + duration[t]
<1>1. t \in Tasks /\ status[t] \in Statuses /\ duration[t] \in Nat /\ now \in Int
      /\ fixedStart[t] \in Int \cup {None}
    BY RunbookAssumption DEF ScheduleInv, IInv, TypeOK, PlanningTyped, Time
<1>2. startedAt[t] \in Int \cup {None} /\ finishedAt[t] \in Int \cup {None}
    BY <1>1, RunbookAssumption DEF ScheduleInv, IInv, TypeOK, MaybeTime, Time
<1>3. /\ status[t] \in {"in_progress", "done", "failed"} => startedAt[t] # None
      /\ status[t] = "done" => finishedAt[t] # None
    BY <1>1 DEF ScheduleInv, ActualsMatchStatus
<1> USE ScheduleAssumption
<1>4. CASE status[t] = "done"
    BY <1>1, <1>2, <1>3, <1>4 DEF ForecastRow
<1>5. CASE status[t] \in {"in_progress", "failed"}
    BY <1>1, <1>2, <1>3, <1>5 DEF ForecastRow, NotBefore
<1>6. CASE status[t] = "skipped"
    BY <1>1, <1>6 DEF ForecastRow
<1>7. CASE status[t] = "not_started"
    BY <1>1, <1>7 DEF ForecastRow, NotBefore
<1> QED BY <1>1, <1>4, <1>5, <1>6, <1>7 DEF Statuses

\* Induction in topological order.
LEMMA FirstTask ==
    ASSUME ScheduleInv, NEW U \in SUBSET taskLive, U # {}
    PROVE  \E t \in U : \A p \in Preds(t) : p \notin U
<1> DEFINE P == [t \in taskLive |-> Preds(t)]
<1>1. Grounded(taskLive, P)
    BY TaskGraphFacts
<1> HIDE DEF P
<1>2. PICK t \in U : \A p \in U : p \notin P[t]
    BY <1>1 DEF Grounded
<1> QED BY <1>2 DEF P

\* Induction in reverse topological order.
LEMMA LastTask ==
    ASSUME ScheduleInv, NEW U \in SUBSET taskLive, U # {}
    PROVE  \E t \in U : \A s \in Succs(t) : s \notin U
<1> DEFINE S == [t \in taskLive |-> Succs(t)]
<1>1. Grounded(taskLive, S)
    BY TaskGraphFacts
<1> HIDE DEF S
<1>2. PICK t \in U : \A p \in U : p \notin S[t]
    BY <1>1 DEF Grounded
<1> QED BY <1>2 DEF S

\* m is the last finish among P, and d when P is empty.
IsLastFinish(m, P, rows, d) ==
    /\ m \in Int
    /\ \A p \in P : rows[p].finish <= m
    /\ P = {} => m = d
    /\ P # {} => \E p \in P : m = rows[p].finish

\* The latest of finitely many finishes.
LEMMA LastFinish ==
    ASSUME NEW P, IsFiniteSet(P), NEW rows, \A p \in P : rows[p].finish \in Int, NEW d, d \in Int
    PROVE  IsLastFinish(MaxOr({rows[p].finish : p \in P}, d), P, rows, d)
<1> DEFINE f == [p \in P |-> rows[p].finish]
           S == {rows[p].finish : p \in P}
<1>1. f \in [P -> Int]
    OBVIOUS
<1>2. \A y : y \in S <=> \E p \in P : y = f[p]
    OBVIOUS
<1>3. \A p \in P : f[p] = rows[p].finish
    OBVIOUS
<1> HIDE DEF f, S
<1>4. IsLargest(MaxOr(S, d), P, f, d)
    BY <1>1, <1>2, MaxOrFacts
<1> QED BY <1>3, <1>4 DEF S, IsLargest, IsLastFinish

\* What drives a task: its last predecessor, or the anchor.
LEMMA DrivenFacts ==
    ASSUME ScheduleInv, NEW t \in taskLive, NEW f, \A p \in Preds(t) : f[p].finish \in Int
    PROVE  IsLastFinish(MaxOr({f[p].finish : p \in Preds(t)}, anchor), Preds(t), f, anchor)
<1>1. IsFiniteSet(Preds(t)) /\ anchor \in Int
    BY TaskGraphFacts DEF ScheduleInv, PlanningTyped
<1> QED BY <1>1, LastFinish, Zenon

\* The end of the plan: its last finish, or the anchor.
LEMMA EndFacts ==
    ASSUME ScheduleInv, NEW rows, \A t \in taskLive : rows[t].finish \in Int
    PROVE  IsLastFinish(EndOf(rows), taskLive, rows, anchor)
<1>1. IsFiniteSet(taskLive) /\ anchor \in Int
    BY TaskGraphFacts DEF ScheduleInv, PlanningTyped
<1> QED BY <1>1, LastFinish, Zenon DEF EndOf

-----------------------------------------------------------------------------
(* The forecast pass.                                                       *)

\* A row of the forecast.
Row == [start : Int, finish : Int, driven : Int]

\* The row of t, from the rows of its predecessors.
NextRow(f, t, delay) ==
    LET driven == MaxOr({f[p].finish : p \in Preds(t)}, anchor)
        row == ForecastRow(t, driven)
    IN  [start |-> row.start, finish |-> row.finish + delay[t], driven |-> driven]

\* It is made of times when theirs are.
LEMMA NextRowTyped ==
    ASSUME ScheduleInv, NEW t \in taskLive, NEW f, \A p \in Preds(t) : f[p] \in Row,
           NEW delay \in [Tasks -> Nat]
    PROVE  NextRow(f, t, delay) \in Row
<1> DEFINE d == MaxOr({f[p].finish : p \in Preds(t)}, anchor)
<1>1. d \in Int
    BY DrivenFacts DEF Row, IsLastFinish
<1>2. t \in Tasks
    BY TaskGraphFacts
<1>3. delay[t] \in Nat
    BY <1>2
<1> HIDE DEF d
<1>4. ForecastRow(t, d).start \in Int /\ ForecastRow(t, d).finish \in Int
    BY <1>1, RowFacts
<1>5. NextRow(f, t, delay) = [start |-> ForecastRow(t, d).start,
                              finish |-> ForecastRow(t, d).finish + delay[t], driven |-> d]
    BY DEF NextRow, d
<1> QED BY <1>1, <1>3, <1>4, <1>5 DEF Row

\* The forecast satisfies its recursion.
LEMMA ForecastEquation ==
    ASSUME ScheduleInv, NEW delay \in [Tasks -> Nat]
    PROVE  Forecast(delay) = [t \in taskLive |-> NextRow(Forecast(delay), t, delay)]
<1> DEFINE P == [t \in taskLive |-> Preds(t)]
           Least == [start |-> 0, finish |-> 0, driven |-> 0]
           Answer(t, W) ==
               LET driven == MaxOr({w[2].finish : w \in W}, anchor)
                   row == ForecastRow(t, driven)
                   r == [start |-> row.start, finish |-> row.finish + delay[t], driven |-> driven]
               IN  IF r \in Row THEN r ELSE Least
           step == [w \in taskLive \X SUBSET (taskLive \X Row) |-> Answer(w[1], w[2])]
<1>1. /\ \A t \in taskLive : P[t] \subseteq taskLive
      /\ Grounded(taskLive, P)
    BY TaskGraphFacts
<1>2. step \in [taskLive \X SUBSET (taskLive \X Row) -> Row]
    <2>1. Least \in Row
        BY DEF Row
    <2>2. \A t, W : Answer(t, W) \in Row
        BY <2>1
    <2> HIDE DEF Answer
    <2> QED BY <2>2
<1>3. PICK f \in [taskLive -> Row] : IsPass(f, taskLive, P, step)
    <2> HIDE DEF P, step
    <2> QED BY <1>1, <1>2, PassExists, Zenon
<1>4. ASSUME NEW t \in taskLive PROVE f[t] = NextRow(f, t, delay)
    <2> DEFINE W == {<<p, f[p]>> : p \in Preds(t)}
    <2>1. W \in SUBSET (taskLive \X Row)
        BY <1>1
    <2>2. {w[2].finish : w \in W} = {f[p].finish : p \in Preds(t)}
        <3>1. ASSUME NEW p \in Preds(t) PROVE f[p].finish \in {w[2].finish : w \in W}
            <4>1. <<p, f[p]>> \in W /\ <<p, f[p]>>[2] = f[p]
                OBVIOUS
            <4> QED BY <4>1
        <3>2. ASSUME NEW w \in W PROVE w[2].finish \in {f[p].finish : p \in Preds(t)}
            <4>1. PICK p \in Preds(t) : w = <<p, f[p]>>
                OBVIOUS
            <4> QED BY <4>1
        <3> QED BY <3>1, <3>2
    <2>3. f[t] = Answer(t, W)
        <3> HIDE DEF Answer
        <3>1. f[t] = step[<<t, W>>]
            BY <1>3 DEF IsPass
        <3> HIDE DEF W
        <3> QED BY <2>1, <3>1
    <2>4. NextRow(f, t, delay) \in Row
        <3>1. \A p \in Preds(t) : f[p] \in Row
            BY <1>1
        <3> QED BY <3>1, NextRowTyped
    <2>5. Answer(t, W) = IF NextRow(f, t, delay) \in Row THEN NextRow(f, t, delay) ELSE Least
        BY <2>2 DEF NextRow
    <2> HIDE DEF Answer, W
    <2> QED BY <2>3, <2>4, <2>5
<1>5. f = [t \in taskLive |-> NextRow(f, t, delay)]
    BY <1>4
<1> QED BY <1>5, Zenon DEF Forecast, NextRow

\* Every row of the forecast is made of times.
LEMMA ForecastTyped ==
    ASSUME ScheduleInv, NEW delay \in [Tasks -> Nat]
    PROVE  \A t \in taskLive : Forecast(delay)[t] \in Row
<1> DEFINE fc == Forecast(delay)
           U == {t \in taskLive : fc[t] \notin Row}
<1>1. fc = [t \in taskLive |-> NextRow(fc, t, delay)]
    BY ForecastEquation
<1> HIDE DEF fc
<1>2. SUFFICES ASSUME U # {} PROVE FALSE
    BY <1>2 DEF fc
<1>3. PICK t \in U : \A p \in Preds(t) : p \notin U
    BY <1>2, FirstTask
<1>4. \A p \in Preds(t) : fc[p] \in Row
    BY <1>3, TaskGraphFacts
<1>5. NextRow(fc, t, delay) \in Row
    BY <1>4, NextRowTyped
<1> QED BY <1>1, <1>5

-----------------------------------------------------------------------------
(* The planned pass.                                                        *)

\* A row of the baseline.
PlanRow == [start : Int, finish : Int]

\* The planned row of t, from the rows of its predecessors.
NextPlanRow(f, t) ==
    LET start == NotBefore(MaxOr({f[p].finish : p \in Preds(t)}, anchor), fixedStart[t])
    IN  [start |-> start, finish |-> start + duration[t]]

\* It is made of times when theirs are.
LEMMA NextPlanRowTyped ==
    ASSUME ScheduleInv, NEW t \in taskLive, NEW f, \A p \in Preds(t) : f[p] \in PlanRow
    PROVE  NextPlanRow(f, t) \in PlanRow
<1> DEFINE d == MaxOr({f[p].finish : p \in Preds(t)}, anchor)
<1>1. d \in Int
    BY DrivenFacts DEF PlanRow, IsLastFinish
<1>2. duration[t] \in Nat /\ fixedStart[t] \in Int \cup {None}
    BY TaskGraphFacts DEF ScheduleInv, PlanningTyped
<1>3. NextPlanRow(f, t) = [start |-> NotBefore(d, fixedStart[t]),
                           finish |-> NotBefore(d, fixedStart[t]) + duration[t]]
    BY DEF NextPlanRow
<1> HIDE DEF d
<1>4. NotBefore(d, fixedStart[t]) \in Int
    BY <1>1, <1>2 DEF NotBefore
<1> QED BY <1>2, <1>3, <1>4 DEF PlanRow

\* The baseline satisfies its recursion.
LEMMA PlannedEquation ==
    ASSUME ScheduleInv
    PROVE  Planned = [t \in taskLive |-> NextPlanRow(Planned, t)]
<1> DEFINE P == [t \in taskLive |-> Preds(t)]
           Least == [start |-> 0, finish |-> 0]
           Answer(t, W) ==
               LET start == NotBefore(MaxOr({w[2].finish : w \in W}, anchor), fixedStart[t])
                   r == [start |-> start, finish |-> start + duration[t]]
               IN  IF r \in PlanRow THEN r ELSE Least
           step == [w \in taskLive \X SUBSET (taskLive \X PlanRow) |-> Answer(w[1], w[2])]
<1>1. /\ \A t \in taskLive : P[t] \subseteq taskLive
      /\ Grounded(taskLive, P)
    BY TaskGraphFacts
<1>2. step \in [taskLive \X SUBSET (taskLive \X PlanRow) -> PlanRow]
    <2>1. Least \in PlanRow
        BY DEF PlanRow
    <2>2. \A t, W : Answer(t, W) \in PlanRow
        BY <2>1
    <2> HIDE DEF Answer
    <2> QED BY <2>2
<1>3. PICK f \in [taskLive -> PlanRow] : IsPass(f, taskLive, P, step)
    <2> HIDE DEF P, step
    <2> QED BY <1>1, <1>2, PassExists, Zenon
<1>4. ASSUME NEW t \in taskLive PROVE f[t] = NextPlanRow(f, t)
    <2> DEFINE W == {<<p, f[p]>> : p \in Preds(t)}
    <2>1. W \in SUBSET (taskLive \X PlanRow)
        BY <1>1
    <2>2. {w[2].finish : w \in W} = {f[p].finish : p \in Preds(t)}
        <3>1. ASSUME NEW p \in Preds(t) PROVE f[p].finish \in {w[2].finish : w \in W}
            <4>1. <<p, f[p]>> \in W /\ <<p, f[p]>>[2] = f[p]
                OBVIOUS
            <4> QED BY <4>1
        <3>2. ASSUME NEW w \in W PROVE w[2].finish \in {f[p].finish : p \in Preds(t)}
            <4>1. PICK p \in Preds(t) : w = <<p, f[p]>>
                OBVIOUS
            <4> QED BY <4>1
        <3> QED BY <3>1, <3>2
    <2>3. f[t] = Answer(t, W)
        <3> HIDE DEF Answer
        <3>1. f[t] = step[<<t, W>>]
            BY <1>3 DEF IsPass
        <3> HIDE DEF W
        <3> QED BY <2>1, <3>1
    <2>4. NextPlanRow(f, t) \in PlanRow
        <3>1. \A p \in Preds(t) : f[p] \in PlanRow
            BY <1>1
        <3> QED BY <3>1, NextPlanRowTyped
    <2>5. Answer(t, W) = IF NextPlanRow(f, t) \in PlanRow THEN NextPlanRow(f, t) ELSE Least
        BY <2>2 DEF NextPlanRow
    <2> HIDE DEF Answer, W
    <2> QED BY <2>3, <2>4, <2>5
<1>5. f = [t \in taskLive |-> NextPlanRow(f, t)]
    BY <1>4
<1> QED BY <1>5, Zenon DEF Planned, NextPlanRow

\* Every row of the baseline is made of times.
LEMMA PlannedTyped ==
    ASSUME ScheduleInv
    PROVE  \A t \in taskLive : Planned[t] \in PlanRow
<1> DEFINE plan == Planned
           U == {t \in taskLive : plan[t] \notin PlanRow}
<1>1. plan = [t \in taskLive |-> NextPlanRow(plan, t)]
    BY PlannedEquation
<1> HIDE DEF plan
<1>2. SUFFICES ASSUME U # {} PROVE FALSE
    BY <1>2 DEF plan
<1>3. PICK t \in U : \A p \in Preds(t) : p \notin U
    BY <1>2, FirstTask
<1>4. \A p \in Preds(t) : plan[p] \in PlanRow
    BY <1>3, TaskGraphFacts
<1>5. NextPlanRow(plan, t) \in PlanRow
    BY <1>4, NextPlanRowTyped
<1> QED BY <1>1, <1>5

-----------------------------------------------------------------------------
(* The backward pass.                                                       *)

\* m is the earliest latest start among S, and d when S is empty.
IsEarliestStart(m, S, latest, fc, d) ==
    /\ m \in Int
    /\ \A s \in S : m <= latest[s] - (fc[s].finish - fc[s].start)
    /\ S = {} => m = d
    /\ S # {} => \E s \in S : m = latest[s] - (fc[s].finish - fc[s].start)

\* The latest finish of t, from those of its successors.
NextLatest(latest, fc, t) ==
    MinOr({latest[s] - (fc[s].finish - fc[s].start) : s \in Succs(t)}, EndOf(fc))

\* The earliest of finitely many latest starts.
LEMMA EarliestStart ==
    ASSUME NEW S, IsFiniteSet(S), NEW latest, NEW fc, NEW d, d \in Int,
           \A s \in S : latest[s] \in Int /\ fc[s].finish \in Int /\ fc[s].start \in Int
    PROVE  IsEarliestStart(MinOr({latest[s] - (fc[s].finish - fc[s].start) : s \in S}, d),
                           S, latest, fc, d)
<1> DEFINE f == [s \in S |-> latest[s] - (fc[s].finish - fc[s].start)]
           M == {latest[s] - (fc[s].finish - fc[s].start) : s \in S}
<1>1. f \in [S -> Int]
    OBVIOUS
<1>2. \A y : y \in M <=> \E s \in S : y = f[s]
    OBVIOUS
<1>3. \A s \in S : f[s] = latest[s] - (fc[s].finish - fc[s].start)
    OBVIOUS
<1> HIDE DEF f, M
<1>4. IsSmallest(MinOr(M, d), S, f, d)
    BY <1>1, <1>2, MinOrFacts
<1> QED BY <1>3, <1>4 DEF M, IsSmallest, IsEarliestStart

\* What bounds a task: its successors, or the end of the plan.
LEMMA NextLatestFacts ==
    ASSUME ScheduleInv, NEW fc, \A t \in taskLive : fc[t] \in Row,
           NEW t \in taskLive, NEW latest, \A s \in Succs(t) : latest[s] \in Int
    PROVE  IsEarliestStart(NextLatest(latest, fc, t), Succs(t), latest, fc, EndOf(fc))
<1>1. IsFiniteSet(Succs(t)) /\ Succs(t) \subseteq taskLive
    BY TaskGraphFacts
<1>2. \A s \in taskLive : fc[s].finish \in Int /\ fc[s].start \in Int
    BY DEF Row
<1>3. EndOf(fc) \in Int
    BY <1>2, EndFacts DEF IsLastFinish
<1>4. \A s \in Succs(t) : latest[s] \in Int /\ fc[s].finish \in Int /\ fc[s].start \in Int
    BY <1>1, <1>2
<1>5. IsEarliestStart(MinOr({latest[s] - (fc[s].finish - fc[s].start) : s \in Succs(t)}, EndOf(fc)),
                      Succs(t), latest, fc, EndOf(fc))
    BY <1>1, <1>3, <1>4, EarliestStart
<1> QED BY <1>5 DEF NextLatest

\* The latest finishes satisfy their recursion.
LEMMA LatestEquation ==
    ASSUME ScheduleInv, NEW fc, \A t \in taskLive : fc[t] \in Row
    PROVE  LatestFinish(fc) = [t \in taskLive |-> NextLatest(LatestFinish(fc), fc, t)]
<1> DEFINE S == [t \in taskLive |-> Succs(t)]
           Answer(t, W) ==
               LET m == MinOr({w[2] - (fc[w[1]].finish - fc[w[1]].start) : w \in W}, EndOf(fc))
               IN  IF m \in Int THEN m ELSE 0
           step == [w \in taskLive \X SUBSET (taskLive \X Int) |-> Answer(w[1], w[2])]
<1>1. /\ \A t \in taskLive : S[t] \subseteq taskLive
      /\ Grounded(taskLive, S)
    BY TaskGraphFacts
<1>2. step \in [taskLive \X SUBSET (taskLive \X Int) -> Int]
    <2>2. \A t, W : Answer(t, W) \in Int
        OBVIOUS
    <2> HIDE DEF Answer
    <2> QED BY <2>2
<1>3. PICK f \in [taskLive -> Int] : IsPass(f, taskLive, S, step)
    <2> HIDE DEF S, step
    <2> QED BY <1>1, <1>2, PassExists, Zenon
<1>4. ASSUME NEW t \in taskLive PROVE f[t] = NextLatest(f, fc, t)
    <2> DEFINE W == {<<s, f[s]>> : s \in Succs(t)}
    <2>1. W \in SUBSET (taskLive \X Int)
        BY <1>1
    <2>2. {w[2] - (fc[w[1]].finish - fc[w[1]].start) : w \in W}
            = {f[s] - (fc[s].finish - fc[s].start) : s \in Succs(t)}
        <3> DEFINE g(w) == w[2] - (fc[w[1]].finish - fc[w[1]].start)
                   h(s) == f[s] - (fc[s].finish - fc[s].start)
        <3>1. ASSUME NEW s \in Succs(t) PROVE h(s) \in {g(w) : w \in W}
            <4>1. <<s, f[s]>> \in W /\ <<s, f[s]>>[2] = f[s] /\ <<s, f[s]>>[1] = s
                OBVIOUS
            <4>2. g(<<s, f[s]>>) = h(s)
                BY <4>1
            <4> HIDE DEF g, h, W
            <4> QED BY <4>1, <4>2
        <3>2. ASSUME NEW w \in W PROVE g(w) \in {h(s) : s \in Succs(t)}
            <4>1. PICK s \in Succs(t) : w = <<s, f[s]>>
                OBVIOUS
            <4>2. g(w) = h(s)
                BY <4>1
            <4> HIDE DEF g, h, W
            <4> QED BY <4>2
        <3>3. {g(w) : w \in W} = {h(s) : s \in Succs(t)}
            <4> HIDE DEF g, h, W
            <4> QED BY <3>1, <3>2
        <3> QED BY <3>3, Zenon
    <2>3. f[t] = Answer(t, W)
        <3> HIDE DEF Answer
        <3>1. f[t] = step[<<t, W>>]
            BY <1>3 DEF IsPass
        <3> HIDE DEF W
        <3> QED BY <2>1, <3>1
    <2>4. NextLatest(f, fc, t) \in Int
        <3>1. \A s \in Succs(t) : f[s] \in Int
            BY <1>1
        <3> QED BY <3>1, NextLatestFacts DEF IsEarliestStart
    <2>5. Answer(t, W) = IF NextLatest(f, fc, t) \in Int THEN NextLatest(f, fc, t) ELSE 0
        BY <2>2 DEF NextLatest
    <2> HIDE DEF Answer, W
    <2> QED BY <2>3, <2>4, <2>5
<1>5. f = [t \in taskLive |-> NextLatest(f, fc, t)]
    BY <1>4
<1> QED BY <1>5, Zenon DEF LatestFinish, NextLatest

\* Every latest finish is a time.
LEMMA LatestTyped ==
    ASSUME ScheduleInv, NEW fc, \A t \in taskLive : fc[t] \in Row
    PROVE  \A t \in taskLive : LatestFinish(fc)[t] \in Int
<1> DEFINE latest == LatestFinish(fc)
           U == {t \in taskLive : latest[t] \notin Int}
<1>1. latest = [t \in taskLive |-> NextLatest(latest, fc, t)]
    BY LatestEquation
<1> HIDE DEF latest
<1>2. SUFFICES ASSUME U # {} PROVE FALSE
    BY <1>2 DEF latest
<1>3. PICK t \in U : \A p \in Succs(t) : p \notin U
    BY <1>2, LastTask
<1>4. \A s \in Succs(t) : latest[s] \in Int
    BY <1>3, TaskGraphFacts
<1>5. NextLatest(latest, fc, t) \in Int
    BY <1>4, NextLatestFacts DEF IsEarliestStart
<1> QED BY <1>1, <1>5

-----------------------------------------------------------------------------
(* The forecast, described by its rows.                                     *)

\* f is the forecast of the plan at the given clock, row by row.
Follows(f, clock, delay) ==
    \A t \in taskLive :
        /\ f[t] \in Row
        /\ IsLastFinish(f[t].driven, Preds(t), f, anchor)
        /\ status[t] = "done" =>
                f[t].start = startedAt[t] /\ f[t].finish = finishedAt[t] + delay[t]
        /\ status[t] \in {"in_progress", "failed"} =>
                /\ f[t].start = startedAt[t]
                /\ f[t].finish = NotBefore(startedAt[t] + duration[t], clock) + delay[t]
        /\ status[t] = "skipped" =>
                f[t].start = f[t].driven /\ f[t].finish = f[t].driven + delay[t]
        /\ status[t] = "not_started" =>
                /\ f[t].start = NotBefore(NotBefore(f[t].driven, fixedStart[t]), clock)
                /\ f[t].finish = f[t].start + duration[t] + delay[t]

\* What compute's forecast pass returns.
LEMMA ForecastFollows ==
    ASSUME ScheduleInv, NEW delay \in [Tasks -> Nat]
    PROVE  Follows(Forecast(delay), now, delay)
<1> DEFINE fc == Forecast(delay)
<1>1. \A t \in taskLive : fc[t] \in Row /\ fc[t] = NextRow(fc, t, delay)
    <2>1. fc = [t \in taskLive |-> NextRow(fc, t, delay)]
        BY ForecastEquation
    <2>2. \A t \in taskLive : fc[t] \in Row
        BY ForecastTyped
    <2> HIDE DEF fc
    <2> QED BY <2>1, <2>2
<1> HIDE DEF fc
<1> SUFFICES ASSUME NEW t \in taskLive
             PROVE  /\ IsLastFinish(fc[t].driven, Preds(t), fc, anchor)
                    /\ status[t] = "done" =>
                            fc[t].start = startedAt[t] /\ fc[t].finish = finishedAt[t] + delay[t]
                    /\ status[t] \in {"in_progress", "failed"} =>
                            /\ fc[t].start = startedAt[t]
                            /\ fc[t].finish = NotBefore(startedAt[t] + duration[t], now) + delay[t]
                    /\ status[t] = "skipped" =>
                            fc[t].start = fc[t].driven /\ fc[t].finish = fc[t].driven + delay[t]
                    /\ status[t] = "not_started" =>
                            /\ fc[t].start = NotBefore(NotBefore(fc[t].driven, fixedStart[t]), now)
                            /\ fc[t].finish = fc[t].start + duration[t] + delay[t]
    BY <1>1 DEF Follows, fc
<1> DEFINE d == MaxOr({fc[p].finish : p \in Preds(t)}, anchor)
<1>2. \A p \in Preds(t) : fc[p].finish \in Int
    BY <1>1, TaskGraphFacts DEF Row
<1>3. IsLastFinish(d, Preds(t), fc, anchor) /\ d \in Int
    BY <1>2, DrivenFacts DEF IsLastFinish
<1>4. /\ fc[t].driven = d
      /\ fc[t].start = ForecastRow(t, d).start
      /\ fc[t].finish = ForecastRow(t, d).finish + delay[t]
    <2>1. NextRow(fc, t, delay) = [start |-> ForecastRow(t, d).start,
                                   finish |-> ForecastRow(t, d).finish + delay[t], driven |-> d]
        BY DEF NextRow
    <2> HIDE DEF d
    <2> QED BY <1>1, <2>1
<1> HIDE DEF d
<1> QED BY <1>3, <1>4, RowFacts

\* compute adds no delay.
LEMMA NoDelayTyped == NoDelay \in [Tasks -> Nat] /\ \A t \in Tasks : NoDelay[t] = 0
BY DEF NoDelay

-----------------------------------------------------------------------------
(* Waiting.                                                                 *)

\* No row finishes earlier at a later clock.  At the first that did, what drives
\* it would be no earlier, and every rule of the table is monotone.
LEMMA WaitingDelaysRows ==
    ASSUME ScheduleInv, NEW f, NEW g, NEW later, later \in Int, now <= later,
           Follows(f, now, NoDelay), Follows(g, later, NoDelay)
    PROVE  \A t \in taskLive : f[t].finish <= g[t].finish
<1> DEFINE U == {t \in taskLive : ~(f[t].finish <= g[t].finish)}
<1>1. SUFFICES ASSUME U # {} PROVE FALSE
    BY <1>1
<1>2. PICK t \in U : \A p \in Preds(t) : p \notin U
    BY <1>1, FirstTask
<1>3. Preds(t) \subseteq taskLive /\ t \in taskLive
    BY <1>2, TaskGraphFacts
<1>4. \A x \in taskLive : f[x] \in Row /\ g[x] \in Row
    BY DEF Follows
<1>5. \A x \in taskLive : f[x].finish \in Int /\ g[x].finish \in Int
                          /\ f[x].driven \in Int /\ g[x].driven \in Int
    BY <1>4 DEF Row
<1>6. IsLastFinish(f[t].driven, Preds(t), f, anchor)
      /\ IsLastFinish(g[t].driven, Preds(t), g, anchor)
    BY <1>3 DEF Follows
<1>7. f[t].driven <= g[t].driven
    <2>1. CASE Preds(t) = {}
        BY <1>3, <1>5, <1>6, <2>1 DEF IsLastFinish
    <2>2. CASE Preds(t) # {}
        <3>1. PICK p \in Preds(t) : f[t].driven = f[p].finish
            BY <1>6, <2>2 DEF IsLastFinish
        <3>2. f[p].finish <= g[p].finish /\ g[p].finish <= g[t].driven
            BY <1>2, <1>3, <1>6 DEF IsLastFinish
        <3> QED BY <1>3, <1>5, <3>1, <3>2
    <2> QED BY <2>1, <2>2
<1>8. NoDelay[t] = 0
    BY <1>3, TaskFacts, NoDelayTyped
<1> USE TaskFacts, ScheduleAssumption
<1>9. CASE status[t] = "done"
    BY <1>2, <1>3, <1>5, <1>9 DEF Follows
<1>10. CASE status[t] \in {"in_progress", "failed"}
    <2>1. /\ f[t].finish = NotBefore(startedAt[t] + duration[t], now) + 0
          /\ g[t].finish = NotBefore(startedAt[t] + duration[t], later) + 0
        BY <1>3, <1>8, <1>10 DEF Follows
    <2>2. startedAt[t] \in Int /\ duration[t] \in Int /\ now \in Int
        BY <1>3, <1>10
    <2>3. f[t].finish <= g[t].finish
        BY <2>1, <2>2 DEF NotBefore
    <2> QED BY <1>2, <2>3
<1>11. CASE status[t] = "skipped"
    <2>1. f[t].finish = f[t].driven + 0 /\ g[t].finish = g[t].driven + 0
        BY <1>3, <1>8, <1>11 DEF Follows
    <2> QED BY <1>2, <1>3, <1>5, <1>7, <2>1
<1>12. CASE status[t] = "not_started"
    <2>1. /\ f[t].finish = NotBefore(NotBefore(f[t].driven, fixedStart[t]), now) + duration[t] + 0
          /\ g[t].finish = NotBefore(NotBefore(g[t].driven, fixedStart[t]), later) + duration[t] + 0
        BY <1>3, <1>8, <1>12 DEF Follows
    <2>2. fixedStart[t] \in Int \cup {None} /\ duration[t] \in Int /\ now \in Int
        BY <1>3
    <2>3. f[t].finish <= g[t].finish
        BY <1>3, <1>5, <1>7, <2>1, <2>2 DEF NotBefore
    <2> QED BY <1>2, <2>3
<1> QED BY <1>3, <1>9, <1>10, <1>11, <1>12 DEF Statuses

\* The forecast as computed now.
CurrentForecast == Follows(Forecast(NoDelay), now, NoDelay)

\* Its end.
CurrentEnd == IsLastFinish(EndOf(Forecast(NoDelay)), taskLive, Forecast(NoDelay), anchor)

\* Both are what the rows say.
LEMMA ForecastNow == ScheduleInv => CurrentForecast /\ CurrentEnd
<1> SUFFICES ASSUME ScheduleInv PROVE CurrentForecast /\ CurrentEnd
    OBVIOUS
<1>1. CurrentForecast
    BY NoDelayTyped, ForecastFollows DEF CurrentForecast
<1>2. \A t \in taskLive : Forecast(NoDelay)[t].finish \in Int
    BY <1>1 DEF CurrentForecast, Follows, Row
<1> QED BY <1>1, <1>2, EndFacts DEF CurrentEnd

\* Looking at a plan later, with no report and no edit in between, never shows
\* an earlier end (compute's forecast pass against the clock): remaining minutes
\* are never credited for time in which nothing was reported.
THEOREM WaitingNeverHelpsHolds == ScheduleSpec => WaitingNeverHelps
<1>1. ASSUME ScheduleInv, ScheduleInv', Advance
      PROVE  EndOf(Forecast(NoDelay))' >= EndOf(Forecast(NoDelay))
    <2> DEFINE f == Forecast(NoDelay)
               g == Forecast(NoDelay)'
    <2>1. CurrentForecast /\ CurrentEnd
        BY <1>1, ForecastNow
    <2>2. CurrentForecast' /\ CurrentEnd'
        <3>1. ScheduleInv' => CurrentForecast' /\ CurrentEnd'
            BY ForecastNow, PTL
        <3> QED BY <1>1, <3>1
    <2>3. now \in Int /\ now' = now + 1
        BY <1>1 DEF Advance, Tick, ScheduleInv, IInv, TypeOK, Time
    <2>4. UNCHANGED <<taskPlan, taskLive, status, startedAt, finishedAt,
                      deps, anchor, duration, fixedStart>>
        BY <1>1 DEF Advance, Tick, planning, rowVars, execVars
    <2>5. \A t : Preds(t)' = Preds(t)
        BY <2>4 DEF Preds, LiveEdges, LiveTasks
    <2>6. Follows(f, now, NoDelay)
        BY <2>1 DEF CurrentForecast
    <2>7. Follows(g, now', NoDelay)
        BY <2>2, <2>4, <2>5 DEF CurrentForecast, Follows
    <2>8. IsLastFinish(EndOf(f), taskLive, f, anchor)
        BY <2>1 DEF CurrentEnd
    <2>9. IsLastFinish(EndOf(Forecast(NoDelay))', taskLive, g, anchor)
        BY <2>2, <2>4 DEF CurrentEnd
    <2>10. \A t \in taskLive : f[t].finish <= g[t].finish
        <3> HIDE DEF f, g
        <3> QED BY <1>1, <2>3, <2>6, <2>7, WaitingDelaysRows
    <2>11. \A t \in taskLive : f[t].finish \in Int /\ g[t].finish \in Int
        BY <2>6, <2>7 DEF Follows, Row
    <2>12. PICK e : e = EndOf(Forecast(NoDelay))'
        OBVIOUS
    <2>13. IsLastFinish(e, taskLive, g, anchor)
        BY <2>9, <2>12
    <2> HIDE DEF f, g
    <2>14. e >= EndOf(f)
        <3>1. e \in Int /\ EndOf(f) \in Int
            BY <2>8, <2>13 DEF IsLastFinish
        <3>2. CASE taskLive = {}
            BY <2>8, <2>13, <3>1, <3>2 DEF IsLastFinish
        <3>3. CASE taskLive # {}
            <4>1. PICK t \in taskLive : EndOf(f) = f[t].finish
                BY <2>8, <3>3 DEF IsLastFinish
            <4>2. g[t].finish <= e
                BY <2>13 DEF IsLastFinish
            <4> QED BY <2>10, <2>11, <3>1, <4>1, <4>2
        <3> QED BY <3>2, <3>3
    <2> QED BY <2>12, <2>14 DEF f
<1> QED BY <1>1, ScheduleInvHolds, PTL DEF WaitingNeverHelps, ScheduleSpec

-----------------------------------------------------------------------------
(* Before the anchor.                                                       *)

\* The baseline, row by row.
LEMMA PlannedRules ==
    ASSUME ScheduleInv, NEW t \in taskLive
    PROVE  /\ Planned[t] \in PlanRow
           /\ \E d \in Int :
                /\ IsLastFinish(d, Preds(t), Planned, anchor)
                /\ Planned[t].start = NotBefore(d, fixedStart[t])
                /\ Planned[t].finish = Planned[t].start + duration[t]
<1> DEFINE plan == Planned
           d == MaxOr({plan[p].finish : p \in Preds(t)}, anchor)
<1>1. \A x \in taskLive : plan[x] \in PlanRow /\ plan[x] = NextPlanRow(plan, x)
    <2>1. plan = [x \in taskLive |-> NextPlanRow(plan, x)]
        BY PlannedEquation
    <2>2. \A x \in taskLive : plan[x] \in PlanRow
        BY PlannedTyped
    <2> HIDE DEF plan
    <2> QED BY <2>1, <2>2
<1> HIDE DEF plan
<1>2. \A p \in Preds(t) : plan[p].finish \in Int
    BY <1>1, TaskGraphFacts DEF PlanRow
<1>3. IsLastFinish(d, Preds(t), plan, anchor) /\ d \in Int
    BY <1>2, DrivenFacts DEF IsLastFinish
<1>4. plan[t].start = NotBefore(d, fixedStart[t]) /\ plan[t].finish = plan[t].start + duration[t]
    <2>1. NextPlanRow(plan, t) = [start |-> NotBefore(d, fixedStart[t]),
                                  finish |-> NotBefore(d, fixedStart[t]) + duration[t]]
        BY DEF NextPlanRow
    <2> HIDE DEF d
    <2> QED BY <1>1, <2>1
<1> HIDE DEF d
<1> QED BY <1>1, <1>3, <1>4 DEF plan

\* Equal rows have one last finish.
LEMMA LastFinishUnique ==
    ASSUME NEW P, NEW f, NEW g, NEW a, NEW b, NEW d,
           \A p \in P : f[p].finish = g[p].finish /\ g[p].finish \in Int,
           IsLastFinish(a, P, f, d), IsLastFinish(b, P, g, d)
    PROVE  a = b
<1>1. a \in Int /\ b \in Int
    BY DEF IsLastFinish
<1>2. CASE P = {}
    BY <1>2 DEF IsLastFinish
<1>3. CASE P # {}
    <2>1. PICK p \in P : a = f[p].finish
        BY <1>3 DEF IsLastFinish
    <2>2. PICK q \in P : b = g[q].finish
        BY <1>3 DEF IsLastFinish
    <2>3. g[p].finish <= b /\ f[q].finish <= a
        BY DEF IsLastFinish
    <2> QED BY <1>1, <2>1, <2>2, <2>3
<1> QED BY <1>2, <1>3

\* Before the anchor, with nothing begun, the clock holds no task back: every
\* row starts at or after the anchor.
LEMMA PlanIsForecast ==
    ASSUME ScheduleInv, now <= anchor, \A t \in taskLive : status[t] = "not_started"
    PROVE  \A t \in taskLive : /\ Forecast(NoDelay)[t].start = Planned[t].start
                               /\ Forecast(NoDelay)[t].finish = Planned[t].finish
<1> DEFINE f == Forecast(NoDelay)
           g == Planned
           Same(t) == /\ f[t].start = g[t].start /\ f[t].finish = g[t].finish
                      /\ g[t].finish >= anchor
           U == {t \in taskLive : ~Same(t)}
<1>1. Follows(f, now, NoDelay)
    BY NoDelayTyped, ForecastFollows
<1>2. SUFFICES ASSUME U # {} PROVE FALSE
    BY <1>2
<1>3. PICK t \in U : \A p \in Preds(t) : p \notin U
    BY <1>2, FirstTask
<1>4. Preds(t) \subseteq taskLive /\ t \in taskLive
    BY <1>3, TaskGraphFacts
<1>5. PICK d \in Int : /\ IsLastFinish(d, Preds(t), g, anchor)
                       /\ g[t].start = NotBefore(d, fixedStart[t])
                       /\ g[t].finish = g[t].start + duration[t]
    BY <1>4, PlannedRules
<1>6. \A p \in taskLive : g[p].finish \in Int
    BY PlannedRules DEF PlanRow
<1> HIDE DEF f, g
<1>7. \A p \in Preds(t) : f[p].finish = g[p].finish /\ g[p].finish \in Int /\ g[p].finish >= anchor
    BY <1>3, <1>4, <1>6
<1>8. IsLastFinish(f[t].driven, Preds(t), f, anchor)
    BY <1>1, <1>4 DEF Follows
<1>9. f[t].driven = d
    BY <1>5, <1>7, <1>8, LastFinishUnique
<1>10. now \in Int /\ anchor \in Int /\ duration[t] \in Nat /\ fixedStart[t] \in Int \cup {None}
       /\ NoDelay[t] = 0
    BY <1>4, TaskFacts, NoDelayTyped
<1>11. d >= anchor
    BY <1>5, <1>7, <1>10 DEF IsLastFinish
<1>12. /\ f[t].start = NotBefore(NotBefore(d, fixedStart[t]), now)
       /\ f[t].finish = f[t].start + duration[t] + 0
    BY <1>1, <1>4, <1>9, <1>10 DEF Follows
<1>13. NotBefore(d, fixedStart[t]) \in Int /\ NotBefore(d, fixedStart[t]) >= anchor
    BY <1>10, <1>11 DEF NotBefore
<1>14. NotBefore(NotBefore(d, fixedStart[t]), now) = NotBefore(d, fixedStart[t])
    BY <1>10, <1>13, ScheduleAssumption DEF NotBefore
<1> QED BY <1>3, <1>5, <1>10, <1>12, <1>13, <1>14

\* So nothing is late and the plan has not slipped.
LEMMA OnPlanInv == ScheduleInv => OnPlanBeforeAnchor
<1> SUFFICES ASSUME ScheduleInv, now <= anchor, \A t \in taskLive : status[t] = "not_started"
             PROVE  /\ \A t \in taskLive : /\ Forecast(NoDelay)[t].start = Planned[t].start
                                           /\ Forecast(NoDelay)[t].finish = Planned[t].finish
                                           /\ ~LateStart(t)
                    /\ SlipMinutes = 0
    BY DEF OnPlanBeforeAnchor
<1> DEFINE f == Forecast(NoDelay)
           g == Planned
<1>1. \A t \in taskLive : f[t].start = g[t].start /\ f[t].finish = g[t].finish
    BY PlanIsForecast
<1>2. \A t \in taskLive : g[t].start \in Int /\ g[t].finish \in Int
    BY PlannedRules DEF PlanRow
<1>3. \A t \in taskLive : ~LateStart(t)
    BY <1>1, <1>2 DEF LateStart
<1>4. SlipMinutes = 0
    <2> HIDE DEF f, g
    <2>1. IsLastFinish(EndOf(f), taskLive, f, anchor)
        BY <1>1, <1>2, EndFacts
    <2>2. IsLastFinish(EndOf(g), taskLive, g, anchor)
        BY <1>2, EndFacts
    <2>3. EndOf(f) = EndOf(g) /\ EndOf(g) \in Int
        BY <1>1, <1>2, <2>1, <2>2, LastFinishUnique DEF IsLastFinish
    <2>4. {EndOf(f) - EndOf(g), 0} = {0}
        BY <2>3
    <2>5. Max({0}) = 0
        BY DEF Max
    <2> QED BY <2>4, <2>5 DEF SlipMinutes, f, g
<1> QED BY <1>1, <1>3, <1>4

\* compute's two passes agree before the anchor: as long as nothing has begun
\* and the anchor has not passed, the forecast is the plan row by row, no task is
\* late and slip_minutes is 0, whatever was edited before.
THEOREM OnPlanBeforeAnchorHolds == ScheduleSpec => []OnPlanBeforeAnchor
BY ScheduleInvHolds, OnPlanInv, PTL

-----------------------------------------------------------------------------
(* The critical path.                                                       *)

\* Work of the task remains.
Open(t) == status[t] \notin SATISFIED_STATUSES

\* No task was skipped before its predecessors were done or skipped.
NothingSkippedAhead == \A t \in taskLive : status[t] = "skipped" => PredsSatisfied(t)

\* Then whatever comes after a task with work left has not begun.  A task that
\* has begun had satisfied predecessors, and they are not reopened under it.
LEMMA OpenHoldsBack ==
    ASSUME ScheduleInv, NothingSkippedAhead, NEW t \in taskLive, Open(t), NEW s \in Succs(t)
    PROVE  s \in taskLive /\ status[s] = "not_started" /\ Open(s) /\ t \in Preds(s)
<1>1. s \in taskLive /\ t \in Preds(s)
    BY TaskGraphFacts
<1>2. status[s] # "skipped"
    BY <1>1 DEF NothingSkippedAhead, PredsSatisfied, Open
<1>3. <<s, t>> \in deps
    BY <1>1 DEF Preds, LiveEdges
<1>4. status[s] \notin Begun
    BY <1>1, <1>3 DEF ScheduleInv, IInv, BegunTasksRest, Open
<1>5. status[s] \in Statuses
    BY <1>1, TaskFacts
<1> QED BY <1>1, <1>2, <1>4, <1>5 DEF Statuses, Begun, Open, SATISFIED_STATUSES

\* The backward pass, row by row.
LEMMA LatestRules ==
    ASSUME ScheduleInv, NEW fc, \A t \in taskLive : fc[t] \in Row
    PROVE  \A t \in taskLive :
                /\ LatestFinish(fc)[t] \in Int
                /\ IsEarliestStart(LatestFinish(fc)[t], Succs(t), LatestFinish(fc), fc, EndOf(fc))
<1> DEFINE latest == LatestFinish(fc)
<1>1. latest = [t \in taskLive |-> NextLatest(latest, fc, t)]
    BY LatestEquation
<1>2. \A t \in taskLive : latest[t] \in Int
    BY LatestTyped
<1> HIDE DEF latest
<1>3. ASSUME NEW t \in taskLive
      PROVE  IsEarliestStart(latest[t], Succs(t), latest, fc, EndOf(fc))
    <2>1. \A s \in Succs(t) : latest[s] \in Int
        BY <1>2, TaskGraphFacts
    <2>2. latest[t] = NextLatest(latest, fc, t)
        BY <1>1
    <2>3. IsEarliestStart(NextLatest(latest, fc, t), Succs(t), latest, fc, EndOf(fc))
        BY <2>1, NextLatestFacts
    <2> QED BY <2>2, <2>3
<1> QED BY <1>2, <1>3 DEF latest

\* A task that has not begun starts after its predecessors, its fixed start and
\* the clock.
LEMMA WaitingRow ==
    ASSUME ScheduleInv, NEW f, NEW delay, Follows(f, now, delay),
           NEW t \in taskLive, status[t] = "not_started"
    PROVE  /\ f[t].start \in Int /\ f[t].start >= f[t].driven /\ f[t].start >= now
           /\ fixedStart[t] # None => f[t].start >= fixedStart[t]
           /\ \A p \in Preds(t) : f[p].finish \in Int /\ f[p].finish <= f[t].start
<1>1. f[t] \in Row /\ IsLastFinish(f[t].driven, Preds(t), f, anchor)
      /\ f[t].start = NotBefore(NotBefore(f[t].driven, fixedStart[t]), now)
    BY DEF Follows
<1>2. f[t].driven \in Int /\ f[t].start \in Int
    BY <1>1 DEF Row
<1>3. now \in Int /\ fixedStart[t] \in Int \cup {None}
    BY TaskFacts
<1>4. f[t].start >= f[t].driven /\ f[t].start >= now
      /\ (fixedStart[t] # None => f[t].start >= fixedStart[t])
    BY <1>1, <1>2, <1>3, ScheduleAssumption DEF NotBefore
<1>5. \A p \in Preds(t) : f[p].finish \in Int
    BY TaskGraphFacts DEF Follows, Row
<1>6. \A p \in Preds(t) : f[p].finish <= f[t].driven
    BY <1>1 DEF IsLastFinish
<1> QED BY <1>2, <1>4, <1>5, <1>6

\* No task with work left is forecast to finish after its latest finish.
LEMMA FloatIsNotNegative ==
    ASSUME ScheduleInv, NothingSkippedAhead, NEW f, Follows(f, now, NoDelay),
           NEW t \in taskLive, Open(t)
    PROVE  f[t].finish <= LatestFinish(f)[t] /\ LatestFinish(f)[t] <= EndOf(f)
<1> DEFINE latest == LatestFinish(f)
           U == {x \in taskLive : Open(x) /\ ~(f[x].finish <= latest[x] /\ latest[x] <= EndOf(f))}
<1>1. \A x \in taskLive : f[x] \in Row
    BY DEF Follows
<1>2. \A x \in taskLive : f[x].finish \in Int /\ f[x].start \in Int
    BY <1>1 DEF Row
<1>3. EndOf(f) \in Int /\ \A x \in taskLive : f[x].finish <= EndOf(f)
    BY <1>2, EndFacts DEF IsLastFinish
<1>4. \A x \in taskLive : latest[x] \in Int
                          /\ IsEarliestStart(latest[x], Succs(x), latest, f, EndOf(f))
    BY <1>1, LatestRules
<1> HIDE DEF latest
<1>5. SUFFICES ASSUME U # {} PROVE FALSE
    BY <1>5 DEF latest
<1>6. PICK x \in U : \A s \in Succs(x) : s \notin U
    BY <1>5, LastTask
<1>7. CASE Succs(x) = {}
    <2>1. latest[x] = EndOf(f)
        BY <1>4, <1>6, <1>7 DEF IsEarliestStart
    <2> QED BY <1>2, <1>3, <1>6, <2>1
<1>8. CASE Succs(x) # {}
    <2>1. PICK s \in Succs(x) : latest[x] = latest[s] - (f[s].finish - f[s].start)
        BY <1>4, <1>6, <1>8 DEF IsEarliestStart
    <2>2. s \in taskLive /\ status[s] = "not_started" /\ Open(s) /\ x \in Preds(s)
        BY <1>6, OpenHoldsBack
    <2>3. f[s].finish <= latest[s] /\ latest[s] <= EndOf(f)
        BY <1>6, <2>2
    <2>4. f[x].finish <= f[s].start
        BY <2>2, WaitingRow
    <2>5. f[s].finish = f[s].start + duration[s] + NoDelay[s] /\ duration[s] \in Nat
          /\ NoDelay[s] = 0
        BY <2>2, TaskFacts, NoDelayTyped DEF Follows
    <2> QED BY <1>2, <1>3, <1>4, <1>6, <2>1, <2>2, <2>3, <2>4, <2>5
<1> QED BY <1>7, <1>8

\* Rows that are driven alike differ by their own delays.
LEMMA RowsAgree ==
    ASSUME ScheduleInv, NEW f, NEW g, NEW a \in [Tasks -> Nat], NEW b \in [Tasks -> Nat],
           Follows(f, now, a), Follows(g, now, b),
           NEW t \in taskLive, \A p \in Preds(t) : f[p].finish = g[p].finish
    PROVE  g[t].finish = f[t].finish + b[t] - a[t]
<1>1. t \in Tasks /\ a[t] \in Nat /\ b[t] \in Nat /\ status[t] \in Statuses
    BY TaskFacts
<1>2. \A p \in Preds(t) : g[p].finish \in Int
    BY TaskGraphFacts DEF Follows, Row
<1>3. IsLastFinish(f[t].driven, Preds(t), f, anchor)
      /\ IsLastFinish(g[t].driven, Preds(t), g, anchor)
    BY DEF Follows
<1>4. f[t].driven = g[t].driven
    BY <1>2, <1>3, LastFinishUnique
<1>5. f[t].driven \in Int /\ f[t].start \in Int /\ f[t].finish \in Int
      /\ g[t].finish \in Int /\ g[t].start \in Int
    BY DEF Follows, Row
<1>6. CASE status[t] = "done"
    <2>1. f[t].finish = finishedAt[t] + a[t] /\ g[t].finish = finishedAt[t] + b[t]
          /\ finishedAt[t] \in Int
        BY <1>6, TaskFacts DEF Follows
    <2> QED BY <1>1, <2>1
<1>7. CASE status[t] \in {"in_progress", "failed"}
    <2> DEFINE e == NotBefore(startedAt[t] + duration[t], now)
    <2>1. f[t].finish = e + a[t] /\ g[t].finish = e + b[t]
        BY <1>7 DEF Follows
    <2>2. e \in Int
        BY <1>7, TaskFacts DEF NotBefore
    <2> HIDE DEF e
    <2> QED BY <1>1, <2>1, <2>2
<1>8. CASE status[t] = "skipped"
    <2>1. f[t].finish = f[t].driven + a[t] /\ g[t].finish = g[t].driven + b[t]
        BY <1>8 DEF Follows
    <2> QED BY <1>1, <1>4, <1>5, <2>1
<1>9. CASE status[t] = "not_started"
    <2>1. f[t].start = g[t].start
        BY <1>4, <1>9 DEF Follows
    <2>2. f[t].finish = f[t].start + duration[t] + a[t]
          /\ g[t].finish = g[t].start + duration[t] + b[t]
          /\ duration[t] \in Nat
        BY <1>9, TaskFacts DEF Follows
    <2> QED BY <1>1, <1>5, <2>1, <2>2
<1> QED BY <1>1, <1>6, <1>7, <1>8, <1>9 DEF Statuses

\* One minute more for t, none for the others.
LEMMA DelayTyped ==
    ASSUME NEW t \in Tasks
    PROVE  Delay(t) \in [Tasks -> Nat] /\ \A x \in Tasks : Delay(t)[x] = IF x = t THEN 1 ELSE 0
BY DEF Delay, NoDelay

\* It moves t itself by a minute, since nothing before t moves.
LEMMA DelayedByOne ==
    ASSUME ScheduleInv, NEW t \in taskLive, NEW f, NEW g,
           Follows(f, now, NoDelay), Follows(g, now, Delay(t))
    PROVE  g[t].finish = f[t].finish + 1
<1> DEFINE U == {x \in taskLive : g[x].finish # f[x].finish}
<1>1. t \in Tasks /\ taskLive \subseteq Tasks
    BY TaskFacts, TaskGraphFacts
<1>2. /\ NoDelay \in [Tasks -> Nat] /\ Delay(t) \in [Tasks -> Nat]
      /\ \A x \in Tasks : NoDelay[x] = 0 /\ Delay(t)[x] = IF x = t THEN 1 ELSE 0
    BY <1>1, NoDelayTyped, DelayTyped
<1>3. \A x \in taskLive : f[x].finish \in Int
    BY DEF Follows, Row
<1>4. \A p \in Preds(t) : g[p].finish = f[p].finish
    <2>1. CASE U = {}
        BY <2>1, TaskGraphFacts
    <2>2. CASE U # {}
        <3>1. PICK x \in U : \A p \in Preds(x) : p \notin U
            BY <2>2, FirstTask
        <3>2. \A p \in Preds(x) : f[p].finish = g[p].finish
            BY <3>1, TaskGraphFacts
        <3>3. g[x].finish = f[x].finish + Delay(t)[x] - NoDelay[x]
            BY <1>2, <3>1, <3>2, RowsAgree
        <3>4. x = t
            BY <1>1, <1>2, <1>3, <3>1, <3>3
        <3> QED BY <3>2, <3>4
    <2> QED BY <2>1, <2>2
<1>5. g[t].finish = f[t].finish + Delay(t)[t] - NoDelay[t]
    BY <1>2, <1>4, RowsAgree
<1> QED BY <1>1, <1>2, <1>3, <1>5

\* Without float the minute is handed on: the last task that receives it without
\* float is one that ends the plan.
LEMMA NoFloatMovesEnd ==
    ASSUME ScheduleInv, NothingSkippedAhead, NEW t \in taskLive, Open(t), NEW f, NEW g,
           Follows(f, now, NoDelay), Follows(g, now, Delay(t)),
           LatestFinish(f)[t] = f[t].finish
    PROVE  EndOf(g) > EndOf(f)
<1> DEFINE latest == LatestFinish(f)
           U == {x \in taskLive : Open(x) /\ latest[x] = f[x].finish
                                  /\ g[x].finish >= f[x].finish + 1}
<1>1. \A x \in taskLive : f[x] \in Row /\ g[x] \in Row
    BY DEF Follows
<1>2. \A x \in taskLive : f[x].finish \in Int /\ f[x].start \in Int /\ g[x].finish \in Int
                          /\ g[x].start \in Int
    BY <1>1 DEF Row
<1>3. EndOf(f) \in Int /\ EndOf(g) \in Int /\ \A x \in taskLive : g[x].finish <= EndOf(g)
    BY <1>2, EndFacts DEF IsLastFinish
<1>4. \A x \in taskLive : latest[x] \in Int
                          /\ IsEarliestStart(latest[x], Succs(x), latest, f, EndOf(f))
    BY <1>1, LatestRules
<1>5. g[t].finish = f[t].finish + 1
    BY DelayedByOne
<1>6. \A x \in taskLive : Open(x) => f[x].finish <= latest[x]
    BY FloatIsNotNegative
<1> HIDE DEF latest
<1>7. t \in U
    BY <1>2, <1>5 DEF latest
<1>8. PICK x \in U : \A s \in Succs(x) : s \notin U
    BY <1>7, LastTask
<1>9. CASE Succs(x) = {}
    <2>1. latest[x] = EndOf(f)
        BY <1>4, <1>8, <1>9 DEF IsEarliestStart
    <2>2. g[x].finish <= EndOf(g)
        BY <1>3, <1>8
    <2> QED BY <1>2, <1>3, <1>8, <2>1, <2>2
<1>10. CASE Succs(x) # {}
    <2>1. PICK s \in Succs(x) : latest[x] = latest[s] - (f[s].finish - f[s].start)
        BY <1>4, <1>8, <1>10 DEF IsEarliestStart
    <2>2. s \in taskLive /\ status[s] = "not_started" /\ Open(s) /\ x \in Preds(s)
        BY <1>8, OpenHoldsBack
    <2>3. f[s].finish <= latest[s]
        BY <1>6, <2>2
    <2>4. f[x].finish <= f[s].start /\ g[x].finish <= g[s].start
        BY <2>2, WaitingRow
    <2>5. f[s].finish = f[s].start + duration[s] + NoDelay[s]
          /\ g[s].finish = g[s].start + duration[s] + Delay(t)[s]
        BY <2>2 DEF Follows
    <2>6. duration[s] \in Nat /\ NoDelay[s] = 0 /\ Delay(t)[s] \in Nat
        BY <2>2, TaskFacts, NoDelayTyped, DelayTyped
    <2>7. latest[s] = f[s].finish /\ f[s].start = f[x].finish
        BY <1>2, <1>4, <1>8, <2>1, <2>2, <2>3, <2>4
    <2>8. g[s].finish >= f[s].finish + 1
        BY <1>2, <1>8, <2>2, <2>4, <2>5, <2>6, <2>7
    <2>9. s \in U
        BY <2>2, <2>7, <2>8
    <2> QED BY <1>8, <2>9
<1> QED BY <1>9, <1>10

\* With float no task passes its latest finish: the first that did would have a
\* predecessor that passed its own.
LEMMA FloatAbsorbsDelay ==
    ASSUME ScheduleInv, NothingSkippedAhead, NEW t \in taskLive, Open(t), NEW f, NEW g,
           Follows(f, now, NoDelay), Follows(g, now, Delay(t)),
           LatestFinish(f)[t] # f[t].finish
    PROVE  EndOf(g) <= EndOf(f)
<1> DEFINE latest == LatestFinish(f)
           Fits(x) == IF Open(x) THEN g[x].finish <= latest[x] ELSE g[x].finish = f[x].finish
           U == {x \in taskLive : ~Fits(x)}
<1>1. \A x \in taskLive : f[x] \in Row /\ g[x] \in Row
    BY DEF Follows
<1>2. \A x \in taskLive : /\ f[x].finish \in Int /\ f[x].start \in Int /\ f[x].driven \in Int
                          /\ g[x].finish \in Int /\ g[x].start \in Int /\ g[x].driven \in Int
    BY <1>1 DEF Row
<1>3. /\ EndOf(f) \in Int /\ \A x \in taskLive : f[x].finish <= EndOf(f)
      /\ EndOf(g) \in Int /\ \E x \in taskLive : EndOf(g) = g[x].finish
    BY <1>2, EndFacts DEF IsLastFinish
<1>4. \A x \in taskLive : latest[x] \in Int
                          /\ IsEarliestStart(latest[x], Succs(x), latest, f, EndOf(f))
    BY <1>1, LatestRules
<1>5. g[t].finish = f[t].finish + 1
    BY DelayedByOne
<1>6. \A x \in taskLive : Open(x) => f[x].finish <= latest[x] /\ latest[x] <= EndOf(f)
    BY FloatIsNotNegative
<1>7. latest[t] # f[t].finish
    OBVIOUS
<1> HIDE DEF latest
<1>8. U = {}
    <2>1. SUFFICES ASSUME U # {} PROVE FALSE
        BY <2>1
    <2>2. PICK x \in U : \A p \in Preds(x) : p \notin U
        BY <2>1, FirstTask
    <2>3. x \in taskLive /\ x \in Tasks /\ status[x] \in Statuses /\ duration[x] \in Nat /\ ~Fits(x)
        BY <2>2, TaskFacts
    <2>4. Preds(x) \subseteq taskLive /\ \A p \in Preds(x) : Fits(p) /\ x \in Succs(p)
        BY <2>2, <2>3, TaskGraphFacts
    <2>5. x # t
        BY <1>2, <1>4, <1>5, <1>6, <1>7, <2>3
    <2>6. NoDelay \in [Tasks -> Nat] /\ Delay(t) \in [Tasks -> Nat] /\ NoDelay[x] = 0
          /\ Delay(t)[x] = 0
        BY <2>3, <2>5, NoDelayTyped, DelayTyped, TaskFacts
    <2>7. CASE status[x] \in SATISFIED_STATUSES
        <3>1. ~Open(x)
            BY <2>7 DEF Open
        <3>2. CASE status[x] = "done"
            <4>1. f[x].finish = finishedAt[x] + NoDelay[x]
                  /\ g[x].finish = finishedAt[x] + Delay(t)[x]
                BY <2>3, <3>2 DEF Follows
            <4> QED BY <2>3, <2>6, <3>1, <4>1
        <3>3. CASE status[x] = "skipped"
            <4>1. \A p \in Preds(x) : ~Open(p)
                BY <2>3, <3>3 DEF NothingSkippedAhead, PredsSatisfied, Open
            <4>2. \A p \in Preds(x) : f[p].finish = g[p].finish
                BY <2>4, <4>1
            <4>3. g[x].finish = f[x].finish + Delay(t)[x] - NoDelay[x]
                BY <2>3, <2>6, <4>2, RowsAgree
            <4> QED BY <1>2, <2>3, <2>6, <3>1, <4>3
        <3> QED BY <2>7, <3>2, <3>3 DEF SATISFIED_STATUSES
    <2>8. CASE status[x] \in {"in_progress", "failed"}
        <3>1. Open(x)
            BY <2>8 DEF Open, SATISFIED_STATUSES
        <3>2. /\ f[x].finish = NotBefore(startedAt[x] + duration[x], now) + NoDelay[x]
              /\ g[x].finish = NotBefore(startedAt[x] + duration[x], now) + Delay(t)[x]
            BY <2>3, <2>8 DEF Follows
        <3>3. f[x].finish = g[x].finish
            BY <2>6, <3>2
        <3> QED BY <1>6, <2>3, <3>1, <3>3
    <2>9. CASE status[x] = "not_started"
        <3>1. Open(x)
            BY <2>9 DEF Open, SATISFIED_STATUSES
        <3>2. f[x].finish <= latest[x]
            BY <1>6, <2>3, <3>1
        <3>3. /\ f[x].start >= f[x].driven /\ f[x].start >= now
              /\ fixedStart[x] # None => f[x].start >= fixedStart[x]
              /\ \A p \in Preds(x) : f[p].finish <= f[x].start
            BY <2>3, <2>9, WaitingRow
        <3>4. f[x].finish = f[x].start + duration[x] + NoDelay[x]
              /\ g[x].finish = g[x].start + duration[x] + Delay(t)[x]
              /\ g[x].start = NotBefore(NotBefore(g[x].driven, fixedStart[x]), now)
            BY <2>3, <2>9 DEF Follows
        <3>5. f[x].start <= latest[x] - duration[x]
            BY <1>2, <1>4, <2>3, <2>6, <3>2, <3>4
        <3>6. ASSUME NEW p \in Preds(x) PROVE g[p].finish <= latest[x] - duration[x]
            <4>1. p \in taskLive /\ Fits(p) /\ x \in Succs(p)
                BY <2>4
            <4>2. CASE Open(p)
                <5>1. latest[p] <= latest[x] - (f[x].finish - f[x].start)
                    BY <1>4, <4>1 DEF IsEarliestStart
                <5> QED BY <1>2, <1>4, <2>3, <2>6, <3>4, <4>1, <4>2, <5>1
            <4>3. CASE ~Open(p)
                BY <1>2, <1>4, <2>3, <3>3, <3>5, <4>1, <4>3
            <4> QED BY <4>2, <4>3
        <3>7. /\ IsLastFinish(g[x].driven, Preds(x), g, anchor)
              /\ IsLastFinish(f[x].driven, Preds(x), f, anchor)
            BY <2>3 DEF Follows
        <3>8. g[x].driven <= latest[x] - duration[x]
            <4>1. CASE Preds(x) = {}
                <5>1. g[x].driven = f[x].driven
                    BY <3>7, <4>1 DEF IsLastFinish
                <5> QED BY <1>2, <1>4, <2>3, <3>3, <3>5, <5>1
            <4>2. CASE Preds(x) # {}
                BY <3>6, <3>7, <4>2 DEF IsLastFinish
            <4> QED BY <4>1, <4>2
        <3>9. now \in Int /\ fixedStart[x] \in Int \cup {None}
            BY <2>3, TaskFacts
        <3>10. g[x].start <= latest[x] - duration[x]
            BY <1>2, <1>4, <2>3, <3>3, <3>4, <3>5, <3>8, <3>9 DEF NotBefore
        <3>11. g[x].finish <= latest[x]
            BY <1>2, <1>4, <2>3, <2>6, <3>4, <3>10
        <3> QED BY <2>3, <3>1, <3>11
    <2> QED BY <2>3, <2>7, <2>8, <2>9 DEF Statuses, SATISFIED_STATUSES
<1>9. PICK x \in taskLive : EndOf(g) = g[x].finish
    BY <1>3
<1>10. Fits(x)
    BY <1>8
<1> QED BY <1>2, <1>3, <1>4, <1>6, <1>9, <1>10

\* So float zero is what makes a delay visible.
LEMMA CriticalInv == ScheduleInv => CriticalPathExact
<1> SUFFICES ASSUME ScheduleInv, NothingSkippedAhead, NEW t \in taskLive, Open(t)
             PROVE  Critical(t) <=> DelayMovesEnd(t)
    BY DEF CriticalPathExact, CriticalIffDelayMovesEnd, NothingSkippedAhead, Open
<1> DEFINE f == Forecast(NoDelay)
           g == Forecast(Delay(t))
<1>1. Follows(f, now, NoDelay) /\ Follows(g, now, Delay(t))
    BY NoDelayTyped, DelayTyped, TaskFacts, ForecastFollows
<1>2. Critical(t) <=> LatestFinish(f)[t] = f[t].finish
    BY DEF Critical, Open
<1>3. DelayMovesEnd(t) <=> EndOf(g) > EndOf(f)
    BY DEF DelayMovesEnd
<1> HIDE DEF f, g
<1>4. EndOf(f) \in Int /\ EndOf(g) \in Int
    <2>1. \A x \in taskLive : f[x].finish \in Int /\ g[x].finish \in Int
        BY <1>1 DEF Follows, Row
    <2> QED BY <2>1, EndFacts DEF IsLastFinish
<1>5. LatestFinish(f)[t] = f[t].finish => EndOf(g) > EndOf(f)
    BY <1>1, NoFloatMovesEnd
<1>6. LatestFinish(f)[t] # f[t].finish => EndOf(g) <= EndOf(f)
    BY <1>1, FloatAbsorbsDelay
<1> QED BY <1>2, <1>3, <1>4, <1>5, <1>6

\* A task with work left is marked critical exactly when one more minute of it
\* would move the forecast end (compute's backward pass against its forecast
\* pass), as long as no task was skipped ahead of its predecessors: for any graph,
\* with zero durations, fixed starts, failed and running tasks and a late clock.
THEOREM CriticalPathExactHolds == ScheduleSpec => []CriticalPathExact
BY ScheduleInvHolds, CriticalInv, PTL

-----------------------------------------------------------------------------
(* The plan's state.                                                        *)

\* A task with work left is never forecast to have finished.
LEMMA OpenEndsLater ==
    ASSUME ScheduleInv, NEW f, Follows(f, now, NoDelay), NEW t \in taskLive, Open(t)
    PROVE  f[t].finish \in Int /\ f[t].finish >= now
<1>1. t \in Tasks /\ status[t] \in Statuses /\ duration[t] \in Nat /\ now \in Int /\ NoDelay[t] = 0
    BY TaskFacts, NoDelayTyped
<1>2. f[t].finish \in Int
    BY DEF Follows, Row
<1>3. CASE status[t] \in {"in_progress", "failed"}
    <2>1. f[t].finish = NotBefore(startedAt[t] + duration[t], now) + NoDelay[t]
        BY <1>3 DEF Follows
    <2>2. startedAt[t] \in Int
        BY <1>3, TaskFacts
    <2> QED BY <1>1, <1>2, <2>1, <2>2, ScheduleAssumption DEF NotBefore
<1>4. CASE status[t] = "not_started"
    <2>1. f[t].start \in Int /\ f[t].start >= now
        BY <1>4, WaitingRow
    <2>2. f[t].finish = f[t].start + duration[t] + NoDelay[t]
        BY <1>4 DEF Follows
    <2> QED BY <1>1, <1>2, <2>1, <2>2
<1> QED BY <1>1, <1>3, <1>4 DEF Open, SATISFIED_STATUSES, Statuses

\* A plan with tasks is complete when every task is done or skipped.
LEMMA CompleteMeansSatisfied ==
    ASSUME ScheduleInv, taskLive # {}
    PROVE  PlanState = "complete" <=> \A t \in taskLive : ~Open(t)
<1> DEFINE s == {status[t] : t \in taskLive}
<1>1. s # {}
    OBVIOUS
<1>2. s \subseteq SATISFIED_STATUSES <=> \A t \in taskLive : ~Open(t)
    BY DEF Open
<1> HIDE DEF s
<1>3. PlanState = "complete" <=> s # {} /\ s \subseteq SATISFIED_STATUSES
    <2>1. PlanState = IF s # {} /\ s \subseteq SATISFIED_STATUSES THEN "complete"
                      ELSE IF "failed" \in s THEN "failed"
                      ELSE IF s \subseteq {"not_started"} THEN "not_started"
                      ELSE "in_progress"
        BY DEF PlanState, s
    <2> QED BY <2>1
<1> QED BY <1>1, <1>2, <1>3

\* The state against the forecast and against the transition table.
LEMMA StateInv == ScheduleInv /\ taskLive # {} => StateMatchesWork
<1> SUFFICES ASSUME ScheduleInv, taskLive # {} PROVE StateMatchesWork
    OBVIOUS
<1> DEFINE f == Forecast(NoDelay)
<1>1. Follows(f, now, NoDelay) /\ IsLastFinish(EndOf(f), taskLive, f, anchor)
    BY ForecastNow DEF CurrentForecast, CurrentEnd
<1>2. PlanState # "complete" => EndOf(Forecast(NoDelay)) >= now
    <2> SUFFICES ASSUME PlanState # "complete" PROVE EndOf(f) >= now
        OBVIOUS
    <2> HIDE DEF f
    <2>1. PICK t \in taskLive : Open(t)
        BY CompleteMeansSatisfied
    <2>2. f[t].finish \in Int /\ f[t].finish >= now
        BY <1>1, <2>1, OpenEndsLater
    <2>3. EndOf(f) \in Int /\ f[t].finish <= EndOf(f) /\ now \in Int
        BY <1>1, TaskFacts DEF IsLastFinish
    <2> QED BY <2>2, <2>3
<1>3. ASSUME NEW t \in taskLive
      PROVE  ~Open(t) <=> \A to \in Statuses : <<status[t], to>> \in EDGES => to = "not_started"
    <2>1. status[t] \in Statuses
        BY TaskFacts
    <2>2. CASE status[t] \in {"done", "skipped"}
        <3>1. \A to : <<status[t], to>> \in EDGES => to = "not_started"
            BY <2>2 DEF EDGES
        <3> QED BY <2>2, <3>1 DEF Open, SATISFIED_STATUSES
    <2>3. CASE status[t] \in {"not_started", "in_progress"}
        <3>1. <<status[t], "done">> \in EDGES /\ "done" \in Statuses /\ "done" # "not_started"
            BY <2>3 DEF EDGES, Statuses
        <3> QED BY <2>3, <3>1 DEF Open, SATISFIED_STATUSES
    <2>4. CASE status[t] = "failed"
        <3>1. <<status[t], "skipped">> \in EDGES /\ "skipped" \in Statuses
              /\ "skipped" # "not_started"
            BY <2>4 DEF EDGES, Statuses
        <3> QED BY <2>4, <3>1 DEF Open, SATISFIED_STATUSES
    <2> QED BY <2>1, <2>2, <2>3, <2>4 DEF Statuses
<1>4. (\A t \in taskLive : ~Open(t)) <=>
            \A t \in taskLive, to \in Statuses : <<status[t], to>> \in EDGES => to = "not_started"
    BY <1>3, Zenon
<1> QED BY <1>2, <1>4, CompleteMeansSatisfied DEF StateMatchesWork

\* The plan being carried out keeps its tasks.
LEMMA TasksStay == ScheduleSpec => [](taskLive = Tasks)
<1>1. ScheduleInit => taskLive = Tasks
    BY DEF ScheduleInit
<1>2. taskLive = Tasks /\ [ScheduleNext]_svars => (taskLive = Tasks)'
    <2> SUFFICES ASSUME [ScheduleNext]_svars PROVE taskLive' = taskLive
        OBVIOUS
    <2> QED BY DEF ScheduleNext, svars, vars, UpdatePlan, UpdateTaskTimes, Report, Transition,
                   Advance, Tick, planVars, rowVars, execVars
<1> QED BY <1>1, <1>2, PTL DEF ScheduleSpec

\* An unfinished plan is never forecast to have ended, and compute calls a plan
\* complete exactly when no transition but a reopen is left for any of its tasks.
\* A plan without tasks is not_started for ever, and ends at its anchor.
THEOREM StateMatchesWorkHolds ==
    ASSUME Tasks # {} PROVE ScheduleSpec => []StateMatchesWork
<1>1. taskLive = Tasks => taskLive # {}
    OBVIOUS
<1> QED BY <1>1, ScheduleInvHolds, StateInv, TasksStay, PTL

-----------------------------------------------------------------------------
(* Blocked tasks.                                                           *)

\* t is in every set that holds what directly follows a failed task and what
\* follows a member: some predecessor of t, direct or not, has failed.
AfterFailure(t) ==
    \A U \in SUBSET taskLive :
        (\A x \in taskLive : (\E p \in Preds(x) : status[p] = "failed" \/ p \in U) => x \in U)
            => t \in U

\* The flags of all tasks at once.
BlockedRows ==
    LET blocked[x \in taskLive] == \E p \in Preds(x) : status[p] = "failed" \/ blocked[p]
    IN  blocked

\* The blocked flags satisfy their recursion.
LEMMA BlockedRules ==
    ASSUME ScheduleInv
    PROVE  \A t \in taskLive :
                Blocked(t) <=> \E p \in Preds(t) : status[p] = "failed" \/ Blocked(p)
<1> DEFINE P == [t \in taskLive |-> Preds(t)]
           Answer(W) == \E w \in W : status[w[1]] = "failed" \/ w[2]
           step == [w \in taskLive \X SUBSET (taskLive \X BOOLEAN) |-> Answer(w[2])]
<1>1. /\ \A t \in taskLive : P[t] \subseteq taskLive
      /\ Grounded(taskLive, P)
    BY TaskGraphFacts
<1>2. step \in [taskLive \X SUBSET (taskLive \X BOOLEAN) -> BOOLEAN]
    <2>1. \A W : Answer(W) \in BOOLEAN
        OBVIOUS
    <2> HIDE DEF Answer
    <2> QED BY <2>1
<1>3. PICK f \in [taskLive -> BOOLEAN] : IsPass(f, taskLive, P, step)
    <2> HIDE DEF P, step
    <2> QED BY <1>1, <1>2, PassExists, Zenon
<1>4. ASSUME NEW t \in taskLive
      PROVE  f[t] = \E p \in Preds(t) : status[p] = "failed" \/ f[p]
    <2> DEFINE W == {<<p, f[p]>> : p \in Preds(t)}
    <2>1. W \in SUBSET (taskLive \X BOOLEAN)
        BY <1>1
    <2>2. f[t] = Answer(W)
        <3> HIDE DEF Answer
        <3>1. f[t] = step[<<t, W>>]
            BY <1>3 DEF IsPass
        <3> HIDE DEF W
        <3> QED BY <2>1, <3>1
    <2>3. Answer(W) = \E p \in Preds(t) : status[p] = "failed" \/ f[p]
        <3>1. ASSUME NEW w \in W, status[w[1]] = "failed" \/ w[2]
              PROVE  \E p \in Preds(t) : status[p] = "failed" \/ f[p]
            <4>1. PICK p \in Preds(t) : w = <<p, f[p]>>
                BY <3>1
            <4> QED BY <3>1, <4>1
        <3>2. ASSUME NEW p \in Preds(t), status[p] = "failed" \/ f[p]
              PROVE  \E w \in W : status[w[1]] = "failed" \/ w[2]
            <4>1. <<p, f[p]>> \in W /\ <<p, f[p]>>[1] = p /\ <<p, f[p]>>[2] = f[p]
                BY <3>2
            <4> QED BY <3>2, <4>1
        <3> QED BY <3>1, <3>2
    <2> QED BY <2>2, <2>3
<1>5. f = [t \in taskLive |-> \E p \in Preds(t) : status[p] = "failed" \/ f[p]]
    BY <1>4, Zenon
<1>6. BlockedRows = [t \in taskLive |-> \E p \in Preds(t) : status[p] = "failed" \/ BlockedRows[p]]
    BY <1>5, Zenon DEF BlockedRows
<1>7. \A t : Blocked(t) = BlockedRows[t]
    BY DEF Blocked, BlockedRows
<1> QED BY <1>6, <1>7, Zenon

\* They are the smallest such set: the first blocked task outside another one
\* would have its reason inside.
LEMMA BlockedInv ==
    ScheduleInv => \A t \in taskLive : Blocked(t) <=> AfterFailure(t)
<1> SUFFICES ASSUME ScheduleInv PROVE \A t \in taskLive : Blocked(t) <=> AfterFailure(t)
    OBVIOUS
<1>1. \A t \in taskLive : Blocked(t) <=> \E p \in Preds(t) : status[p] = "failed" \/ Blocked(p)
    BY BlockedRules
<1>2. ASSUME NEW t \in taskLive, AfterFailure(t) PROVE Blocked(t)
    <2> DEFINE U == {x \in taskLive : Blocked(x)}
    <2>1. \A x \in taskLive : (\E p \in Preds(x) : status[p] = "failed" \/ p \in U) => x \in U
        BY <1>1
    <2>2. t \in U
        BY <1>2, <2>1 DEF AfterFailure
    <2> QED BY <2>2
<1>3. ASSUME NEW t \in taskLive, Blocked(t), NEW U \in SUBSET taskLive,
             \A x \in taskLive : (\E p \in Preds(x) : status[p] = "failed" \/ p \in U) => x \in U
      PROVE  t \in U
    <2> DEFINE D == {x \in taskLive : Blocked(x) /\ x \notin U}
    <2>1. SUFFICES ASSUME D # {} PROVE FALSE
        BY <1>3, <2>1
    <2>2. PICK x \in D : \A p \in Preds(x) : p \notin D
        BY <2>1, FirstTask
    <2>3. PICK p \in Preds(x) : status[p] = "failed" \/ Blocked(p)
        BY <1>1, <2>2
    <2>4. p \in taskLive
        BY <2>2, <2>3, TaskGraphFacts
    <2>5. status[p] = "failed" \/ p \in U
        BY <2>2, <2>3, <2>4
    <2> QED BY <1>3, <2>2, <2>3, <2>5
<1> QED BY <1>2, <1>3 DEF AfterFailure

\* compute's blocked flag is set for exactly the tasks with a failed transitive
\* predecessor, in any graph.
THEOREM BlockedIffAfterFailure ==
    ScheduleSpec => [](\A t \in taskLive : Blocked(t) <=> AfterFailure(t))
BY ScheduleInvHolds, BlockedInv, PTL

\* Nothing that a failure blocks has begun: it would be the first such task.
LEMMA BlockedInvWaits ==
    ScheduleInv /\ NothingSkippedAhead =>
        \A t \in taskLive : Blocked(t) => status[t] = "not_started"
<1> SUFFICES ASSUME ScheduleInv, NothingSkippedAhead
             PROVE  \A t \in taskLive : Blocked(t) => status[t] = "not_started"
    OBVIOUS
<1> DEFINE U == {t \in taskLive : Blocked(t) /\ status[t] # "not_started"}
<1>1. SUFFICES ASSUME U # {} PROVE FALSE
    BY <1>1
<1>2. PICK t \in U : \A p \in Preds(t) : p \notin U
    BY <1>1, FirstTask
<1>3. PICK p \in Preds(t) : status[p] = "failed" \/ Blocked(p)
    BY <1>2, BlockedRules
<1>4. p \in taskLive /\ t \in Succs(p)
    BY <1>2, <1>3, TaskGraphFacts
<1>5. Open(p)
    BY <1>2, <1>3, <1>4 DEF Open, SATISFIED_STATUSES
<1>6. status[t] = "not_started"
    BY <1>4, <1>5, OpenHoldsBack
<1> QED BY <1>2, <1>6

\* As long as no task was skipped ahead of its predecessors, every task shown as
\* blocked is one that has not begun: a retry of the failed task never finds work
\* running downstream of it.
THEOREM BlockedTasksWait ==
    ScheduleSpec => [](NothingSkippedAhead =>
                            \A t \in taskLive : Blocked(t) => status[t] = "not_started")
BY ScheduleInvHolds, BlockedInvWaits, PTL
=============================================================================
