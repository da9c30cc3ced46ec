\* Two plans, two tasks, a team, a manager and a member, one archiving.
SPECIFICATION Spec
CHECK_DEADLOCK FALSE
CONSTANTS
    None = None
    g = g
    boss = boss
    ann = ann
    Teams = {g}
    Users = {boss, ann}
    Managers = {boss}
    MemberOf <- MCMemberOf
    Releases = {r1}
    Envs = {e1, e2}
    Plans = {1, 2}
    Tasks = {t1, t2}
    MaxTime = 1
    MaxRetired = 1
SYMMETRY TaskSymmetry
INVARIANT PredecessorInvariant
INVARIANT LiveGraphAcyclic
INVARIANT CutoverNeverWedges
INVARIANT OfferedIffPerformable
INVARIANT ReadyQueueIsStartable
PROPERTY RevivedPlanStartsEmpty
