SPECIFICATION ScheduleSpec
CONSTANTS
    None = None
    boss = boss
    Teams = {}
    Users = {boss}
    Managers = {boss}
    MemberOf <- MCMemberOf
    Releases = {r1}
    Envs = {e1}
    Plans = {1}
    ThePlan = 1
    Tasks = {t1, t2}
    MaxTime = 2
    MaxRetired = 0
    Anchors = {0, 1}
    Durations = {0, 2}
    FixedStarts = {None, 1}
SYMMETRY TaskSymmetry
INVARIANT CriticalPathExact
INVARIANT OnPlanBeforeAnchor
PROPERTY WaitingNeverHelps
