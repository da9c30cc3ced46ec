SPECIFICATION RacingSpec
CONSTANTS
    None = None
    g = g
    boss = boss
    Teams = {}
    Users = {boss}
    Managers = {boss}
    MemberOf <- MCMemberOf
    Releases = {r1}
    Envs = {e1}
    Plans = {1, 2}
    Tasks = {t1, t2}
    MaxTime = 0
    MaxRetired = 0
    Requests = {q1, q2}
    Kinds = {"create_plan", "create_task", "transition"}
SYMMETRY RacingSymmetry
INVARIANT PredecessorInvariant
