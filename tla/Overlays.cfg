SPECIFICATION Spec
CONSTANTS
    o1 = o1
    o2 = o2
    m1 = m1
    m2 = m2
    p1 = p1
    p2 = p2
    Orders = {o1, o2}
    Machines = {m1}
    Planners = {p1}
    Eligible <- Anywhere
    Minutes = 2
    LockWindow = 2
    MaxExpedite = 3
    Lifetimes = {3}
    Delays = {2}
    None = None
    Forever = 20
    Horizon = 4
SYMMETRY Interchangeable
INVARIANTS ConflictsOnlyByMoves CompanionsFollowMoves ExpeditesOverlapOnlyIfDelayed
PROPERTIES DecisionsNeverReturn
