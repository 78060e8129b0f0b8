CONSTANTS
    r1 = r1
    r2 = r2
    v1 = v1
    v2 = v2
    u1 = u1
    u2 = u2
    None = None
    Rules = {r1}
    Candidates = {v1, v2}
    Users = {u1}
SPECIFICATION FairSpec
PROPERTIES
    SweepsSpareDrafts
    
    InboxFollowsPlant
