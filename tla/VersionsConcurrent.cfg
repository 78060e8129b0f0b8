CONSTANTS
    s1 = s1
    s2 = s2
    s3 = s3
    NoSession = NoSession
    Sessions = {s1, s2}
    MaxVersions = 2
    WritebackMode = "WRITEBACK"
SPECIFICATION FairSpec
INVARIANTS
    AtMostOnePublished
    PublishedWasSent
PROPERTIES
    PublishedFromApproved
    DraftIsNew
    RequestsEnd
\* the versions are used up and all decided
CHECK_DEADLOCK FALSE
