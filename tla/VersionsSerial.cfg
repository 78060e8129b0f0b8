CONSTANTS
    s1 = s1
    s2 = s2
    s3 = s3
    NoSession = NoSession
    Sessions = {s1}
    MaxVersions = 3
    WritebackMode = "CONTROLLED_AUTO"
SPECIFICATION Spec
PROPERTIES
    ImplementsLifecycle
\* the versions are used up and all decided
CHECK_DEADLOCK FALSE
