SPECIFICATION Spec
CONSTANTS
    s1 = s1
    s2 = s2
    s3 = s3
    Sessions = {s1, s2, s3}
    Sections = {"priority_profile", "scheduling"}
    None = None
    MaxVersions = 4
    Overlapping = FALSE
INVARIANTS OneActive
PROPERTIES SavesKeepOtherSections
