SPECIFICATION FairSpec
CONSTANTS
    None = None
    Topics = {"a", "b"}
    Contents <- MCContents
    MaxEdits = 2
    MaxReloads = 1
INVARIANTS
    FilterIsAuthored
    ThreadsMeetMembers
PROPERTIES
    LastEditIsApplied
CHECK_DEADLOCK FALSE
