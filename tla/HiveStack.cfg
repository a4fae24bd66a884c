SPECIFICATION FairSpec
CONSTANTS
    Networks = {home, cafe}
    Slots = {l1, l2, l3}
    None = None
    Syncing = FALSE
    Events = 4
INVARIANTS SilentUnlessLeaked
PROPERTIES StackFollowsNetwork VerifierCatchesUp ModeFollowsSetting
CHECK_DEADLOCK FALSE
