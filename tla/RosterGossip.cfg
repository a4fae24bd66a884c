SPECIFICATION FairSpec
CONSTANTS
    a = a
    b = b
    c = c
    Devices = {a, b, c}
    Founders = {a, b}
    Nobody = Nobody
    Online = {b}
    Reach <- Ring
    MaxMeetings = 1
    MaxRevokes = 1
    MaxFaults = 1
PROPERTIES RevocationIsSticky RevokedAreShutOut RosterEventuallySpreads
