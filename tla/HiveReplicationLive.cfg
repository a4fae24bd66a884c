SPECIFICATION FairSpec
CONSTANTS
    a = a
    b = b
    Devices = {a, b}
    Online = {a}
    Reach <- Mesh
    Ids = {i1}
    Contents = {x, y}
    NoContent = NoContent
    Skew <- InStep
    Tolerance = 1
    MaxTime = 1
    MaxEdits = 2
    MaxFaults = 1
PROPERTY EventuallyAgreeOrTie
