SPECIFICATION Spec
CONSTANTS
    a = a
    b = b
    Devices = {a, b}
    Online = {b}
    Reach <- Mesh
    Ids = {i1}
    Contents = {x, y}
    NoContent = NoContent
    Skew <- Ahead
    Tolerance = 1
    MaxTime = 1
    MaxEdits = 3
    MaxFaults = 0
SYMMETRY ContentSymmetry
INVARIANTS LiveXorTombstone NoWedgedRecord
PROPERTY UndisturbedApplyIsNewer
