SPECIFICATION Spec
CONSTANTS
    a = a
    b = b
    Devices = {a, b}
    Online = {}
    Reach <- Mesh
    Ids = {i1}
    Contents = {x, y}
    NoContent = NoContent
    Skew <- InStep
    Tolerance = 1
    MaxTime = 1
    MaxEdits = 3
    MaxFaults = 0
PROPERTY LastWriteWins
