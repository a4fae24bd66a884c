SPECIFICATION Spec
CONSTANTS
    Migrations <- SomeMigrations
    Tasks = {t1, t2}
    Nobody = Nobody
    Ops <- SomeOps
    Statements = 2
    Openers = {o1, o2}
    MaxCuts = 2
    Files = {db, models, log}
    Db = db
    Movers = {m1, m2}
    MaxFaults = 2
    Gone = Gone
    Procs = {p1, p2, p3}
    Savers = {w1, w2}
    MaxOps = 3
    Mixed = Mixed
    None = None
    Devices = {d1, d2}
    Registries = {r0, r1, r2}
    Default = r0
    Altered = {r2}
    Guarded = {d1}
    MaxStamp = 2
    MaxSaves = 2
    NoOne = NoOne
    Codes = {k1, k2}
    NoCode = NoCode
    TTL = 3
    Chats = {c1, c2}
    Rooms = {c2}
    NoChat = NoChat
    Handlers = {h1, h2}
    Ttl = 1
    TurnTimeout = 1
INVARIANTS RecordedHasRun WritersNeverCollide AcknowledgedIsDurable AllOrNothing
           NothingIsLost ModesExclude UpdateIsTold SingleUse OpenerIsServed
           ResetIsFresh ResumableIsShown
PROPERTIES WritersAreServed ServerComesBack RegistriesMeet WindowsClose TurnsEnd
\* Every part may come to rest.
CHECK_DEADLOCK FALSE
