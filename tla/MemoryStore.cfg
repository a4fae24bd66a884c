SPECIFICATION SyncSpec
CONSTANTS
    a = a
    b = b
    text = text
    links = links
    t1 = t1
    t2 = t2
    Ids = {a, b}
    Titles = {t1, t2}
    Contents = {text, links}
    Layers = {"workspace", "personal"}
    Links <- LinksOf
    Large = {}
    Given <- Tags
    Single = {"project"}
    Fixed <- Registry
    First <- FirstMemory
    Drafts <- Stores
    Imports <- Batches
    Proposals <- ByHand
    Patches <- Edits
    TagSets <- Changes
    Clients = {c1, c2}
    MaxOps = 3
    None = None
    Peers = {p1}
    Modes = {"alone", "cloud", "hive"}
    MaxConflicts = 2
    MaxSyncs = 2
CONSTRAINT Apart
INVARIANTS DerivedIsOwn TagsAreAdmitted LinksAreEdges CountIsPending
PROPERTIES ImplementsAtomicStore OverwritesAreRaised
CHECK_DEADLOCK FALSE
