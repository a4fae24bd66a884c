SPECIFICATION Spec
CONSTANTS
    m1 = m1
    m2 = m2
    LowerCase <- Tags
    Parsed <- Parse
    Matches <- Holds
    AllOf <- AndAll
    MaxExprLen = 5
    MaxExprDepth = 2
    ListMost = 2
    McpMost = 1
    RestMost = 2
    PromptMost = 1
    RecentMost = 2
    AskMost = 1
    Window = 2
    Ids = {m1, m2}
    Memos <- Says
    First <- Start
    Texts <- Asks
    TagLists <- AsksByTag
    ProjectRecalls <- Project
    LocalRecalls <- Local
    ProjectTokens = None
    GlobalTokens = 2
    LocalTokens = 1
    DefaultTokens = 4
    Tokens <- Written
    Clients = {c1}
    MaxOps = 2
    MaxFetches = 2
    None = None
CONSTRAINT Apart
INVARIANTS SkippedSaysWhy SurfacesAgree ParsesAsWritten
PROPERTY ScreenCatchesUp
CHECK_DEADLOCK FALSE
