SPECIFICATION ChatSpec
CONSTANTS
    Chats = {c1}
    Rooms = {}
    NoChat = NoChat
    Handlers = {h1, h2}
    Ttl = 2
    TurnTimeout = 2
INVARIANT ResetStartsAfresh
