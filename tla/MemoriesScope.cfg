\* Turns, one at a time, in three chats, of which one is used for both clients.
CONSTANTS
    Turns = {t1}
    u = u
    b = b
    k1 = k1
    k2 = k2
    general = general
    first = first
    second = second
    Chats = {general, first, second}
    Users = {u}
    Businesses = {b}
    Clients = {k1, k2}
    Topics = {x}
    ScopesOf <- ScopesMeet
    Confidences = {90}
    MaxFacts = 1
    MaxSkills = 1
    Limits <- OneOfEach
    PageSize = 4
    Window = 2
    MaxRequests = 3
    MaxPatches = 1
    None = None
SPECIFICATION Spec
INVARIANTS
    MemoriesKeepTheirScope
\* The clients may have sent all their messages.
CHECK_DEADLOCK FALSE
