\* Turns, one at a time, in three chats, each of one scope, and the endpoints beside them.
CONSTANTS
    Turns = {t1}
    u = u
    b = b
    k1 = k1
    k2 = k2
    general = general
    first = first
    second = second
    Chats = {general, first, second}
    Users = {u}
    Businesses = {b}
    Clients = {k1, k2}
    Topics = {x}
    ScopesOf <- OneScopePerChat
    Confidences = {74, 75}
    MaxFacts = 1
    MaxSkills = 1
    Limits <- OneOfEach
    PageSize = 4
    Window = 2
    MaxRequests = 3
    MaxPatches = 1
    None = None
SPECIFICATION Spec
SYMMETRY Symmetry
INVARIANTS
    TypeOK
    MemoriesKeepTheirScope
    UnsureMemoriesAreNotShown
PROPERTIES
    ClientsComeFirst
\* The clients may have sent all their messages.
CHECK_DEADLOCK FALSE
