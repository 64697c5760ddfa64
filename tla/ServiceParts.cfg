\* Three callers of the model, two of them streams; two threads; two PATCHes at once;
\* three tables of one row.
CONSTANTS
    Callers = {c1, c2, c3}
    Streams = {c1, c2}
    NoCaller = NoCaller
    MaxCalls = 2
    MaxChunks = 2
    Words <- SomeWords
    Texts <- SomeTexts
    MaxChunk = 2
    Chats = {t1, t2}
    MaxMessages = 4
    MaxClock = 1
    PoolThreads = {p1, p2}
    Names = {"a", "b"}
    Values = {1, 2}
    ChatTables <- SomeChatTables
    DocumentTables <- SomeDocumentTables
    Keys = {k1}
    MaxCrashes = 1
SPECIFICATION Spec
INVARIANTS
    PartsTypeOK
    OneRequestAtATime
    ThinkingIsHidden
    StreamedIsUnstreamed
    HistoryIsInOrder
    PatchesAddUp
    AllTablesOrNone
    
PROPERTIES
    CallsEnd
    
\* Each part may come to its bounds.
CHECK_DEADLOCK FALSE
