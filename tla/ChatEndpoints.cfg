\* One turn at a time, and two pool threads that clear the document scope beside it.
CONSTANTS
    Turns = {t1}
    Pool = {p1, p2}
    Chats = {c1}
    Texts <- AllTexts
    DocumentFaults <- AnyFault
    Interruptions <- AnyCut
    MaxRequests = 2
    MaxReports = 0
    NoTurn = NoTurn
    NoChat = NoChat
    NoDecision = NoDecision
SPECIFICATION Spec
INVARIANTS
    ToldDraftIsCleared
\* The clients may have sent all their messages.
CHECK_DEADLOCK FALSE
