\* Document creates the invoice, Chat gives up waiting for it.
CONSTANTS
    Turns = {t1}
    Pool = {}
    Chats = {c1}
    Texts <- AllTexts
    DocumentFaults <- AnyFault
    Interruptions <- NoCut
    MaxRequests = 2
    MaxReports = 0
    NoTurn = NoTurn
    NoChat = NoChat
    NoDecision = NoDecision
SPECIFICATION Spec
INVARIANTS
    SpentDraftIsCleared
\* The clients may have sent all their messages.
CHECK_DEADLOCK FALSE
