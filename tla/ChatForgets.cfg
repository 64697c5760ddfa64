\* A value is remembered, then an invoice is asked for.
CONSTANTS
    Turns = {t1}
    Pool = {}
    Chats = {c1}
    Texts <- AllTexts
    DocumentFaults <- NoFault
    Interruptions <- NoCut
    MaxRequests = 2
    MaxReports = 0
    NoTurn = NoTurn
    NoChat = NoChat
    NoDecision = NoDecision
SPECIFICATION Spec
PROPERTIES
    RequestedMemoryLasts
\* The clients may have sent all their messages.
CHECK_DEADLOCK FALSE
