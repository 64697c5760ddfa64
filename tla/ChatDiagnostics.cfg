\* Two streamed turns in one chat.
CONSTANTS
    Turns = {t1, t2}
    Pool = {}
    Chats = {c1}
    Texts <- AllTexts
    DocumentFaults <- AnyFault
    Interruptions <- NoCut
    MaxRequests = 2
    MaxReports = 0
    NoTurn = NoTurn
    NoChat = NoChat
    NoDecision = NoDecision
SPECIFICATION Spec
INVARIANTS
    DiagnosticsBelongToTheirTurn
\* The clients may have sent all their messages.
CHECK_DEADLOCK FALSE
