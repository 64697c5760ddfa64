\* Three messages, one at a time, in one chat; everything may go wrong,
\* and one error is reported.
CONSTANTS
    Turns = {t1}
    Pool = {}
    Chats = {c1}
    Texts <- AllTexts
    DocumentFaults <- AnyFault
    Interruptions <- AnyCut
    MaxRequests = 3
    MaxReports = 1
    NoTurn = NoTurn
    NoChat = NoChat
    NoDecision = NoDecision
SPECIFICATION Spec
INVARIANTS
    DiagnosticsBelongToTheirTurn
    ToldDraftIsCleared
PROPERTIES
    OnlyDraftsForget
\* The clients may have sent all their messages.
CHECK_DEADLOCK FALSE
