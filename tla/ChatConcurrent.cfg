\* Two turns at a time in two chats, everything may go wrong.
CONSTANTS
    Turns = {t1, t2}
    Pool = {}
    Chats = {c1, c2}
    Texts <- AllTexts
    DocumentFaults <- AnyFault
    Interruptions <- AnyCut
    MaxRequests = 2
    MaxReports = 0
    NoTurn = NoTurn
    NoChat = NoChat
    NoDecision = NoDecision
SPECIFICATION Spec
SYMMETRY Symmetry
INVARIANTS
    TypeOK
    OneQuestionOneAnswer
    SessionsStayInTheirChat
    DocumentsAreReal
    CreatedClosesScope
    LearnsFromAnswers
PROPERTIES
    ImplementsConversation
\* The clients may have sent all their messages.
CHECK_DEADLOCK FALSE
