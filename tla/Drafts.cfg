\* A chat and a form; the values of text fields are interchangeable.
CONSTANTS
    Chats = {c1}
    Forms = {f1}
    Values = {v1, v2}
    TextFields = {"invoice_number", "client.name"}
    Descriptions <- MCDescriptions
    Dates = {1, 2}
    Quantities = {1}
    Prices = {0, 2}
    MaxItems = 1
    Offers <- MCOffers
    Work = Work
    None = None
    Blank = Blank
SPECIFICATION OneKindSpec
SYMMETRY Symmetry
INVARIANTS
    TypeOK
    DocumentAcceptsDrafts
    InvoicesSayWhatWasTold
    KnownTextsAreNotAsked
    AnsweringCreates
    FilledFormsMissOnlyItems
