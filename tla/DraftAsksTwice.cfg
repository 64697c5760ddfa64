CONSTANTS
    Chats = {c1}
    Forms = {}
    Values = {v1, v2}
    TextFields = {"invoice_number"}
    Descriptions <- MCDescriptions
    Dates = {1, 2}
    Quantities = {1}
    Prices = {0, 2}
    MaxItems = 1
    Offers <- MCOffers
    Work = Work
    None = None
    Blank = Blank
SPECIFICATION Spec
SYMMETRY Symmetry
INVARIANTS
    NothingIsAskedTwice
