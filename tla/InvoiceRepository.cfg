\* Two workers of any kind at once; no symmetry, because of the liveness.
SPECIFICATION Spec
CONSTANTS
    Workers = {w1, w2}
    Numbers = {n1, n2}
    MaxLines = 2
    MaxFiles = 3
    NoWorker = NoWorker
    NoJob = NoJob
INVARIANTS
    TypeOK
    EveryInvoiceHasItsPdf
    InvoicesAreDistinct
    ItemsMatchTotals
    NoStrayPdf
    DownloadFindsFile
    ResetNeverOverstates
PROPERTIES
    RequestsFinish
    ImplementsRegistry
