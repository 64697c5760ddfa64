---------------------------- MODULE InvoiceStore ----------------------------
(***************************************************************************)
(* The invoice repository of the Document service: the SQLite tables       *)
(* invoices, invoice_items and sqlite_sequence, the directory of generated *)
(* PDF files, and the workers (the event loop and the thread pool of one   *)
(* server process) that run create_invoice, reset_invoice_store and        *)
(* get_invoice_pdf_path against them.                                      *)
(*                                                                         *)
(* A SQLite transaction is visible to others only at its commit, and one   *)
(* worker at a time holds the write lock (from its first INSERT or DELETE  *)
(* to its commit or rollback), so what a transaction has written so far is *)
(* a function of the worker's job; the file system has no transactions,    *)
(* and each write to it is seen, and survives a crash, at once.            *)
(*                                                                         *)
(* An invoice is its number, the lines it bills (each worth one unit, so   *)
(* that the stored total says which items were meant) and its PDF file.    *)
(***************************************************************************)
EXTENDS Naturals, FiniteSets

CONSTANTS
    Workers,    \* the event loop and the threads of the pool
    Numbers,    \* invoice numbers the clients use
    MaxLines,   \* bound: lines of one invoice
    MaxFiles,   \* bound: PDF names drawn (uuid4: a name is never drawn twice)
    NoWorker,   \* nobody holds the write lock
    NoJob       \* what an idle worker works on

ASSUME WorkersAssumption == NoWorker \notin Workers
ASSUME BoundsAssumption  == MaxLines \in Nat \ {0} /\ MaxFiles \in Nat
ASSUME NoJobAssumption   ==
    NoJob \notin [told : {"nothing", "created", "conflict", "failed"},
                  number : Numbers, total : 1 .. MaxLines]

VARIABLES
    invoices,   \* the committed rows of table invoices
    items,      \* the committed rows of table invoice_items
    sequence,   \* sqlite_sequence: the highest id given since the last reset
    writer,     \* the holder of SQLite's write lock
    disk,       \* what is in the directory of PDF files
    drawn,      \* the number of file names drawn
    pc,         \* where each worker is
    job,        \* what each worker works on
    abandoned,  \* history: files a crash or a reset left without a row
    overtaken   \* history: resets in flight when another one committed

database == <<invoices, items, sequence>>
history  == <<abandoned, overtaken>>
vars == <<invoices, items, sequence, writer, disk, drawn, pc, job, abandoned, overtaken>>

-----------------------------------------------------------------------------
Files == 1 .. MaxFiles

Invoice == [id : Nat \ {0}, number : Numbers, total : 1 .. MaxLines, file : Files]
Item    == [invoice : Nat \ {0}, line : 1 .. MaxLines]

Creation == [number : Numbers, lines : 1 .. MaxLines, file : Files]
Counts   == [invoices : Nat, items : Nat]
Lookup   == [found : Files]

Creating  == {"insert", "render", "commit", "conflict", "failed", "created"}
Resetting == {"count", "delete", "deleting"}

\* Mutant of InvoiceOf: the last id given instead of the next.
InvoiceOfLastId(j) ==
    [id |-> sequence, number |-> j.number, total |-> j.lines, file |-> j.file]

\* INSERT INTO invoices of a job: AUTOINCREMENT gives the next id.
InvoiceOf(j) ==
    [id |-> sequence + 1, number |-> j.number, total |-> j.lines, file |-> j.file]

\* The rows executemany inserts for an invoice, all pointing at it.
LinesOf(i) == {[invoice |-> i.id, line |-> l] : l \in 1 .. i.total}

NumberTaken(n) == \E i \in invoices : i.number = n

\* The files of workers that will still commit them or remove them.
InProgress ==
    {job[w].file : w \in {v \in Workers : pc[v] \in {"render", "commit", "conflict", "failed"}}}

Become(w, step, j) ==
    /\ pc'  = [pc EXCEPT ![w] = step]
    /\ job' = [job EXCEPT ![w] = j]

Finish(w) == Become(w, "idle", NoJob)

Init ==
    /\ invoices = {} /\ items = {} /\ sequence = 0
    /\ writer = NoWorker
    /\ disk = [f \in Files |-> "absent"]
    /\ drawn = 0
    /\ pc = [w \in Workers |-> "idle"]
    /\ job = [w \in Workers |-> NoJob]
    /\ abandoned = {} /\ overtaken = {}

-----------------------------------------------------------------------------
(* create_invoice *)

\* The totals are computed and the file is named before the transaction.
StartCreate(w) ==
    /\ pc[w] = "idle" /\ drawn < MaxFiles
    /\ \E n \in Numbers, l \in 1 .. MaxLines :
          Become(w, "insert", [number |-> n, lines |-> l, file |-> drawn + 1])
    /\ drawn' = drawn + 1
    /\ UNCHANGED <<database, writer, disk, history>>

\* Mutant of Insert: the column number is not UNIQUE.
InsertUnchecked(w) ==
    /\ pc[w] = "insert" /\ writer = NoWorker
    /\ writer' = w
    /\ Become(w, "render", job[w])
    /\ UNCHANGED <<database, disk, drawn, history>>

\* Both INSERTs: the first takes the write lock and checks UNIQUE.
Insert(w) ==
    /\ pc[w] = "insert" /\ writer = NoWorker
    /\ ~ NumberTaken(job[w].number)
    /\ writer' = w
    /\ Become(w, "render", job[w])
    /\ UNCHANGED <<database, disk, drawn, history>>

\* IntegrityError: the transaction is rolled back and the lock let go.
InsertDuplicate(w) ==
    /\ pc[w] = "insert" /\ writer = NoWorker
    /\ NumberTaken(job[w].number)
    /\ Become(w, "conflict", job[w])
    /\ UNCHANGED <<database, writer, disk, drawn, history>>

\* Mutant of InsertBusy: no busy timeout.
InsertPatient(w) == FALSE

\* Mutant of InsertBusy: every sqlite3.Error is taken for a duplicate.
InsertBusyConflict(w) ==
    /\ pc[w] = "insert" /\ writer # NoWorker
    /\ Become(w, "conflict", job[w])
    /\ UNCHANGED <<database, writer, disk, drawn, history>>

\* OperationalError "database is locked" once the busy timeout has passed.
InsertBusy(w) ==
    /\ pc[w] = "insert" /\ writer # NoWorker
    /\ Become(w, "failed", job[w])
    /\ UNCHANGED <<database, writer, disk, drawn, history>>

\* generate_invoice_pdf, inside the transaction.
Render(w) ==
    /\ pc[w] = "render"
    /\ disk' = [disk EXCEPT ![job[w].file] = "whole"]
    /\ Become(w, "commit", job[w])
    /\ UNCHANGED <<database, writer, drawn, history>>

\* The template or the file write raises, before or after the file exists.
RenderFails(w) ==
    /\ pc[w] = "render"
    /\ \E left \in {"absent", "torn"} :
          disk' = [disk EXCEPT ![job[w].file] = left]
    /\ writer' = NoWorker
    /\ Become(w, "failed", job[w])
    /\ UNCHANGED <<database, drawn, history>>

Commit(w) ==
    /\ pc[w] = "commit"
    /\ invoices' = invoices \cup {InvoiceOf(job[w])}
    /\ items' = items \cup LinesOf(InvoiceOf(job[w]))
    /\ sequence' = sequence + 1
    /\ writer' = NoWorker
    /\ Become(w, "created", job[w])
    /\ UNCHANGED <<disk, drawn, history>>

\* COMMIT waits for the readers and can run into the busy timeout as well.
CommitFails(w) ==
    /\ pc[w] = "commit"
    /\ writer' = NoWorker
    /\ Become(w, "failed", job[w])
    /\ UNCHANGED <<database, disk, drawn, history>>

\* Mutant of RemovePdf: only one of the except clauses deletes the file.
RemovePdfOfConflict(w) ==
    /\ pc[w] \in {"conflict", "failed"}
    /\ disk' = IF pc[w] = "failed" THEN disk
                                   ELSE [disk EXCEPT ![job[w].file] = "absent"]
    /\ Finish(w)
    /\ UNCHANGED <<database, writer, drawn, history>>

\* Mutant of RemovePdf: the file is named for the number alone, so that the
\* duplicate's cleanup takes the first one's file.
RemovePdfOfNumber(w) ==
    /\ pc[w] \in {"conflict", "failed"}
    /\ disk' = [f \in Files |->
          IF f = job[w].file \/ \E i \in invoices : i.number = job[w].number /\ i.file = f
          THEN "absent" ELSE disk[f]]
    /\ Finish(w)
    /\ UNCHANGED <<database, writer, drawn, history>>

\* Both except clauses delete the file, if there is one, and raise.
RemovePdf(w) ==
    /\ pc[w] \in {"conflict", "failed"}
    /\ disk' = [disk EXCEPT ![job[w].file] = "absent"]
    /\ Finish(w)
    /\ UNCHANGED <<database, writer, drawn, history>>

AnswerCreated(w) ==
    /\ pc[w] = "created"
    /\ Finish(w)
    /\ UNCHANGED <<database, writer, disk, drawn, history>>

-----------------------------------------------------------------------------
(* reset_invoice_store: each COUNT reads the last commit, with no lock.    *)

CountInvoices(w) ==
    /\ pc[w] = "idle"
    /\ Become(w, "count", [invoices |-> Cardinality(invoices), items |-> 0])
    /\ overtaken' = overtaken \ {w}
    /\ UNCHANGED <<database, writer, disk, drawn, abandoned>>

\* Mutant of CountItems: the rows of both tables are counted.
CountAllRows(w) ==
    /\ pc[w] = "count"
    /\ Become(w, "delete",
          [job[w] EXCEPT !.items = Cardinality(items) + Cardinality(invoices)])
    /\ UNCHANGED <<database, writer, disk, drawn, history>>

CountItems(w) ==
    /\ pc[w] = "count"
    /\ Become(w, "delete", [job[w] EXCEPT !.items = Cardinality(items)])
    /\ UNCHANGED <<database, writer, disk, drawn, history>>

Delete(w) ==
    /\ pc[w] = "delete" /\ writer = NoWorker
    /\ writer' = w
    /\ Become(w, "deleting", job[w])
    /\ UNCHANGED <<database, disk, drawn, history>>

DeleteBusy(w) ==
    /\ pc[w] = "delete" /\ writer # NoWorker
    /\ Finish(w)
    /\ UNCHANGED <<database, writer, disk, drawn, history>>

\* Mutant of CommitDelete: the items are left to a cascade, which
\* needs PRAGMA foreign_keys.
CommitDeleteInvoices(w) ==
    /\ pc[w] = "deleting"
    /\ invoices' = {} /\ sequence' = 0
    /\ writer' = NoWorker
    /\ Finish(w)
    /\ abandoned' = abandoned \cup {i.file : i \in invoices}
    /\ overtaken' = {v \in Workers \ {w} : pc[v] \in Resetting}
    /\ UNCHANGED <<items, disk, drawn>>

\* Mutant of CommitDelete: the PDF files go with the rows.
CommitDeleteFiles(w) ==
    /\ pc[w] = "deleting"
    /\ invoices' = {} /\ items' = {} /\ sequence' = 0
    /\ disk' = [f \in Files |-> IF \E i \in invoices : i.file = f THEN "absent" ELSE disk[f]]
    /\ writer' = NoWorker
    /\ Finish(w)
    /\ overtaken' = {v \in Workers \ {w} : pc[v] \in Resetting}
    /\ UNCHANGED <<drawn, abandoned>>

\* The PDF files stay where they are, and ids start again from 1.
CommitDelete(w) ==
    /\ pc[w] = "deleting"
    /\ invoices' = {} /\ items' = {} /\ sequence' = 0
    /\ writer' = NoWorker
    /\ Finish(w)
    /\ abandoned' = abandoned \cup {i.file : i \in invoices}
    /\ overtaken' = {v \in Workers \ {w} : pc[v] \in Resetting}
    /\ UNCHANGED <<disk, drawn>>

CommitDeleteFails(w) ==
    /\ pc[w] = "deleting"
    /\ writer' = NoWorker
    /\ Finish(w)
    /\ UNCHANGED <<database, disk, drawn, history>>

-----------------------------------------------------------------------------
(* get_invoice_pdf_path, then is_file() on the path it returned.           *)

FindPdf(w) ==
    /\ pc[w] = "idle"
    /\ \E i \in invoices : Become(w, "found", [found |-> i.file])
    /\ UNCHANGED <<database, writer, disk, drawn, history>>

SendPdf(w) ==
    /\ pc[w] = "found"
    /\ Finish(w)
    /\ UNCHANGED <<database, writer, disk, drawn, history>>

-----------------------------------------------------------------------------
\* The process dies: open transactions are rolled back by the next one to
\* open the database, the files stay, a file being written stays torn.
Crash ==
    /\ \E w \in Workers : pc[w] # "idle"
    /\ writer' = NoWorker
    /\ \E torn \in SUBSET {job[w].file : w \in {v \in Workers : pc[v] = "render"}} :
          disk' = [f \in Files |-> IF f \in torn THEN "torn" ELSE disk[f]]
    /\ abandoned' = abandoned \cup InProgress
    /\ pc' = [w \in Workers |-> "idle"]
    /\ job' = [w \in Workers |-> NoJob]
    /\ overtaken' = {}
    /\ UNCHANGED <<database, drawn>>

Create(w) ==
    \/ Insert(w) \/ InsertDuplicate(w) \/ InsertBusy(w)
    \/ Render(w) \/ RenderFails(w)
    \/ Commit(w) \/ CommitFails(w)
    \/ RemovePdf(w) \/ AnswerCreated(w)

Reset(w) ==
    \/ CountItems(w)
    \/ Delete(w) \/ DeleteBusy(w)
    \/ CommitDelete(w) \/ CommitDeleteFails(w)

\* A request in flight takes its next step; the first steps are the clients'.
Work(w) == Create(w) \/ Reset(w) \/ SendPdf(w)

Next ==
    \/ \E w \in Workers : StartCreate(w) \/ CountInvoices(w) \/ FindPdf(w) \/ Work(w)
    \/ Crash

Fairness == \A w \in Workers : WF_vars(Work(w))

Spec == Init /\ [][Next]_vars /\ Fairness

-----------------------------------------------------------------------------
(* Properties *)

\* The jobs a worker can have at each of its places.
JobsAt(step) ==
    CASE step = "idle"       -> {NoJob}
      [] step \in Creating   -> Creation
      [] step \in Resetting  -> Counts
      [] step = "found"      -> Lookup

Steps == {"idle", "found"} \cup Creating \cup Resetting

WorkersOK ==
    /\ pc \in [Workers -> Steps]
    /\ job = [w \in Workers |-> job[w]]
    /\ \A w \in Workers : job[w] \in JobsAt(pc[w])

StoreOK ==
    /\ invoices \subseteq Invoice /\ IsFiniteSet(invoices)
    /\ items \subseteq Item /\ IsFiniteSet(items)
    /\ sequence \in Nat

\* Every variable has its type, and a worker's job fits the place it is at.
TypeOK ==
    /\ StoreOK /\ WorkersOK
    /\ writer \in Workers \cup {NoWorker}
    /\ disk \in [Files -> {"absent", "torn", "whole"}]
    /\ drawn \in 0 .. MaxFiles
    /\ abandoned \subseteq Files /\ overtaken \subseteq Workers

\* An invoice a reader can see has its PDF complete on disk: the row appears
\* after the file is written, and no cleanup of a failed or duplicate
\* creation, no reset and no crash takes the file of a row away.
EveryInvoiceHasItsPdf == \A i \in invoices : disk[i.file] = "whole"

\* No two invoices share a number, an id or a file, whatever the order in
\* which the workers' transactions, rollbacks and resets were run.
InvoicesAreDistinct ==
    \A i, j \in invoices :
        i.id = j.id \/ i.number = j.number \/ i.file = j.file => i = j

\* The items table holds just the lines the stored totals were computed
\* from: none is missing, none is left behind by a rollback or a reset.
ItemsMatchTotals ==
    items = UNION {LinesOf(i) : i \in invoices}

\* A PDF without an invoice is only ever what a reset or a crash has left:
\* every failure the code catches removes the file it wrote.
NoStrayPdf ==
    \A f \in Files : disk[f] # "absent" =>
        \/ \E i \in invoices : i.file = f
        \/ f \in InProgress
        \/ f \in abandoned

\* A download that found the row also finds the file, although it looks for
\* it after the connection is closed and a reset may have come between.
DownloadFindsFile ==
    \A w \in Workers : pc[w] = "found" => disk[job[w].found] = "whole"

\* A reset reports at most what it deletes, unless another reset committed
\* in between: after its counts, taken outside the transaction, invoices can
\* otherwise only be added.
ResetNeverOverstates ==
    \A w \in Workers :
        pc[w] = "deleting" /\ w \notin overtaken
        => /\ job[w].invoices <= Cardinality(invoices)
           /\ job[w].items <= Cardinality(items)

\* An invoice, once committed, is neither changed nor dropped except by a
\* reset that clears the whole store.
InvoicesAreKept == [][invoices \subseteq invoices' \/ invoices' = {}]_vars

\* Every request is answered: nobody waits for the write lock for ever.
RequestsFinish == \A w \in Workers : pc[w] # "idle" ~> pc[w] = "idle"

\* What a caller of create_invoice has been told, or is waiting for.
Told(step) == IF step \in {"insert", "render", "commit"} THEN "nothing" ELSE step

CallOf(w) ==
    IF pc[w] \in Creating
    THEN [told |-> Told(pc[w]), number |-> job[w].number, total |-> job[w].lines]
    ELSE NoJob

EntryOf(i) == [id |-> i.id, number |-> i.number, total |-> i.total]

Registry == INSTANCE InvoiceRegistry WITH
    Callers  <- Workers,
    Totals   <- 1 .. MaxLines,
    Idle     <- NoJob,
    registry <- {EntryOf(i) : i \in invoices},
    call     <- [w \in Workers |-> CallOf(w)]

\* The store implements the registry: creation is atomic and exclusive for
\* its callers although row, items and PDF are written one after the other.
ImplementsRegistry == Registry!Spec
=============================================================================
