------------------------ MODULE InvoiceStore_proofs -------------------------
(***************************************************************************)
(* Theorems about InvoiceStore, for every set of workers and numbers and   *)
(* every bound.                                                            *)
(***************************************************************************)
EXTENDS InvoiceStore, FiniteSetTheorems, TLAPS

-----------------------------------------------------------------------------
(* Type correctness *)

\* What a worker at a place has for a job.
LEMMA JobsByPlace ==
    /\ \A s \in Creating : JobsAt(s) = Creation
    /\ \A s \in Resetting : JobsAt(s) = Counts
    /\ JobsAt("found") = Lookup /\ JobsAt("idle") = {NoJob}
  BY DEF JobsAt, Creating, Resetting

\* Moving one worker to a place whose job it has keeps the workers typed.
LEMMA BecomeKeepsType ==
    ASSUME NEW w \in Workers, NEW step \in Steps, NEW j \in JobsAt(step),
           WorkersOK, Become(w, step, j)
    PROVE  WorkersOK'
  BY DEF WorkersOK, Become

\* A creation adds finitely many items to the ones there are.
LEMMA LinesOfType ==
    ASSUME NEW i \in Invoice
    PROVE  LinesOf(i) \subseteq Item /\ IsFiniteSet(LinesOf(i))
<1>1. IsFiniteSet(1 .. i.total)
  BY FS_Interval, BoundsAssumption DEF Invoice
<1> DEFINE row == [l \in 1 .. i.total |-> [invoice |-> i.id, line |-> l]]
<1>2. row \in Surjection(1 .. i.total, LinesOf(i))
  BY DEF LinesOf, Surjection
<1>3. IsFiniteSet(LinesOf(i))
  BY <1>1, <1>2, FS_Surjection
<1> QED
  BY <1>3, BoundsAssumption DEF LinesOf, Item, Invoice

LEMMA TypeInit == Init => TypeOK
<1>1. Init => WorkersOK
  BY JobsByPlace DEF Init, WorkersOK, Steps
<1> QED
  BY <1>1, BoundsAssumption, FS_EmptySet DEF Init, TypeOK, StoreOK, Files

LEMMA TypeNext == TypeOK /\ [Next]_vars => TypeOK'
<1> SUFFICES ASSUME TypeOK, [Next]_vars PROVE TypeOK'
  OBVIOUS
<1> USE JobsByPlace, BecomeKeepsType DEF TypeOK, StoreOK, database, history, Finish
<1> DEFINE JobOf(w) == job[w] \in JobsAt(pc[w])
<1>w. \A w \in Workers : JobOf(w) /\ pc[w] \in Steps
  BY DEF WorkersOK
<1>1. ASSUME NEW w \in Workers, StartCreate(w) PROVE TypeOK'
  <2>1. PICK n \in Numbers, l \in 1 .. MaxLines :
           Become(w, "insert", [number |-> n, lines |-> l, file |-> drawn + 1])
    BY <1>1 DEF StartCreate
  <2>2. [number |-> n, lines |-> l, file |-> drawn + 1] \in Creation
    BY <1>1, BoundsAssumption DEF StartCreate, Creation, Files
  <2> QED
    BY <1>1, <2>1, <2>2, BoundsAssumption DEF StartCreate, Steps, Creating
<1>2. ASSUME NEW w \in Workers, CountInvoices(w) PROVE TypeOK'
  <2>1. [invoices |-> Cardinality(invoices), items |-> 0] \in Counts
    BY FS_CardinalityType DEF Counts
  <2> QED
    BY <1>2, <2>1 DEF CountInvoices, Steps, Resetting
<1>3. ASSUME NEW w \in Workers, FindPdf(w) PROVE TypeOK'
  <2>1. PICK i \in invoices : Become(w, "found", [found |-> i.file])
    BY <1>3 DEF FindPdf
  <2>2. [found |-> i.file] \in Lookup
    BY DEF Lookup, Invoice
  <2> QED
    BY <1>3, <2>1, <2>2 DEF FindPdf, Steps
<1>4. ASSUME NEW w \in Workers, Create(w) PROVE TypeOK'
  <2>1. pc[w] \in Creating /\ job[w] \in Creation
    BY <1>4, <1>w DEF Create, Insert, InsertDuplicate, InsertBusy, Render, RenderFails,
       Commit, CommitFails, RemovePdf, AnswerCreated, Creating
  <2>2. job[w] \in JobsAt("render") /\ job[w] \in JobsAt("commit")
        /\ job[w] \in JobsAt("conflict") /\ job[w] \in JobsAt("failed")
        /\ job[w] \in JobsAt("created") /\ NoJob \in JobsAt("idle")
    BY <2>1 DEF Creating
  <2>3. {"render", "commit", "conflict", "failed", "created", "idle"} \subseteq Steps
    BY DEF Steps, Creating
  <2>4. CASE Insert(w)
    BY <2>2, <2>3, <2>4 DEF Insert
  <2>5. CASE InsertDuplicate(w)
    BY <2>2, <2>3, <2>5 DEF InsertDuplicate
  <2>6. CASE InsertBusy(w)
    BY <2>2, <2>3, <2>6 DEF InsertBusy
  <2>7. CASE Render(w)
    BY <2>2, <2>3, <2>7 DEF Render
  <2>8. CASE RenderFails(w)
    BY <2>2, <2>3, <2>8 DEF RenderFails
  <2>9. CASE Commit(w)
    <3>1. InvoiceOf(job[w]) \in Invoice
      BY <2>1 DEF InvoiceOf, Invoice, Creation
    <3>2. IsFiniteSet(invoices \cup {InvoiceOf(job[w])})
      BY FS_AddElement
    <3>3. IsFiniteSet(items \cup LinesOf(InvoiceOf(job[w])))
      BY <3>1, LinesOfType, FS_Union
    <3> QED
      BY <2>2, <2>3, <2>9, <3>1, <3>2, <3>3, LinesOfType DEF Commit
  <2>10. CASE CommitFails(w)
    BY <2>2, <2>3, <2>10 DEF CommitFails
  <2>11. CASE RemovePdf(w)
    BY <2>2, <2>3, <2>11 DEF RemovePdf
  <2>12. CASE AnswerCreated(w)
    BY <2>2, <2>3, <2>12 DEF AnswerCreated
  <2> QED
    BY <1>4, <2>4, <2>5, <2>6, <2>7, <2>8, <2>9, <2>10, <2>11, <2>12 DEF Create
<1>5. ASSUME NEW w \in Workers, Reset(w) PROVE TypeOK'
  <2>1. pc[w] \in Resetting /\ job[w] \in Counts
    BY <1>5, <1>w DEF Reset, CountItems, Delete, DeleteBusy, CommitDelete,
       CommitDeleteFails, Resetting
  <2>2. job[w] \in JobsAt("deleting") /\ NoJob \in JobsAt("idle")
    BY <2>1 DEF Resetting
  <2>3. {"delete", "deleting", "idle"} \subseteq Steps
    BY DEF Steps, Resetting
  <2>4. CASE CountItems(w)
    <3>1. [job[w] EXCEPT !.items = Cardinality(items)] \in JobsAt("delete")
      BY <2>1, FS_CardinalityType DEF Counts, Resetting
    <3> QED
      BY <2>3, <2>4, <3>1 DEF CountItems
  <2>5. CASE Delete(w)
    BY <2>2, <2>3, <2>5 DEF Delete
  <2>6. CASE DeleteBusy(w)
    BY <2>2, <2>3, <2>6 DEF DeleteBusy
  <2>7. CASE CommitDelete(w)
    <3>1. {i.file : i \in invoices} \subseteq Files
      BY DEF Invoice
    <3> QED
      BY <2>2, <2>3, <2>7, <3>1, FS_EmptySet DEF CommitDelete
  <2>8. CASE CommitDeleteFails(w)
    BY <2>2, <2>3, <2>8 DEF CommitDeleteFails
  <2> QED
    BY <1>5, <2>4, <2>5, <2>6, <2>7, <2>8 DEF Reset
<1>6. ASSUME NEW w \in Workers, SendPdf(w) PROVE TypeOK'
  BY <1>6 DEF SendPdf, Steps
<1>7. CASE Crash
  <2>1. WorkersOK'
    BY <1>7 DEF Crash, WorkersOK, Steps
  <2>2. ASSUME NEW w \in Workers,
               pc[w] \in {"render", "commit", "conflict", "failed"}
        PROVE  job[w].file \in Files
    <3>1. job[w] \in Creation
      BY <1>w, <2>2 DEF Creating
    <3> QED
      BY <3>1 DEF Creation
  <2>3. abandoned' \subseteq Files
    BY <1>7, <2>2 DEF Crash, InProgress
  <2>4. disk' \in [Files -> {"absent", "torn", "whole"}]
    BY <1>7 DEF Crash
  <2> QED
    BY <1>7, <2>1, <2>3, <2>4 DEF Crash
<1>8. CASE UNCHANGED vars
  BY <1>8 DEF vars, WorkersOK
<1> QED
  BY <1>1, <1>2, <1>3, <1>4, <1>5, <1>6, <1>7, <1>8 DEF Next, Work

\* Every reachable state is well typed.
THEOREM TypeCorrect == Spec => []TypeOK
  BY TypeInit, TypeNext, PTL DEF Spec

-----------------------------------------------------------------------------
(***************************************************************************)
(* Safety.  None of the invariants is inductive alone: that a row keeps    *)
(* its file needs that no other worker, present or future, writes or       *)
(* removes a file of the same name (FilesAreOwned), that it is written     *)
(* before the commit (WrittenBeforeCommit); that numbers are distinct      *)
(* needs that the number seen free by the INSERT stays free until the      *)
(* commit (NumberReserved), because of the lock (LockIsHeld).              *)
(***************************************************************************)

\* A creation that has not committed: it may still remove its file.
Uncommitted == Creating \ {"created"}

FilesAreOwned ==
    /\ \A i \in invoices : i.file <= drawn /\ i.id <= sequence
    /\ \A w \in Workers : pc[w] \in Creating => job[w].file <= drawn
    /\ \A v, w \in Workers :
          v # w /\ pc[v] \in Creating /\ pc[w] \in Creating => job[v].file # job[w].file
    /\ \A w \in Workers : pc[w] \in Uncommitted =>
          \A i \in invoices : i.file # job[w].file
    /\ \A w \in Workers : pc[w] = "found" =>
          /\ job[w].found <= drawn
          /\ \A v \in Workers : pc[v] \in Uncommitted => job[v].file # job[w].found

LockIsHeld ==
    \A w \in Workers : pc[w] \in {"render", "commit", "deleting"} <=> writer = w

NumberReserved ==
    \A w \in Workers : pc[w] \in {"render", "commit"} => ~ NumberTaken(job[w].number)

WrittenBeforeCommit ==
    \A w \in Workers : pc[w] = "commit" => disk[job[w].file] = "whole"

IInv ==
    /\ TypeOK
    /\ FilesAreOwned /\ LockIsHeld /\ NumberReserved /\ WrittenBeforeCommit
    /\ EveryInvoiceHasItsPdf /\ InvoicesAreDistinct /\ DownloadFindsFile

LEMMA JobTypes ==
    ASSUME TypeOK, NEW w \in Workers
    PROVE  /\ pc[w] \in Creating => job[w] \in Creation
           /\ pc[w] = "found" => job[w] \in Lookup
  BY JobsByPlace DEF TypeOK, WorkersOK

\* The new job of a worker is the only thing Become changes.
LEMMA AfterBecome ==
    ASSUME TypeOK, NEW w \in Workers, NEW step, NEW j, Become(w, step, j)
    PROVE  /\ pc'[w] = step /\ job'[w] = j
           /\ \A v \in Workers : v # w => pc'[v] = pc[v] /\ job'[v] = job[v]
  BY DEF Become, TypeOK, WorkersOK

LEMMA IInvInit == Init => IInv
  BY TypeInit, WorkersAssumption DEF Init, IInv, FilesAreOwned, LockIsHeld, NumberReserved,
     WrittenBeforeCommit, EveryInvoiceHasItsPdf, InvoicesAreDistinct, DownloadFindsFile,
     Creating, Uncommitted

LEMMA IInvNext == IInv /\ [Next]_vars => IInv'
<1> SUFFICES ASSUME IInv, [Next]_vars PROVE IInv'
  OBVIOUS
<1>0. TypeOK /\ TypeOK'
  BY TypeNext DEF IInv
<1> USE <1>0 DEF IInv, database, history, Finish
<1> DEFINE Parts ==
      /\ FilesAreOwned /\ LockIsHeld /\ NumberReserved /\ WrittenBeforeCommit
      /\ EveryInvoiceHasItsPdf /\ InvoicesAreDistinct /\ DownloadFindsFile
<1>s. /\ sequence \in Nat /\ drawn \in Nat /\ invoices \subseteq Invoice
      /\ disk \in [Files -> {"absent", "torn", "whole"}]
  BY DEF TypeOK, StoreOK
<1>j. \A w \in Workers : /\ pc[w] \in Creating => job[w] \in Creation
                         /\ pc[w] = "found" => job[w] \in Lookup
  BY JobTypes
<1>1. ASSUME NEW w \in Workers, StartCreate(w) PROVE Parts'
  <2>1. PICK n \in Numbers, l \in 1 .. MaxLines :
           Become(w, "insert", [number |-> n, lines |-> l, file |-> drawn + 1])
    BY <1>1 DEF StartCreate
  <2>2. FilesAreOwned'
    BY <1>1, <1>s, <1>j, <2>1, AfterBecome
       DEF StartCreate, FilesAreOwned, Creating, Uncommitted, Invoice, Creation, Lookup, Files
  <2>3. LockIsHeld' /\ NumberReserved' /\ WrittenBeforeCommit'
    BY <1>1, <2>1, AfterBecome
       DEF StartCreate, LockIsHeld, NumberReserved, WrittenBeforeCommit, NumberTaken
  <2>4. EveryInvoiceHasItsPdf' /\ InvoicesAreDistinct' /\ DownloadFindsFile'
    BY <1>1, <2>1, AfterBecome
       DEF StartCreate, EveryInvoiceHasItsPdf, InvoicesAreDistinct, DownloadFindsFile
  <2> QED
    BY <2>2, <2>3, <2>4
<1>2. ASSUME NEW w \in Workers, NEW step \in {"idle", "count", "delete"}, NEW j,
             pc[w] \in {"idle", "count", "delete", "found", "created"}, Become(w, step, j),
             UNCHANGED <<database, writer, disk, drawn>>
      PROVE  Parts'
  <2>1. FilesAreOwned'
    BY <1>2, AfterBecome DEF FilesAreOwned, Creating, Uncommitted
  <2>2. LockIsHeld' /\ NumberReserved' /\ WrittenBeforeCommit'
    BY <1>2, AfterBecome DEF LockIsHeld, NumberReserved, WrittenBeforeCommit, NumberTaken
  <2>3. EveryInvoiceHasItsPdf' /\ InvoicesAreDistinct' /\ DownloadFindsFile'
    BY <1>2, AfterBecome DEF EveryInvoiceHasItsPdf, InvoicesAreDistinct, DownloadFindsFile
  <2> QED
    BY <2>1, <2>2, <2>3
<1>3. ASSUME NEW w \in Workers, FindPdf(w) PROVE Parts'
  <2>1. PICK i \in invoices : Become(w, "found", [found |-> i.file])
    BY <1>3 DEF FindPdf
  <2>2. FilesAreOwned'
    BY <1>3, <2>1, AfterBecome DEF FindPdf, FilesAreOwned, Creating, Uncommitted
  <2>3. LockIsHeld' /\ NumberReserved' /\ WrittenBeforeCommit'
    BY <1>3, <2>1, AfterBecome
       DEF FindPdf, LockIsHeld, NumberReserved, WrittenBeforeCommit, NumberTaken
  <2>4. EveryInvoiceHasItsPdf' /\ InvoicesAreDistinct' /\ DownloadFindsFile'
    BY <1>3, <2>1, AfterBecome
       DEF FindPdf, EveryInvoiceHasItsPdf, InvoicesAreDistinct, DownloadFindsFile
  <2> QED
    BY <2>2, <2>3, <2>4
<1>4. ASSUME NEW w \in Workers, Insert(w) PROVE Parts'
  <2>1. FilesAreOwned'
    BY <1>4, AfterBecome DEF Insert, FilesAreOwned, Creating, Uncommitted
  <2>2. LockIsHeld' /\ NumberReserved' /\ WrittenBeforeCommit'
    BY <1>4, AfterBecome, WorkersAssumption
       DEF Insert, LockIsHeld, NumberReserved, WrittenBeforeCommit, NumberTaken
  <2>3. EveryInvoiceHasItsPdf' /\ InvoicesAreDistinct' /\ DownloadFindsFile'
    BY <1>4, AfterBecome
       DEF Insert, EveryInvoiceHasItsPdf, InvoicesAreDistinct, DownloadFindsFile
  <2> QED
    BY <2>1, <2>2, <2>3
<1>5. ASSUME NEW w \in Workers, InsertDuplicate(w) \/ InsertBusy(w) PROVE Parts'
  <2>1. FilesAreOwned'
    BY <1>5, AfterBecome DEF InsertDuplicate, InsertBusy, FilesAreOwned, Creating, Uncommitted
  <2>2. LockIsHeld' /\ NumberReserved' /\ WrittenBeforeCommit'
    BY <1>5, AfterBecome
       DEF InsertDuplicate, InsertBusy, LockIsHeld, NumberReserved, WrittenBeforeCommit,
           NumberTaken
  <2>3. EveryInvoiceHasItsPdf' /\ InvoicesAreDistinct' /\ DownloadFindsFile'
    BY <1>5, AfterBecome
       DEF InsertDuplicate, InsertBusy, EveryInvoiceHasItsPdf, InvoicesAreDistinct,
           DownloadFindsFile
  <2> QED
    BY <2>1, <2>2, <2>3
<1>6. ASSUME NEW w \in Workers, Render(w) PROVE Parts'
  <2>1. FilesAreOwned'
    BY <1>6, <1>s, <1>j, AfterBecome
       DEF Render, FilesAreOwned, Creating, Uncommitted
  <2>2. LockIsHeld' /\ NumberReserved' /\ WrittenBeforeCommit'
    BY <1>6, <1>s, <1>j, AfterBecome, WorkersAssumption
       DEF Render, LockIsHeld, NumberReserved, WrittenBeforeCommit,
           NumberTaken, FilesAreOwned, Creating, Creation, Uncommitted
  <2>3. EveryInvoiceHasItsPdf' /\ InvoicesAreDistinct' /\ DownloadFindsFile'
    BY <1>6, <1>s, <1>j, AfterBecome
       DEF Render, EveryInvoiceHasItsPdf, InvoicesAreDistinct, DownloadFindsFile,
           FilesAreOwned, Creating, Creation, Uncommitted, Invoice, Lookup
  <2> QED
    BY <2>1, <2>2, <2>3
<1>7. ASSUME NEW w \in Workers, RenderFails(w) PROVE Parts'
  <2>1. FilesAreOwned'
    BY <1>7, <1>s, <1>j, AfterBecome
       DEF RenderFails, FilesAreOwned, Creating, Uncommitted
  <2>2. LockIsHeld' /\ NumberReserved' /\ WrittenBeforeCommit'
    BY <1>7, <1>s, <1>j, AfterBecome, WorkersAssumption
       DEF RenderFails, LockIsHeld, NumberReserved, WrittenBeforeCommit,
           NumberTaken, FilesAreOwned, Creating, Creation, Uncommitted
  <2>3. EveryInvoiceHasItsPdf' /\ InvoicesAreDistinct' /\ DownloadFindsFile'
    BY <1>7, <1>s, <1>j, AfterBecome
       DEF RenderFails, EveryInvoiceHasItsPdf, InvoicesAreDistinct, DownloadFindsFile,
           FilesAreOwned, Creating, Creation, Uncommitted, Invoice, Lookup
  <2> QED
    BY <2>1, <2>2, <2>3
<1>8. ASSUME NEW w \in Workers, Commit(w) PROVE Parts'
  <2> DEFINE new == InvoiceOf(job[w])
  <2>1. /\ new.id = sequence + 1 /\ new.number = job[w].number /\ new.file = job[w].file
        /\ invoices' = invoices \cup {new} /\ pc[w] = "commit" /\ job[w] \in Creation
        /\ sequence' = sequence + 1 /\ drawn' = drawn /\ disk' = disk /\ writer' = NoWorker
        /\ Become(w, "created", job[w])
    BY <1>8, <1>j DEF Commit, InvoiceOf, Creating
  <2> HIDE DEF new
  <2>2. FilesAreOwned'
    BY <2>1, <1>s, <1>j, AfterBecome
       DEF FilesAreOwned, Creating, Uncommitted, Creation, Invoice, Files
  <2>3. LockIsHeld' /\ NumberReserved' /\ WrittenBeforeCommit'
    BY <2>1, <1>s, <1>j, AfterBecome, WorkersAssumption
       DEF LockIsHeld, NumberReserved, WrittenBeforeCommit, NumberTaken
  <2>4. InvoicesAreDistinct'
    BY <2>1, <1>s, <1>j
       DEF InvoicesAreDistinct, NumberReserved, NumberTaken, FilesAreOwned, Invoice,
           Uncommitted, Creating
  <2>5. EveryInvoiceHasItsPdf' /\ DownloadFindsFile'
    BY <2>1, AfterBecome DEF EveryInvoiceHasItsPdf, DownloadFindsFile, WrittenBeforeCommit
  <2> QED
    BY <2>2, <2>3, <2>4, <2>5
<1>9. ASSUME NEW w \in Workers, CommitFails(w) PROVE Parts'
  <2>1. FilesAreOwned'
    BY <1>9, <1>s, <1>j, AfterBecome
       DEF CommitFails, FilesAreOwned, Creating, Uncommitted
  <2>2. LockIsHeld' /\ NumberReserved' /\ WrittenBeforeCommit'
    BY <1>9, <1>s, <1>j, AfterBecome, WorkersAssumption
       DEF CommitFails, LockIsHeld, NumberReserved, WrittenBeforeCommit,
           NumberTaken, FilesAreOwned, Creating, Creation, Uncommitted
  <2>3. EveryInvoiceHasItsPdf' /\ InvoicesAreDistinct' /\ DownloadFindsFile'
    BY <1>9, <1>s, <1>j, AfterBecome
       DEF CommitFails, EveryInvoiceHasItsPdf, InvoicesAreDistinct, DownloadFindsFile,
           FilesAreOwned, Creating, Creation, Uncommitted, Invoice, Lookup
  <2> QED
    BY <2>1, <2>2, <2>3
<1>10. ASSUME NEW w \in Workers, RemovePdf(w) PROVE Parts'
  <2>1. FilesAreOwned'
    BY <1>10, <1>s, <1>j, AfterBecome
       DEF RemovePdf, FilesAreOwned, Creating, Uncommitted
  <2>2. LockIsHeld' /\ NumberReserved' /\ WrittenBeforeCommit'
    BY <1>10, <1>s, <1>j, AfterBecome, WorkersAssumption
       DEF RemovePdf, LockIsHeld, NumberReserved, WrittenBeforeCommit,
           NumberTaken, FilesAreOwned, Creating, Creation, Uncommitted
  <2>3. EveryInvoiceHasItsPdf' /\ InvoicesAreDistinct' /\ DownloadFindsFile'
    BY <1>10, <1>s, <1>j, AfterBecome
       DEF RemovePdf, EveryInvoiceHasItsPdf, InvoicesAreDistinct, DownloadFindsFile,
           FilesAreOwned, Creating, Creation, Uncommitted, Invoice, Lookup
  <2> QED
    BY <2>1, <2>2, <2>3
<1>11. ASSUME NEW w \in Workers, Delete(w) PROVE Parts'
  <2>1. FilesAreOwned'
    BY <1>11, <1>s, <1>j, AfterBecome
       DEF Delete, FilesAreOwned, Creating, Uncommitted
  <2>2. LockIsHeld' /\ NumberReserved' /\ WrittenBeforeCommit'
    BY <1>11, <1>s, <1>j, AfterBecome, WorkersAssumption
       DEF Delete, LockIsHeld, NumberReserved, WrittenBeforeCommit,
           NumberTaken, FilesAreOwned, Creating, Creation, Uncommitted
  <2>3. EveryInvoiceHasItsPdf' /\ InvoicesAreDistinct' /\ DownloadFindsFile'
    BY <1>11, <1>s, <1>j, AfterBecome
       DEF Delete, EveryInvoiceHasItsPdf, InvoicesAreDistinct, DownloadFindsFile,
           FilesAreOwned, Creating, Creation, Uncommitted, Invoice, Lookup
  <2> QED
    BY <2>1, <2>2, <2>3
<1>12. ASSUME NEW w \in Workers, CommitDelete(w) \/ CommitDeleteFails(w) PROVE Parts'
  <2>1. FilesAreOwned'
    BY <1>12, <1>s, <1>j, AfterBecome
       DEF CommitDelete, CommitDeleteFails, FilesAreOwned, Creating, Uncommitted
  <2>2. LockIsHeld' /\ NumberReserved' /\ WrittenBeforeCommit'
    BY <1>12, <1>s, <1>j, AfterBecome, WorkersAssumption
       DEF CommitDelete, CommitDeleteFails, LockIsHeld, NumberReserved, WrittenBeforeCommit,
           NumberTaken, FilesAreOwned, Creating, Creation, Uncommitted
  <2>3. EveryInvoiceHasItsPdf' /\ InvoicesAreDistinct' /\ DownloadFindsFile'
    BY <1>12, <1>s, <1>j, AfterBecome
       DEF CommitDelete, CommitDeleteFails, EveryInvoiceHasItsPdf, InvoicesAreDistinct, DownloadFindsFile,
           FilesAreOwned, Creating, Creation, Uncommitted, Invoice, Lookup
  <2> QED
    BY <2>1, <2>2, <2>3
<1>13. CASE Crash
  <2>1. \A w \in Workers : pc'[w] = "idle"
    BY <1>13 DEF Crash
  <2>2. FilesAreOwned' /\ LockIsHeld' /\ NumberReserved' /\ WrittenBeforeCommit'
    BY <1>13, <2>1, WorkersAssumption
       DEF Crash, FilesAreOwned, LockIsHeld, NumberReserved, WrittenBeforeCommit, Creating,
           Uncommitted
  <2>3. ASSUME NEW i \in invoices PROVE disk'[i.file] = "whole"
    <3>1. \A w \in Workers : pc[w] = "render" => job[w].file # i.file
      BY DEF FilesAreOwned, Uncommitted, Creating
    <3>2. i.file \in Files
      BY <1>s DEF Invoice
    <3> QED
      BY <1>13, <3>1, <3>2 DEF Crash, EveryInvoiceHasItsPdf
  <2>4. EveryInvoiceHasItsPdf' /\ InvoicesAreDistinct' /\ DownloadFindsFile'
    BY <1>13, <2>1, <2>3
       DEF Crash, EveryInvoiceHasItsPdf, InvoicesAreDistinct, DownloadFindsFile
  <2> QED
    BY <2>2, <2>4
<1>14. CASE UNCHANGED vars
  BY <1>14 DEF vars, FilesAreOwned, LockIsHeld, NumberReserved, NumberTaken,
     WrittenBeforeCommit, EveryInvoiceHasItsPdf, InvoicesAreDistinct, DownloadFindsFile
<1>15. ASSUME NEW w \in Workers,
              \/ CountInvoices(w) \/ CountItems(w) \/ DeleteBusy(w)
              \/ SendPdf(w) \/ AnswerCreated(w)
       PROVE  Parts'
  BY <1>15, <1>2 DEF CountInvoices, CountItems, DeleteBusy, SendPdf, AnswerCreated
<1>16. Parts'
  BY <1>1, <1>3, <1>4, <1>5, <1>6, <1>7, <1>8, <1>9, <1>10, <1>11, <1>12, <1>13, <1>14, <1>15
     DEF Next, Work, Create, Reset
<1> QED
  BY <1>16

\* The invariants hold in every reachable state.
THEOREM Invariance == Spec => []IInv
  BY IInvInit, IInvNext, PTL DEF Spec

\* A committed invoice has its complete PDF on disk: create_invoice writes it
\* before the commit, and nobody writes or removes that file again.
THEOREM InvoicesHavePdfs == Spec => []EveryInvoiceHasItsPdf
  BY Invariance, PTL DEF IInv

\* No two invoices share a number, an id or a file: the number a creation has
\* found free is still free when it commits.
THEOREM InvoicesDistinct == Spec => []InvoicesAreDistinct
  BY Invariance, PTL DEF IInv

\* A download that found a row finds the file, even when a reset has removed
\* the row in the meantime.
THEOREM DownloadsServed == Spec => []DownloadFindsFile
  BY Invariance, PTL DEF IInv

-----------------------------------------------------------------------------
(* Stray files *)

LEMMA StrayNext == IInv /\ NoStrayPdf /\ [Next]_vars => NoStrayPdf'
<1> SUFFICES ASSUME IInv, NoStrayPdf, [Next]_vars, NEW f \in Files, disk'[f] # "absent"
             PROVE  \/ \E i \in invoices' : i.file = f
                    \/ f \in InProgress'
                    \/ f \in abandoned'
  BY DEF NoStrayPdf
<1> USE DEF IInv, database, history, Finish, NoStrayPdf, InProgress
<1>0. disk \in [Files -> {"absent", "torn", "whole"}]
  BY DEF TypeOK
<1>1. ASSUME NEW w \in Workers, Create(w)
      PROVE  \/ \E i \in invoices' : i.file = f
             \/ f \in InProgress'
             \/ f \in abandoned'
  <2>1. CASE Insert(w) \/ InsertDuplicate(w) \/ InsertBusy(w) \/ AnswerCreated(w)
    BY <2>1, AfterBecome DEF Insert, InsertDuplicate, InsertBusy, AnswerCreated
  <2>2. CASE Render(w) \/ RenderFails(w)
    BY <2>2, <1>0, AfterBecome DEF Render, RenderFails
  <2>3. CASE Commit(w)
    <3>1. InvoiceOf(job[w]) \in invoices' /\ InvoiceOf(job[w]).file = job[w].file
      BY <2>3 DEF Commit, InvoiceOf
    <3> QED
      BY <2>3, <3>1, AfterBecome DEF Commit
  <2>4. CASE CommitFails(w)
    BY <2>4, AfterBecome DEF CommitFails
  <2>5. CASE RemovePdf(w)
    BY <2>5, <1>0, AfterBecome DEF RemovePdf
  <2> QED
    BY <1>1, <2>1, <2>2, <2>3, <2>4, <2>5 DEF Create
<1>2. ASSUME NEW w \in Workers, Reset(w)
      PROVE  \/ \E i \in invoices' : i.file = f
             \/ f \in InProgress'
             \/ f \in abandoned'
  BY <1>2, AfterBecome
     DEF Reset, CountItems, Delete, DeleteBusy, CommitDelete, CommitDeleteFails
<1>3. ASSUME NEW w \in Workers, StartCreate(w) \/ CountInvoices(w) \/ FindPdf(w) \/ SendPdf(w)
      PROVE  \/ \E i \in invoices' : i.file = f
             \/ f \in InProgress'
             \/ f \in abandoned'
  <2>1. PICK step \in {"insert", "count", "found", "idle"} : \E j : Become(w, step, j)
    BY <1>3 DEF StartCreate, CountInvoices, FindPdf, SendPdf
  <2>2. /\ pc[w] \in {"idle", "found"}
        /\ UNCHANGED <<invoices, disk, abandoned>>
    BY <1>3 DEF StartCreate, CountInvoices, FindPdf, SendPdf
  <2>3. PICK j : Become(w, step, j)
    BY <2>1
  <2> QED
    BY <2>2, <2>3, AfterBecome
<1>4. CASE Crash
  BY <1>4 DEF Crash
<1>5. CASE UNCHANGED vars
  BY <1>5 DEF vars
<1> QED
  BY <1>1, <1>2, <1>3, <1>4, <1>5 DEF Next, Work

\* A PDF without an invoice was left by a reset or by a crash.
THEOREM NoStrays == Spec => []NoStrayPdf
<1>1. Init => NoStrayPdf
  BY DEF Init, NoStrayPdf
<1> QED
  BY <1>1, StrayNext, Invariance, PTL DEF Spec

-----------------------------------------------------------------------------
(* Items and totals *)

LEMMA ItemsNext == IInv /\ ItemsMatchTotals /\ [Next]_vars => ItemsMatchTotals'
<1> SUFFICES ASSUME ItemsMatchTotals, [Next]_vars PROVE ItemsMatchTotals'
  OBVIOUS
<1> USE DEF ItemsMatchTotals, database
<1>1. ASSUME NEW w \in Workers, Commit(w) PROVE ItemsMatchTotals'
  <2>1. /\ invoices' = invoices \cup {InvoiceOf(job[w])}
        /\ items' = items \cup LinesOf(InvoiceOf(job[w]))
    BY <1>1 DEF Commit
  <2> HIDE DEF ItemsMatchTotals
  <2>2. items' = UNION {LinesOf(i) : i \in invoices'}
    BY <2>1 DEF ItemsMatchTotals
  <2> QED
    BY <2>2 DEF ItemsMatchTotals, LinesOf
<1>2. ASSUME NEW w \in Workers, CommitDelete(w) PROVE ItemsMatchTotals'
  BY <1>2 DEF CommitDelete
<1>3. CASE UNCHANGED <<invoices, items>>
  BY <1>3 DEF LinesOf
<1>4. \/ \E w \in Workers : Commit(w) \/ CommitDelete(w)
      \/ UNCHANGED <<invoices, items>>
  BY DEF Next, Work, Create, Reset, vars, StartCreate, CountInvoices, FindPdf, SendPdf,
     Insert, InsertDuplicate, InsertBusy, Render, RenderFails, CommitFails, RemovePdf,
     AnswerCreated, CountItems, Delete, DeleteBusy, CommitDeleteFails, Crash
<1> QED
  BY <1>1, <1>2, <1>3, <1>4

\* The items table always holds the lines the stored totals stand for.
THEOREM ItemsMatch == Spec => []ItemsMatchTotals
<1>1. Init => ItemsMatchTotals
  BY DEF Init, ItemsMatchTotals
<1> QED
  BY <1>1, ItemsNext, Invariance, PTL DEF Spec

\* Committed invoices are kept until a reset.
THEOREM InvoicesKept == Spec => InvoicesAreKept
<1>1. [Next]_vars => [invoices \subseteq invoices' \/ invoices' = {}]_vars
  BY DEF Next, Work, Create, Reset, vars, database, StartCreate, CountInvoices, FindPdf,
     SendPdf, Insert, InsertDuplicate, InsertBusy, Render, RenderFails, Commit, CommitFails,
     RemovePdf, AnswerCreated, CountItems, Delete, DeleteBusy, CommitDelete,
     CommitDeleteFails, Crash
<1> QED
  BY <1>1, PTL DEF Spec, InvoicesAreKept

-----------------------------------------------------------------------------
(* The counts a reset reports *)

\* Until another reset commits, what was counted is still there.
CountsStand ==
    \A w \in Workers : w \notin overtaken =>
        /\ pc[w] \in Resetting => job[w].invoices <= Cardinality(invoices)
        /\ pc[w] \in {"delete", "deleting"} => job[w].items <= Cardinality(items)

\* A larger set has at least as many members.
LEMMA CardinalityGrows ==
    ASSUME NEW S, NEW T, IsFiniteSet(T), S \subseteq T
    PROVE  Cardinality(S) <= Cardinality(T) /\ Cardinality(S) \in Nat /\ Cardinality(T) \in Nat
  BY FS_Subset, FS_CardinalityType

LEMMA CountsNext == TypeOK /\ TypeOK' /\ CountsStand /\ [Next]_vars => CountsStand'
<1> SUFFICES ASSUME TypeOK, TypeOK', CountsStand, [Next]_vars PROVE CountsStand'
  OBVIOUS
<1> USE DEF database, history, Finish, Resetting, CountsStand
<1>1. /\ IsFiniteSet(invoices) /\ IsFiniteSet(items)
      /\ IsFiniteSet(invoices') /\ IsFiniteSet(items')
  BY DEF TypeOK, StoreOK
<1>c. \A w \in Workers : pc[w] \in Resetting => job[w] \in Counts
  BY JobsByPlace DEF TypeOK, WorkersOK
<1>2. ASSUME NEW w \in Workers, Commit(w) PROVE CountsStand'
  <2>1. /\ Cardinality(invoices) <= Cardinality(invoices')
        /\ Cardinality(invoices) \in Nat /\ Cardinality(invoices') \in Nat
    <3>1. invoices \subseteq invoices'
      BY <1>2 DEF Commit
    <3> QED
      BY <3>1, <1>1, CardinalityGrows
  <2>2. /\ Cardinality(items) <= Cardinality(items')
        /\ Cardinality(items) \in Nat /\ Cardinality(items') \in Nat
    <3>1. items \subseteq items'
      BY <1>2 DEF Commit
    <3> QED
      BY <3>1, <1>1, CardinalityGrows
  <2> HIDE DEF CountsStand
  <2>3. ASSUME NEW v \in Workers, v \notin overtaken', pc'[v] \in Resetting
        PROVE  /\ v \notin overtaken /\ pc[v] = pc'[v]
               /\ job[v] = job'[v] /\ job[v] \in Counts
    BY <1>2, <1>c, <2>3, AfterBecome DEF Commit
  <2> QED
    BY <2>1, <2>2, <2>3 DEF CountsStand, Counts
<1>3. ASSUME NEW w \in Workers, CommitDelete(w) PROVE CountsStand'
  BY <1>3, AfterBecome DEF CommitDelete
<1>4. ASSUME NEW w \in Workers, CountInvoices(w) PROVE CountsStand'
  <2>1. Cardinality(invoices) \in Nat
    BY <1>1, FS_CardinalityType
  <2> QED
    BY <1>4, <2>1, AfterBecome DEF CountInvoices
<1>5. ASSUME NEW w \in Workers, CountItems(w) PROVE CountsStand'
  <2>1. Cardinality(items) \in Nat
    BY <1>1, FS_CardinalityType
  <2>2. job'[w].items = Cardinality(items) /\ job'[w].invoices = job[w].invoices
    BY <1>5, <1>c, AfterBecome DEF CountItems, Counts
  <2> QED
    BY <1>5, <2>1, <2>2, AfterBecome DEF CountItems
<1>6. ASSUME NEW w \in Workers, Delete(w) PROVE CountsStand'
  BY <1>6, AfterBecome DEF Delete
<1>7. CASE Crash
  BY <1>7 DEF Crash
<1>8. ASSUME NEW w \in Workers, NEW step \in {"idle", "found"} \cup Creating, NEW j,
             Become(w, step, j), UNCHANGED <<invoices, items, overtaken>>
      PROVE  CountsStand'
  BY <1>8, AfterBecome DEF Creating
<1>9. CASE UNCHANGED vars
  BY <1>9 DEF vars
<1>10. ASSUME NEW w \in Workers, Create(w), ~ Commit(w) PROVE CountsStand'
  BY <1>8, <1>10 DEF Create, Insert, InsertDuplicate, InsertBusy, Render, RenderFails,
     CommitFails, RemovePdf, AnswerCreated, Creating
<1>11. ASSUME NEW w \in Workers,
              StartCreate(w) \/ FindPdf(w) \/ SendPdf(w) \/ DeleteBusy(w) \/ CommitDeleteFails(w)
       PROVE  CountsStand'
  BY <1>8, <1>11 DEF StartCreate, FindPdf, SendPdf, DeleteBusy, CommitDeleteFails, Creating
<1> QED
  BY <1>2, <1>3, <1>4, <1>5, <1>6, <1>7, <1>9, <1>10, <1>11 DEF Next, Work, Reset

\* A reset no other reset has overtaken reports at most what it deletes.
THEOREM ResetReports == Spec => []ResetNeverOverstates
<1>1. Init => CountsStand
  BY DEF Init, CountsStand, Resetting
<1>2. CountsStand => ResetNeverOverstates
  BY DEF CountsStand, ResetNeverOverstates, Resetting
<1> QED
  BY <1>1, <1>2, CountsNext, TypeCorrect, PTL DEF Spec

-----------------------------------------------------------------------------
(***************************************************************************)
(* Refinement: InvoiceStore implements InvoiceRegistry.  Commit(w) is the  *)
(* registry's Create, the INSERT that fails UNIQUE its Refuse; the steps   *)
(* before them, those of a reset before its commit and those of a download *)
(* change nothing a caller of the registry can see.                        *)
(***************************************************************************)
entries == {EntryOf(i) : i \in invoices}
calls   == [w \in Workers |-> CallOf(w)]

\* A caller in the middle of a creation is not idle.
LEMMA CallIsNotIdle ==
    ASSUME TypeOK, NEW w \in Workers, pc[w] \in Creating
    PROVE  CallOf(w) # NoJob
<1>1. job[w] \in Creation
  BY JobTypes
<1> QED
  BY <1>1, NoJobAssumption DEF CallOf, Told, Creating, Creation

\* Become changes only what the worker itself has been told.
LEMMA CallsAfterBecome ==
    ASSUME TypeOK, NEW w \in Workers, NEW step, NEW j, Become(w, step, j)
    PROVE  calls' = [calls EXCEPT ![w] = CallOf(w)']
<1>1. \A v \in Workers : v # w => CallOf(v)' = CallOf(v)
  BY AfterBecome DEF CallOf
<1> QED
  BY <1>1 DEF calls

\* Moving between two places a caller cannot tell apart is a stutter.
LEMMA SilentStep ==
    ASSUME TypeOK, NEW w \in Workers, NEW step, NEW j, Become(w, step, j),
           CallOf(w)' = CallOf(w), UNCHANGED invoices
    PROVE  calls' = calls /\ entries' = entries
  BY CallsAfterBecome DEF calls, entries

LEMMA RegistryInit == Init => Registry!Init
  BY DEF Init, Registry!Init, CallOf, Creating

LEMMA RegistryNext ==
    IInv /\ [Next]_vars => [Registry!Next]_<<entries, calls>>
<1> SUFFICES ASSUME IInv, [Next]_vars
             PROVE  Registry!Next \/ (entries' = entries /\ calls' = calls)
  BY DEF entries, calls
<1> USE DEF database, history, Finish
<1>0. TypeOK
  BY DEF IInv
<1>j. \A w \in Workers : pc[w] \in Creating => job[w] \in Creation
  BY <1>0, JobTypes
<1>c. \A w \in Workers : calls[w] = CallOf(w)
  BY DEF calls
<1>1. ASSUME NEW w \in Workers, StartCreate(w) PROVE Registry!Ask(w)
  <2>1. PICK n \in Numbers, l \in 1 .. MaxLines :
           Become(w, "insert", [number |-> n, lines |-> l, file |-> drawn + 1])
    BY <1>1 DEF StartCreate
  <2>2. CallOf(w)' = [told |-> "nothing", number |-> n, total |-> l]
    BY <2>1, <1>0, AfterBecome DEF CallOf, Creating, Told
  <2>3. calls[w] = NoJob
    BY <1>1, <1>c DEF StartCreate, CallOf, Creating
  <2>4. calls' = [calls EXCEPT ![w] = [told |-> "nothing", number |-> n, total |-> l]]
    BY <2>1, <2>2, <1>0, CallsAfterBecome
  <2> QED
    BY <1>1, <2>3, <2>4 DEF Registry!Ask, calls, StartCreate
<1>2. ASSUME NEW w \in Workers, pc[w] \in {"insert", "render", "commit"},
             NEW step \in {"created", "conflict", "failed"}, Become(w, step, job[w])
      PROVE  /\ Registry!Waiting(w) /\ Registry!Tell(w, step)
             /\ calls[w].number = job[w].number /\ calls[w].total = job[w].lines
  <2>1. calls[w] = [told |-> "nothing", number |-> job[w].number, total |-> job[w].lines]
    BY <1>2, <1>c DEF CallOf, Creating, Told
  <2>2. CallOf(w)' = [told |-> step, number |-> job[w].number, total |-> job[w].lines]
    BY <1>2, <1>0, AfterBecome DEF CallOf, Creating, Told
  <2>3. calls[w] # NoJob
    BY <1>2, <1>0, <1>c, CallIsNotIdle DEF Creating
  <2>4. calls' = [calls EXCEPT ![w].told = step]
    BY <1>2, <1>0, <2>1, <2>2, CallsAfterBecome
  <2> QED
    BY <2>1, <2>3, <2>4 DEF Registry!Waiting, Registry!Tell, calls
<1>3. ASSUME NEW n PROVE Registry!Taken(n) <=> NumberTaken(n)
  <2>1. \A i : EntryOf(i).number = i.number
    BY DEF EntryOf
  <2> QED
    BY <2>1 DEF Registry!Taken, NumberTaken
<1>4. ASSUME NEW w \in Workers, InsertDuplicate(w) PROVE Registry!Refuse(w)
  BY <1>2, <1>3, <1>4 DEF InsertDuplicate, Registry!Refuse, calls
<1>5. ASSUME NEW w \in Workers, InsertBusy(w) \/ RenderFails(w) \/ CommitFails(w)
      PROVE  Registry!Fail(w)
  <2>1. /\ pc[w] \in {"insert", "render", "commit"} /\ Become(w, "failed", job[w])
        /\ UNCHANGED invoices
    BY <1>5 DEF InsertBusy, RenderFails, CommitFails
  <2>2. Registry!Waiting(w) /\ Registry!Tell(w, "failed")
    BY <1>2, <2>1
  <2> QED
    BY <2>1, <2>2 DEF Registry!Fail
<1>6. ASSUME NEW w \in Workers, Commit(w) PROVE Registry!Create(w)
  <2> DEFINE new == EntryOf(InvoiceOf(job[w]))
  <2>1. new = [id |-> sequence + 1, number |-> job[w].number, total |-> job[w].lines]
    BY DEF EntryOf, InvoiceOf
  <2>2. entries' = entries \cup {new}
    BY <1>6 DEF entries, Commit
  <2>3. new.id \in Nat \ {0} /\ \A i \in entries : i.id # new.id
    BY <1>0, <2>1 DEF TypeOK, StoreOK, Invoice, IInv, FilesAreOwned, entries, EntryOf
  <2>4. /\ Registry!Waiting(w) /\ Registry!Tell(w, "created")
        /\ calls[w].number = job[w].number /\ calls[w].total = job[w].lines
    BY <1>2, <1>6 DEF Commit
  <2>5. ~ Registry!Taken(job[w].number)
    BY <1>3, <1>6 DEF Commit, IInv, NumberReserved
  <2> HIDE DEF new
  <2> QED
    BY <2>1, <2>2, <2>3, <2>4, <2>5 DEF Registry!Create, calls, entries
<1>7. ASSUME NEW w \in Workers, RemovePdf(w) \/ AnswerCreated(w) PROVE Registry!Return(w)
  <2>1. /\ pc[w] \in {"created", "conflict", "failed"}
        /\ Become(w, "idle", NoJob) /\ UNCHANGED invoices
    BY <1>7 DEF RemovePdf, AnswerCreated
  <2>2. calls[w] # NoJob /\ calls[w].told # "nothing"
    <3>0. pc[w] \in Creating
      BY <2>1 DEF Creating
    <3>1. calls[w] = CallOf(w)
      BY <1>c
    <3>2. CallOf(w) = [told |-> pc[w], number |-> job[w].number, total |-> job[w].lines]
      BY <2>1, <3>0 DEF CallOf, Told
    <3> QED
      BY <1>0, <1>c, <2>1, <3>0, <3>1, <3>2, CallIsNotIdle
  <2>3. calls' = [calls EXCEPT ![w] = NoJob]
    <3>1. CallOf(w)' = NoJob
      BY <1>0, <2>1, AfterBecome DEF CallOf, Creating
    <3> QED
      BY <1>0, <2>1, <3>1, CallsAfterBecome
  <2> QED
    BY <2>1, <2>2, <2>3 DEF Registry!Return, Registry!Waiting, calls
<1>8. ASSUME NEW w \in Workers, CommitDelete(w) PROVE Registry!Clear
  <2>1. CallOf(w)' = CallOf(w)
    BY <1>8, <1>0, AfterBecome DEF CommitDelete, CallOf, Creating
  <2>2. calls' = calls
    BY <1>8, <1>0, <2>1, CallsAfterBecome DEF CommitDelete, calls
  <2> QED
    BY <1>8, <2>2 DEF CommitDelete, Registry!Clear, calls
<1>9. CASE Crash
  <2>1. \A w \in Workers : CallOf(w)' = NoJob
    BY <1>9 DEF Crash, CallOf, Creating
  <2> QED
    BY <1>9, <2>1 DEF Crash, Registry!Hangup, Registry!Next
<1>10. ASSUME NEW w \in Workers,
              \/ CountInvoices(w) \/ CountItems(w) \/ Delete(w) \/ DeleteBusy(w)
              \/ CommitDeleteFails(w) \/ FindPdf(w) \/ SendPdf(w)
       PROVE  entries' = entries /\ calls' = calls
  <2>1. PICK step \in Steps \ Creating : \E j : Become(w, step, j)
    BY <1>10 DEF CountInvoices, CountItems, Delete, DeleteBusy, CommitDeleteFails, FindPdf,
       SendPdf, Steps, Resetting, Creating
  <2>2. pc[w] \notin Creating /\ UNCHANGED invoices
    BY <1>10 DEF CountInvoices, CountItems, Delete, DeleteBusy, CommitDeleteFails, FindPdf,
       SendPdf, Creating
  <2>3. PICK j : Become(w, step, j)
    BY <2>1
  <2>4. CallOf(w)' = CallOf(w)
    BY <1>0, <2>2, <2>3, AfterBecome DEF CallOf
  <2> QED
    BY <1>0, <2>2, <2>3, <2>4, SilentStep
<1>11. ASSUME NEW w \in Workers, Insert(w) \/ Render(w)
       PROVE  entries' = entries /\ calls' = calls
  <2>1. PICK step \in {"render", "commit"} : Become(w, step, job[w])
    BY <1>11 DEF Insert, Render
  <2>2. pc[w] \in {"insert", "render"} /\ UNCHANGED invoices
    BY <1>11 DEF Insert, Render
  <2>3. CallOf(w)' = CallOf(w)
    BY <1>0, <2>1, <2>2, AfterBecome DEF CallOf, Creating, Told
  <2> QED
    BY <1>0, <2>1, <2>2, <2>3, SilentStep
<1>12. CASE UNCHANGED vars
  BY <1>12 DEF vars, entries, calls, CallOf
<1> QED
  BY <1>1, <1>4, <1>5, <1>6, <1>7, <1>8, <1>9, <1>10, <1>11, <1>12
     DEF Next, Work, Create, Reset, Registry!Next

\* Creating an invoice is atomic and exclusive for those who ask for it.
THEOREM Refinement == Spec => ImplementsRegistry
  BY RegistryInit, RegistryNext, Invariance, PTL
     DEF Spec, ImplementsRegistry, Registry!Spec, entries, calls

=============================================================================
