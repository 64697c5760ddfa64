--------------------------- MODULE DraftCompletion ---------------------------
(***************************************************************************)
(* How a draft becomes an invoice over several messages: Chat extracts a   *)
(* draft from each message, merges it into the one its session keeps and   *)
(* sends it to Document, which asks for what is missing or creates the     *)
(* invoice; and how a form is completed by HTTP, with items in free text.  *)
(*                                                                         *)
(* A chat sends one message at a time (ChatTurn has turns that overlap),   *)
(* and the transaction of create_invoice is one step (InvoiceStore has its *)
(* parts).  What the model extracts is any draft that validates; one that  *)
(* does not is replaced by an empty draft.                                 *)
(***************************************************************************)
EXTENDS InvoiceDraft

CONSTANTS
    Chats,      \* the chats that draft an invoice
    Forms,      \* the clients that complete a form
    Offers      \* the items people name: a set of sequences

ASSUME CallersAssumption == Chats \cap Forms = {}
ASSUME OffersAssumption == Offers \subseteq Seq(Item)

VARIABLES
    session,    \* the draft in the session of each chat
    call,       \* the call of each chat and each form
    form,       \* what each form holds and which of its fields are shown
    numbers,    \* invoice numbers in use at Document
    told,       \* history: the latest of everything a chat was told for its draft
    whole,      \* history: each message since the draft was opened was merged
    asked,      \* history: what a chat asked for last
    message     \* history: the draft of the message a chat handles

history == <<told, whole, asked, message>>
vars    == <<session, call, form, numbers, told, whole, asked, message>>

-----------------------------------------------------------------------------
Callers == Chats \cup Forms

Phases   == {"idle", "completing", "answered"}
Statuses == {"none", "missing", "created", "conflict", "invalid", "unavailable", "failed"}

\* draft: what was sent; result: the draft Document works on; filled: a form
\* in which every field that was shown has been filled in.
Call ==
    [phase : Phases, draft : Fields, result : Fields, status : Statuses,
     missing : SUBSET Needed, filled : BOOLEAN]

NoCall ==
    [phase |-> "idle", draft |-> EmptyDraft, result |-> EmptyDraft, status |-> "none",
     missing |-> {}, filled |-> FALSE]

Form == [draft : Fields, shown : SUBSET FieldDefinitions]

\* What the model extracts: the schema of the extraction has no free text.
Extractable ==
    {d \in [texts : [TextFields -> Maybe(Values)], issue_date : Maybe(Dates),
            due_date : Maybe(Dates), items : Offers \cup {<<>>}, raw_items : {None}] : Valid(d)}

\* What a listener would remember: the latest of every field.
Remember(known, d) ==
    LET Latest(old, new, none) == IF new = none THEN old ELSE new
    IN  [texts |-> [f \in TextFields |-> Latest(known.texts[f], d.texts[f], None)],
         issue_date |-> Latest(known.issue_date, d.issue_date, None),
         due_date |-> Latest(known.due_date, d.due_date, None),
         items |-> Latest(known.items, d.items, <<>>),
         raw_items |-> None]

\* So far every message for this draft, the one at hand included, was merged.
Merged(c) ==
    whole[c] /\ (session[c] # None => call[c].draft = DeepMerge(session[c], message[c]))

-----------------------------------------------------------------------------
Init ==
    /\ session = [c \in Chats |-> None]
    /\ call = [c \in Callers |-> NoCall]
    /\ form = [f \in Forms |-> [draft |-> EmptyDraft, shown |-> {}]]
    /\ numbers = {}
    /\ told = [c \in Chats |-> EmptyDraft]
    /\ whole = [c \in Chats |-> TRUE]
    /\ asked = [c \in Chats |-> {}]
    /\ message = [c \in Chats |-> EmptyDraft]

\* A message: the draft Document extracts from it, merged into the session's.
Send(c) ==
    /\ call[c].phase = "idle"
    /\ \E d \in Extractable :
          /\ message' = [message EXCEPT ![c] = d]
          /\ call' = [call EXCEPT ![c] =
                [NoCall EXCEPT !.phase = "completing", !.draft = NextDraft(session[c], d)]]
    /\ UNCHANGED <<session, form, numbers, told, whole, asked>>

Ends(c, status) ==
    call' = [call EXCEPT ![c].phase = "answered", ![c].status = status]

\* complete_draft from the analysis on: there is no await between its steps.
Completed(c, d) ==
    \/ /\ Missing(d) # {}
       /\ call' = [call EXCEPT ![c].phase = "answered", ![c].status = "missing",
                               ![c].result = d, ![c].missing = Missing(d)]
       /\ UNCHANGED numbers
    \/ /\ Missing(d) = {} /\ ~CreateAccepts(d)
       /\ Ends(c, "invalid")
       /\ UNCHANGED numbers
    \/ /\ Missing(d) = {} /\ CreateAccepts(d)
       /\ d.texts["invoice_number"] \in numbers
       /\ Ends(c, "conflict")
       /\ UNCHANGED numbers
    \/ /\ Missing(d) = {} /\ CreateAccepts(d)
       /\ d.texts["invoice_number"] \notin numbers
       /\ call' = [call EXCEPT ![c].phase = "answered", ![c].status = "created",
                               ![c].result = d]
       /\ numbers' = numbers \cup {d.texts["invoice_number"]}

\* What Chat sends arrives as a protobuf message and has to validate again.
CompleteDraft(c) ==
    /\ call[c].phase = "completing"
    /\ LET d == FromProto(ToProto(call[c].draft))
       IN  \/ Valid(d) /\ Completed(c, d)
           \/ ~Valid(d) /\ Ends(c, "invalid") /\ UNCHANGED numbers
    /\ UNCHANGED <<session, form, history>>

\* The request does not reach Document in time, or its answer not Chat.
Unavailable(c) ==
    /\ call[c].phase \in {"completing", "answered"} /\ call[c].status # "unavailable"
    /\ Ends(c, "unavailable")
    /\ UNCHANGED <<session, form, numbers, history>>

\* Chat keeps the draft it sent and asks for what is missing.
Ask(c) ==
    /\ call[c].phase = "answered" /\ call[c].status = "missing"
    /\ session' = [session EXCEPT ![c] = call[c].draft]
    /\ call' = [call EXCEPT ![c] = NoCall]
    /\ told' = [told EXCEPT ![c] = Remember(@, message[c])]
    /\ whole' = [whole EXCEPT ![c] = Merged(c)]
    /\ asked' = [asked EXCEPT ![c] = call[c].missing]
    /\ message' = [message EXCEPT ![c] = EmptyDraft]
    /\ UNCHANGED <<form, numbers>>

\* The invoice is there: clear_document_scope.
Report(c) ==
    /\ call[c].phase = "answered" /\ call[c].status = "created"
    /\ session' = [session EXCEPT ![c] = None]
    /\ call' = [call EXCEPT ![c] = NoCall]
    /\ told' = [told EXCEPT ![c] = EmptyDraft]
    /\ whole' = [whole EXCEPT ![c] = TRUE]
    /\ asked' = [asked EXCEPT ![c] = {}]
    /\ message' = [message EXCEPT ![c] = EmptyDraft]
    /\ UNCHANGED <<form, numbers>>

\* 409, 500 or 503: the message leaves nothing behind.
Fail(c) ==
    /\ call[c].phase = "answered" /\ call[c].status \in {"conflict", "invalid", "unavailable"}
    /\ call' = [call EXCEPT ![c] = NoCall]
    /\ message' = [message EXCEPT ![c] = EmptyDraft]
    /\ UNCHANGED <<session, form, numbers, told, whole, asked>>

-----------------------------------------------------------------------------
(* Forms. *)

Post(f, d, filled) ==
    /\ call' = [call EXCEPT ![f] = [NoCall EXCEPT
            !.phase = "completing", !.draft = d, !.result = d, !.filled = filled]]
    /\ UNCHANGED <<session, form, numbers, history>>

\* A draft that was extracted from a message is opened in a form.
Submit(f) ==
    /\ call[f].phase = "idle" /\ form[f].shown = {}
    /\ \E d \in Extractable : Post(f, d, FALSE)

\* The fields that are shown are filled in, the items as text.
Fill(f) ==
    /\ call[f].phase = "idle" /\ form[f].shown # {}
    /\ \E v \in Values, day \in Dates :
          LET old == form[f].draft
              Put(field, new, keep) == IF field \in form[f].shown THEN new ELSE keep
              d == [old EXCEPT
                      !.texts = [field \in TextFields |-> Put(field, v, old.texts[field])],
                      !.issue_date = Put("issue_date", day, @),
                      !.raw_items = Put("items", v, @)]
          IN  Valid(d) /\ Post(f, d, TRUE)

\* _normalize_raw_invoice_items: the model turns the text into items.
Normalize(f) ==
    /\ call[f].phase = "completing" /\ call[f].result.raw_items # None
    /\ \E items \in Offers \cup {<<>>} :
          LET d == [call[f].result EXCEPT !.items = items, !.raw_items = None]
          IN  Valid(d) /\ call' = [call EXCEPT ![f].result = d]
    /\ UNCHANGED <<session, form, numbers, history>>

\* The model is away (503), what it answers is no list of items (422), or it is one of more
\* items than a draft may have, which nobody catches (500).
NormalizeFails(f) ==
    /\ call[f].phase = "completing" /\ call[f].result.raw_items # None
    /\ \E status \in {"unavailable", "invalid", "failed"} : Ends(f, status)
    /\ UNCHANGED <<session, form, numbers, history>>

CompleteForm(f) ==
    /\ call[f].phase = "completing" /\ call[f].result.raw_items = None
    /\ Completed(f, call[f].result)
    /\ UNCHANGED <<session, form, history>>

\* The form keeps what it has; a created invoice or an error closes it.
AnswerForm(f) ==
    /\ call[f].phase = "answered"
    /\ call' = [call EXCEPT ![f] = NoCall]
    /\ form' = [form EXCEPT ![f] =
          IF call[f].status = "missing"
          THEN [draft |-> call[f].draft, shown |-> FieldsToShow(call[f].missing)]
          ELSE [draft |-> EmptyDraft, shown |-> {}]]
    /\ UNCHANGED <<session, numbers, history>>

Next ==
    \/ \E c \in Chats :
          Send(c) \/ CompleteDraft(c) \/ Unavailable(c) \/ Ask(c) \/ Report(c) \/ Fail(c)
    \/ \E f \in Forms :
          Submit(f) \/ Fill(f) \/ Normalize(f) \/ NormalizeFails(f) \/ CompleteForm(f)
             \/ AnswerForm(f)

Spec == Init /\ [][Next]_vars

-----------------------------------------------------------------------------
(* Everything a chat was told for its draft, with the message it handles. *)
Heard(c) == Remember(told[c], message[c])

\* Drafts, calls and forms are made of fields of their types.
TypeOK ==
    /\ session \in [Chats -> Maybe(Fields)]
    /\ call \in [Callers -> Call]
    /\ form \in [Forms -> Form]
    /\ numbers \subseteq Values
    /\ told \in [Chats -> Fields] /\ message \in [Chats -> Fields]
    /\ whole \in [Chats -> BOOLEAN]
    /\ asked \in [Chats -> SUBSET Needed]

\* A draft of Chat never draws an INVALID_ARGUMENT, which _chat does not
\* handle: what was validated here validates there after the conversions, and
\* what misses nothing is accepted by InvoiceCreate.
DocumentAcceptsDrafts == \A c \in Chats : call[c].status # "invalid"

\* got is what heard is; it may be absent after a merge that did not validate.
Says(c, got, heard) == got = heard \/ (got = None /\ ~Merged(c))

\* An invoice says what the chat was told last, field by field, over all the
\* messages of its draft; a field is left out only after a merge that did
\* not validate.
InvoicesSayWhatWasTold ==
    \A c \in Chats : call[c].status = "created" =>
        LET made == call[c].result
        IN  /\ \A f \in TextFields : Says(c, made.texts[f], Heard(c).texts[f])
            /\ Says(c, made.issue_date, Heard(c).issue_date)
            /\ Says(c, made.due_date, Heard(c).due_date)
            /\ made.items = Heard(c).items

\* As long as every merge validates, no text and no date that any message
\* of the draft gave is asked for.
KnownTextsAreNotAsked ==
    \A c \in Chats : call[c].status = "missing" /\ Merged(c) =>
        /\ \A f \in TextFields : Field(f) \in call[c].missing => Heard(c).texts[f] = None
        /\ Field("issue_date") \in call[c].missing => Heard(c).issue_date = None

\* A message that gives everything the chat asked for, its items in full,
\* is not answered by another question.
AnsweringCreates ==
    \A c \in Chats :
        /\ call[c].status = "missing" /\ Merged(c) /\ asked[c] # {}
        /\ message[c].items # <<>>
        /\ \A i \in DOMAIN message[c].items : ItemAccepted(message[c].items[i])
        => \/ \E f \in TextFields : Field(f) \in asked[c] /\ message[c].texts[f] = None
           \/ Field("issue_date") \in asked[c] /\ message[c].issue_date = None

\* A form whose shown fields have all been filled in misses nothing but what
\* the model has not found in the text of its items.
FilledFormsMissOnlyItems ==
    \A f \in Forms : call[f].status = "missing" /\ call[f].filled =>
        /\ call[f].draft.raw_items # None
        /\ \A m \in call[f].missing : m.field = "items"

\* session-memory.md: "continue across multiple messages without asking the
\* user to repeat information".
NothingIsAskedTwice ==
    \A c \in Chats : call[c].status = "missing" /\ Field("items") \in call[c].missing =>
        Heard(c).items = <<>>
=============================================================================
