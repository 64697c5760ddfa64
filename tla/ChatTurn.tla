------------------------------ MODULE ChatTurn ------------------------------
(***************************************************************************)
(* The Chat service answering messages: _chat and chat_stream of           *)
(* ai_chat_memory.py over the repository of threads, messages and session  *)
(* memories, and the thread endpoints that run beside them.                *)
(*                                                                         *)
(* The handlers of POST /ai/chat and /ai/chat/stream are coroutines of one *)
(* event loop: a turn that is not awaiting something has the loop, and no  *)
(* other turn moves.  The endpoints of chat_threads.py run in a thread     *)
(* pool and slip in between any two transactions of a turn.  The language  *)
(* model and the Document service answer each await as they like.          *)
(*                                                                         *)
(* A request is known by its number; it stands for the text it carries, so *)
(* a remembered value, a draft and an invoice are known by the requests    *)
(* that supplied them.                                                     *)
(***************************************************************************)
EXTENDS Naturals, Sequences, FiniteSets

CONSTANTS
    Turns,          \* the coroutines that handle messages at the same time
    Pool,           \* the threads that run the thread endpoints
    Chats,          \* chat ids
    Texts,          \* what the patterns find in a message: subsets of Words
    DocumentFaults, \* how calls of Document go wrong: a subset of Faults
    Interruptions,  \* what may cut a turn short: a subset of Cuts
    MaxRequests,    \* bound: messages the clients send
    MaxReports,     \* bound: messages the error endpoint stores
    NoTurn, NoChat, NoDecision

\* "number": NUMBER_VALUE_PATTERN matches; "invoice": INVOICE_REQUEST_PATTERN.
Words  == {"number", "invoice"}

\* "down": UNAVAILABLE or a deadline before the invoice was created; "lost":
\* a deadline after it; "conflict": ALREADY_EXISTS; "other": any other status.
Faults == {"down", "lost", "conflict", "other"}

\* The process dies; the client of a stream goes away.
Cuts == {"crash", "disconnect"}

ASSUME NobodyAssumption == NoTurn \notin Turns /\ NoChat \notin Chats
ASSUME BoundsAssumption == MaxRequests \in Nat /\ MaxReports \in Nat
ASSUME ClientAssumption == Texts \subseteq SUBSET Words /\ DocumentFaults \subseteq Faults
ASSUME InterruptionsAssumption == Interruptions \subseteq Cuts

VARIABLES
    threads,    \* chat_threads: not there, live, or soft-deleted
    messages,   \* chat_messages: the history of each chat
    session,    \* session_memories: the state of each chat
    loop,       \* the turn that has the event loop
    pc, turn,   \* where each turn is, and its local variables
    pool,       \* what each pool thread is doing
    sent,       \* the number of messages sent so far
    reported,   \* the number of messages the error endpoint has stored
    documents,  \* the requests for which Document has created an invoice
    spent,      \* history: the requests whose text went into an invoice
    replies     \* history: what each request's client was told

stored == <<threads, messages, session>>
past   == <<documents, spent, replies>>
vars   == <<threads, messages, session, loop, pc, turn, pool, sent, reported,
            documents, spent, replies>>

-----------------------------------------------------------------------------
Requests == 1 .. MaxRequests
Nobody   == 0   \* in place of a request

Actions  == {"answer", "list", "create", "remember", "recall"}
Decision == [action : Actions, recent : BOOLEAN]

\* "memory": {"status": "answer"} of the replies about remembered values.
Statuses ==
    {"answer", "memory", "list", "missing", "created", "llm_unavailable",
     "parse_error", "document_unavailable", "conflict", "error"}

Message ==
    [role : {"user", "assistant"}, request : Requests \cup {Nobody},
     status : Statuses \cup {"none"}, diagnostics : Requests \cup {Nobody}]

\* open: current_intent is create_invoice and missing_fields is not empty.
Session ==
    [memories : SUBSET Requests, pending : BOOLEAN,
     open : BOOLEAN, draft : SUBSET Requests, last : Requests \cup {Nobody}]

NoSession ==
    [memories |-> {}, pending |-> FALSE, open |-> FALSE, draft |-> {}, last |-> Nobody]

\* _draft_to_state: a fresh dictionary.
DraftToState(draft) == [NoSession EXCEPT !.open = TRUE, !.draft = draft]

\* Mutant of WithoutScope: the draft is not popped.
WithoutIntent(s) == [s EXCEPT !.open = FALSE]

\* What clear_document_scope pops.
WithoutScope(s) == [s EXCEPT !.open = FALSE, !.draft = {}]

Turn ==
    [request : Requests \cup {Nobody}, text : SUBSET Words, streamed : BOOLEAN,
     direct : BOOLEAN, learns : BOOLEAN, decision : Decision \cup {NoDecision},
     chat : Chats \cup {NoChat}, started : Chats \cup {NoChat},
     state : Session, draft : SUBSET Requests,
     status : Statuses \cup {"none"}]

Idle ==
    [request |-> Nobody, text |-> {}, streamed |-> FALSE, direct |-> FALSE,
     learns |-> FALSE, decision |-> NoDecision, chat |-> NoChat, started |-> NoChat,
     state |-> NoSession, draft |-> {}, status |-> "none"]

UserMessage(r) ==
    [role |-> "user", request |-> r, status |-> "none", diagnostics |-> Nobody]

Answer(r, status, diagnostics) ==
    [role |-> "assistant", request |-> r, status |-> status, diagnostics |-> diagnostics]

\* Mutant of MergeDiagnostics: the latest assistant message of any turn.
MergeIntoLatest(history, r) ==
    LET answers == {i \in DOMAIN history : history[i].role = "assistant"} IN
    [i \in DOMAIN history |->
        IF i \in answers /\ \A j \in answers : j <= i
        THEN [history[i] EXCEPT !.diagnostics = r] ELSE history[i]]

\* merge_latest_assistant_metadata: the latest assistant message, if it comes
\* after the latest user message; nothing else is ever stored, so the last.
MergeDiagnostics(history, r) ==
    IF history # <<>> /\ history[Len(history)].role = "assistant"
    THEN [history EXCEPT ![Len(history)].diagnostics = r]
    ELSE history

-----------------------------------------------------------------------------
\* Where a turn waits for the model, for Document or for its client.
Awaiting ==
    {"start", "sdecide", "tokens", "decide", "remember", "recall", "answer", "list",
     "extract", "complete", "created", "learn", "background"}

\* Where it has the loop.
Running ==
    {"open", "read", "pending", "record", "recorded", "clear", "cleared", "say", "finalize"}

\* Mutant of Go: every repository call is awaited.
GoAwaiting(t, place, locals) ==
    /\ loop \in {t, NoTurn}
    /\ loop' = NoTurn
    /\ pc' = [pc EXCEPT ![t] = place]
    /\ turn' = [turn EXCEPT ![t] = locals]

\* A turn moves: it keeps the loop until the next await.
Go(t, place, locals) ==
    /\ loop \in {t, NoTurn}
    /\ loop' = IF place \in Running THEN t ELSE NoTurn
    /\ pc' = [pc EXCEPT ![t] = place]
    /\ turn' = [turn EXCEPT ![t] = locals]

\* What the client of a turn is told.  "error" is a 500, or a stream that
\* ends without a final event; NoChat, that the reply does not name a chat.
Reply(t, status, chat) ==
    replies' = [replies EXCEPT ![turn[t].request] = [status |-> status, chat |-> chat]]

End(t, status, chat) == Go(t, "idle", Idle) /\ Reply(t, status, chat)

Store(c, message) == messages' = [messages EXCEPT ![c] = Append(@, message)]

Say(t, locals, status) == Go(t, "say", [locals EXCEPT !.status = status])

Learnable == {"answer", "list", "missing", "created"}

\* _chat returns: to its client, or to the stream.
Return(t) ==
    IF turn[t].streamed
    THEN Go(t, "finalize", turn[t]) /\ UNCHANGED replies
    ELSE End(t, turn[t].status, turn[t].chat)

\* ensure_chat_thread: the chat asked for if it lives, otherwise a new one.
Ensure(asked, c) ==
    IF asked # NoChat /\ threads[asked] = "live"
    THEN c = asked /\ UNCHANGED threads
    ELSE threads[c] = "unused" /\ threads' = [threads EXCEPT ![c] = "live"]

\* Bound: the chats not used yet are enough for the turns that may need one.
Room ==
    Cardinality({t \in Turns :
        /\ pc[t] \in {"start", "sdecide", "open"}
        /\ turn[t].chat # NoChat => threads[turn[t].chat] # "live"})
        <= Cardinality({c \in Chats : threads[c] = "unused"})

\* A chat id that a client has.
Known == {c \in Chats : threads[c] # "unused"} \cup {NoChat}

\* _guard_chat_decision
Guarded(text, d) ==
    IF d.action \in {"list", "create"} /\ "invoice" \notin text
    THEN [d EXCEPT !.action = "answer"] ELSE d

\* An open draft takes every message; memory questions about the recent
\* conversation are ordinary ones.
Routed(s, d) ==
    CASE s.open -> "create"
      [] ~ s.open /\ d.action \in {"remember", "recall"} /\ d.recent -> "answer"
      [] OTHER -> d.action

SuppliesPending(t, s) == s.pending /\ "number" \in turn[t].text

\* Once decided, _chat goes to the await of its action; but asked to recall
\* with nothing remembered, it may, and without a draft will, say so at once.
Act(t, locals) ==
    LET action   == Routed(locals.state, locals.decision)
        nothing  == locals.state.memories = {}
    IN
    \/ /\ ~ (action = "recall" /\ nothing)
       /\ Go(t, IF action = "create" THEN "extract" ELSE action, locals)
    \/ /\ locals.decision.action = "recall" /\ nothing
       /\ Say(t, locals, "memory")

Init ==
    /\ threads = [c \in Chats |-> "unused"]
    /\ messages = [c \in Chats |-> <<>>]
    /\ session = [c \in Chats |-> NoSession]
    /\ loop = NoTurn
    /\ pc = [t \in Turns |-> "idle"]
    /\ turn = [t \in Turns |-> Idle]
    /\ pool = [p \in Pool |-> [chat |-> NoChat, state |-> NoSession]]
    /\ sent = 0 /\ reported = 0
    /\ documents = {} /\ spent = {}
    /\ replies = [r \in Requests |-> [status |-> "none", chat |-> NoChat]]

-----------------------------------------------------------------------------
(* chat_stream *)

\* POST /ai/chat/stream up to the start event, which is sent before anything
\* is stored but the thread.
Stream(t) ==
    /\ pc[t] = "idle" /\ sent < MaxRequests
    /\ sent' = sent + 1
    /\ \E text \in Texts, asked \in Known, c \in Chats :
          /\ Ensure(asked, c)
          /\ Go(t, "start", [Idle EXCEPT !.request = sent + 1, !.text = text,
                   !.streamed = TRUE, !.learns = TRUE, !.chat = c, !.started = c])
    /\ UNCHANGED <<messages, session, pool, reported, past>>
    /\ Room'

\* The start event is out; a value the user was asked for is left to chat().
Started(t) ==
    /\ pc[t] = "start"
    /\ LET s == session[turn[t].chat] IN
          Go(t, IF SuppliesPending(t, s) THEN "open" ELSE "sdecide",
             [turn[t] EXCEPT !.state = s])
    /\ UNCHANGED <<stored, pool, sent, reported, past>>

\* No decision: the stream stores question and answer itself.
StreamUndecided(t) ==
    /\ pc[t] = "sdecide"
    /\ \E status \in {"llm_unavailable", "parse_error"} :
          Say(t, [turn[t] EXCEPT !.direct = TRUE], status)
    /\ Store(turn[t].chat, UserMessage(turn[t].request))
    /\ UNCHANGED <<threads, session, pool, sent, reported, past>>

\* Mutant of StreamDecided: the question is stored before it is known whether
\* _chat is going to store it.
StreamDecidedEarly(t) ==
    /\ pc[t] = "sdecide"
    /\ \E d \in Decision :
          LET decision == Guarded(turn[t].text, d)
              local    == [turn[t] EXCEPT !.decision = decision]
          IN  IF Routed(turn[t].state, decision) = "answer"
              THEN Go(t, "tokens", [local EXCEPT !.direct = TRUE])
              ELSE Go(t, "open", [local EXCEPT !.learns = FALSE])
    /\ Store(turn[t].chat, UserMessage(turn[t].request))
    /\ UNCHANGED <<threads, session, pool, sent, reported, past>>

\* Everything but an ordinary answer is left to _chat, which reads the
\* session again and may find it changed.
StreamDecided(t) ==
    /\ pc[t] = "sdecide"
    /\ \E d \in Decision :
          LET decision == Guarded(turn[t].text, d)
              local    == [turn[t] EXCEPT !.decision = decision]
          IN  IF Routed(turn[t].state, decision) = "answer"
              THEN /\ Go(t, "tokens", [local EXCEPT !.direct = TRUE])
                   /\ Store(turn[t].chat, UserMessage(turn[t].request))
              ELSE /\ Go(t, "open", [local EXCEPT !.learns = FALSE])
                   /\ UNCHANGED messages
    /\ UNCHANGED <<threads, session, pool, sent, reported, past>>

\* The answer has been streamed, or the model failed before its end.
Streamed(t) ==
    /\ pc[t] = "tokens"
    /\ \E status \in {"answer", "llm_unavailable"} : Say(t, turn[t], status)
    /\ UNCHANGED <<stored, pool, sent, reported, past>>

\* _chat has left the learning to the stream, and the answer is of a kind to learn from.
Deferred(t) == ~ turn[t].learns /\ turn[t].status \in {"list", "missing", "created"}

\* Mutant of Finalize: every turn left to _chat is learned from.
FinalizeAlwaysLearning(t) ==
    /\ pc[t] = "finalize"
    /\ messages' = [messages EXCEPT ![turn[t].chat] = MergeDiagnostics(@, turn[t].request)]
    /\ Reply(t, turn[t].status, turn[t].chat)
    /\ Go(t, "background", turn[t])
    /\ UNCHANGED <<threads, session, pool, sent, reported, documents, spent>>

\* Mutant of Finalize: the final event names the chat of the start event.
FinalizeWhereStarted(t) ==
    /\ pc[t] = "finalize"
    /\ messages' = [messages EXCEPT ![turn[t].chat] = MergeDiagnostics(@, turn[t].request)]
    /\ Reply(t, turn[t].status, turn[t].started)
    /\ IF Deferred(t)
       THEN Go(t, "background", turn[t])
       ELSE Go(t, "idle", Idle)
    /\ UNCHANGED <<threads, session, pool, sent, reported, documents, spent>>

\* finalize_response on what _chat returned, then the final event.
Finalize(t) ==
    /\ pc[t] = "finalize"
    /\ messages' = [messages EXCEPT ![turn[t].chat] = MergeDiagnostics(@, turn[t].request)]
    /\ Reply(t, turn[t].status, turn[t].chat)
    /\ IF Deferred(t)
       THEN Go(t, "background", turn[t])
       ELSE Go(t, "idle", Idle)
    /\ UNCHANGED <<threads, session, pool, sent, reported, documents, spent>>

\* The client goes away: the generator is cancelled where it waits.
Disconnect(t) ==
    /\ "disconnect" \in Interruptions
    /\ pc[t] \in Awaiting \ {"background"} /\ turn[t].streamed
    /\ Go(t, "idle", Idle)
    /\ UNCHANGED <<stored, pool, sent, reported, past>>

-----------------------------------------------------------------------------
(* _chat *)

\* POST /ai/chat; a streamed turn comes here from Started or StreamDecided.
Send(t) ==
    /\ pc[t] = "idle" /\ sent < MaxRequests
    /\ sent' = sent + 1
    /\ \E text \in Texts, asked \in Known :
          Go(t, "open", [Idle EXCEPT !.request = sent + 1, !.text = text,
                !.learns = TRUE, !.chat = asked])
    /\ UNCHANGED <<stored, pool, reported, past>>
    /\ Room'

\* The thread is looked up, or looked up again, and the question is stored.
Open(t) ==
    /\ pc[t] = "open"
    /\ \E c \in Chats :
          /\ Ensure(turn[t].chat, c)
          /\ Store(c, UserMessage(turn[t].request))
          /\ Go(t, "read", [turn[t] EXCEPT !.chat = c])
    /\ UNCHANGED <<session, pool, sent, reported, past>>

\* Mutant of Read: what the stream has read before is taken for the session.
ReadOnce(t) ==
    /\ pc[t] = "read"
    /\ LET s     == IF turn[t].streamed THEN turn[t].state ELSE session[turn[t].chat]
            local == [turn[t] EXCEPT !.state = s]
       IN  CASE SuppliesPending(t, s)        -> Go(t, "pending", local)
             [] ~ SuppliesPending(t, s) /\ local.decision = NoDecision ->
                   Go(t, "decide", local)
             [] OTHER -> Act(t, local)
    /\ UNCHANGED <<stored, pool, sent, reported, past>>

\* The session is read once, for all that follows but a created invoice.
Read(t) ==
    /\ pc[t] = "read"
    /\ LET s     == session[turn[t].chat]
            local == [turn[t] EXCEPT !.state = s]
       IN  CASE SuppliesPending(t, s)        -> Go(t, "pending", local)
             [] ~ SuppliesPending(t, s) /\ local.decision = NoDecision ->
                   Go(t, "decide", local)
             [] OTHER -> Act(t, local)
    /\ UNCHANGED <<stored, pool, sent, reported, past>>

\* Mutant of SavePending: the list of remembered values is started afresh.
SaveOnlyPending(t) ==
    /\ pc[t] = "pending"
    /\ session' = [session EXCEPT ![turn[t].chat] =
          [turn[t].state EXCEPT !.memories = {turn[t].request}, !.pending = FALSE]]
    /\ Say(t, turn[t], "memory")
    /\ UNCHANGED <<threads, messages, pool, sent, reported, past>>

SavePending(t) ==
    /\ pc[t] = "pending"
    /\ session' = [session EXCEPT ![turn[t].chat] =
          [turn[t].state EXCEPT !.memories = @ \cup {turn[t].request}, !.pending = FALSE]]
    /\ Say(t, turn[t], "memory")
    /\ UNCHANGED <<threads, messages, pool, sent, reported, past>>

Undecided(t) ==
    /\ pc[t] = "decide"
    /\ \E status \in {"llm_unavailable", "parse_error"} : Say(t, turn[t], status)
    /\ UNCHANGED <<stored, pool, sent, reported, past>>

Decided(t) ==
    /\ pc[t] = "decide"
    /\ \E d \in Decision :
          Act(t, [turn[t] EXCEPT !.decision = Guarded(turn[t].text, d)])
    /\ UNCHANGED <<stored, pool, sent, reported, past>>

\* remember_memory: what is written is the session as read before the await.
Remembered(t) ==
    /\ pc[t] = "remember"
    /\ \/ /\ Say(t, turn[t], "llm_unavailable")
          /\ UNCHANGED session
       \/ /\ Say(t, turn[t], "memory")
          /\ \E s \in { [turn[t].state EXCEPT !.memories = @ \cup {turn[t].request}],
                        [turn[t].state EXCEPT !.pending = TRUE],
                        session[turn[t].chat] } :
                session' = [session EXCEPT ![turn[t].chat] = s]
    /\ UNCHANGED <<threads, messages, pool, sent, reported, past>>

\* recall_memory: a failure of the model is not caught here.
Recalled(t) ==
    /\ pc[t] = "recall"
    /\ \/ Say(t, turn[t], "memory") /\ UNCHANGED replies
       \/ End(t, "error", NoChat)
    /\ UNCHANGED <<stored, pool, sent, reported, documents, spent>>

Answered(t) ==
    /\ pc[t] = "answer"
    /\ \E status \in {"answer", "llm_unavailable"} : Say(t, turn[t], status)
    /\ UNCHANGED <<stored, pool, sent, reported, past>>

\* A reply made without storing an answer; a stream still finalizes it.
Unavailable(t) ==
    IF turn[t].streamed
    THEN Go(t, "finalize", [turn[t] EXCEPT !.status = "document_unavailable"])
         /\ UNCHANGED replies
    ELSE End(t, "document_unavailable", turn[t].chat)

Listed(t) ==
    /\ pc[t] = "list"
    /\ \/ Say(t, turn[t], "list") /\ UNCHANGED replies
       \/ "down" \in DocumentFaults /\ Unavailable(t)
       \/ "other" \in DocumentFaults /\ End(t, "error", NoChat)
    /\ UNCHANGED <<stored, pool, sent, reported, documents, spent>>

\* A merge of drafts that does not validate leaves the new fields alone.
Merged(old, new) == {old \cup new, new}

\* The new fields are merged into the draft as read before the awaits; what
\* cannot be parsed counts as no fields.
Extracted(t) ==
    /\ pc[t] = "extract"
    /\ \/ /\ \E new \in {{turn[t].request}, {}} :
              \E draft \in Merged(turn[t].state.draft, new) :
                 Go(t, "complete", [turn[t] EXCEPT !.draft = draft])
          /\ UNCHANGED replies
       \/ "down" \in DocumentFaults /\ End(t, "llm_unavailable", NoChat)
       \/ "other" \in DocumentFaults /\ End(t, "error", NoChat)
    /\ UNCHANGED <<stored, pool, sent, reported, documents, spent>>

\* CompleteDraft finds fields missing: the session becomes the draft.
Missing(t) ==
    /\ pc[t] = "complete"
    /\ session' = [session EXCEPT ![turn[t].chat] = DraftToState(turn[t].draft)]
    /\ Say(t, turn[t], "missing")
    /\ UNCHANGED <<threads, messages, pool, sent, reported, past>>

\* CompleteDraft finds nothing missing: Document creates the invoice, while
\* the turn goes on waiting for its answer.
Complete(t) ==
    /\ pc[t] = "complete" /\ turn[t].draft # {}
    /\ documents' = documents \cup {turn[t].request}
    /\ spent' = spent \cup turn[t].draft
    /\ pc' = [pc EXCEPT ![t] = "created"]
    /\ UNCHANGED <<stored, loop, turn, pool, sent, reported, replies>>

\* Mutant of Completed: a call that did not answer is taken for a creation.
CompletedAnyway(t) ==
    /\ pc[t] \in {"complete", "created"}
    /\ Go(t, "record", turn[t]) /\ UNCHANGED replies
    /\ UNCHANGED <<stored, pool, sent, reported, documents, spent>>

\* The answer arrives, or the deadline does.
Completed(t) ==
    /\ pc[t] = "created"
    /\ \/ Go(t, "record", turn[t]) /\ UNCHANGED replies
       \/ "lost" \in DocumentFaults /\ Unavailable(t)
    /\ UNCHANGED <<stored, pool, sent, reported, documents, spent>>

NotCompleted(t) ==
    /\ pc[t] = "complete"
    /\ \/ "conflict" \in DocumentFaults
          /\ End(t, IF turn[t].streamed THEN "error" ELSE "conflict", NoChat)
       \/ "down" \in DocumentFaults /\ Unavailable(t)
       \/ "other" \in DocumentFaults /\ End(t, "error", NoChat)
    /\ UNCHANGED <<stored, pool, sent, reported, documents, spent>>

\* Mutant of ReadSession: the session as it was before the awaits.
KeepSession(t) ==
    /\ pc[t] \in {"record", "clear"}
    /\ Go(t, IF pc[t] = "record" THEN "recorded" ELSE "cleared", turn[t])
    /\ UNCHANGED <<stored, pool, sent, reported, past>>

\* After a creation: get_session_state, upsert with last_document_id, then
\* clear_document_scope, which reads and writes once more.
ReadSession(t) ==
    /\ pc[t] \in {"record", "clear"}
    /\ Go(t, IF pc[t] = "record" THEN "recorded" ELSE "cleared",
          [turn[t] EXCEPT !.state = session[turn[t].chat]])
    /\ UNCHANGED <<stored, pool, sent, reported, past>>

RecordDocument(t) ==
    /\ pc[t] = "recorded"
    /\ session' = [session EXCEPT ![turn[t].chat] =
          [turn[t].state EXCEPT !.last = turn[t].request]]
    /\ Go(t, "clear", turn[t])
    /\ UNCHANGED <<threads, messages, pool, sent, reported, past>>

ClearScope(t) ==
    /\ pc[t] = "cleared"
    /\ session' = [session EXCEPT ![turn[t].chat] = WithoutScope(turn[t].state)]
    /\ Say(t, turn[t], "created")
    /\ UNCHANGED <<threads, messages, pool, sent, reported, past>>

\* The answer is stored.  What _chat answers is then learned from, when it
\* is asked to and the answer is of a kind to learn from.
StoreAnswer(t) ==
    /\ pc[t] = "say"
    /\ LET r == turn[t].request
            status == turn[t].status
       IN
       /\ Store(turn[t].chat, Answer(r, status, IF turn[t].direct THEN r ELSE Nobody))
       /\ CASE turn[t].direct ->
               /\ Reply(t, status, turn[t].chat)
               /\ IF status = "answer" THEN Go(t, "background", turn[t])
                                       ELSE Go(t, "idle", Idle)
            [] ~ turn[t].direct /\ turn[t].learns /\ status \in Learnable ->
               Go(t, "learn", turn[t]) /\ UNCHANGED replies
            [] OTHER -> Return(t)
    /\ UNCHANGED <<threads, session, pool, sent, reported, documents, spent>>

\* The chat whose history a turn is learned from: a stream has kept the id of
\* its start event, even if _chat had to open another chat since.
LearnedChat(t) == IF pc[t] = "learn" THEN turn[t].chat ELSE turn[t].started

\* _learn_from_turn: whatever goes wrong in it is swallowed; what it saves is
\* in the memories shared by all chats.
Learn(t) ==
    /\ pc[t] \in {"learn", "background"}
    /\ IF pc[t] = "learn" THEN Return(t) ELSE Go(t, "idle", Idle) /\ UNCHANGED replies
    /\ UNCHANGED <<stored, pool, sent, reported, documents, spent>>

-----------------------------------------------------------------------------
(* The thread endpoints, in the pool *)

CreateThread(c) ==
    /\ threads[c] = "unused"
    /\ threads' = [threads EXCEPT ![c] = "live"]
    /\ UNCHANGED <<messages, session, loop, pc, turn, pool, sent, reported, past>>
    /\ Room'

DeleteThread(c) ==
    /\ threads[c] = "live"
    /\ threads' = [threads EXCEPT ![c] = "deleted"]
    /\ UNCHANGED <<messages, session, loop, pc, turn, pool, sent, reported, past>>
    /\ Room'

\* POST /chat-threads/{chat_id}/errors
ReportError(c) ==
    /\ threads[c] = "live" /\ reported < MaxReports
    /\ Store(c, Answer(Nobody, "error", Nobody))
    /\ reported' = reported + 1
    /\ UNCHANGED <<threads, session, loop, pc, turn, pool, sent, past>>

\* DELETE /chat-threads/{chat_id}/session-memory/document-scope
ReadScope(p) ==
    /\ pool[p].chat = NoChat
    /\ \E c \in Chats :
          /\ threads[c] = "live"
          /\ pool' = [pool EXCEPT ![p] = [chat |-> c, state |-> session[c]]]
    /\ UNCHANGED <<stored, loop, pc, turn, sent, reported, past>>

\* Mutant of WriteScope: the intent is withdrawn, the draft stays.
WriteIntent(p) ==
    /\ pool[p].chat # NoChat
    /\ session' = [session EXCEPT ![pool[p].chat] = WithoutIntent(pool[p].state)]
    /\ pool' = [pool EXCEPT ![p] = [chat |-> NoChat, state |-> NoSession]]
    /\ UNCHANGED <<threads, messages, loop, pc, turn, sent, reported, past>>

\* What was read is written back, whatever a turn has written since.
WriteScope(p) ==
    /\ pool[p].chat # NoChat
    /\ session' = [session EXCEPT ![pool[p].chat] = WithoutScope(pool[p].state)]
    /\ pool' = [pool EXCEPT ![p] = [chat |-> NoChat, state |-> NoSession]]
    /\ UNCHANGED <<threads, messages, loop, pc, turn, sent, reported, past>>

-----------------------------------------------------------------------------
\* The process dies and is started again; the database keeps what was committed.
Crash ==
    /\ "crash" \in Interruptions /\ \E t \in Turns : pc[t] # "idle"
    /\ loop' = NoTurn
    /\ pc' = [t \in Turns |-> "idle"]
    /\ turn' = [t \in Turns |-> Idle]
    /\ pool' = [p \in Pool |-> [chat |-> NoChat, state |-> NoSession]]
    /\ UNCHANGED <<stored, sent, reported, past>>

StreamStep(t) ==
    Started(t) \/ StreamUndecided(t) \/ StreamDecided(t) \/ Streamed(t) \/ Finalize(t)

ChatStep(t) ==
    \/ Open(t) \/ Read(t) \/ SavePending(t) \/ Undecided(t) \/ Decided(t)
    \/ Remembered(t) \/ Recalled(t) \/ Answered(t) \/ Listed(t)
    \/ Extracted(t) \/ Missing(t)
    \/ Complete(t) \/ Completed(t) \/ NotCompleted(t)
    \/ ReadSession(t) \/ RecordDocument(t) \/ ClearScope(t)
    \/ StoreAnswer(t) \/ Learn(t)

Step(t) == StreamStep(t) \/ ChatStep(t)

Endpoint ==
    \/ \E c \in Chats : CreateThread(c) \/ DeleteThread(c) \/ ReportError(c)
    \/ \E p \in Pool : ReadScope(p) \/ WriteScope(p)

Next ==
    \/ \E t \in Turns : Stream(t) \/ Send(t) \/ Step(t) \/ Disconnect(t)
    \/ Endpoint
    \/ Crash

Spec == Init /\ [][Next]_vars

-----------------------------------------------------------------------------
(* Properties *)

PoolThread == [chat : Chats \cup {NoChat}, state : Session]

Outcome ==
    [status : Statuses \cup {"none"}, chat : Chats \cup {NoChat}]

StoreOK ==
    /\ threads \in [Chats -> {"unused", "live", "deleted"}]
    /\ messages \in [Chats -> Seq(Message)]
    /\ session \in [Chats -> Session]

TurnsOK ==
    /\ loop \in Turns \cup {NoTurn}
    /\ pc \in [Turns -> Awaiting \cup Running \cup {"idle"}]
    /\ turn \in [Turns -> Turn]
    /\ pool \in [Pool -> PoolThread]

HistoryOK ==
    /\ sent \in 0 .. MaxRequests /\ reported \in 0 .. MaxReports
    /\ documents \subseteq Requests /\ spent \subseteq Requests
    /\ replies \in [Requests -> Outcome]

\* Types, and the loop: a turn that is not waiting has it.
TypeOK ==
    /\ StoreOK /\ TurnsOK /\ HistoryOK
    /\ \A t \in Turns : pc[t] \in Running => loop = t

\* The places in the history of chat c of the question of request r, and of
\* its answer.
Questions(c, r) ==
    {i \in DOMAIN messages[c] :
        messages[c][i].role = "user" /\ messages[c][i].request = r}

Answers(c, r) ==
    {i \in DOMAIN messages[c] :
        messages[c][i].role = "assistant" /\ messages[c][i].request = r}

\* However a turn goes, and whichever of its four places stores the question
\* (chat_stream in three of them, _chat in the other), a request has at most
\* one question and one answer in all the chats, and the answer comes after
\* the question and in the same chat.
OneQuestionOneAnswer ==
    \A r \in Requests : \A c, d \in Chats :
        /\ \A i \in Questions(c, r) : \A j \in Questions(d, r) : <<c, i>> = <<d, j>>
        /\ \A i \in Answers(c, r) :
               /\ Answers(c, r) = {i}
               /\ \E q \in Questions(c, r) : q < i

\* What a client is told with a chat id can be read in that chat afterwards,
\* 503s of Document excepted: the message was stored before the reply.
RepliesAreStored ==
    \A r \in Requests :
        LET reply == replies[r] IN
        reply.chat # NoChat /\ reply.status # "document_unavailable" =>
            \E i \in Answers(reply.chat, r) :
                messages[reply.chat][i].status = reply.status

\* What a session holds was asked for in its own chat: values remembered,
\* drafts and the last document, whatever chats the turns were at work on.
SessionsStayInTheirChat ==
    \A c \in Chats :
        \A r \in session[c].memories \cup session[c].draft
                   \cup ({session[c].last} \ {Nobody}) : Questions(c, r) # {}

\* last_document_id and {"status": "created"} are about invoices that
\* Document has created.
DocumentsAreReal ==
    /\ \A c \in Chats : session[c].last \in documents \cup {Nobody}
    /\ \A r \in Requests : replies[r].status = "created" => r \in documents

\* A turn is learned from when its answer is in the history that is read for
\* it, unless that chat was deleted under the turn: never one that failed or
\* only waited for Document.
LearnsFromAnswers ==
    \A t \in Turns : pc[t] \in {"learn", "background"} =>
        LET c == LearnedChat(t) IN
        threads[c] = "live" =>
            \E i \in Answers(c, turn[t].request) : messages[c][i].status \in Learnable

\* When the answer to a created invoice is stored, the session names that
\* invoice and its document scope is closed, whatever the other turns did.
CreatedClosesScope ==
    \A t \in Turns : pc[t] = "say" /\ turn[t].status = "created" =>
        LET s == session[turn[t].chat] IN
        s.last = turn[t].request /\ ~ s.open /\ s.draft = {}

\* One turn at a time: once a chat rests, what went into an invoice is not in its draft
\* any more, so that the next message cannot be merged into an invoice that exists.
SpentDraftIsCleared ==
    \A c \in Chats : session[c].draft \cap spent # {} =>
        \E t \in Turns : turn[t].chat = c

\* One turn at a time in a chat: once the clients have been told of every invoice created
\* for a chat, nothing that went into one of them is in the draft of the chat, whatever faults,
\* disconnects and crashes there were on the way; the next message cannot be merged into
\* an invoice that exists.  Nor does a pool thread that has read the session while the draft
\* was open bring it back.
ToldDraftIsCleared ==
    \A c \in Chats :
        (\A r \in documents : Questions(c, r) # {} => replies[r].status = "created")
            => session[c].draft \cap spent = {}

\* The diagnostics stored with an answer are those of its own turn, as long as no error
\* is reported: a report, like a second turn, is the last message when it is in between.
DiagnosticsBelongToTheirTurn ==
    reported = 0 =>
        \A c \in Chats : \A i \in DOMAIN messages[c] :
            messages[c][i].diagnostics \in {Nobody, messages[c][i].request}

\* One turn at a time in a chat: remembered values and the last document are lost only
\* by a step that opens or updates a document scope.
OnlyDraftsForget ==
    [][\A c \in Chats :
          \/ session[c].memories \subseteq session'[c].memories
             /\ (session[c].last # Nobody => session'[c].last # Nobody)
          \/ \E t \in Turns :
                turn[t].chat = c /\ pc[t] = "complete" /\ session'[c].open]_vars

\* Values a user asked to be remembered stay in the memory of the chat.
RequestedMemoryLasts ==
    [][\A c \in Chats : session[c].memories \subseteq session'[c].memories]_vars

\* What the histories hold of the conversation: who asked and who was answered, where.
QuestionsOf(history) == {i \in DOMAIN history : history[i].role = "user"}

AnswersOf(history) ==
    {i \in DOMAIN history : history[i].role = "assistant" /\ history[i].request # Nobody}

QuestionAt(c, i) == [request |-> messages[c][i].request, chat |-> c, place |-> i]

AnswerAt(c, i) ==
    [request |-> messages[c][i].request, chat |-> c, place |-> i,
     status |-> messages[c][i].status]

Talk == INSTANCE Conversation WITH
    Failures  <- {"error", "conflict", "llm_unavailable"},
    Untold    <- [status |-> "none", chat |-> NoChat],
    questions <- UNION {{QuestionAt(c, i) : i \in QuestionsOf(messages[c])} : c \in Chats},
    answers   <- UNION {{AnswerAt(c, i) : i \in AnswersOf(messages[c])} : c \in Chats},
    told      <- replies

\* The turns keep the promises of Conversation, whichever of the four places stores
\* the question and however far a stream gets before it leaves the rest to _chat.
ImplementsConversation == Talk!Spec
=============================================================================
