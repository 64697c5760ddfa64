------------------------- MODULE ChatSessions_proofs -------------------------
(***************************************************************************)
(* What a session holds was asked for in its own chat.  The invariant has  *)
(* to say it as well of everything that is on its way into a session: the  *)
(* copies that turns and pool threads read before they write, the drafts   *)
(* being completed, and the request a turn is about, from the moment its   *)
(* question is stored.  Because messages are never removed, what was asked *)
(* stays asked, and only the step that moves has to be looked at.          *)
(***************************************************************************)
EXTENDS ChatHistory_proofs

\* m stands for messages or for messages'.
AskedIn(m, c, r) ==
    \E i \in DOMAIN m[c] : m[c][i].role = "user" /\ m[c][i].request = r

HeldBy(s) == s.memories \cup s.draft \cup ({s.last} \ {Nobody})

Holds(m, c, s) == \A r \in HeldBy(s) : AskedIn(m, c, r)

\* Where the question of a turn is stored and its session is in use.
Working ==
    {"read", "pending", "decide", "remember", "recall", "answer", "list", "extract",
     "complete", "created", "record", "recorded", "clear", "cleared"}

LocalsHold(m, place, l) ==
    /\ place \in Working => AskedIn(m, l.chat, l.request)
    /\ place \in Working \ {"read"} => Holds(m, l.chat, l.state)
    /\ place \in {"complete", "created"} => \A r \in l.draft : AskedIn(m, l.chat, r)

HoldInv ==
    /\ \A c \in Chats : Holds(messages, c, session[c])
    /\ \A t \in Turns : LocalsHold(messages, pc[t], turn[t])
    /\ \A p \in Pool : pool[p].chat # NoChat => Holds(messages, pool[p].chat, pool[p].state)

\* From m to n no question is lost.
Kept(m, n) == \A c \in Chats : \A r : AskedIn(m, c, r) => AskedIn(n, c, r)

LEMMA HoldInvImplies == HoldInv => SessionsStayInTheirChat
BY DEF HoldInv, Holds, HeldBy, AskedIn, SessionsStayInTheirChat, Questions

-----------------------------------------------------------------------------
(* The building blocks of the actions. *)

LEMMA HoldsKept ==
    ASSUME NEW m, NEW n, Kept(m, n), NEW c \in Chats, NEW s, Holds(m, c, s)
    PROVE  Holds(n, c, s)
BY DEF Kept, Holds

LEMMA LocalsKept ==
    ASSUME NEW m, NEW n, Kept(m, n), NEW place, NEW l,
           place \in Working => l.chat \in Chats, LocalsHold(m, place, l)
    PROVE  LocalsHold(n, place, l)
BY HoldsKept DEF Kept, LocalsHold, Working

LEMMA GrowsKeeps ==
    ASSUME NEW m, NEW n, Grows(m, n)
    PROVE  Kept(m, n)
BY DEF Grows, Kept, AskedIn

LEMMA StoreKeeps ==
    ASSUME NEW c \in Chats, NEW message, Store(c, message), StoreOK
    PROVE  /\ Kept(messages, messages')
           /\ message.role = "user" => AskedIn(messages', c, message.request)
<1>1. Kept(messages, messages')
  BY StoreGrows, GrowsKeeps
<1>2. message.role = "user" => AskedIn(messages', c, message.request)
  <2>1. Len(messages[c]) + 1 \in DOMAIN messages'[c]
        /\ messages'[c][Len(messages[c]) + 1] = message
    BY StoreEffect
  <2> QED BY <2>1 DEF AskedIn
<1> QED BY <1>1, <1>2

LEMMA MergeKeeps ==
    ASSUME NEW c \in Chats, NEW r \in Requests, StoreOK,
           messages' = [messages EXCEPT ![c] = MergeDiagnostics(@, r)]
    PROVE  Kept(messages, messages')
BY MergeGrows, GrowsKeeps

LEMMA GoHolds ==
    ASSUME LoopOK, HoldInv, Kept(messages, messages'), NEW t \in Turns, NEW place, NEW locals,
           Go(t, place, locals), LocalsHold(messages', place, locals)
    PROVE  \A u \in Turns : LocalsHold(messages', pc'[u], turn'[u])
<1> TAKE u \in Turns
<1>1. CASE u = t
  BY <1>1 DEF Go, LoopOK
<1>2. CASE u # t
  <2>1. pc'[u] = pc[u] /\ turn'[u] = turn[u]
    BY <1>2 DEF Go, LoopOK
  <2>2. pc[u] \in Working => turn[u].chat \in Chats
    BY DEF LoopOK, LocalsOK, Chatting, Working, Places, Awaiting, Running
  <2>3. LocalsHold(messages, pc[u], turn[u])
    BY DEF HoldInv
  <2> QED BY <2>1, <2>2, <2>3, LocalsKept
<1> QED BY <1>1, <1>2

\* A turn that ends, answers or is finalized is not at work any more.
LEMMA LeaveHolds ==
    ASSUME LoopOK, HoldInv, Kept(messages, messages'), NEW t \in Turns,
           \/ \E place, locals : place \notin Working /\ Go(t, place, locals)
           \/ \E locals, status : Say(t, locals, status)
           \/ \E status, chat : End(t, status, chat)
           \/ Return(t)
           \/ Unavailable(t)
    PROVE  \A u \in Turns : LocalsHold(messages', pc'[u], turn'[u])
<1>1. PICK place, locals : place \notin Working /\ Go(t, place, locals)
  BY DEF Say, End, Return, Unavailable, Working
<1>2. LocalsHold(messages', place, locals)
  BY <1>1 DEF LocalsHold, Working
<1> QED BY <1>1, <1>2, GoHolds

\* The session and the pool are as they were.
LEMMA QuietHolds ==
    ASSUME TypeInv, HoldInv, Kept(messages, messages'), UNCHANGED <<session, pool>>,
           \A u \in Turns : LocalsHold(messages', pc'[u], turn'[u])
    PROVE  HoldInv'
<1>1. \A c \in Chats : Holds(messages', c, session'[c])
  BY HoldsKept DEF HoldInv
<1>2. \A p \in Pool : pool'[p].chat # NoChat => Holds(messages', pool'[p].chat, pool'[p].state)
  BY HoldsKept DEF HoldInv, TypeInv, PoolOK, PoolThread
<1> QED BY <1>1, <1>2 DEF HoldInv

\* A turn writes a session that holds what was asked in its chat.
LEMMA WriteHolds ==
    ASSUME TypeInv, HoldInv, NEW c \in Chats, NEW s, Holds(messages, c, s),
           session' = [session EXCEPT ![c] = s], UNCHANGED <<messages, pool>>,
           \A u \in Turns : LocalsHold(messages', pc'[u], turn'[u])
    PROVE  HoldInv'
BY DEF HoldInv, TypeInv, StoreOK

LEMMA SameKept ==
    ASSUME UNCHANGED messages
    PROVE  Kept(messages, messages')
BY DEF Kept, AskedIn

-----------------------------------------------------------------------------
(* The steps. *)

\* Steps that touch no session and end or leave the turn at no use of one.
LEMMA OtherStepHolds ==
    ASSUME TypeInv, HoldInv, NEW t \in Turns,
           \/ Stream(t) \/ Send(t) \/ StreamStep(t) \/ Disconnect(t)
           \/ Undecided(t) \/ Recalled(t) \/ Answered(t) \/ Listed(t) \/ NotCompleted(t)
           \/ StoreAnswer(t) \/ Learn(t)
    PROVE  HoldInv'
<1>0. LoopOK /\ StoreOK
  BY DEF TypeInv
<1>1. UNCHANGED <<session, pool>>
  BY DEF Stream, Send, StreamStep, Started, StreamUndecided, StreamDecided, Streamed, Finalize,
     Disconnect, Undecided, Recalled, Answered, Listed, NotCompleted, StoreAnswer, Learn, stored
<1>2. Kept(messages, messages')
  <2>1. CASE UNCHANGED messages
    BY <2>1, SameKept
  <2>2. CASE StreamUndecided(t) \/ StreamDecided(t) \/ StoreAnswer(t)
    <3>1. turn[t].chat \in Chats
      BY <1>0, <2>2, AtWork DEF StreamUndecided, StreamDecided, StoreAnswer
    <3>2. UNCHANGED messages \/ \E message : Store(turn[t].chat, message)
      BY <2>2 DEF StreamUndecided, StreamDecided, StoreAnswer
    <3> QED BY <1>0, <3>1, <3>2, StoreKeeps, SameKept
  <2>3. CASE Finalize(t)
    <3>1. turn[t].chat \in Chats /\ turn[t].request \in Requests
      BY <1>0, <2>3, AtWork DEF Finalize
    <3> QED BY <1>0, <2>3, <3>1, MergeKeeps DEF Finalize
  <2> QED
    BY <2>1, <2>2, <2>3
    DEF Stream, Send, StreamStep, Started, Streamed, Disconnect, Undecided, Recalled, Answered,
        Listed, NotCompleted, Learn, stored
<1>3. \/ \E place, locals : place \notin Working /\ Go(t, place, locals)
      \/ \E locals, status : Say(t, locals, status)
      \/ \E status, chat : End(t, status, chat)
      \/ Return(t)
      \/ Unavailable(t)
  <2>1. {"start", "open", "sdecide", "tokens", "background", "idle", "learn"} \cap Working = {}
    BY DEF Working
  <2>2. CASE Stream(t)
    BY <2>1, <2>2 DEF Stream
  <2>3. CASE Send(t)
    BY <2>1, <2>3 DEF Send
  <2>4. CASE Started(t)
    <3>1. CASE SuppliesPending(t, session[turn[t].chat])
      BY <2>1, <2>4, <3>1 DEF Started
    <3>2. CASE ~ SuppliesPending(t, session[turn[t].chat])
      BY <2>1, <2>4, <3>2 DEF Started
    <3> QED BY <3>1, <3>2
  <2>5. CASE StreamUndecided(t) \/ Streamed(t) \/ Undecided(t) \/ Answered(t)
    BY <2>5 DEF StreamUndecided, Streamed, Undecided, Answered
  <2>6. CASE StreamDecided(t)
    BY <2>1, <2>6 DEF StreamDecided
  <2>7. CASE Finalize(t) \/ Disconnect(t)
    BY <2>1, <2>7 DEF Finalize, Disconnect
  <2>8. CASE Recalled(t) \/ Listed(t) \/ NotCompleted(t)
    BY <2>8 DEF Recalled, Listed, NotCompleted
  <2>9. CASE StoreAnswer(t)
    <3>1. CASE turn[t].direct
      BY <2>1, <2>9, <3>1 DEF StoreAnswer
    <3>2. CASE ~ turn[t].direct
      BY <2>1, <2>9, <3>2 DEF StoreAnswer
    <3> QED BY <3>1, <3>2
  <2>10. CASE Learn(t)
    BY <2>1, <2>10 DEF Learn
  <2> QED BY <2>2, <2>3, <2>4, <2>5, <2>6, <2>7, <2>8, <2>9, <2>10 DEF StreamStep
<1>4. \A u \in Turns : LocalsHold(messages', pc'[u], turn'[u])
  BY <1>0, <1>2, <1>3, LeaveHolds
<1> QED BY <1>1, <1>2, <1>4, QuietHolds

\* The question is stored, so what it is about is asked.
LEMMA OpenHolds ==
    ASSUME TypeInv, HoldInv, NEW t \in Turns, Open(t)
    PROVE  HoldInv'
<1>0. LoopOK /\ StoreOK
  BY DEF TypeInv
<1>1. turn[t] \in Turn
  BY <1>0, AtWork DEF Open
<1>2. PICK c \in Chats :
        /\ Store(c, UserMessage(turn[t].request))
        /\ Go(t, "read", [turn[t] EXCEPT !.chat = c])
  BY DEF Open
<1>3. Kept(messages, messages') /\ AskedIn(messages', c, turn[t].request)
  BY <1>0, <1>2, StoreKeeps DEF UserMessage
<1>4. LocalsHold(messages', "read", [turn[t] EXCEPT !.chat = c])
  BY <1>1, <1>3 DEF LocalsHold, Turn
<1>5. \A u \in Turns : LocalsHold(messages', pc'[u], turn'[u])
  BY <1>0, <1>2, <1>3, <1>4, GoHolds
<1> QED BY <1>3, <1>5, QuietHolds DEF Open

\* What a turn at work knows of its chat.
LEMMA AtWorkHolds ==
    ASSUME TypeInv, HoldInv, NEW t \in Turns, pc[t] \in Working
    PROVE  /\ turn[t] \in Turn /\ turn[t].request \in Requests /\ turn[t].chat \in Chats
           /\ turn[t].state \in Session
           /\ AskedIn(messages, turn[t].chat, turn[t].request)
           /\ pc[t] # "read" => Holds(messages, turn[t].chat, turn[t].state)
           /\ pc[t] \in {"complete", "created"} =>
                 \A r \in turn[t].draft : AskedIn(messages, turn[t].chat, r)
<1>1. turn[t] \in Turn /\ turn[t].request \in Requests /\ turn[t].chat \in Chats
  BY AtWork DEF TypeInv, Working
<1>2. turn[t].state \in Session
  BY <1>1 DEF Turn
<1>3. LocalsHold(messages, pc[t], turn[t])
  BY DEF HoldInv
<1> QED BY <1>1, <1>2, <1>3 DEF LocalsHold

\* Going on with the locals as they are for the chat and the session.
LEMMA ActHolds ==
    ASSUME TypeInv, HoldInv, NEW t \in Turns, NEW locals, UNCHANGED messages,
           Act(t, locals),
           AskedIn(messages, locals.chat, locals.request),
           Holds(messages, locals.chat, locals.state),
           locals.decision \in Decision
    PROVE  \A u \in Turns : LocalsHold(messages', pc'[u], turn'[u])
<1> DEFINE action == Routed(locals.state, locals.decision)
           place  == IF action = "create" THEN "extract" ELSE action
<1>1. action \in Actions
  BY DEF Routed, Decision, Actions
<1>2. place \notin {"complete", "created"}
  BY <1>1 DEF Actions
<1>3. LocalsHold(messages', place, locals)
  BY <1>2 DEF LocalsHold
<1>4. CASE Go(t, place, locals)
  BY <1>3, <1>4, GoHolds, SameKept DEF TypeInv
<1>5. CASE Say(t, locals, "memory")
  BY <1>5, LeaveHolds, SameKept DEF TypeInv
<1> QED BY <1>4, <1>5 DEF Act

LEMMA DecideStepHolds ==
    ASSUME TypeInv, HoldInv, NEW t \in Turns, Read(t) \/ Decided(t)
    PROVE  HoldInv'
<1>0. UNCHANGED <<session, pool, messages>> /\ Kept(messages, messages') /\ LoopOK
  BY SameKept DEF Read, Decided, stored, TypeInv
<1>1. CASE Read(t)
  <2> DEFINE s     == session[turn[t].chat]
             local == [turn[t] EXCEPT !.state = s]
  <2>1. turn[t] \in Turn /\ turn[t].chat \in Chats
        /\ AskedIn(messages, turn[t].chat, turn[t].request)
    BY <1>1, AtWorkHolds DEF Read, Working
  <2>2. Holds(messages, turn[t].chat, s)
    BY <2>1 DEF HoldInv
  <2>3. local.chat = turn[t].chat /\ local.request = turn[t].request /\ local.state = s
        /\ local.decision = turn[t].decision
    BY <2>1 DEF Turn
  <2>4. LocalsHold(messages', "pending", local) /\ LocalsHold(messages', "decide", local)
    BY <1>0, <2>1, <2>2, <2>3 DEF LocalsHold
  <2>5. CASE Go(t, "pending", local) \/ Go(t, "decide", local)
    BY <1>0, <2>4, <2>5, GoHolds, QuietHolds
  <2>6. CASE Act(t, local) /\ local.decision # NoDecision
    <3>1. local.decision \in Decision
      BY <2>1, <2>3, <2>6 DEF Turn
    <3> QED BY <1>0, <2>1, <2>2, <2>3, <2>6, <3>1, ActHolds, QuietHolds
  <2>7. CASE SuppliesPending(t, s)
    BY <1>1, <2>5, <2>7 DEF Read
  <2>8. CASE ~ SuppliesPending(t, s) /\ local.decision = NoDecision
    BY <1>1, <2>5, <2>8 DEF Read
  <2>9. CASE ~ SuppliesPending(t, s) /\ local.decision # NoDecision
    BY <1>1, <2>6, <2>9 DEF Read
  <2> QED BY <2>7, <2>8, <2>9
<1>2. CASE Decided(t)
  <2>1. PICK d \in Decision : Act(t, [turn[t] EXCEPT !.decision = Guarded(turn[t].text, d)])
    BY <1>2 DEF Decided
  <2> DEFINE local == [turn[t] EXCEPT !.decision = Guarded(turn[t].text, d)]
  <2>2. Guarded(turn[t].text, d) \in Decision
    BY DEF Guarded, Decision, Actions
  <2>3. turn[t] \in Turn /\ AskedIn(messages, turn[t].chat, turn[t].request)
        /\ Holds(messages, turn[t].chat, turn[t].state)
    BY <1>2, AtWorkHolds DEF Decided, Working
  <2>4. local.chat = turn[t].chat /\ local.request = turn[t].request
        /\ local.state = turn[t].state /\ local.decision \in Decision
    BY <2>2, <2>3 DEF Turn
  <2> QED BY <1>0, <2>1, <2>3, <2>4, ActHolds, QuietHolds
<1> QED BY <1>1, <1>2

\* Extracted, Complete, Completed and ReadSession move on with what they have.
LEMMA DraftStepHolds ==
    ASSUME TypeInv, HoldInv, NEW t \in Turns,
           Extracted(t) \/ Complete(t) \/ Completed(t) \/ ReadSession(t)
    PROVE  HoldInv'
<1>0. UNCHANGED <<session, pool, messages>> /\ Kept(messages, messages') /\ LoopOK
  BY SameKept DEF Extracted, Complete, Completed, ReadSession, stored, TypeInv
<1>1. /\ turn[t] \in Turn /\ turn[t].chat \in Chats /\ turn[t].state \in Session
      /\ AskedIn(messages, turn[t].chat, turn[t].request)
      /\ Holds(messages, turn[t].chat, turn[t].state)
      /\ pc[t] \in {"complete", "created"} =>
            \A r \in turn[t].draft : AskedIn(messages, turn[t].chat, r)
  BY AtWorkHolds DEF Extracted, Complete, Completed, ReadSession, Working
<1>2. CASE Extracted(t)
  <2>1. CASE \E new \in {{turn[t].request}, {}} :
                \E draft \in Merged(turn[t].state.draft, new) :
                   Go(t, "complete", [turn[t] EXCEPT !.draft = draft])
    <3>1. PICK draft :
            /\ draft \subseteq turn[t].state.draft \cup {turn[t].request}
            /\ Go(t, "complete", [turn[t] EXCEPT !.draft = draft])
      BY <2>1 DEF Merged
    <3>2. \A r \in draft : AskedIn(messages, turn[t].chat, r)
      BY <1>1, <3>1 DEF Holds, HeldBy
    <3>3. LocalsHold(messages', "complete", [turn[t] EXCEPT !.draft = draft])
      BY <1>0, <1>1, <3>2 DEF LocalsHold, Turn
    <3> QED BY <1>0, <3>1, <3>3, GoHolds, QuietHolds
  <2>2. CASE \E status, chat : End(t, status, chat)
    BY <1>0, <2>2, LeaveHolds, QuietHolds
  <2> QED BY <1>2, <2>1, <2>2 DEF Extracted
<1>3. CASE Complete(t)
  <2>1. ASSUME NEW u \in Turns PROVE LocalsHold(messages', pc'[u], turn'[u])
    <3>1. CASE u = t
      BY <1>0, <1>1, <1>3, <3>1 DEF Complete, LocalsHold, LoopOK
    <3>2. CASE u # t
      BY <1>0, <1>3, <3>2 DEF Complete, LoopOK, HoldInv
    <3> QED BY <3>1, <3>2
  <2> QED BY <1>0, <2>1, QuietHolds
<1>4. CASE Completed(t)
  <2>1. CASE Go(t, "record", turn[t])
    BY <1>0, <1>1, <2>1, GoHolds, QuietHolds DEF LocalsHold
  <2>2. CASE Unavailable(t)
    BY <1>0, <2>2, LeaveHolds, QuietHolds
  <2> QED BY <1>4, <2>1, <2>2 DEF Completed
<1>5. CASE ReadSession(t)
  <2> DEFINE local == [turn[t] EXCEPT !.state = session[turn[t].chat]]
             place == IF pc[t] = "record" THEN "recorded" ELSE "cleared"
  <2>1. Holds(messages, turn[t].chat, session[turn[t].chat])
    BY <1>1 DEF HoldInv
  <2>2. LocalsHold(messages', place, local)
    BY <1>0, <1>1, <2>1 DEF LocalsHold, Turn
  <2>3. Go(t, place, local)
    BY <1>5 DEF ReadSession
  <2> QED BY <1>0, <2>2, <2>3, GoHolds, QuietHolds
<1> QED BY <1>2, <1>3, <1>4, <1>5

\* The steps that write the session.
LEMMA WriteStepHolds ==
    ASSUME TypeInv, HoldInv, NEW t \in Turns,
           SavePending(t) \/ Remembered(t) \/ Missing(t) \/ RecordDocument(t) \/ ClearScope(t)
    PROVE  HoldInv'
<1> DEFINE c == turn[t].chat
           r == turn[t].request
           s == turn[t].state
<1>0. UNCHANGED <<messages, pool>> /\ Kept(messages, messages') /\ LoopOK
  BY SameKept DEF SavePending, Remembered, Missing, RecordDocument, ClearScope, TypeInv
<1>1. /\ turn[t] \in Turn /\ c \in Chats /\ r \in Requests /\ s \in Session
      /\ AskedIn(messages, c, r) /\ Holds(messages, c, s)
      /\ pc[t] = "complete" => \A q \in turn[t].draft : AskedIn(messages, c, q)
  BY AtWorkHolds DEF SavePending, Remembered, Missing, RecordDocument, ClearScope, Working
<1>2. \A u \in Turns : LocalsHold(messages', pc'[u], turn'[u])
  <2>1. CASE \E status : Say(t, turn[t], status)
    BY <1>0, <2>1, LeaveHolds
  <2>2. CASE RecordDocument(t)
    <3>1. LocalsHold(messages', "clear", turn[t])
      BY <1>0, <1>1 DEF LocalsHold
    <3> QED BY <1>0, <2>2, <3>1, GoHolds DEF RecordDocument
  <2> QED BY <2>1, <2>2 DEF SavePending, Remembered, Missing, ClearScope
<1>3. PICK new : session' = [session EXCEPT ![c] = new] /\ Holds(messages, c, new)
  <2>1. Holds(messages, c, session[c])
    BY <1>1 DEF HoldInv
  <2>2. /\ Holds(messages, c, [s EXCEPT !.memories = @ \cup {r}])
        /\ Holds(messages, c, [s EXCEPT !.memories = @ \cup {r}, !.pending = FALSE])
        /\ Holds(messages, c, [s EXCEPT !.pending = TRUE])
        /\ Holds(messages, c, [s EXCEPT !.last = r])
        /\ Holds(messages, c, WithoutScope(s))
    BY <1>1 DEF Holds, HeldBy, Session, WithoutScope
  <2>3. CASE SavePending(t)
    BY <2>2, <2>3 DEF SavePending
  <2>4. CASE Remembered(t)
    <3>1. CASE UNCHANGED session
      <4>1. session' = [session EXCEPT ![c] = session[c]]
        BY <3>1 DEF TypeInv, StoreOK
      <4> QED BY <2>1, <4>1
    <3>2. CASE session' # session
      BY <2>1, <2>2, <2>4, <3>2 DEF Remembered
    <3> QED BY <3>1, <3>2
  <2>5. CASE Missing(t)
    <3>1. Holds(messages, c, DraftToState(turn[t].draft))
      BY <1>1, <2>5 DEF Missing, Holds, HeldBy, DraftToState, NoSession, Nobody
    <3> QED BY <2>5, <3>1 DEF Missing
  <2>6. CASE RecordDocument(t)
    BY <2>2, <2>6 DEF RecordDocument
  <2>7. CASE ClearScope(t)
    BY <2>2, <2>7 DEF ClearScope
  <2> QED BY <2>3, <2>4, <2>5, <2>6, <2>7
<1> QED BY <1>0, <1>1, <1>2, <1>3, WriteHolds

LEMMA EndpointHolds ==
    ASSUME TypeInv, HoldInv, Endpoint
    PROVE  HoldInv'
<1>0. StoreOK /\ PoolOK
  BY DEF TypeInv
<1>1. ASSUME NEW c \in Chats, CreateThread(c) \/ DeleteThread(c) PROVE HoldInv'
  BY <1>1 DEF CreateThread, DeleteThread, HoldInv
<1>2. ASSUME NEW c \in Chats, ReportError(c) PROVE HoldInv'
  <2>1. Kept(messages, messages')
    BY <1>0, <1>2, StoreKeeps DEF ReportError
  <2>2. ASSUME NEW u \in Turns PROVE LocalsHold(messages', pc'[u], turn'[u])
    <3>1. pc[u] \in Working => turn[u].chat \in Chats
      BY DEF TypeInv, LoopOK, LocalsOK, Chatting, Working, Places, Awaiting, Running
    <3> QED BY <1>2, <2>1, <3>1, LocalsKept DEF ReportError, HoldInv
  <2> QED BY <1>2, <2>1, <2>2, QuietHolds DEF ReportError
<1>3. ASSUME NEW p \in Pool, ReadScope(p) PROVE HoldInv'
  BY <1>0, <1>3 DEF ReadScope, HoldInv, PoolOK, stored
<1>4. ASSUME NEW p \in Pool, WriteScope(p) PROVE HoldInv'
  <2>1. pool[p].chat \in Chats /\ pool[p].state \in Session
    BY <1>0, <1>4 DEF WriteScope, PoolOK, PoolThread
  <2>2. Holds(messages, pool[p].chat, WithoutScope(pool[p].state))
    BY <1>4, <2>1 DEF WriteScope, HoldInv, Holds, HeldBy, WithoutScope, Session
  <2>3. \A c \in Chats : Holds(messages', c, session'[c])
    BY <1>0, <1>4, <2>1, <2>2 DEF WriteScope, HoldInv, StoreOK
  <2> QED BY <1>0, <1>4, <2>3 DEF WriteScope, HoldInv, PoolOK
<1> QED BY <1>1, <1>2, <1>3, <1>4 DEF Endpoint

LEMMA CrashHolds ==
    ASSUME TypeInv, HoldInv, Crash
    PROVE  HoldInv'
BY DEF Crash, HoldInv, LocalsHold, Working, stored

LEMMA HoldInit == Init => HoldInv
BY DEF Init, HoldInv, Holds, HeldBy, NoSession, LocalsHold, Working

LEMMA HoldNext == TypeInv /\ HoldInv /\ [Next]_vars => HoldInv'
<1> SUFFICES ASSUME TypeInv, HoldInv, [Next]_vars PROVE HoldInv'
  OBVIOUS
<1>1. ASSUME NEW t \in Turns, Stream(t) \/ Send(t) \/ Step(t) \/ Disconnect(t) PROVE HoldInv'
  BY <1>1, OtherStepHolds, OpenHolds, DecideStepHolds, DraftStepHolds, WriteStepHolds
  DEF Step, ChatStep
<1>2. CASE UNCHANGED vars
  BY <1>2 DEF vars, HoldInv
<1> QED BY <1>1, <1>2, EndpointHolds, CrashHolds DEF Next

\* Values remembered, drafts and the last document of a chat were asked for
\* in that chat, however many turns and threads interleave, whatever fails
\* and whenever the process dies.
THEOREM SessionsStay == Spec => []SessionsStayInTheirChat
<1>1. Init => TypeInv /\ HoldInv
  BY TypeInit, HoldInit
<1>2. TypeInv /\ HoldInv /\ [Next]_vars => (TypeInv /\ HoldInv)'
  BY TypeNext, HoldNext
<1>3. HoldInv => SessionsStayInTheirChat
  BY HoldInvImplies
<1> QED BY <1>1, <1>2, <1>3, PTL DEF Spec

-----------------------------------------------------------------------------
(* What becomes of the session that a turn has read. *)

\* Where a turn goes on with the session it has read, and where it has had an
\* invoice created.
Holding  == {"pending", "decide", "remember", "recall", "answer", "list", "extract", "complete"}
Creating == {"created", "record", "recorded", "clear", "cleared"}

\* A step that writes no session and has nothing to do with a creation.
Plain(t) ==
    /\ OthersStay(t) /\ UNCHANGED <<session, documents, spent>>
    /\ \/ Ends(t)
       \/ /\ pc'[t] \notin Creating
          /\ turn'[t].request = turn[t].request
          /\ pc[t] # "open" => turn'[t].chat = turn[t].chat
          /\ turn'[t].state = IF pc[t] \in {"start", "read"}
                              THEN session[turn[t].chat] ELSE turn[t].state
          /\ turn'[t].status = "created" => turn[t].status = "created"
          /\ pc'[t] = "say" => turn'[t].status # "created"
          /\ pc'[t] \in Before \cup {"read"} => pc[t] \in Before
          /\ pc'[t] \in Holding => pc[t] \in Holding \cup {"read"}
          /\ pc'[t] = "complete" =>
                /\ pc[t] = "extract"
                /\ turn'[t].draft \subseteq turn[t].state.draft \cup {turn[t].request}

\* What the locals of a plain step that goes on may be.
Plainly(t, place, locals) ==
    /\ place \notin Creating
    /\ locals.request = turn[t].request
    /\ pc[t] # "open" => locals.chat = turn[t].chat
    /\ locals.state = IF pc[t] \in {"start", "read"}
                      THEN session[turn[t].chat] ELSE turn[t].state
    /\ locals.status = "created" => turn[t].status = "created"
    /\ place = "say" => locals.status # "created"
    /\ place \in Before \cup {"read"} => pc[t] \in Before
    /\ place \in Holding => pc[t] \in Holding \cup {"read"}
    /\ place = "complete" =>
          pc[t] = "extract" /\ locals.draft \subseteq turn[t].state.draft \cup {turn[t].request}

LEMMA GoPlain ==
    ASSUME LoopOK, NEW t \in Turns, NEW place, NEW locals, Go(t, place, locals),
           Plainly(t, place, locals), UNCHANGED <<session, documents, spent>>
    PROVE  Plain(t)
<1>1. pc'[t] = place /\ turn'[t] = locals /\ OthersStay(t)
  BY GoMoves
<1> QED BY <1>1 DEF Plain, Plainly

LEMMA EndPlain ==
    ASSUME LoopOK, NEW t \in Turns, UNCHANGED <<session, documents, spent>>,
           \E status, chat : End(t, status, chat)
    PROVE  Plain(t)
BY EndMoves DEF Plain

LEMMA SayPlain ==
    ASSUME LoopOK, NEW t \in Turns, NEW locals \in Turn, NEW status, status # "created",
           locals.request = turn[t].request, locals.chat = turn[t].chat,
           locals.state = IF pc[t] \in {"start", "read"}
                          THEN session[turn[t].chat] ELSE turn[t].state,
           Say(t, locals, status), UNCHANGED <<session, documents, spent>>
    PROVE  Plain(t)
<1> DEFINE new == [locals EXCEPT !.status = status]
<1>1. new.request = turn[t].request /\ new.chat = turn[t].chat
      /\ new.state = locals.state /\ new.status = status
  BY DEF Turn
<1>2. Go(t, "say", new)
  BY DEF Say
<1> HIDE DEF new
<1>3. Plainly(t, "say", new)
  BY <1>1 DEF Plainly, Before, Creating, Holding
<1> QED BY <1>2, <1>3, GoPlain

LEMMA ActPlain ==
    ASSUME LoopOK, NEW t \in Turns, NEW locals \in Turn, locals.decision \in Decision,
           pc[t] \in {"read", "decide"},
           locals.request = turn[t].request, locals.chat = turn[t].chat,
           locals.state = IF pc[t] \in {"start", "read"}
                          THEN session[turn[t].chat] ELSE turn[t].state,
           locals.status = turn[t].status,
           Act(t, locals), UNCHANGED <<session, documents, spent>>
    PROVE  Plain(t)
<1> DEFINE action == Routed(locals.state, locals.decision)
           place  == IF action = "create" THEN "extract" ELSE action
<1>1. action \in Actions
  BY DEF Routed, Actions, Decision
<1>2. place \in Holding /\ place \notin Creating \cup {"say", "complete"}
  BY <1>1 DEF Actions, Holding, Creating
<1>3. CASE Go(t, place, locals)
  <2>1. Plainly(t, place, locals)
    BY <1>2 DEF Plainly, Before, Holding
  <2> QED BY <1>3, <2>1, GoPlain
<1>4. CASE Say(t, locals, "memory")
  BY <1>4, SayPlain
<1> QED BY <1>3, <1>4 DEF Act

LEMMA UnavailablePlain ==
    ASSUME LoopOK, NEW t \in Turns, pc[t] \notin {"start", "read"}, Unavailable(t),
           UNCHANGED <<session, documents, spent>>
    PROVE  Plain(t)
<1>1. CASE turn[t].streamed
  <2> DEFINE new == [turn[t] EXCEPT !.status = "document_unavailable"]
  <2>1. turn[t] \in Turn
    BY DEF LoopOK
  <2>2. new.request = turn[t].request /\ new.chat = turn[t].chat
        /\ new.state = turn[t].state /\ new.status = "document_unavailable"
    BY <2>1 DEF Turn
  <2>3. Go(t, "finalize", new)
    BY <1>1 DEF Unavailable
  <2> HIDE DEF new
  <2>4. Plainly(t, "finalize", new)
    BY <2>2 DEF Plainly, Before, Creating, Holding
  <2> QED BY <2>3, <2>4, GoPlain
<1>2. CASE ~ turn[t].streamed
  BY <1>2, EndPlain DEF Unavailable
<1> QED BY <1>1, <1>2

\* The steps up to the question, and those after the answer.
LEMMA AskPlain ==
    ASSUME TypeInv, NEW t \in Turns,
           Started(t) \/ StreamUndecided(t) \/ StreamDecided(t) \/ Open(t)
    PROVE  Plain(t)
<1>0. LoopOK /\ turn[t] \in Turn
  BY DEF TypeInv, LoopOK
<1>1. UNCHANGED <<session, documents, spent>>
  BY DEF Started, StreamUndecided, StreamDecided, Open, stored, past
<1>2. CASE Started(t)
  <2> DEFINE s     == session[turn[t].chat]
             place == IF SuppliesPending(t, s) THEN "open" ELSE "sdecide"
             new   == [turn[t] EXCEPT !.state = s]
  <2>1. /\ new.request = turn[t].request /\ new.chat = turn[t].chat
        /\ new.state = s /\ new.status = turn[t].status
    BY <1>0 DEF Turn
  <2>2. Go(t, place, new) /\ place \in {"open", "sdecide"} /\ pc[t] = "start"
    BY <1>2 DEF Started
  <2> HIDE DEF new, place
  <2>3. Plainly(t, place, new)
    BY <2>1, <2>2 DEF Plainly, Before, Creating, Holding
  <2> QED BY <1>0, <1>1, <2>2, <2>3, GoPlain
<1>3. CASE StreamUndecided(t)
  <2>1. PICK status \in {"llm_unavailable", "parse_error"} :
           Say(t, [turn[t] EXCEPT !.direct = TRUE], status)
    BY <1>3 DEF StreamUndecided
  <2> DEFINE new == [turn[t] EXCEPT !.direct = TRUE]
  <2>2. /\ new \in Turn /\ new.request = turn[t].request /\ new.chat = turn[t].chat
        /\ new.state = turn[t].state
    BY <1>0 DEF Turn
  <2>3. pc[t] = "sdecide" /\ status # "created"
    BY <1>3 DEF StreamUndecided
  <2> HIDE DEF new
  <2>4. Say(t, new, status)
    BY <2>1 DEF new
  <2> QED BY <1>0, <1>1, <2>2, <2>3, <2>4, SayPlain
<1>4. CASE StreamDecided(t)
  <2>1. PICK d :
           LET local == [turn[t] EXCEPT !.decision = d] IN
           \/ Go(t, "tokens", [local EXCEPT !.direct = TRUE])
           \/ Go(t, "open", [local EXCEPT !.learns = FALSE])
    BY <1>4 DEF StreamDecided
  <2> DEFINE asked == [turn[t] EXCEPT !.decision = d, !.direct = TRUE]
             left  == [turn[t] EXCEPT !.decision = d, !.learns = FALSE]
  <2>2. /\ asked.request = turn[t].request /\ asked.chat = turn[t].chat
        /\ asked.state = turn[t].state /\ asked.status = turn[t].status
    BY <1>0 DEF Turn
  <2>3. /\ left.request = turn[t].request /\ left.chat = turn[t].chat
        /\ left.state = turn[t].state /\ left.status = turn[t].status
    BY <1>0 DEF Turn
  <2>4. Go(t, "tokens", asked) \/ Go(t, "open", left)
    BY <2>1
  <2>5. pc[t] = "sdecide"
    BY <1>4 DEF StreamDecided
  <2> HIDE DEF asked, left
  <2>6. Plainly(t, "tokens", asked) /\ Plainly(t, "open", left)
    BY <2>2, <2>3, <2>5 DEF Plainly, Before, Creating, Holding
  <2> QED BY <1>0, <1>1, <2>4, <2>6, GoPlain
<1>5. CASE Open(t)
  <2>1. PICK c \in Chats : Go(t, "read", [turn[t] EXCEPT !.chat = c])
    BY <1>5 DEF Open
  <2> DEFINE new == [turn[t] EXCEPT !.chat = c]
  <2>2. /\ new.request = turn[t].request
        /\ new.state = turn[t].state /\ new.status = turn[t].status
    BY <1>0 DEF Turn
  <2>3. pc[t] = "open" /\ Go(t, "read", new)
    BY <1>5, <2>1 DEF Open
  <2> HIDE DEF new
  <2>4. Plainly(t, "read", new)
    BY <2>2, <2>3 DEF Plainly, Before, Creating, Holding
  <2> QED BY <1>0, <1>1, <2>3, <2>4, GoPlain
<1> QED BY <1>2, <1>3, <1>4, <1>5

LEMMA LastPlain ==
    ASSUME TypeInv, NEW t \in Turns,
           StoreAnswer(t) \/ Finalize(t) \/ Learn(t) \/ Disconnect(t)
    PROVE  Plain(t)
<1>1. UNCHANGED <<session, documents, spent>>
  BY DEF StoreAnswer, Finalize, Learn, Disconnect, stored, past
<1>2. OthersStay(t)
  BY StoreAnswerShape, FinalizeShape, LearnShape, DisconnectShape
<1>3. \/ Ends(t)
      \/ /\ turn'[t] = turn[t] /\ pc'[t] \in {"background", "learn", "finalize"}
         /\ pc[t] \in {"say", "finalize", "learn"}
  BY StoreAnswerShape, FinalizeShape, LearnShape, DisconnectShape
<1> QED BY <1>1, <1>2, <1>3 DEF Plain, Before, Creating, Holding

\* The steps in between, but for those that write a session or belong to a creation.
LEMMA ThinkPlain ==
    ASSUME TypeInv, NEW t \in Turns,
           \/ Streamed(t) \/ Undecided(t) \/ Recalled(t) \/ Answered(t) \/ Listed(t)
           \/ Read(t) \/ Decided(t) \/ Extracted(t) \/ NotCompleted(t)
           \/ (Completed(t) /\ pc'[t] # "record")
    PROVE  Plain(t)
<1>0. LoopOK /\ turn[t] \in Turn
  BY DEF TypeInv, LoopOK
<1>1. UNCHANGED <<session, documents, spent>>
  BY DEF Streamed, Undecided, Recalled, Answered, Listed, Read, Decided, Extracted,
     NotCompleted, Completed, stored, past
<1>2. ASSUME pc[t] \notin {"start", "read"},
             NEW status \in {"answer", "llm_unavailable", "parse_error", "memory", "list"},
             Say(t, turn[t], status)
      PROVE  Plain(t)
  BY <1>0, <1>1, <1>2, SayPlain
<1>3. CASE Streamed(t) \/ Undecided(t) \/ Answered(t)
  BY <1>2, <1>3 DEF Streamed, Undecided, Answered
<1>4. CASE Recalled(t) \/ Listed(t)
  BY <1>0, <1>1, <1>2, <1>4, EndPlain, UnavailablePlain DEF Recalled, Listed
<1>5. CASE NotCompleted(t)
  BY <1>0, <1>1, <1>5, EndPlain, UnavailablePlain DEF NotCompleted
<1>6. CASE Completed(t) /\ pc'[t] # "record"
  BY <1>0, <1>1, <1>6, GoMoves, UnavailablePlain DEF Completed
<1>7. CASE Extracted(t)
  <2>1. CASE \E new \in {{turn[t].request}, {}} : \E draft \in Merged(turn[t].state.draft, new) :
                Go(t, "complete", [turn[t] EXCEPT !.draft = draft])
    <3>1. PICK draft : /\ draft \subseteq turn[t].state.draft \cup {turn[t].request}
                       /\ Go(t, "complete", [turn[t] EXCEPT !.draft = draft])
      BY <2>1 DEF Merged
    <3> DEFINE new == [turn[t] EXCEPT !.draft = draft]
    <3>2. /\ new.request = turn[t].request /\ new.chat = turn[t].chat
          /\ new.state = turn[t].state /\ new.status = turn[t].status /\ new.draft = draft
      BY <1>0 DEF Turn
    <3>3. pc[t] = "extract" /\ Go(t, "complete", new)
      BY <1>7, <3>1 DEF Extracted
    <3> HIDE DEF new
    <3>4. Plainly(t, "complete", new)
      BY <3>1, <3>2, <3>3 DEF Plainly, Before, Creating, Holding
    <3> QED BY <1>0, <1>1, <3>3, <3>4, GoPlain
  <2>2. CASE \E status : End(t, status, NoChat)
    BY <1>0, <1>1, <2>2, EndPlain
  <2> QED BY <1>7, <2>1, <2>2 DEF Extracted
<1>8. CASE Read(t)
  <2> DEFINE s     == session[turn[t].chat]
             local == [turn[t] EXCEPT !.state = s]
  <2>1. turn[t].chat \in Chats /\ pc[t] = "read"
    BY <1>0, <1>8, AtWork DEF Read
  <2>2. /\ local \in Turn /\ local.request = turn[t].request /\ local.chat = turn[t].chat
        /\ local.state = s /\ local.status = turn[t].status
    BY <1>0, <2>1 DEF Turn, TypeInv, StoreOK
  <2>3. Plainly(t, "pending", local) /\ Plainly(t, "decide", local)
    BY <2>1, <2>2 DEF Plainly, Before, Creating, Holding
  <2>4. CASE Go(t, "pending", local) \/ Go(t, "decide", local)
    BY <1>0, <1>1, <2>3, <2>4, GoPlain
  <2>5. CASE Act(t, local) /\ local.decision # NoDecision
    <3>1. local.decision \in Decision
      BY <2>2, <2>5 DEF Turn
    <3> QED BY <1>0, <1>1, <2>1, <2>2, <2>5, <3>1, ActPlain
  <2>6. CASE SuppliesPending(t, s)
    BY <1>8, <2>4, <2>6 DEF Read
  <2>7. CASE ~ SuppliesPending(t, s) /\ local.decision = NoDecision
    BY <1>8, <2>4, <2>7 DEF Read
  <2>8. CASE ~ SuppliesPending(t, s) /\ local.decision # NoDecision
    BY <1>8, <2>5, <2>8 DEF Read
  <2> QED BY <2>6, <2>7, <2>8
<1>9. CASE Decided(t)
  <2>1. PICK d \in Decision : Act(t, [turn[t] EXCEPT !.decision = Guarded(turn[t].text, d)])
    BY <1>9 DEF Decided
  <2> DEFINE local == [turn[t] EXCEPT !.decision = Guarded(turn[t].text, d)]
  <2>2. Guarded(turn[t].text, d) \in Decision
    BY DEF Guarded, Decision, Actions
  <2>3. /\ local \in Turn /\ local.request = turn[t].request /\ local.chat = turn[t].chat
        /\ local.state = turn[t].state /\ local.status = turn[t].status
        /\ local.decision \in Decision
    BY <1>0, <2>2 DEF Turn
  <2>4. pc[t] = "decide"
    BY <1>9 DEF Decided
  <2> QED BY <1>0, <1>1, <2>1, <2>3, <2>4, ActPlain
<1> QED BY <1>3, <1>4, <1>5, <1>6, <1>7, <1>8, <1>9

\* The steps that are not plain.
Writing(t) ==
    \/ SavePending(t) \/ Remembered(t) \/ Missing(t)
    \/ Complete(t)
    \/ (Completed(t) /\ pc'[t] = "record")
    \/ ReadSession(t) \/ RecordDocument(t) \/ ClearScope(t)

LEMMA StepPlain ==
    ASSUME TypeInv, NEW t \in Turns, Step(t) \/ Disconnect(t)
    PROVE  Plain(t) \/ Writing(t)
BY AskPlain, LastPlain, ThinkPlain DEF Step, StreamStep, ChatStep, Writing

-----------------------------------------------------------------------------
(* The invariants about created invoices. *)

\* What the locals of a turn say of documents that exist.
RealLocals(place, l) ==
    /\ l.state.last \in documents \cup {Nobody}
    /\ place \in Creating \/ l.status = "created" => l.request \in documents

DocumentsInv ==
    /\ \A c \in Chats : session[c].last \in documents \cup {Nobody}
    /\ \A t \in Turns : RealLocals(pc[t], turn[t])
    /\ \A p \in Pool : pool[p].state.last \in documents \cup {Nobody}
    /\ \A r \in Requests : replies[r].status = "created" => r \in documents

\* Between the writes after a creation the turn that has the loop is alone
\* with the session of its chat.
LocalsScope(place, l) ==
    /\ place = "clear" => session[l.chat].last = l.request
    /\ place = "cleared" => l.state = session[l.chat] /\ l.state.last = l.request
    /\ place = "say" /\ l.status = "created" =>
          /\ session[l.chat].last = l.request
          /\ ~ session[l.chat].open /\ session[l.chat].draft = {}

ScopeInv == \A t \in Turns : LocalsScope(pc[t], turn[t])

\* The places from which a draft may still reach the session.
Drafting == {"start", "sdecide", "open", "read"} \cup Holding

\* Of some request of the chat an invoice was created, and its client will never be
\* told: its turn failed or was cut.
Lost(c) ==
    \E r \in documents :
        /\ AskedIn(messages, c, r) /\ replies[r].status # "created"
        /\ \A t \in Turns : pc[t] # "idle" => turn[t].request # r

\* The turn has had an invoice created for the chat and has not cleared the scope:
\* it is going to, or has given up and is going to say so.
Owing(t, c) ==
    /\ turn[t].chat = c /\ turn[t].request \in documents
    /\ AskedIn(messages, c, turn[t].request)
    /\ \/ pc[t] \in Creating
       \/ pc[t] = "finalize" /\ turn[t].status = "document_unavailable"

Unspent(c) == session[c].draft \cap spent = {}

\* What went into an invoice is in no draft that a turn may still write back,
\* as long as its chat has not lost an invoice.
LocalsUnspent(place, l) ==
    /\ place \in Drafting => l.request \notin spent
    /\ \A c \in Chats : l.chat = c /\ ~ Lost(c) =>
          /\ place \in Holding => l.state.draft \cap spent = {}
          /\ place = "complete" => l.draft \cap spent = {}

SpentInv ==
    /\ \A r \in spent : r <= sent
    /\ \A t \in Turns : LocalsUnspent(pc[t], turn[t])
    /\ \A c \in Chats : Unspent(c) \/ Lost(c) \/ \E t \in Turns : Owing(t, c)

\* The session as a turn has read it is the session, if no other is at work on the chat.
LocalsRead(place, l) ==
    place \in Holding \cup {"recorded", "cleared"} => l.state = session[l.chat]

ReadInv == \A t \in Turns : LocalsRead(pc[t], turn[t])

-----------------------------------------------------------------------------
(* What the steps that are not plain do. *)

\* The turn goes on in its chat; only that chat's session is written, with s.
Writes(t, place, s) ==
    /\ loop \in {t, NoTurn} /\ OthersStay(t) /\ pc'[t] = place
    /\ turn[t].chat \in Chats /\ turn[t].request \in Requests /\ turn[t].state \in Session
    /\ turn'[t].request = turn[t].request /\ turn'[t].chat = turn[t].chat
    /\ s \in Session /\ session'[turn[t].chat] = s
    /\ \A d \in Chats \ {turn[t].chat} : session'[d] = session[d]
    /\ UNCHANGED <<pool, sent, documents, spent, replies>>

LEMMA SayWrites ==
    ASSUME TypeInv, NEW t \in Turns, pc[t] \in Working, NEW status, Say(t, turn[t], status),
           NEW s \in Session, session' = [session EXCEPT ![turn[t].chat] = s],
           UNCHANGED <<pool, sent, documents, spent, replies>>
    PROVE  /\ Writes(t, "say", s)
           /\ turn'[t].state = turn[t].state /\ turn'[t].status = status
<1> DEFINE new == [turn[t] EXCEPT !.status = status]
<1>1. turn[t] \in Turn /\ turn[t].request \in Requests /\ turn[t].chat \in Chats
  BY AtWork DEF TypeInv, Working
<1>2. /\ new.request = turn[t].request /\ new.chat = turn[t].chat
      /\ new.state = turn[t].state /\ new.status = status /\ turn[t].state \in Session
  BY <1>1 DEF Turn
<1>3. Go(t, "say", new)
  BY DEF Say
<1> HIDE DEF new
<1>4. pc'[t] = "say" /\ turn'[t] = new /\ OthersStay(t) /\ loop \in {t, NoTurn}
  BY <1>3, GoMoves DEF TypeInv, Go
<1>5. /\ session'[turn[t].chat] = s
      /\ \A d \in Chats \ {turn[t].chat} : session'[d] = session[d]
  BY <1>1 DEF TypeInv, StoreOK
<1> QED BY <1>1, <1>2, <1>4, <1>5 DEF Writes

LEMMA RememberShape ==
    ASSUME TypeInv, NEW t \in Turns, SavePending(t) \/ Remembered(t)
    PROVE  /\ pc[t] \in Holding
           /\ turn'[t].status # "created" /\ turn'[t].state = turn[t].state
           /\ \E s : /\ Writes(t, "say", s)
                     /\ \/ s = session[turn[t].chat]
                        \/ /\ s.last = turn[t].state.last /\ s.draft = turn[t].state.draft
                           /\ turn[t].state.memories \subseteq s.memories
<1>1. turn[t] \in Turn /\ turn[t].request \in Requests /\ turn[t].chat \in Chats
      /\ pc[t] \in Holding /\ pc[t] \in Working
  BY AtWork DEF TypeInv, SavePending, Remembered, Holding, Working
<1>2. turn[t].state \in Session /\ session[turn[t].chat] \in Session
  BY <1>1 DEF Turn, TypeInv, StoreOK
<1> DEFINE kept  == [turn[t].state EXCEPT !.memories = @ \cup {turn[t].request},
                                          !.pending = FALSE]
           added == [turn[t].state EXCEPT !.memories = @ \cup {turn[t].request}]
           asked == [turn[t].state EXCEPT !.pending = TRUE]
           Like(s) == /\ s.last = turn[t].state.last /\ s.draft = turn[t].state.draft
                      /\ turn[t].state.memories \subseteq s.memories
<1>3. kept \in Session /\ added \in Session /\ asked \in Session
  <2> DEFINE state == turn[t].state
  <2>1. state \in Session /\ turn[t].request \in Requests
    BY <1>1, <1>2
  <2> QED BY <2>1 DEF Session
<1>4. Like(kept) /\ Like(added) /\ Like(asked)
  BY <1>2 DEF Session
<1>5. UNCHANGED <<pool, sent, documents, spent, replies>>
  BY DEF SavePending, Remembered, past
<1>6. CASE SavePending(t)
  <2>1. Say(t, turn[t], "memory") /\ session' = [session EXCEPT ![turn[t].chat] = kept]
    BY <1>6 DEF SavePending
  <2> HIDE DEF kept, added, asked
  <2>2. /\ Writes(t, "say", kept)
        /\ turn'[t].state = turn[t].state /\ turn'[t].status = "memory"
    BY <1>1, <1>3, <1>5, <2>1, SayWrites
  <2> QED BY <1>1, <1>4, <2>2
<1>7. CASE Remembered(t)
  <2>1. CASE Say(t, turn[t], "llm_unavailable") /\ UNCHANGED session
    <3>1. session' = [session EXCEPT ![turn[t].chat] = session[turn[t].chat]]
      BY <1>1, <2>1 DEF TypeInv, StoreOK
    <3>2. /\ Writes(t, "say", session[turn[t].chat])
          /\ turn'[t].state = turn[t].state /\ turn'[t].status = "llm_unavailable"
      BY <1>1, <1>2, <1>5, <2>1, <3>1, SayWrites
    <3> QED BY <1>1, <3>2
  <2>2. ASSUME NEW s, s \in {added, asked, session[turn[t].chat]}, Say(t, turn[t], "memory"),
               session' = [session EXCEPT ![turn[t].chat] = s]
        PROVE  /\ turn'[t].status # "created" /\ turn'[t].state = turn[t].state
               /\ Writes(t, "say", s) /\ (s = session[turn[t].chat] \/ Like(s))
    <3>1. s \in Session /\ (s = session[turn[t].chat] \/ Like(s))
      BY <1>2, <1>3, <1>4, <2>2
    <3>2. /\ Writes(t, "say", s)
          /\ turn'[t].state = turn[t].state /\ turn'[t].status = "memory"
      BY <1>1, <1>5, <2>2, <3>1, SayWrites
    <3> QED BY <3>1, <3>2
  <2> QED BY <1>1, <1>7, <2>1, <2>2 DEF Remembered
<1> QED BY <1>6, <1>7

LEMMA MissingShape ==
    ASSUME TypeInv, NEW t \in Turns, Missing(t)
    PROVE  /\ pc[t] = "complete" /\ turn'[t].status = "missing"
           /\ turn'[t].state = turn[t].state
           /\ \E s : /\ Writes(t, "say", s)
                     /\ s.last = Nobody /\ s.draft = turn[t].draft /\ s.open
<1>1. pc[t] \in Working /\ turn[t].draft \in SUBSET Requests
  BY AtWork DEF TypeInv, Missing, Working, Turn
<1> DEFINE s == DraftToState(turn[t].draft)
<1>2. s \in Session
  BY <1>1, DraftToStateType
<1>3. s.last = Nobody /\ s.draft = turn[t].draft /\ s.open
  BY <1>1, NoSessionType DEF DraftToState, NoSession, Session
<1> HIDE DEF s
<1>4. Say(t, turn[t], "missing") /\ session' = [session EXCEPT ![turn[t].chat] = s]
      /\ UNCHANGED <<pool, sent, documents, spent, replies>>
  BY DEF Missing, past, s
<1>5. /\ Writes(t, "say", s)
      /\ turn'[t].state = turn[t].state /\ turn'[t].status = "missing"
  BY <1>1, <1>2, <1>4, SayWrites
<1> QED BY <1>3, <1>5 DEF Missing

LEMMA ClearShape ==
    ASSUME TypeInv, NEW t \in Turns, ClearScope(t)
    PROVE  /\ pc[t] = "cleared" /\ turn'[t].status = "created"
           /\ turn'[t].state = turn[t].state
           /\ \E s : /\ Writes(t, "say", s)
                     /\ s.last = turn[t].state.last /\ s.memories = turn[t].state.memories
                     /\ s.draft = {} /\ ~ s.open
<1>1. pc[t] \in Working /\ turn[t].state \in Session
  BY AtWork DEF TypeInv, ClearScope, Working, Turn
<1> DEFINE s == WithoutScope(turn[t].state)
<1>2. /\ s \in Session /\ s.draft = {} /\ ~ s.open
      /\ s.last = turn[t].state.last /\ s.memories = turn[t].state.memories
  BY <1>1 DEF WithoutScope, Session
<1> HIDE DEF s
<1>3. Say(t, turn[t], "created") /\ session' = [session EXCEPT ![turn[t].chat] = s]
      /\ UNCHANGED <<pool, sent, documents, spent, replies>>
  BY DEF ClearScope, past, s
<1>4. /\ Writes(t, "say", s)
      /\ turn'[t].state = turn[t].state /\ turn'[t].status = "created"
  BY <1>1, <1>2, <1>3, SayWrites
<1> QED BY <1>2, <1>4 DEF ClearScope

LEMMA RecordShape ==
    ASSUME TypeInv, NEW t \in Turns, RecordDocument(t)
    PROVE  /\ pc[t] = "recorded" /\ turn'[t] = turn[t]
           /\ \E s : /\ Writes(t, "clear", s)
                     /\ s.last = turn[t].request /\ s.memories = turn[t].state.memories
<1>1. /\ turn[t] \in Turn /\ turn[t].request \in Requests /\ turn[t].chat \in Chats
      /\ turn[t].state \in Session
  BY AtWork DEF TypeInv, RecordDocument, Turn
<1> DEFINE s == [turn[t].state EXCEPT !.last = turn[t].request]
<1>2. s \in Session /\ s.last = turn[t].request /\ s.memories = turn[t].state.memories
  BY <1>1 DEF Session
<1> HIDE DEF s
<1>3. Go(t, "clear", turn[t]) /\ session' = [session EXCEPT ![turn[t].chat] = s]
      /\ UNCHANGED <<pool, sent, documents, spent, replies>>
  BY DEF RecordDocument, past, s
<1>4. pc'[t] = "clear" /\ turn'[t] = turn[t] /\ OthersStay(t) /\ loop \in {t, NoTurn}
  BY <1>3, GoMoves DEF TypeInv, Go
<1>5. /\ session'[turn[t].chat] = s
      /\ \A d \in Chats \ {turn[t].chat} : session'[d] = session[d]
  BY <1>1, <1>3 DEF TypeInv, StoreOK
<1>6. Writes(t, "clear", s)
  BY <1>1, <1>2, <1>3, <1>4, <1>5 DEF Writes
<1> QED BY <1>2, <1>4, <1>6 DEF RecordDocument

LEMMA ReadSessionShape ==
    ASSUME TypeInv, NEW t \in Turns, ReadSession(t)
    PROVE  /\ \/ pc[t] = "record" /\ pc'[t] = "recorded"
              \/ pc[t] = "clear" /\ pc'[t] = "cleared"
           /\ Writes(t, pc'[t], session[turn[t].chat])
           /\ turn'[t].state = session[turn[t].chat] /\ turn'[t].status = turn[t].status
<1> DEFINE new   == [turn[t] EXCEPT !.state = session[turn[t].chat]]
           place == IF pc[t] = "record" THEN "recorded" ELSE "cleared"
<1>1. /\ turn[t] \in Turn /\ turn[t].request \in Requests /\ turn[t].chat \in Chats
      /\ turn[t].state \in Session /\ session[turn[t].chat] \in Session
  BY AtWork DEF TypeInv, ReadSession, Turn, StoreOK
<1>2. /\ new.request = turn[t].request /\ new.chat = turn[t].chat
      /\ new.state = session[turn[t].chat] /\ new.status = turn[t].status
  BY <1>1 DEF Turn
<1>3. /\ Go(t, place, new) /\ UNCHANGED <<session, pool, sent, documents, spent, replies>>
      /\ pc[t] \in {"record", "clear"}
  BY DEF ReadSession, past, stored
<1> HIDE DEF new
<1>4. pc'[t] = place /\ turn'[t] = new /\ OthersStay(t) /\ loop \in {t, NoTurn}
  BY <1>3, GoMoves DEF TypeInv, Go
<1>5. Writes(t, pc'[t], session[turn[t].chat])
  BY <1>1, <1>2, <1>3, <1>4 DEF Writes
<1> QED BY <1>2, <1>3, <1>4, <1>5

LEMMA CreateShape ==
    ASSUME TypeInv, NEW t \in Turns,
           \/ Complete(t)
           \/ (Completed(t) /\ pc'[t] = "record")
    PROVE  /\ OthersStay(t) /\ turn'[t] = turn[t] /\ UNCHANGED <<session, pool, sent, replies>>
           /\ \/ /\ pc[t] = "complete" /\ pc'[t] = "created"
                 /\ documents' = documents \cup {turn[t].request}
                 /\ spent' = spent \cup turn[t].draft
              \/ /\ pc[t] = "created" /\ pc'[t] = "record"
                 /\ UNCHANGED <<documents, spent>>
<1>1. LoopOK /\ pc \in [Turns -> Places] /\ turn \in [Turns -> Turn]
  BY DEF TypeInv, LoopOK
<1>2. CASE Complete(t)
  BY <1>1, <1>2 DEF Complete, stored, OthersStay
<1>3. CASE Completed(t) /\ pc'[t] = "record"
  <2>1. CASE Go(t, "record", turn[t]) /\ UNCHANGED replies
    BY <1>1, <1>3, <2>1, GoMoves DEF Completed, stored
  <2>2. CASE Unavailable(t)
    BY <1>1, <1>3, <2>2, UnavailableThinks DEF Continues, Ends
  <2> QED BY <1>3, <2>1, <2>2 DEF Completed
<1> QED BY <1>2, <1>3

-----------------------------------------------------------------------------
(* Documents are real. *)

LEMMA CreatedReplies ==
    ASSUME TypeInv, NEW t \in Turns, Step(t) \/ Disconnect(t)
    PROVE  \/ UNCHANGED replies
           \/ \E status, chat :
                 /\ Reply(t, status, chat)
                 /\ status = "created" => turn[t].status = "created"
<1>1. CASE Disconnect(t)
  BY <1>1, DisconnectShape
<1>2. CASE Thinks(t)
  BY <1>2 DEF Thinks, GivesUp, Failing
<1>3. CASE Started(t) \/ StreamUndecided(t) \/ StreamDecided(t) \/ Open(t)
  BY <1>3, AskShape
<1>4. CASE StoreAnswer(t) \/ Finalize(t) \/ Learn(t)
  BY <1>4, StoreAnswerShape, FinalizeShape, LearnShape
<1> QED BY <1>1, <1>2, <1>3, <1>4, StepShape DEF Storing

LEMMA CreatedToldReal ==
    ASSUME TypeInv, DocumentsInv, NEW t \in Turns, Step(t) \/ Disconnect(t),
           documents \subseteq documents'
    PROVE  \A r \in Requests : replies'[r].status = "created" => r \in documents'
<1>1. CASE UNCHANGED replies
  BY <1>1 DEF DocumentsInv
<1>2. ASSUME NEW status, NEW chat, Reply(t, status, chat),
             status = "created" => turn[t].status = "created"
      PROVE  \A r \in Requests : replies'[r].status = "created" => r \in documents'
  <2>1. status = "created" => turn[t].request \in documents'
    BY <1>2 DEF DocumentsInv, RealLocals
  <2> DEFINE told == [status |-> status, chat |-> chat]
  <2>2. told.status = status
    OBVIOUS
  <2> HIDE DEF told
  <2>3. \A r \in Requests : replies'[r] = IF r = turn[t].request THEN told ELSE replies[r]
    BY <1>2 DEF Reply, TypeInv, RepliesOK, told
  <2> QED BY <2>1, <2>2, <2>3 DEF DocumentsInv
<1> QED BY <1>1, <1>2, CreatedReplies

\* A step of one turn, with what it has to leave behind.
LEMMA OwnDocuments ==
    ASSUME TypeInv, DocumentsInv, NEW t \in Turns, Step(t) \/ Disconnect(t), OthersStay(t),
           documents \subseteq documents', UNCHANGED pool,
           \A c \in Chats : session'[c].last \in documents' \cup {Nobody},
           RealLocals(pc[t], turn[t])'
    PROVE  DocumentsInv'
<1>1. \A u \in Turns : RealLocals(pc[u], turn[u])'
  BY DEF OthersStay, DocumentsInv, RealLocals
<1>2. \A r \in Requests : replies'[r].status = "created" => r \in documents'
  BY CreatedToldReal
<1> QED BY <1>1, <1>2 DEF DocumentsInv

LEMMA IdleIsReal == RealLocals("idle", Idle) /\ RealLocals("idle", Idle)'
BY DEF RealLocals, Idle, NoSession, Creating

LEMMA PlainDocuments ==
    ASSUME TypeInv, DocumentsInv, NEW t \in Turns, Step(t) \/ Disconnect(t), Plain(t)
    PROVE  DocumentsInv'
<1>1. OthersStay(t) /\ UNCHANGED <<session, documents, pool>>
  BY StepMoves DEF Plain
<1>2. RealLocals(pc[t], turn[t])'
  <2>1. CASE Ends(t)
    BY <2>1, IdleIsReal DEF Ends
  <2>2. CASE ~ Ends(t)
    <3>1. /\ pc'[t] \notin Creating /\ turn'[t].request = turn[t].request
          /\ turn'[t].state = IF pc[t] \in {"start", "read"}
                              THEN session[turn[t].chat] ELSE turn[t].state
          /\ turn'[t].status = "created" => turn[t].status = "created"
      BY <2>2 DEF Plain
    <3>2. pc[t] \in {"start", "read"} => turn[t].chat \in Chats
      BY AtWork DEF TypeInv
    <3>3. RealLocals(pc[t], turn[t])
      BY DEF DocumentsInv
    <3> QED BY <1>1, <3>1, <3>2, <3>3 DEF DocumentsInv, RealLocals
  <2> QED BY <2>1, <2>2
<1>3. \A c \in Chats : session'[c].last \in documents' \cup {Nobody}
  BY <1>1 DEF DocumentsInv
<1> QED BY <1>1, <1>2, <1>3, OwnDocuments

LEMMA WritingDocuments ==
    ASSUME TypeInv, DocumentsInv, NEW t \in Turns, Step(t), Writing(t)
    PROVE  DocumentsInv'
<1>0. OthersStay(t) /\ UNCHANGED pool
  BY StepMoves
<1>1. ASSUME NEW place, NEW s, Writes(t, place, s), s.last \in documents \cup {Nobody},
             turn'[t].state.last \in documents \cup {Nobody},
             \/ turn[t].request \in documents
             \/ place = "say" /\ turn'[t].status # "created"
      PROVE  DocumentsInv'
  <2>1. \A c \in Chats : session'[c].last \in documents' \cup {Nobody}
    BY <1>1 DEF Writes, DocumentsInv
  <2>2. RealLocals(pc[t], turn[t])'
    BY <1>1 DEF Writes, RealLocals, Creating
  <2> QED BY <1>0, <1>1, <2>1, <2>2, OwnDocuments DEF Writes
<1>2. RealLocals(pc[t], turn[t])
  BY DEF DocumentsInv
<1>3. turn[t].chat \in Chats => session[turn[t].chat].last \in documents \cup {Nobody}
  BY DEF DocumentsInv
<1>4. CASE SavePending(t) \/ Remembered(t)
  BY <1>1, <1>2, <1>3, <1>4, RememberShape DEF RealLocals, Writes
<1>5. CASE Missing(t)
  BY <1>1, <1>2, <1>5, MissingShape DEF RealLocals
<1>6. CASE ClearScope(t)
  BY <1>1, <1>2, <1>6, ClearShape DEF RealLocals, Creating
<1>7. CASE RecordDocument(t)
  <2>1. turn[t].request \in documents
    BY <1>2, <1>7, RecordShape DEF RealLocals, Creating
  <2> QED BY <1>1, <1>2, <1>7, <2>1, RecordShape DEF RealLocals
<1>8. CASE ReadSession(t)
  <2>1. turn[t].request \in documents
    BY <1>2, <1>8, ReadSessionShape DEF RealLocals, Creating
  <2> QED BY <1>1, <1>3, <1>8, <2>1, ReadSessionShape DEF Writes
<1>9. CASE Complete(t) \/ (Completed(t) /\ pc'[t] = "record")
  <2>1. turn'[t] = turn[t] /\ UNCHANGED session /\ documents \subseteq documents'
        /\ turn[t].request \in documents'
    BY <1>2, <1>9, CreateShape DEF RealLocals, Creating
  <2>2. RealLocals(pc[t], turn[t])'
    BY <1>2, <2>1 DEF RealLocals
  <2>3. \A c \in Chats : session'[c].last \in documents' \cup {Nobody}
    BY <2>1 DEF DocumentsInv
  <2> QED BY <1>0, <2>1, <2>2, <2>3, OwnDocuments
<1> QED BY <1>4, <1>5, <1>6, <1>7, <1>8, <1>9 DEF Writing

LEMMA ArriveDocuments ==
    ASSUME TypeInv, DocumentsInv, NEW t \in Turns, Stream(t) \/ Send(t)
    PROVE  DocumentsInv'
<1>0. Arrives(t)
  BY ArriveShape
<1>1. RealLocals(pc[t], turn[t])'
  BY <1>0 DEF Arrives, RealLocals, NoSession, Creating, past
<1>2. \A u \in Turns : RealLocals(pc[u], turn[u])'
  BY <1>0, <1>1 DEF Arrives, past, DocumentsInv, OthersStay, RealLocals
<1> QED BY <1>0, <1>2 DEF Arrives, past, DocumentsInv

LEMMA EndpointDocuments ==
    ASSUME TypeInv, DocumentsInv, Endpoint
    PROVE  DocumentsInv'
<1>1. UNCHANGED <<pc, turn, documents, replies>>
  BY EndpointMoves
<1>2. \A t \in Turns : RealLocals(pc[t], turn[t])'
  BY <1>1 DEF DocumentsInv, RealLocals
<1>3. CASE UNCHANGED <<session, pool>>
  BY <1>1, <1>2, <1>3 DEF DocumentsInv
<1>4. ASSUME NEW p \in Pool, ReadScope(p)
      PROVE  DocumentsInv'
  <2>1. PICK c \in Chats : pool' = [pool EXCEPT ![p] = [chat |-> c, state |-> session[c]]]
    BY <1>4 DEF ReadScope
  <2>2. UNCHANGED session
    BY <1>4 DEF ReadScope, stored
  <2>3. \A q \in Pool : pool'[q].state = IF q = p THEN session[c] ELSE pool[q].state
    BY <2>1 DEF TypeInv, PoolOK
  <2> QED BY <1>1, <1>2, <2>2, <2>3 DEF DocumentsInv
<1>5. ASSUME NEW p \in Pool, WriteScope(p)
      PROVE  DocumentsInv'
  <2>1. pool[p] \in PoolThread
    BY DEF TypeInv, PoolOK
  <2> DEFINE s == WithoutScope(pool[p].state)
             none == [chat |-> NoChat, state |-> NoSession]
  <2>2. s.last = pool[p].state.last /\ none.state.last = Nobody
    BY <2>1 DEF PoolThread, Session, WithoutScope, NoSession
  <2> HIDE DEF s, none
  <2>3. \A c \in Chats : session'[c] = IF c = pool[p].chat THEN s ELSE session[c]
    BY <1>5 DEF WriteScope, TypeInv, StoreOK, s
  <2>4. \A q \in Pool : pool'[q] = IF q = p THEN none ELSE pool[q]
    BY <1>5 DEF WriteScope, TypeInv, PoolOK, none
  <2> QED BY <1>1, <1>2, <2>2, <2>3, <2>4 DEF DocumentsInv
<1> QED BY <1>3, <1>4, <1>5 DEF Endpoint, CreateThread, DeleteThread, ReportError

LEMMA DocumentsInit == Init => DocumentsInv
<1> SUFFICES ASSUME Init PROVE DocumentsInv
  OBVIOUS
<1>1. \A t \in Turns : RealLocals(pc[t], turn[t])
  BY IdleIsReal DEF Init
<1>2. \A c \in Chats : session[c].last = Nobody
  BY DEF Init, NoSession
<1>3. \A p \in Pool : pool[p].state.last = Nobody
  BY DEF Init, NoSession
<1>4. \A r \in Requests : replies[r].status # "created"
  BY DEF Init
<1> QED BY <1>1, <1>2, <1>3, <1>4 DEF DocumentsInv

LEMMA DocumentsNext == TypeInv /\ DocumentsInv /\ [Next]_vars => DocumentsInv'
<1> SUFFICES ASSUME TypeInv, DocumentsInv, [Next]_vars PROVE DocumentsInv'
  OBVIOUS
<1>1. ASSUME NEW t \in Turns, Stream(t) \/ Send(t)
      PROVE  DocumentsInv'
  BY <1>1, ArriveDocuments
<1>2. ASSUME NEW t \in Turns, Step(t) \/ Disconnect(t)
      PROVE  DocumentsInv'
  <2>1. CASE Plain(t)
    BY <1>2, <2>1, PlainDocuments
  <2>2. CASE ~ Plain(t)
    BY <1>2, <2>2, StepPlain, WritingDocuments, LastPlain
  <2> QED BY <2>1, <2>2
<1>3. CASE Endpoint
  BY <1>3, EndpointDocuments
<1>4. CASE Crash
  <2>1. \A t \in Turns : RealLocals(pc[t], turn[t])'
    BY <1>4, CrashMoves, IdleIsReal DEF Ends
  <2>2. \A p \in Pool : pool'[p].state.last = Nobody
    BY <1>4 DEF Crash, NoSession
  <2> QED BY <1>4, <2>1, <2>2, CrashMoves DEF DocumentsInv, stored, past
<1>5. CASE UNCHANGED vars
  BY <1>5 DEF vars, DocumentsInv, RealLocals
<1> QED BY <1>1, <1>2, <1>3, <1>4, <1>5 DEF Next

\* A session's last document, and what a client is told was created, are invoices
\* that Document has created, whichever of its answers was lost on the way.
THEOREM DocumentsAreRealAlways == Spec => []DocumentsAreReal
<1>1. DocumentsInv => DocumentsAreReal
  BY DEF DocumentsInv, DocumentsAreReal
<1> QED BY <1>1, TypeInit, TypeNext, DocumentsInit, DocumentsNext, PTL DEF Spec

-----------------------------------------------------------------------------
(* A creation closes the scope. *)

\* Nobody else has the loop, so that a step of another turn leaves the session alone.
LEMMA LoopGuards ==
    ASSUME TypeInv, NEW t \in Turns, Step(t) \/ Disconnect(t), session' # session,
           NEW u \in Turns \ {t}
    PROVE  pc[u] \notin Running
<1>1. loop \in {t, NoTurn}
  <2>1. CASE Plain(t)
    BY <2>1 DEF Plain
  <2>2. CASE Complete(t) \/ (Completed(t) /\ pc'[t] = "record")
    BY <2>2, CreateShape
  <2>3. CASE ReadSession(t) \/ RecordDocument(t) \/ ClearScope(t)
    BY <2>3, ReadSessionShape, RecordShape, ClearShape DEF Writes
  <2>4. CASE SavePending(t) \/ Remembered(t) \/ Missing(t)
    BY <2>4, RememberShape, MissingShape DEF Writes
  <2> QED BY <2>1, <2>2, <2>3, <2>4, StepPlain DEF Writing
<1> QED BY <1>1, NobodyAssumption DEF TypeInv, LoopOK

LEMMA OthersScope ==
    ASSUME TypeInv, ScopeInv, NEW t \in Turns, Step(t) \/ Disconnect(t),
           NEW u \in Turns \ {t}
    PROVE  LocalsScope(pc[u], turn[u])'
<1>1. pc'[u] = pc[u] /\ turn'[u] = turn[u] /\ LocalsScope(pc[u], turn[u])
  BY StepMoves DEF OthersStay, ScopeInv
<1>2. CASE session' = session
  BY <1>1, <1>2 DEF LocalsScope
<1>3. CASE session' # session
  BY <1>1, <1>3, LoopGuards DEF LocalsScope, Running
<1> QED BY <1>2, <1>3

LEMMA OwnScope ==
    ASSUME TypeInv, ScopeInv, NEW t \in Turns, Step(t) \/ Disconnect(t)
    PROVE  LocalsScope(pc[t], turn[t])'
<1>0. LocalsScope(pc[t], turn[t])
  BY DEF ScopeInv
<1>1. CASE Plain(t)
  BY <1>1 DEF Plain, Ends, LocalsScope, Creating
<1>2. CASE SavePending(t) \/ Remembered(t) \/ Missing(t)
  BY <1>2, RememberShape, MissingShape DEF Writes, LocalsScope
<1>3. CASE Complete(t) \/ (Completed(t) /\ pc'[t] = "record")
  BY <1>3, CreateShape DEF LocalsScope
<1>4. CASE ReadSession(t)
  BY <1>0, <1>4, ReadSessionShape DEF Writes, LocalsScope
<1>5. CASE RecordDocument(t)
  BY <1>5, RecordShape DEF Writes, LocalsScope
<1>6. CASE ClearScope(t)
  BY <1>0, <1>6, ClearShape DEF Writes, LocalsScope
<1> QED BY <1>1, <1>2, <1>3, <1>4, <1>5, <1>6, StepPlain DEF Writing

LEMMA ScopeInit == Init => ScopeInv
BY DEF Init, ScopeInv, LocalsScope

LEMMA ScopeNext ==
    ASSUME Pool = {}
    PROVE  TypeInv /\ ScopeInv /\ [Next]_vars => ScopeInv'
<1> SUFFICES ASSUME TypeInv, ScopeInv, [Next]_vars PROVE ScopeInv'
  OBVIOUS
<1>1. ASSUME NEW t \in Turns, Stream(t) \/ Send(t)
      PROVE  ScopeInv'
  <2>1. Arrives(t)
    BY <1>1, ArriveShape
  <2>2. LocalsScope(pc[t], turn[t])'
    BY <2>1 DEF Arrives, LocalsScope
  <2>3. ASSUME NEW u \in Turns \ {t}
        PROVE  LocalsScope(pc[u], turn[u])'
    BY <2>1 DEF Arrives, OthersStay, LocalsScope, ScopeInv
  <2> QED BY <2>2, <2>3 DEF ScopeInv
<1>2. ASSUME NEW t \in Turns, Step(t) \/ Disconnect(t)
      PROVE  ScopeInv'
  BY <1>2, OwnScope, OthersScope DEF ScopeInv
<1>3. CASE Endpoint
  <2>1. UNCHANGED <<session, pc, turn>>
    BY <1>3, EndpointMoves DEF Endpoint, CreateThread, DeleteThread, ReportError
  <2> QED BY <2>1 DEF ScopeInv, LocalsScope
<1>4. CASE Crash
  BY <1>4, CrashMoves DEF Ends, ScopeInv, LocalsScope
<1>5. CASE UNCHANGED vars
  BY <1>5 DEF vars, ScopeInv, LocalsScope
<1> QED BY <1>1, <1>2, <1>3, <1>4, <1>5 DEF Next

\* Whatever the other turns do, the scope of a created invoice is closed and the
\* session names it before the answer is stored.  (A thread of the pool can write
\* back an older session in between.)
THEOREM CreatedClosesScopeAlways ==
    ASSUME Pool = {}
    PROVE  Spec => []CreatedClosesScope
<1>1. ScopeInv => CreatedClosesScope
  BY DEF ScopeInv, LocalsScope, CreatedClosesScope
<1> QED BY <1>1, TypeInit, TypeNext, ScopeInit, ScopeNext, PTL DEF Spec

-----------------------------------------------------------------------------
(* A draft is cleared before anyone is told of its invoice. *)

\* Two chats have no request in common.
LEMMA ChatsApart ==
    ASSUME TypeInv, StageInv, NEW c \in Chats, NEW d \in Chats, NEW r \in Requests,
           AskedIn(messages, c, r), AskedIn(messages, d, r)
    PROVE  c = d
<1>1. OneQuestionOneAnswer
  BY StageImplies
<1>2. PICK i \in DOMAIN messages[c] : messages[c][i].role = "user" /\ messages[c][i].request = r
  BY DEF AskedIn
<1>3. PICK j \in DOMAIN messages[d] : messages[d][j].role = "user" /\ messages[d][j].request = r
  BY DEF AskedIn
<1>4. i \in Questions(c, r) /\ j \in Questions(d, r)
  BY <1>2, <1>3 DEF Questions
<1> QED BY <1>1, <1>4 DEF OneQuestionOneAnswer

\* A turn adds to the histories and to the documents, and tells only its own client.
LEMMA TurnKeeps ==
    ASSUME TypeInv, NEW t \in Turns, Step(t) \/ Disconnect(t)
    PROVE  /\ Kept(messages, messages') /\ documents \subseteq documents'
           /\ \A r \in Requests : r # turn[t].request => replies'[r] = replies[r]
<1>0. StoreOK /\ pc[t] # "idle"
  BY StepMoves DEF TypeInv
<1>1. turn[t].request \in Requests /\ (pc[t] # "open" => turn[t].chat \in Chats)
  BY <1>0, AtWork DEF TypeInv
<1>2. Kept(messages, messages')
  <2>1. CASE UNCHANGED messages
    BY <2>1, SameKept
  <2>2. CASE Started(t) \/ StreamUndecided(t) \/ StreamDecided(t) \/ Open(t)
    BY <1>0, <1>1, <2>1, <2>2, AskShape, StoreKeeps
  <2>3. CASE StoreAnswer(t)
    BY <1>0, <1>1, <2>3, StoreAnswerShape, StoreKeeps
  <2>4. CASE Finalize(t)
    BY <1>0, <1>1, <2>4, FinalizeShape, MergeKeeps
  <2>5. CASE Thinks(t) \/ Learn(t) \/ Disconnect(t)
    BY <2>1, <2>5, LearnShape, DisconnectShape DEF Thinks, stored
  <2> QED BY <2>2, <2>3, <2>4, <2>5, StepShape DEF Storing
<1>3. documents \subseteq documents'
  <2>1. CASE Plain(t)
    BY <2>1 DEF Plain
  <2>2. CASE Writing(t)
    BY <2>2, RememberShape, MissingShape, CreateShape, ReadSessionShape, RecordShape,
       ClearShape DEF Writing, Writes
  <2> QED BY <2>1, <2>2, StepPlain
<1>4. \A r \in Requests : r # turn[t].request => replies'[r] = replies[r]
  BY CreatedReplies, ReplyElse
<1> QED BY <1>2, <1>3, <1>4

\* Who was not told while the turn was there is never told.
LEMMA LostStays ==
    ASSUME TypeInv, StageInv, [Next]_vars, NEW c \in Chats, Lost(c)
    PROVE  Lost(c)'
<1> PICK r \in documents :
      /\ AskedIn(messages, c, r) /\ replies[r].status # "created"
      /\ \A t \in Turns : pc[t] # "idle" => turn[t].request # r
  BY DEF Lost
<1>0. r \in Requests /\ sent \in Nat
  BY DEF TypeInv, CountsOK
<1>1. ASSUME NEW t \in Turns, Step(t) \/ Disconnect(t)
      PROVE  Lost(c)'
  <2>1. /\ pc[t] # "idle" /\ OthersStay(t)
        /\ Ends(t) \/ turn'[t].request = turn[t].request
    BY <1>1, StepMoves
  <2>2. \A u \in Turns : pc'[u] # "idle" => turn'[u].request # r
    BY <2>1 DEF OthersStay, Ends
  <2>3. r \in documents' /\ AskedIn(messages', c, r) /\ replies'[r] = replies[r]
    BY <1>0, <1>1, <2>1, TurnKeeps DEF Kept
  <2> QED BY <2>2, <2>3 DEF Lost
<1>2. ASSUME NEW t \in Turns, Stream(t) \/ Send(t)
      PROVE  Lost(c)'
  <2>1. Arrives(t)
    BY <1>2, ArriveShape
  <2>2. r # sent + 1
    <3>1. ~ (r > sent)
      BY <1>0 DEF StageInv, Unasked, AskedIn
    <3> QED BY <1>0, <3>1 DEF Requests
  <2>3. \A u \in Turns : pc'[u] # "idle" => turn'[u].request # r
    BY <2>1, <2>2 DEF Arrives, OthersStay
  <2> QED BY <2>1, <2>3 DEF Arrives, past, Lost
<1>3. CASE Endpoint
  <2>1. Kept(messages, messages')
    BY <1>3, EndpointGrows, GrowsKeeps
  <2> QED BY <1>3, <2>1, EndpointMoves DEF Lost, Kept
<1>4. CASE Crash
  BY <1>4, CrashMoves DEF Lost, Ends, stored, past
<1>5. CASE UNCHANGED vars
  BY <1>5 DEF Lost, vars
<1> QED BY <1>1, <1>2, <1>3, <1>4, <1>5 DEF Next

\* A turn that ends owing loses the invoice.
LEMMA OwingEnds ==
    ASSUME FreshInv, NEW t \in Turns, NEW c \in Chats, Owing(t, c), Ends(t),
           OthersStay(t) \/ \A u \in Turns : Ends(u),
           Kept(messages, messages'), documents \subseteq documents',
           replies'[turn[t].request].status # "created"
    PROVE  Lost(c)'
<1>1. ASSUME NEW u \in Turns, pc'[u] # "idle" PROVE turn'[u].request # turn[t].request
  <2>1. u # t /\ pc'[u] = pc[u] /\ turn'[u] = turn[u]
    BY <1>1 DEF Ends, OthersStay
  <2>2. pc[t] # "idle"
    BY DEF Owing, Creating
  <2> QED BY <1>1, <2>1, <2>2 DEF FreshInv
<1>2. turn[t].request \in documents' /\ AskedIn(messages', c, turn[t].request)
  BY DEF Owing, Kept
<1> QED BY <1>1, <1>2 DEF Lost

LEMMA OwingGoesOn ==
    ASSUME NEW t \in Turns, NEW c \in Chats, Owing(t, c),
           Kept(messages, messages'), documents \subseteq documents',
           turn'[t].request = turn[t].request, turn'[t].chat = turn[t].chat,
           \/ pc'[t] \in Creating
           \/ pc'[t] = "finalize" /\ turn'[t].status = "document_unavailable"
    PROVE  Owing(t, c)'
<1>1. turn[t].request \in documents' /\ AskedIn(messages', c, turn[t].request)
  BY DEF Owing, Kept
<1> QED BY <1>1 DEF Owing

LEMMA CreatingOwes ==
    ASSUME TypeInv, DocumentsInv, HoldInv, NEW t \in Turns, pc[t] \in Creating
    PROVE  turn[t].chat \in Chats /\ Owing(t, turn[t].chat)
<1>1. turn[t].request \in documents
  BY DEF DocumentsInv, RealLocals
<1>2. turn[t].chat \in Chats /\ AskedIn(messages, turn[t].chat, turn[t].request)
  BY AtWorkHolds DEF Creating, Working
<1> QED BY <1>1, <1>2 DEF Owing

LEMMA CreatingSteps ==
    ASSUME NEW t \in Turns, Step(t), pc[t] \in Creating
    PROVE  Completed(t) \/ ReadSession(t) \/ RecordDocument(t) \/ ClearScope(t)
<1>1. ~ StreamStep(t)
  <2>1. pc[t] \notin {"start", "sdecide", "tokens", "finalize"}
    BY DEF Creating
  <2>2. ~ Started(t) /\ ~ Streamed(t)
    BY <2>1 DEF Started, Streamed
  <2>3. ~ StreamUndecided(t)
    BY <2>1, Zenon DEF StreamUndecided
  <2>4. ~ StreamDecided(t)
    BY <2>1, Zenon DEF StreamDecided
  <2>5. ~ Finalize(t)
    BY <2>1 DEF Finalize
  <2> QED BY <2>2, <2>3, <2>4, <2>5 DEF StreamStep
<1>2. ~ (Open(t) \/ Read(t) \/ SavePending(t) \/ Undecided(t) \/ Decided(t))
  BY DEF Creating, Open, Read, SavePending, Undecided, Decided
<1>3. ~ (Remembered(t) \/ Recalled(t) \/ Answered(t) \/ Listed(t) \/ Extracted(t))
  BY DEF Creating, Remembered, Recalled, Answered, Listed, Extracted
<1>4. ~ (Missing(t) \/ Complete(t) \/ NotCompleted(t) \/ StoreAnswer(t) \/ Learn(t))
  BY DEF Creating, Missing, Complete, NotCompleted, StoreAnswer, Learn
<1> QED BY <1>1, <1>2, <1>3, <1>4 DEF Step, ChatStep

LEMMA FinalizeSteps ==
    ASSUME NEW t \in Turns, Step(t), pc[t] = "finalize"
    PROVE  Finalize(t)
<1>1. ~ (Started(t) \/ Streamed(t))
  BY DEF Started, Streamed
<1>2. ~ StreamUndecided(t)
  BY Zenon DEF StreamUndecided
<1>3. ~ StreamDecided(t)
  BY Zenon DEF StreamDecided
<1>4. ~ (Open(t) \/ Read(t) \/ SavePending(t) \/ Undecided(t) \/ Decided(t))
  BY DEF Open, Read, SavePending, Undecided, Decided
<1>5. ~ (Remembered(t) \/ Recalled(t) \/ Answered(t) \/ Listed(t) \/ Extracted(t))
  BY DEF Remembered, Recalled, Answered, Listed, Extracted
<1>6. ~ (Missing(t) \/ Complete(t) \/ NotCompleted(t) \/ StoreAnswer(t) \/ Learn(t))
  BY DEF Missing, Complete, NotCompleted, StoreAnswer, Learn
<1>7. ~ (Completed(t) \/ ReadSession(t) \/ RecordDocument(t) \/ ClearScope(t))
  BY DEF Completed, ReadSession, RecordDocument, ClearScope
<1> QED BY <1>1, <1>2, <1>3, <1>4, <1>5, <1>6, <1>7 DEF Step, StreamStep, ChatStep

\* A turn that owes clears the scope, goes on owing, or loses the invoice.
LEMMA OwingSteps ==
    ASSUME TypeInv, FreshInv, TellInv, NEW t \in Turns, Step(t) \/ Disconnect(t),
           NEW c \in Chats, Owing(t, c)
    PROVE  Unspent(c)' \/ Lost(c)' \/ Owing(t, c)'
<1>0. /\ Kept(messages, messages') /\ documents \subseteq documents' /\ OthersStay(t)
      /\ turn[t].request \in Requests /\ turn[t].chat = c
  BY TurnKeeps, StepMoves, AtWork DEF TypeInv, Owing
<1>1. CASE Disconnect(t)
  <2>1. replies[turn[t].request] = Untold
    BY DEF TellInv, LocalsUntold, Owing, Creating
  <2> QED BY <1>0, <1>1, <2>1, DisconnectShape, OwingEnds DEF Untold
<1>2. ASSUME NEW status, NEW chat, Ends(t), Reply(t, status, chat), status # "created"
      PROVE  Lost(c)'
  <2>1. replies'[turn[t].request].status = status
    BY <1>0, <1>2 DEF Reply, TypeInv, RepliesOK
  <2> QED BY <1>0, <1>2, <2>1, OwingEnds
<1>3. CASE Step(t) /\ pc[t] \in Creating
  <2>1. CASE Completed(t)
    <3>1. CASE Go(t, "record", turn[t])
      BY <1>0, <3>1, GoMoves, OwingGoesOn DEF TypeInv, Creating
    <3>2. CASE Unavailable(t)
      BY <1>0, <1>2, <3>2, UnavailableThinks, OwingGoesOn DEF TypeInv, Continues
    <3> QED BY <2>1, <3>1, <3>2 DEF Completed
  <2>2. CASE ReadSession(t)
    BY <1>0, <2>2, ReadSessionShape, OwingGoesOn DEF Writes, Creating
  <2>3. CASE RecordDocument(t)
    BY <1>0, <2>3, RecordShape, OwingGoesOn DEF Writes, Creating
  <2>4. CASE ClearScope(t)
    BY <1>0, <2>4, ClearShape DEF Writes, Unspent
  <2> QED BY <1>3, <2>1, <2>2, <2>3, <2>4, CreatingSteps
<1>4. CASE Step(t) /\ pc[t] = "finalize" /\ turn[t].status = "document_unavailable"
  BY <1>2, <1>4, FinalizeSteps, FinalizeShape
<1> QED BY <1>1, <1>3, <1>4 DEF Owing

\* Document creates the invoice: only the draft of this chat is spent.
LEMMA CompleteSpent ==
    ASSUME TypeInv, StageInv, HoldInv, SpentInv, NEW t \in Turns, Complete(t)
    PROVE  /\ \A r \in spent' : r <= sent'
           /\ \A c \in Chats : Unspent(c) => Unspent(c)' \/ Owing(t, c)'
<1>1. /\ pc[t] = "complete" /\ pc'[t] = "created" /\ turn'[t] = turn[t]
      /\ UNCHANGED <<session, sent, messages>> /\ spent' = spent \cup turn[t].draft
      /\ documents' = documents \cup {turn[t].request}
  BY CreateShape DEF Complete, stored
<1>2. /\ turn[t].chat \in Chats /\ turn[t].draft \subseteq Requests
      /\ AskedIn(messages, turn[t].chat, turn[t].request)
      /\ \A r \in turn[t].draft : AskedIn(messages, turn[t].chat, r)
  BY <1>1, AtWorkHolds DEF Working, Turn
<1>3. \A r \in turn[t].draft : r <= sent
  <2> SUFFICES ASSUME NEW r \in turn[t].draft, ~ (r <= sent) PROVE FALSE
    OBVIOUS
  <2>1. r > sent /\ r \in Requests
    BY <1>2 DEF TypeInv, CountsOK, Requests
  <2>2. Unasked(messages, r)
    BY <2>1 DEF StageInv
  <2> QED BY <1>2, <2>2 DEF Unasked, AskedIn
<1>4. \A r \in spent' : r <= sent'
  BY <1>1, <1>3 DEF SpentInv
<1>5. ASSUME NEW c \in Chats, Unspent(c), ~ Unspent(c)'
      PROVE  Owing(t, c)'
  <2>1. PICK r \in session[c].draft : r \in turn[t].draft
    BY <1>1, <1>5 DEF Unspent
  <2>2. AskedIn(messages, c, r)
    BY <2>1 DEF HoldInv, Holds, HeldBy
  <2>3. c = turn[t].chat
    BY <1>2, <2>1, <2>2, ChatsApart
  <2> QED BY <1>1, <1>2, <2>3 DEF Owing, Creating
<1> QED BY <1>4, <1>5

\* What a step leaves in the sessions.
LEMMA ChatSpent ==
    ASSUME TypeInv, FreshInv, StageInv, HoldInv, DocumentsInv, TellInv, SpentInv, [Next]_vars,
           NEW t \in Turns, Step(t) \/ Disconnect(t), NEW c \in Chats
    PROVE  Unspent(c)' \/ Lost(c)' \/ \E u \in Turns : Owing(u, c)'
<1>1. CASE Lost(c)
  BY <1>1, LostStays
<1>2. CASE Owing(t, c)
  BY <1>2, OwingSteps
<1>4. ASSUME NEW u \in Turns \ {t}, Owing(u, c)
      PROVE  Owing(u, c)'
  <2>1. pc'[u] = pc[u] /\ turn'[u] = turn[u]
    BY StepMoves DEF OthersStay
  <2>2. Kept(messages, messages') /\ documents \subseteq documents'
    BY TurnKeeps
  <2> QED BY <1>4, <2>1, <2>2 DEF Owing, Kept
<1>3. CASE ~ Lost(c) /\ \A u \in Turns : ~ Owing(u, c)
  <2>1. Unspent(c) /\ LocalsUnspent(pc[t], turn[t])
    BY <1>3 DEF SpentInv
  <2>2. pc[t] \in Creating => c # turn[t].chat
    BY <1>3, CreatingOwes
  <2>3. ASSUME NEW place, NEW s, Writes(t, place, s),
               c = turn[t].chat => s.draft \cap spent = {}
        PROVE  Unspent(c)'
    BY <2>1, <2>3 DEF Writes, Unspent
  <2>4. CASE Plain(t)
    BY <2>1, <2>4 DEF Plain, Unspent
  <2>5. CASE SavePending(t) \/ Remembered(t)
    BY <1>3, <2>1, <2>3, <2>5, RememberShape DEF LocalsUnspent, Unspent
  <2>6. CASE Missing(t)
    BY <1>3, <2>1, <2>3, <2>6, MissingShape DEF LocalsUnspent
  <2>7. CASE Complete(t)
    BY <2>1, <2>7, CompleteSpent
  <2>8. CASE Completed(t) /\ pc'[t] = "record"
    <3>1. UNCHANGED <<session, spent>>
      BY <2>8 DEF Completed, stored
    <3> QED BY <2>1, <3>1 DEF Unspent
  <2>9. CASE ReadSession(t) \/ RecordDocument(t) \/ ClearScope(t)
    BY <2>2, <2>3, <2>9, ReadSessionShape, RecordShape, ClearShape DEF Creating
  <2> QED BY <2>4, <2>5, <2>6, <2>7, <2>8, <2>9, StepPlain DEF Writing
<1> QED BY <1>1, <1>2, <1>3, <1>4

\* What it leaves to the turn.
LEMMA TurnSpent ==
    ASSUME TypeInv, StageInv, SpentInv, Apart, [Next]_vars,
           NEW t \in Turns, Step(t) \/ Disconnect(t)
    PROVE  LocalsUnspent(pc[t], turn[t])'
<1>1. CASE Ends(t)
  BY <1>1 DEF Ends, LocalsUnspent, Drafting, Holding
<1>2. CASE Writing(t)
  <2>1. pc'[t] \in {"say"} \cup Creating
    BY <1>2, RememberShape, MissingShape, CreateShape, ReadSessionShape, RecordShape,
       ClearShape DEF Writing, Writes, Creating
  <2> QED BY <2>1 DEF LocalsUnspent, Drafting, Holding, Creating
<1>3. CASE Plain(t) /\ ~ Ends(t)
  <2>1. /\ pc'[t] \in Holding => pc[t] \in Holding \cup {"read"}
        /\ turn'[t].request = turn[t].request /\ spent' = spent
        /\ pc[t] # "open" => turn'[t].chat = turn[t].chat
        /\ turn'[t].state = IF pc[t] \in {"start", "read"}
                            THEN session[turn[t].chat] ELSE turn[t].state
        /\ pc'[t] \in Before \cup {"read"} => pc[t] \in Before
        /\ pc'[t] = "complete" =>
              /\ pc[t] = "extract"
              /\ turn'[t].draft \subseteq turn[t].state.draft \cup {turn[t].request}
    BY <1>3 DEF Plain
  <2>2. LocalsUnspent(pc[t], turn[t])
    BY DEF SpentInv
  <2>3. pc'[t] \in Drafting => turn'[t].request \notin spent'
    BY <2>1, <2>2 DEF LocalsUnspent, Drafting, Before
  <2>4. ASSUME pc'[t] \in Holding, NEW c \in Chats, turn'[t].chat = c, ~ Lost(c)'
        PROVE  /\ turn'[t].state.draft \cap spent' = {}
               /\ pc'[t] = "complete" => turn'[t].draft \cap spent' = {}
    <3>1. pc[t] \in Holding \cup {"read"} /\ turn[t].chat = c /\ ~ Lost(c)
      BY <2>1, <2>4, LostStays DEF Holding
    <3>2. CASE pc[t] = "read"
      <4>1. ASSUME NEW u \in Turns, Owing(u, c) PROVE FALSE
        <5>1. pc[u] \in Answering /\ turn[u].chat = c
          BY <4>1 DEF Owing, Creating, Answering, Asking
        <5>2. pc[t] \in Answering
          BY <3>2 DEF Answering, Asking
        <5>3. u = t
          BY <3>1, <5>1, <5>2 DEF Apart
        <5> QED BY <3>2, <4>1, <5>3 DEF Owing, Creating
      <4>2. Unspent(c)
        BY <3>1, <4>1 DEF SpentInv
      <4> QED BY <2>1, <3>1, <3>2, <4>2 DEF Unspent, Holding
    <3>3. CASE pc[t] \in Holding
      <4>1. turn[t].state.draft \cap spent = {} /\ turn[t].request \notin spent
        BY <2>2, <3>1, <3>3 DEF LocalsUnspent, Drafting
      <4> QED BY <2>1, <3>3, <4>1 DEF Holding
    <3> QED BY <3>1, <3>2, <3>3
  <2>5. "complete" \in Holding
    BY DEF Holding
  <2> QED BY <2>3, <2>4, <2>5 DEF LocalsUnspent
<1> QED BY <1>1, <1>2, <1>3, StepPlain

\* Only Complete spends.
LEMMA SpentStays ==
    ASSUME TypeInv, NEW t \in Turns, Step(t) \/ Disconnect(t), ~ Complete(t)
    PROVE  UNCHANGED spent
<1>1. Plain(t) \/ Completed(t) => UNCHANGED spent
  BY DEF Plain, Completed
<1>2. SavePending(t) \/ Remembered(t) \/ Missing(t) => UNCHANGED spent
  BY RememberShape, MissingShape DEF Writes
<1>3. ReadSession(t) \/ RecordDocument(t) \/ ClearScope(t) => UNCHANGED spent
  BY ReadSessionShape, RecordShape, ClearShape DEF Writes
<1> QED BY <1>1, <1>2, <1>3, StepPlain DEF Writing

\* What goes into the invoice of a turn is of its own chat, in which no other turn is at
\* work: none holds any of it.
LEMMA OthersHoldElse ==
    ASSUME TypeInv, StageInv, HoldInv, Apart, NEW t \in Turns, pc[t] = "complete",
           NEW u \in Turns \ {t}
    PROVE  /\ pc[u] \in Drafting => turn[u].request \notin turn[t].draft
           /\ pc[u] \in Holding => turn[u].state.draft \cap turn[t].draft = {}
           /\ pc[u] = "complete" => turn[u].draft \cap turn[t].draft = {}
<1>1. /\ turn[t].chat \in Chats /\ turn[t].draft \subseteq Requests
      /\ \A r \in turn[t].draft : AskedIn(messages, turn[t].chat, r)
  BY AtWorkHolds DEF Working, Turn
<1>2. ASSUME pc[u] \in Holding \cup {"read"} PROVE turn[u].chat # turn[t].chat
  BY <1>2 DEF Apart, Answering, Asking, Holding
<1>3. ASSUME pc[u] \in Holding \cup {"read"}, NEW r \in turn[t].draft,
             AskedIn(messages, turn[u].chat, r)
      PROVE  FALSE
  <2>1. turn[u].chat \in Chats
    BY <1>3, AtWork DEF TypeInv, Holding
  <2> QED BY <1>1, <1>2, <1>3, <2>1, ChatsApart
<1>4. ASSUME pc[u] \in Before PROVE turn[u].request \notin turn[t].draft
  <2>1. Unasked(messages, turn[u].request)
    BY <1>4 DEF StageInv, LocalsStage
  <2> QED BY <1>1, <2>1 DEF Unasked, AskedIn
<1>5. LocalsHold(messages, pc[u], turn[u])
  BY DEF HoldInv
<1>6. ASSUME pc[u] \in Holding \cup {"read"} PROVE turn[u].request \notin turn[t].draft
  <2>1. AskedIn(messages, turn[u].chat, turn[u].request)
    BY <1>5, <1>6 DEF LocalsHold, Working, Holding
  <2> QED BY <1>3, <1>6, <2>1
<1>7. ASSUME pc[u] \in Holding, NEW r \in turn[u].state.draft PROVE r \notin turn[t].draft
  <2>1. AskedIn(messages, turn[u].chat, r)
    BY <1>5, <1>7 DEF LocalsHold, Working, Holding, Holds, HeldBy
  <2> QED BY <1>3, <1>7, <2>1
<1>8. ASSUME pc[u] = "complete", NEW r \in turn[u].draft PROVE r \notin turn[t].draft
  <2>1. AskedIn(messages, turn[u].chat, r)
    BY <1>5, <1>8 DEF LocalsHold
  <2> QED BY <1>3, <1>8, <2>1 DEF Holding
<1> QED BY <1>4, <1>6, <1>7, <1>8 DEF Drafting, Before

\* What it leaves to the others.
LEMMA OthersSpent ==
    ASSUME TypeInv, StageInv, HoldInv, SpentInv, Apart, [Next]_vars,
           NEW t \in Turns, Step(t) \/ Disconnect(t), NEW u \in Turns \ {t}
    PROVE  LocalsUnspent(pc[u], turn[u])'
<1>1. pc'[u] = pc[u] /\ turn'[u] = turn[u] /\ LocalsUnspent(pc[u], turn[u])
  BY StepMoves DEF OthersStay, SpentInv
<1>2. \A c \in Chats : Lost(c) => Lost(c)'
  BY LostStays
<1>3. CASE UNCHANGED spent
  BY <1>1, <1>2, <1>3 DEF LocalsUnspent
<1>4. CASE Complete(t)
  <2>1. pc[t] = "complete" /\ spent' = spent \cup turn[t].draft
    BY <1>4 DEF Complete
  <2>2. /\ pc[u] \in Drafting => turn[u].request \notin turn[t].draft
        /\ pc[u] \in Holding => turn[u].state.draft \cap turn[t].draft = {}
        /\ pc[u] = "complete" => turn[u].draft \cap turn[t].draft = {}
    BY <2>1, OthersHoldElse
  <2>3. pc[u] \in Drafting => turn[u].request \notin spent'
    BY <1>1, <2>1, <2>2 DEF LocalsUnspent
  <2>4. ASSUME NEW c \in Chats, turn[u].chat = c, ~ Lost(c)'
        PROVE  /\ pc[u] \in Holding => turn[u].state.draft \cap spent' = {}
               /\ pc[u] = "complete" => turn[u].draft \cap spent' = {}
    <3>1. ~ Lost(c)
      BY <1>2, <2>4
    <3>2. /\ pc[u] \in Holding => turn[u].state.draft \cap spent = {}
          /\ pc[u] = "complete" => turn[u].draft \cap spent = {}
      BY <1>1, <2>4, <3>1 DEF LocalsUnspent
    <3> QED BY <2>1, <2>2, <3>2
  <2> QED BY <1>1, <2>3, <2>4 DEF LocalsUnspent
<1> QED BY <1>3, <1>4, SpentStays

LEMMA EndpointSpent ==
    ASSUME TypeInv, StageInv, SpentInv, Endpoint
    PROVE  SpentInv'
<1>1. UNCHANGED <<pc, turn, sent, documents, spent>> /\ Kept(messages, messages')
  BY EndpointMoves, EndpointGrows, GrowsKeeps
<1>2. \A c \in Chats : Lost(c) => Lost(c)'
  BY LostStays DEF Next
<1>3. \A c \in Chats : \A t \in Turns : Owing(t, c) => Owing(t, c)'
  BY <1>1 DEF Owing, Kept
<1>4. ASSUME NEW c \in Chats, Unspent(c) PROVE Unspent(c)'
  <2>1. CASE UNCHANGED session
    BY <1>1, <1>4, <2>1 DEF Unspent
  <2>2. ASSUME NEW p \in Pool, WriteScope(p)
        PROVE  Unspent(c)'
    <3>1. pool[p].state \in Session
      BY DEF TypeInv, PoolOK, PoolThread
    <3> DEFINE s == WithoutScope(pool[p].state)
    <3>2. s.draft = {}
      BY <3>1 DEF WithoutScope, Session
    <3> HIDE DEF s
    <3>3. session'[c] = IF c = pool[p].chat THEN s ELSE session[c]
      BY <2>2 DEF WriteScope, TypeInv, StoreOK, s
    <3> QED BY <1>1, <1>4, <3>2, <3>3 DEF Unspent
  <2> QED BY <2>1, <2>2 DEF Endpoint, CreateThread, DeleteThread, ReportError, ReadScope, stored
<1>5. \A t \in Turns : LocalsUnspent(pc[t], turn[t])'
  <2> SUFFICES ASSUME NEW t \in Turns PROVE LocalsUnspent(pc[t], turn[t])'
    OBVIOUS
  <2>1. LocalsUnspent(pc[t], turn[t])
    BY DEF SpentInv
  <2> QED BY <1>1, <1>2, <2>1 DEF LocalsUnspent
<1> QED BY <1>1, <1>2, <1>3, <1>4, <1>5 DEF SpentInv

LEMMA SpentInit == Init => SpentInv
BY DEF Init, SpentInv, Unspent, LocalsUnspent, Drafting, Holding

LEMMA SpentNext ==
    /\ TypeInv /\ FreshInv /\ StageInv /\ HoldInv /\ DocumentsInv /\ TellInv
    /\ SpentInv /\ Apart /\ [Next]_vars
    => SpentInv'
<1> SUFFICES ASSUME TypeInv, FreshInv, StageInv, HoldInv, DocumentsInv, TellInv, SpentInv,
                    Apart, [Next]_vars
             PROVE  SpentInv'
  OBVIOUS
<1>0. \A r \in spent : r \in Nat /\ r <= sent
  BY DEF SpentInv, TypeInv, CountsOK, Requests
<1>1. ASSUME NEW t \in Turns, Stream(t) \/ Send(t)
      PROVE  SpentInv'
  <2>1. /\ pc[t] = "idle" /\ pc'[t] \in {"start", "open"} /\ turn'[t].request = sent + 1
        /\ sent' = sent + 1 /\ sent \in Nat /\ UNCHANGED <<session, spent>>
    BY <1>1, ArriveShape DEF Arrives, past, TypeInv, CountsOK
  <2>2. (\A r \in spent' : r <= sent') /\ sent + 1 \notin spent
    BY <1>0, <2>1
  <2>3. ASSUME NEW u \in Turns PROVE LocalsUnspent(pc[u], turn[u])'
    <3>1. CASE u = t
      BY <2>1, <2>2, <3>1 DEF LocalsUnspent, Holding
    <3>2. CASE u # t
      <4>1. pc'[u] = pc[u] /\ turn'[u] = turn[u] /\ LocalsUnspent(pc[u], turn[u])
        BY <1>1, <3>2, ArriveShape DEF Arrives, OthersStay, SpentInv
      <4>2. \A c \in Chats : Lost(c) => Lost(c)'
        BY LostStays
      <4> QED BY <2>1, <4>1, <4>2 DEF LocalsUnspent
    <3> QED BY <3>1, <3>2
  <2>4. ASSUME NEW c \in Chats
        PROVE  Unspent(c)' \/ Lost(c)' \/ \E u \in Turns : Owing(u, c)'
    <3>1. ASSUME NEW u \in Turns, Owing(u, c) PROVE Owing(u, c)'
      <4>1. u # t
        BY <2>1, <3>1 DEF Owing, Creating
      <4>2. /\ pc'[u] = pc[u] /\ turn'[u] = turn[u]
            /\ UNCHANGED <<messages, documents>>
        BY <1>1, <4>1, ArriveShape DEF Arrives, OthersStay, past
      <4> QED BY <3>1, <4>2 DEF Owing
    <3>2. CASE Unspent(c)
      BY <2>1, <3>2 DEF Unspent
    <3>3. CASE Lost(c)
      BY <3>3, LostStays
    <3> QED BY <3>1, <3>2, <3>3 DEF SpentInv
  <2> QED BY <2>2, <2>3, <2>4 DEF SpentInv
<1>2. ASSUME NEW t \in Turns, Step(t) \/ Disconnect(t)
      PROVE  SpentInv'
  <2>1. \A r \in spent' : r <= sent'
    <3>1. sent' = sent
      BY <1>2, StepMoves
    <3>2. CASE Complete(t)
      BY <3>2, CompleteSpent
    <3>3. CASE ~ Complete(t)
      BY <1>2, <3>1, <3>3, SpentStays DEF SpentInv
    <3> QED BY <3>2, <3>3
  <2>2. \A u \in Turns : LocalsUnspent(pc[u], turn[u])'
    BY <1>2, TurnSpent, OthersSpent
  <2> QED BY <1>2, <2>1, <2>2, ChatSpent DEF SpentInv
<1>3. CASE Endpoint
  BY <1>3, EndpointSpent
<1>4. CASE Crash
  <2>1. /\ \A t \in Turns : Ends(t)
        /\ UNCHANGED <<messages, session, sent, documents, spent, replies>>
    BY <1>4, CrashMoves DEF stored, past
  <2>2. \A t \in Turns : LocalsUnspent(pc[t], turn[t])'
    BY <2>1 DEF LocalsUnspent, Drafting, Holding, Ends
  <2>3. ASSUME NEW t \in Turns, NEW c \in Chats, Owing(t, c)
        PROVE  Lost(c)'
    <3>1. replies[turn[t].request] = Untold
      BY <2>3 DEF TellInv, LocalsUntold, Owing, Creating
    <3> QED BY <2>1, <2>3, <3>1, SameKept, OwingEnds DEF Untold
  <2>4. \A c \in Chats : Lost(c) => Lost(c)'
    BY LostStays
  <2>5. \A c \in Chats : Unspent(c) => Unspent(c)'
    BY <2>1 DEF Unspent
  <2> QED BY <2>1, <2>2, <2>3, <2>4, <2>5 DEF SpentInv
<1>5. CASE UNCHANGED vars
  BY <1>5 DEF vars, SpentInv, Unspent, Lost, Owing, LocalsUnspent
<1> QED BY <1>1, <1>2, <1>3, <1>4, <1>5 DEF Next

LEMMA SpentImplies == TypeInv /\ TellInv /\ SpentInv => ToldDraftIsCleared
<1> SUFFICES ASSUME TypeInv, TellInv, SpentInv, NEW c \in Chats,
                    \A r \in documents : Questions(c, r) # {} => replies[r].status = "created"
             PROVE  Unspent(c)
  BY DEF ToldDraftIsCleared, Unspent
<1>1. \A r : AskedIn(messages, c, r) => Questions(c, r) # {}
  BY DEF AskedIn, Questions
<1>2. ~ Lost(c)
  BY <1>1 DEF Lost
<1>3. ASSUME NEW t \in Turns, Owing(t, c)
      PROVE  FALSE
  <2>1. replies[turn[t].request] = Untold
    BY <1>3 DEF TellInv, LocalsUntold, Owing, Creating
  <2> QED BY <1>1, <1>3, <2>1 DEF Owing, Untold
<1> QED BY <1>2, <1>3 DEF SpentInv

\* When no message is handled in a chat while another one is, beside any number of other
\* chats and of pool threads and whatever is lost, cut or late: once the clients know of
\* every invoice of a chat, its draft holds nothing that went into one.
THEOREM ToldDraftsGo == Spec /\ []Apart => []ToldDraftIsCleared
<1> QED BY TypeInit, TypeNext, FreshInit, FreshNext, StageInit, StageNext,
           AnswerInit, AnswerNext, TellInit, TellNext, HoldInit, HoldNext,
           DocumentsInit, DocumentsNext, SpentInit, SpentNext, SpentImplies, PTL DEF Spec

-----------------------------------------------------------------------------
(* Only drafts forget. *)

\* A step keeps what a session remembers, or opens or updates a document scope.
Remembers(c) ==
    \/ /\ session[c].memories \subseteq session'[c].memories
       /\ session[c].last # Nobody => session'[c].last # Nobody
    \/ \E t \in Turns :
          turn[t].chat = c /\ pc[t] = "complete" /\ session'[c].open

\* A step writes to no session but that of the chat it is at work on.
LEMMA OthersRead ==
    ASSUME Apart, TypeInv, ReadInv, NEW t \in Turns, Step(t) \/ Disconnect(t),
           NEW u \in Turns \ {t}
    PROVE  LocalsRead(pc[u], turn[u])'
<1>1. pc'[u] = pc[u] /\ turn'[u] = turn[u] /\ LocalsRead(pc[u], turn[u])
  BY StepMoves DEF OthersStay, ReadInv
<1>2. CASE session' = session
  BY <1>1, <1>2 DEF LocalsRead
<1>3. ASSUME NEW place, NEW s, Writes(t, place, s), pc[t] \in Answering,
             pc[u] \in Holding \cup {"recorded", "cleared"}
      PROVE  turn[u].state = session'[turn[u].chat]
  <2>1. pc[u] \in Answering
    BY <1>3 DEF Answering, Asking, Holding
  <2>2. turn[u].chat \in Chats \ {turn[t].chat}
    <3>1. turn[u].chat \in Chats
      BY <1>3, AtWork DEF TypeInv, Holding
    <3> QED BY <1>3, <2>1, <3>1 DEF Apart
  <2> QED BY <1>1, <1>3, <2>2 DEF Writes, LocalsRead
<1>4. CASE Writing(t) /\ session' # session
  <2>1. ~ (Complete(t) \/ (Completed(t) /\ pc'[t] = "record"))
    BY <1>4, CreateShape
  <2>2. \E place, s : Writes(t, place, s)
    BY <1>4, <2>1, RememberShape, MissingShape, ClearShape, RecordShape, ReadSessionShape
       DEF Writing
  <2>3. pc[t] \in Answering
    BY <1>4, <2>1, RememberShape, MissingShape, ClearShape, RecordShape, ReadSessionShape
       DEF Writing, Answering, Asking, Holding
  <2> QED BY <1>1, <1>3, <2>2, <2>3 DEF LocalsRead
<1> QED BY <1>2, <1>4, StepPlain DEF Plain

LEMMA StepReads ==
    ASSUME Apart, TypeInv, ReadInv, NEW t \in Turns, Step(t) \/ Disconnect(t)
    PROVE  ReadInv' /\ \A c \in Chats : Remembers(c)
<1>0. LocalsRead(pc[t], turn[t])
  BY DEF ReadInv
<1>1. ASSUME LocalsRead(pc[t], turn[t])'
      PROVE  ReadInv'
  BY <1>1, OthersRead DEF ReadInv
<1>2. CASE Plain(t)
  <2>1. LocalsRead(pc[t], turn[t])'
    BY <1>0, <1>2 DEF Plain, Ends, LocalsRead, Holding, Creating
  <2>2. session' = session
    BY <1>2 DEF Plain
  <2> QED BY <1>1, <2>1, <2>2 DEF Remembers
<1>3. CASE Complete(t) \/ (Completed(t) /\ pc'[t] = "record")
  <2>1. pc'[t] \in {"created", "record"} /\ session' = session
    BY <1>3, CreateShape
  <2>2. LocalsRead(pc[t], turn[t])'
    BY <2>1 DEF LocalsRead, Holding
  <2> QED BY <1>1, <2>1, <2>2 DEF Remembers
\* s is written in place of the session, which it was made from.
<1>4. ASSUME NEW place \in {"say", "clear"}, NEW s, Writes(t, place, s),
             session[turn[t].chat].memories \subseteq s.memories,
             session[turn[t].chat].last # Nobody => s.last # Nobody
      PROVE  ReadInv' /\ \A c \in Chats : Remembers(c)
  <2>1. LocalsRead(pc[t], turn[t])'
    BY <1>4 DEF Writes, LocalsRead, Holding
  <2>2. ASSUME NEW c \in Chats
        PROVE  Remembers(c)
    <3>1. CASE c = turn[t].chat
      BY <1>4, <3>1 DEF Writes, Remembers
    <3>2. CASE c # turn[t].chat
      BY <1>4, <3>2 DEF Writes, Remembers
    <3> QED BY <3>1, <3>2
  <2> QED BY <1>1, <2>1, <2>2
<1>5. CASE SavePending(t) \/ Remembered(t)
  BY <1>0, <1>4, <1>5, RememberShape DEF LocalsRead
<1>6. CASE ClearScope(t)
  BY <1>0, <1>4, <1>6, ClearShape DEF LocalsRead
<1>7. CASE RecordDocument(t)
  <2>1. PICK s : /\ Writes(t, "clear", s)
                 /\ s.last = turn[t].request /\ s.memories = turn[t].state.memories
    BY <1>7, RecordShape
  <2>2. s.last # Nobody
    BY <2>1 DEF Writes, Requests, Nobody
  <2>3. turn[t].state = session[turn[t].chat]
    BY <1>0, <1>7, RecordShape DEF LocalsRead
  <2> QED BY <1>4, <2>1, <2>2, <2>3
<1>8. CASE ReadSession(t)
  <2>1. Writes(t, pc'[t], session[turn[t].chat])
        /\ turn'[t].state = session[turn[t].chat]
    BY <1>8, ReadSessionShape
  <2>2. LocalsRead(pc[t], turn[t])'
    BY <2>1 DEF Writes, LocalsRead
  <2>3. \A c \in Chats : session'[c] = session[c]
    BY <2>1 DEF Writes
  <2> QED BY <1>1, <2>2, <2>3 DEF Remembers
<1>9. CASE Missing(t)
  <2>1. PICK s : Writes(t, "say", s) /\ s.open /\ pc[t] = "complete"
    BY <1>9, MissingShape
  <2>2. LocalsRead(pc[t], turn[t])'
    BY <2>1 DEF Writes, LocalsRead, Holding
  <2>3. ASSUME NEW c \in Chats
        PROVE  Remembers(c)
    <3>1. CASE c = turn[t].chat
      BY <2>1, <3>1 DEF Writes, Remembers
    <3>2. CASE c # turn[t].chat
      BY <2>1, <3>2 DEF Writes, Remembers
    <3> QED BY <3>1, <3>2
  <2> QED BY <1>1, <2>2, <2>3
<1> QED BY <1>2, <1>3, <1>5, <1>6, <1>7, <1>8, <1>9, StepPlain DEF Writing

LEMMA ReadInit == Init => ReadInv
BY DEF Init, ReadInv, LocalsRead, Holding

LEMMA ReadNext ==
    ASSUME Pool = {}
    PROVE  TypeInv /\ Apart /\ ReadInv /\ [Next]_vars
             => ReadInv' /\ \A c \in Chats : Remembers(c)
<1> SUFFICES ASSUME TypeInv, Apart, ReadInv, [Next]_vars
             PROVE  ReadInv' /\ \A c \in Chats : Remembers(c)
  OBVIOUS
<1>1. ASSUME UNCHANGED <<session, pc, turn>>
      PROVE  ReadInv' /\ \A c \in Chats : Remembers(c)
  BY <1>1 DEF ReadInv, LocalsRead, Remembers
<1>2. ASSUME NEW t \in Turns, Stream(t) \/ Send(t)
      PROVE  ReadInv' /\ \A c \in Chats : Remembers(c)
  <2>1. Arrives(t)
    BY <1>2, ArriveShape
  <2>2. LocalsRead(pc[t], turn[t])' /\ session' = session
    BY <2>1 DEF Arrives, LocalsRead, Holding
  <2>3. ASSUME NEW u \in Turns \ {t} PROVE LocalsRead(pc[u], turn[u])'
    BY <2>1, <2>2 DEF Arrives, OthersStay, ReadInv, LocalsRead
  <2> QED BY <2>2, <2>3 DEF ReadInv, Remembers
<1>3. ASSUME NEW t \in Turns, Step(t) \/ Disconnect(t)
      PROVE  ReadInv' /\ \A c \in Chats : Remembers(c)
  BY <1>3, StepReads
<1>4. CASE Endpoint
  BY <1>1, <1>4, EndpointMoves DEF Endpoint, CreateThread, DeleteThread, ReportError
<1>5. CASE Crash
  <2>1. \A t \in Turns : LocalsRead(pc[t], turn[t])'
    BY <1>5, CrashMoves DEF Ends, LocalsRead, Holding
  <2> QED BY <1>5, <2>1, CrashMoves DEF stored, ReadInv, Remembers
<1>6. CASE UNCHANGED vars
  BY <1>1, <1>6 DEF vars
<1> QED BY <1>2, <1>3, <1>4, <1>5, <1>6 DEF Next

\* When no message is handled in a chat while another one is, and no endpoint comes in
\* between, remembered values and the last document are lost only when a document scope is
\* opened or updated, however many chats are at work.
THEOREM OnlyDraftsForgetApart ==
    ASSUME Pool = {}
    PROVE  Spec /\ []Apart => OnlyDraftsForget
<1>1. TypeInv /\ Apart /\ ReadInv /\ [Next]_vars =>
        [\A c \in Chats :
          \/ session[c].memories \subseteq session'[c].memories
             /\ (session[c].last # Nobody => session'[c].last # Nobody)
          \/ \E t \in Turns :
                turn[t].chat = c /\ pc[t] = "complete" /\ session'[c].open]_vars
  BY ReadNext DEF Remembers
<1> QED BY <1>1, TypeInit, TypeNext, ReadInit, ReadNext, PTL DEF Spec, OnlyDraftsForget
=============================================================================
