--------------------------- MODULE ChatTurn_proofs ---------------------------
(***************************************************************************)
(* The type invariant of ChatTurn, for any number of turns, chats and      *)
(* requests.  TypeOK is not inductive: that a turn has the loop, a request *)
(* and a chat where its next step uses them is added as LoopOK, and the    *)
(* proof goes by the parts of the state an action touches.                 *)
(***************************************************************************)
EXTENDS ChatTurn, FiniteSetTheorems, TLAPS

Places == Awaiting \cup Running \cup {"idle"}

\* Where a turn has its chat: everywhere but before Open, if it is no stream.
Chatting == Places \ {"idle", "open"}

\* What the locals of a turn are at a place.
LocalsOK(place, locals) ==
    /\ place # "idle" => locals.request \in Requests
    /\ place \in Chatting => locals.chat \in Chats
    /\ place \in {"say", "learn", "finalize"} => locals.status \in Statuses

\* The part of the type invariant that Go maintains.
LoopOK ==
    /\ loop \in Turns \cup {NoTurn}
    /\ pc \in [Turns -> Places]
    /\ turn \in [Turns -> Turn]
    /\ \A t \in Turns : (pc[t] \in Running => loop = t) /\ LocalsOK(pc[t], turn[t])

RepliesOK == replies \in [Requests -> Outcome]

CountsOK ==
    /\ sent \in 0 .. MaxRequests /\ reported \in 0 .. MaxReports
    /\ documents \subseteq Requests /\ spent \subseteq Requests

PoolOK == pool \in [Pool -> PoolThread]

\* The inductive form of TypeOK.
TypeInv == StoreOK /\ LoopOK /\ PoolOK /\ CountsOK /\ RepliesOK

LEMMA TypeInvImplies == TypeInv => TypeOK
BY DEF TypeInv, TypeOK, TurnsOK, HistoryOK, LoopOK, PoolOK, CountsOK, RepliesOK, Places

-----------------------------------------------------------------------------
(* The building blocks of the actions. *)

LEMMA NoSessionType == NoSession \in Session
BY DEF NoSession, Session, Nobody

LEMMA IdleType == Idle \in Turn /\ LocalsOK("idle", Idle)
BY NoSessionType DEF Idle, Turn, Nobody, LocalsOK, Chatting

LEMMA GoType ==
    ASSUME LoopOK, NEW t \in Turns, NEW place \in Places, NEW locals \in Turn,
           LocalsOK(place, locals), Go(t, place, locals)
    PROVE  LoopOK'
<1>1. loop' \in Turns \cup {NoTurn} /\ pc' \in [Turns -> Places] /\ turn' \in [Turns -> Turn]
  BY DEF LoopOK, Go
<1>2. ASSUME NEW u \in Turns, pc'[u] \in Running PROVE loop' = u
  BY <1>2, NobodyAssumption DEF LoopOK, Go
<1>3. ASSUME NEW u \in Turns PROVE LocalsOK(pc'[u], turn'[u])
  BY DEF LoopOK, Go
<1> QED BY <1>1, <1>2, <1>3 DEF LoopOK

LEMMA ReplyType ==
    ASSUME RepliesOK, NEW t, NEW status \in Statuses, NEW chat \in Chats \cup {NoChat},
           Reply(t, status, chat)
    PROVE  RepliesOK'
BY DEF RepliesOK, Reply, Outcome

LEMMA EndType ==
    ASSUME LoopOK, RepliesOK, NEW t \in Turns, NEW status \in Statuses,
           NEW chat \in Chats \cup {NoChat}, End(t, status, chat)
    PROVE  LoopOK' /\ RepliesOK'
<1>1. LoopOK'
  BY GoType, IdleType DEF End, Places
<1>2. RepliesOK'
  BY ReplyType DEF End
<1> QED BY <1>1, <1>2

LEMMA SayType ==
    ASSUME LoopOK, NEW t \in Turns, NEW locals \in Turn, NEW status \in Statuses,
           locals.request \in Requests, locals.chat \in Chats,
           Say(t, locals, status)
    PROVE  LoopOK'
<1> DEFINE new == [locals EXCEPT !.status = status]
<1>1. new \in Turn
  BY DEF Turn
<1>2. LocalsOK("say", new)
  BY DEF LocalsOK, Turn
<1>3. "say" \in Places
  BY DEF Places, Running
<1> QED BY <1>1, <1>2, <1>3, GoType DEF Say

LEMMA ActType ==
    ASSUME LoopOK, NEW t \in Turns, NEW locals \in Turn, locals.decision \in Decision,
           locals.request \in Requests, locals.chat \in Chats,
           Act(t, locals)
    PROVE  LoopOK'
<1> DEFINE action == Routed(locals.state, locals.decision)
           place  == IF action = "create" THEN "extract" ELSE action
<1>1. action \in Actions
  BY DEF Routed, Actions, Decision
<1>2. place \in Places /\ LocalsOK(place, locals)
  BY <1>1 DEF Actions, Places, Awaiting, LocalsOK
<1>3. CASE Go(t, place, locals)
  BY <1>2, <1>3, GoType
<1>4. CASE Say(t, locals, "memory")
  BY <1>4, SayType DEF Statuses
<1> QED BY <1>3, <1>4 DEF Act

LEMMA ReturnType ==
    ASSUME LoopOK, RepliesOK, NEW t \in Turns,
           turn[t].request \in Requests, turn[t].chat \in Chats, turn[t].status \in Statuses,
           Return(t)
    PROVE  LoopOK' /\ RepliesOK'
<1>1. CASE turn[t].streamed
  <2>1. turn[t] \in Turn /\ LocalsOK("finalize", turn[t]) /\ "finalize" \in Places
    BY DEF LoopOK, LocalsOK, Places, Running
  <2> QED BY <1>1, <2>1, GoType DEF Return, RepliesOK
<1>2. CASE ~ turn[t].streamed
  BY <1>2, EndType DEF Return
<1> QED BY <1>1, <1>2

LEMMA UnavailableType ==
    ASSUME LoopOK, RepliesOK, NEW t \in Turns,
           turn[t].request \in Requests, turn[t].chat \in Chats,
           Unavailable(t)
    PROVE  LoopOK' /\ RepliesOK'
<1> DEFINE new == [turn[t] EXCEPT !.status = "document_unavailable"]
<1>0. turn[t] \in Turn
  BY DEF LoopOK
<1>1. CASE turn[t].streamed
  <2>1. new \in Turn
    BY <1>0 DEF Turn, Statuses
  <2>2. LocalsOK("finalize", new) /\ "finalize" \in Places
    BY <1>0 DEF Turn, Statuses, LocalsOK, Places, Running
  <2> QED BY <1>1, <2>1, <2>2, GoType DEF Unavailable, RepliesOK
<1>2. CASE ~ turn[t].streamed
  BY <1>2, EndType DEF Unavailable, Statuses
<1> QED BY <1>1, <1>2

LEMMA EnsureType ==
    ASSUME NEW asked, NEW c, Ensure(asked, c),
           threads \in [Chats -> {"unused", "live", "deleted"}]
    PROVE  threads' \in [Chats -> {"unused", "live", "deleted"}]
BY DEF Ensure

LEMMA StoreType ==
    ASSUME NEW c \in Chats, NEW message \in Message, Store(c, message),
           messages \in [Chats -> Seq(Message)]
    PROVE  messages' \in [Chats -> Seq(Message)]
BY DEF Store

LEMMA MergeType ==
    ASSUME NEW history \in Seq(Message), NEW r \in Requests
    PROVE  MergeDiagnostics(history, r) \in Seq(Message)
<1>1. CASE history # <<>> /\ history[Len(history)].role = "assistant"
  <2>0. history[Len(history)] \in Message
    BY <1>1
  <2>1. [history[Len(history)] EXCEPT !.diagnostics = r] \in Message
    BY <2>0 DEF Message
  <2>2. MergeDiagnostics(history, r)
            = [history EXCEPT ![Len(history)] = [history[Len(history)] EXCEPT !.diagnostics = r]]
    BY <1>1 DEF MergeDiagnostics
  <2> QED BY <1>1, <2>1, <2>2
<1>2. CASE ~ (history # <<>> /\ history[Len(history)].role = "assistant")
  BY <1>2 DEF MergeDiagnostics
<1> QED BY <1>1, <1>2

LEMMA MessageTypes ==
    ASSUME NEW r \in Requests
    PROVE  /\ UserMessage(r) \in Message
           /\ \A status \in Statuses, d \in Requests \cup {Nobody} :
                 Answer(r, status, d) \in Message
           /\ Answer(Nobody, "error", Nobody) \in Message
BY DEF UserMessage, Answer, Message, Statuses, Nobody

\* Sessions that steps make of a session.
LEMMA SessionTypes ==
    ASSUME NEW s \in Session, NEW r \in Requests
    PROVE  /\ [s EXCEPT !.memories = @ \cup {r}] \in Session
           /\ [s EXCEPT !.memories = @ \cup {r}, !.pending = FALSE] \in Session
           /\ [s EXCEPT !.pending = TRUE] \in Session
           /\ [s EXCEPT !.last = r] \in Session
           /\ WithoutScope(s) \in Session
BY DEF Session, WithoutScope

LEMMA DraftToStateType ==
    ASSUME NEW draft \in SUBSET Requests
    PROVE  DraftToState(draft) \in Session
BY DEF DraftToState, NoSession, Session, Nobody

-----------------------------------------------------------------------------
(* Every step keeps the types: the steps of a stream first. *)

LEMMA AtWork ==
    ASSUME LoopOK, NEW t \in Turns, pc[t] # "idle"
    PROVE  /\ turn[t] \in Turn /\ turn[t].request \in Requests
           /\ pc[t] # "open" => turn[t].chat \in Chats
           /\ pc[t] \in {"say", "learn", "finalize"} => turn[t].status \in Statuses
BY DEF LoopOK, LocalsOK, Chatting

LEMMA StreamType ==
    ASSUME TypeInv, NEW t \in Turns, Stream(t)
    PROVE  TypeInv'
<1> PICK text \in Texts, asked \in Known, c \in Chats :
      /\ Ensure(asked, c)
      /\ Go(t, "start", [Idle EXCEPT !.request = sent + 1, !.text = text,
               !.streamed = TRUE, !.learns = TRUE, !.chat = c, !.started = c])
  BY DEF Stream
<1> DEFINE new == [Idle EXCEPT !.request = sent + 1, !.text = text,
               !.streamed = TRUE, !.learns = TRUE, !.chat = c, !.started = c]
<1>1. sent + 1 \in Requests /\ sent' \in 0 .. MaxRequests
  BY BoundsAssumption DEF Stream, TypeInv, CountsOK, Requests
<1>2. new \in Turn
  BY <1>1, IdleType, ClientAssumption DEF Turn
<1>3. LocalsOK("start", new) /\ "start" \in Places
  BY <1>1, IdleType DEF Turn, LocalsOK, Places, Awaiting
<1>4. LoopOK'
  BY <1>2, <1>3, GoType DEF TypeInv
<1>5. threads' \in [Chats -> {"unused", "live", "deleted"}]
  BY EnsureType DEF TypeInv, StoreOK
<1> QED
  BY <1>1, <1>4, <1>5
  DEF Stream, TypeInv, StoreOK, PoolOK, CountsOK, RepliesOK, past

LEMMA StreamStepType ==
    ASSUME TypeInv, NEW t \in Turns, StreamStep(t) \/ Disconnect(t)
    PROVE  TypeInv'
<1>0. LoopOK /\ RepliesOK /\ StoreOK
  BY DEF TypeInv
<1>1. CASE Started(t)
  <2> DEFINE s     == session[turn[t].chat]
             place == IF SuppliesPending(t, s) THEN "open" ELSE "sdecide"
             new   == [turn[t] EXCEPT !.state = s]
  <2>1. turn[t] \in Turn /\ turn[t].request \in Requests /\ turn[t].chat \in Chats
    BY <1>0, <1>1, AtWork DEF Started
  <2>2. new \in Turn
    BY <1>0, <2>1 DEF Turn, StoreOK
  <2>3. LocalsOK(place, new) /\ place \in Places
    BY <2>1 DEF Turn, LocalsOK, Places, Awaiting, Running
  <2>4. Go(t, place, new)
    BY <1>1 DEF Started
  <2>5. LoopOK'
    BY <1>0, <2>2, <2>3, <2>4, GoType
  <2> QED BY <1>1, <2>5 DEF Started, TypeInv, StoreOK, PoolOK, CountsOK, RepliesOK, past, stored
<1>2. CASE StreamUndecided(t)
  <2>1. turn[t] \in Turn /\ turn[t].request \in Requests /\ turn[t].chat \in Chats
    BY <1>0, <1>2, AtWork DEF StreamUndecided
  <2>2. PICK status \in {"llm_unavailable", "parse_error"} :
           Say(t, [turn[t] EXCEPT !.direct = TRUE], status)
    BY <1>2 DEF StreamUndecided
  <2>3. [turn[t] EXCEPT !.direct = TRUE] \in Turn
        /\ [turn[t] EXCEPT !.direct = TRUE].request \in Requests
        /\ [turn[t] EXCEPT !.direct = TRUE].chat \in Chats
    BY <2>1 DEF Turn
  <2>4. LoopOK'
    BY <1>0, <2>2, <2>3, SayType DEF Statuses
  <2>5. messages' \in [Chats -> Seq(Message)]
    BY <1>0, <1>2, <2>1, StoreType, MessageTypes DEF StreamUndecided, StoreOK
  <2> QED BY <1>2, <2>4, <2>5
          DEF StreamUndecided, TypeInv, StoreOK, PoolOK, CountsOK, RepliesOK, past
<1>3. CASE StreamDecided(t)
  <2>1. turn[t] \in Turn /\ turn[t].request \in Requests /\ turn[t].chat \in Chats
    BY <1>0, <1>3, AtWork DEF StreamDecided
  <2>2. PICK d \in Decision :
           LET decision == Guarded(turn[t].text, d)
               local    == [turn[t] EXCEPT !.decision = decision]
           IN  IF Routed(turn[t].state, decision) = "answer"
               THEN /\ Go(t, "tokens", [local EXCEPT !.direct = TRUE])
                    /\ Store(turn[t].chat, UserMessage(turn[t].request))
               ELSE /\ Go(t, "open", [local EXCEPT !.learns = FALSE])
                    /\ UNCHANGED messages
    BY <1>3 DEF StreamDecided
  <2> DEFINE decision == Guarded(turn[t].text, d)
             local    == [turn[t] EXCEPT !.decision = decision]
  <2>3. decision \in Decision
    BY DEF Guarded, Decision, Actions
  <2>4. local \in Turn /\ local.request \in Requests /\ local.chat \in Chats
    BY <2>1, <2>3 DEF Turn
  <2> HIDE DEF local
  <2>5. CASE Routed(turn[t].state, decision) = "answer"
    <3>1. LocalsOK("tokens", [local EXCEPT !.direct = TRUE])
          /\ [local EXCEPT !.direct = TRUE] \in Turn /\ "tokens" \in Places
      BY <2>4 DEF Turn, LocalsOK, Places, Awaiting
    <3>2. LoopOK'
      BY <1>0, <2>2, <2>5, <3>1, GoType DEF local
    <3>3. messages' \in [Chats -> Seq(Message)]
      BY <1>0, <2>1, <2>2, <2>5, StoreType, MessageTypes DEF StoreOK
    <3> QED BY <1>3, <3>2, <3>3
            DEF StreamDecided, TypeInv, StoreOK, PoolOK, CountsOK, RepliesOK, past
  <2>6. CASE Routed(turn[t].state, decision) # "answer"
    <3>1. LocalsOK("open", [local EXCEPT !.learns = FALSE])
          /\ [local EXCEPT !.learns = FALSE] \in Turn /\ "open" \in Places
      BY <2>4 DEF Turn, LocalsOK, Places, Running, Chatting
    <3>2. LoopOK' /\ UNCHANGED messages
      BY <1>0, <2>2, <2>6, <3>1, GoType DEF local
    <3> QED BY <1>3, <3>2
            DEF StreamDecided, TypeInv, StoreOK, PoolOK, CountsOK, RepliesOK, past
  <2> QED BY <2>5, <2>6
<1>4. CASE Streamed(t)
  <2>1. turn[t] \in Turn /\ turn[t].request \in Requests /\ turn[t].chat \in Chats
    BY <1>0, <1>4, AtWork DEF Streamed
  <2>2. LoopOK'
    BY <1>0, <1>4, <2>1, SayType DEF Streamed, Statuses
  <2> QED BY <1>4, <2>2 DEF Streamed, TypeInv, StoreOK, PoolOK, CountsOK, RepliesOK, past, stored
<1>5. CASE Finalize(t)
  <2>1. turn[t] \in Turn /\ turn[t].request \in Requests /\ turn[t].chat \in Chats
        /\ turn[t].status \in Statuses
    BY <1>0, <1>5, AtWork DEF Finalize
  <2>2. LoopOK'
    <3>1. LocalsOK("background", turn[t]) /\ "background" \in Places /\ "idle" \in Places
      BY <2>1 DEF LocalsOK, Places, Awaiting
    <3> QED BY <1>0, <1>5, <2>1, <3>1, GoType, IdleType DEF Finalize
  <2>3. RepliesOK'
    BY <1>0, <1>5, <2>1, ReplyType DEF Finalize
  <2>4. messages' \in [Chats -> Seq(Message)]
    <3>1. MergeDiagnostics(messages[turn[t].chat], turn[t].request) \in Seq(Message)
      BY <1>0, <2>1, MergeType DEF StoreOK
    <3> QED BY <1>0, <1>5, <3>1 DEF Finalize, StoreOK
  <2> QED BY <1>5, <2>2, <2>3, <2>4 DEF Finalize, TypeInv, StoreOK, PoolOK, CountsOK
<1>6. CASE Disconnect(t)
  <2>1. LoopOK'
    BY <1>0, <1>6, GoType, IdleType DEF Disconnect, Places
  <2> QED BY <1>6, <2>1 DEF Disconnect, TypeInv, StoreOK, PoolOK, CountsOK, RepliesOK, past, stored
<1> QED BY <1>1, <1>2, <1>3, <1>4, <1>5, <1>6 DEF StreamStep

-----------------------------------------------------------------------------
(* The steps of _chat, up to its answers without Document. *)

LEMMA SendType ==
    ASSUME TypeInv, NEW t \in Turns, Send(t)
    PROVE  TypeInv'
<1> PICK text \in Texts, asked \in Known :
      Go(t, "open", [Idle EXCEPT !.request = sent + 1, !.text = text,
            !.learns = TRUE, !.chat = asked])
  BY DEF Send
<1> DEFINE new == [Idle EXCEPT !.request = sent + 1, !.text = text,
                      !.learns = TRUE, !.chat = asked]
<1>1. sent + 1 \in Requests /\ sent' \in 0 .. MaxRequests
  BY BoundsAssumption DEF Send, TypeInv, CountsOK, Requests
<1>2. new \in Turn
  BY <1>1, IdleType, ClientAssumption DEF Turn, Known
<1>3. LocalsOK("open", new) /\ "open" \in Places
  BY <1>1, IdleType DEF Turn, LocalsOK, Places, Running, Chatting
<1>4. LoopOK'
  BY <1>2, <1>3, GoType DEF TypeInv
<1> QED
  BY <1>1, <1>4 DEF Send, TypeInv, StoreOK, PoolOK, CountsOK, RepliesOK, past, stored

LEMMA OpenType ==
    ASSUME TypeInv, NEW t \in Turns, Open(t)
    PROVE  TypeInv'
<1>0. LoopOK /\ RepliesOK /\ StoreOK
  BY DEF TypeInv
<1>1. turn[t] \in Turn /\ turn[t].request \in Requests
  BY <1>0, AtWork DEF Open
<1>2. PICK c \in Chats :
        /\ Ensure(turn[t].chat, c)
        /\ Store(c, UserMessage(turn[t].request))
        /\ Go(t, "read", [turn[t] EXCEPT !.chat = c])
  BY DEF Open
<1>3. [turn[t] EXCEPT !.chat = c] \in Turn
      /\ LocalsOK("read", [turn[t] EXCEPT !.chat = c]) /\ "read" \in Places
  BY <1>1 DEF Turn, LocalsOK, Places, Running
<1>4. LoopOK'
  BY <1>0, <1>2, <1>3, GoType
<1>5. threads' \in [Chats -> {"unused", "live", "deleted"}]
  BY <1>0, <1>2, EnsureType DEF StoreOK
<1>6. messages' \in [Chats -> Seq(Message)]
  BY <1>0, <1>1, <1>2, StoreType, MessageTypes DEF StoreOK
<1> QED BY <1>4, <1>5, <1>6 DEF Open, TypeInv, StoreOK, PoolOK, CountsOK, RepliesOK, past

LEMMA ReadType ==
    ASSUME TypeInv, NEW t \in Turns, Read(t)
    PROVE  TypeInv'
<1> DEFINE s     == session[turn[t].chat]
           local == [turn[t] EXCEPT !.state = s]
<1>0. LoopOK /\ RepliesOK /\ StoreOK
  BY DEF TypeInv
<1>1. turn[t] \in Turn /\ turn[t].request \in Requests /\ turn[t].chat \in Chats
  BY <1>0, AtWork DEF Read
<1>2. local \in Turn /\ local.request \in Requests /\ local.chat \in Chats
      /\ (local.decision # NoDecision => local.decision \in Decision)
  BY <1>0, <1>1 DEF Turn, StoreOK
<1>3. CASE SuppliesPending(t, s)
  <2>1. Go(t, "pending", local)
    BY <1>3 DEF Read
  <2> QED BY <1>0, <1>2, <2>1, GoType DEF LocalsOK, Places, Running,
          Read, TypeInv, PoolOK, CountsOK, RepliesOK, past, stored, StoreOK
<1>4. CASE ~ SuppliesPending(t, s) /\ local.decision = NoDecision
  <2>1. Go(t, "decide", local)
    BY <1>4 DEF Read
  <2> QED BY <1>0, <1>2, <2>1, GoType DEF LocalsOK, Places, Awaiting,
          Read, TypeInv, PoolOK, CountsOK, RepliesOK, past, stored, StoreOK
<1>5. CASE ~ SuppliesPending(t, s) /\ local.decision # NoDecision
  <2>1. Act(t, local)
    BY <1>5 DEF Read
  <2>2. LoopOK'
    BY <1>0, <1>2, <1>5, <2>1, ActType
  <2> QED BY <2>2 DEF Read, TypeInv, PoolOK, CountsOK, RepliesOK, past, stored, StoreOK
<1> QED BY <1>3, <1>4, <1>5

LEMMA MemoryStepType ==
    ASSUME TypeInv, NEW t \in Turns,
           SavePending(t) \/ Remembered(t) \/ Recalled(t)
    PROVE  TypeInv'
<1>0. LoopOK /\ RepliesOK /\ StoreOK
  BY DEF TypeInv
<1>1. turn[t] \in Turn /\ turn[t].request \in Requests /\ turn[t].chat \in Chats
      /\ turn[t].state \in Session
  BY <1>0, AtWork DEF SavePending, Remembered, Recalled, Turn
<1>2. CASE SavePending(t)
  <2>1. LoopOK'
    BY <1>0, <1>1, <1>2, SayType DEF SavePending, Statuses
  <2>2. session' \in [Chats -> Session]
    BY <1>0, <1>1, <1>2, SessionTypes DEF SavePending, StoreOK
  <2> QED BY <1>2, <2>1, <2>2
          DEF SavePending, TypeInv, StoreOK, PoolOK, CountsOK, RepliesOK, past
<1>3. CASE Remembered(t)
  <2>1. LoopOK'
    BY <1>0, <1>1, <1>3, SayType DEF Remembered, Statuses
  <2>2. session' \in [Chats -> Session]
    <3>1. CASE UNCHANGED session
      BY <1>0, <3>1 DEF StoreOK
    <3>2. CASE \E s \in { [turn[t].state EXCEPT !.memories = @ \cup {turn[t].request}],
                          [turn[t].state EXCEPT !.pending = TRUE],
                          session[turn[t].chat] } :
                  session' = [session EXCEPT ![turn[t].chat] = s]
      <4>1. PICK s \in { [turn[t].state EXCEPT !.memories = @ \cup {turn[t].request}],
                         [turn[t].state EXCEPT !.pending = TRUE],
                         session[turn[t].chat] } :
                   session' = [session EXCEPT ![turn[t].chat] = s]
        BY <3>2
      <4>2. s \in Session
        BY <1>0, <1>1, SessionTypes DEF StoreOK
      <4> QED BY <1>0, <4>1, <4>2 DEF StoreOK
    <3> QED BY <1>3, <3>1, <3>2 DEF Remembered
  <2> QED BY <1>3, <2>1, <2>2
          DEF Remembered, TypeInv, StoreOK, PoolOK, CountsOK, RepliesOK, past
<1>4. CASE Recalled(t)
  <2>1. CASE Say(t, turn[t], "memory") /\ UNCHANGED replies
    BY <1>0, <1>1, <1>4, <2>1, SayType
    DEF Statuses, Recalled, TypeInv, StoreOK, PoolOK, CountsOK, RepliesOK, stored
  <2>2. CASE End(t, "error", NoChat)
    BY <1>0, <1>4, <2>2, EndType
    DEF Statuses, Recalled, TypeInv, StoreOK, PoolOK, CountsOK, stored
  <2> QED BY <1>4, <2>1, <2>2 DEF Recalled
<1> QED BY <1>2, <1>3, <1>4

LEMMA AnswerStepType ==
    ASSUME TypeInv, NEW t \in Turns,
           Undecided(t) \/ Decided(t) \/ Answered(t) \/ Listed(t)
    PROVE  TypeInv'
<1>0. LoopOK /\ RepliesOK /\ StoreOK
  BY DEF TypeInv
<1>1. turn[t] \in Turn /\ turn[t].request \in Requests /\ turn[t].chat \in Chats
  BY <1>0, AtWork DEF Undecided, Decided, Answered, Listed
<1>2. CASE Undecided(t)
  <2>1. LoopOK'
    BY <1>0, <1>1, <1>2, SayType DEF Undecided, Statuses
  <2> QED BY <1>2, <2>1 DEF Undecided, TypeInv, StoreOK, PoolOK, CountsOK, RepliesOK, past, stored
<1>3. CASE Decided(t)
  <2>1. PICK d \in Decision :
           Act(t, [turn[t] EXCEPT !.decision = Guarded(turn[t].text, d)])
    BY <1>3 DEF Decided
  <2> DEFINE new == [turn[t] EXCEPT !.decision = Guarded(turn[t].text, d)]
  <2>2. Guarded(turn[t].text, d) \in Decision
    BY DEF Guarded, Decision, Actions
  <2>3. new \in Turn /\ new.request \in Requests /\ new.chat \in Chats /\ new.decision \in Decision
    BY <1>1, <2>2 DEF Turn
  <2>4. LoopOK'
    BY <1>0, <2>1, <2>3, ActType
  <2> QED BY <1>3, <2>4 DEF Decided, TypeInv, StoreOK, PoolOK, CountsOK, RepliesOK, past, stored
<1>4. CASE Answered(t)
  <2>1. LoopOK'
    BY <1>0, <1>1, <1>4, SayType DEF Answered, Statuses
  <2> QED BY <1>4, <2>1 DEF Answered, TypeInv, StoreOK, PoolOK, CountsOK, RepliesOK, past, stored
<1>5. CASE Listed(t)
  <2>1. LoopOK' /\ RepliesOK'
    <3>1. CASE Say(t, turn[t], "list") /\ UNCHANGED replies
      BY <1>0, <1>1, <3>1, SayType DEF Statuses, RepliesOK
    <3>2. CASE Unavailable(t)
      BY <1>0, <1>1, <3>2, UnavailableType
    <3>3. CASE End(t, "error", NoChat)
      BY <1>0, <3>3, EndType DEF Statuses
    <3> QED BY <1>5, <3>1, <3>2, <3>3 DEF Listed
  <2> QED BY <1>5, <2>1 DEF Listed, TypeInv, StoreOK, PoolOK, CountsOK, stored
<1> QED BY <1>2, <1>3, <1>4, <1>5

-----------------------------------------------------------------------------
(* The steps of _chat that draft and create an invoice. *)

LEMMA DraftStepType ==
    ASSUME TypeInv, NEW t \in Turns,
           Extracted(t) \/ Missing(t) \/ Complete(t) \/ Completed(t) \/ NotCompleted(t)
    PROVE  TypeInv'
<1>0. LoopOK /\ RepliesOK /\ StoreOK
  BY DEF TypeInv
<1>1. turn[t] \in Turn /\ turn[t].request \in Requests /\ turn[t].chat \in Chats
      /\ turn[t].state.draft \subseteq Requests /\ turn[t].draft \subseteq Requests
  BY <1>0, AtWork
  DEF Extracted, Missing, Complete, Completed, NotCompleted, Turn, Session
<1>2. CASE Extracted(t)
  <2>1. LoopOK' /\ RepliesOK'
    <3>1. CASE /\ \E new \in {{turn[t].request}, {}} :
                     \E draft \in Merged(turn[t].state.draft, new) :
                        Go(t, "complete", [turn[t] EXCEPT !.draft = draft])
               /\ UNCHANGED replies
      <4>1. PICK draft \in SUBSET Requests : Go(t, "complete", [turn[t] EXCEPT !.draft = draft])
        BY <1>1, <3>1 DEF Merged
      <4>2. [turn[t] EXCEPT !.draft = draft] \in Turn
            /\ LocalsOK("complete", [turn[t] EXCEPT !.draft = draft]) /\ "complete" \in Places
        BY <1>1 DEF Turn, LocalsOK, Places, Awaiting
      <4> QED BY <1>0, <3>1, <4>1, <4>2, GoType DEF RepliesOK
    <3>2. CASE End(t, "llm_unavailable", NoChat)
      BY <1>0, <3>2, EndType DEF Statuses
    <3>3. CASE End(t, "error", NoChat)
      BY <1>0, <3>3, EndType DEF Statuses
    <3> QED BY <1>2, <3>1, <3>2, <3>3 DEF Extracted
  <2> QED BY <1>2, <2>1 DEF Extracted, TypeInv, StoreOK, PoolOK, CountsOK, stored
<1>3. CASE Missing(t)
  <2>1. LoopOK'
    BY <1>0, <1>1, <1>3, SayType DEF Missing, Statuses
  <2>2. session' \in [Chats -> Session]
    BY <1>0, <1>1, <1>3, DraftToStateType DEF Missing, StoreOK
  <2> QED BY <1>3, <2>1, <2>2
          DEF Missing, TypeInv, StoreOK, PoolOK, CountsOK, RepliesOK, past
<1>4. CASE Complete(t)
  <2>1. LoopOK'
    BY <1>0, <1>1, <1>4 DEF Complete, LoopOK, LocalsOK, Places, Awaiting, Running, Chatting
  <2>2. CountsOK'
    BY <1>1, <1>4 DEF Complete, TypeInv, CountsOK
  <2> QED BY <1>4, <2>1, <2>2 DEF Complete, TypeInv, StoreOK, PoolOK, RepliesOK, stored
<1>5. CASE Completed(t)
  <2>1. LoopOK' /\ RepliesOK'
    <3>1. CASE Go(t, "record", turn[t]) /\ UNCHANGED replies
      BY <1>0, <1>1, <3>1, GoType DEF LocalsOK, Places, Running, RepliesOK
    <3>2. CASE Unavailable(t)
      BY <1>0, <1>1, <3>2, UnavailableType
    <3> QED BY <1>5, <3>1, <3>2 DEF Completed
  <2> QED BY <1>5, <2>1 DEF Completed, TypeInv, StoreOK, PoolOK, CountsOK, stored
<1>6. CASE NotCompleted(t)
  <2>1. LoopOK' /\ RepliesOK'
    <3>1. CASE End(t, IF turn[t].streamed THEN "error" ELSE "conflict", NoChat)
      BY <1>0, <3>1, EndType DEF Statuses
    <3>2. CASE Unavailable(t)
      BY <1>0, <1>1, <3>2, UnavailableType
    <3>3. CASE End(t, "error", NoChat)
      BY <1>0, <3>3, EndType DEF Statuses
    <3> QED BY <1>6, <3>1, <3>2, <3>3 DEF NotCompleted
  <2> QED BY <1>6, <2>1 DEF NotCompleted, TypeInv, StoreOK, PoolOK, CountsOK, stored
<1> QED BY <1>2, <1>3, <1>4, <1>5, <1>6

LEMMA CreatedStepType ==
    ASSUME TypeInv, NEW t \in Turns,
           ReadSession(t) \/ RecordDocument(t) \/ ClearScope(t)
    PROVE  TypeInv'
<1>0. LoopOK /\ RepliesOK /\ StoreOK
  BY DEF TypeInv
<1>1. turn[t] \in Turn /\ turn[t].request \in Requests /\ turn[t].chat \in Chats
      /\ turn[t].state \in Session
  BY <1>0, AtWork DEF ReadSession, RecordDocument, ClearScope, Turn
<1>2. CASE ReadSession(t)
  <2> DEFINE new   == [turn[t] EXCEPT !.state = session[turn[t].chat]]
             place == IF pc[t] = "record" THEN "recorded" ELSE "cleared"
  <2>1. new \in Turn /\ LocalsOK(place, new) /\ place \in Places
    BY <1>0, <1>1 DEF Turn, LocalsOK, Places, Running, StoreOK
  <2>2. Go(t, place, new)
    BY <1>2 DEF ReadSession
  <2>3. LoopOK'
    BY <1>0, <2>1, <2>2, GoType
  <2> QED BY <1>2, <2>3 DEF ReadSession, TypeInv, StoreOK, PoolOK, CountsOK, RepliesOK, past, stored
<1>3. CASE RecordDocument(t)
  <2>1. LoopOK'
    BY <1>0, <1>1, <1>3, GoType DEF RecordDocument, LocalsOK, Places, Running
  <2>2. session' \in [Chats -> Session]
    BY <1>0, <1>1, <1>3, SessionTypes DEF RecordDocument, StoreOK
  <2> QED BY <1>3, <2>1, <2>2
          DEF RecordDocument, TypeInv, StoreOK, PoolOK, CountsOK, RepliesOK, past
<1>4. CASE ClearScope(t)
  <2>1. LoopOK'
    BY <1>0, <1>1, <1>4, SayType DEF ClearScope, Statuses
  <2>2. session' \in [Chats -> Session]
    BY <1>0, <1>1, <1>4, SessionTypes DEF ClearScope, StoreOK
  <2> QED BY <1>4, <2>1, <2>2
          DEF ClearScope, TypeInv, StoreOK, PoolOK, CountsOK, RepliesOK, past
<1> QED BY <1>2, <1>3, <1>4

LEMMA LastStepType ==
    ASSUME TypeInv, NEW t \in Turns, StoreAnswer(t) \/ Learn(t)
    PROVE  TypeInv'
<1>0. LoopOK /\ RepliesOK /\ StoreOK
  BY DEF TypeInv
<1>1. turn[t] \in Turn /\ turn[t].request \in Requests /\ turn[t].chat \in Chats
  BY <1>0, AtWork DEF StoreAnswer, Learn
<1>2. CASE StoreAnswer(t)
  <2>1. turn[t].status \in Statuses
    BY <1>0, <1>2, AtWork DEF StoreAnswer
  <2>2. LoopOK' /\ RepliesOK'
    <3>1. LocalsOK("background", turn[t]) /\ LocalsOK("learn", turn[t])
          /\ {"background", "learn", "idle"} \subseteq Places
      BY <1>1, <2>1 DEF LocalsOK, Places, Awaiting
    <3>2. CASE turn[t].direct
      <4>1. LoopOK'
        BY <1>0, <1>1, <1>2, <3>1, <3>2, GoType, IdleType DEF StoreAnswer
      <4>2. RepliesOK'
        BY <1>0, <1>1, <1>2, <2>1, <3>2, ReplyType DEF StoreAnswer
      <4> QED BY <4>1, <4>2
    <3>3. CASE ~ turn[t].direct /\ turn[t].learns /\ turn[t].status \in Learnable
      <4>1. Go(t, "learn", turn[t]) /\ UNCHANGED replies
        BY <1>2, <3>3 DEF StoreAnswer
      <4> QED BY <1>0, <1>1, <3>1, <4>1, GoType DEF RepliesOK
    <3>4. CASE ~ turn[t].direct /\ ~ (turn[t].learns /\ turn[t].status \in Learnable)
      <4>1. Return(t)
        BY <1>2, <3>4 DEF StoreAnswer
      <4> QED BY <1>0, <1>1, <2>1, <4>1, ReturnType
    <3> QED BY <3>2, <3>3, <3>4
  <2>3. messages' \in [Chats -> Seq(Message)]
    <3>1. Store(turn[t].chat,
             Answer(turn[t].request, turn[t].status,
                    IF turn[t].direct THEN turn[t].request ELSE Nobody))
      BY <1>2 DEF StoreAnswer
    <3> QED BY <1>0, <1>1, <2>1, <3>1, StoreType, MessageTypes DEF StoreOK
  <2> QED BY <1>2, <2>2, <2>3 DEF StoreAnswer, TypeInv, StoreOK, PoolOK, CountsOK
<1>3. CASE Learn(t)
  <2>1. LoopOK' /\ RepliesOK'
    <3>1. CASE pc[t] = "learn"
      <4>1. turn[t].status \in Statuses
        BY <1>0, <3>1, AtWork
      <4> QED BY <1>0, <1>1, <1>3, <3>1, <4>1, ReturnType DEF Learn
    <3>2. CASE pc[t] = "background"
      BY <1>0, <1>3, <3>2, GoType, IdleType DEF Learn, Places, RepliesOK
    <3> QED BY <1>3, <3>1, <3>2 DEF Learn
  <2> QED BY <1>3, <2>1 DEF Learn, TypeInv, StoreOK, PoolOK, CountsOK, stored
<1> QED BY <1>2, <1>3

-----------------------------------------------------------------------------
(* The other steps. *)

LEMMA EndpointType ==
    ASSUME TypeInv, Endpoint
    PROVE  TypeInv'
<1>0. LoopOK /\ RepliesOK /\ StoreOK /\ PoolOK
  BY DEF TypeInv
<1>1. ASSUME NEW c \in Chats, CreateThread(c) \/ DeleteThread(c) PROVE TypeInv'
  BY <1>0, <1>1 DEF CreateThread, DeleteThread, TypeInv, StoreOK, LoopOK, PoolOK, CountsOK,
     RepliesOK, past
<1>2. ASSUME NEW c \in Chats, ReportError(c) PROVE TypeInv'
  <2>1. messages' \in [Chats -> Seq(Message)]
    <3>1. Answer(Nobody, "error", Nobody) \in Message
      BY DEF Answer, Message, Statuses
    <3> QED BY <1>0, <1>2, <3>1, StoreType DEF ReportError, StoreOK
  <2>2. reported' \in 0 .. MaxReports
    BY <1>2, BoundsAssumption DEF ReportError, TypeInv, CountsOK
  <2> QED BY <1>2, <2>1, <2>2
          DEF ReportError, TypeInv, StoreOK, LoopOK, PoolOK, CountsOK, RepliesOK, past
<1>3. ASSUME NEW p \in Pool, ReadScope(p) PROVE TypeInv'
  BY <1>0, <1>3 DEF ReadScope, TypeInv, StoreOK, LoopOK, PoolOK, PoolThread, CountsOK,
     RepliesOK, past, stored
<1>4. ASSUME NEW p \in Pool, WriteScope(p) PROVE TypeInv'
  <2>1. WithoutScope(pool[p].state) \in Session
    BY <1>0 DEF PoolOK, PoolThread, Session, WithoutScope
  <2>2. session' \in [Chats -> Session]
    BY <1>0, <1>4, <2>1 DEF WriteScope, StoreOK
  <2>3. PoolOK'
    BY <1>0, <1>4, NoSessionType DEF WriteScope, PoolOK, PoolThread
  <2> QED BY <1>4, <2>2, <2>3
          DEF WriteScope, TypeInv, StoreOK, LoopOK, CountsOK, RepliesOK, past
<1> QED BY <1>1, <1>2, <1>3, <1>4 DEF Endpoint

LEMMA CrashType ==
    ASSUME TypeInv, Crash
    PROVE  TypeInv'
<1>1. LoopOK'
  BY IdleType DEF Crash, LoopOK, Places, Running
<1>2. PoolOK'
  BY NoSessionType DEF Crash, PoolOK, PoolThread
<1> QED BY <1>1, <1>2 DEF Crash, TypeInv, StoreOK, CountsOK, RepliesOK, past, stored

LEMMA TypeInit == Init => TypeInv
<1> SUFFICES ASSUME Init PROVE TypeInv
  OBVIOUS
<1>1. LoopOK
  BY IdleType DEF Init, LoopOK, Places, Running
<1>2. StoreOK /\ PoolOK /\ CountsOK /\ RepliesOK
  BY NoSessionType, BoundsAssumption
  DEF Init, StoreOK, PoolOK, PoolThread, CountsOK, RepliesOK, Outcome
<1> QED BY <1>1, <1>2 DEF TypeInv

LEMMA TypeNext == TypeInv /\ [Next]_vars => TypeInv'
<1> SUFFICES ASSUME TypeInv, [Next]_vars PROVE TypeInv'
  OBVIOUS
<1>1. ASSUME NEW t \in Turns, Stream(t) \/ Send(t) \/ Step(t) \/ Disconnect(t) PROVE TypeInv'
  <2>1. CASE Stream(t) \/ Send(t) \/ StreamStep(t) \/ Disconnect(t)
    BY <2>1, StreamType, SendType, StreamStepType
  <2>2. CASE ChatStep(t)
    BY <2>2, OpenType, ReadType, MemoryStepType, AnswerStepType, DraftStepType,
       CreatedStepType, LastStepType DEF ChatStep
  <2> QED BY <1>1, <2>1, <2>2 DEF Step
<1>2. CASE UNCHANGED vars
  BY <1>2 DEF vars, TypeInv, StoreOK, LoopOK, PoolOK, CountsOK, RepliesOK
<1> QED BY <1>1, <1>2, EndpointType, CrashType DEF Next

\* Every variable keeps its type, a turn that is not waiting has the event
\* loop, and so there is never more than one of them.
THEOREM TypeCorrect == Spec => []TypeOK
<1>1. Init => TypeInv
  BY TypeInit
<1>2. TypeInv /\ [Next]_vars => TypeInv'
  BY TypeNext
<1>3. TypeInv => TypeOK
  BY TypeInvImplies
<1> QED BY <1>1, <1>2, <1>3, PTL DEF Spec
=============================================================================
