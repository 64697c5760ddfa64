-------------------------- MODULE ChatHistory_proofs --------------------------
(***************************************************************************)
(* What the histories of the chats say of each request: one question, one  *)
(* answer after it in the same chat, the answer a client was told, and the *)
(* answer a turn is learned from.  The invariants follow a request from    *)
(* the moment it is sent: its number is taken by one turn only, it stays   *)
(* unasked until the one place that stores its question, and unanswered    *)
(* until the turn leaves "say".                                            *)
(***************************************************************************)
EXTENDS ChatTurn_proofs

\* Before the question of a turn is stored, and between question and answer.
Before == {"start", "sdecide", "open"}
Asking ==
    {"tokens", "read", "pending", "decide", "remember", "recall", "answer", "list",
     "extract", "complete", "created", "record", "recorded", "clear", "cleared", "say"}

\* The messages of request r: m stands for messages or for messages'.
Unasked(m, r) == \A c \in Chats : \A i \in DOMAIN m[c] : m[c][i].request # r

\* A question in chat c and nothing else.
OnlyAsked(m, c, r) ==
    \E i \in DOMAIN m[c] :
        /\ m[c][i].role = "user" /\ m[c][i].request = r
        /\ \A d \in Chats : \A j \in DOMAIN m[d] : m[d][j].request = r => d = c /\ j = i

\* A question in chat c, an answer after it, and nothing else.
OnceAnswered(m, c, r) ==
    \E i, k \in DOMAIN m[c] :
        /\ m[c][i].role = "user" /\ m[c][i].request = r
        /\ m[c][k].role = "assistant" /\ m[c][k].request = r
        /\ i < k
        /\ \A d \in Chats : \A j \in DOMAIN m[d] :
              m[d][j].request = r => d = c /\ j \in {i, k}

\* The answer of request r in chat c says status.
Says(m, c, r, status) ==
    \E i \in DOMAIN m[c] :
        m[c][i].role = "assistant" /\ m[c][i].request = r /\ m[c][i].status = status

\* No two turns are about the same request, and none about one not sent yet.
FreshInv ==
    /\ \A t \in Turns : pc[t] # "idle" => turn[t].request <= sent
    /\ \A t, u \in Turns :
          pc[t] # "idle" /\ pc[u] # "idle" /\ turn[t].request = turn[u].request => t = u

\* Where each request is between being sent and being answered.
LocalsStage(m, place, l) ==
    /\ place \in Before => Unasked(m, l.request)
    /\ place \in Asking => OnlyAsked(m, l.chat, l.request)

StageInv ==
    /\ \A r \in Requests :
          \/ Unasked(messages, r)
          \/ \E c \in Chats : OnlyAsked(messages, c, r) \/ OnceAnswered(messages, c, r)
    /\ \A r \in Requests : r > sent => Unasked(messages, r)
    /\ \A t \in Turns : LocalsStage(messages, pc[t], turn[t])

\* What was answered before a client is told, and before it is learned from.
LocalsAnswer(m, place, l) ==
    /\ place \in {"learn", "background"} =>
          l.status \in Learnable /\ Says(m, l.chat, l.request, l.status)
    /\ place = "finalize" =>
          l.status = "document_unavailable" \/ Says(m, l.chat, l.request, l.status)

RepliesSaid(m, told) ==
    \A r \in Requests :
        told[r].chat # NoChat /\ told[r].status # "document_unavailable" =>
            Says(m, told[r].chat, r, told[r].status)

AnswerInv ==
    /\ \A t \in Turns : LocalsAnswer(messages, pc[t], turn[t])
    /\ RepliesSaid(messages, replies)

\* Clients are told once: nothing until a turn replies, nothing about requests
\* not sent yet; and a stream ends with what was stored, or with a question alone.
Untold == [status |-> "none", chat |-> NoChat]

LocalsUntold(m, told, place, l) ==
    /\ place \notin {"idle", "background"} => told[l.request] = Untold
    /\ place = "finalize" =>
          \/ l.status = "document_unavailable" /\ OnlyAsked(m, l.chat, l.request)
          \/ Says(m, l.chat, l.request, l.status)

TellInv ==
    /\ \A t \in Turns : LocalsUntold(messages, replies, pc[t], turn[t])
    /\ \A r \in Requests : r > sent => replies[r] = Untold

\* The chat of the start event: the one the turn is at work on, or deleted.
LocalsStarted(th, place, l) ==
    /\ place \in {"start", "sdecide", "tokens", "finalize", "background"} \/ l.direct => l.streamed
    /\ place # "idle" /\ l.streamed =>
          /\ l.started \in Chats
          /\ \/ th[l.started] = "deleted"
             \/ th[l.started] = "live" /\ l.chat = l.started

StartedInv == \A t \in Turns : LocalsStarted(threads, pc[t], turn[t])

\* The last message of the chat of a turn whose question is stored.
LastIsOwn(m, place, l) ==
    place \in Asking \cup {"learn", "finalize"} =>
        m[l.chat] # <<>> /\ m[l.chat][Len(m[l.chat])].request = l.request

DiagnosticsInv ==
    reported = 0 =>
        /\ \A t \in Turns : LastIsOwn(messages, pc[t], turn[t])
        /\ DiagnosticsBelongToTheirTurn

-----------------------------------------------------------------------------
(* How turns move. *)

\* The turn goes on with its request, in its chat.
Continues(t, places) ==
    /\ pc'[t] \in places
    /\ turn'[t].request = turn[t].request /\ turn'[t].chat = turn[t].chat
    /\ turn'[t].streamed = turn[t].streamed /\ turn'[t].started = turn[t].started

Ends(t) == pc'[t] = "idle" /\ turn'[t] = Idle

OthersStay(t) == \A u \in Turns \ {t} : pc'[u] = pc[u] /\ turn'[u] = turn[u]

\* The replies that are not about an answer: of a failure, naming no chat; or
\* that Document is not there, in the chat of the question.
Failing == {"error", "conflict", "llm_unavailable"}

GivesUp(t) ==
    \/ \E status \in Failing : Reply(t, status, NoChat)
    \/ Reply(t, "document_unavailable", turn[t].chat)

\* Between question and answer: the turn goes on, waits for its stream to say
\* that Document is not there, or ends without an answer.
Thinks(t) ==
    /\ pc[t] \in Asking \ {"say"} /\ OthersStay(t)
    /\ UNCHANGED <<threads, messages, pool, sent, reported>>
    /\ \/ /\ Continues(t, Asking \ {"tokens"}) /\ turn'[t].direct = turn[t].direct
          /\ UNCHANGED replies
       \/ /\ Continues(t, {"finalize"}) /\ turn'[t].direct = turn[t].direct
          /\ turn'[t].streamed /\ turn'[t].status = "document_unavailable"
          /\ UNCHANGED replies
       \/ Ends(t) /\ GivesUp(t)

LEMMA GoMoves ==
    ASSUME LoopOK, NEW t \in Turns, NEW place, NEW locals, Go(t, place, locals)
    PROVE  pc'[t] = place /\ turn'[t] = locals /\ OthersStay(t)
BY DEF LoopOK, Go, OthersStay

\* Going on in Asking with locals of the same request, chat and stream.
LEMMA GoThinks ==
    ASSUME LoopOK, NEW t \in Turns, NEW place \in Asking \ {"tokens"}, NEW locals,
           locals.request = turn[t].request, locals.chat = turn[t].chat,
           locals.streamed = turn[t].streamed, locals.started = turn[t].started,
           locals.direct = turn[t].direct, Go(t, place, locals)
    PROVE  /\ OthersStay(t) /\ Continues(t, Asking \ {"tokens"})
           /\ turn'[t].direct = turn[t].direct
BY GoMoves DEF Continues

LEMMA SayThinks ==
    ASSUME LoopOK, NEW t \in Turns, NEW locals \in Turn, NEW status,
           locals.request = turn[t].request, locals.chat = turn[t].chat,
           locals.streamed = turn[t].streamed, locals.started = turn[t].started,
           locals.direct = turn[t].direct, Say(t, locals, status)
    PROVE  /\ OthersStay(t) /\ Continues(t, Asking \ {"tokens"})
           /\ turn'[t].direct = turn[t].direct
<1> DEFINE new == [locals EXCEPT !.status = status]
<1>1. new.request = turn[t].request /\ new.chat = turn[t].chat
      /\ new.streamed = turn[t].streamed /\ new.started = turn[t].started
      /\ new.direct = turn[t].direct
  BY DEF Turn
<1>2. "say" \in Asking \ {"tokens"} /\ Go(t, "say", new)
  BY DEF Asking, Say
<1> HIDE DEF new
<1> QED BY <1>1, <1>2, GoThinks

LEMMA ActThinks ==
    ASSUME LoopOK, NEW t \in Turns, NEW locals \in Turn, locals.decision \in Decision,
           locals.request = turn[t].request, locals.chat = turn[t].chat,
           locals.streamed = turn[t].streamed, locals.started = turn[t].started,
           locals.direct = turn[t].direct, Act(t, locals)
    PROVE  /\ OthersStay(t) /\ Continues(t, Asking \ {"tokens"})
           /\ turn'[t].direct = turn[t].direct
<1> DEFINE action == Routed(locals.state, locals.decision)
           place  == IF action = "create" THEN "extract" ELSE action
<1>1. action \in Actions
  BY DEF Routed, Actions, Decision
<1>2. place \in Asking \ {"tokens"}
  BY <1>1 DEF Actions, Asking
<1>3. CASE Go(t, place, locals)
  BY <1>2, <1>3, GoThinks
<1>4. CASE Say(t, locals, "memory")
  BY <1>4, SayThinks
<1> QED BY <1>3, <1>4 DEF Act

LEMMA EndMoves ==
    ASSUME LoopOK, NEW t \in Turns, NEW status, NEW chat, End(t, status, chat)
    PROVE  Ends(t) /\ OthersStay(t) /\ Reply(t, status, chat)
BY GoMoves DEF End, Ends

LEMMA UnavailableThinks ==
    ASSUME LoopOK, NEW t \in Turns, Unavailable(t)
    PROVE  /\ OthersStay(t)
           /\ \/ /\ Continues(t, {"finalize"}) /\ turn'[t].direct = turn[t].direct
                 /\ turn'[t].streamed /\ turn'[t].status = "document_unavailable"
                 /\ UNCHANGED replies
              \/ Ends(t) /\ Reply(t, "document_unavailable", turn[t].chat)
<1>1. CASE turn[t].streamed
  <2> DEFINE new == [turn[t] EXCEPT !.status = "document_unavailable"]
  <2>1. turn[t] \in Turn
    BY DEF LoopOK
  <2>2. new.request = turn[t].request /\ new.chat = turn[t].chat
        /\ new.streamed = turn[t].streamed /\ new.started = turn[t].started
        /\ new.direct = turn[t].direct /\ new.status = "document_unavailable"
    BY <2>1 DEF Turn
  <2>3. Go(t, "finalize", new) /\ UNCHANGED replies
    BY <1>1 DEF Unavailable
  <2> HIDE DEF new
  <2> QED BY <1>1, <2>2, <2>3, GoMoves DEF Continues
<1>2. CASE ~ turn[t].streamed
  BY <1>2, EndMoves DEF Unavailable
<1> QED BY <1>1, <1>2

LEMMA ThinkStep ==
    ASSUME LoopOK, NEW t \in Turns,
           \/ Streamed(t) \/ SavePending(t) \/ Undecided(t) \/ Remembered(t)
           \/ Answered(t) \/ Missing(t) \/ ClearScope(t) \/ RecordDocument(t)
           \/ ReadSession(t) \/ Complete(t)
    PROVE  Thinks(t)
<1>0. turn[t] \in Turn
  BY DEF LoopOK
<1>1. UNCHANGED <<threads, messages, pool, sent, reported, replies>>
  BY DEF Streamed, SavePending, Undecided, Remembered, Answered, Missing, ClearScope,
     RecordDocument, ReadSession, Complete, stored, past
<1>2. pc[t] \in Asking \ {"say"}
  BY DEF Streamed, SavePending, Undecided, Remembered, Answered, Missing, ClearScope,
     RecordDocument, ReadSession, Complete, Asking
<1>3. OthersStay(t) /\ Continues(t, Asking \ {"tokens"}) /\ turn'[t].direct = turn[t].direct
  <2>1. CASE \E status : Say(t, turn[t], status)
    BY <1>0, <2>1, SayThinks
  <2>2. CASE RecordDocument(t)
    BY <2>2, GoThinks DEF RecordDocument, Asking
  <2>3. CASE ReadSession(t)
    <3> DEFINE local == [turn[t] EXCEPT !.state = session[turn[t].chat]]
               place == IF pc[t] = "record" THEN "recorded" ELSE "cleared"
    <3>1. local.request = turn[t].request /\ local.chat = turn[t].chat
          /\ local.streamed = turn[t].streamed /\ local.started = turn[t].started
          /\ local.direct = turn[t].direct
      BY <1>0 DEF Turn
    <3>2. Go(t, place, local) /\ place \in Asking \ {"tokens"}
      BY <2>3 DEF ReadSession, Asking
    <3> HIDE DEF local, place
    <3> QED BY <3>1, <3>2, GoThinks
  <2>4. CASE Complete(t)
    BY <2>4 DEF Complete, OthersStay, Continues, Asking, LoopOK
  <2> QED BY <2>1, <2>2, <2>3, <2>4
          DEF Streamed, SavePending, Undecided, Remembered, Answered, Missing, ClearScope
<1> QED BY <1>1, <1>2, <1>3 DEF Thinks

LEMMA ReadThinks ==
    ASSUME LoopOK, StoreOK, NEW t \in Turns, Read(t) \/ Decided(t)
    PROVE  Thinks(t)
<1>0. turn[t] \in Turn
  BY DEF LoopOK
<1>1. UNCHANGED <<threads, messages, pool, sent, reported, replies>>
  BY DEF Read, Decided, stored, past
<1>2. pc[t] \in Asking \ {"say"}
  BY DEF Read, Decided, Asking
<1>3. OthersStay(t) /\ Continues(t, Asking \ {"tokens"}) /\ turn'[t].direct = turn[t].direct
  <2>1. CASE Read(t)
    <3> DEFINE s     == session[turn[t].chat]
               local == [turn[t] EXCEPT !.state = s]
    <3>0. turn[t].chat \in Chats
      BY <2>1, AtWork DEF Read
    <3>1. /\ local \in Turn
          /\ local.request = turn[t].request /\ local.chat = turn[t].chat
          /\ local.streamed = turn[t].streamed /\ local.started = turn[t].started
          /\ local.direct = turn[t].direct
      BY <1>0, <3>0 DEF Turn, StoreOK
    <3>2. CASE SuppliesPending(t, s)
      <4>1. Go(t, "pending", local)
        BY <2>1, <3>2 DEF Read
      <4> QED BY <3>1, <4>1, GoThinks DEF Asking
    <3>3. CASE ~ SuppliesPending(t, s) /\ local.decision = NoDecision
      <4>1. Go(t, "decide", local)
        BY <2>1, <3>3 DEF Read
      <4> QED BY <3>1, <4>1, GoThinks DEF Asking
    <3>4. CASE ~ SuppliesPending(t, s) /\ local.decision # NoDecision
      <4>1. Act(t, local)
        BY <2>1, <3>4 DEF Read
      <4>2. local.decision \in Decision
        BY <3>1, <3>4 DEF Turn
      <4> QED BY <3>1, <4>1, <4>2, ActThinks
    <3> QED BY <3>2, <3>3, <3>4
  <2>2. CASE Decided(t)
    <3>1. PICK d \in Decision : Act(t, [turn[t] EXCEPT !.decision = Guarded(turn[t].text, d)])
      BY <2>2 DEF Decided
    <3> DEFINE local == [turn[t] EXCEPT !.decision = Guarded(turn[t].text, d)]
    <3>2. Guarded(turn[t].text, d) \in Decision
      BY DEF Guarded, Decision, Actions
    <3>3. /\ local \in Turn /\ local.decision \in Decision
          /\ local.request = turn[t].request /\ local.chat = turn[t].chat
          /\ local.streamed = turn[t].streamed /\ local.started = turn[t].started
          /\ local.direct = turn[t].direct
      BY <1>0, <3>2 DEF Turn
    <3> QED BY <3>1, <3>3, ActThinks
  <2> QED BY <2>1, <2>2
<1> QED BY <1>1, <1>2, <1>3 DEF Thinks

\* The steps that may fail for want of the model or of Document.
LEMMA FailingThinks ==
    ASSUME LoopOK, NEW t \in Turns,
           Recalled(t) \/ Listed(t) \/ Extracted(t) \/ Completed(t) \/ NotCompleted(t)
    PROVE  Thinks(t)
<1>0. turn[t] \in Turn
  BY DEF LoopOK
<1>1. UNCHANGED <<threads, messages, pool, sent, reported>>
  BY DEF Recalled, Listed, Extracted, Completed, NotCompleted, stored
<1>2. pc[t] \in Asking \ {"say"}
  BY DEF Recalled, Listed, Extracted, Completed, NotCompleted, Asking
<1>3. CASE \E status : Say(t, turn[t], status) /\ UNCHANGED replies
  BY <1>0, <1>1, <1>2, <1>3, SayThinks DEF Thinks
<1>4. CASE \E status \in Failing : End(t, status, NoChat)
  BY <1>1, <1>2, <1>4, EndMoves DEF Thinks, GivesUp
<1>5. CASE Unavailable(t)
  BY <1>1, <1>2, <1>5, UnavailableThinks DEF Thinks, GivesUp
<1>6. CASE Go(t, "record", turn[t]) /\ UNCHANGED replies
  BY <1>1, <1>2, <1>6, GoThinks DEF Thinks, Asking
<1>7. CASE /\ \E draft : Go(t, "complete", [turn[t] EXCEPT !.draft = draft])
           /\ UNCHANGED replies
  <2>1. PICK draft : Go(t, "complete", [turn[t] EXCEPT !.draft = draft])
    BY <1>7
  <2> DEFINE local == [turn[t] EXCEPT !.draft = draft]
  <2>2. local.request = turn[t].request /\ local.chat = turn[t].chat
        /\ local.streamed = turn[t].streamed /\ local.started = turn[t].started
        /\ local.direct = turn[t].direct
    BY <1>0 DEF Turn
  <2>3. "complete" \in Asking \ {"tokens"} /\ Go(t, "complete", local)
    BY <2>1 DEF Asking
  <2> HIDE DEF local
  <2> QED BY <1>1, <1>2, <1>7, <2>2, <2>3, GoThinks DEF Thinks
<1>8. CASE Recalled(t) \/ Listed(t)
  BY <1>3, <1>4, <1>5, <1>8 DEF Recalled, Listed, Failing
<1>9. CASE Extracted(t)
  <2>1. CASE \E new \in {{turn[t].request}, {}} : \E draft \in Merged(turn[t].state.draft, new) :
                Go(t, "complete", [turn[t] EXCEPT !.draft = draft])
    <3>1. UNCHANGED replies \/ \E status \in Failing : End(t, status, NoChat)
      BY <1>9 DEF Extracted, Failing
    <3> QED BY <1>4, <1>7, <2>1, <3>1
  <2>2. CASE \E status \in {"llm_unavailable", "error"} : End(t, status, NoChat)
    BY <1>4, <2>2 DEF Failing
  <2> QED BY <1>9, <2>1, <2>2 DEF Extracted
<1>10. CASE Completed(t) \/ NotCompleted(t)
  <2>1. (IF turn[t].streamed THEN "error" ELSE "conflict") \in Failing
    BY DEF Failing
  <2>2. "error" \in Failing
    BY DEF Failing
  <2> QED BY <1>4, <1>5, <1>6, <1>10, <2>1, <2>2 DEF Completed, NotCompleted
<1> QED BY <1>8, <1>9, <1>10

\* What is left of the steps of a turn: the ones that store a message, start
\* or end a turn, or go on between the two.
Storing(t) ==
    \/ Started(t) \/ StreamUndecided(t) \/ StreamDecided(t) \/ Open(t)
    \/ StoreAnswer(t) \/ Finalize(t) \/ Learn(t)

LEMMA StepShape ==
    ASSUME TypeInv, NEW t \in Turns, Step(t)
    PROVE  Thinks(t) \/ Storing(t)
<1>1. LoopOK /\ StoreOK
  BY DEF TypeInv
<1> QED
  BY <1>1, ThinkStep, ReadThinks, FailingThinks
  DEF Step, StreamStep, ChatStep, Storing

\* Up to the question: a turn goes on unasked, or its question is stored.
LEMMA AskShape ==
    ASSUME TypeInv, NEW t \in Turns,
           Started(t) \/ StreamUndecided(t) \/ StreamDecided(t) \/ Open(t)
    PROVE  /\ pc[t] \in Before /\ OthersStay(t)
           /\ UNCHANGED <<sent, reported, pool, session, replies>>
           /\ \/ /\ pc[t] # "open" /\ Continues(t, {"open", "sdecide"})
                 /\ turn'[t].direct = turn[t].direct
                 /\ UNCHANGED <<threads, messages>>
              \/ /\ pc[t] = "sdecide" /\ Continues(t, {"tokens", "say"})
                 /\ Store(turn[t].chat, UserMessage(turn[t].request))
                 /\ UNCHANGED threads
              \/ /\ pc[t] = "open" /\ pc'[t] = "read"
                 /\ \E c \in Chats :
                       /\ Ensure(turn[t].chat, c)
                       /\ Store(c, UserMessage(turn[t].request))
                       /\ turn'[t] = [turn[t] EXCEPT !.chat = c]
<1>0. LoopOK /\ turn[t] \in Turn
  BY DEF TypeInv, LoopOK
<1>1. UNCHANGED <<sent, reported, pool, session, replies>>
  BY DEF Started, StreamUndecided, StreamDecided, Open, stored, past
<1>2. CASE Started(t)
  <2> DEFINE s     == session[turn[t].chat]
             place == IF SuppliesPending(t, s) THEN "open" ELSE "sdecide"
             new   == [turn[t] EXCEPT !.state = s]
  <2>1. /\ new.request = turn[t].request /\ new.chat = turn[t].chat
        /\ new.streamed = turn[t].streamed /\ new.started = turn[t].started
        /\ new.direct = turn[t].direct
    BY <1>0 DEF Turn
  <2>2. Go(t, place, new) /\ place \in {"open", "sdecide"}
    BY <1>2 DEF Started
  <2>3. pc[t] = "start" /\ UNCHANGED <<threads, messages>>
    BY <1>2 DEF Started, stored
  <2> HIDE DEF new, place
  <2> QED BY <1>0, <1>1, <2>1, <2>2, <2>3, GoMoves DEF Before, Continues
<1>3. CASE StreamUndecided(t)
  <2>1. PICK status : Say(t, [turn[t] EXCEPT !.direct = TRUE], status)
    BY <1>3 DEF StreamUndecided
  <2> DEFINE new == [turn[t] EXCEPT !.direct = TRUE, !.status = status]
  <2>2. /\ new.request = turn[t].request /\ new.chat = turn[t].chat
        /\ new.streamed = turn[t].streamed /\ new.started = turn[t].started
    BY <1>0 DEF Turn
  <2>3. Go(t, "say", new)
    BY <2>1 DEF Say
  <2> HIDE DEF new
  <2> QED BY <1>0, <1>1, <1>3, <2>2, <2>3, GoMoves DEF StreamUndecided, Before, Continues
<1>4. CASE StreamDecided(t)
  <2>1. PICK d :
           LET local == [turn[t] EXCEPT !.decision = d] IN
           \/ /\ Go(t, "tokens", [local EXCEPT !.direct = TRUE])
              /\ Store(turn[t].chat, UserMessage(turn[t].request))
           \/ /\ Go(t, "open", [local EXCEPT !.learns = FALSE])
              /\ UNCHANGED messages
    BY <1>4 DEF StreamDecided
  <2> DEFINE asked == [turn[t] EXCEPT !.decision = d, !.direct = TRUE]
             left  == [turn[t] EXCEPT !.decision = d, !.learns = FALSE]
  <2>2. /\ asked.request = turn[t].request /\ asked.chat = turn[t].chat
        /\ asked.streamed = turn[t].streamed /\ asked.started = turn[t].started
    BY <1>0 DEF Turn
  <2>3. /\ left.request = turn[t].request /\ left.chat = turn[t].chat
        /\ left.streamed = turn[t].streamed /\ left.started = turn[t].started
        /\ left.direct = turn[t].direct
    BY <1>0 DEF Turn
  <2>4. \/ Go(t, "tokens", asked) /\ Store(turn[t].chat, UserMessage(turn[t].request))
        \/ Go(t, "open", left) /\ UNCHANGED messages
    BY <2>1
  <2>5. pc[t] = "sdecide" /\ UNCHANGED threads
    BY <1>4 DEF StreamDecided
  <2> HIDE DEF asked, left
  <2>6. CASE Go(t, "tokens", asked) /\ Store(turn[t].chat, UserMessage(turn[t].request))
    BY <1>0, <1>1, <2>2, <2>5, <2>6, GoMoves DEF Before, Continues
  <2>7. CASE Go(t, "open", left) /\ UNCHANGED messages
    BY <1>0, <1>1, <2>3, <2>5, <2>7, GoMoves DEF Before, Continues
  <2> QED BY <2>4, <2>6, <2>7
<1>5. CASE Open(t)
  BY <1>0, <1>1, <1>5, GoMoves DEF Open, Before
<1> QED BY <1>2, <1>3, <1>4, <1>5

LEMMA ReturnShape ==
    ASSUME LoopOK, NEW t \in Turns, Return(t)
    PROVE  /\ OthersStay(t)
           /\ \/ /\ pc'[t] = "finalize" /\ turn'[t] = turn[t] /\ turn[t].streamed
                 /\ UNCHANGED replies
              \/ Ends(t) /\ Reply(t, turn[t].status, turn[t].chat)
BY GoMoves, EndMoves DEF Return

LEMMA StoreAnswerShape ==
    ASSUME TypeInv, NEW t \in Turns, StoreAnswer(t)
    PROVE  /\ pc[t] = "say" /\ OthersStay(t)
           /\ UNCHANGED <<threads, sent, reported, pool, session>>
           /\ Store(turn[t].chat, Answer(turn[t].request, turn[t].status,
                       IF turn[t].direct THEN turn[t].request ELSE Nobody))
           /\ \/ /\ pc'[t] = "background" /\ turn'[t] = turn[t]
                 /\ turn[t].direct /\ turn[t].status = "answer"
                 /\ Reply(t, turn[t].status, turn[t].chat)
              \/ /\ pc'[t] = "learn" /\ turn'[t] = turn[t]
                 /\ turn[t].status \in Learnable /\ UNCHANGED replies
              \/ /\ pc'[t] = "finalize" /\ turn'[t] = turn[t] /\ turn[t].streamed
                 /\ UNCHANGED replies
              \/ Ends(t) /\ Reply(t, turn[t].status, turn[t].chat)
<1>0. LoopOK
  BY DEF TypeInv
<1>1. CASE turn[t].direct
  BY <1>0, <1>1, GoMoves DEF StoreAnswer, Ends
<1>2. CASE ~ turn[t].direct /\ turn[t].learns /\ turn[t].status \in Learnable
  BY <1>0, <1>2, GoMoves DEF StoreAnswer
<1>3. CASE ~ turn[t].direct /\ ~ (turn[t].learns /\ turn[t].status \in Learnable)
  <2>1. Return(t)
    BY <1>3 DEF StoreAnswer
  <2> QED BY <1>0, <2>1, ReturnShape DEF StoreAnswer
<1> QED BY <1>1, <1>2, <1>3

LEMMA FinalizeShape ==
    ASSUME TypeInv, NEW t \in Turns, Finalize(t)
    PROVE  /\ pc[t] = "finalize" /\ OthersStay(t)
           /\ UNCHANGED <<threads, sent, reported, pool, session>>
           /\ messages' = [messages EXCEPT ![turn[t].chat] =
                              MergeDiagnostics(@, turn[t].request)]
           /\ Reply(t, turn[t].status, turn[t].chat)
           /\ \/ /\ pc'[t] = "background" /\ turn'[t] = turn[t]
                 /\ turn[t].status \in {"list", "missing", "created"}
              \/ Ends(t)
BY GoMoves DEF TypeInv, Finalize, Deferred, Ends

LEMMA LearnShape ==
    ASSUME TypeInv, NEW t \in Turns, Learn(t)
    PROVE  /\ OthersStay(t)
           /\ UNCHANGED <<threads, messages, sent, reported, pool, session>>
           /\ \/ /\ pc[t] = "learn" /\ pc'[t] = "finalize" /\ turn'[t] = turn[t]
                 /\ turn[t].streamed /\ UNCHANGED replies
              \/ /\ pc[t] = "learn"
                 /\ Ends(t) /\ Reply(t, turn[t].status, turn[t].chat)
              \/ pc[t] = "background" /\ Ends(t) /\ UNCHANGED replies
<1>0. LoopOK
  BY DEF TypeInv
<1>1. UNCHANGED <<threads, messages, sent, reported, pool, session>>
  BY DEF Learn, stored
<1>2. CASE pc[t] = "learn"
  BY <1>0, <1>1, <1>2, ReturnShape DEF Learn
<1>3. CASE pc[t] = "background"
  BY <1>0, <1>1, <1>3, GoMoves DEF Learn, Ends
<1> QED BY <1>2, <1>3 DEF Learn

LEMMA DisconnectShape ==
    ASSUME TypeInv, NEW t \in Turns, Disconnect(t)
    PROVE  /\ pc[t] # "idle" /\ OthersStay(t) /\ Ends(t)
           /\ UNCHANGED <<stored, pool, sent, reported, replies>>
BY GoMoves DEF TypeInv, Disconnect, Ends, past, Awaiting

\* A message arrives.
Arrives(t) ==
    /\ pc[t] = "idle" /\ OthersStay(t)
    /\ turn'[t].request = sent + 1 /\ sent' = sent + 1 /\ sent < MaxRequests
    /\ ~ turn'[t].direct /\ turn'[t].state = NoSession /\ turn'[t].status = "none"
    /\ UNCHANGED <<messages, session, pool, reported, past>>
    /\ \/ pc'[t] = "open" /\ ~ turn'[t].streamed /\ UNCHANGED threads
       \/ /\ pc'[t] = "start" /\ turn'[t].streamed /\ turn'[t].chat \in Chats
          /\ turn'[t].started = turn'[t].chat
          /\ \E asked : Ensure(asked, turn'[t].chat)

LEMMA ArriveShape ==
    ASSUME TypeInv, NEW t \in Turns, Stream(t) \/ Send(t)
    PROVE  Arrives(t)
<1>0. LoopOK /\ Idle \in Turn
  BY IdleType DEF TypeInv
<1>1. CASE Stream(t)
  <2> PICK text \in Texts, asked \in Known, c \in Chats :
        /\ Ensure(asked, c)
        /\ Go(t, "start", [Idle EXCEPT !.request = sent + 1, !.text = text,
                 !.streamed = TRUE, !.learns = TRUE, !.chat = c, !.started = c])
    BY <1>1 DEF Stream
  <2> DEFINE new == [Idle EXCEPT !.request = sent + 1, !.text = text,
                 !.streamed = TRUE, !.learns = TRUE, !.chat = c, !.started = c]
  <2>1. /\ new.request = sent + 1 /\ new.streamed /\ ~ new.direct
        /\ new.chat = c /\ new.started = c
        /\ new.state = NoSession /\ new.status = "none"
    BY DEF Idle
  <2>2. Go(t, "start", new) /\ Ensure(asked, c)
    OBVIOUS
  <2> HIDE DEF new
  <2>3. pc'[t] = "start" /\ turn'[t] = new /\ OthersStay(t)
    BY <1>0, <2>2, GoMoves
  <2> QED BY <1>1, <2>1, <2>2, <2>3 DEF Stream, Arrives, past
<1>2. CASE Send(t)
  <2> PICK text \in Texts, asked \in Known :
        Go(t, "open", [Idle EXCEPT !.request = sent + 1, !.text = text,
              !.learns = TRUE, !.chat = asked])
    BY <1>2 DEF Send
  <2> DEFINE new == [Idle EXCEPT !.request = sent + 1, !.text = text,
                        !.learns = TRUE, !.chat = asked]
  <2>1. /\ new.request = sent + 1 /\ ~ new.streamed /\ ~ new.direct
        /\ new.state = NoSession /\ new.status = "none"
    BY DEF Idle
  <2>2. Go(t, "open", new)
    OBVIOUS
  <2> HIDE DEF new
  <2>3. pc'[t] = "open" /\ turn'[t] = new /\ OthersStay(t)
    BY <1>0, <2>2, GoMoves
  <2> QED BY <1>2, <2>1, <2>3 DEF Send, Arrives, past, stored
<1> QED BY <1>1, <1>2

-----------------------------------------------------------------------------
(* A request belongs to one turn. *)

LEMMA StepMoves ==
    ASSUME TypeInv, NEW t \in Turns, Step(t) \/ Disconnect(t)
    PROVE  /\ pc[t] # "idle" /\ OthersStay(t) /\ UNCHANGED <<sent, reported, pool>>
           /\ Ends(t) \/ turn'[t].request = turn[t].request
<1>1. turn[t] \in Turn
  BY DEF TypeInv, LoopOK
<1>2. CASE Thinks(t)
  BY <1>2 DEF Thinks, Continues, Asking
<1>3. CASE Started(t) \/ StreamUndecided(t) \/ StreamDecided(t) \/ Open(t)
  <2>1. \A c : [turn[t] EXCEPT !.chat = c].request = turn[t].request
    BY <1>1 DEF Turn
  <2>2. pc[t] \in Before /\ OthersStay(t) /\ UNCHANGED <<sent, reported, pool>>
    BY <1>3, AskShape
  <2>3. \/ turn'[t].request = turn[t].request
        \/ \E c : turn'[t] = [turn[t] EXCEPT !.chat = c]
    BY <1>3, AskShape DEF Continues
  <2> QED BY <2>1, <2>2, <2>3 DEF Before
<1>4. CASE StoreAnswer(t)
  BY <1>4, StoreAnswerShape
<1>5. CASE Finalize(t)
  BY <1>5, FinalizeShape
<1>6. CASE Learn(t)
  BY <1>6, LearnShape
<1>7. CASE Disconnect(t)
  BY <1>7, DisconnectShape
<1> QED BY <1>2, <1>3, <1>4, <1>5, <1>6, <1>7, StepShape DEF Storing

LEMMA EndpointMoves ==
    ASSUME Endpoint
    PROVE  UNCHANGED <<pc, turn, loop, sent, replies, documents, spent>>
BY DEF Endpoint, CreateThread, DeleteThread, ReportError, ReadScope, WriteScope, past

LEMMA CrashMoves ==
    ASSUME Crash
    PROVE  /\ \A t \in Turns : Ends(t)
           /\ UNCHANGED <<stored, sent, reported, past>>
BY DEF Crash, Ends

LEMMA FreshInit == Init => FreshInv
BY DEF Init, FreshInv

LEMMA FreshNext == TypeInv /\ FreshInv /\ [Next]_vars => FreshInv'
<1> SUFFICES ASSUME TypeInv, FreshInv, [Next]_vars PROVE FreshInv'
  OBVIOUS
<1>0. /\ sent \in Nat
      /\ \A u \in Turns : pc[u] # "idle" => turn[u].request \in Nat
  BY AtWork DEF TypeInv, CountsOK, Requests
<1>1. ASSUME NEW t \in Turns, Step(t) \/ Disconnect(t) PROVE FreshInv'
  BY <1>1, StepMoves DEF FreshInv, OthersStay, Ends
<1>2. ASSUME NEW t \in Turns, Stream(t) \/ Send(t) PROVE FreshInv'
  <2>1. Arrives(t)
    BY <1>2, ArriveShape
  <2>2. \A u \in Turns \ {t} : pc'[u] = pc[u] /\ turn'[u] = turn[u]
    BY <2>1 DEF Arrives, OthersStay
  <2>3. \A u \in Turns \ {t} :
           pc'[u] # "idle" => turn'[u].request <= sent /\ turn'[u].request # sent + 1
    BY <1>0, <2>2 DEF FreshInv
  <2>4. turn'[t].request = sent + 1 /\ sent' = sent + 1
    BY <2>1 DEF Arrives
  <2>5. \A u \in Turns : pc'[u] # "idle" => turn'[u].request <= sent'
    BY <1>0, <2>2, <2>3, <2>4
  <2> QED BY <2>2, <2>3, <2>4, <2>5 DEF FreshInv
<1>3. CASE Endpoint
  BY <1>3, EndpointMoves DEF FreshInv
<1>4. CASE Crash
  BY <1>4, CrashMoves DEF FreshInv, Ends
<1>5. CASE UNCHANGED vars
  BY <1>5 DEF vars, FreshInv
<1> QED BY <1>1, <1>2, <1>3, <1>4, <1>5 DEF Next

-----------------------------------------------------------------------------
(* What storing and merging do to the histories. *)

\* From m to n messages are added, and what they say is not changed but for
\* the diagnostics.
Grows(m, n) ==
    \A c \in Chats :
        /\ DOMAIN m[c] \subseteq DOMAIN n[c]
        /\ \A i \in DOMAIN m[c] :
              /\ n[c][i].role = m[c][i].role
              /\ n[c][i].request = m[c][i].request
              /\ n[c][i].status = m[c][i].status

\* None of the messages added is of request r.
Spares(m, n, r) ==
    \A c \in Chats : \A i \in DOMAIN n[c] : n[c][i].request = r => i \in DOMAIN m[c]

LEMMA SameMessages ==
    ASSUME UNCHANGED messages
    PROVE  Grows(messages, messages') /\ \A r : Spares(messages, messages', r)
BY DEF Grows, Spares

LEMMA StoreEffect ==
    ASSUME NEW c \in Chats, NEW message, Store(c, message), StoreOK
    PROVE  /\ \A d \in Chats \ {c} : messages'[d] = messages[d]
           /\ Len(messages[c]) \in Nat /\ DOMAIN messages[c] = 1 .. Len(messages[c])
           /\ Len(messages'[c]) = Len(messages[c]) + 1
           /\ DOMAIN messages'[c] = 1 .. Len(messages[c]) + 1
           /\ \A i \in 1 .. Len(messages[c]) : messages'[c][i] = messages[c][i]
           /\ messages'[c][Len(messages[c]) + 1] = message
<1>1. messages[c] \in Seq(Message) /\ messages' = [messages EXCEPT ![c] = Append(@, message)]
  BY DEF Store, StoreOK
<1>2. messages'[c] = Append(messages[c], message)
  BY <1>1 DEF StoreOK
<1>3. \A d \in Chats \ {c} : messages'[d] = messages[d]
  BY <1>1 DEF StoreOK
<1> QED BY <1>1, <1>2, <1>3

LEMMA StoreGrows ==
    ASSUME NEW c \in Chats, NEW message, Store(c, message), StoreOK
    PROVE  /\ Grows(messages, messages')
           /\ \A r : r # message.request => Spares(messages, messages', r)
<1> DEFINE k == Len(messages[c])
<1>1. /\ \A d \in Chats \ {c} : messages'[d] = messages[d]
      /\ k \in Nat /\ DOMAIN messages[c] = 1 .. k
      /\ DOMAIN messages'[c] = 1 .. k + 1
      /\ \A i \in 1 .. k : messages'[c][i] = messages[c][i]
      /\ messages'[c][k + 1] = message
  BY StoreEffect
<1> HIDE DEF k
<1>2. ASSUME NEW d \in Chats
      PROVE  /\ DOMAIN messages[d] \subseteq DOMAIN messages'[d]
             /\ \A i \in DOMAIN messages[d] : messages'[d][i] = messages[d][i]
  BY <1>1
<1>3. ASSUME NEW r, r # message.request, NEW d \in Chats,
             NEW i \in DOMAIN messages'[d], messages'[d][i].request = r
      PROVE  i \in DOMAIN messages[d]
  BY <1>1, <1>3
<1> QED BY <1>2, <1>3 DEF Grows, Spares

\* What the merge of the diagnostics leaves of a history.
LEMMA MergeEffect ==
    ASSUME NEW h \in Seq(Message), NEW r \in Requests
    PROVE  /\ DOMAIN MergeDiagnostics(h, r) = DOMAIN h
           /\ Len(MergeDiagnostics(h, r)) = Len(h)
           /\ \A i \in DOMAIN h :
                 /\ MergeDiagnostics(h, r)[i].role = h[i].role
                 /\ MergeDiagnostics(h, r)[i].request = h[i].request
                 /\ MergeDiagnostics(h, r)[i].status = h[i].status
                 /\ \/ MergeDiagnostics(h, r)[i].diagnostics = h[i].diagnostics
                    \/ i = Len(h) /\ MergeDiagnostics(h, r)[i].diagnostics = r
<1>1. CASE h # <<>> /\ h[Len(h)].role = "assistant"
  <2> DEFINE k == Len(h)
             n == [h EXCEPT ![k] = [h[k] EXCEPT !.diagnostics = r]]
  <2>1. h[k] \in Message /\ k \in DOMAIN h
    BY <1>1
  <2>2. MergeDiagnostics(h, r) = n
    BY <1>1 DEF MergeDiagnostics
  <2>3. /\ [h[k] EXCEPT !.diagnostics = r].role = h[k].role
        /\ [h[k] EXCEPT !.diagnostics = r].request = h[k].request
        /\ [h[k] EXCEPT !.diagnostics = r].status = h[k].status
        /\ [h[k] EXCEPT !.diagnostics = r].diagnostics = r
    BY <2>1 DEF Message
  <2>4. n \in Seq(Message) /\ Len(n) = Len(h) /\ DOMAIN n = DOMAIN h
    <3>1. [h[k] EXCEPT !.diagnostics = r] \in Message
      BY <2>1 DEF Message
    <3> QED BY <2>1, <3>1
  <2>5. \A i \in DOMAIN h :
           n[i] = IF i = k THEN [h[k] EXCEPT !.diagnostics = r] ELSE h[i]
    OBVIOUS
  <2> HIDE DEF n, k
  <2>6. \A i \in DOMAIN h :
           /\ n[i].role = h[i].role /\ n[i].request = h[i].request /\ n[i].status = h[i].status
           /\ n[i].diagnostics = h[i].diagnostics \/ (i = k /\ n[i].diagnostics = r)
    BY <2>3, <2>5
  <2> QED BY <2>2, <2>4, <2>6 DEF k
<1>2. CASE ~ (h # <<>> /\ h[Len(h)].role = "assistant")
  BY <1>2 DEF MergeDiagnostics
<1> QED BY <1>1, <1>2

LEMMA MergeGrows ==
    ASSUME NEW c \in Chats, NEW r \in Requests, StoreOK,
           messages' = [messages EXCEPT ![c] = MergeDiagnostics(@, r)]
    PROVE  Grows(messages, messages') /\ \A q : Spares(messages, messages', q)
<1>1. messages[c] \in Seq(Message) /\ messages'[c] = MergeDiagnostics(messages[c], r)
  BY DEF StoreOK
<1>2. \A d \in Chats \ {c} : messages'[d] = messages[d]
  BY DEF StoreOK
<1>3. /\ DOMAIN messages'[c] = DOMAIN messages[c]
      /\ \A i \in DOMAIN messages[c] :
            /\ messages'[c][i].role = messages[c][i].role
            /\ messages'[c][i].request = messages[c][i].request
            /\ messages'[c][i].status = messages[c][i].status
  BY <1>1, MergeEffect
<1> QED BY <1>2, <1>3 DEF Grows, Spares

\* A request none of whose messages are added is where it was.
LEMMA StagesKept ==
    ASSUME NEW m, NEW n, NEW r, Grows(m, n), Spares(m, n, r)
    PROVE  /\ Unasked(m, r) => Unasked(n, r)
           /\ \A c \in Chats : OnlyAsked(m, c, r) => OnlyAsked(n, c, r)
           /\ \A c \in Chats : OnceAnswered(m, c, r) => OnceAnswered(n, c, r)
<1>1. \A d \in Chats : \A j \in DOMAIN n[d] :
         n[d][j].request = r => j \in DOMAIN m[d] /\ m[d][j].request = r
  BY DEF Grows, Spares
<1>2. Unasked(m, r) => Unasked(n, r)
  BY <1>1 DEF Unasked
<1>3. ASSUME NEW c \in Chats, OnlyAsked(m, c, r) PROVE OnlyAsked(n, c, r)
  <2> PICK i \in DOMAIN m[c] :
        /\ m[c][i].role = "user" /\ m[c][i].request = r
        /\ \A d \in Chats : \A j \in DOMAIN m[d] : m[d][j].request = r => d = c /\ j = i
    BY <1>3 DEF OnlyAsked
  <2>1. i \in DOMAIN n[c] /\ n[c][i].role = "user" /\ n[c][i].request = r
    BY DEF Grows
  <2> QED BY <1>1, <2>1 DEF OnlyAsked
<1>4. ASSUME NEW c \in Chats, OnceAnswered(m, c, r) PROVE OnceAnswered(n, c, r)
  <2> PICK i \in DOMAIN m[c], k \in DOMAIN m[c] :
        /\ m[c][i].role = "user" /\ m[c][i].request = r
        /\ m[c][k].role = "assistant" /\ m[c][k].request = r
        /\ i < k
        /\ \A d \in Chats : \A j \in DOMAIN m[d] :
              m[d][j].request = r => d = c /\ j \in {i, k}
    BY <1>4 DEF OnceAnswered
  <2>1. /\ i \in DOMAIN n[c] /\ n[c][i].role = "user" /\ n[c][i].request = r
        /\ k \in DOMAIN n[c] /\ n[c][k].role = "assistant" /\ n[c][k].request = r
    BY DEF Grows
  <2>2. \A d \in Chats : \A j \in DOMAIN n[d] :
           n[d][j].request = r => d = c /\ j \in {i, k}
    BY <1>1
  <2> QED BY <2>1, <2>2 DEF OnceAnswered
<1> QED BY <1>2, <1>3, <1>4

\* An unasked question that is stored is the only message of its request.
LEMMA AskStage ==
    ASSUME NEW c \in Chats, NEW r, Store(c, UserMessage(r)), StoreOK, Unasked(messages, r)
    PROVE  OnlyAsked(messages', c, r)
<1> DEFINE k == Len(messages[c])
<1>1. /\ \A d \in Chats \ {c} : messages'[d] = messages[d]
      /\ k \in Nat /\ DOMAIN messages[c] = 1 .. k
      /\ DOMAIN messages'[c] = 1 .. k + 1
      /\ \A i \in 1 .. k : messages'[c][i] = messages[c][i]
      /\ messages'[c][k + 1] = UserMessage(r)
  BY StoreEffect
<1> HIDE DEF k
<1>2. k + 1 \in DOMAIN messages'[c]
      /\ messages'[c][k + 1].role = "user" /\ messages'[c][k + 1].request = r
  BY <1>1 DEF UserMessage
<1>3. ASSUME NEW d \in Chats, NEW j \in DOMAIN messages'[d], messages'[d][j].request = r
      PROVE  d = c /\ j = k + 1
  <2>1. ~ (j \in DOMAIN messages[d] /\ messages[d][j].request = r)
    BY DEF Unasked
  <2> QED BY <1>1, <1>3, <2>1
<1> QED BY <1>2, <1>3 DEF OnlyAsked

\* The answer to the only question comes after it.
LEMMA AnswerStage ==
    ASSUME NEW c \in Chats, NEW r, NEW status, NEW diagnostics,
           Store(c, Answer(r, status, diagnostics)), StoreOK, OnlyAsked(messages, c, r)
    PROVE  OnceAnswered(messages', c, r) /\ Says(messages', c, r, status)
<1> DEFINE k == Len(messages[c])
<1>1. /\ \A d \in Chats \ {c} : messages'[d] = messages[d]
      /\ k \in Nat /\ DOMAIN messages[c] = 1 .. k
      /\ DOMAIN messages'[c] = 1 .. k + 1
      /\ \A i \in 1 .. k : messages'[c][i] = messages[c][i]
      /\ messages'[c][k + 1] = Answer(r, status, diagnostics)
  BY StoreEffect
<1> HIDE DEF k
<1>2. PICK i \in DOMAIN messages[c] :
        /\ messages[c][i].role = "user" /\ messages[c][i].request = r
        /\ \A d \in Chats : \A j \in DOMAIN messages[d] :
              messages[d][j].request = r => d = c /\ j = i
  BY DEF OnlyAsked
<1>3. /\ i \in DOMAIN messages'[c] /\ i < k + 1
      /\ messages'[c][i].role = "user" /\ messages'[c][i].request = r
  BY <1>1, <1>2
<1>4. /\ k + 1 \in DOMAIN messages'[c]
      /\ messages'[c][k + 1].role = "assistant" /\ messages'[c][k + 1].request = r
      /\ messages'[c][k + 1].status = status
  BY <1>1 DEF Answer
<1>5. ASSUME NEW j \in DOMAIN messages'[c], messages'[c][j].request = r, j # k + 1
      PROVE  j = i
  <2>1. j \in 1 .. k
    BY <1>1, <1>5
  <2>2. j \in DOMAIN messages[c] /\ messages[c][j].request = r
    BY <1>1, <1>5, <2>1
  <2> QED BY <1>2, <2>2
<1>6. ASSUME NEW d \in Chats \ {c}, NEW j \in DOMAIN messages'[d]
      PROVE  messages'[d][j].request # r
  BY <1>1, <1>2
<1> QED BY <1>3, <1>4, <1>5, <1>6 DEF OnceAnswered, Says

-----------------------------------------------------------------------------
(* Every step keeps the requests at their stages. *)

Staged(m, r) ==
    \/ Unasked(m, r)
    \/ \E c \in Chats : OnlyAsked(m, c, r) \/ OnceAnswered(m, c, r)

\* A step of turn t that adds messages of its own request only.
LEMMA OwnStages ==
    ASSUME TypeInv, FreshInv, StageInv, NEW t \in Turns,
           pc[t] # "idle", OthersStay(t), sent' = sent, Grows(messages, messages'),
           \A r : r # turn[t].request => Spares(messages, messages', r),
           Staged(messages', turn[t].request),
           LocalsStage(messages', pc'[t], turn'[t])
    PROVE  StageInv'
<1>0. turn[t].request \in Nat /\ turn[t].request <= sent /\ sent \in Nat
  BY AtWork DEF TypeInv, FreshInv, CountsOK, Requests
<1>1. ASSUME NEW r \in Requests PROVE Staged(messages', r)
  <2>1. CASE r # turn[t].request
    <3>1. Spares(messages, messages', r) /\ Staged(messages, r)
      BY <2>1 DEF StageInv, Staged
    <3> QED BY <3>1, StagesKept DEF Staged
  <2> QED BY <2>1
<1>2. ASSUME NEW r \in Requests, r > sent' PROVE Unasked(messages', r)
  <2>1. r # turn[t].request /\ r > sent
    BY <1>0, <1>2
  <2> QED BY <2>1, StagesKept DEF StageInv
<1>3. ASSUME NEW u \in Turns PROVE LocalsStage(messages', pc'[u], turn'[u])
  <2>1. CASE u = t
    BY <2>1
  <2>2. CASE u # t
    <3>1. pc'[u] = pc[u] /\ turn'[u] = turn[u] /\ LocalsStage(messages, pc[u], turn[u])
      BY <2>2 DEF OthersStay, StageInv
    <3>2. CASE pc[u] \in Before \cup Asking
      <4>1. pc[u] # "idle" /\ turn[u].request # turn[t].request
        BY <2>2, <3>2 DEF FreshInv, Before, Asking
      <4>2. pc[u] \in Asking => turn[u].chat \in Chats
        BY AtWork DEF TypeInv, Asking
      <4> QED BY <3>1, <4>1, <4>2, StagesKept DEF LocalsStage
    <3>3. CASE pc[u] \notin Before \cup Asking
      BY <3>1, <3>3 DEF LocalsStage
    <3> QED BY <3>2, <3>3
  <2> QED BY <2>1, <2>2
<1> QED BY <1>1, <1>2, <1>3 DEF StageInv, Staged

\* A step of turn t that adds no message, or none of a request.
LEMMA QuietStages ==
    ASSUME TypeInv, FreshInv, StageInv, NEW t \in Turns,
           pc[t] # "idle", OthersStay(t), sent' = sent, Grows(messages, messages'),
           \A r \in Requests : Spares(messages, messages', r),
           \/ pc'[t] \notin Before \cup Asking
           \/ pc[t] \in Before /\ pc'[t] \in Before /\ turn'[t].request = turn[t].request
           \/ /\ pc[t] \in Asking /\ pc'[t] \in Asking
              /\ turn'[t].request = turn[t].request /\ turn'[t].chat = turn[t].chat
    PROVE  StageInv'
<1>0. turn[t].request \in Requests /\ (pc[t] # "open" => turn[t].chat \in Chats)
  BY AtWork DEF TypeInv
<1>1. Spares(messages, messages', turn[t].request)
  BY <1>0
<1>2. Before \cap Asking = {} /\ "open" \notin Asking
  BY DEF Before, Asking
<1>3. LocalsStage(messages, pc[t], turn[t])
  BY DEF StageInv
<1>4. LocalsStage(messages', pc'[t], turn'[t])
  BY <1>0, <1>1, <1>2, <1>3, StagesKept DEF LocalsStage
<1>5. ASSUME NEW r \in Requests PROVE Staged(messages', r)
  <2>1. Staged(messages, r) /\ Spares(messages, messages', r)
    BY DEF StageInv, Staged
  <2> QED BY <2>1, StagesKept DEF Staged
<1>6. ASSUME NEW r \in Requests, r > sent' PROVE Unasked(messages', r)
  BY <1>6, StagesKept DEF StageInv
<1>7. ASSUME NEW u \in Turns \ {t} PROVE LocalsStage(messages', pc'[u], turn'[u])
  <2>1. pc'[u] = pc[u] /\ turn'[u] = turn[u] /\ LocalsStage(messages, pc[u], turn[u])
    BY DEF OthersStay, StageInv
  <2>2. CASE pc[u] \in Before \cup Asking
    <3>1. turn[u].request \in Requests /\ (pc[u] \in Asking => turn[u].chat \in Chats)
      BY <2>2, AtWork DEF TypeInv, Before, Asking
    <3> QED BY <2>1, <3>1, StagesKept DEF LocalsStage
  <2>3. CASE pc[u] \notin Before \cup Asking
    BY <2>1, <2>3 DEF LocalsStage
  <2> QED BY <2>2, <2>3
<1> QED BY <1>4, <1>5, <1>6, <1>7 DEF StageInv, Staged

LEMMA AskStages ==
    ASSUME TypeInv, FreshInv, StageInv, NEW t \in Turns,
           Started(t) \/ StreamUndecided(t) \/ StreamDecided(t) \/ Open(t)
    PROVE  StageInv'
<1> DEFINE r == turn[t].request
<1>0. pc[t] \in Before /\ OthersStay(t) /\ sent' = sent
  BY AskShape
<1>1. pc[t] # "idle" /\ StoreOK /\ turn[t] \in Turn /\ r \in Requests
  BY <1>0, AtWork DEF TypeInv, Before
<1>2. Unasked(messages, r)
  BY <1>0 DEF StageInv, LocalsStage
<1>3. CASE Continues(t, {"open", "sdecide"}) /\ UNCHANGED messages
  <2>1. pc'[t] \in Before /\ turn'[t].request = r
    BY <1>3 DEF Continues, Before
  <2> QED BY <1>0, <1>1, <1>3, <2>1, SameMessages, QuietStages
<1>4. ASSUME NEW c \in Chats, Store(c, UserMessage(r)),
             pc'[t] \in Asking, turn'[t].request = r, turn'[t].chat = c
      PROVE  StageInv'
  <2>1. OnlyAsked(messages', c, r)
    BY <1>1, <1>2, <1>4, AskStage
  <2>2. Grows(messages, messages') /\ \A q : q # r => Spares(messages, messages', q)
    BY <1>1, <1>4, StoreGrows DEF UserMessage
  <2>3. Staged(messages', r)
    BY <2>1 DEF Staged
  <2>4. LocalsStage(messages', pc'[t], turn'[t])
    BY <1>4, <2>1 DEF LocalsStage, Before, Asking
  <2> QED BY <1>0, <1>1, <2>2, <2>3, <2>4, OwnStages
<1>5. CASE /\ pc[t] = "sdecide" /\ Continues(t, {"tokens", "say"})
           /\ Store(turn[t].chat, UserMessage(r))
  <2>1. turn[t].chat \in Chats
    BY <1>5, AtWork DEF TypeInv
  <2> QED BY <1>4, <1>5, <2>1 DEF Continues, Asking
<1>6. CASE pc'[t] = "read" /\ \E c \in Chats :
                Store(c, UserMessage(r)) /\ turn'[t] = [turn[t] EXCEPT !.chat = c]
  <2>1. PICK c \in Chats : Store(c, UserMessage(r)) /\ turn'[t] = [turn[t] EXCEPT !.chat = c]
    BY <1>6
  <2>2. turn'[t].request = r /\ turn'[t].chat = c
    BY <1>1, <2>1 DEF Turn
  <2> QED BY <1>4, <1>6, <2>1, <2>2 DEF Asking
<1> QED BY <1>3, <1>5, <1>6, AskShape

LEMMA AnswerStages ==
    ASSUME TypeInv, FreshInv, StageInv, NEW t \in Turns, StoreAnswer(t)
    PROVE  StageInv'
<1> DEFINE r == turn[t].request
           message == Answer(r, turn[t].status, IF turn[t].direct THEN r ELSE Nobody)
<1>1. pc[t] = "say" /\ OthersStay(t) /\ sent' = sent /\ Store(turn[t].chat, message)
      /\ pc'[t] \notin Before \cup Asking
  BY StoreAnswerShape DEF Ends, Before, Asking
<1>2. StoreOK /\ turn[t].chat \in Chats /\ r \in Requests
  BY <1>1, AtWork DEF TypeInv
<1>3. OnlyAsked(messages, turn[t].chat, r)
  BY <1>1 DEF StageInv, LocalsStage, Asking
<1>4. Staged(messages', r)
  BY <1>1, <1>2, <1>3, AnswerStage DEF Staged
<1>5. Grows(messages, messages') /\ \A q : q # r => Spares(messages, messages', q)
  BY <1>1, <1>2, StoreGrows DEF Answer
<1>6. LocalsStage(messages', pc'[t], turn'[t])
  BY <1>1 DEF LocalsStage
<1> QED BY <1>1, <1>4, <1>5, <1>6, OwnStages

LEMMA OtherStages ==
    ASSUME TypeInv, FreshInv, StageInv, NEW t \in Turns,
           Thinks(t) \/ Finalize(t) \/ Learn(t) \/ Disconnect(t)
    PROVE  StageInv'
<1>1. CASE Thinks(t)
  <2>1. pc[t] # "idle" /\ pc[t] \in Asking /\ OthersStay(t) /\ sent' = sent /\ UNCHANGED messages
    BY <1>1 DEF Thinks, Asking
  <2>2. \/ pc'[t] \notin Before \cup Asking
        \/ /\ pc'[t] \in Asking
           /\ turn'[t].request = turn[t].request /\ turn'[t].chat = turn[t].chat
    BY <1>1 DEF Thinks, Continues, Ends, Before, Asking
  <2> QED BY <2>1, <2>2, SameMessages, QuietStages
<1>2. CASE Finalize(t)
  <2>1. pc[t] = "finalize" /\ OthersStay(t) /\ sent' = sent
        /\ pc'[t] \notin Before \cup Asking
        /\ messages' = [messages EXCEPT ![turn[t].chat] = MergeDiagnostics(@, turn[t].request)]
    BY <1>2, FinalizeShape DEF Ends, Before, Asking
  <2>2. StoreOK /\ turn[t].chat \in Chats /\ turn[t].request \in Requests
    BY <2>1, AtWork DEF TypeInv
  <2>3. Grows(messages, messages') /\ \A q : Spares(messages, messages', q)
    BY <2>1, <2>2, MergeGrows
  <2> QED BY <2>1, <2>3, QuietStages
<1>3. CASE Learn(t) \/ Disconnect(t)
  <2>1. pc[t] # "idle" /\ OthersStay(t) /\ sent' = sent /\ UNCHANGED messages
        /\ pc'[t] \notin Before \cup Asking
    BY <1>3, LearnShape, DisconnectShape DEF Ends, Before, Asking, stored
  <2> QED BY <2>1, SameMessages, QuietStages
<1> QED BY <1>1, <1>2, <1>3

\* A new request is one that nothing is stored of.
LEMMA ArriveStages ==
    ASSUME TypeInv, StageInv, NEW t \in Turns, Stream(t) \/ Send(t)
    PROVE  StageInv'
<1>1. Arrives(t)
  BY ArriveShape
<1>2. /\ turn'[t].request = sent + 1 /\ sent' = sent + 1 /\ UNCHANGED messages
      /\ pc'[t] \in Before /\ OthersStay(t)
      /\ sent \in Nat /\ sent + 1 \in Requests
  BY <1>1, BoundsAssumption DEF Arrives, Before, TypeInv, CountsOK, Requests
<1>3. Unasked(messages, sent + 1)
  BY <1>2 DEF StageInv
<1>4. \A r \in Requests : r > sent' => r > sent
  BY <1>2 DEF Requests
<1>5. ASSUME NEW u \in Turns PROVE LocalsStage(messages', pc'[u], turn'[u])
  BY <1>2, <1>3 DEF LocalsStage, StageInv, OthersStay, Before, Asking
<1> QED BY <1>2, <1>4, <1>5 DEF StageInv

LEMMA EndpointGrows ==
    ASSUME TypeInv, Endpoint
    PROVE  Grows(messages, messages') /\ \A r \in Requests : Spares(messages, messages', r)
<1>1. CASE UNCHANGED messages
  BY <1>1, SameMessages
<1>2. ASSUME NEW c \in Chats, ReportError(c)
      PROVE  Grows(messages, messages') /\ \A r \in Requests : Spares(messages, messages', r)
  <2>1. Store(c, Answer(Nobody, "error", Nobody)) /\ StoreOK
    BY <1>2 DEF ReportError, TypeInv
  <2>2. \A r \in Requests : r # Answer(Nobody, "error", Nobody).request
    BY DEF Requests, Answer, Nobody
  <2> QED BY <2>1, <2>2, StoreGrows
<1> QED BY <1>1, <1>2
        DEF Endpoint, CreateThread, DeleteThread, ReadScope, WriteScope, stored

LEMMA EndpointStages ==
    ASSUME TypeInv, StageInv, Endpoint
    PROVE  StageInv'
<1>1. UNCHANGED <<pc, turn, sent>>
  BY EndpointMoves
<1>2. Grows(messages, messages') /\ \A r \in Requests : Spares(messages, messages', r)
  BY EndpointGrows
<1>3. \A r \in Requests : Staged(messages', r) /\ (r > sent' => Unasked(messages', r))
  BY <1>1, <1>2, StagesKept DEF StageInv, Staged
<1>4. ASSUME NEW u \in Turns PROVE LocalsStage(messages', pc'[u], turn'[u])
  <2>1. LocalsStage(messages, pc[u], turn[u])
    BY DEF StageInv
  <2>2. CASE pc[u] \in Before \cup Asking
    <3>1. turn[u].request \in Requests /\ (pc[u] \in Asking => turn[u].chat \in Chats)
      BY <2>2, AtWork DEF TypeInv, Before, Asking
    <3> QED BY <1>1, <1>2, <2>1, <3>1, StagesKept DEF LocalsStage
  <2>3. CASE pc[u] \notin Before \cup Asking
    BY <1>1, <2>3 DEF LocalsStage
  <2> QED BY <2>2, <2>3
<1> QED BY <1>3, <1>4 DEF StageInv, Staged

LEMMA StageInit == Init => StageInv
BY DEF Init, StageInv, Unasked, LocalsStage, Before, Asking

LEMMA StageNext == TypeInv /\ FreshInv /\ StageInv /\ [Next]_vars => StageInv'
<1> SUFFICES ASSUME TypeInv, FreshInv, StageInv, [Next]_vars PROVE StageInv'
  OBVIOUS
<1>1. ASSUME NEW t \in Turns, Step(t) \/ Disconnect(t) PROVE StageInv'
  BY <1>1, StepShape, AskStages, AnswerStages, OtherStages DEF Storing
<1>2. ASSUME NEW t \in Turns, Stream(t) \/ Send(t) PROVE StageInv'
  BY <1>2, ArriveStages
<1>3. CASE Endpoint
  BY <1>3, EndpointStages
<1>4. CASE Crash
  <2>1. \A u \in Turns : LocalsStage(messages', pc'[u], turn'[u])
    BY <1>4, CrashMoves DEF Ends, LocalsStage, Before, Asking
  <2> QED BY <1>4, <2>1, CrashMoves DEF StageInv, stored
<1>5. CASE UNCHANGED vars
  BY <1>5 DEF vars, StageInv
<1> QED BY <1>1, <1>2, <1>3, <1>4, <1>5 DEF Next

LEMMA StageImplies == TypeInv /\ StageInv => OneQuestionOneAnswer
<1> SUFFICES ASSUME TypeInv, StageInv, NEW r \in Requests, NEW c \in Chats, NEW d \in Chats
    PROVE  /\ \A i \in Questions(c, r) : \A j \in Questions(d, r) : <<c, i>> = <<d, j>>
           /\ \A i \in Answers(c, r) :
                  Answers(c, r) = {i} /\ \E q \in Questions(c, r) : q < i
  BY DEF OneQuestionOneAnswer
<1>1. CASE Unasked(messages, r)
  BY <1>1 DEF Unasked, Questions, Answers
<1>2. ASSUME NEW b \in Chats, OnlyAsked(messages, b, r)
      PROVE  /\ \A i \in Questions(c, r) : \A j \in Questions(d, r) : <<c, i>> = <<d, j>>
             /\ Answers(c, r) = {}
  BY <1>2 DEF OnlyAsked, Questions, Answers
<1>3. ASSUME NEW b \in Chats, OnceAnswered(messages, b, r)
      PROVE  /\ \A i \in Questions(c, r) : \A j \in Questions(d, r) : <<c, i>> = <<d, j>>
             /\ \A i \in Answers(c, r) :
                    Answers(c, r) = {i} /\ \E q \in Questions(c, r) : q < i
  <2> PICK q \in DOMAIN messages[b], k \in DOMAIN messages[b] :
        /\ messages[b][q].role = "user" /\ messages[b][q].request = r
        /\ messages[b][k].role = "assistant" /\ messages[b][k].request = r
        /\ q < k
        /\ \A a \in Chats : \A j \in DOMAIN messages[a] :
              messages[a][j].request = r => a = b /\ j \in {q, k}
    BY <1>3 DEF OnceAnswered
  <2>1. \A a \in Chats : \A j \in Questions(a, r) : a = b /\ j = q
    BY DEF Questions
  <2>2. \A a \in Chats : \A j \in Answers(a, r) : a = b /\ j = k
    BY DEF Answers
  <2>3. q \in Questions(b, r) /\ k \in Answers(b, r)
    BY DEF Questions, Answers
  <2> QED BY <2>1, <2>2, <2>3
<1> QED BY <1>1, <1>2, <1>3 DEF StageInv

\* However the turns interleave, whatever fails, whoever goes away and whenever
\* the process dies: a request has at most one question and one answer in all
\* the chats, and the answer comes after the question and in the same chat.
THEOREM OneQuestionOneAnswerAlways == Spec => []OneQuestionOneAnswer
<1>1. Init => TypeInv /\ FreshInv /\ StageInv
  BY TypeInit, FreshInit, StageInit
<1>2. TypeInv /\ FreshInv /\ StageInv /\ [Next]_vars => (TypeInv /\ FreshInv /\ StageInv)'
  BY TypeNext, FreshNext, StageNext
<1>3. TypeInv /\ StageInv => OneQuestionOneAnswer
  BY StageImplies
<1> QED BY <1>1, <1>2, <1>3, PTL DEF Spec

-----------------------------------------------------------------------------
(* Clients are told, and turns learned from, what is stored. *)

LEMMA SaysKept ==
    ASSUME NEW m, NEW n, Grows(m, n), NEW c \in Chats, NEW r, NEW status,
           Says(m, c, r, status)
    PROVE  Says(n, c, r, status)
BY DEF Grows, Says

LEMMA RepliesKept ==
    ASSUME TypeInv, NEW n, Grows(messages, n), RepliesSaid(messages, replies)
    PROVE  RepliesSaid(n, replies)
<1>1. \A r \in Requests : replies[r].chat # NoChat => replies[r].chat \in Chats
  BY DEF TypeInv, RepliesOK, Outcome
<1> QED BY <1>1, SaysKept DEF RepliesSaid

LEMMA ReplySaid ==
    ASSUME TypeInv, NEW t \in Turns, NEW status, NEW chat, Reply(t, status, chat),
           NEW n, Grows(messages, n), RepliesSaid(messages, replies),
           \/ chat = NoChat \/ status = "document_unavailable"
           \/ Says(n, chat, turn[t].request, status)
    PROVE  RepliesSaid(n, replies')
<1>1. RepliesSaid(n, replies)
  BY RepliesKept
<1>2. ASSUME NEW r \in Requests
      PROVE  replies'[r] = IF r = turn[t].request THEN [status |-> status, chat |-> chat]
                                                   ELSE replies[r]
  BY DEF Reply, TypeInv, RepliesOK
<1> QED BY <1>1, <1>2 DEF RepliesSaid

\* A step of turn t, told by what it is after it and by its replies.
LEMMA OwnAnswers ==
    ASSUME TypeInv, AnswerInv, NEW t \in Turns, OthersStay(t), Grows(messages, messages'),
           LocalsAnswer(messages', pc'[t], turn'[t]), RepliesSaid(messages', replies')
    PROVE  AnswerInv'
<1>1. ASSUME NEW u \in Turns \ {t} PROVE LocalsAnswer(messages', pc'[u], turn'[u])
  <2>1. pc'[u] = pc[u] /\ turn'[u] = turn[u] /\ LocalsAnswer(messages, pc[u], turn[u])
    BY DEF OthersStay, AnswerInv
  <2>2. pc[u] \in {"learn", "background", "finalize"} => turn[u].chat \in Chats
    BY AtWork DEF TypeInv
  <2> QED BY <2>1, <2>2, SaysKept DEF LocalsAnswer
<1> QED BY <1>1 DEF AnswerInv

LEMMA AskAnswers ==
    ASSUME TypeInv, AnswerInv, NEW t \in Turns,
           Started(t) \/ StreamUndecided(t) \/ StreamDecided(t) \/ Open(t)
    PROVE  AnswerInv'
<1>1. OthersStay(t) /\ UNCHANGED replies /\ pc'[t] \in Before \cup Asking
  BY AskShape DEF Continues, Before, Asking
<1>2. Grows(messages, messages')
  <2>1. CASE UNCHANGED messages
    BY <2>1, SameMessages
  <2>2. CASE \E message : \E c \in Chats : Store(c, message)
    BY <2>2, StoreGrows DEF TypeInv
  <2>3. pc[t] # "open" /\ pc[t] # "idle" => turn[t].chat \in Chats
    BY AtWork DEF TypeInv
  <2> QED BY <2>1, <2>2, <2>3, AskShape
<1>3. LocalsAnswer(messages', pc'[t], turn'[t])
  BY <1>1 DEF LocalsAnswer, Before, Asking
<1> QED BY <1>1, <1>2, <1>3, RepliesKept, OwnAnswers DEF AnswerInv

LEMMA ThinkAnswers ==
    ASSUME TypeInv, AnswerInv, NEW t \in Turns, Thinks(t)
    PROVE  AnswerInv'
<1>1. OthersStay(t) /\ UNCHANGED messages
  BY DEF Thinks
<1>2. LocalsAnswer(messages', pc'[t], turn'[t])
  BY DEF Thinks, Continues, Ends, LocalsAnswer, Asking
<1>3. Grows(messages, messages')
  BY <1>1, SameMessages
<1>4. RepliesSaid(messages', replies')
  <2>1. CASE UNCHANGED replies
    BY <2>1, <1>3, RepliesKept DEF AnswerInv
  <2>2. CASE GivesUp(t)
    BY <2>2, <1>3, ReplySaid DEF AnswerInv, GivesUp
  <2> QED BY <2>1, <2>2 DEF Thinks
<1> QED BY <1>1, <1>2, <1>3, <1>4, OwnAnswers

LEMMA StoreAnswers ==
    ASSUME TypeInv, StageInv, AnswerInv, NEW t \in Turns, StoreAnswer(t)
    PROVE  AnswerInv'
<1> DEFINE r == turn[t].request
           c == turn[t].chat
           status == turn[t].status
<1>1. /\ pc[t] = "say" /\ OthersStay(t)
      /\ Store(c, Answer(r, status, IF turn[t].direct THEN r ELSE Nobody))
      /\ \/ /\ pc'[t] = "background" /\ turn'[t] = turn[t] /\ status = "answer"
            /\ Reply(t, status, c)
         \/ /\ pc'[t] = "learn" /\ turn'[t] = turn[t]
            /\ status \in Learnable /\ UNCHANGED replies
         \/ /\ pc'[t] = "finalize" /\ turn'[t] = turn[t]
            /\ UNCHANGED replies
         \/ Ends(t) /\ Reply(t, status, c)
  BY StoreAnswerShape
<1>2. StoreOK /\ c \in Chats
  BY <1>1, AtWork DEF TypeInv
<1>3. OnlyAsked(messages, c, r)
  BY <1>1 DEF StageInv, LocalsStage, Asking
<1>4. Says(messages', c, r, status)
  BY <1>1, <1>2, <1>3, AnswerStage
<1>5. Grows(messages, messages')
  BY <1>1, <1>2, StoreGrows
<1>6. LocalsAnswer(messages', pc'[t], turn'[t])
  BY <1>1, <1>4 DEF LocalsAnswer, Learnable, Ends
<1>7. RepliesSaid(messages', replies')
  BY <1>1, <1>4, <1>5, RepliesKept, ReplySaid DEF AnswerInv
<1> QED BY <1>1, <1>5, <1>6, <1>7, OwnAnswers

LEMMA LastAnswers ==
    ASSUME TypeInv, AnswerInv, NEW t \in Turns, Finalize(t) \/ Learn(t) \/ Disconnect(t)
    PROVE  AnswerInv'
<1>0. LocalsAnswer(messages, pc[t], turn[t]) /\ RepliesSaid(messages, replies)
  BY DEF AnswerInv
<1>1. CASE Finalize(t)
  <2>1. /\ pc[t] = "finalize" /\ OthersStay(t)
        /\ messages' = [messages EXCEPT ![turn[t].chat] =
                           MergeDiagnostics(@, turn[t].request)]
        /\ Reply(t, turn[t].status, turn[t].chat)
        /\ \/ /\ pc'[t] = "background" /\ turn'[t] = turn[t]
              /\ turn[t].status \in {"list", "missing", "created"}
           \/ Ends(t)
    BY <1>1, FinalizeShape
  <2>2. StoreOK /\ turn[t].chat \in Chats /\ turn[t].request \in Requests
    BY <2>1, AtWork DEF TypeInv
  <2>3. Grows(messages, messages')
    BY <2>1, <2>2, MergeGrows
  <2>4. \/ turn[t].status = "document_unavailable"
        \/ Says(messages', turn[t].chat, turn[t].request, turn[t].status)
    BY <1>0, <2>1, <2>2, <2>3, SaysKept DEF LocalsAnswer
  <2>5. LocalsAnswer(messages', pc'[t], turn'[t])
    BY <2>1, <2>4 DEF LocalsAnswer, Learnable, Ends
  <2>6. RepliesSaid(messages', replies')
    BY <1>0, <2>1, <2>3, <2>4, ReplySaid
  <2> QED BY <2>1, <2>3, <2>5, <2>6, OwnAnswers
<1>2. CASE Learn(t)
  <2>1. /\ OthersStay(t) /\ UNCHANGED messages
        /\ \/ /\ pc[t] = "learn" /\ pc'[t] = "finalize" /\ turn'[t] = turn[t]
              /\ UNCHANGED replies
           \/ pc[t] = "learn" /\ Ends(t) /\ Reply(t, turn[t].status, turn[t].chat)
           \/ Ends(t) /\ UNCHANGED replies
    BY <1>2, LearnShape
  <2>2. Grows(messages, messages')
    BY <2>1, SameMessages
  <2>3. LocalsAnswer(messages', pc'[t], turn'[t])
    BY <1>0, <2>1 DEF LocalsAnswer, Ends
  <2>4. RepliesSaid(messages', replies')
    <3>1. CASE UNCHANGED replies
      BY <1>0, <2>2, <3>1, RepliesKept
    <3>2. CASE pc[t] = "learn" /\ Reply(t, turn[t].status, turn[t].chat)
      <4>1. Says(messages', turn[t].chat, turn[t].request, turn[t].status)
        BY <1>0, <2>1, <3>2 DEF LocalsAnswer
      <4> QED BY <1>0, <2>2, <3>2, <4>1, ReplySaid
    <3> QED BY <2>1, <3>1, <3>2
  <2> QED BY <2>1, <2>2, <2>3, <2>4, OwnAnswers
<1>3. CASE Disconnect(t)
  <2>1. OthersStay(t) /\ Ends(t) /\ UNCHANGED <<messages, replies>>
    BY <1>3, DisconnectShape DEF stored
  <2>2. LocalsAnswer(messages', pc'[t], turn'[t])
    BY <2>1 DEF LocalsAnswer, Ends
  <2> QED BY <1>0, <2>1, <2>2, SameMessages, RepliesKept, OwnAnswers
<1> QED BY <1>1, <1>2, <1>3

LEMMA EndpointAnswers ==
    ASSUME TypeInv, AnswerInv, Endpoint
    PROVE  AnswerInv'
<1>1. UNCHANGED <<pc, turn, replies>>
  BY EndpointMoves
<1>2. Grows(messages, messages')
  BY EndpointGrows
<1>3. ASSUME NEW u \in Turns PROVE LocalsAnswer(messages', pc'[u], turn'[u])
  <2>1. LocalsAnswer(messages, pc[u], turn[u])
    BY DEF AnswerInv
  <2>2. pc[u] \in {"learn", "background", "finalize"} => turn[u].chat \in Chats
    BY AtWork DEF TypeInv
  <2> QED BY <1>1, <1>2, <2>1, <2>2, SaysKept DEF LocalsAnswer
<1> QED BY <1>1, <1>2, <1>3, RepliesKept DEF AnswerInv

LEMMA AnswerInit == Init => AnswerInv
BY DEF Init, AnswerInv, LocalsAnswer, RepliesSaid

LEMMA AnswerNext == TypeInv /\ StageInv /\ AnswerInv /\ [Next]_vars => AnswerInv'
<1> SUFFICES ASSUME TypeInv, StageInv, AnswerInv, [Next]_vars PROVE AnswerInv'
  OBVIOUS
<1>1. ASSUME NEW t \in Turns, Step(t) \/ Disconnect(t) PROVE AnswerInv'
  BY <1>1, StepShape, AskAnswers, ThinkAnswers, StoreAnswers, LastAnswers DEF Storing
<1>2. ASSUME NEW t \in Turns, Stream(t) \/ Send(t) PROVE AnswerInv'
  <2>1. Arrives(t)
    BY <1>2, ArriveShape
  <2>2. LocalsAnswer(messages', pc'[t], turn'[t])
    BY <2>1 DEF Arrives, LocalsAnswer
  <2> QED BY <2>1, <2>2, SameMessages, OwnAnswers DEF Arrives, AnswerInv, past
<1>3. CASE Endpoint
  BY <1>3, EndpointAnswers
<1>4. CASE Crash
  <2>1. \A u \in Turns : LocalsAnswer(messages', pc'[u], turn'[u])
    BY <1>4, CrashMoves DEF Ends, LocalsAnswer
  <2> QED BY <1>4, <2>1, CrashMoves DEF AnswerInv, stored, past
<1>5. CASE UNCHANGED vars
  BY <1>5 DEF vars, AnswerInv
<1> QED BY <1>1, <1>2, <1>3, <1>4, <1>5 DEF Next

LEMMA AnswerImplies == AnswerInv => RepliesAreStored
BY DEF AnswerInv, RepliesSaid, Says, RepliesAreStored, Answers

\* What a client is told with a chat id is stored in that chat with the same
\* status before the reply is sent, and stays there: no turn, thread, report
\* or merge of diagnostics takes it away.
THEOREM RepliesAreStoredAlways == Spec => []RepliesAreStored
<1>1. Init => TypeInv /\ FreshInv /\ StageInv /\ AnswerInv
  BY TypeInit, FreshInit, StageInit, AnswerInit
<1>2. TypeInv /\ FreshInv /\ StageInv /\ AnswerInv /\ [Next]_vars
        => (TypeInv /\ FreshInv /\ StageInv /\ AnswerInv)'
  BY TypeNext, FreshNext, StageNext, AnswerNext
<1> QED BY <1>1, <1>2, AnswerImplies, PTL DEF Spec

-----------------------------------------------------------------------------
(* Clients are told once. *)

\* A step of turn t, told by what it is after it; only its client may be told.
LEMMA OwnUntold ==
    ASSUME TypeInv, FreshInv, TellInv, NEW t \in Turns,
           pc[t] # "idle", OthersStay(t), sent' = sent, Grows(messages, messages'),
           \A r : r # turn[t].request => Spares(messages, messages', r),
           \A r \in Requests : r # turn[t].request => replies'[r] = replies[r],
           LocalsUntold(messages', replies', pc'[t], turn'[t])
    PROVE  TellInv'
<1>1. turn[t].request \in Nat /\ turn[t].request <= sent /\ sent \in Nat
  BY AtWork DEF TypeInv, FreshInv, CountsOK, Requests
<1>2. ASSUME NEW r \in Requests, r > sent' PROVE replies'[r] = Untold
  <2>1. r # turn[t].request /\ r > sent
    BY <1>1, <1>2
  <2> QED BY <2>1 DEF TellInv
<1>3. ASSUME NEW u \in Turns \ {t} PROVE LocalsUntold(messages', replies', pc'[u], turn'[u])
  <2>1. /\ pc'[u] = pc[u] /\ turn'[u] = turn[u]
        /\ LocalsUntold(messages, replies, pc[u], turn[u])
    BY DEF OthersStay, TellInv
  <2>2. CASE pc[u] = "idle"
    BY <2>1, <2>2 DEF LocalsUntold
  <2>3. CASE pc[u] # "idle"
    <3>1. turn[u].request \in Requests /\ turn[u].request # turn[t].request
      BY <2>3, AtWork DEF TypeInv, FreshInv
    <3>2. pc[u] = "finalize" => turn[u].chat \in Chats
      BY AtWork DEF TypeInv
    <3>3. replies'[turn[u].request] = replies[turn[u].request]
      BY <3>1
    <3>4. Spares(messages, messages', turn[u].request)
      BY <3>1
    <3>5. ASSUME pc[u] = "finalize"
          PROVE  /\ OnlyAsked(messages, turn[u].chat, turn[u].request)
                       => OnlyAsked(messages', turn[u].chat, turn[u].request)
                 /\ Says(messages, turn[u].chat, turn[u].request, turn[u].status)
                       => Says(messages', turn[u].chat, turn[u].request, turn[u].status)
      BY <3>2, <3>4, <3>5, StagesKept, SaysKept
    <3> QED BY <2>1, <3>3, <3>5 DEF LocalsUntold
  <2> QED BY <2>2, <2>3
<1> QED BY <1>2, <1>3 DEF TellInv

LEMMA ReplyElse ==
    ASSUME TypeInv, NEW t \in Turns, NEW status, NEW chat, Reply(t, status, chat)
    PROVE  \A r \in Requests : r # turn[t].request => replies'[r] = replies[r]
BY DEF TypeInv, RepliesOK, Reply

LEMMA AskUntold ==
    ASSUME TypeInv, FreshInv, TellInv, NEW t \in Turns,
           Started(t) \/ StreamUndecided(t) \/ StreamDecided(t) \/ Open(t)
    PROVE  TellInv'
<1>0. pc[t] \in Before /\ OthersStay(t) /\ sent' = sent /\ UNCHANGED replies
  BY AskShape
<1>1. pc[t] # "idle" /\ StoreOK /\ turn[t] \in Turn
      /\ (pc[t] # "open" => turn[t].chat \in Chats)
  BY <1>0, AtWork DEF TypeInv, Before
<1>2. \A c : [turn[t] EXCEPT !.chat = c].request = turn[t].request
  BY <1>1 DEF Turn
<1>3. turn'[t].request = turn[t].request /\ pc'[t] \in Before \cup Asking
  <2>1. \/ turn'[t].request = turn[t].request
        \/ \E c : turn'[t] = [turn[t] EXCEPT !.chat = c]
    BY AskShape DEF Continues
  <2>2. pc'[t] \in Before \cup Asking
    BY AskShape DEF Continues, Before, Asking
  <2> QED BY <1>2, <2>1, <2>2
<1>4. LocalsUntold(messages', replies', pc'[t], turn'[t])
  <2>1. replies[turn[t].request] = Untold
    BY <1>0 DEF TellInv, LocalsUntold, Before
  <2> QED BY <1>0, <1>3, <2>1 DEF LocalsUntold, Before, Asking
<1>5. UserMessage(turn[t].request).request = turn[t].request
  BY DEF UserMessage
<1>6. \/ UNCHANGED messages
      \/ \E c \in Chats : Store(c, UserMessage(turn[t].request))
  <2>1. pc[t] = "sdecide" => turn[t].chat \in Chats
    BY <1>1
  <2>2. \/ UNCHANGED messages
        \/ pc[t] = "sdecide" /\ Store(turn[t].chat, UserMessage(turn[t].request))
        \/ \E c \in Chats : Store(c, UserMessage(turn[t].request))
    BY AskShape
  <2> QED BY <2>1, <2>2
<1>7. /\ Grows(messages, messages')
      /\ \A r : r # turn[t].request => Spares(messages, messages', r)
  BY <1>1, <1>5, <1>6, SameMessages, StoreGrows
<1> QED BY <1>0, <1>1, <1>4, <1>7, OwnUntold

LEMMA ThinkUntold ==
    ASSUME TypeInv, FreshInv, StageInv, TellInv, NEW t \in Turns, Thinks(t)
    PROVE  TellInv'
<1>1. /\ pc[t] \in Asking /\ pc[t] # "idle" /\ OthersStay(t)
      /\ sent' = sent /\ UNCHANGED messages
  BY DEF Thinks, Asking
<1>2. /\ OnlyAsked(messages, turn[t].chat, turn[t].request)
      /\ replies[turn[t].request] = Untold
  BY <1>1 DEF StageInv, LocalsStage, TellInv, LocalsUntold, Asking
<1>3. CASE Continues(t, Asking) /\ UNCHANGED replies
  <2>1. LocalsUntold(messages', replies', pc'[t], turn'[t])
    BY <1>2, <1>3 DEF LocalsUntold, Continues, Asking
  <2> QED BY <1>1, <1>3, <2>1, SameMessages, OwnUntold
<1>4. CASE /\ Continues(t, {"finalize"}) /\ UNCHANGED replies
           /\ turn'[t].status = "document_unavailable"
  <2>1. LocalsUntold(messages', replies', pc'[t], turn'[t])
    BY <1>1, <1>2, <1>4 DEF LocalsUntold, Continues
  <2> QED BY <1>1, <1>4, <2>1, SameMessages, OwnUntold
<1>5. CASE Ends(t) /\ GivesUp(t)
  <2>1. LocalsUntold(messages', replies', pc'[t], turn'[t])
    BY <1>5 DEF LocalsUntold, Ends
  <2>2. \A r \in Requests : r # turn[t].request => replies'[r] = replies[r]
    BY <1>5, ReplyElse DEF GivesUp
  <2> QED BY <1>1, <2>1, <2>2, SameMessages, OwnUntold
<1> QED BY <1>3, <1>4, <1>5 DEF Thinks, Continues

LEMMA StoreUntold ==
    ASSUME TypeInv, FreshInv, StageInv, TellInv, NEW t \in Turns, StoreAnswer(t)
    PROVE  TellInv'
<1> DEFINE r == turn[t].request
           c == turn[t].chat
           message == Answer(r, turn[t].status, IF turn[t].direct THEN r ELSE Nobody)
<1>1. /\ pc[t] = "say" /\ OthersStay(t) /\ sent' = sent /\ Store(c, message)
      /\ \/ pc'[t] = "background" /\ Reply(t, turn[t].status, c)
         \/ pc'[t] \in {"learn", "finalize"} /\ turn'[t] = turn[t] /\ UNCHANGED replies
         \/ Ends(t) /\ Reply(t, turn[t].status, c)
  BY StoreAnswerShape
<1>2. StoreOK /\ c \in Chats /\ message.request = r
  BY <1>1, AtWork DEF TypeInv, Answer
<1>3. OnlyAsked(messages, c, r) /\ replies[r] = Untold
  BY <1>1 DEF StageInv, LocalsStage, TellInv, LocalsUntold, Asking
<1>4. Says(messages', c, r, turn[t].status)
  BY <1>1, <1>2, <1>3, AnswerStage
<1>5. /\ Grows(messages, messages')
      /\ \A q : q # r => Spares(messages, messages', q)
  BY <1>1, <1>2, StoreGrows
<1>6. LocalsUntold(messages', replies', pc'[t], turn'[t])
  BY <1>1, <1>3, <1>4 DEF LocalsUntold, Ends
<1>7. \A q \in Requests : q # r => replies'[q] = replies[q]
  BY <1>1, ReplyElse
<1> QED BY <1>1, <1>5, <1>6, <1>7, OwnUntold

LEMMA LastUntold ==
    ASSUME TypeInv, FreshInv, AnswerInv, TellInv, NEW t \in Turns,
           Finalize(t) \/ Learn(t) \/ Disconnect(t)
    PROVE  TellInv'
<1>1. pc[t] # "idle" /\ OthersStay(t) /\ sent' = sent
  BY FinalizeShape, LearnShape, DisconnectShape
<1>2. Grows(messages, messages') /\ \A q : Spares(messages, messages', q)
  <2>1. CASE Finalize(t)
    <3>1. StoreOK /\ turn[t].chat \in Chats /\ turn[t].request \in Requests
      BY <2>1, FinalizeShape, AtWork DEF TypeInv
    <3> QED BY <2>1, <3>1, FinalizeShape, MergeGrows
  <2>2. CASE Learn(t) \/ Disconnect(t)
    BY <2>2, LearnShape, DisconnectShape, SameMessages DEF stored
  <2> QED BY <2>1, <2>2
<1>3. LocalsUntold(messages', replies', pc'[t], turn'[t])
  <2>1. CASE pc'[t] \in {"idle", "background"}
    BY <2>1 DEF LocalsUntold
  <2>2. CASE /\ pc[t] = "learn" /\ pc'[t] = "finalize" /\ turn'[t] = turn[t]
             /\ UNCHANGED <<messages, replies>>
    BY <2>2 DEF LocalsUntold, TellInv, AnswerInv, LocalsAnswer
  <2> QED BY <2>1, <2>2, FinalizeShape, LearnShape, DisconnectShape DEF Ends
<1>4. \A q \in Requests : q # turn[t].request => replies'[q] = replies[q]
  BY ReplyElse, FinalizeShape, LearnShape, DisconnectShape
<1> QED BY <1>1, <1>2, <1>3, <1>4, OwnUntold

LEMMA ArriveUntold ==
    ASSUME TypeInv, TellInv, NEW t \in Turns, Stream(t) \/ Send(t)
    PROVE  TellInv'
<1>1. Arrives(t)
  BY ArriveShape
<1>2. /\ turn'[t].request = sent + 1 /\ sent' = sent + 1
      /\ UNCHANGED <<messages, replies>> /\ OthersStay(t) /\ pc'[t] \in {"open", "start"}
      /\ sent \in Nat /\ sent + 1 \in Requests
  BY <1>1, BoundsAssumption DEF Arrives, TypeInv, CountsOK, Requests, past
<1>3. replies[sent + 1] = Untold
  BY <1>2 DEF TellInv
<1>4. \A r \in Requests : r > sent' => r > sent
  BY <1>2 DEF Requests
<1>5. ASSUME NEW u \in Turns PROVE LocalsUntold(messages', replies', pc'[u], turn'[u])
  BY <1>2, <1>3 DEF LocalsUntold, TellInv, OthersStay
<1> QED BY <1>2, <1>4, <1>5 DEF TellInv

LEMMA EndpointUntold ==
    ASSUME TypeInv, TellInv, Endpoint
    PROVE  TellInv'
<1>1. UNCHANGED <<pc, turn, sent, replies>>
  BY EndpointMoves
<1>2. ASSUME NEW u \in Turns PROVE LocalsUntold(messages', replies', pc'[u], turn'[u])
  <2>1. LocalsUntold(messages, replies, pc[u], turn[u])
    BY DEF TellInv
  <2>2. pc[u] = "finalize" => turn[u].chat \in Chats /\ turn[u].request \in Requests
    BY AtWork DEF TypeInv
  <2> QED BY <1>1, <2>1, <2>2, EndpointGrows, StagesKept, SaysKept DEF LocalsUntold
<1> QED BY <1>1, <1>2 DEF TellInv

LEMMA TellInit == Init => TellInv
BY DEF Init, TellInv, LocalsUntold, Untold

LEMMA TellNext ==
    TypeInv /\ FreshInv /\ StageInv /\ AnswerInv /\ TellInv /\ [Next]_vars => TellInv'
<1> SUFFICES ASSUME TypeInv, FreshInv, StageInv, AnswerInv, TellInv, [Next]_vars
             PROVE  TellInv'
  OBVIOUS
<1>1. ASSUME NEW t \in Turns, Step(t) \/ Disconnect(t) PROVE TellInv'
  BY <1>1, StepShape, AskUntold, ThinkUntold, StoreUntold, LastUntold DEF Storing
<1>2. ASSUME NEW t \in Turns, Stream(t) \/ Send(t) PROVE TellInv'
  BY <1>2, ArriveUntold
<1>3. CASE Endpoint
  BY <1>3, EndpointUntold
<1>4. CASE Crash
  <2>1. \A u \in Turns : LocalsUntold(messages', replies', pc'[u], turn'[u])
    BY <1>4, CrashMoves DEF Ends, LocalsUntold
  <2> QED BY <1>4, <2>1, CrashMoves DEF TellInv, past
<1>5. CASE UNCHANGED vars
  BY <1>5 DEF vars, TellInv
<1> QED BY <1>1, <1>2, <1>3, <1>4, <1>5 DEF Next

-----------------------------------------------------------------------------
(***************************************************************************)
(* Refinement: the turns implement Conversation.  The place that stores    *)
(* the question is its Ask, StoreAnswer its Answer; a turn that is not     *)
(* streamed tells its client there and then, the others Tell later.        *)
(***************************************************************************)
QuestionsIn(m) ==
    UNION {{[request |-> m[c][i].request, chat |-> c, place |-> i] :
               i \in QuestionsOf(m[c])} : c \in Chats}

AnswersIn(m) ==
    UNION {{[request |-> m[c][i].request, chat |-> c, place |-> i,
             status |-> m[c][i].status] : i \in AnswersOf(m[c])} : c \in Chats}

LEMMA InAsked ==
    ASSUME NEW m, NEW x
    PROVE  x \in QuestionsIn(m) <=>
              \E c \in Chats : \E i \in DOMAIN m[c] :
                 /\ m[c][i].role = "user"
                 /\ x = [request |-> m[c][i].request, chat |-> c, place |-> i]
BY DEF QuestionsIn, QuestionsOf

LEMMA InAnswered ==
    ASSUME NEW m, NEW x
    PROVE  x \in AnswersIn(m) <=>
              \E c \in Chats : \E i \in DOMAIN m[c] :
                 /\ m[c][i].role = "assistant" /\ m[c][i].request # Nobody
                 /\ x = [request |-> m[c][i].request, chat |-> c, place |-> i,
                         status |-> m[c][i].status]
BY DEF AnswersIn, AnswersOf

\* A step that adds no message: the diagnostics are no part of the conversation.
LEMMA SameTalk ==
    ASSUME NEW m, NEW n, Grows(m, n), \A c \in Chats : DOMAIN n[c] = DOMAIN m[c]
    PROVE  QuestionsIn(n) = QuestionsIn(m) /\ AnswersIn(n) = AnswersIn(m)
<1>1. \A c \in Chats : \A i \in DOMAIN n[c] :
         /\ i \in DOMAIN m[c] /\ n[c][i].role = m[c][i].role
         /\ n[c][i].request = m[c][i].request /\ n[c][i].status = m[c][i].status
  BY DEF Grows
<1>2. ASSUME NEW x PROVE x \in QuestionsIn(n) <=> x \in QuestionsIn(m)
  BY <1>1, InAsked DEF Grows
<1>3. ASSUME NEW x PROVE x \in AnswersIn(n) <=> x \in AnswersIn(m)
  BY <1>1, InAnswered DEF Grows
<1> QED BY <1>2, <1>3

\* A step that stores a message: it comes after all that are in its chat.
LEMMA MoreTalk ==
    ASSUME NEW c \in Chats, NEW message, Store(c, message), StoreOK
    PROVE  LET k == Len(messages[c]) + 1
               q == [request |-> message.request, chat |-> c, place |-> k]
               a == [request |-> message.request, chat |-> c, place |-> k,
                     status |-> message.status]
           IN
           /\ QuestionsIn(messages') =
                 QuestionsIn(messages) \cup IF message.role = "user" THEN {q} ELSE {}
           /\ AnswersIn(messages') =
                 AnswersIn(messages) \cup
                    IF message.role = "assistant" /\ message.request # Nobody THEN {a} ELSE {}
           /\ \A x \in QuestionsIn(messages) \cup AnswersIn(messages) :
                 x.chat = c => x.place < k
<1> DEFINE k == Len(messages[c]) + 1
           q == [request |-> message.request, chat |-> c, place |-> k]
           a == [request |-> message.request, chat |-> c, place |-> k,
                 status |-> message.status]
<1>1. /\ \A d \in Chats \ {c} : messages'[d] = messages[d]
      /\ k \in Nat /\ DOMAIN messages[c] = 1 .. k - 1 /\ k \notin 1 .. k - 1
      /\ DOMAIN messages'[c] = 1 .. k
      /\ \A i \in 1 .. k - 1 : messages'[c][i] = messages[c][i]
      /\ messages'[c][k] = message
  BY StoreEffect
<1>2. \A i : i \in 1 .. k <=> i \in 1 .. k - 1 \/ i = k
  BY <1>1
<1> DEFINE asking == IF message.role = "user" THEN {q} ELSE {}
           answering ==
              IF message.role = "assistant" /\ message.request # Nobody THEN {a} ELSE {}
<1>q. \A x : x \in asking <=> message.role = "user" /\ x = q
  OBVIOUS
<1>a. \A x : x \in answering <=>
             message.role = "assistant" /\ message.request # Nobody /\ x = a
  OBVIOUS
<1> HIDE DEF k, asking, answering
<1>3. ASSUME NEW x PROVE x \in QuestionsIn(messages') <=> x \in QuestionsIn(messages) \/ x \in asking
  <2>1. ASSUME x \in QuestionsIn(messages') PROVE x \in QuestionsIn(messages) \/ x \in asking
    <3> PICK d \in Chats : \E i \in DOMAIN messages'[d] :
          /\ messages'[d][i].role = "user"
          /\ x = [request |-> messages'[d][i].request, chat |-> d, place |-> i]
      BY <2>1, InAsked
    <3> PICK i \in DOMAIN messages'[d] :
          /\ messages'[d][i].role = "user"
          /\ x = [request |-> messages'[d][i].request, chat |-> d, place |-> i]
      OBVIOUS
    <3>1. CASE d = c /\ i = k
      BY <1>1, <1>q, <3>1
    <3>2. CASE ~ (d = c /\ i = k)
      <4>1. i \in DOMAIN messages[d] /\ messages'[d][i] = messages[d][i]
        BY <1>1, <1>2, <3>2
      <4> QED BY <4>1, InAsked
    <3> QED BY <3>1, <3>2
  <2>2. ASSUME x \in QuestionsIn(messages) PROVE x \in QuestionsIn(messages')
    <3> PICK d \in Chats : \E i \in DOMAIN messages[d] :
          /\ messages[d][i].role = "user"
          /\ x = [request |-> messages[d][i].request, chat |-> d, place |-> i]
      BY <2>2, InAsked
    <3> PICK i \in DOMAIN messages[d] :
          /\ messages[d][i].role = "user"
          /\ x = [request |-> messages[d][i].request, chat |-> d, place |-> i]
      OBVIOUS
    <3>1. i \in DOMAIN messages'[d] /\ messages'[d][i] = messages[d][i]
      BY <1>1, <1>2
    <3> QED BY <3>1, InAsked
  <2>3. ASSUME x \in asking PROVE x \in QuestionsIn(messages')
    <3>1. k \in DOMAIN messages'[c]
      BY <1>1, <1>2
    <3> QED BY <1>1, <1>q, <2>3, <3>1, InAsked
  <2> QED BY <2>1, <2>2, <2>3
<1>4. ASSUME NEW x
      PROVE  x \in AnswersIn(messages') <=> x \in AnswersIn(messages) \/ x \in answering
  <2>1. ASSUME x \in AnswersIn(messages')
        PROVE  x \in AnswersIn(messages) \/ x \in answering
    <3> PICK d \in Chats : \E i \in DOMAIN messages'[d] :
          /\ messages'[d][i].role = "assistant" /\ messages'[d][i].request # Nobody
          /\ x = [request |-> messages'[d][i].request, chat |-> d, place |-> i,
                  status |-> messages'[d][i].status]
      BY <2>1, InAnswered
    <3> PICK i \in DOMAIN messages'[d] :
          /\ messages'[d][i].role = "assistant" /\ messages'[d][i].request # Nobody
          /\ x = [request |-> messages'[d][i].request, chat |-> d, place |-> i,
                  status |-> messages'[d][i].status]
      OBVIOUS
    <3>1. CASE d = c /\ i = k
      BY <1>1, <1>a, <3>1
    <3>2. CASE ~ (d = c /\ i = k)
      <4>1. i \in DOMAIN messages[d] /\ messages'[d][i] = messages[d][i]
        BY <1>1, <1>2, <3>2
      <4> QED BY <4>1, InAnswered
    <3> QED BY <3>1, <3>2
  <2>2. ASSUME x \in AnswersIn(messages) PROVE x \in AnswersIn(messages')
    <3> PICK d \in Chats : \E i \in DOMAIN messages[d] :
          /\ messages[d][i].role = "assistant" /\ messages[d][i].request # Nobody
          /\ x = [request |-> messages[d][i].request, chat |-> d, place |-> i,
                  status |-> messages[d][i].status]
      BY <2>2, InAnswered
    <3> PICK i \in DOMAIN messages[d] :
          /\ messages[d][i].role = "assistant" /\ messages[d][i].request # Nobody
          /\ x = [request |-> messages[d][i].request, chat |-> d, place |-> i,
                  status |-> messages[d][i].status]
      OBVIOUS
    <3>1. i \in DOMAIN messages'[d] /\ messages'[d][i] = messages[d][i]
      BY <1>1, <1>2
    <3> QED BY <3>1, InAnswered
  <2>3. ASSUME x \in answering PROVE x \in AnswersIn(messages')
    <3>1. k \in DOMAIN messages'[c]
      BY <1>1, <1>2
    <3> QED BY <1>1, <1>a, <2>3, <3>1, InAnswered
  <2> QED BY <2>1, <2>2, <2>3
<1>5. ASSUME NEW x \in QuestionsIn(messages) \cup AnswersIn(messages), x.chat = c
      PROVE  x.place < k
  <2>1. \E d \in Chats : \E i \in DOMAIN messages[d] : x.chat = d /\ x.place = i
    BY InAsked, InAnswered
  <2>2. x.place \in 1 .. k - 1
    BY <1>1, <1>5, <2>1
  <2> QED BY <1>1, <2>2
<1>6. QuestionsIn(messages') = QuestionsIn(messages) \cup asking
  BY <1>3
<1>7. AnswersIn(messages') = AnswersIn(messages) \cup answering
  BY <1>4
<1> QED BY <1>5, <1>6, <1>7 DEF k, asking, answering

\* What the stages of a request say of the conversation.
LEMMA UnaskedTalk ==
    ASSUME NEW m, NEW r, Unasked(m, r)
    PROVE  \A x \in QuestionsIn(m) \cup AnswersIn(m) : x.request # r
BY InAsked, InAnswered DEF Unasked

LEMMA AskedTalk ==
    ASSUME NEW m, NEW c \in Chats, NEW r, OnlyAsked(m, c, r)
    PROVE  /\ \E q \in QuestionsIn(m) : q.request = r /\ q.chat = c
           /\ \A a \in AnswersIn(m) : a.request # r
<1> PICK i \in DOMAIN m[c] :
      /\ m[c][i].role = "user" /\ m[c][i].request = r
      /\ \A d \in Chats : \A j \in DOMAIN m[d] : m[d][j].request = r => d = c /\ j = i
  BY DEF OnlyAsked
<1>1. [request |-> r, chat |-> c, place |-> i] \in QuestionsIn(m)
  BY InAsked
<1>2. ASSUME NEW a \in AnswersIn(m) PROVE a.request # r
  <2> PICK d \in Chats : \E j \in DOMAIN m[d] :
        m[d][j].role = "assistant" /\ a.request = m[d][j].request
    BY InAnswered
  <2> QED OBVIOUS
<1> QED BY <1>1, <1>2

LEMMA SaidTalk ==
    ASSUME NEW m, NEW c \in Chats, NEW r \in Requests, NEW status, Says(m, c, r, status)
    PROVE  \E a \in AnswersIn(m) : a.request = r /\ a.chat = c /\ a.status = status
<1> PICK i \in DOMAIN m[c] :
      m[c][i].role = "assistant" /\ m[c][i].request = r /\ m[c][i].status = status
  BY DEF Says
<1>1. r # Nobody
  BY DEF Requests, Nobody
<1>2. [request |-> r, chat |-> c, place |-> i, status |-> status] \in AnswersIn(m)
  BY <1>1, InAnswered
<1> QED BY <1>2

\* The state of the conversation, as Talk has it.
questions == UNION {{QuestionAt(c, i) : i \in QuestionsOf(messages[c])} : c \in Chats}
answers   == UNION {{AnswerAt(c, i) : i \in AnswersOf(messages[c])} : c \in Chats}

LEMMA TalkIs ==
    /\ questions = QuestionsIn(messages) /\ questions' = QuestionsIn(messages')
    /\ answers = AnswersIn(messages) /\ answers' = AnswersIn(messages')
BY DEF questions, answers, QuestionsIn, AnswersIn, QuestionAt, AnswerAt

\* The question of a request is stored: Ask.
LEMMA TalkAsk ==
    ASSUME StoreOK, NEW r, NEW c \in Chats, Unasked(messages, r),
           Store(c, UserMessage(r)), UNCHANGED replies
    PROVE  Talk!Ask(r)
<1> DEFINE k   == Len(messages[c]) + 1
           new == [request |-> r, chat |-> c, place |-> k]
<1>1. UserMessage(r).role = "user" /\ UserMessage(r).request = r
  BY DEF UserMessage
<1>2. /\ questions' = questions \cup {new} /\ answers' = answers
      /\ \A x \in questions \cup answers : x.chat = c => x.place < k
  BY <1>1, MoreTalk, TalkIs
<1>3. new.chat = c /\ new.place = k
  OBVIOUS
<1>4. \A q \in questions : q.request # r
  BY UnaskedTalk, TalkIs
<1> HIDE DEF k
<1>5. /\ \E x \in questions' :
            /\ \A m \in questions \cup answers : m.chat = x.chat => m.place < x.place
            /\ questions' = questions \cup {[request |-> r, chat |-> x.chat, place |-> x.place]}
  BY <1>2, <1>3
<1> QED BY <1>2, <1>4, <1>5
        DEF Talk!Ask, Talk!Asked, Talk!AtTheEnd, questions, answers

\* The client of a turn is told: Told.
LEMMA TalkTold ==
    ASSUME NEW t \in Turns, NEW status, NEW chat, Reply(t, status, chat),
           replies[turn[t].request] = Untold
    PROVE  Talk!Told(turn[t].request, status, chat)
BY DEF Talk!Told, Reply, Untold

\* What was answered is told: TellAnswer.
LEMMA TalkTellAnswer ==
    ASSUME NEW t \in Turns, NEW c \in Chats, NEW status, Reply(t, status, c),
           replies[turn[t].request] = Untold, turn[t].request \in Requests,
           Says(messages', c, turn[t].request, status)
    PROVE  Talk!TellAnswer(turn[t].request)
<1> DEFINE r == turn[t].request
<1>1. PICK a \in answers' : a.request = r /\ a.chat = c /\ a.status = status
  BY SaidTalk, TalkIs
<1>2. Talk!Told(r, a.status, a.chat)
  BY <1>1, TalkTold
<1> HIDE DEF r
<1> QED BY <1>1, <1>2 DEF Talk!TellAnswer, answers, r

\* The answer of a request is stored: Answer.
LEMMA TalkAnswer ==
    ASSUME StoreOK, NEW r \in Requests, NEW c \in Chats, NEW status, NEW diagnostics,
           OnlyAsked(messages, c, r), Store(c, Answer(r, status, diagnostics))
    PROVE  Talk!Answer(r)
<1> DEFINE k   == Len(messages[c]) + 1
           new == [request |-> r, chat |-> c, place |-> k, status |-> status]
           message == Answer(r, status, diagnostics)
<1>1. /\ message.role = "assistant" /\ message.request = r /\ message.status = status
      /\ message.role # "user" /\ r # Nobody
  BY DEF Answer, Requests, Nobody
<1> HIDE DEF message
<1>2. /\ questions' = questions /\ answers' = answers \cup {new}
      /\ \A x \in questions \cup answers : x.chat = c => x.place < k
  BY <1>1, MoreTalk, TalkIs DEF message
<1>3. new.chat = c /\ new.place = k /\ new.status = status
  OBVIOUS
<1>4. PICK q \in questions : q.request = r /\ q.chat = c
  BY AskedTalk, TalkIs
<1>5. \A a \in answers : a.request # r
  BY AskedTalk, TalkIs
<1> HIDE DEF k
<1>6. \E x \in answers' :
         /\ q.request = r /\ q.chat = x.chat
         /\ \A m \in questions \cup answers : m.chat = x.chat => m.place < x.place
         /\ answers' = answers \cup
               {[request |-> r, chat |-> q.chat, place |-> x.place, status |-> x.status]}
  BY <1>2, <1>3, <1>4
<1> QED BY <1>2, <1>4, <1>5, <1>6
        DEF Talk!Answer, Talk!Answered, Talk!AtTheEnd, questions, answers

\* Document is not there, which is told with the question stored and no answer;
\* or something fails that names no chat.
LEMMA TalkGivesUp ==
    ASSUME NEW t \in Turns, turn[t].chat \in Chats, replies[turn[t].request] = Untold,
           OnlyAsked(messages, turn[t].chat, turn[t].request)
    PROVE  /\ Reply(t, "document_unavailable", turn[t].chat)
                 => Talk!TellOutage(turn[t].request)
           /\ GivesUp(t) => Talk!TellOutage(turn[t].request) \/ Talk!TellFailure(turn[t].request)
<1> DEFINE r == turn[t].request
<1>1. PICK q \in questions : q.request = r /\ q.chat = turn[t].chat
  BY AskedTalk, TalkIs
<1>2. \A a \in answers : a.request # r
  BY AskedTalk, TalkIs
<1>3. ASSUME Reply(t, "document_unavailable", turn[t].chat)
      PROVE  Talk!TellOutage(turn[t].request)
  <2>1. Talk!Told(r, "document_unavailable", q.chat)
    BY <1>1, <1>3, TalkTold
  <2> QED BY <1>1, <1>2, <2>1 DEF Talk!TellOutage, Talk!Answered, questions, answers
<1>4. ASSUME NEW status \in Failing, Reply(t, status, NoChat)
      PROVE  Talk!TellFailure(turn[t].request)
  <2>1. Talk!Told(r, status, NoChat)
    BY <1>4, TalkTold
  <2> QED BY <1>1, <1>2, <2>1
          DEF Talk!TellFailure, Talk!Asked, Talk!Answered, Failing, questions, answers
<1> QED BY <1>3, <1>4 DEF GivesUp

LEMMA TalkTell ==
    ASSUME NEW r, UNCHANGED <<questions, answers>>,
           Talk!TellAnswer(r) \/ Talk!TellOutage(r) \/ Talk!TellFailure(r)
    PROVE  Talk!Tell(r)
BY DEF Talk!Tell, questions, answers

\* What the conversation does in a step that stores no message.
LEMMA StillTalk ==
    ASSUME Grows(messages, messages'), \A r : Spares(messages, messages', r)
    PROVE  UNCHANGED <<questions, answers>>
<1>1. \A c \in Chats : DOMAIN messages'[c] = DOMAIN messages[c]
  BY DEF Grows, Spares
<1> QED BY <1>1, SameTalk, TalkIs

LEMMA AskTalks ==
    ASSUME TypeInv, StageInv, NEW t \in Turns,
           Started(t) \/ StreamUndecided(t) \/ StreamDecided(t) \/ Open(t)
    PROVE  Talk!Ask(turn[t].request) \/ UNCHANGED <<questions, answers, replies>>
<1>1. pc[t] \in Before /\ UNCHANGED replies
  BY AskShape
<1>2. StoreOK /\ (pc[t] = "sdecide" => turn[t].chat \in Chats)
  BY AtWork DEF TypeInv
<1>3. Unasked(messages, turn[t].request)
  BY <1>1 DEF StageInv, LocalsStage
<1>4. CASE UNCHANGED messages
  BY <1>1, <1>4, TalkIs
<1>5. CASE \E c \in Chats : Store(c, UserMessage(turn[t].request))
  BY <1>1, <1>2, <1>3, <1>5, TalkAsk
<1> QED BY <1>2, <1>4, <1>5, AskShape

LEMMA ThinkTalks ==
    ASSUME TypeInv, StageInv, TellInv, NEW t \in Turns, Thinks(t)
    PROVE  Talk!Tell(turn[t].request) \/ UNCHANGED <<questions, answers, replies>>
<1>1. pc[t] \in Asking /\ UNCHANGED messages /\ (UNCHANGED replies \/ GivesUp(t))
  BY DEF Thinks
<1>2. UNCHANGED <<questions, answers>>
  BY <1>1, TalkIs
<1>3. turn[t].chat \in Chats
  BY <1>1, AtWork DEF TypeInv, Asking
<1>4. OnlyAsked(messages, turn[t].chat, turn[t].request) /\ replies[turn[t].request] = Untold
  BY <1>1 DEF StageInv, LocalsStage, TellInv, LocalsUntold, Asking
<1> QED BY <1>1, <1>2, <1>3, <1>4, TalkGivesUp, TalkTell

LEMMA StoreAnswerTalks ==
    ASSUME TypeInv, StageInv, TellInv, NEW t \in Turns, StoreAnswer(t)
    PROVE  /\ Talk!Answer(turn[t].request)
           /\ UNCHANGED replies \/ Talk!TellAnswer(turn[t].request)
<1> DEFINE r == turn[t].request
           c == turn[t].chat
           status == turn[t].status
<1>1. /\ pc[t] = "say"
      /\ Store(c, Answer(r, status, IF turn[t].direct THEN r ELSE Nobody))
      /\ UNCHANGED replies \/ Reply(t, status, c)
  BY StoreAnswerShape
<1>2. StoreOK /\ c \in Chats /\ r \in Requests
  BY <1>1, AtWork DEF TypeInv
<1>3. OnlyAsked(messages, c, r) /\ replies[r] = Untold
  BY <1>1 DEF StageInv, LocalsStage, TellInv, LocalsUntold, Asking
<1>4. Says(messages', c, r, status)
  BY <1>1, <1>2, <1>3, AnswerStage
<1>5. Talk!Answer(r)
  BY <1>1, <1>2, <1>3, TalkAnswer
<1>6. Reply(t, status, c) => Talk!TellAnswer(r)
  BY <1>2, <1>3, <1>4, TalkTellAnswer
<1> QED BY <1>1, <1>5, <1>6

LEMMA LastTalks ==
    ASSUME TypeInv, AnswerInv, TellInv, NEW t \in Turns,
           Finalize(t) \/ Learn(t) \/ Disconnect(t)
    PROVE  Talk!Tell(turn[t].request) \/ UNCHANGED <<questions, answers, replies>>
<1> DEFINE r == turn[t].request
           c == turn[t].chat
<1>1. CASE Finalize(t)
  <2>1. /\ pc[t] = "finalize" /\ Reply(t, turn[t].status, c)
        /\ messages' = [messages EXCEPT ![c] = MergeDiagnostics(@, r)]
    BY <1>1, FinalizeShape
  <2>2. StoreOK /\ c \in Chats /\ r \in Requests
    BY <2>1, AtWork DEF TypeInv
  <2>3. Grows(messages, messages') /\ \A q : Spares(messages, messages', q)
    BY <2>1, <2>2, MergeGrows
  <2>4. UNCHANGED <<questions, answers>>
    BY <2>3, StillTalk
  <2>5. replies[r] = Untold
    BY <2>1 DEF TellInv, LocalsUntold
  <2>6. CASE turn[t].status = "document_unavailable" /\ OnlyAsked(messages, c, r)
    BY <2>1, <2>2, <2>4, <2>5, <2>6, TalkGivesUp, TalkTell
  <2>7. CASE Says(messages, c, r, turn[t].status)
    <3>1. Says(messages', c, r, turn[t].status)
      BY <2>2, <2>3, <2>7, SaysKept
    <3> QED BY <2>1, <2>2, <2>4, <2>5, <3>1, TalkTellAnswer, TalkTell
  <2> QED BY <2>1, <2>6, <2>7 DEF TellInv, LocalsUntold
<1>2. CASE Learn(t) /\ ~ UNCHANGED replies
  <2>1. pc[t] = "learn" /\ Reply(t, turn[t].status, c) /\ UNCHANGED messages
    BY <1>2, LearnShape
  <2>2. c \in Chats /\ r \in Requests
    BY <2>1, AtWork DEF TypeInv
  <2>3. Says(messages', c, r, turn[t].status) /\ replies[r] = Untold
    BY <2>1 DEF AnswerInv, LocalsAnswer, TellInv, LocalsUntold
  <2>4. UNCHANGED <<questions, answers>>
    BY <2>1, TalkIs
  <2> QED BY <2>1, <2>2, <2>3, <2>4, TalkTellAnswer, TalkTell
<1>3. CASE UNCHANGED <<messages, replies>>
  BY <1>3, TalkIs
<1> QED BY <1>1, <1>2, <1>3, LearnShape, DisconnectShape DEF stored

LEMMA EndpointTalks ==
    ASSUME TypeInv, Endpoint
    PROVE  UNCHANGED <<questions, answers, replies>>
<1>1. CASE UNCHANGED messages
  BY <1>1, EndpointMoves, TalkIs
<1>2. ASSUME NEW c \in Chats, ReportError(c) PROVE UNCHANGED <<questions, answers, replies>>
  <2> DEFINE message == Answer(Nobody, "error", Nobody)
  <2>1. Store(c, message) /\ StoreOK
    BY <1>2 DEF ReportError, TypeInv
  <2>2. message.role # "user" /\ message.request = Nobody
    BY DEF Answer
  <2> HIDE DEF message
  <2>3. QuestionsIn(messages') = QuestionsIn(messages) /\ AnswersIn(messages') = AnswersIn(messages)
    BY <2>1, <2>2, MoreTalk
  <2> QED BY <2>3, EndpointMoves, TalkIs
<1> QED BY <1>1, <1>2
        DEF Endpoint, CreateThread, DeleteThread, ReadScope, WriteScope, stored

LEMMA TalkInit == Init => Talk!Init
<1> SUFFICES ASSUME Init PROVE Talk!Init
  OBVIOUS
<1>1. \A c \in Chats : DOMAIN messages[c] = {}
  BY DEF Init
<1>2. \A x : x \notin QuestionsIn(messages) /\ x \notin AnswersIn(messages)
  BY <1>1, InAsked, InAnswered
<1>3. questions = {} /\ answers = {}
  BY <1>2, TalkIs
<1> QED BY <1>3 DEF Talk!Init, Init, questions, answers

LEMMA TalkNext ==
    TypeInv /\ StageInv /\ AnswerInv /\ TellInv /\ [Next]_vars
        => [Talk!Next]_<<questions, answers, replies>>
<1> SUFFICES ASSUME TypeInv, StageInv, AnswerInv, TellInv, [Next]_vars
             PROVE  Talk!Next \/ UNCHANGED <<questions, answers, replies>>
  OBVIOUS
<1>1. ASSUME NEW t \in Turns, Step(t) \/ Disconnect(t)
      PROVE  Talk!Next \/ UNCHANGED <<questions, answers, replies>>
  <2> DEFINE r == turn[t].request
  <2>1. r \in Requests
    BY <1>1, StepMoves, AtWork DEF TypeInv
  <2>2. \/ Talk!Ask(r) \/ Talk!Tell(r) \/ UNCHANGED <<questions, answers, replies>>
        \/ Talk!Answer(r) /\ (UNCHANGED replies \/ Talk!TellAnswer(r))
    BY <1>1, StepShape, AskTalks, ThinkTalks, StoreAnswerTalks, LastTalks DEF Storing
  <2> HIDE DEF r
  <2> QED BY <2>1, <2>2 DEF Talk!Next
<1>2. ASSUME NEW t \in Turns, Stream(t) \/ Send(t) PROVE UNCHANGED <<questions, answers, replies>>
  <2>1. UNCHANGED <<messages, replies>>
    BY <1>2, ArriveShape DEF Arrives, past
  <2> QED BY <2>1, TalkIs
<1>3. CASE Endpoint
  BY <1>3, EndpointTalks
<1>4. CASE Crash
  BY <1>4, CrashMoves, TalkIs DEF stored, past
<1>5. CASE UNCHANGED vars
  BY <1>5, TalkIs DEF vars
<1> QED BY <1>1, <1>2, <1>3, <1>4, <1>5 DEF Next

\* The turns implement Conversation: whatever the model, Document, the other
\* turns, the endpoints, the clients and the process do, each request is asked,
\* answered and told at most once, in one chat and in this order.
THEOREM ConversationRefinement == Spec => ImplementsConversation
<1>1. Init => TypeInv /\ FreshInv /\ StageInv /\ AnswerInv /\ TellInv
  BY TypeInit, FreshInit, StageInit, AnswerInit, TellInit
<1>2. TypeInv /\ FreshInv /\ StageInv /\ AnswerInv /\ TellInv /\ [Next]_vars
        => (TypeInv /\ FreshInv /\ StageInv /\ AnswerInv /\ TellInv)'
  BY TypeNext, FreshNext, StageNext, AnswerNext, TellNext
<1>3. TypeInv /\ StageInv /\ AnswerInv /\ TellInv /\ [Next]_vars
        => [Talk!Next]_<<questions, answers, replies>>
  BY TalkNext
<1> QED BY <1>1, <1>2, <1>3, TalkInit, PTL
        DEF Spec, ImplementsConversation, Talk!Spec, questions, answers

-----------------------------------------------------------------------------
(* The chat that the start event of a stream named. *)

\* Chats are created and deleted, and never come back.
Ages(th, new) ==
    \A c \in Chats :
        /\ th[c] = "deleted" => new[c] = "deleted"
        /\ th[c] = "live" => new[c] \in {"live", "deleted"}

LEMMA SameAges ==
    ASSUME UNCHANGED threads
    PROVE  Ages(threads, threads')
BY DEF Ages

LEMMA EnsureAges ==
    ASSUME StoreOK, NEW asked, NEW c \in Chats, Ensure(asked, c)
    PROVE  /\ Ages(threads, threads') /\ threads'[c] = "live"
           /\ asked # NoChat /\ threads[asked] = "live" => c = asked
BY DEF StoreOK, Ensure, Ages

LEMMA OthersStarted ==
    ASSUME StartedInv, NEW t \in Turns, OthersStay(t), Ages(threads, threads'),
           LocalsStarted(threads', pc'[t], turn'[t])
    PROVE  StartedInv'
<1>1. ASSUME NEW u \in Turns \ {t} PROVE LocalsStarted(threads', pc'[u], turn'[u])
  <2>1. pc'[u] = pc[u] /\ turn'[u] = turn[u] /\ LocalsStarted(threads, pc[u], turn[u])
    BY DEF OthersStay, StartedInv
  <2> QED BY <2>1 DEF LocalsStarted, Ages
<1> QED BY <1>1 DEF StartedInv

LEMMA AskStarted ==
    ASSUME TypeInv, StartedInv, NEW t \in Turns,
           Started(t) \/ StreamUndecided(t) \/ StreamDecided(t) \/ Open(t)
    PROVE  StartedInv'
<1>1. pc[t] \in Before /\ OthersStay(t) /\ pc[t] # "idle" /\ turn[t] \in Turn
      /\ LocalsStarted(threads, pc[t], turn[t]) /\ StoreOK
  BY AskShape, AtWork DEF Before, StartedInv, TypeInv
<1>2. CASE /\ pc[t] # "open" /\ UNCHANGED threads
           /\ Continues(t, {"open", "sdecide", "tokens", "say"})
  <2>1. turn[t].streamed
    BY <1>1, <1>2 DEF LocalsStarted, Before
  <2>2. LocalsStarted(threads', pc'[t], turn'[t])
    BY <1>1, <1>2, <2>1 DEF LocalsStarted, Continues
  <2> QED BY <1>1, <1>2, <2>2, SameAges, OthersStarted
<1>3. CASE /\ pc'[t] = "read"
           /\ \E c \in Chats :
                 Ensure(turn[t].chat, c) /\ turn'[t] = [turn[t] EXCEPT !.chat = c]
  <2>1. PICK c \in Chats :
           Ensure(turn[t].chat, c) /\ turn'[t] = [turn[t] EXCEPT !.chat = c]
    BY <1>3
  <2>2. turn'[t].chat = c /\ turn'[t].streamed = turn[t].streamed
        /\ turn'[t].started = turn[t].started /\ turn'[t].direct = turn[t].direct
    BY <1>1, <2>1 DEF Turn
  <2>3. Ages(threads, threads') /\ threads'[c] = "live"
        /\ (turn[t].chat # NoChat /\ threads[turn[t].chat] = "live" => c = turn[t].chat)
    BY <1>1, <2>1, EnsureAges
  <2>4. LocalsStarted(threads', pc'[t], turn'[t])
    BY <1>1, <1>3, <2>2, <2>3, NobodyAssumption DEF LocalsStarted, Ages
  <2> QED BY <1>1, <2>3, <2>4, OthersStarted
<1> QED BY <1>2, <1>3, AskShape DEF Continues

LEMMA OtherStarted ==
    ASSUME TypeInv, StartedInv, NEW t \in Turns,
           Thinks(t) \/ StoreAnswer(t) \/ Finalize(t) \/ Learn(t) \/ Disconnect(t)
    PROVE  StartedInv'
<1>1. LocalsStarted(threads, pc[t], turn[t]) /\ pc[t] # "idle"
  BY StepMoves, FinalizeShape, StoreAnswerShape, LearnShape, DisconnectShape
  DEF StartedInv, Thinks, Asking
<1>2. OthersStay(t) /\ UNCHANGED threads
  BY FinalizeShape, StoreAnswerShape, LearnShape, DisconnectShape DEF Thinks, stored
<1>3. CASE Ends(t)
  <2>1. LocalsStarted(threads', pc'[t], turn'[t])
    BY <1>3 DEF LocalsStarted, Ends, Idle
  <2> QED BY <1>2, <2>1, SameAges, OthersStarted
<1>4. CASE ~ Ends(t)
  <2>1. /\ turn'[t].streamed = turn[t].streamed /\ turn'[t].started = turn[t].started
        /\ turn'[t].chat = turn[t].chat /\ turn'[t].direct = turn[t].direct
        /\ \/ turn[t].streamed
           \/ pc'[t] \notin {"start", "sdecide", "tokens", "finalize", "background"}
    <3>1. CASE Thinks(t)
      BY <1>4, <3>1 DEF Thinks, Continues, Asking
    <3>2. CASE StoreAnswer(t)
      BY <1>1, <1>4, <3>2, StoreAnswerShape DEF LocalsStarted
    <3>3. CASE Finalize(t)
      BY <1>1, <1>4, <3>3, FinalizeShape DEF LocalsStarted
    <3>4. CASE Learn(t)
      BY <1>1, <1>4, <3>4, LearnShape DEF LocalsStarted
    <3>5. CASE Disconnect(t)
      BY <1>4, <3>5, DisconnectShape
    <3> QED BY <3>1, <3>2, <3>3, <3>4, <3>5
  <2>2. LocalsStarted(threads', pc'[t], turn'[t])
    BY <1>1, <1>2, <2>1 DEF LocalsStarted
  <2> QED BY <1>2, <2>2, SameAges, OthersStarted
<1> QED BY <1>3, <1>4

LEMMA ArriveStarted ==
    ASSUME TypeInv, StartedInv, NEW t \in Turns, Stream(t) \/ Send(t)
    PROVE  StartedInv'
<1>1. Arrives(t) /\ StoreOK
  BY ArriveShape DEF TypeInv
<1>2. CASE pc'[t] = "open" /\ ~ turn'[t].streamed /\ UNCHANGED threads
  <2>1. LocalsStarted(threads', pc'[t], turn'[t])
    BY <1>1, <1>2 DEF LocalsStarted, Arrives
  <2> QED BY <1>1, <1>2, <2>1, SameAges, OthersStarted DEF Arrives
<1>3. CASE /\ turn'[t].streamed /\ turn'[t].chat \in Chats
           /\ turn'[t].started = turn'[t].chat
           /\ \E asked : Ensure(asked, turn'[t].chat)
  <2>1. Ages(threads, threads') /\ threads'[turn'[t].chat] = "live"
    BY <1>1, <1>3, EnsureAges
  <2>2. LocalsStarted(threads', pc'[t], turn'[t])
    BY <1>3, <2>1 DEF LocalsStarted
  <2> QED BY <1>1, <2>1, <2>2, OthersStarted DEF Arrives
<1> QED BY <1>1, <1>2, <1>3 DEF Arrives

LEMMA StartedInit == Init => StartedInv
BY DEF Init, StartedInv, LocalsStarted, Idle

LEMMA StartedNext == TypeInv /\ StartedInv /\ [Next]_vars => StartedInv'
<1> SUFFICES ASSUME TypeInv, StartedInv, [Next]_vars PROVE StartedInv'
  OBVIOUS
<1>1. ASSUME NEW t \in Turns, Step(t) \/ Disconnect(t) PROVE StartedInv'
  BY <1>1, StepShape, AskStarted, OtherStarted DEF Storing
<1>2. ASSUME NEW t \in Turns, Stream(t) \/ Send(t) PROVE StartedInv'
  BY <1>2, ArriveStarted
<1>3. CASE Endpoint
  <2>1. UNCHANGED <<pc, turn>>
    BY <1>3, EndpointMoves
  <2>2. Ages(threads, threads')
    BY <1>3 DEF Endpoint, CreateThread, DeleteThread, ReportError, ReadScope, WriteScope,
       stored, Ages, TypeInv, StoreOK
  <2> QED BY <2>1, <2>2 DEF StartedInv, LocalsStarted, Ages
<1>4. CASE Crash
  BY <1>4, CrashMoves DEF StartedInv, LocalsStarted, Ends, Idle
<1>5. CASE UNCHANGED vars
  BY <1>5 DEF vars, StartedInv
<1> QED BY <1>1, <1>2, <1>3, <1>4, <1>5 DEF Next

LEMMA LearnsImplies == AnswerInv /\ StartedInv => LearnsFromAnswers
<1> SUFFICES ASSUME AnswerInv, StartedInv, NEW t \in Turns, pc[t] \in {"learn", "background"},
                    threads[LearnedChat(t)] = "live"
             PROVE  \E i \in Answers(LearnedChat(t), turn[t].request) :
                       messages[LearnedChat(t)][i].status \in Learnable
  BY DEF LearnsFromAnswers
<1>1. turn[t].status \in Learnable
      /\ Says(messages, turn[t].chat, turn[t].request, turn[t].status)
  BY DEF AnswerInv, LocalsAnswer
<1>2. LearnedChat(t) = turn[t].chat
  <2>1. CASE pc[t] = "learn"
    BY <2>1 DEF LearnedChat
  <2>2. CASE pc[t] = "background"
    BY <2>2 DEF LearnedChat, StartedInv, LocalsStarted
  <2> QED BY <2>1, <2>2
<1> QED BY <1>1, <1>2 DEF Says, Answers

\* A turn is learned from when its own answer, one worth learning from, is in
\* the chat whose history is read for it, unless that chat was deleted under
\* the turn: also when _chat had to open another chat than the stream began in.
THEOREM LearnsFromAnswersAlways == Spec => []LearnsFromAnswers
<1>1. Init => TypeInv /\ FreshInv /\ StageInv /\ AnswerInv /\ StartedInv
  BY TypeInit, FreshInit, StageInit, AnswerInit, StartedInit
<1>2. TypeInv /\ FreshInv /\ StageInv /\ AnswerInv /\ StartedInv /\ [Next]_vars
        => (TypeInv /\ FreshInv /\ StageInv /\ AnswerInv /\ StartedInv)'
  BY TypeNext, FreshNext, StageNext, AnswerNext, StartedNext
<1> QED BY <1>1, <1>2, LearnsImplies, PTL DEF Spec

-----------------------------------------------------------------------------
(* One turn at a time in a chat: the diagnostics of an answer. *)

\* From the storing of its question to its reply.
Answering == Asking \cup {"learn", "finalize"}

\* No message is handled in a chat while another one is.
Apart ==
    \A t, u \in Turns :
        pc[t] \in Answering /\ pc[u] \in Answering /\ turn[t].chat = turn[u].chat => t = u

OwnDiagnostics(m) ==
    \A c \in Chats : \A i \in DOMAIN m[c] : m[c][i].diagnostics \in {Nobody, m[c][i].request}

LEMMA StoreDiagnostics ==
    ASSUME StoreOK, OwnDiagnostics(messages), NEW c \in Chats, NEW message,
           Store(c, message), message.diagnostics \in {Nobody, message.request}
    PROVE  /\ OwnDiagnostics(messages')
           /\ messages'[c] # <<>> /\ messages'[c][Len(messages'[c])] = message
<1> DEFINE k == Len(messages[c])
<1>1. /\ \A d \in Chats \ {c} : messages'[d] = messages[d]
      /\ k \in Nat /\ DOMAIN messages[c] = 1 .. k
      /\ DOMAIN messages'[c] = 1 .. k + 1 /\ Len(messages'[c]) = k + 1
      /\ \A i \in 1 .. k : messages'[c][i] = messages[c][i]
      /\ messages'[c][k + 1] = message
  BY StoreEffect
<1> HIDE DEF k
<1>2. messages'[c] # <<>>
  BY <1>1
<1>3. ASSUME NEW d \in Chats, NEW i \in DOMAIN messages'[d]
      PROVE  messages'[d][i].diagnostics \in {Nobody, messages'[d][i].request}
  <2>1. \/ i \in DOMAIN messages[d] /\ messages'[d][i] = messages[d][i]
        \/ messages'[d][i] = message
    BY <1>1
  <2>2. i \in DOMAIN messages[d] =>
           messages[d][i].diagnostics \in {Nobody, messages[d][i].request}
    BY DEF OwnDiagnostics
  <2> QED BY <2>1, <2>2
<1> QED BY <1>1, <1>2, <1>3 DEF OwnDiagnostics

\* The last message of a chat is of the same request as before.
SameLast(c) ==
    messages[c] # <<>> =>
        /\ messages'[c] # <<>>
        /\ messages'[c][Len(messages'[c])].request = messages[c][Len(messages[c])].request

\* Only a chat that the turn is at work on gets a new last message.
Touches(t) ==
    \A c \in Chats : \/ SameLast(c)
                     \/ pc[t] \in Answering /\ c = turn[t].chat
                     \/ pc'[t] \in Answering /\ c = turn'[t].chat

LEMMA TouchesNone ==
    ASSUME NEW t \in Turns, UNCHANGED messages
    PROVE  Touches(t)
<1>1. \A c \in Chats : SameLast(c)
  BY DEF SameLast
<1> QED BY <1>1 DEF Touches

LEMMA TouchesOne ==
    ASSUME StoreOK, NEW t \in Turns, NEW c \in Chats, NEW message, Store(c, message),
           \/ pc[t] \in Answering /\ c = turn[t].chat
           \/ pc'[t] \in Answering /\ c = turn'[t].chat
    PROVE  Touches(t)
<1>1. ASSUME NEW d \in Chats \ {c} PROVE SameLast(d)
  <2>1. messages'[d] = messages[d]
    BY StoreEffect
  <2> QED BY <2>1 DEF SameLast
<1> QED BY <1>1 DEF Touches

\* What a turn does is all that happens to the histories of the chat it is at work on.
LEMMA OneDiagnostics ==
    ASSUME TypeInv, DiagnosticsInv, NEW t \in Turns, OthersStay(t), reported' = reported,
           Apart, Apart',
           Touches(t),
           reported' = 0 => /\ OwnDiagnostics(messages')
                            /\ LastIsOwn(messages', pc'[t], turn'[t])
    PROVE  DiagnosticsInv'
<1> SUFFICES ASSUME reported = 0, reported' = 0,
                    NEW u \in Turns \ {t}, pc[u] \in Answering
             PROVE  LastIsOwn(messages', pc[u], turn[u])
  BY DEF DiagnosticsInv, OwnDiagnostics, DiagnosticsBelongToTheirTurn, OthersStay, LastIsOwn,
         Answering
<1> DEFINE c == turn[u].chat
<1>1. c \in Chats
  BY AtWork DEF TypeInv, Answering, Asking
<1>2. messages[c] # <<>> /\ messages[c][Len(messages[c])].request = turn[u].request
  BY DEF DiagnosticsInv, LastIsOwn, Answering
<1>3. ~ (pc[t] \in Answering /\ c = turn[t].chat)
  BY DEF Apart
<1>4. ~ (pc'[t] \in Answering /\ c = turn'[t].chat)
  BY DEF Apart, OthersStay
<1>5. SameLast(c)
  BY <1>1, <1>3, <1>4 DEF Touches
<1> QED BY <1>2, <1>5 DEF SameLast, LastIsOwn

LEMMA AskDiagnostics ==
    ASSUME TypeInv, Apart, Apart', DiagnosticsInv, NEW t \in Turns,
           Started(t) \/ StreamUndecided(t) \/ StreamDecided(t) \/ Open(t)
    PROVE  DiagnosticsInv'
<1> DEFINE r == turn[t].request
<1> SUFFICES /\ Touches(t)
             /\ reported' = 0 =>
                   OwnDiagnostics(messages') /\ LastIsOwn(messages', pc'[t], turn'[t])
  BY AskShape, OneDiagnostics
<1>1. reported' = 0 => OwnDiagnostics(messages)
  BY AskShape DEF DiagnosticsInv, DiagnosticsBelongToTheirTurn, OwnDiagnostics
<1>2. StoreOK /\ turn[t] \in Turn /\ pc[t] \in Before
  BY AskShape, AtWork DEF TypeInv, Before
<1>3. CASE Continues(t, {"open", "sdecide"}) /\ UNCHANGED messages
  BY <1>1, <1>3, TouchesNone DEF Continues, LastIsOwn, OwnDiagnostics, Asking
<1>4. ASSUME NEW c \in Chats, Store(c, UserMessage(r)), pc'[t] \in Asking,
             turn'[t].request = r, turn'[t].chat = c
      PROVE  /\ Touches(t)
             /\ reported' = 0 =>
                   OwnDiagnostics(messages') /\ LastIsOwn(messages', pc'[t], turn'[t])
  <2>1. UserMessage(r).diagnostics = Nobody /\ UserMessage(r).request = r
    BY DEF UserMessage
  <2>2. Touches(t)
    BY <1>2, <1>4, TouchesOne DEF Answering
  <2> QED BY <1>1, <1>2, <1>4, <2>1, <2>2, StoreDiagnostics DEF LastIsOwn
<1>5. CASE /\ pc[t] = "sdecide" /\ Continues(t, {"tokens", "say"})
           /\ Store(turn[t].chat, UserMessage(r))
  <2>1. turn[t].chat \in Chats
    BY <1>5, AtWork DEF TypeInv
  <2> QED BY <1>4, <1>5, <2>1 DEF Continues, Asking
<1>6. CASE /\ pc'[t] = "read"
           /\ \E c \in Chats :
                 Store(c, UserMessage(r)) /\ turn'[t] = [turn[t] EXCEPT !.chat = c]
  <2>1. PICK c \in Chats : Store(c, UserMessage(r)) /\ turn'[t] = [turn[t] EXCEPT !.chat = c]
    BY <1>6
  <2>2. turn'[t].request = r /\ turn'[t].chat = c
    BY <1>2, <2>1 DEF Turn
  <2> QED BY <1>4, <1>6, <2>1, <2>2 DEF Asking
<1> QED BY <1>3, <1>5, <1>6, AskShape

LEMMA QuietDiagnostics ==
    ASSUME TypeInv, Apart, Apart', DiagnosticsInv, NEW t \in Turns,
           Thinks(t) \/ Learn(t) \/ Disconnect(t)
    PROVE  DiagnosticsInv'
<1>1. UNCHANGED <<messages, reported>> /\ OthersStay(t)
  BY LearnShape, DisconnectShape DEF Thinks, stored
<1>2. \/ pc'[t] \notin Asking \cup {"learn", "finalize"}
      \/ /\ pc[t] \in Asking \cup {"learn", "finalize"}
         /\ turn'[t].chat = turn[t].chat /\ turn'[t].request = turn[t].request
  <2>1. CASE Thinks(t)
    BY <2>1 DEF Thinks, Continues, Ends, Asking
  <2>2. CASE Learn(t)
    BY <2>2, LearnShape DEF Ends, Asking
  <2>3. CASE Disconnect(t)
    BY <2>3, DisconnectShape DEF Ends, Asking
  <2> QED BY <2>1, <2>2, <2>3
<1>3. reported' = 0 => /\ OwnDiagnostics(messages')
                       /\ LastIsOwn(messages', pc'[t], turn'[t])
  BY <1>1, <1>2
  DEF DiagnosticsInv, DiagnosticsBelongToTheirTurn, OwnDiagnostics, LastIsOwn
<1> QED BY <1>1, <1>3, TouchesNone, OneDiagnostics

LEMMA StoreAnswerDiagnostics ==
    ASSUME TypeInv, Apart, Apart', DiagnosticsInv, NEW t \in Turns, StoreAnswer(t)
    PROVE  DiagnosticsInv'
<1> DEFINE r == turn[t].request
           message == Answer(r, turn[t].status, IF turn[t].direct THEN r ELSE Nobody)
<1>1. /\ pc[t] = "say" /\ reported' = reported /\ OthersStay(t)
      /\ Store(turn[t].chat, message)
      /\ Ends(t) \/ turn'[t] = turn[t]
  BY StoreAnswerShape
<1>2. StoreOK /\ turn[t].chat \in Chats
  BY <1>1, AtWork DEF TypeInv
<1>3. message.diagnostics \in {Nobody, message.request} /\ message.request = r
  BY DEF Answer
<1>4. reported' = 0 => OwnDiagnostics(messages)
  BY <1>1 DEF DiagnosticsInv, DiagnosticsBelongToTheirTurn, OwnDiagnostics
<1>5. reported' = 0 => /\ OwnDiagnostics(messages')
                       /\ LastIsOwn(messages', pc'[t], turn'[t])
  BY <1>1, <1>2, <1>3, <1>4, StoreDiagnostics DEF LastIsOwn, Ends, Asking
<1>6. Touches(t)
  BY <1>1, <1>2, TouchesOne DEF Answering, Asking
<1> QED BY <1>1, <1>5, <1>6, OneDiagnostics

\* The last message is of the request that is finalized.
LEMMA FinalizeDiagnostics ==
    ASSUME TypeInv, Apart, Apart', DiagnosticsInv, NEW t \in Turns, Finalize(t)
    PROVE  DiagnosticsInv'
<1> DEFINE r == turn[t].request
           c == turn[t].chat
           h == messages[c]
<1>1. /\ pc[t] = "finalize" /\ reported' = reported /\ OthersStay(t)
      /\ messages' = [messages EXCEPT ![c] = MergeDiagnostics(@, r)]
      /\ pc'[t] \in {"background", "idle"}
  BY FinalizeShape DEF Ends
<1>2. c \in Chats /\ r \in Requests /\ h \in Seq(Message) /\ StoreOK
  BY <1>1, AtWork DEF TypeInv, StoreOK
<1>3. messages'[c] = MergeDiagnostics(h, r) /\ \A d \in Chats \ {c} : messages'[d] = messages[d]
  BY <1>1, <1>2 DEF StoreOK
<1>0. Touches(t)
  <2>1. \A d \in Chats \ {c} : SameLast(d)
    BY <1>3 DEF SameLast
  <2>2. pc[t] \in Answering
    BY <1>1 DEF Answering
  <2> QED BY <2>1, <2>2 DEF Touches
<1> SUFFICES ASSUME reported' = 0 PROVE OwnDiagnostics(messages')
  BY <1>0, <1>1, OneDiagnostics DEF LastIsOwn, Asking
<1>4. OwnDiagnostics(messages) /\ h # <<>> /\ h[Len(h)].request = r
  BY <1>1 DEF DiagnosticsInv, DiagnosticsBelongToTheirTurn, OwnDiagnostics, LastIsOwn
<1>5. ASSUME NEW i \in DOMAIN messages'[c]
      PROVE  messages'[c][i].diagnostics \in {Nobody, messages'[c][i].request}
  <2> DEFINE n == MergeDiagnostics(h, r)
  <2>1. /\ i \in DOMAIN h /\ n[i].request = h[i].request
        /\ \/ n[i].diagnostics = h[i].diagnostics
           \/ i = Len(h) /\ n[i].diagnostics = r
    BY <1>2, <1>3, MergeEffect
  <2>2. h[i].diagnostics \in {Nobody, h[i].request}
    BY <1>2, <1>4, <2>1 DEF OwnDiagnostics
  <2> QED BY <1>3, <1>4, <2>1, <2>2
<1> QED BY <1>3, <1>4, <1>5 DEF OwnDiagnostics

LEMMA DiagnosticsInit == Init => DiagnosticsInv
BY DEF Init, DiagnosticsInv, DiagnosticsBelongToTheirTurn, LastIsOwn, Asking

LEMMA DiagnosticsNext ==
    TypeInv /\ Apart /\ Apart' /\ DiagnosticsInv /\ [Next]_vars => DiagnosticsInv'
<1> SUFFICES ASSUME TypeInv, Apart, Apart', DiagnosticsInv, [Next]_vars PROVE DiagnosticsInv'
  OBVIOUS
<1>1. ASSUME NEW t \in Turns, Step(t) \/ Disconnect(t) PROVE DiagnosticsInv'
  BY <1>1, StepShape, AskDiagnostics, QuietDiagnostics, StoreAnswerDiagnostics,
     FinalizeDiagnostics DEF Storing
<1>2. ASSUME NEW t \in Turns, Stream(t) \/ Send(t) PROVE DiagnosticsInv'
  <2>1. Arrives(t)
    BY <1>2, ArriveShape
  <2>2. reported' = 0 => OwnDiagnostics(messages') /\ LastIsOwn(messages', pc'[t], turn'[t])
    BY <2>1 DEF Arrives, LastIsOwn, Asking, DiagnosticsInv, DiagnosticsBelongToTheirTurn,
       OwnDiagnostics
  <2>3. OthersStay(t) /\ UNCHANGED <<messages, reported>>
    BY <2>1 DEF Arrives
  <2> QED BY <2>2, <2>3, TouchesNone, OneDiagnostics
<1>3. CASE Endpoint
  <2>1. CASE UNCHANGED <<messages, reported>>
    BY <1>3, <2>1, EndpointMoves DEF DiagnosticsInv, DiagnosticsBelongToTheirTurn, LastIsOwn
  <2>2. CASE \E c \in Chats : ReportError(c)
    <3>1. reported' # 0
      BY <2>2 DEF ReportError, TypeInv, CountsOK
    <3> QED BY <3>1 DEF DiagnosticsInv
  <2> QED BY <1>3, <2>1, <2>2
          DEF Endpoint, CreateThread, DeleteThread, ReadScope, WriteScope, stored
<1>4. CASE Crash
  <2>1. \A u \in Turns : LastIsOwn(messages', pc'[u], turn'[u])
    BY <1>4, CrashMoves DEF Ends, LastIsOwn, Asking
  <2> QED BY <1>4, <2>1, CrashMoves DEF DiagnosticsInv, DiagnosticsBelongToTheirTurn, stored
<1>5. CASE UNCHANGED vars
  BY <1>5 DEF vars, DiagnosticsInv, DiagnosticsBelongToTheirTurn, LastIsOwn
<1> QED BY <1>1, <1>2, <1>3, <1>4, <1>5 DEF Next

\* When no message is handled in a chat while another one is, the diagnostics merged into
\* an answer are those of its own turn, however many chats are at work, whatever happens to
\* the threads beside them and however the turns before it ended, as long as no error is
\* reported.
THEOREM DiagnosticsOfTurnsApart == Spec /\ []Apart => []DiagnosticsBelongToTheirTurn
<1>1. Init => TypeInv /\ DiagnosticsInv
  BY TypeInit, DiagnosticsInit
<1>2. TypeInv /\ Apart /\ Apart' /\ DiagnosticsInv /\ [Next]_vars => (TypeInv /\ DiagnosticsInv)'
  BY TypeNext, DiagnosticsNext
<1>3. DiagnosticsInv => DiagnosticsBelongToTheirTurn
  BY DEF DiagnosticsInv, DiagnosticsBelongToTheirTurn
<1> QED BY <1>1, <1>2, <1>3, PTL DEF Spec
=============================================================================
