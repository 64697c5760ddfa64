-------------------------- MODULE MemoryStore_proofs --------------------------
(***************************************************************************)
(* Theorems about memories, for all turns, chats, scopes, topics, limits    *)
(* and bounds.  The invariant follows a topic on its way: from a message to *)
(* the transcript a model reads, its candidates, a memory, and a turn that  *)
(* is shown it; what is shown is under a scope at least as special as that  *)
(* of every place it came from.                                             *)
(***************************************************************************)
EXTENDS MemoryStore, SequenceTheorems, TLAPS

\* A candidate about something in the transcript.
From(transcript) == [kind : Kinds, topic : transcript, confidence : Confidences]

\* A proposal is a sequence of candidates from the transcript.
LEMMA ProposalsType ==
    ASSUME NEW transcript, NEW p \in Proposals(transcript)
    PROVE  p \in Seq(From(transcript))
<1>1. ASSUME NEW kind \in Kinds, NEW n \in Nat,
             NEW f \in [1..n -> [kind : {kind}, topic : transcript, confidence : Confidences]]
      PROVE  f \in Seq(From(transcript))
  <2>1. f \in [1..n -> From(transcript)]
    BY DEF From
  <2> QED BY <2>1, SeqDef
<1>2. ASSUME NEW kind \in Kinds, NEW max \in Nat, NEW f \in Candidates(kind, transcript, max)
      PROVE  f \in Seq(From(transcript))
  <2>1. PICK n \in 0..max :
            f \in [1..n -> [kind : {kind}, topic : transcript, confidence : Confidences]]
    BY DEF Candidates
  <2> QED BY <1>1, <2>1
<1>3. PICK facts \in Candidates("fact", transcript, MaxFacts),
           skills \in Candidates("skill", transcript, MaxSkills) :
          p = facts \o skills
  BY DEF Proposals
<1>4. "fact" \in Kinds /\ "skill" \in Kinds /\ MaxFacts \in Nat /\ MaxSkills \in Nat
  BY NumbersAssumption DEF Kinds
<1>5. facts \in Seq(From(transcript)) /\ skills \in Seq(From(transcript))
  BY <1>2, <1>3, <1>4
<1> QED BY <1>3, <1>5, ConcatProperties

\* Candidates are about the transcript of their turn, and are there only while
\* they are saved.
CandidatesFromTranscript ==
    \A t \in Turns :
        /\ turn[t].candidates \in Seq(From(turn[t].transcript))
        /\ pc[t] # "saving" => turn[t].candidates = <<>>

TypeInv == TypeOK /\ CandidatesFromTranscript

LEMMA IdleType ==
    /\ Idle \in Turn
    /\ Idle.candidates \in Seq(From(Idle.transcript)) /\ Idle.candidates = <<>>
BY EmptySeq DEF Idle, Turn, Maybe

\* A candidate from a transcript of topics is a candidate.
LEMMA FromType ==
    ASSUME NEW transcript \in SUBSET Topics
    PROVE  Seq(From(transcript)) \subseteq Seq(Candidate)
<1>1. From(transcript) \subseteq Candidate
  BY DEF From, Candidate
<1> QED BY <1>1, SeqMonotonic

LEMMA RetrievalsType ==
    ASSUME NEW kind, NEW scope, NEW limit, NEW found \in Retrievals(kind, scope, limit)
    PROVE  found \subseteq Eligible(kind, scope) /\ found \subseteq DOMAIN memories
BY DEF Retrievals, Eligible

\* The type invariant holds in the initial states.
LEMMA TypeInit == Init => TypeInv
<1> SUFFICES ASSUME Init PROVE TypeInv
  OBVIOUS
<1>1. messages \in [Chats -> Seq(Message)]
  BY EmptySeq DEF Init
<1>2. /\ memories \in Seq(Memory) /\ events \in Seq(Event) /\ Len(events) = Len(memories)
      /\ seen \subseteq DOMAIN memories
  BY EmptySeq DEF Init
<1>3. /\ pc \in [Turns -> Places] /\ turn \in [Turns -> Turn]
      /\ \A t \in Turns : turn[t] = Idle /\ pc[t] = "idle"
  BY IdleType DEF Init, Places
<1>4. requests \in 0..MaxRequests /\ patches \in 0..MaxPatches
  BY NumbersAssumption DEF Init
<1>5. CandidatesFromTranscript
  BY <1>3, IdleType DEF CandidatesFromTranscript
<1>6. Idle.shown = {}
  BY DEF Idle
<1> QED BY <1>1, <1>2, <1>3, <1>4, <1>5, <1>6 DEF TypeInv, TypeOK

\* Ending a turn keeps its type.
LEMMA TypeDone ==
    ASSUME TypeInv, NEW t \in Turns, Done(t),
           UNCHANGED <<messages, memories, events, seen, requests, patches>>
    PROVE  TypeInv'
BY IdleType DEF TypeInv, TypeOK, CandidatesFromTranscript, Done, Goto, Idle, Places

\* A new message keeps the messages typed.
LEMMA MessageType ==
    ASSUME messages \in [Chats -> Seq(Message)], NEW c \in Chats, NEW m \in Message
    PROVE  [messages EXCEPT ![c] = Append(@, m)] \in [Chats -> Seq(Message)]
BY AppendProperties

LEMMA TypeAsk ==
    ASSUME TypeInv, NEW t \in Turns, Ask(t)
    PROVE  TypeInv'
<1>1. PICK c \in Chats : \E s \in ScopesOf[c], topic \in Maybe(Topics) :
          /\ messages' = [messages EXCEPT ![c] =
                Append(@, [role |-> "user", scope |-> s, topic |-> topic])]
          /\ turn' = [turn EXCEPT ![t] = [Idle EXCEPT !.chat = c, !.scope = s]]
  BY DEF Ask
<1>2. PICK s \in ScopesOf[c], topic \in Maybe(Topics) :
          /\ messages' = [messages EXCEPT ![c] =
                Append(@, [role |-> "user", scope |-> s, topic |-> topic])]
          /\ turn' = [turn EXCEPT ![t] = [Idle EXCEPT !.chat = c, !.scope = s]]
  BY <1>1
<1> DEFINE asked == [Idle EXCEPT !.chat = c, !.scope = s]
<1>3. s \in Scope /\ s # None /\ c # None
  BY ScopesAssumption, NoneAssumption
<1>4. messages' \in [Chats -> Seq(Message)]
  BY <1>2, <1>3, MessageType DEF TypeInv, TypeOK, Message
<1>5. /\ asked \in Turn /\ asked.candidates \in Seq(From(asked.transcript))
      /\ asked.candidates = <<>>
      /\ asked.chat # None /\ asked.scope # None /\ asked.shown = {}
  BY <1>3, EmptySeq DEF Idle, Turn, Maybe
<1>6. requests' \in 0..MaxRequests
  BY NumbersAssumption DEF Ask, TypeInv, TypeOK
<1>7. turn' \in [Turns -> Turn] /\ turn'[t] = asked /\ \A u \in Turns \ {t} : turn'[u] = turn[u]
  BY <1>2, <1>5 DEF TypeInv, TypeOK
<1>8. pc' = [pc EXCEPT ![t] = "fact"] /\ UNCHANGED <<memories, events, seen, patches>>
  BY DEF Ask, Goto
<1> QED BY <1>4, <1>5, <1>6, <1>7, <1>8
        DEF TypeInv, TypeOK, CandidatesFromTranscript, Places

LEMMA TypeList ==
    ASSUME TypeInv, NEW t \in Turns, NEW kind \in Kinds,
           NEW next \in {"skill", "answering"}, List(t, kind, next)
    PROVE  TypeInv'
<1>1. PICK found \in Retrievals(kind, turn[t].scope, Limits[kind]) :
          turn' = [turn EXCEPT ![t].shown = @ \cup found]
  BY DEF List
<1>2. found \subseteq DOMAIN memories
  BY RetrievalsType
<1>3. DOMAIN memories \subseteq Nat
  BY LenProperties DEF TypeInv, TypeOK
<1>4. turn' \in [Turns -> Turn]
  BY <1>1, <1>2, <1>3 DEF TypeInv, TypeOK, Turn
<1>5. \A u \in Turns :
        /\ turn'[u].shown \subseteq DOMAIN memories
        /\ turn'[u].chat = turn[u].chat /\ turn'[u].scope = turn[u].scope
        /\ turn'[u].transcript = turn[u].transcript
        /\ turn'[u].candidates = turn[u].candidates
  BY <1>1, <1>2 DEF TypeInv, TypeOK, Turn
<1>6. /\ pc' = [pc EXCEPT ![t] = next] /\ pc[t] = kind
      /\ UNCHANGED <<messages, memories, events, seen, requests, patches>>
  BY DEF List, Goto
<1> QED BY <1>4, <1>5, <1>6
        DEF TypeInv, TypeOK, CandidatesFromTranscript, Places, Kinds

\* An answer repeats something of its chat or of its memories, if anything.
LEMMA AnswerStep ==
    ASSUME TypeInv, NEW t \in Turns, Answer(t)
    PROVE  \E m \in Message :
              /\ m.scope = turn[t].scope
              /\ messages' = [messages EXCEPT ![turn[t].chat] = Append(@, m)]
              /\ m.topic # None =>
                    \/ \E j \in DOMAIN messages[turn[t].chat] :
                          messages[turn[t].chat][j].topic = m.topic
                    \/ \E j \in turn[t].shown : memories[j].topic = m.topic
<1> DEFINE c == turn[t].chat
           known == {messages[c][i].topic : i \in DOMAIN messages[c]}
                       \cup {memories[i].topic : i \in turn[t].shown}
<1>1. c \in Chats /\ turn[t].scope \in Scope
  BY DEF Answer, TypeInv, TypeOK, Turn, Maybe
<1>2. known \subseteq Maybe(Topics)
  <2>1. \A i \in DOMAIN messages[c] : messages[c][i] \in Message
    BY <1>1, ElementOfSeq, LenProperties DEF TypeInv, TypeOK
  <2>2. \A i \in turn[t].shown : memories[i] \in Memory
    BY ElementOfSeq, LenProperties DEF TypeInv, TypeOK
  <2> QED BY <2>1, <2>2 DEF Message, Memory, Maybe
<1>3. PICK topic \in Maybe(known) :
          messages' = [messages EXCEPT ![c] =
              Append(@, [role |-> "assistant", scope |-> turn[t].scope, topic |-> topic])]
  BY DEF Answer
<1>4. topic \in Maybe(Topics)
  BY <1>2 DEF Maybe
<1>5. [role |-> "assistant", scope |-> turn[t].scope, topic |-> topic] \in Message
  BY <1>1, <1>4 DEF Message
<1> QED BY <1>3, <1>4, <1>5 DEF Maybe

LEMMA TypeAnswer ==
    ASSUME TypeInv, NEW t \in Turns, Answer(t)
    PROVE  TypeInv'
<1>1. turn[t].chat \in Chats
  BY DEF Answer, TypeInv, TypeOK, Turn, Maybe
<1>2. PICK m \in Message : messages' = [messages EXCEPT ![turn[t].chat] = Append(@, m)]
  BY AnswerStep
<1>3. messages' \in [Chats -> Seq(Message)]
  BY <1>1, <1>2, MessageType DEF TypeInv, TypeOK
<1>4. /\ pc' = [pc EXCEPT ![t] = "answered"] /\ pc[t] = "answering"
      /\ UNCHANGED <<memories, events, turn, seen, requests, patches>>
  BY DEF Answer, Goto
<1> QED BY <1>3, <1>4 DEF TypeInv, TypeOK, CandidatesFromTranscript, Places

\* A transcript has topics of its chat.
LEMMA TranscriptsType ==
    ASSUME TypeInv, NEW chat \in Chats, NEW transcript \in Transcripts(chat)
    PROVE  /\ \A x \in transcript : x \in Topics /\ x # None
           /\ \A x \in transcript : \E i \in DOMAIN messages[chat] : messages[chat][i].topic = x
<1> DEFINE sent   == messages[chat]
           recent == {i \in DOMAIN sent : i > Len(sent) - Window}
           said   == {i \in DOMAIN sent : sent[i].role = "user"}
<1>1. PICK held \in SUBSET said : transcript = {sent[i].topic : i \in recent \cup held} \ {None}
  BY DEF Transcripts
<1>2. \A i \in DOMAIN sent : sent[i].topic \in Maybe(Topics)
  <2>1. sent \in Seq(Message)
    BY DEF TypeInv, TypeOK
  <2>2. \A i \in DOMAIN sent : sent[i] \in Message
    BY <2>1, ElementOfSeq, LenProperties
  <2> QED
    BY <2>2 DEF Message
<1> QED
  BY <1>1, <1>2 DEF Maybe

LEMMA TypeRead ==
    ASSUME TypeInv, NEW t \in Turns, Read(t)
    PROVE  TypeInv'
<1>1. turn[t].chat \in Chats
  BY DEF Read, TypeInv, TypeOK, Turn, Maybe
<1>2. PICK transcript \in Transcripts(turn[t].chat) :
          turn' = [turn EXCEPT ![t].transcript = transcript]
  BY DEF Read
<1>3. transcript \in SUBSET Topics
  BY <1>1, <1>2, TranscriptsType DEF Maybe
<1>4. turn' = [turn EXCEPT ![t].transcript = transcript]
  BY <1>2
<1>5. /\ pc' = [pc EXCEPT ![t] = "learning"] /\ pc[t] = "answered"
      /\ UNCHANGED <<messages, memories, events, seen, requests, patches>>
  BY DEF Read, Goto
<1>6. turn[t].candidates = <<>>
  BY <1>5 DEF TypeInv, CandidatesFromTranscript
<1>7. turn' \in [Turns -> Turn]
  BY <1>3, <1>4 DEF TypeInv, TypeOK, Turn
<1>8. \A u \in Turns :
        /\ turn'[u].shown = turn[u].shown
        /\ turn'[u].chat = turn[u].chat /\ turn'[u].scope = turn[u].scope
        /\ turn'[u].candidates = turn[u].candidates
        /\ u # t => turn'[u].transcript = turn[u].transcript
  BY <1>4 DEF TypeInv, TypeOK, Turn
<1>9. turn'[t].candidates \in Seq(From(turn'[t].transcript))
  BY <1>6, <1>8, EmptySeq
<1> QED BY <1>5, <1>6, <1>7, <1>8, <1>9
        DEF TypeInv, TypeOK, CandidatesFromTranscript, Places

LEMMA TypeLearned ==
    ASSUME TypeInv, NEW t \in Turns, Learned(t)
    PROVE  TypeInv'
<1>1. PICK candidates \in Proposals(turn[t].transcript) :
          \/ /\ candidates # <<>>
             /\ turn' = [turn EXCEPT ![t].candidates = candidates]
             /\ Goto(t, "saving")
          \/ candidates = <<>> /\ Done(t)
  BY DEF Learned
<1>2. pc[t] = "learning" /\ UNCHANGED <<messages, memories, events, seen, requests, patches>>
  BY DEF Learned
<1>3. CASE candidates = <<>> /\ Done(t)
  BY <1>2, <1>3, TypeDone
<1>4. CASE /\ candidates # <<>>
           /\ turn' = [turn EXCEPT ![t].candidates = candidates]
           /\ Goto(t, "saving")
  <2>1. turn[t].transcript \in SUBSET Topics
    BY DEF TypeInv, TypeOK, Turn
  <2>2. candidates \in Seq(From(turn[t].transcript)) /\ candidates \in Seq(Candidate)
    BY <2>1, ProposalsType, FromType
  <2>3. turn' \in [Turns -> Turn]
    BY <1>4, <2>2 DEF TypeInv, TypeOK, Turn
  <2>4. \A u \in Turns :
          /\ turn'[u].shown = turn[u].shown
          /\ turn'[u].chat = turn[u].chat /\ turn'[u].scope = turn[u].scope
          /\ turn'[u].transcript = turn[u].transcript
          /\ turn'[u].candidates = IF u = t THEN candidates ELSE turn[u].candidates
    BY <1>4 DEF TypeInv, TypeOK, Turn
  <2>5. pc' = [pc EXCEPT ![t] = "saving"]
    BY <1>4 DEF Goto
  <2> QED BY <1>2, <1>4, <2>2, <2>3, <2>4, <2>5
          DEF TypeInv, TypeOK, CandidatesFromTranscript, Places
<1> QED BY <1>1, <1>3, <1>4

\* What Save saves.
Saved(t) ==
    [kind |-> Head(turn[t].candidates).kind, scope |-> turn[t].scope,
     topic |-> Head(turn[t].candidates).topic,
     confidence |-> Head(turn[t].candidates).confidence,
     status |-> InitialStatus(Head(turn[t].candidates).confidence)]

\* A saved memory is about the transcript, under the scope of its turn, and
\* those before it stay as they are.
LEMMA SaveStep ==
    ASSUME TypeInv, NEW t \in Turns, Save(t)
    PROVE  /\ Saved(t) \in Memory /\ Saved(t).topic \in turn[t].transcript
           /\ memories' = Append(memories, Saved(t))
           /\ memories' \in Seq(Memory) /\ Len(memories') = Len(memories) + 1
           /\ DOMAIN memories' = 1..(Len(memories) + 1) /\ DOMAIN memories = 1..Len(memories)
           /\ \A i \in DOMAIN memories : i \in DOMAIN memories' /\ memories'[i] = memories[i]
           /\ memories'[Len(memories) + 1] = Saved(t)
<1>1. /\ turn[t].candidates \in Seq(From(turn[t].transcript)) /\ turn[t].candidates # <<>>
      /\ turn[t].scope \in Scope /\ turn[t].transcript \in SUBSET Topics
  BY DEF Save, TypeInv, TypeOK, CandidatesFromTranscript, Turn, Maybe
<1>2. Head(turn[t].candidates) \in From(turn[t].transcript)
  BY <1>1, HeadTailProperties
<1>3. Saved(t) \in Memory /\ Saved(t).topic \in turn[t].transcript
  BY <1>1, <1>2 DEF Saved, From, Memory, InitialStatus, Statuses
<1>4. memories' = Append(memories, Saved(t))
  BY DEF Save, Saved
<1> QED BY <1>3, <1>4, AppendProperties, LenProperties DEF TypeInv, TypeOK

LEMMA TypeSave ==
    ASSUME TypeInv, NEW t \in Turns, Save(t)
    PROVE  TypeInv'
<1> DEFINE left == Tail(turn[t].candidates)
           event == [memory |-> Len(memories) + 1, status |-> Saved(t).status]
<1>1. left \in Seq(From(turn[t].transcript)) /\ left \in Seq(Candidate)
  <2>1. /\ turn[t].candidates \in Seq(From(turn[t].transcript)) /\ turn[t].candidates # <<>>
        /\ turn[t].transcript \in SUBSET Topics
    BY DEF Save, TypeInv, TypeOK, CandidatesFromTranscript, Turn
  <2> QED BY <2>1, HeadTailProperties, FromType
<1>2. events' \in Seq(Event) /\ Len(events') = Len(memories')
  <2>1. event \in Event
    BY SaveStep, LenProperties DEF Event, Memory, TypeInv, TypeOK
  <2>2. events' = Append(events, event)
    BY DEF Save, Saved
  <2> HIDE DEF event
  <2> QED BY <2>1, <2>2, SaveStep, AppendProperties DEF TypeInv, TypeOK
<1>3. /\ pc[t] = "saving" /\ UNCHANGED <<messages, seen, requests, patches>>
      /\ \/ left = <<>> /\ Done(t)
         \/ /\ left # <<>>
            /\ turn' = [turn EXCEPT ![t].candidates = left]
            /\ UNCHANGED pc
  BY DEF Save
<1> HIDE DEF left, event
<1>4. CASE Done(t)
  BY <1>2, <1>3, <1>4, SaveStep, IdleType
     DEF TypeInv, TypeOK, CandidatesFromTranscript, Done, Goto, Idle, Places
<1>5. CASE /\ left # <<>>
           /\ turn' = [turn EXCEPT ![t].candidates = left]
           /\ UNCHANGED pc
  <2>1. turn' \in [Turns -> Turn]
    BY <1>1, <1>5 DEF TypeInv, TypeOK, Turn
  <2>2. \A u \in Turns :
          /\ turn'[u].shown = turn[u].shown
          /\ turn'[u].chat = turn[u].chat /\ turn'[u].scope = turn[u].scope
          /\ turn'[u].transcript = turn[u].transcript
          /\ turn'[u].candidates = IF u = t THEN left ELSE turn[u].candidates
    BY <1>5 DEF TypeInv, TypeOK, Turn
  <2> QED BY <1>1, <1>2, <1>3, <1>5, <2>1, <2>2, SaveStep
          DEF TypeInv, TypeOK, CandidatesFromTranscript
<1> QED BY <1>3, <1>4, <1>5

LEMMA TypeListAll ==
    ASSUME TypeInv, NEW kind \in Kinds, NEW user \in Users, ListAll(kind, user)
    PROVE  TypeInv'
<1>1. seen' \subseteq DOMAIN memories
  BY RetrievalsType DEF ListAll, TypeInv, TypeOK
<1> QED BY <1>1 DEF ListAll, TypeInv, TypeOK, CandidatesFromTranscript

\* A review changes one status.
LEMMA PatchStep ==
    ASSUME TypeInv, NEW i \in seen, NEW status \in Statuses, Patch(i, status)
    PROVE  /\ memories' \in Seq(Memory) /\ Len(memories') = Len(memories)
           /\ DOMAIN memories' = DOMAIN memories
           /\ \A j \in DOMAIN memories :
                 /\ memories'[j].kind = memories[j].kind /\ memories'[j].scope = memories[j].scope
                 /\ memories'[j].topic = memories[j].topic
                 /\ memories'[j].confidence = memories[j].confidence
                 /\ j # i => memories'[j].status = memories[j].status
<1>1. memories \in Seq(Memory) /\ i \in 1..Len(memories) /\ memories[i] \in Memory
  BY LenProperties, ElementOfSeq DEF TypeInv, TypeOK
<1> DEFINE new == [memories[i] EXCEPT !.status = status]
<1>2. new \in Memory /\ new.kind = memories[i].kind /\ new.scope = memories[i].scope
      /\ new.topic = memories[i].topic /\ new.confidence = memories[i].confidence
  BY <1>1 DEF Memory
<1>3. memories' = [memories EXCEPT ![i] = new]
  BY DEF Patch
<1> HIDE DEF new
<1>4. memories' \in Seq(Memory) /\ Len(memories') = Len(memories)
      /\ \A j \in 1..Len(memories) : memories'[j] = IF j = i THEN new ELSE memories[j]
  BY <1>1, <1>2, <1>3, ExceptSeq
<1>5. DOMAIN memories' = DOMAIN memories /\ DOMAIN memories = 1..Len(memories)
  BY <1>1, <1>4, LenProperties
<1> QED BY <1>2, <1>4, <1>5

LEMMA TypePatch ==
    ASSUME TypeInv, NEW i \in seen, NEW status \in Statuses, Patch(i, status)
    PROVE  TypeInv'
<1>1. patches' \in 0..MaxPatches
  BY NumbersAssumption DEF Patch, TypeInv, TypeOK
<1>2. UNCHANGED <<messages, events, pc, turn, seen, requests>>
  BY DEF Patch
<1> QED BY <1>1, <1>2, PatchStep DEF TypeInv, TypeOK, CandidatesFromTranscript

LEMMA TypeCrash == TypeInv /\ Crash => TypeInv'
<1> SUFFICES ASSUME TypeInv, Crash PROVE TypeInv'
  OBVIOUS
<1>1. \A t \in Turns : turn'[t] = Idle /\ pc'[t] = "idle"
  BY DEF Crash
<1>2. /\ pc' \in [Turns -> Places] /\ turn' \in [Turns -> Turn]
      /\ UNCHANGED <<messages, memories, events, seen, requests, patches>>
  BY IdleType DEF Crash, Places
<1>3. Idle.shown = {}
  BY DEF Idle
<1> QED BY <1>1, <1>2, <1>3, IdleType DEF TypeInv, TypeOK, CandidatesFromTranscript

\* One step of the system keeps the type invariant.
LEMMA TypeNext == TypeInv /\ [Next]_vars => TypeInv'
<1> SUFFICES ASSUME TypeInv, [Next]_vars PROVE TypeInv'
  OBVIOUS
<1>1. CASE UNCHANGED vars
  BY <1>1 DEF vars, TypeInv, TypeOK, CandidatesFromTranscript
<1>2. ASSUME NEW t \in Turns,
             Leave(t) \/ GiveUp(t)
      PROVE  TypeInv'
  BY <1>2, TypeDone DEF Leave, GiveUp
<1>3. ASSUME NEW t \in Turns,
             List(t, "fact", "skill") \/ List(t, "skill", "answering")
      PROVE  TypeInv'
  BY <1>3, TypeList DEF Kinds
<1> QED BY <1>1, <1>2, <1>3, TypeAsk, TypeAnswer, TypeRead, TypeLearned, TypeSave,
        TypeListAll, TypePatch, TypeCrash DEF Next

\* Every variable keeps its type, every memory has its event, and a turn that
\* saves has something to save.
THEOREM TypeCorrect == Spec => []TypeOK
<1>1. TypeInv => TypeOK
  BY DEF TypeInv
<1> QED BY TypeInit, TypeNext, <1>1, PTL DEF Spec

-----------------------------------------------------------------------------
(* What a step may change. *)

\* Memories are only saved and reviewed.
LEMMA MemoriesStep ==
    ASSUME [Next]_vars
    PROVE  \/ UNCHANGED memories
           \/ \E t \in Turns : Save(t)
           \/ \E i \in seen, status \in Statuses : Patch(i, status)
BY DEF Next, vars, Ask, List, Answer, Leave, Read, Learned, GiveUp, ListAll, Crash

\* Saving and reviewing keep what was saved, but for the status of one that
\* the endpoints have given out.
LEMMA MemoriesStay ==
    ASSUME TypeInv, [Next]_vars, NEW j \in DOMAIN memories
    PROVE  /\ j \in DOMAIN memories'
           /\ memories'[j].kind = memories[j].kind /\ memories'[j].scope = memories[j].scope
           /\ memories'[j].topic = memories[j].topic
           /\ memories'[j].confidence = memories[j].confidence
           /\ j \in seen \/ memories'[j].status = memories[j].status
BY MemoriesStep, SaveStep, PatchStep

\* A turn forgets what it was shown, keeps it, or is shown more.
LEMMA ShownStep ==
    ASSUME TypeInv, [Next]_vars, NEW u \in Turns
    PROVE  \/ turn'[u].shown = {}
           \/ turn'[u].shown = turn[u].shown /\ turn'[u].scope = turn[u].scope
           \/ /\ pc[u] \in Kinds
              /\ UNCHANGED <<memories, messages, seen>> /\ turn'[u].scope = turn[u].scope
              /\ \E found \in Retrievals(pc[u], turn[u].scope, Limits[pc[u]]) :
                    turn'[u].shown = turn[u].shown \cup found
<1>0. Idle.shown = {} /\ turn \in [Turns -> Turn]
  BY DEF Idle, TypeInv, TypeOK
<1>1. CASE UNCHANGED turn
  BY <1>1
<1>2. ASSUME NEW t \in Turns, Ask(t)
      PROVE  turn'[u].shown = {} \/ turn'[u] = turn[u]
  <2>1. PICK chat, scope : turn' = [turn EXCEPT ![t] = [Idle EXCEPT !.chat = chat, !.scope = scope]]
    BY <1>2 DEF Ask
  <2>2. [Idle EXCEPT !.chat = chat, !.scope = scope].shown = {}
    BY DEF Idle
  <2> QED BY <1>0, <2>1, <2>2
<1>3. ASSUME NEW t \in Turns, NEW kind \in Kinds, NEW next, List(t, kind, next)
      PROVE  \/ turn'[u] = turn[u]
             \/ /\ pc[u] \in Kinds
                /\ UNCHANGED <<memories, messages, seen>> /\ turn'[u].scope = turn[u].scope
                /\ \E found \in Retrievals(pc[u], turn[u].scope, Limits[pc[u]]) :
                      turn'[u].shown = turn[u].shown \cup found
  <2>1. PICK found \in Retrievals(kind, turn[t].scope, Limits[kind]) :
            turn' = [turn EXCEPT ![t].shown = @ \cup found]
    BY <1>3 DEF List
  <2>2. pc[t] = kind /\ UNCHANGED <<memories, messages, seen>>
    BY <1>3 DEF List
  <2>3. CASE u = t
    <3>1. turn'[t].shown = turn[t].shown \cup found /\ turn'[t].scope = turn[t].scope
      BY <1>0, <2>1 DEF Turn
    <3> QED BY <2>1, <2>2, <2>3, <3>1
  <2>4. CASE u # t
    BY <1>0, <2>1, <2>4
  <2> QED BY <2>3, <2>4
<1>4. ASSUME NEW t \in Turns, Done(t)
      PROVE  turn'[u].shown = {} \/ turn'[u] = turn[u]
  BY <1>0, <1>4 DEF Done
<1>5. ASSUME NEW t \in Turns, NEW x, NEW y,
             \/ turn' = [turn EXCEPT ![t].transcript = x]
             \/ turn' = [turn EXCEPT ![t].candidates = y]
      PROVE  turn'[u].shown = turn[u].shown /\ turn'[u].scope = turn[u].scope
  BY <1>0, <1>5 DEF Turn
<1>6. CASE Crash
  BY <1>0, <1>6 DEF Crash
<1>7. ASSUME NEW t \in Turns, Read(t) \/ Learned(t) \/ Save(t)
      PROVE  \/ turn'[u].shown = {}
             \/ turn'[u].shown = turn[u].shown /\ turn'[u].scope = turn[u].scope
  <2>1. CASE Read(t)
    BY <1>5, <2>1 DEF Read
  <2>2. CASE Learned(t)
    BY <1>4, <1>5, <2>2 DEF Learned
  <2>3. CASE Save(t)
    BY <1>4, <1>5, <2>3, <1>1 DEF Save
  <2> QED BY <1>7, <2>1, <2>2, <2>3
<1>8. ASSUME NEW t \in Turns, Leave(t) \/ GiveUp(t)
      PROVE  turn'[u].shown = {} \/ turn'[u] = turn[u]
  BY <1>4, <1>8 DEF Leave, GiveUp
<1>9. ASSUME NEW t \in Turns, Answer(t)
      PROVE  UNCHANGED turn
  BY <1>9 DEF Answer
<1>10. ASSUME \/ \E kind \in Kinds, user \in Users : ListAll(kind, user)
              \/ \E i \in seen, status \in Statuses : Patch(i, status)
              \/ UNCHANGED vars
       PROVE  UNCHANGED turn
  BY <1>10 DEF ListAll, Patch, vars
<1>11. "fact" \in Kinds /\ "skill" \in Kinds
  BY DEF Kinds
<1> QED BY <1>1, <1>2, <1>3, <1>6, <1>7, <1>8, <1>9, <1>10, <1>11 DEF Next

-----------------------------------------------------------------------------
(* Confidence. *)

\* Only sure memories are active, and only those are ever given out.
SureInv ==
    /\ \A i \in DOMAIN memories :
          memories[i].status = "active" => memories[i].confidence >= 75
    /\ \A i \in seen : memories[i].confidence >= 75
    /\ UnsureMemoriesAreNotShown

LEMMA SureInit == Init => SureInv
<1> SUFFICES ASSUME Init PROVE SureInv
  OBVIOUS
<1>1. DOMAIN memories = {} /\ seen = {} /\ \A t \in Turns : turn[t].shown = {}
  BY DEF Init, Idle
<1> QED BY <1>1 DEF SureInv, UnsureMemoriesAreNotShown

LEMMA SureNext == TypeInv /\ SureInv /\ [Next]_vars => SureInv'
<1> SUFFICES ASSUME TypeInv, SureInv, [Next]_vars PROVE SureInv'
  OBVIOUS
<1>0. seen \subseteq DOMAIN memories /\ \A t \in Turns : turn[t].shown \subseteq DOMAIN memories
  BY DEF TypeInv, TypeOK
<1>1. ASSUME NEW i \in DOMAIN memories', memories'[i].status = "active"
      PROVE  memories'[i].confidence >= 75
  <2>1. CASE i \in DOMAIN memories
    BY <1>1, <2>1, MemoriesStay DEF SureInv
  <2>2. CASE i \notin DOMAIN memories
    <3>1. PICK t \in Turns : Save(t)
      BY <2>2, <1>1, MemoriesStep, PatchStep
    <3>2. memories'[i] = Saved(t)
      BY <1>1, <2>2, <3>1, SaveStep, LenProperties DEF TypeInv, TypeOK
    <3> QED BY <1>1, <3>2 DEF Saved, InitialStatus
  <2> QED BY <2>1, <2>2
<1>2. ASSUME NEW i \in seen'
      PROVE  memories'[i].confidence >= 75
  <2>1. CASE i \in seen
    BY <1>0, <2>1, MemoriesStay DEF SureInv
  <2>2. CASE i \notin seen
    <3>1. PICK kind \in Kinds, user \in Users : ListAll(kind, user)
      BY <1>2, <2>2 DEF Next, vars, Ask, List, Answer, Leave, Read, Learned, Save, GiveUp,
                        Patch, Crash
    <3>2. i \in DOMAIN memories /\ memories[i].status = "active" /\ UNCHANGED memories
      BY <1>2, <2>2, <3>1, RetrievalsType DEF ListAll, Eligible
    <3> QED BY <3>2 DEF SureInv
  <2> QED BY <2>1, <2>2
<1>3. ASSUME NEW u \in Turns, NEW i \in turn'[u].shown
      PROVE  memories'[i].confidence >= 75
  <2>1. CASE i \in turn[u].shown
    BY <1>0, <2>1, MemoriesStay DEF SureInv, UnsureMemoriesAreNotShown
  <2>2. CASE i \notin turn[u].shown
    <3>1. i \in Eligible(pc[u], turn[u].scope) /\ UNCHANGED memories
      BY <1>3, <2>2, ShownStep, RetrievalsType
    <3> QED BY <3>1 DEF Eligible, SureInv
  <2> QED BY <2>1, <2>2
<1> QED BY <1>1, <1>2, <1>3 DEF SureInv, UnsureMemoriesAreNotShown

\* What a model was unsure of is shown to no answer, whatever the endpoints
\* are asked to do with what they have given out.
THEOREM UnsureStaysOut == Spec => []UnsureMemoriesAreNotShown
<1>1. SureInv => UnsureMemoriesAreNotShown
  BY DEF SureInv
<1> QED BY TypeInit, TypeNext, SureInit, SureNext, <1>1, PTL DEF Spec

-----------------------------------------------------------------------------
(* Scopes. *)

\* SaidFor as a property of the messages alone.
SaidIn(said, topic, reader) ==
    \E c \in Chats : \E i \in DOMAIN said[c] :
        /\ said[c][i].role = "user" /\ said[c][i].topic = topic
        /\ said[c][i].scope.user = reader.user
        /\ said[c][i].scope.client = None \/ said[c][i].scope.client = reader.client
        /\ said[c][i].scope.business = None \/ said[c][i].scope.business = reader.business

\* What was said remains so when more is said.
LEMMA SaidGrows ==
    ASSUME NEW old, NEW new, NEW topic, NEW reader, SaidIn(old, topic, reader),
           \A c \in Chats : \A i \in DOMAIN old[c] : i \in DOMAIN new[c] /\ new[c][i] = old[c][i]
    PROVE  SaidIn(new, topic, reader)
BY DEF SaidIn

\* What was said for all clients was said for each of them.
LEMMA SaidForSpecial ==
    ASSUME NEW said, NEW topic, NEW m, SaidIn(said, topic, m.scope),
           NEW reader, InScope(m, reader)
    PROVE  SaidIn(said, topic, reader)
BY DEF SaidIn, InScope

\* All requests of a chat come with the same scope.
OneScopePerChat == \A c \in Chats : \A r, s \in ScopesOf[c] : r = s

\* Messages and turns are in a scope of their chat.
ScopesOfChats ==
    /\ \A c \in Chats : \A i \in DOMAIN messages[c] : messages[c][i].scope \in ScopesOf[c]
    /\ \A t \in Turns : pc[t] # "idle" => turn[t].scope \in ScopesOf[turn[t].chat]

\* Wherever a topic is, it was said for the scope of that place.
TopicsWereSaid ==
    /\ \A c \in Chats : \A i \in DOMAIN messages[c] :
          messages[c][i].topic # None => SaidIn(messages, messages[c][i].topic, messages[c][i].scope)
    /\ \A t \in Turns : \A x \in turn[t].transcript : SaidIn(messages, x, turn[t].scope)
    /\ \A i \in DOMAIN memories : SaidIn(messages, memories[i].topic, memories[i].scope)
    /\ \A t \in Turns : \A i \in turn[t].shown : SaidIn(messages, memories[i].topic, turn[t].scope)

ScopeInv == ScopesOfChats /\ TopicsWereSaid

LEMMA ScopeInit == Init => ScopeInv
<1> SUFFICES ASSUME Init PROVE ScopeInv
  OBVIOUS
<1>1. /\ \A c \in Chats : DOMAIN messages[c] = {}
      /\ DOMAIN memories = {}
      /\ \A t \in Turns : turn[t].transcript = {} /\ turn[t].shown = {} /\ pc[t] = "idle"
  BY DEF Init, Idle
<1> QED BY <1>1 DEF ScopeInv, ScopesOfChats, TopicsWereSaid

\* What asking and answering add to a chat.
LEMMA MessagesStep ==
    ASSUME TypeInv, NEW c \in Chats, NEW m \in Message,
           messages' = [messages EXCEPT ![c] = Append(@, m)]
    PROVE  /\ \A d \in Chats : \A i \in DOMAIN messages[d] :
                 i \in DOMAIN messages'[d] /\ messages'[d][i] = messages[d][i]
           /\ \A d \in Chats : \A i \in DOMAIN messages'[d] :
                 i \in DOMAIN messages[d] \/ (d = c /\ messages'[d][i] = m)
           /\ Len(messages[c]) + 1 \in DOMAIN messages'[c]
           /\ messages'[c][Len(messages[c]) + 1] = m
<1>1. /\ messages[c] \in Seq(Message) /\ messages'[c] = Append(messages[c], m)
      /\ \A d \in Chats \ {c} : messages'[d] = messages[d]
  BY DEF TypeInv, TypeOK
<1>2. /\ DOMAIN messages[c] = 1..Len(messages[c]) /\ Len(messages[c]) \in Nat
      /\ messages'[c] \in Seq(Message) /\ Len(messages'[c]) = Len(messages[c]) + 1
      /\ \A i \in 1..Len(messages[c]) : messages'[c][i] = messages[c][i]
      /\ messages'[c][Len(messages[c]) + 1] = m
  BY <1>1, AppendProperties, LenProperties
<1>3. DOMAIN messages'[c] = 1..(Len(messages[c]) + 1)
  BY <1>2, LenProperties
<1> QED BY <1>1, <1>2, <1>3

\* Messages are only added, and TopicsWereSaid holds of what was there.
LEMMA MessagesStay ==
    ASSUME TypeInv, [Next]_vars, NEW d \in Chats, NEW i \in DOMAIN messages[d]
    PROVE  i \in DOMAIN messages'[d] /\ messages'[d][i] = messages[d][i]
<1>1. CASE UNCHANGED messages
  BY <1>1
<1>2. ASSUME NEW t \in Turns, Ask(t)
      PROVE  i \in DOMAIN messages'[d] /\ messages'[d][i] = messages[d][i]
  <2>1. PICK c \in Chats, s \in Scope, topic \in Maybe(Topics) :
            messages' = [messages EXCEPT ![c] =
                Append(@, [role |-> "user", scope |-> s, topic |-> topic])]
    BY <1>2, ScopesAssumption DEF Ask
  <2>2. [role |-> "user", scope |-> s, topic |-> topic] \in Message
    BY DEF Message
  <2> QED BY <2>1, <2>2, MessagesStep
<1>3. ASSUME NEW t \in Turns, Answer(t)
      PROVE  i \in DOMAIN messages'[d] /\ messages'[d][i] = messages[d][i]
  <2>1. PICK m : messages' = [messages EXCEPT ![turn[t].chat] = Append(@, m)]
    BY <1>3 DEF Answer
  <2> DEFINE c == turn[t].chat
  <2>2. messages \in [Chats -> Seq(Message)]
    BY DEF TypeInv, TypeOK
  <2>3. CASE d = c
    <3>1. messages'[d] = Append(messages[d], m) /\ messages[d] \in Seq(Message)
      BY <2>1, <2>2, <2>3
    <3> QED BY <3>1
  <2>4. CASE d # c
    BY <2>1, <2>2, <2>4
  <2> QED BY <2>3, <2>4
<1> QED BY <1>1, <1>2, <1>3 DEF Next, vars, List, Leave, Read, Learned, Save, GiveUp, ListAll,
        Patch, Crash

\* Saying more, reviewing and forgetting disturb nothing.
LEMMA SaidStays ==
    ASSUME TypeInv, [Next]_vars, NEW topic, NEW reader, SaidIn(messages, topic, reader)
    PROVE  SaidIn(messages', topic, reader)
BY MessagesStay, SaidGrows

\* Where a turn's scope and its chat come from.
LEMMA ScopeStep ==
    ASSUME TypeInv, [Next]_vars, NEW u \in Turns, pc'[u] # "idle"
    PROVE  \/ /\ pc[u] # "idle"
              /\ turn'[u].chat = turn[u].chat /\ turn'[u].scope = turn[u].scope
           \/ /\ Ask(u) /\ turn'[u].chat \in Chats /\ turn'[u].scope \in ScopesOf[turn'[u].chat]
              /\ turn'[u].transcript = {}
<1>0. turn \in [Turns -> Turn] /\ pc \in [Turns -> Places]
  BY DEF TypeInv, TypeOK
<1>1. CASE UNCHANGED turn /\ UNCHANGED pc
  BY <1>1
<1>2. ASSUME NEW t \in Turns, Ask(t)
      PROVE  \/ pc[u] = pc'[u] /\ turn'[u] = turn[u]
             \/ /\ u = t /\ turn'[u].chat \in Chats /\ turn'[u].scope \in ScopesOf[turn'[u].chat]
                /\ turn'[u].transcript = {}
  <2>1. PICK c \in Chats : \E s \in ScopesOf[c] :
            turn' = [turn EXCEPT ![t] = [Idle EXCEPT !.chat = c, !.scope = s]]
    BY <1>2 DEF Ask
  <2>2. PICK s \in ScopesOf[c] :
            turn' = [turn EXCEPT ![t] = [Idle EXCEPT !.chat = c, !.scope = s]]
    BY <2>1
  <2> DEFINE asked == [Idle EXCEPT !.chat = c, !.scope = s]
  <2>3. asked.chat = c /\ asked.scope = s /\ asked.transcript = {}
    BY DEF Idle
  <2>4. pc' = [pc EXCEPT ![t] = "fact"]
    BY <1>2 DEF Ask, Goto
  <2> QED BY <1>0, <2>2, <2>3, <2>4
<1>3. ASSUME NEW t \in Turns, Done(t)
      PROVE  pc[u] = pc'[u] /\ turn'[u] = turn[u]
  BY <1>0, <1>3 DEF Done, Goto
<1>4. ASSUME NEW t \in Turns, pc[t] # "idle",
             \/ \E kind \in Kinds, next \in Places : List(t, kind, next)
             \/ Answer(t) \/ Read(t)
             \/ Learned(t) /\ ~Done(t)
             \/ Save(t) /\ ~Done(t)
      PROVE  /\ u # t => pc[u] = pc'[u]
             /\ turn'[u].chat = turn[u].chat /\ turn'[u].scope = turn[u].scope
  BY <1>0, <1>4 DEF List, Answer, Read, Learned, Save, Goto, Turn
<1>5. CASE Crash
  BY <1>5 DEF Crash
<1>6. ASSUME NEW t \in Turns,
             \/ List(t, "fact", "skill") \/ List(t, "skill", "answering")
             \/ Answer(t) \/ Leave(t) \/ Read(t) \/ Learned(t) \/ Save(t) \/ GiveUp(t)
      PROVE  pc[t] # "idle"
  BY <1>6 DEF List, Answer, Leave, Read, Learned, Save, GiveUp
<1>7. ASSUME NEW t \in Turns, Leave(t) \/ GiveUp(t)
      PROVE  Done(t)
  BY <1>7 DEF Leave, GiveUp
<1>8. ASSUME \/ \E kind \in Kinds, user \in Users : ListAll(kind, user)
             \/ \E i \in seen, status \in Statuses : Patch(i, status)
             \/ UNCHANGED vars
       PROVE  UNCHANGED turn /\ UNCHANGED pc
  BY <1>8 DEF ListAll, Patch, vars
<1>9. {"fact", "skill"} \subseteq Kinds /\ {"skill", "answering"} \subseteq Places
  BY DEF Kinds, Places
<1> QED BY <1>1, <1>2, <1>3, <1>4, <1>5, <1>6, <1>7, <1>8, <1>9 DEF Next

\* The scopes of messages and turns stay those of their chats.
LEMMA ScopesNext ==
    ASSUME TypeInv, ScopesOfChats, [Next]_vars
    PROVE  ScopesOfChats'
<1>1. ASSUME NEW u \in Turns, pc'[u] # "idle"
      PROVE  turn'[u].scope \in ScopesOf[turn'[u].chat]
  BY <1>1, ScopeStep DEF ScopesOfChats
<1>2. ASSUME NEW c \in Chats, NEW s \in ScopesOf[c], NEW m \in Message, m.scope = s,
             messages' = [messages EXCEPT ![c] = Append(@, m)],
             NEW d \in Chats, NEW i \in DOMAIN messages'[d]
      PROVE  messages'[d][i].scope \in ScopesOf[d]
  BY <1>2, MessagesStep DEF ScopesOfChats
<1>3. ASSUME NEW t \in Turns, Ask(t), NEW d \in Chats, NEW i \in DOMAIN messages'[d]
      PROVE  messages'[d][i].scope \in ScopesOf[d]
  <2>1. PICK c \in Chats : \E s \in ScopesOf[c], topic \in Maybe(Topics) :
            messages' = [messages EXCEPT ![c] =
                Append(@, [role |-> "user", scope |-> s, topic |-> topic])]
    BY <1>3 DEF Ask
  <2>2. PICK s \in ScopesOf[c], topic \in Maybe(Topics) :
            messages' = [messages EXCEPT ![c] =
                Append(@, [role |-> "user", scope |-> s, topic |-> topic])]
    BY <2>1
  <2>3. [role |-> "user", scope |-> s, topic |-> topic] \in Message
    BY ScopesAssumption DEF Message
  <2> QED BY <1>2, <2>2, <2>3
<1>4. ASSUME NEW t \in Turns, Answer(t), NEW d \in Chats, NEW i \in DOMAIN messages'[d]
      PROVE  messages'[d][i].scope \in ScopesOf[d]
  <2>1. turn[t].chat \in Chats /\ turn[t].scope \in ScopesOf[turn[t].chat]
    BY <1>4 DEF Answer, TypeInv, TypeOK, Turn, Maybe, ScopesOfChats
  <2>2. PICK m \in Message : m.scope = turn[t].scope
            /\ messages' = [messages EXCEPT ![turn[t].chat] = Append(@, m)]
    BY <1>4, AnswerStep
  <2> QED BY <1>2, <2>1, <2>2
<1>5. ASSUME UNCHANGED messages, NEW d \in Chats, NEW i \in DOMAIN messages'[d]
      PROVE  messages'[d][i].scope \in ScopesOf[d]
  BY <1>5 DEF ScopesOfChats
<1>6. \A d \in Chats : \A i \in DOMAIN messages'[d] : messages'[d][i].scope \in ScopesOf[d]
  BY <1>3, <1>4, <1>5 DEF Next, vars, List, Leave, Read, Learned, Save, GiveUp, ListAll,
     Patch, Crash, ScopesOfChats
<1> QED BY <1>1, <1>6 DEF ScopesOfChats

\* A transcript is emptied, kept, or read from the turn's chat.
LEMMA TranscriptStep ==
    ASSUME TypeInv, [Next]_vars, NEW u \in Turns
    PROVE  \/ turn'[u].transcript = {}
           \/ turn'[u].transcript = turn[u].transcript /\ turn'[u].scope = turn[u].scope
           \/ /\ Read(u) /\ turn'[u].scope = turn[u].scope
              /\ \A x \in turn'[u].transcript : x # None /\ \E i \in DOMAIN messages[turn[u].chat] :
                    messages[turn[u].chat][i].topic = x
<1>0. Idle.transcript = {} /\ turn \in [Turns -> Turn]
  BY DEF Idle, TypeInv, TypeOK
<1>1. ASSUME NEW t \in Turns, Ask(t)
      PROVE  turn'[u].transcript = {} \/ turn'[u] = turn[u]
  <2>1. PICK chat, scope : turn' = [turn EXCEPT ![t] = [Idle EXCEPT !.chat = chat, !.scope = scope]]
    BY <1>1 DEF Ask
  <2>2. [Idle EXCEPT !.chat = chat, !.scope = scope].transcript = {}
    BY DEF Idle
  <2> QED BY <1>0, <2>1, <2>2
<1>2. ASSUME NEW t \in Turns, Done(t)
      PROVE  turn'[u].transcript = {} \/ turn'[u] = turn[u]
  BY <1>0, <1>2 DEF Done
<1>3. ASSUME NEW t \in Turns,
             \/ List(t, "fact", "skill") \/ List(t, "skill", "answering")
             \/ Answer(t)
             \/ Learned(t) /\ ~Done(t)
             \/ Save(t) /\ ~Done(t)
      PROVE  turn'[u].transcript = turn[u].transcript /\ turn'[u].scope = turn[u].scope
  <2>1. CASE List(t, "fact", "skill") \/ List(t, "skill", "answering")
    BY <1>0, <2>1 DEF List, Turn
  <2>2. CASE Answer(t)
    BY <2>2 DEF Answer
  <2>3. CASE Learned(t) /\ ~Done(t)
    BY <1>0, <2>3 DEF Learned, Turn
  <2>4. CASE Save(t) /\ ~Done(t)
    BY <1>0, <2>4 DEF Save, Turn
  <2> QED BY <1>3, <2>1, <2>2, <2>3, <2>4
<1>4. ASSUME NEW t \in Turns, Read(t)
      PROVE  \/ turn'[u] = turn[u]
             \/ /\ Read(u) /\ turn'[u].scope = turn[u].scope
                /\ \A x \in turn'[u].transcript : x # None /\ \E i \in DOMAIN messages[turn[u].chat] :
                      messages[turn[u].chat][i].topic = x
  <2>1. CASE u # t
    BY <1>0, <1>4, <2>1 DEF Read
  <2>2. CASE u = t
    <3>1. PICK transcript \in Transcripts(turn[t].chat) :
              turn' = [turn EXCEPT ![t].transcript = transcript]
      BY <1>4 DEF Read
    <3>2. turn[t].chat \in Chats
      BY <1>4 DEF Read, TypeInv, TypeOK, Turn, Maybe
    <3>3. \A x \in transcript : x # None /\ \E i \in DOMAIN messages[turn[t].chat] :
                                               messages[turn[t].chat][i].topic = x
      BY <3>2, TranscriptsType
    <3>4. turn'[t].transcript = transcript /\ turn'[t].scope = turn[t].scope
      BY <1>0, <3>1 DEF Turn
    <3> QED BY <1>4, <2>2, <3>3, <3>4
  <2> QED BY <2>1, <2>2
<1>5. CASE Crash
  BY <1>0, <1>5 DEF Crash
<1>6. ASSUME NEW t \in Turns, Leave(t) \/ GiveUp(t)
      PROVE  Done(t)
  BY <1>6 DEF Leave, GiveUp
<1>7. ASSUME \/ \E kind \in Kinds, user \in Users : ListAll(kind, user)
             \/ \E i \in seen, status \in Statuses : Patch(i, status)
             \/ UNCHANGED vars
      PROVE  UNCHANGED turn
  BY <1>7 DEF ListAll, Patch, vars
<1> QED BY <1>1, <1>2, <1>3, <1>4, <1>5, <1>6, <1>7 DEF Next

LEMMA TopicsNext ==
    ASSUME TypeInv, ScopeInv, OneScopePerChat, [Next]_vars
    PROVE  TopicsWereSaid'
<1>1. ASSUME NEW d \in Chats, NEW i \in DOMAIN messages'[d], messages'[d][i].topic # None
      PROVE  SaidIn(messages', messages'[d][i].topic, messages'[d][i].scope)
  <2>1. CASE i \in DOMAIN messages[d]
    <3>1. messages'[d][i] = messages[d][i]
      BY <2>1, MessagesStay
    <3> QED BY <1>1, <2>1, <3>1, SaidStays DEF ScopeInv, TopicsWereSaid
  <2>2. ASSUME NEW t \in Turns, Ask(t), i \notin DOMAIN messages[d]
        PROVE  SaidIn(messages', messages'[d][i].topic, messages'[d][i].scope)
    <3>1. PICK c \in Chats, s \in Scope, topic \in Maybe(Topics) :
              messages' = [messages EXCEPT ![c] =
                  Append(@, [role |-> "user", scope |-> s, topic |-> topic])]
      BY <2>2, ScopesAssumption DEF Ask
    <3>2. [role |-> "user", scope |-> s, topic |-> topic] \in Message
      BY DEF Message
    <3>3. messages'[d][i] = [role |-> "user", scope |-> s, topic |-> topic]
      BY <1>1, <2>2, <3>1, <3>2, MessagesStep
    <3> QED BY <1>1, <3>3 DEF SaidIn
  <2>3. ASSUME NEW t \in Turns, Answer(t), i \notin DOMAIN messages[d]
        PROVE  SaidIn(messages', messages'[d][i].topic, messages'[d][i].scope)
    <3> DEFINE c == turn[t].chat
    <3>1. PICK m \in Message :
              /\ m.scope = turn[t].scope
              /\ messages' = [messages EXCEPT ![c] = Append(@, m)]
              /\ m.topic # None =>
                    \/ \E j \in DOMAIN messages[c] : messages[c][j].topic = m.topic
                    \/ \E j \in turn[t].shown : memories[j].topic = m.topic
      BY <2>3, AnswerStep
    <3>2. c \in Chats /\ turn[t].scope \in ScopesOf[c]
      BY <2>3 DEF Answer, TypeInv, TypeOK, Turn, Maybe, ScopeInv, ScopesOfChats
    <3>3. messages'[d][i] = m
      BY <1>1, <2>3, <3>1, <3>2, MessagesStep
    <3>4. ASSUME NEW j \in DOMAIN messages[c], messages[c][j].topic = m.topic
          PROVE  SaidIn(messages, m.topic, m.scope)
      BY <1>1, <3>1, <3>2, <3>3, <3>4 DEF ScopeInv, ScopesOfChats, TopicsWereSaid, OneScopePerChat
    <3>5. ASSUME NEW j \in turn[t].shown, memories[j].topic = m.topic
          PROVE  SaidIn(messages, m.topic, m.scope)
      BY <3>1, <3>5 DEF ScopeInv, TopicsWereSaid
    <3> QED BY <1>1, <3>1, <3>3, <3>4, <3>5, SaidStays
  <2>4. CASE UNCHANGED messages
    BY <1>1, <2>1, <2>4
  <2> QED BY <2>1, <2>2, <2>3, <2>4 DEF Next, vars, List, Leave, Read, Learned, Save, GiveUp,
          ListAll, Patch, Crash
<1>2. ASSUME NEW u \in Turns, NEW x \in turn'[u].transcript
      PROVE  SaidIn(messages', x, turn'[u].scope)
  <2>1. CASE x \in turn[u].transcript /\ turn'[u].scope = turn[u].scope
    BY <2>1, SaidStays DEF ScopeInv, TopicsWereSaid
  <2>2. CASE /\ Read(u) /\ turn'[u].scope = turn[u].scope /\ x # None
             /\ \E i \in DOMAIN messages[turn[u].chat] : messages[turn[u].chat][i].topic = x
    <3>1. turn[u].chat \in Chats /\ turn[u].scope \in ScopesOf[turn[u].chat]
      BY <2>2 DEF Read, TypeInv, TypeOK, Turn, Maybe, ScopeInv, ScopesOfChats
    <3>2. SaidIn(messages, x, turn[u].scope)
      BY <2>2, <3>1 DEF ScopeInv, ScopesOfChats, TopicsWereSaid, OneScopePerChat
    <3> QED BY <2>2, <3>2, SaidStays
  <2> QED BY <1>2, <2>1, <2>2, TranscriptStep
<1>3. ASSUME NEW i \in DOMAIN memories'
      PROVE  SaidIn(messages', memories'[i].topic, memories'[i].scope)
  <2>1. CASE i \in DOMAIN memories
    <3>1. memories'[i].topic = memories[i].topic /\ memories'[i].scope = memories[i].scope
      BY <2>1, MemoriesStay
    <3> QED BY <2>1, <3>1, SaidStays DEF ScopeInv, TopicsWereSaid
  <2>2. CASE i \notin DOMAIN memories
    <3>1. PICK t \in Turns : Save(t)
      BY <2>2, <1>3, MemoriesStep, PatchStep
    <3>2. memories'[i] = Saved(t) /\ Saved(t).topic \in turn[t].transcript
      BY <1>3, <2>2, <3>1, SaveStep, LenProperties DEF TypeInv, TypeOK
    <3>3. Saved(t).scope = turn[t].scope
      BY DEF Saved
    <3> QED BY <3>2, <3>3, SaidStays DEF ScopeInv, TopicsWereSaid
  <2> QED BY <2>1, <2>2
<1>4. ASSUME NEW u \in Turns, NEW i \in turn'[u].shown
      PROVE  SaidIn(messages', memories'[i].topic, turn'[u].scope)
  <2>1. CASE i \in turn[u].shown /\ turn'[u].scope = turn[u].scope
    <3>1. memories'[i].topic = memories[i].topic
      BY <2>1, MemoriesStay DEF TypeInv, TypeOK
    <3> QED BY <2>1, <3>1, SaidStays DEF ScopeInv, TopicsWereSaid
  <2>2. CASE i \notin turn[u].shown \/ turn'[u].scope # turn[u].scope
    <3>1. /\ i \in turn[u].shown \/ i \in Eligible(pc[u], turn[u].scope)
          /\ UNCHANGED <<memories, messages>> /\ turn'[u].scope = turn[u].scope
      BY <1>4, <2>2, ShownStep, RetrievalsType
    <3>2. i \in DOMAIN memories /\ InScope(memories[i], turn[u].scope)
      BY <2>2, <3>1 DEF Eligible
    <3>3. SaidIn(messages, memories[i].topic, memories[i].scope)
      BY <3>2 DEF ScopeInv, TopicsWereSaid
    <3> QED BY <3>1, <3>2, <3>3, SaidForSpecial
  <2> QED BY <2>1, <2>2
<1> QED BY <1>1, <1>2, <1>3, <1>4 DEF TopicsWereSaid

\* Where every chat has one scope, what a turn is shown was said by its user,
\* for its client and business or for all of them.
THEOREM ScopesAreKept ==
    ASSUME OneScopePerChat
    PROVE  Spec => []MemoriesKeepTheirScope
<1>1. TypeInv /\ ScopeInv /\ [Next]_vars => ScopeInv'
  BY ScopesNext, TopicsNext DEF ScopeInv
<1>2. ScopeInv => MemoriesKeepTheirScope
  BY DEF ScopeInv, TopicsWereSaid, MemoriesKeepTheirScope, SaidFor, SaidIn
<1> QED BY TypeInit, TypeNext, ScopeInit, <1>1, <1>2, PTL DEF Spec

-----------------------------------------------------------------------------
(* Order. *)

\* A turn lists its facts first, then its skills.
ListedInv ==
    \A t \in Turns :
        /\ pc[t] \in {"idle", "fact"} => turn[t].shown = {}
        /\ pc[t] = "skill" => \A i \in turn[t].shown : memories[i].kind = "fact"

LEMMA ListedInit == Init => ListedInv
BY DEF Init, ListedInv, Idle

LEMMA ListedNext == TypeInv /\ ListedInv /\ [Next]_vars => ListedInv'
<1> SUFFICES ASSUME TypeInv, ListedInv, [Next]_vars, NEW u \in Turns
             PROVE  /\ pc'[u] \in {"idle", "fact"} => turn'[u].shown = {}
                    /\ pc'[u] = "skill" => \A i \in turn'[u].shown : memories'[i].kind = "fact"
  BY DEF ListedInv
<1>0. turn \in [Turns -> Turn] /\ pc \in [Turns -> Places] /\ Idle.shown = {}
  BY DEF TypeInv, TypeOK, Idle
<1>1. \A i \in turn[u].shown : memories'[i].kind = memories[i].kind
  BY MemoriesStay DEF TypeInv, TypeOK
<1>2. CASE pc'[u] = pc[u] /\ (turn'[u].shown = turn[u].shown \/ turn'[u].shown = {})
  BY <1>1, <1>2 DEF ListedInv
<1>3. ASSUME NEW t \in Turns, Ask(t)
      PROVE  (pc'[u] = pc[u] /\ turn'[u] = turn[u]) \/ (pc'[u] = "fact" /\ turn'[u].shown = {})
  <2>1. PICK chat, scope : turn' = [turn EXCEPT ![t] = [Idle EXCEPT !.chat = chat, !.scope = scope]]
    BY <1>3 DEF Ask
  <2>2. [Idle EXCEPT !.chat = chat, !.scope = scope].shown = {}
    BY DEF Idle
  <2>3. pc' = [pc EXCEPT ![t] = "fact"]
    BY <1>3 DEF Ask, Goto
  <2> QED BY <1>0, <2>1, <2>2, <2>3
<1>4. ASSUME NEW t \in Turns, List(t, "fact", "skill")
      PROVE  \/ pc'[u] = pc[u] /\ turn'[u] = turn[u]
             \/ /\ pc'[u] = "skill" /\ UNCHANGED memories
                /\ \A i \in turn'[u].shown : memories[i].kind = "fact"
  <2>1. PICK found \in Retrievals("fact", turn[t].scope, Limits["fact"]) :
            turn' = [turn EXCEPT ![t].shown = @ \cup found]
    BY <1>4 DEF List
  <2>2. \A i \in found : memories[i].kind = "fact"
    BY RetrievalsType DEF Eligible
  <2>3. pc[t] = "fact" /\ pc' = [pc EXCEPT ![t] = "skill"] /\ UNCHANGED memories
    BY <1>4 DEF List, Goto
  <2>4. turn[t].shown = {}
    BY <2>3 DEF ListedInv
  <2>5. turn'[t].shown = found
    BY <1>0, <2>1, <2>4 DEF Turn
  <2> QED BY <1>0, <2>1, <2>2, <2>3, <2>5
<1>5. ASSUME NEW t \in Turns, Done(t)
      PROVE  (pc'[u] = pc[u] /\ turn'[u] = turn[u]) \/ turn'[u].shown = {}
  BY <1>0, <1>5 DEF Done, Goto
<1>6. ASSUME NEW t \in Turns,
             \/ List(t, "skill", "answering") \/ Answer(t) \/ Read(t)
             \/ Learned(t) /\ ~Done(t)
             \/ Save(t) /\ ~Done(t)
      PROVE  \/ pc'[u] = pc[u] /\ turn'[u].shown = turn[u].shown
             \/ pc'[u] \in {"answering", "answered", "learning", "saving"}
  BY <1>0, <1>6 DEF List, Answer, Read, Learned, Save, Goto, Turn
<1>7. CASE Crash
  BY <1>0, <1>7 DEF Crash
<1>8. ASSUME NEW t \in Turns, Leave(t) \/ GiveUp(t)
      PROVE  Done(t)
  BY <1>8 DEF Leave, GiveUp
<1>9. ASSUME \/ \E kind \in Kinds, user \in Users : ListAll(kind, user)
             \/ \E i \in seen, status \in Statuses : Patch(i, status)
             \/ UNCHANGED vars
      PROVE  pc' = pc /\ turn' = turn
  BY <1>9 DEF ListAll, Patch, vars
<1>10. CASE turn'[u].shown = {}
  BY <1>10
<1>11. CASE pc'[u] \in {"answering", "answered", "learning", "saving"}
  BY <1>11
<1>12. CASE /\ pc'[u] = "skill" /\ UNCHANGED memories
            /\ \A i \in turn'[u].shown : memories[i].kind = "fact"
  BY <1>12
<1> QED BY <1>2, <1>3, <1>4, <1>5, <1>6, <1>7, <1>8, <1>9, <1>10, <1>11, <1>12 DEF Next

\* None of a client's own memories is left out of a turn in favour of one
\* that is not the client's.
THEOREM ClientsFirst == Spec => ClientsComeFirst
<1> DEFINE First(t, kind) ==
        pc[t] = kind =>
          \A j \in DOMAIN memories :
              /\ memories[j].kind = kind /\ memories[j].status = "active"
              /\ InScope(memories[j], turn[t].scope)
              /\ memories[j].scope.client # None
              => \/ j \in turn'[t].shown
                 \/ \A i \in turn'[t].shown :
                       memories[i].kind = kind => memories[i].scope.client # None
<1>1. ASSUME TypeInv, ListedInv, [Next]_vars, NEW t \in Turns, NEW kind \in Kinds
      PROVE  First(t, kind)
  <2> SUFFICES ASSUME pc[t] = kind, NEW j \in DOMAIN memories,
                      memories[j].kind = kind, memories[j].status = "active",
                      InScope(memories[j], turn[t].scope), memories[j].scope.client # None,
                      j \notin turn'[t].shown, NEW i \in turn'[t].shown,
                      memories[i].kind = kind
               PROVE  memories[i].scope.client # None
    OBVIOUS
  <2>1. i \notin turn[t].shown
    BY <1>1 DEF ListedInv, Kinds
  <2>2. PICK found \in Retrievals(kind, turn[t].scope, Limits[kind]) :
            turn'[t].shown = turn[t].shown \cup found
    BY <1>1, <2>1, ShownStep
  <2>3. i \in found /\ j \in Eligible(kind, turn[t].scope) \ found
    BY <2>1, <2>2 DEF Eligible
  <2>4. ~Before(memories[j], memories[i], turn[t].scope)
    BY <2>3 DEF Retrievals
  <2>5. memories[j].scope.client = turn[t].scope.client
    BY DEF InScope
  <2> QED BY <2>4, <2>5 DEF Before
<1>2. TypeInv /\ ListedInv /\ [Next]_vars => \A t \in Turns, kind \in Kinds : First(t, kind)
  BY <1>1
<1> QED BY TypeInit, TypeNext, ListedInit, ListedNext, <1>2, PTL DEF Spec, ClientsComeFirst

=============================================================================
