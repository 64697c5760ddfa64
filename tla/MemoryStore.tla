------------------------------ MODULE MemoryStore ------------------------------
(***************************************************************************)
(* What Chat remembers beyond one chat: the facts and skills that a model   *)
(* proposes after a turn, saved one transaction each, and listed at the     *)
(* start of every turn that their scope admits; and the endpoints that list *)
(* them and set their status.                                               *)
(*                                                                          *)
(* A message or a memory is known by its topic.  What the model says or     *)
(* proposes is free, but taken from what it was shown.  Turns are those of  *)
(* ChatTurn, seen from their memories: they share one event loop, and the   *)
(* endpoints run in threads, between any two transactions.  last_used_at    *)
(* and expires_at, which nothing reads, are left out, and memories of equal *)
(* rank, which the code lists by time, come in any order.                   *)
(***************************************************************************)
EXTENDS Integers, Sequences, FiniteSets

CONSTANTS
    Turns,          \* turns that can be under way at once
    Chats,
    Users,
    Businesses,
    Clients,
    Topics,         \* what messages are about
    ScopesOf,       \* the scopes that the requests of each chat come with
    Confidences,    \* confidences a model attaches, in percent
    MaxFacts,       \* facts in one answer of the model (5)
    MaxSkills,      \* skills in one answer of the model (3)
    Limits,         \* memories of each kind that a turn is given (10 and 5)
    PageSize,       \* memories in an answer of the endpoints (100)
    Window,         \* messages that are learned from (8)
    MaxRequests,    \* bound: requests in a behaviour
    MaxPatches,     \* bound: reviews in a behaviour
    None            \* NULL

Maybe(S) == S \cup {None}
Kinds    == {"fact", "skill"}
Scope    == [user : Users, business : Maybe(Businesses), client : Maybe(Clients)]

ASSUME ScopesAssumption == ScopesOf \in [Chats -> SUBSET Scope]
ASSUME NoneAssumption == None \notin Chats \cup Scope
ASSUME NumbersAssumption ==
    /\ Confidences \subseteq 0..100
    /\ Limits \in [Kinds -> Nat]
    /\ {MaxFacts, MaxSkills, PageSize, Window, MaxRequests, MaxPatches} \subseteq Nat

VARIABLES
    messages,   \* the messages of each chat, the oldest first
    memories,   \* shared_memories and skill_memories; an id is a position
    events,     \* memory_events: what was created, with which status
    pc,         \* where each turn is
    turn,       \* its locals
    seen,       \* ids that the endpoints have given out
    requests,   \* how many messages were sent
    patches     \* how many reviews were made

vars == <<messages, memories, events, pc, turn, seen, requests, patches>>

-----------------------------------------------------------------------------
Statuses == {"active", "needs_review", "disabled", "rejected"}

Message == [role : {"user", "assistant"}, scope : Scope, topic : Maybe(Topics)]

Candidate == [kind : Kinds, topic : Topics, confidence : Confidences]

Memory ==
    [kind : Kinds, scope : Scope, topic : Topics, confidence : Confidences,
     status : Statuses]

Event == [memory : Nat, status : Statuses]

\* A turn is asked, lists both kinds of memory, awaits its answer, and may be
\* learned from: at once, or after the stream has ended.
Places  == {"idle", "fact", "skill", "answering", "answered", "learning", "saving"}
Running == {"fact", "skill", "saving"}

Turn ==
    [chat : Maybe(Chats), scope : Maybe(Scope), shown : SUBSET Nat,
     transcript : SUBSET Topics, candidates : Seq(Candidate)]

Idle ==
    [chat |-> None, scope |-> None, shown |-> {}, transcript |-> {}, candidates |-> <<>>]

\* The event loop runs one turn at a time, from one await to the next.
OthersAwait(t) == \A u \in Turns \ {t} : pc[u] \notin Running

-----------------------------------------------------------------------------
(* Retrieval. *)

\* Mutant of InScope: the business alone decides.
InScopeOfBusiness(m, scope) ==
    /\ m.scope.user = scope.user
    /\ m.scope.business \in {None, scope.business}

\* The WHERE clause: a general memory is for every client, one of a client
\* or a business only for requests that name it.
InScope(m, scope) ==
    /\ m.scope.user = scope.user
    /\ m.scope.client \in {None, scope.client}
    /\ m.scope.business \in {None, scope.business}

\* Mutant of Eligible: only what a person has turned down is left out.
EligibleUnlessRejected(kind, scope) ==
    {i \in DOMAIN memories :
        /\ memories[i].kind = kind
        /\ memories[i].status \notin {"disabled", "rejected"}
        /\ InScope(memories[i], scope)}

Eligible(kind, scope) ==
    {i \in DOMAIN memories :
        /\ memories[i].kind = kind
        /\ memories[i].status = "active"
        /\ InScope(memories[i], scope)}

\* Mutant of Before: the surest come first.
BeforeByConfidence(m, n, scope) == m.confidence > n.confidence

\* The ORDER BY clause: the client's own, the business's own, the surest.
Before(m, n, scope) ==
    LET OfClient(x)   == x.scope.client # None /\ x.scope.client = scope.client
        OfBusiness(x) == x.scope.business # None /\ x.scope.business = scope.business
    IN  \/ OfClient(m) /\ ~OfClient(n)
        \/ /\ OfClient(m) = OfClient(n)
           /\ \/ OfBusiness(m) /\ ~OfBusiness(n)
              \/ OfBusiness(m) = OfBusiness(n) /\ m.confidence > n.confidence

\* What the query may return: limit memories, or all there are, none of which
\* comes after one that is left out.
Retrievals(kind, scope, limit) ==
    LET all  == Eligible(kind, scope)
        size == Cardinality(all)
    IN  {some \in SUBSET all :
            /\ Cardinality(some) = IF size < limit THEN size ELSE limit
            /\ \A i \in some, j \in all \ some : ~Before(memories[j], memories[i], scope)}

-----------------------------------------------------------------------------
Init ==
    /\ messages = [c \in Chats |-> <<>>]
    /\ memories = <<>>
    /\ events = <<>>
    /\ pc = [t \in Turns |-> "idle"]
    /\ turn = [t \in Turns |-> Idle]
    /\ seen = {}
    /\ requests = 0
    /\ patches = 0

Goto(t, place) == pc' = [pc EXCEPT ![t] = place]

Done(t) ==
    /\ Goto(t, "idle")
    /\ turn' = [turn EXCEPT ![t] = Idle]

\* A message arrives: it is stored under the scope of its request.
Ask(t) ==
    /\ pc[t] = "idle" /\ OthersAwait(t)
    /\ requests < MaxRequests
    /\ requests' = requests + 1
    /\ \E c \in Chats : \E s \in ScopesOf[c], topic \in Maybe(Topics) :
          /\ messages' = [messages EXCEPT ![c] =
                Append(@, [role |-> "user", scope |-> s, topic |-> topic])]
          /\ turn' = [turn EXCEPT ![t] = [Idle EXCEPT !.chat = c, !.scope = s]]
    /\ Goto(t, "fact")
    /\ UNCHANGED <<memories, events, seen, patches>>

\* list_shared_memories, then list_skill_memories.
List(t, kind, next) ==
    /\ pc[t] = kind
    /\ \E found \in Retrievals(kind, turn[t].scope, Limits[kind]) :
          turn' = [turn EXCEPT ![t].shown = @ \cup found]
    /\ Goto(t, next)
    /\ UNCHANGED <<messages, memories, events, seen, requests, patches>>

\* The answer: about something in the chat or in the memories, or neither.
Answer(t) ==
    /\ pc[t] = "answering" /\ OthersAwait(t)
    /\ LET c     == turn[t].chat
           known == {messages[c][i].topic : i \in DOMAIN messages[c]}
                       \cup {memories[i].topic : i \in turn[t].shown}
       IN  \E topic \in Maybe(known) :
              messages' = [messages EXCEPT ![c] =
                  Append(@, [role |-> "assistant", scope |-> turn[t].scope, topic |-> topic])]
    /\ Goto(t, "answered")
    /\ UNCHANGED <<memories, events, turn, seen, requests, patches>>

\* The turn ends without learning: a disconnect, a failed query, or, once it
\* has answered, an outage or a remembered value, which are said as well.
Leave(t) ==
    /\ pc[t] \in {"fact", "skill", "answering", "answered"} /\ OthersAwait(t)
    /\ Done(t)
    /\ UNCHANGED <<messages, memories, events, seen, requests, patches>>

\* What the model learns from: the latest messages, and the session of the chat, which may
\* hold anything that its user has said there.
Transcripts(chat) ==
    LET sent   == messages[chat]
        recent == {i \in DOMAIN sent : i > Len(sent) - Window}
        said   == {i \in DOMAIN sent : sent[i].role = "user"}
    IN  {{sent[i].topic : i \in recent \cup held} \ {None} : held \in SUBSET said}

\* _learn_from_turn reads the latest messages and asks the model.
Read(t) ==
    /\ pc[t] = "answered" /\ OthersAwait(t)
    /\ \E transcript \in Transcripts(turn[t].chat) :
          turn' = [turn EXCEPT ![t].transcript = transcript]
    /\ Goto(t, "learning")
    /\ UNCHANGED <<messages, memories, events, seen, requests, patches>>

\* At most max candidates of one kind.
Candidates(kind, transcript, max) ==
    UNION {[1..n -> [kind : {kind}, topic : transcript, confidence : Confidences]] :
              n \in 0..max}

\* Facts come before skills.
Proposals(transcript) ==
    {facts \o skills : facts \in Candidates("fact", transcript, MaxFacts),
                       skills \in Candidates("skill", transcript, MaxSkills)}

\* The model's candidates, if they validate.
Learned(t) ==
    /\ pc[t] = "learning" /\ OthersAwait(t)
    /\ \E candidates \in Proposals(turn[t].transcript) :
          \/ /\ candidates # <<>>
             /\ turn' = [turn EXCEPT ![t].candidates = candidates]
             /\ Goto(t, "saving")
          \/ candidates = <<>> /\ Done(t)
    /\ UNCHANGED <<messages, memories, events, seen, requests, patches>>

InitialStatus(confidence) == IF confidence >= 75 THEN "active" ELSE "needs_review"

\* Mutant of Save: the event has a transaction of its own, which may fail.
SaveInTwo(t) ==
    /\ pc[t] = "saving"
    /\ LET it     == Head(turn[t].candidates)
           status == InitialStatus(it.confidence)
           left   == Tail(turn[t].candidates)
       IN  /\ memories' = Append(memories,
                 [kind |-> it.kind, scope |-> turn[t].scope, topic |-> it.topic,
                  confidence |-> it.confidence, status |-> status])
           /\ \/ events' = events /\ Done(t)
              \/ /\ events' = Append(events, [memory |-> Len(memories) + 1, status |-> status])
                 /\ \/ left = <<>> /\ Done(t)
                    \/ /\ left # <<>>
                       /\ turn' = [turn EXCEPT ![t].candidates = left]
                       /\ UNCHANGED pc
    /\ UNCHANGED <<messages, seen, requests, patches>>

\* save_fact and save_skill: a memory and its event, under the scope of the
\* request that is learned from.
Save(t) ==
    /\ pc[t] = "saving"
    /\ LET it     == Head(turn[t].candidates)
           status == InitialStatus(it.confidence)
           left   == Tail(turn[t].candidates)
       IN  /\ memories' = Append(memories,
                 [kind |-> it.kind, scope |-> turn[t].scope, topic |-> it.topic,
                  confidence |-> it.confidence, status |-> status])
           /\ events' = Append(events, [memory |-> Len(memories) + 1, status |-> status])
           /\ \/ left = <<>> /\ Done(t)
              \/ /\ left # <<>>
                 /\ turn' = [turn EXCEPT ![t].candidates = left]
                 /\ UNCHANGED pc
    /\ UNCHANGED <<messages, seen, requests, patches>>

\* Anything raised on the way is logged and forgotten, with what is left.
GiveUp(t) ==
    /\ pc[t] \in {"learning", "saving"} /\ OthersAwait(t)
    /\ Done(t)
    /\ UNCHANGED <<messages, memories, events, seen, requests, patches>>

-----------------------------------------------------------------------------
(* The endpoints. *)

\* GET /shared-memories, GET /skill-memories: a user's, of no client.
ListAll(kind, user) ==
    /\ \E found \in Retrievals(kind, [user |-> user, business |-> None, client |-> None],
                               PageSize) :
          seen' = seen \cup found
    /\ UNCHANGED <<messages, memories, events, pc, turn, requests, patches>>

\* PATCH of a memory: ids cannot be guessed, only kept from a list.
Patch(i, status) ==
    /\ i \in seen
    /\ patches < MaxPatches
    /\ patches' = patches + 1
    /\ memories' = [memories EXCEPT ![i].status = status]
    /\ UNCHANGED <<messages, events, pc, turn, seen, requests>>

\* The process is killed: what was committed stays.
Crash ==
    /\ pc' = [t \in Turns |-> "idle"]
    /\ turn' = [t \in Turns |-> Idle]
    /\ UNCHANGED <<messages, memories, events, seen, requests, patches>>

Next ==
    \/ \E t \in Turns :
          \/ Ask(t) \/ List(t, "fact", "skill") \/ List(t, "skill", "answering")
          \/ Answer(t) \/ Leave(t) \/ Read(t) \/ Learned(t) \/ Save(t) \/ GiveUp(t)
    \/ \E kind \in Kinds, user \in Users : ListAll(kind, user)
    \/ \E i \in seen, status \in Statuses : Patch(i, status)
    \/ Crash

Spec == Init /\ [][Next]_vars

-----------------------------------------------------------------------------
\* Every memory has its event, and a turn is where its locals say.
TypeOK ==
    /\ messages \in [Chats -> Seq(Message)]
    /\ memories \in Seq(Memory)
    /\ events \in Seq(Event) /\ Len(events) = Len(memories)
    /\ pc \in [Turns -> Places]
    /\ turn \in [Turns -> Turn]
    /\ seen \subseteq DOMAIN memories
    /\ requests \in 0..MaxRequests /\ patches \in 0..MaxPatches
    /\ \A t \in Turns :
          /\ turn[t].shown \subseteq DOMAIN memories
          /\ pc[t] # "idle" => turn[t].chat # None /\ turn[t].scope # None
          /\ pc[t] = "saving" => turn[t].candidates # <<>>

\* A user has said it in a scope whose memories the reader is entitled to.
SaidFor(topic, reader) ==
    \E c \in Chats : \E i \in DOMAIN messages[c] :
        LET m == messages[c][i]
        IN  /\ m.role = "user" /\ m.topic = topic
            /\ m.scope.user = reader.user
            /\ m.scope.client = None \/ m.scope.client = reader.client
            /\ m.scope.business = None \/ m.scope.business = reader.business

\* What a turn is shown was said by its user, for its client and business or
\* for all of them, on whatever way it was learned (shared-memory.md: "shared
\* across allowed chats in the same scope").  It takes a chat for each scope.
MemoriesKeepTheirScope ==
    \A t \in Turns : \A i \in turn[t].shown : SaidFor(memories[i].topic, turn[t].scope)

\* What the model was unsure of reaches no answer: it needs a review, which
\* takes an id that the endpoints do not give out (skill-memory.md:
\* "Lower-confidence candidates use needs_review").
UnsureMemoriesAreNotShown ==
    \A t \in Turns : \A i \in turn[t].shown : memories[i].confidence >= 75

\* When a turn is given its memories, none of its own client is left out in
\* favour of one that is not (shared-memory.md: "exact client matches first").
ClientsComeFirst ==
    [][\A t \in Turns, kind \in Kinds : pc[t] = kind =>
          \A j \in DOMAIN memories :
              /\ memories[j].kind = kind /\ memories[j].status = "active"
              /\ InScope(memories[j], turn[t].scope)
              /\ memories[j].scope.client # None
              => \/ j \in turn'[t].shown
                 \/ \A i \in turn'[t].shown :
                       memories[i].kind = kind => memories[i].scope.client # None]_vars
=============================================================================
