----------------------------- MODULE LlmAccess -----------------------------
(***************************************************************************)
(* Chat's client of the language model: LlmClient of clients/llm.py with   *)
(* the metrics of services/llm_metrics.py.                                 *)
(*                                                                         *)
(* One asyncio.Lock admits one request at a time.  A completion holds it   *)
(* while the server works; a stream holds it while chunks arrive and, since*)
(* stream_prompt is a generator, also while its reader sends a chunk on to *)
(* the browser.  A reader that goes away in the middle of that leaves the  *)
(* generator, and the lock, to the finalizer of the event loop.            *)
(***************************************************************************)
EXTENDS Naturals, Sequences, FiniteSets, SequencesExt

CONSTANTS
    Callers,    \* the handlers that call the model
    Streams,    \* those of POST /ai/chat/stream; the others of POST /ai/chat
    MaxCalls,   \* bound: calls of one handler
    MaxChunks,  \* bound: chunks of one stream (n_predict)
    NoCaller

ASSUME CallersAssumption == Streams \subseteq Callers /\ NoCaller \notin Callers
ASSUME CallsAssumption == MaxCalls \in Nat /\ MaxChunks \in Nat

VARIABLES
    holder,     \* who has _request_lock
    waiting,    \* who waits for it, in order
    place,      \* where each handler is
    wish,       \* the method it has called
    calls,      \* how many calls it has made
    chunks,     \* how many chunks its stream has brought
    metrics     \* LlmRequestMetrics of the streams

llmVars == <<holder, waiting, place, wish, calls, chunks, metrics>>

Methods == {"complete_prompt", "stream_prompt"}

\* "sending": a chunk is on its way to the browser; "left": the generator was
\* abandoned there; "gone": the handler has been cancelled.
InFlight == {"posted", "reading", "sending", "left"}
Places   == InFlight \cup {"idle", "waiting", "gone"}

\* Every variable keeps its type; exactly those who wait are in the queue, once; and no
\* call is counted twice.
LlmTypeOK ==
    /\ holder \in Callers \cup {NoCaller}
    /\ waiting \in Seq(Callers)
    /\ place \in [Callers -> Places]
    /\ wish \in [Callers -> Methods]
    /\ calls \in [Callers -> 0..MaxCalls]
    /\ chunks \in [Callers -> 0..MaxChunks]
    /\ metrics \in [Callers -> [llm_calls : 0..MaxCalls, finalized : BOOLEAN]]
    /\ \A c \in Callers : metrics[c].llm_calls <= calls[c]
    /\ \A c \in Callers :
          Cardinality({i \in DOMAIN waiting : waiting[i] = c}) =
              IF place[c] = "waiting" THEN 1 ELSE 0

LlmInit ==
    /\ holder = NoCaller
    /\ waiting = <<>>
    /\ place = [c \in Callers |-> "idle"]
    /\ wish = [c \in Callers |-> "complete_prompt"]
    /\ calls = [c \in Callers |-> 0]
    /\ chunks = [c \in Callers |-> 0]
    /\ metrics = [c \in Callers |-> [llm_calls |-> 0, finalized |-> FALSE]]

-----------------------------------------------------------------------------
\* asyncio.Lock is fair: a newcomer does not overtake those who wait.
LockIsFree == holder = NoCaller /\ waiting = <<>>

Begun(w) == IF w = "complete_prompt" THEN "posted" ELSE "reading"

\* complete_prompt or stream_prompt, up to `async with self._request_lock`.
\* After its final event a stream only completes prompts, to learn from the turn.
Call(c, w) ==
    /\ place[c] = "idle" /\ calls[c] < MaxCalls
    /\ w = "stream_prompt" => c \in Streams /\ ~metrics[c].finalized
    /\ calls' = [calls EXCEPT ![c] = @ + 1]
    /\ wish' = [wish EXCEPT ![c] = w]
    /\ chunks' = [chunks EXCEPT ![c] = 0]
    /\ IF LockIsFree
       THEN /\ holder' = c
            /\ place' = [place EXCEPT ![c] = Begun(w)]
            /\ UNCHANGED waiting
       ELSE /\ waiting' = Append(waiting, c)
            /\ place' = [place EXCEPT ![c] = "waiting"]
            /\ UNCHANGED holder
    /\ UNCHANGED metrics

\* The first who waits gets the lock and sends its request.
Acquire ==
    /\ holder = NoCaller /\ waiting # <<>>
    /\ LET c == Head(waiting)
       IN  /\ holder' = c
           /\ place' = [place EXCEPT ![c] = Begun(wish[c])]
    /\ waiting' = Tail(waiting)
    /\ UNCHANGED <<wish, calls, chunks, metrics>>

\* The end of `async with`, in whatever way it is left.
Release(c, p) ==
    /\ holder' = NoCaller
    /\ place' = [place EXCEPT ![c] = p]

\* record_llm_response: only streams have metrics, and only until the snapshot.
Recorded(c) ==
    IF c \in Streams /\ ~metrics[c].finalized
    THEN [metrics EXCEPT ![c].llm_calls = @ + 1]
    ELSE metrics

-----------------------------------------------------------------------------
\* complete_prompt: a JSON object arrives.  It counts even without content, which
\* is an error to the caller.
Answer(c) ==
    /\ place[c] = "posted"
    /\ metrics' = Recorded(c)
    /\ Release(c, "idle")
    /\ UNCHANGED <<waiting, wish, calls, chunks>>

\* httpx.HTTPError (refused, a bad status, the timeout), from either method, or
\* an answer that is not a JSON object: LlmServiceError.
Fail(c) ==
    /\ place[c] \in {"posted", "reading"}
    /\ Release(c, "idle")
    /\ UNCHANGED <<waiting, wish, calls, chunks, metrics>>

\* stream_prompt: an event brings content, which is yielded and sent on, or kept
\* back by the reader.
Chunk(c) ==
    /\ place[c] = "reading" /\ chunks[c] < MaxChunks
    /\ chunks' = [chunks EXCEPT ![c] = @ + 1]
    /\ place' \in {place, [place EXCEPT ![c] = "sending"]}
    /\ UNCHANGED <<holder, waiting, wish, calls, metrics>>

\* The browser has taken the chunk: the generator goes on.
Sent(c) ==
    /\ place[c] = "sending"
    /\ place' = [place EXCEPT ![c] = "reading"]
    /\ UNCHANGED <<holder, waiting, wish, calls, chunks, metrics>>

\* The event with "stop": true.
Stop(c) ==
    /\ place[c] = "reading"
    /\ metrics' = Recorded(c)
    /\ Release(c, "idle")
    /\ UNCHANGED <<waiting, wish, calls, chunks>>

\* The body ends without it: for the reader no different from a whole answer.
EndWithoutStop(c) ==
    /\ place[c] = "reading"
    /\ Release(c, "idle")
    /\ UNCHANGED <<waiting, wish, calls, chunks, metrics>>

-----------------------------------------------------------------------------
\* finalize_response: the snapshot ends the counting.
Snapshot(c) ==
    /\ c \in Streams /\ place[c] = "idle" /\ ~metrics[c].finalized
    /\ metrics' = [metrics EXCEPT ![c].finalized = TRUE]
    /\ UNCHANGED <<holder, waiting, place, wish, calls, chunks>>

\* Mutant of Abandon: the lock is released although the generator still has its
\* response open.
AbandonLock(c) ==
    /\ c \in Streams /\ place[c] = "sending"
    /\ Release(c, "left")
    /\ UNCHANGED <<waiting, wish, calls, chunks, metrics>>

\* The client of a stream goes away while a chunk is sent to it: the task is
\* cancelled there, outside the generators, which stay suspended at their yields.
Abandon(c) ==
    /\ c \in Streams /\ place[c] = "sending"
    /\ place' = [place EXCEPT ![c] = "left"]
    /\ UNCHANGED <<holder, waiting, wish, calls, chunks, metrics>>

\* Mutant of Close: the lock stays with the generator that nobody reads.
CloseWithLock(c) ==
    /\ place[c] = "left"
    /\ place' = [place EXCEPT ![c] = "gone"]
    /\ UNCHANGED <<holder, waiting, wish, calls, chunks, metrics>>

\* The event loop closes the abandoned generators.
Close(c) ==
    /\ place[c] = "left"
    /\ Release(c, "gone")
    /\ UNCHANGED <<waiting, wish, calls, chunks, metrics>>

\* It goes away while the handler awaits the server: the cancellation passes
\* through the generators and leaves the `async with` on its way.  The learning, a
\* background task, is not cancelled.
CancelRequest(c) ==
    /\ c \in Streams /\ ~metrics[c].finalized /\ place[c] \in {"posted", "reading"}
    /\ Release(c, "gone")
    /\ UNCHANGED <<waiting, wish, calls, chunks, metrics>>

\* Mutant of CancelWait: the future of the cancelled waiter stays in the queue.
CancelWaitInQueue(c) ==
    /\ c \in Streams /\ ~metrics[c].finalized /\ place[c] = "waiting"
    /\ place' = [place EXCEPT ![c] = "gone"]
    /\ UNCHANGED <<holder, waiting, wish, calls, chunks, metrics>>

\* It goes away while the handler waits for the lock.
CancelWait(c) ==
    /\ c \in Streams /\ ~metrics[c].finalized /\ place[c] = "waiting"
    /\ \E i \in DOMAIN waiting : waiting[i] = c /\ waiting' = RemoveAt(waiting, i)
    /\ place' = [place EXCEPT ![c] = "gone"]
    /\ UNCHANGED <<holder, wish, calls, chunks, metrics>>

Serve(c)  == Answer(c) \/ Fail(c) \/ Chunk(c) \/ Stop(c) \/ EndWithoutStop(c)
Read(c)   == Sent(c) \/ Abandon(c)

LlmNext ==
    \/ \E c \in Callers, w \in Methods : Call(c, w)
    \/ Acquire
    \/ \E c \in Callers :
        \/ Serve(c) \/ Read(c) \/ Snapshot(c)
        \/ Close(c) \/ CancelRequest(c) \/ CancelWait(c)

\* The server answers or the request times out; a browser takes what it is sent
\* or goes away; the event loop runs what is ready, its finalizers among it.
LlmFairness ==
    /\ WF_llmVars(Acquire)
    /\ \A c \in Callers :
        /\ WF_llmVars(Serve(c)) /\ WF_llmVars(Read(c)) /\ WF_llmVars(Close(c))

LlmSpec == LlmInit /\ [][LlmNext]_llmVars /\ LlmFairness

-----------------------------------------------------------------------------
\* Who has a request in flight has the lock, and the other way round, whoever fails, is
\* cancelled or walks away from a stream: the server never works for two callers of Chat
\* at once (LLAMA_PARALLEL is 1), and nobody takes the lock with him.
OneRequestAtATime ==
    \A c \in Callers : place[c] \in InFlight <=> holder = c

\* Whoever waits for the model is served or cancelled, behind slow readers,
\* streams that were left and requests that time out.
CallsEnd ==
    \A c \in Callers :
        place[c] \in {"waiting"} \cup InFlight ~> place[c] \in {"idle", "gone"}
=============================================================================
