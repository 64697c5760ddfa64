-------------------------- MODULE ServiceParts_proofs --------------------------
(***************************************************************************)
(* What holds of the parts beside the turns, each by itself (the lock of   *)
(* the language model, the UI settings, the threads with their messages,   *)
(* the migration; the stream has a module of its own), and of all of them  *)
(* side by side, as MCServiceParts puts them.                              *)
(***************************************************************************)
EXTENDS MCServiceParts, AnswerStream_proofs

-----------------------------------------------------------------------------
(***************************************************************************)
(* LlmAccess.  That a request in flight and the lock go together is        *)
(* inductive with the types of the variables.  The types hold one thing    *)
(* that is not: exactly those who wait are queued, once, which is a count. *)
(* Queued says it without counting, and Uncounted why no answer is counted *)
(* twice: whoever has called has an answer to come.                        *)
(***************************************************************************)

TypesOK ==
    /\ holder \in Callers \cup {NoCaller}
    /\ waiting \in Seq(Callers)
    /\ place \in [Callers -> Places]
    /\ wish \in [Callers -> Methods]
    /\ calls \in [Callers -> 0..MaxCalls]
    /\ chunks \in [Callers -> 0..MaxChunks]
    /\ metrics \in [Callers -> [llm_calls : 0..MaxCalls, finalized : BOOLEAN]]

Uncounted ==
    \A c \in Callers :
        /\ metrics[c].llm_calls <= calls[c]
        /\ place[c] \in InFlight \cup {"waiting"} => metrics[c].llm_calls < calls[c]

Queued ==
    /\ \A i, j \in 1..Len(waiting) : waiting[i] = waiting[j] => i = j
    /\ \A c \in Callers : place[c] = "waiting" <=> \E i \in 1..Len(waiting) : waiting[i] = c

LlmInv == TypesOK /\ Uncounted /\ Queued /\ OneRequestAtATime

-----------------------------------------------------------------------------
(* Sequences and counts. *)

LEMMA Appended ==
    ASSUME NEW S, NEW s \in Seq(S), NEW e \in S
    PROVE  /\ Append(s, e) \in Seq(S)
           /\ Len(Append(s, e)) = Len(s) + 1
           /\ \A k \in 1..Len(s) : Append(s, e)[k] = s[k]
           /\ Append(s, e)[Len(s) + 1] = e
OBVIOUS

LEMMA TailOf ==
    ASSUME NEW S, NEW s \in Seq(S), s # <<>>
    PROVE  /\ Len(s) >= 1 /\ Head(s) = s[1] /\ Head(s) \in S
           /\ Tail(s) \in Seq(S)
           /\ Len(Tail(s)) = Len(s) - 1
           /\ \A k \in 1..Len(s) - 1 : Tail(s)[k] = s[k + 1]
OBVIOUS

LEMMA Removed ==
    ASSUME NEW S, NEW s \in Seq(S), NEW i \in 1..Len(s)
    PROVE  /\ RemoveAt(s, i) \in Seq(S)
           /\ Len(RemoveAt(s, i)) = Len(s) - 1
           /\ \A k \in 1..Len(s) - 1 :
                 RemoveAt(s, i)[k] = IF k < i THEN s[k] ELSE s[k + 1]
<1> DEFINE front == SubSeq(s, 1, i - 1)
           back  == SubSeq(s, i + 1, Len(s))
<1>1. front \in Seq(S) /\ Len(front) = i - 1 /\ \A k \in 1..i - 1 : front[k] = s[k]
  OBVIOUS
<1>2. /\ back \in Seq(S) /\ Len(back) = Len(s) - i
      /\ \A k \in 1..Len(s) - i : back[k] = s[k + i]
  OBVIOUS
<1>3. RemoveAt(s, i) = front \o back
  BY DEF RemoveAt
<1> HIDE DEF front, back
<1>4. /\ front \o back \in Seq(S)
      /\ Len(front \o back) = Len(front) + Len(back)
      /\ \A k \in 1..Len(front) + Len(back) :
            (front \o back)[k] = IF k <= Len(front) THEN front[k] ELSE back[k - Len(front)]
  BY <1>1, <1>2, ConcatProperties
<1> Len(s) \in Nat /\ i \in Nat /\ i >= 1 /\ i <= Len(s)
  OBVIOUS
<1>5. ASSUME NEW k \in 1..Len(s) - 1
      PROVE  (front \o back)[k] = IF k < i THEN s[k] ELSE s[k + 1]
  <2>1. CASE k < i
    BY <2>1, <1>1, <1>4
  <2>2. CASE ~ (k < i)
    <3>1. k - (i - 1) \in 1..Len(s) - i /\ k - (i - 1) + i = k + 1
      BY <2>2
    <3>2. (front \o back)[k] = back[k - (i - 1)]
      BY <2>2, <1>1, <1>2, <1>4
    <3>3. back[k - (i - 1)] = s[k - (i - 1) + i]
      BY <3>1, <1>2
    <3> QED
      BY <2>2, <3>1, <3>2, <3>3
  <2> QED
    BY <2>1, <2>2
<1>6. Len(front \o back) = Len(s) - 1
  BY <1>1, <1>2, <1>4
<1> QED
  BY <1>3, <1>4, <1>5, <1>6

LEMMA QueuedOnce ==
    ASSUME TypesOK, Queued, NEW c \in Callers
    PROVE  Cardinality({i \in DOMAIN waiting : waiting[i] = c}) =
               IF place[c] = "waiting" THEN 1 ELSE 0
<1> DEFINE at == {i \in DOMAIN waiting : waiting[i] = c}
<1>1. DOMAIN waiting = 1..Len(waiting)
  BY DEF TypesOK
<1>2. CASE place[c] = "waiting"
  <2>1. PICK i \in 1..Len(waiting) : waiting[i] = c
    BY <1>2 DEF Queued
  <2>2. at = {i}
    BY <1>1, <2>1 DEF Queued
  <2> QED
    BY <1>2, <2>2, FS_Singleton
<1>3. CASE place[c] # "waiting"
  <2>1. at = {}
    BY <1>1, <1>3 DEF Queued
  <2> QED
    BY <1>3, <2>1, FS_EmptySet
<1> QED
  BY <1>2, <1>3

LEMMA LlmInvImplies == LlmInv => LlmTypeOK
BY QueuedOnce DEF LlmInv, LlmTypeOK, TypesOK, Uncounted

-----------------------------------------------------------------------------
(* The steps. *)

LEMMA LlmInitInv == LlmInit => LlmInv
<1> SUFFICES ASSUME LlmInit PROVE LlmInv
  OBVIOUS
<1>1. TypesOK
  BY CallsAssumption DEF LlmInit, TypesOK, Places, InFlight, Methods
<1>2. Uncounted
  BY DEF LlmInit, Uncounted, InFlight
<1>3. Queued
  BY DEF LlmInit, Queued
<1>4. OneRequestAtATime
  BY CallersAssumption DEF LlmInit, OneRequestAtATime, InFlight
<1> QED
  BY <1>1, <1>2, <1>3, <1>4 DEF LlmInv

\* An answer to come makes room for its count.
LEMMA RecordedOnce ==
    ASSUME LlmInv, NEW c \in Callers, place[c] \in InFlight
    PROVE  /\ Recorded(c) \in [Callers -> [llm_calls : 0..MaxCalls, finalized : BOOLEAN]]
           /\ \A d \in Callers : d # c => Recorded(c)[d] = metrics[d]
           /\ Recorded(c)[c].llm_calls <= calls[c]
<1>1. CASE Recorded(c) = metrics
  BY <1>1 DEF LlmInv, TypesOK, Uncounted
<1>2. CASE Recorded(c) = [metrics EXCEPT ![c].llm_calls = @ + 1]
  <2>1. /\ metrics[c] \in [llm_calls : 0..MaxCalls, finalized : BOOLEAN]
        /\ calls[c] \in 0..MaxCalls /\ metrics[c].llm_calls < calls[c]
    BY DEF LlmInv, TypesOK, Uncounted
  <2>2. /\ metrics[c].llm_calls + 1 \in 0..MaxCalls
        /\ metrics[c].llm_calls + 1 <= calls[c]
    BY <2>1, CallsAssumption
  <2>3. [metrics[c] EXCEPT !.llm_calls = @ + 1]
            \in [llm_calls : 0..MaxCalls, finalized : BOOLEAN]
    BY <2>1, <2>2
  <2> QED
    BY <1>2, <2>1, <2>2, <2>3 DEF LlmInv, TypesOK
<1> QED
  BY <1>1, <1>2 DEF Recorded

\* Whoever has the lock and gives it back was the only one in flight.
LEMMA ReleaseInv ==
    ASSUME LlmInv, NEW c \in Callers, place[c] \in InFlight,
           NEW p \in {"idle", "gone"}, Release(c, p),
           UNCHANGED <<waiting, wish, calls, chunks>>,
           metrics' \in {metrics, Recorded(c)}
    PROVE  LlmInv'
<1> USE DEF InFlight, Places
<1>1. TypesOK'
  BY RecordedOnce DEF LlmInv, TypesOK, Release
<1>2. Uncounted'
  BY RecordedOnce DEF LlmInv, TypesOK, Release, Uncounted
<1>3. Queued'
  BY DEF LlmInv, TypesOK, Release, Queued
<1>4. OneRequestAtATime'
  BY CallersAssumption DEF LlmInv, TypesOK, Release, OneRequestAtATime
<1> QED
  BY <1>1, <1>2, <1>3, <1>4 DEF LlmInv

\* A request in flight that goes on keeps the lock.
LEMMA ContinueInv ==
    ASSUME LlmInv, NEW c \in Callers, place[c] \in InFlight, NEW p \in InFlight,
           place' \in {place, [place EXCEPT ![c] = p]},
           chunks' \in [Callers -> 0..MaxChunks],
           UNCHANGED <<holder, waiting, wish, calls, metrics>>
    PROVE  LlmInv'
<1> USE DEF InFlight, Places
<1>1. TypesOK'
  BY DEF LlmInv, TypesOK
<1>2. Uncounted' /\ Queued' /\ OneRequestAtATime'
  BY DEF LlmInv, TypesOK, Uncounted, Queued, OneRequestAtATime
<1> QED
  BY <1>1, <1>2 DEF LlmInv

LEMMA CallInv ==
    ASSUME LlmInv, NEW c \in Callers, NEW w \in Methods, Call(c, w)
    PROVE  LlmInv'
<1> USE DEF InFlight, Places, Methods
<1>1. CASE LockIsFree
  <2>1. TypesOK'
    <3>1. /\ calls' \in [Callers -> 0..MaxCalls] /\ chunks' \in [Callers -> 0..MaxChunks]
          /\ wish' \in [Callers -> Methods]
      BY CallsAssumption DEF LlmInv, TypesOK, Call
    <3>2. holder' = c /\ place' \in [Callers -> Places] /\ UNCHANGED <<waiting, metrics>>
      BY <1>1 DEF LlmInv, TypesOK, Call, Begun
    <3> QED
      BY <3>1, <3>2 DEF LlmInv, TypesOK
  <2>2. Uncounted'
    BY <1>1 DEF LlmInv, TypesOK, Call, Begun, Uncounted
  <2>3. Queued'
    BY <1>1 DEF LlmInv, TypesOK, Call, Begun, Queued
  <2>4. OneRequestAtATime'
    BY <1>1, CallersAssumption DEF LlmInv, TypesOK, Call, Begun, LockIsFree, OneRequestAtATime
  <2> QED
    BY <2>1, <2>2, <2>3, <2>4 DEF LlmInv
<1>2. CASE ~ LockIsFree
  <2>0. /\ waiting \in Seq(Callers) /\ waiting' = Append(waiting, c)
        /\ place[c] = "idle" /\ place' = [place EXCEPT ![c] = "waiting"]
        /\ holder' = holder
    BY <1>2 DEF LlmInv, TypesOK, Call
  <2>1. TypesOK'
    BY <2>0, Appended, CallsAssumption DEF LlmInv, TypesOK, Call
  <2>2. Uncounted'
    BY <2>0 DEF LlmInv, TypesOK, Call, Uncounted
  <2>3. Queued'
    <3>1. \A i \in 1..Len(waiting) : waiting[i] # c
      BY <2>0 DEF LlmInv, Queued
    <3>2. \A i, j \in 1..Len(waiting') : waiting'[i] = waiting'[j] => i = j
      BY <2>0, <3>1, Appended DEF LlmInv, Queued
    <3>3. \A d \in Callers :
             place'[d] = "waiting" <=> \E i \in 1..Len(waiting') : waiting'[i] = d
      <4>1. /\ Len(waiting) \in Nat /\ Len(waiting') = Len(waiting) + 1
            /\ waiting'[Len(waiting) + 1] = c
            /\ \A k \in 1..Len(waiting) : waiting'[k] = waiting[k]
        BY <2>0, Appended
      <4>2. ASSUME NEW d \in Callers, d # c
            PROVE  (\E i \in 1..Len(waiting) : waiting[i] = d)
                   <=> (\E i \in 1..Len(waiting') : waiting'[i] = d)
        BY <4>1, <4>2
      <4>3. \E i \in 1..Len(waiting') : waiting'[i] = c
        BY <4>1
      <4> QED
        BY <2>0, <4>2, <4>3 DEF LlmInv, TypesOK, Queued
    <3> QED
      BY <3>2, <3>3 DEF Queued
  <2>4. OneRequestAtATime'
    BY <2>0 DEF LlmInv, TypesOK, OneRequestAtATime
  <2> QED
    BY <2>1, <2>2, <2>3, <2>4 DEF LlmInv
<1> QED
  BY <1>1, <1>2

LEMMA AcquireInv ==
    ASSUME LlmInv, Acquire
    PROVE  LlmInv'
<1> USE DEF InFlight, Places
<1> DEFINE c == Head(waiting)
<1>0. /\ waiting \in Seq(Callers) /\ waiting # <<>> /\ waiting' = Tail(waiting)
      /\ place' = [place EXCEPT ![c] = Begun(wish[c])] /\ Begun(wish[c]) \in {"posted", "reading"}
      /\ holder = NoCaller /\ holder' = c /\ UNCHANGED <<wish, calls, chunks, metrics>>
  BY DEF LlmInv, TypesOK, Acquire, Begun
<1>1. /\ c \in Callers /\ c = waiting[1] /\ 1 \in 1..Len(waiting)
      /\ place[c] = "waiting"
  BY <1>0, TailOf DEF LlmInv, Queued
<1> HIDE DEF c
<1>2. TypesOK'
  BY <1>0, <1>1, TailOf DEF LlmInv, TypesOK
<1>3. Uncounted'
  BY <1>0, <1>1 DEF LlmInv, TypesOK, Uncounted
<1>4. Queued'
  <2>1. \A i, j \in 1..Len(waiting') : waiting'[i] = waiting'[j] => i = j
    BY <1>0, TailOf DEF LlmInv, Queued
  <2>2. \A i \in 1..Len(waiting') : waiting'[i] # c
    BY <1>0, <1>1, TailOf DEF LlmInv, Queued
  <2>3. \A d \in Callers \ {c} :
           (\E i \in 1..Len(waiting) : waiting[i] = d)
           <=> (\E i \in 1..Len(waiting') : waiting'[i] = d)
    <3> SUFFICES ASSUME NEW d \in Callers, d # c
                 PROVE  (\E i \in 1..Len(waiting) : waiting[i] = d)
                        <=> (\E i \in 1..Len(waiting') : waiting'[i] = d)
      OBVIOUS
    <3>1. ASSUME NEW i \in 1..Len(waiting), waiting[i] = d
          PROVE  \E j \in 1..Len(waiting') : waiting'[j] = d
      <4>1. i # 1
        BY <1>1, <3>1
      <4>2. i - 1 \in 1..Len(waiting') /\ waiting'[i - 1] = d
        BY <1>0, <3>1, <4>1, TailOf
      <4> QED
        BY <4>2
    <3>2. ASSUME NEW j \in 1..Len(waiting'), waiting'[j] = d
          PROVE  \E i \in 1..Len(waiting) : waiting[i] = d
      <4>1. j + 1 \in 1..Len(waiting) /\ waiting[j + 1] = d
        BY <1>0, <3>2, TailOf
      <4> QED
        BY <4>1
    <3> QED
      BY <3>1, <3>2
  <2> QED
    BY <1>0, <1>1, <2>1, <2>2, <2>3 DEF LlmInv, TypesOK, Queued
<1>5. OneRequestAtATime'
  BY <1>0, <1>1, CallersAssumption DEF LlmInv, TypesOK, OneRequestAtATime
<1> QED
  BY <1>2, <1>3, <1>4, <1>5 DEF LlmInv

LEMMA CancelWaitInv ==
    ASSUME LlmInv, NEW c \in Callers, CancelWait(c)
    PROVE  LlmInv'
<1> USE DEF InFlight, Places
<1>1. PICK at \in 1..Len(waiting) : waiting[at] = c /\ waiting' = RemoveAt(waiting, at)
  BY DEF LlmInv, TypesOK, CancelWait
<1>2. /\ waiting \in Seq(Callers) /\ place[c] = "waiting"
      /\ place' = [place EXCEPT ![c] = "gone"]
      /\ UNCHANGED <<holder, wish, calls, chunks, metrics>>
  BY DEF LlmInv, TypesOK, CancelWait
<1>3. TypesOK'
  BY <1>1, <1>2, Removed DEF LlmInv, TypesOK
<1>4. Uncounted'
  BY <1>2 DEF LlmInv, TypesOK, Uncounted
<1>5. Queued'
  <2>0. /\ Len(waiting) \in Nat /\ Len(waiting') = Len(waiting) - 1
        /\ \A k \in 1..Len(waiting') :
              waiting'[k] = IF k < at THEN waiting[k] ELSE waiting[k + 1]
    <3>1. Len(waiting) \in Nat
      BY <1>2
    <3> QED
      BY <1>1, <1>2, <3>1, Removed
  <2>1. ASSUME NEW i \in 1..Len(waiting'), NEW j \in 1..Len(waiting'),
               waiting'[i] = waiting'[j]
        PROVE  i = j
    <3> DEFINE old(k) == IF k < at THEN k ELSE k + 1
    <3>1. old(i) \in 1..Len(waiting) /\ old(j) \in 1..Len(waiting)
      BY <2>0
    <3>2. waiting[old(i)] = waiting[old(j)]
      BY <2>0, <2>1
    <3>3. old(i) = old(j)
      BY <3>1, <3>2 DEF LlmInv, Queued
    <3> QED
      BY <2>0, <3>3
  <2>2. \A i \in 1..Len(waiting') : waiting'[i] # c
    BY <2>0, <1>1 DEF LlmInv, Queued
  <2>3. ASSUME NEW d \in Callers, d # c
        PROVE  (\E i \in 1..Len(waiting) : waiting[i] = d)
               <=> (\E i \in 1..Len(waiting') : waiting'[i] = d)
    <3>1. ASSUME NEW i \in 1..Len(waiting), waiting[i] = d
          PROVE  \E j \in 1..Len(waiting') : waiting'[j] = d
      <4>1. CASE i < at
        <5>1. i \in 1..Len(waiting') /\ waiting'[i] = d
          BY <2>0, <3>1, <4>1
        <5> QED
          BY <5>1
      <4>2. CASE ~ (i < at)
        <5>1. i # at
          BY <1>1, <2>3, <3>1
        <5>2. i - 1 \in 1..Len(waiting') /\ ~ (i - 1 < at) /\ (i - 1) + 1 = i
          BY <2>0, <4>2, <5>1
        <5>3. waiting'[i - 1] = d
          BY <2>0, <3>1, <5>2
        <5> QED
          BY <5>2, <5>3
      <4> QED
        BY <4>1, <4>2
    <3>2. ASSUME NEW j \in 1..Len(waiting'), waiting'[j] = d
          PROVE  \E i \in 1..Len(waiting) : waiting[i] = d
      <4>1. j \in 1..Len(waiting) /\ j + 1 \in 1..Len(waiting)
        BY <2>0
      <4> QED
        BY <2>0, <3>2, <4>1
    <3> QED
      BY <3>1, <3>2
  <2> QED
    BY <1>2, <2>1, <2>2, <2>3 DEF LlmInv, TypesOK, Queued
<1>6. OneRequestAtATime'
  BY <1>2 DEF LlmInv, TypesOK, OneRequestAtATime
<1> QED
  BY <1>3, <1>4, <1>5, <1>6 DEF LlmInv

LEMMA LlmNextInv == LlmInv /\ [LlmNext]_llmVars => LlmInv'
<1> SUFFICES ASSUME LlmInv, [LlmNext]_llmVars PROVE LlmInv'
  OBVIOUS
<1>1. CASE UNCHANGED llmVars
  BY <1>1 DEF llmVars, LlmInv, TypesOK, Uncounted, Queued, OneRequestAtATime
<1>2. ASSUME NEW c \in Callers, NEW w \in Methods, Call(c, w) PROVE LlmInv'
  BY <1>2, CallInv
<1>3. CASE Acquire
  BY <1>3, AcquireInv
<1>4. ASSUME NEW c \in Callers, Answer(c) \/ Stop(c) PROVE LlmInv'
  BY <1>4, ReleaseInv DEF Answer, Stop, InFlight
<1>5. ASSUME NEW c \in Callers, Fail(c) \/ EndWithoutStop(c) \/ Close(c) \/ CancelRequest(c)
      PROVE  LlmInv'
  BY <1>5, ReleaseInv DEF Fail, EndWithoutStop, Close, CancelRequest, InFlight
<1>6. ASSUME NEW c \in Callers, Chunk(c) PROVE LlmInv'
  <2>1. /\ place[c] \in InFlight /\ "sending" \in InFlight
        /\ chunks' \in [Callers -> 0..MaxChunks]
        /\ place' \in {place, [place EXCEPT ![c] = "sending"]}
        /\ UNCHANGED <<holder, waiting, wish, calls, metrics>>
    BY <1>6, CallsAssumption DEF Chunk, InFlight, LlmInv, TypesOK
  <2> QED
    BY <2>1, ContinueInv
<1>7. ASSUME NEW c \in Callers, Sent(c) \/ Abandon(c) PROVE LlmInv'
  <2>1. /\ place[c] \in InFlight /\ "reading" \in InFlight /\ "left" \in InFlight
        /\ chunks' \in [Callers -> 0..MaxChunks]
        /\ \/ place' = [place EXCEPT ![c] = "reading"]
           \/ place' = [place EXCEPT ![c] = "left"]
        /\ UNCHANGED <<holder, waiting, wish, calls, metrics>>
    BY <1>7 DEF Sent, Abandon, InFlight, LlmInv, TypesOK
  <2> QED
    BY <2>1, ContinueInv
<1>8. ASSUME NEW c \in Callers, Snapshot(c) PROVE LlmInv'
  <2>1. /\ metrics' \in [Callers -> [llm_calls : 0..MaxCalls, finalized : BOOLEAN]]
        /\ \A d \in Callers : metrics'[d].llm_calls = metrics[d].llm_calls
    BY <1>8 DEF Snapshot, LlmInv, TypesOK
  <2>2. TypesOK' /\ Uncounted'
    BY <1>8, <2>1 DEF Snapshot, LlmInv, TypesOK, Uncounted
  <2>3. Queued' /\ OneRequestAtATime'
    BY <1>8 DEF Snapshot, LlmInv, Queued, OneRequestAtATime
  <2> QED
    BY <2>2, <2>3 DEF LlmInv
<1>9. ASSUME NEW c \in Callers, CancelWait(c) PROVE LlmInv'
  BY <1>9, CancelWaitInv
<1> QED
  BY <1>1, <1>2, <1>3, <1>4, <1>5, <1>6, <1>7, <1>8, <1>9 DEF LlmNext, Serve, Read

LEMMA LlmInvariant == LlmSpec => []LlmInv
<1> QED
  BY LlmInitInv, LlmNextInv, PTL DEF LlmSpec

-----------------------------------------------------------------------------
\* Every variable keeps its type, exactly those who wait for the lock are queued for
\* it, once, and no answer of the server is counted twice.
THEOREM LlmTypeCorrect == LlmSpec => []LlmTypeOK
BY LlmInvariant, LlmInvImplies, PTL

\* The requests of a client of the model never overlap, and no cancelled handler,
\* abandoned stream or failure keeps the lock (OneRequestAtATime).
THEOREM RequestsTakeTurns == LlmSpec => []OneRequestAtATime
<1>1. LlmInv => OneRequestAtATime
  BY DEF LlmInv
<1> QED
  BY LlmInvariant, <1>1, PTL

-----------------------------------------------------------------------------
(***************************************************************************)
(* UiSettings.  A thread that will write knows the settings as they are,   *)
(* but for the names that others have set since it has read, those that    *)
(* are lost anyway, and those it has been asked to set, which it knows as  *)
(* requested.                                                              *)
(***************************************************************************)

\* Two settings objects have the same value, or none, for a name.
Same(s, t, n) ==
    /\ n \in DOMAIN s <=> n \in DOMAIN t
    /\ n \in DOMAIN s => s[n] = t[n]

SettingsTyped ==
    /\ settings \in Settings /\ wanted \in Settings /\ writing \subseteq PoolThreads
    /\ request \in [PoolThreads -> Settings] /\ current \in [PoolThreads -> Settings]
    /\ since \in [PoolThreads -> SUBSET Names] /\ lost \subseteq Names

Requested ==
    \A p \in PoolThreads : \A n \in DOMAIN request[p] :
        n \in DOMAIN current[p] /\ current[p][n] = request[p][n]

Known ==
    \A p \in writing :
        \A n \in Names \ (lost \cup since[p] \cup DOMAIN request[p]) :
            Same(current[p], settings, n)

SettingsInv == SettingsTyped /\ Requested /\ Known /\ PatchesAddUp

LEMMA SettingsInvImplies == SettingsInv => SettingsTypeOK
BY DEF SettingsInv, SettingsTypeOK, SettingsTyped, Requested

-----------------------------------------------------------------------------
LEMMA NoneType == None \in Settings /\ DOMAIN None = {}
<1>1. None = [n \in {} |-> CHOOSE v : TRUE]
  BY DEF None
<1>2. None \in [{} -> Values]
  BY <1>1
<1> QED
  BY <1>1, <1>2 DEF Settings

LEMMA UpdatedIs ==
    ASSUME NEW s \in Settings, NEW t \in Settings
    PROVE  /\ Updated(s, t) \in Settings
           /\ \A n \in DOMAIN t : n \in DOMAIN Updated(s, t) /\ Updated(s, t)[n] = t[n]
           /\ \A n : n \notin DOMAIN t => Same(Updated(s, t), s, n)
<1>1. PICK a \in SUBSET Names : s \in [a -> Values]
  BY DEF Settings
<1>2. PICK b \in SUBSET Names : t \in [b -> Values]
  BY DEF Settings
<1>3. Updated(s, t) \in [a \cup b -> Values]
  BY <1>1, <1>2 DEF Updated
<1>4. Updated(s, t) \in Settings
  BY <1>3 DEF Settings
<1> QED
  BY <1>1, <1>2, <1>4 DEF Updated, Same

LEMMA SettingsInitInv == SettingsInit => SettingsInv
BY NoneType DEF SettingsInit, SettingsInv, SettingsTyped, Requested, Known, PatchesAddUp

LEMMA ReadInv ==
    ASSUME SettingsInv, NEW p \in PoolThreads, NEW new \in Settings, ReadSettings(p, new)
    PROVE  SettingsInv'
<1>1. /\ writing' = writing \cup {p} /\ request' = [request EXCEPT ![p] = new]
      /\ current' = [current EXCEPT ![p] = Updated(settings, new)]
      /\ UNCHANGED <<settings, wanted, since, lost>>
  BY DEF ReadSettings
<1>2. SettingsTyped'
  BY <1>1, UpdatedIs DEF SettingsInv, SettingsTyped
<1>3. Requested'
  BY <1>1, UpdatedIs DEF SettingsInv, SettingsTyped, Requested
<1>4. Known'
  BY <1>1, UpdatedIs DEF SettingsInv, SettingsTyped, Known
<1>5. PatchesAddUp'
  BY <1>1 DEF SettingsInv, PatchesAddUp
<1> QED
  BY <1>2, <1>3, <1>4, <1>5 DEF SettingsInv

LEMMA WriteInv ==
    ASSUME SettingsInv, NEW p \in PoolThreads, WriteSettings(p)
    PROVE  SettingsInv'
<1>1. /\ p \in writing /\ writing' = writing \ {p} /\ settings' = current[p]
      /\ wanted' = Updated(wanted, request[p])
      /\ lost' = (lost \cup since[p]) \ DOMAIN request[p]
      /\ since' = [q \in PoolThreads |->
                      IF q = p \/ q \notin writing THEN {}
                      ELSE since[q] \cup DOMAIN request[p]]
      /\ request' = [request EXCEPT ![p] = None]
      /\ current' = [current EXCEPT ![p] = None]
  BY DEF WriteSettings, Done
<1>2. request[p] \in Settings /\ DOMAIN request[p] \subseteq Names
  BY DEF SettingsInv, SettingsTyped, Settings
<1>3. SettingsTyped'
  BY <1>1, <1>2, NoneType, UpdatedIs DEF SettingsInv, SettingsTyped
<1>4. Requested'
  BY <1>1, NoneType DEF SettingsInv, SettingsTyped, Requested
<1>5. ASSUME NEW n \in Names \ (lost \cup since[p]), n \notin DOMAIN request[p]
      PROVE  Same(settings', settings, n)
  BY <1>1, <1>5 DEF SettingsInv, Known
<1>6. Known'
  BY <1>1, <1>5 DEF SettingsInv, SettingsTyped, Known, Same
<1>7. ASSUME NEW n \in Names \ lost' PROVE Same(settings', wanted', n)
  <2>1. CASE n \in DOMAIN request[p]
    BY <1>1, <1>2, <2>1, UpdatedIs DEF SettingsInv, SettingsTyped, Requested, Same
  <2>2. CASE n \notin DOMAIN request[p]
    <3>1. Same(settings', settings, n) /\ n \in Names \ lost
      BY <1>1, <1>5, <1>7, <2>2
    <3>2. Same(wanted', wanted, n)
      BY <1>1, <1>2, <2>2, UpdatedIs DEF SettingsInv, SettingsTyped
    <3> QED
      BY <3>1, <3>2 DEF SettingsInv, PatchesAddUp, Same
  <2> QED
    BY <2>1, <2>2
<1>8. PatchesAddUp'
  BY <1>7 DEF PatchesAddUp, Same
<1> QED
  BY <1>3, <1>4, <1>6, <1>8 DEF SettingsInv

LEMMA FailInv ==
    ASSUME SettingsInv, NEW p \in PoolThreads, WriteFails(p)
    PROVE  SettingsInv'
<1>1. /\ writing' = writing \ {p} /\ since' = [since EXCEPT ![p] = {}]
      /\ request' = [request EXCEPT ![p] = None]
      /\ current' = [current EXCEPT ![p] = None]
      /\ UNCHANGED <<settings, wanted, lost>>
  BY DEF WriteFails, Done
<1>2. SettingsTyped' /\ Requested'
  BY <1>1, NoneType DEF SettingsInv, SettingsTyped, Requested
<1>3. Known'
  BY <1>1 DEF SettingsInv, SettingsTyped, Known
<1>4. PatchesAddUp'
  BY <1>1 DEF SettingsInv, PatchesAddUp
<1> QED
  BY <1>2, <1>3, <1>4 DEF SettingsInv

LEMMA SettingsNextInv == SettingsInv /\ [SettingsNext]_settingsVars => SettingsInv'
<1> SUFFICES ASSUME SettingsInv, [SettingsNext]_settingsVars PROVE SettingsInv'
  OBVIOUS
<1>1. CASE UNCHANGED settingsVars
  BY <1>1 DEF settingsVars, SettingsInv, SettingsTyped, Requested, Known, PatchesAddUp
<1>2. CASE SettingsNext
  BY <1>2, ReadInv, WriteInv, FailInv DEF SettingsNext
<1> QED
  BY <1>1, <1>2

LEMMA SettingsInvariant == SettingsSpec => []SettingsInv
BY SettingsInitInv, SettingsNextInv, PTL DEF SettingsSpec

-----------------------------------------------------------------------------
\* Every variable keeps its type, and a PATCH will write all it was asked to set.
THEOREM SettingsTypeCorrect == SettingsSpec => []SettingsTypeOK
BY SettingsInvariant, SettingsInvImplies, PTL

\* However many PATCHes overlap, update_user_ui_settings loses a setting only if it was
\* set between the two transactions of a PATCH that does not name it (PatchesAddUp).
THEOREM OnlyOverlapsLose == SettingsSpec => []PatchesAddUp
<1>1. SettingsInv => PatchesAddUp
  BY DEF SettingsInv
<1> QED
  BY SettingsInvariant, <1>1, PTL

-----------------------------------------------------------------------------
(***************************************************************************)
(* ThreadStore.  Messages are stored in the order of time, however many    *)
(* share a second, so that Newer is the order of the rows.  The query picks*)
(* the messages of a chat by how many are newer, and puts them in order by *)
(* how many are older; both are one-to-one counts, so that every place of  *)
(* the result is taken.                                                    *)
(***************************************************************************)

MessagesAt(chats, now) == [chat : chats, at : 0..now]

ThreadTypes ==
    /\ clock \in 0..MaxClock
    /\ DOMAIN threads \subseteq Chats
    /\ \A c \in DOMAIN threads :
          threads[c] \in [title : Titles \cup {"blank"}, archived : BOOLEAN,
                          pinned : BOOLEAN, deleted : BOOLEAN]
    /\ messages \in Seq(MessagesAt(DOMAIN threads, clock))

InOrderOfTime ==
    \A i, j \in 1..Len(messages) : i < j => messages[i].at <= messages[j].at

ThreadInv == ThreadTypes /\ InOrderOfTime

LEMMA WiderMessages ==
    ASSUME NEW A, NEW B, A \subseteq B, NEW m \in Nat, NEW n \in Nat, m <= n,
           NEW s \in Seq(MessagesAt(A, m))
    PROVE  s \in Seq(MessagesAt(B, n))
<1>1. 0..m \subseteq 0..n
  OBVIOUS
<1>2. MessagesAt(A, m) \subseteq MessagesAt(B, n)
  BY <1>1 DEF MessagesAt
<1> QED
  BY <1>2, WiderSeq

LEMMA ThreadInitInv == ThreadInit => ThreadInv
BY BoundsAssumption DEF ThreadInit, ThreadInv, ThreadTypes, InOrderOfTime, MessagesAt

LEMMA CreateThreadInv ==
    ASSUME ThreadInv, NEW c \in Chats, NEW title \in Given, CreateThread(c, title)
    PROVE  ThreadInv'
<1> DEFINE thread == [title |-> IF title = "-" THEN "New chat" ELSE title,
                      archived |-> FALSE, pinned |-> FALSE, deleted |-> FALSE]
<1>1. thread \in [title : Titles \cup {"blank"}, archived : BOOLEAN,
                  pinned : BOOLEAN, deleted : BOOLEAN]
  BY DEF Given, Titles
<1>2. /\ c \notin DOMAIN threads
      /\ threads' = [d \in DOMAIN threads \cup {c} |->
                        IF d = c THEN thread ELSE threads[d]]
      /\ clock' = clock /\ messages' = messages
  BY DEF CreateThread
<1> HIDE DEF thread
<1>3. DOMAIN threads' = DOMAIN threads \cup {c}
  BY <1>2
<1>4. messages' \in Seq(MessagesAt(DOMAIN threads', clock'))
  <2>1. clock \in Nat /\ messages \in Seq(MessagesAt(DOMAIN threads, clock))
    BY BoundsAssumption DEF ThreadInv, ThreadTypes
  <2>2. messages \in Seq(MessagesAt(DOMAIN threads', clock))
    BY <1>3, <2>1, WiderMessages
  <2> QED
    BY <1>2, <2>2
<1>5. ThreadTypes'
  BY <1>1, <1>2, <1>3, <1>4 DEF ThreadInv, ThreadTypes
<1> QED
  BY <1>2, <1>5 DEF ThreadInv, InOrderOfTime

LEMMA PatchedType ==
    ASSUME NEW thread \in [title : Titles \cup {"blank"}, archived : BOOLEAN,
                           pinned : BOOLEAN, deleted : BOOLEAN],
           NEW title \in Given, NEW archived \in Switch, NEW pinned \in Switch
    PROVE  Patched(thread, title, archived, pinned) \in
               [title : Titles \cup {"blank"}, archived : BOOLEAN,
                pinned : BOOLEAN, deleted : BOOLEAN]
BY DEF Patched, Switched, Given, Titles, Switch

LEMMA ChangeThreadInv ==
    ASSUME ThreadInv, NEW c \in DOMAIN threads,
           NEW thread \in [title : Titles \cup {"blank"}, archived : BOOLEAN,
                           pinned : BOOLEAN, deleted : BOOLEAN],
           threads' = [threads EXCEPT ![c] = thread], UNCHANGED <<clock, messages>>
    PROVE  ThreadInv'
<1>1. DOMAIN threads' = DOMAIN threads
  OBVIOUS
<1>2. ThreadTypes'
  BY <1>1 DEF ThreadInv, ThreadTypes
<1> QED
  BY <1>2 DEF ThreadInv, InOrderOfTime

LEMMA AppendMessageInv ==
    ASSUME ThreadInv, NEW c \in Chats, AppendMessage(c)
    PROVE  ThreadInv'
<1> DEFINE new == [chat |-> c, at |-> clock]
           n   == Len(messages)
<1>1. /\ clock \in 0..MaxClock /\ clock \in Nat
      /\ c \in DOMAIN threads /\ messages \in Seq(MessagesAt(DOMAIN threads, clock))
      /\ messages' = Append(messages, new) /\ clock' = clock /\ threads' = threads
  BY BoundsAssumption DEF ThreadInv, ThreadTypes, AppendMessage
<1>2. new \in MessagesAt(DOMAIN threads, clock) /\ new.at = clock
  BY <1>1 DEF MessagesAt
<1> HIDE DEF new
<1>3. /\ messages' \in Seq(MessagesAt(DOMAIN threads, clock))
      /\ n \in Nat /\ Len(messages') = n + 1
      /\ \A k \in 1..n : messages'[k] = messages[k]
      /\ messages'[n + 1] = new
  BY <1>1, <1>2, Appended
<1>4. ThreadTypes'
  BY <1>1, <1>3 DEF ThreadInv, ThreadTypes
<1>5. \A k \in 1..n : messages[k].at \in 0..clock
  <2>1. \A k \in 1..n : messages[k] \in MessagesAt(DOMAIN threads, clock)
    BY <1>1
  <2> QED
    BY <2>1 DEF MessagesAt
<1> HIDE DEF n
<1>6. \A i, j \in 1..n + 1 : i < j => messages'[i].at <= messages'[j].at
  <2> SUFFICES ASSUME NEW i \in 1..n + 1, NEW j \in 1..n + 1, i < j
               PROVE  messages'[i].at <= messages'[j].at
    OBVIOUS
  <2>1. i \in 1..n /\ messages'[i] = messages[i] /\ messages[i].at \in 0..clock
    BY <1>3, <1>5
  <2>2. CASE j \in 1..n
    BY <1>3, <2>1, <2>2 DEF ThreadInv, InOrderOfTime, n
  <2>3. CASE j = n + 1
    BY <1>1, <1>2, <1>3, <2>1, <2>3
  <2> QED
    BY <1>3, <2>2, <2>3
<1> QED
  BY <1>3, <1>4, <1>6 DEF ThreadInv, InOrderOfTime

LEMMA TickInv ==
    ASSUME ThreadInv, Tick
    PROVE  ThreadInv'
<1>1. /\ clock \in 0..MaxClock /\ clock < MaxClock /\ clock' = clock + 1
      /\ threads' = threads /\ messages' = messages
      /\ messages \in Seq(MessagesAt(DOMAIN threads, clock))
  BY DEF ThreadInv, ThreadTypes, Tick
<1>2. clock \in Nat /\ clock' \in 0..MaxClock /\ clock' \in Nat /\ clock <= clock'
  BY <1>1, BoundsAssumption
<1>3. messages \in Seq(MessagesAt(DOMAIN threads, clock'))
  BY <1>1, <1>2, WiderMessages
<1> QED
  BY <1>1, <1>2, <1>3 DEF ThreadInv, ThreadTypes, InOrderOfTime

LEMMA ThreadNextInv == ThreadInv /\ [ThreadNext]_threadVars => ThreadInv'
<1> SUFFICES ASSUME ThreadInv, [ThreadNext]_threadVars PROVE ThreadInv'
  OBVIOUS
<1>1. ASSUME NEW c \in Chats, NEW title \in Given, CreateThread(c, title)
      PROVE  ThreadInv'
  BY <1>1, CreateThreadInv
<1>2. ASSUME NEW c \in Chats, NEW title \in Given,
             NEW archived \in Switch, NEW pinned \in Switch,
             UpdateThread(c, title, archived, pinned)
      PROVE  ThreadInv'
  <2>1. /\ c \in DOMAIN threads
        /\ threads' = [threads EXCEPT ![c] =
                          Patched(threads[c], title, archived, pinned)]
        /\ UNCHANGED <<clock, messages>>
    BY <1>2 DEF UpdateThread
  <2>2. Patched(threads[c], title, archived, pinned) \in
            [title : Titles \cup {"blank"}, archived : BOOLEAN,
             pinned : BOOLEAN, deleted : BOOLEAN]
    BY <2>1, PatchedType DEF ThreadInv, ThreadTypes
  <2> QED
    BY <2>1, <2>2, ChangeThreadInv
<1>3. ASSUME NEW c \in Chats, DeleteThread(c) PROVE ThreadInv'
  <2> DEFINE thread == [threads[c] EXCEPT !.deleted = TRUE, !.archived = FALSE]
  <2>1. /\ c \in DOMAIN threads /\ UNCHANGED <<clock, messages>>
        /\ threads' = [threads EXCEPT ![c] = thread]
    BY <1>3 DEF DeleteThread
  <2>2. thread \in [title : Titles \cup {"blank"}, archived : BOOLEAN,
                    pinned : BOOLEAN, deleted : BOOLEAN]
    BY <2>1 DEF ThreadInv, ThreadTypes
  <2> HIDE DEF thread
  <2> QED
    BY <2>1, <2>2, ChangeThreadInv
<1>4. ASSUME NEW c \in Chats, AppendMessage(c) PROVE ThreadInv'
  BY <1>4, AppendMessageInv
<1>5. CASE Tick
  BY <1>5, TickInv
<1>6. CASE UNCHANGED threadVars
  BY <1>6 DEF threadVars, ThreadInv, ThreadTypes, InOrderOfTime
<1> QED
  BY <1>1, <1>2, <1>3, <1>4, <1>5, <1>6 DEF ThreadNext

LEMMA ThreadInvariant == ThreadSpec => []ThreadInv
BY ThreadInitInv, ThreadNextInv, PTL DEF ThreadSpec

\* How many of the numbers in S are greater than i.
Over(S, i) == Cardinality({j \in S : j > i})

LEMMA OverCounts ==
    ASSUME NEW S \in SUBSET Nat, IsFiniteSet(S)
    PROVE  /\ \A i \in S : Over(S, i) \in Nat /\ Over(S, i) < Cardinality(S)
           /\ \A i, j \in S : i < j => Over(S, j) < Over(S, i)
           /\ \A k \in 0..Cardinality(S) - 1 : \E i \in S : Over(S, i) = k
<1> DEFINE over(i) == {j \in S : j > i}
<1>1. \A i : IsFiniteSet(over(i)) /\ Cardinality(over(i)) \in Nat
  BY FS_Subset, FS_CardinalityType
<1>2. \A i, j \in S : i < j =>
          over(j) \in SUBSET over(i) /\ j \in over(i) /\ j \notin over(j)
  <2> SUFFICES ASSUME NEW i \in S, NEW j \in S, i < j
               PROVE  over(j) \in SUBSET over(i) /\ j \in over(i) /\ j \notin over(j)
    OBVIOUS
  <2>1. i \in Nat /\ j \in Nat
    OBVIOUS
  <2>2. j \in over(i) /\ j \notin over(j)
    BY <2>1
  <2>3. ASSUME NEW m \in over(j) PROVE m \in over(i)
    BY <2>1
  <2> QED
    BY <2>2, <2>3
<1>3. \A i, j \in S : i < j => Over(S, j) < Over(S, i)
  <2> SUFFICES ASSUME NEW i \in S, NEW j \in S, i < j
               PROVE  Over(S, j) < Over(S, i)
    OBVIOUS
  <2>1. /\ over(j) \in SUBSET over(i) /\ over(j) # over(i)
        /\ IsFiniteSet(over(i)) /\ IsFiniteSet(over(j))
    BY <1>1, <1>2
  <2>2. Cardinality(over(j)) <= Cardinality(over(i))
        /\ Cardinality(over(j)) # Cardinality(over(i))
    BY <2>1, FS_Subset
  <2> QED
    BY <1>1, <2>2 DEF Over
<1>4. \A i \in S : Over(S, i) \in Nat /\ Over(S, i) < Cardinality(S)
  <2> SUFFICES ASSUME NEW i \in S
               PROVE  Over(S, i) \in Nat /\ Over(S, i) < Cardinality(S)
    OBVIOUS
  <2>1. over(i) \in SUBSET S /\ over(i) # S
    OBVIOUS
  <2>2. /\ Cardinality(over(i)) <= Cardinality(S)
        /\ Cardinality(over(i)) # Cardinality(S)
        /\ Cardinality(S) \in Nat /\ Cardinality(over(i)) \in Nat
    BY <1>1, <2>1, FS_Subset, FS_CardinalityType
  <2> QED
    BY <2>2 DEF Over
<1>5. \A k \in 0..Cardinality(S) - 1 : \E i \in S : Over(S, i) = k
  <2> DEFINE r == [i \in S |-> Over(S, i)]
  <2>1. /\ r \in [S -> Nat]
        /\ \A i \in S : r[i] < Cardinality(S)
    BY <1>4
  <2>2. \A i, j \in S : r[i] = r[j] => i = j
    BY <1>3, <1>4
  <2>3. \A i \in S : r[i] = Over(S, i)
    OBVIOUS
  <2> HIDE DEF r
  <2>4. \A k \in 0..Cardinality(S) - 1 : \E i \in S : r[i] = k
    BY <2>1, <2>2, CountedThrough
  <2> QED
    BY <2>3, <2>4
<1> QED
  BY <1>3, <1>4, <1>5

LEMMA NewerIsLater ==
    ASSUME ThreadInv, NEW i \in DOMAIN messages, NEW j \in DOMAIN messages
    PROVE  Newer(i, j) <=> i > j
<1>1. /\ messages \in Seq(MessagesAt(DOMAIN threads, clock))
      /\ DOMAIN messages = 1..Len(messages) /\ Len(messages) \in Nat
  BY DEF ThreadInv, ThreadTypes
<1>2. messages[i].at \in Nat /\ messages[j].at \in Nat
  <2>1. \A k \in 1..Len(messages) : messages[k] \in MessagesAt(DOMAIN threads, clock)
    BY <1>1
  <2> QED
    BY <1>1, <2>1 DEF MessagesAt
<1>3. /\ i < j => messages[i].at <= messages[j].at
      /\ j < i => messages[j].at <= messages[i].at
  BY <1>1 DEF ThreadInv, InOrderOfTime
<1> QED
  BY <1>1, <1>2, <1>3 DEF Newer

\* The rows of a chat, those the query takes, and their number.
OwnRows(c) == {i \in DOMAIN messages : messages[i].chat = c}
TakenRows(c, limit) == {i \in OwnRows(c) : Over(OwnRows(c), i) < limit}

LEMMA OwnRowsType ==
    ASSUME ThreadInv, NEW c, NEW limit
    PROVE  /\ OwnRows(c) \in SUBSET Nat /\ IsFiniteSet(OwnRows(c))
           /\ TakenRows(c, limit) \in SUBSET Nat /\ IsFiniteSet(TakenRows(c, limit))
           /\ OwnRows(c) \subseteq DOMAIN messages
           /\ TakenRows(c, limit) \subseteq OwnRows(c)
           /\ Cardinality(TakenRows(c, limit)) \in Nat
<1>1. /\ Len(messages) \in Nat /\ DOMAIN messages = 1..Len(messages)
  BY DEF ThreadInv, ThreadTypes
<1>2. OwnRows(c) \in SUBSET (1..Len(messages)) /\ TakenRows(c, limit) \in SUBSET OwnRows(c)
  BY <1>1 DEF OwnRows, TakenRows
<1>3. IsFiniteSet(1..Len(messages)) /\ 1..Len(messages) \subseteq Nat
  BY <1>1, FS_Interval
<1>4. IsFiniteSet(OwnRows(c))
  BY <1>2, <1>3, FS_Subset
<1>5. IsFiniteSet(TakenRows(c, limit))
  BY <1>2, <1>4, FS_Subset
<1> QED
  BY <1>1, <1>2, <1>3, <1>4, <1>5, FS_CardinalityType

\* What the query lists: its place k has the row that k - 1 of those taken precede.
LEMMA ListedRows ==
    ASSUME ThreadInv, NEW c, NEW limit
    PROVE  LET taken == TakenRows(c, limit)
               told  == ListMessages(c, limit)
           IN  /\ told \in [1..Cardinality(taken) -> taken]
               /\ \A k \in 1..Cardinality(taken) : Under(taken, told[k]) = k - 1
<1> DEFINE mine  == OwnRows(c)
           taken == TakenRows(c, limit)
           n     == Cardinality(taken)
           told  == ListMessages(c, limit)
<1>1. /\ mine \in SUBSET Nat /\ taken \in SUBSET Nat /\ IsFiniteSet(taken)
      /\ taken \subseteq mine /\ mine \subseteq DOMAIN messages /\ n \in Nat
  BY OwnRowsType
<1>2. \A i \in mine : {j \in mine : Newer(j, i)} = {j \in mine : j > i}
  BY <1>1, NewerIsLater
<1>3. \A i \in taken : {j \in taken : Newer(i, j)} = {j \in taken : i > j}
  BY <1>1, NewerIsLater
<1>4. {i \in mine : Cardinality({j \in mine : Newer(j, i)}) < limit} = taken
  BY <1>2 DEF TakenRows, Over
<1>5. told = [k \in 1..n |->
                 CHOOSE i \in taken : Cardinality({j \in taken : Newer(i, j)}) = k - 1]
  <2> DEFINE listed(S) ==
                 [k \in 1..Cardinality(S) |->
                     CHOOSE i \in S : Cardinality({j \in S : Newer(i, j)}) = k - 1]
  <2>1. told = listed({i \in mine : Cardinality({j \in mine : Newer(j, i)}) < limit})
    BY Zenon DEF ListMessages, OwnRows
  <2>2. told = listed(taken)
    BY <1>4, <2>1, Zenon
  <2> QED
    BY <2>2, Zenon
<1>6. \A k \in 1..n : \E i \in taken : Cardinality({j \in taken : Newer(i, j)}) = k - 1
  <2>1. \A m \in 0..n - 1 : \E i \in taken : Under(taken, i) = m
    BY <1>1, UnderCounts
  <2> SUFFICES ASSUME NEW k \in 1..n
               PROVE  \E i \in taken : Cardinality({j \in taken : Newer(i, j)}) = k - 1
    OBVIOUS
  <2>2. k - 1 \in 0..n - 1
    BY <1>1
  <2>3. PICK i \in taken : Under(taken, i) = k - 1
    BY <2>1, <2>2
  <2> QED
    BY <1>3, <2>3 DEF Under
<1> HIDE DEF taken, told, n
<1>7. \A k \in 1..n :
          told[k] \in taken /\ Cardinality({j \in taken : Newer(told[k], j)}) = k - 1
  BY <1>5, <1>6
<1>8. \A k \in 1..n : Under(taken, told[k]) = k - 1
  BY <1>3, <1>7 DEF Under
<1>9. told \in [1..n -> taken]
  BY <1>5, <1>7
<1> QED
  BY <1>8, <1>9 DEF taken, told, n

\* At most limit rows are taken, and all that are left out come before them.
LEMMA LastRows ==
    ASSUME ThreadInv, NEW c, NEW limit \in Nat
    PROVE  LET taken == TakenRows(c, limit)
           IN  /\ Cardinality(taken) <= limit
               /\ \A i \in OwnRows(c) \ taken :
                     Cardinality(taken) = limit /\ \A j \in taken : i < j
<1> DEFINE mine  == OwnRows(c)
           taken == TakenRows(c, limit)
           N     == Cardinality(mine)
           r     == [i \in taken |-> Over(mine, i)]
           T     == 0..limit - 1
<1>1. /\ mine \in SUBSET Nat /\ IsFiniteSet(mine) /\ N \in Nat
      /\ taken \in SUBSET Nat /\ IsFiniteSet(taken) /\ Cardinality(taken) \in Nat
      /\ taken \subseteq mine
  BY OwnRowsType, FS_CardinalityType
<1>2. /\ \A i \in mine : Over(mine, i) \in Nat /\ Over(mine, i) < N
      /\ \A i, j \in mine : i < j => Over(mine, j) < Over(mine, i)
      /\ \A k \in 0..N - 1 : \E i \in mine : Over(mine, i) = k
  BY <1>1, OverCounts
<1>3. taken = {i \in mine : Over(mine, i) < limit}
  BY DEF TakenRows
<1>4. IsFiniteSet(T) /\ Cardinality(T) = limit
  BY FS_Interval
<1> HIDE DEF mine, taken, N
<1>5. r \in [taken -> T]
  BY <1>2, <1>3
<1>6. \A i, j \in taken : r[i] = r[j] => i = j
  BY <1>1, <1>2, <1>3
<1>7. Cardinality(taken) <= limit
  <2>1. r \in Injection(taken, T)
    BY <1>5, <1>6 DEF Injection, IsInjective
  <2> QED
    BY <1>4, <2>1, FS_Injection
<1>8. ASSUME NEW i \in mine \ taken
      PROVE  Cardinality(taken) = limit /\ \A j \in taken : i < j
  <2>1. Over(mine, i) \in Nat /\ Over(mine, i) >= limit /\ Over(mine, i) < N
    BY <1>2, <1>3
  <2>2. ASSUME NEW k \in T PROVE \E j \in taken : r[j] = k
    <3>1. k \in 0..N - 1
      BY <1>1, <2>1
    <3>2. PICK j \in mine : Over(mine, j) = k
      BY <1>2, <3>1
    <3> QED
      BY <1>3, <3>2
  <2>3. r \in Surjection(taken, T)
    BY <1>5, <2>2 DEF Surjection
  <2>4. limit <= Cardinality(taken)
    BY <1>1, <1>4, <2>3, FS_Surjection
  <2>5. ASSUME NEW j \in taken PROVE i < j
    <3>1. j \in mine /\ i \in Nat /\ j \in Nat /\ Over(mine, j) \in Nat /\ Over(mine, j) < limit
      BY <1>1, <1>2, <1>3
    <3>2. i # j
      BY <1>8
    <3>3. ~(j < i)
      BY <1>2, <1>8, <2>1, <3>1
    <3> QED
      BY <3>1, <3>2, <3>3
  <2> QED
    BY <1>1, <1>7, <2>4, <2>5
<1> QED
  BY <1>7, <1>8 DEF mine, taken

LEMMA ListedInOrder == ThreadInv => HistoryIsInOrder
<1> SUFFICES ASSUME ThreadInv, NEW c \in Chats, NEW limit \in 1..MaxMessages
             PROVE  LET mine == {i \in DOMAIN messages : messages[i].chat = c}
                        told == ListMessages(c, limit)
                    IN  /\ told \in Seq(mine) /\ Len(told) <= limit
                        /\ \A k, m \in DOMAIN told : k < m => told[k] < told[m]
                        /\ \A i \in mine :
                              \/ \E k \in DOMAIN told : told[k] = i
                              \/ Len(told) = limit /\ \A k \in DOMAIN told : i < told[k]
  BY DEF HistoryIsInOrder
<1> DEFINE mine  == OwnRows(c)
           taken == TakenRows(c, limit)
           n     == Cardinality(taken)
           told  == ListMessages(c, limit)
<1>1. limit \in Nat
  BY BoundsAssumption
<1>2. /\ taken \in SUBSET Nat /\ IsFiniteSet(taken) /\ taken \subseteq mine /\ n \in Nat
  BY OwnRowsType
<1>3. told \in [1..n -> taken] /\ \A k \in 1..n : Under(taken, told[k]) = k - 1
  BY ListedRows
<1>4. n <= limit /\ \A i \in mine \ taken : n = limit /\ \A j \in taken : i < j
  BY <1>1, LastRows
<1>5. /\ \A i \in taken : Under(taken, i) \in Nat /\ Under(taken, i) < n
      /\ \A i, j \in taken : i < j => Under(taken, i) < Under(taken, j)
  BY <1>2, UnderCounts
<1>6. mine = {i \in DOMAIN messages : messages[i].chat = c}
  BY DEF OwnRows
<1> HIDE DEF mine, taken, n, told
<1>7. told \in Seq(mine) /\ Len(told) = n /\ DOMAIN told = 1..n
  <2>1. told \in [1..n -> mine]
    BY <1>2, <1>3
  <2> QED
    BY <1>2, <2>1, FunctionIsSeq
<1>8. \A k, m \in 1..n : k < m => told[k] < told[m]
  <2> SUFFICES ASSUME NEW k \in 1..n, NEW m \in 1..n, k < m PROVE told[k] < told[m]
    OBVIOUS
  <2>1. /\ told[k] \in taken /\ told[m] \in taken
        /\ told[k] \in Nat /\ told[m] \in Nat
        /\ Under(taken, told[k]) = k - 1 /\ Under(taken, told[m]) = m - 1
    BY <1>2, <1>3
  <2>2. told[k] # told[m] /\ ~(told[m] < told[k])
    BY <1>2, <1>5, <2>1
  <2> QED
    BY <2>1, <2>2
<1>9. ASSUME NEW i \in taken PROVE \E k \in 1..n : told[k] = i
  <2> DEFINE k == Under(taken, i) + 1
  <2>1. k \in 1..n /\ i \in Nat
    BY <1>2, <1>5
  <2>2. Under(taken, i) \in Nat /\ k - 1 = Under(taken, i)
    BY <1>5
  <2> HIDE DEF k
  <2>3. told[k] \in taken /\ told[k] \in Nat /\ Under(taken, told[k]) = Under(taken, i)
    BY <1>2, <1>3, <2>1, <2>2
  <2>4. told[k] = i
    BY <1>5, <2>1, <2>2, <2>3
  <2> QED
    BY <2>1, <2>4
<1>10. \A i \in mine :
           \/ \E k \in DOMAIN told : told[k] = i
           \/ Len(told) = limit /\ \A k \in DOMAIN told : i < told[k]
  BY <1>3, <1>4, <1>7, <1>9
<1> QED
  BY <1>4, <1>6, <1>7, <1>8, <1>10 DEF told

-----------------------------------------------------------------------------
LEMMA ThreadInvImplies == ThreadInv => ThreadTypeOK
BY DEF ThreadInv, ThreadTypes, ThreadTypeOK, MessagesAt

\* Every variable keeps its type, and every message belongs to a thread, deleted or not.
THEOREM ThreadTypeCorrect == ThreadSpec => []ThreadTypeOK
BY ThreadInvariant, ThreadInvImplies, PTL

\* Whatever the number of messages, of chats and of messages in one second, the query of
\* list_chat_messages gives the last ones of a chat, in their order (HistoryIsInOrder).
THEOREM HistoryStaysInOrder == ThreadSpec => []HistoryIsInOrder
BY ThreadInvariant, ListedInOrder, PTL

-----------------------------------------------------------------------------
(***************************************************************************)
(* MonolithMigration.  The invariant says how far the open transaction is  *)
(* (Progress), that it is seen by nobody (Outside), that a database without*)
(* the marker has no row of the monolith (Unmarked), that services keep the*)
(* rows they have (Kept), and what a table without rows of a service is    *)
(* while it is verified (Copying).                                         *)
(***************************************************************************)

InTransaction == script.does \in {"copy", "verify", "commit"}

MigrationTyped ==
    /\ legacy \in UNION {[had -> SUBSET Keys] : had \in SUBSET Tables}
    /\ rows \in [Tables -> SUBSET Rows] /\ work \in [Tables -> SUBSET Rows]
    /\ applied \subseteq {1, 2}
    /\ script \in [does : {"nothing", "open", "copy", "verify", "commit"},
                   db : {1, 2}, table : Nat]
    /\ script.table \in 1..Len(Databases[script.db])
    /\ up \in BOOLEAN /\ crashes \in 0..MaxCrashes
    /\ own \in [Tables -> SUBSET Keys] /\ deleted \in [Tables -> SUBSET Keys]
    /\ seen \in [Tables -> Sight]

Order ==
    /\ script.does = "open" => script.table = 1
    /\ InTransaction => script.db \notin applied

\* The row with key k of the monolith, or of a service, is in the table whose rows are R.
Has(R, k)  == [key |-> k, from |-> "monolith"] \in R
Owns(R, k) == [key |-> k, from |-> "service"] \in R

Kept ==
    \A t \in Tables : \A k \in Keys :
        (Owns(rows[t], k) <=> k \in own[t]) /\ (Owns(work[t], k) <=> k \in own[t])

Unmarked ==
    \A d \in {1, 2} \ applied : \A t \in TableSet(d) :
        deleted[t] = {} /\ \A k \in Keys : ~ Has(rows[t], k)

Outside ==
    \A t \in Tables : (InTransaction /\ t \in TableSet(script.db)) \/ work[t] = rows[t]

NotSeen == \A t \in Tables \ DOMAIN legacy : seen[t] = Unseen

\* What is being verified is in the monolith, and all of it is a copy unless there were
\* rows before.
Copying ==
    script.does = "verify" =>
        /\ Current \in DOMAIN legacy /\ seen[Current].read \subseteq legacy[Current]
        /\ seen[Current].taken = {} =>
               work[Current] = RowsOf(seen[Current].read, "monolith")

\* The tables that the transaction is through with.
Through(i) ==
    \/ script.does = "copy" /\ i < script.table
    \/ script.does = "verify" /\ i <= script.table
    \/ script.does = "commit"

\* What the script has seen in the monolith for table t is in R, or was taken.
Covers(sight, R) ==
    /\ \A k \in sight.read : k \in sight.taken \/ Has(R, k)
    /\ sight.taken = {} => \A k \in sight.counted : Has(R, k)

Progress ==
    \A i \in 1..Len(Databases[script.db]) :
        Through(i) => Covers(seen[Databases[script.db][i]], work[Databases[script.db][i]])

Arrives(sight, gone, R) ==
    /\ \A k \in sight.read : k \in gone \/ k \in sight.taken \/ Has(R, k)
    /\ sight.taken = {} => \A k \in sight.counted : k \in gone \/ Has(R, k)

Arrived ==
    /\ \A d \in applied : \A t \in TableSet(d) : Arrives(seen[t], deleted[t], rows[t])
    /\ \A t \in Tables : \A k \in deleted[t] : ~ Has(rows[t], k)

MigrationInv ==
    /\ MigrationTyped /\ Order /\ Kept /\ Unmarked /\ Outside /\ NotSeen /\ Copying
    /\ Progress /\ Arrived

LEMMA TablesOf ==
    /\ \A d \in {1, 2} :
          /\ Len(Databases[d]) \in Nat /\ Len(Databases[d]) >= 1
          /\ DOMAIN Databases[d] = 1..Len(Databases[d])
          /\ \A i \in 1..Len(Databases[d]) : Databases[d][i] \in TableSet(d)
          /\ \A t \in TableSet(d) : \E i \in 1..Len(Databases[d]) : Databases[d][i] = t
          /\ TableSet(d) \subseteq Tables
    /\ \A t \in Tables : \E d \in {1, 2} : t \in TableSet(d)
    /\ \A d, e \in {1, 2} : \A t \in TableSet(d) : t \in TableSet(e) => d = e
<1>1. Databases[1] = ChatTables /\ Databases[2] = DocumentTables
  BY DEF Databases
<1>2. ASSUME NEW d \in {1, 2}
      PROVE  /\ Len(Databases[d]) \in Nat /\ Len(Databases[d]) >= 1
             /\ DOMAIN Databases[d] = 1..Len(Databases[d])
  <2>1. CASE d = 1
    BY <1>1, <2>1, TablesAssumption
  <2>2. CASE d = 2
    BY <1>1, <2>2, TablesAssumption
  <2> QED
    BY <2>1, <2>2
<1>3. TableSet(1) \cap TableSet(2) = {}
  BY TablesAssumption
<1>4. ASSUME NEW d \in {1, 2}
      PROVE  /\ \A i \in 1..Len(Databases[d]) : Databases[d][i] \in TableSet(d)
             /\ \A t \in TableSet(d) : \E i \in 1..Len(Databases[d]) : Databases[d][i] = t
  BY <1>2 DEF TableSet
<1>5. /\ \A d \in {1, 2} : TableSet(d) \subseteq Tables
      /\ \A t \in Tables : \E d \in {1, 2} : t \in TableSet(d)
  BY DEF Tables
<1>6. \A d, e \in {1, 2} : \A t \in TableSet(d) : t \in TableSet(e) => d = e
  BY <1>3
<1> QED
  BY <1>2, <1>4, <1>5, <1>6

LEMMA CurrentIs ==
    ASSUME MigrationInv
    PROVE  Current \in TableSet(script.db) /\ Current \in Tables
BY TablesOf DEF MigrationInv, MigrationTyped, Current

LEMMA RowsKeys ==
    ASSUME NEW R \in SUBSET Rows
    PROVE  /\ KeysOf(R) \subseteq Keys
           /\ \A k : k \in KeysOf(R) <=> \E r \in R : r.key = k
           /\ \A k \in Keys : k \in {r.key : r \in {q \in R : q.from = "monolith"}} <=> Has(R, k)
<1>1. \A r \in R : r \in [key : Keys, from : {"monolith", "service"}]
  BY DEF Rows
<1>2. ASSUME NEW k \in Keys
      PROVE  k \in {r.key : r \in {q \in R : q.from = "monolith"}} <=> Has(R, k)
  <2>1. ASSUME NEW r \in R, r.from = "monolith", r.key = k PROVE Has(R, k)
    <3>1. r = [key |-> k, from |-> "monolith"]
      BY <1>1, <2>1
    <3> QED
      BY <3>1 DEF Has
  <2>2. Has(R, k) => \E r \in R : r.from = "monolith" /\ r.key = k
    BY DEF Has
  <2> QED
    BY <2>1, <2>2
<1> QED
  BY <1>1, <1>2 DEF KeysOf

LEMMA MigrationInvImplies ==
    MigrationInv => MigrationTypeOK /\ AllTablesOrNone /\ CopiedRowsArriveOnce
<1> SUFFICES ASSUME MigrationInv PROVE MigrationTypeOK /\ AllTablesOrNone /\ CopiedRowsArriveOnce
  OBVIOUS
<1>1. MigrationTypeOK
  BY TablesOf DEF MigrationInv, MigrationTyped, MigrationTypeOK
<1>2. ASSUME NEW d \in {1, 2}, NEW t \in TableSet(d)
      PROVE  /\ t \in Tables /\ rows[t] \in SUBSET Rows /\ own[t] \subseteq Keys
             /\ seen[t] \in Sight /\ deleted[t] \subseteq Keys
  BY <1>2, TablesOf DEF MigrationInv, MigrationTyped
<1>3. AllTablesOrNone
  <2> SUFFICES ASSUME NEW d \in {1, 2}, NEW t \in TableSet(d)
               PROVE  /\ RowsOf(own[t], "service") \subseteq rows[t]
                      /\ d \notin applied => rows[t] = RowsOf(own[t], "service")
    BY DEF AllTablesOrNone
  <2>1. ASSUME NEW r \in RowsOf(own[t], "service") PROVE r \in rows[t]
    <3>1. PICK k \in own[t] : r = [key |-> k, from |-> "service"]
      BY DEF RowsOf
    <3> QED
      BY <1>2, <3>1 DEF MigrationInv, Kept, Owns
  <2>2. ASSUME d \notin applied, NEW r \in rows[t] PROVE r \in RowsOf(own[t], "service")
    <3>1. PICK k \in Keys, f \in {"monolith", "service"} : r = [key |-> k, from |-> f]
      BY <1>2 DEF Rows
    <3>2. ~ Has(rows[t], k)
      BY <1>2, <2>2 DEF MigrationInv, Unmarked
    <3>3. r = [key |-> k, from |-> "service"]
      BY <3>1, <3>2 DEF Has
    <3>4. k \in own[t]
      BY <1>2, <3>3 DEF MigrationInv, Kept, Owns
    <3> QED
      BY <3>3, <3>4 DEF RowsOf
  <2> QED
    BY <2>1, <2>2
<1>4. CopiedRowsArriveOnce
  <2> SUFFICES ASSUME NEW d \in {1, 2}, NEW t \in TableSet(d)
               PROVE  LET arrived == {r.key : r \in {q \in rows[t] : q.from = "monolith"}}
                      IN  /\ d \in applied =>
                                /\ seen[t].read \subseteq arrived \cup deleted[t] \cup seen[t].taken
                                /\ seen[t].taken = {} =>
                                      seen[t].counted \subseteq arrived \cup deleted[t]
                          /\ arrived \cap deleted[t] = {}
    BY DEF CopiedRowsArriveOnce
  <2> DEFINE arrived == {r.key : r \in {q \in rows[t] : q.from = "monolith"}}
  <2>1. seen[t].read \subseteq Keys /\ seen[t].counted \subseteq Keys
    BY <1>2 DEF Sight
  <2>2. \A k \in Keys : k \in arrived <=> Has(rows[t], k)
    BY <1>2, RowsKeys
  <2>3. /\ d \in applied => Arrives(seen[t], deleted[t], rows[t])
        /\ \A k \in deleted[t] : ~ Has(rows[t], k)
    BY <1>2 DEF MigrationInv, Arrived
  <2> HIDE DEF arrived
  <2>4. d \in applied =>
            /\ seen[t].read \subseteq arrived \cup deleted[t] \cup seen[t].taken
            /\ seen[t].taken = {} => seen[t].counted \subseteq arrived \cup deleted[t]
    BY <2>1, <2>2, <2>3 DEF Arrives
  <2>5. arrived \cap deleted[t] = {}
    BY <1>2, <2>2, <2>3
  <2> QED
    BY <2>4, <2>5 DEF arrived
<1> QED
  BY <1>1, <1>3, <1>4

LEMMA MigrationInitInv == MigrationInit => MigrationInv
<1> SUFFICES ASSUME MigrationInit PROVE MigrationInv
  OBVIOUS
<1>1. script = [does |-> "nothing", db |-> 1, table |-> 1] /\ ~ InTransaction
  BY DEF MigrationInit, Idle, InTransaction
<1>2. /\ rows = [t \in Tables |-> RowsOf(own[t], "service")] /\ work = rows
      /\ applied = {} /\ up \in BOOLEAN /\ crashes = 0
      /\ seen = [t \in Tables |-> Unseen] /\ deleted = [t \in Tables |-> {}]
  BY DEF MigrationInit
<1>3. own \in [Tables -> SUBSET Keys]
  <2>1. PICK used \in SUBSET {1, 2}, k \in Keys :
          own = [t \in Tables |-> IF \E d \in used : t \in TableSet(d) THEN {k} ELSE {}]
    BY DEF MigrationInit
  <2> QED
    BY <2>1
<1>4. ASSUME NEW t \in Tables PROVE RowsOf(own[t], "service") \in SUBSET Rows
  BY <1>3, <1>4 DEF RowsOf, Rows
<1>5. rows \in [Tables -> SUBSET Rows] /\ work \in [Tables -> SUBSET Rows]
  BY <1>2, <1>4
<1>6. legacy \in UNION {[had -> SUBSET Keys] : had \in SUBSET Tables}
  <2>1. PICK had \in SUBSET Tables : legacy \in [had -> {{}, Keys}]
    BY DEF MigrationInit
  <2>2. legacy \in [had -> SUBSET Keys]
    BY <2>1
  <2> QED
    BY <2>2
<1>7. MigrationTyped
  <2>1. script.table \in 1..Len(Databases[script.db])
    BY <1>1, TablesOf
  <2>2. script \in [does : {"nothing", "open", "copy", "verify", "commit"},
                    db : {1, 2}, table : Nat]
    BY <1>1
  <2>3. seen \in [Tables -> Sight] /\ deleted \in [Tables -> SUBSET Keys]
    BY <1>2 DEF Sight, Unseen
  <2>4. crashes \in 0..MaxCrashes
    BY <1>2, CrashesAssumption
  <2> QED
    BY <1>2, <1>3, <1>5, <1>6, <2>1, <2>2, <2>3, <2>4 DEF MigrationTyped
<1>8. ASSUME NEW t \in Tables, NEW k \in Keys
      PROVE  (Owns(rows[t], k) <=> k \in own[t]) /\ ~ Has(rows[t], k)
  <2>1. rows[t] = {[key |-> l, from |-> "service"] : l \in own[t]}
    BY <1>2 DEF RowsOf
  <2>2. \A l : [key |-> l, from |-> "service"].from # "monolith"
    OBVIOUS
  <2>3. \A l, m : [key |-> l, from |-> "service"] = [key |-> m, from |-> "service"] => l = m
    OBVIOUS
  <2>4. ~ Has(rows[t], k)
    BY <2>1, <2>2 DEF Has
  <2>5. Owns(rows[t], k) <=> k \in own[t]
    BY <2>1, <2>3 DEF Owns
  <2> QED
    BY <2>4, <2>5
<1>9. Order /\ Kept /\ Unmarked /\ Outside
  BY <1>1, <1>2, <1>8, TablesOf DEF Order, Kept, Unmarked, Outside
<1>10. NotSeen /\ Copying /\ Progress /\ Arrived
  BY <1>1, <1>2 DEF NotSeen, Copying, Progress, Through, Arrived
<1> QED
  BY <1>7, <1>9, <1>10 DEF MigrationInv

-----------------------------------------------------------------------------
(* The script outside a transaction. *)

LEMMA StartInv ==
    ASSUME MigrationInv, StartScript
    PROVE  MigrationInv'
<1>1. /\ script.does = "nothing" /\ script' = [does |-> "open", db |-> 1, table |-> 1]
      /\ UNCHANGED <<legacy, rows, work, applied, up, crashes, own, seen, deleted>>
  BY DEF StartScript, Idle
<1>2. ~ InTransaction /\ ~ InTransaction'
  BY <1>1 DEF InTransaction
<1>3. MigrationTyped'
  <2>1. 1 \in 1..Len(Databases[1])
    BY TablesOf
  <2> QED
    BY <1>1, <2>1 DEF MigrationInv, MigrationTyped
<1>4. Order' /\ Kept' /\ Unmarked' /\ Outside' /\ NotSeen'
  BY <1>1, <1>2 DEF MigrationInv, Order, Kept, Unmarked, Outside, NotSeen
<1>5. Copying' /\ Progress' /\ Arrived'
  BY <1>1 DEF MigrationInv, Copying, Progress, Through, Arrived
<1> QED
  BY <1>3, <1>4, <1>5 DEF MigrationInv

\* The script goes on to the second database, or starts the services.
LEMMA NextTableInv ==
    ASSUME MigrationInv, script.does # "nothing", NextDatabase,
           applied' \in {applied, applied \cup {script.db}},
           UNCHANGED <<legacy, crashes, own, seen, deleted>>,
           work' = rows', rows' \in [Tables -> SUBSET Rows], Kept', Unmarked', Arrived'
    PROVE  MigrationInv'
<1>1. /\ script' \in {[does |-> "open", db |-> 2, table |-> 1],
                       [does |-> "nothing", db |-> 1, table |-> 1]}
      /\ ~ InTransaction'
  BY DEF NextDatabase, InTransaction, Idle
<1>2. MigrationTyped'
  <2>1. 1 \in 1..Len(Databases[1]) /\ 1 \in 1..Len(Databases[2])
    BY TablesOf
  <2>2. script'.table \in 1..Len(Databases[script'.db])
    BY <1>1, <2>1
  <2>3. script' \in [does : {"nothing", "open", "copy", "verify", "commit"},
                     db : {1, 2}, table : Nat]
    BY <1>1
  <2>4. up' \in BOOLEAN /\ applied' \subseteq {1, 2}
    BY DEF MigrationInv, MigrationTyped, NextDatabase
  <2> QED
    BY <2>2, <2>3, <2>4 DEF MigrationInv, MigrationTyped
<1>3. Order' /\ Outside' /\ NotSeen'
  BY <1>1 DEF MigrationInv, Order, Outside, NotSeen
<1>4. Copying' /\ Progress'
  BY <1>1 DEF Copying, Progress, Through
<1> QED
  BY <1>2, <1>3, <1>4 DEF MigrationInv

LEMMA OpenInv ==
    ASSUME MigrationInv, Open
    PROVE  MigrationInv'
<1>1. /\ script.does = "open" /\ ~ InTransaction
      /\ UNCHANGED <<legacy, rows, work, applied, crashes, own, seen, deleted>>
  BY DEF Open, InTransaction
<1>2. work = rows
  BY <1>1 DEF MigrationInv, MigrationTyped, Outside
<1>3. Kept' /\ Unmarked' /\ Arrived' /\ NotSeen'
  BY <1>1 DEF MigrationInv, Kept, Unmarked, Arrived, NotSeen
<1>4. CASE script.db \in applied
  <2>1. NextDatabase
    BY <1>4 DEF Open
  <2> QED
    BY <1>1, <1>2, <1>3, <2>1, NextTableInv DEF MigrationInv, MigrationTyped
<1>5. CASE script.db \notin applied
  <2>1. script' = [script EXCEPT !.does = "copy"] /\ UNCHANGED up
    BY <1>5 DEF Open, Begin
  <2>2. /\ script'.does = "copy" /\ script'.db = script.db
        /\ script'.table = script.table /\ InTransaction'
    BY <2>1 DEF MigrationInv, MigrationTyped, InTransaction
  <2>3. MigrationTyped'
    BY <1>1, <2>1, <2>2 DEF MigrationInv, MigrationTyped
  <2>4. Order' /\ Outside' /\ Copying'
    BY <1>1, <1>2, <1>5, <2>2 DEF MigrationInv, Order, Outside, Copying
  <2>5. Progress'
    <3>1. script'.table = 1
      BY <1>1, <2>2 DEF MigrationInv, Order
    <3> QED
      BY <2>2, <3>1 DEF Progress, Through
  <2> QED
    BY <1>3, <2>3, <2>4, <2>5 DEF MigrationInv
<1> QED
  BY <1>4, <1>5

-----------------------------------------------------------------------------
(* The transaction. *)

\* The transaction is through with a table, which has changed no row.
LEMMA AfterTableInv ==
    ASSUME MigrationInv, script.does \in {"copy", "verify"}, script' = AfterTable,
           UNCHANGED <<legacy, rows, work, applied, up, crashes, own, deleted>>,
           seen' \in [Tables -> Sight], NotSeen',
           \A t \in Tables : t # Current => seen'[t] = seen[t],
           Covers(seen'[Current], work[Current])
    PROVE  MigrationInv'
<1>0. Current \in TableSet(script.db) /\ Current \in Tables
  BY CurrentIs
<1>1. /\ script.db \in {1, 2} /\ Len(Databases[script.db]) \in Nat
      /\ script.table \in 1..Len(Databases[script.db])
      /\ InTransaction
  BY TablesOf DEF MigrationInv, MigrationTyped, InTransaction
<1>2. /\ script'.db = script.db /\ script'.does \in {"copy", "commit"}
      /\ script'.does = "copy" =>
            script'.table = script.table + 1 /\ script.table < Len(Databases[script.db])
      /\ script'.does = "commit" =>
            script'.table = script.table /\ script.table = Len(Databases[script.db])
      /\ InTransaction'
  BY <1>1 DEF AfterTable, InTransaction, MigrationInv, MigrationTyped
<1>3. MigrationTyped'
  <2>1. script'.table \in 1..Len(Databases[script'.db])
    BY <1>1, <1>2
  <2>2. script' \in [does : {"nothing", "open", "copy", "verify", "commit"},
                     db : {1, 2}, table : Nat]
    <3>1. \/ script' = [script EXCEPT !.does = "copy", !.table = @ + 1]
          \/ script' = [script EXCEPT !.does = "commit"]
      BY DEF AfterTable
    <3>2. script.table + 1 \in Nat
      BY <1>1
    <3> QED
      BY <3>1, <3>2 DEF MigrationInv, MigrationTyped
  <2> QED
    BY <2>1, <2>2 DEF MigrationInv, MigrationTyped
<1>4. Order' /\ Kept' /\ Unmarked' /\ Outside' /\ Copying'
  BY <1>1, <1>2 DEF MigrationInv, Order, Kept, Unmarked, Outside, Copying
<1>5. Progress'
  <2>1. ASSUME NEW i \in 1..Len(Databases[script.db]), Through(i)'
        PROVE  Covers(seen'[Databases[script.db][i]], work[Databases[script.db][i]])
    <3>1. CASE Databases[script.db][i] = Current
      BY <3>1
    <3>2. CASE Databases[script.db][i] # Current
      <4>1. i # script.table
        BY <3>2 DEF Current
      <4>2. i < script.table
        BY <1>1, <1>2, <2>1, <4>1 DEF Through
      <4>3. Through(i)
        BY <1>1, <4>2 DEF Through
      <4>4. Covers(seen[Databases[script.db][i]], work[Databases[script.db][i]])
        BY <4>3 DEF MigrationInv, Progress
      <4>5. Databases[script.db][i] \in Tables
        BY <1>1, TablesOf
      <4> QED
        BY <3>2, <4>4, <4>5
    <3> QED
      BY <3>1, <3>2
  <2> QED
    BY <1>2, <2>1 DEF Progress
<1>6. Arrived'
  <2>1. ASSUME NEW d \in applied, NEW t \in TableSet(d)
        PROVE  t # Current /\ t \in Tables
    <3>1. d # script.db /\ d \in {1, 2}
      BY <1>1 DEF MigrationInv, MigrationTyped, Order
    <3> QED
      BY <1>0, <1>1, <2>1, <3>1, TablesOf
  <2> QED
    BY <2>1 DEF MigrationInv, Arrived
<1> QED
  BY <1>3, <1>4, <1>5, <1>6 DEF MigrationInv

LEMMA SkipInv ==
    ASSUME MigrationInv, SkipTable
    PROVE  MigrationInv'
<1>1. Covers(seen[Current], work[Current])
  BY CurrentIs DEF SkipTable, MigrationInv, NotSeen, Unseen, Covers
<1>2. seen' = seen /\ legacy' = legacy /\ seen \in [Tables -> Sight]
  BY DEF SkipTable, MigrationInv, MigrationTyped
<1>3. NotSeen'
  BY <1>2 DEF MigrationInv, NotSeen
<1> QED
  BY <1>1, <1>2, <1>3, AfterTableInv DEF SkipTable

\* What INSERT OR IGNORE does to a table.
LEMMA CopiedHas ==
    ASSUME MigrationInv, NEW t \in Tables, t \in DOMAIN legacy
    PROVE  /\ legacy[t] \subseteq Keys /\ KeysOf(work[t]) \subseteq Keys
           /\ Copied(t) \in SUBSET Rows
           /\ \A k \in Keys : Owns(Copied(t), k) <=> Owns(work[t], k)
           /\ \A k \in legacy[t] : k \in KeysOf(work[t]) \/ Has(Copied(t), k)
           /\ KeysOf(work[t]) = {} => Copied(t) = RowsOf(legacy[t], "monolith")
<1>1. legacy[t] \subseteq Keys /\ work[t] \in SUBSET Rows
  BY DEF MigrationInv, MigrationTyped
<1>2. KeysOf(work[t]) \subseteq Keys
  BY <1>1, RowsKeys
<1> DEFINE new == {[key |-> k, from |-> "monolith"] : k \in legacy[t] \ KeysOf(work[t])}
<1>3. Copied(t) = work[t] \cup new
  BY DEF Copied, RowsOf
<1>4. \A k \in Keys : [key |-> k, from |-> "monolith"] \in Rows
  BY DEF Rows
<1>5. new \in SUBSET Rows
  BY <1>1, <1>4
<1>6. \A k : [key |-> k, from |-> "service"] \notin new
  <2>1. \A k, l : [key |-> k, from |-> "service"] # [key |-> l, from |-> "monolith"]
    <3>1. \A k, l : [key |-> k, from |-> "service"].from # [key |-> l, from |-> "monolith"].from
      OBVIOUS
    <3> QED
      BY <3>1
  <2> QED
    BY <2>1
<1>7. \A k \in legacy[t] : k \notin KeysOf(work[t]) => [key |-> k, from |-> "monolith"] \in new
  OBVIOUS
<1>8. ASSUME KeysOf(work[t]) = {} PROVE Copied(t) = RowsOf(legacy[t], "monolith")
  <2>1. work[t] = {}
    <3>1. ASSUME NEW r \in work[t] PROVE r.key \in KeysOf(work[t])
      BY DEF KeysOf
    <3> QED
      BY <1>8, <3>1
  <2>2. new = RowsOf(legacy[t], "monolith")
    BY <1>8 DEF RowsOf
  <2> QED
    BY <1>3, <2>1, <2>2
<1> HIDE DEF new
<1> QED
  BY <1>1, <1>2, <1>3, <1>5, <1>6, <1>7, <1>8 DEF Has, Owns

LEMMA CopyInv ==
    ASSUME MigrationInv, CopyTable
    PROVE  MigrationInv'
<1>0. PICK t \in Tables, d \in {1, 2} : t = Current /\ d = script.db
  BY CurrentIs DEF MigrationInv, MigrationTyped
<1>1. /\ t \in TableSet(d) /\ t \in DOMAIN legacy /\ script.does = "copy" /\ InTransaction
      /\ d \notin applied
  BY <1>0, CurrentIs DEF CopyTable, MigrationInv, Order, InTransaction
<1>2. /\ work' = [work EXCEPT ![t] = Copied(t)]
      /\ script' = [script EXCEPT !.does = "verify"]
      /\ seen' = [seen EXCEPT ![t] =
                     [read |-> legacy[t], taken |-> KeysOf(work[t]), counted |-> {}]]
      /\ UNCHANGED <<legacy, rows, applied, up, crashes, own, deleted>>
  BY <1>0 DEF CopyTable, Looks
<1>3. /\ script'.does = "verify" /\ script'.db = d
      /\ script'.table = script.table /\ InTransaction' /\ Current' = t
  BY <1>0, <1>2 DEF MigrationInv, MigrationTyped, InTransaction, Current
<1>4. /\ work'[t] = Copied(t)
      /\ seen'[t] = [read |-> legacy[t], taken |-> KeysOf(work[t]), counted |-> {}]
      /\ \A u \in Tables : u # t => work'[u] = work[u] /\ seen'[u] = seen[u]
  BY <1>2 DEF MigrationInv, MigrationTyped
<1>5. MigrationTyped'
  <2>1. seen'[t] \in Sight
    BY <1>1, <1>4, CopiedHas DEF Sight
  <2>2. seen' \in [Tables -> Sight]
    BY <1>2, <1>4, <2>1 DEF MigrationInv, MigrationTyped
  <2>3. work' \in [Tables -> SUBSET Rows]
    BY <1>1, <1>2, CopiedHas DEF MigrationInv, MigrationTyped
  <2> QED
    BY <1>2, <1>3, <2>2, <2>3 DEF MigrationInv, MigrationTyped
<1>6. Order' /\ Unmarked' /\ Outside' /\ NotSeen'
  BY <1>0, <1>1, <1>2, <1>3, <1>4 DEF MigrationInv, Order, Unmarked, Outside, NotSeen
<1>7. Kept'
  <2>1. ASSUME NEW u \in Tables, NEW k \in Keys
        PROVE  (Owns(rows[u], k) <=> k \in own[u]) /\ (Owns(work'[u], k) <=> k \in own[u])
    <3>1. (Owns(rows[u], k) <=> k \in own[u]) /\ (Owns(work[u], k) <=> k \in own[u])
      BY DEF MigrationInv, Kept
    <3>2. CASE u = t
      BY <1>1, <1>4, <3>1, <3>2, CopiedHas
    <3>3. CASE u # t
      BY <1>4, <3>1, <3>3
    <3> QED
      BY <3>2, <3>3
  <2> QED
    BY <1>2, <2>1 DEF Kept
<1>8. Copying'
  <2>1. seen'[t].read = legacy[t] /\ seen'[t].taken = KeysOf(work[t])
    BY <1>4
  <2> QED
    BY <1>1, <1>2, <1>3, <1>4, <2>1, CopiedHas DEF Copying
<1>9. Progress'
  <2>1. Covers(seen'[t], work'[t])
    <3>1. /\ seen'[t].read = legacy[t] /\ seen'[t].taken = KeysOf(work[t])
          /\ seen'[t].counted = {}
      BY <1>4
    <3> QED
      BY <1>1, <1>4, <3>1, CopiedHas DEF Covers
  <2>2. ASSUME NEW i \in 1..Len(Databases[d]), Through(i)'
        PROVE  Covers(seen'[Databases[d][i]], work'[Databases[d][i]])
    <3>1. CASE Databases[d][i] = t
      BY <2>1, <3>1
    <3>2. CASE Databases[d][i] # t
      <4>1. i # script.table
        BY <1>0, <3>2 DEF Current
      <4>2. Through(i)
        BY <1>1, <1>3, <2>2, <4>1 DEF Through, MigrationInv, MigrationTyped
      <4>3. Covers(seen[Databases[d][i]], work[Databases[d][i]])
        BY <1>0, <4>2 DEF MigrationInv, Progress
      <4>4. Databases[d][i] \in Tables
        BY TablesOf
      <4> QED
        BY <1>4, <3>2, <4>3, <4>4
    <3> QED
      BY <3>1, <3>2
  <2> QED
    BY <1>3, <2>2 DEF Progress
<1>10. Arrived'
  <2>1. ASSUME NEW e \in applied, NEW u \in TableSet(e) PROVE u # t /\ u \in Tables
    <3>1. e # d /\ e \in {1, 2}
      BY <1>1 DEF MigrationInv, MigrationTyped
    <3> QED
      BY <1>1, <2>1, <3>1, TablesOf
  <2> QED
    BY <1>2, <1>4, <2>1 DEF MigrationInv, Arrived
<1> QED
  BY <1>5, <1>6, <1>7, <1>8, <1>9, <1>10 DEF MigrationInv

LEMMA RollbackInv ==
    ASSUME MigrationInv, Rollback, crashes' \in 0..MaxCrashes,
           UNCHANGED <<legacy, rows, applied, up, own, seen, deleted>>
    PROVE  MigrationInv'
<1>1. /\ script' = [does |-> "nothing", db |-> 1, table |-> 1] /\ work' = rows
      /\ ~ InTransaction'
  BY DEF Rollback, Idle, InTransaction
<1>2. MigrationTyped'
  <2>1. 1 \in 1..Len(Databases[1])
    BY TablesOf
  <2> QED
    BY <1>1, <2>1 DEF MigrationInv, MigrationTyped
<1>3. Order' /\ Kept' /\ Unmarked' /\ Outside' /\ NotSeen'
  BY <1>1 DEF MigrationInv, Order, Kept, Unmarked, Outside, NotSeen
<1>4. Copying' /\ Progress' /\ Arrived'
  BY <1>1 DEF MigrationInv, Copying, Progress, Through, Arrived
<1> QED
  BY <1>2, <1>3, <1>4 DEF MigrationInv

\* There are as many rows of the monolith as keys.
LEMMA AsManyRows ==
    ASSUME NEW K \in SUBSET Keys
    PROVE  /\ IsFiniteSet(K) /\ IsFiniteSet(RowsOf(K, "monolith"))
           /\ Cardinality(RowsOf(K, "monolith")) = Cardinality(K)
<1>1. IsFiniteSet(K)
  BY KeysAssumption, FS_Subset
<1> DEFINE f == [k \in K |-> [key |-> k, from |-> "monolith"]]
<1>2. f \in [K -> RowsOf(K, "monolith")]
  BY DEF RowsOf
<1>3. \A k, l \in K : f[k] = f[l] => k = l
  <2>1. \A k \in K : f[k].key = k
    OBVIOUS
  <2> QED
    BY <2>1
<1>4. \A r \in RowsOf(K, "monolith") : \E k \in K : f[k] = r
  BY DEF RowsOf
<1>5. f \in Bijection(K, RowsOf(K, "monolith"))
  BY <1>2, <1>3, <1>4 DEF Bijection, Injection, Surjection, IsInjective
<1>6. ExistsBijection(K, RowsOf(K, "monolith"))
  BY <1>5 DEF ExistsBijection
<1> QED
  BY <1>1, <1>6, FS_Bijection

\* A copy of a part that is not smaller than the whole is a copy of the whole.
LEMMA VerifiedIsWhole ==
    ASSUME MigrationInv, script.does = "verify", seen[Current].taken = {},
           ~ (Cardinality(work[Current]) < Cardinality(legacy[Current]))
    PROVE  seen[Current].read = legacy[Current]
<1> DEFINE read == seen[Current].read
           all  == legacy[Current]
<1>1. /\ Current \in DOMAIN legacy /\ read \subseteq all
      /\ work[Current] = RowsOf(read, "monolith")
  BY DEF MigrationInv, Copying
<1>2. all \subseteq Keys
  BY <1>1 DEF MigrationInv, MigrationTyped
<1>3. IsFiniteSet(all) /\ IsFiniteSet(read) /\ Cardinality(work[Current]) = Cardinality(read)
  BY <1>1, <1>2, AsManyRows
<1>4. Cardinality(read) \in Nat /\ Cardinality(all) \in Nat
  BY <1>3, FS_CardinalityType
<1>5. Cardinality(read) <= Cardinality(all) /\ (Cardinality(all) = Cardinality(read) => all = read)
  BY <1>1, <1>3, FS_Subset
<1>6. Cardinality(all) = Cardinality(read)
  BY <1>3, <1>4, <1>5
<1> QED
  BY <1>5, <1>6

LEMMA VerifyInv ==
    ASSUME MigrationInv, Verify
    PROVE  MigrationInv'
<1>1. CASE Rollback /\ UNCHANGED seen
  BY <1>1, RollbackInv DEF Verify, MigrationInv, MigrationTyped
<1>2. CASE Verified /\ ~ (Cardinality(work[Current]) < Cardinality(legacy[Current]))
  <2>1. /\ script.does = "verify" /\ script' = AfterTable
        /\ seen' = [seen EXCEPT ![Current].counted = legacy[Current]]
        /\ UNCHANGED <<legacy, rows, work, applied, up, crashes, own, deleted>>
    BY <1>2 DEF Verify, Verified
  <2>2. /\ Current \in Tables /\ Current \in DOMAIN legacy /\ legacy[Current] \in SUBSET Keys
    BY <2>1, CurrentIs DEF MigrationInv, MigrationTyped, Copying
  <2>3. /\ seen'[Current] = [seen[Current] EXCEPT !.counted = legacy[Current]]
        /\ \A t \in Tables : t # Current => seen'[t] = seen[t]
        /\ seen[Current] \in Sight
    BY <2>1, <2>2 DEF MigrationInv, MigrationTyped
  <2>4. /\ seen'[Current].read = seen[Current].read
        /\ seen'[Current].taken = seen[Current].taken
        /\ seen'[Current].counted = legacy[Current]
        /\ seen'[Current] \in Sight
    BY <2>2, <2>3 DEF Sight
  <2>5. seen' \in [Tables -> Sight]
    BY <2>1, <2>2, <2>4 DEF MigrationInv, MigrationTyped
  <2>6. NotSeen'
    BY <2>1, <2>2, <2>3 DEF MigrationInv, NotSeen
  <2>7. Covers(seen[Current], work[Current])
    <3>1. Through(script.table) /\ script.table \in 1..Len(Databases[script.db])
      BY <2>1, TablesOf DEF Through, MigrationInv, MigrationTyped
    <3> QED
      BY <3>1 DEF MigrationInv, Progress, Current
  <2>8. seen[Current].taken = {} => seen[Current].read = legacy[Current]
    BY <1>2, <2>1, VerifiedIsWhole
  <2>9. Covers(seen'[Current], work[Current])
    BY <2>4, <2>7, <2>8 DEF Covers
  <2> QED
    BY <2>1, <2>3, <2>5, <2>6, <2>9, AfterTableInv
<1> QED
  BY <1>1, <1>2 DEF Verify

LEMMA CommitInv ==
    ASSUME MigrationInv, Commit
    PROVE  MigrationInv'
<1>1. /\ script.does = "commit" /\ rows' = work /\ applied' = applied \cup {script.db}
      /\ NextDatabase /\ UNCHANGED <<legacy, work, crashes, own, seen, deleted>>
      /\ script.db \in {1, 2} /\ InTransaction /\ script.db \notin applied
  BY DEF Commit, MigrationInv, MigrationTyped, Order, InTransaction
<1>2. \A t \in Tables : t \notin TableSet(script.db) => work[t] = rows[t]
  BY DEF MigrationInv, Outside
<1>3. Kept'
  BY <1>1 DEF MigrationInv, Kept
<1>4. Unmarked'
  <2>1. ASSUME NEW d \in {1, 2} \ applied', NEW t \in TableSet(d)
        PROVE  work[t] = rows[t] /\ d \in {1, 2} \ applied
    <3>1. d # script.db /\ d \in {1, 2} \ applied
      BY <1>1, <2>1
    <3>2. t \notin TableSet(script.db) /\ t \in Tables
      BY <1>1, <2>1, <3>1, TablesOf
    <3> QED
      BY <1>2, <3>1, <3>2
  <2> QED
    BY <1>1, <2>1 DEF MigrationInv, Unmarked
<1>5. Arrived'
  <2>1. ASSUME NEW t \in TableSet(script.db)
        PROVE  Covers(seen[t], work[t]) /\ deleted[t] = {}
    <3>1. PICK i \in 1..Len(Databases[script.db]) : Databases[script.db][i] = t
      BY <1>1, <2>1, TablesOf
    <3>2. Covers(seen[t], work[t])
      BY <1>1, <3>1 DEF MigrationInv, Progress, Through
    <3>3. deleted[t] = {}
      BY <1>1, <2>1 DEF MigrationInv, Unmarked
    <3> QED
      BY <3>2, <3>3
  <2>2. ASSUME NEW d \in applied', NEW t \in TableSet(d)
        PROVE  Arrives(seen[t], deleted[t], work[t])
    <3>1. CASE d = script.db
      BY <2>1, <2>2, <3>1 DEF Covers, Arrives
    <3>2. CASE d # script.db
      <4>1. d \in applied /\ d \in {1, 2} /\ t \in Tables /\ t \notin TableSet(script.db)
        BY <1>1, <2>2, <3>2, TablesOf DEF MigrationInv, MigrationTyped
      <4> QED
        BY <1>2, <2>2, <4>1 DEF MigrationInv, Arrived
    <3> QED
      BY <3>1, <3>2
  <2>3. ASSUME NEW t \in Tables, NEW k \in deleted[t] PROVE ~ Has(work[t], k)
    BY <1>2, <2>1, <2>3 DEF MigrationInv, Arrived
  <2> QED
    BY <1>1, <2>2, <2>3 DEF Arrived
<1>6. work' = rows' /\ rows' \in [Tables -> SUBSET Rows]
  BY <1>1 DEF MigrationInv, MigrationTyped
<1> QED
  BY <1>1, <1>3, <1>4, <1>5, <1>6, NextTableInv

-----------------------------------------------------------------------------
(* The environment. *)

LEMMA WriteLegacyInv ==
    ASSUME MigrationInv, NEW t \in Tables, NEW k \in Keys, WriteLegacy(t, k)
    PROVE  MigrationInv'
<1>1. /\ t \in DOMAIN legacy /\ legacy' = [legacy EXCEPT ![t] = @ \cup {k}]
      /\ UNCHANGED <<rows, work, applied, script, up, crashes, own, seen, deleted>>
  BY DEF WriteLegacy
<1>2. PICK had \in SUBSET Tables : legacy \in [had -> SUBSET Keys]
  BY DEF MigrationInv, MigrationTyped
<1>3. legacy' \in [had -> SUBSET Keys] /\ DOMAIN legacy' = DOMAIN legacy
  BY <1>1, <1>2
<1>4. MigrationTyped'
  BY <1>1, <1>3 DEF MigrationInv, MigrationTyped
<1>5. NotSeen'
  BY <1>1, <1>3 DEF MigrationInv, NotSeen
<1>6. Order' /\ Kept' /\ Unmarked' /\ Outside'
  BY <1>1 DEF MigrationInv, Order, Kept, Unmarked, Outside, InTransaction
<1>7. Copying'
  <2>1. Current' = Current /\ \A u \in DOMAIN legacy : legacy[u] \subseteq legacy'[u]
    BY <1>1, <1>2 DEF Current
  <2> QED
    BY <1>1, <1>3, <2>1 DEF MigrationInv, Copying
<1>8. Progress' /\ Arrived'
  BY <1>1 DEF MigrationInv, Progress, Through, Arrived
<1> QED
  BY <1>4, <1>5, <1>6, <1>7, <1>8 DEF MigrationInv

\* A service changes the rows of a table that is not locked: then the transaction has not
\* copied any table of that database.
LEMMA ServiceInv ==
    ASSUME MigrationInv, NEW t \in Tables, ~ Locked(t),
           NEW R \in SUBSET Rows, NEW O \in SUBSET Keys, NEW D \in SUBSET Keys,
           rows' = [rows EXCEPT ![t] = R], work' = [work EXCEPT ![t] = R],
           own' = [own EXCEPT ![t] = O], deleted' = [deleted EXCEPT ![t] = D],
           \A k \in Keys : Owns(R, k) <=> k \in O,
           \A k \in Keys : Has(R, k) => Has(rows[t], k),
           \A k \in Keys : Has(rows[t], k) => Has(R, k) \/ k \in D,
           \A k \in D : k \in deleted[t] \/ Has(rows[t], k),
           deleted[t] \subseteq D,
           \A k \in D : ~ Has(R, k),
           UNCHANGED <<legacy, applied, script, up, crashes, seen>>
    PROVE  MigrationInv'
<1>1. /\ rows'[t] = R /\ work'[t] = R /\ own'[t] = O /\ deleted'[t] = D
      /\ \A u \in Tables : u # t => /\ rows'[u] = rows[u] /\ work'[u] = work[u]
                                    /\ own'[u] = own[u] /\ deleted'[u] = deleted[u]
      /\ deleted[t] \in SUBSET Keys /\ seen \in [Tables -> Sight]
  BY DEF MigrationInv, MigrationTyped
<1>2. MigrationTyped'
  BY DEF MigrationInv, MigrationTyped
<1>3. Order' /\ NotSeen'
  BY DEF MigrationInv, Order, NotSeen, InTransaction
<1>4. Kept'
  BY <1>1 DEF MigrationInv, Kept
<1>5. Unmarked'
  <2>1. ASSUME NEW d \in {1, 2} \ applied, NEW u \in TableSet(d)
        PROVE  deleted'[u] = {} /\ \A k \in Keys : ~ Has(rows'[u], k)
    <3>1. u \in Tables /\ deleted[u] = {} /\ \A k \in Keys : ~ Has(rows[u], k)
      BY <2>1, TablesOf DEF MigrationInv, Unmarked
    <3> QED
      BY <1>1, <3>1
  <2> QED
    BY <2>1 DEF Unmarked
<1>6. Outside'
  BY <1>1 DEF MigrationInv, Outside, InTransaction
<1>7. Copying'
  <2>1. CASE script.does = "verify"
    <3>1. Current # t
      BY <2>1, CurrentIs DEF Locked
    <3> QED
      BY <1>1, <3>1, CurrentIs DEF MigrationInv, Copying, Current
  <2> QED
    BY <2>1 DEF Copying
<1>8. Progress'
  <2>1. ASSUME NEW i \in 1..Len(Databases[script.db]), Through(i)
        PROVE  LET u == Databases[script.db][i] IN Covers(seen[u], work'[u])
    <3> DEFINE u == Databases[script.db][i]
    <3>1. u \in TableSet(script.db) /\ u \in Tables
      BY TablesOf DEF MigrationInv, MigrationTyped
    <3>2. Covers(seen[u], work[u])
      BY <2>1 DEF MigrationInv, Progress
    <3>3. CASE u # t
      BY <1>1, <3>1, <3>2, <3>3
    <3>4. CASE u = t
      <4>1. u \notin DOMAIN legacy
        BY <2>1, <3>1, <3>4, TablesOf DEF Locked, Through, MigrationInv, MigrationTyped
      <4>2. seen[u] = Unseen
        BY <3>1, <4>1 DEF MigrationInv, NotSeen
      <4> QED
        BY <4>2 DEF Covers, Unseen
    <3> QED
      BY <3>3, <3>4
  <2> QED
    BY <2>1 DEF Progress, Through
<1>9. Arrived'
  <2>1. ASSUME NEW d \in applied, NEW u \in TableSet(d)
        PROVE  Arrives(seen[u], deleted'[u], rows'[u])
    <3>1. u \in Tables
      BY <2>1, TablesOf DEF MigrationInv, MigrationTyped
    <3>2. Arrives(seen[u], deleted[u], rows[u])
      BY <2>1 DEF MigrationInv, Arrived
    <3>3. seen[u].read \subseteq Keys /\ seen[u].counted \subseteq Keys
      BY <1>1, <3>1 DEF Sight
    <3>4. CASE u # t
      BY <1>1, <3>1, <3>2, <3>4
    <3>5. CASE u = t
      BY <1>1, <3>2, <3>3, <3>5 DEF Arrives
    <3> QED
      BY <3>4, <3>5
  <2>2. \A u \in Tables : \A k \in deleted'[u] : ~ Has(rows'[u], k)
    BY <1>1 DEF MigrationInv, Arrived
  <2> QED
    BY <2>1, <2>2 DEF Arrived
<1> QED
  BY <1>2, <1>3, <1>4, <1>5, <1>6, <1>7, <1>8, <1>9 DEF MigrationInv

\* Rows of a service and rows of the monolith are different ones.
LEMMA RowsDiffer ==
    /\ \A k, l : [key |-> k, from |-> "service"] # [key |-> l, from |-> "monolith"]
    /\ \A k, l, f : [key |-> k, from |-> f] = [key |-> l, from |-> f] => k = l
<1>1. \A k, l : [key |-> k, from |-> "service"].from # [key |-> l, from |-> "monolith"].from
  OBVIOUS
<1>2. \A k, f : [key |-> k, from |-> f].key = k
  OBVIOUS
<1>3. \A k, l, f : [key |-> k, from |-> f] = [key |-> l, from |-> f] => k = l
  BY <1>2
<1> QED
  BY <1>1, <1>3

LEMMA InsertInv ==
    ASSUME MigrationInv, NEW t \in Tables, NEW k \in Keys, ServiceInsert(t, k)
    PROVE  MigrationInv'
<1> DEFINE new == [key |-> k, from |-> "service"]
           R   == rows[t] \cup {new}
           O   == own[t] \cup {k}
<1>1. /\ ~ Locked(t) /\ rows' = [rows EXCEPT ![t] = R] /\ own' = [own EXCEPT ![t] = O]
      /\ UNCHANGED <<legacy, applied, script, up, crashes, seen, deleted>>
  BY DEF ServiceInsert, RowsOf
<1>2. /\ rows'[t] = R /\ R \in SUBSET Rows /\ deleted[t] \in SUBSET Keys /\ O \in SUBSET Keys
      /\ deleted' = [deleted EXCEPT ![t] = deleted[t]]
  BY <1>1 DEF MigrationInv, MigrationTyped, Rows
<1>3. work' = [work EXCEPT ![t] = R]
  BY <1>2 DEF ServiceInsert
<1>4. \A l : Has(R, l) <=> Has(rows[t], l)
  BY RowsDiffer DEF Has
<1>5. \A l \in Keys : Owns(R, l) <=> l \in O
  <2>1. \A l \in Keys : Owns(rows[t], l) <=> l \in own[t]
    BY DEF MigrationInv, Kept
  <2>2. \A l : Owns(R, l) <=> Owns(rows[t], l) \/ l = k
    BY RowsDiffer DEF Owns
  <2> QED
    BY <2>1, <2>2
<1>6. \A l \in deleted[t] : ~ Has(R, l)
  BY <1>4 DEF MigrationInv, Arrived
<1> HIDE DEF R, O
<1> QED
  BY <1>1, <1>2, <1>3, <1>4, <1>5, <1>6, ServiceInv

LEMMA DeleteInv ==
    ASSUME MigrationInv, NEW t \in Tables, NEW r \in Rows, ServiceDelete(t, r)
    PROVE  MigrationInv'
<1> DEFINE R == rows[t] \ {r}
           O == IF r.from = "service" THEN own[t] \ {r.key} ELSE own[t]
           D == IF r.from = "service" THEN deleted[t] ELSE deleted[t] \cup {r.key}
<1>0. /\ own[t] \in SUBSET Keys /\ deleted[t] \in SUBSET Keys /\ rows[t] \in SUBSET Rows
      /\ \A k \in Keys : Owns(rows[t], k) <=> k \in own[t]
      /\ \A k \in deleted[t] : ~ Has(rows[t], k)
  BY DEF MigrationInv, MigrationTyped, Kept, Arrived
<1>1. /\ ~ Locked(t) /\ r \in rows[t] /\ rows' = [rows EXCEPT ![t] = R]
      /\ UNCHANGED <<legacy, applied, script, up, crashes, seen>>
  BY DEF ServiceDelete
<1>2. /\ rows'[t] = R /\ R \in SUBSET Rows /\ O \in SUBSET Keys /\ D \in SUBSET Keys
      /\ deleted[t] \subseteq D
  BY <1>0, <1>1 DEF MigrationInv, MigrationTyped, Rows
<1>3. work' = [work EXCEPT ![t] = R]
  BY <1>2 DEF ServiceDelete
<1>4. own' = [own EXCEPT ![t] = O] /\ deleted' = [deleted EXCEPT ![t] = D]
  BY DEF ServiceDelete, MigrationInv, MigrationTyped
<1>5. PICK key \in Keys, from \in {"monolith", "service"} : r = [key |-> key, from |-> from]
  BY DEF Rows
<1>6. r.key = key /\ r.from = from
  BY <1>5
<1>7. /\ \A k \in Keys : Owns(R, k) <=> k \in O
      /\ \A k \in Keys : Has(R, k) => Has(rows[t], k)
      /\ \A k \in Keys : Has(rows[t], k) => Has(R, k) \/ k \in D
      /\ \A k \in D : k \in deleted[t] \/ Has(rows[t], k)
      /\ \A k \in D : ~ Has(R, k)
  <2>1. CASE from = "service"
    <3>1. R = rows[t] \ {[key |-> key, from |-> "service"]} /\ O = own[t] \ {key} /\ D = deleted[t]
      BY <1>5, <1>6, <2>1
    <3> HIDE DEF R, O, D
    <3> QED
      BY <1>0, <3>1, RowsDiffer DEF Has, Owns
  <2>2. CASE from = "monolith"
    <3>1. /\ R = rows[t] \ {[key |-> key, from |-> "monolith"]} /\ O = own[t]
          /\ D = deleted[t] \cup {key} /\ [key |-> key, from |-> "monolith"] \in rows[t]
      BY <1>1, <1>5, <1>6, <2>2
    <3> HIDE DEF R, O, D
    <3> QED
      BY <1>0, <3>1, RowsDiffer DEF Has, Owns
  <2> QED
    BY <2>1, <2>2
<1> HIDE DEF R, O, D
<1> QED
  BY <1>1, <1>2, <1>3, <1>4, <1>7, ServiceInv

-----------------------------------------------------------------------------
LEMMA MigrationNextInv == MigrationInv /\ [MigrationNext]_migrationVars => MigrationInv'
<1> SUFFICES ASSUME MigrationInv, [MigrationNext]_migrationVars PROVE MigrationInv'
  OBVIOUS
<1>1. CASE UNCHANGED migrationVars
  <2>1. MigrationTyped' /\ Order' /\ Kept' /\ Unmarked' /\ Outside' /\ NotSeen'
    BY <1>1 DEF migrationVars, MigrationInv, MigrationTyped, Order, Kept, Unmarked, Outside,
                NotSeen, InTransaction
  <2>2. Copying' /\ Progress' /\ Arrived'
    BY <1>1 DEF migrationVars, MigrationInv, Copying, Current, Progress, Through, Arrived
  <2> QED
    BY <2>1, <2>2 DEF MigrationInv
<1>2. CASE StartScript
  BY <1>2, StartInv
<1>3. CASE ScriptStep
  BY <1>3, OpenInv, SkipInv, CopyInv, VerifyInv, CommitInv DEF ScriptStep
<1>4. CASE Crash
  <2>1. crashes' \in 0..MaxCrashes
    BY <1>4, CrashesAssumption DEF Crash, MigrationInv, MigrationTyped
  <2> QED
    BY <1>4, <2>1, RollbackInv DEF Crash
<1>5. ASSUME NEW t \in Tables, NEW k \in Keys, WriteLegacy(t, k) \/ ServiceInsert(t, k)
      PROVE  MigrationInv'
  BY <1>5, WriteLegacyInv, InsertInv
<1>6. ASSUME NEW t \in Tables, NEW r \in Rows, ServiceDelete(t, r) PROVE MigrationInv'
  BY <1>6, DeleteInv
<1> QED
  BY <1>1, <1>2, <1>3, <1>4, <1>5, <1>6 DEF MigrationNext

LEMMA MigrationInvariant == MigrationSpec => []MigrationInv
BY MigrationInitInv, MigrationNextInv, PTL DEF MigrationSpec

\* Every variable keeps its type, and the script has a table to work on.
THEOREM MigrationTypeCorrect == MigrationSpec => []MigrationTypeOK
BY MigrationInvariant, MigrationInvImplies, PTL

\* Wherever the script is killed or gives up, and whatever the services do meanwhile, a
\* database without the marker has the rows of its services and no others; and the copy
\* takes none away from them (AllTablesOrNone).
THEOREM CopiedAtOnce == MigrationSpec => []AllTablesOrNone
BY MigrationInvariant, MigrationInvImplies, PTL

\* In a database with the marker are the rows that were read from the monolith, except where
\* the service had a row of that key when they were copied or has deleted the row since; of
\* a table in which it had none then, all that the monolith had up to the verification.
\* And no row that a service deleted comes back (CopiedRowsArriveOnce).
THEOREM CopiesArriveOnce == MigrationSpec => []CopiedRowsArriveOnce
BY MigrationInvariant, MigrationInvImplies, PTL

-----------------------------------------------------------------------------
(***************************************************************************)
(* The parts side by side.  A step is one of one part and rests the others,*)
(* so that each keeps its own invariant.                                   *)
(***************************************************************************)

PartsInv == LlmInv /\ StreamInv /\ ThreadInv /\ SettingsInv /\ MigrationInv

LEMMA PartsInitInv == Init => PartsInv
BY LlmInitInv, StreamStarts, ThreadInitInv, SettingsInitInv, MigrationInitInv
   DEF Init, PartsInv

LEMMA PartsNextInv == PartsInv /\ [Next]_vars => PartsInv'
<1> SUFFICES ASSUME PartsInv, [Next]_vars PROVE PartsInv'
  OBVIOUS
<1>1. /\ [LlmNext]_llmVars /\ [StreamNext]_streamVars /\ [ThreadNext]_threadVars
      /\ [SettingsNext]_settingsVars /\ [MigrationNext]_migrationVars
  BY DEF Next, vars, LlmStep, StreamStep, ThreadStep, SettingsStep, MigrationStep
<1>2. LlmInv' /\ StreamInv' /\ ThreadInv'
  BY <1>1, LlmNextInv, StreamGoesOn, ThreadNextInv DEF PartsInv
<1>3. SettingsInv' /\ MigrationInv'
  BY <1>1, SettingsNextInv, MigrationNextInv DEF PartsInv
<1> QED
  BY <1>2, <1>3 DEF PartsInv

\* Every variable of every part keeps its type, with what the types of the parts say of
\* the lock's queue, the answers counted and the table to copy (PartsTypeOK).
THEOREM PartsKeepTheirTypes == Spec => []PartsTypeOK
<1>1. PartsInv => PartsTypeOK
  BY LlmInvImplies, ThreadInvImplies, SettingsInvImplies, MigrationInvImplies
     DEF PartsInv, PartsTypeOK, StreamInv
<1> QED
  BY PartsInitInv, PartsNextInv, <1>1, PTL DEF Spec
=============================================================================
