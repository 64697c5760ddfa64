---------------------------- MODULE AnswerStream ----------------------------
(***************************************************************************)
(* The answer of POST /ai/chat/stream: _stream_answer_with_memory of       *)
(* ai_chat_memory.py, the cleaning of ai_chat.py, and what chat_stream     *)
(* stores.                                                                 *)
(*                                                                         *)
(* The model's text is a sequence of pieces, each of which the patterns of *)
(* the cleaning either know or take for a word.  What a pattern needs two  *)
(* pieces for may be split between two chunks.  After each chunk the whole *)
(* text so far is cleaned, and what the browser has not seen of it is sent *)
(* if it continues what the browser has seen.  Pieces are written with one *)
(* space between them: the cleaning of blanks is left out.                 *)
(***************************************************************************)
EXTENDS Naturals, Sequences, FiniteSets, SequencesExt

CONSTANTS
    Words,      \* pieces no pattern knows
    Texts,      \* what the model may write
    MaxChunk    \* bound: the pieces of one chunk

\* "." ends a sentence; "<" "think>" and "<" "/think>" are tags, "secret" a word
\* between them; "(" "context:" ")" is a leak of the prompt; "answer" ":" opens a tail
\* of remarks (so do "Reasoning:", "User:" and the like); "I_do_not" "have_memory" is a
\* disclaimer; "|" begins a row of a table on a line of its own.
Pieces == Words \cup {".", "<", "think>", "/think>", "secret", "(", "context:", ")",
                      "answer", ":", "I_do_not", "have_memory", "|"}

\* What the program says itself: instead of a disclaimer, for no answer, in an outage.
ICanHelp    == <<"I_can_help_with_that", ".">>
HowCanIHelp == <<"How_can_I_help">>
Outage      == <<"CHAT_LLM_UNAVAILABLE_MESSAGE">>

ASSUME TextsAssumption == Texts \subseteq Seq(Pieces) /\ MaxChunk \in Nat

VARIABLES
    asks,       \* whether the question is about saved memory
    text,       \* what the model is writing
    raw,        \* raw_answer: what has arrived of it
    visible,    \* visible_answer: what the browser has been sent
    stored,     \* the assistant message in the database; <<>> while there is none
    ending      \* how the stream ended

streamVars == <<asks, text, raw, visible, stored, ending>>

-----------------------------------------------------------------------------
At(t, x) == {i \in DOMAIN t : t[i] = x}

\* Where two pieces follow each other.
Pairs(t, x, y) == {i \in At(t, x) : i + 1 \in At(t, y)}

\* The last of some places; 0 if there is none.
LastOf(S) == CHOOSE i \in S \cup {0} : \A j \in S : j <= i

\* The numbers of S in order, and t without what is at the places S.
InOrder(S) ==
    [k \in 1..Cardinality(S) |-> CHOOSE i \in S : Cardinality({j \in S : i > j}) = k - 1]
Without(t, S) ==
    LET kept == InOrder(DOMAIN t \ S) IN [k \in DOMAIN kept |-> t[kept[k]]]

\* The places from an opening in P to the first closing after it in Q.
Spans(P, Q) ==
    LET spans == {s \in P \X Q : s[1] < s[2] /\ \A r \in Q : ~(s[1] < r /\ r < s[2])}
    IN  UNION {s[1]..s[2] : s \in spans}

Opened(t) == Pairs(t, "<", "think>")
Closed(t) == Pairs(t, "<", "/think>")

\* MEMORY_CONTEXT_LEAK_PATTERN.
Leaks(t) == Spans(Pairs(t, "(", "context:"), At(t, ")"))
WithoutLeaks(t) == Without(t, Leaks(t))

\* THINK_BLOCK_PATTERN: a block ends with the second piece of its closing tag.
WithoutThinking(t) == Without(t, Spans(Opened(t), {i + 1 : i \in Closed(t)}))

\* THINK_CLOSE_PATTERN: what follows a closing tag that nothing opened, or what
\* precedes it if nothing follows.
AfterStrayClose(t) ==
    LET q     == CHOOSE i \in Closed(t) : \A j \in Closed(t) : i <= j
        after == SubSeq(t, q + 2, Len(t))
    IN  CASE Closed(t) = {} -> t
          [] Closed(t) # {} /\ after # <<>> -> after
          [] OTHER -> SubSeq(t, 1, q - 1)

\* THINK_TAG_PATTERN.
WithoutTags(t) ==
    LET tags == Opened(t) \cup Closed(t) IN Without(t, tags \cup {i + 1 : i \in tags})

\* ANSWER_META_TAIL_PATTERN, ROLE_ECHO_TAIL_PATTERN: not at the very beginning.
WithoutRemarks(t) ==
    Without(t, {i \in DOMAIN t : \E j \in Pairs(t, "answer", ":") \ {1} : j <= i})

\* _trim_incomplete_tail: not of an answer in Markdown.
TrimTail(t) ==
    LET open == LastOf(At(t, "("))
        body == IF open > LastOf(At(t, ")")) THEN SubSeq(t, 1, open - 1) ELSE t
        stop == LastOf(At(body, "."))
    IN  IF At(t, "|") # {} THEN t
        ELSE IF stop = 0 THEN body ELSE SubSeq(body, 1, stop)

\* The stop before a place, and the sentence that ends with a stop.
StopBefore(t, i)  == LastOf({p \in At(t, ".") : p < i})
Sentence(t, stop) == SubSeq(t, StopBefore(t, stop) + 1, stop)

\* _remove_repeated_answer: sentences that repeat the one before, and what follows the
\* last stop; or else a second half of the sentences that repeats the first (the code also
\* compares the halves by characters, sentences or not).
WithoutRepeats(t) ==
    LET last    == LastOf(At(t, "."))
        repeats == {q \in At(t, ".") : StopBefore(t, q) # 0
                                       /\ Sentence(t, q) = Sentence(t, StopBefore(t, q))}
        halves  == {q \in At(t, ".") : SubSeq(t, 1, q) = SubSeq(t, q + 1, last)}
    IN  IF repeats # {}
        THEN Without(t, {i \in DOMAIN t :
                            last < i \/ \E q \in repeats : StopBefore(t, q) < i /\ i <= q})
        ELSE IF halves # {} THEN SubSeq(t, 1, LastOf(halves))
        ELSE t

\* _clean_chat_answer
CleanChatAnswer(t) ==
    WithoutRepeats(TrimTail(WithoutRemarks(WithoutTags(AfterStrayClose(WithoutThinking(t))))))

\* _is_partial_memory_disclaimer, of a text that is no question about memory: also of
\* a text of which nothing is there yet.
IsPartialDisclaimer(t) ==
    (t = <<>> \/ t[1] = "I_do_not") /\ At(t, ".") = {}

\* MEMORY_DISCLAIMER_PATTERN, with the stop after it.
WithoutDisclaimers(t) ==
    LET said == Pairs(t, "I_do_not", "have_memory")
    IN  Without(t, UNION {{i, i + 1} \cup ({i + 2} \cap At(t, ".")) : i \in said})

\* _clean_memory_safe_answer
CleanMemorySafe(about, t, fallback) ==
    LET cleaned == WithoutLeaks(CleanChatAnswer(WithoutLeaks(t)))
        answer  == IF IsPartialDisclaimer(cleaned) THEN <<>> ELSE WithoutDisclaimers(cleaned)
    IN  IF about THEN cleaned
        ELSE IF answer = <<>> /\ fallback THEN ICanHelp ELSE answer

\* _answer_chat_message_with_memory: the answer of POST /ai/chat to the same text.
Unstreamed == CleanMemorySafe(asks, raw, TRUE)

-----------------------------------------------------------------------------
StreamInit ==
    /\ asks \in BOOLEAN
    /\ text \in Texts
    /\ raw = <<>> /\ visible = <<>> /\ stored = <<>>
    /\ ending = "none"

\* Chunks that are looked at but not shown: inside a block of thinking, and while
\* the answer may be a disclaimer.
HeldBack(t) ==
    \/ Opened(t) # {} /\ Closed(t) = {}
    \/ ~asks /\ IsPartialDisclaimer(t)

\* What is visible after t is to be shown: t, if it continues what is visible.
ShowIfLonger(t) == IF t # <<>> /\ IsPrefix(visible, t) THEN t ELSE visible

\* Mutant of Deliver: the chunks of a block of thinking are not held back.
DeliverThinking(n) ==
    /\ ending = "none" /\ Len(raw) + n <= Len(text)
    /\ raw' = SubSeq(text, 1, Len(raw) + n)
    /\ visible' = ShowIfLonger(CleanMemorySafe(asks, raw', FALSE))
    /\ UNCHANGED <<asks, text, stored, ending>>

\* The next chunk, of n pieces.
Deliver(n) ==
    /\ ending = "none" /\ Len(raw) + n <= Len(text)
    /\ raw' = SubSeq(text, 1, Len(raw) + n)
    /\ visible' = IF HeldBack(raw') THEN visible
                  ELSE ShowIfLonger(CleanMemorySafe(asks, raw', FALSE))
    /\ UNCHANGED <<asks, text, stored, ending>>

\* Mutant of Finish: what the last cleaning adds is not sent.
FinishShort ==
    /\ ending = "none"
    /\ stored' = IF visible # <<>> THEN visible ELSE HowCanIHelp
    /\ ending' = "finished"
    /\ UNCHANGED <<asks, text, raw, visible>>

\* The model has stopped, or its connection ended: the same to this code.  What was
\* sent is stored.
Finish ==
    /\ ending = "none"
    /\ visible' = ShowIfLonger(Unstreamed)
    /\ stored' = IF visible' # <<>> THEN visible' ELSE HowCanIHelp
    /\ ending' = "finished"
    /\ UNCHANGED <<asks, text, raw>>

\* LlmServiceError: the browser keeps what it has been sent, and the notice is stored.
ModelFails ==
    /\ ending = "none"
    /\ stored' = Outage
    /\ ending' = "failed"
    /\ UNCHANGED <<asks, text, raw, visible>>

\* The browser goes away: nothing is stored.
Disconnect ==
    /\ ending = "none"
    /\ ending' = "left"
    /\ UNCHANGED <<asks, text, raw, visible, stored>>

StreamNext == (\E n \in 1..MaxChunk : Deliver(n)) \/ Finish \/ ModelFails \/ Disconnect

StreamSpec == StreamInit /\ [][StreamNext]_streamVars

-----------------------------------------------------------------------------
StreamTypeOK ==
    /\ asks \in BOOLEAN
    /\ text \in Texts
    /\ raw \in Seq(Pieces)
    /\ visible \in Seq(Pieces \cup {"I_can_help_with_that"})
    /\ stored \in Seq(Pieces \cup {"I_can_help_with_that", HowCanIHelp[1], Outage[1]})
    /\ ending \in {"none", "finished", "failed", "left"}
    /\ stored # <<>> <=> ending \in {"finished", "failed"}

\* Thinking in one place only, and no closing tag before it.
OneBlock(t) == \A i \in Opened(t), j \in Opened(t) \cup Closed(t) : i <= j

\* A leak of the prompt that takes a tag with it, or joins the halves of one.
LeakAtTag(t) ==
    \E i \in Leaks(t) : t[i] \in {"<", "think>", "/think>"} \/ (i > 1 /\ t[i - 1] = "<")

\* Every secret of t is in its first block of thinking.
SecretsInside(t) ==
    \A s \in At(t, "secret") : \E i \in Opened(t) : i < s /\ \A j \in Closed(t) : s < j

\* Thinking is hidden while the answer is on its way, however its tags are cut into
\* chunks; once the block is closed, at the end too.  (At the end of a stream that ran
\* out of tokens inside its block, or in a second block, it is shown.  So it is when the
\* removal of a leak, which comes first, breaks the tags.)
ThinkingIsHidden ==
    /\ SecretsInside(text) /\ ~LeakAtTag(text)
    /\ ending # "finished" \/ Closed(raw) # {}
    => "secret" \notin Range(visible)

\* What is left of t without leaks and thinking.
Spoken(t) == WithoutThinking(WithoutLeaks(t))

\* Cleaning takes back what it has shown of these: half of a tag, words before a tag or
\* a remark was recognised, a leak before it was, sentences that turn out to be repeated,
\* a sentence begun that turns out to be a disclaimer.
TakesBack ==
    LET said == WithoutTags(Spoken(raw)) IN
    \/ Opened(raw) # {} /\ "<" \in Range(visible)
    \/ ~OneBlock(raw) \/ LeakAtTag(raw)
    \/ Opened(raw) = {} /\ Closed(raw) # {}
    \/ Closed(raw) # {} /\ Opened(Spoken(raw)) \cup Closed(Spoken(raw)) # {}
    \/ Pairs(raw, "(", "context:") # {} /\ (At(raw, "|") # {} \/ Cardinality(At(raw, "(")) > 1)
    \/ Leaks(said) # {}
    \/ Pairs(said, "answer", ":") \ {1} # {}
    \/ WithoutRepeats(TrimTail(said)) # TrimTail(said)
    \/ ~asks /\ Pairs(said, "I_do_not", "have_memory") \ {1} # {}

\* Streaming loses nothing else: when it is over, the browser has been sent, and the
\* chat has stored, the answer that the same text would have given unstreamed.
StreamedIsUnstreamed ==
    ending = "finished" /\ ~TakesBack =>
        /\ visible = Unstreamed
        /\ stored = IF Unstreamed # <<>> THEN Unstreamed ELSE HowCanIHelp

=============================================================================
