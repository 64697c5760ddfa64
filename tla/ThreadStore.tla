---------------------------- MODULE ThreadStore ----------------------------
(***************************************************************************)
(* Chat threads and their messages: db/repositories/chat.py as the         *)
(* endpoints of chat_threads.py and the turns of a chat use it.  Each call *)
(* is one transaction.  Times are what SQLite's CURRENT_TIMESTAMP gives, in*)
(* seconds, so that many messages share one.                               *)
(*                                                                         *)
(* The order in which threads are listed (pinned_at, ui_order, updated_at) *)
(* is left out: nothing but the list reads it.                             *)
(***************************************************************************)
EXTENDS Naturals, Sequences, FiniteSets

CONSTANTS
    Chats,          \* ids that new_id may give
    MaxMessages,    \* bound: messages in all
    MaxClock        \* bound: seconds that pass

ASSUME BoundsAssumption == MaxMessages \in Nat /\ MaxClock \in Nat

VARIABLES
    clock,      \* CURRENT_TIMESTAMP
    threads,    \* table chat_threads
    messages    \* table chat_messages, in the order of rowid

threadVars == <<clock, threads, messages>>

\* "-": the request leaves the field out.
Given  == {"-", "blank", "named"}
Titles == {"New chat", "Untitled chat", "named"}
Switch == {"-", "on", "off"}

ThreadInit ==
    /\ clock = 0
    /\ threads = <<>>
    /\ messages = <<>>

-----------------------------------------------------------------------------
\* create_chat_thread: an absent title, or an empty one, is replaced; blanks are kept.
CreateThread(c, title) ==
    /\ c \notin DOMAIN threads
    /\ LET thread == [title |-> IF title = "-" THEN "New chat" ELSE title,
                      archived |-> FALSE, pinned |-> FALSE, deleted |-> FALSE]
       IN  threads' = [d \in DOMAIN threads \cup {c} |->
                          IF d = c THEN thread ELSE threads[d]]
    /\ UNCHANGED <<clock, messages>>

Switched(s, was) == IF s = "-" THEN was ELSE s = "on"

Patched(thread, title, archived, pinned) ==
    [thread EXCEPT
        !.title = IF title = "-" THEN @
                  ELSE IF title = "blank" THEN "Untitled chat" ELSE title,
        !.archived = Switched(archived, @),
        !.pinned = Switched(pinned, @)]

\* update_chat_thread: a deleted thread is not updated, although it is returned.
UpdateThread(c, title, archived, pinned) ==
    /\ c \in DOMAIN threads /\ ~threads[c].deleted
    /\ threads' = [threads EXCEPT ![c] = Patched(@, title, archived, pinned)]
    /\ UNCHANGED <<clock, messages>>

\* soft_delete_chat_thread
DeleteThread(c) ==
    /\ c \in DOMAIN threads /\ ~threads[c].deleted
    /\ threads' = [threads EXCEPT ![c].deleted = TRUE, ![c].archived = FALSE]
    /\ UNCHANGED <<clock, messages>>

\* append_chat_message, of a turn or of a reported error; the thread may have been
\* deleted since its caller looked for it.
AppendMessage(c) ==
    /\ c \in DOMAIN threads /\ Len(messages) < MaxMessages
    /\ messages' = Append(messages, [chat |-> c, at |-> clock])
    /\ UNCHANGED <<clock, threads>>

Tick ==
    /\ clock < MaxClock
    /\ clock' = clock + 1
    /\ UNCHANGED <<threads, messages>>

ThreadNext ==
    \/ \E c \in Chats, title \in Given : CreateThread(c, title)
    \/ \E c \in Chats, title \in Given, archived, pinned \in Switch :
          UpdateThread(c, title, archived, pinned)
    \/ \E c \in Chats : DeleteThread(c) \/ AppendMessage(c)
    \/ Tick

ThreadSpec == ThreadInit /\ [][ThreadNext]_threadVars

-----------------------------------------------------------------------------
\* Mutant of Newer: messages of one second in the order of their primary key.
NewerOnlyByTime(i, j) ==
    \/ messages[i].at > messages[j].at
    \/ messages[i].at = messages[j].at /\ i < j

\* ORDER BY created_at DESC, rowid DESC
Newer(i, j) ==
    \/ messages[i].at > messages[j].at
    \/ messages[i].at = messages[j].at /\ i > j

\* list_chat_messages: the first `limit` rows of that order, reversed.
ListMessages(c, limit) ==
    LET own   == {i \in DOMAIN messages : messages[i].chat = c}
        taken == {i \in own : Cardinality({j \in own : Newer(j, i)}) < limit}
    IN  [k \in 1..Cardinality(taken) |->
            CHOOSE i \in taken : Cardinality({j \in taken : Newer(i, j)}) = k - 1]

\* Every variable keeps its type, and every message belongs to a thread.
ThreadTypeOK ==
    /\ clock \in 0..MaxClock
    /\ DOMAIN threads \subseteq Chats
    /\ \A c \in DOMAIN threads :
          threads[c] \in [title : Titles \cup {"blank"}, archived : BOOLEAN,
                          pinned : BOOLEAN, deleted : BOOLEAN]
    /\ messages \in Seq([chat : DOMAIN threads, at : 0..clock])

\* Any tail of a chat that a prompt, the learning or a client asks for is what was said
\* last in it, in the order it was said, however many messages share a second.
HistoryIsInOrder ==
    \A c \in Chats, limit \in 1..MaxMessages :
        LET own  == {i \in DOMAIN messages : messages[i].chat = c}
            told == ListMessages(c, limit)
        IN  /\ told \in Seq(own) /\ Len(told) <= limit
            /\ \A k, m \in DOMAIN told : k < m => told[k] < told[m]
            /\ \A i \in own :
                  \/ \E k \in DOMAIN told : told[k] = i
                  \/ Len(told) = limit /\ \A k \in DOMAIN told : i < told[k]

=============================================================================
