---------------------------- MODULE Conversation ----------------------------
(***************************************************************************)
(* What Chat promises of the messages that its clients send, whatever the  *)
(* model and Document do, who else writes to the chat, who goes away and   *)
(* when the process dies.  A message is stored as a question at most once, *)
(* at the end of its chat; it is answered at most once, after the question *)
(* and in the same chat; and its client is told at most once: what has     *)
(* been answered, and where; or, while there is no answer, that Document   *)
(* is not there, in the chat of the question, or a failure that names no   *)
(* chat.  Nothing that was stored or told is ever changed or taken back.   *)
(***************************************************************************)
EXTENDS Naturals

CONSTANTS Requests, Failures, NoChat, Untold

VARIABLES
    questions,  \* the messages that are stored: request, chat and place in the chat
    answers,    \* the same of their answers, with the status
    told        \* what the client of each message has been told

Init ==
    /\ questions = {} /\ answers = {}
    /\ told = [r \in Requests |-> Untold]

Asked(r)    == \E q \in questions : q.request = r
Answered(r) == \E a \in answers : a.request = r

\* A new message comes after all that are in its chat.
AtTheEnd(new) ==
    \A m \in questions \cup answers : m.chat = new.chat => m.place < new.place

Ask(r) ==
    /\ ~ Asked(r)
    /\ \E new \in questions' :
          /\ AtTheEnd(new)
          /\ questions' = questions \cup
                {[request |-> r, chat |-> new.chat, place |-> new.place]}
    /\ UNCHANGED <<answers, told>>

Answer(r) ==
    /\ ~ Answered(r)
    /\ \E q \in questions, new \in answers' :
          /\ q.request = r /\ q.chat = new.chat /\ AtTheEnd(new)
          /\ answers' = answers \cup
                {[request |-> r, chat |-> q.chat, place |-> new.place,
                  status |-> new.status]}
    /\ UNCHANGED questions

Told(r, status, chat) ==
    told[r] = Untold /\ told' = [told EXCEPT ![r] = [status |-> status, chat |-> chat]]

\* An answer that is stored, also one that is being stored.
TellAnswer(r) == \E a \in answers' : a.request = r /\ Told(r, a.status, a.chat)

TellOutage(r) ==
    /\ ~ Answered(r)
    /\ \E q \in questions : q.request = r /\ Told(r, "document_unavailable", q.chat)

TellFailure(r) ==
    /\ Asked(r) /\ ~ Answered(r)
    /\ \E status \in Failures : Told(r, status, NoChat)

Tell(r) ==
    /\ TellAnswer(r) \/ TellOutage(r) \/ TellFailure(r)
    /\ UNCHANGED <<questions, answers>>

Next ==
    \E r \in Requests :
        \/ Ask(r)
        \/ Answer(r) /\ (UNCHANGED told \/ TellAnswer(r))
        \/ Tell(r)

Spec == Init /\ [][Next]_<<questions, answers, told>>
=============================================================================
