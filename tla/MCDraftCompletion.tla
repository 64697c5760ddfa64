-------------------------- MODULE MCDraftCompletion --------------------------
(* Constants of DraftCompletion for TLC. *)
EXTENDS DraftCompletion, TLC

CONSTANTS Work

MCDescriptions == {Work}

Line(quantity, price) == <<[description |-> Work, quantity |-> quantity, unit_price |-> price]>>

\* A line, a line free of charge, a line without its quantity.
MCOffers == {Line(1, 2), Line(1, 0), Line(None, 2)}

\* Chats and forms meet only in the numbers that are in use: either kind takes
\* its steps while the other one has nothing under way.
ChatsRest == \A c \in Chats : session[c] = None /\ call[c].phase = "idle"
FormsRest == \A f \in Forms : form[f].shown = {} /\ call[f].phase = "idle"

OneKindNext ==
    \/ /\ FormsRest
       /\ \E c \in Chats :
             Send(c) \/ CompleteDraft(c) \/ Unavailable(c) \/ Ask(c) \/ Report(c) \/ Fail(c)
    \/ /\ ChatsRest
       /\ \E f \in Forms :
             Submit(f) \/ Fill(f) \/ Normalize(f) \/ NormalizeFails(f) \/ CompleteForm(f)
                \/ AnswerForm(f)

OneKindSpec == Init /\ [][OneKindNext]_vars

Symmetry == Permutations(Values)
=============================================================================
