----------------------------- MODULE MCChatTurn -----------------------------
(* ChatTurn for model checking: what the runs take for its sets. *)
EXTENDS ChatTurn, TLC

\* Small talk, a value, and a word about invoices.
AllTexts  == {{}, {"number"}, {"invoice"}}
AnyFault  == Faults
AnyCut    == Cuts
InvoiceTexts == {{"invoice"}}
NoFault   == {}
NoCut     == {}
\* Faults that leave no doubt whether the invoice was created.
PromptFaults == Faults \ {"lost"}

\* Chats and turns are never told apart by name.
Symmetry == Permutations(Chats) \cup Permutations(Turns)
=============================================================================
