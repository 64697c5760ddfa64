--------------------------- MODULE MCServiceParts ---------------------------
(***************************************************************************)
(* The parts beside the turns, for model checking.  They share no state, so*)
(* that a behaviour is one of one part, while the others rest: the states  *)
(* of the parts add up and do not multiply.                                *)
(***************************************************************************)
EXTENDS LlmAccess, AnswerStream, ThreadStore, UiSettings, MonolithMigration

VARIABLE part

vars == <<part, llmVars, streamVars, threadVars, settingsVars, migrationVars>>

Parts == {"llm", "stream", "threads", "settings", "migration"}

\* What the model writes is made of these phrases: two of them, or up to four of those
\* that may be repeated or hidden.
SomeWords == {"a", "b"}
Thought   == <<"<", "think>", "secret", "<", "/think>">>
Repeated  == {<<>>, <<"a", ".">>, <<"b", ".">>, Thought}
Phrases   == Repeated \cup
    {<<"a">>, <<"<">>, <<"<", "think>", "secret">>, <<"<", "/think>">>,
     <<"(", "context:", "a", ")">>, <<"(", "b", ")">>, <<"(", "b">>,
     <<"answer", ":", "a">>, <<"I_do_not", "have_memory", ".">>, <<"I_do_not", "a">>,
     <<"|">>}
SomeTexts == {p \o q : p, q \in Phrases} \cup
             {p \o q \o r \o s : p, q, r, s \in Repeated}

SomeChatTables     == <<"chat_threads">>
SomeDocumentTables == <<"invoices", "invoice_items">>

Init ==
    /\ part \in Parts
    /\ LlmInit /\ ThreadInit /\ SettingsInit
    /\ StreamInit
    /\ part # "stream" => text = <<>> /\ ~asks
    /\ MigrationInit
    /\ part # "migration" => ~ up /\ DOMAIN legacy = {} /\ \A t \in Tables : rows[t] = {}

LlmStep       == part = "llm" /\ LlmNext
                 /\ UNCHANGED <<part, streamVars, threadVars, settingsVars, migrationVars>>
StreamStep    == part = "stream" /\ StreamNext
                 /\ UNCHANGED <<part, llmVars, threadVars, settingsVars, migrationVars>>
ThreadStep    == part = "threads" /\ ThreadNext
                 /\ UNCHANGED <<part, llmVars, streamVars, settingsVars, migrationVars>>
SettingsStep  == part = "settings" /\ SettingsNext
                 /\ UNCHANGED <<part, llmVars, streamVars, threadVars, migrationVars>>
MigrationStep == part = "migration" /\ MigrationNext
                 /\ UNCHANGED <<part, llmVars, streamVars, threadVars, settingsVars>>

Next == LlmStep \/ StreamStep \/ ThreadStep \/ SettingsStep \/ MigrationStep

\* The fairness of LlmSpec and of MigrationSpec.
Spec ==
    /\ Init /\ [][Next]_vars
    /\ LlmFairness
    /\ part = "migration" => MigrationFairness

\* Every variable of every part keeps its type.
PartsTypeOK ==
    LlmTypeOK /\ StreamTypeOK /\ ThreadTypeOK /\ SettingsTypeOK /\ MigrationTypeOK

\* BothAreMigrated, of the behaviours in which the script runs.
MigrationEnds == part = "migration" => BothAreMigrated
=============================================================================
