----------------------------- MODULE UiSettings -----------------------------
(***************************************************************************)
(* The UI settings of one user: update_user_ui_settings of                 *)
(* db/repositories/chat.py, which PATCH /user-ui-settings runs in the      *)
(* thread pool.  It reads the settings in one transaction and writes them  *)
(* all in another.                                                         *)
(***************************************************************************)

CONSTANTS
    PoolThreads,    \* threads that serve a PATCH
    Names,          \* names of settings
    Values          \* their values

VARIABLES
    settings,   \* settings_json of the user
    writing,    \* the threads that have read and not written yet
    request,    \* payload.settings of the PATCH that a thread serves
    current,    \* what the thread has read, with its own changes
    wanted,     \* history: the settings, had each PATCH been one transaction
    since,      \* history: the names others have set since the thread has read
    lost        \* history: the names a PATCH has put back to what it had read

settingsVars == <<settings, writing, request, current, wanted, since, lost>>

None     == <<>>
Settings == UNION {[names -> Values] : names \in SUBSET Names}

\* dict.update
Updated(old, new) ==
    [n \in DOMAIN old \cup DOMAIN new |-> IF n \in DOMAIN new THEN new[n] ELSE old[n]]

SettingsInit ==
    /\ settings = None
    /\ writing = {}
    /\ request = [p \in PoolThreads |-> None]
    /\ current = [p \in PoolThreads |-> None]
    /\ wanted = None
    /\ since = [p \in PoolThreads |-> {}]
    /\ lost = {}

\* Mutant of ReadSettings: the settings that the PATCH does not name are forgotten.
ReadNothing(p, new) ==
    /\ p \notin writing
    /\ writing' = writing \cup {p}
    /\ request' = [request EXCEPT ![p] = new]
    /\ current' = [current EXCEPT ![p] = new]
    /\ UNCHANGED <<settings, wanted, since, lost>>

\* get_user_ui_settings and current.update(settings)
ReadSettings(p, new) ==
    /\ p \notin writing
    /\ writing' = writing \cup {p}
    /\ request' = [request EXCEPT ![p] = new]
    /\ current' = [current EXCEPT ![p] = Updated(settings, new)]
    /\ UNCHANGED <<settings, wanted, since, lost>>

Done(p) ==
    /\ writing' = writing \ {p}
    /\ request' = [request EXCEPT ![p] = None]
    /\ current' = [current EXCEPT ![p] = None]

\* INSERT ... ON CONFLICT DO UPDATE
WriteSettings(p) ==
    /\ p \in writing
    /\ settings' = current[p]
    /\ wanted' = Updated(wanted, request[p])
    /\ lost' = (lost \cup since[p]) \ DOMAIN request[p]
    /\ since' = [q \in PoolThreads |->
                    IF q = p \/ q \notin writing THEN {}
                    ELSE since[q] \cup DOMAIN request[p]]
    /\ Done(p)

\* The database stays locked by another connection: a 500.
WriteFails(p) ==
    /\ p \in writing
    /\ since' = [since EXCEPT ![p] = {}]
    /\ Done(p)
    /\ UNCHANGED <<settings, wanted, lost>>

SettingsNext ==
    \E p \in PoolThreads :
        \/ \E new \in Settings : ReadSettings(p, new)
        \/ WriteSettings(p) \/ WriteFails(p)

SettingsSpec == SettingsInit /\ [][SettingsNext]_settingsVars

-----------------------------------------------------------------------------
\* Every variable keeps its type, and a thread will write all it was asked to set.
SettingsTypeOK ==
    /\ settings \in Settings /\ wanted \in Settings /\ writing \subseteq PoolThreads
    /\ request \in [PoolThreads -> Settings] /\ current \in [PoolThreads -> Settings]
    /\ since \in [PoolThreads -> SUBSET Names] /\ lost \subseteq Names
    /\ \A p \in PoolThreads : \A n \in DOMAIN request[p] :
          n \in DOMAIN current[p] /\ current[p][n] = request[p][n]

\* What a PATCH has set stays until another one names it.  The exception are the names
\* that were set between the two transactions of a PATCH which does not name them.
PatchesAddUp ==
    \A n \in Names \ lost :
        /\ n \in DOMAIN settings <=> n \in DOMAIN wanted
        /\ n \in DOMAIN settings => settings[n] = wanted[n]
=============================================================================
