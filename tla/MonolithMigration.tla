------------------------- MODULE MonolithMigration -------------------------
(***************************************************************************)
(* scripts/migrate-monolith-db.py, which start.sh runs at every start: the *)
(* tables of the monolith's database are copied into the databases of Chat *)
(* and Document, each in one transaction that ends with a marker.          *)
(*                                                                         *)
(* The script may be killed anywhere, and fails when the monolith is still *)
(* written to between a copy and its verification; start.sh then stops.    *)
(* It stops no service before the script: those of an earlier start may be *)
(* up while the script runs, and write to both databases.                  *)
(***************************************************************************)
EXTENDS Naturals, Sequences, FiniteSets

CONSTANTS
    ChatTables,     \* CHAT_TABLES
    DocumentTables, \* DOCUMENT_TABLES
    Keys,           \* primary keys
    MaxCrashes      \* bound: how often the script is killed

\* main: the databases in the order they are migrated, each with its tables.
Databases == <<ChatTables, DocumentTables>>
TableSet(d) == {Databases[d][i] : i \in DOMAIN Databases[d]}
Tables == TableSet(1) \cup TableSet(2)

ASSUME TablesAssumption ==
    /\ ChatTables \in Seq(TableSet(1)) /\ DocumentTables \in Seq(TableSet(2))
    /\ ChatTables # <<>> /\ DocumentTables # <<>>
    /\ TableSet(1) \cap TableSet(2) = {}
ASSUME KeysAssumption == IsFiniteSet(Keys)
ASSUME CrashesAssumption == MaxCrashes \in Nat

VARIABLES
    legacy,     \* the monolith's tables, those it has: the keys of each
    rows,       \* the services' tables as committed, with the origin of each row
    work,       \* the same as the script's open transaction sees them
    applied,    \* the databases with the marker split-monolith-v1
    script,     \* what the script does next, in which database and which table
    up,         \* whether services are running
    crashes,
    own,        \* history: the keys of the rows that the services have of their own
    seen,       \* history: the keys of each table when the script last copied it
    deleted     \* history: the keys of the monolith's rows that a service deleted

migrationVars == <<legacy, rows, work, applied, script, up, crashes, own, seen, deleted>>

\* read: the keys that SELECT found in the monolith; taken: those that the table of the
\* service had before; counted: those that the monolith had when the copy was verified.
Sight  == [read : SUBSET Keys, taken : SUBSET Keys, counted : SUBSET Keys]
Unseen == [read |-> {}, taken |-> {}, counted |-> {}]

Rows == [key : Keys, from : {"monolith", "service"}]
RowsOf(keys, origin) == {[key |-> k, from |-> origin] : k \in keys}
KeysOf(table) == {r.key : r \in table}
Idle == [does |-> "nothing", db |-> 1, table |-> 1]

\* The services may have been started before there was a file of the monolith, and be up
\* or not.
MigrationInit ==
    /\ legacy \in UNION {[had -> {{}, Keys}] : had \in SUBSET Tables}
    /\ \E used \in SUBSET {1, 2}, k \in Keys :
        own = [t \in Tables |-> IF \E d \in used : t \in TableSet(d) THEN {k} ELSE {}]
    /\ rows = [t \in Tables |-> RowsOf(own[t], "service")]
    /\ work = rows
    /\ applied = {} /\ script = Idle /\ up \in BOOLEAN /\ crashes = 0
    /\ seen = [t \in Tables |-> Unseen]
    /\ deleted = [t \in Tables |-> {}]

-----------------------------------------------------------------------------
Current == Databases[script.db][script.table]

\* start.sh: migrate_legacy_database.
StartScript ==
    /\ script.does = "nothing"
    /\ script' = [Idle EXCEPT !.does = "open"]
    /\ UNCHANGED <<legacy, rows, work, applied, up, crashes, own, seen, deleted>>

\* After the first database comes the second; after it the services are started, again
\* if they were up.
NextDatabase ==
    IF script.db = 1
    THEN script' = [does |-> "open", db |-> 2, table |-> 1] /\ UNCHANGED up
    ELSE script' = Idle /\ up' = TRUE

Begin ==
    /\ script' = [script EXCEPT !.does = "copy"]
    /\ UNCHANGED up

\* Mutant of Open: the marker is not looked at.
OpenAnyway ==
    /\ script.does = "open"
    /\ Begin
    /\ UNCHANGED <<legacy, rows, work, applied, crashes, own, seen, deleted>>

\* _copy_tables: a database with the marker is left alone.
Open ==
    /\ script.does = "open"
    /\ IF script.db \in applied THEN NextDatabase ELSE Begin
    /\ UNCHANGED <<legacy, rows, work, applied, crashes, own, seen, deleted>>

AfterTable ==
    IF script.table < Len(Databases[script.db])
    THEN [script EXCEPT !.does = "copy", !.table = @ + 1]
    ELSE [script EXCEPT !.does = "commit"]

\* A table that the monolith does not have.
SkipTable ==
    /\ script.does = "copy" /\ Current \notin DOMAIN legacy
    /\ script' = AfterTable
    /\ UNCHANGED <<legacy, rows, work, applied, up, crashes, own, seen, deleted>>

\* INSERT OR IGNORE: rows whose key is taken are dropped.
Copied(t) == work[t] \cup RowsOf(legacy[t] \ KeysOf(work[t]), "monolith")

\* What SELECT * finds, and what it finds taken.
Looks(t) ==
    seen' = [seen EXCEPT ![t] =
                [read |-> legacy[t], taken |-> KeysOf(work[t]), counted |-> {}]]

\* Mutant of CopyTable: each table is committed when it has been copied.
CopyTableCommitted ==
    /\ script.does = "copy" /\ Current \in DOMAIN legacy
    /\ Looks(Current)
    /\ work' = [work EXCEPT ![Current] = Copied(Current)]
    /\ rows' = [rows EXCEPT ![Current] = Copied(Current)]
    /\ script' = [script EXCEPT !.does = "verify"]
    /\ UNCHANGED <<legacy, applied, up, crashes, own, deleted>>

\* SELECT *, and the insertion of what it found.
CopyTable ==
    /\ script.does = "copy" /\ Current \in DOMAIN legacy
    /\ Looks(Current)
    /\ work' = [work EXCEPT ![Current] = Copied(Current)]
    /\ script' = [script EXCEPT !.does = "verify"]
    /\ UNCHANGED <<legacy, rows, applied, up, crashes, own, deleted>>

\* The open transaction is forgotten; start.sh stops with the script.
Rollback ==
    /\ work' = rows
    /\ script' = Idle

Verified ==
    /\ script' = AfterTable
    /\ seen' = [seen EXCEPT ![Current].counted = legacy[Current]]
    /\ UNCHANGED work

\* Mutant of Verify: the counts have to agree.
VerifyEqual ==
    /\ script.does = "verify"
    /\ IF Cardinality(work[Current]) # Cardinality(legacy[Current])
       THEN Rollback /\ UNCHANGED seen
       ELSE Verified
    /\ UNCHANGED <<legacy, rows, applied, up, crashes, own, deleted>>

\* The monolith's rows are counted: there may be more of them by now.
Verify ==
    /\ script.does = "verify"
    /\ IF Cardinality(work[Current]) < Cardinality(legacy[Current])
       THEN Rollback /\ UNCHANGED seen
       ELSE Verified
    /\ UNCHANGED <<legacy, rows, applied, up, crashes, own, deleted>>

\* The rows and the marker, in one commit.
Commit ==
    /\ script.does = "commit"
    /\ rows' = work
    /\ applied' = applied \cup {script.db}
    /\ NextDatabase
    /\ UNCHANGED <<legacy, work, crashes, own, seen, deleted>>

\* The script is killed, or SQLite refuses it something.
Crash ==
    /\ script.does # "nothing" /\ crashes < MaxCrashes
    /\ crashes' = crashes + 1
    /\ Rollback
    /\ UNCHANGED <<legacy, rows, applied, up, own, seen, deleted>>

ScriptStep == Open \/ SkipTable \/ CopyTable \/ Verify \/ Commit

-----------------------------------------------------------------------------
\* The monolith was not stopped.
WriteLegacy(t, k) ==
    /\ t \in DOMAIN legacy /\ k \notin legacy[t]
    /\ legacy' = [legacy EXCEPT ![t] = @ \cup {k}]
    /\ UNCHANGED <<rows, work, applied, script, up, crashes, own, seen, deleted>>

\* BEGIN takes no lock.  The transaction's first look at the database does, for the first
\* table that the monolith has: from there on nobody else can commit.
Locked(t) ==
    /\ t \in TableSet(script.db)
    /\ \/ script.does = "verify"
       \/ \E i \in DOMAIN Databases[script.db] :
              /\ Databases[script.db][i] \in DOMAIN legacy
              /\ script.does \in {"copy", "commit"}
              /\ i < script.table \/ script.does = "commit"

\* A service adds a row under a free key, or deletes one.
ServiceInsert(t, k) ==
    /\ up /\ ~Locked(t) /\ k \notin KeysOf(rows[t])
    /\ rows' = [rows EXCEPT ![t] = @ \cup RowsOf({k}, "service")]
    /\ work' = [work EXCEPT ![t] = rows'[t]]
    /\ own' = [own EXCEPT ![t] = @ \cup {k}]
    /\ UNCHANGED <<legacy, applied, script, up, crashes, seen, deleted>>

ServiceDelete(t, r) ==
    /\ up /\ ~Locked(t) /\ r \in rows[t]
    /\ rows' = [rows EXCEPT ![t] = @ \ {r}]
    /\ work' = [work EXCEPT ![t] = rows'[t]]
    /\ IF r.from = "service"
       THEN own' = [own EXCEPT ![t] = @ \ {r.key}] /\ UNCHANGED deleted
       ELSE deleted' = [deleted EXCEPT ![t] = @ \cup {r.key}] /\ UNCHANGED own
    /\ UNCHANGED <<legacy, applied, script, up, crashes, seen>>

MigrationNext ==
    \/ StartScript \/ ScriptStep \/ Crash
    \/ \E t \in Tables, k \in Keys : WriteLegacy(t, k) \/ ServiceInsert(t, k)
    \/ \E t \in Tables, r \in Rows : ServiceDelete(t, r)

\* Whoever starts the system starts it again, and the script runs on.
MigrationFairness == WF_migrationVars(StartScript) /\ WF_migrationVars(ScriptStep)

MigrationSpec == MigrationInit /\ [][MigrationNext]_migrationVars /\ MigrationFairness

-----------------------------------------------------------------------------
\* Every variable keeps its type, and the script has a table to work on.
MigrationTypeOK ==
    /\ legacy \in UNION {[had -> SUBSET Keys] : had \in SUBSET Tables}
    /\ rows \in [Tables -> SUBSET Rows] /\ work \in [Tables -> SUBSET Rows]
    /\ applied \subseteq {1, 2}
    /\ script.does \in {"nothing", "open", "copy", "verify", "commit"}
    /\ script.db \in {1, 2} /\ script.table \in DOMAIN Databases[script.db]
    /\ up \in BOOLEAN /\ crashes \in 0..MaxCrashes
    /\ own \in [Tables -> SUBSET Keys] /\ deleted \in [Tables -> SUBSET Keys]
    /\ seen \in [Tables -> Sight]

\* A database has the rows that its services have written, no others and none less, until
\* all its tables have been copied and the marker set, wherever the script is killed or
\* gives up; and the copy, when it comes, takes no row away from a service that is up.
AllTablesOrNone ==
    \A d \in {1, 2} : \A t \in TableSet(d) :
        LET theirs == RowsOf(own[t], "service")
        IN  theirs \subseteq rows[t] /\ (d \notin applied => rows[t] = theirs)

\* The rows that were copied arrive, once.  In a database with the marker, a row that the
\* script has read is there unless the service had a row of that key at that time (which
\* INSERT OR IGNORE keeps) or has deleted it since; if it had no rows in the table, all
\* that the monolith had when the copy was verified are there.  And what a service has
\* deleted does not come back when the system is started again.
CopiedRowsArriveOnce ==
    \A d \in {1, 2} : \A t \in TableSet(d) :
        LET arrived == {r.key : r \in {q \in rows[t] : q.from = "monolith"}}
        IN  /\ d \in applied =>
                  /\ seen[t].read \subseteq arrived \cup deleted[t] \cup seen[t].taken
                  /\ seen[t].taken = {} => seen[t].counted \subseteq arrived \cup deleted[t]
            /\ arrived \cap deleted[t] = {}

\* Both databases are migrated in the end, although the script is killed between the
\* two, or the monolith adds rows to a table while it is copied.
BothAreMigrated == <>(applied = {1, 2} /\ up)
=============================================================================
