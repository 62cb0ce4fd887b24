------------------------------ MODULE Migration ------------------------------
(***************************************************************************)
(* openDb and migrate of db.ts: the database file of an earlier release (or  *)
(* none) brought to the shape of this one, statement by statement, with      *)
(* deaths of the process and failed statements at any of them, and the       *)
(* service writing rows between two starts.  Four tables stand for all:      *)
(* "jobs", rebuilt for its provider columns and again for its dedup key;     *)
(* "findings", for the five that are rebuilt once; "runs", for those only    *)
(* extended; and "members", whose doubled rows are healed.                   *)
(***************************************************************************)
EXTENDS Integers, FiniteSets

CONSTANTS MaxFileRows, \* bound: rows of a table, numbered from 1
          MaxStarts    \* bound: starts of the process

ASSUME MigrationAssumption == MaxFileRows \in Nat \ {0, 1} /\ MaxStarts \in Nat

VARIABLES
  db,       \* the database: its tables, indexes, and a table renamed aside
  journal,  \* SQLite's: the database before the open transaction, or nothing: {}
  at,       \* the statement of migrate that comes next, "up" or "down"
  boots,    \* starts so far (bound)
  written   \* history: the rows each table must have

migrationVars == <<db, journal, at, boots, written>>

Tables == {"jobs", "findings", "runs", "members"}
FileRows == 1..MaxFileRows
Odd == 9                                        \* a constraint no release has shipped
Shape == [jobs |-> 4, findings |-> 2, runs |-> 2, members |-> 1]     \* this release
Linked == 2                                     \* the member row that bears its job
Steps == <<"create", "scope", "index", "columns", "rekey", "jobIndex", "members", "runs">>
NextAt == [s \in {Steps[i] : i \in 1..7} |-> Steps[1 + CHOOSE i \in 1..7 : Steps[i] = s]]

\* Files of earlier releases: none, before providers, before dedup_key (with
\* the members of a doubled stack), this one, and one changed by other hands.
ReviewTables(release) ==
  [jobs |-> release, runs |-> IF release = 0 THEN 0 ELSE 1, members |-> IF release >= 3 THEN 1 ELSE 0]
ScopedTables(release) == [findings |-> CASE release = 0 -> 0 [] release = 1 -> 1 [] OTHER -> 2]
FileOf(release, doubled) ==
  LET shape == [t \in Tables |-> IF t = "findings" THEN ScopedTables(release)[t] ELSE ReviewTables(release)[t]]
  IN [shape   |-> shape,
      rows    |-> [t \in Tables |-> IF shape[t] = 0 THEN {}
                                    ELSE IF t = "members" /\ doubled THEN {1, Linked} ELSE {1}],
      aside   |-> [of |-> "none", rows |-> {}],
      indexes |-> {t \in {"jobs", "findings"} : shape[t] # 0},
      live    |-> release # 0]                  \* runs of dead jobs not yet settled

\* Mutant: the rebuild is not one transaction.
NoTransaction(t) == journal' = {}

\* db.transaction(...): what a rollback restores.
Begins(t) == journal' = {db}

Begun == journal # {}
Committed == IF Begun THEN CHOOSE f \in journal : TRUE ELSE db

Then(f, next) == db' = f /\ at' = next /\ UNCHANGED <<boots, written>>
Passes == Then(db, NextAt[at]) /\ UNCHANGED journal

\* CREATE TABLE IF NOT EXISTS: what is missing is made in this release's shape.
CreatesTables ==
  /\ at = "create" /\ UNCHANGED journal
  /\ Then([db EXCEPT !.shape = [t \in Tables |-> IF @[t] = 0 THEN Shape[t] ELSE @[t]]], "scope")

\* ALTER TABLE ... RENAME, the first statement of a rebuild.
Renames(t) ==
  /\ ~Begun /\ Begins(t)
  /\ Then([db EXCEPT !.aside = [of |-> t, rows |-> db.rows[t]], !.rows[t] = {}, !.shape[t] = 0], at)

Recreates(t, shape) ==
  /\ db.aside.of = t /\ db.shape[t] = 0 /\ UNCHANGED journal
  /\ Then([db EXCEPT !.shape[t] = shape], at)

\* INSERT INTO ... SELECT, every column of the old table.
Copies(t) ==
  /\ db.aside.of = t /\ db.shape[t] # 0 /\ db.rows[t] # db.aside.rows /\ UNCHANGED journal
  /\ Then([db EXCEPT !.rows[t] = db.aside.rows], at)

\* DROP TABLE takes the old table's indexes with it; then the commit.
Drops(t) ==
  /\ db.aside.of = t /\ db.shape[t] # 0 /\ db.rows[t] = db.aside.rows /\ journal' = {}
  /\ Then([db EXCEPT !.aside = [of |-> "none", rows |-> {}], !.indexes = @ \ {t}], at)

Rebuilds(t, shape) == Renames(t) \/ Recreates(t, shape) \/ Copies(t) \/ Drops(t)

\* SCOPED_REBUILDS in their order: tables that have no provider column yet.
ScopesTables ==
  /\ at = "scope"
  /\ LET old == {t \in {"jobs", "findings"} : db.shape[t] = 1}
     IN IF db.aside.of # "none"
        THEN Rebuilds(db.aside.of, 2)
        ELSE IF old = {} THEN Passes ELSE Rebuilds(IF "jobs" \in old THEN "jobs" ELSE "findings", 2)

\* CREATE INDEX IF NOT EXISTS, all but those of jobs.
IndexesTables ==
  /\ at = "index" /\ UNCHANGED journal
  /\ Then([db EXCEPT !.indexes = @ \cup {"findings"}], "columns")

\* ensureColumn, column by column: each one alone is repeatable.
AddsColumns ==
  /\ at = "columns" /\ UNCHANGED journal
  /\ Then([db EXCEPT !.shape["runs"] = 2], "rekey")

\* rebuildJobsForScopedJobType: any other constraint than a shipped one throws.
RekeysJobs ==
  /\ at = "rekey"
  /\ IF db.aside.of # "none" \/ db.shape["jobs"] \in {2, 3}
     THEN Rebuilds("jobs", 4)
     ELSE db.shape["jobs"] = 4 /\ Passes

\* Mutant: the indexes of jobs are made with the others, before its rebuild.
IndexedEarly == Then([db EXCEPT !.indexes = IF db.shape["jobs"] = 4 THEN @ ELSE @ \cup {"jobs"}], "members")

IndexedJobs == Then([db EXCEPT !.indexes = @ \cup {"jobs"}], "members")

IndexesJobs == at = "jobIndex" /\ IndexedJobs /\ UNCHANGED journal

\* The DELETE of doubled members keeps the one that bears its job, else the first.
HealsMembers ==
  /\ at = "members" /\ UNCHANGED journal
  /\ LET all == db.rows["members"]
         kept == IF Linked \in all THEN Linked ELSE 1
     IN Then([db EXCEPT !.rows["members"] = all \cap {kept}], "runs")

\* The backfill of the runs of stale and cancelled jobs, then user_version.
SettlesRuns ==
  /\ at = "runs" /\ UNCHANGED journal
  /\ Then([db EXCEPT !.live = FALSE], "up")

\* The service writes a row.
ServiceWrites(t, row) ==
  /\ at = "up" /\ t # "members" /\ row \notin db.rows[t]
  /\ db' = [db EXCEPT !.rows[t] = @ \cup {row}]
  /\ written' = [written EXCEPT ![t] = @ \cup {row}]
  /\ UNCHANGED <<journal, at, boots>>

\* A death, or a statement that throws: the open transaction is rolled back.
Stops ==
  /\ at # "down" /\ at' = "down" /\ db' = Committed /\ journal' = {}
  /\ UNCHANGED <<boots, written>>

Opens ==
  /\ at = "down" /\ boots < MaxStarts /\ boots' = boots + 1 /\ at' = "create"
  /\ UNCHANGED <<db, journal, written>>

-----------------------------------------------------------------------------
MigrationInit ==
  /\ db \in {FileOf(r, d) : r \in {0, 1, 2, 3, 4, Odd}, d \in BOOLEAN}
  /\ journal = {} /\ at = "down" /\ boots = 0
  /\ written = [t \in Tables |-> IF Linked \in db.rows[t] THEN {Linked} ELSE db.rows[t]]

MigrationNext ==
  \/ CreatesTables \/ ScopesTables \/ IndexesTables \/ AddsColumns \/ RekeysJobs \/ IndexesJobs
  \/ HealsMembers \/ SettlesRuns
  \/ \E t \in Tables, row \in FileRows : ServiceWrites(t, row)
  \/ Stops \/ Opens

MigrationSpec == MigrationInit /\ [][MigrationNext]_migrationVars

-----------------------------------------------------------------------------
(* Properties *)

\* The type of the state; a table is renamed aside just while a transaction is
\* open that would put it back (db.ts:714).
MigrationTypeOK ==
  /\ Begun <=> db.aside.of # "none"
  /\ \A t \in Tables : db.shape[t] \in 0..4 \cup {Odd} /\ db.rows[t] \subseteq FileRows
  /\ at \in {Steps[i] : i \in 1..8} \cup {"up", "down"} /\ boots \in 0..MaxStarts
  /\ db.indexes \subseteq Tables

\* "any failure rolls the rename back, the legacy table and its rows survive
\* untouched, and the next start retries the migration" (db.ts:714-716): whatever
\* release wrote the file and wherever starts were cut off, what is committed
\* holds every row that was ever written and no table is left aside; and a
\* service that is up has this release's tables, all their indexes, one row per
\* member of a stack and no live run of a dead job.
MigratesWhole ==
  /\ Committed.aside.of = "none"
  /\ \A t \in Tables : written[t] \subseteq Committed.rows[t]
  /\ at = "up" => /\ db.shape = Shape /\ db.indexes = {"jobs", "findings"}
                  /\ db.rows = written /\ ~db.live
=============================================================================
