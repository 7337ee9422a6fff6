-------------------------- MODULE ResultRepository --------------------------
(***************************************************************************)
(* SqliteResultRepository over the database file that several testforge    *)
(* processes share: a session (`run`, `serve`) opens the file, migrates    *)
(* the schema, records one run and its results and finishes the record;    *)
(* `db --prune` deletes old runs; a reader loads one run.                  *)
(*                                                                         *)
(* A statement outside a transaction commits by itself.  BEGIN IMMEDIATE   *)
(* takes SQLite's only write lock; other writers wait for it (the busy     *)
(* timeout), readers see the last committed state (WAL).  Every write may  *)
(* also fail (a full disk, a busy timeout), and a process may die between  *)
(* any two statements: SQLite then discards the transaction it had open.   *)
(***************************************************************************)
EXTENDS Integers, FiniteSets, FiniteSetsExt, Sequences, SequencesExt, Verdicts

CONSTANTS Sessions,     \* processes that record a run, numbered in the order they start
          MaxRuns,      \* bound on the runs recorded in all
          Tests,        \* the tests a run selects
          Outcomes,     \* the statuses an execution may have here
          MaxAttempts,  \* 1 + options.retryFailed
          RetentionDays,\* `db --prune`: days of runs to keep
          MaxFailures,  \* bound on the faults and crashes in all
          Pruner, None  \* the connection of `db --prune`; no connection

ASSUME RepositoryAssumption ==
  /\ Outcomes \subseteq Statuses
  /\ MaxAttempts \in Nat \ {0} /\ MaxRuns \in Nat /\ MaxFailures \in Nat
  /\ Sessions \subseteq Nat
  /\ None \notin Sessions \cup (1 .. MaxRuns)
  /\ Pruner \notin Sessions \cup {None}

VARIABLES file,      \* the committed contents of the database
          writer,    \* the connection inside a transaction, or None
          view,      \* the contents as that transaction sees them
          session,   \* where each process stands
          pruner,    \* where `db --prune` stands
          reader,    \* where loadRun() stands
          faults, crashes,
          acked,     \* history: the writes that were reported as done
          pruned     \* history: the runs deleted by a prune

repoVars == <<file, writer, view, session, pruner, reader, faults, crashes, acked, pruned>>

SchemaVersion == 1

RunIds == 1 .. MaxRuns

\* TestRun::statistics() as far as completeRun() stores it.
Statistics(results) ==
  [s \in Statuses |-> Cardinality({r \in results : r.status = s})]

NoTotals == [s \in Statuses |-> 0]

SumOf(counts) == FoldSet(LAMBDA s, n : n + counts[s], 0, Statuses)

\* The tables the migration script creates.
EmptyFile == [versions |-> {}, tables |-> FALSE, runs |-> <<>>, results |-> {}, events |-> {}]

-----------------------------------------------------------------------------
(* What the queries return.                                                *)

RunRows(db) == {[run |-> r, row |-> db.runs[r]] : r \in DOMAIN db.runs}

\* ORDER BY started_at_ms DESC LIMIT ? OFFSET ?: the n-th row has n - 1 newer ones.
Newest(db, limit, offset) ==
  LET newer(entry) == {other \in RunRows(db) : other.row.started > entry.row.started}
      sorted == [n \in 1 .. Cardinality(RunRows(db)) |->
                   CHOOSE entry \in RunRows(db) : Cardinality(newer(entry)) = n - 1]
      from == Max({0, offset}) + 1
  IN  SubSeq(sorted, from, Min({Len(sorted), from + Max({1, limit}) - 1}))

\* listRuns(): the stored counts become that many placeholder results, and what
\* `total` has beyond them becomes errors.
ListRuns(db, limit, offset) ==
  LET listed(entry) ==
        [run |-> entry.run,
         counts |-> [entry.row.counts EXCEPT
                       !["Error"] = @ + Max({0, entry.row.total - SumOf(entry.row.counts)})]]
      page == Newest(db, limit, offset)
  IN  [i \in DOMAIN page |-> listed(page[i])]

LoadResults(db, run) == {r \in db.results : r.run = run}

TestHistory(db, test) == {r \in db.results : r.test = test}

\* historySummaries(): COUNT and SUM over every stored attempt of a test.
HistorySummaries(db) ==
  [t \in {r.test : r \in db.results} |->
     LET rows == TestHistory(db, t)
     IN  [totalRuns |-> Cardinality(rows),
          passes    |-> Cardinality({r \in rows : r.status = "Passed"}),
          failures  |-> Cardinality({r \in rows : IsFailure(r.status)}),
          skips     |-> Cardinality({r \in rows : r.status = "Skipped"})]]

\* aggregateStatistics(): the run columns summed over the newest runs, and the
\* failing attempts of all of them.
AggregateStatistics(db, runLimit) ==
  LET page == Newest(db, Max({1, runLimit}), 0)
  IN  [runs     |-> Len(page),
       total    |-> FoldLeft(LAMBDA n, e : n + e.row.total, 0, page),
       counts   |-> [s \in Statuses |-> FoldLeft(LAMBDA n, e : n + e.row.counts[s], 0, page)],
       failures |-> Cardinality({r \in db.results : IsFailure(r.status)})]

StorageInfo(db) == [runs |-> Cardinality(DOMAIN db.runs), results |-> Cardinality(db.results),
                    events |-> Cardinality(db.events)]

-----------------------------------------------------------------------------
(* What the writes do to the contents; a foreign key or a primary key that *)
(* does not hold makes the statement fail.                                 *)

ReplaceRun(db, run) ==
  [db EXCEPT
     !.runs = [r \in DOMAIN @ \cup {run} |->
                 IF r = run THEN [started |-> run, completed |-> FALSE, total |-> 0,
                                  counts |-> NoTotals]
                 ELSE @[r]],
     !.results = {r \in @ : r.run # run},        \* REPLACE deletes first: cascade
     !.events  = {e \in @ : e # run}]

InsertResult(db, row) == [db EXCEPT !.results = @ \cup {row}]

\* Totals recomputed from the stored rows, superseded attempts included.
BugTotalsOfRows(db, run, results) ==
  IF run \notin DOMAIN db.runs THEN db
  ELSE [db EXCEPT !.runs[run].completed = TRUE,
                  !.runs[run].total  = Cardinality(LoadResults(db, run)),
                  !.runs[run].counts = Statistics(LoadResults(db, run))]

UpdateTotals(db, run, results) ==
  IF run \notin DOMAIN db.runs THEN db           \* no row matches: no error either
  ELSE [db EXCEPT !.runs[run].completed = TRUE,
                  !.runs[run].total  = Cardinality(results),
                  !.runs[run].counts = Statistics(results)]

InsertEvent(db, run) == [db EXCEPT !.events = @ \cup {run}]

\* DELETE FROM test_runs WHERE started_at_ms < cutoff, with ON DELETE CASCADE.
DeleteOlder(db, cutoff) ==
  LET old == {r \in DOMAIN db.runs : db.runs[r].started < cutoff}
  IN  [db EXCEPT !.runs = [r \in DOMAIN @ \ old |-> @[r]],
                 !.results = {r \in @ : r.run \notin old},
                 !.events  = @ \ old]

-----------------------------------------------------------------------------
(* Sessions: TestForgeService::initialise() and TestRunner::run().         *)

NewSession == [pc |-> "open", repository |-> FALSE, run |-> None,
               attempts |-> [t \in Tests |-> 0], results |-> {}]

RepositoryInit ==
  /\ file = EmptyFile /\ writer = None /\ view = EmptyFile
  /\ session = [p \in Sessions |-> NewSession]
  /\ pruner = [pc |-> "idle"]
  /\ reader = [pc |-> "idle", run |-> None, completed |-> FALSE]
  /\ faults = 0 /\ crashes = 0
  /\ acked = {} /\ pruned = {}

At(p, pc) ==
  /\ session[p].pc = pc
  /\ pc = "open" => \A q \in Sessions : q < p => session[q].pc # "open"

Goto(p, pc) == session' = [session EXCEPT ![p].pc = pc]

Rest == UNCHANGED <<pruner, reader, crashes, pruned>>

\* A statement that takes effect at once: it waits for the write lock.
Autocommit(db) ==
  /\ writer = None
  /\ file' = db
  /\ UNCHANGED <<writer, view, faults>>

\* The transaction of a connection, if it has one open, is over.
EndTransaction(owner) ==
  IF writer = owner THEN writer' = None /\ view' = EmptyFile ELSE UNCHANGED <<writer, view>>

\* A statement that fails for a reason outside the program.
Fault ==
  /\ faults + crashes < MaxFailures
  /\ faults' = faults + 1
  /\ UNCHANGED <<file, acked>>

CreateVersionTable(p) ==
  /\ At(p, "open")
  /\ Autocommit(file)
  /\ Goto(p, "read")
  /\ UNCHANGED acked /\ Rest

\* SELECT MAX(version): outside the transaction that applies the migration.
ReadVersion(p) ==
  /\ At(p, "read")
  /\ LET applied == Max({0} \cup file.versions)
     IN  session' = [session EXCEPT
                       ![p].pc = IF SchemaVersion > applied THEN "begin" ELSE "start",
                       ![p].repository = SchemaVersion <= applied]
  /\ UNCHANGED <<file, writer, view, faults, acked>> /\ Rest

BeginMigration(p) ==
  /\ At(p, "begin") /\ writer = None
  /\ writer' = p
  /\ view' = file
  /\ Goto(p, "script")
  /\ UNCHANGED <<file, faults, acked>> /\ Rest

\* The script run outside the transaction.
BugScriptCommits(p) ==
  /\ At(p, "script")
  /\ file' = [file EXCEPT !.tables = TRUE]
  /\ view' = [view EXCEPT !.tables = TRUE]
  /\ Goto(p, "record")
  /\ UNCHANGED <<writer, faults, acked>> /\ Rest

RunScript(p) ==
  /\ At(p, "script")
  /\ view' = [view EXCEPT !.tables = TRUE]       \* IF NOT EXISTS
  /\ Goto(p, "record")
  /\ UNCHANGED <<file, writer, faults, acked>> /\ Rest

\* version is the primary key of schema_version.
RecordVersion(p) ==
  /\ At(p, "record") /\ SchemaVersion \notin view.versions
  /\ view' = [view EXCEPT !.versions = @ \cup {SchemaVersion}]
  /\ Goto(p, "commit")
  /\ UNCHANGED <<file, writer, faults, acked>> /\ Rest

CommitMigration(p) ==
  /\ At(p, "commit")
  /\ file' = view /\ EndTransaction(p)
  /\ session' = [session EXCEPT ![p].pc = "start", ![p].repository = TRUE]
  /\ UNCHANGED <<faults, acked>> /\ Rest

\* ~Transaction() rolls back and initialise() goes on without a repository.
GiveUp(p) ==
  /\ EndTransaction(p)
  /\ session' = [session EXCEPT ![p].pc = "start", ![p].repository = FALSE]

\* A transaction object without the destructor that rolls back.
BugNoRollback(p) ==
  /\ At(p, "record") /\ SchemaVersion \in view.versions
  /\ session' = [session EXCEPT ![p].pc = "start", ![p].repository = FALSE]
  /\ UNCHANGED <<file, writer, view, faults, acked>> /\ Rest

VersionTaken(p) ==
  /\ At(p, "record") /\ SchemaVersion \in view.versions
  /\ GiveUp(p)
  /\ UNCHANGED <<file, faults, acked>> /\ Rest

InitialiseFails(p) ==
  /\ \E pc \in {"open", "read", "begin", "script", "record", "commit"} : At(p, pc)
  /\ Fault /\ GiveUp(p) /\ Rest

\* A generator whose identifiers repeat.
BugUsedIds == {}

UsedIds == {session[q].run : q \in Sessions} \cup DOMAIN file.runs
             \cup {a.run : a \in acked} \cup pruned

Ack(what, run, rows) == acked' = acked \cup {[what |-> what, run |-> run, rows |-> rows]}

\* beginRun(): INSERT OR REPLACE.  Without a repository nothing is written.  The
\* identifier is a fresh one: which one does not matter, so the least is taken.
BeginRun(p, run) ==
  /\ At(p, "start")
  /\ run \notin UsedIds /\ \A r \in 1 .. run - 1 : r \in UsedIds
  /\ session' = [session EXCEPT ![p].pc = "test", ![p].run = run]
  /\ IF session[p].repository
     THEN \/ Autocommit(ReplaceRun(file, run)) /\ Ack("begin", run, {})
          \/ Fault /\ UNCHANGED <<writer, view>>
     ELSE UNCHANGED <<file, writer, view, faults, acked>>
  /\ Rest

\* foreign_keys left OFF.
BugSaveOrphans(p, test, status, final) ==
  LET n   == session[p].attempts[test] + 1
      row == [run |-> session[p].run, test |-> test, attempt |-> n, status |-> status]
  IN  /\ At(p, "test") /\ session[p].repository
      /\ \A r \in session[p].results : r.test # test
      /\ final \/ (IsFailure(status) /\ n < MaxAttempts)
      /\ session' = [session EXCEPT ![p].attempts[test] = n,
                       ![p].results = IF final THEN @ \cup {row} ELSE @]
      /\ Autocommit(InsertResult(file, row)) /\ Ack("save", row.run, {row})
      /\ Rest

\* One attempt of a test has ended: a failure that is retried is saved but is not
\* a result of the run, the last attempt is both.
SaveResult(p, test, status, final) ==
  LET n   == session[p].attempts[test] + 1
      row == [run |-> session[p].run, test |-> test, attempt |-> n, status |-> status]
  IN  /\ At(p, "test")
      /\ \A r \in session[p].results : r.test # test
      /\ final \/ (IsFailure(status) /\ n < MaxAttempts)
      /\ session' = [session EXCEPT ![p].attempts[test] = n,
                       ![p].results = IF final THEN @ \cup {row} ELSE @]
      /\ IF session[p].repository
         THEN \/ /\ row.run \in DOMAIN file.runs
                 /\ Autocommit(InsertResult(file, row)) /\ Ack("save", row.run, {row})
              \/ /\ row.run \notin DOMAIN file.runs     \* the foreign key
                 /\ Autocommit(file) /\ UNCHANGED acked
              \/ Fault /\ UNCHANGED <<writer, view>>
         ELSE UNCHANGED <<file, writer, view, faults, acked>>
      /\ Rest

\* The record finished while workers still save results.
BugCompleteEarly(p) ==
  /\ At(p, "test") /\ session[p].repository
  /\ Autocommit(UpdateTotals(file, session[p].run, session[p].results))
  /\ Ack("complete", session[p].run, session[p].results)
  /\ IF {r.test : r \in session[p].results} = Tests THEN Goto(p, "event") ELSE UNCHANGED session
  /\ Rest

CompleteRun(p) ==
  /\ At(p, "test")
  /\ {r.test : r \in session[p].results} = Tests
  /\ Goto(p, "event")
  /\ IF session[p].repository
     THEN \/ /\ Autocommit(UpdateTotals(file, session[p].run, session[p].results))
             /\ Ack("complete", session[p].run, session[p].results)
          \/ Fault /\ UNCHANGED <<writer, view>>
     ELSE UNCHANGED <<file, writer, view, faults, acked>>
  /\ Rest

\* recordEvent("reports_written"): its failures are swallowed.
RecordEvent(p) ==
  /\ At(p, "event")
  /\ Goto(p, "done")
  /\ IF session[p].repository
     THEN \/ Autocommit(IF session[p].run \in DOMAIN file.runs
                        THEN InsertEvent(file, session[p].run) ELSE file) /\ UNCHANGED acked
          \/ Fault /\ UNCHANGED <<writer, view>>
     ELSE UNCHANGED <<file, writer, view, faults, acked>>
  /\ Rest

\* The process dies; SQLite forgets the transaction it had open.
Crash(p) ==
  /\ session[p].pc \notin {"open", "done", "dead"} /\ faults + crashes < MaxFailures
  /\ crashes' = crashes + 1
  /\ EndTransaction(p)
  /\ Goto(p, "dead")
  /\ UNCHANGED <<file, pruner, reader, faults, acked, pruned>>

-----------------------------------------------------------------------------
(* `testforge db --prune`, once, on any day.                               *)

PruneRest == UNCHANGED <<session, reader, crashes, acked>>

\* BEGIN IMMEDIATE; DELETE.  Runs are numbered in the order they start, so any
\* number may be the cutoff: enough days may have passed.
PruneDelete(cutoff) ==
  /\ pruner.pc = "idle" /\ writer = None
  /\ file.tables /\ RetentionDays > 0
  /\ writer' = Pruner
  /\ view' = DeleteOlder(file, cutoff)
  /\ pruner' = [pc |-> "commit"]
  /\ UNCHANGED <<file, faults, pruned>> /\ PruneRest

\* VACUUM follows only when something was removed.
PruneCommit ==
  /\ pruner.pc = "commit"
  /\ file' = view /\ EndTransaction(Pruner)
  /\ pruned' = pruned \cup (DOMAIN file.runs \ DOMAIN view.runs)
  /\ pruner' = [pc |-> IF view = file THEN "done" ELSE "vacuum"]
  /\ UNCHANGED faults /\ PruneRest

PruneVacuum ==
  /\ pruner.pc = "vacuum"
  /\ Autocommit(file)
  /\ pruner' = [pc |-> "done"]
  /\ UNCHANGED pruned /\ PruneRest

\* Any of its statements throws: what was committed stays, the rest is undone.
PruneFails ==
  /\ pruner.pc \notin {"idle", "done"}
  /\ faults + crashes < MaxFailures /\ faults' = faults + 1
  /\ EndTransaction(Pruner)
  /\ pruner' = [pc |-> "done"]
  /\ UNCHANGED <<file, pruned>> /\ PruneRest

-----------------------------------------------------------------------------
(* loadRun(): the row under the lock, the results under the lock again.    *)

ReadRest == UNCHANGED <<file, writer, view, session, pruner, faults, crashes, acked, pruned>>

NotReading == [pc |-> "idle", run |-> None, completed |-> FALSE]

LoadRow(run) ==
  /\ reader = NotReading /\ run \in DOMAIN file.runs
  /\ reader' = [pc |-> "results", run |-> run, completed |-> file.runs[run].completed]
  /\ ReadRest

\* loadRun() returns the row read before with LoadResults(file, run) of now.
LoadRunResults ==
  /\ reader.pc = "results"
  /\ reader' = NotReading
  /\ ReadRest

-----------------------------------------------------------------------------

Initialise(p) ==
  \/ CreateVersionTable(p) \/ ReadVersion(p)
  \/ BeginMigration(p) \/ RunScript(p) \/ RecordVersion(p) \/ CommitMigration(p)
  \/ VersionTaken(p) \/ InitialiseFails(p)

Record(p) ==
  \/ \E run \in RunIds : BeginRun(p, run)
  \/ \E t \in Tests, s \in Outcomes, final \in BOOLEAN : SaveResult(p, t, s, final)
  \/ CompleteRun(p) \/ RecordEvent(p)

Prune ==
  \/ \E cutoff \in RunIds \cup {MaxRuns + 1} : PruneDelete(cutoff)
  \/ PruneCommit \/ PruneVacuum \/ PruneFails

Load == (\E run \in RunIds : LoadRow(run)) \/ LoadRunResults

RepositoryNext ==
  \/ \E p \in Sessions : Initialise(p) \/ Record(p) \/ Crash(p)
  \/ Prune \/ Load

\* A process that is alive goes on, and a prune that was begun ends.
RepositorySpec ==
  /\ RepositoryInit /\ [][RepositoryNext]_repoVars
  /\ \A p \in Sessions : WF_repoVars(Initialise(p) \/ Record(p))
  /\ WF_repoVars(PruneCommit \/ PruneVacuum \/ PruneFails)

-----------------------------------------------------------------------------

Acked(what, run) == {a \in acked : a.what = what /\ a.run = run}

Executed(run) == UNION {a.rows : a \in Acked("save", run)}

\* What a write reported as done stays done: whatever crashes, faults and other
\* processes do, until a prune removes the run, its row is there with every result
\* saveResult() returned from, and completeRun()'s totals are those of the results
\* the run returned (SqliteResultRepository.cpp: every statement commits by itself).
AcknowledgedSurvives ==
  \A run \in RunIds \ pruned :
    Acked("begin", run) # {} =>
      /\ run \in DOMAIN file.runs
      /\ Executed(run) = LoadResults(file, run)
      /\ \A a \in Acked("complete", run) :
           /\ file.runs[run].completed
           /\ file.runs[run].total = Cardinality(a.rows)

\* A run whose beginRun() failed leaves no trace at all, however many results it
\* goes on to save and although its completeRun() reports no error; and a prune
\* takes the results and the events with the run (the foreign keys).
NoTraceWithoutBegin ==
  /\ \A r \in file.results : r.run \in DOMAIN file.runs
  /\ file.events \subseteq DOMAIN file.runs
  /\ \A run \in RunIds : run \in DOMAIN file.runs => Acked("begin", run) # {} /\ run \notin pruned

\* Every view of a finished run whose saves all succeeded tells the same story: the
\* placeholders of listRuns(), the columns aggregateStatistics() sums and the last
\* attempts among loadResults(); and the history summaries count every stored
\* attempt exactly once.
ViewsAgree ==
  LET listing == ListRuns(file, Cardinality(RunIds), 0)
      sums    == AggregateStatistics(file, Cardinality(RunIds))
      history == HistorySummaries(file)
      storage == StorageInfo(file)
      last(rows) == {r \in rows : \A q \in rows : q.test = r.test => q.attempt <= r.attempt}
  IN  /\ \A i \in DOMAIN listing :
           LET run == listing[i].run
           IN  \A a \in Acked("complete", run) :
                 a.rows \subseteq Executed(run) =>
                   listing[i].counts = Statistics(last(LoadResults(file, run)))
      /\ sums.runs = storage.runs
      /\ sums.total = FoldLeft(LAMBDA n, e : n + SumOf(e.counts), 0, listing)
      /\ FoldSet(LAMBDA t, n : n + history[t].totalRuns, 0, DOMAIN history) = storage.results
      /\ FoldSet(LAMBDA t, n : n + history[t].failures, 0, DOMAIN history) = sums.failures

\* A run that loadRun() returns after reading a finished row comes with everything
\* that was saved for it, a result of every test unless a save had failed, although
\* row and results are read under two locks; only a prune in between can empty it.
LoadIsComplete ==
  [][reader.pc = "results" /\ reader'.pc = "idle" /\ reader.completed
       /\ reader.run \notin pruned
     => LET loaded == LoadResults(file, reader.run)
        IN  /\ Executed(reader.run) \subseteq loaded
            /\ faults = 0 => {r.test : r \in loaded} = Tests]_repoVars

\* A migration is applied as a whole or not at all, and a session that has a
\* repository finds the tables it writes to.
MigratedAtomically ==
  /\ file.tables <=> SchemaVersion \in file.versions
  /\ \A p \in Sessions : session[p].repository => file.tables

\* "Persistence must never take down a run" (TestRunner.cpp:677): a session that
\* does not die ends its run, whatever the database does.
RunOutlivesDatabase ==
  \A p \in Sessions : session[p].pc = "open" ~> session[p].pc \in {"done", "dead"}

\* The file is whole after any crash or failing statement: no run or result
\* without its parent, no half-applied migration.
FileIsWhole == NoTraceWithoutBegin /\ MigratedAtomically

\* The history is what happened: what was acknowledged is there, and every view
\* tells it the same way.
HistoryFaithful == AcknowledgedSurvives /\ ViewsAgree
=============================================================================
