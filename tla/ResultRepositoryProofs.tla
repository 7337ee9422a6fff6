----------------------- MODULE ResultRepositoryProofs -----------------------
(***************************************************************************)
(* Proofs about the repository: what the database holds after any crash,   *)
(* fault, prune and interleaving of processes, for every number of them.   *)
(*                                                                         *)
(* FileIsWhole and AcknowledgedSurvives speak of the committed file; a     *)
(* commit replaces it by the view of a transaction, so the invariant has   *)
(* to say what that view is at every stage (Transactions), who writes for  *)
(* which run (Identified), and what a finished record stands for           *)
(* (Accounted).  That the views agree rests on what the stored totals      *)
(* stand for (Tallied) and on lemmas about the sums and the ordered pages  *)
(* of the queries.                                                         *)
(***************************************************************************)
EXTENDS ResultRepository, FiniteSetTheorems, WellFoundedInduction, TLAPS

Rows == [run : RunIds, test : Tests, attempt : Nat, status : Statuses]

RunRow == [started : RunIds, completed : BOOLEAN, total : Nat, counts : [Statuses -> Nat]]

Histories == UNION {[S -> RunRow] : S \in SUBSET RunIds}

Databases == [versions : SUBSET {SchemaVersion}, tables : BOOLEAN, runs : Histories,
              results : SUBSET Rows, events : SUBSET RunIds]

SessionRecords ==
  [pc : {"open", "read", "begin", "script", "record", "commit", "start", "test", "event",
         "done", "dead"},
   repository : BOOLEAN, run : RunIds \cup {None}, attempts : [Tests -> Nat],
   results : SUBSET Rows]

TypeOK ==
  /\ file \in Databases /\ view \in Databases
  /\ writer \in Sessions \cup {Pruner, None}
  /\ session \in [Sessions -> SessionRecords]
  /\ \A p \in Sessions : IsFiniteSet(session[p].results)
  /\ pruner \in [pc : {"idle", "commit", "vacuum", "done"}]
  /\ reader \in [pc : {"idle", "results"}, run : RunIds \cup {None}, completed : BOOLEAN]
  /\ faults \in Nat /\ crashes \in Nat
  /\ acked \in SUBSET [what : {"begin", "save", "complete"}, run : RunIds, rows : SUBSET Rows]
  /\ pruned \in SUBSET RunIds

-----------------------------------------------------------------------------
(* What the statements do to a database.                                   *)

\* A history is a function from some runs to their rows.
LEMMA HistoryOf ==
  ASSUME NEW f PROVE  f \in Histories <=> /\ DOMAIN f \subseteq RunIds
                                          /\ f \in [DOMAIN f -> RunRow]
<1>1. ASSUME f \in Histories PROVE DOMAIN f \subseteq RunIds /\ f \in [DOMAIN f -> RunRow]
  <2>1. PICK S \in SUBSET RunIds : f \in [S -> RunRow]  BY <1>1 DEF Histories
  <2> QED BY <2>1
<1>2. ASSUME DOMAIN f \subseteq RunIds, f \in [DOMAIN f -> RunRow] PROVE f \in Histories
  BY <1>2 DEF Histories
<1> QED BY <1>1, <1>2

\* The database a process finds before anything was written to it.
LEMMA EmptyFileTyped == EmptyFile \in Databases
<1>1. <<>> \in [{} -> RunRow]  OBVIOUS
<1>2. <<>> \in Histories  BY <1>1 DEF Histories
<1> QED BY <1>2 DEF EmptyFile, Databases

\* INSERT OR REPLACE of a run: its row is new, its results and events are gone.
LEMMA ReplaceRunDoes ==
  ASSUME NEW db \in Databases, NEW run \in RunIds
  PROVE  LET new == ReplaceRun(db, run)
         IN  /\ new \in Databases
             /\ DOMAIN new.runs = DOMAIN db.runs \cup {run}
             /\ \A r \in DOMAIN db.runs : r # run => new.runs[r] = db.runs[r]
             /\ ~new.runs[run].completed
             /\ new.results = {r \in db.results : r.run # run}
             /\ new.events = {e \in db.events : e # run}
             /\ new.versions = db.versions /\ new.tables = db.tables
<1> DEFINE row == [started |-> run, completed |-> FALSE, total |-> 0, counts |-> NoTotals]
<1> DEFINE runs == [r \in DOMAIN db.runs \cup {run} |-> IF r = run THEN row ELSE db.runs[r]]
<1>1. /\ db.runs \in Histories /\ db.results \subseteq Rows /\ db.events \subseteq RunIds
  BY DEF Databases
<1>2. DOMAIN db.runs \subseteq RunIds /\ db.runs \in [DOMAIN db.runs -> RunRow]
  BY <1>1, HistoryOf
<1>3. row \in RunRow  BY DEF RunRow, NoTotals
<1>4. runs \in [DOMAIN db.runs \cup {run} -> RunRow]  BY <1>2, <1>3
<1>5. runs \in Histories  BY <1>2, <1>4 DEF Histories
<1>6. ReplaceRun(db, run) = [db EXCEPT !.runs = runs,
                                       !.results = {r \in db.results : r.run # run},
                                       !.events = {e \in db.events : e # run}]
  BY DEF ReplaceRun
<1>7. ~row.completed /\ runs[run] = row /\ \A r \in DOMAIN db.runs : r # run => runs[r] = db.runs[r]
  OBVIOUS
<1> HIDE DEF runs, row
<1>8. DOMAIN runs = DOMAIN db.runs \cup {run}  BY <1>4
<1> QED BY <1>1, <1>5, <1>6, <1>7, <1>8 DEF Databases

\* INSERT of a result.
LEMMA InsertResultDoes ==
  ASSUME NEW db \in Databases, NEW row \in Rows
  PROVE  LET new == InsertResult(db, row)
         IN  /\ new \in Databases
             /\ new.results = db.results \cup {row}
             /\ new.runs = db.runs /\ new.events = db.events
             /\ new.versions = db.versions /\ new.tables = db.tables
BY DEF InsertResult, Databases

\* INSERT of an event.
LEMMA InsertEventDoes ==
  ASSUME NEW db \in Databases, NEW run \in RunIds
  PROVE  LET new == InsertEvent(db, run)
         IN  /\ new \in Databases
             /\ new.events = db.events \cup {run}
             /\ new.runs = db.runs /\ new.results = db.results
             /\ new.versions = db.versions /\ new.tables = db.tables
BY DEF InsertEvent, Databases

\* The UPDATE of completeRun(): the row of the run, and nothing when there is none.
LEMMA UpdateTotalsDoes ==
  ASSUME NEW db \in Databases, NEW run \in RunIds, NEW rows, IsFiniteSet(rows)
  PROVE  LET new == UpdateTotals(db, run, rows)
         IN  /\ new \in Databases
             /\ DOMAIN new.runs = DOMAIN db.runs
             /\ \A r \in DOMAIN db.runs : r # run => new.runs[r] = db.runs[r]
             /\ run \in DOMAIN db.runs => /\ new.runs[run].completed
                                          /\ new.runs[run].total = Cardinality(rows)
             /\ new.results = db.results /\ new.events = db.events
             /\ new.versions = db.versions /\ new.tables = db.tables
<1>1. CASE run \notin DOMAIN db.runs  BY <1>1 DEF UpdateTotals
<1>2. CASE run \in DOMAIN db.runs
  <2> DEFINE old == db.runs[run]
             row == [old EXCEPT !.completed = TRUE, !.total = Cardinality(rows),
                                !.counts = Statistics(rows)]
             runs == [db.runs EXCEPT ![run] = row]
  <2>1. DOMAIN db.runs \subseteq RunIds /\ db.runs \in [DOMAIN db.runs -> RunRow]
    BY HistoryOf DEF Databases
  <2>2. Cardinality(rows) \in Nat  BY FS_CardinalityType
  <2>3. Statistics(rows) \in [Statuses -> Nat]
    <3>1. ASSUME NEW s \in Statuses PROVE Cardinality({r \in rows : r.status = s}) \in Nat
      BY FS_Subset, FS_CardinalityType
    <3> QED BY <3>1 DEF Statistics
  <2>4. old \in RunRow  BY <1>2, <2>1
  <2>5. row \in RunRow /\ row.completed /\ row.total = Cardinality(rows)
    BY <2>2, <2>3, <2>4 DEF RunRow
  <2>6. runs \in [DOMAIN db.runs -> RunRow]  BY <2>1, <2>5
  <2>7. runs \in Histories  BY <2>1, <2>6 DEF Histories
  <2>8. UpdateTotals(db, run, rows) = [db EXCEPT !.runs = runs]
    BY <1>2, <2>1 DEF UpdateTotals, Databases
  <2>9. runs[run] = row /\ \A r \in DOMAIN db.runs : r # run => runs[r] = db.runs[r]
    BY <1>2, <2>1
  <2> HIDE DEF runs, row
  <2> QED BY <2>5, <2>6, <2>7, <2>8, <2>9 DEF Databases
<1> QED BY <1>1, <1>2

\* The DELETE of a prune, with its cascades.
LEMMA DeleteOlderDoes ==
  ASSUME NEW db \in Databases, NEW cutoff
  PROVE  LET new == DeleteOlder(db, cutoff)
         IN  /\ new \in Databases
             /\ DOMAIN new.runs \subseteq DOMAIN db.runs
             /\ \A r \in DOMAIN new.runs : new.runs[r] = db.runs[r]
             /\ new.results = {r \in db.results : r.run \notin DOMAIN db.runs \ DOMAIN new.runs}
             /\ new.events = db.events \ (DOMAIN db.runs \ DOMAIN new.runs)
             /\ new.versions = db.versions /\ new.tables = db.tables
<1> DEFINE old == {r \in DOMAIN db.runs : db.runs[r].started < cutoff}
           runs == [r \in DOMAIN db.runs \ old |-> db.runs[r]]
<1>1. DOMAIN db.runs \subseteq RunIds /\ db.runs \in [DOMAIN db.runs -> RunRow]
  BY HistoryOf DEF Databases
<1>2. runs \in [DOMAIN db.runs \ old -> RunRow]  BY <1>1
<1>3. runs \in Histories  BY <1>1, <1>2 DEF Histories
<1>4. DeleteOlder(db, cutoff) = [db EXCEPT !.runs = runs,
                                           !.results = {r \in db.results : r.run \notin old},
                                           !.events = db.events \ old]
  BY DEF DeleteOlder
<1>5. \A r \in DOMAIN db.runs \ old : runs[r] = db.runs[r]  OBVIOUS
<1>6. old \subseteq DOMAIN db.runs  OBVIOUS
<1> HIDE DEF runs, old
<1>7. DOMAIN runs = DOMAIN db.runs \ old /\ old = DOMAIN db.runs \ DOMAIN runs  BY <1>2, <1>6
<1> QED BY <1>3, <1>4, <1>5, <1>7 DEF Databases

-----------------------------------------------------------------------------
(* Types.                                                                  *)

Stages == {"open", "read", "begin", "script", "record", "commit", "start", "test", "event",
           "done", "dead"}

\* A session that only moves on keeps its run and its results.
LEMMA GotoDoes ==
  ASSUME TypeOK, NEW p \in Sessions, NEW pc \in Stages, Goto(p, pc)
  PROVE  /\ session' \in [Sessions -> SessionRecords]
         /\ session'[p] = [session[p] EXCEPT !.pc = pc]
         /\ session'[p].pc = pc
         /\ \A q \in Sessions : q # p => session'[q] = session[q]
         /\ \A q \in Sessions : /\ session'[q].run = session[q].run
                                /\ session'[q].results = session[q].results
                                /\ session'[q].repository = session[q].repository
BY DEF TypeOK, Goto, SessionRecords, Stages

Settles(p, pc, has) == session' = [session EXCEPT ![p].pc = pc, ![p].repository = has]

Starts(p, run) == session' = [session EXCEPT ![p].pc = "test", ![p].run = run]

SessionsTyped ==
  session \in [Sessions -> SessionRecords] /\ \A p \in Sessions : IsFiniteSet(session[p].results)

\* The end of initialise(): a session learns whether it has a repository.
LEMMA SettleDoes ==
  ASSUME TypeOK, NEW p \in Sessions, NEW pc \in Stages, NEW has \in BOOLEAN, Settles(p, pc, has)
  PROVE  /\ session' \in [Sessions -> SessionRecords]
         /\ session'[p].pc = pc /\ session'[p].repository = has
         /\ \A q \in Sessions : q # p => session'[q] = session[q]
         /\ \A q \in Sessions : /\ session'[q].run = session[q].run
                                /\ session'[q].results = session[q].results
<1> DEFINE new == [session[p] EXCEPT !.pc = pc, !.repository = has]
<1>1. session[p] \in SessionRecords /\ session \in [Sessions -> SessionRecords]  BY DEF TypeOK
<1>2. session' = [session EXCEPT ![p] = new]  BY <1>1 DEF Settles
<1>3. /\ new \in SessionRecords /\ new.pc = pc /\ new.repository = has
      /\ new.run = session[p].run /\ new.results = session[p].results
  BY <1>1 DEF SessionRecords, Stages
<1> QED BY <1>1, <1>2, <1>3

\* Whatever ends a transaction leaves a database in its place.
LEMMA EndTransactionDoes ==
  ASSUME TypeOK, NEW owner \in Sessions \cup {Pruner}, EndTransaction(owner)
  PROVE  /\ view' \in Databases /\ writer' \in Sessions \cup {Pruner, None}
         /\ writer = owner => writer' = None
         /\ writer # owner => UNCHANGED <<writer, view>>
BY EmptyFileTyped DEF TypeOK, EndTransaction

\* The row that ends an attempt.
AttemptRow(p, t, s) ==
  [run |-> session[p].run, test |-> t, attempt |-> session[p].attempts[t] + 1, status |-> s]

\* What saveResult() and the run make of an attempt.
LEMMA SaveDoes ==
  ASSUME TypeOK, NEW p \in Sessions, NEW t \in Tests, NEW s \in Outcomes, NEW final \in BOOLEAN,
         session[p].run \in RunIds, SaveResult(p, t, s, final)
  PROVE  /\ AttemptRow(p, t, s) \in Rows
         /\ session' \in [Sessions -> SessionRecords]
         /\ \A q \in Sessions : IsFiniteSet(session'[q].results)
         /\ session'[p].results \subseteq session[p].results \cup {AttemptRow(p, t, s)}
         /\ \A q \in Sessions : q # p => session'[q] = session[q]
         /\ \A q \in Sessions : /\ session'[q].run = session[q].run
                                /\ session'[q].pc = session[q].pc
                                /\ session'[q].repository = session[q].repository
<1> DEFINE row == AttemptRow(p, t, s)
           now == IF final THEN session[p].results \cup {row} ELSE session[p].results
<1>1. session[p] \in SessionRecords /\ IsFiniteSet(session[p].results)  BY DEF TypeOK
<1>2. session[p].attempts[t] + 1 \in Nat  BY <1>1 DEF SessionRecords
<1>3. row \in Rows  BY <1>2, RepositoryAssumption DEF AttemptRow, Rows
<1>4. session' = [session EXCEPT ![p].attempts[t] = session[p].attempts[t] + 1,
                                 ![p].results = now]
  BY <1>1 DEF SaveResult, AttemptRow, TypeOK
<1>5. now \in SUBSET Rows /\ IsFiniteSet(now) /\ now \subseteq session[p].results \cup {row}
  BY <1>1, <1>3, FS_AddElement DEF SessionRecords
<1> DEFINE new == [session[p] EXCEPT !.attempts = [session[p].attempts EXCEPT
                                                     ![t] = session[p].attempts[t] + 1],
                                     !.results = now]
<1> HIDE DEF now, row
<1>a. session' = [session EXCEPT ![p] = new]  BY <1>1, <1>4 DEF TypeOK
<1>b. /\ new \in SessionRecords /\ new.pc = session[p].pc /\ new.results = now
      /\ new.repository = session[p].repository /\ new.run = session[p].run
  BY <1>1, <1>2, <1>5 DEF SessionRecords
<1> HIDE DEF new
<1>6. /\ session' \in [Sessions -> SessionRecords]
      /\ session'[p].results = now
      /\ \A q \in Sessions : q # p => session'[q] = session[q]
      /\ \A q \in Sessions : /\ session'[q].run = session[q].run
                             /\ session'[q].pc = session[q].pc
                             /\ session'[q].repository = session[q].repository
  BY <1>a, <1>b DEF TypeOK
<1>7. \A q \in Sessions : IsFiniteSet(session'[q].results)
  BY <1>5, <1>6 DEF TypeOK
<1> QED BY <1>3, <1>5, <1>6, <1>7 DEF row

\* beginRun(): the session has a run from here on.
LEMMA StartDoes ==
  ASSUME TypeOK, NEW p \in Sessions, NEW run \in RunIds, Starts(p, run)
  PROVE  /\ session' \in [Sessions -> SessionRecords]
         /\ session'[p].pc = "test" /\ session'[p].run = run
         /\ \A q \in Sessions : q # p => session'[q] = session[q]
         /\ \A q \in Sessions : /\ session'[q].repository = session[q].repository
                                /\ session'[q].results = session[q].results
<1> DEFINE new == [session[p] EXCEPT !.pc = "test", !.run = run]
<1>1. session[p] \in SessionRecords /\ session \in [Sessions -> SessionRecords]  BY DEF TypeOK
<1>2. session' = [session EXCEPT ![p] = new]  BY <1>1 DEF Starts
<1>3. /\ new \in SessionRecords /\ new.pc = "test" /\ new.run = run
      /\ new.repository = session[p].repository /\ new.results = session[p].results
  BY <1>1 DEF SessionRecords
<1> QED BY <1>1, <1>2, <1>3

\* Who writes for which run: a session has a run from beginRun() on, no two have
\* the same one, and a run whose record was finished is not being executed.
Identified ==
  /\ \A p \in Sessions :
       /\ session[p].pc \in {"open", "read", "begin", "script", "record", "commit", "start"} =>
            session[p].run = None
       /\ session[p].pc \in {"test", "event", "done"} => session[p].run \in RunIds
       /\ session[p].run = None => session[p].results = {}
  /\ \A p, q \in Sessions : p # q /\ session[p].run = session[q].run => session[p].run = None
  /\ \A a \in acked : a.what = "complete" =>
       \A p \in Sessions : session[p].run = a.run => session[p].pc # "test"

\* Acknowledging a write keeps the history typed.
LEMMA AckTyped ==
  ASSUME TypeOK, NEW what \in {"begin", "save", "complete"}, NEW run \in RunIds,
         NEW rows \in SUBSET Rows, Ack(what, run, rows)
  PROVE  acked' \in SUBSET [what : {"begin", "save", "complete"}, run : RunIds, rows : SUBSET Rows]
BY DEF TypeOK, Ack

\* A session migrates unless the version is recorded.
LEMMA ReadVersionDoes ==
  ASSUME TypeOK, NEW p \in Sessions, ReadVersion(p)
  PROVE  IF SchemaVersion \in file.versions THEN Settles(p, "start", TRUE)
         ELSE Settles(p, "begin", FALSE)
<1> DEFINE applied == Max({0} \cup file.versions)
<1>1. file.versions \subseteq {1}  BY DEF TypeOK, Databases, SchemaVersion
<1>2. ASSUME 1 \in file.versions PROVE applied = 1
  <2>1. {0} \cup file.versions = {0, 1}  BY <1>1, <1>2
  <2> QED BY <2>1 DEF Max
<1>3. ASSUME 1 \notin file.versions PROVE applied = 0
  <2>1. {0} \cup file.versions = {0}  BY <1>1, <1>3
  <2> QED BY <2>1 DEF Max
<1>4. session' = [session EXCEPT ![p].pc = IF SchemaVersion > applied THEN "begin" ELSE "start",
                                 ![p].repository = SchemaVersion <= applied]
  BY DEF ReadVersion
<1> HIDE DEF applied
<1>5. CASE 1 \in file.versions
  <2>0. (SchemaVersion > applied) = FALSE /\ (SchemaVersion <= applied) = TRUE
    BY <1>2, <1>5 DEF SchemaVersion
  <2>1. session' = [session EXCEPT ![p].pc = "start", ![p].repository = TRUE]
    BY <1>4, <2>0, Zenon
  <2> QED BY <1>5, <2>1 DEF Settles, SchemaVersion
<1>6. CASE 1 \notin file.versions
  <2>0. (SchemaVersion > applied) = TRUE /\ (SchemaVersion <= applied) = FALSE
    BY <1>3, <1>6 DEF SchemaVersion
  <2>1. session' = [session EXCEPT ![p].pc = "begin", ![p].repository = FALSE]
    BY <1>4, <2>0, Zenon
  <2> QED BY <1>6, <2>1 DEF Settles, SchemaVersion
<1> QED BY <1>5, <1>6

\* Types are kept.
LEMMA TypeStep == TypeOK /\ Identified /\ [RepositoryNext]_repoVars => TypeOK'
<1> SUFFICES ASSUME TypeOK, Identified, [RepositoryNext]_repoVars PROVE TypeOK'
  OBVIOUS
<1>1. ASSUME NEW p \in Sessions, Initialise(p) PROVE TypeOK'
  <2>1. CASE CreateVersionTable(p)
    <3>1. Goto(p, "read") /\ UNCHANGED <<file, writer, view, faults, acked, pruner, reader, crashes, pruned>>
      BY <2>1 DEF CreateVersionTable, Autocommit, Rest
    <3>s. SessionsTyped'  BY <3>1, GotoDoes DEF TypeOK, SessionsTyped, Stages
    <3> QED BY <3>1, <3>s DEF TypeOK, SessionsTyped
  <2>2. CASE ReadVersion(p)
    <3>1. Settles(p, "start", TRUE) \/ Settles(p, "begin", FALSE)
      BY <2>2, ReadVersionDoes
    <3>2. UNCHANGED <<file, writer, view, faults, acked, pruner, reader, crashes, pruned>>
      BY <2>2 DEF ReadVersion, Rest
    <3>s. SessionsTyped'  BY <3>1, <3>2, SettleDoes DEF TypeOK, SessionsTyped, Stages
    <3> QED BY <3>1, <3>2, <3>s DEF TypeOK, SessionsTyped
  <2>3. CASE BeginMigration(p)
    <3>1. /\ Goto(p, "script") /\ writer' = p /\ view' = file
          /\ UNCHANGED <<file, faults, acked, pruner, reader, crashes, pruned>>
      BY <2>3 DEF BeginMigration, Rest
    <3>s. SessionsTyped'  BY <3>1, GotoDoes DEF TypeOK, SessionsTyped, Stages
    <3> QED BY <3>1, <3>s DEF TypeOK, SessionsTyped
  <2>4. CASE RunScript(p)
    <3>1. /\ Goto(p, "record") /\ view' = [view EXCEPT !.tables = TRUE]
          /\ UNCHANGED <<file, writer, faults, acked, pruner, reader, crashes, pruned>>
      BY <2>4 DEF RunScript, Rest
    <3>2. view' \in Databases  BY <3>1 DEF TypeOK, Databases
    <3>s. SessionsTyped'  BY <3>1, <3>2, GotoDoes DEF TypeOK, SessionsTyped, Stages
    <3> QED BY <3>1, <3>2, <3>s DEF TypeOK, SessionsTyped
  <2>5. CASE RecordVersion(p)
    <3>1. /\ Goto(p, "commit") /\ view' = [view EXCEPT !.versions = @ \cup {SchemaVersion}]
          /\ UNCHANGED <<file, writer, faults, acked, pruner, reader, crashes, pruned>>
      BY <2>5 DEF RecordVersion, Rest
    <3>2. view' \in Databases  BY <3>1 DEF TypeOK, Databases
    <3>s. SessionsTyped'  BY <3>1, <3>2, GotoDoes DEF TypeOK, SessionsTyped, Stages
    <3> QED BY <3>1, <3>2, <3>s DEF TypeOK, SessionsTyped
  <2>6. CASE CommitMigration(p)
    <3>1. /\ Settles(p, "start", TRUE)
          /\ file' = view /\ EndTransaction(p)
          /\ UNCHANGED <<faults, acked, pruner, reader, crashes, pruned>>
      BY <2>6 DEF CommitMigration, Rest, Settles
    <3>s. SessionsTyped'  BY <3>1, SettleDoes DEF TypeOK, SessionsTyped, Stages
    <3>v. view' \in Databases /\ writer' \in Sessions \cup {Pruner, None}
      BY <3>1, EndTransactionDoes
    <3> QED BY <3>1, <3>v, <3>s DEF TypeOK, SessionsTyped
  <2>7. CASE VersionTaken(p) \/ InitialiseFails(p)
    <3>1. /\ Settles(p, "start", FALSE)
          /\ EndTransaction(p) /\ faults' \in {faults, faults + 1}
          /\ UNCHANGED <<file, acked, pruner, reader, crashes, pruned>>
      BY <2>7 DEF VersionTaken, InitialiseFails, GiveUp, Fault, Rest, Settles
    <3>s. SessionsTyped'  BY <3>1, SettleDoes DEF TypeOK, SessionsTyped, Stages
    <3>v. view' \in Databases /\ writer' \in Sessions \cup {Pruner, None}
      BY <3>1, EndTransactionDoes
    <3> QED BY <3>1, <3>v, <3>s DEF TypeOK, SessionsTyped
  <2> QED BY <1>1, <2>1, <2>2, <2>3, <2>4, <2>5, <2>6, <2>7 DEF Initialise
<1>2. ASSUME NEW p \in Sessions, NEW run \in RunIds, BeginRun(p, run) PROVE TypeOK'
  <2>1. /\ Starts(p, run)
        /\ UNCHANGED <<writer, view, pruner, reader, crashes, pruned>>
        /\ faults' \in {faults, faults + 1}
    BY <1>2 DEF BeginRun, Autocommit, Fault, Rest, Starts
  <2>2. file' \in {file, ReplaceRun(file, run)} /\ (UNCHANGED acked \/ Ack("begin", run, {}))
    BY <1>2 DEF BeginRun, Autocommit, Fault
  <2>3. file' \in Databases  BY <2>2, ReplaceRunDoes DEF TypeOK
  <2>4. acked' \in SUBSET [what : {"begin", "save", "complete"}, run : RunIds, rows : SUBSET Rows]
    BY <2>2, AckTyped DEF TypeOK
  <2>s. SessionsTyped'  BY <2>1, <2>3, <2>4, StartDoes DEF TypeOK, SessionsTyped, Stages
  <2> QED BY <2>1, <2>3, <2>4, <2>s DEF TypeOK, SessionsTyped
<1>3. ASSUME NEW p \in Sessions, NEW t \in Tests, NEW s \in Outcomes, NEW final \in BOOLEAN,
             SaveResult(p, t, s, final)
      PROVE  TypeOK'
  <2>1. session[p].run \in RunIds  BY <1>3 DEF SaveResult, At, Identified
  <2>2. AttemptRow(p, t, s) \in Rows  BY <1>3, <2>1, SaveDoes
  <2>3. /\ file' \in {file, InsertResult(file, AttemptRow(p, t, s))}
        /\ UNCHANGED acked \/ Ack("save", session[p].run, {AttemptRow(p, t, s)})
        /\ UNCHANGED <<writer, view, pruner, reader, crashes, pruned>>
        /\ faults' \in {faults, faults + 1}
    BY <1>3 DEF SaveResult, Autocommit, Fault, Rest, AttemptRow
  <2>4. file' \in Databases  BY <2>2, <2>3, InsertResultDoes DEF TypeOK
  <2>5. acked' \in SUBSET [what : {"begin", "save", "complete"}, run : RunIds, rows : SUBSET Rows]
    BY <2>1, <2>2, <2>3, AckTyped DEF TypeOK
  <2> QED BY <1>3, <2>1, <2>3, <2>4, <2>5, SaveDoes DEF TypeOK
<1>4. ASSUME NEW p \in Sessions, CompleteRun(p) PROVE TypeOK'
  <2>1. session[p].run \in RunIds  BY <1>4 DEF CompleteRun, At, Identified
  <2>2. /\ Goto(p, "event")
        /\ file' \in {file, UpdateTotals(file, session[p].run, session[p].results)}
        /\ UNCHANGED acked \/ Ack("complete", session[p].run, session[p].results)
        /\ UNCHANGED <<writer, view, pruner, reader, crashes, pruned>>
        /\ faults' \in {faults, faults + 1}
    BY <1>4 DEF CompleteRun, Autocommit, Fault, Rest
  <2>3. IsFiniteSet(session[p].results) /\ session[p].results \in SUBSET Rows
    BY DEF TypeOK, SessionRecords
  <2>4. file' \in Databases  BY <2>1, <2>2, <2>3, UpdateTotalsDoes DEF TypeOK
  <2>5. acked' \in SUBSET [what : {"begin", "save", "complete"}, run : RunIds, rows : SUBSET Rows]
    BY <2>1, <2>2, <2>3, AckTyped DEF TypeOK
  <2>s. SessionsTyped'  BY <2>2, <2>4, <2>5, GotoDoes DEF TypeOK, SessionsTyped, Stages
  <2> QED BY <2>2, <2>4, <2>5, <2>s DEF TypeOK, SessionsTyped
<1>5. ASSUME NEW p \in Sessions, RecordEvent(p) PROVE TypeOK'
  <2>1. session[p].run \in RunIds  BY <1>5 DEF RecordEvent, At, Identified
  <2>2. /\ Goto(p, "done")
        /\ file' \in {file, InsertEvent(file, session[p].run)}
        /\ UNCHANGED <<acked, writer, view, pruner, reader, crashes, pruned>>
        /\ faults' \in {faults, faults + 1}
    BY <1>5 DEF RecordEvent, Autocommit, Fault, Rest
  <2>3. file' \in Databases  BY <2>1, <2>2, InsertEventDoes DEF TypeOK
  <2>s. SessionsTyped'  BY <2>2, <2>3, GotoDoes DEF TypeOK, SessionsTyped, Stages
  <2> QED BY <2>2, <2>3, <2>s DEF TypeOK, SessionsTyped
<1>6. ASSUME NEW p \in Sessions, Crash(p) PROVE TypeOK'
  <2>1. /\ crashes' = crashes + 1 /\ EndTransaction(p) /\ Goto(p, "dead")
        /\ UNCHANGED <<file, pruner, reader, faults, acked, pruned>>
    BY <1>6 DEF Crash
  <2>s. SessionsTyped'  BY <2>1, GotoDoes DEF TypeOK, SessionsTyped, Stages
  <2>v. view' \in Databases /\ writer' \in Sessions \cup {Pruner, None}
    BY <2>1, EndTransactionDoes
  <2> QED BY <2>1, <2>v, <2>s DEF TypeOK, SessionsTyped
<1>7. ASSUME Prune PROVE TypeOK'
  <2>1. ASSUME NEW cutoff, PruneDelete(cutoff) PROVE TypeOK'
    <3>1. view' \in Databases  BY <2>1, DeleteOlderDoes DEF PruneDelete, TypeOK
    <3> QED BY <2>1, <3>1 DEF PruneDelete, PruneRest, TypeOK
  <2>2. CASE PruneCommit
    <3>1. DOMAIN file.runs \subseteq RunIds  BY HistoryOf DEF TypeOK, Databases
    <3>2. pruned' \in SUBSET RunIds  BY <2>2, <3>1 DEF PruneCommit, TypeOK
    <3>3. pruner' \in [pc : {"idle", "commit", "vacuum", "done"}]  BY <2>2 DEF PruneCommit
    <3>4. EndTransaction(Pruner) /\ file' = view /\ UNCHANGED <<faults, session, reader, crashes, acked>>
      BY <2>2 DEF PruneCommit, PruneRest
    <3> QED BY <3>2, <3>3, <3>4, EndTransactionDoes DEF TypeOK
  <2>3. CASE PruneVacuum  BY <2>3 DEF PruneVacuum, Autocommit, PruneRest, TypeOK
  <2>4. CASE PruneFails
    BY <2>4, EndTransactionDoes DEF PruneFails, PruneRest, TypeOK
  <2> QED BY <1>7, <2>1, <2>2, <2>3, <2>4 DEF Prune
<1>8. ASSUME Load PROVE TypeOK'
  <2>1. DOMAIN file.runs \subseteq RunIds /\ file.runs \in [DOMAIN file.runs -> RunRow]
    BY HistoryOf DEF TypeOK, Databases
  <2>2. ASSUME NEW run \in RunIds, LoadRow(run)
        PROVE  reader' \in [pc : {"idle", "results"}, run : RunIds \cup {None}, completed : BOOLEAN]
    <3>1. file.runs[run].completed \in BOOLEAN  BY <2>1, <2>2 DEF LoadRow, RunRow
    <3> QED BY <2>2, <3>1 DEF LoadRow
  <2>3. ASSUME LoadRunResults
        PROVE  reader' \in [pc : {"idle", "results"}, run : RunIds \cup {None}, completed : BOOLEAN]
    BY <2>3 DEF LoadRunResults, NotReading
  <2>4. ReadRest  BY <1>8 DEF Load, LoadRow, LoadRunResults
  <2> QED BY <1>8, <2>2, <2>3, <2>4 DEF Load, ReadRest, TypeOK
<1>9. CASE UNCHANGED repoVars  BY <1>9 DEF repoVars, TypeOK
<1> QED BY <1>1, <1>2, <1>3, <1>4, <1>5, <1>6, <1>7, <1>8, <1>9 DEF RepositoryNext, Record
-----------------------------------------------------------------------------
(* Who holds the write lock, and which run is whose.                       *)

Migrating == {"script", "record", "commit"}

\* What the open transaction has done so far: its view is the committed file with
\* the statements of its owner applied, so nobody else has written meanwhile.
Transactions ==
  /\ \A p \in Sessions : writer = p <=> session[p].pc \in Migrating
  /\ writer = Pruner <=> pruner.pc = "commit"
  /\ \A p \in Sessions :
       /\ session[p].pc = "script" => view = file
       /\ session[p].pc = "record" => view = [file EXCEPT !.tables = TRUE]
       /\ session[p].pc = "commit" =>
            view = [file EXCEPT !.tables = TRUE, !.versions = @ \cup {SchemaVersion}]
  /\ pruner.pc = "commit" => \E cutoff \in Nat : view = DeleteOlder(file, cutoff)

\* A step outside every transaction, or one that leaves the file alone.
LEMMA LockFrame ==
  ASSUME Transactions, UNCHANGED <<writer, view, pruner>>, UNCHANGED file \/ writer = None,
         \A q \in Sessions : \/ session'[q].pc = session[q].pc
                             \/ session[q].pc \notin Migrating /\ session'[q].pc \notin Migrating
  PROVE  Transactions'
<1>1. CASE UNCHANGED file
  BY <1>1 DEF Transactions, Migrating
<1>2. CASE writer = None
  <2>1. \A q \in Sessions : session[q].pc \notin Migrating /\ writer # q
    BY <1>2, RepositoryAssumption DEF Transactions
  <2>2. \A q \in Sessions : session'[q].pc \notin Migrating  BY <2>1
  <2>3. pruner.pc # "commit" /\ writer # Pruner  BY <1>2, RepositoryAssumption DEF Transactions
  <2> QED BY <2>1, <2>2, <2>3 DEF Transactions, Migrating
<1> QED BY <1>1, <1>2

\* When a transaction ends, nobody is left inside one.
LEMMA LockReleased ==
  ASSUME Transactions, NEW p \in Sessions, session[p].pc \in Migrating, writer' = None,
         UNCHANGED pruner, session'[p].pc \notin Migrating,
         \A q \in Sessions : q # p => session'[q] = session[q]
  PROVE  Transactions'
<1>1. writer = p  BY DEF Transactions
<1>2. \A q \in Sessions : session'[q].pc \notin Migrating  BY <1>1 DEF Transactions
<1>3. pruner.pc # "commit"  BY <1>1, RepositoryAssumption DEF Transactions
<1> QED BY <1>2, <1>3, RepositoryAssumption DEF Transactions, Migrating

\* SQLite's lock is honoured by every step.
LEMMA TransactionsStep ==
  ASSUME TypeOK, Transactions, [RepositoryNext]_repoVars PROVE Transactions'
<1>1. ASSUME NEW p \in Sessions, Initialise(p) PROVE Transactions'
  <2>1. CASE CreateVersionTable(p)
    <3>1. Goto(p, "read") /\ UNCHANGED <<file, writer, view, pruner>> /\ session[p].pc = "open"
      BY <2>1 DEF CreateVersionTable, Autocommit, Rest, At
    <3>2. session'[p].pc = "read" /\ \A q \in Sessions : q # p => session'[q] = session[q]
      BY <3>1, GotoDoes DEF Stages
    <3> QED BY <3>1, <3>2, LockFrame DEF Migrating
  <2>2. CASE ReadVersion(p)
    <3>1. UNCHANGED <<file, writer, view, pruner>> /\ session[p].pc = "read"
      BY <2>2 DEF ReadVersion, Rest, At
    <3>2. /\ session'[p].pc \in {"start", "begin"}
          /\ \A q \in Sessions : q # p => session'[q] = session[q]
      BY <2>2, ReadVersionDoes, SettleDoes DEF Stages
    <3> QED BY <3>1, <3>2, LockFrame DEF Migrating
  <2>3. CASE BeginMigration(p)
    <3>1. /\ Goto(p, "script") /\ writer = None /\ writer' = p /\ view' = file
          /\ UNCHANGED <<file, pruner>>
      BY <2>3 DEF BeginMigration, Rest
    <3>2. session'[p].pc = "script" /\ \A q \in Sessions : q # p => session'[q] = session[q]
      BY <3>1, GotoDoes DEF Stages
    <3>3. /\ \A q \in Sessions : session[q].pc \notin Migrating
          /\ pruner.pc # "commit" /\ p # Pruner
      BY <3>1, RepositoryAssumption DEF Transactions
    <3> QED BY <3>1, <3>2, <3>3 DEF Transactions, Migrating
  <2>4. CASE RunScript(p)
    <3>1. /\ Goto(p, "record") /\ session[p].pc = "script"
          /\ view' = [view EXCEPT !.tables = TRUE] /\ UNCHANGED <<file, writer, pruner>>
      BY <2>4 DEF RunScript, Rest, At
    <3>2. session'[p].pc = "record" /\ \A q \in Sessions : q # p => session'[q] = session[q]
      BY <3>1, GotoDoes DEF Stages
    <3>3. /\ writer = p /\ view = file /\ pruner.pc # "commit"
          /\ \A q \in Sessions : q # p => session[q].pc \notin Migrating
      BY <3>1, RepositoryAssumption DEF Transactions, Migrating
    <3>4. view' = [file' EXCEPT !.tables = TRUE]  BY <3>1, <3>3
    <3> QED BY <3>1, <3>2, <3>3, <3>4, RepositoryAssumption DEF Transactions, Migrating
  <2>5. CASE RecordVersion(p)
    <3>1. /\ Goto(p, "commit") /\ session[p].pc = "record"
          /\ view' = [view EXCEPT !.versions = @ \cup {SchemaVersion}]
          /\ UNCHANGED <<file, writer, pruner>>
      BY <2>5 DEF RecordVersion, Rest, At
    <3>2. session'[p].pc = "commit" /\ \A q \in Sessions : q # p => session'[q] = session[q]
      BY <3>1, GotoDoes DEF Stages
    <3>3. /\ writer = p /\ view = [file EXCEPT !.tables = TRUE] /\ pruner.pc # "commit"
          /\ \A q \in Sessions : q # p => session[q].pc \notin Migrating
      BY <3>1, RepositoryAssumption DEF Transactions, Migrating
    <3>4. view' = [file' EXCEPT !.tables = TRUE, !.versions = @ \cup {SchemaVersion}]
      BY <3>1, <3>3
    <3> QED BY <3>1, <3>2, <3>3, <3>4, RepositoryAssumption DEF Transactions, Migrating
  <2>6. CASE CommitMigration(p)
    <3>1. /\ Settles(p, "start", TRUE) /\ session[p].pc = "commit"
          /\ EndTransaction(p) /\ UNCHANGED pruner
      BY <2>6 DEF CommitMigration, Rest, Settles, At
    <3>2. session'[p].pc = "start" /\ \A q \in Sessions : q # p => session'[q] = session[q]
      BY <3>1, SettleDoes DEF Stages
    <3>3. writer = p  BY <3>1 DEF Transactions, Migrating
    <3> QED BY <3>1, <3>2, <3>3, EndTransactionDoes, LockReleased DEF Migrating
  <2>7. CASE VersionTaken(p) \/ InitialiseFails(p)
    <3>1. Settles(p, "start", FALSE) /\ EndTransaction(p) /\ UNCHANGED <<file, pruner>>
      BY <2>7 DEF VersionTaken, InitialiseFails, GiveUp, Fault, Rest, Settles
    <3>2. session'[p].pc = "start" /\ \A q \in Sessions : q # p => session'[q] = session[q]
      BY <3>1, SettleDoes DEF Stages
    <3>3. CASE writer = p
      BY <3>1, <3>2, <3>3, EndTransactionDoes, LockReleased DEF Migrating, Transactions
    <3>4. CASE writer # p
      <4>1. UNCHANGED <<writer, view>> /\ session[p].pc \notin Migrating
        BY <3>1, <3>4, EndTransactionDoes DEF Transactions
      <4> QED BY <3>1, <3>2, <4>1, LockFrame DEF Migrating
    <3> QED BY <3>3, <3>4
  <2> QED BY <1>1, <2>1, <2>2, <2>3, <2>4, <2>5, <2>6, <2>7 DEF Initialise
<1>2. ASSUME NEW p \in Sessions, NEW run \in RunIds, BeginRun(p, run) PROVE Transactions'
  <2>1. /\ Starts(p, run) /\ session[p].pc = "start" /\ UNCHANGED <<writer, view, pruner>>
        /\ UNCHANGED file \/ writer = None
    BY <1>2 DEF BeginRun, Autocommit, Fault, Rest, Starts, At
  <2>2. session'[p].pc = "test" /\ \A q \in Sessions : q # p => session'[q] = session[q]
    BY <2>1, StartDoes
  <2> QED BY <2>1, <2>2, LockFrame DEF Migrating
<1>3. ASSUME NEW p \in Sessions, NEW t \in Tests, NEW s \in Outcomes, NEW final \in BOOLEAN,
             SaveResult(p, t, s, final)
      PROVE  Transactions'
  <2>1. /\ UNCHANGED <<writer, view, pruner>> /\ (UNCHANGED file \/ writer = None)
    BY <1>3 DEF SaveResult, Autocommit, Fault, Rest
  <2>2. \A q \in Sessions : session'[q].pc = session[q].pc
    BY <1>3 DEF SaveResult, TypeOK, SessionRecords
  <2> QED BY <2>1, <2>2, LockFrame
<1>4. ASSUME NEW p \in Sessions, CompleteRun(p) \/ RecordEvent(p) PROVE Transactions'
  <2>1. /\ session[p].pc \in {"test", "event"} /\ (Goto(p, "event") \/ Goto(p, "done"))
        /\ UNCHANGED <<writer, view, pruner>> /\ (UNCHANGED file \/ writer = None)
    BY <1>4 DEF CompleteRun, RecordEvent, Autocommit, Fault, Rest, At
  <2>2. /\ session'[p].pc \in {"event", "done"}
        /\ \A q \in Sessions : q # p => session'[q] = session[q]
    BY <2>1, GotoDoes DEF Stages
  <2> QED BY <2>1, <2>2, LockFrame DEF Migrating
<1>5. ASSUME NEW p \in Sessions, Crash(p) PROVE Transactions'
  <2>1. EndTransaction(p) /\ Goto(p, "dead") /\ UNCHANGED <<file, pruner>>
    BY <1>5 DEF Crash
  <2>2. session'[p].pc = "dead" /\ \A q \in Sessions : q # p => session'[q] = session[q]
    BY <2>1, GotoDoes DEF Stages
  <2>3. CASE writer = p
    BY <2>1, <2>2, <2>3, EndTransactionDoes, LockReleased DEF Migrating, Transactions
  <2>4. CASE writer # p
    <3>1. UNCHANGED <<writer, view>> /\ session[p].pc \notin Migrating
      BY <2>1, <2>4, EndTransactionDoes DEF Transactions
    <3> QED BY <2>1, <2>2, <3>1, LockFrame DEF Migrating
  <2> QED BY <2>3, <2>4
<1>6. ASSUME Prune PROVE Transactions'
  <2>1. ASSUME NEW cutoff \in RunIds \cup {MaxRuns + 1}, PruneDelete(cutoff) PROVE Transactions'
    <3>1. /\ writer = None /\ writer' = Pruner /\ view' = DeleteOlder(file, cutoff)
          /\ pruner' = [pc |-> "commit"] /\ UNCHANGED <<file, session>>
      BY <2>1 DEF PruneDelete, PruneRest
    <3>2. cutoff \in Nat  BY RepositoryAssumption DEF RunIds
    <3>3. \A q \in Sessions : session[q].pc \notin Migrating /\ q # Pruner
      BY <3>1, RepositoryAssumption DEF Transactions
    <3>4. \E c \in Nat : view' = DeleteOlder(file', c)  BY <3>1, <3>2
    <3> QED BY <3>1, <3>3, <3>4 DEF Transactions, Migrating
  <2>2. CASE PruneCommit
    <3>1. /\ pruner.pc = "commit" /\ EndTransaction(Pruner) /\ UNCHANGED session
          /\ pruner'.pc # "commit"
      BY <2>2 DEF PruneCommit, PruneRest
    <3>2. writer = Pruner /\ \A q \in Sessions : session[q].pc \notin Migrating
      BY <3>1, RepositoryAssumption DEF Transactions
    <3>3. writer' = None  BY <3>1, <3>2, EndTransactionDoes
    <3> QED BY <3>1, <3>2, <3>3, RepositoryAssumption DEF Transactions, Migrating
  <2>3. CASE PruneVacuum
    <3>1. /\ writer = None /\ UNCHANGED <<file, writer, view, session>> /\ pruner'.pc = "done"
      BY <2>3 DEF PruneVacuum, Autocommit, PruneRest
    <3> QED BY <3>1, RepositoryAssumption DEF Transactions, Migrating
  <2>4. CASE PruneFails
    <3>1. EndTransaction(Pruner) /\ UNCHANGED <<file, session>> /\ pruner'.pc = "done"
      BY <2>4 DEF PruneFails, PruneRest
    <3>2. CASE writer = Pruner
      <4>1. writer' = None  BY <3>1, <3>2, EndTransactionDoes
      <4>2. \A q \in Sessions : session[q].pc \notin Migrating
        BY <3>2, RepositoryAssumption DEF Transactions
      <4> QED BY <3>1, <4>1, <4>2, RepositoryAssumption DEF Transactions, Migrating
    <3>3. CASE writer # Pruner
      <4>1. UNCHANGED <<writer, view>>  BY <3>1, <3>3, EndTransactionDoes
      <4> QED BY <3>1, <3>3, <4>1 DEF Transactions, Migrating
    <3> QED BY <3>2, <3>3
  <2> QED BY <1>6, <2>1, <2>2, <2>3, <2>4 DEF Prune
<1>7. CASE Load \/ UNCHANGED repoVars
  <2>1. UNCHANGED <<file, writer, view, session, pruner>>
    BY <1>7 DEF Load, LoadRow, LoadRunResults, ReadRest, repoVars
  <2> QED BY <2>1 DEF Transactions, Migrating
<1> QED BY <1>1, <1>2, <1>3, <1>4, <1>5, <1>6, <1>7 DEF RepositoryNext, Record
Unstarted == {"open", "read", "begin", "script", "record", "commit", "start"}

\* A step that gives no session a run and finishes no record keeps Identified.
LEMMA IdentityFrame ==
  ASSUME Identified, UNCHANGED acked,
         \A q \in Sessions : /\ session'[q].run = session[q].run
                             /\ session'[q].results = session[q].results
                             /\ \/ session'[q].pc = session[q].pc
                                \/ session[q].pc \in Unstarted /\ session'[q].pc \in Unstarted
                                \/ session[q].pc \in {"test", "event", "done"} /\ session'[q].pc \in {"event", "done"}
                                \/ session'[q].pc = "dead"
  PROVE  Identified'
BY DEF Identified, Unstarted

\* Every run has one session, and a session one run.
LEMMA IdentifiedStep ==
  ASSUME TypeOK, Identified, [RepositoryNext]_repoVars PROVE Identified'
<1>1. ASSUME NEW p \in Sessions, Initialise(p) PROVE Identified'
  <2>1. UNCHANGED acked /\ session[p].pc \in Unstarted
    BY <1>1 DEF Initialise, CreateVersionTable, ReadVersion, BeginMigration, RunScript, RecordVersion,
       CommitMigration, VersionTaken, InitialiseFails, Fault, At, Unstarted
  <2>2. CASE CreateVersionTable(p) \/ BeginMigration(p) \/ RunScript(p) \/ RecordVersion(p)
    <3>1. Goto(p, "read") \/ Goto(p, "script") \/ Goto(p, "record") \/ Goto(p, "commit")
      BY <2>2 DEF CreateVersionTable, BeginMigration, RunScript, RecordVersion
    <3>2. session'[p].pc \in Unstarted /\ \A q \in Sessions : q # p => session'[q] = session[q]
      BY <3>1, GotoDoes DEF Stages, Unstarted
    <3>3. \A q \in Sessions : session'[q].run = session[q].run /\ session'[q].results = session[q].results
      BY <3>1, GotoDoes DEF Stages
    <3> QED BY <2>1, <3>2, <3>3, IdentityFrame
  <2>3. CASE ReadVersion(p) \/ CommitMigration(p) \/ VersionTaken(p) \/ InitialiseFails(p)
    <3>1. \E has \in BOOLEAN : Settles(p, "begin", has) \/ Settles(p, "start", has)
      BY <2>3, ReadVersionDoes DEF CommitMigration, VersionTaken, InitialiseFails, GiveUp, Settles
    <3>2. session'[p].pc \in Unstarted /\ \A q \in Sessions : q # p => session'[q] = session[q]
      BY <3>1, SettleDoes DEF Stages, Unstarted
    <3>3. \A q \in Sessions : session'[q].run = session[q].run /\ session'[q].results = session[q].results
      BY <3>1, SettleDoes DEF Stages
    <3> QED BY <2>1, <3>2, <3>3, IdentityFrame
  <2> QED BY <1>1, <2>2, <2>3 DEF Initialise
<1>2. ASSUME NEW p \in Sessions, NEW run \in RunIds, BeginRun(p, run) PROVE Identified'
  <2>1. /\ Starts(p, run) /\ run \notin UsedIds
        /\ UNCHANGED acked \/ Ack("begin", run, {})
    BY <1>2 DEF BeginRun, Starts, Fault
  <2>2. /\ session'[p].pc = "test" /\ session'[p].run = run
        /\ \A q \in Sessions : q # p => session'[q] = session[q]
        /\ \A q \in Sessions : session'[q].results = session[q].results
    BY <2>1, StartDoes
  <2>3. /\ \A q \in Sessions : session[q].run # run
        /\ \A a \in acked : a.run # run
    BY <2>1 DEF UsedIds
  <2>4. \A a \in acked' : a.what = "complete" => a \in acked  BY <2>1 DEF Ack
  <2>5. run # None  BY RepositoryAssumption DEF RunIds
  <2> QED BY <2>2, <2>3, <2>4, <2>5 DEF Identified
<1>3. ASSUME NEW p \in Sessions, NEW t \in Tests, NEW s \in Outcomes, NEW final \in BOOLEAN,
             SaveResult(p, t, s, final)
      PROVE  Identified'
  <2>1. session[p].run \in RunIds /\ session[p].run # None
    BY <1>3, RepositoryAssumption DEF SaveResult, At, Identified, RunIds
  <2>2. /\ \A q \in Sessions : q # p => session'[q] = session[q]
        /\ \A q \in Sessions : session'[q].run = session[q].run /\ session'[q].pc = session[q].pc
    BY <1>3, <2>1, SaveDoes
  <2>3. \A a \in acked' : a.what = "complete" => a \in acked
    BY <1>3 DEF SaveResult, Fault, Ack
  <2> QED BY <2>1, <2>2, <2>3 DEF Identified
<1>4. ASSUME NEW p \in Sessions, CompleteRun(p) PROVE Identified'
  <2>1. /\ Goto(p, "event") /\ session[p].run \in RunIds /\ session[p].run # None
        /\ UNCHANGED acked \/ Ack("complete", session[p].run, session[p].results)
    BY <1>4, RepositoryAssumption DEF CompleteRun, Fault, At, Identified, RunIds
  <2>2. /\ session'[p].pc = "event" /\ \A q \in Sessions : q # p => session'[q] = session[q]
        /\ \A q \in Sessions : session'[q].run = session[q].run /\ session'[q].results = session[q].results
    BY <2>1, GotoDoes DEF Stages
  <2>3. \A a \in acked' : a \in acked \/ a.run = session[p].run  BY <2>1 DEF Ack
  <2> QED BY <2>1, <2>2, <2>3 DEF Identified
<1>5. ASSUME NEW p \in Sessions, RecordEvent(p) \/ Crash(p) PROVE Identified'
  <2>1. UNCHANGED acked /\ (Goto(p, "dead") \/ (session[p].pc = "event" /\ Goto(p, "done")))
    BY <1>5 DEF RecordEvent, Crash, Fault, At
  <2>2. /\ \/ session'[p].pc = "dead"
           \/ session[p].pc \in {"test", "event", "done"} /\ session'[p].pc = "done"
        /\ \A q \in Sessions : q # p => session'[q] = session[q]
        /\ \A q \in Sessions : session'[q].run = session[q].run /\ session'[q].results = session[q].results
    BY <2>1, GotoDoes DEF Stages
  <2> QED BY <2>1, <2>2, IdentityFrame
<1>6. CASE Prune \/ Load \/ UNCHANGED repoVars
  <2>1. UNCHANGED <<session, acked>>
    BY <1>6 DEF Prune, PruneDelete, PruneCommit, PruneVacuum, PruneFails, PruneRest,
       Load, LoadRow, LoadRunResults, ReadRest, repoVars
  <2> QED BY <2>1, IdentityFrame
<1> QED BY <1>1, <1>2, <1>3, <1>4, <1>5, <1>6 DEF RepositoryNext, Record

-----------------------------------------------------------------------------
(* The contents.                                                           *)

\* A finished row has been acknowledged as finished.
FinishedIsAcked ==
  \A run \in DOMAIN file.runs : file.runs[run].completed => Acked("complete", run) # {}

\* A run is finished with a result of every test, and as long as no statement has
\* failed those results were saved, unless the run has been pruned.
FinishedIsSaved ==
  \A a \in acked : a.what = "complete" =>
    /\ {r.test : r \in a.rows} = Tests
    /\ faults = 0 /\ a.run \notin pruned => a.rows \subseteq Executed(a.run)

\* The same of a run in progress that has a repository.
RunIsSaved(p) ==
  session[p].repository /\ session[p].run # None /\ faults = 0 =>
    /\ Acked("begin", session[p].run) # {}
    /\ session[p].run \notin pruned => session[p].results \subseteq Executed(session[p].run)

\* What the row told a reader was acknowledged.
ReaderInformed ==
  reader.pc = "results" =>
    /\ reader.run \in RunIds
    /\ Acked("begin", reader.run) # {}
    /\ reader.completed => Acked("complete", reader.run) # {}

Accounted ==
  FinishedIsAcked /\ FinishedIsSaved /\ (\A p \in Sessions : RunIsSaved(p)) /\ ReaderInformed

RepositoryInv ==
  /\ TypeOK /\ Identified /\ Transactions
  /\ FileIsWhole /\ AcknowledgedSurvives /\ Accounted
Contents == FileIsWhole /\ AcknowledgedSurvives /\ Accounted

\* Acknowledging a write says nothing about other runs or other kinds of write.
LEMMA AckDoes ==
  ASSUME NEW what, NEW run, NEW rows, Ack(what, run, rows)
  PROVE  /\ \A w, r : <<w, r>> # <<what, run>> => Acked(w, r)' = Acked(w, r)
         /\ Acked(what, run)' = Acked(what, run) \cup {[what |-> what, run |-> run, rows |-> rows]}
<1> DEFINE new == [what |-> what, run |-> run, rows |-> rows]
<1>1. acked' = acked \cup {new}  BY DEF Ack
<1>2. new.what = what /\ new.run = run  OBVIOUS
<1> HIDE DEF new
<1> QED BY <1>1, <1>2 DEF Acked, new

\* Without an acknowledgement nothing changes there.
LEMMA NoAck ==
  ASSUME UNCHANGED acked
  PROVE  /\ \A w, r : Acked(w, r)' = Acked(w, r)
         /\ \A r : Executed(r)' = Executed(r)
BY DEF Acked, Executed

\* A step that writes no run and no result, or none that is committed.
LEMMA ContentsFrame ==
  ASSUME Contents, UNCHANGED <<acked, pruned>>,
         file'.runs = file.runs, file'.results = file.results,
         file'.events \subseteq DOMAIN file.runs,
         file'.tables <=> SchemaVersion \in file'.versions, file.tables => file'.tables,
         reader' = reader \/ reader'.pc = "idle", faults' = 0 => faults = 0,
         \A q \in Sessions : /\ session'[q].run = session[q].run
                             /\ session'[q].results = session[q].results
                             /\ session'[q].repository => file'.tables
                             /\ session[q].run # None =>
                                  session'[q].repository = session[q].repository
  PROVE  Contents'
<1>1. FileIsWhole'
  BY NoAck DEF Contents, FileIsWhole, NoTraceWithoutBegin, MigratedAtomically
<1>2. AcknowledgedSurvives'
  BY NoAck DEF Contents, AcknowledgedSurvives, LoadResults
<1>3. Accounted'
  <2>1. FinishedIsAcked'  BY NoAck DEF Contents, Accounted, FinishedIsAcked
  <2>2. FinishedIsSaved'  BY NoAck DEF Contents, Accounted, FinishedIsSaved
  <2>3. ASSUME NEW q \in Sessions PROVE RunIsSaved(q)'
    <3>1. RunIsSaved(q)  BY DEF Contents, Accounted
    <3> QED BY <3>1, NoAck DEF RunIsSaved, Acked, Executed
  <2>4. ReaderInformed'
    BY DEF Contents, Accounted, ReaderInformed, Acked
  <2> QED BY <2>1, <2>2, <2>3, <2>4 DEF Accounted
<1> QED BY <1>1, <1>2, <1>3 DEF Contents

\* The results executed for a run are those of its acknowledged saves.
LEMMA ExecutedDoes ==
  ASSUME NEW what, NEW run, NEW rows, Ack(what, run, rows)
  PROVE  /\ \A r : what # "save" \/ r # run => Executed(r)' = Executed(r)
         /\ what = "save" => Executed(run)' = Executed(run) \cup rows
<1>1. /\ \A r : <<"save", r>> # <<what, run>> => Acked("save", r)' = Acked("save", r)
      /\ Acked(what, run)' = Acked(what, run) \cup {[what |-> what, run |-> run, rows |-> rows]}
  BY AckDoes
<1>2. ASSUME NEW r, what # "save" \/ r # run PROVE Executed(r)' = Executed(r)
  BY <1>1, <1>2 DEF Executed
<1>3. ASSUME what = "save" PROVE Executed(run)' = Executed(run) \cup rows
  <2> DEFINE new == [what |-> what, run |-> run, rows |-> rows]
  <2>1. Acked("save", run)' = Acked("save", run) \cup {new} /\ new.rows = rows  BY <1>1, <1>3
  <2> HIDE DEF new
  <2> QED BY <2>1 DEF Executed
<1> QED BY <1>2, <1>3

\* beginRun() that writes the row: a fresh run, with nothing saved for it.
LEMMA BeginContents ==
  ASSUME RepositoryInv, NEW p \in Sessions, NEW run \in RunIds, Starts(p, run),
         run \notin UsedIds, file' = ReplaceRun(file, run), Ack("begin", run, {}),
         UNCHANGED <<faults, reader, pruned>>, session[p].results = {}
  PROVE  Contents'
<1>1. /\ \A q \in Sessions : session[q].run # run
      /\ run \notin DOMAIN file.runs /\ run \notin pruned
      /\ \A a \in acked : a.run # run
  BY DEF UsedIds
<1>2. /\ DOMAIN file'.runs = DOMAIN file.runs \cup {run}
      /\ \A r \in DOMAIN file.runs : r # run => file'.runs[r] = file.runs[r]
      /\ ~file'.runs[run].completed
      /\ file'.results = {r \in file.results : r.run # run}
      /\ file'.events = {e \in file.events : e # run}
      /\ file'.versions = file.versions /\ file'.tables = file.tables
  BY ReplaceRunDoes DEF RepositoryInv, TypeOK
<1>3. /\ \A r \in file.results : r.run \in DOMAIN file.runs
      /\ file.events \subseteq DOMAIN file.runs
      /\ \A r \in RunIds : r \in DOMAIN file.runs => Acked("begin", r) # {} /\ r \notin pruned
      /\ file.tables <=> SchemaVersion \in file.versions
      /\ \A q \in Sessions : session[q].repository => file.tables
  BY DEF RepositoryInv, FileIsWhole, NoTraceWithoutBegin, MigratedAtomically
<1>4. file'.results = file.results /\ file'.events = file.events  BY <1>1, <1>2, <1>3
<1>5. /\ \A w, r : r # run => Acked(w, r)' = Acked(w, r)
      /\ Acked("begin", run)' # {} /\ Acked("complete", run)' = {} /\ Acked("save", run)' = {}
  <2>1. \A w : Acked(w, run) = {}  BY <1>1 DEF Acked
  <2>2. /\ \A w, r : <<w, r>> # <<"begin", run>> => Acked(w, r)' = Acked(w, r)
        /\ Acked("begin", run)' = Acked("begin", run)
                                    \cup {[what |-> "begin", run |-> run, rows |-> {}]}
    BY AckDoes
  <2>3. \A w, r : r # run \/ w # "begin" => Acked(w, r)' = Acked(w, r)  BY <2>2
  <2> QED BY <2>1, <2>2, <2>3
<1>6. /\ \A r : r # run => Executed(r)' = Executed(r)
      /\ Executed(run)' = {}
  BY <1>5 DEF Executed
<1>7. /\ session'[p].run = run /\ \A q \in Sessions : q # p => session'[q] = session[q]
      /\ \A q \in Sessions : /\ session'[q].repository = session[q].repository
                             /\ session'[q].results = session[q].results
  BY StartDoes DEF RepositoryInv
<1>8. FileIsWhole'
  BY <1>1, <1>2, <1>3, <1>4, <1>5, <1>7 DEF FileIsWhole, NoTraceWithoutBegin, MigratedAtomically
<1>9. AcknowledgedSurvives'
  <2>1. ASSUME NEW r \in RunIds, r \notin pruned, r # run, Acked("begin", r)' # {}
        PROVE  /\ r \in DOMAIN file'.runs /\ Executed(r)' = LoadResults(file', r)
               /\ \A a \in Acked("complete", r)' : /\ file'.runs[r].completed
                                                   /\ file'.runs[r].total = Cardinality(a.rows)
    <3>1. Acked("begin", r) # {}  BY <1>5, <2>1
    <3>2. /\ r \in DOMAIN file.runs /\ Executed(r) = LoadResults(file, r)
          /\ \A a \in Acked("complete", r) : /\ file.runs[r].completed
                                             /\ file.runs[r].total = Cardinality(a.rows)
      BY <2>1, <3>1 DEF RepositoryInv, AcknowledgedSurvives
    <3> QED BY <1>2, <1>4, <1>5, <1>6, <2>1, <3>2 DEF LoadResults
  <2>2. run \in DOMAIN file'.runs /\ Executed(run)' = LoadResults(file', run)
    BY <1>1, <1>2, <1>3, <1>4, <1>6 DEF LoadResults
  <2> QED BY <1>5, <2>1, <2>2 DEF AcknowledgedSurvives
<1>10. Accounted'
  <2>0. FinishedIsAcked /\ FinishedIsSaved /\ (\A q \in Sessions : RunIsSaved(q)) /\ ReaderInformed
    BY DEF RepositoryInv, Accounted
  <2>1. FinishedIsAcked'  BY <1>1, <1>2, <1>5, <2>0 DEF FinishedIsAcked
  <2>2. FinishedIsSaved'
    <3>1. \A a \in acked' : a.what = "complete" => a \in acked  BY DEF Ack
    <3> QED BY <1>1, <1>6, <2>0, <3>1 DEF FinishedIsSaved
  <2>3. ASSUME NEW q \in Sessions PROVE RunIsSaved(q)'
    <3>1. CASE q = p  BY <1>5, <1>7, <3>1 DEF RunIsSaved
    <3>2. CASE q # p
      <4>1. session'[q] = session[q] /\ session[q].run # run /\ RunIsSaved(q)  BY <1>1, <1>7, <2>0, <3>2
      <4> QED BY <1>5, <1>6, <4>1 DEF RunIsSaved
    <3> QED BY <3>1, <3>2
  <2>4. ReaderInformed'
    <3>1. \A w, r : Acked(w, r) \subseteq Acked(w, r)'  BY DEF Ack, Acked
    <3> QED BY <2>0, <3>1 DEF ReaderInformed
  <2> QED BY <2>1, <2>2, <2>3, <2>4 DEF Accounted
<1> QED BY <1>8, <1>9, <1>10 DEF Contents

\* saveResult() that writes the row: what was executed and what is stored grow alike.
LEMMA SaveContents ==
  ASSUME RepositoryInv, NEW p \in Sessions, NEW row \in Rows, row.run = session[p].run,
         row.run \in DOMAIN file.runs, file' = InsertResult(file, row),
         Ack("save", row.run, {row}), UNCHANGED <<faults, reader, pruned>>,
         session'[p].results \subseteq session[p].results \cup {row},
         \A q \in Sessions : q # p => session'[q] = session[q],
         \A q \in Sessions : /\ session'[q].run = session[q].run
                             /\ session'[q].repository = session[q].repository
  PROVE  Contents'
<1>1. row.run \in RunIds /\ row.run # None  BY RepositoryAssumption DEF Rows, RunIds
<1>2. /\ file'.results = file.results \cup {row} /\ file'.runs = file.runs
      /\ file'.events = file.events /\ file'.versions = file.versions /\ file'.tables = file.tables
  BY InsertResultDoes DEF RepositoryInv, TypeOK
<1>3. \A w, r : w # "save" => Acked(w, r)' = Acked(w, r)  BY AckDoes
<1>4. /\ \A r : r # row.run => Executed(r)' = Executed(r)
      /\ Executed(row.run)' = Executed(row.run) \cup {row}
  BY ExecutedDoes
<1>5. FileIsWhole'
  BY <1>2, <1>3 DEF RepositoryInv, FileIsWhole, NoTraceWithoutBegin, MigratedAtomically
<1>6. AcknowledgedSurvives'
  <2>1. ASSUME NEW r \in RunIds, r \notin pruned, Acked("begin", r)' # {}
        PROVE  /\ r \in DOMAIN file'.runs /\ Executed(r)' = LoadResults(file', r)
               /\ \A a \in Acked("complete", r)' : /\ file'.runs[r].completed
                                                   /\ file'.runs[r].total = Cardinality(a.rows)
    <3>1. Acked("begin", r) # {}  BY <1>3, <2>1
    <3>2. /\ r \in DOMAIN file.runs /\ Executed(r) = LoadResults(file, r)
          /\ \A a \in Acked("complete", r) : /\ file.runs[r].completed
                                             /\ file.runs[r].total = Cardinality(a.rows)
      BY <2>1, <3>1 DEF RepositoryInv, AcknowledgedSurvives
    <3>3. Executed(r)' = LoadResults(file', r)  BY <1>2, <1>4, <3>2 DEF LoadResults
    <3> QED BY <1>2, <1>3, <3>2, <3>3
  <2> QED BY <2>1 DEF AcknowledgedSurvives
<1>7. Accounted'
  <2>0. FinishedIsAcked /\ FinishedIsSaved /\ (\A q \in Sessions : RunIsSaved(q)) /\ ReaderInformed
    BY DEF RepositoryInv, Accounted
  <2>1. FinishedIsAcked'  BY <1>2, <1>3, <2>0 DEF FinishedIsAcked
  <2>2. FinishedIsSaved'
    <3>1. \A a \in acked' : a.what = "complete" => a \in acked  BY DEF Ack
    <3> QED BY <1>4, <2>0, <3>1 DEF FinishedIsSaved
  <2>3. ASSUME NEW q \in Sessions PROVE RunIsSaved(q)'
    <3>1. CASE q = p
      <4>1. RunIsSaved(p)  BY <2>0
      <4> QED BY <1>3, <1>4, <3>1, <4>1 DEF RunIsSaved
    <3>2. CASE q # p
      <4>1. session'[q] = session[q] /\ RunIsSaved(q)  BY <2>0, <3>2
      <4> QED BY <1>3, <1>4, <4>1 DEF RunIsSaved
    <3> QED BY <3>1, <3>2
  <2>4. ReaderInformed'  BY <1>3, <2>0 DEF ReaderInformed
  <2> QED BY <2>1, <2>2, <2>3, <2>4 DEF Accounted
<1> QED BY <1>5, <1>6, <1>7 DEF Contents

\* completeRun() that reports success: the row of the run, if there is one, has the
\* totals of what the run returned, and it is the only record finished for it.
LEMMA CompleteContents ==
  ASSUME RepositoryInv, NEW p \in Sessions, session[p].pc = "test", session[p].repository,
         {r.test : r \in session[p].results} = Tests,
         file' = UpdateTotals(file, session[p].run, session[p].results),
         Ack("complete", session[p].run, session[p].results), UNCHANGED <<faults, reader, pruned>>,
         \A q \in Sessions : /\ session'[q].run = session[q].run
                             /\ session'[q].results = session[q].results
                             /\ session'[q].repository = session[q].repository
  PROVE  Contents'
<1>0. PICK run \in RunIds : run = session[p].run  BY DEF RepositoryInv, Identified
<1> DEFINE rows == session[p].results
<1>1. run # None /\ IsFiniteSet(rows)  BY RepositoryAssumption DEF RepositoryInv, TypeOK, RunIds
<1>2. /\ DOMAIN file'.runs = DOMAIN file.runs
      /\ \A r \in DOMAIN file.runs : r # run => file'.runs[r] = file.runs[r]
      /\ run \in DOMAIN file.runs => /\ file'.runs[run].completed
                                     /\ file'.runs[run].total = Cardinality(rows)
      /\ file'.results = file.results /\ file'.events = file.events
      /\ file'.versions = file.versions /\ file'.tables = file.tables
  <2>1. file \in Databases  BY DEF RepositoryInv, TypeOK
  <2>2. file' = UpdateTotals(file, run, rows)  BY <1>0
  <2> HIDE DEF rows
  <2> QED BY <1>1, <2>1, <2>2, UpdateTotalsDoes
<1>3. /\ \A w, r : w # "complete" \/ r # run => Acked(w, r)' = Acked(w, r)
      /\ Acked("complete", run)' = Acked("complete", run)
                                     \cup {[what |-> "complete", run |-> run, rows |-> rows]}
  <2>1. /\ \A w, r : <<w, r>> # <<"complete", run>> => Acked(w, r)' = Acked(w, r)
        /\ Acked("complete", run)' = Acked("complete", run)
                                       \cup {[what |-> "complete", run |-> run, rows |-> rows]}
    BY <1>0, AckDoes
  <2> QED BY <2>1
<1>4. Acked("complete", run) = {}  BY <1>0 DEF RepositoryInv, Identified, Acked
<1>5. \A r : Executed(r)' = Executed(r)  BY ExecutedDoes
<1>6. FileIsWhole'
  <2>1. \A r : Acked("begin", r)' = Acked("begin", r)  BY <1>3
  <2> QED BY <1>2, <2>1 DEF RepositoryInv, FileIsWhole, NoTraceWithoutBegin, MigratedAtomically
<1>7. AcknowledgedSurvives'
  <2>1. ASSUME NEW r \in RunIds, r \notin pruned, Acked("begin", r)' # {}
        PROVE  /\ r \in DOMAIN file'.runs /\ Executed(r)' = LoadResults(file', r)
               /\ \A a \in Acked("complete", r)' : /\ file'.runs[r].completed
                                                   /\ file'.runs[r].total = Cardinality(a.rows)
    <3>1. Acked("begin", r) # {}  BY <1>3, <2>1
    <3>2. /\ r \in DOMAIN file.runs /\ Executed(r) = LoadResults(file, r)
          /\ \A a \in Acked("complete", r) : /\ file.runs[r].completed
                                             /\ file.runs[r].total = Cardinality(a.rows)
      BY <2>1, <3>1 DEF RepositoryInv, AcknowledgedSurvives
    <3>3. Executed(r)' = LoadResults(file', r)  BY <1>2, <1>5, <3>2 DEF LoadResults
    <3>4. CASE r # run  BY <1>2, <1>3, <3>2, <3>3, <3>4
    <3>5. CASE r = run
      <4>1. \A a \in Acked("complete", r)' : a.rows = rows  BY <1>3, <1>4, <3>5
      <4> QED BY <1>2, <3>2, <3>3, <3>5, <4>1
    <3> QED BY <3>4, <3>5
  <2> QED BY <2>1 DEF AcknowledgedSurvives
<1>8. Accounted'
  <2>0. FinishedIsAcked /\ FinishedIsSaved /\ (\A q \in Sessions : RunIsSaved(q)) /\ ReaderInformed
    BY DEF RepositoryInv, Accounted
  <2>1. FinishedIsAcked'
    <3>1. ASSUME NEW r \in DOMAIN file'.runs, file'.runs[r].completed
          PROVE  Acked("complete", r)' # {}
      <4>1. CASE r = run  BY <1>3, <4>1
      <4>2. CASE r # run
        <5>1. r \in DOMAIN file.runs /\ file.runs[r].completed  BY <1>2, <3>1, <4>2
        <5>2. Acked("complete", r) # {}  BY <2>0, <5>1 DEF FinishedIsAcked
        <5> QED BY <1>3, <4>2, <5>2
      <4> QED BY <4>1, <4>2
    <3> QED BY <3>1 DEF FinishedIsAcked
  <2>2. FinishedIsSaved'
    <3>1. ASSUME NEW a \in acked', a.what = "complete"
          PROVE  /\ {r.test : r \in a.rows} = Tests
                 /\ faults = 0 /\ a.run \notin pruned => a.rows \subseteq Executed(a.run)
      <4>1. CASE a \in acked  BY <2>0, <3>1, <4>1 DEF FinishedIsSaved
      <4>2. CASE a \notin acked
        <5>1. a.run = run /\ a.rows = rows  BY <1>0, <4>2 DEF Ack
        <5>2. RunIsSaved(p)  BY <2>0
        <5> QED BY <1>0, <1>1, <5>1, <5>2 DEF RunIsSaved
      <4> QED BY <4>1, <4>2
    <3> QED BY <1>5, <3>1 DEF FinishedIsSaved
  <2>3. ASSUME NEW q \in Sessions PROVE RunIsSaved(q)'
    <3>1. RunIsSaved(q)  BY <2>0
    <3>2. \A r : Acked("begin", r)' = Acked("begin", r)  BY <1>3
    <3> QED BY <1>5, <3>1, <3>2 DEF RunIsSaved
  <2>4. ReaderInformed'
    <3>1. \A w, r : Acked(w, r) \subseteq Acked(w, r)'  BY DEF Ack, Acked
    <3> QED BY <2>0, <3>1 DEF ReaderInformed
  <2> QED BY <2>1, <2>2, <2>3, <2>4 DEF Accounted
<1> QED BY <1>6, <1>7, <1>8 DEF Contents

\* The commit of a prune: the runs it deletes go with their results and their events
\* and are remembered, the others are untouched.
LEMMA PruneContents ==
  ASSUME RepositoryInv, PruneCommit
  PROVE  Contents'
<1>1. /\ file' = view /\ pruned' = pruned \cup (DOMAIN file.runs \ DOMAIN view.runs)
      /\ UNCHANGED <<faults, session, reader, acked>> /\ pruner.pc = "commit"
  BY DEF PruneCommit, PruneRest
<1>2. PICK cutoff \in Nat : view = DeleteOlder(file, cutoff)
  BY <1>1 DEF RepositoryInv, Transactions
<1>3. /\ DOMAIN file'.runs \subseteq DOMAIN file.runs
      /\ \A r \in DOMAIN file'.runs : file'.runs[r] = file.runs[r]
      /\ file'.results = {r \in file.results : r.run \notin DOMAIN file.runs \ DOMAIN file'.runs}
      /\ file'.events = file.events \ (DOMAIN file.runs \ DOMAIN file'.runs)
      /\ file'.versions = file.versions /\ file'.tables = file.tables
  BY <1>1, <1>2, DeleteOlderDoes DEF RepositoryInv, TypeOK
<1>4. pruned' = pruned \cup (DOMAIN file.runs \ DOMAIN file'.runs)  BY <1>1
<1>5. /\ \A w, r : Acked(w, r)' = Acked(w, r)
      /\ \A r : Executed(r)' = Executed(r)
  BY <1>1, NoAck
<1>6. FileIsWhole'
  BY <1>1, <1>3, <1>4, <1>5 DEF RepositoryInv, FileIsWhole, NoTraceWithoutBegin, MigratedAtomically
<1>7. AcknowledgedSurvives'
  <2>1. ASSUME NEW r \in RunIds, r \notin pruned', Acked("begin", r)' # {}
        PROVE  /\ r \in DOMAIN file'.runs /\ Executed(r)' = LoadResults(file', r)
               /\ \A a \in Acked("complete", r)' : /\ file'.runs[r].completed
                                                   /\ file'.runs[r].total = Cardinality(a.rows)
    <3>1. Acked("begin", r) # {} /\ r \notin pruned  BY <1>4, <1>5, <2>1
    <3>2. /\ r \in DOMAIN file.runs /\ Executed(r) = LoadResults(file, r)
          /\ \A a \in Acked("complete", r) : /\ file.runs[r].completed
                                             /\ file.runs[r].total = Cardinality(a.rows)
      BY <2>1, <3>1 DEF RepositoryInv, AcknowledgedSurvives
    <3>3. r \in DOMAIN file'.runs  BY <1>4, <2>1, <3>2
    <3>4. Executed(r)' = LoadResults(file', r)  BY <1>3, <1>5, <3>2, <3>3 DEF LoadResults
    <3> QED BY <1>3, <1>5, <3>2, <3>3, <3>4
  <2> QED BY <2>1 DEF AcknowledgedSurvives
<1>8. Accounted'
  <2>0. FinishedIsAcked /\ FinishedIsSaved /\ (\A q \in Sessions : RunIsSaved(q)) /\ ReaderInformed
    BY DEF RepositoryInv, Accounted
  <2>1. FinishedIsAcked'  BY <1>3, <1>5, <2>0 DEF FinishedIsAcked
  <2>2. FinishedIsSaved'  BY <1>1, <1>5, <2>0 DEF FinishedIsSaved
  <2>3. ASSUME NEW q \in Sessions PROVE RunIsSaved(q)'
    <3>1. RunIsSaved(q)  BY <2>0
    <3> QED BY <1>1, <1>5, <3>1 DEF RunIsSaved
  <2>4. ReaderInformed'  BY <1>1, <1>5, <2>0 DEF ReaderInformed
  <2> QED BY <2>1, <2>2, <2>3, <2>4 DEF Accounted
<1> QED BY <1>6, <1>7, <1>8 DEF Contents

\* What a reader learns from a row has been acknowledged.
LEMMA LoadContents ==
  ASSUME RepositoryInv, NEW run \in RunIds, LoadRow(run)
  PROVE  Contents'
<1>1. /\ run \in DOMAIN file.runs
      /\ reader' = [pc |-> "results", run |-> run, completed |-> file.runs[run].completed]
      /\ UNCHANGED <<file, session, faults, acked, pruned>>
  BY DEF LoadRow, ReadRest
<1>2. FileIsWhole' /\ AcknowledgedSurvives'
  BY <1>1, NoAck DEF RepositoryInv, FileIsWhole, NoTraceWithoutBegin, MigratedAtomically,
     AcknowledgedSurvives
<1>3. /\ FinishedIsAcked' /\ FinishedIsSaved'
      /\ FinishedIsAcked
  BY <1>1, NoAck DEF RepositoryInv, Accounted, FinishedIsAcked, FinishedIsSaved
<1>4. ASSUME NEW q \in Sessions PROVE RunIsSaved(q)'
  <2>1. RunIsSaved(q)  BY DEF RepositoryInv, Accounted
  <2> QED BY <1>1, <2>1, NoAck DEF RunIsSaved
<1>5. ReaderInformed'
  <2>1. Acked("begin", run) # {}
    BY <1>1 DEF RepositoryInv, FileIsWhole, NoTraceWithoutBegin
  <2>2. file.runs[run].completed => Acked("complete", run) # {}  BY <1>1, <1>3 DEF FinishedIsAcked
  <2>3. /\ Acked("begin", run)' = Acked("begin", run)
        /\ Acked("complete", run)' = Acked("complete", run)
    BY <1>1, NoAck
  <2>4. reader'.run = run /\ reader'.completed = file.runs[run].completed  BY <1>1
  <2> QED BY <2>1, <2>2, <2>3, <2>4 DEF ReaderInformed, Acked
<1> QED BY <1>2, <1>3, <1>4, <1>5 DEF Contents, Accounted

\* A session that begins its run without a record of it.
LEMMA UnrecordedContents ==
  ASSUME RepositoryInv, NEW p \in Sessions, NEW run \in RunIds, Starts(p, run),
         UNCHANGED <<file, acked, reader, pruned>>,
         \/ ~session[p].repository /\ UNCHANGED faults
         \/ faults' = faults + 1
  PROVE  Contents'
<1>1. /\ session'[p].run = run /\ \A q \in Sessions : q # p => session'[q] = session[q]
      /\ \A q \in Sessions : /\ session'[q].repository = session[q].repository
                             /\ session'[q].results = session[q].results
  BY StartDoes DEF RepositoryInv
<1>2. faults' = 0 => faults = 0 /\ ~session[p].repository  BY DEF RepositoryInv, TypeOK
<1>3. FileIsWhole' /\ AcknowledgedSurvives'
  BY <1>1, NoAck DEF RepositoryInv, FileIsWhole, NoTraceWithoutBegin, MigratedAtomically,
     AcknowledgedSurvives
<1>4. FinishedIsAcked' /\ FinishedIsSaved' /\ ReaderInformed'
  BY <1>2, NoAck DEF RepositoryInv, Accounted, FinishedIsAcked, FinishedIsSaved, ReaderInformed,
     Acked
<1>5. ASSUME NEW q \in Sessions PROVE RunIsSaved(q)'
  <2>1. CASE q = p  BY <1>1, <1>2, <2>1 DEF RunIsSaved
  <2>2. CASE q # p
    <3>1. RunIsSaved(q) /\ session'[q] = session[q]  BY <1>1, <2>2 DEF RepositoryInv, Accounted
    <3> QED BY <1>2, <3>1, NoAck DEF RunIsSaved
  <2> QED BY <2>1, <2>2
<1> QED BY <1>3, <1>4, <1>5 DEF Contents, Accounted

\* An attempt that is not saved: there is no repository, the statement failed, or the
\* run was pruned and the foreign key refuses the row.
LEMMA UnsavedContents ==
  ASSUME RepositoryInv, NEW p \in Sessions,
         UNCHANGED <<file, acked, reader, pruned>>,
         \/ UNCHANGED faults /\ (~session[p].repository \/ session[p].run \notin DOMAIN file.runs)
         \/ faults' = faults + 1,
         session[p].run \in RunIds,
         \A q \in Sessions : q # p => session'[q] = session[q],
         \A q \in Sessions : /\ session'[q].run = session[q].run
                             /\ session'[q].repository = session[q].repository
  PROVE  Contents'
<1>1. faults' = 0 => /\ faults = 0
                     /\ ~session[p].repository \/ session[p].run \notin DOMAIN file.runs
  BY DEF RepositoryInv, TypeOK
<1>2. FileIsWhole' /\ AcknowledgedSurvives'
  BY NoAck DEF RepositoryInv, FileIsWhole, NoTraceWithoutBegin, MigratedAtomically,
     AcknowledgedSurvives
<1>3. FinishedIsAcked' /\ FinishedIsSaved' /\ ReaderInformed'
  BY <1>1, NoAck DEF RepositoryInv, Accounted, FinishedIsAcked, FinishedIsSaved, ReaderInformed,
     Acked
<1>4. ASSUME NEW q \in Sessions PROVE RunIsSaved(q)'
  <2>0. RunIsSaved(q)  BY DEF RepositoryInv, Accounted
  <2>1. CASE q = p
    <3>1. ASSUME faults' = 0, session[p].repository
          PROVE  Acked("begin", session[p].run) # {} /\ session[p].run \in pruned
      <4>1. session[p].run # None  BY RepositoryAssumption DEF RunIds
      <4>2. Acked("begin", session[p].run) # {}  BY <1>1, <2>0, <2>1, <3>1, <4>1 DEF RunIsSaved
      <4> QED BY <1>1, <3>1, <4>2 DEF RepositoryInv, AcknowledgedSurvives
    <3> QED BY <2>1, <3>1, NoAck DEF RunIsSaved
  <2>2. CASE q # p
    <3>1. session'[q] = session[q]  BY <2>2
    <3> QED BY <1>1, <2>0, <3>1, NoAck DEF RunIsSaved
  <2> QED BY <2>1, <2>2
<1> QED BY <1>2, <1>3, <1>4 DEF Contents, Accounted

\* Every step keeps the contents as they should be.
LEMMA ContentsStep ==
  ASSUME RepositoryInv, [RepositoryNext]_repoVars PROVE Contents'
<1>0. Contents /\ TypeOK  BY DEF RepositoryInv, Contents
<1>f. /\ file.events \subseteq DOMAIN file.runs /\ (file.tables <=> SchemaVersion \in file.versions)
      /\ \A q \in Sessions : session[q].repository => file.tables
  BY DEF RepositoryInv, FileIsWhole, NoTraceWithoutBegin, MigratedAtomically
<1>1. ASSUME NEW p \in Sessions, Initialise(p) PROVE Contents'
  <2>0. UNCHANGED <<acked, pruned, reader>> /\ faults' \in {faults, faults + 1}
    BY <1>1 DEF Initialise, CreateVersionTable, ReadVersion, BeginMigration, RunScript,
       RecordVersion, CommitMigration, VersionTaken, InitialiseFails, Autocommit, Fault, Rest
  <2>1. faults' = 0 => faults = 0  BY <1>0, <2>0 DEF TypeOK
  <2>2. session[p].run = None
    BY <1>1 DEF RepositoryInv, Identified, Initialise, CreateVersionTable, ReadVersion, BeginMigration,
       RunScript, RecordVersion, CommitMigration, VersionTaken, InitialiseFails, At
  <2>3. CASE CreateVersionTable(p) \/ BeginMigration(p) \/ RunScript(p) \/ RecordVersion(p)
    <3>1. /\ UNCHANGED file
          /\ Goto(p, "read") \/ Goto(p, "script") \/ Goto(p, "record") \/ Goto(p, "commit")
      BY <2>3 DEF CreateVersionTable, BeginMigration, RunScript, RecordVersion, Autocommit
    <3>2. \A q \in Sessions : /\ session'[q].run = session[q].run
                              /\ session'[q].results = session[q].results
                              /\ session'[q].repository = session[q].repository
      BY <1>0, <3>1, GotoDoes DEF Stages
    <3> QED BY <1>0, <1>f, <2>0, <2>1, <3>1, <3>2, ContentsFrame
  <2>4. CASE ReadVersion(p)
    <3>1. UNCHANGED file  BY <2>4 DEF ReadVersion
    <3>2. /\ session'[p].repository => SchemaVersion \in file.versions
          /\ \A q \in Sessions : q # p => session'[q] = session[q]
          /\ \A q \in Sessions : /\ session'[q].run = session[q].run
                                 /\ session'[q].results = session[q].results
      BY <1>0, <2>4, ReadVersionDoes, SettleDoes DEF Stages
    <3> QED BY <1>0, <1>f, <2>0, <2>1, <2>2, <3>1, <3>2, ContentsFrame
  <2>5. CASE CommitMigration(p)
    <3>1. Settles(p, "start", TRUE) /\ file' = view /\ session[p].pc = "commit"
      BY <2>5 DEF CommitMigration, Settles, At
    <3>2. /\ \A q \in Sessions : q # p => session'[q] = session[q]
          /\ \A q \in Sessions : /\ session'[q].run = session[q].run
                                 /\ session'[q].results = session[q].results
      BY <1>0, <3>1, SettleDoes DEF Stages
    <3>3. file' = [file EXCEPT !.tables = TRUE, !.versions = @ \cup {SchemaVersion}]
      BY <3>1 DEF RepositoryInv, Transactions
    <3>4. /\ file'.tables /\ SchemaVersion \in file'.versions /\ file'.runs = file.runs
          /\ file'.results = file.results /\ file'.events = file.events
      BY <1>0, <3>3 DEF TypeOK, Databases
    <3> QED BY <1>0, <1>f, <2>0, <2>1, <2>2, <3>2, <3>4, ContentsFrame
  <2>6. CASE VersionTaken(p) \/ InitialiseFails(p)
    <3>1. Settles(p, "start", FALSE) /\ UNCHANGED file
      BY <2>6 DEF VersionTaken, InitialiseFails, GiveUp, Fault, Settles
    <3>2. /\ ~session'[p].repository
          /\ \A q \in Sessions : q # p => session'[q] = session[q]
          /\ \A q \in Sessions : /\ session'[q].run = session[q].run
                                 /\ session'[q].results = session[q].results
      BY <1>0, <3>1, SettleDoes DEF Stages
    <3> QED BY <1>0, <1>f, <2>0, <2>1, <2>2, <3>1, <3>2, ContentsFrame
  <2> QED BY <1>1, <2>3, <2>4, <2>5, <2>6 DEF Initialise
<1>2. ASSUME NEW p \in Sessions, NEW run \in RunIds, BeginRun(p, run) PROVE Contents'
  <2>1. Starts(p, run) /\ run \notin UsedIds /\ UNCHANGED <<reader, pruned>>
    BY <1>2 DEF BeginRun, Starts, Rest
  <2>2. session[p].results = {}  BY <1>2 DEF BeginRun, At, RepositoryInv, Identified
  <2>3. CASE session[p].repository /\ Autocommit(ReplaceRun(file, run)) /\ Ack("begin", run, {})
    BY <2>1, <2>2, <2>3, BeginContents DEF Autocommit
  <2>4. CASE (session[p].repository /\ Fault) \/ (~session[p].repository /\ UNCHANGED <<file, faults, acked>>)
    BY <2>1, <2>4, UnrecordedContents DEF Fault
  <2> QED BY <1>2, <2>3, <2>4 DEF BeginRun
<1>3. ASSUME NEW p \in Sessions, NEW t \in Tests, NEW s \in Outcomes, NEW final \in BOOLEAN,
             SaveResult(p, t, s, final)
      PROVE  Contents'
  <2>1. session[p].run \in RunIds /\ UNCHANGED <<reader, pruned>>
    BY <1>3 DEF SaveResult, At, RepositoryInv, Identified, Rest
  <2>2. PICK row \in Rows : row = AttemptRow(p, t, s)  BY <1>0, <1>3, <2>1, SaveDoes
  <2>3. /\ session'[p].results \subseteq session[p].results \cup {row}
        /\ \A q \in Sessions : q # p => session'[q] = session[q]
        /\ \A q \in Sessions : /\ session'[q].run = session[q].run
                               /\ session'[q].repository = session[q].repository
    BY <1>0, <1>3, <2>1, <2>2, SaveDoes
  <2>4. row.run = session[p].run  BY <2>2 DEF AttemptRow
  <2>5. CASE row.run \in DOMAIN file.runs /\ Autocommit(InsertResult(file, row)) /\ Ack("save", row.run, {row})
    BY <2>1, <2>3, <2>4, <2>5, SaveContents DEF Autocommit
  <2>6. CASE \/ row.run \notin DOMAIN file.runs /\ Autocommit(file) /\ UNCHANGED acked
             \/ Fault
             \/ ~session[p].repository /\ UNCHANGED <<file, faults, acked>>
    BY <2>1, <2>3, <2>4, <2>6, UnsavedContents DEF Autocommit, Fault
  <2> QED BY <1>3, <2>2, <2>5, <2>6 DEF SaveResult, AttemptRow
<1>4. ASSUME NEW p \in Sessions, CompleteRun(p) PROVE Contents'
  <2>1. /\ session[p].pc = "test" /\ {r.test : r \in session[p].results} = Tests /\ Goto(p, "event")
        /\ UNCHANGED <<reader, pruned>>
    BY <1>4 DEF CompleteRun, At, Rest
  <2>2. \A q \in Sessions : /\ session'[q].run = session[q].run
                            /\ session'[q].results = session[q].results
                            /\ session'[q].repository = session[q].repository
    BY <1>0, <2>1, GotoDoes DEF Stages
  <2>3. CASE /\ session[p].repository
             /\ Autocommit(UpdateTotals(file, session[p].run, session[p].results))
             /\ Ack("complete", session[p].run, session[p].results)
    BY <2>1, <2>2, <2>3, CompleteContents DEF Autocommit
  <2>4. CASE UNCHANGED <<file, acked>> /\ faults' \in {faults, faults + 1}
    <3>1. faults' = 0 => faults = 0  BY <1>0, <2>4 DEF TypeOK
    <3> QED BY <1>0, <1>f, <2>1, <2>2, <2>4, <3>1, ContentsFrame
  <2> QED BY <1>4, <2>3, <2>4 DEF CompleteRun, Fault
<1>5. ASSUME NEW p \in Sessions, RecordEvent(p) \/ Crash(p) PROVE Contents'
  <2>1. /\ Goto(p, "done") \/ Goto(p, "dead")
        /\ UNCHANGED <<reader, pruned, acked>> /\ faults' \in {faults, faults + 1}
    BY <1>5 DEF RecordEvent, Crash, Rest, Autocommit, Fault
  <2>2. \A q \in Sessions : /\ session'[q].run = session[q].run
                            /\ session'[q].results = session[q].results
                            /\ session'[q].repository = session[q].repository
    BY <1>0, <2>1, GotoDoes DEF Stages
  <2>3. \/ UNCHANGED file
        \/ /\ session[p].pc = "event" /\ session[p].run \in DOMAIN file.runs
           /\ file' = InsertEvent(file, session[p].run)
    BY <1>5 DEF RecordEvent, Crash, Autocommit, Fault, At
  <2>4. /\ file'.runs = file.runs /\ file'.results = file.results
        /\ file'.events \subseteq DOMAIN file.runs
        /\ file'.tables = file.tables /\ file'.versions = file.versions
    <3>1. CASE UNCHANGED file  BY <1>f, <3>1
    <3>2. CASE /\ session[p].pc = "event" /\ session[p].run \in DOMAIN file.runs
               /\ file' = InsertEvent(file, session[p].run)
      <4>1. session[p].run \in RunIds /\ file \in Databases
        BY <1>0, <3>2 DEF RepositoryInv, Identified, TypeOK
      <4> QED BY <1>f, <3>2, <4>1, InsertEventDoes
    <3> QED BY <2>3, <3>1, <3>2
  <2>5. faults' = 0 => faults = 0  BY <1>0, <2>1 DEF TypeOK
  <2> QED BY <1>0, <1>f, <2>1, <2>2, <2>4, <2>5, ContentsFrame
<1>6. ASSUME Prune, ~PruneCommit PROVE Contents'
  <2>1. UNCHANGED <<file, session, reader, acked, pruned>> /\ faults' \in {faults, faults + 1}
    BY <1>6 DEF Prune, PruneDelete, PruneVacuum, PruneFails, PruneRest, Autocommit
  <2>2. faults' = 0 => faults = 0  BY <1>0, <2>1 DEF TypeOK
  <2> QED BY <1>0, <1>f, <2>1, <2>2, ContentsFrame
<1>7. CASE LoadRunResults \/ UNCHANGED repoVars
  <2>1. /\ UNCHANGED <<file, session, acked, pruned, faults>>
        /\ reader' = reader \/ reader'.pc = "idle"
    BY <1>7 DEF LoadRunResults, NotReading, ReadRest, repoVars
  <2> QED BY <1>0, <1>f, <2>1, ContentsFrame
<1> QED
  BY <1>1, <1>2, <1>3, <1>4, <1>5, <1>6, <1>7, PruneContents, LoadContents
  DEF RepositoryNext, Record, Prune, Load

-----------------------------------------------------------------------------
(* Sums over finite sets: induction by the least number not in a set, and  *)
(* the folds of the model as sums.                                         *)

\* Induction over the numbers as a fact about sets: of the numbers outside S
\* there would be a least one.
LEMMA SetInduction ==
  ASSUME NEW S, 0 \in S, \A n \in Nat : n \in S => n + 1 \in S
  PROVE  Nat \subseteq S
<1> SUFFICES ASSUME Nat \ S # {} PROVE FALSE
  OBVIOUS
<1>1. PICK n \in Nat \ S : \A m \in Nat \ S : ~(<<m, n>> \in OpToRel(<, Nat))
  BY NatLessThanWellFounded, WFMin, Zenon
<1>2. \A m \in Nat \ S : ~(m < n)  BY <1>1 DEF OpToRel
<1>3. n # 0 /\ n - 1 \in Nat  OBVIOUS
<1>4. n - 1 \in S  BY <1>2, <1>3
<1> QED BY <1>3, <1>4

\* F adds up h over any part of S, taking the members in the order pick gives.
AddsUp(F, S, h, pick) ==
  F = [s \in SUBSET S |-> IF s = {} THEN 0 ELSE F[s \ {pick[s]}] + h[pick[s]]]

\* pick names a member of every part of S that has one.
Picks(pick, S) == \A s \in SUBSET S : s # {} => pick[s] \in s

\* There is such a sum over every part of a finite set.
LEMMA SumExists ==
  ASSUME NEW S, IsFiniteSet(S), NEW h, NEW pick, Picks(pick, S)
  PROVE  \E F : AddsUp(F, S, h, pick)
<1> DEFINE Value(F, s) == IF s = {} THEN 0 ELSE F[s \ {pick[s]}] + h[pick[s]]
           UpTo(F, n) == DOMAIN F = SUBSET S /\ \A s \in SUBSET S : Cardinality(s) <= n => F[s] = Value(F, s)
           D == {n \in Nat : \E F : UpTo(F, n)}
<1>1. \A s \in SUBSET S : IsFiniteSet(s) /\ Cardinality(s) \in Nat
  BY FS_Subset, FS_CardinalityType
<1>2. \A s \in SUBSET S : s # {} => s \ {pick[s]} \in SUBSET S /\ Cardinality(s \ {pick[s]}) = Cardinality(s) - 1
  BY <1>1, FS_RemoveElement DEF Picks
<1>3. 0 \in D
  <2> DEFINE F == [s \in SUBSET S |-> 0]
  <2>1. \A s \in SUBSET S : Cardinality(s) <= 0 => s = {}  BY <1>1, FS_EmptySet
  <2>2. UpTo(F, 0)  BY <2>1
  <2> QED BY <2>2
<1>4. ASSUME NEW n \in Nat, n \in D PROVE n + 1 \in D
  <2>1. PICK F : UpTo(F, n)  BY <1>4
  <2> DEFINE G == [s \in SUBSET S |-> IF Cardinality(s) <= n THEN F[s] ELSE Value(F, s)]
  <2>2. ASSUME NEW s \in SUBSET S, Cardinality(s) <= n + 1 PROVE G[s] = Value(G, s)
    <3>1. G[s] = Value(F, s)  BY <2>1
    <3>2. CASE s = {}  BY <3>1, <3>2
    <3>3. CASE s # {}
      <4>1. s \ {pick[s]} \in SUBSET S /\ Cardinality(s \ {pick[s]}) <= n  BY <1>1, <1>2, <2>2, <3>3
      <4>2. G[s \ {pick[s]}] = F[s \ {pick[s]}]  BY <4>1
      <4> QED BY <3>1, <3>3, <4>2
    <3> QED BY <3>2, <3>3
  <2>3. DOMAIN G = SUBSET S  OBVIOUS
  <2> HIDE DEF G
  <2>4. UpTo(G, n + 1)  BY <2>2, <2>3
  <2> QED BY <2>4
<1> HIDE DEF D
<1>5. Cardinality(S) \in D  BY <1>1, <1>3, <1>4, SetInduction
<1>6. PICK F : UpTo(F, Cardinality(S))  BY <1>5 DEF D
<1>7. \A s \in SUBSET S : Cardinality(s) <= Cardinality(S)  BY FS_Subset
<1>8. \A s \in SUBSET S : F[s] = Value(F, s)  BY <1>6, <1>7
<1>9. PICK G : G = [s \in SUBSET S |-> Value(F, s)]  OBVIOUS
<1>10. \A s \in SUBSET S : G[s] = F[s]  BY <1>8, <1>9
<1>11. \A s \in SUBSET S : Value(G, s) = Value(F, s)  BY <1>2, <1>10
<1>12. G = [s \in SUBSET S |-> Value(G, s)]  BY <1>9, <1>11
<1> QED BY <1>12 DEF AddsUp


\* Sums of equal terms are equal, whatever the order.
LEMMA SumEqual ==
  ASSUME NEW S, IsFiniteSet(S), NEW h, NEW k, NEW pick, Picks(pick, S), NEW F, NEW G,
         AddsUp(F, S, h, pick), AddsUp(G, S, k, pick), \A x \in S : h[x] = k[x]
  PROVE  F[S] = G[S]
<1> DEFINE D == {n \in Nat : \A s \in SUBSET S : Cardinality(s) <= n => F[s] = G[s]}
<1>1. \A s \in SUBSET S : IsFiniteSet(s) /\ Cardinality(s) \in Nat
  BY FS_Subset, FS_CardinalityType
<1>2. \A s \in SUBSET S : s # {} => s \ {pick[s]} \in SUBSET S /\ Cardinality(s \ {pick[s]}) = Cardinality(s) - 1
  BY <1>1, FS_RemoveElement DEF Picks
<1>3. \A s \in SUBSET S : /\ F[s] = IF s = {} THEN 0 ELSE F[s \ {pick[s]}] + h[pick[s]]
                          /\ G[s] = IF s = {} THEN 0 ELSE G[s \ {pick[s]}] + k[pick[s]]
  BY DEF AddsUp
<1>4. 0 \in D
  <2>1. \A s \in SUBSET S : Cardinality(s) <= 0 => s = {}  BY <1>1, FS_EmptySet
  <2> QED BY <1>3, <2>1
<1>5. ASSUME NEW n \in Nat, n \in D PROVE n + 1 \in D
  <2>1. ASSUME NEW s \in SUBSET S, Cardinality(s) <= n + 1 PROVE F[s] = G[s]
    <3>1. CASE s = {}  BY <1>3, <3>1
    <3>2. CASE s # {}
      <4>1. s \ {pick[s]} \in SUBSET S /\ Cardinality(s \ {pick[s]}) <= n  BY <1>1, <1>2, <2>1, <3>2
      <4>2. F[s \ {pick[s]}] = G[s \ {pick[s]}]  BY <1>5, <4>1
      <4>3. h[pick[s]] = k[pick[s]]  BY <3>2 DEF Picks
      <4> QED BY <1>3, <3>2, <4>2, <4>3
    <3> QED BY <3>1, <3>2
  <2> QED BY <2>1
<1> HIDE DEF D
<1>6. Cardinality(S) \in D  BY <1>1, <1>4, <1>5, SetInduction
<1>7. Cardinality(S) <= Cardinality(S)  BY <1>1
<1> QED BY <1>6, <1>7 DEF D

\* How many members of R are of one of the classes.
CountIn(R, class, classes) == Cardinality({r \in R : class[r] \in classes})

\* h counts the members of R in each class.
Counts(h, S, R, class) == \A x \in S : h[x] = Cardinality({r \in R : class[r] = x})

\* The numbers of the rows of each class add up to the number of rows.
LEMMA SumOfClasses ==
  ASSUME NEW S, IsFiniteSet(S), NEW h, NEW pick, Picks(pick, S), NEW F, AddsUp(F, S, h, pick),
         NEW R, IsFiniteSet(R), NEW class,
         Counts(h, S, R, class)
  PROVE  F[S] = CountIn(R, class, S)
<1>0. \A x \in S : h[x] = Cardinality({r \in R : class[r] = x})  BY DEF Counts
<1> DEFINE Of(s) == {r \in R : class[r] \in s}
           D == {n \in Nat : \A s \in SUBSET S : Cardinality(s) <= n => F[s] = Cardinality(Of(s))}
<1>1. \A s \in SUBSET S : IsFiniteSet(s) /\ Cardinality(s) \in Nat
  BY FS_Subset, FS_CardinalityType
<1>2. \A s \in SUBSET S : s # {} => s \ {pick[s]} \in SUBSET S /\ Cardinality(s \ {pick[s]}) = Cardinality(s) - 1
  BY <1>1, FS_RemoveElement DEF Picks
<1>3. \A s \in SUBSET S : F[s] = IF s = {} THEN 0 ELSE F[s \ {pick[s]}] + h[pick[s]]
  BY DEF AddsUp
<1>4. F[{}] = Cardinality(Of({}))
  <2>1. Of({}) = {}  OBVIOUS
  <2> QED BY <1>3, <2>1, FS_EmptySet
<1>5. 0 \in D
  <2>1. \A s \in SUBSET S : Cardinality(s) <= 0 => s = {}  BY <1>1, FS_EmptySet
  <2> QED BY <1>4, <2>1
<1>6. ASSUME NEW n \in Nat, n \in D PROVE n + 1 \in D
  <2>1. ASSUME NEW s \in SUBSET S, Cardinality(s) <= n + 1 PROVE F[s] = Cardinality(Of(s))
    <3>1. CASE s = {}  BY <1>4, <3>1
    <3>2. CASE s # {}
      <4> DEFINE x == pick[s]
                 rest == s \ {x}
                 one == {r \in R : class[r] = x}
      <4>1. rest \in SUBSET S /\ Cardinality(rest) <= n  BY <1>1, <1>2, <2>1, <3>2
      <4>2. F[rest] = Cardinality(Of(rest))  BY <1>6, <4>1
      <4>3. x \in s /\ x \in S  BY <3>2 DEF Picks
      <4>4. F[s] = F[rest] + Cardinality(one)  BY <1>0, <1>3, <3>2, <4>3
      <4>5. Of(s) = Of(rest) \cup one /\ Of(rest) \cap one = {}  BY <4>3
      <4>6. IsFiniteSet(Of(rest)) /\ IsFiniteSet(one)  BY FS_Subset
      <4> HIDE DEF Of, rest, one, x
      <4>7. Cardinality(Of(s)) = Cardinality(Of(rest)) + Cardinality(one)
        <5>1. Cardinality(Of(rest) \cup one) =
                Cardinality(Of(rest)) + Cardinality(one) - Cardinality(Of(rest) \cap one)
          BY <4>6, FS_Union, Zenon
        <5>2. Cardinality(Of(rest)) \in Nat /\ Cardinality(one) \in Nat  BY <4>6, FS_CardinalityType
        <5>3. Cardinality(Of(rest) \cap one) = 0  BY <4>5, FS_EmptySet
        <5> QED BY <4>5, <5>1, <5>2, <5>3
      <4> QED BY <4>2, <4>4, <4>7
    <3> QED BY <3>1, <3>2
  <2> HIDE DEF Of
  <2> QED BY <2>1
<1> HIDE DEF D
<1>7. Cardinality(S) \in D  BY <1>1, <1>5, <1>6, SetInduction
<1>8. Cardinality(S) <= Cardinality(S)  BY <1>1
<1> QED BY <1>7, <1>8 DEF D, CountIn

\* FoldSet() takes the members of a set in the order of CHOOSE.
Chosen(S) == [s \in SUBSET S |-> CHOOSE x \in s : TRUE]

\* CHOOSE names a member.
LEMMA ChosenPicks == ASSUME NEW S PROVE Picks(Chosen(S), S)
BY DEF Picks, Chosen

\* There are five statuses.
LEMMA StatusesFinite == IsFiniteSet(Statuses)
<1>1. IsFiniteSet({"Passed"})  BY FS_Singleton
<1>2. IsFiniteSet({"Passed"} \cup {"Failed"})  BY <1>1, FS_AddElement
<1>3. IsFiniteSet(({"Passed"} \cup {"Failed"}) \cup {"Skipped"})  BY <1>2, FS_AddElement
<1>4. IsFiniteSet((({"Passed"} \cup {"Failed"}) \cup {"Skipped"}) \cup {"Error"})  BY <1>3, FS_AddElement
<1>5. IsFiniteSet(((({"Passed"} \cup {"Failed"}) \cup {"Skipped"}) \cup {"Error"}) \cup {"Timeout"})
  BY <1>4, FS_AddElement
<1>6. ((({"Passed"} \cup {"Failed"}) \cup {"Skipped"}) \cup {"Error"}) \cup {"Timeout"} = Statuses
  BY DEF Statuses
<1> QED BY <1>5, <1>6

\* SumOf() adds up the counts of the statuses.
LEMMA SumOfIs ==
  ASSUME NEW counts
  PROVE  \E F : AddsUp(F, Statuses, counts, Chosen(Statuses)) /\ SumOf(counts) = F[Statuses]
<1> DEFINE F == CHOOSE F : F = [s \in SUBSET Statuses |->
                  IF s = {} THEN 0 ELSE LET x == CHOOSE x \in s : TRUE IN F[s \ {x}] + counts[x]]
<1>1. SumOf(counts) = F[Statuses]  BY Zenon DEF SumOf, FoldSet, MapThenFoldSet
<1>2. PICK G : AddsUp(G, Statuses, counts, Chosen(Statuses))
  <2> QED BY StatusesFinite, ChosenPicks, SumExists
<1>3. G = [s \in SUBSET Statuses |->
             IF s = {} THEN 0 ELSE LET x == CHOOSE x \in s : TRUE IN G[s \ {x}] + counts[x]]
  BY <1>2 DEF AddsUp, Chosen
<1>4. F = [s \in SUBSET Statuses |->
             IF s = {} THEN 0 ELSE LET x == CHOOSE x \in s : TRUE IN F[s \ {x}] + counts[x]]
  BY <1>3, Zenon
<1> HIDE DEF F
<1>5. AddsUp(F, Statuses, counts, Chosen(Statuses))  BY <1>4 DEF AddsUp, Chosen
<1> QED BY <1>1, <1>5


\* The counts of some results add up to their number.
LEMMA StatisticsSum ==
  ASSUME NEW R, IsFiniteSet(R), \A r \in R : r.status \in Statuses
  PROVE  SumOf(Statistics(R)) = Cardinality(R)
<1> DEFINE counts == Statistics(R)
           class == [r \in R |-> r.status]
<1>1. PICK F : AddsUp(F, Statuses, counts, Chosen(Statuses)) /\ SumOf(counts) = F[Statuses]
  BY SumOfIs
<1>2. Counts(counts, Statuses, R, class)
  <2>1. \A s : {r \in R : class[r] = s} = {r \in R : r.status = s}  OBVIOUS
  <2> QED BY <2>1 DEF Statistics, Counts
<1>3. {r \in R : class[r] \in Statuses} = R  OBVIOUS
<1> HIDE DEF counts, class
<1>4. F[Statuses] = CountIn(R, class, Statuses)
  BY <1>1, <1>2, StatusesFinite, ChosenPicks, SumOfClasses, Zenon
<1> QED BY <1>1, <1>3, <1>4 DEF counts, CountIn

\* Counts of nothing.
LEMMA NoTotalsSum == SumOf(NoTotals) = 0
<1>1. NoTotals = Statistics({})
  <2>1. \A s : {r \in {} : r.status = s} = {}  OBVIOUS
  <2> QED BY <2>1, FS_EmptySet DEF NoTotals, Statistics
<1>2. IsFiniteSet({}) /\ Cardinality({}) = 0 /\ \A r \in {} : r.status \in Statuses  BY FS_EmptySet
<1>3. SumOf(Statistics({})) = Cardinality({})  BY <1>2, StatisticsSum
<1> QED BY <1>1, <1>2, <1>3

\* The sums that ViewsAgree compares, over the tests of a history, the rows of a
\* page and the counts of a listing.
RunsOf(history, tests) == FoldSet(LAMBDA t, n : n + history[t].totalRuns, 0, tests)

FailuresOf(history, tests) == FoldSet(LAMBDA t, n : n + history[t].failures, 0, tests)

TotalsOf(page) == FoldLeft(LAMBDA n, e : n + e.row.total, 0, page)

CountsOf(listing) == FoldLeft(LAMBDA n, e : n + SumOf(e.counts), 0, listing)

\* The runs of a history summed.
LEMMA FoldTotalRuns ==
  ASSUME NEW history, NEW tests, IsFiniteSet(tests), NEW h, \A t \in tests : h[t] = history[t].totalRuns
  PROVE  \E F : /\ AddsUp(F, tests, h, Chosen(tests))
                /\ RunsOf(history, tests) = F[tests]
<1> DEFINE F == CHOOSE F : F = [s \in SUBSET tests |->
                  IF s = {} THEN 0 ELSE LET x == CHOOSE x \in s : TRUE IN F[s \ {x}] + history[x].totalRuns]
<1>1. RunsOf(history, tests) = F[tests]
  BY Zenon DEF RunsOf, FailuresOf, FoldSet, MapThenFoldSet
<1>2. PICK G : AddsUp(G, tests, h, Chosen(tests))  BY ChosenPicks, SumExists
<1>a. \A s \in SUBSET tests : s # {} => (CHOOSE x \in s : TRUE) \in tests  OBVIOUS
<1>3. G = [s \in SUBSET tests |->
             IF s = {} THEN 0 ELSE LET x == CHOOSE x \in s : TRUE IN G[s \ {x}] + history[x].totalRuns]
  BY <1>2, <1>a DEF AddsUp, Chosen
<1>4. F = [s \in SUBSET tests |->
             IF s = {} THEN 0 ELSE LET x == CHOOSE x \in s : TRUE IN F[s \ {x}] + history[x].totalRuns]
  BY <1>3, Zenon
<1> HIDE DEF F
<1>5. AddsUp(F, tests, h, Chosen(tests))  BY <1>4, <1>a DEF AddsUp, Chosen
<1> QED BY <1>1, <1>5

\* The failures of a history summed.
LEMMA FoldFailures ==
  ASSUME NEW history, NEW tests, IsFiniteSet(tests), NEW h, \A t \in tests : h[t] = history[t].failures
  PROVE  \E F : /\ AddsUp(F, tests, h, Chosen(tests))
                /\ FailuresOf(history, tests) = F[tests]
<1> DEFINE F == CHOOSE F : F = [s \in SUBSET tests |->
                  IF s = {} THEN 0 ELSE LET x == CHOOSE x \in s : TRUE IN F[s \ {x}] + history[x].failures]
<1>1. FailuresOf(history, tests) = F[tests]
  BY Zenon DEF RunsOf, FailuresOf, FoldSet, MapThenFoldSet
<1>2. PICK G : AddsUp(G, tests, h, Chosen(tests))  BY ChosenPicks, SumExists
<1>a. \A s \in SUBSET tests : s # {} => (CHOOSE x \in s : TRUE) \in tests  OBVIOUS
<1>3. G = [s \in SUBSET tests |->
             IF s = {} THEN 0 ELSE LET x == CHOOSE x \in s : TRUE IN G[s \ {x}] + history[x].failures]
  BY <1>2, <1>a DEF AddsUp, Chosen
<1>4. F = [s \in SUBSET tests |->
             IF s = {} THEN 0 ELSE LET x == CHOOSE x \in s : TRUE IN F[s \ {x}] + history[x].failures]
  BY <1>3, Zenon
<1> HIDE DEF F
<1>5. AddsUp(F, tests, h, Chosen(tests))  BY <1>4, <1>a DEF AddsUp, Chosen
<1> QED BY <1>1, <1>5

\* FoldLeft() takes the last index of a sequence first.
Largest(S) == [s \in SUBSET S |-> Max(s)]

\* A set of indices has a largest one.
LEMMA LargestPicks == ASSUME NEW n \in Nat PROVE Picks(Largest(1..n), 1..n)
<1> SUFFICES ASSUME NEW s \in SUBSET (1..n), s # {} PROVE Max(s) \in s
  BY DEF Picks, Largest
<1> DEFINE Gaps == {k \in Nat : n - k \in s}
<1>1. Gaps # {}
  <2>1. PICK x \in s : TRUE  OBVIOUS
  <2>2. n - x \in Nat /\ n - (n - x) = x  BY <2>1
  <2> QED BY <2>1, <2>2
<1>2. PICK k \in Gaps : \A m \in Gaps : ~(<<m, k>> \in OpToRel(<, Nat))
  <2>1. Gaps \subseteq Nat  OBVIOUS
  <2> QED BY <1>1, <2>1, NatLessThanWellFounded, WFMin, Zenon
<1>3. \A m \in Gaps : ~(m < k)  BY <1>2 DEF OpToRel
<1>4. \A y \in s : n - k >= y
  <2> SUFFICES ASSUME NEW y \in s, ~(n - k >= y) PROVE FALSE  OBVIOUS
  <2>1. n - y \in Nat /\ n - (n - y) = y  OBVIOUS
  <2>2. n - y \in Gaps  BY <2>1
  <2>3. k \in Nat /\ y \in Int  OBVIOUS
  <2> QED BY <1>3, <2>2, <2>3
<1>5. \E x \in s : \A y \in s : x >= y  BY <1>4
<1> QED BY <1>5 DEF Max

\* The totals of a page summed.
LEMMA FoldTotals ==
  ASSUME NEW n \in Nat, NEW S, S = 1..n, NEW page, DOMAIN page = S, NEW h, \A i \in S : h[i] = page[i].row.total
  PROVE  \E F : /\ AddsUp(F, S, h, Largest(S))
                /\ TotalsOf(page) = F[S]
<1> DEFINE F == CHOOSE F : F = [s \in SUBSET (DOMAIN page) |->
                  IF s = {} THEN 0 ELSE LET x == Max(s) IN F[s \ {x}] + page[x].row.total]
<1>1. TotalsOf(page) = F[DOMAIN page]
  BY Zenon DEF TotalsOf, CountsOf, FoldLeft, MapThenFoldSet
<1>b. IsFiniteSet(1..n)  BY FS_Interval
<1>0. IsFiniteSet(S) /\ Picks(Largest(S), S)  BY <1>b, LargestPicks
<1>2. PICK G : AddsUp(G, S, h, Largest(S))  BY <1>0, SumExists
<1>a. \A s \in SUBSET (S) : s # {} => Max(s) \in S  BY <1>0 DEF Picks, Largest
<1>3. G = [s \in SUBSET (DOMAIN page) |->
             IF s = {} THEN 0 ELSE LET x == Max(s) IN G[s \ {x}] + page[x].row.total]
  BY <1>2, <1>a DEF AddsUp, Largest
<1>4. F = [s \in SUBSET (DOMAIN page) |->
             IF s = {} THEN 0 ELSE LET x == Max(s) IN F[s \ {x}] + page[x].row.total]
  BY <1>3, Zenon
<1> HIDE DEF F
<1>5. AddsUp(F, S, h, Largest(S))  BY <1>4, <1>a DEF AddsUp, Largest
<1> QED BY <1>1, <1>5

\* The counts of a listing summed.
LEMMA FoldCounts ==
  ASSUME NEW n \in Nat, NEW S, S = 1..n, NEW page, DOMAIN page = S, NEW h, \A i \in S : h[i] = SumOf(page[i].counts)
  PROVE  \E F : /\ AddsUp(F, S, h, Largest(S))
                /\ CountsOf(page) = F[S]
<1> DEFINE F == CHOOSE F : F = [s \in SUBSET (DOMAIN page) |->
                  IF s = {} THEN 0 ELSE LET x == Max(s) IN F[s \ {x}] + SumOf(page[x].counts)]
<1>1. CountsOf(page) = F[DOMAIN page]
  BY Zenon DEF TotalsOf, CountsOf, FoldLeft, MapThenFoldSet
<1>b. IsFiniteSet(1..n)  BY FS_Interval
<1>0. IsFiniteSet(S) /\ Picks(Largest(S), S)  BY <1>b, LargestPicks
<1>2. PICK G : AddsUp(G, S, h, Largest(S))  BY <1>0, SumExists
<1>a. \A s \in SUBSET (S) : s # {} => Max(s) \in S  BY <1>0 DEF Picks, Largest
<1>3. G = [s \in SUBSET (DOMAIN page) |->
             IF s = {} THEN 0 ELSE LET x == Max(s) IN G[s \ {x}] + SumOf(page[x].counts)]
  BY <1>2, <1>a DEF AddsUp, Largest
<1>4. F = [s \in SUBSET (DOMAIN page) |->
             IF s = {} THEN 0 ELSE LET x == Max(s) IN F[s \ {x}] + SumOf(page[x].counts)]
  BY <1>3, Zenon
<1> HIDE DEF F
<1>5. AddsUp(F, S, h, Largest(S))  BY <1>4, <1>a DEF AddsUp, Largest
<1> QED BY <1>1, <1>5

-----------------------------------------------------------------------------
(* The page of a query.                                                    *)

\* All runs of a database, as a page of them.
IsPage(page, db) ==
  /\ Len(page) = Cardinality(DOMAIN db.runs) /\ DOMAIN page = 1..Cardinality(DOMAIN db.runs)
  /\ \A i \in DOMAIN page : /\ page[i].run \in DOMAIN db.runs
                            /\ page[i].row = db.runs[page[i].run]

\* Runs are numbered in the order they start.
Started(db) == \A run \in DOMAIN db.runs : db.runs[run].started = run

\* There are as many rows as runs.
LEMMA RowsOfRuns ==
  ASSUME NEW db, DOMAIN db.runs \subseteq RunIds
  PROVE  /\ IsFiniteSet(DOMAIN db.runs) /\ IsFiniteSet(RunRows(db))
         /\ Cardinality(RunRows(db)) = Cardinality(DOMAIN db.runs)
         /\ Cardinality(DOMAIN db.runs) \in Nat /\ Cardinality(DOMAIN db.runs) <= Cardinality(RunIds)
         /\ Cardinality(RunIds) = MaxRuns
<1> DEFINE b == [r \in DOMAIN db.runs |-> [run |-> r, row |-> db.runs[r]]]
<1>1. IsFiniteSet(RunIds) /\ Cardinality(RunIds) = MaxRuns
  BY FS_Interval, RepositoryAssumption DEF RunIds
<1>2. IsFiniteSet(DOMAIN db.runs) /\ Cardinality(DOMAIN db.runs) <= Cardinality(RunIds)
  BY <1>1, FS_Subset
<1>3. b \in Bijection(DOMAIN db.runs, RunRows(db))
  <2>1. b \in [DOMAIN db.runs -> RunRows(db)]  BY DEF RunRows
  <2>2. \A x, y \in DOMAIN db.runs : b[x] = b[y] => x = y
    <3>1. \A x \in DOMAIN db.runs : b[x].run = x  OBVIOUS
    <3> QED BY <3>1
  <2>3. \A e \in RunRows(db) : \E x \in DOMAIN db.runs : b[x] = e  BY DEF RunRows
  <2> HIDE DEF b
  <2> QED BY <2>1, <2>2, <2>3 DEF Bijection, Injection, Surjection, IsInjective
<1> HIDE DEF b
<1>4. ExistsBijection(DOMAIN db.runs, RunRows(db))  BY <1>3 DEF ExistsBijection
<1> QED BY <1>1, <1>2, <1>4, FS_Bijection, FS_CardinalityType

\* The n-th newest row exists: no two rows have the same number of newer ones.
LEMMA PlaceTaken ==
  ASSUME NEW db, DOMAIN db.runs \subseteq RunIds, Started(db), NEW n, n = Cardinality(RunRows(db))
  PROVE  \A i \in 1..n : \E entry \in RunRows(db) :
           Cardinality({other \in RunRows(db) : other.row.started > entry.row.started}) = i - 1
<1> DEFINE rows == RunRows(db)
           Newer(e) == {other \in rows : other.row.started > e.row.started}
           rank == [e \in rows |-> Cardinality(Newer(e)) + 1]
<1>1. IsFiniteSet(rows) /\ n \in Nat  BY RowsOfRuns
<1>2. \A e \in rows : e.row.started = e.run /\ e.run \in Int /\ e = [run |-> e.run, row |-> db.runs[e.run]]
  BY DEF RunRows, Started, RunIds
<1>3. \A e \in rows : IsFiniteSet(Newer(e)) /\ Cardinality(Newer(e)) \in Nat
  BY <1>1, FS_Subset, FS_CardinalityType
<1>4. \A e \in rows : Cardinality(Newer(e)) <= n - 1
  <2> SUFFICES ASSUME NEW e \in rows PROVE Cardinality(Newer(e)) <= n - 1  OBVIOUS
  <2>1. e \notin Newer(e)  BY <1>2
  <2>2. Newer(e) \in SUBSET (rows \ {e})  BY <2>1
  <2>3. IsFiniteSet(rows \ {e}) /\ Cardinality(rows \ {e}) = n - 1  BY <1>1, FS_RemoveElement
  <2> HIDE DEF Newer
  <2> QED BY <2>2, <2>3, FS_Subset
<1>5. \A e, f \in rows : e.run < f.run => Cardinality(Newer(e)) > Cardinality(Newer(f))
  <2> SUFFICES ASSUME NEW e \in rows, NEW f \in rows, e.run < f.run
               PROVE  Cardinality(Newer(e)) > Cardinality(Newer(f))
    OBVIOUS
  <2>1. f \notin Newer(f) /\ Newer(f) \cup {f} \in SUBSET Newer(e)  BY <1>2
  <2>2. Cardinality(Newer(f) \cup {f}) = Cardinality(Newer(f)) + 1  BY <1>3, <2>1, FS_AddElement
  <2>3. Cardinality(Newer(f) \cup {f}) <= Cardinality(Newer(e))  BY <1>3, <2>1, FS_Subset
  <2> HIDE DEF Newer
  <2> QED BY <1>3, <2>2, <2>3
<1> HIDE DEF Newer
<1>6. rank \in [rows -> 1..n]
  <2>1. \A e \in rows : Cardinality(Newer(e)) + 1 \in 1..n  BY <1>1, <1>3, <1>4
  <2> QED BY <2>1
<1>7. \A e, f \in rows : rank[e] = rank[f] => e = f
  <2> SUFFICES ASSUME NEW e \in rows, NEW f \in rows, rank[e] = rank[f] PROVE e = f  OBVIOUS
  <2>1. Cardinality(Newer(e)) = Cardinality(Newer(f))  BY <1>3
  <2>2. ~(e.run < f.run) /\ ~(f.run < e.run)  BY <1>3, <1>5, <2>1
  <2>3. e.run = f.run  BY <1>2, <2>2
  <2> QED BY <1>2, <2>3
<1>8. \A e \in rows : rank[e] = Cardinality(Newer(e)) + 1  OBVIOUS
<1> HIDE DEF rank
<1>9. rank \in Injection(rows, 1..n)
  BY <1>6, <1>7 DEF Injection, IsInjective
<1>10. IsFiniteSet(1..n) /\ Cardinality(1..n) = n  BY <1>1, FS_Interval
<1>11. rank \in Surjection(rows, 1..n)
  <2> HIDE DEF rows
  <2> QED BY <1>9, <1>10, FS_Injection DEF rows
<1>12. \A i \in 1..n : \E e \in rows : rank[e] = i  BY <1>11 DEF Surjection
<1>13. \A i \in 1..n : \E e \in rows : Cardinality(Newer(e)) = i - 1
  <2> SUFFICES ASSUME NEW i \in 1..n PROVE \E e \in rows : Cardinality(Newer(e)) = i - 1  OBVIOUS
  <2>1. PICK e \in rows : rank[e] = i  BY <1>12
  <2>2. Cardinality(Newer(e)) = i - 1  BY <1>3, <1>8, <2>1
  <2> QED BY <2>2
<1> QED BY <1>13 DEF Newer

\* A listing that is long enough has every run once.
LEMMA NewestIs ==
  ASSUME NEW db, DOMAIN db.runs \subseteq RunIds, Started(db), NEW limit \in Nat,
         Cardinality(DOMAIN db.runs) <= limit
  PROVE  IsPage(Newest(db, limit, 0), db)
<1>1. PICK n \in Nat : n = Cardinality(RunRows(db)) /\ n = Cardinality(DOMAIN db.runs)  BY RowsOfRuns
<1> DEFINE sorted == [i \in 1 .. Cardinality(RunRows(db)) |->
                        CHOOSE entry \in RunRows(db) :
                          Cardinality({other \in RunRows(db) : other.row.started > entry.row.started}) = i - 1]
<1>2. Max({0, 0}) = 0
  <2>1. {0, 0} = {0}  OBVIOUS
  <2> QED BY <2>1 DEF Max
<1>3. Max({1, limit}) \in Nat /\ Max({1, limit}) >= n
  <2>1. CASE limit >= 1
    <3>1. limit \in {1, limit} /\ \A y \in {1, limit} : limit >= y  BY <2>1
    <3>2. Max({1, limit}) = limit  BY <3>1 DEF Max
    <3> QED BY <1>1, <3>2
  <2>2. CASE ~(limit >= 1)
    <3>1. \A y \in {1, limit} : 1 >= y  BY <2>2
    <3>2. Max({1, limit}) = 1  BY <3>1, <2>2 DEF Max
    <3> QED BY <1>1, <2>2, <3>2
  <2> QED BY <2>1, <2>2
<1>4. Newest(db, limit, 0) = SubSeq(sorted, Max({0, 0}) + 1, Min({Len(sorted), Max({0, 0}) + 1 + Max({1, limit}) - 1}))
  BY DEF Newest
<1> DEFINE place(i) == CHOOSE entry \in RunRows(db) :
                          Cardinality({other \in RunRows(db) : other.row.started > entry.row.started}) = i - 1
<1>5. \A i \in 1..n : place(i) \in RunRows(db)  BY <1>1, PlaceTaken
<1>d. sorted = [i \in 1..n |-> place(i)]  BY <1>1
<1> HIDE DEF sorted, place
<1>e. sorted \in [1..n -> RunRows(db)]  BY <1>5, <1>d
<1>6. DOMAIN sorted = 1..n /\ Len(sorted) = n /\ sorted \in Seq(RunRows(db))  BY <1>1, <1>e
<1>7. PICK m \in Nat : m = Max({1, limit}) /\ m >= n  BY <1>3
<1>8. Min({n, 0 + 1 + m - 1}) = n
  <2>1. 0 + 1 + m - 1 = m  OBVIOUS
  <2>2. \A y \in {n, m} : n =< y  BY <1>7
  <2> QED BY <1>7, <2>1, <2>2 DEF Min
<1>9. Newest(db, limit, 0) = SubSeq(sorted, 0 + 1, n)
  BY <1>2, <1>4, <1>6, <1>7, <1>8
<1>10. PICK page : page = Newest(db, limit, 0)  OBVIOUS
<1>11. Len(page) = n /\ DOMAIN page = 1..n /\ \A i \in 1..n : page[i] = sorted[i]
  BY <1>6, <1>9, <1>10
<1>12. \A e \in RunRows(db) : e.run \in DOMAIN db.runs /\ e.row = db.runs[e.run]  BY DEF RunRows
<1> QED BY <1>1, <1>e, <1>10, <1>11, <1>12 DEF IsPage

-----------------------------------------------------------------------------
(* The totals.                                                             *)

\* The rows of a run that a session knows: those it saved and those it returns.
Known(p) == Executed(session[p].run) \cup session[p].results

\* What belongs to one run has one row for each attempt, and a result that the
\* run returns is the last attempt at its test.
AttemptsTold(p) ==
  session[p].run # None =>
    /\ \A x \in Known(p) : x.attempt <= session[p].attempts[x.test]
    /\ \A x, y \in Known(p) : x.test = y.test /\ x.attempt = y.attempt => x = y
    /\ \A x \in session[p].results : x.attempt = session[p].attempts[x.test]

\* A finished record has the counts of what the run returned, which are the last
\* attempts of all that was saved for it.
FinalsTold(a) ==
  /\ a.run \in DOMAIN file.runs => file.runs[a.run].counts = Statistics(a.rows)
  /\ \A x \in a.rows, y \in Executed(a.run) :
       x.test = y.test => y.attempt <= x.attempt /\ (y.attempt = x.attempt => y = x)

\* The stored total of a run is the sum of its stored counts.
TotalsTold ==
  \A run \in DOMAIN file.runs : /\ file.runs[run].started = run
                                /\ file.runs[run].total = SumOf(file.runs[run].counts)

\* What the stored totals say of the stored results, at every step.
Tallied ==
  /\ IsFiniteSet(file.results) /\ TotalsTold
  /\ \A p \in Sessions : AttemptsTold(p)
  /\ \A a \in acked : a.what = "complete" => FinalsTold(a)

\* What listRuns() says of a run whose stored total is the sum of its counts.
LEMMA ListRunsIs ==
  ASSUME RepositoryInv, Tallied, NEW limit \in Nat, Cardinality(DOMAIN file.runs) <= limit,
         NEW page, page = Newest(file, limit, 0), IsPage(page, file)
  PROVE  /\ DOMAIN ListRuns(file, limit, 0) = DOMAIN page
         /\ \A i \in DOMAIN page : /\ ListRuns(file, limit, 0)[i].run = page[i].run
                                   /\ ListRuns(file, limit, 0)[i].counts = page[i].row.counts
<1>1. \A run \in DOMAIN file.runs : /\ file.runs[run].counts \in [Statuses -> Nat]
                                    /\ file.runs[run].total \in Nat
                                    /\ file.runs[run].total = SumOf(file.runs[run].counts)
  <2>1. DOMAIN file.runs \subseteq RunIds /\ file.runs \in [DOMAIN file.runs -> RunRow]
    BY HistoryOf DEF RepositoryInv, TypeOK, Databases
  <2> QED BY <2>1 DEF RunRow, Tallied, TotalsTold
<1>2. Max({0, 0}) = 0
  <2>1. {0, 0} = {0}  OBVIOUS
  <2> QED BY <2>1 DEF Max
<1> DEFINE Listed(entry) ==
        [run |-> entry.run,
         counts |-> [entry.row.counts EXCEPT
                       !["Error"] = @ + Max({0, entry.row.total - SumOf(entry.row.counts)})]]
<1>3. ListRuns(file, limit, 0) = [i \in DOMAIN page |-> Listed(page[i])]  BY DEF ListRuns
<1>4. ASSUME NEW i \in DOMAIN page PROVE Listed(page[i]).counts = page[i].row.counts
  <2>1. PICK run \in DOMAIN file.runs : page[i].run = run /\ page[i].row = file.runs[run]  BY DEF IsPage
  <2>2. PICK row : row = page[i].row  OBVIOUS
  <2>3. row.counts \in [Statuses -> Nat] /\ row.total - SumOf(row.counts) = 0  BY <1>1, <2>1, <2>2
  <2>4. [row.counts EXCEPT !["Error"] = @ + 0] = row.counts  BY <2>3 DEF Statuses
  <2>5. Listed(page[i]).counts = [row.counts EXCEPT !["Error"] = @ + Max({0, row.total - SumOf(row.counts)})]
    BY <2>2
  <2> QED BY <1>2, <2>2, <2>3, <2>4, <2>5
<1>5. \A i \in DOMAIN page : Listed(page[i]).run = page[i].run  OBVIOUS
<1> HIDE DEF Listed
<1> QED BY <1>3, <1>4, <1>5

\* The last attempts among what is stored for a finished run are its results.
LEMMA LastAttempts ==
  ASSUME RepositoryInv, Tallied, NEW run \in DOMAIN file.runs, NEW a \in Acked("complete", run),
         a.rows \subseteq Executed(run)
  PROVE  LET rows == LoadResults(file, run)
         IN  {r \in rows : \A q \in rows : q.test = r.test => q.attempt <= r.attempt} = a.rows
<1>1. DOMAIN file.runs \subseteq RunIds  BY HistoryOf DEF RepositoryInv, TypeOK, Databases
<1>2. run \notin pruned /\ Acked("begin", run) # {}
  BY <1>1 DEF RepositoryInv, FileIsWhole, NoTraceWithoutBegin
<1>3. LoadResults(file, run) = Executed(run)
  BY <1>1, <1>2 DEF RepositoryInv, AcknowledgedSurvives
<1>4. a \in acked /\ a.what = "complete" /\ a.run = run  BY DEF Acked
<1>5. FinalsTold(a) /\ {r.test : r \in a.rows} = Tests
  BY <1>4 DEF Tallied, RepositoryInv, Accounted, FinishedIsSaved
<1>6. \A x \in a.rows, y \in Executed(run) :
        x.test = y.test => y.attempt <= x.attempt /\ (y.attempt = x.attempt => y = x)
  BY <1>4, <1>5 DEF FinalsTold
<1>7. \A r \in Executed(run) : r.test \in Tests /\ r.attempt \in Nat
  BY <1>3 DEF RepositoryInv, TypeOK, Databases, Rows, LoadResults
<1>8. ASSUME NEW r \in Executed(run), \A q \in Executed(run) : q.test = r.test => q.attempt <= r.attempt
      PROVE  r \in a.rows
  <2>1. PICK x \in a.rows : x.test = r.test  BY <1>5, <1>7
  <2>2. x \in Executed(run)  OBVIOUS
  <2>3. r.attempt <= x.attempt /\ x.attempt <= r.attempt  BY <1>6, <1>8, <2>1, <2>2
  <2>4. r.attempt = x.attempt  BY <1>7, <2>2, <2>3
  <2> QED BY <1>6, <2>1, <2>4
<1>9. ASSUME NEW r \in a.rows
      PROVE  r \in Executed(run) /\ \A q \in Executed(run) : q.test = r.test => q.attempt <= r.attempt
  BY <1>6
<1> QED BY <1>3, <1>8, <1>9

\* The views compared, each on its own.
AgreeOn(listing, sums, history, storage) ==
  /\ \A i \in DOMAIN listing :
       \A a \in Acked("complete", listing[i].run) :
         a.rows \subseteq Executed(listing[i].run) =>
           listing[i].counts = Statistics({r \in LoadResults(file, listing[i].run) :
             \A q \in LoadResults(file, listing[i].run) : q.test = r.test => q.attempt <= r.attempt})
  /\ sums.runs = storage.runs
  /\ sums.total = CountsOf(listing)
  /\ RunsOf(history, DOMAIN history) = storage.results
  /\ FailuresOf(history, DOMAIN history) = sums.failures

\* The comparison is ViewsAgree.
LEMMA ViewsCompared ==
  ViewsAgree <=> AgreeOn(ListRuns(file, Cardinality(RunIds), 0),
                         AggregateStatistics(file, Cardinality(RunIds)),
                         HistorySummaries(file), StorageInfo(file))
BY Zenon DEF ViewsAgree, AgreeOn, CountsOf, RunsOf, FailuresOf

\* All views of a history whose totals are told tell the same.
LEMMA ViewsOfTallied == ASSUME RepositoryInv, Tallied PROVE ViewsAgree
<1>1. /\ DOMAIN file.runs \subseteq RunIds /\ file.results \subseteq Rows
      /\ IsFiniteSet(file.results) /\ Started(file)
  BY HistoryOf DEF RepositoryInv, TypeOK, Databases, Tallied, TotalsTold, Started
<1>2. PICK limit \in Nat : limit = Cardinality(RunIds) /\ Cardinality(DOMAIN file.runs) <= limit
  BY <1>1, RowsOfRuns, RepositoryAssumption
<1>3. PICK n \in Nat : n = Cardinality(DOMAIN file.runs)  BY <1>1, RowsOfRuns
<1>4. PICK most \in Nat : most = Max({1, limit}) /\ most >= limit
  <2>1. CASE limit >= 1
    <3>1. limit \in {1, limit} /\ \A y \in {1, limit} : limit >= y  BY <2>1
    <3>2. Max({1, limit}) = limit  BY <3>1 DEF Max
    <3> QED BY <3>2
  <2>2. CASE ~(limit >= 1)
    <3>1. \A y \in {1, limit} : 1 >= y  BY <2>2
    <3>2. Max({1, limit}) = 1  BY <3>1, <2>2 DEF Max
    <3> QED BY <2>2, <3>2
  <2> QED BY <2>1, <2>2
<1>5. PICK page : page = Newest(file, limit, 0)  OBVIOUS
<1>6. PICK longer : longer = Newest(file, most, 0)  OBVIOUS
<1>7. IsPage(page, file) /\ IsPage(longer, file)
  <2>1. Cardinality(DOMAIN file.runs) <= most  BY <1>2, <1>3, <1>4
  <2> QED BY <1>1, <1>2, <1>4, <1>5, <1>6, <2>1, NewestIs
<1>8. longer = page
  <2>1. Max({1, most}) = most /\ Max({1, limit}) = most
    <3>1. most >= 1 \/ limit = 0  BY <1>4
    <3>2. CASE limit = 0
      <4>1. \A y \in {1, limit} : 1 >= y  BY <3>2
      <4>2. most = 1  BY <1>4, <3>2, <4>1 DEF Max
      <4>3. {1, most} = {1}  BY <4>2
      <4> QED BY <1>4, <4>2, <4>3 DEF Max
    <3>3. CASE limit # 0
      <4>1. most >= 1  BY <1>4, <3>3
      <4>2. most \in {1, most} /\ \A y \in {1, most} : most >= y  BY <4>1
      <4>3. Max({1, most}) = most  BY <4>1, <4>2 DEF Max
      <4> QED BY <1>4, <4>3
    <3> QED BY <3>2, <3>3
  <2> QED BY <1>5, <1>6, <2>1, Zenon DEF Newest
<1>9. PICK listing : listing = ListRuns(file, limit, 0)  OBVIOUS
<1>10. /\ DOMAIN listing = 1..n /\ DOMAIN page = 1..n /\ Len(page) = n
       /\ \A i \in 1..n : /\ listing[i].run = page[i].run /\ listing[i].counts = page[i].row.counts
                          /\ page[i].run \in DOMAIN file.runs /\ page[i].row = file.runs[page[i].run]
  BY <1>2, <1>3, <1>5, <1>7, <1>9, ListRunsIs DEF IsPage
<1>11. \A i \in DOMAIN listing :
         \A a \in Acked("complete", listing[i].run) :
           a.rows \subseteq Executed(listing[i].run) =>
             listing[i].counts = Statistics({r \in LoadResults(file, listing[i].run) :
               \A q \in LoadResults(file, listing[i].run) : q.test = r.test => q.attempt <= r.attempt})
  <2> SUFFICES ASSUME NEW i \in DOMAIN listing, NEW run \in DOMAIN file.runs, run = listing[i].run,
                      NEW a \in Acked("complete", run), a.rows \subseteq Executed(run)
               PROVE  listing[i].counts = Statistics({r \in LoadResults(file, run) :
                        \A q \in LoadResults(file, run) : q.test = r.test => q.attempt <= r.attempt})
    BY <1>10
  <2>1. listing[i].counts = file.runs[run].counts  BY <1>10
  <2>2. a \in acked /\ a.what = "complete" /\ a.run = run  BY DEF Acked
  <2>3. file.runs[run].counts = Statistics(a.rows)  BY <2>2 DEF Tallied, FinalsTold
  <2>4. {r \in LoadResults(file, run) :
           \A q \in LoadResults(file, run) : q.test = r.test => q.attempt <= r.attempt} = a.rows
    BY LastAttempts
  <2> QED BY <2>1, <2>3, <2>4
<1>12. PICK sums : sums = AggregateStatistics(file, limit)  OBVIOUS
<1>13. /\ sums.runs = Len(page)
       /\ sums.total = TotalsOf(page)
       /\ sums.failures = Cardinality({r \in file.results : IsFailure(r.status)})
  <2>1. Newest(file, Max({1, limit}), 0) = page  BY <1>4, <1>6, <1>8
  <2> QED BY <1>12, <2>1, Zenon DEF AggregateStatistics, TotalsOf
<1>14. sums.runs = StorageInfo(file).runs  BY <1>3, <1>10, <1>13 DEF StorageInfo
<1>15. sums.total = CountsOf(listing)
  <2>1. PICK h : h = [i \in 1..n |-> page[i].row.total]  OBVIOUS
  <2>2. PICK k : k = [i \in 1..n |-> SumOf(listing[i].counts)]  OBVIOUS
  <2>0. PICK S : S = 1..n  OBVIOUS
  <2>5. \A i \in S : h[i] = page[i].row.total /\ k[i] = SumOf(listing[i].counts) /\ h[i] = k[i]
    BY <1>10, <2>0, <2>1, <2>2 DEF Tallied, TotalsTold
  <2>a. Picks(Largest(S), S) /\ IsFiniteSet(S)
    <3>1. IsFiniteSet(1..n)  BY FS_Interval
    <3> QED BY <2>0, <3>1, LargestPicks
  <2>b. DOMAIN page = S /\ DOMAIN listing = S  BY <1>10, <2>0
  <2>3. PICK F : AddsUp(F, S, h, Largest(S)) /\ TotalsOf(page) = F[S]
    <3>1. \A i \in S : h[i] = page[i].row.total  BY <2>5
    <3>2. DOMAIN page = S  BY <2>b
    <3> QED BY <2>0, <3>1, <3>2, FoldTotals
  <2>4. PICK G : AddsUp(G, S, k, Largest(S)) /\ CountsOf(listing) = G[S]
    <3>1. \A i \in S : k[i] = SumOf(listing[i].counts)  BY <2>5
    <3>2. DOMAIN listing = S  BY <2>b
    <3> QED BY <2>0, <3>1, <3>2, FoldCounts
  <2>7. F[S] = G[S]  BY <2>3, <2>4, <2>5, <2>a, SumEqual
  <2> QED BY <1>13, <2>3, <2>4, <2>7
<1>16. PICK history : history = HistorySummaries(file)  OBVIOUS
<1>17. PICK tests : tests = {r.test : r \in file.results}  OBVIOUS
<1>18. /\ DOMAIN history = tests
       /\ \A t \in tests : /\ history[t].totalRuns = Cardinality({r \in file.results : r.test = t})
                           /\ history[t].failures =
                                Cardinality({r \in {q \in file.results : q.test = t} : IsFailure(r.status)})
  BY <1>16, <1>17 DEF HistorySummaries, TestHistory
<1>19. IsFiniteSet(tests)
  <2> DEFINE f == [r \in file.results |-> r.test]
  <2>1. f \in Surjection(file.results, tests)  BY <1>17 DEF Surjection
  <2> HIDE DEF f
  <2> QED BY <1>1, <2>1, FS_Surjection
<1>20. RunsOf(history, DOMAIN history) = StorageInfo(file).results
  <2> DEFINE class == [r \in file.results |-> r.test]
  <2>1. PICK h : h = [t \in tests |-> history[t].totalRuns]  OBVIOUS
  <2>a. \A t \in tests : h[t] = history[t].totalRuns  BY <2>1
  <2>2. PICK F : /\ AddsUp(F, tests, h, Chosen(tests))
                 /\ RunsOf(history, tests) = F[tests]
    BY <1>19, <2>a, FoldTotalRuns
  <2>3. Counts(h, tests, file.results, class)
    <3>1. \A t : {r \in file.results : class[r] = t} = {r \in file.results : r.test = t}  OBVIOUS
    <3> QED BY <1>18, <2>1, <3>1 DEF Counts
  <2>4. {r \in file.results : class[r] \in tests} = file.results  BY <1>17
  <2> HIDE DEF class
  <2>5. F[tests] = CountIn(file.results, class, tests)
    BY <1>1, <1>19, <2>2, <2>3, ChosenPicks, SumOfClasses
  <2> QED BY <1>18, <2>2, <2>4, <2>5 DEF CountIn, StorageInfo
<1>21. FailuresOf(history, DOMAIN history) = sums.failures
  <2> DEFINE failing == {r \in file.results : IsFailure(r.status)}
             class == [r \in failing |-> r.test]
  <2>0. IsFiniteSet(failing)  BY <1>1, FS_Subset
  <2>1. PICK h : h = [t \in tests |-> history[t].failures]  OBVIOUS
  <2>a. \A t \in tests : h[t] = history[t].failures  BY <2>1
  <2>2. PICK F : /\ AddsUp(F, tests, h, Chosen(tests))
                 /\ FailuresOf(history, tests) = F[tests]
    BY <1>19, <2>a, FoldFailures
  <2>3. Counts(h, tests, failing, class)
    <3>1. \A t : {r \in failing : class[r] = t} = {r \in {q \in file.results : q.test = t} : IsFailure(r.status)}
      OBVIOUS
    <3> QED BY <1>18, <2>1, <3>1 DEF Counts
  <2>4. {r \in failing : class[r] \in tests} = failing  BY <1>17
  <2>6. sums.failures = Cardinality(failing)  BY <1>13
  <2> HIDE DEF class, failing
  <2>5. F[tests] = CountIn(failing, class, tests)
    BY <1>19, <2>0, <2>2, <2>3, ChosenPicks, SumOfClasses
  <2> QED BY <1>18, <2>2, <2>4, <2>5, <2>6 DEF CountIn
<1>22. AgreeOn(listing, sums, history, StorageInfo(file))
  BY <1>11, <1>14, <1>15, <1>20, <1>21 DEF AgreeOn
<1> QED BY <1>2, <1>9, <1>12, <1>16, <1>22, ViewsCompared

-----------------------------------------------------------------------------
(* The totals at every step.                                               *)

\* A step that writes no row of a run and no result, and ends no attempt.
LEMMA TalliedFrame ==
  ASSUME Tallied, UNCHANGED acked, file'.runs = file.runs, file'.results = file.results,
         \A q \in Sessions : /\ session'[q].run = session[q].run
                             /\ session'[q].results = session[q].results
                             /\ session'[q].attempts = session[q].attempts
  PROVE  Tallied'
<1>1. \A r : Executed(r)' = Executed(r)  BY NoAck
<1>2. IsFiniteSet(file.results)' /\ TotalsTold'  BY DEF Tallied, TotalsTold
<1>3. ASSUME NEW q \in Sessions PROVE AttemptsTold(q)'
  <2>1. AttemptsTold(q) /\ Known(q)' = Known(q)  BY <1>1 DEF Tallied, Known
  <2> QED BY <2>1 DEF AttemptsTold
<1>4. ASSUME NEW a \in acked', a.what = "complete" PROVE FinalsTold(a)'
  <2>1. FinalsTold(a) /\ Executed(a.run)' = Executed(a.run)  BY <1>1, <1>4 DEF Tallied
  <2> QED BY <2>1 DEF FinalsTold
<1> QED BY <1>2, <1>3, <1>4 DEF Tallied

\* Attempts are counted by saveResult() alone.
LEMMA AttemptsKept ==
  ASSUME TypeOK, NEW p \in Sessions,
         \/ \E pc \in Stages : Goto(p, pc)
         \/ \E pc \in Stages, has \in BOOLEAN : Settles(p, pc, has)
         \/ \E run \in RunIds : Starts(p, run)
  PROVE  \A q \in Sessions : session'[q].attempts = session[q].attempts
<1>1. session \in [Sessions -> SessionRecords]  BY DEF TypeOK
<1>2. ASSUME NEW pc \in Stages, Goto(p, pc)
      PROVE  \A q \in Sessions : session'[q].attempts = session[q].attempts
  BY <1>1, <1>2 DEF Goto, SessionRecords
<1>3. ASSUME NEW pc \in Stages, NEW has \in BOOLEAN, Settles(p, pc, has)
      PROVE  \A q \in Sessions : session'[q].attempts = session[q].attempts
  <2> DEFINE new == [session[p] EXCEPT !.pc = pc, !.repository = has]
  <2>1. session' = [session EXCEPT ![p] = new]  BY <1>1, <1>3 DEF Settles
  <2>2. new.attempts = session[p].attempts  BY <1>1 DEF SessionRecords
  <2> HIDE DEF new
  <2> QED BY <1>1, <2>1, <2>2
<1>4. ASSUME NEW run \in RunIds, Starts(p, run)
      PROVE  \A q \in Sessions : session'[q].attempts = session[q].attempts
  <2> DEFINE new == [session[p] EXCEPT !.pc = "test", !.run = run]
  <2>1. session' = [session EXCEPT ![p] = new]  BY <1>1, <1>4 DEF Starts
  <2>2. new.attempts = session[p].attempts  BY <1>1 DEF SessionRecords
  <2> HIDE DEF new
  <2> QED BY <1>1, <2>1, <2>2
<1> QED BY <1>2, <1>3, <1>4

\* The attempt that saveResult() counts, and the result it may be.
LEMMA SaveCounts ==
  ASSUME TypeOK, NEW p \in Sessions, NEW t \in Tests, NEW s \in Outcomes, NEW final \in BOOLEAN,
         session[p].run \in RunIds, SaveResult(p, t, s, final)
  PROVE  /\ session'[p].attempts = [session[p].attempts EXCEPT ![t] = session[p].attempts[t] + 1]
         /\ \/ session'[p].results = session[p].results
            \/ session'[p].results = session[p].results \cup {AttemptRow(p, t, s)}
         /\ \A r \in session[p].results : r.test # t
<1> DEFINE row == AttemptRow(p, t, s)
           now == IF final THEN session[p].results \cup {row} ELSE session[p].results
           told == [session[p].attempts EXCEPT ![t] = session[p].attempts[t] + 1]
           new == [session[p] EXCEPT !.attempts = told, !.results = now]
<1>1. session[p] \in SessionRecords  BY DEF TypeOK
<1>2. session' = [session EXCEPT ![p].attempts[t] = session[p].attempts[t] + 1,
                                 ![p].results = now]
  BY <1>1 DEF SaveResult, AttemptRow, TypeOK
<1> HIDE DEF now, row
<1>3. session' = [session EXCEPT ![p] = new]  BY <1>1, <1>2 DEF TypeOK
<1>4. new.attempts = told /\ new.results = now  BY <1>1 DEF SessionRecords
<1> HIDE DEF new, told
<1>5. session'[p].attempts = told /\ session'[p].results = now  BY <1>3, <1>4 DEF TypeOK
<1>6. \A r \in session[p].results : r.test # t  BY DEF SaveResult
<1> QED BY <1>5, <1>6 DEF now, row, told

\* beginRun() stores a row of zeros.
LEMMA ReplaceRunTotals ==
  ASSUME NEW db \in Databases, NEW run \in RunIds
  PROVE  LET new == ReplaceRun(db, run)
         IN  /\ new.runs[run].started = run
             /\ new.runs[run].total = 0 /\ new.runs[run].counts = NoTotals
<1> DEFINE row == [started |-> run, completed |-> FALSE, total |-> 0, counts |-> NoTotals]
           runs == [r \in DOMAIN db.runs \cup {run} |-> IF r = run THEN row ELSE db.runs[r]]
<1>1. ReplaceRun(db, run) = [db EXCEPT !.runs = runs,
                                       !.results = {r \in db.results : r.run # run},
                                       !.events = {e \in db.events : e # run}]
  BY DEF ReplaceRun
<1>2. runs[run] = row /\ row.started = run /\ row.total = 0 /\ row.counts = NoTotals  OBVIOUS
<1> HIDE DEF runs, row
<1>3. ReplaceRun(db, run).runs = runs  BY <1>1 DEF Databases
<1> QED BY <1>2, <1>3

\* completeRun() stores the counts of the rows it is given.
LEMMA UpdateTotalsCounts ==
  ASSUME NEW db \in Databases, NEW run \in DOMAIN db.runs, NEW rows
  PROVE  LET new == UpdateTotals(db, run, rows)
         IN  /\ new.runs[run].started = db.runs[run].started
             /\ new.runs[run].total = Cardinality(rows)
             /\ new.runs[run].counts = Statistics(rows)
<1> DEFINE old == db.runs[run]
           row == [old EXCEPT !.completed = TRUE, !.total = Cardinality(rows),
                              !.counts = Statistics(rows)]
           runs == [db.runs EXCEPT ![run] = row]
<1>1. DOMAIN db.runs \subseteq RunIds /\ db.runs \in [DOMAIN db.runs -> RunRow]
  BY HistoryOf DEF Databases
<1>2. old \in RunRow  BY <1>1
<1>3. row.started = old.started /\ row.total = Cardinality(rows) /\ row.counts = Statistics(rows)
  BY <1>2 DEF RunRow
<1>4. UpdateTotals(db, run, rows) = [db EXCEPT !.runs = runs]
  BY <1>1 DEF UpdateTotals, Databases
<1>5. runs[run] = row  BY <1>1
<1> HIDE DEF runs, row
<1>6. UpdateTotals(db, run, rows).runs = runs  BY <1>4 DEF Databases
<1> QED BY <1>3, <1>5, <1>6

\* beginRun(): a fresh run of which nothing is known.
LEMMA BeginTallied ==
  ASSUME RepositoryInv, Tallied, NEW p \in Sessions, NEW run \in RunIds, BeginRun(p, run)
  PROVE  Tallied'
<1>0. TypeOK /\ file \in Databases  BY DEF RepositoryInv, TypeOK
<1>1. /\ Starts(p, run) /\ run \notin UsedIds /\ session[p].pc = "start"
      /\ \/ file' = ReplaceRun(file, run) /\ Ack("begin", run, {})
         \/ UNCHANGED <<file, acked>>
  BY DEF BeginRun, Starts, At, Autocommit, Fault
<1>2. /\ \A q \in Sessions : session[q].run # run
      /\ run \notin DOMAIN file.runs /\ \A a \in acked : a.run # run
  BY <1>1 DEF UsedIds
<1>3. session[p].results = {}  BY <1>1 DEF RepositoryInv, Identified
<1>4. /\ session'[p].run = run /\ \A q \in Sessions : q # p => session'[q] = session[q]
      /\ session'[p].results = {}
  BY <1>0, <1>1, <1>3, StartDoes
<1>5. \A r : Executed(r)' = Executed(r)
  <2>1. CASE UNCHANGED acked  BY <2>1, NoAck
  <2>2. CASE Ack("begin", run, {})  BY <2>2, ExecutedDoes
  <2> QED BY <1>1, <2>1, <2>2
<1>6. Executed(run) = {}  BY <1>2 DEF Executed, Acked
<1>7. \A a \in acked' : a.what = "complete" => a \in acked  BY <1>1 DEF Ack
<1>8. /\ file'.results \subseteq file.results
      /\ \A r \in DOMAIN file'.runs \ {run} : r \in DOMAIN file.runs /\ file'.runs[r] = file.runs[r]
  BY <1>0, <1>1, ReplaceRunDoes
<1>9. run \in DOMAIN file'.runs => /\ file'.runs[run].started = run
                                   /\ file'.runs[run].total = 0 /\ file'.runs[run].counts = NoTotals
  BY <1>0, <1>1, <1>2, ReplaceRunTotals
<1>10. IsFiniteSet(file.results)'  BY <1>8, FS_Subset DEF Tallied
<1>11. TotalsTold'
  <2>1. SumOf(NoTotals) = 0  BY NoTotalsSum
  <2>2. ASSUME NEW r \in DOMAIN file'.runs
        PROVE  file'.runs[r].started = r /\ file'.runs[r].total = SumOf(file'.runs[r].counts)
    <3>1. CASE r = run
      <4>1. PICK counts : counts = file'.runs[r].counts  OBVIOUS
      <4>2. counts = NoTotals /\ file'.runs[r].total = 0 /\ file'.runs[r].started = r  BY <1>9, <3>1, <4>1
      <4> QED BY <2>1, <4>1, <4>2
    <3>2. CASE r # run  BY <1>8, <3>2 DEF Tallied, TotalsTold
    <3> QED BY <3>1, <3>2
  <2> QED BY <2>2 DEF TotalsTold
<1>12. ASSUME NEW q \in Sessions PROVE AttemptsTold(q)'
  <2>1. CASE q = p
    <3>1. Known(p)' = {}  BY <1>4, <1>5, <1>6 DEF Known
    <3> QED BY <1>4, <2>1, <3>1 DEF AttemptsTold
  <2>2. CASE q # p
    <3>1. AttemptsTold(q) /\ session'[q] = session[q]  BY <1>4, <2>2 DEF Tallied
    <3>2. Known(q)' = Known(q)  BY <1>5, <3>1 DEF Known
    <3> QED BY <3>1, <3>2 DEF AttemptsTold
  <2> QED BY <2>1, <2>2
<1>13. ASSUME NEW a \in acked', a.what = "complete" PROVE FinalsTold(a)'
  <2>1. FinalsTold(a) /\ a.run # run  BY <1>2, <1>7, <1>13 DEF Tallied
  <2> QED BY <1>5, <1>8, <2>1 DEF FinalsTold
<1> QED BY <1>10, <1>11, <1>12, <1>13 DEF Tallied

\* saveResult(): the next attempt at a test that has no result yet.
LEMMA SaveTallied ==
  ASSUME RepositoryInv, Tallied, NEW p \in Sessions, NEW t \in Tests, NEW s \in Outcomes,
         NEW final \in BOOLEAN, SaveResult(p, t, s, final)
  PROVE  Tallied'
<1>0. /\ TypeOK /\ file \in Databases /\ session[p].pc = "test" /\ session[p].run \in RunIds
      /\ session[p].run # None /\ session[p] \in SessionRecords
  BY RepositoryAssumption DEF RepositoryInv, TypeOK, SaveResult, At, Identified, RunIds
<1>1. PICK run \in RunIds : run = session[p].run  BY <1>0
<1>2. PICK row \in Rows : row = AttemptRow(p, t, s)  BY <1>0, SaveDoes
<1>3. row.run = run /\ row.test = t /\ row.attempt = session[p].attempts[t] + 1
  BY <1>1, <1>2 DEF AttemptRow
<1>4. /\ \A q \in Sessions : q # p => session'[q] = session[q]
      /\ session'[p].run = run
  BY <1>0, <1>1, SaveDoes
<1>5. /\ session'[p].attempts = [session[p].attempts EXCEPT ![t] = session[p].attempts[t] + 1]
      /\ \/ session'[p].results = session[p].results
         \/ session'[p].results = session[p].results \cup {row}
      /\ \A r \in session[p].results : r.test # t
  BY <1>0, <1>2, SaveCounts
<1>6. \/ file' = InsertResult(file, row) /\ Ack("save", run, {row})
      \/ UNCHANGED <<file, acked>>
  BY <1>1, <1>2 DEF SaveResult, Autocommit, Fault, AttemptRow
<1>7. /\ \A r : r # run => Executed(r)' = Executed(r)
      /\ Executed(run)' \subseteq Executed(run) \cup {row}
      /\ \A a \in acked' : a.what = "complete" => a \in acked
  <2>1. CASE UNCHANGED acked  BY <2>1, NoAck
  <2>2. CASE Ack("save", run, {row})
    <3>1. \A a \in acked' : a.what = "complete" => a \in acked  BY <2>2 DEF Ack
    <3> QED BY <2>2, <3>1, ExecutedDoes
  <2> QED BY <1>6, <2>1, <2>2
<1>8. file'.runs = file.runs /\ file'.results \subseteq file.results \cup {row}
  BY <1>0, <1>6, InsertResultDoes
<1>9. IsFiniteSet(file.results)'
  <2>1. IsFiniteSet(file.results \cup {row})  BY FS_AddElement DEF Tallied
  <2> QED BY <1>8, <2>1, FS_Subset
<1>10. TotalsTold'  BY <1>8 DEF Tallied, TotalsTold
<1>11. ASSUME NEW q \in Sessions PROVE AttemptsTold(q)'
  <2>1. CASE q = p
    <3>1. /\ \A x \in Known(p) : x.attempt <= session[p].attempts[x.test]
          /\ \A x, y \in Known(p) : x.test = y.test /\ x.attempt = y.attempt => x = y
          /\ \A x \in session[p].results : x.attempt = session[p].attempts[x.test]
      BY <1>0 DEF Tallied, AttemptsTold
    <3>2. Known(p)' \subseteq Known(p) \cup {row}  BY <1>1, <1>4, <1>5, <1>7 DEF Known
    <3>3. PICK before \in [Tests -> Nat] : before = session[p].attempts  BY <1>0 DEF SessionRecords
    <3>4. PICK after : after = session'[p].attempts  OBVIOUS
    <3>5. /\ after[t] = before[t] + 1 /\ before[t] \in Nat
          /\ \A x : x \in Tests /\ x # t => after[x] = before[x] /\ before[x] \in Nat
      BY <1>5, <3>3, <3>4
    <3>6. \A x \in Known(p) : x.test \in Tests /\ x.attempt \in Nat
      <4>1. \A x \in session[p].results : x.test \in Tests /\ x.attempt \in Nat
        BY <1>0 DEF SessionRecords, Rows
      <4>2. \A x \in Executed(run) : x.test \in Tests /\ x.attempt \in Nat
        <5>1. \A a \in acked : a.rows \subseteq Rows  BY <1>0 DEF TypeOK
        <5> QED BY <5>1 DEF Executed, Acked, Rows
      <4> QED BY <1>1, <4>1, <4>2 DEF Known
    <3>7. \A x \in Known(p) \cup {row} : x.attempt <= after[x.test]
      BY <1>3, <3>1, <3>3, <3>5, <3>6
    <3>8. \A x \in Known(p) : x.test = row.test => x.attempt < row.attempt
      BY <1>3, <3>1, <3>3, <3>5, <3>6
    <3>9. \A x, y \in Known(p) \cup {row} : x.test = y.test /\ x.attempt = y.attempt => x = y
      <4>1. row.attempt \in Nat  BY DEF Rows
      <4> QED BY <3>1, <3>6, <3>8, <4>1
    <3>10. \A x \in session'[p].results : x.attempt = after[x.test]
      <4>1. \A x \in session[p].results : x.attempt = after[x.test]
        <5>1. session[p].results \subseteq Known(p)  BY DEF Known
        <5> QED BY <1>5, <3>1, <3>3, <3>5, <3>6, <5>1
      <4>2. row.attempt = after[row.test]  BY <1>3, <3>3, <3>5
      <4> QED BY <1>5, <4>1, <4>2
    <3> QED BY <2>1, <3>2, <3>4, <3>7, <3>9, <3>10 DEF AttemptsTold
  <2>2. CASE q # p
    <3>1. AttemptsTold(q) /\ session'[q] = session[q]  BY <1>4, <2>2 DEF Tallied
    <3>2. CASE session[q].run = None  BY <3>1, <3>2 DEF AttemptsTold
    <3>3. CASE session[q].run # None
      <4>1. session[q].run # run  BY <1>0, <1>1, <2>2, <3>3 DEF RepositoryInv, Identified
      <4>2. Known(q)' = Known(q)  BY <1>7, <3>1, <4>1 DEF Known
      <4> QED BY <3>1, <4>2 DEF AttemptsTold
    <3> QED BY <3>2, <3>3
  <2> QED BY <2>1, <2>2
<1>12. ASSUME NEW a \in acked', a.what = "complete" PROVE FinalsTold(a)'
  <2>1. FinalsTold(a) /\ a \in acked  BY <1>7, <1>12 DEF Tallied
  <2>2. a.run # run  BY <1>0, <1>1, <1>12, <2>1 DEF RepositoryInv, Identified
  <2>3. Executed(a.run)' = Executed(a.run)  BY <1>7, <2>2
  <2> QED BY <1>8, <2>1, <2>3 DEF FinalsTold
<1> QED BY <1>9, <1>10, <1>11, <1>12 DEF Tallied

\* completeRun(): the counts of what the run returns, the last attempts at its tests.
LEMMA CompleteTallied ==
  ASSUME RepositoryInv, Tallied, NEW p \in Sessions, CompleteRun(p)
  PROVE  Tallied'
<1>0. /\ TypeOK /\ file \in Databases /\ session[p].pc = "test" /\ session[p].run \in RunIds
      /\ session[p].run # None /\ session[p] \in SessionRecords /\ IsFiniteSet(session[p].results)
      /\ Goto(p, "event")
  BY RepositoryAssumption DEF RepositoryInv, TypeOK, CompleteRun, At, Identified, RunIds
<1>1. \A q \in Sessions : /\ session'[q].run = session[q].run
                          /\ session'[q].results = session[q].results
                          /\ session'[q].attempts = session[q].attempts
  BY <1>0, GotoDoes, AttemptsKept DEF Stages
<1>2. CASE UNCHANGED <<file, acked>>  BY <1>1, <1>2, TalliedFrame
<1>3. CASE /\ file' = UpdateTotals(file, session[p].run, session[p].results)
           /\ Ack("complete", session[p].run, session[p].results)
  <2>1. PICK run \in RunIds : run = session[p].run  BY <1>0
  <2>2. PICK rows : rows = session[p].results  OBVIOUS
  <2>3. file' = UpdateTotals(file, run, rows) /\ Ack("complete", run, rows) /\ IsFiniteSet(rows)
    BY <1>0, <1>3, <2>1, <2>2
  <2>4. /\ DOMAIN file'.runs = DOMAIN file.runs /\ file'.results = file.results
        /\ \A r \in DOMAIN file.runs : r # run => file'.runs[r] = file.runs[r]
    BY <1>0, <2>3, UpdateTotalsDoes
  <2>5. run \in DOMAIN file.runs => /\ file'.runs[run].started = file.runs[run].started
                                    /\ file'.runs[run].total = Cardinality(rows)
                                    /\ file'.runs[run].counts = Statistics(rows)
    BY <1>0, <2>3, UpdateTotalsCounts
  <2>6. \A r : Executed(r)' = Executed(r)  BY <2>3, ExecutedDoes
  <2>7. SumOf(Statistics(rows)) = Cardinality(rows)
    <3>1. \A r \in rows : r.status \in Statuses  BY <1>0, <2>2 DEF SessionRecords, Rows
    <3> QED BY <2>3, <3>1, StatisticsSum
  <2>8. IsFiniteSet(file.results)'  BY <2>4 DEF Tallied
  <2>9. TotalsTold'
    <3>1. ASSUME NEW r \in DOMAIN file'.runs
          PROVE  file'.runs[r].started = r /\ file'.runs[r].total = SumOf(file'.runs[r].counts)
      <4>1. CASE r = run
        <5>1. PICK counts : counts = file'.runs[r].counts  OBVIOUS
        <5>2. counts = Statistics(rows) /\ file'.runs[r].total = Cardinality(rows)
          BY <2>4, <2>5, <4>1, <5>1
        <5>3. file'.runs[r].started = r  BY <2>4, <2>5, <4>1 DEF Tallied, TotalsTold
        <5> QED BY <2>7, <5>1, <5>2, <5>3
      <4>2. CASE r # run  BY <2>4, <4>2 DEF Tallied, TotalsTold
      <4> QED BY <4>1, <4>2
    <3> QED BY <3>1 DEF TotalsTold
  <2>10. ASSUME NEW q \in Sessions PROVE AttemptsTold(q)'
    <3>1. AttemptsTold(q) /\ Known(q)' = Known(q)  BY <1>1, <2>6 DEF Tallied, Known
    <3> QED BY <1>1, <3>1 DEF AttemptsTold
  <2>11. ASSUME NEW a \in acked', a.what = "complete" PROVE FinalsTold(a)'
    <3>1. CASE a \in acked
      <4>1. FinalsTold(a) /\ a.run # run
        BY <1>0, <2>1, <2>11, <3>1 DEF Tallied, RepositoryInv, Identified
      <4> QED BY <2>4, <2>6, <4>1 DEF FinalsTold
    <3>2. CASE a \notin acked
      <4>1. a.run = run /\ a.rows = rows  BY <2>3, <3>2 DEF Ack
      <4>2. \A x \in rows, y \in Executed(run) :
              x.test = y.test => y.attempt <= x.attempt /\ (y.attempt = x.attempt => y = x)
        <5>1. /\ \A x \in Known(p) : x.attempt <= session[p].attempts[x.test]
              /\ \A x, y \in Known(p) : x.test = y.test /\ x.attempt = y.attempt => x = y
              /\ \A x \in session[p].results : x.attempt = session[p].attempts[x.test]
          BY <1>0 DEF Tallied, AttemptsTold
        <5>2. rows \subseteq Known(p) /\ Executed(run) \subseteq Known(p)  BY <2>1, <2>2 DEF Known
        <5>3. ASSUME NEW x \in rows, NEW y \in Executed(run), x.test = y.test
              PROVE  y.attempt <= x.attempt /\ (y.attempt = x.attempt => y = x)
          <6>1. x.attempt = session[p].attempts[x.test]  BY <2>2, <5>1
          <6>2. y.attempt <= session[p].attempts[y.test]  BY <5>1, <5>2
          <6>3. y.attempt <= x.attempt  BY <5>3, <6>1, <6>2
          <6>4. y.attempt = x.attempt => y = x  BY <5>1, <5>2, <5>3
          <6> QED BY <6>3, <6>4
        <5> QED BY <5>3
      <4> QED BY <2>4, <2>5, <2>6, <4>1, <4>2 DEF FinalsTold
    <3> QED BY <3>1, <3>2
  <2> QED BY <2>8, <2>9, <2>10, <2>11 DEF Tallied
<1>4. \/ UNCHANGED <<file, acked>>
      \/ /\ file' = UpdateTotals(file, session[p].run, session[p].results)
         /\ Ack("complete", session[p].run, session[p].results)
  BY DEF CompleteRun, Autocommit, Fault
<1> QED BY <1>2, <1>3, <1>4

\* A prune takes runs away with all that belongs to them.
LEMMA PruneTallied ==
  ASSUME RepositoryInv, Tallied, PruneCommit PROVE Tallied'
<1>1. PICK cutoff \in Nat : view = DeleteOlder(file, cutoff)
  BY DEF PruneCommit, RepositoryInv, Transactions
<1>2. file' = DeleteOlder(file, cutoff) /\ UNCHANGED <<session, acked>> /\ file \in Databases
  BY <1>1 DEF PruneCommit, PruneRest, RepositoryInv, TypeOK
<1>3. /\ DOMAIN file'.runs \subseteq DOMAIN file.runs
      /\ \A r \in DOMAIN file'.runs : file'.runs[r] = file.runs[r]
      /\ file'.results \subseteq file.results
  BY <1>2, DeleteOlderDoes
<1>4. \A r : Executed(r)' = Executed(r)  BY <1>2, NoAck
<1>5. IsFiniteSet(file.results)'  BY <1>3, FS_Subset DEF Tallied
<1>6. TotalsTold'  BY <1>3 DEF Tallied, TotalsTold
<1>7. ASSUME NEW q \in Sessions PROVE AttemptsTold(q)'
  <2>1. AttemptsTold(q) /\ Known(q)' = Known(q)  BY <1>2, <1>4 DEF Tallied, Known
  <2> QED BY <1>2, <2>1 DEF AttemptsTold
<1>8. ASSUME NEW a \in acked', a.what = "complete" PROVE FinalsTold(a)'
  <2>1. FinalsTold(a)  BY <1>2, <1>8 DEF Tallied
  <2> QED BY <1>3, <1>4, <2>1 DEF FinalsTold
<1> QED BY <1>5, <1>6, <1>7, <1>8 DEF Tallied

\* Every step keeps the totals true.
LEMMA TalliedStep ==
  ASSUME RepositoryInv, Tallied, [RepositoryNext]_repoVars PROVE Tallied'
<1>0. TypeOK /\ file \in Databases  BY DEF RepositoryInv, TypeOK
<1>1. ASSUME NEW p \in Sessions, Initialise(p) PROVE Tallied'
  <2>1. UNCHANGED acked
    BY <1>1 DEF Initialise, CreateVersionTable, ReadVersion, BeginMigration, RunScript,
       RecordVersion, CommitMigration, VersionTaken, InitialiseFails, Fault
  <2>2. \/ Goto(p, "read") \/ Goto(p, "script") \/ Goto(p, "record") \/ Goto(p, "commit")
        \/ \E has \in BOOLEAN : Settles(p, "begin", has) \/ Settles(p, "start", has)
    BY <1>0, <1>1, ReadVersionDoes
    DEF Initialise, CreateVersionTable, BeginMigration, RunScript,
       RecordVersion, CommitMigration, VersionTaken, InitialiseFails, GiveUp, Settles
  <2>3. \A q \in Sessions : /\ session'[q].run = session[q].run
                            /\ session'[q].results = session[q].results
                            /\ session'[q].attempts = session[q].attempts
    <3>1. ASSUME NEW pc \in Stages, Goto(p, pc)
          PROVE  \A q \in Sessions : /\ session'[q].run = session[q].run
                                     /\ session'[q].results = session[q].results
                                     /\ session'[q].attempts = session[q].attempts
      BY <1>0, <3>1, GotoDoes, AttemptsKept
    <3>2. ASSUME NEW pc \in Stages, NEW has \in BOOLEAN, Settles(p, pc, has)
          PROVE  \A q \in Sessions : /\ session'[q].run = session[q].run
                                     /\ session'[q].results = session[q].results
                                     /\ session'[q].attempts = session[q].attempts
      BY <1>0, <3>2, SettleDoes, AttemptsKept
    <3>3. {"read", "script", "record", "commit", "begin", "start"} \subseteq Stages  BY DEF Stages
    <3> QED BY <2>2, <3>1, <3>2, <3>3
  <2>4. file'.runs = file.runs /\ file'.results = file.results
    <3>1. CASE CommitMigration(p)
      <4>1. file' = [file EXCEPT !.tables = TRUE, !.versions = @ \cup {SchemaVersion}]
        BY <3>1 DEF CommitMigration, At, RepositoryInv, Transactions
      <4> QED BY <1>0, <4>1 DEF Databases
    <3>2. CASE ~CommitMigration(p)
      BY <1>1, <3>2 DEF Initialise, CreateVersionTable, ReadVersion, BeginMigration, RunScript,
         RecordVersion, VersionTaken, InitialiseFails, Fault, Autocommit
    <3> QED BY <3>1, <3>2
  <2> QED BY <2>1, <2>3, <2>4, TalliedFrame
<1>2. ASSUME NEW p \in Sessions, RecordEvent(p) \/ Crash(p) PROVE Tallied'
  <2>1. (Goto(p, "done") \/ Goto(p, "dead")) /\ UNCHANGED acked
    BY <1>2 DEF RecordEvent, Crash, Fault
  <2>2. \A q \in Sessions : /\ session'[q].run = session[q].run
                            /\ session'[q].results = session[q].results
                            /\ session'[q].attempts = session[q].attempts
    BY <1>0, <2>1, GotoDoes, AttemptsKept DEF Stages
  <2>3. \/ UNCHANGED file
        \/ session[p].pc = "event" /\ file' = InsertEvent(file, session[p].run)
    BY <1>2 DEF RecordEvent, Crash, Autocommit, Fault, At
  <2>4. file'.runs = file.runs /\ file'.results = file.results
    <3>1. session[p].pc = "event" => session[p].run \in RunIds  BY DEF RepositoryInv, Identified
    <3> QED BY <1>0, <2>3, <3>1, InsertEventDoes
  <2> QED BY <2>1, <2>2, <2>4, TalliedFrame
<1>3. ASSUME Prune, ~PruneCommit PROVE Tallied'
  <2>1. UNCHANGED <<file, session, acked>>
    BY <1>3 DEF Prune, PruneDelete, PruneVacuum, PruneFails, PruneRest, Autocommit
  <2> QED BY <2>1, TalliedFrame
<1>4. CASE Load \/ UNCHANGED repoVars
  <2>1. UNCHANGED <<file, session, acked>>
    BY <1>4 DEF Load, LoadRow, LoadRunResults, ReadRest, repoVars
  <2> QED BY <2>1, TalliedFrame
<1> QED BY <1>1, <1>2, <1>3, <1>4, BeginTallied, SaveTallied, CompleteTallied, PruneTallied
        DEF RepositoryNext, Record

-----------------------------------------------------------------------------
(* The theorems.                                                           *)

\* An empty file, with no session under way, is as it should be.
LEMMA InitContents == RepositoryInit => RepositoryInv
<1> SUFFICES ASSUME RepositoryInit PROVE RepositoryInv
  OBVIOUS
<1>1. NewSession \in SessionRecords  BY DEF NewSession, SessionRecords
<1>2. \A p \in Sessions : session[p] = NewSession  BY DEF RepositoryInit
<1>3. \A p \in Sessions : /\ session[p].pc = "open" /\ session[p].run = None
                          /\ session[p].results = {} /\ ~session[p].repository
  BY <1>2 DEF NewSession
<1>4. TypeOK
  <2>1. session \in [Sessions -> SessionRecords]  BY <1>1 DEF RepositoryInit
  <2>2. \A p \in Sessions : IsFiniteSet(session[p].results)  BY <1>3, FS_EmptySet
  <2> QED BY <2>1, <2>2, EmptyFileTyped DEF RepositoryInit, TypeOK
<1>5. Identified  BY <1>3 DEF RepositoryInit, Identified
<1>6. Transactions
  BY <1>3, RepositoryAssumption DEF RepositoryInit, Transactions, Migrating
<1>7. /\ DOMAIN file.runs = {} /\ file.results = {} /\ file.events = {} /\ file.versions = {}
      /\ file.tables = FALSE /\ acked = {} /\ reader.pc = "idle"
  BY DEF RepositoryInit, EmptyFile
<1>8. FileIsWhole
  BY <1>3, <1>7 DEF FileIsWhole, NoTraceWithoutBegin, MigratedAtomically
<1>9. AcknowledgedSurvives  BY <1>7 DEF AcknowledgedSurvives, Acked
<1>10. Accounted
  BY <1>3, <1>7 DEF Accounted, FinishedIsAcked, FinishedIsSaved, RunIsSaved, ReaderInformed
<1> QED BY <1>4, <1>5, <1>6, <1>8, <1>9, <1>10 DEF RepositoryInv

\* The inductive invariant of the repository.
THEOREM RepositoryInvariant == RepositorySpec => []RepositoryInv
<1>1. RepositoryInv /\ [RepositoryNext]_repoVars => RepositoryInv'
  BY TypeStep, TransactionsStep, IdentifiedStep, ContentsStep DEF RepositoryInv, Contents
<1> QED BY <1>1, InitContents, PTL DEF RepositorySpec

\* The file is whole after any crash or failing statement, with any number of
\* processes: no run, result or event without its parent, no half-applied migration.
THEOREM FileAlwaysWhole == RepositorySpec => []FileIsWhole
<1>1. RepositoryInv => FileIsWhole  BY DEF RepositoryInv
<1> QED BY <1>1, RepositoryInvariant, PTL

\* What beginRun(), saveResult() and completeRun() reported as done is in the file
\* until a prune removes the run, whatever crashes and other processes do.
THEOREM AcknowledgedAlwaysSurvives == RepositorySpec => []AcknowledgedSurvives
<1>1. RepositoryInv => AcknowledgedSurvives  BY DEF RepositoryInv
<1> QED BY <1>1, RepositoryInvariant, PTL

\* loadRun() of a finished run returns everything that was saved for it, and if no
\* statement has failed a result of every test, although it reads under two locks.
THEOREM LoadsAreComplete == RepositorySpec => LoadIsComplete
<1>1. ASSUME RepositoryInv, reader.pc = "results", reader.completed, reader.run \notin pruned
      PROVE  /\ Executed(reader.run) \subseteq LoadResults(file, reader.run)
             /\ faults = 0 => {r.test : r \in LoadResults(file, reader.run)} = Tests
  <2>1. PICK run \in RunIds : run = reader.run
    BY <1>1 DEF RepositoryInv, Accounted, ReaderInformed
  <2>2. Acked("begin", run) # {} /\ Acked("complete", run) # {}
    BY <1>1, <2>1 DEF RepositoryInv, Accounted, ReaderInformed
  <2>3. Executed(run) = LoadResults(file, run)
    BY <1>1, <2>1, <2>2 DEF RepositoryInv, AcknowledgedSurvives
  <2>4. ASSUME faults = 0 PROVE {r.test : r \in LoadResults(file, run)} = Tests
    <3>1. PICK a \in acked : a.what = "complete" /\ a.run = run  BY <2>2 DEF Acked
    <3>2. {r.test : r \in a.rows} = Tests /\ a.rows \subseteq LoadResults(file, run)
      BY <1>1, <2>1, <2>3, <2>4, <3>1 DEF RepositoryInv, Accounted, FinishedIsSaved
    <3>3. \A r \in LoadResults(file, run) : r.test \in Tests
      BY <1>1 DEF RepositoryInv, TypeOK, Databases, Rows, LoadResults
    <3> QED BY <3>2, <3>3
  <2> QED BY <2>1, <2>3, <2>4
<1>2. RepositoryInv =>
        [reader.pc = "results" /\ reader'.pc = "idle" /\ reader.completed
           /\ reader.run \notin pruned
         => LET loaded == LoadResults(file, reader.run)
            IN  /\ Executed(reader.run) \subseteq loaded
                /\ faults = 0 => {r.test : r \in loaded} = Tests]_repoVars
  BY <1>1
<1> QED BY <1>2, RepositoryInvariant, PTL DEF LoadIsComplete

\* An empty file has nothing to count.
LEMMA InitTallied == RepositoryInit => Tallied
<1> SUFFICES ASSUME RepositoryInit PROVE Tallied
  OBVIOUS
<1>1. DOMAIN file.runs = {} /\ file.results = {} /\ acked = {}  BY DEF RepositoryInit, EmptyFile
<1>2. \A p \in Sessions : session[p].run = None  BY DEF RepositoryInit, NewSession
<1> QED BY <1>1, <1>2, FS_EmptySet DEF Tallied, TotalsTold, AttemptsTold

\* The history is what happened, with any number of processes, runs, tests, attempts,
\* crashes and faults: what was acknowledged is there, and the listing, the summed
\* columns, the stored results and the history summaries tell it the same way.
THEOREM HistoryAlwaysFaithful == RepositorySpec => []HistoryFaithful
<1>1. RepositoryInv /\ Tallied /\ [RepositoryNext]_repoVars => Tallied'
  BY TalliedStep
<1>2. RepositoryInv /\ Tallied => HistoryFaithful
  BY ViewsOfTallied DEF HistoryFaithful, RepositoryInv
<1> QED BY <1>1, <1>2, InitTallied, RepositoryInvariant, PTL DEF RepositorySpec
=============================================================================
