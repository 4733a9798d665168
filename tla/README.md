# Verification of Dinkel

Dinkel is a fuzzer for graph databases: it generates Cypher statements, sends
them to a database through a driver, and judges the results, either by the
errors they produce or by comparing results that have to be equal. This
directory holds TLA+ models of its logic, the TLC runs that check them on small
instances, and TLAPS proofs of what matters most for every instance.

The models are written from the Go source; a definition is named after the
function, field or branch it stands for, and `PROJECT.json` ("map") gives the
lines. Operators whose name ends in `Mutant` are wrong on purpose: each is the
body of a modelled definition with a plausible bug in it, kept beside the
definition to show which property would notice that bug. Nothing else uses them.

## 1. The system

### Components, state and operations

| Component | State | Operations | Talks to |
|---|---|---|---|
| Fuzzing loop (`scheduler/scheduler.go`) | position in `Run`, `stats.queries`, `statementCount`, the statements of the query, the result in flight | `Run`, `RunQuery`, `ConnectToDB`, `GenerateBugReport` | strategy and driver (calls), one goroutine per statement (channel), translator |
| Strategy interface (`scheduler/strategy/strategy.go`) | none | `Reset`, `GetRootClause`, `GetQueryResultType`, `DiscardQuery`, `PrepareQueryForBugreport`, `ReduceStep`, `ValidateReductionResult`, `RerunQuery` | called by the loop, the reduction, the bisection and rerun |
| none | none | the driver judges | driver |
| equivalence transformation | `generatedStatements`, `previousResults`, `statementsToGenerate`, `statementIndex`, `isTransforming` | runs originals, resets the database, runs their transformations and compares | driver (also resets it), capturers |
| predicate partitioning | three flags, the original result, three capturers | fills the database, reads it, reads it again split by a predicate, and compares | driver, capturers |
| Drivers (`models/*/driver.go`, `dbms/dbms.go`) | connection; falkordb: `returnedNil`, `ranQueries` | `Init`, `Reset`, `GetSchema`, `RunQuery`, `VerifyConnectivity`, `GetQueryResultType`, `DiscardQuery`, `IsEqualResult` | the database, which may hang, fail, crash and be restarted by its container |
| Translator and clause capturer (`translator/`) | captured schemas, subclauses, `generated`/`regenerated` | `GenerateStatement`; `Generate`, `ModifySchema`, `UpdateClause`, `RenewClause`, `Copy` | clauses, schema, seed |
| Reduction (`scheduler/reduce.go`, `ReduceStep` of the strategies) | reduced clauses, reduction context | reruns the report with parts removed, keeps what still fails | driver, strategy, capturers |
| Bisection (`cmd/bisect`) | jobs, reports, pending bisections | reruns reports on old versions of the database, in parallel | strategy, drivers, the biscepter library (channels), signals |
| Schema and clauses (`models/opencypher`) | names and properties in scope | `Generate`, `ModifySchema` of some 60 clauses | translator |
| Seeds (`seed/`) | bytes, index | `GetByte`, helpers | all that generates |
| Statement analysis (`data/main.py`, `analyze.py`, `CypherParser.py`) | counts in module globals, the rows | the parser's rule methods, the listener, `to_row` | report files, ANTLR's runtime |
| Metrics (`middleware/prometheus`) | counters, semaphore | hooks around strategy and driver | HTTP exporter |
| Report browser (`cmd/bugreports`) | table, selection | delete, rename, edit | file system |
| Commands, configuration | flags, YAML | start the above | file system |

### What is hard

* **Several actors.** `RunQuery` runs each statement in a goroutine. After twice
  the timeout it returns, but the goroutine stays inside the driver and can reach
  the database, and the driver's fields, during a later query.
* **The database is part of the system.** A statement may hang, fail before or
  after it wrote something, or take the database down; the container brings it
  back at any time, with or without its data. Each driver translates this into
  its own verdict.
* **Comparisons across time.** Two strategies compare results that lie many
  statements and a database reset apart, found by an index into lists that
  dropped statements and early ends change. A wrong index, a stale baseline or a
  reset that did not happen is a false bug report, or a logic bug nobody hears of.
* **Reports must replay.** Reduction, bisection and rerun split a report into two
  halves; what `PrepareQueryForBugreport` keeps decides whether they see the bug.
* **Ends.** The loop ends a query in five places, each with its own idea of what
  to clean up. A bisection has workers, an interrupt handler and a main goroutine
  that end each other over channels.
* **One schema record.** Clauses that open a scope replace the generator's only schema
  by a copy, which shares maps with the original, and put the original back after any
  number of other clauses did the same.
* **The same bytes, the same statement.** A report is the bytes that were drawn; copies
  of copies of clause capturers are changed, generated again and thrown away.
* **Counts that outlive their statement.** The analysis keeps all counts in module
  globals and never looks at the errors of the parser.

What makes each component correct is listed with its module and its properties
below. `PROJECT.json` lists the hazards at their lines.

## 2. The modules

```
            Dbms                      result types, verdicts, equality of results
          /   |   \
 Scheduler  EquivalenceTransformation  PredicatePartitioning   DifferentialOracle
     | \        |          \______________   |                  (abstract)
     |  \  FuzzEquivalence ................ FuzzPartitioning ......:
 FuzzNone        |    (both INSTANCE DifferentialOracle)   |
     |           |                                         |
     |    FuzzEquivalence_proofs                 FuzzPartitioning_proofs
 FuzzNone_proofs  ............ (all three use Scheduler_proofs) ............:

 ClauseTree ......... ClauseTraversal          Seed
     |                                           |
 Reduction                                     StatementGeneration -- StatementGeneration_proofs
     |  \
     |   NoneReduction --------.               SchemaScope -- SchemaScope_proofs
 EquivalenceReduction -- Reduction_proofs
                                               CypherGrammar
 Bisection -- Bisection_proofs                   |
                                               QueryAnalysis
```

* **Dbms** - `dbms/dbms.go` and the verdicts of the neo4j and falkordb drivers. A
  result is a record: `err` is the kind of error, `seen` and `sem` stand for the
  rows. A database without logic bugs answers with something that depends only on
  what it held (`seen`, the list of writes since it was last empty) and on what
  the statement means (`sem`); `wrong` marks rows falsified by a logic bug, and
  `nils` rows that the client library lost. `got` is how much of a result the driver
  brought home: everything, the rows without the schema, or nothing. Equality of
  results is equality of these, which is what `IsEqualResult` compares (rows, schema,
  error).
* **Scheduler** - `Run`, `RunQuery` and `ConnectToDB`, with the database. `pc` is
  where `Run` is; `running` and `resChan` are the goroutine of the current
  statement and its buffered channel; `orphans` counts the goroutines a timeout
  abandoned. The steps of the database (`StatementSucceeds`, `StatementFails`,
  `StatementCrashes`, `ConnectionLost`, `TransactionErrorLost`, `OrphanRuns`,
  `DatabaseRestarts`) interleave with those of `Run`. `TransactionErrorLost` is what
  neo4j's driver does with an error of the connection, of BEGIN or of COMMIT: it returns
  a result without one. `tainted` is a history variable: something other than the query's
  own statements decided what the database holds (a reset that failed, an orphan, a
  restart that lost data), or the driver lost such an error. The calls to the strategy are left
  open: the next modules join them.
* **EquivalenceTransformation** - the fields of the strategy's struct, and one
  action for each way each of its methods can return: `GetRootClause` generates
  an original or transforms one, `DiscardQuery` drops an invalid statement, gives
  up, goes on, starts transforming, or goes on transforming. A capturer is a
  record of what the statement means and whether it is transformed.
* **PredicatePartitioning** - the same for the other strategy. The three capturers stand
  for what they mean: `matchCapturer` is the meaning of the captured query, and
  `returnCapturer` whether its RETURN is a plain one. The partitioned query repeats the
  RETURN in each of its three parts; with a DISTINCT, SKIP or LIMIT in it, their union may
  mean something else than the original (`PartitionedMeanings`).
* **FuzzEquivalence**, **FuzzPartitioning**, **FuzzNone** - a fuzzing run with each
  strategy: the steps of Scheduler joined with the strategy's calls that they make,
  and the properties of the whole.
* **DifferentialOracle** - the abstract specification of a strategy that looks for
  logic bugs: record trustworthy results, compare each of them once and in order,
  raise an alarm at the first difference, pass only when everything was compared.
  FuzzEquivalence and FuzzPartitioning are shown to implement it; the mapping
  (`Oracle`) reads its state off the strategy's fields. With
  `MayStopEarly = FALSE` a query may only be given up with a reason: the next
  statement could not be generated or sent, or the latest result is no good.
  Predicate partitioning needs `MayStopEarly = TRUE`, as the driver's seed may end
  its query at any statement.
* **ClauseTree** - a statement as the reductions see it: its clause capturers in the
  order of a depth-first traversal, each with its depth, a kind (how it can be made
  smaller) and whether a `TransformedClause` wraps it. The operations that remove,
  replace and flip the clause at an index are defined on this list.
* **ClauseTraversal** - the recursive functions that find that clause in the code,
  with the counts they thread through the tree, compared with ClauseTree's
  definitions. It holds the RECURSIVE operators, so that the other modules need none. It
  has no state: the runs of the two reductions check it, for every small statement and
  for the statements that a step is about.
* **Reduction** - the loop of `Reduce`: the strategy proposes clauses, the proposal is
  run and kept or not, passes are repeated for a full reduction, and the final run
  fills the report. `trigger` is what the bug depends on: a set of parts of the
  statements (a clause, the content of an expression, a transformed form). The
  database is deterministic, and a query shows the bug when it has these parts.
* **NoneReduction**, **EquivalenceReduction** - the contexts of the two strategies, one
  action for each way `ReduceStep` can return, and their
  `ValidateReductionResult`. In NoneReduction `failure` says how the bug shows in the
  reported result: as an error, or as a crash right after the answer, which leaves a result
  without one. EquivalenceReduction computes results from what the
  database ran since it was last reset, so that halves that are not parallel differ.
  Reduction_proofs extends both modules; the names they would share start with None in
  NoneReduction.
* **Bisection** - `cmd/bisect/runner.go`. The main goroutine gathers the original
  results and starts one job and one worker per target, then waits for the workers to
  send their target over a channel; a worker takes the next commit that biscepter has
  brought online, judges it, writes the commit of a report that is done, and stops its
  job after the last one; a goroutine per interrupt stops the jobs one by one and exits.
  A panic and a `Fatalf` end the process at once. The biscepter library is the
  environment: per report it keeps a good and a bad commit and brings any commit
  between them online. `history` says how the report's query behaves at each commit.
* **SchemaScope** - the one schema record and the clauses that change it. `todo` is the
  recursion of `generateStatement`, flattened: the clauses still to generate and the
  calls of `ModifySchema` due between them, with the schema each will put back. A copy
  of the schema shares its maps, so the maps stand in a list of their own (`maps`) and
  schemas refer to them by index. `frames` and `taken` are what the text written so far
  has in scope and declares by the rules of Cypher, for comparison.
* **Seed** - the bytes that guide generation: given ones, then random ones.
* **StatementGeneration** - `generateStatement` with its limit on AST nodes, the clause
  capturers and the bytes they draw. One statement is generated while fuzzing, reported,
  generated again from the bytes of the report, and then copied, changed at one clause,
  generated, accepted or rejected, and copied again, as a reduction does. The grammar is
  a small one of the repository: the clauses of `clauses/label.go`, whose schema is the
  list of labels known so far, and the loop that imports variables into a CALL subquery.
  One byte of the model is all the bytes of one choice.
* **CypherGrammar** - the grammar by which reported statements are analysed: one
  definition per method of `CypherParser.py`, named after it, with its alternatives in
  the order of the method.
* **QueryAnalysis** - `main.py`, `to_row` and the listener of `analyze.py`, over that
  grammar. A statement is a sequence of tokens. ANTLR is external: `threads` holds every
  reading of the tokens so far, the preferred one first; the walker calls the listener
  in the order of the text; after an error any prefix of the calls may have been made,
  with any rules left open.
* **MC...** - values for the constants.
* **..._proofs** - theorems, see section 5; **Scheduler_proofs** holds the lemmas that the
  proofs about the three fuzzing runs share.

## 3. What is checked

The fuzzing runs include crashes, restarts with and without loss of data, failed
resets, timeouts, and an abandoned goroutine that may reach the database at any
later time.

| Run | Question | Result |
|---|---|---|
| EquivalenceNeo4j | equivalence transformation with neo4j's verdicts and its hidden reset failures: are comparisons aligned, alarms justified, reports replayable, queries over once reported, and is the whole a differential oracle? | holds |
| PartitioningFalkorDB | predicate partitioning with falkordb's verdicts (an EOF is Valid, nil rows make everything Invalid until the next reset): is the baseline always the query's own and never one with lost rows, is a mismatch justified when the RETURN is a plain one, and is the whole a differential oracle? | holds |
| NoneNeo4j | crash fuzzing with neo4j, whose driver hides failed resets and loses errors of transactions: does a report list what led to the failure and end the query, and does the run end, also when the database stays down? | holds |
| NoneReduction | does a reduction without a strategy keep a bug that shows as an error, end, and leave nothing over, and do its recursive traversals find the clause at every index? | holds |
| EquivalenceReduction | do the halves stay parallel, is every proposal judged exactly, does a reduction end, full or not, is a full one complete, and do its recursive traversals find the clause at every index? | holds |
| Bisection | is the commit written a boundary of its own report's bug, is the end announced only when all is bisected and stopped, does a shutdown stop every job, and does the program end, whenever an interrupt comes? | holds |
| SchemaScope | does the generator only refer to names that are in scope and declare none twice, and have all parts of a UNION the same columns? | holds |
| StatementGeneration | is what a capturer gave given again, is the limit on AST nodes exact, and do the bytes of a report generate its statement again? | holds |
| QueryAnalysis | is every statement parsed to its end and in one way only, and is its row its own, and the recorded one? | holds |
| CrashNotRecovered | is a crash recovered from "if this wasn't the last query"? | **violated** |
| BisectionLogicBug | is the commit also a boundary of a bug that shows in the rows? | **violated** |
| UnstableReplay | do the bytes of a report also generate a CALL subquery again that may import two variables? | **violated** |

### The properties

* `ComparedWithOriginal`: the index the comparison uses is in range and names the
  result of the same statement's original, which ran without an error. With predicate
  partitioning: the kept result is that of the captured query.
* `NoFalseAlarm`: a mismatch in an untainted query means that one of the two
  results is wrong; with predicate partitioning, when the RETURN is a plain one. The
  exceptions are real false alarms: an error that neo4j's driver loses taints the query,
  and a DISTINCT, SKIP or LIMIT in three parts may return other rows than once (see
  the findings). The premise also excludes results with an error: with falkordb an
  EOF is Valid, so a transformed statement that took the database down, which then
  came back before the check, is compared with its original and reported as a bug.
  That is a report about a real crash under the wrong name.
* `ReportReplaysFailure`: replaying the report the way `RerunQuery` and `Reduce` do
  it (two halves on an empty database for equivalence transformation, all
  statements otherwise) brings the database to where the failing statement found
  it, and that statement is the report's last.
* `ReportEndsQuery`, `PartitioningEndsQuery`: a query that was reported, or whose
  partitions ran, gets no further statement.
* `CrashIsRecovered`: a crash that was not in the last query is recovered from before
  anything else is asked or generated. This is what the comment at the code says, and it
  is false. `PartitioningEndsQuery`, and `ReportEndsQuery` of FuzzNone, need a limit that
  no query has as many statements as, see below.
* `ImplementsOracle`: the refinement described above.
* `RunEnds`: liveness, see section 4.
* `ReducedShowsBug`: what is kept, and the result that is reported, shows the bug, if it
  shows as an error (see the findings for a crash after the answer).
* `NothingLeftOver`: without a strategy, the report would be rejected with one more
  statement dropped or one more clause made smaller. The indices of the
  steps run over trees that shrink; none may jump over what moved.
* `HalvesStayParallel`: from the first step on, which therefore is always accepted,
  both halves of every proposal mean the same, statement by statement.
* `ValidationIsExact`: a proposal is kept if and only if its second half, run on its
  own, shows the bug.
* `FullReductionIsComplete`: after a full reduction nothing can be removed any more.
  It is claimed for equivalence transformation only, see below.
* `ReductionEnds`: liveness, see section 4.
* `NoneTraversalsAgree`, `EquivalenceTraversalsAgree` (in the MC modules of the two
  reductions): the traversals of ClauseTraversal find what they are meant to find.
* `OffendingIsBoundary`: the commit written for a report counts as bad and the one
  before as good, by the report's own query at these commits, unless these are the two
  commits that were given.
* `FinishedMeansBisected`: "finished" is only said when every report has its commit and
  every job was stopped.
* `ShutdownStopsJobs`: a graceful shutdown leaves no job running, except one the main
  goroutine started after the shutdown had come to it.
* `ProgramEnds`: liveness, see section 4.
* `NamesInScope`: what the generator may refer to next is in the scope of the text at
  that place, whatever subqueries, unions, iterators and WITHs came and went.
* `UsedNamesPersist`: the generator knows every name it declared, also those of scopes
  that were put away.
* `UnionPartsAgree`: all parts of a UNION return the same columns, and all UNIONs of a
  (sub)query are of one kind.
* `CapturedIsKept`: a capturer under which nothing was changed gives the text it gave
  before and draws no byte, whatever was done to its copies and to what it is a copy of.
* `LimitIsExact`: exactly the statements of fewer than `MaxASTNodes` clauses are generated.
* `ReportRegenerates`: the bytes of a report generate the reported statement, and no byte
  beyond them is drawn.
* `OpenCypherIsParsed`: no statement of the openCypher clauses is a syntax error to the
  grammar; the analysis would measure half of it, unnoticed.
* `OneReading`: all ways to parse such a statement make the same listener calls, so that
  it does not matter to a row which one the parser prefers.
* `RowIsOfItsQuery`: a row is what its own statement measures, whatever was measured, or
  given up in the middle of nested scopes, before.
* `RowAsRecorded`: ten recorded statements get the row they have in `data/results.csv`.

### The findings

Each of these is the counterexample of a run:

1. UnstableReplay: `cmd/regenerate.go:22` says that the command "reads in the associated
   byte string, uses it to regenerates the query", and `scheduler.go:300` titles it "The
   byte string that generates a query triggering this bug". But `call_subquery.go:54`
   and `60` draw one byte per variable while they range over Go maps, whose order is
   another one each time: with two variables in scope the same bytes import other ones.
   `rootclause_transformer.go:117` and `transformation_clauses.go:94` range over maps as
   well. StatementGeneration, with one variable to import, holds.
2. BisectionLogicBug: `runner.go:183` says "If the result hasn't changed, the bug is still
   present", but line 184 hands `ValidateReductionResult` the new results as the original
   ones and the original ones as the new, against `strategy.go:99`. The difference is then
   looked for in the original results, where it always is; the new ones only count by
   their errors. A commit at which a logic bug is gone counts as bad. Bugs that are
   errors are bisected correctly, which run Bisection checks and `BoundaryIsFound` proves.
3. CrashNotRecovered: `scheduler.go:147` says "Recover DBMS if this wasn't the last query",
   but line 148 compares `statementCount` with `QueryLimit-1`: one counts the statements of
   a query, the other queries. With a limit of two, a crash at the second statement of
   the first query is not recovered from; the next reset or schema finds the database
   down and ends the run. A crash in the last query may be waited for, for nothing.

Met while modelling, and left without a run of their own. In the fuzzing loop:

* A query that crashed the database in the statement which `scheduler.go:148` takes for the
  last query goes on after it was reported when the driver's `DiscardQuery` wants it to
  (none), or always (predicate partitioning, whose `DiscardQuery` looks at the error of the
  result and not at its verdict: when the original query crashes the database right after
  it was answered, the partitioned one is compared with an empty result once the database
  is back). The other runs and the theorems of these two strategies therefore assume a
  limit out of the statements' reach. Equivalence transformation gives a query up on
  any verdict but Valid and is immune: its theorems hold for every limit.
* `neo4j/driver.go:99-143` only keeps the errors of the statements themselves. One that
  `ExecuteWrite` or `ExecuteRead` returns because no connection was had, or a transaction
  could not be begun or committed, is logged at the debug level and dropped. The result has
  no error, and no rows or no schema: it is Valid, and compared. A transformed statement
  whose COMMIT failed is reported as a logic bug, and an original one is a baseline that
  every correct database differs from. `dbms.go:14` calls the field "the error
  produced by running a query".
* `predicatepartitioning/strategy.go:58-71` repeats the captured RETURN in three parts of a
  UNION ALL. Only aggregate functions are forbidden in it (line 48); `return.go:30-39` may
  put a DISTINCT, SKIP or LIMIT there. Three times distinct rows, or three times the
  first row, are not what the original query returns: a correct database is reported.
* `scheduler.go:190` says "Kill query". Nothing is killed: the goroutine and its statement
  live on, which is what `OrphanRuns` models.
* `neo4j/driver.go:61` logs a failed reset and returns nil, against `dbms.go:97` and against
  the check in `Run`.
* `falkordb/driver.go:176` leaves it to the scheduler to find out whether an EOF was a
  crash; a database that its container restarted in time looks fine, and the
  statement that crashed it counts as Valid.

In the reductions:

* `reduce.go:22` wants an example "triggering the bug". When the last result of a report
  has no error (a crash right after the answer), `none/strategy.go:192-193` accepts every
  proposal whose last result has none: the verdict, and with it the crash, is not
  compared, and the reduction ends with one statement that shows nothing.
* `cmd/reduce.go:57` promises "Repeating reduction until no further changes occur". Without
  a strategy the context (`none/strategy.go:67`) is not reset, and the repeated pass is
  over at once.
* `strategy.go:98` says "true if the results still point to the same bug". Equivalence
  transformation compares all errors one by one when there are as many results as in the
  original run (`equivalencetransformation/strategy.go:94`), even though other statements
  were run. A bug in the original statements makes the query twice its original
  statements (`reduce.go:31`), and half of that may have the same length.
* `none/strategy.go:75` says "until all expressions got touched". The index counts the
  expressions that are left; when one was replaced, the next one has its index, and
  is skipped. The second phase replaces it too, but no longer tries what is smaller
  than a literal.
* `equivalencetransformation/strategy.go:132` resets the database between the halves, and so does
  `reduce.go:160`; the final run at `reduce.go:116` does not. The report shows a
  result of the last statement that no validation has seen.

In the bisection:

* `lastRes`, in which a worker keeps the result it compares with (`runner.go:134`, `152`),
  is never assigned. The bisected report is written under a new name (`cmd.go:86`), and
  the original stays unbisected. `Fatalf` and a panic of a worker leave the jobs
  running. An interrupt during the setup passes jobs that are started later. With
  `--invert` and a bug that is there at both ends the boundary means nothing.

In schema and clauses:

* The names of a WITH list never get into the schema, as `elementName` is not set
  (`with.go:93`): nothing can refer to them. The test for `WITH *` in
  `call_subquery.go:48` looks at the new, empty schema. `AddProperty` registers a
  property twice (`schema.go:263`); the condition at line 163 is always true.
* `translator.go:72` says "at most" of the limit on AST nodes; a statement of exactly that
  many clauses is rejected, which `LimitIsExact` states.

In the analysis:

* The operator IN counts as a scope; a name that is a variable and a property key counts as
  what it was seen as first; the last column is called target and holds the strategy.

### Bounds

* `MaxStatements` (3): generated statements per query. The interesting cases of
  the lists need two originals that are kept and one that is dropped; three allow
  every such order, and the transformed phase adds as many.
* `MaxOrphans` (1: a second orphan does what the first does). In NoneNeo4j, which
  has a liveness property, it is the query limit: each query abandons at most one
  statement, so the bound never disables a timeout.
* `Errors`: one error of each verdict a driver can give; the errors left out of the runs
  (`network`, `reported`, and in EquivalenceNeo4j `timeout`, whose verdict is that of a lost
  connection) have the verdicts `Bug`, `ReportedBug` and `Timeout`, and ReportedBug is
  handled as any result that is neither Valid nor reported. The theorems are about all
  of them.
* `Driver`: neo4j and falkordb differ in their verdicts and resets. Each run takes one;
  the theorems hold for both.
* `QueryLimit`: unlimited in EquivalenceNeo4j, where queries need not be counted and
  anything a query leaves behind may meet any later one; 5 in PartitioningFalkorDB and 4
  in NoneNeo4j, out of reach of the statements of a query; 2 in CrashNotRecovered, which
  is in their reach.
* `DBConnectionRetries`: 1, the smallest with a retry.
* `Shapes`: for each statement of the report, the trees it may be. Three statements (one
  in the middle can be removed) of up to four clauses, with an expression in an
  expression, a clause below and beside an expression, and a clause that is replaced
  by its subclause at the root and below it. For the properties of ClauseTraversal it is
  every tree of up to four clauses as well, and every index up to five.
* `MaxTrigger` (2): the bug depends on one or two parts, of one statement or of two.
  With two, one part may be below or after the other, which is what decides whether
  an index still points to the right clause.
* `Bugs` in EquivalenceReduction: differences in rows and errors found in the
  transformed phase; errors of the original phase are judged as described above.
* Bisection: three reports, two of them of one target, so that one worker is done before
  the other and one counts down from two; three and four commits, the fewest with a
  step in either direction; any behaviour at each commit; a limit of one replica.
  BisectionLogicBug needs one report.
* SchemaScope: 4 names, 12 clauses and 3 open scopes, enough for a name before, in and
  after a subquery with a UNION, or for a scope in a scope. The
  proofs of its three properties have no bound.
* StatementGeneration: two bytes, so that each choice has two outcomes; a limit of 10
  clauses, with which statements are rejected at every depth; given strings that are
  empty, too short and long enough; two steps of reduction, so that a copy of a copy is
  changed. `MaxImports` is 1, and 2 where the order of a map is the question.
* QueryAnalysis: 24 expressions, each in eight clauses, which between them call every
  method of the parser that dinkel's clauses can reach; every one followed by a report
  that must not know of it. Four statements the grammar does not know, given up after any
  prefix, are followed by such a report, too, with empty reports around them. Ten
  recorded statements are in the run; all 130 of `data/results.csv` were reproduced once
  in this way.
* Deadlock is not checked: `Run`, `Reduce`, the bisection, a generation and the analysis
  end, and then nothing but the database moves.

## 4. Fairness

`FairSpec` assumes weak fairness of the fuzzer's own steps only: `Run` is a
sequential Go function, its timer fires, and its `select` wakes up when the timer
fires. Nothing is assumed of the database, of the goroutine inside the driver, or
of what restarts the database: a statement may hang forever. `ForcedTimeout` is
what makes `RunEnds` hold; the mutant `TimeoutWaitsMutant` (the timeout is only
looked at once the driver returned) breaks it.

`Reduce` is sequential as well, and every statement it runs returns after
`RunQuery`'s timeout: `FairSpec` of the reductions assumes that some step is taken as
long as one can be. `Fail` is always possible in a run, so nothing is assumed of the
database.

In a bisection each goroutine is scheduled: weak fairness of the main goroutine, of
each worker, and of each goroutine that shuts down. Biscepter is an environment of which
one thing is assumed, that for each report it brings some commit online as long as there
is one to be judged. Nothing is assumed of interrupts, panics or failing setups.

Liveness under `DBConnectionRetries = -1` is not claimed: `ConnectToDB` then
retries forever.

## 5. What is proved

TLAPS checks, for every value of the constants:

| Module | Theorems (property of the runs) |
|---|---|
| `FuzzEquivalence_proofs` | `Invariance`, `TypeCorrectness` (`TypeOK`), `ComparisonIsAligned` (`ComparedWithOriginal`), `AlarmsAreJustified` (`NoFalseAlarm`), `ReportedQueryIsOver` (`ReportEndsQuery`), `ReportsAreReplayable` (`ReportReplaysFailure`), `Refinement` (`ImplementsOracle`) |
| `FuzzPartitioning_proofs` | `Invariance`, `ComparisonIsAligned` (`ComparedWithOriginal`), `AlarmsAreJustified` (`NoFalseAlarm`), `PartitionedQueryIsLast` (`PartitioningEndsQuery`), `ReportsAreReplayable` (`ReportReplaysFailure`), `Refinement` (`ImplementsOracle`) |
| `FuzzNone_proofs` | `Invariance`, `ReportedQueryIsOver` (`ReportEndsQuery`), `ReportsAreReplayable` (`ReportReplaysFailure`) |
| `Reduction_proofs` | without a strategy: `ContextIsTrue`, `TypeIsOK` (`NoneTypeOK`), `NothingIsLeftOver` (`NothingLeftOver`), `ReductionIsSound` (`ReducedShowsBug`) |
| `Reduction_proofs` | equivalence transformation: `HalvesAreKept`, `HalvesAreParallel` (`HalvesStayParallel`), `PassesAreExact`, `ValidationJudgesTrigger` (`ValidationIsExact`), `FullReductionLeavesNothing` (`FullReductionIsComplete`) |
| `Bisection_proofs` | `Invariance`, `TypeCorrectness` (`TypeOK`), `FinishIsComplete` (`FinishedMeansBisected`), `ShutdownIsClean` (`ShutdownStopsJobs`), `BoundaryIsFound` (`OffendingIsBoundary`) |
| `SchemaScope_proofs` | `Invariance`, `NamesAreKnown` (`UsedNamesPersist`), `ScopeInvariance`, `NamesAreInScope` (`NamesInScope`), `UnionsAgree` (`UnionPartsAgree`) |
| `StatementGeneration_proofs` | `TheLimitIsExact` (`LimitIsExact`), `CapturedTextsAreKept` (`CapturedIsKept`) |

Assumptions: those the modules state of their constants (limits are naturals or -1, the
driver is neo4j or falkordb, the errors are error kinds, every target has a report, and
so on), and three that are part of theorems:

* `LimitIsOutOfReach`, in `FuzzPartitioning_proofs` and `FuzzNone_proofs`: no statement of a
  query has the number `QueryLimit - 1`, with which `Run` compares it (see the findings). No
  limit, the default, satisfies it. Without it these theorems are false: a query that
  crashed the database goes on.
* `BoundaryIsFound` assumes that the bugs are errors. For bugs that show in the rows it is
  false, see run BisectionLogicBug.
* `PassesAreExact`, `ValidationJudgesTrigger` and `FullReductionLeavesNothing` are about
  bugs that the transformed phase found (`bug[2] = "transformed"`), as the run is. An
  error that an original showed is compared with the results of the whole report
  (`SameErrors`): in a proposal that happens to have as many statements as the report it is
  looked for at another place. `HalvesAreParallel` needs no such assumption.

**Equivalence transformation.** `ComparedWithOriginal` is not inductive: that the index
is in range follows from how the lists grew over the whole query. `IInv` adds what ties
them together, in parts:

* `CallShape`: while a statement runs nobody holds its result, and a result in the
  channel or in `res` is the current statement's;
* `StatementShape`: the k-th generated statement means k, and those before the
  index, and only those, are transformed;
* `QueryShape`: the query consists of the originals in order, perhaps one that was
  dropped, and the transformed ones up to the current one;
* `ResultsShape`: the first results are those of the originals, in order, without
  errors, and trustworthy, and in an untainted query complete (`got`);
* `LatestShape`: the result `Run` holds is that of the current statement;
* `DatabaseShape`: in an untainted query the database holds the writes of the
  statements of this phase so far, in order - the reason why equal statements see
  equal databases. A lost error of a transaction taints the query, as it may have
  rolled back a write that looks done;
* `AlarmShape`: `NoFalseAlarm` for the states in which the result is still held.

`IInv` was first checked by TLC as an invariant of the run. `ReportEndsQuery` adds to it
that a reported verdict is on its way to `DiscardQuery`. The refinement needs two more
facts (`OutcomeInv`: a query that is over left nothing behind that looks like a running
one; a baseline is trustworthy) and goes step by step: each action of `Next` is one
action of the oracle or leaves its state unchanged.

**Predicate partitioning.** The same argument with flags in place of lists: which of the
three statements is being run is tied to the flags (`PhaseShape`, `QueryShape`), the kept
result to the original query and, as that query only reads, to what the database still
holds (`BaselineShape`); `CountShape` bounds the number that is compared with the limit.
That a result with an error or with lost rows is never the baseline is where the verdict
(`Valid`) and the driver's `returnedNil` come in. That the partitioned query means what its
original does is only known when the RETURN is a plain one (`SameMeaning`); that it is
compared with its own original does not depend on it.

**Without a strategy.** What is held is tied to the verdict: a report means `Bug` or
`Crash`, a bug has an error on which both drivers discard the query, and a crash never
gets to `DiscardQuery` as long as the limit is out of reach.

**Replay.** The database holds a trace of the query: the writes of its first n statements,
all but the current one while that is still running (`IsTrace`). `TraceShape` says where in
`Run` which n it is, for as long as nothing else reached the database, and `ReportIsQuery`
that a report is the query with the failing statement last; the lemmas of
`Scheduler_proofs` show both for the steps that all strategies share. Under equivalence
transformation a query is two halves: `ReplayInv` says that its originals, without the one
that was dropped, come first, and that the transformed ones mean the same in the same order
(`QueryForm`), so that what `PrepareQueryForBugreport` cuts off leaves two equal halves.

**Reduction.** `ReducedShowsBug` is inductive: steps of the strategy only propose, and only
what was validated is kept, which shows the bug when that is an error. Everything else is
about what the verdict accepts, the queries that have all of `Cause` (`NoneVerdictIsCause`):
what the bug depends on, or nothing at all when it shows as a crash. `NothingLeftOver` is not
inductive: when the last index has run out, that
nothing before it can be reduced must be known from long ago, of statements that have
shrunk since. `IInv` speaks of the query that the next verdict will keep (`Kept`), and
`Context` says what the indices claim of it: the statements after the next one to remove are
needed, the statements before the current one are settled, and the current one is settled
from the next clause on, where settled means that no clause there can be made smaller
without being rejected. The lemmas show why this survives an accepted step. Making a clause
smaller only takes parts away (`ReducedIsMonotone`), so what was needed stays needed. In the
tree that is left, each clause after the place has a counterpart in the tree before it,
and reducing it leaves no more than reducing the counterpart did (`CounterpartReduces`), so
what was settled stays settled, although subtrees are lifted, whole chains cut off and
numbers shifted. The proof assumes of the statements (`ShapesAssumption`) that they are
trees and that a chain has at least one clause: the clause it picks,
`GetSubclauseClauseCapturers()[0]`, which `property.go` and its like index
unconditionally.

**Reduction of a difference.** A proposal that does not show the bug any more must be told
from one that does by comparing two halves, and that comparison only means something as long
as the halves are parallel. So everything rests on `HalvesInv`: after the first step, in
what is proposed and in what is kept, each statement of the first half is what its
counterpart in the second half means (`Mirrored`), and the keys of the context point into
them (`Bounded`). The first step drops the originals whose transformed statement was never
run; it is not tried again, so it has to be accepted. That is shown of `FirstProposal`:
originals and transformed statements come in the same order, the second half holds the
statement that showed the bug, and the verdict on mirrored halves is whether the second half
has what the bug depends on (`VerdictIsTrigger`). That lemma is where the comparison of
results by their place, the reset between the halves and the errors of the report come in.
The other steps change both halves alike: undoing a transformation does not change what a
statement means, and making a clause smaller commutes with forgetting transformations
(`ReducedMeaning`), subtrees and chains included.

`FullReductionIsComplete` says more than that the last pass tried everything: it ran over
the query it was given, and a step that was accepted in the middle of it would invalidate
what it had found before. The code repeats a pass until the statements are those of the pass
before. `PassInv` follows one pass: what is kept (`KeptHalf`, the half the next verdict is
going to keep) is at most as large as at the end of the last pass, and, if it is the same,
every statement, transformation and clause that the keys have passed was tried in vain
(`Tried`). The order is one of statements and not of sizes (`Smaller`: fewer statements or
clauses, or the same number and each clause the same or lighter); it is transitive and
antisymmetric, so a pass that ends with the statements it began with changed nothing in
between. That no index jumps over anything is the other half of the argument:
`flipTransformed` goes to the first transformation in use at or after its index, which
counts the undone ones as well (`NextInUse`), and clauses inside a transformation in use are
not counted, as the halves need not have them in common.

**Bisection.** A worker counts its reports down; `WorkerShape` says that the count is the
number of its reports without a commit (a cardinality, for any finite set of reports),
and that it stops its job before it notifies the main goroutine; `MainShape`, that the
main goroutine waits for exactly the workers that have not notified it; `ShutdownShape`,
that what a shutdown has come to is stopped or was started later; `SystemShape`, that the
commit being judged lies strictly between the good and the bad one. The last gives the
boundary: the two always count as good and bad, and meet.

**Scopes.** `SchemaScope_proofs` shows that every schema, those that wait in `todo` to be
put back included, refers to the same map of used names, that this map is never the map
of variables that scopes replace and fill, and that it is what the text declares. It
rests on there being a first free name (well-foundedness of the naturals).

That the generator refers only to names in scope is not inductive: a schema that is put
back must have been right while it waited, among clauses that are still to come. The
invariant (`ScopesAgree`) lays `todo` out over the open scopes of the text: there is a scope
for each entry (`lv`), and something that each scope owes to what is around it (`owed`: must
it return, which columns, which kind of UNION). `Laid` says that the entries of a scope come
before those of the next one and in an order the grammar allows: what comes after the last
clause of a (sub)query, say, is the end of a (sub)query or of a part of one. `Columns` says
that a kept schema owes what the scope it leads to owes, and that the end of a part finds its
columns returned or something before it that will still return them. `InNames` says that the
variables of a kept schema are in the scope it leads to, and that no two of the schemas share
a map of variables, so that a name which one scope adds to its map is in no other. Of each
action it is shown that it is one of four kinds of step (it goes on in the innermost scope,
opens one, ends one, or goes on with or ends a UNION), and of each kind, once, that it keeps
the invariant.

**Generation.** `LimitIsExact` is about the sum of what a whole stack of calls has counted.
The invariant needs no sum: each call's limit is what its caller's had left when it made the
call, so the limits telescope, and the number of calls so far is `MaxASTNodes` minus what
the innermost limit lacks plus what the innermost call has counted (`IsStack`). A call that
finds its limit used up is, by that, the `MaxASTNodes`-th.

`CapturedIsKept` is about a heap of capturers that is never tidied: `Copy` leaves a whole
tree beside the one it copies, and `UpdateClause` takes over the subclauses of another
capturer, which itself is then referred to by nobody. The invariant (`KInv`, with `Keeps`)
says that there is a set `live` of capturers in use, closed under subclauses, of which
each refers only to later ones and no two refer to the same one (`Links`, `Forest`), the
root and the accepted statement being referred to by none (`IsTop`). Each capturer in use
keeps nothing, or what its subclauses keep followed by its own name (`Consistent`), unless
some call that generates it has learned of a change below it (`Unclean`). Of each call the
stack remembers enough (`Frame`): the text since its start is what the subclauses it has
been through keep, and as long as it is clean its capturer keeps something and no byte was
drawn. At its end a clean call has therefore written what its capturer kept. A change
reaches every capturer above it because a change is only made in the innermost call, all
of whose callers are then unclean too (`AllUnclean`), and a capturer has no other above it
because of the forest: that is why the invariant must say that copies share nothing. That
`Copy` makes such a forest is shown from the ranks of what it copies, an induction over a
finite set of numbers and none over trees. A statement that has failed, or is bound to
fail because its limit is used up (`Exhausted`), is generated no further, and nothing is
claimed of its capturers.

**Only model-checked**:

* liveness, which is outside the prover's reach;
* ClauseTraversal and QueryAnalysis, whose properties speak of what recursive operators
  compute, and StatementGeneration's `ReportRegenerates`, which is an induction over the
  trees a seed gives: neither recursion nor induction over data is within the prover's reach;
* the types of the models that have no theorem about them.

## 6. Not modelled

* In the fuzzing runs, a logic bug on top of a lost error of a transaction, and the indexes
  and constraints that neo4j's reset keeps in backwards compatible mode
  (`neo4j/driver.go:65-68`): a result depends on the written data only.
* The text of statements: that a transformed clause means the same is the
  specification of the transformations, taken as given (`sem` is kept).
* In the fuzzing runs, which statements a seed produces: every choice is possible.
* In a reduction: that a proposal may be invalid Cypher (it is rejected like any other
  that no longer shows the bug), that a transformed clause may repeat or drop
  subclauses, the schema a changed clause is generated with, and a report that no
  longer shows the bug when it is run again. A crash right after the answer may not end the
  regeneration at the statement that crashed (`Run` left without asking `DiscardQuery`, whose
  byte the report then lacks): the query that NoneReduction starts from ends there.
  EquivalenceReduction starts from bugs that a difference or an error shows.
* In the generation, a report of more than one statement: the bytes of the model are those
  of one, without what `DiscardQuery` draws between two of them.
* In the generation: drop-ins and their adaption to an implementation (a copied capturer
  loses them), and `RenewClause`, which only tests call. How the helpers of `seed` turn
  bytes into integers and probabilities.
* In the schema: the names that the clauses of a transformation declare (`DeadCode`,
  `NonexistantPattern` in `transformation_clauses.go`), which are in the second phase of
  equivalence transformation only, types, labels, properties, the config flags that forbid clauses
  (`DisallowWriteClauses`, `CannotReturn`; nobody sets `DisallowDeletedWriteTargets`), and
  expressions that open no scope. `generateName` may give a reserved word; here names are
  numbers. `SubqueryExpression` confuses properties and structures to return for COLLECT;
  nothing uses that.
* In the analysis: white space (SP) tokens, the Unicode variants of arrows and dashes,
  the columns that hold the size and the text, and the YAML around a report. The lexer is
  modelled by the kinds of its tokens.
* In the bisection: `cmd.go`, which reads flags and reports and writes the results.
* Drivers: the matching of single rows, neo4j's extraction of labels, `ranQueries` of
  falkordb (its restart is part of the reset), up to 101 attempts to reconnect, which
  change what is waited for and not what follows; memgraph, Apache AGE, redisgraph and
  the mock, which are further verdict tables behind the same interface.
* Rerun runs a recorded query once and prints it; the report browser and the commands are
  sequential code around the components above; nothing in the program reads the metrics.
* Statistics, key bindings, logging, and the file a report is written to. A data race on
  `stats.queries` (`scheduler.go:95` and `413`) reaches only what is printed.

## 7. Where this could go

What is left of the logic is listed in section 6. Of it, these would add most: the types
and properties of the schema, as a second schema in SchemaScope; `RerunQuery` and the
regeneration of a report joined with StatementGeneration; the matching of rows in the
drivers against equality of multisets.

Modules that are proved about use no RECURSIVE operator.
