------------------------------ MODULE Scheduler ------------------------------
(***************************************************************************)
(* The fuzzing loop of scheduler/scheduler.go together with the database   *)
(* it drives.  Run generates queries; a query is a sequence of statements, *)
(* each sent to the database by a goroutine of its own (RunQuery) that Run *)
(* waits for, but no longer than twice the timeout.  The strategy is left  *)
(* open: the modules that extend this one join its calls to the steps      *)
(* below that make them.                                                   *)
(*                                                                         *)
(* The database and its supervisor are the environment: a statement may    *)
(* take forever, fail, crash the database or trigger a logic bug, and a    *)
(* database that is down may come back at any time.                        *)
(***************************************************************************)
EXTENDS Dbms, Integers, FiniteSets

CONSTANTS
  QueryLimit,          \* conf.QueryLimit, -1 if unlimited
  DBConnectionRetries, \* conf.DBConnectionRetries, -1 if unlimited
  SuppressBugreport,   \* conf.SuppressBugreport
  Driver,              \* whose verdicts conf.DB gives: "neo4j" or "falkordb"
  Errors,              \* the errors the database produces (bounds the model)
  CanCrash,            \* whether a statement may take the database down
  ResetCanFail,        \* whether a reset may fail without its caller noticing
  MaxStatements,       \* no more generated statements per query (bounds the model)
  MaxOrphans           \* no more abandoned goroutines (bounds the model)

ASSUME QueryLimitAssumption == QueryLimit \in Nat \cup {-1}
ASSUME RetriesAssumption == DBConnectionRetries \in Nat \cup {-1}
ASSUME DriverAssumption == Driver \in {"neo4j", "falkordb"}
ASSUME ErrorsAssumption == Errors \subseteq ErrorKinds
ASSUME FlagsAssumption ==
  /\ SuppressBugreport \in BOOLEAN
  /\ CanCrash \in BOOLEAN
  /\ ResetCanFail \in BOOLEAN
ASSUME BoundsAssumption == MaxStatements \in Nat \ {0} /\ MaxOrphans \in Nat

VARIABLES
  pc,             \* where Run is
  attempts,       \* i of ConnectToDB
  queries,        \* stats.queries
  statementCount, \* statementCount of the statement loop
  query,          \* the statements generated so far
  res,            \* the result RunQuery returned
  report,         \* the statements of the bug report written for this query
  running,        \* whether RunQuery's goroutine is inside DB.RunQuery
  resChan,        \* the buffered channel of RunQuery
  orphans,        \* goroutines still inside DB.RunQuery that nobody waits for
  up,             \* whether the database is reachable
  contents,       \* what was written to the database since it was last empty
  returnedNil,    \* falkordb's returnedNil
  tainted         \* whether something other than the query's own statements
                  \* decided what the database holds, or what one of them
                  \* did was lost on the way to Run (history variable)

runVars    == <<pc, attempts, queries, statementCount>>
resultVars == <<query, res, report>>
callVars   == <<running, resChan, orphans>>
dbVars     == <<up, contents, returnedNil, tainted>>
schedulerVars == <<runVars, resultVars, callVars, dbVars>>

DriverResultTypes ==
  IF Driver = "neo4j" THEN Neo4jResultType ELSE FalkorDBResultType

(* What a goroutine nobody waits for, or an earlier query, left behind.    *)
(* The statements of a query have meanings from 1 on.                      *)
Foreign == 0

Statements ==
  [sem: Nat \ {0}, form: {"original", "transformed"}, writes: BOOLEAN]

Locations ==
  { "connect", "query", "generate", "await", "verify", "tally", "recover",
    "discard", "done", "failed" }

SchedulerTypeOK ==
  /\ pc \in Locations
  /\ attempts \in Nat
  /\ queries \in Nat
  /\ statementCount \in Nat
  /\ query \in Seq(Statements)
  /\ res \in QueryResults
  /\ report \in Seq(Statements)
  /\ running \in BOOLEAN
  /\ resChan \in Seq(QueryResults)
  /\ orphans \in Nat
  /\ up \in BOOLEAN
  /\ contents \in Seq(Nat)
  /\ returnedNil \in BOOLEAN
  /\ tainted \in BOOLEAN

SchedulerInit ==
  /\ pc = "connect"
  /\ attempts = 0
  /\ queries = 0
  /\ statementCount = 0
  /\ query = << >>
  /\ res = NoResult
  /\ report = << >>
  /\ running = FALSE
  /\ resChan = << >>
  /\ orphans = 0
  /\ up \in BOOLEAN
  /\ contents \in {<< >>, <<Foreign>>}
  /\ returnedNil = FALSE
  /\ tainted = FALSE

-----------------------------------------------------------------------------
(* Resetting the database through the driver. *)

(* The driver emptied the database. *)
ResetSucceeds ==
  /\ up
  /\ contents' = << >>
  /\ returnedNil' = FALSE
  /\ UNCHANGED up

(* The reset returned an error, having emptied the database or not.  What  *)
(* is left in it counts as one foreign write.  falkordb's driver shuts the *)
(* database down every once in a while: it may still be down when the      *)
(* driver gives up on it, with returnedNil as it was.                      *)
ResetFails ==
  /\ ~up \/ ResetCanFail
  /\ contents' \in {<< >>, IF contents = << >> THEN << >> ELSE <<Foreign>>}
  /\ returnedNil' \in {returnedNil, FALSE}
  /\ up' \in {up, up /\ Driver = "neo4j"}

-----------------------------------------------------------------------------
(* The steps of Run outside of a query. *)

(* An attempt of ConnectToDB fails; the last one ends Run. *)
ConnectFails ==
  /\ pc \in {"connect", "recover"}
  /\ ~up
  /\ IF DBConnectionRetries = -1
       THEN UNCHANGED <<attempts, pc>>
       ELSE /\ attempts' = attempts + 1
            /\ pc' = IF attempts < DBConnectionRetries THEN pc ELSE "failed"
  /\ UNCHANGED <<queries, statementCount, resultVars, callVars, dbVars>>

(* Leaving the statement loop: the next query.  An unlimited run does not  *)
(* look at how many there were, so they are only counted up to a limit.    *)
NextQuery ==
  /\ pc' = "query"
  /\ queries' = IF QueryLimit = -1 THEN queries ELSE queries + 1

(* ConnectToDB succeeds, at the start or to recover from a crash. *)
Connected ==
  /\ up
  /\ attempts' = 0
  /\ \/ /\ pc = "connect"
        /\ pc' = "query"
        /\ UNCHANGED queries
     \/ /\ pc = "recover"
        /\ NextQuery
  /\ UNCHANGED <<statementCount, resultVars, callVars, dbVars>>

LimitReached ==
  /\ pc = "query"
  /\ queries = QueryLimit
  /\ pc' = "done"
  /\ UNCHANGED <<attempts, queries, statementCount, resultVars, callVars, dbVars>>

(* Wrong on purpose: the statements are those of all queries. *)
QueryNotClearedMutant ==
  /\ pc = "query"
  /\ queries # QueryLimit
  /\ ResetSucceeds \/ (ResetFails /\ Driver = "neo4j")
  /\ tainted' = (contents' # << >>)
  /\ pc' = "generate"
  /\ statementCount' = 0
  /\ report' = << >>
  /\ res' = NoResult
  /\ UNCHANGED <<attempts, queries, query, callVars>>

(* A query begins: the database is reset, and Strategy.Reset is called.    *)
(* neo4j's driver logs a failed reset and returns nil.                     *)
BeginQuery ==
  /\ pc = "query"
  /\ queries # QueryLimit
  /\ ResetSucceeds \/ (ResetFails /\ Driver = "neo4j")
  /\ tainted' = (contents' # << >>)
  /\ pc' = "generate"
  /\ statementCount' = 0
  /\ query' = << >>
  /\ report' = << >>
  /\ res' = NoResult
  /\ UNCHANGED <<attempts, queries, callVars>>

(* The driver reports that it could not reset the database, or, when the   *)
(* next statement is due, that it could not read the schema.               *)
DatabaseUnusable ==
  /\ \/ /\ pc = "query"
        /\ queries # QueryLimit
        /\ Driver = "falkordb"
        /\ ~up \/ ResetCanFail
     \/ /\ pc = "generate"
        /\ ~up
  /\ pc' = "failed"
  /\ UNCHANGED <<attempts, queries, statementCount, resultVars, callVars, dbVars>>

-----------------------------------------------------------------------------
(* Generating a statement and running it. *)

(* The limit of AST nodes was reached: the query is given up. *)
GenerationFails ==
  /\ pc = "generate"
  /\ up
  /\ NextQuery
  /\ UNCHANGED <<attempts, statementCount, resultVars, callVars, dbVars>>

(* The statement joins the query and RunQuery starts a goroutine for it. *)
SendStatement(stmt) ==
  /\ pc = "generate"
  /\ up
  /\ pc' = "await"
  /\ query' = Append(query, stmt)
  /\ running' = TRUE
  /\ resChan' = << >>
  /\ UNCHANGED <<attempts, queries, statementCount, res, report, orphans, dbVars>>

CurrentStatement == query[Len(query)]

(* What is in the database once the statement wrote to it. *)
AfterWrite ==
  IF CurrentStatement.writes
    THEN Append(contents, CurrentStatement.sem) ELSE contents

(* DB.RunQuery returns to the goroutine, which leaves the result in its    *)
(* channel and ends.                                                       *)
Return(err, wrong, nils, got) ==
  /\ running' = FALSE
  /\ resChan' = << [ type |-> "None", err |-> err, seen |-> contents,
                     sem |-> CurrentStatement.sem, wrong |-> wrong, nils |-> nils,
                     got |-> got ] >>
  /\ returnedNil' = (returnedNil \/ nils)
  /\ UNCHANGED <<runVars, resultVars, orphans>>

(* Only falkordb's client hands out nil records, and its driver notes them. *)
Nils == {FALSE, Driver = "falkordb"}

(* The database runs the statement; "wrong" is a logic bug of its. *)
StatementSucceeds ==
  /\ running
  /\ up
  /\ \E wrong \in BOOLEAN, nils \in Nils : Return("none", wrong, nils, "all")
  /\ contents' = AfterWrite
  /\ UNCHANGED <<up, tainted>>

(* The statement fails, before or after it wrote something. *)
StatementFails ==
  /\ running
  /\ up
  /\ \E err \in Errors \ {"none"}, nils \in Nils : Return(err, FALSE, nils, "nothing")
  /\ contents' \in {contents, AfterWrite}
  /\ UNCHANGED <<up, tainted>>

(* The statement takes the database down, right after or instead of        *)
(* answering.                                                              *)
StatementCrashes ==
  /\ CanCrash
  /\ running
  /\ up
  /\ up' = FALSE
  /\ \/ /\ Return("none", FALSE, FALSE, "all")
        /\ contents' = AfterWrite
     \/ /\ Return("connection", FALSE, FALSE, "nothing")
        /\ contents' \in {contents, AfterWrite}
  /\ UNCHANGED tainted

(* The connection of a statement to a database that is down is gone, and   *)
(* the statement noticed.                                                  *)
ConnectionLost ==
  /\ running
  /\ ~up
  /\ Return("connection", FALSE, FALSE, "nothing")
  /\ UNCHANGED <<up, contents, tainted>>

(* neo4j's driver only keeps the errors of the statements themselves.  When *)
(* no connection is had, or a transaction cannot be begun or committed,     *)
(* ExecuteWrite or ExecuteRead returns an error that goes nowhere: the      *)
(* result has none.  It has no rows either when the statement was not run,  *)
(* and no schema when it was, and what it wrote was kept or not.  (A logic  *)
(* bug on top of that would show nothing else: the query is tainted.)       *)
TransactionErrorLost ==
  /\ Driver = "neo4j"
  /\ running
  /\ \/ /\ Return("none", FALSE, FALSE, "nothing")
        /\ UNCHANGED <<up, contents>>
     \/ /\ up
        /\ up' \in {TRUE, ~CanCrash}
        /\ Return("none", FALSE, FALSE, "rows")
        /\ contents' \in {contents, AfterWrite}
  /\ tainted' = TRUE

(* A goroutine that RunQuery gave up on reaches the database after all.    *)
(* Its result goes to a channel nobody reads.                              *)
OrphanRuns ==
  /\ orphans > 0
  /\ orphans' = orphans - 1
  /\ \/ /\ up
        /\ contents' = Append(contents, Foreign)
        /\ \E nils \in Nils : returnedNil' = (returnedNil \/ nils)
        /\ tainted' = TRUE
        /\ UNCHANGED up
     \/ /\ up
        /\ CanCrash
        /\ up' = FALSE
        /\ tainted' = TRUE
        /\ UNCHANGED <<contents, returnedNil>>
     \/ UNCHANGED dbVars
  /\ UNCHANGED <<runVars, resultVars, running, resChan>>

(* Whatever supervises the database starts it again, with or without what  *)
(* it held.                                                                *)
DatabaseRestarts ==
  /\ ~up
  /\ up' = TRUE
  /\ contents' \in {contents, << >>}
  /\ tainted' = (tainted \/ contents' # contents)
  /\ UNCHANGED <<returnedNil, runVars, resultVars, callVars>>

-----------------------------------------------------------------------------
(* What Run does with the result. *)

(* RunQuery finds the result in the channel. *)
ReceiveResult ==
  /\ pc = "await"
  /\ resChan # << >>
  /\ res' = Head(resChan)
  /\ resChan' = << >>
  /\ pc' = "verify"
  /\ UNCHANGED <<attempts, queries, statementCount, query, report, running, orphans, dbVars>>

(* Wrong on purpose: the timeout is only looked at between two results. *)
TimeoutWaitsMutant ==
  /\ pc = "await"
  /\ ~running
  /\ resChan' = << >>
  /\ res' = [NoResult EXCEPT !.type = "Timeout"]
  /\ pc' = "tally"
  /\ UNCHANGED <<attempts, queries, statementCount, query, report, running, orphans, dbVars>>

(* Twice the timeout passed first: RunQuery returns a Timeout and leaves   *)
(* the goroutine to itself.                                                *)
ForcedTimeout ==
  /\ pc = "await"
  /\ running => orphans < MaxOrphans
  /\ orphans' = IF running THEN orphans + 1 ELSE orphans
  /\ running' = FALSE
  /\ resChan' = << >>
  /\ res' = [NoResult EXCEPT !.type = "Timeout"]
  /\ pc' = "tally"
  /\ UNCHANGED <<attempts, queries, statementCount, query, report, dbVars>>

(* VerifyConnectivity failed: whatever was returned, this is a crash. *)
CrashVerdict ==
  /\ pc = "verify"
  /\ ~up
  /\ res' = [res EXCEPT !.type = "Crash"]
  /\ pc' = "tally"
  /\ UNCHANGED <<attempts, queries, statementCount, query, report, callVars, dbVars>>

(* Otherwise the strategy judges the result. *)
Verdict(type) ==
  /\ pc = "verify"
  /\ up
  /\ res' = [res EXCEPT !.type = type]
  /\ pc' = "tally"
  /\ UNCHANGED <<attempts, queries, statementCount, query, report, callVars, dbVars>>

(* Whether Run tries to recover the database before the next query.  It is *)
(* the number of the statement that is compared with the limit of queries. *)
RecoversFromCrash ==
  res.type = "Crash" /\ statementCount # QueryLimit - 1

(* A timeout ends the query.  Otherwise a bug or a crash is reported, and  *)
(* a crash is recovered from.                                              *)
TimeoutEndsQuery ==
  /\ pc = "tally"
  /\ res.type = "Timeout"
  /\ NextQuery
  /\ UNCHANGED <<attempts, statementCount, resultVars, callVars, dbVars>>

Handle(prepared) ==
  /\ pc = "tally"
  /\ res.type # "Timeout"
  /\ IF res.type \in {"Bug", "Crash"} /\ ~SuppressBugreport
       THEN query' = prepared /\ report' = prepared
       ELSE UNCHANGED <<query, report>>
  /\ pc' = IF RecoversFromCrash THEN "recover" ELSE "discard"
  /\ UNCHANGED <<attempts, queries, statementCount, res, callVars, dbVars>>

(* Strategy.DiscardQuery returned true, and the query is over, or false,   *)
(* and it gets another statement.                                          *)
QueryDiscarded ==
  /\ pc = "discard"
  /\ NextQuery
  /\ UNCHANGED <<attempts, statementCount, resultVars, callVars>>

QueryContinues ==
  /\ pc = "discard"
  /\ pc' = "generate"
  /\ statementCount' = statementCount + 1
  /\ UNCHANGED <<attempts, queries, resultVars, callVars>>

DiscardStep(stop) ==
  IF stop THEN QueryDiscarded ELSE QueryContinues

(* The seed's answers to DB.DiscardQuery, its last one forced. *)
Coins ==
  IF statementCount + 1 < MaxStatements THEN BOOLEAN ELSE {TRUE}

(***************************************************************************)
(* The steps no strategy takes part in: those of Run itself, and those of  *)
(* the database, its supervisor and the goroutines.                        *)
(***************************************************************************)
RunStep ==
  \/ ConnectFails \/ Connected \/ LimitReached \/ DatabaseUnusable
  \/ ReceiveResult \/ ForcedTimeout \/ CrashVerdict \/ TimeoutEndsQuery

Environment ==
  \/ StatementSucceeds \/ StatementFails \/ StatementCrashes \/ ConnectionLost
  \/ TransactionErrorLost \/ OrphanRuns \/ DatabaseRestarts

Ended == pc \in {"done", "failed"}

-----------------------------------------------------------------------------
(***************************************************************************)
(* What the first n statements of a query leave in an empty database: the  *)
(* k-th of those that write leaves the k-th entry.                         *)
(***************************************************************************)
Writers(statements, n) == {i \in 1..n : statements[i].writes}

IsTrace(trace, statements, n) ==
  /\ Len(trace) = Cardinality(Writers(statements, n))
  /\ \A i \in Writers(statements, n) :
       trace[Cardinality(Writers(statements, i))] = statements[i].sem
=============================================================================
