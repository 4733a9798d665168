----------------------- MODULE FuzzPartitioning_proofs -----------------------
(***************************************************************************)
(* Proofs about FuzzPartitioning, for every set of errors, driver and      *)
(* length of a query.                                                      *)
(*                                                                         *)
(* The inductive invariant follows the original query: what it returned is *)
(* what the partitioned query is judged by, unless nil records keep the    *)
(* driver from judging anything.                                           *)
(***************************************************************************)
EXTENDS FuzzPartitioning, Scheduler_proofs

(***************************************************************************)
(* Run looks at the limit of queries to tell whether a crash ends a query  *)
(* (RecoversFromCrash).  A query that goes on after a crash has no result  *)
(* to compare with, so no original may have the number that Run excepts.   *)
(***************************************************************************)
LimitIsOutOfReach == \A n \in 0 .. MaxStatements : n # QueryLimit - 1

(* Within a query. *)
Active == {"generate", "await", "verify", "tally", "discard"}
Waiting == {"await", "verify"}

(* The phases follow each other, and the last one ends the query. *)
PhaseShape ==
  /\ generatedPartitioningQueries => generatedOriginalQuery
  /\ generatedOriginalQuery => generatedSchema /\ matchCapturer # 0
  /\ pc = "generate" => ~generatedPartitioningQueries

(* How many statements the phases leave room for. *)
CountShape ==
  /\ pc = "generate" /\ ~generatedSchema => statementCount < MaxStatements
  /\ pc = "generate" /\ ~generatedOriginalQuery => statementCount <= MaxStatements
  /\ pc \in Active \ {"generate"} /\ ~generatedSchema =>
       statementCount + 1 < MaxStatements
  /\ pc \in Active \ {"generate"} /\ ~generatedOriginalQuery =>
       statementCount < MaxStatements
  /\ pc \in Active \ {"generate"} /\ ~generatedPartitioningQueries =>
       statementCount <= MaxStatements

(* The partitioned query, if there is one, means what its original does. *)
SameMeaning == returnCapturer \/ ~generatedPartitioningQueries

(* The statement under way only reads, once the schema is there. *)
QueryShape ==
  pc \in Waiting =>
    /\ query # << >>
    /\ generatedOriginalQuery =>
         /\ SameMeaning => CurrentStatement.sem = matchCapturer
         /\ ~CurrentStatement.writes

(* What is known of a result nobody judged yet. *)
Arrived(r) ==
  /\ r.type = "None"
  /\ r.nils => returnedNil
  /\ generatedOriginalQuery =>
       /\ SameMeaning => r.sem = matchCapturer
       /\ ~tainted => r.seen = contents /\ (r.err = "none" => r.got = "all")

LatestShape ==
  /\ resChan # << >> => Arrived(resChan[1])
  /\ pc = "verify" => Arrived(res)

(* The result to compare with: that of the original query, which did not   *)
(* change the database. *)
Comparable ==
  /\ originalQueryResult.sem = matchCapturer
  /\ originalQueryResult.err = "none"
  /\ ~originalQueryResult.nils
  /\ ~tainted => originalQueryResult.seen = contents /\ originalQueryResult.got = "all"

(* When a partitioned query may follow, or is under way, there is such a   *)
(* result, or everything is Invalid.                                       *)
BaselineShape ==
  /\ \/ pc = "generate" /\ generatedOriginalQuery
     \/ pc \in Waiting /\ generatedPartitioningQueries
     \/ /\ pc \in {"tally", "discard"}
        /\ generatedOriginalQuery /\ ~generatedPartitioningQueries
        /\ res.err = "none" /\ res.type \notin {"Crash", "Timeout"}
     => returnedNil \/ Comparable
  /\ pc = "discard" /\ generatedOriginalQuery /\ ~generatedPartitioningQueries =>
       res.type \notin {"Crash", "Timeout"}

IInv ==
  /\ TypeOK
  /\ CallShape
  /\ PhaseShape
  /\ CountShape
  /\ QueryShape
  /\ LatestShape
  /\ BaselineShape
  /\ NoFalseAlarm

-----------------------------------------------------------------------------
(* The initial states. *)

LEMMA InitInvariant == Init => IInv
<1> SUFFICES ASSUME Init PROVE IInv
  OBVIOUS
<1>1. contents \in Seq(Nat)
  BY EmptySeq, ForeignIsSeq DEF Init, SchedulerInit
<1>2. TypeOK
  BY <1>1, NoResultIsResult, EmptySeq
  DEF Init, SchedulerInit, StrategyInit, TypeOK, SchedulerTypeOK, StrategyTypeOK, Locations
<1> QED
  BY <1>2
  DEF Init, SchedulerInit, StrategyInit, IInv, CallShape, PhaseShape, CountShape, QueryShape,
      LatestShape, BaselineShape, NoFalseAlarm, Active, Waiting

-----------------------------------------------------------------------------
(* The steps that leave the strategy alone. *)

LEMMA RunStepTypes ==
  ASSUME TypeOK, RunStep, UNCHANGED strategyVars
  PROVE  TypeOK'
<1> USE DEF TypeOK, SchedulerTypeOK, runVars, resultVars, callVars, dbVars
<1>1. StrategyTypeOK'
  BY DEF StrategyTypeOK, strategyVars
<1>2. CASE ConnectFails
  <2>1. attempts' \in Nat /\ pc' \in Locations
    BY <1>2 DEF ConnectFails, Locations
  <2> QED
    BY <1>1, <1>2, <2>1 DEF ConnectFails
<1>3. CASE Connected
  <2>1. queries' \in Nat /\ attempts' \in Nat /\ pc' \in Locations
    BY <1>3 DEF Connected, NextQuery, Locations
  <2> QED
    BY <1>1, <1>3, <2>1 DEF Connected
<1>4. CASE LimitReached
  BY <1>1, <1>4 DEF LimitReached, Locations
<1>5. CASE DatabaseUnusable
  <2>1. /\ pc' = "failed"
        /\ UNCHANGED <<attempts, queries, statementCount, resultVars, callVars, dbVars>>
    BY <1>5 DEF DatabaseUnusable
  <2> QED
    BY <1>1, <2>1 DEF Locations
<1>6. CASE ReceiveResult
  <2>1. res' \in QueryResults /\ resChan' \in Seq(QueryResults)
    BY <1>6, HeadTailProperties, EmptySeq DEF ReceiveResult
  <2> QED
    BY <1>1, <1>6, <2>1 DEF ReceiveResult, Locations
<1>7. CASE ForcedTimeout
  <2>1. res' \in QueryResults /\ resChan' \in Seq(QueryResults)
    BY <1>7, EmptySeq
    DEF ForcedTimeout, QueryResults, QueryResultTypes, ErrorKinds, NoResult
  <2>2. orphans' \in Nat
    BY <1>7 DEF ForcedTimeout
  <2> QED
    BY <1>1, <1>7, <2>1, <2>2 DEF ForcedTimeout, Locations
<1>8. CASE CrashVerdict
  <2>1. res' \in QueryResults
    BY <1>8 DEF CrashVerdict, QueryResults, QueryResultTypes
  <2> QED
    BY <1>1, <1>8, <2>1 DEF CrashVerdict, Locations
<1>9. CASE TimeoutEndsQuery
  <2>1. queries' \in Nat /\ pc' \in Locations
    BY <1>9 DEF TimeoutEndsQuery, NextQuery, Locations
  <2> QED
    BY <1>1, <1>9, <2>1 DEF TimeoutEndsQuery
<1> QED
  BY <1>2, <1>3, <1>4, <1>5, <1>6, <1>7, <1>8, <1>9 DEF RunStep

LEMMA RunStepInvariant ==
  ASSUME IInv, RunStep, UNCHANGED strategyVars
  PROVE  IInv'
<1> USE DEF CallShape, PhaseShape, CountShape, QueryShape, LatestShape, BaselineShape,
            NoFalseAlarm, Active, Waiting, SameMeaning, Arrived, Comparable,
            CurrentStatement, runVars,
            resultVars, callVars, dbVars, strategyVars
<1>0. TypeOK'
  BY RunStepTypes DEF IInv
<1>1. CASE ConnectFails
  BY <1>0, <1>1 DEF IInv, ConnectFails
<1>2. CASE Connected
  BY <1>0, <1>2 DEF IInv, Connected, NextQuery
<1>3. CASE LimitReached
  BY <1>0, <1>3 DEF IInv, LimitReached
<1>4. CASE DatabaseUnusable
  BY <1>0, <1>4 DEF IInv, DatabaseUnusable
<1>5. CASE ReceiveResult
  BY <1>0, <1>5 DEF IInv, ReceiveResult, TypeOK, SchedulerTypeOK
<1>6. CASE ForcedTimeout
  BY <1>0, <1>6 DEF IInv, ForcedTimeout, NoResult
<1>7. CASE CrashVerdict
  BY <1>0, <1>7 DEF IInv, CrashVerdict, TypeOK, SchedulerTypeOK, QueryResults
<1>8. CASE TimeoutEndsQuery
  BY <1>0, <1>8 DEF IInv, TimeoutEndsQuery, NextQuery
<1> QED
  BY <1>1, <1>2, <1>3, <1>4, <1>5, <1>6, <1>7, <1>8 DEF RunStep

(* What DB.RunQuery leaves in the channel. *)
LEMMA ReturnShape ==
  ASSUME IInv, running, NEW err \in ErrorKinds, NEW wrong \in BOOLEAN,
         NEW nils \in BOOLEAN, NEW got \in {"all", "rows", "nothing"},
         Return(err, wrong, nils, got), UNCHANGED strategyVars,
         tainted' \in {tainted, TRUE}, contents' \in {contents, AfterWrite},
         err = "none" /\ ~tainted' => got = "all",
         up' \in BOOLEAN
  PROVE  IInv'
<1> DEFINE r == [ type |-> "None", err |-> err, seen |-> contents,
                  sem |-> CurrentStatement.sem, wrong |-> wrong, nils |-> nils,
                  got |-> got ]
<1>1. /\ pc = "await" /\ query # << >> /\ query \in Seq(Statements) /\ contents \in Seq(Nat)
      /\ TypeOK /\ returnedNil \in BOOLEAN /\ tainted \in BOOLEAN
  BY DEF IInv, CallShape, QueryShape, Waiting, TypeOK, SchedulerTypeOK
<1>2. CurrentStatement \in Statements
  <2>1. Len(query) \in 1..Len(query)
    BY <1>1, LenProperties, EmptySeq
  <2> QED
    BY <1>1, <2>1, ElementOfSeq DEF CurrentStatement
<1>3. CurrentStatement.sem \in Nat /\ CurrentStatement.writes \in BOOLEAN
  BY <1>2 DEF Statements
<1>4. contents' \in Seq(Nat)
  BY <1>1, <1>3, AppendProperties DEF AfterWrite
<1>5. r \in QueryResults
  BY <1>1, <1>3 DEF QueryResults, QueryResultTypes
<1>6. resChan' = <<r>> /\ resChan' \in Seq(QueryResults) /\ Len(resChan') = 1 /\ resChan'[1] = r
  BY <1>5 DEF Return
<1>7. TypeOK'
  BY <1>1, <1>4, <1>6
  DEF TypeOK, SchedulerTypeOK, StrategyTypeOK, Return, runVars, resultVars, strategyVars
<1>8. /\ running' = FALSE /\ returnedNil' = (returnedNil \/ nils)
      /\ UNCHANGED <<runVars, resultVars, strategyVars>> /\ (~tainted' => ~tainted)
  BY <1>1 DEF Return
<1>9. generatedOriginalQuery =>
        (SameMeaning => CurrentStatement.sem = matchCapturer) /\ contents' = contents
  BY <1>1 DEF IInv, QueryShape, Waiting, AfterWrite
<1>10. LatestShape'
  BY <1>1, <1>6, <1>8, <1>9 DEF LatestShape, SameMeaning, Arrived, runVars, resultVars, strategyVars
<1>11. BaselineShape'
  BY <1>1, <1>8, <1>9
  DEF IInv, PhaseShape, BaselineShape, Comparable, Waiting, runVars, resultVars, strategyVars
<1> QED
  BY <1>1, <1>6, <1>7, <1>8, <1>10, <1>11
  DEF IInv, CallShape, PhaseShape, CountShape, QueryShape, NoFalseAlarm, SameMeaning,
      CurrentStatement, Active, Waiting, runVars, resultVars, strategyVars

LEMMA EnvironmentInvariant ==
  ASSUME IInv, Environment, UNCHANGED strategyVars
  PROVE  IInv'
<1>1. up \in BOOLEAN /\ contents \in Seq(Nat) /\ orphans \in Nat /\ returnedNil \in BOOLEAN
      /\ tainted \in BOOLEAN
  BY DEF IInv, TypeOK, SchedulerTypeOK
<1>2. Nils \subseteq BOOLEAN
  BY DEF Nils
<1>3. CASE StatementSucceeds
  <2>1. PICK wrong \in BOOLEAN, nils \in Nils : Return("none", wrong, nils, "all")
    BY <1>3 DEF StatementSucceeds
  <2> QED
    BY <1>1, <1>2, <1>3, <2>1, ReturnShape DEF StatementSucceeds, ErrorKinds
<1>4. CASE StatementFails
  <2>1. PICK err \in Errors \ {"none"}, nils \in Nils :
               Return(err, FALSE, nils, "nothing")
    BY <1>4 DEF StatementFails
  <2> QED
    BY <1>1, <1>2, <1>4, <2>1, ReturnShape, ErrorsAssumption DEF StatementFails
<1>5. CASE StatementCrashes
  BY <1>1, <1>5, ReturnShape DEF StatementCrashes, ErrorKinds
<1>6. CASE ConnectionLost
  BY <1>1, <1>6, ReturnShape DEF ConnectionLost, ErrorKinds
<1>10. CASE TransactionErrorLost
  <2>1. PICK got \in {"rows", "nothing"} : Return("none", FALSE, FALSE, got)
    BY <1>10 DEF TransactionErrorLost
  <2>2. running /\ tainted' = TRUE /\ contents' \in {contents, AfterWrite} /\ up' \in BOOLEAN
    BY <1>1, <1>10 DEF TransactionErrorLost
  <2> QED
    BY <2>1, <2>2, ReturnShape DEF ErrorKinds
(* The other steps taint what they change. *)
<1>7. ASSUME TypeOK', UNCHANGED <<runVars, resultVars, running, resChan>>,
             returnedNil => returnedNil', returnedNil' \in BOOLEAN,
             ~tainted' => ~tainted /\ contents' = contents
      PROVE  IInv'
  <2> USE <1>7 DEF runVars, resultVars, strategyVars
  <2>1. CallShape' /\ PhaseShape' /\ CountShape' /\ QueryShape'
    BY DEF IInv, CallShape, PhaseShape, CountShape, QueryShape, SameMeaning, CurrentStatement,
           Active, Waiting
  <2>2. LatestShape'
    BY <1>1 DEF IInv, LatestShape, SameMeaning, Arrived
  <2>3. Comparable => Comparable'
    BY DEF Comparable
  <2>4. BaselineShape'
    BY <1>1, <2>3 DEF IInv, BaselineShape, Waiting
  <2>5. NoFalseAlarm'
    BY DEF IInv, NoFalseAlarm
  <2> QED
    BY <2>1, <2>2, <2>4, <2>5 DEF IInv
<1>8. CASE OrphanRuns
  <2>1. contents' \in Seq(Nat) /\ orphans' \in Nat /\ returnedNil' \in BOOLEAN
    BY <1>1, <1>2, <1>8, AppendProperties DEF OrphanRuns, Foreign, dbVars
  <2>2. TypeOK'
    BY <1>8, <2>1
    DEF OrphanRuns, IInv, TypeOK, SchedulerTypeOK, StrategyTypeOK, runVars, resultVars, dbVars,
        strategyVars
  <2>3. returnedNil => returnedNil'
    BY <1>1, <1>8 DEF OrphanRuns, dbVars
  <2>4. /\ UNCHANGED <<runVars, resultVars, running, resChan>>
        /\ ~tainted' => ~tainted /\ contents' = contents
    BY <1>8 DEF OrphanRuns, dbVars
  <2> QED
    BY <1>7, <2>1, <2>2, <2>3, <2>4
<1>9. CASE DatabaseRestarts
  <2>1. contents' \in Seq(Nat) /\ tainted' \in BOOLEAN
    BY <1>1, <1>9, EmptySeq DEF DatabaseRestarts
  <2>2. TypeOK'
    BY <1>9, <2>1
    DEF DatabaseRestarts, IInv, TypeOK, SchedulerTypeOK, StrategyTypeOK, runVars, resultVars,
        callVars, strategyVars
  <2> QED
    BY <1>1, <1>7, <1>9, <2>2 DEF DatabaseRestarts, callVars
<1> QED
  BY <1>3, <1>4, <1>5, <1>6, <1>8, <1>9, <1>10 DEF Environment

-----------------------------------------------------------------------------
(* The steps the strategy takes part in. *)

LEMMA BeginInvariant ==
  ASSUME IInv, Begin
  PROVE  IInv'
<1>1. /\ pc' = "generate" /\ statementCount' = 0 /\ query' = << >> /\ res' = NoResult
      /\ report' = << >> /\ UNCHANGED <<attempts, queries, callVars>>
      /\ generatedSchema' = FALSE /\ generatedOriginalQuery' = FALSE
      /\ generatedPartitioningQueries' = FALSE /\ originalQueryResult' = NoResult
      /\ matchCapturer' = 0 /\ returnCapturer' = FALSE
  BY DEF Begin, BeginQuery, StrategyReset
<1>2. tainted' \in BOOLEAN /\ up' \in BOOLEAN /\ returnedNil' \in BOOLEAN
      /\ contents' \in Seq(Nat)
  BY EmptySeq, ForeignIsSeq
  DEF Begin, BeginQuery, ResetSucceeds, ResetFails, IInv, TypeOK, SchedulerTypeOK
<1>3. TypeOK'
  BY <1>1, <1>2, NoResultIsResult, EmptySeq
  DEF IInv, TypeOK, SchedulerTypeOK, StrategyTypeOK, Locations, callVars
<1>4. running' = FALSE /\ resChan' = << >>
  BY <1>1 DEF Begin, BeginQuery, IInv, CallShape, TypeOK, SchedulerTypeOK, callVars
<1> QED
  BY <1>1, <1>3, <1>4, BoundsAssumption
  DEF IInv, CallShape, PhaseShape, CountShape, QueryShape, LatestShape, BaselineShape,
      NoFalseAlarm, Active, Waiting

LEMMA GenerateInvariant ==
  ASSUME IInv, Generate
  PROVE  IInv'
<1>1. /\ pc = "generate" /\ TypeOK /\ ~running /\ resChan = << >>
      /\ statementCount \in Nat /\ matchCapturer \in Nat /\ query \in Seq(Statements)
      /\ generatedSchema \in BOOLEAN /\ generatedOriginalQuery \in BOOLEAN
      /\ ~generatedPartitioningQueries
      /\ MaxStatements \in Nat
  BY BoundsAssumption
  DEF Generate, IInv, TypeOK, SchedulerTypeOK, StrategyTypeOK, CallShape, PhaseShape
<1>2. ASSUME GenerationFails, StrategyTypeOK', PhaseShape'
      PROVE  IInv'
  <2>1. pc' = "query" /\ queries' \in Nat
        /\ UNCHANGED <<attempts, statementCount, resultVars, callVars, dbVars>>
    BY <1>1, <1>2 DEF GenerationFails, NextQuery, TypeOK, SchedulerTypeOK
  <2>2. TypeOK'
    BY <1>1, <1>2, <2>1
    DEF TypeOK, SchedulerTypeOK, Locations, resultVars, callVars, dbVars
  <2> QED
    BY <1>1, <1>2, <2>1, <2>2
    DEF IInv, CallShape, CountShape, QueryShape, LatestShape, BaselineShape, NoFalseAlarm,
        Active, Waiting, callVars
<1>3. ASSUME NEW stmt \in Statements, SendStatement(stmt), StrategyTypeOK', PhaseShape',
             ~generatedSchema' => statementCount + 1 < MaxStatements,
             ~generatedOriginalQuery' => statementCount < MaxStatements,
             ~generatedPartitioningQueries' => statementCount <= MaxStatements,
             generatedOriginalQuery' =>
               (SameMeaning' => stmt.sem = matchCapturer') /\ ~stmt.writes,
             generatedPartitioningQueries' => (returnedNil \/ Comparable')
      PROVE  IInv'
  <2>1. /\ pc' = "await" /\ query' = Append(query, stmt) /\ running' = TRUE
        /\ resChan' = << >>
        /\ UNCHANGED <<attempts, queries, statementCount, res, report, orphans, dbVars>>
    BY <1>3 DEF SendStatement
  <2>2. query' \in Seq(Statements) /\ query' # << >> /\ query'[Len(query')] = stmt
    BY <1>1, <2>1, AppendProperties
  <2>3. TypeOK'
    BY <1>1, <1>3, <2>1, <2>2, EmptySeq DEF TypeOK, SchedulerTypeOK, Locations, dbVars
  <2>4. QueryShape'
    BY <1>3, <2>2 DEF QueryShape, CurrentStatement
  <2>5. BaselineShape'
    BY <1>3, <2>1 DEF BaselineShape, Waiting, dbVars
  <2> QED
    BY <1>3, <2>1, <2>3, <2>4, <2>5
    DEF IInv, CallShape, CountShape, LatestShape, NoFalseAlarm, Active
<1>4. CASE \E done \in Coins : SchemaStatement(done)
           /\ \E writes \in BOOLEAN :
                \/ GenerationFails
                \/ SendStatement([ sem |-> statementCount + 1, form |-> "original",
                                   writes |-> writes ])
  <2>1. PICK done \in Coins : SchemaStatement(done)
    BY <1>4
  <2>2. done \in BOOLEAN /\ (~done => statementCount + 1 < MaxStatements)
    BY DEF Coins
  <2>3. ~generatedSchema /\ generatedSchema' = done /\ statementCount < MaxStatements
        /\ ~generatedOriginalQuery
        /\ UNCHANGED << generatedOriginalQuery, generatedPartitioningQueries,
                        originalQueryResult, matchCapturer, returnCapturer >>
    BY <1>1, <2>1 DEF SchemaStatement, IInv, CountShape, PhaseShape
  <2>4. StrategyTypeOK' /\ PhaseShape'
    BY <1>1, <2>2, <2>3 DEF TypeOK, StrategyTypeOK, PhaseShape
  <2>5. \A writes \in BOOLEAN :
          [sem |-> statementCount + 1, form |-> "original", writes |-> writes] \in Statements
    BY <1>1 DEF Statements
  <2> QED
    BY <1>1, <1>2, <1>3, <1>4, <2>2, <2>3, <2>4, <2>5
<1>5. CASE (\E plain \in BOOLEAN : OriginalQuery(statementCount + 1, plain))
           /\ \/ GenerationFails
              \/ SendStatement([ sem |-> statementCount + 1, form |-> "original",
                                 writes |-> FALSE ])
  <2>1. generatedSchema /\ generatedSchema' /\ ~generatedOriginalQuery
        /\ generatedOriginalQuery' = TRUE /\ matchCapturer' = statementCount + 1
        /\ returnCapturer' \in BOOLEAN
        /\ UNCHANGED <<generatedSchema, generatedPartitioningQueries, originalQueryResult>>
    BY <1>5 DEF OriginalQuery
  <2>2. statementCount <= MaxStatements
    BY <1>1, <2>1 DEF IInv, CountShape
  <2>3. StrategyTypeOK' /\ PhaseShape'
    BY <1>1, <2>1 DEF TypeOK, StrategyTypeOK, PhaseShape
  <2> DEFINE stmt == [sem |-> statementCount + 1, form |-> "original", writes |-> FALSE]
  <2>4. stmt \in Statements /\ stmt.sem = statementCount + 1 /\ ~stmt.writes
    BY <1>1 DEF Statements
  <2>5. CASE SendStatement(stmt)
    BY <1>1, <1>3, <2>1, <2>2, <2>3, <2>4, <2>5
  <2> QED
    BY <1>2, <1>5, <2>3, <2>5
<1>6. CASE PartitioningQueries
           /\ \E sem \in PartitionedMeanings(statementCount + 1) :
                \/ GenerationFails
                \/ SendStatement([sem |-> sem, form |-> "transformed", writes |-> FALSE])
  <2>1. generatedSchema /\ generatedOriginalQuery /\ generatedPartitioningQueries' = TRUE
        /\ UNCHANGED << generatedSchema, generatedOriginalQuery, originalQueryResult,
                        matchCapturer, returnCapturer >>
    BY <1>6 DEF PartitioningQueries
  <2>2. matchCapturer # 0 /\ (returnedNil \/ Comparable)
    BY <1>1, <2>1 DEF IInv, PhaseShape, BaselineShape
  <2>3. StrategyTypeOK' /\ PhaseShape'
    <3>1. pc' # "generate"
      BY <1>6 DEF GenerationFails, NextQuery, SendStatement
    <3> QED
      BY <1>1, <2>1, <2>2, <3>1 DEF TypeOK, StrategyTypeOK, PhaseShape
  <2>6. PICK sem \in PartitionedMeanings(statementCount + 1) :
          \/ GenerationFails
          \/ SendStatement([sem |-> sem, form |-> "transformed", writes |-> FALSE])
    BY <1>6
  <2>7. sem \in Nat \ {0} /\ (SameMeaning' => sem = matchCapturer')
    BY <1>1, <2>1, <2>2 DEF PartitionedMeanings, SameMeaning
  <2> DEFINE stmt == [sem |-> sem, form |-> "transformed", writes |-> FALSE]
  <2>4. stmt \in Statements /\ stmt.sem = sem /\ ~stmt.writes
    BY <2>7 DEF Statements
  <2>5. CASE SendStatement(stmt)
    <3>1. returnedNil \/ Comparable'
      BY <2>1, <2>2, <2>5 DEF SendStatement, Comparable, dbVars
    <3> QED
      BY <1>3, <2>1, <2>3, <2>4, <2>5, <2>7, <3>1
  <2> QED
    BY <1>2, <2>3, <2>5, <2>6
<1> QED
  BY <1>4, <1>5, <1>6 DEF Generate

LEMMA JudgeInvariant ==
  ASSUME IInv, Judge
  PROVE  IInv'
<1> DEFINE driverType == DriverResultType(DriverResultTypes, res, returnedNil)
<1>1. /\ pc = "verify" /\ pc' = "tally"
      /\ res' = [res EXCEPT !.type = StrategyVerdict(driverType, res)]
      /\ originalQueryResult' =
           IF driverType = "Valid" /\ generatedOriginalQuery /\ ~generatedPartitioningQueries
             THEN res ELSE originalQueryResult
      /\ UNCHANGED <<attempts, queries, statementCount, query, report, callVars, dbVars>>
      /\ UNCHANGED << generatedSchema, generatedOriginalQuery, generatedPartitioningQueries,
                      matchCapturer, returnCapturer >>
  BY DEF Judge, Verdict, KeepResult
<1>2. TypeOK /\ res \in QueryResults /\ originalQueryResult \in QueryResults
      /\ returnedNil \in BOOLEAN /\ generatedPartitioningQueries \in BOOLEAN
  BY DEF IInv, TypeOK, SchedulerTypeOK, StrategyTypeOK
<1>3. driverType \in QueryResultTypes
  BY <1>2 DEF DriverResultType, DriverResultTypes, Neo4jResultType, FalkorDBResultType,
              QueryResults, QueryResultTypes, ErrorKinds
<1>4. DriverResultTypes["none"] = "Valid"
  BY DEF DriverResultTypes, Neo4jResultType, FalkorDBResultType
<1>5. /\ res'.err = res.err /\ res'.wrong = res.wrong /\ res'.nils = res.nils
      /\ res'.sem = res.sem /\ res'.seen = res.seen /\ res'.got = res.got
      /\ res'.type = StrategyVerdict(driverType, res)
      /\ res' \in QueryResults
  BY <1>1, <1>2, <1>3 DEF QueryResults, StrategyVerdict, QueryResultTypes
<1>6. TypeOK'
  BY <1>1, <1>2, <1>5
  DEF TypeOK, SchedulerTypeOK, StrategyTypeOK, Locations, callVars, dbVars
<1>7. /\ res.nils => returnedNil
      /\ generatedOriginalQuery =>
           /\ SameMeaning => res.sem = matchCapturer
           /\ ~tainted => res.seen = contents /\ (res.err = "none" => res.got = "all")
  BY <1>1 DEF IInv, LatestShape, Arrived
<1>8. BaselineShape'
  <2> SUFFICES ASSUME generatedOriginalQuery, ~generatedPartitioningQueries,
                      res.err = "none", ~returnedNil
               PROVE  Comparable'
    BY <1>1, <1>5 DEF BaselineShape, Waiting, dbVars
  <2>1. originalQueryResult' = res
    BY <1>1, <1>4 DEF DriverResultType
  <2> QED
    BY <1>1, <1>7, <2>1 DEF SameMeaning, Comparable, dbVars
<1>9. NoFalseAlarm'
  <2> SUFFICES ASSUME res'.type = "Bug", res.err = "none", ~tainted
               PROVE  /\ generatedPartitioningQueries
                      /\ returnCapturer => res.wrong \/ originalQueryResult'.wrong
    BY <1>1, <1>5 DEF NoFalseAlarm, dbVars
  <2>1. generatedPartitioningQueries /\ ~returnedNil /\ ~IsEqualResult(originalQueryResult, res)
    BY <1>2, <1>4, <1>5 DEF StrategyVerdict, DriverResultType
  <2>2. originalQueryResult' = originalQueryResult
    BY <1>1, <2>1
  <2>3. Comparable /\ generatedOriginalQuery
    BY <1>1, <2>1 DEF IInv, BaselineShape, PhaseShape, Waiting
  <2>4. ~res.nils /\ res.nils \in BOOLEAN /\ ~originalQueryResult.nils
        /\ originalQueryResult.nils \in BOOLEAN
    BY <1>2, <1>7, <2>1, <2>3 DEF Comparable, QueryResults
  <2>5. res.nils = originalQueryResult.nils
    BY <2>4
  <2>6. returnCapturer => originalQueryResult.wrong # res.wrong
    BY <1>7, <2>1, <2>3, <2>5 DEF SameMeaning, Comparable, IsEqualResult
  <2>7. originalQueryResult.wrong \in BOOLEAN /\ res.wrong \in BOOLEAN
    BY <1>2 DEF QueryResults
  <2> QED
    BY <2>1, <2>2, <2>6, <2>7
<1>10. PhaseShape' /\ CountShape' /\ QueryShape' /\ LatestShape'
  BY <1>1 DEF IInv, CallShape, PhaseShape, CountShape, QueryShape, LatestShape, Active,
              Waiting, callVars
<1> QED
  BY <1>1, <1>6, <1>8, <1>9, <1>10 DEF IInv, CallShape, callVars

(* Only here the limit of queries matters: a crash is recovered from. *)
LEMMA HandleInvariant ==
  ASSUME IInv, HandleResult, LimitIsOutOfReach
  PROVE  IInv'
<1>1. /\ pc = "tally" /\ pc' \in {"recover", "discard"}
      /\ res.type # "Timeout"
      /\ pc' = "discard" => res.type # "Crash" \/ statementCount = QueryLimit - 1
      /\ query' = query /\ report' \in {query, report}
      /\ UNCHANGED <<attempts, queries, statementCount, res, callVars, dbVars, strategyVars>>
  BY DEF HandleResult, Handle, RecoversFromCrash
<1>2. TypeOK'
  BY <1>1
  DEF IInv, TypeOK, SchedulerTypeOK, StrategyTypeOK, Locations, callVars, dbVars, strategyVars
<1>3. generatedOriginalQuery /\ ~generatedPartitioningQueries /\ pc' = "discard" =>
        res.type \notin {"Crash", "Timeout"}
  <2> SUFFICES ASSUME ~generatedPartitioningQueries PROVE statementCount # QueryLimit - 1
    BY <1>1
  <2>1. statementCount \in 0 .. MaxStatements
    BY <1>1, BoundsAssumption DEF IInv, TypeOK, SchedulerTypeOK, CountShape, Active
  <2> QED
    BY <2>1 DEF LimitIsOutOfReach
<1>4. BaselineShape'
  BY <1>1, <1>3 DEF IInv, BaselineShape, Comparable, Waiting, dbVars, strategyVars
<1> QED
  BY <1>1, <1>2, <1>4
  DEF IInv, CallShape, PhaseShape, CountShape, QueryShape, LatestShape, NoFalseAlarm,
      Active, Waiting, callVars, dbVars, strategyVars

LEMMA DiscardInvariant ==
  ASSUME IInv, Discard
  PROVE  IInv'
<1>1. /\ pc = "discard" /\ TypeOK /\ statementCount \in Nat /\ ~running /\ resChan = << >>
      /\ queries \in Nat /\ MaxStatements \in Nat
      /\ UNCHANGED <<attempts, resultVars, callVars, dbVars, strategyVars>>
  BY BoundsAssumption
  DEF Discard, DiscardStep, QueryDiscarded, QueryContinues, IInv, TypeOK, SchedulerTypeOK, CallShape
<1>2. CASE QueryDiscarded
  <2>1. pc' = "query" /\ queries' \in Nat /\ statementCount' = statementCount
    BY <1>1, <1>2 DEF QueryDiscarded, NextQuery
  <2>2. TypeOK'
    BY <1>1, <2>1
    DEF TypeOK, SchedulerTypeOK, StrategyTypeOK, Locations, resultVars, callVars, dbVars,
        strategyVars
  <2> QED
    BY <1>1, <2>1, <2>2
    DEF IInv, CallShape, PhaseShape, CountShape, QueryShape, LatestShape, BaselineShape,
        NoFalseAlarm, Active, Waiting, callVars, strategyVars
<1>3. CASE QueryContinues /\ \E coin \in BOOLEAN : ~StrategyDiscards(res, coin)
  <2>1. /\ pc' = "generate" /\ statementCount' = statementCount + 1 /\ UNCHANGED queries
        /\ res.err = "none" /\ ~generatedPartitioningQueries
    BY <1>3 DEF QueryContinues, StrategyDiscards, DriverDiscards
  <2>2. TypeOK'
    BY <1>1, <2>1
    DEF TypeOK, SchedulerTypeOK, StrategyTypeOK, Locations, resultVars, callVars, dbVars,
        strategyVars
  <2>3. CountShape'
    BY <1>1, <2>1 DEF IInv, CountShape, Active, strategyVars
  <2>4. generatedOriginalQuery => returnedNil \/ Comparable
    BY <1>1, <2>1 DEF IInv, BaselineShape
  <2>5. BaselineShape'
    BY <1>1, <2>1, <2>4 DEF BaselineShape, Comparable, Waiting, dbVars, strategyVars
  <2> QED
    BY <1>1, <2>1, <2>2, <2>3, <2>5
    DEF IInv, CallShape, PhaseShape, QueryShape, LatestShape, NoFalseAlarm, Waiting,
        callVars, strategyVars
<1> QED
  BY <1>2, <1>3 DEF Discard, DiscardStep

LEMMA StutterInvariant ==
  ASSUME IInv, UNCHANGED vars
  PROVE  IInv'
BY DEF IInv, TypeOK, SchedulerTypeOK, StrategyTypeOK, CallShape, PhaseShape, CountShape,
       QueryShape, LatestShape, BaselineShape, NoFalseAlarm, SameMeaning, Arrived, Comparable,
       CurrentStatement, vars, schedulerVars, strategyVars, runVars, resultVars, callVars,
       dbVars

-----------------------------------------------------------------------------
(* The theorems, for a limit of queries that is not the number of one of   *)
(* the statements. *)

(***************************************************************************)
(* The invariant holds in every state of a fuzzing run with the predicate  *)
(* partitioning strategy.                                                  *)
(***************************************************************************)
THEOREM Invariance ==
  ASSUME LimitIsOutOfReach
  PROVE  Spec => []IInv
<1>1. IInv /\ [Next]_vars => IInv'
  BY RunStepInvariant, EnvironmentInvariant, BeginInvariant, GenerateInvariant, JudgeInvariant,
     HandleInvariant, DiscardInvariant, StutterInvariant
  DEF Next, Fuzzer
<1> QED
  BY InitInvariant, <1>1, PTL DEF Spec

(***************************************************************************)
(* GetQueryResultType compares a partitioned query with a result its own   *)
(* original query returned, and never with one that failed.                *)
(***************************************************************************)
THEOREM ComparisonIsAligned ==
  ASSUME LimitIsOutOfReach
  PROVE  Spec => []ComparedWithOriginal
<1>1. IInv => ComparedWithOriginal
  <2> SUFFICES ASSUME IInv, pc = "verify", generatedPartitioningQueries,
                      DriverResultType(DriverResultTypes, res, returnedNil) = "Valid"
               PROVE  /\ originalQueryResult.sem = matchCapturer
                      /\ originalQueryResult.err = "none"
                      /\ returnCapturer => originalQueryResult.sem = res.sem
    BY DEF ComparedWithOriginal
  <2>1. ~returnedNil
    BY DEF DriverResultType
  <2>2. Comparable /\ (returnCapturer => res.sem = matchCapturer)
    BY <2>1 DEF IInv, BaselineShape, PhaseShape, LatestShape, SameMeaning, Arrived, Waiting
  <2> QED
    BY <2>2 DEF Comparable
<1> QED
  BY Invariance, <1>1, PTL

(***************************************************************************)
(* Without interference, a mismatch of a query whose RETURN has no         *)
(* DISTINCT, SKIP or LIMIT is the fault of the database: one of the two    *)
(* compared results is wrong.  A mismatch of any query is one of a         *)
(* partitioned query.                                                      *)
(***************************************************************************)
THEOREM AlarmsAreJustified ==
  ASSUME LimitIsOutOfReach
  PROVE  Spec => []NoFalseAlarm
<1>1. IInv => NoFalseAlarm
  BY DEF IInv
<1> QED
  BY Invariance, <1>1, PTL

(***************************************************************************)
(* The partitioned query is the last statement of its query: DiscardQuery  *)
(* ends the query after it whatever it returned.                           *)
(***************************************************************************)
THEOREM PartitionedQueryIsLast ==
  ASSUME LimitIsOutOfReach
  PROVE  Spec => []PartitioningEndsQuery
<1>1. IInv => PartitioningEndsQuery
  BY DEF IInv, PhaseShape, PartitioningEndsQuery
<1> QED
  BY Invariance, <1>1, PTL

-----------------------------------------------------------------------------
(* Reports. *)

(***************************************************************************)
(* Only a result with an error or one of the partitioned query is reported.*)
(* Either ends the query.                                                  *)
(***************************************************************************)
VerdictShape ==
  /\ pc = "tally" /\ res.type = "Bug" => res.err # "none" \/ generatedPartitioningQueries
  /\ pc = "discard" /\ report # << >> => res.err # "none" \/ generatedPartitioningQueries

LEMMA VerdictStep ==
  ASSUME LimitIsOutOfReach, IInv, TraceInv, VerdictShape, [Next]_vars
  PROVE  VerdictShape'
<1> USE DEF VerdictShape
<1>1. CASE UNCHANGED vars
  BY <1>1 DEF vars, schedulerVars, runVars, resultVars, strategyVars
<1>2. CASE RunStep /\ UNCHANGED strategyVars
  <2>1. pc' = "tally" => res'.type \in {"Timeout", "Crash"}
    BY <1>2
    DEF RunStep, ConnectFails, Connected, LimitReached, DatabaseUnusable, ReceiveResult,
        ForcedTimeout, CrashVerdict, TimeoutEndsQuery, NextQuery, NoResult, IInv, TypeOK,
        SchedulerTypeOK, QueryResults
  <2>2. pc' # "discard"
    BY <1>2
    DEF RunStep, ConnectFails, Connected, LimitReached, DatabaseUnusable, ReceiveResult,
        ForcedTimeout, CrashVerdict, TimeoutEndsQuery, NextQuery
  <2> QED
    BY <2>1, <2>2
<1>3. CASE Environment /\ UNCHANGED strategyVars
  <2>1. UNCHANGED <<pc, report, res>>
    BY <1>3
    DEF Environment, StatementSucceeds, StatementFails, StatementCrashes, ConnectionLost,
        TransactionErrorLost, Return, OrphanRuns, DatabaseRestarts, runVars, resultVars
  <2> QED
    BY <1>3, <2>1 DEF strategyVars
<1>4. CASE Begin
  BY <1>4 DEF Begin, BeginQuery
<1>5. CASE Generate
  BY <1>5 DEF Generate, GenerationFails, NextQuery, SendStatement
<1>6. CASE Judge
  <2> DEFINE driverType == DriverResultType(DriverResultTypes, res, returnedNil)
  <2>1. driverType = "Bug" => res.err # "none"
    BY DEF DriverResultType, DriverResultTypes, Neo4jResultType, FalkorDBResultType
  <2>2. /\ pc' = "tally" /\ res' = [res EXCEPT !.type = StrategyVerdict(driverType, res)]
        /\ UNCHANGED generatedPartitioningQueries /\ res \in QueryResults
    BY <1>6 DEF Judge, Verdict, KeepResult, IInv, TypeOK, SchedulerTypeOK
  <2>3. res'.type = StrategyVerdict(driverType, res) /\ res'.err = res.err
    BY <2>2 DEF QueryResults
  <2> HIDE DEF driverType
  <2> QED
    BY <2>1, <2>2, <2>3 DEF StrategyVerdict
<1>7. CASE HandleResult
  <2>1. /\ pc = "tally" /\ report = << >>
        /\ pc' \in {"recover", "discard"}
        /\ report' # << >> => res.type \in {"Bug", "Crash"}
        /\ pc' = "discard" => res.type # "Crash" \/ statementCount = QueryLimit - 1
        /\ UNCHANGED <<res, generatedPartitioningQueries>>
    BY <1>7 DEF HandleResult, Handle, RecoversFromCrash, strategyVars, TraceInv, ReportIsQuery
  <2>2. ~generatedPartitioningQueries => statementCount # QueryLimit - 1
    <3> SUFFICES ASSUME ~generatedPartitioningQueries PROVE statementCount # QueryLimit - 1
      OBVIOUS
    <3>1. statementCount \in 0 .. MaxStatements
      BY <2>1, BoundsAssumption DEF IInv, TypeOK, SchedulerTypeOK, CountShape, Active
    <3> QED
      BY <3>1 DEF LimitIsOutOfReach
  <2> QED
    BY <2>1, <2>2
<1>8. CASE Discard
  BY <1>8 DEF Discard, DiscardStep, QueryDiscarded, NextQuery, QueryContinues
<1> QED
  BY <1>1, <1>2, <1>3, <1>4, <1>5, <1>6, <1>7, <1>8 DEF Next, Fuzzer

LEMMA TraceStep ==
  ASSUME IInv, TraceInv, VerdictShape, [Next]_vars
  PROVE  TraceInv'
<1>1. SchedulerTypeOK /\ StrategyTypeOK
  BY DEF IInv, TypeOK
<1>2. CASE UNCHANGED vars
  BY <1>2
  DEF vars, schedulerVars, runVars, resultVars, callVars, dbVars, TraceInv, CallShape, InQuery,
      ShowsFailure, Returned, TraceShape, ReportIsQuery, CurrentStatement
<1>3. CASE RunStep
  BY <1>1, <1>3, TraceRunStep
<1>4. CASE Environment
  BY <1>1, <1>4, TraceEnvironment
<1>5. CASE Begin
  BY <1>1, <1>5, TraceQueryStep DEF Begin
<1>6. CASE Generate
  <2>1. \A writes \in BOOLEAN :
          [sem |-> statementCount + 1, form |-> "original", writes |-> writes] \in Statements
    BY <1>1 DEF SchedulerTypeOK, Statements
  <2>2. generatedOriginalQuery =>
          \A sem \in PartitionedMeanings(statementCount + 1) :
            [sem |-> sem, form |-> "transformed", writes |-> FALSE] \in Statements
    BY <1>1 DEF IInv, PhaseShape, SchedulerTypeOK, StrategyTypeOK, Statements,
                PartitionedMeanings
  <2>3. GenerationFails \/ \E stmt \in Statements : SendStatement(stmt)
    BY <1>6, <2>1, <2>2 DEF Generate, PartitioningQueries
  <2> QED
    BY <1>1, <2>3, TraceQueryStep
<1>7. CASE Judge
  <2> DEFINE driverType == DriverResultType(DriverResultTypes, res, returnedNil)
  <2>1. driverType \in QueryResultTypes
    BY <1>1 DEF SchedulerTypeOK, DriverResultType, DriverResultTypes, Neo4jResultType,
                FalkorDBResultType, QueryResults, QueryResultTypes, ErrorKinds
  <2>2. Verdict(StrategyVerdict(driverType, res))
    BY <1>7 DEF Judge
  <2> HIDE DEF driverType
  <2>3. StrategyVerdict(driverType, res) \in QueryResultTypes
    BY <2>1 DEF StrategyVerdict, QueryResultTypes
  <2> QED
    BY <1>1, <2>2, <2>3, TraceQueryStep
<1>8. CASE HandleResult
  BY <1>1, <1>8, TraceQueryStep DEF HandleResult
<1>9. CASE Discard
  <2>1. QueryDiscarded \/ (QueryContinues /\ res.err = "none" /\ ~generatedPartitioningQueries)
    BY <1>9 DEF Discard, DiscardStep, StrategyDiscards, DriverDiscards
  <2>2. res.err = "none" /\ ~generatedPartitioningQueries => report = << >>
    BY <1>9 DEF Discard, VerdictShape
  <2> QED
    BY <1>1, <1>9, <2>1, <2>2, TraceQueryStep DEF Discard
<1> QED
  BY <1>2, <1>3, <1>4, <1>5, <1>6, <1>7, <1>8, <1>9 DEF Next, Fuzzer

(***************************************************************************)
(* A bug report shows the statements that brought the database to where    *)
(* the last of them failed, in their order, in queries of every length.    *)
(***************************************************************************)
THEOREM ReportsAreReplayable ==
  ASSUME LimitIsOutOfReach
  PROVE  Spec => []ReportReplaysFailure
<1>1. Init => TraceInv /\ VerdictShape
  BY DEF Init, SchedulerInit, TraceInv, CallShape, InQuery, TraceShape, ReportIsQuery,
         VerdictShape
<1>2. IInv /\ TraceInv /\ VerdictShape /\ [Next]_vars => TraceInv' /\ VerdictShape'
  BY TraceStep, VerdictStep
<1>3. TraceInv => ReportReplaysFailure
  BY DEF TraceInv, TraceShape, ReportIsQuery, Returned, ShowsFailure, CurrentStatement,
         ReportReplaysFailure
<1> QED
  BY Invariance, <1>1, <1>2, <1>3, PTL DEF Spec

-----------------------------------------------------------------------------
(***************************************************************************)
(* FuzzPartitioning implements DifferentialOracle: every step of the       *)
(* fuzzing run is a step of the oracle or leaves it alone.                 *)
(***************************************************************************)

(***************************************************************************)
(* What IInv does not say: when there is a result of the original query,   *)
(* and which statement is the current one.                                 *)
(***************************************************************************)
OutcomeInv ==
  /\ ~generatedOriginalQuery => originalQueryResult = NoResult
  /\ pc \in Waiting /\ ~generatedPartitioningQueries => originalQueryResult = NoResult
  /\ pc \in Active \ {"generate"} =>
       /\ query # << >>
       /\ CurrentStatement.form =
            IF generatedPartitioningQueries THEN "transformed" ELSE "original"
  /\ pc = "generate" => query = << >> \/ CurrentStatement.form = "original"

RInv == IInv /\ OutcomeInv

(* The situations in which the oracle is not done. *)
Open == OracleOutcome \in {"recording", "comparing"}

-----------------------------------------------------------------------------
(* OutcomeInv is an invariant. *)

LEMMA OutcomeInit == Init => OutcomeInv
BY DEF Init, SchedulerInit, StrategyInit, OutcomeInv, Active, Waiting

LEMMA OutcomeStep ==
  ASSUME RInv, [Next]_vars
  PROVE  OutcomeInv'
<1> USE DEF RInv, OutcomeInv, CurrentStatement, Active, Waiting
<1>1. CASE UNCHANGED vars
  BY <1>1 DEF vars, schedulerVars, runVars, resultVars, strategyVars
<1>2. CASE RunStep /\ UNCHANGED strategyVars
  BY <1>2
  DEF RunStep, ConnectFails, Connected, LimitReached, DatabaseUnusable, ReceiveResult,
      ForcedTimeout, CrashVerdict, TimeoutEndsQuery, NextQuery, resultVars, strategyVars
<1>3. CASE Environment /\ UNCHANGED strategyVars
  <2>1. UNCHANGED <<pc, query>>
    BY <1>3
    DEF Environment, StatementSucceeds, StatementFails, StatementCrashes, ConnectionLost,
        TransactionErrorLost, Return, OrphanRuns, DatabaseRestarts, runVars, resultVars
  <2> QED
    BY <1>3, <2>1 DEF strategyVars
<1>4. CASE Begin
  BY <1>4 DEF Begin, BeginQuery, StrategyReset
<1>5. CASE Generate
  <2>1. pc = "generate" /\ query \in Seq(Statements) /\ ~generatedPartitioningQueries
        /\ matchCapturer \in Nat /\ statementCount \in Nat
    BY <1>5 DEF Generate, IInv, TypeOK, SchedulerTypeOK, StrategyTypeOK, PhaseShape
  <2>2. ASSUME GenerationFails PROVE pc' = "query"
    BY <2>2 DEF GenerationFails, NextQuery
  <2>3. ASSUME NEW stmt, SendStatement(stmt)
        PROVE  pc' = "await" /\ query' # << >> /\ query'[Len(query')] = stmt
    BY <2>1, <2>3, AppendProperties DEF SendStatement
  <2>4. CASE \E done \in Coins : SchemaStatement(done)
             /\ \E writes \in BOOLEAN :
                  \/ GenerationFails
                  \/ SendStatement([ sem |-> statementCount + 1, form |-> "original",
                                     writes |-> writes ])
    <3>1. ~generatedOriginalQuery /\ ~generatedPartitioningQueries'
          /\ UNCHANGED <<generatedOriginalQuery, originalQueryResult>>
      BY <2>1, <2>4 DEF SchemaStatement, IInv, PhaseShape
    <3> QED
      BY <2>2, <2>3, <2>4, <3>1
  <2>5. CASE (\E plain \in BOOLEAN : OriginalQuery(statementCount + 1, plain))
             /\ \/ GenerationFails
                \/ SendStatement([ sem |-> statementCount + 1, form |-> "original",
                                   writes |-> FALSE ])
    <3>1. originalQueryResult' = NoResult /\ ~generatedPartitioningQueries'
      BY <2>1, <2>5 DEF OriginalQuery
    <3> QED
      BY <2>2, <2>3, <2>5, <3>1
  <2>6. CASE PartitioningQueries
             /\ \E sem \in PartitionedMeanings(statementCount + 1) :
                  \/ GenerationFails
                  \/ SendStatement([sem |-> sem, form |-> "transformed", writes |-> FALSE])
    <3>1. generatedOriginalQuery' /\ generatedPartitioningQueries'
      BY <2>6 DEF PartitioningQueries
    <3> QED
      BY <2>2, <2>3, <2>6, <3>1
  <2> QED
    BY <1>5, <2>4, <2>5, <2>6 DEF Generate
<1>6. CASE Judge
  BY <1>6 DEF Judge, Verdict, KeepResult
<1>7. CASE HandleResult
  BY <1>7 DEF HandleResult, Handle, strategyVars
<1>8. CASE Discard
  <2>1. pc = "discard" /\ UNCHANGED <<query, strategyVars>>
    BY <1>8 DEF Discard, DiscardStep, QueryContinues, QueryDiscarded, resultVars
  <2>2. pc' \in {"query", "generate"}
    BY <1>8 DEF Discard, DiscardStep, QueryContinues, QueryDiscarded, NextQuery
  <2>3. pc' = "generate" => ~generatedPartitioningQueries
    BY <1>8 DEF Discard, DiscardStep, QueryDiscarded, NextQuery, StrategyDiscards
  <2> QED
    BY <2>1, <2>2, <2>3 DEF strategyVars
<1> QED
  BY <1>1, <1>2, <1>3, <1>4, <1>5, <1>6, <1>7, <1>8 DEF Next, Fuzzer

-----------------------------------------------------------------------------
(* How the steps of the fuzzing run map to steps of the oracle. *)

(* The oracle before and after a step that does not concern it. *)
LEMMA MapsToInput ==
  ASSUME UNCHANGED <<generatedOriginalQuery, originalQueryResult>>,
         OracleOutcome' = OracleOutcome
  PROVE  Oracle!OracleNext
<1>1. UNCHANGED <<OracleBaselines, OracleCompared, OracleOutcome>>
  BY DEF OracleBaselines, OracleCompared, OriginalKept, NoResult
<1> QED
  BY <1>1 DEF Oracle!OracleNext, Oracle!NewInput

LEMMA MapsToAbandon ==
  ASSUME Open, OracleOutcome' = "idle"
  PROVE  Oracle!OracleNext
<1>1. OracleBaselines' = << >> /\ OracleCompared' = 0
  BY DEF OracleBaselines, OracleCompared
<1> QED
  BY <1>1 DEF Open, Oracle!OracleNext, Oracle!AbandonQuery

(* Where the oracle is while no partitioned query was judged. *)
LEMMA OutcomeOfOpenQuery ==
  ASSUME pc \in Active, ~PartitionsJudged \/ res.type \notin {"Valid", "Bug"}
  PROVE  /\ OracleOutcome = IF OriginalKept THEN "comparing" ELSE "recording"
         /\ Open
BY DEF OracleOutcome, Open, QueryIsOver, Active

LEMMA NotJudgedYet ==
  ASSUME RInv, pc \in {"generate", "await", "verify"}
  PROVE  ~PartitionsJudged /\ pc \in Active
BY DEF RInv, IInv, PhaseShape, PartitionsJudged, Active

(* A query that nobody judged is over. *)
LEMMA EndsUnjudged ==
  ASSUME pc \in Active, ~PartitionsJudged \/ res.type \notin {"Valid", "Bug"},
         ~PartitionsJudged' \/ res'.type \notin {"Valid", "Bug"},
         QueryIsOver'
  PROVE  Oracle!OracleNext
<1>1. OracleOutcome' = "idle"
  BY DEF OracleOutcome
<1> QED
  BY <1>1, OutcomeOfOpenQuery, MapsToAbandon

(* A step between two states of a query that nobody judged. *)
LEMMA StaysUnjudged ==
  ASSUME pc \in Active, ~PartitionsJudged \/ res.type \notin {"Valid", "Bug"},
         pc' \in Active, ~PartitionsJudged' \/ res'.type \notin {"Valid", "Bug"},
         OriginalKept' = OriginalKept,
         OriginalKept => originalQueryResult' = originalQueryResult
  PROVE  Oracle!OracleNext
<1>1. OracleOutcome = IF OriginalKept THEN "comparing" ELSE "recording"
  BY OutcomeOfOpenQuery
<1>2. OracleOutcome' = IF OriginalKept THEN "comparing" ELSE "recording"
  BY DEF OracleOutcome, QueryIsOver, Active
<1>3. UNCHANGED <<OracleBaselines, OracleCompared, OracleOutcome>>
  BY <1>1, <1>2 DEF OracleBaselines, OracleCompared
<1> QED
  BY <1>3 DEF Oracle!OracleNext, Oracle!NewInput

(* A step after which the oracle is where it was. *)
LEMMA KeepsOutcome ==
  ASSUME UNCHANGED <<query, res, strategyVars>>,
         (pc \in {"await", "verify"}) <=> (pc' \in {"await", "verify"}),
         QueryIsOver' <=> QueryIsOver
  PROVE  Oracle!OracleNext
<1>1. OracleOutcome' = OracleOutcome
  BY DEF OracleOutcome, PartitionsJudged, CurrentStatement, OriginalKept, NoResult,
         DriverResultTypes, strategyVars
<1> QED
  BY <1>1, MapsToInput DEF strategyVars

LEMMA RunStepRefines ==
  ASSUME RInv, RunStep, UNCHANGED strategyVars
  PROVE  Oracle!OracleNext
<1> USE DEF NextQuery
<1>0. OriginalKept' = OriginalKept /\ originalQueryResult' = originalQueryResult
  BY DEF OriginalKept, NoResult, strategyVars
<1>1. CASE ConnectFails \/ Connected \/ LimitReached
  BY <1>1, KeepsOutcome DEF ConnectFails, Connected, LimitReached, resultVars, QueryIsOver
<1>2. CASE DatabaseUnusable
  <2>1. CASE pc = "query"
    BY <1>2, <2>1, KeepsOutcome DEF DatabaseUnusable, resultVars, QueryIsOver
  <2>2. CASE pc = "generate"
    <3>1. ~PartitionsJudged' /\ QueryIsOver'
      BY <1>2, <2>2
      DEF DatabaseUnusable, RInv, IInv, PhaseShape, PartitionsJudged, QueryIsOver, strategyVars
    <3> QED
      BY <2>2, <3>1, NotJudgedYet, EndsUnjudged
  <2> QED
    BY <1>2, <2>1, <2>2 DEF DatabaseUnusable
<1>3. CASE ReceiveResult
  BY <1>0, <1>3, NotJudgedYet, StaysUnjudged DEF ReceiveResult, PartitionsJudged, Active
<1>4. CASE ForcedTimeout
  <2>1. pc = "await" /\ pc' = "tally" /\ res'.type = "Timeout"
    BY <1>4 DEF ForcedTimeout, NoResult
  <2> QED
    BY <1>0, <2>1, NotJudgedYet, StaysUnjudged DEF Active
<1>5. CASE CrashVerdict
  <2>1. pc = "verify" /\ pc' = "tally" /\ res'.type = "Crash"
    BY <1>5 DEF CrashVerdict, RInv, IInv, TypeOK, SchedulerTypeOK, QueryResults
  <2> QED
    BY <1>0, <2>1, NotJudgedYet, StaysUnjudged DEF Active
<1>6. CASE TimeoutEndsQuery
  <2>1. pc \in Active /\ res.type = "Timeout" /\ res' = res /\ QueryIsOver'
    BY <1>6 DEF TimeoutEndsQuery, resultVars, QueryIsOver, Active
  <2> QED
    BY <2>1, EndsUnjudged
<1> QED
  BY <1>1, <1>2, <1>3, <1>4, <1>5, <1>6 DEF RunStep

LEMMA EnvironmentRefines ==
  ASSUME Environment, UNCHANGED strategyVars
  PROVE  Oracle!OracleNext
<1>1. UNCHANGED <<pc, query, res>>
  BY DEF Environment, StatementSucceeds, StatementFails, StatementCrashes, ConnectionLost,
         TransactionErrorLost, Return, OrphanRuns, DatabaseRestarts, runVars, resultVars
<1> QED
  BY <1>1, KeepsOutcome DEF QueryIsOver

LEMMA BeginRefines ==
  ASSUME Begin
  PROVE  Oracle!OracleNext
<1>1. /\ pc = "query" /\ pc' = "generate" /\ generatedPartitioningQueries' = FALSE
      /\ generatedOriginalQuery' = FALSE
  BY DEF Begin, BeginQuery, StrategyReset
<1>2. OracleOutcome \in {"idle", "agreed", "alarm"}
  BY <1>1 DEF OracleOutcome, QueryIsOver
<1>3. OracleOutcome' = "recording"
  BY <1>1 DEF OracleOutcome, QueryIsOver, PartitionsJudged, OriginalKept
<1>4. OracleBaselines' = << >> /\ OracleCompared' = 0
  BY <1>1, <1>3 DEF OracleBaselines, OracleCompared, OriginalKept
<1> QED
  BY <1>2, <1>3, <1>4 DEF Oracle!OracleNext, Oracle!StartQuery

LEMMA GenerateRefines ==
  ASSUME RInv, RInv', Generate
  PROVE  Oracle!OracleNext
<1>1. pc = "generate" /\ (GenerationFails \/ \E stmt : SendStatement(stmt))
  BY DEF Generate
<1>2. originalQueryResult' = originalQueryResult
  BY DEF Generate, SchemaStatement, OriginalQuery, PartitioningQueries
<1>3. OriginalKept' = OriginalKept
  <2>1. originalQueryResult # NoResult => generatedOriginalQuery
    BY DEF RInv, OutcomeInv
  <2>2. originalQueryResult' # NoResult => generatedOriginalQuery'
    BY DEF RInv, OutcomeInv, NoResult
  <2> QED
    BY <1>2, <2>1, <2>2 DEF OriginalKept, NoResult
<1>4. CASE GenerationFails
  <2>1. pc' = "query" /\ query' = query
    BY <1>4 DEF GenerationFails, NextQuery, resultVars
  <2>2. query = << >> \/ CurrentStatement.form = "original"
    BY <1>1 DEF RInv, OutcomeInv
  <2>3. ~PartitionsJudged' /\ QueryIsOver'
    BY <2>1, <2>2 DEF PartitionsJudged, CurrentStatement, QueryIsOver
  <2> QED
    BY <1>1, <2>3, NotJudgedYet, EndsUnjudged
<1>5. CASE \E stmt : SendStatement(stmt)
  <2>1. pc' = "await"
    BY <1>5 DEF SendStatement
  <2> QED
    BY <1>1, <1>2, <1>3, <2>1, NotJudgedYet, StaysUnjudged DEF PartitionsJudged, Active
<1> QED
  BY <1>1, <1>4, <1>5

LEMMA JudgeRefines ==
  ASSUME RInv, RInv', Judge
  PROVE  Oracle!OracleNext
<1> DEFINE driverType == DriverResultType(DriverResultTypes, res, returnedNil)
<1>1. /\ pc = "verify" /\ pc' = "tally" /\ query' = query
      /\ res' = [res EXCEPT !.type = StrategyVerdict(driverType, res)]
      /\ originalQueryResult' =
           IF driverType = "Valid" /\ generatedOriginalQuery /\ ~generatedPartitioningQueries
             THEN res ELSE originalQueryResult
      /\ UNCHANGED <<generatedOriginalQuery, generatedPartitioningQueries, matchCapturer>>
  BY DEF Judge, Verdict, KeepResult
<1>2. res \in QueryResults /\ returnedNil \in BOOLEAN /\ matchCapturer \in Nat
      /\ generatedOriginalQuery \in BOOLEAN /\ generatedPartitioningQueries \in BOOLEAN
  BY DEF RInv, IInv, TypeOK, SchedulerTypeOK, StrategyTypeOK
<1>3. res'.type = StrategyVerdict(driverType, res) /\ res'.err = res.err
  BY <1>1, <1>2 DEF QueryResults
<1>4. ~PartitionsJudged /\ pc \in Active /\ pc' \in Active
  BY <1>1, NotJudgedYet DEF Active
<1>5. OracleOutcome = IF OriginalKept THEN "comparing" ELSE "recording"
  BY <1>4, OutcomeOfOpenQuery
<1>6. /\ res.type = "None"
      /\ res.nils => returnedNil
      /\ generatedOriginalQuery /\ ~generatedPartitioningQueries => res.sem = matchCapturer
  BY <1>1 DEF RInv, IInv, LatestShape, SameMeaning, Arrived
<1>7. NoResult.sem = 0
  BY DEF NoResult
<1>8. PartitionsJudged' <=> generatedPartitioningQueries
  BY <1>1 DEF RInv, OutcomeInv, PartitionsJudged, CurrentStatement, Active
(* The result of the original query is kept. *)
<1>9. CASE driverType = "Valid" /\ res.err = "none"
           /\ generatedOriginalQuery /\ ~generatedPartitioningQueries
  <2>1. originalQueryResult = NoResult /\ originalQueryResult' = res
    BY <1>1, <1>9 DEF RInv, OutcomeInv, Waiting
  <2>2. matchCapturer # 0
    BY <1>9 DEF RInv, IInv, PhaseShape
  <2>3. ~OriginalKept /\ OriginalKept'
    <3>1. res # NoResult
      BY <1>6, <1>7, <1>9, <2>2
    <3>2. res # NoResult'
      BY <3>1 DEF NoResult
    <3> QED
      BY <1>1, <1>9, <2>1, <3>2 DEF OriginalKept
  <2>4. OracleOutcome = "recording" /\ OracleOutcome' = "comparing"
    <3>1. OracleOutcome' = IF OriginalKept' THEN "comparing" ELSE "recording"
      BY <1>1, <1>8, <1>9 DEF OracleOutcome, QueryIsOver
    <3> QED
      BY <1>5, <2>3, <3>1
  <2>5. OracleBaselines = << >> /\ OracleBaselines' = <<res>>
        /\ OracleCompared = 0 /\ OracleCompared' = 0
    BY <2>1, <2>3, <2>4 DEF OracleBaselines, OracleCompared
  <2>6. [res EXCEPT !.type = "None"] = res
    BY <1>2, <1>6 DEF QueryResults
  <2>7. OracleBaselines' = Append(OracleBaselines, [res EXCEPT !.type = "None"])
    BY <2>5, <2>6
  <2>8. ~res.nils
    BY <1>6, <1>9 DEF DriverResultType
  <2> QED
    BY <1>9, <2>4, <2>5, <2>7, <2>8
    DEF Oracle!OracleNext, Oracle!Record, Oracle!Trustworthy
(* The partitioned query is compared. *)
<1>10. CASE driverType = "Valid" /\ generatedPartitioningQueries
  <2>1. originalQueryResult' = originalQueryResult
    BY <1>1, <1>10
  <2>2. ~returnedNil /\ DriverResultTypes[res.err] = "Valid"
    BY <1>10 DEF DriverResultType
  <2>3. generatedOriginalQuery /\ matchCapturer # 0 /\ Comparable
    BY <1>1, <1>10, <2>2 DEF RInv, IInv, PhaseShape, BaselineShape, Waiting
  <2>4. OriginalKept /\ OriginalKept'
    <3>1. originalQueryResult # NoResult
      BY <1>7, <2>3 DEF Comparable
    <3> QED
      BY <1>1, <2>1, <2>3, <3>1 DEF OriginalKept, Comparable, NoResult
  <2>5. OracleOutcome = "comparing"
    BY <1>5, <2>4
  <2>6. OracleBaselines = <<originalQueryResult>> /\ OracleCompared = 0
    BY <2>4, <2>5 DEF OracleBaselines, OracleCompared
  <2>7. OracleOutcome' =
          IF IsEqualResult(originalQueryResult, res) THEN "agreed" ELSE "alarm"
    <3>1. DriverResultTypes'[res'.err] = "Valid"
      BY <1>3, <2>2 DEF DriverResultTypes
    <3> QED
      BY <1>3, <1>8, <1>10, <3>1 DEF OracleOutcome, StrategyVerdict
  <2>8. OracleBaselines' = <<originalQueryResult>>
    BY <2>1, <2>4, <2>7 DEF OracleBaselines
  <2>9. Len(OracleBaselines) = 1 /\ OracleBaselines[1] = originalQueryResult
    BY <2>6
  <2>10. CASE IsEqualResult(originalQueryResult, res)
    <3>1. OracleOutcome' = "agreed" /\ OracleCompared' = 1
      BY <2>7, <2>10 DEF OracleCompared
    <3> QED
      BY <2>5, <2>6, <2>8, <2>9, <2>10, <3>1
      DEF Oracle!OracleNext, Oracle!Agree, Oracle!IsEqualResult, IsEqualResult
  <2>11. CASE ~IsEqualResult(originalQueryResult, res)
    <3>1. OracleOutcome' = "alarm" /\ OracleCompared' = 0
      BY <2>7, <2>11 DEF OracleCompared
    <3> QED
      BY <2>5, <2>6, <2>8, <2>9, <2>11, <3>1
      DEF Oracle!OracleNext, Oracle!Differ, Oracle!IsEqualResult, IsEqualResult
  <2> QED
    BY <2>10, <2>11
(* Nothing is kept or compared. *)
<1>11. CASE ~(driverType = "Valid" /\ generatedPartitioningQueries)
            /\ ~(driverType = "Valid" /\ res.err = "none"
                 /\ generatedOriginalQuery /\ ~generatedPartitioningQueries)
  <2>1. OriginalKept' = OriginalKept
        /\ (OriginalKept => originalQueryResult' = originalQueryResult)
    <3>1. CASE driverType = "Valid" /\ generatedOriginalQuery /\ ~generatedPartitioningQueries
      <4>1. originalQueryResult = NoResult /\ originalQueryResult' = res /\ res.err # "none"
        BY <1>1, <1>11, <3>1 DEF RInv, OutcomeInv, Waiting
      <4> QED
        BY <4>1 DEF OriginalKept
    <3>2. CASE ~(driverType = "Valid" /\ generatedOriginalQuery /\ ~generatedPartitioningQueries)
      BY <1>1, <3>2 DEF OriginalKept, NoResult
    <3> QED
      BY <3>1, <3>2
  <2>2. OracleOutcome' = IF OriginalKept' THEN "comparing" ELSE "recording"
    <3>1. ~QueryIsOver'
      BY <1>1 DEF QueryIsOver
    <3>2. CASE ~generatedPartitioningQueries
      BY <1>8, <3>1, <3>2 DEF OracleOutcome
    <3>3. CASE generatedPartitioningQueries
      <4>1. driverType # "Valid" /\ res'.type = driverType
        BY <1>3, <1>11, <3>3 DEF StrategyVerdict
      <4>2. driverType = "Bug" => DriverResultTypes[res.err] = "Bug"
        BY DEF DriverResultType
      <4>3. ~(res'.type = "Bug" /\ DriverResultTypes'[res'.err] = "Valid")
        BY <1>3, <4>1, <4>2 DEF DriverResultTypes
      <4> QED
        BY <3>1, <4>1, <4>3 DEF OracleOutcome
    <3> QED
      BY <1>2, <3>2, <3>3
  <2>3. UNCHANGED <<OracleBaselines, OracleCompared, OracleOutcome>>
    BY <1>5, <2>1, <2>2 DEF OracleBaselines, OracleCompared
  <2> QED
    BY <2>3 DEF Oracle!OracleNext, Oracle!NewInput
<1> QED
  BY <1>9, <1>10, <1>11

LEMMA HandleRefines ==
  ASSUME HandleResult
  PROVE  Oracle!OracleNext
<1>1. /\ pc = "tally" /\ pc' \in {"recover", "discard"}
      /\ UNCHANGED <<query, res, strategyVars>>
  BY DEF HandleResult, Handle
<1>2. CASE pc' = "discard"
  BY <1>1, <1>2, KeepsOutcome DEF QueryIsOver
<1>3. CASE pc' = "recover"
  <2>1. res.type = "Crash"
    BY <1>3 DEF HandleResult, Handle, RecoversFromCrash
  <2> QED
    BY <1>1, <1>3, <2>1, EndsUnjudged DEF QueryIsOver, Active
<1> QED
  BY <1>1, <1>2, <1>3

LEMMA DiscardRefines ==
  ASSUME RInv, Discard
  PROVE  Oracle!OracleNext
<1>1. pc = "discard" /\ UNCHANGED <<query, res, strategyVars>>
  BY DEF Discard, DiscardStep, QueryContinues, QueryDiscarded, resultVars
<1>2. CASE QueryContinues
  BY <1>1, <1>2, KeepsOutcome DEF QueryContinues, QueryIsOver
<1>3. CASE QueryDiscarded
  <2>1. pc' = "query"
    BY <1>3 DEF QueryDiscarded, NextQuery
  <2>2. PartitionsJudged' <=> PartitionsJudged
    BY <1>1, <2>1 DEF PartitionsJudged, CurrentStatement, strategyVars
  <2>3. CASE OracleOutcome \in {"agreed", "alarm"}
    <3>1. OracleOutcome' = OracleOutcome
      BY <1>1, <2>2, <2>3 DEF OracleOutcome, QueryIsOver, DriverResultTypes
    <3> QED
      BY <1>1, <3>1, MapsToInput DEF strategyVars
  <2>4. CASE OracleOutcome \notin {"agreed", "alarm"}
    <3>1. Open
      BY <1>1, <2>4 DEF OracleOutcome, Open, QueryIsOver
    <3>2. OracleOutcome' = "idle"
      BY <1>1, <2>1, <2>2, <2>4 DEF OracleOutcome, QueryIsOver, DriverResultTypes
    <3> QED
      BY <3>1, <3>2, MapsToAbandon
  <2> QED
    BY <2>3, <2>4
<1> QED
  BY <1>2, <1>3 DEF Discard, DiscardStep

(***************************************************************************)
(* A fuzzing run with predicate partitioning is a run of the oracle: the   *)
(* partitioned query is compared with the result of its own original, and  *)
(* a query that passes was compared.                                       *)
(***************************************************************************)
THEOREM Refinement ==
  ASSUME LimitIsOutOfReach
  PROVE  Spec => ImplementsOracle
<1>1. Init => RInv /\ Oracle!OracleInit
  <2> SUFFICES ASSUME Init PROVE RInv /\ Oracle!OracleInit
    OBVIOUS
  <2>1. OracleOutcome = "idle"
    BY DEF Init, SchedulerInit, StrategyInit, OracleOutcome, QueryIsOver, PartitionsJudged
  <2>2. OracleBaselines = << >> /\ OracleCompared = 0
    BY <2>1 DEF OracleBaselines, OracleCompared
  <2> QED
    BY <2>1, <2>2, InitInvariant, OutcomeInit DEF RInv, Oracle!OracleInit
<1>2. RInv /\ [Next]_vars => OutcomeInv'
  BY OutcomeStep
<1>3. RInv /\ RInv' /\ [Next]_vars => [Oracle!OracleNext]_Oracle!oracleVars
  <2> SUFFICES ASSUME RInv, RInv', [Next]_vars
               PROVE  [Oracle!OracleNext]_Oracle!oracleVars
    OBVIOUS
  <2>1. CASE Next
    BY <2>1, RunStepRefines, EnvironmentRefines, BeginRefines, GenerateRefines, JudgeRefines,
       HandleRefines, DiscardRefines
    DEF Next, Fuzzer
  <2>2. CASE UNCHANGED vars
    BY <2>2, KeepsOutcome
    DEF vars, schedulerVars, strategyVars, runVars, resultVars, QueryIsOver
  <2> QED
    BY <2>1, <2>2
<1>4. Spec => []IInv
  BY Invariance
<1> QED
  BY <1>1, <1>2, <1>3, <1>4, PTL DEF Spec, RInv, ImplementsOracle, Oracle!OracleSpec
=============================================================================
