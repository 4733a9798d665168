--------------------------- MODULE FuzzNone_proofs ---------------------------
(***************************************************************************)
(* Proofs about FuzzNone, for every set of errors, driver and length of a  *)
(* query.                                                                  *)
(***************************************************************************)
EXTENDS FuzzNone, Scheduler_proofs

(***************************************************************************)
(* Run looks at the limit of queries to tell whether a crash ends a query  *)
(* (RecoversFromCrash): no statement may have the number it excepts.       *)
(***************************************************************************)
LimitIsOutOfReach == \A n \in 0 .. MaxStatements - 1 : n # QueryLimit - 1

Active == {"generate", "await", "verify", "tally", "discard"}

(* The goroutine runs the last statement of the query. *)
QueryShape == running => query # << >>

(* The seed ends the query at the last statement. *)
CountShape == pc \in Active => statementCount < MaxStatements

(* Only a result with an error, or a crash, is reported. *)
VerdictShape ==
  /\ pc = "tally" /\ res.type = "Bug" => res.err # "none"
  /\ pc = "discard" => res.type # "Crash"

ReportShape ==
  /\ pc \in Active \ {"discard"} => report = << >>
  /\ pc = "discard" /\ report # << >> => res.err # "none"

IInv == TypeOK /\ CallShape /\ QueryShape /\ CountShape /\ VerdictShape /\ ReportShape

-----------------------------------------------------------------------------
(* Types. *)

LEMMA InitTypes == Init => TypeOK
<1> SUFFICES ASSUME Init PROVE TypeOK
  OBVIOUS
<1>1. contents \in Seq(Nat)
  BY EmptySeq, ForeignIsSeq DEF Init, SchedulerInit
<1> QED
  BY <1>1, NoResultIsResult, EmptySeq
  DEF Init, SchedulerInit, TypeOK, SchedulerTypeOK, Locations

LEMMA RunStepTypes ==
  ASSUME IInv, RunStep
  PROVE  TypeOK'
<1> USE DEF IInv, TypeOK, SchedulerTypeOK, runVars, resultVars, callVars, dbVars
<1>1. CASE ConnectFails
  <2>1. attempts' \in Nat /\ pc' \in Locations
    BY <1>1 DEF ConnectFails, Locations
  <2> QED
    BY <1>1, <2>1 DEF ConnectFails
<1>2. CASE Connected
  <2>1. queries' \in Nat /\ attempts' \in Nat /\ pc' \in Locations
    BY <1>2 DEF Connected, NextQuery, Locations
  <2> QED
    BY <1>2, <2>1 DEF Connected
<1>3. CASE LimitReached
  BY <1>3 DEF LimitReached, Locations
<1>4. CASE DatabaseUnusable
  <2>1. /\ pc' = "failed"
        /\ UNCHANGED <<attempts, queries, statementCount, resultVars, callVars, dbVars>>
    BY <1>4 DEF DatabaseUnusable
  <2> QED
    BY <2>1 DEF Locations
<1>5. CASE ReceiveResult
  <2>1. res' \in QueryResults /\ resChan' \in Seq(QueryResults)
    BY <1>5, HeadTailProperties, EmptySeq DEF ReceiveResult
  <2> QED
    BY <1>5, <2>1 DEF ReceiveResult, Locations
<1>6. CASE ForcedTimeout
  <2>1. res' \in QueryResults /\ resChan' \in Seq(QueryResults)
    BY <1>6, EmptySeq
    DEF ForcedTimeout, QueryResults, QueryResultTypes, ErrorKinds, NoResult
  <2>2. orphans' \in Nat
    BY <1>6 DEF ForcedTimeout
  <2> QED
    BY <1>6, <2>1, <2>2 DEF ForcedTimeout, Locations
<1>7. CASE CrashVerdict
  <2>1. res' \in QueryResults
    BY <1>7 DEF CrashVerdict, QueryResults, QueryResultTypes
  <2> QED
    BY <1>7, <2>1 DEF CrashVerdict, Locations
<1>8. CASE TimeoutEndsQuery
  <2>1. queries' \in Nat /\ pc' \in Locations
    BY <1>8 DEF TimeoutEndsQuery, NextQuery, Locations
  <2> QED
    BY <1>8, <2>1 DEF TimeoutEndsQuery
<1> QED
  BY <1>1, <1>2, <1>3, <1>4, <1>5, <1>6, <1>7, <1>8 DEF RunStep

-----------------------------------------------------------------------------
(* The steps. *)

LEMMA RunStepInvariant ==
  ASSUME IInv, RunStep
  PROVE  IInv'
<1> USE DEF CallShape, QueryShape, CountShape, VerdictShape, ReportShape, Active, runVars, resultVars,
            callVars, dbVars
<1>0. TypeOK'
  BY RunStepTypes
<1>1. CASE ConnectFails
  BY <1>0, <1>1 DEF IInv, ConnectFails
<1>2. CASE Connected
  BY <1>0, <1>2 DEF IInv, Connected, NextQuery
<1>3. CASE LimitReached
  BY <1>0, <1>3 DEF IInv, LimitReached
<1>4. CASE DatabaseUnusable
  BY <1>0, <1>4 DEF IInv, DatabaseUnusable
<1>5. CASE ReceiveResult
  BY <1>0, <1>5 DEF IInv, ReceiveResult
<1>6. CASE ForcedTimeout
  <2>1. res'.type = "Timeout"
    BY <1>6 DEF ForcedTimeout, NoResult
  <2> QED
    BY <1>0, <1>6, <2>1 DEF IInv, ForcedTimeout
<1>7. CASE CrashVerdict
  <2>1. res'.type = "Crash"
    BY <1>7 DEF CrashVerdict, IInv, TypeOK, SchedulerTypeOK, QueryResults
  <2> QED
    BY <1>0, <1>7, <2>1 DEF IInv, CrashVerdict
<1>8. CASE TimeoutEndsQuery
  BY <1>0, <1>8 DEF IInv, TimeoutEndsQuery, NextQuery
<1> QED
  BY <1>1, <1>2, <1>3, <1>4, <1>5, <1>6, <1>7, <1>8 DEF RunStep

(* What DB.RunQuery leaves in the channel. *)
LEMMA ReturnShape ==
  ASSUME IInv, running, NEW err \in ErrorKinds, NEW wrong \in BOOLEAN,
         NEW nils \in BOOLEAN, NEW got \in {"all", "rows", "nothing"},
         Return(err, wrong, nils, got), tainted' \in BOOLEAN,
         contents' \in {contents, AfterWrite}, up' \in BOOLEAN
  PROVE  IInv'
<1> DEFINE r == [ type |-> "None", err |-> err, seen |-> contents,
                  sem |-> CurrentStatement.sem, wrong |-> wrong, nils |-> nils,
                  got |-> got ]
<1>1. /\ pc = "await" /\ query # << >> /\ query \in Seq(Statements) /\ contents \in Seq(Nat)
      /\ TypeOK /\ returnedNil \in BOOLEAN
  BY DEF IInv, CallShape, QueryShape, TypeOK, SchedulerTypeOK
<1>2. CurrentStatement \in Statements
  <2>1. Len(query) \in 1..Len(query)
    BY <1>1, LenProperties, EmptySeq
  <2> QED
    BY <1>1, <2>1, ElementOfSeq DEF CurrentStatement
<1>3. CurrentStatement.sem \in Nat
  BY <1>2 DEF Statements
<1>4. contents' \in Seq(Nat)
  <2>1. Append(contents, CurrentStatement.sem) \in Seq(Nat)
    BY <1>1, <1>3, AppendProperties
  <2>2. AfterWrite \in {contents, Append(contents, CurrentStatement.sem)}
    BY DEF AfterWrite
  <2> QED
    BY <1>1, <2>1, <2>2
<1>5. r \in QueryResults
  BY <1>1, <1>3 DEF QueryResults, QueryResultTypes
<1>6. resChan' = <<r>> /\ resChan' \in Seq(QueryResults) /\ Len(resChan') = 1
  BY <1>5 DEF Return
<1>7. running' = FALSE /\ returnedNil' \in BOOLEAN /\ UNCHANGED <<runVars, resultVars, orphans>>
  BY <1>1 DEF Return
<1>8. TypeOK'
  BY <1>1, <1>4, <1>6, <1>7 DEF TypeOK, SchedulerTypeOK, runVars, resultVars
<1> QED
  BY <1>1, <1>6, <1>7, <1>8
  DEF IInv, CallShape, QueryShape, CountShape, VerdictShape, ReportShape, Active, runVars, resultVars

LEMMA EnvironmentInvariant ==
  ASSUME IInv, Environment
  PROVE  IInv'
<1>1. up \in BOOLEAN /\ contents \in Seq(Nat) /\ orphans \in Nat /\ returnedNil \in BOOLEAN
      /\ tainted \in BOOLEAN
  BY DEF IInv, TypeOK, SchedulerTypeOK
<1>2. Nils \subseteq BOOLEAN
  BY DEF Nils
<1>3. CASE StatementSucceeds
  <2>1. PICK wrong \in BOOLEAN, nils \in Nils : Return("none", wrong, nils, "all")
    BY <1>3 DEF StatementSucceeds
  <2> QED
    BY <1>1, <1>2, <1>3, <2>1, ReturnShape DEF StatementSucceeds, ErrorKinds
<1>4. CASE StatementFails
  <2>1. PICK err \in Errors \ {"none"}, nils \in Nils :
               Return(err, FALSE, nils, "nothing")
    BY <1>4 DEF StatementFails
  <2> QED
    BY <1>1, <1>2, <1>4, <2>1, ReturnShape, ErrorsAssumption DEF StatementFails
<1>5. CASE StatementCrashes
  BY <1>1, <1>5, ReturnShape DEF StatementCrashes, ErrorKinds
<1>6. CASE ConnectionLost
  BY <1>1, <1>6, ReturnShape DEF ConnectionLost, ErrorKinds
<1>10. CASE TransactionErrorLost
  <2>1. \E got \in {"rows", "nothing"} : Return("none", FALSE, FALSE, got)
    BY <1>10 DEF TransactionErrorLost
  <2>2. PICK got \in {"rows", "nothing"} : Return("none", FALSE, FALSE, got)
    BY <2>1
  <2>3. running /\ tainted' = TRUE /\ contents' \in {contents, AfterWrite} /\ up' \in BOOLEAN
    BY <1>1, <1>10 DEF TransactionErrorLost
  <2> QED
    BY <2>2, <2>3, ReturnShape DEF ErrorKinds
(* The other steps leave alone what Run sees. *)
<1>7. ASSUME TypeOK', UNCHANGED <<runVars, resultVars, running, resChan>>
      PROVE  IInv'
  BY <1>7
  DEF IInv, CallShape, QueryShape, CountShape, VerdictShape, ReportShape, Active, runVars, resultVars
<1>8. CASE OrphanRuns
  <2>1. contents' \in Seq(Nat) /\ orphans' \in Nat /\ returnedNil' \in BOOLEAN
    BY <1>1, <1>2, <1>8, AppendProperties DEF OrphanRuns, Foreign, dbVars
  <2>2. TypeOK'
    BY <1>8, <2>1
    DEF OrphanRuns, IInv, TypeOK, SchedulerTypeOK, runVars, resultVars, dbVars
  <2> QED
    BY <1>7, <1>8, <2>2 DEF OrphanRuns
<1>9. CASE DatabaseRestarts
  <2>1. contents' \in Seq(Nat) /\ tainted' \in BOOLEAN
    BY <1>1, <1>9, EmptySeq DEF DatabaseRestarts
  <2>2. TypeOK'
    BY <1>9, <2>1
    DEF DatabaseRestarts, IInv, TypeOK, SchedulerTypeOK, runVars, resultVars, callVars
  <2> QED
    BY <1>7, <1>9, <2>2 DEF DatabaseRestarts, callVars
<1> QED
  BY <1>3, <1>4, <1>5, <1>6, <1>8, <1>9, <1>10 DEF Environment

LEMMA BeginInvariant ==
  ASSUME IInv, BeginQuery
  PROVE  IInv'
<1>1. /\ pc = "query" /\ pc' = "generate" /\ statementCount' = 0 /\ query' = << >>
      /\ res' = NoResult /\ report' = << >> /\ UNCHANGED <<attempts, queries, callVars>>
  BY DEF BeginQuery
<1>2. tainted' \in BOOLEAN /\ up' \in BOOLEAN /\ returnedNil' \in BOOLEAN
      /\ contents' \in Seq(Nat)
  BY EmptySeq, ForeignIsSeq
  DEF BeginQuery, ResetSucceeds, ResetFails, IInv, TypeOK, SchedulerTypeOK
<1>3. TypeOK'
  BY <1>1, <1>2, NoResultIsResult, EmptySeq
  DEF IInv, TypeOK, SchedulerTypeOK, Locations, callVars
<1> QED
  BY <1>1, <1>3, BoundsAssumption
  DEF IInv, CallShape, QueryShape, CountShape, VerdictShape, ReportShape, Active, callVars

LEMMA GenerateInvariant ==
  ASSUME IInv, Generate
  PROVE  IInv'
<1>1. pc = "generate" /\ TypeOK /\ statementCount \in Nat /\ query \in Seq(Statements)
      /\ ~running /\ resChan = << >>
  BY DEF Generate, IInv, CallShape, TypeOK, SchedulerTypeOK
<1>2. CASE GenerationFails
  <2>1. pc' = "query" /\ queries' \in Nat
        /\ UNCHANGED <<attempts, statementCount, resultVars, callVars, dbVars>>
    BY <1>1, <1>2 DEF GenerationFails, NextQuery, TypeOK, SchedulerTypeOK
  <2>2. TypeOK'
    BY <1>1, <2>1 DEF TypeOK, SchedulerTypeOK, Locations, resultVars, callVars, dbVars
  <2> QED
    BY <1>1, <2>1, <2>2
    DEF IInv, CallShape, QueryShape, CountShape, VerdictShape, ReportShape, Active, callVars
<1>3. ASSUME NEW writes \in BOOLEAN,
             SendStatement([ sem |-> statementCount + 1, form |-> "original",
                             writes |-> writes ])
      PROVE  IInv'
  <2> DEFINE stmt == [sem |-> statementCount + 1, form |-> "original", writes |-> writes]
  <2>1. stmt \in Statements
    BY <1>1 DEF Statements
  <2>2. /\ pc' = "await" /\ query' = Append(query, stmt) /\ running' = TRUE
        /\ resChan' = << >>
        /\ UNCHANGED <<attempts, queries, statementCount, res, report, orphans, dbVars>>
    BY <1>3 DEF SendStatement
  <2>3. query' \in Seq(Statements) /\ query' # << >>
    BY <1>1, <2>1, <2>2, AppendProperties
  <2>4. TypeOK'
    BY <1>1, <2>2, <2>3, EmptySeq DEF TypeOK, SchedulerTypeOK, Locations, dbVars
  <2> QED
    BY <1>1, <2>2, <2>3, <2>4
    DEF IInv, CallShape, QueryShape, CountShape, VerdictShape, ReportShape, Active
<1> QED
  BY <1>2, <1>3 DEF Generate

LEMMA JudgeInvariant ==
  ASSUME IInv, Judge
  PROVE  IInv'
<1> DEFINE driverType == DriverResultType(DriverResultTypes, res, returnedNil)
<1>1. /\ pc = "verify" /\ pc' = "tally" /\ res' = [res EXCEPT !.type = driverType]
      /\ UNCHANGED <<attempts, queries, statementCount, query, report, callVars, dbVars>>
  BY DEF Judge, Verdict
<1>2. res \in QueryResults /\ returnedNil \in BOOLEAN
  BY DEF IInv, TypeOK, SchedulerTypeOK
<1>3. driverType \in QueryResultTypes
  BY <1>2 DEF DriverResultType, DriverResultTypes, Neo4jResultType, FalkorDBResultType,
              QueryResults, QueryResultTypes, ErrorKinds
<1>4. res' \in QueryResults /\ res'.type = driverType /\ res'.err = res.err
  BY <1>1, <1>2, <1>3 DEF QueryResults
<1>5. driverType = "Bug" => res.err # "none"
  BY DEF DriverResultType, DriverResultTypes, Neo4jResultType, FalkorDBResultType
<1>6. TypeOK'
  BY <1>1, <1>4 DEF IInv, TypeOK, SchedulerTypeOK, Locations, callVars, dbVars
<1> QED
  BY <1>1, <1>4, <1>5, <1>6
  DEF IInv, CallShape, QueryShape, CountShape, VerdictShape, ReportShape, Active, callVars

(* Only here the limit of queries matters: a crash is recovered from. *)
LEMMA HandleInvariant ==
  ASSUME IInv, HandleResult, LimitIsOutOfReach
  PROVE  IInv'
<1>1. /\ pc = "tally" /\ pc' \in {"recover", "discard"}
      /\ pc' = "discard" => res.type # "Crash" \/ statementCount = QueryLimit - 1
      /\ query' = query /\ report' \in {query, report}
      /\ report' # report => res.type \in {"Bug", "Crash"}
      /\ UNCHANGED <<attempts, queries, statementCount, res, callVars, dbVars>>
  BY DEF HandleResult, Handle, RecoversFromCrash
<1>2. statementCount # QueryLimit - 1
  <2>1. statementCount \in 0 .. MaxStatements - 1
    BY <1>1, BoundsAssumption DEF IInv, TypeOK, SchedulerTypeOK, CountShape, Active
  <2> QED
    BY <2>1 DEF LimitIsOutOfReach
<1>3. TypeOK'
  BY <1>1 DEF IInv, TypeOK, SchedulerTypeOK, Locations, callVars, dbVars
<1> QED
  BY <1>1, <1>2, <1>3
  DEF IInv, CallShape, QueryShape, CountShape, VerdictShape, ReportShape, Active, callVars

LEMMA DiscardInvariant ==
  ASSUME IInv, Discard
  PROVE  IInv'
<1>1. /\ pc = "discard" /\ TypeOK /\ statementCount \in Nat /\ queries \in Nat
      /\ statementCount < MaxStatements
      /\ UNCHANGED <<attempts, resultVars, callVars, dbVars>>
  BY DEF Discard, DiscardStep, QueryDiscarded, QueryContinues, IInv, TypeOK, SchedulerTypeOK,
         CountShape, Active
<1>2. CASE QueryDiscarded
  <2>1. pc' = "query" /\ queries' \in Nat /\ statementCount' = statementCount
    BY <1>1, <1>2 DEF QueryDiscarded, NextQuery
  <2>2. TypeOK'
    BY <1>1, <2>1 DEF TypeOK, SchedulerTypeOK, Locations, resultVars, callVars, dbVars
  <2> QED
    BY <1>1, <2>1, <2>2
    DEF IInv, CallShape, QueryShape, CountShape, VerdictShape, ReportShape, Active, callVars
<1>3. CASE QueryContinues /\ \E coin \in Coins : ~DriverDiscards(res, coin)
  <2>1. /\ pc' = "generate" /\ statementCount' = statementCount + 1 /\ UNCHANGED queries
        /\ res.err = "none"
        /\ statementCount + 1 < MaxStatements
    BY <1>3 DEF QueryContinues, DriverDiscards, Coins
  <2>2. TypeOK'
    BY <1>1, <2>1 DEF TypeOK, SchedulerTypeOK, Locations, resultVars, callVars, dbVars
  <2>3. report' = << >>
    BY <1>1, <2>1 DEF IInv, ReportShape, resultVars
  <2> QED
    BY <1>1, <2>1, <2>2, <2>3
    DEF IInv, CallShape, QueryShape, CountShape, VerdictShape, ReportShape, Active, callVars
<1> QED
  BY <1>2, <1>3 DEF Discard, DiscardStep

LEMMA StutterInvariant ==
  ASSUME IInv, UNCHANGED vars
  PROVE  IInv'
BY DEF IInv, TypeOK, SchedulerTypeOK, CallShape, QueryShape, CountShape, VerdictShape, ReportShape, vars,
       schedulerVars, runVars, resultVars, callVars, dbVars

-----------------------------------------------------------------------------
(***************************************************************************)
(* The invariant holds in every state of a fuzzing run without a strategy  *)
(* whose limit of queries is not the number of one of the statements.      *)
(***************************************************************************)
THEOREM Invariance ==
  ASSUME LimitIsOutOfReach
  PROVE  Spec => []IInv
<1>1. Init => IInv
  BY InitTypes
  DEF Init, SchedulerInit, IInv, CallShape, QueryShape, CountShape, VerdictShape, ReportShape, Active
<1>2. IInv /\ [Next]_vars => IInv'
  BY RunStepInvariant, EnvironmentInvariant, BeginInvariant, GenerateInvariant, JudgeInvariant,
     HandleInvariant, DiscardInvariant, StutterInvariant
  DEF Next, Fuzzer
<1> QED
  BY <1>1, <1>2, PTL DEF Spec

(***************************************************************************)
(* No statement is generated any more for a query that was reported: a bug *)
(* has an error, on which the driver discards the query, and a crash never *)
(* gets as far as DiscardQuery.                                            *)
(***************************************************************************)
THEOREM ReportedQueryIsOver ==
  ASSUME LimitIsOutOfReach
  PROVE  Spec => []ReportEndsQuery
<1>1. IInv => ReportEndsQuery
  BY DEF IInv, ReportShape, ReportEndsQuery, Active
<1> QED
  BY Invariance, <1>1, PTL

-----------------------------------------------------------------------------
(* Reports. *)

LEMMA TraceStep ==
  ASSUME IInv, TraceInv, [Next]_vars
  PROVE  TraceInv'
<1>1. SchedulerTypeOK
  BY DEF IInv, TypeOK
<1>2. CASE UNCHANGED vars
  BY <1>2
  DEF vars, schedulerVars, runVars, resultVars, callVars, dbVars, TraceInv, CallShape, InQuery,
      ShowsFailure, Returned, TraceShape, ReportIsQuery, CurrentStatement
<1>3. CASE RunStep
  BY <1>1, <1>3, TraceRunStep
<1>4. CASE Environment
  BY <1>1, <1>4, TraceEnvironment
<1>5. CASE BeginQuery
  BY <1>1, <1>5, TraceQueryStep
<1>6. CASE Generate
  <2>1. \A writes \in BOOLEAN :
          [sem |-> statementCount + 1, form |-> "original", writes |-> writes] \in Statements
    BY <1>1 DEF SchedulerTypeOK, Statements
  <2>2. GenerationFails \/ \E stmt \in Statements : SendStatement(stmt)
    BY <1>6, <2>1 DEF Generate
  <2> QED
    BY <1>1, <2>2, TraceQueryStep
<1>7. CASE Judge
  <2>1. DriverResultType(DriverResultTypes, res, returnedNil) \in QueryResultTypes
    BY <1>1 DEF SchedulerTypeOK, DriverResultType, DriverResultTypes, Neo4jResultType,
                FalkorDBResultType, QueryResults, QueryResultTypes, ErrorKinds
  <2> QED
    BY <1>1, <1>7, <2>1, TraceQueryStep DEF Judge
<1>8. CASE HandleResult
  BY <1>1, <1>8, TraceQueryStep DEF HandleResult
<1>9. CASE Discard
  <2>1. QueryDiscarded \/ (QueryContinues /\ res.err = "none")
    BY <1>9 DEF Discard, DiscardStep, DriverDiscards
  <2>2. res.err = "none" => report = << >>
    BY <1>9 DEF Discard, IInv, ReportShape, Active
  <2> QED
    BY <1>1, <1>9, <2>1, <2>2, TraceQueryStep DEF Discard
<1> QED
  BY <1>2, <1>3, <1>4, <1>5, <1>6, <1>7, <1>8, <1>9 DEF Next, Fuzzer

(***************************************************************************)
(* A bug report shows the statements that brought the database to where    *)
(* the last of them failed, in their order, in queries of every length.    *)
(***************************************************************************)
THEOREM ReportsAreReplayable ==
  ASSUME LimitIsOutOfReach
  PROVE  Spec => []ReportReplaysFailure
<1>1. Init => TraceInv
  BY DEF Init, SchedulerInit, TraceInv, CallShape, InQuery, TraceShape, ReportIsQuery
<1>2. IInv /\ TraceInv /\ [Next]_vars => TraceInv'
  BY TraceStep
<1>3. TraceInv => ReportReplaysFailure
  BY DEF TraceInv, TraceShape, ReportIsQuery, Returned, ShowsFailure, CurrentStatement,
         ReportReplaysFailure
<1> QED
  BY Invariance, <1>1, <1>2, <1>3, PTL DEF Spec
=============================================================================
