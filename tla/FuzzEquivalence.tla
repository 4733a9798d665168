--------------------------- MODULE FuzzEquivalence ---------------------------
(***************************************************************************)
(* A fuzzing run with the equivalence transformation strategy: the steps   *)
(* of Scheduler joined with the strategy's calls they make.                *)
(***************************************************************************)
EXTENDS Scheduler, EquivalenceTransformation

vars == <<schedulerVars, strategyVars>>

Init == SchedulerInit /\ StrategyInit

Begin == BeginQuery /\ StrategyReset

(* GetRootClause is called before the generation that may fail. *)
Generate ==
  /\ pc = "generate"
  /\ GetRootClause
  /\ \/ GenerationFails
     \/ SendStatement(RootClause')

Judge ==
  /\ pc = "verify"
  /\ Verdict(StrategyVerdict(DriverResultType(DriverResultTypes, res, returnedNil), res))
  /\ KeepResult(res)

HandleResult ==
  /\ pc = "tally"
  /\ Handle(PrepareQueryForBugreport(query))
  /\ UNCHANGED strategyVars

(* Wrong on purpose: the transformed statements find the originals' data. *)
NoResetMutant == UNCHANGED dbVars

(* The strategy resets the database on its own and ignores whether that    *)
(* worked.                                                                 *)
ResetBetweenPhases ==
  /\ ResetSucceeds \/ ResetFails
  /\ tainted' = (tainted \/ contents' # << >>)

DiscardQuery ==
  \/ /\ DropInvalidStatement(res.type)
     /\ ResetBetweenPhases
     /\ QueryContinues
  \/ /\ GiveUp(res.type)
     /\ QueryDiscarded
     /\ UNCHANGED dbVars
  \/ \E coin \in Coins :
       /\ ~DriverDiscards(res, coin)
       /\ NextOriginal(res.type)
       /\ DiscardStep(LastStatement(res))
       /\ UNCHANGED dbVars
  \/ \E coin \in Coins :
       /\ DriverDiscards(res, coin)
       /\ StartTransforming(res.type)
       /\ ResetBetweenPhases
       /\ DiscardStep(LastStatement(res))
  \/ /\ NextTransformed(res.type)
     /\ DiscardStep(LastStatement(res))
     /\ UNCHANGED dbVars

Discard == pc = "discard" /\ DiscardQuery

Fuzzer ==
  \/ RunStep /\ UNCHANGED strategyVars
  \/ Begin \/ Generate \/ Judge \/ HandleResult \/ Discard

Next == Fuzzer \/ (Environment /\ UNCHANGED strategyVars)

Spec == Init /\ [][Next]_vars

(***************************************************************************)
(* Run, its timers and RunQuery's select are live Go code; nothing is      *)
(* assumed of the database or of its supervisor.                           *)
(***************************************************************************)
FairSpec == Spec /\ WF_vars(Fuzzer)

-----------------------------------------------------------------------------
(***************************************************************************)
(* Every variable keeps its type (the state of Run, RunQuery, the database *)
(* and strategy.go).                                                       *)
(***************************************************************************)
TypeOK == SchedulerTypeOK /\ StrategyTypeOK

(***************************************************************************)
(* A transformed statement is judged by the result of its own original:    *)
(* the index GetQueryResultType uses is in range and names an original     *)
(* that returned no error, whatever dropped statements, earlier         *)
(* transformed results and resets lie between the two.                     *)
(***************************************************************************)
ComparedWithOriginal ==
  pc = "verify" /\ isTransforming =>
    /\ statementIndex < Len(previousResults)
    /\ Baseline.sem = res.sem
    /\ Baseline.err = "none"
    /\ CurrentStatement.form = "transformed"

(***************************************************************************)
(* The oracle raises no false alarm: unless something else than the        *)
(* query's statements reached the database (a reset that did not work, an  *)
(* abandoned goroutine, a restart that lost data), or neo4j's driver lost  *)
(* the error of one of their transactions, a mismatch means that one of    *)
(* the two compared results is wrong.  An error lost does raise false      *)
(* alarms: the statement is Valid without rows or schema (driver.go:114).  *)
(***************************************************************************)
NoFalseAlarm ==
  pc = "tally" /\ res.type = "Bug" /\ res.err = "none" /\ ~tainted =>
    isTransforming /\ (res.wrong \/ Baseline.wrong)

Meanings(statements) == [i \in DOMAIN statements |-> statements[i].sem]

(***************************************************************************)
(* A bug report can be replayed the way RerunQuery does it: it has two     *)
(* halves of the same meaning, the first of them of originals, and running *)
(* the second on an empty database brings the database to where the        *)
(* failing statement, its last one, found it.  (That needs an untainted    *)
(* query: a transaction that was lost unnoticed is not lost again.)        *)
(***************************************************************************)
ReportReplaysFailure ==
  report # << >> /\ pc \in {"recover", "discard"} /\ ~tainted =>
    LET half   == Len(report) \div 2
        first  == SubSeq(report, 1, half)
        second == SubSeq(report, half + 1, Len(report))
    IN /\ Len(report) = 2 * half
       /\ Meanings(first) = Meanings(second)
       /\ \A i \in 1..half : first[i].form = "original"
       /\ isTransforming => \A i \in 1..half : second[i].form = "transformed"
       /\ Meanings(second) = Append(res.seen, res.sem)

(***************************************************************************)
(* Nothing is generated any more for a query that was reported: the report *)
(* shows the whole query.                                                  *)
(***************************************************************************)
ReportEndsQuery == pc = "generate" => report = << >>

QueryIsOver == pc \in {"connect", "query", "recover", "done", "failed"}

(* The state of the oracle, as the strategy and Run keep it. *)
OracleOutcome ==
  IF isTransforming /\ res.type = "Bug" /\ DriverResultTypes[res.err] = "Valid"
    THEN "alarm"
  ELSE IF isTransforming /\ statementIndex = statementsToGenerate THEN "agreed"
  ELSE IF QueryIsOver THEN "idle"
  ELSE IF isTransforming THEN "comparing"
  ELSE "recording"

OracleCompared ==
  IF isTransforming /\ OracleOutcome # "idle" THEN statementIndex ELSE 0

OracleBaselines ==
  IF OracleOutcome = "idle" THEN << >>
  ELSE SubSeq(previousResults, 1, IF isTransforming THEN statementsToGenerate ELSE statementIndex)

Oracle == INSTANCE DifferentialOracle WITH
  MayStopEarly <- FALSE,
  result <- res,
  due <- pc = "generate",
  outcome <- OracleOutcome,
  compared <- OracleCompared,
  baselines <- OracleBaselines

(***************************************************************************)
(* Run and the strategy together are a differential oracle: every original *)
(* that is kept is compared with its own transformation, once and in       *)
(* order, none is left out when the query passes, an alarm is a comparison *)
(* that failed, and no row decides one that the driver knows was lost.     *)
(***************************************************************************)
ImplementsOracle == Oracle!OracleSpec

(***************************************************************************)
(* A run with a limit ends, although the database may hang in every        *)
(* statement: RunQuery's own timeout (scheduler.go:172) is enough.         *)
(***************************************************************************)
RunEnds == <>Ended
=============================================================================
