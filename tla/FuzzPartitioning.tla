-------------------------- MODULE FuzzPartitioning --------------------------
(***************************************************************************)
(* A fuzzing run with the predicate partitioning strategy: the steps of    *)
(* Scheduler joined with the strategy's calls they make.                   *)
(***************************************************************************)
EXTENDS Scheduler, PredicatePartitioning

vars == <<schedulerVars, strategyVars>>

Init == SchedulerInit /\ StrategyInit

Begin == BeginQuery /\ StrategyReset

(* Every statement of a query means something else, except that the        *)
(* partitioning query may mean what the original one does, and does when   *)
(* the RETURN they share is a plain one.                                   *)
Generate ==
  /\ pc = "generate"
  /\ LET Generated(sem, form, writes) ==
           \/ GenerationFails
           \/ SendStatement([sem |-> sem, form |-> form, writes |-> writes])
     IN \/ /\ \E done \in Coins : SchemaStatement(done)
           /\ \E writes \in BOOLEAN : Generated(statementCount + 1, "original", writes)
        \/ /\ \E plain \in BOOLEAN : OriginalQuery(statementCount + 1, plain)
           /\ Generated(statementCount + 1, "original", FALSE)
        \/ /\ PartitioningQueries
           /\ \E sem \in PartitionedMeanings(statementCount + 1) :
                Generated(sem, "transformed", FALSE)

Judge ==
  /\ pc = "verify"
  /\ LET driverType == DriverResultType(DriverResultTypes, res, returnedNil)
     IN /\ Verdict(StrategyVerdict(driverType, res))
        /\ KeepResult(driverType, res)

(* PrepareQueryForBugreport changes nothing. *)
HandleResult ==
  /\ pc = "tally"
  /\ Handle(query)
  /\ UNCHANGED strategyVars

Discard ==
  /\ pc = "discard"
  /\ \E coin \in BOOLEAN : DiscardStep(StrategyDiscards(res, coin))
  /\ UNCHANGED <<dbVars, strategyVars>>

Fuzzer ==
  \/ RunStep /\ UNCHANGED strategyVars
  \/ Begin \/ Generate \/ Judge \/ HandleResult \/ Discard

Next == Fuzzer \/ (Environment /\ UNCHANGED strategyVars)

Spec == Init /\ [][Next]_vars

-----------------------------------------------------------------------------
(***************************************************************************)
(* Every variable keeps its type (the state of Run, RunQuery, the database *)
(* and strategy.go).                                                       *)
(***************************************************************************)
TypeOK == SchedulerTypeOK /\ StrategyTypeOK

(***************************************************************************)
(* A partitioned query is only ever compared with the result its own       *)
(* original query, the captured one, returned without an error: an         *)
(* original that gave no such result does not get as far, or makes the     *)
(* driver reject the partitioned query too.                                *)
(***************************************************************************)
ComparedWithOriginal ==
  /\ pc = "verify" /\ up /\ generatedPartitioningQueries
  /\ DriverResultType(DriverResultTypes, res, returnedNil) = "Valid"
  => /\ originalQueryResult.sem = matchCapturer
     /\ originalQueryResult.err = "none"
     /\ returnCapturer => originalQueryResult.sem = res.sem

(***************************************************************************)
(* The oracle raises no false alarm about a query whose RETURN is plain:   *)
(* unless something else than the query's statements reached the database, *)
(* or the driver lost an error, a mismatch means that one of the two       *)
(* compared results is wrong.  A RETURN with DISTINCT, SKIP or LIMIT may   *)
(* be generated too (return.go:30-39), and does raise false alarms.        *)
(***************************************************************************)
NoFalseAlarm ==
  pc = "tally" /\ res.type = "Bug" /\ res.err = "none" /\ ~tainted =>
    /\ generatedPartitioningQueries
    /\ returnCapturer => res.wrong \/ originalQueryResult.wrong

(***************************************************************************)
(* A bug report shows the statements that brought the database to where    *)
(* the last of them failed, in their order.                                *)
(***************************************************************************)
ReportReplaysFailure ==
  report # << >> /\ pc \in {"recover", "discard"} /\ ~tainted =>
    /\ IsTrace(res.seen, report, Len(report) - 1)
    /\ report[Len(report)].sem = res.sem

(***************************************************************************)
(* The partitioned query is the last statement of a query, whatever it     *)
(* returned.                                                               *)
(***************************************************************************)
PartitioningEndsQuery ==
  pc = "generate" => ~generatedPartitioningQueries

QueryIsOver == pc \in {"connect", "query", "recover", "done", "failed"}

(* The partitioned query was judged. *)
PartitionsJudged ==
  /\ generatedPartitioningQueries
  /\ pc \notin {"await", "verify"}
  /\ query # << >>
  /\ CurrentStatement.form = "transformed"

OriginalKept ==
  generatedOriginalQuery /\ originalQueryResult # NoResult /\ originalQueryResult.err = "none"

(* The state of the oracle, as the strategy and Run keep it.  The driver's *)
(* seed may end a query at any time.                                       *)
OracleOutcome ==
  IF PartitionsJudged /\ res.type = "Valid" THEN "agreed"
  ELSE IF PartitionsJudged /\ res.type = "Bug" /\ DriverResultTypes[res.err] = "Valid"
         THEN "alarm"
  ELSE IF QueryIsOver THEN "idle"
  ELSE IF OriginalKept THEN "comparing"
  ELSE "recording"

OracleBaselines ==
  IF OracleOutcome # "idle" /\ OriginalKept THEN <<originalQueryResult>> ELSE << >>

OracleCompared == IF OracleOutcome = "agreed" THEN 1 ELSE 0

Oracle == INSTANCE DifferentialOracle WITH
  MayStopEarly <- TRUE,
  result <- res,
  due <- pc = "generate",
  baselines <- OracleBaselines,
  compared <- OracleCompared,
  outcome <- OracleOutcome

(***************************************************************************)
(* Run and the strategy together are a differential oracle: the partitioned*)
(* query is compared with the result of its own original query, a query    *)
(* that passes was compared, an alarm is a comparison that failed, and no  *)
(* row decides one that the driver knows was lost.                         *)
(***************************************************************************)
ImplementsOracle == Oracle!OracleSpec
=============================================================================
