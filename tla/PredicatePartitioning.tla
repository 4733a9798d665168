------------------------ MODULE PredicatePartitioning ------------------------
(***************************************************************************)
(* The strategy of scheduler/strategy/predicatepartitioning: statements    *)
(* that fill the database, a query that reads it, and the same query split *)
(* by a predicate, which has to return the same rows.                      *)
(***************************************************************************)
EXTENDS Dbms

VARIABLES
  generatedSchema,
  generatedOriginalQuery,
  generatedPartitioningQueries,
  originalQueryResult,
  matchCapturer,  \* the meaning of the captured query; stands for the three
                  \* capturers, which are set together, and 0 for nil
  returnCapturer  \* whether the captured RETURN is plain: it has no DISTINCT,
                  \* no SKIP and no LIMIT

strategyVars ==
  << generatedSchema, generatedOriginalQuery, generatedPartitioningQueries,
     originalQueryResult, matchCapturer, returnCapturer >>

StrategyTypeOK ==
  /\ generatedSchema \in BOOLEAN
  /\ generatedOriginalQuery \in BOOLEAN
  /\ generatedPartitioningQueries \in BOOLEAN
  /\ originalQueryResult \in QueryResults
  /\ matchCapturer \in Nat
  /\ returnCapturer \in BOOLEAN

StrategyInit ==
  /\ generatedSchema = FALSE
  /\ generatedOriginalQuery = FALSE
  /\ generatedPartitioningQueries = FALSE
  /\ originalQueryResult = NoResult
  /\ matchCapturer = 0
  /\ returnCapturer = FALSE

StrategyReset ==
  /\ generatedSchema' = FALSE
  /\ generatedOriginalQuery' = FALSE
  /\ generatedPartitioningQueries' = FALSE
  /\ originalQueryResult' = NoResult
  /\ matchCapturer' = 0
  /\ returnCapturer' = FALSE

-----------------------------------------------------------------------------
(* GetRootClause, by what it returns *)

(* A clause that writes, or an index; "done" is what the seed says about   *)
(* this being the last of them.                                            *)
SchemaStatement(done) ==
  /\ ~generatedSchema
  /\ generatedSchema' = done
  /\ UNCHANGED <<generatedOriginalQuery, generatedPartitioningQueries, originalQueryResult,
                 matchCapturer, returnCapturer>>

(* The capturers capture what is generated next. *)
OriginalQuery(sem, plain) ==
  /\ generatedSchema
  /\ ~generatedOriginalQuery
  /\ generatedOriginalQuery' = TRUE
  /\ matchCapturer' = sem
  /\ returnCapturer' = plain
  /\ UNCHANGED <<generatedSchema, generatedPartitioningQueries, originalQueryResult>>

PartitioningQueries ==
  /\ generatedSchema
  /\ generatedOriginalQuery
  /\ generatedPartitioningQueries' = TRUE
  /\ UNCHANGED <<generatedSchema, generatedOriginalQuery, originalQueryResult,
                 matchCapturer, returnCapturer>>

(* What the three parts mean together.  Each of them ends in the captured  *)
(* RETURN: three times distinct rows, or three times a limit, may be more  *)
(* rows than once, and mean something else.                                *)
PartitionedMeanings(other) ==
  IF returnCapturer THEN {matchCapturer} ELSE {matchCapturer, other}

-----------------------------------------------------------------------------
(* GetQueryResultType *)

KeepResult(driverType, res) ==
  /\ originalQueryResult' =
       IF driverType = "Valid" /\ generatedOriginalQuery /\ ~generatedPartitioningQueries
         THEN res ELSE originalQueryResult
  /\ UNCHANGED <<generatedSchema, generatedOriginalQuery, generatedPartitioningQueries,
                 matchCapturer, returnCapturer>>

StrategyVerdict(driverType, res) ==
  IF /\ driverType = "Valid"
     /\ generatedPartitioningQueries
     /\ ~IsEqualResult(originalQueryResult, res)
    THEN "Bug" ELSE driverType

(* Wrong on purpose: a failed original query is partitioned, too. *)
FailedOriginalMutant(res, coin) ==
  generatedPartitioningQueries \/ (~generatedOriginalQuery /\ DriverDiscards(res, coin))

(* Wrong on purpose: the driver decides alone. *)
DriverDecidesMutant(res, coin) == DriverDiscards(res, coin)

(* DiscardQuery *)
StrategyDiscards(res, coin) ==
  DriverDiscards(res, coin) \/ generatedPartitioningQueries
=============================================================================
