---------------------- MODULE EquivalenceTransformation ----------------------
(***************************************************************************)
(* The strategy of scheduler/strategy/equivalencetransformation: statements*)
(* are generated and run until the seed (or an invalid statement) ends the *)
(* query, the database is reset, and each statement is run again in an     *)
(* equivalent form, its result compared with the one of its original.      *)
(*                                                                         *)
(* A captured statement is a record: "sem" is what it means, which its     *)
(* transformation keeps, and "form" tells the two apart.  A result covers  *)
(* all that the database holds after the statement, so every statement     *)
(* counts as one that writes.                                              *)
(***************************************************************************)
EXTENDS Dbms

VARIABLES
  statementsToGenerate,
  generatedStatements,
  previousResults,
  isTransforming,
  statementIndex

strategyVars ==
  << statementsToGenerate, generatedStatements, previousResults, isTransforming,
     statementIndex >>

(* What stands for the clause capturer of a statement. *)
CapturedStatements ==
  [sem: Nat \ {0}, form: {"original", "transformed"}, writes: {TRUE}]

StrategyTypeOK ==
  /\ statementsToGenerate \in Nat
  /\ generatedStatements \in Seq(CapturedStatements)
  /\ previousResults \in Seq(QueryResults)
  /\ isTransforming \in BOOLEAN
  /\ statementIndex \in Nat

StrategyInit ==
  /\ statementsToGenerate = 0
  /\ generatedStatements = << >>
  /\ previousResults = << >>
  /\ isTransforming = FALSE
  /\ statementIndex = 0

StrategyReset ==
  /\ statementsToGenerate' = 0
  /\ generatedStatements' = << >>
  /\ previousResults' = << >>
  /\ isTransforming' = FALSE
  /\ statementIndex' = 0

-----------------------------------------------------------------------------
(* GetRootClause *)

NewStatement ==
  [sem |-> Len(generatedStatements) + 1, form |-> "original", writes |-> TRUE]

GenerateOriginal ==
  /\ ~isTransforming
  /\ statementsToGenerate' = statementsToGenerate + 1
  /\ generatedStatements' = Append(generatedStatements, NewStatement)
  /\ UNCHANGED <<previousResults, isTransforming, statementIndex>>

TransformStatement ==
  /\ isTransforming
  /\ generatedStatements' =
       [generatedStatements EXCEPT ![statementIndex + 1].form = "transformed"]
  /\ UNCHANGED <<statementsToGenerate, previousResults, isTransforming, statementIndex>>

GetRootClause == GenerateOriginal \/ TransformStatement

RootClause == generatedStatements[statementIndex + 1]

-----------------------------------------------------------------------------
(* GetQueryResultType *)

KeepResult(res) ==
  /\ previousResults' = Append(previousResults, res)
  /\ UNCHANGED <<statementsToGenerate, generatedStatements, isTransforming, statementIndex>>

(* Wrong on purpose: the result before this one. *)
LatestResultMutant == previousResults[Len(previousResults)]

(* The result the current, transformed statement has to reproduce. *)
Baseline == previousResults[statementIndex + 1]

(* What the strategy makes of the driver's verdict.  No comparison with    *)
(* the result just kept: the baseline is always an older one.              *)
StrategyVerdict(driverType, res) ==
  IF isTransforming /\ driverType = "Valid" /\ ~IsEqualResult(Baseline, res)
    THEN "Bug" ELSE driverType

-----------------------------------------------------------------------------
(* DiscardQuery, by the way it returns. *)

(* Wrong on purpose: the index of the next statement after an increment    *)
(* that this branch never reaches.                                         *)
IndexBeforeFirstMutant(type) ==
  /\ type = "Invalid"
  /\ ~isTransforming
  /\ statementIndex # 0
  /\ isTransforming' = TRUE
  /\ statementsToGenerate' = statementIndex
  /\ generatedStatements' =
       SubSeq(generatedStatements, 1, Len(generatedStatements) - 1)
  /\ previousResults' = SubSeq(previousResults, 1, Len(previousResults) - 1)
  /\ statementIndex' = 0 - 1

(* An invalid statement ends the originals: those before it are            *)
(* transformed.  Resets the database; the query goes on.                   *)
DropInvalidStatement(type) ==
  /\ type = "Invalid"
  /\ ~isTransforming
  /\ statementIndex # 0
  /\ isTransforming' = TRUE
  /\ statementsToGenerate' = statementIndex
  /\ generatedStatements' =
       SubSeq(generatedStatements, 1, Len(generatedStatements) - 1)
  /\ previousResults' = SubSeq(previousResults, 1, Len(previousResults) - 1)
  /\ statementIndex' = 0

(* Any other result that is not valid ends the query. *)
GiveUp(type) ==
  /\ type # "Valid"
  /\ type = "Invalid" => isTransforming \/ statementIndex = 0
  /\ UNCHANGED strategyVars

(* The next original, as the driver wants to go on. *)
NextOriginal(type) ==
  /\ type = "Valid"
  /\ ~isTransforming
  /\ statementIndex' = statementIndex + 1
  /\ UNCHANGED <<statementsToGenerate, generatedStatements, previousResults, isTransforming>>

(* The driver has enough of the originals.  Resets the database. *)
StartTransforming(type) ==
  /\ type = "Valid"
  /\ ~isTransforming
  /\ isTransforming' = TRUE
  /\ statementIndex' = 0
  /\ UNCHANGED <<statementsToGenerate, generatedStatements, previousResults>>

(* Wrong on purpose: a mismatch does not end the query. *)
MismatchGoesOnMutant(type) ==
  /\ type \in {"Valid", "Bug"}
  /\ isTransforming
  /\ statementIndex' = statementIndex + 1
  /\ UNCHANGED <<statementsToGenerate, generatedStatements, previousResults, isTransforming>>

(* The next transformed statement. *)
NextTransformed(type) ==
  /\ type = "Valid"
  /\ isTransforming
  /\ statementIndex' = statementIndex + 1
  /\ UNCHANGED <<statementsToGenerate, generatedStatements, previousResults, isTransforming>>

(* Wrong on purpose: the originals count as transformed. *)
PhaseIgnoredMutant(res) ==
  \/ res.err # "none"
  \/ statementIndex' = statementsToGenerate

(* Whether a valid statement was the last: it produced an error            *)
(* nevertheless, or all statements were transformed.                       *)
LastStatement(res) ==
  \/ res.err # "none"
  \/ isTransforming' /\ statementIndex' = statementsToGenerate

-----------------------------------------------------------------------------
(* Wrong on purpose: everything after the originals kept. *)
DroppedOriginalsKeptMutant(query) ==
  SubSeq(query, 1, statementIndex + 1)
    \o SubSeq(query, statementIndex + 2, Len(query))

(* The statements a bug report keeps: the originals up to the current one, *)
(* and as many from the end, the transformed ones.                         *)
PrepareQueryForBugreport(query) ==
  SubSeq(query, 1, statementIndex + 1)
    \o SubSeq(query, Len(query) - statementIndex, Len(query))
=============================================================================
