---------------------------- MODULE NoneReduction ----------------------------
(***************************************************************************)
(* The reduction of a crash or an error found without a strategy: the      *)
(* context, ReduceStep and ValidateReductionResult of                      *)
(* scheduler/strategy/none/strategy.go.  First every statement but the     *)
(* last is tried without; then, statement by statement, every expression   *)
(* is tried as a literal, and every clause as something smaller.  Names    *)
(* that EquivalenceReduction has as well start with None.                  *)
(***************************************************************************)
EXTENDS Reduction

VARIABLES
  failure,         \* how the last statement of the report failed: "error", or
                   \* "crash", when it was answered before the database went down
  lastRemovedRootClauseIndex,
  reducedStatementIndex,
  lastTransformedExpressionIndex,
  doneReducingExpressions,
  lastTransformedClauseIndex

noneCtx == <<lastRemovedRootClauseIndex, reducedStatementIndex,
             lastTransformedExpressionIndex, doneReducingExpressions,
             lastTransformedClauseIndex>>

noneVars == <<loopVars, failure, noneCtx>>

NoneInit ==
  /\ \E n \in DOMAIN Shapes : \E statements \in Originals(n) :
       /\ LoopInit(statements)
       /\ trigger \in SUBSET Parts(statements)
       /\ Cardinality(trigger) <= MaxTrigger
  /\ failure \in {"error", "crash"}
  /\ lastRemovedRootClauseIndex = Nil
  /\ reducedStatementIndex = Nil
  /\ lastTransformedExpressionIndex = Nil
  /\ doneReducingExpressions = FALSE
  /\ lastTransformedClauseIndex = Nil

-----------------------------------------------------------------------------
(* Wrong on purpose: the statement before the last stays. *)
FirstToRemoveMutant == Len(reducedClauses) - 3

(* ReduceStep: the statements but the last are removed, from the back.     *)
FirstToRemove == Len(reducedClauses) - 2

NoneIndexToRemove == Default(lastRemovedRootClauseIndex, FirstToRemove)

RemoveStatement ==
  /\ NoneIndexToRemove >= 0
  /\ Propose(SubSeq(reducedClauses, 1, NoneIndexToRemove)
               \o SubSeq(reducedClauses, NoneIndexToRemove + 2, Len(reducedClauses)), FALSE)
  /\ lastRemovedRootClauseIndex' = NoneIndexToRemove - 1
  /\ UNCHANGED <<failure, reducedStatementIndex, lastTransformedExpressionIndex,
                 doneReducingExpressions, lastTransformedClauseIndex>>

-----------------------------------------------------------------------------
(* reduceStatement *)
Index == Default(reducedStatementIndex, 0)
Current == reducedClauses[Index + 1]
InStatement == NoneIndexToRemove < 0 /\ Index < Len(reducedClauses)
ProposeStatement(t) == Propose([reducedClauses EXCEPT ![Index + 1] = t], FALSE)

(* The values that ReduceStep adds to the context on its way. *)
KeepIndices ==
  /\ lastRemovedRootClauseIndex' = NoneIndexToRemove
  /\ reducedStatementIndex' = Index

ExpressionIndex == Default(lastTransformedExpressionIndex, 0)

ReduceExpression ==
  /\ InStatement
  /\ ~doneReducingExpressions
  /\ IF ExpressionIndex < Cardinality(Expressions(Current))
       THEN /\ ProposeStatement(transformExpressionByIndex(Current, ExpressionIndex))
            /\ UNCHANGED doneReducingExpressions
       ELSE /\ ProposeStatement(Current)
            /\ doneReducingExpressions' = TRUE
  /\ lastTransformedExpressionIndex' = ExpressionIndex + 1
  /\ KeepIndices
  /\ UNCHANGED <<failure, lastTransformedClauseIndex>>

FirstTarget == getNodesCount(Current)
TargetIndex == Default(lastTransformedClauseIndex, FirstTarget)

(* Wrong on purpose: the index is lost with the rest of the context. *)
ForgottenIndexMutant(target) ==
  IF target = 0
    THEN /\ lastRemovedRootClauseIndex' = -1
         /\ reducedStatementIndex' = Nil
         /\ lastTransformedExpressionIndex' = Nil
         /\ doneReducingExpressions' = FALSE
         /\ lastTransformedClauseIndex' = Nil
    ELSE /\ lastTransformedClauseIndex' = target - 1
         /\ KeepIndices
         /\ UNCHANGED <<lastTransformedExpressionIndex, doneReducingExpressions>>

(* At index 0 the statement is done, and the context is a new one. *)
NextTarget(target) ==
  IF target = 0
    THEN /\ lastRemovedRootClauseIndex' = -1
         /\ reducedStatementIndex' = Index + 1
         /\ lastTransformedExpressionIndex' = Nil
         /\ doneReducingExpressions' = FALSE
         /\ lastTransformedClauseIndex' = Nil
    ELSE /\ lastTransformedClauseIndex' = target - 1
         /\ KeepIndices
         /\ UNCHANGED <<lastTransformedExpressionIndex, doneReducingExpressions>>

ReduceClause ==
  /\ InStatement
  /\ doneReducingExpressions
  /\ ProposeStatement(transformClauseAtIndex(Current, TargetIndex))
  /\ NextTarget(TargetIndex)
  /\ UNCHANGED failure

(* Every statement was reduced.  The context stays as it is. *)
NoneFinishPass ==
  /\ NoneIndexToRemove < 0
  /\ Index = Len(reducedClauses)
  /\ Propose(reducedClauses, TRUE)
  /\ KeepIndices
  /\ UNCHANGED <<failure, lastTransformedExpressionIndex, doneReducingExpressions,
                 lastTransformedClauseIndex>>

-----------------------------------------------------------------------------
(* What the last statement answers, and whether with a ProducedError. *)
LastResult(statements) == IF Triggered(statements) THEN <<failure>> ELSE << "rows" >>
HasError(result) == result = << "error" >>

(* ValidateReductionResult: the last statement produces the error of the   *)
(* report's last statement, or none when that produced none.  Whether the  *)
(* database went down is not compared.                                     *)
NoneValidateReductionResult(statements) ==
  HasError(LastResult(statements)) <=> failure = "error"

NoneValidate ==
  /\ RunProposal(NoneValidateReductionResult(newClauses))
  /\ UNCHANGED <<failure, noneCtx>>

NoneFail == RunFails /\ UNCHANGED <<failure, noneCtx>>

NoneReport ==
  /\ CreateBugreport(LastResult(reducedClauses))
  /\ UNCHANGED <<failure, noneCtx>>

NoneNext ==
  RemoveStatement \/ ReduceExpression \/ ReduceClause \/ NoneFinishPass
    \/ NoneValidate \/ NoneFail \/ NoneReport

NoneSpec == NoneInit /\ [][NoneNext]_noneVars

(* Reduce is sequential, and RunQuery returns after its timeout. *)
NoneFairSpec == NoneSpec /\ WF_noneVars(NoneNext)

-----------------------------------------------------------------------------
(***************************************************************************)
(* Every variable keeps its type; what is kept and proposed are trees.     *)
(***************************************************************************)
NoneTypeOK ==
  /\ pc \in {"step", "run", "report", "done", "failed"}
  /\ \A statements \in {reducedClauses, newClauses, prevStatements, curStatements} :
       \A k \in DOMAIN statements : IsTree(statements[k])
  /\ isDone \in BOOLEAN /\ fullReduction \in BOOLEAN
  /\ failure \in {"error", "crash"}
  /\ lastRemovedRootClauseIndex \in {Nil} \cup (-1 .. Len(Shapes))
  /\ reducedStatementIndex \in {Nil} \cup (0 .. Len(Shapes))
  /\ lastTransformedExpressionIndex \in {Nil} \cup Nat
  /\ lastTransformedClauseIndex \in {Nil} \cup Nat
  /\ doneReducingExpressions \in BOOLEAN

(***************************************************************************)
(* Whatever is kept still shows a bug that shows as an error, and so does  *)
(* the report.  (Of a crash after the answer nothing is kept: see          *)
(* NothingLeftOver.)                                                       *)
(***************************************************************************)
ReducedShowsBug ==
  failure = "error" =>
    /\ Triggered(reducedClauses)
    /\ pc = "done" => bugreport.lastResult = << "error" >>

WithReduced(statements, k, i) ==
  [statements EXCEPT ![k] = Reduced(statements[k], i)]

Untried(t) == {i \in DOMAIN t : t[i].kind \notin {"literal", "empty"}}

(***************************************************************************)
(* Nothing is left over that could be reduced: a report of Reduce would    *)
(* not be accepted (the bug is lost, if it shows as an error) without one  *)
(* of its statements, or with one of its clauses replaced.  The indices of *)
(* the steps survive whatever the earlier steps removed.                   *)
(***************************************************************************)
NothingLeftOver ==
  pc = "done" =>
    /\ \A k \in 1 .. Len(reducedClauses) - 1 :
         ~NoneValidateReductionResult(WithoutStatement(reducedClauses, k))
    /\ \A k \in DOMAIN reducedClauses : \A i \in Untried(reducedClauses[k]) :
         ~NoneValidateReductionResult(WithReduced(reducedClauses, k, i))
=============================================================================
