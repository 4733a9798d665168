------------------------ MODULE EquivalenceReduction ------------------------
(***************************************************************************)
(* The reduction of a bug found by equivalence transformation: the         *)
(* context, ReduceStep and ValidateReductionResult of                      *)
(* scheduler/strategy/equivalencetransformation.  The query has two        *)
(* halves, originals and their transformations; the database is reset      *)
(* between them.  The steps remove statements from both halves, undo       *)
(* transformations, and remove clauses from both halves.                   *)
(***************************************************************************)
EXTENDS Reduction

CONSTANT
  Bugs   \* how the bug shows: <<"rows" | "error", "original" | "transformed">>

(* Rows are only compared with those of an original. *)
ASSUME BugsAssumption ==
  Bugs \subseteq {<<"error", "original">>, <<"error", "transformed">>, <<"rows", "transformed">>}

VARIABLES
  bug,                    \* the member of Bugs at hand
  origResults,            \* which statement of the report had an error
  statementIndex,         \* the strategy's, when the bug was found
  reducedUntransformed,
  reducedStarting,
  reduceStartingStatementsIndex,
  reducedTransformations,
  reduceTransformationsIndex,
  reduceTransformationsFlipIndex,
  reducedEquivalenceClauses,
  reduceEquivalenceStatementIndex,
  reduceEquivalenceClausesClauseIndex

origin == <<bug, origResults, statementIndex>>

startingCtx == <<reducedStarting, reduceStartingStatementsIndex>>
transformationsCtx == <<reducedTransformations, reduceTransformationsIndex,
                        reduceTransformationsFlipIndex>>
clausesCtx == <<reducedEquivalenceClauses, reduceEquivalenceStatementIndex,
                reduceEquivalenceClausesClauseIndex>>
ctx == <<reducedUntransformed, startingCtx, transformationsCtx, clausesCtx>>

vars == <<loopVars, origin, ctx>>

-----------------------------------------------------------------------------
(* What the database answers to the last of the statements it ran since it *)
(* was reset.  Correct rows only depend on what the statements mean.       *)
Meaning(t) == [i \in DOMAIN t |-> [t[i] EXCEPT !.use = "plain"]]

Answer(statements) ==
  [error |-> bug[1] = "error" /\ Triggered(statements),
   wrong |-> bug[1] = "rows" /\ Triggered(statements),
   seen |-> [k \in {i \in DOMAIN statements : bug[1] = "rows"} |-> Meaning(statements[k])]]

Half(statements) == Len(statements) \div 2

(* Wrong on purpose: the database is only reset before the first half. *)
SinceFirstResetMutant(statements, k) == SubSeq(statements, 1, k)

(* What the database ran when it answers the k-th statement: getQueryResults *)
(* resets it before the first and before the second half.                  *)
SinceReset(statements, k) ==
  IF k <= Half(statements) THEN SubSeq(statements, 1, k)
    ELSE SubSeq(statements, Half(statements) + 1, k)

Result(statements, k) == Answer(SinceReset(statements, k))

IsEqualResult(r1, r2) == r1.wrong = r2.wrong /\ r1.seen = r2.seen

(* ValidateReductionResult *)
SameErrors(statements) ==
  IF Len(origResults) # Len(statements)
    THEN origResults[Len(origResults)] = Result(statements, Len(statements)).error
    ELSE \A k \in DOMAIN statements : origResults[k] = Result(statements, k).error

ValidateReductionResult(statements) ==
  LET n == Len(statements)
      lastOriginal == Result(statements, Half(statements))
      lastTransformed == Result(statements, n)
  IN /\ SameErrors(statements)
     /\ \/ lastTransformed.error
        \/ ~IsEqualResult(lastOriginal, lastTransformed)

-----------------------------------------------------------------------------
(* The query that Reduce regenerates: originals, perhaps one that was      *)
(* dropped as invalid, and the transformed ones up to the bug, or only     *)
(* originals when one of them already fails.                               *)
(* The clauses that implement Transformer: no root clause and no chain. *)
Transformable(t) == {i \in DOMAIN t : t[i].depth > 0 /\ t[i].kind # "chain"}

Transformations(t) ==
  {[i \in DOMAIN t |-> IF i \in S THEN [t[i] EXCEPT !.use = "transformed"] ELSE t[i]] :
     S \in SUBSET Transformable(t)}

Dropped == << [id |-> <<0, 0>>, kind |-> "clause", depth |-> 0, use |-> "plain"] >>

TransformedFrom(originals) ==
  {t \in [DOMAIN originals ->
           UNION {Transformations(originals[k]) : k \in DOMAIN originals}] :
     \A k \in DOMAIN originals : t[k] \in Transformations(originals[k])}

RegeneratedQuery(n, originals) ==
  IF bug[2] = "original"
    THEN /\ LoopInit(originals)
         /\ origResults = [k \in 1 .. n |-> k = n]
    ELSE \E rest \in {<< >>, <<Dropped>>} :
         \E transformed \in TransformedFrom(originals) :
           /\ LoopInit(originals \o rest \o transformed)
           /\ origResults = [k \in 1 .. Len(reducedClauses) |->
                \/ rest # << >> /\ k = n + 1
                \/ bug[1] = "error" /\ k = Len(reducedClauses)]

(* The bug shows in the statement at hand and in no earlier one; if it is  *)
(* a difference to the original, it depends on a transformation.           *)
BugShows(n) ==
  LET ran == IF bug[2] = "original" THEN reducedClauses
               ELSE SubSeq(reducedClauses, Len(reducedClauses) - n + 1, Len(reducedClauses))
  IN /\ trigger \in SUBSET Parts(ran)
     /\ Cardinality(trigger) <= MaxTrigger
     /\ \E part \in trigger : part[1][1] = n
     /\ bug[2] = "transformed" => \E part \in trigger : part[2] = "form"

Init ==
  /\ bug \in Bugs
  /\ \E n \in DOMAIN Shapes :
       /\ \E originals \in Originals(n) : RegeneratedQuery(n, originals)
       /\ BugShows(n)
       /\ statementIndex = n - 1
  /\ reducedUntransformed = FALSE
  /\ reducedStarting = FALSE
  /\ reduceStartingStatementsIndex = Nil
  /\ reducedTransformations = FALSE
  /\ reduceTransformationsIndex = Nil
  /\ reduceTransformationsFlipIndex = Nil
  /\ reducedEquivalenceClauses = FALSE
  /\ reduceEquivalenceStatementIndex = Nil
  /\ reduceEquivalenceClausesClauseIndex = Nil

-----------------------------------------------------------------------------
(* The statements up to the bug and their transformations: as many from    *)
(* the front as from the back.                                             *)
RemoveUntransformed ==
  /\ ~reducedUntransformed
  /\ LET n == statementIndex + 1
         len == Len(reducedClauses)
     IN Propose(SubSeq(reducedClauses, 1, n)
                  \o SubSeq(reducedClauses, len - n + 1, len), FALSE)
  /\ reducedUntransformed' = TRUE
  /\ UNCHANGED <<startingCtx, transformationsCtx, clausesCtx>>

(* reduceStartingStatements: a statement leaves both halves. *)
Starting == reducedUntransformed /\ ~reducedStarting
Statements == Half(reducedClauses)
IndexToRemove == Default(reduceStartingStatementsIndex, Statements - 2)

Without(index) ==
  SubSeq(reducedClauses, 1, index)
    \o SubSeq(reducedClauses, index + 2, Statements + index)
    \o SubSeq(reducedClauses, Statements + index + 2, Len(reducedClauses))

RemoveStarting ==
  /\ Starting
  /\ Statements # 1
  /\ Propose(Without(IndexToRemove), FALSE)
  /\ reduceStartingStatementsIndex' = IndexToRemove - 1
  /\ reducedStarting' = (IndexToRemove = 0)
  /\ UNCHANGED <<reducedUntransformed, transformationsCtx, clausesCtx>>

NoStartingStatement ==
  /\ Starting
  /\ Statements = 1
  /\ Propose(reducedClauses, FALSE)
  /\ reducedStarting' = TRUE
  /\ UNCHANGED <<reducedUntransformed, reduceStartingStatementsIndex,
                 transformationsCtx, clausesCtx>>

-----------------------------------------------------------------------------
(* reduceTransformations: every statement, every transformation in use.    *)
Flipping == reducedUntransformed /\ reducedStarting /\ ~reducedTransformations
FlipStatement == Default(reduceTransformationsIndex, 0)
FlipIndex == Default(reduceTransformationsFlipIndex, 0)
ToFlip == reducedClauses[FlipStatement + 1]

FlipNext ==
  /\ Flipping
  /\ Flippable(ToFlip, FlipIndex) # {}
  /\ Propose([reducedClauses EXCEPT ![FlipStatement + 1] =
               flipTransformed(ToFlip, FlipIndex)], FALSE)
  /\ reduceTransformationsIndex' = FlipStatement
  /\ reduceTransformationsFlipIndex' = NextFlip(ToFlip, FlipIndex)
  /\ UNCHANGED <<reducedTransformations, reducedUntransformed, startingCtx, clausesCtx>>

NothingToFlip ==
  /\ Flipping
  /\ Flippable(ToFlip, FlipIndex) = {}
  /\ Propose(reducedClauses, FALSE)
  /\ reduceTransformationsIndex' = FlipStatement + 1
  /\ reduceTransformationsFlipIndex' = 0
  /\ reducedTransformations' = (FlipStatement + 1 = Len(reducedClauses))
  /\ UNCHANGED <<reducedUntransformed, startingCtx, clausesCtx>>

-----------------------------------------------------------------------------
(* reduceEquivalenceClauses: a clause leaves both halves. *)
Shrinking ==
  /\ reducedUntransformed /\ reducedStarting
  /\ reducedTransformations /\ ~reducedEquivalenceClauses
ClauseStatement == Default(reduceEquivalenceStatementIndex, 0)
ClauseIndex == Default(reduceEquivalenceClausesClauseIndex, 0)
Original == reducedClauses[ClauseStatement + 1]
Transformed == reducedClauses[ClauseStatement + Statements + 1]

(* Wrong on purpose: the clause leaves the original only. *)
OneSidedMutant(index) ==
  [reducedClauses EXCEPT
     ![ClauseStatement + 1] = reduceClauseAtIndex(Original, Transformed, index)]

WithoutClause(index) ==
  [reducedClauses EXCEPT
     ![ClauseStatement + 1] = reduceClauseAtIndex(Original, Transformed, index),
     ![ClauseStatement + Statements + 1] =
        reduceClauseAtIndex(Transformed, Transformed, index)]

RemoveClause ==
  /\ Shrinking
  /\ ClauseIndex < Cardinality(Common(Transformed))
  /\ Propose(WithoutClause(ClauseIndex), FALSE)
  /\ reduceEquivalenceStatementIndex' = ClauseStatement
  /\ reduceEquivalenceClausesClauseIndex' = ClauseIndex + 1
  /\ UNCHANGED <<reducedEquivalenceClauses, reducedUntransformed, startingCtx,
                 transformationsCtx>>

NoClauseLeft ==
  /\ Shrinking
  /\ ClauseIndex >= Cardinality(Common(Transformed))
  /\ Propose(reducedClauses, FALSE)
  /\ reduceEquivalenceStatementIndex' = ClauseStatement + 1
  /\ reduceEquivalenceClausesClauseIndex' = 0
  /\ reducedEquivalenceClauses' = (ClauseStatement + 1 = Statements)
  /\ UNCHANGED <<reducedUntransformed, startingCtx, transformationsCtx>>

-----------------------------------------------------------------------------
(* Wrong on purpose: the next pass has nothing left to do. *)
KeptContextMutant == UNCHANGED ctx

(* All that a repeated pass finds in its context is reducedUntransformed. *)
ResetContext ==
  /\ UNCHANGED reducedUntransformed
  /\ reducedStarting' = FALSE
  /\ reduceStartingStatementsIndex' = Nil
  /\ reducedTransformations' = FALSE
  /\ reduceTransformationsIndex' = Nil
  /\ reduceTransformationsFlipIndex' = Nil
  /\ reducedEquivalenceClauses' = FALSE
  /\ reduceEquivalenceStatementIndex' = Nil
  /\ reduceEquivalenceClausesClauseIndex' = Nil

FinishPass ==
  /\ reducedUntransformed /\ reducedStarting
  /\ reducedTransformations /\ reducedEquivalenceClauses
  /\ Propose(reducedClauses, TRUE)
  /\ ResetContext

ReduceStep ==
  /\ \/ RemoveUntransformed
     \/ RemoveStarting \/ NoStartingStatement
     \/ FlipNext \/ NothingToFlip
     \/ RemoveClause \/ NoClauseLeft
     \/ FinishPass
  /\ UNCHANGED origin

Validate ==
  /\ RunProposal(ValidateReductionResult(newClauses))
  /\ UNCHANGED <<origin, ctx>>

Fail == RunFails /\ UNCHANGED <<origin, ctx>>

(* The final run answers the last statement without a reset in between. *)
Report ==
  /\ CreateBugreport(<<Answer(reducedClauses)>>)
  /\ UNCHANGED <<origin, ctx>>

Next == ReduceStep \/ Validate \/ Fail \/ Report

Spec == Init /\ [][Next]_vars

(* Reduce is sequential, and RunQuery returns after its timeout. *)
FairSpec == Spec /\ WF_vars(Next)

-----------------------------------------------------------------------------
(***************************************************************************)
(* Every variable keeps its type, and what is proposed are trees.          *)
(***************************************************************************)
TypeOK ==
  /\ pc \in {"step", "run", "report", "done", "failed"}
  /\ \A statements \in {reducedClauses, newClauses, prevStatements, curStatements} :
       \A k \in DOMAIN statements : IsTree(statements[k])
  /\ isDone \in BOOLEAN /\ fullReduction \in BOOLEAN
  /\ \A flag \in {reducedUntransformed, reducedStarting, reducedTransformations,
                  reducedEquivalenceClauses} : flag \in BOOLEAN
  /\ reduceStartingStatementsIndex \in {Nil} \cup (-1 .. Len(Shapes))
  /\ \A key \in {reduceTransformationsIndex, reduceTransformationsFlipIndex,
                 reduceEquivalenceStatementIndex, reduceEquivalenceClausesClauseIndex} :
       key \in {Nil} \cup Nat

Parallel(statements) ==
  /\ Len(statements) % 2 = 0
  /\ \A k \in 1 .. Half(statements) :
       Meaning(statements[k]) = Meaning(statements[Half(statements) + k])

(***************************************************************************)
(* The halves stay parallel: from the first step on (which is always       *)
(* accepted, as reduce.go:27 says) every statement of the second half      *)
(* means what the one of the first half at the same place means.  Were it  *)
(* not so, a difference between the halves would be taken for the bug.     *)
(***************************************************************************)
HalvesStayParallel ==
  reducedUntransformed =>
    /\ newClauses # << >> => Parallel(newClauses)
    /\ pc # "run" /\ pc # "failed" => Parallel(reducedClauses)

SecondHalf(statements) ==
  SubSeq(statements, Half(statements) + 1, Len(statements))

(***************************************************************************)
(* What is proposed is kept if and only if its second half, run on its  *)
(* own, still shows the bug (strategy.go:98: true if the results still     *)
(* point to the same bug being present, else false).                       *)
(***************************************************************************)
ValidationIsExact ==
  [][Validate => (reducedClauses' = newClauses <=> Triggered(SecondHalf(newClauses)))]_vars

(***************************************************************************)
(* A full reduction ends when nothing can be reduced any more              *)
(* (cmd/reduce.go:57: repeating reduction until no further changes occur): *)
(* not a statement, not a transformation, not a clause outside of the      *)
(* transformations.                                                        *)
(***************************************************************************)
FullReductionIsComplete ==
  pc = "done" /\ fullReduction =>
    LET half == SecondHalf(reducedClauses)
    IN /\ \A k \in 1 .. Len(half) - 1 : ~Triggered(WithoutStatement(half, k))
       /\ \A k \in DOMAIN half :
            /\ \A i \in InUse(half[k]) :
                 ~Triggered([half EXCEPT ![k][i].use = "flipped"])
            /\ \A i \in Common(half[k]) : half[k][i].kind # "empty" =>
                 ~Triggered([half EXCEPT ![k] = Reduced(half[k], i)])
=============================================================================
