----------------------------- MODULE Reduction -----------------------------
(***************************************************************************)
(* Reduce (scheduler/reduce.go): the loop that asks the strategy for a     *)
(* smaller query, runs it, and keeps it when the bug is still there.  The  *)
(* strategy's ReduceStep and ValidateReductionResult are joined to it in   *)
(* NoneReduction and EquivalenceReduction.                                 *)
(*                                                                         *)
(* The database is deterministic: the bug shows if and only if the query   *)
(* contains the parts in `trigger`.  A part is a clause, or the content of *)
(* an expression (which a literal in its place has not), or a clause in    *)
(* its transformed form.                                                   *)
(***************************************************************************)
EXTENDS ClauseTree

CONSTANTS
  Shapes,         \* for each statement, its possible trees: sequences of [depth, kind]
  MaxTrigger      \* parts the bug may depend on

Nil == -2   \* a key that the context does not have

VARIABLES
  pc,              \* where Reduce is
  reducedClauses,  \* the smallest query that still shows the bug
  newClauses,      \* the query the strategy proposed
  isDone,          \* the strategy is done
  fullReduction,   \* the flag of the reduce command
  prevStatements,  \* the statements at the end of the last pass
  curStatements,   \* the statements run last
  bugreport,       \* the query and the result in the report
  trigger          \* what the bug depends on

loopVars == <<pc, reducedClauses, newClauses, isDone, fullReduction,
              prevStatements, curStatements, bugreport, trigger>>

NoReport == [query |-> << >>, lastResult |-> << >>]

PartsOf(clause) ==
  {<<clause.id, "place">> : k \in {clause.kind} \ {"empty"}}
    \cup {<<clause.id, "content">> : k \in {clause.kind} \cap {"expression"}}
    \cup {<<clause.id, "form">> : u \in {clause.use} \cap {"transformed"}}

Clauses(statements) ==
  UNION {{statements[i][j] : j \in DOMAIN statements[i]} : i \in DOMAIN statements}

Parts(statements) == UNION {PartsOf(clause) : clause \in Clauses(statements)}

Triggered(statements) == trigger \subseteq Parts(statements)

-----------------------------------------------------------------------------
Statement(shape, k) ==
  [i \in DOMAIN shape |->
    [id |-> <<k, i>>, kind |-> shape[i].kind, depth |-> shape[i].depth, use |-> "plain"]]

(* The shapes are those of trees whose chains are not empty. *)
ASSUME ShapesAssumption ==
  /\ Shapes \in Seq(SUBSET Seq([depth : Nat, kind : Kinds]))
  /\ \A k \in DOMAIN Shapes : \A shape \in Shapes[k] :
       /\ IsTree(Statement(shape, k))
       /\ ChainsHoldClauses(Statement(shape, k))

(* The statements of a bug report of n statements. *)
Originals(n) ==
  {statements \in [1 .. n -> UNION {{Statement(shape, k) : shape \in Shapes[k]} : k \in 1 .. n}] :
     \A k \in 1 .. n : \E shape \in Shapes[k] : statements[k] = Statement(shape, k)}

Default(key, value) == IF key = Nil THEN value ELSE key

WithoutStatement(statements, k) ==
  SubSeq(statements, 1, k - 1) \o SubSeq(statements, k + 1, Len(statements))

-----------------------------------------------------------------------------
LoopInit(statements) ==
  /\ pc = "step"
  /\ reducedClauses = statements
  /\ newClauses = << >>
  /\ isDone = FALSE
  /\ fullReduction \in BOOLEAN
  /\ prevStatements = << >>
  /\ curStatements = << >>
  /\ bugreport = NoReport

(* Wrong on purpose: the strategy changes the clauses and not a copy. *)
InPlaceMutant(clauses, done) ==
  /\ pc = "step"
  /\ pc' = "run"
  /\ newClauses' = clauses
  /\ reducedClauses' = clauses
  /\ isDone' = done
  /\ UNCHANGED <<fullReduction, prevStatements, curStatements, bugreport, trigger>>

(* The strategy's ReduceStep returned these clauses. *)
Propose(clauses, done) ==
  /\ pc = "step"
  /\ pc' = "run"
  /\ newClauses' = clauses
  /\ isDone' = done
  /\ UNCHANGED <<reducedClauses, fullReduction, prevStatements, curStatements,
                 bugreport, trigger>>

(* Wrong on purpose: the statements are not compared. *)
RepeatsMutant == fullReduction

(* isSameStatements, for the statements run last. *)
Repeats == fullReduction /\ prevStatements # newClauses

(* getQueryResults, the strategy's verdict, and where the loop goes. *)
RunProposal(valid) ==
  /\ pc = "run"
  /\ curStatements' = newClauses
  /\ reducedClauses' = IF valid THEN newClauses ELSE reducedClauses
  /\ \/ /\ ~isDone
        /\ pc' = "step"
        /\ UNCHANGED prevStatements
     \/ /\ isDone /\ Repeats
        /\ pc' = "step"
        /\ prevStatements' = newClauses
     \/ /\ isDone /\ ~Repeats
        /\ pc' = "report"
        /\ UNCHANGED prevStatements
  /\ UNCHANGED <<newClauses, isDone, fullReduction, bugreport, trigger>>

(* The database cannot be reset, read or connected to again. *)
RunFails ==
  /\ pc \in {"run", "report"}
  /\ pc' = "failed"
  /\ UNCHANGED <<reducedClauses, newClauses, isDone, fullReduction,
                 prevStatements, curStatements, bugreport, trigger>>

(* The final run, on a database that was reset once. *)
CreateBugreport(result) ==
  /\ pc = "report"
  /\ pc' = "done"
  /\ bugreport' = [query |-> reducedClauses, lastResult |-> result]
  /\ UNCHANGED <<reducedClauses, newClauses, isDone, fullReduction,
                 prevStatements, curStatements, trigger>>

Ended == pc \in {"done", "failed"}

(***************************************************************************)
(* A reduction ends, also a full one: passes that change something make    *)
(* the query smaller.                                                      *)
(***************************************************************************)
ReductionEnds == <>Ended
=============================================================================
