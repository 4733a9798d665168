----------------------- MODULE MCEquivalenceReduction -----------------------
(* Instances of EquivalenceReduction small enough for TLC. *)
EXTENDS EquivalenceReduction, ClauseTraversal

Clause(d) == [depth |-> d, kind |-> "clause"]
Chain(d) == [depth |-> d, kind |-> "chain"]
Expression(d) == [depth |-> d, kind |-> "expression"]

SomeShapes ==
  << { <<Clause(0), Expression(1), Clause(2)>> },
     { <<Clause(0)>>, <<Clause(0), Expression(1)>> },
     { <<Clause(0), Chain(1), Expression(2), Clause(2)>> } >>

Differences == { <<"rows", "transformed">>, <<"error", "transformed">> }

(* For TLC, which evaluates this definition once. *)
EquivalenceFindsAll == EquivalenceFinds(Trees)

(***************************************************************************)
(* When a step is made, the traversals of equivalencetransformation's      *)
(* reduce.go flip every transformation in use exactly once and number the  *)
(* common clauses without a gap, although counts go below zero, in every   *)
(* small statement and in the one that the step is about.                  *)
(***************************************************************************)
EquivalenceTraversalsAgree ==
  pc = "step" =>
    /\ EquivalenceFindsAll
    /\ Flipping => EquivalenceFinds({ToFlip})
    /\ Shrinking => EquivalenceFinds({Transformed})
=============================================================================
