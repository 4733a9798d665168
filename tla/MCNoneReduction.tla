--------------------------- MODULE MCNoneReduction ---------------------------
(* Instances of NoneReduction small enough for TLC. *)
EXTENDS NoneReduction, ClauseTraversal

Clause(d) == [depth |-> d, kind |-> "clause"]
Chain(d) == [depth |-> d, kind |-> "chain"]
Expression(d) == [depth |-> d, kind |-> "expression"]

Nested ==
  { <<Clause(0), Expression(1), Expression(2), Clause(1)>>,
    <<Clause(0), Chain(1), Clause(2), Expression(2)>>,
    <<Chain(0), Chain(1), Expression(2), Clause(1)>> }

SomeShapes ==
  << { <<Clause(0), Expression(1), Expression(1)>> } \cup Nested,
     { <<Clause(0)>>, <<Clause(0), Expression(1)>> },
     Nested >>

(* For TLC, which evaluates this definition once. *)
NoneFindsAll == NoneFinds(Trees)

(***************************************************************************)
(* When a step is made, the traversals of none/strategy.go find the clause *)
(* that the step is about, and nothing beyond the last one, in every small *)
(* statement and in those that are left of this report.                    *)
(***************************************************************************)
NoneTraversalsAgree ==
  pc = "step" => NoneFindsAll /\ NoneFinds(Range(reducedClauses))
=============================================================================
