----------------------------- MODULE ClauseTree -----------------------------
(***************************************************************************)
(* A statement as the reductions see it: its clause capturers              *)
(* (translator/helperclauses/clausecapturer.go) in the order of a          *)
(* depth-first traversal, each with its depth.                             *)
(*   kind  "expression", "chain" (NoStrategyReduce picks a subclause),     *)
(*         "clause" (has no NoStrategyReduce), "literal", "empty"          *)
(*   use   whether the clause is wrapped in a TransformedClause, and which *)
(*         of its two forms that selects                                   *)
(* A clause keeps its subclauses when it is transformed.                   *)
(***************************************************************************)
EXTENDS Integers, Sequences, FiniteSets

Kinds == {"expression", "chain", "clause", "literal", "empty"}
Uses == {"plain", "transformed", "flipped"}

IsTree(t) ==
  \A i \in DOMAIN t :
    /\ t[i].kind \in Kinds /\ t[i].use \in Uses
    /\ t[i].depth \in IF i = 1 THEN {0} ELSE 1 .. t[i - 1].depth + 1

(* A chain contains a clause that can take its place, and it comes first. *)
ChainsHoldClauses(t) ==
  \A i \in DOMAIN t :
    t[i].kind = "chain" => i < Len(t) /\ t[i + 1].depth = t[i].depth + 1

(* The positions of the clause at i and of what it contains. *)
Subtree(t, i) ==
  {j \in i .. Len(t) : \A k \in (i + 1) .. j : t[k].depth > t[i].depth}

(* GetSubclauseClauseCapturers *)
Subclauses(t, i) == {j \in Subtree(t, i) : t[j].depth = t[i].depth + 1}

UpdateClause(t, i, new) ==
  SubSeq(t, 1, i - 1) \o new \o SubSeq(t, i + Cardinality(Subtree(t, i)), Len(t))

(* The element of a set of positions that n others precede. *)
Nth(S, n) == CHOOSE i \in S : Cardinality({j \in S : j < i}) = n

Expressions(t) == {i \in DOMAIN t : t[i].kind = "expression"}

(* Wrong on purpose: a subclause that is listed where it was. *)
LiftedMutant(t, i) == SubSeq(t, i, i + Cardinality(Subtree(t, i)) - 1)

(* A subclause in the place of the clause that contains it. *)
Lifted(t, i) ==
  LET n == Cardinality(Subtree(t, i))
  IN [k \in 1 .. n |-> [t[i + k - 1] EXCEPT !.depth = @ - 1]]

Literal(t, i) == << [t[i] EXCEPT !.kind = "literal"] >>

(* What a reduction puts in the place of a clause: the result of its       *)
(* NoStrategyReduce (a literal for an expression, a subclause for a        *)
(* chain), or an EmptyClause.                                              *)
NoStrategyReduce(t, i) ==
  CASE t[i].kind = "expression" -> Literal(t, i)
    [] t[i].kind = "chain" -> Lifted(t, Nth(Subclauses(t, i), 0))
    [] OTHER -> << [t[i] EXCEPT !.kind = "empty"] >>

Reduced(t, i) == UpdateClause(t, i, NoStrategyReduce(t, i))

-----------------------------------------------------------------------------
(* transformExpressionByIndex: the expression that index others precede.   *)
transformExpressionByIndex(t, index) ==
  LET i == Nth(Expressions(t), index) IN UpdateClause(t, i, Literal(t, i))

getNodesCount(t) == Len(t)

(* transformClauseAtIndex: nothing happens at an index beyond the last.    *)
transformClauseAtIndex(t, index) ==
  IF index < getNodesCount(t) THEN Reduced(t, index + 1) ELSE t

(* The TransformedClauses of a statement, and those in use. *)
Wrapped(t) == {i \in DOMAIN t : t[i].use # "plain"}
InUse(t) == {i \in DOMAIN t : t[i].use = "transformed"}

(* flipTransformed: the first TransformedClause in use that at least       *)
(* flipIndex others precede, used or not.                                  *)
Flippable(t, flipIndex) ==
  {i \in InUse(t) : Cardinality({j \in Wrapped(t) : j < i}) >= flipIndex}

flipTransformed(t, flipIndex) ==
  [t EXCEPT ![Nth(Flippable(t, flipIndex), 0)].use = "flipped"]

(* The index that flipTransformed returns: past the clause it flipped. *)
NextFlip(t, flipIndex) ==
  LET i == Nth(Flippable(t, flipIndex), 0)
  IN Cardinality({j \in Wrapped(t) : j <= i})

(* reduceClauseAtIndex only descends to clauses that both statements have: *)
(* those outside of every transformation in use.                           *)
Common(t) == {i \in DOMAIN t : \A j \in InUse(t) : i \notin Subtree(t, j)}

reduceClauseAtIndex(t, transformed, index) ==
  Reduced(t, Nth(Common(transformed), index))
=============================================================================
