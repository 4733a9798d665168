--------------------------- MODULE ClauseTraversal ---------------------------
(***************************************************************************)
(* How the reductions find the clause at an index: the recursive functions *)
(* of none/strategy.go and equivalencetransformation/reduce.go, which      *)
(* thread counts through the traversal of the tree, against the            *)
(* definitions of ClauseTree, by which the modules of the reductions find  *)
(* it.  The functions have no state: they are compared for every small     *)
(* statement and index, and for the statements that the steps are about.   *)
(***************************************************************************)
EXTENDS ClauseTree, SequencesExt, FiniteSetsExt

CONSTANTS
  MaxNodes,   \* clauses in a statement
  MaxIndex    \* the largest index looked up

-----------------------------------------------------------------------------
(* GetSubclauseClauseCapturers, in order. *)
SubclauseSeq(t, i) == SetToSortSeq(Subclauses(t, i), <)

NotFound(count) == [count |-> count, at |-> 0]

RECURSIVE expressionAt(_, _, _), nodesCount(_, _), clauseAt(_, _, _)

(* transformExpressionByIndex: the expression it transforms, if any. *)
expressionAt(t, i, n) ==
  LET isExpression == t[i].kind = "expression"
      visit(acc, s) ==
        IF acc.at # 0 THEN acc
          ELSE LET sub == expressionAt(t, s, n - acc.count)
               IN [count |-> acc.count + sub.count, at |-> sub.at]
  IN IF isExpression /\ n = 0 THEN [count |-> 0, at |-> i]
       ELSE FoldLeft(visit, NotFound(IF isExpression THEN 1 ELSE 0), SubclauseSeq(t, i))

(* Wrong on purpose: the clause itself is not counted. *)
NodesCountMutant(t, i) ==
  FoldLeft(LAMBDA count, s : count + nodesCount(t, s), 0, SubclauseSeq(t, i))

(* getNodesCount *)
nodesCount(t, i) ==
  FoldLeft(LAMBDA count, s : count + nodesCount(t, s), 0, SubclauseSeq(t, i)) + 1

(* transformClauseAtIndex: the clause it transforms, 0 if there is none.   *)
clauseAt(t, i, n) ==
  LET skip(acc, s) ==
        CASE acc.done -> acc
          [] nodesCount(t, s) > acc.n -> [n |-> acc.n, at |-> clauseAt(t, s, acc.n), done |-> TRUE]
          [] OTHER -> [acc EXCEPT !.n = @ - nodesCount(t, s)]
  IN IF n = 0 THEN i
       ELSE FoldLeft(skip, [n |-> n - 1, at |-> 0, done |-> FALSE], SubclauseSeq(t, i)).at

RECURSIVE flipAt(_, _, _), commonAt(_, _, _)

(* Wrong on purpose: only the transformations in use are counted. *)
EncounteredMutant(t, i) == IF t[i].use = "transformed" THEN 1 ELSE 0

(* Whether flipTransformed counts the clause as encountered. *)
Encountered(t, i) == IF t[i].use # "plain" THEN 1 ELSE 0

(* flipTransformed: the clause it flips, and how many it encountered. *)
flipAt(t, i, flipIndex) ==
  LET visit(acc, s) ==
        IF acc.at # 0 THEN acc
          ELSE LET sub == flipAt(t, s, flipIndex - acc.count)
               IN [count |-> acc.count + sub.count, at |-> sub.at]
  IN IF flipIndex <= 0 /\ t[i].use = "transformed" THEN [count |-> 1, at |-> i]
       ELSE FoldLeft(visit, NotFound(Encountered(t, i)), SubclauseSeq(t, i))

(* reduceClauseAtIndex: the clause it removes from both statements, where  *)
(* the transformed one is t.                                               *)
commonAt(t, i, n) ==
  LET visit(acc, s) ==
        IF acc.at # 0 THEN acc
          ELSE LET sub == commonAt(t, s, n - acc.count)
               IN [count |-> acc.count + sub.count, at |-> sub.at]
  IN CASE t[i].use = "transformed" -> NotFound(0)
       [] t[i].use # "transformed" /\ n = 0 -> [count |-> 0, at |-> i]
       [] OTHER -> FoldLeft(visit, NotFound(1), SubclauseSeq(t, i))

-----------------------------------------------------------------------------
(* What a lookup goes by: which clauses are expressions, and which are     *)
(* transformed.                                                            *)
Trees ==
  UNION {{t \in [1 .. n -> [kind : {"expression", "clause"}, use : Uses, depth : 0 .. n - 1]] :
            IsTree(t)} : n \in 1 .. MaxNodes}

(* What the definitions of ClauseTree find. *)
Found(S, n) == IF n < Cardinality(S) THEN Nth(S, n) ELSE 0

(* The traversals of the reduction without a strategy find the clauses     *)
(* they are meant to find, at every index, and nothing beyond the last.    *)
NoneFinds(T) ==
  \A t \in T : \A n \in 0 .. MaxIndex :
    /\ expressionAt(t, 1, n).at = Found(Expressions(t), n)
    /\ nodesCount(t, 1) = getNodesCount(t)
    /\ clauseAt(t, 1, n) = Found(DOMAIN t, n)

(* flipTransformed finds every transformation in use exactly once, however *)
(* often the index jumps, and reduceClauseAtIndex numbers the clauses that *)
(* both statements have without a gap.                                     *)
EquivalenceFinds(T) ==
  \A t \in T : \A n \in 0 .. MaxIndex :
    /\ flipAt(t, 1, n).at = Found(Flippable(t, n), 0)
    /\ flipAt(t, 1, n).at # 0 => flipAt(t, 1, n).count = NextFlip(t, n)
    /\ commonAt(t, 1, n).at = Found(Common(t), n)
=============================================================================
