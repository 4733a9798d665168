-------------------------- MODULE Reduction_proofs --------------------------
(***************************************************************************)
(* What a reduction without a strategy keeps shows the bug, and nothing is *)
(* left over that the strategy reduces; what a reduction of equivalence    *)
(* transformation keeps has parallel halves, and so every proposal is      *)
(* judged right and a full reduction is complete; all whatever the shape   *)
(* of the statements, their number, and what the bug depends on.           *)
(***************************************************************************)
EXTENDS NoneReduction, EquivalenceReduction, FiniteSetTheorems, SequenceTheorems,
        WellFoundedInduction, NaturalsInduction, TLAPS

Nodes == [id : Nat \X Nat, kind : Kinds, depth : Nat, use : Uses]

Trees == {t \in Seq(Nodes) : IsTree(t) /\ ChainsHoldClauses(t)}

-----------------------------------------------------------------------------
(* Sets of positions. *)

LEMMA LeastExists ==
  ASSUME NEW S \in SUBSET Nat, S # {}
  PROVE  \E x \in S : \A y \in S : x <= y
<1> DEFINE less == OpToRel(<, Nat)
<1>1. \E x \in S : \A y \in S : <<y, x>> \notin less
  BY WFMin, NatLessThanWellFounded
<1>2. \A x, y \in S : y < x => <<y, x>> \in less
  BY DEF OpToRel
<1> HIDE DEF less
<1>3. PICK x \in S : \A y \in S : <<y, x>> \notin less
  BY <1>1
<1>4. ASSUME NEW y \in S PROVE x <= y
  <2>1. x \in Nat /\ y \in Nat /\ ~(y < x)
    BY <1>2, <1>3
  <2> QED
    BY <2>1
<1> QED
  BY <1>4

LEMMA GreatestExists ==
  ASSUME NEW S \in SUBSET Nat, S # {}, NEW n \in Nat, \A x \in S : x <= n
  PROVE  \E x \in S : \A y \in S : y <= x
<1> DEFINE bounds == {b \in Nat : \A x \in S : x <= b}
<1>1. bounds \in SUBSET Nat /\ bounds # {}
  OBVIOUS
<1>2. PICK b \in bounds : \A c \in bounds : b <= c
  BY <1>1, LeastExists
<1>3. b \in S
  <2> SUFFICES ASSUME b \notin S PROVE FALSE
    OBVIOUS
  <2>1. PICK x \in S : TRUE
    OBVIOUS
  <2>2. \A y \in S : y \in Nat /\ y <= b - 1
    OBVIOUS
  <2>3. b - 1 \in Nat /\ b \in Nat
    BY <2>1, <2>2
  <2>4. b - 1 \in bounds
    BY <2>2, <2>3
  <2> QED
    BY <1>2, <2>3, <2>4
<1> QED
  BY <1>3

(* The element that n others precede is one of the set. *)
LEMMA NthIsElement ==
  ASSUME NEW S \in SUBSET Nat, NEW b \in Nat, \A x \in S : x <= b,
         NEW n \in Nat, n < Cardinality(S)
  PROVE  /\ Nth(S, n) \in S
         /\ Cardinality({j \in S : j < Nth(S, n)}) = n
<1> DEFINE Below(i) == {j \in S : j < i}
           late == {i \in S : Cardinality(Below(i)) >= n}
<1>0. IsFiniteSet(S)
  BY FS_BoundedSetOfNaturals
<1>1. \A i \in S : Below(i) \subseteq S /\ IsFiniteSet(Below(i)) /\ Cardinality(Below(i)) \in Nat
  BY <1>0, FS_Subset, FS_CardinalityType
<1>2. ASSUME NEW T \in SUBSET S, T # {}
      PROVE  \E m \in T : (\A y \in T : y <= m)
                           /\ \A j \in T : j # m => j < m
  <2>0. T \in SUBSET Nat /\ \A x \in T : x <= b
    OBVIOUS
  <2>1. PICK m \in T : \A y \in T : y <= m
    BY <1>2, <2>0, GreatestExists
  <2>2. ASSUME NEW j \in T, j # m PROVE j < m
    <3>1. j \in Nat /\ m \in Nat /\ j <= m
      BY <2>1
    <3> QED
      BY <2>2, <3>1
  <2> QED
    BY <2>1, <2>2
<1>3. S # {}
  BY <1>0, FS_EmptySet, FS_CardinalityType
<1>4. late # {}
  <2>1. PICK m \in S : \A j \in S : j # m => j < m
    BY <1>2, <1>3
  <2>2. Below(m) = S \ {m}
    <3>1. m \in Nat /\ ~(m < m)
      OBVIOUS
    <3> QED
      BY <2>1, <3>1
  <2>3. Cardinality(S \ {m}) = Cardinality(S) - 1 /\ Cardinality(S) \in Nat
    BY <1>0, FS_RemoveElement, FS_CardinalityType
  <2>4. Cardinality(Below(m)) >= n
    BY <2>2, <2>3
  <2> QED
    BY <2>4
<1>5. PICK i \in late : \A k \in late : i <= k
  <2>1. late \in SUBSET Nat
    OBVIOUS
  <2> QED
    BY <1>4, <2>1, LeastExists
<1>6. Cardinality(Below(i)) = n
  <2> SUFFICES ASSUME Cardinality(Below(i)) # n PROVE FALSE
    OBVIOUS
  <2>1. Cardinality(Below(i)) > n /\ Cardinality(Below(i)) \in Nat /\ IsFiniteSet(Below(i))
    BY <1>1
  <2>2. Below(i) # {}
    BY <2>1, FS_EmptySet
  <2>3. PICK m \in Below(i) : \A j \in Below(i) : j # m => j < m
    BY <1>2, <2>2
  <2>4. Below(m) = Below(i) \ {m}
    <3>1. m \in Nat /\ i \in Nat /\ m < i /\ ~(m < m) /\ \A j \in S : j < m => j < i
      BY <2>3
    <3>2. \A j \in Below(i) : j # m => j \in Below(m)
      BY <2>3
    <3> QED
      BY <3>1, <3>2
  <2>5. Cardinality(Below(i) \ {m}) = Cardinality(Below(i)) - 1
    BY <2>1, <2>3, FS_RemoveElement
  <2>6. Cardinality(Below(m)) >= n
    BY <2>1, <2>4, <2>5
  <2>8. m \in late
    BY <2>3, <2>6
  <2>7. m < i /\ m \in Nat /\ i \in Nat
    BY <2>3
  <2> QED
    BY <1>5, <2>7, <2>8
<1>7. \E k \in S : Cardinality({j \in S : j < k}) = n
  BY <1>6
<1> QED
  BY <1>7 DEF Nth

-----------------------------------------------------------------------------
(* Trees. *)

(* The clause at i and what it contains are m positions from i on. *)
Spans(t, i, m) ==
  /\ m \in Nat /\ 1 <= m /\ i + m - 1 <= Len(t)
  /\ \A k \in i + 1 .. i + m - 1 : t[k].depth > t[i].depth
  /\ i + m <= Len(t) => t[i + m].depth <= t[i].depth

LEMMA TreeShape ==
  ASSUME NEW t \in Seq(Nodes)
  PROVE  /\ Len(t) \in Nat /\ DOMAIN t = 1 .. Len(t)
         /\ \A i \in 1 .. Len(t) : t[i] \in Nodes /\ t[i].depth \in Nat
<1>1. Len(t) \in Nat /\ DOMAIN t = 1 .. Len(t)
  BY LenProperties
<1>2. \A i \in 1 .. Len(t) : t[i] \in Nodes
  BY ElementOfSeq
<1> QED
  BY <1>1, <1>2 DEF Nodes

LEMMA SpanExists ==
  ASSUME NEW t \in Seq(Nodes), NEW i \in 1 .. Len(t)
  PROVE  \E m : Spans(t, i, m)
<1> DEFINE ends == {e \in Nat : /\ e >= i + 1 /\ e <= Len(t) + 1
                                /\ e <= Len(t) => t[e].depth <= t[i].depth}
<1>1. Len(t) \in Nat /\ i \in Nat /\ i >= 1 /\ i <= Len(t)
      /\ \A k \in 1 .. Len(t) : t[k].depth \in Nat
  BY TreeShape
<1>2. Len(t) + 1 \in ends
  BY <1>1
<1>3. PICK e \in ends : \A f \in ends : e <= f
  BY <1>2, LeastExists
<1>4. e \in Nat /\ e >= i + 1 /\ e <= Len(t) + 1
      /\ (e <= Len(t) => t[e].depth <= t[i].depth)
  OBVIOUS
<1>5. ASSUME NEW k \in i + 1 .. e - 1 PROVE t[k].depth > t[i].depth
  <2>1. k \in Nat /\ k >= i + 1 /\ k <= Len(t) /\ k < e
    BY <1>1, <1>4
  <2>2. k \notin ends
    BY <1>3, <1>4, <2>1
  <2>3. ~(t[k].depth <= t[i].depth)
    BY <2>1, <2>2
  <2>4. t[k].depth \in Nat /\ t[i].depth \in Nat
    BY <1>1, <2>1
  <2> QED
    BY <2>3, <2>4
<1> HIDE DEF ends
<1>6. e - i \in Nat /\ 1 <= e - i /\ i + (e - i) - 1 <= Len(t)
      /\ i + (e - i) = e /\ i + (e - i) - 1 = e - 1
  BY <1>1, <1>4
<1>7. Spans(t, i, e - i)
  BY <1>4, <1>5, <1>6 DEF Spans
<1> QED
  BY <1>7

LEMMA SubtreeIsSpan ==
  ASSUME NEW t \in Seq(Nodes), NEW i \in 1 .. Len(t), NEW m, Spans(t, i, m)
  PROVE  /\ Subtree(t, i) = i .. i + m - 1
         /\ Cardinality(Subtree(t, i)) = m
<1>1. Len(t) \in Nat /\ i \in Nat /\ i >= 1 /\ i <= Len(t)
      /\ \A k \in 1 .. Len(t) : t[k].depth \in Nat
  BY TreeShape
<1>2. m \in Nat /\ 1 <= m /\ i + m - 1 <= Len(t)
  BY DEF Spans
<1>3. ASSUME NEW j \in i .. i + m - 1 PROVE j \in Subtree(t, i)
  <2>1. j \in i .. Len(t) /\ \A k \in i + 1 .. j : k \in i + 1 .. i + m - 1
    BY <1>1, <1>2
  <2> QED
    BY <2>1 DEF Subtree, Spans
<1>4. ASSUME NEW j \in Subtree(t, i) PROVE j \in i .. i + m - 1
  <2>1. j \in i .. Len(t) /\ \A k \in i + 1 .. j : t[k].depth > t[i].depth
    BY DEF Subtree
  <2> SUFFICES ASSUME j > i + m - 1 PROVE FALSE
    BY <1>1, <1>2, <2>1
  <2>2. i + m \in i + 1 .. j /\ i + m <= Len(t) /\ i + m \in 1 .. Len(t)
    BY <1>1, <1>2, <2>1
  <2>3. t[i + m].depth > t[i].depth
    BY <2>1, <2>2
  <2>4. t[i + m].depth <= t[i].depth
    BY <2>2 DEF Spans
  <2>5. t[i + m].depth \in Nat /\ t[i].depth \in Nat
    BY <1>1, <2>2
  <2> QED
    BY <2>3, <2>4, <2>5
<1>5. Subtree(t, i) = i .. i + m - 1
  BY <1>3, <1>4
<1>6. Cardinality(i .. i + m - 1) = m
  <2>1. i \in Int /\ i + m - 1 \in Int /\ ~(i > i + m - 1) /\ (i + m - 1) - i + 1 = m
    BY <1>1, <1>2
  <2> QED
    BY <2>1, FS_Interval
<1> QED
  BY <1>5, <1>6

(* What is in the place of the m positions from i on. *)
LEMMA UpdateClauseShape ==
  ASSUME NEW t \in Seq(Nodes), NEW i \in 1 .. Len(t), NEW m, Spans(t, i, m),
         NEW new \in Seq(Nodes), NEW n \in Nat, Len(new) = n,
         NEW r, UpdateClause(t, i, new) = r
  PROVE  /\ r \in Seq(Nodes)
         /\ Len(r) = Len(t) - m + n
         /\ \A j \in 1 .. i - 1 : r[j] = t[j]
         /\ \A j \in i .. i + n - 1 : r[j] = new[j - i + 1]
         /\ \A j \in i + n .. Len(r) : r[j] = t[j - n + m]
<1> DEFINE before == SubSeq(t, 1, i - 1)
           after == SubSeq(t, i + m, Len(t))
<1>1. /\ Len(t) \in Nat /\ i \in Nat /\ i >= 1 /\ i <= Len(t)
      /\ m \in Nat /\ 1 <= m /\ i + m - 1 <= Len(t)
      /\ n \in Nat
  BY TreeShape DEF Spans
<1>2. \A k \in 1 .. Len(t) : t[k] \in Nodes
  BY TreeShape
<1>3. /\ before \in Seq(Nodes) /\ Len(before) = i - 1
      /\ \A j \in 1 .. i - 1 : before[j] = t[j]
  <2>1. 1 \in Int /\ i - 1 \in Int /\ \A k \in 1 .. i - 1 : t[k] \in Nodes
    BY <1>1, <1>2
  <2>2. /\ before \in Seq(Nodes)
        /\ Len(before) = IF 1 <= i - 1 THEN (i - 1) - 1 + 1 ELSE 0
        /\ \A j \in 1 .. (i - 1) - 1 + 1 : before[j] = t[1 + j - 1]
    BY <2>1, SubSeqProperties
  <2>3. \A j \in 1 .. i - 1 : j \in 1 .. (i - 1) - 1 + 1 /\ 1 + j - 1 = j
    BY <1>1
  <2>4. (IF 1 <= i - 1 THEN (i - 1) - 1 + 1 ELSE 0) = i - 1
    BY <1>1
  <2> QED
    BY <2>2, <2>3, <2>4
<1>4. /\ after \in Seq(Nodes) /\ Len(after) = Len(t) - (i + m) + 1
      /\ \A j \in 1 .. Len(t) - (i + m) + 1 : after[j] = t[i + m + j - 1]
  <2>1. i + m \in Int /\ Len(t) \in Int /\ \A k \in i + m .. Len(t) : t[k] \in Nodes
    BY <1>1, <1>2
  <2>2. /\ after \in Seq(Nodes)
        /\ Len(after) = IF i + m <= Len(t) THEN Len(t) - (i + m) + 1 ELSE 0
        /\ \A j \in 1 .. Len(t) - (i + m) + 1 : after[j] = t[(i + m) + j - 1]
    BY <2>1, SubSeqProperties
  <2>3. (IF i + m <= Len(t) THEN Len(t) - (i + m) + 1 ELSE 0) = Len(t) - (i + m) + 1
    BY <1>1
  <2> QED
    BY <2>2, <2>3
<1>5. r = (before \o new) \o after
  BY SubtreeIsSpan DEF UpdateClause
<1> HIDE DEF before, after
<1>6. /\ before \o new \in Seq(Nodes)
      /\ Len(before \o new) = (i - 1) + n
      /\ \A j \in 1 .. (i - 1) + n :
           (before \o new)[j] = IF j <= i - 1 THEN before[j] ELSE new[j - (i - 1)]
  <2>0. before \in Seq(Nodes)
    BY <1>3
  <2>2. /\ before \o new \in Seq(Nodes)
        /\ Len(before \o new) = Len(before) + Len(new)
        /\ \A j \in 1 .. Len(before) + Len(new) :
             (before \o new)[j] = IF j <= Len(before) THEN before[j] ELSE new[j - Len(before)]
    BY <2>0, ConcatProperties
  <2> QED
    BY <1>3, <2>2
<1>7. /\ r \in Seq(Nodes)
      /\ Len(r) = ((i - 1) + n) + (Len(t) - (i + m) + 1)
      /\ \A j \in 1 .. ((i - 1) + n) + (Len(t) - (i + m) + 1) :
           r[j] = IF j <= (i - 1) + n THEN (before \o new)[j] ELSE after[j - ((i - 1) + n)]
  <2> DEFINE front == before \o new
  <2> HIDE DEF front
  <2>1. /\ front \in Seq(Nodes) /\ Len(front) = (i - 1) + n /\ r = front \o after
    BY <1>5, <1>6 DEF front
  <2>0. front \in Seq(Nodes) /\ after \in Seq(Nodes)
    BY <1>4, <2>1
  <2>2. /\ front \o after \in Seq(Nodes)
        /\ Len(front \o after) = Len(front) + Len(after)
        /\ \A j \in 1 .. Len(front) + Len(after) :
             (front \o after)[j] = IF j <= Len(front) THEN front[j] ELSE after[j - Len(front)]
    BY <2>0, ConcatProperties
  <2>3. /\ r \in Seq(Nodes)
        /\ Len(r) = ((i - 1) + n) + (Len(t) - (i + m) + 1)
        /\ \A j \in 1 .. ((i - 1) + n) + (Len(t) - (i + m) + 1) :
             r[j] = IF j <= (i - 1) + n THEN front[j] ELSE after[j - ((i - 1) + n)]
    BY <1>4, <2>1, <2>2
  <2> QED
    BY <2>3 DEF front
<1>8. Len(r) = Len(t) - m + n
  BY <1>1, <1>7
<1>9. ASSUME NEW j \in 1 .. i - 1 PROVE r[j] = t[j]
  <2>1. j \in 1 .. ((i - 1) + n) + (Len(t) - (i + m) + 1) /\ j <= (i - 1) + n
        /\ j \in 1 .. (i - 1) + n /\ j <= i - 1
    BY <1>1
  <2> QED
    BY <1>3, <1>6, <1>7, <2>1
<1>10. ASSUME NEW j \in i .. i + n - 1 PROVE r[j] = new[j - i + 1]
  <2>1. j \in 1 .. ((i - 1) + n) + (Len(t) - (i + m) + 1) /\ j <= (i - 1) + n
        /\ j \in 1 .. (i - 1) + n /\ ~(j <= i - 1) /\ j - (i - 1) = j - i + 1
    BY <1>1
  <2> QED
    BY <1>6, <1>7, <2>1
<1>11. ASSUME NEW j \in i + n .. Len(r) PROVE r[j] = t[j - n + m]
  <2>1. j \in 1 .. ((i - 1) + n) + (Len(t) - (i + m) + 1) /\ ~(j <= (i - 1) + n)
        /\ j - ((i - 1) + n) \in 1 .. Len(t) - (i + m) + 1
        /\ i + m + (j - ((i - 1) + n)) - 1 = j - n + m
    BY <1>1, <1>8
  <2> QED
    BY <1>4, <1>7, <2>1
<1> QED
  BY <1>1, <1>7, <1>8, <1>9, <1>10, <1>11

(* The subclause that takes the place of a chain follows it. *)
LEMMA FirstSubclause ==
  ASSUME NEW t \in Trees, NEW i \in 1 .. Len(t), t[i].kind = "chain"
  PROVE  /\ i + 1 \in 1 .. Len(t) /\ t[i + 1].depth = t[i].depth + 1
         /\ Nth(Subclauses(t, i), 0) = i + 1
<1>1. /\ Len(t) \in Nat /\ i \in Nat /\ i >= 1 /\ DOMAIN t = 1 .. Len(t)
      /\ \A k \in 1 .. Len(t) : t[k].depth \in Nat
  BY TreeShape DEF Trees
<1>2. i + 1 \in 1 .. Len(t) /\ t[i + 1].depth = t[i].depth + 1
  BY <1>1 DEF Trees, ChainsHoldClauses
<1>3. i + 1 \in Subclauses(t, i)
  <2>1. i + 1 \in i .. Len(t) /\ \A k \in i + 1 .. i + 1 : k = i + 1
    BY <1>1, <1>2
  <2>2. t[i + 1].depth > t[i].depth
    BY <1>1, <1>2
  <2> QED
    BY <1>2, <2>1, <2>2 DEF Subclauses, Subtree
<1>4. \A j \in Subclauses(t, i) : j \in Nat /\ j >= i + 1
  <2> SUFFICES ASSUME NEW j \in Subclauses(t, i) PROVE j \in Nat /\ j >= i + 1
    OBVIOUS
  <2>1. j \in i .. Len(t) /\ t[j].depth = t[i].depth + 1
    BY DEF Subclauses, Subtree
  <2>2. j # i
    BY <1>1, <2>1
  <2> QED
    BY <1>1, <2>1, <2>2
<1>5. {j \in Subclauses(t, i) : j < i + 1} = {}
  BY <1>1, <1>4
<1>6. ASSUME NEW c \in Subclauses(t, i),
             Cardinality({j \in Subclauses(t, i) : j < c}) = 0
      PROVE  c = i + 1
  <2>1. Subclauses(t, i) \in SUBSET Nat /\ \A j \in Subclauses(t, i) : j <= Len(t)
    BY <1>1 DEF Subclauses, Subtree
  <2>2. IsFiniteSet(Subclauses(t, i))
    BY <1>1, <2>1, FS_BoundedSetOfNaturals
  <2>3. IsFiniteSet({j \in Subclauses(t, i) : j < c})
    BY <2>2, FS_Subset
  <2>4. {j \in Subclauses(t, i) : j < c} = {}
    BY <1>6, <2>3, FS_EmptySet
  <2>5. ~(i + 1 < c)
    BY <1>3, <2>4
  <2> QED
    BY <1>1, <1>4, <2>5
<1>7. Cardinality({j \in Subclauses(t, i) : j < i + 1}) = 0
  BY <1>5, FS_EmptySet
<1>8. Nth(Subclauses(t, i), 0) = i + 1
  BY <1>3, <1>6, <1>7 DEF Nth
<1> QED
  BY <1>2, <1>8

-----------------------------------------------------------------------------
(* What a reduced clause leaves. *)

LEMMA PartsOfAlike ==
  ASSUME NEW a, NEW b, a.id = b.id, a.kind = b.kind, a.use = b.use
  PROVE  PartsOf(a) = PartsOf(b)
BY DEF PartsOf

LEMMA PartsOfLess ==
  ASSUME NEW a, NEW b, a.id = b.id, a.use = b.use,
         a.kind = "empty" \/ (a.kind = "literal" /\ b.kind = "expression")
  PROVE  PartsOf(a) \subseteq PartsOf(b)
<1> DEFINE place(c) == {<<c.id, "place">> : k \in {c.kind} \ {"empty"}}
           content(c) == {<<c.id, "content">> : k \in {c.kind} \cap {"expression"}}
           form(c) == {<<c.id, "form">> : u \in {c.use} \cap {"transformed"}}
<1>1. place(a) \subseteq place(b)
  OBVIOUS
<1>2. content(a) \subseteq content(b)
  OBVIOUS
<1>3. form(a) \subseteq form(b)
  OBVIOUS
<1>4. PartsOf(a) = place(a) \cup content(a) \cup form(a)
      /\ PartsOf(b) = place(b) \cup content(b) \cup form(b)
  BY DEF PartsOf
<1> HIDE DEF place, content, form
<1> QED
  BY <1>1, <1>2, <1>3, <1>4

(* r is t with n positions in the place of the m of the clause at p: a     *)
(* clause without subclauses, or the first subclause of a chain.           *)
Grafted(t, p, r, m, n) ==
  /\ Spans(t, p, m) /\ n \in Nat /\ 1 <= n
  /\ r \in Seq(Nodes) /\ Len(r) = Len(t) - m + n
  /\ \A j \in 1 .. p - 1 : r[j] = t[j]
  /\ \A j \in p + n .. Len(r) : r[j] = t[j - n + m]
  /\ \/ /\ n = 1 /\ t[p].kind # "chain"
        /\ r[p].id = t[p].id /\ r[p].use = t[p].use /\ r[p].depth = t[p].depth
        /\ r[p].kind = IF t[p].kind = "expression" THEN "literal" ELSE "empty"
     \/ /\ t[p].kind = "chain" /\ n + 1 <= m
        /\ Spans(t, p + 1, n) /\ t[p + 1].depth = t[p].depth + 1
        /\ \A j \in p .. p + n - 1 : r[j] = [t[j + 1] EXCEPT !.depth = t[j + 1].depth - 1]

LEMMA OneIsSeq ==
  ASSUME NEW c \in Nodes
  PROVE  << c >> \in Seq(Nodes) /\ Len(<< c >>) = 1 /\ << c >>[1] = c
OBVIOUS

LEMMA ReducedIsGrafted ==
  ASSUME NEW t \in Trees, NEW p \in 1 .. Len(t)
  PROVE  \E m, n : Grafted(t, p, Reduced(t, p), m, n)
<1>1. /\ t \in Seq(Nodes) /\ Len(t) \in Nat /\ p \in Nat /\ p >= 1 /\ p <= Len(t)
      /\ \A i \in 1 .. Len(t) : t[i] \in Nodes /\ t[i].depth \in Nat
  BY TreeShape DEF Trees
<1>2. PICK m : Spans(t, p, m)
  BY <1>1, SpanExists
<1>3. m \in Nat
  BY <1>2 DEF Spans
<1> DEFINE r == Reduced(t, p)
<1>4. CASE t[p].kind = "chain"
  <2>1. /\ p + 1 \in 1 .. Len(t) /\ t[p + 1].depth = t[p].depth + 1
        /\ Nth(Subclauses(t, p), 0) = p + 1
    BY <1>4, FirstSubclause
  <2>2. PICK n : Spans(t, p + 1, n)
    BY <1>1, <2>1, SpanExists
  <2>3. n \in Nat /\ 1 <= n /\ p + 1 + n - 1 <= Len(t)
    BY <2>2 DEF Spans
  <2> DEFINE new == [k \in 1 .. n |-> [t[p + 1 + k - 1] EXCEPT !.depth = t[p + 1 + k - 1].depth - 1]]
  <2>4. NoStrategyReduce(t, p) = new
    <3>1. NoStrategyReduce(t, p) = Lifted(t, p + 1)
      BY <1>4, <2>1 DEF NoStrategyReduce
    <3>2. Cardinality(Subtree(t, p + 1)) = n
      BY <1>1, <2>1, <2>2, SubtreeIsSpan
    <3> QED
      BY <3>1, <3>2 DEF Lifted
  <2>5. ASSUME NEW k \in 1 .. n
        PROVE  /\ [t[p + 1 + k - 1] EXCEPT !.depth = t[p + 1 + k - 1].depth - 1] \in Nodes
               /\ p + 1 + k - 1 = p + k
    <3>0. k \in Nat /\ 1 <= k /\ k <= n /\ n \in Nat /\ p \in Nat /\ p >= 1 /\ Len(t) \in Nat
          /\ p + 1 + n - 1 <= Len(t)
      BY <1>1, <2>3
    <3>1. p + 1 + k - 1 = p + k /\ p + k \in 1 .. Len(t) /\ (k = 1 \/ p + k \in p + 1 + 1 .. p + 1 + n - 1)
      BY <3>0
    <3>2. t[p + k].depth >= 1
      <4>1. CASE k = 1
        BY <1>1, <2>1, <4>1
      <4>2. CASE p + k \in p + 1 + 1 .. p + 1 + n - 1
        <5>1. t[p + k].depth > t[p + 1].depth
          BY <2>2, <4>2 DEF Spans
        <5> QED
          BY <1>1, <2>1, <3>1, <5>1
      <4> QED
        BY <3>1, <4>1, <4>2
    <3>3. t[p + k].depth - 1 \in Nat /\ t[p + k] \in Nodes
      BY <1>1, <3>1, <3>2
    <3>4. [t[p + k] EXCEPT !.depth = t[p + k].depth - 1] \in Nodes
      BY <3>3 DEF Nodes
    <3> QED
      BY <3>1, <3>4
  <2>6. new \in Seq(Nodes) /\ Len(new) = n
    <3>1. new \in [1 .. n -> Nodes]
      BY <2>5
    <3> QED
      BY <2>3, <3>1
  <2>7. ASSUME NEW j \in p .. p + n - 1
        PROVE  new[j - p + 1] = [t[j + 1] EXCEPT !.depth = t[j + 1].depth - 1]
    <3>1. j - p + 1 \in 1 .. n /\ p + 1 + (j - p + 1) - 1 = j + 1
      BY <1>1, <2>3
    <3> QED
      BY <3>1
  <2> HIDE DEF new
  <2>8. r = UpdateClause(t, p, new)
    BY <2>4 DEF Reduced
  <2> HIDE DEF r
  <2>9. /\ r \in Seq(Nodes)
        /\ Len(r) = Len(t) - m + n
        /\ \A j \in 1 .. p - 1 : r[j] = t[j]
        /\ \A j \in p .. p + n - 1 : r[j] = new[j - p + 1]
        /\ \A j \in p + n .. Len(r) : r[j] = t[j - n + m]
    BY <1>1, <1>2, <2>6, <2>8, UpdateClauseShape
  <2>10. n + 1 <= m
    <3> SUFFICES ASSUME n + 1 > m PROVE FALSE
      BY <1>3, <2>3
    <3>0. 1 <= m
      BY <1>2 DEF Spans
    <3>1. p + m <= Len(t) /\ p + m \in 1 .. Len(t) /\ (m = 1 \/ p + m \in p + 1 + 1 .. p + 1 + n - 1)
      BY <1>1, <1>3, <2>3, <3>0
    <3>2. t[p + m].depth <= t[p].depth
      BY <1>2, <3>1 DEF Spans
    <3>3. CASE m = 1
      BY <1>1, <2>1, <3>1, <3>2, <3>3
    <3>4. CASE p + m \in p + 1 + 1 .. p + 1 + n - 1
      <4>1. t[p + m].depth > t[p + 1].depth
        BY <2>2, <3>4 DEF Spans
      <4> QED
        BY <1>1, <2>1, <3>1, <3>2, <4>1
    <3> QED
      BY <3>1, <3>3, <3>4
  <2>11. \A j \in p .. p + n - 1 : r[j] = [t[j + 1] EXCEPT !.depth = t[j + 1].depth - 1]
    BY <2>7, <2>9
  <2>12. Grafted(t, p, r, m, n)
    BY <1>2, <1>4, <2>1, <2>2, <2>3, <2>9, <2>10, <2>11 DEF Grafted
  <2> QED
    BY <2>12 DEF r
<1>5. CASE t[p].kind # "chain"
  <2>1. PICK c : /\ NoStrategyReduce(t, p) = << c >>
                 /\ \/ t[p].kind = "expression" /\ c = [t[p] EXCEPT !.kind = "literal"]
                    \/ t[p].kind # "expression" /\ c = [t[p] EXCEPT !.kind = "empty"]
    BY <1>5 DEF NoStrategyReduce, Literal
  <2>2. /\ c \in Nodes /\ c.id = t[p].id /\ c.use = t[p].use /\ c.depth = t[p].depth
        /\ c.kind = IF t[p].kind = "expression" THEN "literal" ELSE "empty"
    BY <1>1, <2>1 DEF Nodes, Kinds
  <2>3. r = UpdateClause(t, p, << c >>)
    BY <2>1 DEF Reduced
  <2> HIDE DEF r
  <2>4. /\ r \in Seq(Nodes)
        /\ Len(r) = Len(t) - m + 1
        /\ \A j \in 1 .. p - 1 : r[j] = t[j]
        /\ \A j \in p .. p + 1 - 1 : r[j] = << c >>[j - p + 1]
        /\ \A j \in p + 1 .. Len(r) : r[j] = t[j - 1 + m]
    <3>1. PICK new : new = << c >>
      OBVIOUS
    <3>2. PICK n : n = 1
      OBVIOUS
    <3>3. /\ t \in Seq(Nodes) /\ new \in Seq(Nodes) /\ n \in Nat /\ Len(new) = n
          /\ r = UpdateClause(t, p, new)
      BY <1>1, <2>2, <2>3, <3>1, <3>2, OneIsSeq
    <3>4. /\ r \in Seq(Nodes)
          /\ Len(r) = Len(t) - m + n
          /\ \A j \in 1 .. p - 1 : r[j] = t[j]
          /\ \A j \in p .. p + n - 1 : r[j] = new[j - p + 1]
          /\ \A j \in p + n .. Len(r) : r[j] = t[j - n + m]
      BY <1>2, <3>3, UpdateClauseShape
    <3> QED
      BY <3>1, <3>2, <3>4
  <2>5. r[p] = c
    <3>1. p \in p .. p + 1 - 1 /\ p - p + 1 = 1
      BY <1>1
    <3> QED
      BY <2>2, <2>4, <3>1, OneIsSeq
  <2>8. Grafted(t, p, r, m, 1)
    BY <1>2, <1>5, <2>2, <2>4, <2>5 DEF Grafted
  <2> QED
    BY <2>8 DEF r
<1> QED
  BY <1>4, <1>5

(* In the place of the clause, nothing is above it. *)
LEMMA GraftedDepths ==
  ASSUME NEW t \in Trees, NEW p \in 1 .. Len(t), NEW m, NEW n, NEW r,
         Grafted(t, p, r, m, n)
  PROVE  /\ r \in Seq(Nodes) /\ m \in Nat /\ n \in Nat /\ 1 <= m /\ 1 <= n
         /\ p + m - 1 <= Len(t) /\ Len(r) = Len(t) - m + n
         /\ p + m <= Len(t) => t[p + m].depth <= t[p].depth
         /\ r[p].depth = t[p].depth
         /\ \A j \in p .. p + n - 1 : r[j].depth >= t[p].depth
<1>1. /\ r \in Seq(Nodes) /\ m \in Nat /\ n \in Nat /\ 1 <= m /\ 1 <= n
      /\ p + m - 1 <= Len(t) /\ Len(r) = Len(t) - m + n
      /\ p + m <= Len(t) => t[p + m].depth <= t[p].depth
  BY DEF Grafted, Spans
<1>2. /\ Len(t) \in Nat /\ p \in Nat /\ p >= 1
      /\ \A i \in 1 .. Len(t) : t[i] \in Nodes /\ t[i].depth \in Nat
  BY TreeShape DEF Trees
<1>3. CASE n = 1 /\ r[p].depth = t[p].depth
  <2>1. \A j \in p .. p + n - 1 : j = p
    BY <1>2, <1>3
  <2> QED
    BY <1>1, <1>2, <1>3, <2>1
<1>4. CASE /\ n + 1 <= m /\ Spans(t, p + 1, n) /\ t[p + 1].depth = t[p].depth + 1
           /\ \A j \in p .. p + n - 1 : r[j] = [t[j + 1] EXCEPT !.depth = t[j + 1].depth - 1]
  <2>0. /\ n + 1 <= m /\ n \in Nat /\ m \in Nat /\ 1 <= n /\ p + m - 1 <= Len(t)
        /\ Len(t) \in Nat /\ p \in Nat /\ p >= 1
    BY <1>1, <1>2, <1>4
  <2>1. ASSUME NEW j \in p .. p + n - 1
        PROVE  r[j].depth = t[j + 1].depth - 1 /\ t[j + 1].depth \in Nat
    <3>1. j + 1 \in 1 .. Len(t)
      BY <2>0
    <3>2. t[j + 1] \in Nodes /\ t[j + 1].depth \in Nat
      BY <1>2, <3>1
    <3>3. r[j] = [t[j + 1] EXCEPT !.depth = t[j + 1].depth - 1]
      BY <1>4
    <3>4. r[j].depth = t[j + 1].depth - 1
      BY <3>2, <3>3 DEF Nodes
    <3> QED
      BY <3>2, <3>4
  <2>2. p \in p .. p + n - 1 /\ p + 1 \in 1 .. Len(t)
    BY <2>0
  <2>3. r[p].depth = t[p].depth
    BY <1>2, <1>4, <2>1, <2>2
  <2>4. ASSUME NEW j \in p .. p + n - 1 PROVE r[j].depth >= t[p].depth
    <3>1. CASE j = p
      BY <1>2, <2>3, <3>1
    <3>2. CASE j # p
      <4>1. j + 1 \in p + 1 + 1 .. p + 1 + n - 1
        BY <2>0, <3>2
      <4>2. t[j + 1].depth > t[p + 1].depth
        BY <1>4, <4>1 DEF Spans
      <4> QED
        BY <1>2, <1>4, <2>1, <4>2
    <3> QED
      BY <3>1, <3>2
  <2> QED
    BY <1>1, <2>3, <2>4
<1> QED
  BY <1>3, <1>4 DEF Grafted

(* What is in the place of the clause, and where it comes from. *)
Placed(t, p, r, m, n) ==
  \/ /\ n = 1 /\ t[p].kind # "chain" /\ r[p].kind \in {"literal", "empty"}
     /\ PartsOf(r[p]) \subseteq PartsOf(t[p])
  \/ /\ t[p].kind = "chain" /\ n + 1 <= m /\ Spans(t, p + 1, n)
     /\ t[p + 1].depth = t[p].depth + 1
     /\ \A j \in p .. p + n - 1 :
          /\ j + 1 \in 1 .. Len(t)
          /\ r[j].id = t[j + 1].id /\ r[j].kind = t[j + 1].kind
          /\ r[j].use = t[j + 1].use
          /\ t[j + 1].depth \in Nat /\ r[j].depth = t[j + 1].depth - 1

LEMMA GraftedKeeps ==
  ASSUME NEW t \in Trees, NEW p \in 1 .. Len(t), NEW m, NEW n, NEW r,
         Grafted(t, p, r, m, n)
  PROVE  /\ \A j \in 1 .. p - 1 : r[j] = t[j]
         /\ \A j \in p + n .. Len(r) : r[j] = t[j - n + m] /\ j - n + m \in 1 .. Len(t)
         /\ Placed(t, p, r, m, n)
<1>1. /\ r \in Seq(Nodes) /\ m \in Nat /\ n \in Nat /\ 1 <= m /\ 1 <= n
      /\ p + m - 1 <= Len(t) /\ Len(r) = Len(t) - m + n
  BY GraftedDepths
<1>2. /\ Len(t) \in Nat /\ p \in Nat /\ p >= 1
      /\ \A i \in 1 .. Len(t) : t[i] \in Nodes /\ t[i].depth \in Nat
  BY TreeShape DEF Trees
<1>3. \A j \in 1 .. p - 1 : r[j] = t[j]
  BY DEF Grafted
<1>4. \A j \in p + n .. Len(r) : r[j] = t[j - n + m] /\ j - n + m \in 1 .. Len(t)
  <2>1. \A j \in p + n .. Len(r) : j - n + m \in 1 .. Len(t)
    BY <1>1, <1>2
  <2> QED
    BY <2>1 DEF Grafted
<1>5. CASE /\ n = 1 /\ t[p].kind # "chain"
           /\ r[p].id = t[p].id /\ r[p].use = t[p].use
           /\ r[p].kind = IF t[p].kind = "expression" THEN "literal" ELSE "empty"
  <2>1. PartsOf(r[p]) \subseteq PartsOf(t[p])
    BY <1>5, PartsOfLess
  <2> QED
    BY <1>3, <1>4, <1>5, <2>1 DEF Placed
<1>6. CASE /\ t[p].kind = "chain" /\ n + 1 <= m
           /\ Spans(t, p + 1, n) /\ t[p + 1].depth = t[p].depth + 1
           /\ \A j \in p .. p + n - 1 : r[j] = [t[j + 1] EXCEPT !.depth = t[j + 1].depth - 1]
  <2>0. /\ n + 1 <= m /\ n \in Nat /\ m \in Nat /\ 1 <= n /\ p + m - 1 <= Len(t)
        /\ Len(t) \in Nat /\ p \in Nat /\ p >= 1
    BY <1>1, <1>2, <1>6
  <2>1. ASSUME NEW j \in p .. p + n - 1
        PROVE  /\ j + 1 \in 1 .. Len(t)
               /\ r[j].id = t[j + 1].id /\ r[j].kind = t[j + 1].kind
               /\ r[j].use = t[j + 1].use
               /\ t[j + 1].depth \in Nat /\ r[j].depth = t[j + 1].depth - 1
    <3>1. j + 1 \in 1 .. Len(t)
      BY <2>0
    <3>2. t[j + 1] \in Nodes /\ t[j + 1].depth \in Nat
      BY <1>2, <3>1
    <3>3. r[j] = [t[j + 1] EXCEPT !.depth = t[j + 1].depth - 1]
      BY <1>6
    <3>4. /\ r[j].depth = t[j + 1].depth - 1 /\ r[j].id = t[j + 1].id
          /\ r[j].kind = t[j + 1].kind /\ r[j].use = t[j + 1].use
      BY <3>2, <3>3 DEF Nodes
    <3> QED
      BY <3>1, <3>2, <3>4
  <2> QED
    BY <1>3, <1>4, <1>6, <2>1 DEF Placed
<1> QED
  BY <1>5, <1>6 DEF Grafted

(* A clause that is replaced leaves a tree. *)
LEMMA GraftedIsTree ==
  ASSUME NEW t \in Trees, NEW p \in 1 .. Len(t), NEW m, NEW n, NEW r,
         Grafted(t, p, r, m, n)
  PROVE  r \in Trees
<1>1. /\ r \in Seq(Nodes) /\ m \in Nat /\ n \in Nat /\ 1 <= m /\ 1 <= n
      /\ p + m - 1 <= Len(t) /\ Len(r) = Len(t) - m + n
      /\ Len(t) \in Nat /\ p \in Nat /\ p >= 1 /\ p <= Len(t)
  BY GraftedDepths, TreeShape DEF Trees
<1>2. /\ p + m <= Len(t) => t[p + m].depth <= t[p].depth
      /\ r[p].depth = t[p].depth
      /\ \A j \in p .. p + n - 1 : r[j].depth >= t[p].depth
  BY GraftedDepths
<1>3. /\ Len(r) \in Nat /\ DOMAIN r = 1 .. Len(r) /\ DOMAIN t = 1 .. Len(t)
      /\ \A i \in 1 .. Len(t) : t[i] \in Nodes /\ t[i].depth \in Nat
      /\ \A i \in 1 .. Len(r) : r[i] \in Nodes /\ r[i].depth \in Nat
  BY <1>1, TreeShape DEF Trees
<1>4. \A j \in 1 .. p - 1 : r[j] = t[j]
  BY GraftedKeeps
<1>5. \A j \in p + n .. Len(r) : r[j] = t[j - n + m]
  BY GraftedKeeps
<1>6. /\ t[1].depth = 0
      /\ \A i \in 1 .. Len(t) : i > 1 => t[i].depth >= 1 /\ t[i].depth <= t[i - 1].depth + 1
  <2>1. 1 \in DOMAIN t
    BY <1>1, <1>3
  <2>2. t[1].depth = 0
    BY <2>1 DEF Trees, IsTree
  <2>3. ASSUME NEW i \in 1 .. Len(t), i > 1
        PROVE  t[i].depth >= 1 /\ t[i].depth <= t[i - 1].depth + 1
    <3>0. i # 1 /\ i \in DOMAIN t
      BY <1>3, <2>3
    <3>1. t[i].depth \in 1 .. t[i - 1].depth + 1
      BY <3>0 DEF Trees, IsTree
    <3>2. i - 1 \in 1 .. Len(t)
      BY <1>1, <2>3
    <3>3. t[i - 1].depth + 1 \in Int /\ t[i].depth \in Int
      BY <1>3, <3>2
    <3> QED
      BY <3>1, <3>3
  <2> QED
    BY <2>2, <2>3
<1>7. \/ n = 1 /\ r[p].kind # "chain"
      \/ /\ t[p].kind = "chain" /\ n + 1 <= m /\ Spans(t, p + 1, n)
         /\ t[p + 1].depth = t[p].depth + 1
         /\ \A j \in p .. p + n - 1 :
              /\ j + 1 \in 1 .. Len(t) /\ r[j].kind = t[j + 1].kind
              /\ t[j + 1].depth \in Nat /\ r[j].depth = t[j + 1].depth - 1
  BY GraftedKeeps DEF Placed
<1>8. ASSUME NEW j \in 1 .. Len(r)
      PROVE  r[j].depth \in IF j = 1 THEN {0} ELSE 1 .. r[j - 1].depth + 1
  <2>0. j \in Nat /\ j >= 1 /\ j <= Len(r) /\ r[j].depth \in Nat
    BY <1>3
  <2>1. CASE j < p
    <3>0. j \in 1 .. p - 1 /\ (j > 1 => j - 1 \in 1 .. p - 1) /\ j \in 1 .. Len(t)
      BY <1>1, <2>0, <2>1
    <3>1. r[j] = t[j] /\ (j > 1 => r[j - 1] = t[j - 1]) /\ j \in 1 .. Len(t)
      BY <1>4, <3>0
    <3>2. j > 1 => r[j - 1].depth \in Nat
      BY <1>3, <2>0
    <3> QED
      BY <1>6, <2>0, <3>1, <3>2
  <2>2. CASE j = p
    <3>1. r[j].depth = t[j].depth /\ (j > 1 => r[j - 1] = t[j - 1]) /\ j \in 1 .. Len(t)
      BY <1>1, <1>2, <1>4, <2>0, <2>2
    <3>2. j > 1 => r[j - 1].depth \in Nat
      BY <1>3, <2>0
    <3> QED
      BY <1>6, <2>0, <3>1, <3>2
  <2>3. CASE j > p /\ j <= p + n - 1
    <3>1. n # 1 /\ j \in p .. p + n - 1 /\ j - 1 \in p .. p + n - 1 /\ j > 1
          /\ j - 1 + 1 = j /\ j + 1 > 1 /\ j + 1 - 1 = j /\ j + 1 \in p + 1 + 1 .. p + 1 + n - 1
      BY ONLY <1>1, <2>0, <2>3
    <3>2. /\ t[p + 1].depth = t[p].depth + 1 /\ Spans(t, p + 1, n)
          /\ j + 1 \in 1 .. Len(t) /\ t[j + 1].depth \in Nat
          /\ r[j].depth = t[j + 1].depth - 1
          /\ r[j - 1].depth = t[j].depth - 1 /\ t[j].depth \in Nat
      BY <1>7, <3>1
    <3>3. t[j + 1].depth <= t[j].depth + 1
      BY <1>6, <3>1, <3>2
    <3>4. t[j + 1].depth > t[p + 1].depth
      BY <3>1, <3>2 DEF Spans
    <3>5. t[p].depth \in Nat
      BY <1>3
    <3>8. PICK a, b, c, d, e : /\ a = t[j + 1].depth /\ b = t[j].depth /\ c = t[p + 1].depth
                               /\ d = t[p].depth /\ e = r[j - 1].depth
      OBVIOUS
    <3>9. /\ a \in Nat /\ b \in Nat /\ d \in Nat /\ c = d + 1 /\ e = b - 1
          /\ a <= b + 1 /\ a > c /\ r[j].depth = a - 1
      BY <3>2, <3>3, <3>4, <3>5, <3>8
    <3>6. r[j].depth >= 1
      BY <3>9
    <3>10. r[j].depth <= e + 1 /\ e \in Int
      BY <3>9
    <3>7. r[j].depth <= r[j - 1].depth + 1 /\ r[j - 1].depth \in Int
      BY <3>8, <3>10
    <3> QED
      BY <2>0, <3>1, <3>6, <3>7
  <2>4. CASE j = p + n
    <3>1. r[j] = t[p + m] /\ p + m \in 1 .. Len(t) /\ p + m > 1 /\ j > 1
      <4>1. j \in p + n .. Len(r) /\ j - n + m = p + m
        BY <1>1, <2>0, <2>4
      <4> QED
        BY <1>1, <1>5, <2>4, <4>1
    <3>2. t[p + m].depth >= 1 /\ t[p + m].depth <= t[p].depth
      BY <1>2, <1>6, <3>1
    <3>3. j - 1 \in p .. p + n - 1 /\ j - 1 \in 1 .. Len(r)
      BY <1>1, <2>0, <2>4
    <3>4. r[j - 1].depth >= t[p].depth /\ r[j - 1].depth \in Nat /\ t[p].depth \in Nat
      BY <1>2, <1>3, <3>3
    <3> QED
      BY <2>0, <3>1, <3>2, <3>4
  <2>5. CASE j > p + n
    <3>0. PICK k : k = j - n + m
      OBVIOUS
    <3>1. /\ r[j] = t[k] /\ r[j - 1] = t[k - 1]
          /\ k \in 1 .. Len(t) /\ k > 1 /\ j > 1 /\ j - 1 \in 1 .. Len(r)
      <4>1. /\ j \in p + n .. Len(r) /\ j - 1 \in p + n .. Len(r)
            /\ (j - 1) - n + m = k - 1
            /\ k \in 1 .. Len(t) /\ k > 1 /\ j > 1 /\ j - 1 \in 1 .. Len(r)
        <5>1. PICK x, y : x = Len(t) /\ y = Len(r)
          OBVIOUS
        <5>2. /\ m \in Nat /\ n \in Nat /\ 1 <= m /\ 1 <= n /\ p \in Nat /\ p >= 1 /\ x \in Nat
              /\ p + m - 1 <= x /\ y = x - m + n /\ j \in Nat /\ j <= y /\ j > p + n
          BY <1>1, <2>0, <2>5, <5>1
        <5>3. j \in p + n .. y /\ j - 1 \in p + n .. y /\ j > 1 /\ j - 1 \in 1 .. y
          BY <5>2
        <5>4. (j - 1) - n + m = k - 1
          BY <3>0, <5>2
        <5>5. k \in 1 .. x /\ k > 1
          BY <3>0, <5>2
        <5> QED
          BY <5>1, <5>3, <5>4, <5>5
      <4>2. r[j - 1] = t[(j - 1) - n + m]
        BY <1>5, <4>1
      <4> QED
        BY <1>5, <3>0, <4>1, <4>2
    <3>2. r[j - 1].depth \in Nat
      BY <1>3, <3>1
    <3>3. r[j].depth >= 1 /\ r[j].depth <= r[j - 1].depth + 1
      BY <1>6, <3>1
    <3> QED
      BY <2>0, <3>1, <3>2, <3>3
  <2>6. j < p \/ j = p \/ (j > p /\ j <= p + n - 1) \/ j = p + n \/ j > p + n
    BY <1>1, <2>0
  <2> QED
    BY <2>1, <2>2, <2>3, <2>4, <2>5, <2>6
<1>9. IsTree(r)
  BY <1>3, <1>8 DEF IsTree, Nodes
<1>10. ASSUME NEW j \in 1 .. Len(r), r[j].kind = "chain"
       PROVE  j < Len(r) /\ r[j + 1].depth = r[j].depth + 1
  <2>0. j \in Nat /\ j >= 1 /\ j <= Len(r)
    BY <1>3
  <2>1. \A i \in 1 .. Len(t) : t[i].kind = "chain" => i < Len(t) /\ t[i + 1].depth = t[i].depth + 1
    BY <1>3 DEF Trees, ChainsHoldClauses
  <2>2. CASE j < p
    <3>0. j \in 1 .. p - 1 /\ (j + 1 < p => j + 1 \in 1 .. p - 1) /\ j \in 1 .. Len(t)
          /\ j < Len(r) /\ j + 1 <= p
      <4>1. j \in Nat /\ j >= 1 /\ j < p /\ p \in Nat /\ p <= Len(t) /\ Len(t) \in Nat
            /\ m \in Nat /\ n \in Nat /\ 1 <= n /\ p + m - 1 <= Len(t)
        BY <1>1, <2>0, <2>2
      <4>2. Len(r) = Len(t) - m + n
        BY <1>1
      <4> QED
        BY <4>1, <4>2
    <3>1. r[j] = t[j] /\ (j + 1 < p => r[j + 1] = t[j + 1]) /\ j \in 1 .. Len(t) /\ j < Len(r)
          /\ j + 1 <= p
      BY <1>4, <3>0
    <3>2. j + 1 = p => r[j + 1].depth = t[j + 1].depth
      BY <1>2
    <3>3. t[j + 1].depth = t[j].depth + 1
      BY <1>10, <2>1, <3>1
    <3> QED
      BY <1>1, <2>0, <3>1, <3>2, <3>3
  <2>3. CASE j >= p /\ j <= p + n - 1
    <3>1. j \in p .. p + n - 1
      BY <1>1, <2>0, <2>3
    <3>2. n # 1 \/ r[j].kind = r[p].kind
      BY <1>1, <2>0, <2>3
    <3>3. /\ Spans(t, p + 1, n)
          /\ \A i \in p .. p + n - 1 :
               /\ i + 1 \in 1 .. Len(t) /\ r[i].kind = t[i + 1].kind
               /\ t[i + 1].depth \in Nat /\ r[i].depth = t[i + 1].depth - 1
          /\ n + 1 <= m
      BY <1>7, <1>10, <3>2
    <3>4. /\ j + 1 \in 1 .. Len(t) /\ t[j + 1].kind = "chain"
          /\ t[j + 1].depth \in Nat /\ r[j].depth = t[j + 1].depth - 1
      BY <1>10, <3>1, <3>3
    <3>5. j + 1 < Len(t) /\ t[j + 1 + 1].depth = t[j + 1].depth + 1
      BY <2>1, <3>4
    <3>6. j + 1 <= p + n - 1
      <4> SUFFICES ASSUME j = p + n - 1 PROVE FALSE
        BY <1>1, <2>0, <2>3
      <4>1. p + 1 + n <= Len(t) /\ t[p + 1 + n].depth <= t[p + 1].depth
            /\ j + 1 + 1 = p + 1 + n
        BY <1>1, <3>3, <3>5 DEF Spans
      <4>2. t[p + 1].depth <= t[j + 1].depth
        <5>1. CASE n = 1
          BY <1>3, <1>1, <5>1, <3>4
        <5>2. CASE n # 1
          <6>1. j + 1 \in p + 1 + 1 .. p + 1 + n - 1 /\ p + 1 \in 1 .. Len(t)
            BY <1>1, <5>2, <3>4
          <6>2. t[j + 1].depth > t[p + 1].depth /\ t[p + 1].depth \in Nat
            BY <1>3, <3>3, <6>1 DEF Spans
          <6> QED
            BY <3>4, <6>2
        <5> QED
          BY <5>1, <5>2
      <4>3. p + 1 \in 1 .. Len(t)
        <5>1. p \in Nat /\ n \in Nat /\ 1 <= n /\ Len(t) \in Nat /\ p + 1 + n <= Len(t)
          BY <1>1, <4>1
        <5> QED
          BY <5>1
      <4>4. t[p + 1].depth \in Nat
        BY <1>3, <4>3
      <4> QED
        BY <3>4, <3>5, <4>1, <4>2, <4>4
    <3>7. j + 1 \in p .. p + n - 1 /\ j < Len(r)
      BY <1>1, <2>0, <2>3, <3>6
    <3>8. r[j + 1].depth = t[j + 1 + 1].depth - 1
      BY <3>3, <3>7
    <3> QED
      BY <3>4, <3>5, <3>7, <3>8
  <2>4. CASE j >= p + n
    <3>0. PICK k : k = j - n + m
      OBVIOUS
    <3>1. j \in p + n .. Len(r) /\ k \in 1 .. Len(t)
      BY <1>1, <2>0, <2>4, <3>0
    <3>5. r[j] = t[k]
      BY <1>5, <3>0, <3>1
    <3>2. k < Len(t) /\ t[k + 1].depth = t[k].depth + 1 /\ r[j] = t[k]
      BY <1>10, <2>1, <3>1, <3>5
    <3>3. j < Len(r) /\ j + 1 \in p + n .. Len(r) /\ (j + 1) - n + m = k + 1
      BY <1>1, <2>0, <2>4, <3>0, <3>2
    <3>6. r[j + 1] = t[(j + 1) - n + m]
      BY <1>5, <3>3
    <3>4. r[j + 1] = t[k + 1]
      BY <3>3, <3>6
    <3> QED
      BY <3>2, <3>3, <3>4
  <2> QED
    BY <1>1, <2>0, <2>2, <2>3, <2>4
<1>11. ChainsHoldClauses(r)
  BY <1>3, <1>10 DEF ChainsHoldClauses
<1> QED
  BY <1>1, <1>9, <1>11 DEF Trees

-----------------------------------------------------------------------------
(* The parts of statements. *)

PartsIn(t) == UNION {PartsOf(t[j]) : j \in 1 .. Len(t)}

LEMMA PartsByStatement ==
  ASSUME NEW q \in Seq(Seq(Nodes))
  PROVE  Parts(q) = UNION {PartsIn(q[k]) : k \in 1 .. Len(q)}
<1>1. DOMAIN q = 1 .. Len(q) /\ \A k \in 1 .. Len(q) : DOMAIN q[k] = 1 .. Len(q[k])
  <2>1. \A k \in 1 .. Len(q) : q[k] \in Seq(Nodes)
    BY ElementOfSeq
  <2> QED
    BY <2>1, LenProperties
<1>2. ASSUME NEW x \in Parts(q) PROVE x \in UNION {PartsIn(q[k]) : k \in 1 .. Len(q)}
  <2>1. PICK c \in Clauses(q) : x \in PartsOf(c)
    BY DEF Parts
  <2>2. PICK k \in 1 .. Len(q) : \E j \in 1 .. Len(q[k]) : c = q[k][j]
    BY <1>1 DEF Clauses
  <2>3. x \in PartsIn(q[k])
    BY <2>1, <2>2 DEF PartsIn
  <2> QED
    BY <2>3
<1>3. ASSUME NEW k \in 1 .. Len(q), NEW x \in PartsIn(q[k]) PROVE x \in Parts(q)
  <2>1. PICK j \in 1 .. Len(q[k]) : x \in PartsOf(q[k][j])
    BY DEF PartsIn
  <2>2. k \in DOMAIN q /\ q[k][j] \in {q[k][h] : h \in DOMAIN q[k]}
    BY <1>1
  <2>3. q[k][j] \in Clauses(q)
    BY <2>2 DEF Clauses
  <2> QED
    BY <2>1, <2>3 DEF Parts
<1> QED
  BY <1>2, <1>3

(* What is in the place of the clause was a part of it. *)
Covered(t, p, r, m, n) ==
  \A j \in p .. p + n - 1 :
    \E i \in p .. p + m - 1 : PartsOf(r[j]) \subseteq PartsOf(t[i])

LEMMA GraftedPlace ==
  ASSUME NEW t \in Trees, NEW p \in 1 .. Len(t), NEW m, NEW n, NEW r,
         Grafted(t, p, r, m, n)
  PROVE  Covered(t, p, r, m, n)
<1> SUFFICES ASSUME NEW j \in p .. p + n - 1
             PROVE  \E i \in p .. p + m - 1 : PartsOf(r[j]) \subseteq PartsOf(t[i])
  BY DEF Covered
<1>1. m \in Nat /\ n \in Nat /\ 1 <= m /\ 1 <= n /\ p \in Nat
  BY GraftedDepths, TreeShape DEF Trees
<1>2. Placed(t, p, r, m, n)
  BY GraftedKeeps
<1>3. CASE n = 1 /\ PartsOf(r[p]) \subseteq PartsOf(t[p])
  <2>1. j = p /\ p \in p .. p + m - 1
    BY <1>1, <1>3
  <2> QED
    BY <1>3, <2>1
<1>4. CASE /\ n + 1 <= m /\ r[j].id = t[j + 1].id
           /\ r[j].kind = t[j + 1].kind /\ r[j].use = t[j + 1].use
  <2>1. j + 1 \in p .. p + m - 1
    BY <1>1, <1>4
  <2>2. PartsOf(r[j]) = PartsOf(t[j + 1])
    BY <1>4, PartsOfAlike
  <2> QED
    BY <2>1, <2>2
<1> QED
  BY <1>2, <1>3, <1>4 DEF Placed

LEMMA GraftedParts ==
  ASSUME NEW t \in Trees, NEW p \in 1 .. Len(t), NEW m, NEW n, NEW r,
         Grafted(t, p, r, m, n)
  PROVE  PartsIn(r) \subseteq PartsIn(t)
<1>0. Covered(t, p, r, m, n)
  BY GraftedPlace
<1>1. /\ r \in Seq(Nodes) /\ m \in Nat /\ n \in Nat /\ 1 <= m /\ 1 <= n
      /\ p + m - 1 <= Len(t) /\ Len(r) = Len(t) - m + n
      /\ Len(t) \in Nat /\ p \in Nat /\ p >= 1 /\ p <= Len(t)
  BY GraftedDepths, TreeShape DEF Trees
<1>2. ASSUME NEW j \in 1 .. Len(r)
      PROVE  \E i \in 1 .. Len(t) : PartsOf(r[j]) \subseteq PartsOf(t[i])
  <2>1. CASE j < p
    <3>1. j \in 1 .. p - 1 /\ j \in 1 .. Len(t)
      BY <1>1, <2>1
    <3>2. r[j] = t[j]
      BY <3>1, GraftedKeeps
    <3> QED
      BY <3>1, <3>2
  <2>2. CASE j >= p + n
    <3>1. j \in p + n .. Len(r)
      BY <1>1, <2>2
    <3>2. r[j] = t[j - n + m] /\ j - n + m \in 1 .. Len(t)
      BY <3>1, GraftedKeeps
    <3> QED
      BY <3>2
  <2>3. CASE j >= p /\ j <= p + n - 1
    <3>1. j \in p .. p + n - 1
      BY <1>1, <2>3
    <3>2. PICK h \in p .. p + m - 1 : PartsOf(r[j]) \subseteq PartsOf(t[h])
      BY <1>0, <3>1 DEF Covered
    <3>3. h \in 1 .. Len(t)
      BY <1>1
    <3> QED
      BY <3>2, <3>3
  <2>4. j < p \/ j >= p + n \/ (j >= p /\ j <= p + n - 1)
    BY <1>1
  <2> QED
    BY <2>1, <2>2, <2>3, <2>4
<1> QED
  BY <1>2 DEF PartsIn

Alike(a, b) == a.id = b.id /\ a.kind = b.kind /\ a.use = b.use

(* The clause at i in r is the one at k in t: it contains the same, and    *)
(* what is before or after it in r is before or after it in t.             *)
Counterpart(t, k, r, i) ==
  \A q : Spans(r, i, q) =>
    /\ Spans(t, k, q)
    /\ \A e \in 0 .. q - 1 :
         Alike(r[i + e], t[k + e]) /\ t[k + e].depth - t[k].depth = r[i + e].depth - r[i].depth
    /\ \A j \in 1 .. i - 1 : \E h \in 1 .. k - 1 : PartsOf(r[j]) \subseteq PartsOf(t[h])
    /\ \A j \in i + q .. Len(r) : \E h \in k + q .. Len(t) : PartsOf(r[j]) \subseteq PartsOf(t[h])

LEMMA SpanIsUnique ==
  ASSUME NEW t \in Seq(Nodes), NEW i \in 1 .. Len(t), NEW m, NEW n,
         Spans(t, i, m), Spans(t, i, n)
  PROVE  m = n
<1>1. Cardinality(Subtree(t, i)) = m
  BY SubtreeIsSpan
<1>2. Cardinality(Subtree(t, i)) = n
  BY SubtreeIsSpan
<1> QED
  BY <1>1, <1>2

(* After the clause: everything is where it was, from the end.             *)
LEMMA CounterpartAfter ==
  ASSUME NEW t \in Trees, NEW p \in 1 .. Len(t), NEW m, NEW n, NEW r,
         Grafted(t, p, r, m, n), NEW i \in p + n .. Len(r)
  PROVE  i - n + m \in p + 1 .. Len(t) /\ Counterpart(t, i - n + m, r, i)
<1>0. Covered(t, p, r, m, n)
  BY GraftedPlace
<1>1. /\ r \in Seq(Nodes) /\ m \in Nat /\ n \in Nat /\ 1 <= m /\ 1 <= n
      /\ p + m - 1 <= Len(t) /\ Len(r) = Len(t) - m + n
      /\ Len(t) \in Nat /\ p \in Nat /\ p >= 1 /\ p <= Len(t)
  BY GraftedDepths, TreeShape DEF Trees
<1>2. /\ i \in Nat /\ i >= p + n /\ i <= Len(r) /\ Len(r) \in Nat
      /\ \A j \in 1 .. Len(r) : r[j].depth \in Nat
  BY <1>1, TreeShape
<1>3. PICK k : k = i - n + m
  OBVIOUS
<1>4. k \in Nat /\ k >= p + m /\ k <= Len(t)
  BY <1>1, <1>2, <1>3
<1>5. ASSUME NEW e \in Int, e >= 0, i + e <= Len(r)
      PROVE  r[i + e] = t[k + e] /\ r[i + e].depth \in Nat
  <2>1. i + e \in p + n .. Len(r) /\ (i + e) - n + m = k + e /\ i + e \in 1 .. Len(r)
    BY <1>1, <1>2, <1>3, <1>5
  <2>2. r[i + e] = t[(i + e) - n + m]
    BY <2>1, GraftedKeeps
  <2> QED
    BY <1>2, <2>1, <2>2
<1>6. ASSUME NEW q, Spans(r, i, q)
      PROVE  /\ Spans(t, k, q)
             /\ \A e \in 0 .. q - 1 : Alike(r[i + e], t[k + e])
                  /\ t[k + e].depth - t[k].depth = r[i + e].depth - r[i].depth
  <2>1. q \in Nat /\ 1 <= q /\ i + q - 1 <= Len(r)
    BY <1>6 DEF Spans
  <2>2. \A e \in 0 .. q - 1 : r[i + e] = t[k + e] /\ r[i + e].depth \in Nat
    BY <1>2, <1>5, <2>1
  <2>3. r[i] = t[k]
    <3>1. 0 \in 0 .. q - 1 /\ i + 0 = i /\ k + 0 = k
      BY <1>2, <1>4, <2>1
    <3> QED
      BY <2>2, <3>1
  <2>4. ASSUME NEW h \in k + 1 .. k + q - 1 PROVE t[h].depth > t[k].depth
    <3>1. h - k \in 0 .. q - 1 /\ k + (h - k) = h /\ i + (h - k) \in i + 1 .. i + q - 1
      BY <1>2, <1>4, <2>1
    <3>2. r[i + (h - k)].depth > r[i].depth
      BY <1>6, <3>1 DEF Spans
    <3> QED
      BY <2>2, <2>3, <3>1, <3>2
  <2>5. k + q <= Len(t) => t[k + q].depth <= t[k].depth
    <3> SUFFICES ASSUME k + q <= Len(t) PROVE t[k + q].depth <= t[k].depth
      OBVIOUS
    <3>1. i + q <= Len(r) /\ q \in Int /\ q >= 0
      BY <1>1, <1>2, <1>3, <2>1
    <3>2. r[i + q] = t[k + q]
      BY <1>5, <3>1
    <3>3. r[i + q].depth <= r[i].depth
      BY <1>6, <3>1 DEF Spans
    <3> QED
      BY <2>3, <3>2, <3>3
  <2>6. k + q - 1 <= Len(t)
    BY <1>1, <1>2, <1>3, <2>1
  <2> QED
    BY <2>1, <2>2, <2>3, <2>4, <2>5, <2>6 DEF Spans, Alike
<1>7. ASSUME NEW j \in 1 .. i - 1
      PROVE  \E h \in 1 .. k - 1 : PartsOf(r[j]) \subseteq PartsOf(t[h])
  <2>1. CASE j < p
    <3>1. j \in 1 .. p - 1 /\ j \in 1 .. k - 1
      BY <1>1, <1>4, <2>1
    <3>2. r[j] = t[j]
      BY <3>1, GraftedKeeps
    <3> QED
      BY <3>1, <3>2
  <2>2. CASE j >= p + n
    <3>1. PICK h : h = j - n + m
      OBVIOUS
    <3>2. j \in p + n .. Len(r) /\ h \in 1 .. k - 1
      BY <1>1, <1>2, <1>3, <2>2, <3>1
    <3>3. r[j] = t[h]
      BY <3>1, <3>2, GraftedKeeps
    <3> QED
      BY <3>2, <3>3
  <2>3. CASE j >= p /\ j <= p + n - 1
    <3>1. j \in p .. p + n - 1
      BY <1>1, <2>3
    <3>2. PICK h \in p .. p + m - 1 : PartsOf(r[j]) \subseteq PartsOf(t[h])
      BY <1>0, <3>1 DEF Covered
    <3>3. h \in 1 .. k - 1
      BY <1>1, <1>4
    <3> QED
      BY <3>2, <3>3
  <2>4. j < p \/ j >= p + n \/ (j >= p /\ j <= p + n - 1)
    BY <1>1
  <2> QED
    BY <2>1, <2>2, <2>3, <2>4
<1>8. ASSUME NEW q, Spans(r, i, q), NEW j \in i + q .. Len(r)
      PROVE  \E h \in k + q .. Len(t) : PartsOf(r[j]) \subseteq PartsOf(t[h])
  <2>1. q \in Nat /\ 1 <= q
    BY <1>8 DEF Spans
  <2>2. PICK h : h = j - n + m
    OBVIOUS
  <2>3. j \in p + n .. Len(r) /\ h \in k + q .. Len(t)
    BY <1>1, <1>2, <1>3, <2>1, <2>2
  <2>4. r[j] = t[h]
    BY <2>2, <2>3, GraftedKeeps
  <2> QED
    BY <2>3, <2>4
<1>9. Counterpart(t, k, r, i)
  BY <1>6, <1>7, <1>8 DEF Counterpart
<1>10. k \in p + 1 .. Len(t)
  BY <1>1, <1>4
<1> QED
  BY <1>3, <1>9, <1>10

(* Inside of a lifted subclause: everything is one position further.       *)
LEMMA CounterpartInside ==
  ASSUME NEW t \in Trees, NEW p \in 1 .. Len(t), NEW m, NEW n, NEW r,
         Grafted(t, p, r, m, n), t[p].kind = "chain", NEW i \in p .. p + n - 1
  PROVE  i + 1 \in p + 1 .. Len(t) /\ Counterpart(t, i + 1, r, i)
<1>1. /\ r \in Seq(Nodes) /\ m \in Nat /\ n \in Nat /\ 1 <= m /\ 1 <= n
      /\ p + m - 1 <= Len(t) /\ Len(r) = Len(t) - m + n
      /\ Len(t) \in Nat /\ p \in Nat /\ p >= 1 /\ p <= Len(t)
  BY GraftedDepths, TreeShape DEF Trees
<1>2. /\ n + 1 <= m /\ Spans(t, p + 1, n) /\ t[p + 1].depth = t[p].depth + 1
      /\ \A j \in p .. p + n - 1 :
           /\ j + 1 \in 1 .. Len(t)
           /\ r[j].id = t[j + 1].id /\ r[j].kind = t[j + 1].kind
           /\ r[j].use = t[j + 1].use
           /\ t[j + 1].depth \in Nat /\ r[j].depth = t[j + 1].depth - 1
  <2>1. Placed(t, p, r, m, n)
    BY GraftedKeeps
  <2> QED
    BY <2>1 DEF Placed
<1>3. n + 1 <= m /\ i \in Nat /\ i >= p /\ i <= p + n - 1 /\ i <= Len(r)
  BY <1>1, <1>2
<1>4. /\ \A j \in 1 .. Len(t) : t[j].depth \in Nat
      /\ \A j \in 1 .. Len(r) : r[j].depth \in Nat
  BY <1>1, TreeShape DEF Trees
<1>5. /\ t[i + 1].depth \in Nat /\ r[i].depth = t[i + 1].depth - 1
      /\ t[i + 1].depth >= t[p + 1].depth /\ t[p + 1].depth \in Nat
      /\ r[i].depth \in Nat
  <2>1. t[i + 1].depth \in Nat /\ r[i].depth = t[i + 1].depth - 1
    BY <1>2
  <2>2. p + 1 \in 1 .. Len(t) /\ i \in 1 .. Len(r)
    BY <1>1, <1>3
  <2>3. CASE i = p
    BY <1>4, <2>1, <2>2, <2>3
  <2>4. CASE i # p
    <3>1. i + 1 \in p + 1 + 1 .. p + 1 + n - 1
      BY <1>1, <1>3, <2>4
    <3>2. t[i + 1].depth > t[p + 1].depth
      BY <1>2, <3>1 DEF Spans
    <3> QED
      BY <1>4, <2>1, <2>2, <3>2
  <2> QED
    BY <2>3, <2>4
(* What the clause contains is lifted with it. *)
<1>6. ASSUME NEW q, Spans(r, i, q)
      PROVE  q \in Nat /\ 1 <= q /\ i + q - 1 <= p + n - 1
  <2>1. q \in Nat /\ 1 <= q /\ i + q - 1 <= Len(r)
    BY <1>6 DEF Spans
  <2> SUFFICES ASSUME i + q - 1 > p + n - 1 PROVE FALSE
    BY <1>1, <1>3, <2>1
  <2>2. p + n \in i + 1 .. i + q - 1 /\ p + n \in p + n .. Len(r) /\ (p + n) - n + m = p + m
        /\ p + m <= Len(t) /\ p + m \in 1 .. Len(t) /\ p \in p .. p + n - 1
    BY <1>1, <1>3, <2>1
  <2>3. r[p + n].depth > r[i].depth
    BY <1>6, <2>2 DEF Spans
  <2>4. r[p + n] = t[p + m]
    <3>1. r[p + n] = t[(p + n) - n + m]
      BY <2>2, GraftedKeeps
    <3> QED
      BY <2>2, <3>1
  <2>5. t[p + m].depth <= t[p].depth
    BY <2>2, GraftedDepths
  <2>6. t[p + m].depth \in Nat /\ t[p].depth \in Nat
    BY <1>4, <2>2
  <2>7. t[p + 1].depth = t[p].depth + 1
    BY <1>2
  <2>8. PICK a, b, c, d, e : /\ a = t[i + 1].depth /\ b = t[p + 1].depth /\ c = t[p].depth
                             /\ d = t[p + m].depth /\ e = r[i].depth
    OBVIOUS
  <2>9. /\ a \in Nat /\ b \in Nat /\ c \in Nat /\ d \in Nat
        /\ e = a - 1 /\ a >= b /\ b = c + 1 /\ d <= c /\ d > e
    BY <1>5, <2>3, <2>4, <2>5, <2>6, <2>7, <2>8
  <2> QED
    BY <2>9
<1>7. ASSUME NEW q, Spans(r, i, q)
      PROVE  /\ Spans(t, i + 1, q)
             /\ \A e \in 0 .. q - 1 : Alike(r[i + e], t[i + 1 + e])
                  /\ t[i + 1 + e].depth - t[i + 1].depth = r[i + e].depth - r[i].depth
  <2>1. q \in Nat /\ 1 <= q /\ i + q - 1 <= p + n - 1
    BY <1>6, <1>7
  <2>2. ASSUME NEW e \in 0 .. q - 1
        PROVE  /\ Alike(r[i + e], t[i + 1 + e])
               /\ t[i + 1 + e].depth \in Nat
               /\ r[i + e].depth = t[i + 1 + e].depth - 1
    <3>1. i + e \in p .. p + n - 1 /\ (i + e) + 1 = i + 1 + e
      BY <1>1, <1>3, <2>1
    <3> QED
      BY <1>2, <3>1 DEF Alike
  <2>3. ASSUME NEW e \in 0 .. q - 1
        PROVE  t[i + 1 + e].depth - t[i + 1].depth = r[i + e].depth - r[i].depth
    <3>1. PICK a, b : a = t[i + 1 + e].depth /\ b = t[i + 1].depth
      OBVIOUS
    <3>2. /\ a \in Nat /\ b \in Nat
          /\ r[i + e].depth = a - 1 /\ r[i].depth = b - 1
      BY <1>5, <2>2, <3>1
    <3>3. a - b = (a - 1) - (b - 1)
      BY <3>2
    <3> QED
      BY <3>1, <3>2, <3>3
  <2>4. ASSUME NEW h \in i + 1 + 1 .. i + 1 + q - 1 PROVE t[h].depth > t[i + 1].depth
    <3>1. PICK e : e = h - (i + 1)
      OBVIOUS
    <3>0. i \in Nat /\ q \in Nat /\ 1 <= q
      BY <1>3, <2>1
    <3>2. e \in 0 .. q - 1 /\ i + 1 + e = h /\ i + e \in i + 1 .. i + q - 1
      BY <3>0, <3>1
    <3>3. r[i + e].depth > r[i].depth
      BY <1>7, <3>2 DEF Spans
    <3>4. PICK a, b : a = t[h].depth /\ b = t[i + 1].depth
      OBVIOUS
    <3>5. a \in Nat /\ b \in Nat /\ r[i + e].depth = a - 1 /\ r[i].depth = b - 1
      BY <1>5, <2>2, <3>2, <3>4
    <3>6. a - 1 > b - 1
      BY <3>3, <3>5
    <3> QED
      BY <3>4, <3>5, <3>6
  <2>5. i + 1 + q <= Len(t) => t[i + 1 + q].depth <= t[i + 1].depth
    <3> SUFFICES ASSUME i + 1 + q <= Len(t) PROVE t[i + 1 + q].depth <= t[i + 1].depth
      OBVIOUS
    <3>1. CASE i + q <= p + n - 1
      <4>1. i + q \in p .. p + n - 1 /\ (i + q) + 1 = i + 1 + q /\ i + q <= Len(r)
        BY <1>1, <1>3, <2>1, <3>1
      <4>2. r[i + q].depth <= r[i].depth
        BY <1>7, <4>1 DEF Spans
      <4>3. r[i + q].depth = t[i + 1 + q].depth - 1 /\ t[i + 1 + q].depth \in Nat
        BY <1>2, <4>1
      <4>4. PICK x, y : x = t[i + 1 + q].depth /\ y = t[i + 1].depth
        OBVIOUS
      <4>5. x \in Nat /\ y \in Nat /\ x - 1 <= y - 1
        BY <1>5, <4>2, <4>3, <4>4
      <4>6. x <= y
        BY <4>5
      <4> QED
        BY <4>4, <4>6
    <3>2. CASE i + q = p + n
      <4>1. i + 1 + q = p + 1 + n /\ p + 1 + n <= Len(t)
        BY <1>1, <1>3, <2>1, <3>2
      <4>2. t[p + 1 + n].depth <= t[p + 1].depth
        BY <1>2, <4>1 DEF Spans
      <4>3. t[i + 1 + q].depth \in Nat
        <5>1. i + 1 + q \in 1 .. Len(t)
          BY <1>3, <2>1, <1>1
        <5> QED
          BY <1>4, <5>1
      <4> QED
        BY <1>5, <4>1, <4>2, <4>3
    <3>3. i + q <= p + n - 1 \/ i + q = p + n
      <4>1. PICK a : a = i + q
        OBVIOUS
      <4>2. a \in Int /\ a - 1 <= p + n - 1 /\ p \in Nat /\ n \in Nat
        BY <1>1, <1>3, <2>1, <4>1
      <4>3. a <= p + n - 1 \/ a = p + n
        BY <4>2
      <4> QED
        BY <4>1, <4>3
    <3> QED
      BY <3>1, <3>2, <3>3
  <2>6. i + 1 + q - 1 <= Len(t)
    BY <1>1, <1>3, <2>1
  <2> QED
    BY <2>1, <2>2, <2>3, <2>4, <2>5, <2>6 DEF Spans
<1>8. ASSUME NEW j \in 1 .. i - 1
      PROVE  \E h \in 1 .. (i + 1) - 1 : PartsOf(r[j]) \subseteq PartsOf(t[h])
  <2>1. CASE j < p
    <3>1. j \in 1 .. p - 1 /\ j \in 1 .. (i + 1) - 1
      BY <1>1, <1>3, <2>1
    <3>2. r[j] = t[j]
      BY <3>1, GraftedKeeps
    <3> QED
      BY <3>1, <3>2
  <2>2. CASE j >= p
    <3>1. j \in p .. p + n - 1 /\ j + 1 \in 1 .. (i + 1) - 1
      BY <1>1, <1>3, <2>2
    <3>2. r[j].id = t[j + 1].id /\ r[j].kind = t[j + 1].kind /\ r[j].use = t[j + 1].use
      BY <1>2, <3>1
    <3>3. PartsOf(r[j]) = PartsOf(t[j + 1])
      BY <3>2, PartsOfAlike
    <3> QED
      BY <3>1, <3>3
  <2> QED
    BY <1>1, <2>1, <2>2
<1>9. ASSUME NEW q, Spans(r, i, q), NEW j \in i + q .. Len(r)
      PROVE  \E h \in i + 1 + q .. Len(t) : PartsOf(r[j]) \subseteq PartsOf(t[h])
  <2>1. q \in Nat /\ 1 <= q /\ i + q - 1 <= p + n - 1
    BY <1>6, <1>9
  <2>2. CASE j <= p + n - 1
    <3>1. j \in p .. p + n - 1 /\ j + 1 \in i + 1 + q .. Len(t)
      BY <1>1, <1>3, <2>1, <2>2
    <3>2. r[j].id = t[j + 1].id /\ r[j].kind = t[j + 1].kind /\ r[j].use = t[j + 1].use
      BY <1>2, <3>1
    <3>3. PartsOf(r[j]) = PartsOf(t[j + 1])
      BY <3>2, PartsOfAlike
    <3> QED
      BY <3>1, <3>3
  <2>3. CASE j >= p + n
    <3>1. PICK h : h = j - n + m
      OBVIOUS
    <3>2. j \in p + n .. Len(r) /\ h \in i + 1 + q .. Len(t)
      BY <1>1, <1>3, <2>1, <2>3, <3>1
    <3>3. r[j] = t[h]
      BY <3>1, <3>2, GraftedKeeps
    <3> QED
      BY <3>2, <3>3
  <2> QED
    BY <1>1, <1>3, <2>1, <2>2, <2>3
<1>10. PICK k : k = i + 1
  OBVIOUS
<1>11. Counterpart(t, k, r, i)
  BY <1>7, <1>8, <1>9, <1>10 DEF Counterpart
<1>12. k \in p + 1 .. Len(t)
  BY <1>1, <1>3, <1>10
<1> QED
  BY <1>10, <1>11, <1>12

(* What can still be reduced in the place of p, or after it, was already   *)
(* there, after p.                                                         *)
LEMMA CounterpartExists ==
  ASSUME NEW t \in Trees, NEW p \in 1 .. Len(t), NEW m, NEW n, NEW r,
         Grafted(t, p, r, m, n), NEW i \in 1 .. Len(r), i >= p,
         r[i].kind \notin {"literal", "empty"}
  PROVE  \E k \in p + 1 .. Len(t) : Counterpart(t, k, r, i)
<1>1. /\ m \in Nat /\ n \in Nat /\ 1 <= m /\ 1 <= n /\ Len(r) \in Nat /\ p \in Nat
      /\ i \in Nat
  BY GraftedDepths, TreeShape DEF Trees
<1>2. CASE i >= p + n
  <2>1. i \in p + n .. Len(r)
    BY <1>1, <1>2
  <2>2. i - n + m \in p + 1 .. Len(t) /\ Counterpart(t, i - n + m, r, i)
    BY <2>1, CounterpartAfter
  <2> QED
    BY <2>2
<1>3. CASE i <= p + n - 1
  <2>1. i \in p .. p + n - 1
    BY <1>1, <1>3
  <2>2. t[p].kind = "chain"
    <3>1. Placed(t, p, r, m, n)
      BY GraftedKeeps
    <3> SUFFICES ASSUME n = 1, r[p].kind \in {"literal", "empty"} PROVE FALSE
      BY <3>1 DEF Placed
    <3>2. i = p
      BY <1>1, <2>1
    <3> QED
      BY <3>2
  <2>3. i + 1 \in p + 1 .. Len(t) /\ Counterpart(t, i + 1, r, i)
    BY <2>1, <2>2, CounterpartInside
  <2> QED
    BY <2>3
<1> QED
  BY <1>1, <1>2, <1>3

(* The first subclauses of counterparts contain the same.                  *)
LEMMA CounterpartOfSubclause ==
  ASSUME NEW t \in Seq(Nodes), NEW r \in Seq(Nodes), NEW i \in 1 .. Len(r), NEW k \in 1 .. Len(t),
         NEW m, Spans(r, i, m), Counterpart(t, k, r, i),
         NEW n, Spans(r, i + 1, n), n + 1 <= m, r[i + 1].depth = r[i].depth + 1
  PROVE  Spans(t, k + 1, n)
<1>0. Len(r) \in Nat /\ Len(t) \in Nat
  BY TreeShape
<1>1. /\ m \in Nat /\ n \in Nat /\ 1 <= n /\ i + m - 1 <= Len(r) /\ i \in Nat /\ k \in Nat
      /\ Len(r) \in Nat /\ Len(t) \in Nat
  <2>1. m \in Nat /\ i + m - 1 <= Len(r)
    BY DEF Spans
  <2>2. n \in Nat /\ 1 <= n
    BY DEF Spans
  <2>3. i \in Nat /\ k \in Nat
    BY <1>0
  <2> QED
    BY <1>0, <2>1, <2>2, <2>3
<1>2. /\ Spans(t, k, m)
      /\ \A e \in 0 .. m - 1 : t[k + e].depth - t[k].depth = r[i + e].depth - r[i].depth
  BY DEF Counterpart
<1>3. k + m - 1 <= Len(t) /\ (k + m <= Len(t) => t[k + m].depth <= t[k].depth)
  BY <1>2 DEF Spans
<1>4. ASSUME NEW e \in 0 .. m - 1
      PROVE  /\ t[k + e].depth \in Nat /\ t[k].depth \in Nat
             /\ r[i + e].depth \in Nat /\ r[i].depth \in Nat
  <2>1. k + e \in 1 .. Len(t) /\ i + e \in 1 .. Len(r)
    BY <1>1, <1>3
  <2> QED
    BY <2>1, TreeShape
<1>5. ASSUME NEW e \in 0 .. m - 1
      PROVE  t[k + e].depth - r[i + e].depth = t[k].depth - r[i].depth
  <2>1. PICK a, b, c, d : /\ a = t[k + e].depth /\ b = t[k].depth
                          /\ c = r[i + e].depth /\ d = r[i].depth
    OBVIOUS
  <2>2. a \in Nat /\ b \in Nat /\ c \in Nat /\ d \in Nat /\ a - b = c - d
    BY <1>2, <1>4, <2>1
  <2>3. a - c = b - d
    BY <2>2
  <2> QED
    BY <2>1, <2>3
<1>6. PICK s : s = t[k].depth - r[i].depth
  OBVIOUS
<1>7. 0 \in 0 .. m - 1 /\ 1 \in 0 .. m - 1 /\ i + 0 = i /\ k + 0 = k
  BY <1>1
<1>8. s \in Int
  BY <1>4, <1>6, <1>7
<1>9. \A e \in 0 .. m - 1 : t[k + e].depth = r[i + e].depth + s
  <2> SUFFICES ASSUME NEW e \in 0 .. m - 1 PROVE t[k + e].depth = r[i + e].depth + s
    OBVIOUS
  <2>1. PICK a, c : a = t[k + e].depth /\ c = r[i + e].depth
    OBVIOUS
  <2>2. a \in Nat /\ c \in Nat /\ a - c = s
    BY <1>4, <1>5, <1>6, <2>1
  <2>3. a = c + s
    BY <1>8, <2>2
  <2> QED
    BY <2>1, <2>3
<1>10. ASSUME NEW h \in k + 1 + 1 .. k + 1 + n - 1 PROVE t[h].depth > t[k + 1].depth
  <2>1. PICK e : e = h - k
    OBVIOUS
  <2>2. e \in 0 .. m - 1 /\ k + e = h /\ i + e \in i + 1 + 1 .. i + 1 + n - 1
    BY <1>1, <2>1
  <2>3. r[i + e].depth > r[i + 1].depth
    BY <2>2 DEF Spans
  <2>4. t[h].depth = r[i + e].depth + s /\ t[k + 1].depth = r[i + 1].depth + s
    BY <1>7, <1>9, <2>2
  <2>5. r[i + e].depth \in Nat /\ r[i + 1].depth \in Nat
    BY <1>4, <1>7, <2>2
  <2>6. PICK a, b : a = r[i + e].depth /\ b = r[i + 1].depth
    OBVIOUS
  <2>7. a + s > b + s
    BY <1>8, <2>3, <2>5, <2>6
  <2> QED
    BY <2>4, <2>6, <2>7
<1>11. k + 1 + n <= Len(t) => t[k + 1 + n].depth <= t[k + 1].depth
  <2> SUFFICES ASSUME k + 1 + n <= Len(t) PROVE t[k + 1 + n].depth <= t[k + 1].depth
    OBVIOUS
  <2>1. CASE n + 1 < m
    <3>1. PICK e : e = n + 1
      OBVIOUS
    <3>2. e \in 0 .. m - 1 /\ k + e = k + 1 + n /\ i + e = i + 1 + n /\ i + 1 + n <= Len(r)
      BY <1>1, <2>1, <3>1
    <3>3. r[i + e].depth <= r[i + 1].depth
      BY <3>2 DEF Spans
    <3>4. t[k + e].depth = r[i + e].depth + s /\ t[k + 1].depth = r[i + 1].depth + s
      BY <1>7, <1>9, <3>2
    <3>5. r[i + e].depth \in Nat /\ r[i + 1].depth \in Nat
      BY <1>4, <1>7, <3>2
    <3>6. t[k + e].depth <= t[k + 1].depth
      BY <1>8, <3>3, <3>4, <3>5
    <3> QED
      BY <3>2, <3>6
  <2>2. CASE n + 1 = m
    <3>1. k + 1 + n = k + m
      BY <1>1, <2>2
    <3>2. t[k + m].depth <= t[k].depth
      BY <1>3, <3>1
    <3>3. t[k].depth = r[i].depth + s /\ t[k + 1].depth = r[i + 1].depth + s
      BY <1>7, <1>9
    <3>4. r[i].depth \in Nat /\ r[i + 1].depth = r[i].depth + 1
      BY <1>4, <1>7
    <3>5. t[k].depth <= t[k + 1].depth
      BY <1>8, <3>3, <3>4
    <3>6. k + m \in 1 .. Len(t)
      BY <1>1, <3>1
    <3>7. t[k + m].depth \in Nat /\ t[k].depth \in Nat /\ t[k + 1].depth \in Nat
      BY <1>4, <1>7, <3>6, TreeShape
    <3> QED
      BY <3>1, <3>2, <3>5, <3>7
  <2> QED
    BY <1>1, <2>1, <2>2
<1>12. k + 1 + n - 1 <= Len(t)
  BY <1>1, <1>3
<1> QED
  BY <1>1, <1>10, <1>11, <1>12 DEF Spans

LEMMA CounterpartReduces ==
  ASSUME NEW t \in Trees, NEW r \in Trees, NEW i \in 1 .. Len(r), NEW k \in 1 .. Len(t),
         Counterpart(t, k, r, i)
  PROVE  /\ r[i].kind = t[k].kind
         /\ PartsIn(Reduced(r, i)) \subseteq PartsIn(Reduced(t, k))
<1>1. PICK r1 : r1 = Reduced(r, i)
  OBVIOUS
<1>2. PICK t1 : t1 = Reduced(t, k)
  OBVIOUS
<1>3. PICK m, n : Grafted(r, i, r1, m, n)
  BY <1>1, ReducedIsGrafted
<1>4. PICK m2, n2 : Grafted(t, k, t1, m2, n2)
  BY <1>2, ReducedIsGrafted
<1>5. /\ t \in Seq(Nodes) /\ r \in Seq(Nodes) /\ Len(t) \in Nat /\ Len(r) \in Nat
      /\ i \in Nat /\ k \in Nat /\ i >= 1 /\ k >= 1
  BY TreeShape DEF Trees
<1>6. /\ m \in Nat /\ n \in Nat /\ 1 <= m /\ 1 <= n /\ i + m - 1 <= Len(r)
      /\ Len(r1) = Len(r) - m + n /\ Spans(r, i, m)
  BY <1>3, GraftedDepths DEF Grafted
<1>7. m2 \in Nat /\ n2 \in Nat /\ k + m2 - 1 <= Len(t) /\ Len(t1) = Len(t) - m2 + n2
      /\ Spans(t, k, m2) /\ 1 <= n2
  BY <1>4, GraftedDepths DEF Grafted
<1>8. /\ Spans(t, k, m)
      /\ \A e \in 0 .. m - 1 : Alike(r[i + e], t[k + e])
      /\ \A j \in 1 .. i - 1 : \E h \in 1 .. k - 1 : PartsOf(r[j]) \subseteq PartsOf(t[h])
      /\ \A j \in i + m .. Len(r) : \E h \in k + m .. Len(t) : PartsOf(r[j]) \subseteq PartsOf(t[h])
  BY <1>6 DEF Counterpart
<1>9. m2 = m
  BY <1>5, <1>7, <1>8, SpanIsUnique
<1>10. Alike(r[i], t[k])
  <2>1. 0 \in 0 .. m - 1 /\ i + 0 = i /\ k + 0 = k
    BY <1>5, <1>6
  <2> QED
    BY <1>8, <2>1
(* What is in the place of the two is the same. *)
<1>11. n2 = n /\ \A j \in i .. i + n - 1 : PartsOf(r1[j]) = PartsOf(t1[k + (j - i)])
  <2>1. CASE r[i].kind = "chain"
    <3>1. /\ n + 1 <= m /\ Spans(r, i + 1, n) /\ r[i + 1].depth = r[i].depth + 1
          /\ \A j \in i .. i + n - 1 :
               /\ r1[j].id = r[j + 1].id /\ r1[j].kind = r[j + 1].kind
               /\ r1[j].use = r[j + 1].use
      <4>1. Placed(r, i, r1, m, n)
        BY <1>3, GraftedKeeps
      <4> QED
        BY <2>1, <4>1 DEF Placed
    <3>2. /\ n2 + 1 <= m2 /\ Spans(t, k + 1, n2)
          /\ \A j \in k .. k + n2 - 1 :
               /\ t1[j].id = t[j + 1].id /\ t1[j].kind = t[j + 1].kind
               /\ t1[j].use = t[j + 1].use
      <4>1. Placed(t, k, t1, m2, n2)
        BY <1>4, GraftedKeeps
      <4> QED
        BY <1>10, <2>1, <4>1 DEF Placed, Alike
    <3>3. Spans(t, k + 1, n)
      BY <1>5, <1>6, <3>1, CounterpartOfSubclause
    <3>4. k + 1 \in 1 .. Len(t)
      BY <1>5, <1>7, <3>2
    <3>5. n2 = n
      BY <1>5, <3>2, <3>3, <3>4, SpanIsUnique
    <3>6. ASSUME NEW j \in i .. i + n - 1 PROVE PartsOf(r1[j]) = PartsOf(t1[k + (j - i)])
      <4>1. PICK e : e = j - i
        OBVIOUS
      <4>2. e + 1 \in 0 .. m - 1 /\ i + (e + 1) = j + 1 /\ k + e \in k .. k + n2 - 1
            /\ (k + e) + 1 = k + (e + 1)
        BY <1>5, <1>6, <3>1, <3>5, <4>1
      <4>3. Alike(r[j + 1], t[(k + e) + 1])
        BY <1>8, <4>2
      <4>4. Alike(r1[j], r[j + 1]) /\ Alike(t1[k + e], t[(k + e) + 1])
        BY <3>1, <3>2, <4>2 DEF Alike
      <4>5. Alike(r1[j], t1[k + e])
        BY <4>3, <4>4 DEF Alike
      <4> QED
        BY <4>1, <4>5, PartsOfAlike DEF Alike
    <3> QED
      BY <3>5, <3>6
  <2>2. CASE r[i].kind # "chain"
    <3>1. /\ n = 1 /\ r1[i].id = r[i].id /\ r1[i].use = r[i].use
          /\ r1[i].kind = IF r[i].kind = "expression" THEN "literal" ELSE "empty"
      BY <1>3, <2>2 DEF Grafted
    <3>2. /\ n2 = 1 /\ t1[k].id = t[k].id /\ t1[k].use = t[k].use
          /\ t1[k].kind = IF t[k].kind = "expression" THEN "literal" ELSE "empty"
      BY <1>4, <1>10, <2>2 DEF Grafted, Alike
    <3>3. PartsOf(r1[i]) = PartsOf(t1[k])
      <4>1. r1[i].id = t1[k].id /\ r1[i].kind = t1[k].kind /\ r1[i].use = t1[k].use
        BY <1>10, <3>1, <3>2 DEF Alike
      <4> QED
        BY <4>1, PartsOfAlike
    <3>4. \A j \in i .. i + n - 1 : j = i /\ k + (j - i) = k
      BY <1>5, <3>1
    <3> QED
      BY <3>1, <3>2, <3>3, <3>4
  <2> QED
    BY <2>1, <2>2
<1>12. ASSUME NEW j \in 1 .. Len(r1)
       PROVE  \E h \in 1 .. Len(t1) : PartsOf(r1[j]) \subseteq PartsOf(t1[h])
  <2>1. CASE j < i
    <3>1. j \in 1 .. i - 1
      BY <1>5, <2>1
    <3>2. r1[j] = r[j]
      BY <1>3, <3>1 DEF Grafted
    <3>3. PICK h \in 1 .. k - 1 : PartsOf(r[j]) \subseteq PartsOf(t[h])
      BY <1>8, <3>1
    <3>4. t1[h] = t[h]
      BY <1>4 DEF Grafted
    <3>5. h \in 1 .. Len(t1)
      BY <1>5, <1>7
    <3> QED
      BY <3>2, <3>3, <3>4, <3>5
  <2>2. CASE j >= i + n
    <3>1. PICK g : g = j - n + m
      OBVIOUS
    <3>2. j \in i + n .. Len(r1) /\ g \in i + m .. Len(r)
      BY <1>5, <1>6, <2>2, <3>1
    <3>3. r1[j] = r[g]
      BY <1>3, <3>1, <3>2 DEF Grafted
    <3>4. PICK h \in k + m .. Len(t) : PartsOf(r[g]) \subseteq PartsOf(t[h])
      BY <1>8, <3>2
    <3>5. PICK f : f = h - m2 + n2
      OBVIOUS
    <3>6. f \in k + n2 .. Len(t1) /\ f - n2 + m2 = h /\ f \in 1 .. Len(t1)
      BY <1>5, <1>7, <1>9, <3>5
    <3>7. t1[f] = t[f - n2 + m2]
      BY <1>4, <3>6 DEF Grafted
    <3> QED
      BY <3>3, <3>4, <3>6, <3>7
  <2>3. CASE j >= i /\ j <= i + n - 1
    <3>1. j \in i .. i + n - 1 /\ k + (j - i) \in 1 .. Len(t1)
      BY <1>5, <1>6, <1>7, <1>11, <2>3
    <3> QED
      BY <1>11, <3>1
  <2>4. j < i \/ j >= i + n \/ (j >= i /\ j <= i + n - 1)
    BY <1>5, <1>6
  <2> QED
    BY <2>1, <2>2, <2>3, <2>4
<1>13. PartsIn(r1) \subseteq PartsIn(t1)
  BY <1>12 DEF PartsIn
<1> QED
  BY <1>1, <1>2, <1>10, <1>13 DEF Alike

(***************************************************************************)
(* Reducing a clause leaves fewer parts, also of what is reduced later:    *)
(* what could not be left out after a position still cannot.               *)
(***************************************************************************)
LEMMA ReducedIsMonotone ==
  ASSUME NEW t \in Trees, NEW p \in 1 .. Len(t), NEW r, r = Reduced(t, p)
  PROVE  /\ r \in Trees
         /\ PartsIn(r) \subseteq PartsIn(t)
         /\ \A i \in 1 .. Len(r) : i >= p /\ r[i].kind \notin {"literal", "empty"} =>
              \E k \in p + 1 .. Len(t) :
                r[i].kind = t[k].kind /\ PartsIn(Reduced(r, i)) \subseteq PartsIn(Reduced(t, k))
<1>1. PICK m, n : Grafted(t, p, r, m, n)
  BY ReducedIsGrafted
<1>2. r \in Trees /\ PartsIn(r) \subseteq PartsIn(t)
  BY <1>1, GraftedIsTree, GraftedParts
<1>3. ASSUME NEW i \in 1 .. Len(r), i >= p, r[i].kind \notin {"literal", "empty"}
      PROVE  \E k \in p + 1 .. Len(t) :
               r[i].kind = t[k].kind /\ PartsIn(Reduced(r, i)) \subseteq PartsIn(Reduced(t, k))
  <2>1. PICK k \in p + 1 .. Len(t) : Counterpart(t, k, r, i)
    BY <1>1, <1>3, CounterpartExists
  <2>2. k \in 1 .. Len(t)
    <3>1. p \in Nat /\ Len(t) \in Nat
      BY TreeShape DEF Trees
    <3> QED
      BY <3>1
  <2>3. r[i].kind = t[k].kind /\ PartsIn(Reduced(r, i)) \subseteq PartsIn(Reduced(t, k))
    BY <1>2, <2>1, <2>2, CounterpartReduces
  <2> QED
    BY <2>3
<1> QED
  BY <1>2, <1>3

-----------------------------------------------------------------------------
(* The statements of a query. *)

Shows(q, cause) == cause \subseteq Parts(q)

Queries == {q \in Seq(Trees) : 1 <= Len(q) /\ Len(q) <= Len(Shapes)}

LEMMA TreesAreSeqs ==
  ASSUME NEW q \in Seq(Trees)
  PROVE  /\ q \in Seq(Seq(Nodes)) /\ Len(q) \in Nat /\ DOMAIN q = 1 .. Len(q)
         /\ \A k \in 1 .. Len(q) : /\ q[k] \in Trees /\ q[k] \in Seq(Nodes)
                                   /\ DOMAIN q[k] = 1 .. Len(q[k]) /\ Len(q[k]) \in Nat
<1>1. Trees \subseteq Seq(Nodes)
  BY DEF Trees
<1>2. q \in Seq(Seq(Nodes)) /\ Len(q) \in Nat /\ DOMAIN q = 1 .. Len(q)
  BY <1>1, SeqMonotonic, LenProperties
<1>3. \A k \in 1 .. Len(q) : q[k] \in Trees
  BY ElementOfSeq
<1>4. \A k \in 1 .. Len(q) : DOMAIN q[k] = 1 .. Len(q[k]) /\ Len(q[k]) \in Nat
  BY <1>1, <1>3, LenProperties
<1> QED
  BY <1>1, <1>2, <1>3, <1>4

(* s contains what q contains. *)
LEMMA FewerParts ==
  ASSUME NEW cause, NEW q \in Seq(Trees), NEW s \in Seq(Trees), Shows(q, cause),
         \A k \in 1 .. Len(q) : \E h \in 1 .. Len(s) : PartsIn(q[k]) \subseteq PartsIn(s[h])
  PROVE  Shows(s, cause)
<1>1. /\ Parts(q) = UNION {PartsIn(q[k]) : k \in 1 .. Len(q)}
      /\ Parts(s) = UNION {PartsIn(s[k]) : k \in 1 .. Len(s)}
  BY TreesAreSeqs, PartsByStatement
<1>2. Parts(q) \subseteq Parts(s)
  BY <1>1
<1> QED
  BY <1>2 DEF Shows

(* s is q with t in the place of its statement k. *)
Replaced(q, k, t, s) ==
  /\ s \in Queries /\ Len(s) = Len(q)
  /\ \A h \in 1 .. Len(q) : s[h] = IF h = k THEN t ELSE q[h]

LEMMA StatementReplaced ==
  ASSUME NEW q \in Queries, NEW k \in 1 .. Len(q), NEW t \in Trees
  PROVE  Replaced(q, k, t, [q EXCEPT ![k] = t])
<1>1. PICK s : s = [q EXCEPT ![k] = t]
  OBVIOUS
<1>2. q \in Seq(Trees)
  BY DEF Queries
<1>3. /\ s \in Seq(Trees) /\ Len(s) = Len(q)
      /\ \A h \in 1 .. Len(q) : s[h] = IF h = k THEN t ELSE q[h]
  BY <1>1, <1>2, ExceptSeq
<1>4. Replaced(q, k, t, s)
  BY <1>3 DEF Queries, Replaced
<1> QED
  BY <1>1, <1>4

(* A query without one of its statements. *)
LEMMA StatementRemoved ==
  ASSUME NEW q \in Seq(Trees), NEW k \in 1 .. Len(q)
  PROVE  /\ WithoutStatement(q, k) \in Seq(Trees)
         /\ Len(WithoutStatement(q, k)) = Len(q) - 1
         /\ \A h \in 1 .. Len(q) - 1 :
              WithoutStatement(q, k)[h] = IF h < k THEN q[h] ELSE q[h + 1]
<1> DEFINE before == SubSeq(q, 1, k - 1)
           after == SubSeq(q, k + 1, Len(q))
<1>1. Len(q) \in Nat /\ k \in Nat /\ k >= 1 /\ k <= Len(q)
      /\ \A h \in 1 .. Len(q) : q[h] \in Trees
  BY TreesAreSeqs
<1>2. /\ before \in Seq(Trees) /\ Len(before) = k - 1
      /\ \A h \in 1 .. k - 1 : before[h] = q[h]
  <2>1. 1 \in Int /\ k - 1 \in Int /\ \A h \in 1 .. k - 1 : q[h] \in Trees
    BY <1>1
  <2>2. /\ before \in Seq(Trees)
        /\ Len(before) = IF 1 <= k - 1 THEN (k - 1) - 1 + 1 ELSE 0
        /\ \A h \in 1 .. (k - 1) - 1 + 1 : before[h] = q[1 + h - 1]
    BY <2>1, SubSeqProperties
  <2>3. \A h \in 1 .. k - 1 : h \in 1 .. (k - 1) - 1 + 1 /\ 1 + h - 1 = h
    BY <1>1
  <2>4. (IF 1 <= k - 1 THEN (k - 1) - 1 + 1 ELSE 0) = k - 1
    BY <1>1
  <2> QED
    BY <2>2, <2>3, <2>4
<1>3. /\ after \in Seq(Trees) /\ Len(after) = Len(q) - k
      /\ \A h \in 1 .. Len(q) - k : after[h] = q[k + h]
  <2>1. k + 1 \in Int /\ Len(q) \in Int /\ \A h \in k + 1 .. Len(q) : q[h] \in Trees
    BY <1>1
  <2>2. /\ after \in Seq(Trees)
        /\ Len(after) = IF k + 1 <= Len(q) THEN Len(q) - (k + 1) + 1 ELSE 0
        /\ \A h \in 1 .. Len(q) - (k + 1) + 1 : after[h] = q[(k + 1) + h - 1]
    BY <2>1, SubSeqProperties
  <2>3. \A h \in 1 .. Len(q) - k : h \in 1 .. Len(q) - (k + 1) + 1 /\ (k + 1) + h - 1 = k + h
    BY <1>1
  <2>4. (IF k + 1 <= Len(q) THEN Len(q) - (k + 1) + 1 ELSE 0) = Len(q) - k
    BY <1>1
  <2> QED
    BY <2>2, <2>3, <2>4
<1>4. WithoutStatement(q, k) = before \o after
  BY DEF WithoutStatement
<1>5. PICK a, b : a = before /\ b = after
  OBVIOUS
<1> HIDE DEF before, after
<1>6. /\ a \o b \in Seq(Trees) /\ Len(a \o b) = Len(a) + Len(b)
      /\ \A h \in 1 .. Len(a) + Len(b) :
           (a \o b)[h] = IF h <= Len(a) THEN a[h] ELSE b[h - Len(a)]
  BY <1>2, <1>3, <1>5, ConcatProperties
<1>7. Len(a) = k - 1 /\ Len(b) = Len(q) - k /\ (k - 1) + (Len(q) - k) = Len(q) - 1
  BY <1>1, <1>2, <1>3, <1>5
<1>8. ASSUME NEW h \in 1 .. Len(q) - 1
      PROVE  (a \o b)[h] = IF h < k THEN q[h] ELSE q[h + 1]
  <2>1. h \in 1 .. Len(a) + Len(b)
    BY <1>7
  <2>2. CASE h < k
    <3>1. h <= Len(a) /\ h \in 1 .. k - 1
      BY <1>1, <1>7, <2>2
    <3> QED
      BY <1>2, <1>5, <1>6, <2>1, <2>2, <3>1
  <2>3. CASE ~(h < k)
    <3>1. ~(h <= Len(a)) /\ h - Len(a) = h - (k - 1) /\ h - (k - 1) \in 1 .. Len(q) - k
          /\ k + (h - (k - 1)) = h + 1
      BY <1>1, <1>7, <2>3
    <3>2. (a \o b)[h] = b[h - (k - 1)]
      BY <1>6, <2>1, <3>1
    <3>3. b[h - (k - 1)] = q[k + (h - (k - 1))]
      BY <1>3, <1>5, <3>1
    <3> QED
      BY <2>3, <3>1, <3>2, <3>3
  <2> QED
    BY <2>2, <2>3
<1> QED
  BY <1>4, <1>5, <1>6, <1>7, <1>8

-----------------------------------------------------------------------------
(* What a reduction has found out about a query. *)

Needed(q, k, cause) == ~Shows(WithoutStatement(q, k), cause)

Settled(q, k, p, cause) ==
  \A i \in Untried(q[k]) : i >= p => ~Shows(WithReduced(q, k, i), cause)

LEMMA UntriedPositions ==
  ASSUME NEW t \in Trees
  PROVE  Untried(t) = {i \in 1 .. Len(t) : t[i].kind \notin {"literal", "empty"}}
BY TreeShape DEF Untried, Trees

LEMMA ReducedStatement ==
  ASSUME NEW q \in Queries, NEW k \in 1 .. Len(q), NEW i \in 1 .. Len(q[k])
  PROVE  /\ Reduced(q[k], i) \in Trees /\ PartsIn(Reduced(q[k], i)) \subseteq PartsIn(q[k])
         /\ Replaced(q, k, Reduced(q[k], i), WithReduced(q, k, i))
<1>1. q[k] \in Trees
  BY TreesAreSeqs DEF Queries
<1>2. PICK r : r = Reduced(q[k], i)
  OBVIOUS
<1>3. r \in Trees /\ PartsIn(r) \subseteq PartsIn(q[k])
  BY <1>1, <1>2, ReducedIsMonotone
<1>4. Replaced(q, k, r, [q EXCEPT ![k] = r])
  BY <1>3, StatementReplaced
<1>5. WithReduced(q, k, i) = [q EXCEPT ![k] = r]
  BY <1>2 DEF WithReduced
<1> QED
  BY <1>2, <1>3, <1>4, <1>5

(* What is left without the statement k of q shows the bug when what is    *)
(* left without the statement h of s does.                                 *)
LEMMA NeededStays ==
  ASSUME NEW cause, NEW q \in Seq(Trees), NEW s \in Seq(Trees),
         NEW k \in 1 .. Len(q), NEW h \in 1 .. Len(s), Needed(q, k, cause),
         \A g \in 1 .. Len(s) : g # h =>
           \E f \in 1 .. Len(q) : f # k /\ PartsIn(s[g]) \subseteq PartsIn(q[f])
  PROVE  Needed(s, h, cause)
<1>1. /\ Len(q) \in Nat /\ Len(s) \in Nat /\ k \in Nat /\ h \in Nat
      /\ k >= 1 /\ k <= Len(q) /\ h >= 1 /\ h <= Len(s)
  BY TreesAreSeqs
<1>2. PICK u, v : u = WithoutStatement(q, k) /\ v = WithoutStatement(s, h)
  OBVIOUS
<1>3. /\ u \in Seq(Trees) /\ Len(u) = Len(q) - 1
      /\ \A j \in 1 .. Len(q) - 1 : u[j] = IF j < k THEN q[j] ELSE q[j + 1]
  BY <1>2, StatementRemoved
<1>4. /\ v \in Seq(Trees) /\ Len(v) = Len(s) - 1
      /\ \A j \in 1 .. Len(s) - 1 : v[j] = IF j < h THEN s[j] ELSE s[j + 1]
  BY <1>2, StatementRemoved
<1>5. ASSUME NEW j \in 1 .. Len(v)
      PROVE  \E e \in 1 .. Len(u) : PartsIn(v[j]) \subseteq PartsIn(u[e])
  <2>1. PICK g \in 1 .. Len(s) : g # h /\ v[j] = s[g]
    <3>1. j \in 1 .. Len(s) - 1
      BY <1>4
    <3>2. CASE j < h
      <4>1. j \in 1 .. Len(s) /\ j # h
        BY <1>1, <3>1, <3>2
      <4> QED
        BY <1>4, <3>1, <3>2, <4>1
    <3>3. CASE ~(j < h)
      <4>1. j + 1 \in 1 .. Len(s) /\ j + 1 # h
        BY <1>1, <3>1, <3>3
      <4> QED
        BY <1>4, <3>1, <3>3, <4>1
    <3> QED
      BY <3>2, <3>3
  <2>2. PICK f \in 1 .. Len(q) : f # k /\ PartsIn(s[g]) \subseteq PartsIn(q[f])
    BY <2>1
  <2>3. \E e \in 1 .. Len(u) : u[e] = q[f]
    <3>1. CASE f < k
      <4>1. f \in 1 .. Len(q) - 1 /\ f \in 1 .. Len(u)
        BY <1>1, <1>3, <3>1
      <4> QED
        BY <1>3, <3>1, <4>1
    <3>2. CASE ~(f < k)
      <4>1. f - 1 \in 1 .. Len(q) - 1 /\ f - 1 \in 1 .. Len(u) /\ ~(f - 1 < k) /\ (f - 1) + 1 = f
        BY <1>1, <1>3, <2>2, <3>2
      <4>2. u[f - 1] = q[(f - 1) + 1]
        BY <1>3, <4>1
      <4> QED
        BY <4>1, <4>2
    <3> QED
      BY <3>1, <3>2
  <2> QED
    BY <2>1, <2>2, <2>3
<1>6. Shows(v, cause) => Shows(u, cause)
  BY <1>3, <1>4, <1>5, FewerParts
<1> QED
  BY <1>2, <1>6 DEF Needed

(* A smaller statement in the place of another: what is known of the query *)
(* stays true, and what is known of its other statements.                  *)
KnownOf(q, k, s, cause) ==
  /\ s \in Queries /\ Len(s) = Len(q)
  /\ \A h \in 1 .. Len(q) : Needed(q, h, cause) => Needed(s, h, cause)
  /\ \A h \in 1 .. Len(q) : \A p : h # k /\ Settled(q, h, p, cause) => Settled(s, h, p, cause)

LEMMA ReplacementKeeps ==
  ASSUME NEW cause, NEW q \in Queries, NEW k \in 1 .. Len(q), NEW t \in Trees,
         PartsIn(t) \subseteq PartsIn(q[k])
  PROVE  KnownOf(q, k, [q EXCEPT ![k] = t], cause)
<1>0. PICK s : s = [q EXCEPT ![k] = t]
  OBVIOUS
<1>1. /\ s \in Queries /\ Len(s) = Len(q)
      /\ \A h \in 1 .. Len(q) : s[h] = IF h = k THEN t ELSE q[h]
  <2>1. Replaced(q, k, t, s)
    BY <1>0, StatementReplaced
  <2> QED
    BY <2>1 DEF Replaced
<1>2. q \in Seq(Trees) /\ s \in Seq(Trees)
  BY <1>1 DEF Queries
<1>3. \A h \in 1 .. Len(q) : PartsIn(s[h]) \subseteq PartsIn(q[h])
  BY <1>1
<1>4. ASSUME NEW h \in 1 .. Len(q), Needed(q, h, cause) PROVE Needed(s, h, cause)
  <2>1. h \in 1 .. Len(s)
    BY <1>1
  <2>2. \A g \in 1 .. Len(s) : g # h =>
          \E f \in 1 .. Len(q) : f # h /\ PartsIn(s[g]) \subseteq PartsIn(q[f])
    BY <1>1, <1>3
  <2> QED
    BY <1>2, <1>4, <2>1, <2>2, NeededStays
<1>5. ASSUME NEW h \in 1 .. Len(q), NEW p, h # k, Settled(q, h, p, cause)
      PROVE  Settled(s, h, p, cause)
  <2>1. s[h] = q[h] /\ h \in 1 .. Len(s) /\ q[h] \in Trees
    BY <1>1, <1>2, <1>5, TreesAreSeqs
  <2>2. ASSUME NEW i \in Untried(q[h]), i >= p PROVE ~Shows(WithReduced(s, h, i), cause)
    <3>1. i \in 1 .. Len(q[h]) /\ i \in 1 .. Len(s[h])
      BY <2>1, UntriedPositions
    <3>2. ~Shows(WithReduced(q, h, i), cause)
      BY <1>5, <2>2 DEF Settled
    <3>3. PICK u, v : u = WithReduced(q, h, i) /\ v = WithReduced(s, h, i)
      OBVIOUS
    <3>4. /\ u \in Queries /\ Len(u) = Len(q)
          /\ \A g \in 1 .. Len(q) : u[g] = IF g = h THEN Reduced(q[h], i) ELSE q[g]
      BY <3>1, <3>3, ReducedStatement DEF Replaced
    <3>5. /\ v \in Queries /\ Len(v) = Len(s)
          /\ \A g \in 1 .. Len(s) : v[g] = IF g = h THEN Reduced(s[h], i) ELSE s[g]
      <4>1. Replaced(s, h, Reduced(s[h], i), WithReduced(s, h, i))
        BY <1>1, <2>1, <3>1, ReducedStatement
      <4> QED
        BY <3>3, <4>1 DEF Replaced
    <3>6. \A g \in 1 .. Len(v) : g \in 1 .. Len(u) /\ PartsIn(v[g]) \subseteq PartsIn(u[g])
      BY <1>1, <1>3, <2>1, <3>4, <3>5
    <3>7. u \in Seq(Trees) /\ v \in Seq(Trees)
      BY <3>4, <3>5 DEF Queries
    <3> QED
      BY <3>2, <3>3, <3>6, <3>7, FewerParts
  <2> QED
    BY <2>1, <2>2 DEF Settled
<1> QED
  BY <1>0, <1>1, <1>4, <1>5 DEF KnownOf

(* A reduced clause in the statement k: what is after it stays settled.    *)
LEMMA ReductionSettles ==
  ASSUME NEW cause, NEW q \in Queries, NEW k \in 1 .. Len(q), NEW p \in 1 .. Len(q[k]),
         NEW s, s = WithReduced(q, k, p), Settled(q, k, p + 1, cause)
  PROVE  /\ Settled(s, k, p, cause)
         /\ ~Shows(s, cause) => Settled(q, k, p, cause)
<1>1. q[k] \in Trees /\ q \in Seq(Trees) /\ Len(q[k]) \in Nat /\ p \in Nat /\ p >= 1
  BY TreesAreSeqs DEF Queries
<1>2. PICK t, r : t = q[k] /\ r = Reduced(q[k], p)
  OBVIOUS
<1>3. /\ r \in Trees
      /\ \A i \in 1 .. Len(r) : i >= p /\ r[i].kind \notin {"literal", "empty"} =>
           \E j \in p + 1 .. Len(t) :
             r[i].kind = t[j].kind /\ PartsIn(Reduced(r, i)) \subseteq PartsIn(Reduced(t, j))
  BY <1>1, <1>2, ReducedIsMonotone
<1>4. /\ s \in Queries /\ Len(s) = Len(q)
      /\ \A h \in 1 .. Len(q) : s[h] = IF h = k THEN r ELSE q[h]
  BY <1>2, ReducedStatement DEF Replaced
<1>5. s[k] = r /\ k \in 1 .. Len(s)
  BY <1>4
<1>6. ASSUME NEW i \in Untried(r), i >= p PROVE ~Shows(WithReduced(s, k, i), cause)
  <2>1. i \in 1 .. Len(r) /\ r[i].kind \notin {"literal", "empty"}
    BY <1>3, UntriedPositions
  <2>2. PICK j \in p + 1 .. Len(t) :
          r[i].kind = t[j].kind /\ PartsIn(Reduced(r, i)) \subseteq PartsIn(Reduced(t, j))
    BY <1>3, <1>6, <2>1
  <2>3. j \in Untried(q[k]) /\ j >= p + 1 /\ j \in 1 .. Len(q[k])
    <3>1. j \in 1 .. Len(t) /\ j >= p + 1
      BY <1>1, <1>2
    <3> QED
      BY <1>1, <1>2, <2>1, <2>2, <3>1, UntriedPositions
  <2>4. ~Shows(WithReduced(q, k, j), cause)
    BY <2>3 DEF Settled
  <2>5. PICK u, v : u = WithReduced(q, k, j) /\ v = WithReduced(s, k, i)
    OBVIOUS
  <2>6. /\ u \in Queries /\ Len(u) = Len(q)
        /\ \A g \in 1 .. Len(q) : u[g] = IF g = k THEN Reduced(q[k], j) ELSE q[g]
    BY <2>3, <2>5, ReducedStatement DEF Replaced
  <2>7. /\ v \in Queries /\ Len(v) = Len(s)
        /\ \A g \in 1 .. Len(s) : v[g] = IF g = k THEN Reduced(s[k], i) ELSE s[g]
    BY <1>4, <1>5, <2>1, <2>5, ReducedStatement DEF Replaced
  <2>8. \A g \in 1 .. Len(v) : g \in 1 .. Len(u) /\ PartsIn(v[g]) \subseteq PartsIn(u[g])
    BY <1>2, <1>4, <1>5, <2>2, <2>6, <2>7
  <2>9. u \in Seq(Trees) /\ v \in Seq(Trees)
    BY <2>6, <2>7 DEF Queries
  <2> QED
    BY <2>4, <2>5, <2>8, <2>9, FewerParts
<1>7. Settled(s, k, p, cause)
  BY <1>5, <1>6 DEF Settled
<1>8. ASSUME ~Shows(s, cause), NEW i \in Untried(q[k]), i >= p
      PROVE  ~Shows(WithReduced(q, k, i), cause)
  <2>1. i \in 1 .. Len(q[k])
    BY <1>1, UntriedPositions
  <2>2. CASE i = p
    BY <1>8, <2>2
  <2>3. CASE i >= p + 1
    BY <2>3 DEF Settled
  <2> QED
    BY <1>1, <1>8, <2>1, <2>2, <2>3
<1> QED
  BY <1>7, <1>8 DEF Settled

-----------------------------------------------------------------------------
(* What the context of the strategy says about the query that is kept: the *)
(* statements after the one to remove next are needed, the statements      *)
(* before the current one are settled, and so is the current one after the *)
(* clause to reduce next.                                                  *)
NoneContext(q, removed, statement, clause, cause) ==
  /\ removed \in {Nil} \cup (-1 .. Len(q) - 2)
  /\ statement \in {Nil} \cup (0 .. Len(q))
  /\ clause \in {Nil} \cup Nat
  /\ statement # Nil => removed = -1
  /\ clause # Nil => statement # Nil
  /\ \A k \in 1 .. Len(q) - 1 : removed # Nil /\ k >= removed + 2 => Needed(q, k, cause)
  /\ \A k \in 1 .. Len(q) : statement # Nil /\ k <= statement => Settled(q, k, 1, cause)
  /\ \A k \in 1 .. Len(q) : clause # Nil /\ k = statement + 1 => Settled(q, k, clause + 2, cause)

(* A statement was tried without. *)
LEMMA RemovalKeepsContext ==
  ASSUME NEW cause, NEW q \in Queries, NEW removed, NEW statement, NEW clause,
         NoneContext(q, removed, statement, clause, cause),
         NEW x, x = Default(removed, Len(q) - 2), x >= 0
  PROVE  /\ WithoutStatement(q, x + 1) \in Queries
         /\ Shows(WithoutStatement(q, x + 1), cause) =>
              NoneContext(WithoutStatement(q, x + 1), x - 1, statement, clause, cause)
         /\ ~Shows(WithoutStatement(q, x + 1), cause) => NoneContext(q, x - 1, statement, clause, cause)
<1>1. /\ q \in Seq(Trees) /\ Len(q) \in Nat /\ 1 <= Len(q) /\ Len(q) <= Len(Shapes)
      /\ Len(Shapes) \in Nat
  BY TreesAreSeqs, ShapesAssumption, LenProperties DEF Queries
<1>2. x \in Nat /\ x <= Len(q) - 2 /\ (removed = Nil \/ removed = x)
      /\ (removed = Nil => x = Len(q) - 2) /\ removed # -1
  BY <1>1 DEF NoneContext, Default, Nil
<1>3. statement = Nil /\ clause = Nil
  BY <1>2 DEF NoneContext
<1>4. PICK s : s = WithoutStatement(q, x + 1)
  OBVIOUS
<1>5. x + 1 \in 1 .. Len(q)
  BY <1>1, <1>2
<1>6. /\ s \in Seq(Trees) /\ Len(s) = Len(q) - 1
      /\ \A h \in 1 .. Len(q) - 1 : s[h] = IF h < x + 1 THEN q[h] ELSE q[h + 1]
  BY <1>1, <1>4, <1>5, StatementRemoved
<1>7. s \in Queries
  BY <1>1, <1>2, <1>6 DEF Queries
<1>8. x - 1 \in -1 .. Len(s) - 2 /\ x - 1 \in -1 .. Len(q) - 2 /\ x - 1 # Nil
  BY <1>1, <1>2, <1>6 DEF Nil
<1>9. \A k \in 1 .. Len(q) - 1 : k >= x + 2 => Needed(q, k, cause)
  <2>1. CASE removed = Nil
    BY <1>1, <1>2, <2>1
  <2>2. CASE removed = x
    BY <1>2, <2>2 DEF NoneContext, Nil
  <2> QED
    BY <1>2, <2>1, <2>2
<1>10. ASSUME NEW k \in 1 .. Len(s) - 1, k >= x + 1
       PROVE  Needed(s, k, cause)
  <2>1. k + 1 \in 1 .. Len(q) - 1 /\ k + 1 >= x + 2 /\ k \in 1 .. Len(s) /\ k + 1 \in 1 .. Len(q)
    BY <1>1, <1>2, <1>6, <1>10
  <2>2. Needed(q, k + 1, cause)
    BY <1>9, <2>1
  <2>3. ASSUME NEW g \in 1 .. Len(s), g # k
        PROVE  \E f \in 1 .. Len(q) : f # k + 1 /\ PartsIn(s[g]) \subseteq PartsIn(q[f])
    <3>1. g \in 1 .. Len(q) - 1
      BY <1>6
    <3>2. CASE g < x + 1
      <4>1. s[g] = q[g] /\ g \in 1 .. Len(q) /\ g # k + 1
        BY <1>1, <1>2, <1>6, <1>10, <3>1, <3>2
      <4> QED
        BY <4>1
    <3>3. CASE ~(g < x + 1)
      <4>1. g + 1 \in 1 .. Len(q) /\ g + 1 # k + 1
        BY <1>1, <2>3, <3>1
      <4>2. s[g] = q[g + 1]
        BY <1>6, <3>1, <3>3
      <4> QED
        BY <4>1, <4>2
    <3> QED
      BY <3>2, <3>3
  <2>4. \A g \in 1 .. Len(s) : g # k =>
          \E f \in 1 .. Len(q) : f # k + 1 /\ PartsIn(s[g]) \subseteq PartsIn(q[f])
    BY <2>3
  <2> QED
    BY <1>1, <1>6, <2>1, <2>2, <2>4, NeededStays
<1>11. NoneContext(s, x - 1, statement, clause, cause)
  <2>1. \A k \in 1 .. Len(s) - 1 : k >= (x - 1) + 2 => Needed(s, k, cause)
    BY <1>1, <1>2, <1>6, <1>10
  <2> QED
    BY <1>3, <1>8, <2>1 DEF NoneContext
<1>12. ASSUME ~Shows(s, cause) PROVE NoneContext(q, x - 1, statement, clause, cause)
  <2>1. ASSUME NEW k \in 1 .. Len(q) - 1, k >= (x - 1) + 2 PROVE Needed(q, k, cause)
    <3>1. k = x + 1 \/ k >= x + 2
      BY <1>1, <1>2, <2>1
    <3>2. Needed(q, x + 1, cause)
      BY <1>4, <1>12 DEF Needed
    <3> QED
      BY <1>9, <2>1, <3>1, <3>2
  <2> QED
    BY <1>3, <1>8, <2>1 DEF NoneContext
<1> QED
  BY <1>4, <1>7, <1>11, <1>12

(* Once the index to remove is negative, every statement but the last was   *)
(* tried without.                                                          *)
LEMMA RemovalsAreDone ==
  ASSUME NEW n \in Nat, 1 <= n, NEW removed \in {Nil} \cup (-1 .. n - 2),
         Default(removed, n - 2) < 0
  PROVE  Default(removed, n - 2) = -1 /\ (removed = -1 \/ (removed = Nil /\ n = 1))
<1>1. CASE removed = Nil
  <2>1. n - 2 < 0 /\ Default(removed, n - 2) = n - 2
    BY <1>1 DEF Default
  <2>2. n = 1
    BY <2>1
  <2> QED
    BY <1>1, <2>1, <2>2
<1>2. CASE removed \in -1 .. n - 2
  <2>1. removed # Nil /\ removed \in Int /\ removed >= -1
    BY <1>2 DEF Nil
  <2>2. Default(removed, n - 2) = removed
    BY <2>1 DEF Default
  <2>3. removed < 0
    BY <2>2
  <2>4. removed = -1
    BY <2>1, <2>3
  <2> QED
    BY <2>2, <2>4
<1> QED
  BY <1>1, <1>2

(* Another statement, which contains no more, in the place of the current  *)
(* one, before a clause of it was reduced.                                 *)
LEMMA ExpressionKeepsContext ==
  ASSUME NEW cause, NEW q \in Queries, NEW removed, NEW statement,
         NoneContext(q, removed, statement, Nil, cause),
         Default(removed, Len(q) - 2) < 0,
         NEW x, x = Default(statement, 0), x < Len(q),
         NEW t \in Trees, PartsIn(t) \subseteq PartsIn(q[x + 1]),
         NEW s, s = [q EXCEPT ![x + 1] = t]
  PROVE  /\ s \in Queries
         /\ NoneContext(s, Default(removed, Len(q) - 2), x, Nil, cause)
         /\ NoneContext(q, Default(removed, Len(q) - 2), x, Nil, cause)
<1>1. q \in Seq(Trees) /\ Len(q) \in Nat /\ 1 <= Len(q)
  BY TreesAreSeqs DEF Queries
<1>2. /\ x \in Nat /\ x + 1 \in 1 .. Len(q) /\ x # Nil
      /\ statement = Nil => x = 0
      /\ statement # Nil => x = statement
  BY <1>1 DEF NoneContext, Default, Nil
<1>3. Default(removed, Len(q) - 2) = -1 /\ (removed = -1 \/ (removed = Nil /\ Len(q) = 1))
  <2>1. removed \in {Nil} \cup (-1 .. Len(q) - 2)
    BY DEF NoneContext
  <2>2. PICK n : n = Len(q)
    OBVIOUS
  <2>3. n \in Nat /\ 1 <= n /\ removed \in {Nil} \cup (-1 .. n - 2) /\ Default(removed, n - 2) < 0
    BY <1>1, <2>1, <2>2
  <2>4. Default(removed, n - 2) = -1 /\ (removed = -1 \/ (removed = Nil /\ n = 1))
    BY <2>3, RemovalsAreDone
  <2> QED
    BY <2>2, <2>4
<1>4. /\ s \in Queries /\ Len(s) = Len(q)
      /\ \A h \in 1 .. Len(q) : Needed(q, h, cause) => Needed(s, h, cause)
      /\ \A h \in 1 .. Len(q) : \A p : h # x + 1 /\ Settled(q, h, p, cause) => Settled(s, h, p, cause)
  <2>1. PICK k : k = x + 1
    OBVIOUS
  <2>2. k \in 1 .. Len(q) /\ PartsIn(t) \subseteq PartsIn(q[k])
    BY <1>2, <2>1
  <2>3. KnownOf(q, k, [q EXCEPT ![k] = t], cause)
    BY <2>2, ReplacementKeeps
  <2>4. KnownOf(q, x + 1, s, cause)
    BY <2>1, <2>3
  <2> QED
    BY <2>4 DEF KnownOf
<1>5. \A k \in 1 .. Len(q) - 1 : k >= -1 + 2 => Needed(q, k, cause)
  <2>1. CASE removed = -1
    BY <2>1 DEF NoneContext, Nil
  <2>2. CASE Len(q) = 1
    BY <2>2
  <2> QED
    BY <1>3, <2>1, <2>2
<1>6. \A k \in 1 .. Len(q) : k <= x => Settled(q, k, 1, cause)
  BY <1>2 DEF NoneContext
<1>7. NoneContext(q, -1, x, Nil, cause)
  <2>1. -1 \in -1 .. Len(q) - 2 /\ x \in 0 .. Len(q)
    BY <1>1, <1>2
  <2> QED
    BY <1>5, <1>6, <2>1 DEF NoneContext
<1>8. NoneContext(s, -1, x, Nil, cause)
  <2>1. -1 \in -1 .. Len(s) - 2 /\ x \in 0 .. Len(s)
    BY <1>1, <1>2, <1>4
  <2>2. \A k \in 1 .. Len(s) - 1 : k >= -1 + 2 => Needed(s, k, cause)
    <3>1. \A k \in 1 .. Len(s) - 1 : k \in 1 .. Len(q)
      BY <1>1, <1>4
    <3> QED
      BY <1>4, <1>5, <3>1
  <2>3. \A k \in 1 .. Len(s) : k <= x => Settled(s, k, 1, cause)
    <3>1. \A k \in 1 .. Len(q) : k <= x => k # x + 1
      BY <1>1, <1>2
    <3> QED
      BY <1>4, <1>6, <3>1
  <2> QED
    BY <2>1, <2>2, <2>3 DEF NoneContext
<1> QED
  BY <1>3, <1>4, <1>7, <1>8

(* A clause of the current statement was reduced: the clauses from it on,  *)
(* and the statement when it is the first one, are settled.                *)
LEMMA ClauseKeepsContext ==
  ASSUME NEW cause, NEW q \in Queries, NEW removed, NEW statement, NEW clause,
         NoneContext(q, removed, statement, clause, cause),
         Default(removed, Len(q) - 2) < 0,
         NEW x, x = Default(statement, 0), x < Len(q),
         NEW target, target = Default(clause, Len(q[x + 1])),
         NEW s, s = [q EXCEPT ![x + 1] = transformClauseAtIndex(q[x + 1], target)],
         NEW u, u = IF Shows(s, cause) THEN s ELSE q
  PROVE  /\ s \in Queries /\ target \in Nat /\ Default(removed, Len(q) - 2) = -1
         /\ x + 1 # Nil /\ x # Nil /\ target - 1 # Nil
         /\ target = 0 => NoneContext(u, -1, x + 1, Nil, cause)
         /\ target # 0 => NoneContext(u, -1, x, target - 1, cause)
<1>1. q \in Seq(Trees) /\ Len(q) \in Nat /\ 1 <= Len(q)
  BY TreesAreSeqs DEF Queries
<1>2. /\ x \in Nat /\ x + 1 \in 1 .. Len(q) /\ x # Nil /\ x + 1 # Nil
      /\ statement = Nil => x = 0
      /\ statement # Nil => x = statement
  BY <1>1 DEF NoneContext, Default, Nil
<1>3. PICK t : t = q[x + 1]
  OBVIOUS
<1>4. t \in Trees /\ Len(t) \in Nat
  BY <1>1, <1>2, <1>3, TreesAreSeqs
<1>5. target \in Nat /\ target - 1 # Nil /\ (clause = Nil => target = Len(t)) /\ (clause # Nil => target = clause)
  <2>1. clause \in {Nil} \cup Nat
    BY DEF NoneContext
  <2>2. target \in Nat /\ (clause = Nil => target = Len(t)) /\ (clause # Nil => target = clause)
    BY <1>3, <1>4, <2>1 DEF Default
  <2> QED
    BY <2>2 DEF Nil
(* What an unreduced clause would have in its place was tried after it. *)
<1>6. Settled(q, x + 1, target + 2, cause)
  <2>1. CASE clause = Nil
    <3>1. \A i \in Untried(t) : i \in 1 .. Len(t)
      BY <1>4, UntriedPositions
    <3>2. \A i \in Untried(t) : ~(i >= target + 2)
      BY <1>4, <1>5, <2>1, <3>1
    <3> QED
      BY <1>3, <3>2 DEF Settled
  <2>2. CASE clause # Nil
    <3>1. statement # Nil
      BY <2>2 DEF NoneContext
    <3>2. x = statement /\ target = clause
      BY <1>2, <1>5, <2>2, <3>1
    <3> QED
      BY <1>2, <2>2, <3>2 DEF NoneContext
  <2> QED
    BY <2>1, <2>2
<1>7. /\ s \in Queries /\ Len(s) = Len(q)
      /\ \A h \in 1 .. Len(q) : Needed(q, h, cause) => Needed(s, h, cause)
      /\ \A h \in 1 .. Len(q) : \A p : h # x + 1 /\ Settled(q, h, p, cause) => Settled(s, h, p, cause)
      /\ Settled(u, x + 1, target + 1, cause)
  <2>1. CASE target < Len(t)
    <3>1. target + 1 \in 1 .. Len(t) /\ (target + 1) + 1 = target + 2
      BY <1>4, <1>5, <2>1
    <3>2. transformClauseAtIndex(t, target) = Reduced(t, target + 1)
      BY <2>1 DEF transformClauseAtIndex, getNodesCount
    <3>3. s = [q EXCEPT ![x + 1] = Reduced(t, target + 1)]
      BY <1>3, <3>2
    <3>4. s = WithReduced(q, x + 1, target + 1)
      BY <1>3, <3>3 DEF WithReduced
    <3>5. PICK k, r : k = x + 1 /\ r = Reduced(t, target + 1)
      OBVIOUS
    <3>10. r \in Trees /\ PartsIn(r) \subseteq PartsIn(t)
      BY <1>4, <3>1, <3>5, ReducedIsMonotone
    <3>11. k \in 1 .. Len(q) /\ PartsIn(r) \subseteq PartsIn(q[k])
      BY <1>2, <1>3, <3>5, <3>10
    <3>12. KnownOf(q, k, [q EXCEPT ![k] = r], cause)
      BY <3>10, <3>11, ReplacementKeeps
    <3>6. KnownOf(q, x + 1, s, cause)
      BY <3>3, <3>5, <3>12
    <3>7. PICK p : p = target + 1
      OBVIOUS
    <3>8. p \in 1 .. Len(q[x + 1]) /\ Settled(q, x + 1, p + 1, cause) /\ s = WithReduced(q, x + 1, p)
      BY <1>3, <1>6, <3>1, <3>4, <3>7
    <3>9. Settled(s, x + 1, p, cause) /\ (~Shows(s, cause) => Settled(q, x + 1, p, cause))
      BY <1>2, <3>8, ReductionSettles
    <3> QED
      BY <3>6, <3>7, <3>9 DEF KnownOf
  <2>2. CASE target >= Len(t)
    <3>1. transformClauseAtIndex(t, target) = t
      BY <1>4, <1>5, <2>2 DEF transformClauseAtIndex, getNodesCount
    <3>2. s = [q EXCEPT ![x + 1] = t]
      BY <1>3, <3>1
    <3>9. PICK k : k = x + 1
      OBVIOUS
    <3>10. k \in 1 .. Len(q) /\ PartsIn(t) \subseteq PartsIn(q[k])
      BY <1>2, <1>3, <3>9
    <3>11. KnownOf(q, k, [q EXCEPT ![k] = t], cause)
      BY <1>4, <3>10, ReplacementKeeps
    <3>12. Replaced(q, k, t, [q EXCEPT ![k] = t])
      BY <1>4, <3>10, StatementReplaced
    <3>3. KnownOf(q, x + 1, s, cause)
      BY <3>2, <3>9, <3>11
    <3>4. Replaced(q, x + 1, t, s)
      BY <3>2, <3>9, <3>12
    <3>5. s[x + 1] = t
      BY <1>2, <3>4 DEF Replaced
    <3>6. u[x + 1] = t
      BY <1>3, <3>5
    <3>7. \A i \in Untried(t) : ~(i >= target + 1)
      <4>1. \A i \in Untried(t) : i \in 1 .. Len(t)
        BY <1>4, UntriedPositions
      <4> QED
        BY <1>4, <1>5, <2>2, <4>1
    <3>8. Settled(u, x + 1, target + 1, cause)
      BY <3>6, <3>7 DEF Settled
    <3> QED
      BY <3>3, <3>8 DEF KnownOf
  <2>3. target < Len(t) \/ target >= Len(t)
    BY <1>4, <1>5
  <2> QED
    BY <2>1, <2>2, <2>3
<1>8. Default(removed, Len(q) - 2) = -1 /\ (removed = -1 \/ (removed = Nil /\ Len(q) = 1))
  <2>1. removed \in {Nil} \cup (-1 .. Len(q) - 2)
    BY DEF NoneContext
  <2>2. PICK n : n = Len(q)
    OBVIOUS
  <2>3. n \in Nat /\ 1 <= n /\ removed \in {Nil} \cup (-1 .. n - 2) /\ Default(removed, n - 2) < 0
    BY <1>1, <2>1, <2>2
  <2>4. Default(removed, n - 2) = -1 /\ (removed = -1 \/ (removed = Nil /\ n = 1))
    BY <2>3, RemovalsAreDone
  <2> QED
    BY <2>2, <2>4
<1>9. Len(u) = Len(q) /\ \A k \in 1 .. Len(u) - 1 : k >= -1 + 2 => Needed(u, k, cause)
  <2>1. \A k \in 1 .. Len(q) - 1 : k >= -1 + 2 => Needed(q, k, cause)
    <3>1. CASE removed = -1
      BY <3>1 DEF NoneContext, Nil
    <3>2. CASE Len(q) = 1
      BY <3>2
    <3> QED
      BY <1>8, <3>1, <3>2
  <2>2. \A k \in 1 .. Len(q) - 1 : k \in 1 .. Len(q)
    BY <1>1
  <2> QED
    BY <1>7, <2>1, <2>2
<1>10. \A k \in 1 .. Len(u) : k <= x => Settled(u, k, 1, cause)
  <2>1. \A k \in 1 .. Len(q) : k <= x => Settled(q, k, 1, cause)
    BY <1>2 DEF NoneContext
  <2>2. \A k \in 1 .. Len(q) : k <= x => k # x + 1
    BY <1>1, <1>2
  <2> QED
    BY <1>7, <1>9, <2>1, <2>2
<1>11. ASSUME target = 0 PROVE NoneContext(u, -1, x + 1, Nil, cause)
  <2>1. -1 \in -1 .. Len(u) - 2 /\ x + 1 \in 0 .. Len(u)
    BY <1>1, <1>2, <1>9
  <2>2. ASSUME NEW k \in 1 .. Len(u), k <= x + 1 PROVE Settled(u, k, 1, cause)
    <3>1. k <= x \/ k = x + 1
      BY <1>1, <1>2, <1>9, <2>2
    <3>2. Settled(u, x + 1, 1, cause)
      <4>1. target + 1 = 1
        BY <1>11
      <4> QED
        BY <1>7, <4>1
    <3> QED
      BY <1>10, <3>1, <3>2
  <2> QED
    BY <1>9, <2>1, <2>2 DEF NoneContext
<1>12. ASSUME target # 0 PROVE NoneContext(u, -1, x, target - 1, cause)
  <2>1. -1 \in -1 .. Len(u) - 2 /\ x \in 0 .. Len(u) /\ target - 1 \in Nat
        /\ (target - 1) + 2 = target + 1
    BY <1>1, <1>2, <1>5, <1>9, <1>12
  <2>2. \A k \in 1 .. Len(u) : k = x + 1 => Settled(u, k, (target - 1) + 2, cause)
    BY <1>7, <2>1
  <2> QED
    BY <1>2, <1>9, <1>10, <2>1, <2>2 DEF NoneContext
<1> QED
  BY <1>2, <1>5, <1>7, <1>8, <1>11, <1>12

-----------------------------------------------------------------------------
(***************************************************************************)
(* The verdict of ValidateReductionResult is about what the bug depends    *)
(* on, when it shows as an error; otherwise everything is accepted.        *)
(***************************************************************************)
Cause == IF failure = "error" THEN trigger ELSE {}

LEMMA NoneVerdictIsCause ==
  ASSUME NEW statements, failure \in {"error", "crash"}
  PROVE  NoneValidateReductionResult(statements) <=> Shows(statements, Cause)
<1>1. CASE failure = "error"
  <2>1. <<failure>> = << "error" >> /\ << "rows" >> # << "error" >>
    BY <1>1
  <2> QED
    BY <1>1, <2>1
    DEF NoneValidateReductionResult, LastResult, HasError, Shows, Cause, Triggered
<1>2. CASE failure # "error"
  <2>1. <<failure>> # << "error" >> /\ << "rows" >> # << "error" >>
    BY <1>2
  <2> QED
    BY <1>2, <2>1 DEF NoneValidateReductionResult, LastResult, HasError, Shows, Cause
<1> QED
  BY <1>1, <1>2

-----------------------------------------------------------------------------
(***************************************************************************)
(* The query that the next verdict is going to keep, and the inductive     *)
(* invariant: what the context says of that query is true.                 *)
(***************************************************************************)
NoneKept == IF pc = "run" /\ Shows(newClauses, Cause) THEN newClauses ELSE reducedClauses

NoneTypes ==
  /\ pc \in {"step", "run", "report", "done", "failed"}
  /\ isDone \in BOOLEAN /\ fullReduction \in BOOLEAN /\ doneReducingExpressions \in BOOLEAN
  /\ failure \in {"error", "crash"}
  /\ reducedClauses \in Queries
  /\ newClauses \in Seq(Trees) /\ prevStatements \in Seq(Trees) /\ curStatements \in Seq(Trees)
  /\ pc = "run" => newClauses \in Queries
  /\ lastTransformedExpressionIndex \in {Nil} \cup Nat

NoneContextTypes(removed, statement, clause) ==
  /\ removed \in {Nil} \cup (-1 .. Len(Shapes))
  /\ statement \in {Nil} \cup (0 .. Len(Shapes))
  /\ clause \in {Nil} \cup Nat

NoneProgress ==
  pc # "failed" =>
    /\ NoneContext(NoneKept, lastRemovedRootClauseIndex, reducedStatementIndex,
               lastTransformedClauseIndex, Cause)
    /\ lastTransformedClauseIndex # Nil => doneReducingExpressions
    /\ (pc = "run" /\ isDone) \/ pc \in {"report", "done"} =>
         reducedStatementIndex = Len(NoneKept)

NoneInv ==
  /\ NoneTypes
  /\ NoneContextTypes(lastRemovedRootClauseIndex, reducedStatementIndex,
                  lastTransformedClauseIndex)
  /\ NoneProgress

LEMMA ContextIsTyped ==
  ASSUME NEW q \in Queries, NEW removed, NEW statement, NEW clause, NEW cause,
         NoneContext(q, removed, statement, clause, cause)
  PROVE  NoneContextTypes(removed, statement, clause)
<1>1. Len(q) \in Nat /\ Len(q) <= Len(Shapes) /\ Len(Shapes) \in Nat
  BY TreesAreSeqs, ShapesAssumption, LenProperties DEF Queries
<1>2. PICK n, m : n = Len(q) /\ m = Len(Shapes)
  OBVIOUS
<1>3. n \in Nat /\ m \in Nat /\ n <= m
  BY <1>1, <1>2
<1>4. \A x \in -1 .. n - 2 : x \in -1 .. m
  BY <1>3
<1>5. \A x \in 0 .. n : x \in 0 .. m
  BY <1>3
<1>6. removed \in {Nil} \cup (-1 .. n - 2) /\ statement \in {Nil} \cup (0 .. n) /\ clause \in {Nil} \cup Nat
  BY <1>2 DEF NoneContext
<1> QED
  BY <1>2, <1>4, <1>5, <1>6 DEF NoneContextTypes

(* The statements of a bug report. *)
LEMMA OriginalsAreQueries ==
  ASSUME NEW n \in DOMAIN Shapes, NEW statements \in Originals(n)
  PROVE  statements \in Queries
<1>1. n \in Nat /\ 1 <= n /\ n <= Len(Shapes) /\ Len(Shapes) \in Nat /\ DOMAIN Shapes = 1 .. Len(Shapes)
  BY ShapesAssumption, LenProperties
<1>2. DOMAIN statements = 1 .. n /\ statements = [k \in 1 .. n |-> statements[k]]
  BY DEF Originals
<1>3. ASSUME NEW k \in 1 .. n
      PROVE  statements[k] \in Trees
  <2>1. PICK shape \in Shapes[k] : statements[k] = Statement(shape, k)
    BY DEF Originals
  <2>2. k \in DOMAIN Shapes /\ k \in Nat
    BY <1>1
  <2>3. shape \in Seq([depth : Nat, kind : Kinds])
    <3>1. Shapes \in Seq(SUBSET Seq([depth : Nat, kind : Kinds])) /\ k \in 1 .. Len(Shapes)
      BY <1>1, <2>2, ShapesAssumption
    <3>2. Shapes[k] \in SUBSET Seq([depth : Nat, kind : Kinds])
      BY <3>1, ElementOfSeq
    <3> QED
      BY <2>1, <3>2
  <2>4. IsTree(Statement(shape, k)) /\ ChainsHoldClauses(Statement(shape, k))
    BY <2>2, ShapesAssumption
  <2>5. Statement(shape, k) \in Seq(Nodes)
    <3>1. PICK m : m = Len(shape)
      OBVIOUS
    <3>5. m \in Nat /\ DOMAIN shape = 1 .. m
      BY <2>3, <3>1, LenProperties
    <3>2. \A i \in 1 .. m : shape[i] \in [depth : Nat, kind : Kinds]
      BY <2>3, <3>1, ElementOfSeq
    <3>3. \A i \in 1 .. m : [id |-> <<k, i>>, kind |-> shape[i].kind, depth |-> shape[i].depth,
                             use |-> "plain"] \in Nodes
      BY <2>2, <3>2 DEF Nodes, Uses
    <3>4. Statement(shape, k) \in [1 .. m -> Nodes]
      BY <3>5, <3>3 DEF Statement
    <3> QED
      BY <3>4, <3>5
  <2> QED
    BY <2>1, <2>4, <2>5 DEF Trees
<1>4. statements \in [1 .. n -> Trees]
  BY <1>2, <1>3
<1>5. statements \in Seq(Trees) /\ Len(statements) = n
  BY <1>1, <1>4
<1> QED
  BY <1>1, <1>5 DEF Queries

(* Nothing is known at first. *)
LEMMA InitialContext ==
  ASSUME NoneInit
  PROVE  NoneInv
<1>1. PICK n \in DOMAIN Shapes : \E statements \in Originals(n) : LoopInit(statements)
  BY DEF NoneInit
<1>2. PICK statements \in Originals(n) : LoopInit(statements)
  BY <1>1
<1>3. /\ pc = "step" /\ reducedClauses = statements /\ newClauses = << >> /\ isDone = FALSE
      /\ fullReduction \in BOOLEAN /\ prevStatements = << >> /\ curStatements = << >>
  BY <1>2 DEF LoopInit
<1>4. /\ lastRemovedRootClauseIndex = Nil /\ reducedStatementIndex = Nil
      /\ lastTransformedExpressionIndex = Nil /\ doneReducingExpressions = FALSE
      /\ lastTransformedClauseIndex = Nil
      /\ failure \in {"error", "crash"}
  BY DEF NoneInit
<1>5. reducedClauses \in Queries
  BY <1>3, OriginalsAreQueries
<1>6. << >> \in Seq(Trees)
  OBVIOUS
<1>7. NoneTypes
  BY <1>3, <1>4, <1>5, <1>6 DEF NoneTypes
<1>8. NoneContext(reducedClauses, Nil, Nil, Nil, Cause)
  BY DEF NoneContext
<1>9. NoneContextTypes(Nil, Nil, Nil)
  BY DEF NoneContextTypes
<1>10. NoneKept = reducedClauses
  BY <1>3 DEF NoneKept
<1>11. NoneProgress
  BY <1>3, <1>4, <1>8, <1>10 DEF NoneProgress
<1> QED
  BY <1>4, <1>7, <1>9, <1>11 DEF NoneInv

(* A proposal of the strategy, when the context that it leaves behind is   *)
(* right about what the verdict keeps.                                     *)
LEMMA ProposalKeepsNoneInv ==
  ASSUME NEW s \in Queries, NEW done \in BOOLEAN, NoneInv, Propose(s, done),
         UNCHANGED failure,
         lastTransformedExpressionIndex' \in {Nil} \cup Nat,
         doneReducingExpressions' \in BOOLEAN,
         lastTransformedClauseIndex' # Nil => doneReducingExpressions',
         NoneContext(IF Shows(s, Cause) THEN s ELSE reducedClauses,
                 lastRemovedRootClauseIndex', reducedStatementIndex',
                 lastTransformedClauseIndex', Cause),
         done => s = reducedClauses /\ reducedStatementIndex' = Len(s)
  PROVE  NoneInv'
<1>1. /\ pc' = "run" /\ newClauses' = s /\ isDone' = done
      /\ UNCHANGED <<reducedClauses, fullReduction, prevStatements, curStatements, trigger>>
  BY DEF Propose
<1>12. Cause' = Cause
  BY <1>1 DEF Cause
<1>2. NoneTypes
  BY DEF NoneInv
<1>3. reducedClauses \in Queries /\ s \in Seq(Trees)
  BY <1>2 DEF NoneTypes, Queries
<1>4. PICK u : u = IF Shows(s, Cause) THEN s ELSE reducedClauses
  OBVIOUS
<1>5. u \in Queries
  BY <1>3, <1>4
<1>6. NoneTypes'
  BY <1>1, <1>2, <1>3 DEF NoneTypes
<1>7. NoneKept' = u
  <2>1. Shows(newClauses, Cause)' <=> Shows(s, Cause)
    BY <1>1, <1>12
  <2> QED
    BY <1>1, <1>4, <2>1 DEF NoneKept
<1>8. NoneContext(u, lastRemovedRootClauseIndex', reducedStatementIndex',
              lastTransformedClauseIndex', Cause')
  BY <1>4, <1>12
<1>9. NoneContextTypes(lastRemovedRootClauseIndex', reducedStatementIndex',
                   lastTransformedClauseIndex')
  BY <1>5, <1>8, ContextIsTyped
<1>10. done => reducedStatementIndex' = Len(u)
  BY <1>4
<1>11. NoneProgress'
  BY <1>1, <1>7, <1>8, <1>10 DEF NoneProgress
<1> QED
  BY <1>6, <1>9, <1>11 DEF NoneInv

LEMMA RemoveStatementStep ==
  ASSUME NoneInv, RemoveStatement
  PROVE  NoneInv'
<1>1. PICK q, x : q = reducedClauses /\ x = NoneIndexToRemove
  OBVIOUS
<1>2. PICK s : s = WithoutStatement(q, x + 1)
  OBVIOUS
<1>3. NoneTypes /\ NoneProgress /\ q \in Queries /\ pc = "step"
  BY <1>1 DEF NoneInv, NoneTypes, RemoveStatement, Propose
<1>4. NoneContext(q, lastRemovedRootClauseIndex, reducedStatementIndex,
              lastTransformedClauseIndex, Cause)
  BY <1>1, <1>3 DEF NoneProgress, NoneKept
<1>5. x = Default(lastRemovedRootClauseIndex, Len(q) - 2) /\ x >= 0
  BY <1>1 DEF RemoveStatement, NoneIndexToRemove, FirstToRemove
<1>6. /\ s \in Queries
      /\ Shows(s, Cause) =>
           NoneContext(s, x - 1, reducedStatementIndex, lastTransformedClauseIndex, Cause)
      /\ ~Shows(s, Cause) =>
           NoneContext(q, x - 1, reducedStatementIndex, lastTransformedClauseIndex, Cause)
  BY <1>2, <1>3, <1>4, <1>5, RemovalKeepsContext
<1>7. x \in Int
  <2>1. Len(q) \in Int /\ lastRemovedRootClauseIndex \in {Nil} \cup (-1 .. Len(q) - 2)
    BY <1>3, <1>4, TreesAreSeqs DEF NoneContext, Queries
  <2> QED
    BY <1>5, <2>1 DEF Default
<1>8. (x + 1) - 1 = x /\ (x + 1) + 1 = x + 2
  BY <1>7
<1>9. s = SubSeq(q, 1, x) \o SubSeq(q, x + 2, Len(q))
  BY <1>2, <1>8 DEF WithoutStatement
<1>10. /\ Propose(s, FALSE)
       /\ lastRemovedRootClauseIndex' = x - 1
       /\ UNCHANGED <<failure, reducedStatementIndex, lastTransformedExpressionIndex,
                      doneReducingExpressions, lastTransformedClauseIndex>>
  BY <1>1, <1>9 DEF RemoveStatement
<1>11. /\ lastTransformedExpressionIndex' \in {Nil} \cup Nat
       /\ doneReducingExpressions' \in BOOLEAN
       /\ lastTransformedClauseIndex' # Nil => doneReducingExpressions'
  BY <1>3, <1>10 DEF NoneTypes, NoneProgress
<1>12. NoneContext(IF Shows(s, Cause) THEN s ELSE reducedClauses,
               lastRemovedRootClauseIndex', reducedStatementIndex',
               lastTransformedClauseIndex', Cause)
  BY <1>1, <1>6, <1>10
<1> QED
  BY <1>6, <1>10, <1>11, <1>12, ProposalKeepsNoneInv

(* The position and the statement of a step in a statement. *)
LEMMA CurrentStatement ==
  ASSUME NoneInv, pc = "step", InStatement,
         NEW q, q = reducedClauses, NEW x, x = Index
  PROVE  /\ q \in Queries /\ q[x + 1] \in Trees /\ Current = q[x + 1]
         /\ x = Default(reducedStatementIndex, 0) /\ x < Len(q)
         /\ Default(lastRemovedRootClauseIndex, Len(q) - 2) < 0
         /\ NoneIndexToRemove = Default(lastRemovedRootClauseIndex, Len(q) - 2)
         /\ NoneContext(q, lastRemovedRootClauseIndex, reducedStatementIndex,
                    lastTransformedClauseIndex, Cause)
         /\ lastTransformedClauseIndex # Nil => doneReducingExpressions
<1>1. NoneTypes /\ NoneProgress /\ q \in Queries
  BY DEF NoneInv, NoneTypes
<1>2. /\ NoneContext(q, lastRemovedRootClauseIndex, reducedStatementIndex,
                 lastTransformedClauseIndex, Cause)
      /\ lastTransformedClauseIndex # Nil => doneReducingExpressions
  BY <1>1 DEF NoneProgress, NoneKept
<1>3. /\ x = Default(reducedStatementIndex, 0) /\ x < Len(q)
      /\ NoneIndexToRemove = Default(lastRemovedRootClauseIndex, Len(q) - 2)
      /\ NoneIndexToRemove < 0
      /\ Current = q[x + 1]
  BY DEF InStatement, Index, NoneIndexToRemove, FirstToRemove, Current
<1>4. q[x + 1] \in Trees
  <2>1. q \in Seq(Trees) /\ Len(q) \in Nat
    BY <1>1, TreesAreSeqs DEF Queries
  <2>2. x \in Nat
    BY <1>2, <1>3, <2>1 DEF Default, NoneContext
  <2>3. x + 1 \in 1 .. Len(q)
    BY <1>3, <2>1, <2>2
  <2> QED
    BY <2>1, <2>3, ElementOfSeq
<1> QED
  BY <1>1, <1>2, <1>3, <1>4

(* An expression at an index that ReduceStep reaches. *)
LEMMA ReducedExpression ==
  ASSUME NEW t \in Trees, NEW e \in Nat, e < Cardinality(Expressions(t))
  PROVE  /\ transformExpressionByIndex(t, e) \in Trees
         /\ PartsIn(transformExpressionByIndex(t, e)) \subseteq PartsIn(t)
<1>1. Len(t) \in Nat /\ DOMAIN t = 1 .. Len(t)
  BY LenProperties DEF Trees
<1>2. PICK i : i = Nth(Expressions(t), e)
  OBVIOUS
<1>3. i \in Expressions(t)
  <2>1. Expressions(t) \in SUBSET Nat /\ \A j \in Expressions(t) : j <= Len(t)
    BY <1>1 DEF Expressions
  <2> QED
    BY <1>1, <1>2, <2>1, NthIsElement
<1>4. i \in 1 .. Len(t) /\ t[i].kind = "expression"
  BY <1>1, <1>3 DEF Expressions
<1>5. transformExpressionByIndex(t, e) = Reduced(t, i)
  BY <1>2, <1>4 DEF transformExpressionByIndex, Reduced, NoStrategyReduce
<1>6. PICK r : r = Reduced(t, i)
  OBVIOUS
<1>7. r \in Trees /\ PartsIn(r) \subseteq PartsIn(t)
  BY <1>4, <1>6, ReducedIsMonotone
<1> QED
  BY <1>5, <1>6, <1>7

LEMMA ReduceExpressionStep ==
  ASSUME NoneInv, ReduceExpression
  PROVE  NoneInv'
<1>1. PICK q, x, e : q = reducedClauses /\ x = Index /\ e = ExpressionIndex
  OBVIOUS
<1>2. pc = "step" /\ InStatement /\ ~doneReducingExpressions
  BY DEF ReduceExpression, ProposeStatement, Propose
<1>3. /\ q \in Queries /\ q[x + 1] \in Trees /\ Current = q[x + 1]
      /\ x = Default(reducedStatementIndex, 0) /\ x < Len(q)
      /\ Default(lastRemovedRootClauseIndex, Len(q) - 2) < 0
      /\ NoneIndexToRemove = Default(lastRemovedRootClauseIndex, Len(q) - 2)
      /\ NoneContext(q, lastRemovedRootClauseIndex, reducedStatementIndex,
                 lastTransformedClauseIndex, Cause)
      /\ lastTransformedClauseIndex # Nil => doneReducingExpressions
  BY <1>1, <1>2, CurrentStatement
<1>4. /\ lastTransformedClauseIndex = Nil
      /\ NoneContext(q, lastRemovedRootClauseIndex, reducedStatementIndex, Nil, Cause)
  BY <1>2, <1>3
<1>5. NoneTypes
  BY DEF NoneInv
<1>6. e \in Nat /\ e + 1 \in Nat
  BY <1>1, <1>5 DEF NoneTypes, ExpressionIndex, Default, Nil
<1>7. /\ lastTransformedExpressionIndex' = e + 1
      /\ lastRemovedRootClauseIndex' = Default(lastRemovedRootClauseIndex, Len(q) - 2)
      /\ reducedStatementIndex' = x
      /\ lastTransformedClauseIndex' = Nil
      /\ UNCHANGED failure
  BY <1>1, <1>3, <1>4 DEF ReduceExpression, KeepIndices
<1>8. PICK t \in Trees : /\ PartsIn(t) \subseteq PartsIn(q[x + 1])
                         /\ ProposeStatement(t)
                         /\ doneReducingExpressions' \in BOOLEAN
  <2>1. CASE e < Cardinality(Expressions(Current))
    <3>1. PICK t : t = transformExpressionByIndex(q[x + 1], e)
      OBVIOUS
    <3>2. t \in Trees /\ PartsIn(t) \subseteq PartsIn(q[x + 1])
      BY <1>3, <1>6, <2>1, <3>1, ReducedExpression
    <3>3. ProposeStatement(t) /\ doneReducingExpressions' = doneReducingExpressions
      BY <1>1, <1>3, <2>1, <3>1 DEF ReduceExpression
    <3>4. doneReducingExpressions' \in BOOLEAN
      BY <1>5, <3>3 DEF NoneTypes
    <3> QED
      BY <3>2, <3>3, <3>4
  <2>2. CASE ~(e < Cardinality(Expressions(Current)))
    <3>1. ProposeStatement(Current) /\ doneReducingExpressions' = TRUE
      BY <1>1, <2>2 DEF ReduceExpression
    <3>2. ProposeStatement(q[x + 1])
      BY <1>3, <3>1
    <3> QED
      BY <1>3, <3>1, <3>2
  <2> QED
    BY <2>1, <2>2
<1>9. PICK s : s = [q EXCEPT ![x + 1] = t]
  OBVIOUS
<1>10. /\ s \in Queries
       /\ NoneContext(s, Default(lastRemovedRootClauseIndex, Len(q) - 2), x, Nil, Cause)
       /\ NoneContext(q, Default(lastRemovedRootClauseIndex, Len(q) - 2), x, Nil, Cause)
  BY <1>3, <1>4, <1>8, <1>9, ExpressionKeepsContext
<1>11. Propose(s, FALSE)
  BY <1>1, <1>8, <1>9 DEF ProposeStatement
<1>12. NoneContext(IF Shows(s, Cause) THEN s ELSE reducedClauses,
               lastRemovedRootClauseIndex', reducedStatementIndex',
               lastTransformedClauseIndex', Cause)
  BY <1>1, <1>7, <1>10
<1> QED
  BY <1>6, <1>7, <1>8, <1>10, <1>11, <1>12, ProposalKeepsNoneInv

LEMMA ReduceClauseStep ==
  ASSUME NoneInv, ReduceClause
  PROVE  NoneInv'
<1>1. PICK q, x, target : q = reducedClauses /\ x = Index /\ target = TargetIndex
  OBVIOUS
<1>2. pc = "step" /\ InStatement /\ doneReducingExpressions
  BY DEF ReduceClause, ProposeStatement, Propose
<1>3. /\ q \in Queries /\ q[x + 1] \in Trees /\ Current = q[x + 1]
      /\ x = Default(reducedStatementIndex, 0) /\ x < Len(q)
      /\ Default(lastRemovedRootClauseIndex, Len(q) - 2) < 0
      /\ NoneIndexToRemove = Default(lastRemovedRootClauseIndex, Len(q) - 2)
      /\ NoneContext(q, lastRemovedRootClauseIndex, reducedStatementIndex,
                 lastTransformedClauseIndex, Cause)
  BY <1>1, <1>2, CurrentStatement
<1>4. target = Default(lastTransformedClauseIndex, Len(q[x + 1]))
  BY <1>1, <1>3 DEF TargetIndex, FirstTarget, getNodesCount
<1>5. PICK s : s = [q EXCEPT ![x + 1] = transformClauseAtIndex(q[x + 1], target)]
  OBVIOUS
<1>6. PICK u : u = IF Shows(s, Cause) THEN s ELSE q
  OBVIOUS
<1>7. /\ s \in Queries /\ target \in Nat
      /\ Default(lastRemovedRootClauseIndex, Len(q) - 2) = -1
      /\ target = 0 => NoneContext(u, -1, x + 1, Nil, Cause)
      /\ target # 0 => NoneContext(u, -1, x, target - 1, Cause)
  BY <1>3, <1>4, <1>5, <1>6, ClauseKeepsContext
<1>8. Propose(s, FALSE) /\ NextTarget(target) /\ UNCHANGED failure
  BY <1>1, <1>3, <1>5 DEF ReduceClause, ProposeStatement
<1>9. NoneTypes
  BY DEF NoneInv
<1>10. /\ lastTransformedExpressionIndex' \in {Nil} \cup Nat
       /\ doneReducingExpressions' \in BOOLEAN
       /\ lastTransformedClauseIndex' # Nil => doneReducingExpressions'
       /\ NoneContext(u, lastRemovedRootClauseIndex', reducedStatementIndex',
                  lastTransformedClauseIndex', Cause)
  <2>1. CASE target = 0
    <3>1. /\ lastRemovedRootClauseIndex' = -1 /\ reducedStatementIndex' = x + 1
          /\ lastTransformedExpressionIndex' = Nil /\ doneReducingExpressions' = FALSE
          /\ lastTransformedClauseIndex' = Nil
      BY <1>1, <1>8, <2>1 DEF NextTarget
    <3> QED
      BY <1>7, <2>1, <3>1
  <2>2. CASE target # 0
    <3>1. /\ lastRemovedRootClauseIndex' = -1 /\ reducedStatementIndex' = x
          /\ lastTransformedClauseIndex' = target - 1
          /\ UNCHANGED <<lastTransformedExpressionIndex, doneReducingExpressions>>
      BY <1>1, <1>3, <1>7, <1>8, <2>2 DEF NextTarget, KeepIndices
    <3> QED
      BY <1>2, <1>7, <1>9, <2>2, <3>1 DEF NoneTypes
  <2> QED
    BY <2>1, <2>2
<1>11. NoneContext(IF Shows(s, Cause) THEN s ELSE reducedClauses,
               lastRemovedRootClauseIndex', reducedStatementIndex',
               lastTransformedClauseIndex', Cause)
  BY <1>1, <1>6, <1>10
<1> QED
  BY <1>7, <1>8, <1>10, <1>11, ProposalKeepsNoneInv

(* The context stays as it is when every statement was reduced. *)
LEMMA NoneFinishPassStep ==
  ASSUME NoneInv, NoneFinishPass
  PROVE  NoneInv'
<1>1. PICK q : q = reducedClauses
  OBVIOUS
<1>2. NoneTypes /\ NoneProgress /\ q \in Queries /\ pc = "step"
  BY <1>1 DEF NoneInv, NoneTypes, NoneFinishPass, Propose
<1>3. /\ NoneContext(q, lastRemovedRootClauseIndex, reducedStatementIndex,
                 lastTransformedClauseIndex, Cause)
      /\ lastTransformedClauseIndex # Nil => doneReducingExpressions
  BY <1>1, <1>2 DEF NoneProgress, NoneKept
<1>4. /\ NoneIndexToRemove = Default(lastRemovedRootClauseIndex, Len(q) - 2)
      /\ Index = Default(reducedStatementIndex, 0) /\ Index = Len(q)
  BY <1>1 DEF NoneFinishPass, NoneIndexToRemove, FirstToRemove, Index
<1>5. Len(q) \in Nat /\ 1 <= Len(q)
  BY <1>2, TreesAreSeqs DEF Queries
<1>6. reducedStatementIndex # Nil /\ reducedStatementIndex = Len(q)
  BY <1>4, <1>5 DEF Default
<1>7. lastRemovedRootClauseIndex = -1 /\ NoneIndexToRemove = -1
  <2>1. lastRemovedRootClauseIndex = -1
    BY <1>3, <1>6 DEF NoneContext
  <2>2. -1 # Nil
    BY DEF Nil
  <2> QED
    BY <1>4, <2>1, <2>2 DEF Default
<1>8. /\ Propose(q, TRUE)
      /\ lastRemovedRootClauseIndex' = -1 /\ reducedStatementIndex' = Len(q)
      /\ UNCHANGED <<failure, lastTransformedExpressionIndex, doneReducingExpressions,
                     lastTransformedClauseIndex>>
  BY <1>1, <1>4, <1>7 DEF NoneFinishPass, KeepIndices
<1>9. NoneContext(IF Shows(q, Cause) THEN q ELSE reducedClauses,
              lastRemovedRootClauseIndex', reducedStatementIndex',
              lastTransformedClauseIndex', Cause)
  BY <1>1, <1>3, <1>6, <1>7, <1>8
<1>10. /\ lastTransformedExpressionIndex' \in {Nil} \cup Nat
       /\ doneReducingExpressions' \in BOOLEAN
       /\ lastTransformedClauseIndex' # Nil => doneReducingExpressions'
  BY <1>2, <1>3, <1>8 DEF NoneTypes
<1> QED
  BY <1>1, <1>2, <1>8, <1>9, <1>10, ProposalKeepsNoneInv

LEMMA NoneValidateStep ==
  ASSUME NoneInv, NoneValidate
  PROVE  NoneInv'
<1>1. NoneTypes /\ NoneProgress
  BY DEF NoneInv
<1>2. /\ pc = "run" /\ pc' \in {"step", "report"} /\ (pc' = "report" => isDone)
      /\ curStatements' = newClauses
      /\ reducedClauses' = IF Shows(newClauses, Cause) THEN newClauses ELSE reducedClauses
      /\ prevStatements' \in {prevStatements, newClauses}
      /\ UNCHANGED <<newClauses, isDone, fullReduction, bugreport, trigger>>
  <2>1. NoneValidateReductionResult(newClauses) <=> Shows(newClauses, Cause)
    BY <1>1, NoneVerdictIsCause DEF NoneTypes
  <2> QED
    BY <2>1 DEF NoneValidate, RunProposal
<1>3. UNCHANGED <<failure, noneCtx>>
  BY DEF NoneValidate
<1>9. Cause' = Cause
  BY <1>2, <1>3 DEF Cause
<1>4. reducedClauses' = NoneKept /\ NoneKept' = NoneKept
  BY <1>2 DEF NoneKept
<1>5. NoneKept \in Queries
  BY <1>1, <1>2 DEF NoneTypes, NoneKept
<1>6. NoneTypes'
  BY <1>1, <1>2, <1>3, <1>4, <1>5 DEF NoneTypes, noneCtx
<1>7. NoneProgress'
  BY <1>1, <1>2, <1>3, <1>4, <1>9 DEF NoneProgress, noneCtx
<1>8. NoneContextTypes(lastRemovedRootClauseIndex, reducedStatementIndex,
                   lastTransformedClauseIndex)'
  BY <1>3 DEF NoneInv, noneCtx
<1> QED
  BY <1>6, <1>7, <1>8 DEF NoneInv

LEMMA NoneLastSteps ==
  ASSUME NoneInv, NoneFail \/ NoneReport \/ UNCHANGED noneVars
  PROVE  NoneInv'
<1>1. NoneTypes /\ NoneProgress
  BY DEF NoneInv
<1>2. /\ UNCHANGED <<failure, noneCtx>>
      /\ UNCHANGED <<reducedClauses, newClauses, isDone, fullReduction, prevStatements,
                     curStatements, trigger>>
  BY DEF NoneFail, RunFails, NoneReport, CreateBugreport, noneVars, loopVars
<1>3. Cause' = Cause /\ (Shows(newClauses, Cause)' <=> Shows(newClauses, Cause))
  <2>1. Cause' = Cause
    BY <1>2 DEF Cause
  <2> QED
    BY <1>2, <2>1
<1>4. pc' = "failed" \/ (pc = "report" /\ pc' = "done") \/ pc' = pc
  BY DEF NoneFail, RunFails, NoneReport, CreateBugreport, noneVars, loopVars
<1>5. NoneTypes'
  BY <1>1, <1>2, <1>4 DEF NoneTypes, noneCtx
<1>6. NoneProgress'
  <2>1. CASE pc' = "failed"
    BY <2>1 DEF NoneProgress
  <2>2. CASE pc' # "failed"
    <3>1. NoneKept' = NoneKept
      BY <1>2, <1>3, <1>4, <2>2 DEF NoneKept
    <3> QED
      BY <1>1, <1>2, <1>3, <1>4, <2>2, <3>1 DEF NoneProgress, noneCtx
  <2> QED
    BY <2>1, <2>2
<1>7. NoneContextTypes(lastRemovedRootClauseIndex, reducedStatementIndex,
                   lastTransformedClauseIndex)'
  BY <1>2 DEF NoneInv, noneCtx
<1> QED
  BY <1>5, <1>6, <1>7 DEF NoneInv

(***************************************************************************)
(* What the context says is true of what is kept (IInv).                   *)
(***************************************************************************)
THEOREM ContextIsTrue == NoneSpec => []NoneInv
<1>1. NoneInit => NoneInv
  BY InitialContext
<1>2. NoneInv /\ [NoneNext]_noneVars => NoneInv'
  <2> SUFFICES ASSUME NoneInv, [NoneNext]_noneVars PROVE NoneInv'
    OBVIOUS
  <2>1. CASE RemoveStatement
    BY <2>1, RemoveStatementStep
  <2>2. CASE ReduceExpression
    BY <2>2, ReduceExpressionStep
  <2>3. CASE ReduceClause
    BY <2>3, ReduceClauseStep
  <2>4. CASE NoneFinishPass
    BY <2>4, NoneFinishPassStep
  <2>5. CASE NoneValidate
    BY <2>5, NoneValidateStep
  <2>6. CASE NoneFail \/ NoneReport \/ UNCHANGED noneVars
    BY <2>6, NoneLastSteps
  <2> QED
    BY <2>1, <2>2, <2>3, <2>4, <2>5, <2>6 DEF NoneNext
<1> QED
  BY <1>1, <1>2, PTL DEF NoneSpec

(***************************************************************************)
(* What a reduction keeps and proposes are trees, and its indices stay     *)
(* within the bounds of the statements (TypeOK).                           *)
(***************************************************************************)
THEOREM TypeIsOK == NoneSpec => []NoneTypeOK
<1>1. NoneInv => NoneTypeOK
  <2> SUFFICES ASSUME NoneInv PROVE NoneTypeOK
    OBVIOUS
  <2>1. NoneTypes
    BY DEF NoneInv
  <2>2. ASSUME NEW q \in Seq(Trees), NEW k \in DOMAIN q
        PROVE  IsTree(q[k])
    <3>1. q[k] \in Trees
      BY <2>2, TreesAreSeqs
    <3> QED
      BY <3>1 DEF Trees
  <2>3. reducedClauses \in Seq(Trees)
    BY <2>1 DEF NoneTypes, Queries
  <2>4. \A statements \in {reducedClauses, newClauses, prevStatements, curStatements} :
          statements \in Seq(Trees)
    BY <2>1, <2>3 DEF NoneTypes
  <2>5. \A statements \in {reducedClauses, newClauses, prevStatements, curStatements} :
          \A k \in DOMAIN statements : IsTree(statements[k])
    BY <2>2, <2>4
  <2> QED
    BY <2>1, <2>5 DEF NoneInv, NoneTypeOK, NoneTypes, NoneContextTypes
<1> QED
  BY <1>1, ContextIsTrue, PTL

(***************************************************************************)
(* A report would not be accepted without one of its statements, or with   *)
(* one of its clauses replaced by something smaller (NothingLeftOver).     *)
(***************************************************************************)
THEOREM NothingIsLeftOver == NoneSpec => []NothingLeftOver
<1>1. NoneInv => NothingLeftOver
  <2> SUFFICES ASSUME NoneInv, pc = "done" PROVE
        /\ \A k \in 1 .. Len(reducedClauses) - 1 :
             ~NoneValidateReductionResult(WithoutStatement(reducedClauses, k))
        /\ \A k \in DOMAIN reducedClauses : \A i \in Untried(reducedClauses[k]) :
             ~NoneValidateReductionResult(WithReduced(reducedClauses, k, i))
    BY DEF NothingLeftOver
  <2>1. PICK q : q = reducedClauses
    OBVIOUS
  <2>2. NoneTypes /\ NoneProgress /\ q \in Queries
    BY <2>1 DEF NoneInv, NoneTypes
  <2>3. /\ NoneContext(q, lastRemovedRootClauseIndex, reducedStatementIndex,
                   lastTransformedClauseIndex, Cause)
        /\ reducedStatementIndex = Len(q)
    BY <2>1, <2>2 DEF NoneProgress, NoneKept
  <2>4. q \in Seq(Trees) /\ Len(q) \in Nat /\ DOMAIN q = 1 .. Len(q)
    BY <2>2, TreesAreSeqs DEF Queries
  <2>5. reducedStatementIndex # Nil /\ lastRemovedRootClauseIndex = -1
    BY <2>3, <2>4 DEF NoneContext, Nil
  <2>8. failure \in {"error", "crash"}
    BY <2>2 DEF NoneTypes
  <2>6. ASSUME NEW k \in 1 .. Len(q) - 1
        PROVE  ~NoneValidateReductionResult(WithoutStatement(q, k))
    <3>1. Needed(q, k, Cause)
      BY <2>3, <2>5 DEF NoneContext, Nil
    <3> QED
      BY <2>8, <3>1, NoneVerdictIsCause DEF Needed
  <2>7. ASSUME NEW k \in DOMAIN q, NEW i \in Untried(q[k])
        PROVE  ~NoneValidateReductionResult(WithReduced(q, k, i))
    <3>1. Settled(q, k, 1, Cause)
      BY <2>3, <2>4, <2>5 DEF NoneContext
    <3>2. q[k] \in Trees
      BY <2>4, TreesAreSeqs
    <3>3. i >= 1
      BY <3>2, UntriedPositions
    <3> QED
      BY <2>8, <3>1, <3>3, NoneVerdictIsCause DEF Settled
  <2> QED
    BY <2>1, <2>6, <2>7
<1> QED
  BY <1>1, ContextIsTrue, PTL

-----------------------------------------------------------------------------
(***************************************************************************)
(* A step of the strategy changes neither what is kept nor the report.     *)
(***************************************************************************)
LEMMA StepsOnlyPropose ==
  ASSUME RemoveStatement \/ ReduceExpression \/ ReduceClause \/ NoneFinishPass
  PROVE  /\ pc = "step" /\ pc' = "run"
         /\ UNCHANGED <<reducedClauses, bugreport, trigger, failure>>
<1>1. CASE RemoveStatement
  BY <1>1 DEF RemoveStatement, Propose
<1>2. CASE ReduceExpression
  BY <1>2 DEF ReduceExpression, ProposeStatement, Propose
<1>3. CASE ReduceClause
  BY <1>3 DEF ReduceClause, ProposeStatement, Propose
<1>4. CASE NoneFinishPass
  BY <1>4 DEF NoneFinishPass, Propose
<1>5. QED  BY <1>1, <1>2, <1>3, <1>4

(***************************************************************************)
(* Every behaviour of a reduction keeps a query that shows the bug, and    *)
(* reports one, if the bug shows as an error (ReducedShowsBug).            *)
(***************************************************************************)
THEOREM ReductionIsSound == NoneSpec => []ReducedShowsBug
<1>1. NoneInit => ReducedShowsBug
  <2> SUFFICES ASSUME NoneInit PROVE ReducedShowsBug
    OBVIOUS
  <2>1. PICK statements : LoopInit(statements) /\ trigger \in SUBSET Parts(statements)
    BY DEF NoneInit
  <2>2. reducedClauses = statements /\ pc = "step"
    BY <2>1 DEF LoopInit
  <2>3. Triggered(reducedClauses)
    BY <2>1, <2>2 DEF Triggered
  <2>4. QED  BY <2>2, <2>3 DEF ReducedShowsBug
<1>2. ReducedShowsBug /\ [NoneNext]_noneVars => ReducedShowsBug'
  <2> SUFFICES ASSUME ReducedShowsBug, [NoneNext]_noneVars PROVE ReducedShowsBug'
    OBVIOUS
  <2> USE DEF ReducedShowsBug, Triggered
  <2>1. CASE RemoveStatement \/ ReduceExpression \/ ReduceClause \/ NoneFinishPass
    <3>1. UNCHANGED <<reducedClauses, bugreport, trigger, failure>> /\ pc' = "run"
      BY <2>1, StepsOnlyPropose
    <3>2. Parts(reducedClauses)' = Parts(reducedClauses)
      BY <3>1 DEF Parts, Clauses
    <3>3. QED  BY <3>1, <3>2
  <2>2. CASE NoneValidate
    <3>1. /\ pc' \in {"step", "report"}
          /\ reducedClauses' = IF NoneValidateReductionResult(newClauses) THEN newClauses
                                 ELSE reducedClauses
          /\ trigger' = trigger /\ failure' = failure
      BY <2>2 DEF NoneValidate, RunProposal
    <3>2. ASSUME failure = "error", NoneValidateReductionResult(newClauses)
          PROVE  Triggered(newClauses)
      <4>1. << "rows" >> # << "error" >>
        OBVIOUS
      <4> QED
        BY <3>2, <4>1 DEF NoneValidateReductionResult, LastResult, HasError
    <3>3. failure = "error" => Triggered(reducedClauses')
      BY <3>1, <3>2
    <3>4. Parts(reducedClauses)' = Parts(reducedClauses')
      BY DEF Parts, Clauses
    <3>5. QED  BY <3>1, <3>3, <3>4
  <2>3. CASE NoneFail
    <3>1. UNCHANGED <<reducedClauses, bugreport, trigger, failure>> /\ pc' = "failed"
      BY <2>3 DEF NoneFail, RunFails
    <3>2. Parts(reducedClauses)' = Parts(reducedClauses)
      BY <3>1 DEF Parts, Clauses
    <3>3. QED  BY <3>1, <3>2
  <2>4. CASE NoneReport
    <3>1. /\ UNCHANGED <<reducedClauses, trigger, failure>>
          /\ bugreport' = [query |-> reducedClauses, lastResult |-> LastResult(reducedClauses)]
      BY <2>4 DEF NoneReport, CreateBugreport
    <3>2. Parts(reducedClauses)' = Parts(reducedClauses)
      BY <3>1 DEF Parts, Clauses
    <3>3. failure = "error" => bugreport'.lastResult = << "error" >>
      BY <3>1 DEF LastResult
    <3>4. QED  BY <3>1, <3>2, <3>3
  <2>5. CASE UNCHANGED noneVars
    <3>1. UNCHANGED <<pc, reducedClauses, bugreport, trigger, failure>>
      BY <2>5 DEF noneVars, loopVars
    <3>2. Parts(reducedClauses)' = Parts(reducedClauses)
      BY <3>1 DEF Parts, Clauses
    <3>3. QED  BY <3>1, <3>2
  <2>6. QED  BY <2>1, <2>2, <2>3, <2>4, <2>5 DEF NoneNext
<1>3. QED  BY <1>1, <1>2, PTL DEF NoneSpec


-----------------------------------------------------------------------------
(* Halves that mean the same. *)

LEMMA NodeEqual ==
  ASSUME NEW a \in Nodes, NEW b \in Nodes,
         a.id = b.id, a.kind = b.kind, a.depth = b.depth, a.use = b.use
  PROVE  a = b
BY DEF Nodes

(* A statement without its transformations.                                *)
LEMMA MeaningShape ==
  ASSUME NEW t \in Seq(Nodes)
  PROVE  /\ Meaning(t) \in Seq(Nodes) /\ Len(Meaning(t)) = Len(t)
         /\ \A i \in 1 .. Len(t) :
              /\ Meaning(t)[i].id = t[i].id /\ Meaning(t)[i].kind = t[i].kind
              /\ Meaning(t)[i].depth = t[i].depth /\ Meaning(t)[i].use = "plain"
<1>1. Len(t) \in Nat /\ DOMAIN t = 1 .. Len(t) /\ \A i \in 1 .. Len(t) : t[i] \in Nodes
  BY TreeShape
<1>2. ASSUME NEW c \in Nodes
      PROVE  /\ [c EXCEPT !.use = "plain"] \in Nodes
             /\ [c EXCEPT !.use = "plain"].id = c.id /\ [c EXCEPT !.use = "plain"].kind = c.kind
             /\ [c EXCEPT !.use = "plain"].depth = c.depth
             /\ [c EXCEPT !.use = "plain"].use = "plain"
  BY DEF Nodes, Uses
<1>3. Meaning(t) = [i \in 1 .. Len(t) |-> [t[i] EXCEPT !.use = "plain"]]
  BY <1>1 DEF Meaning
<1>4. PICK n : n = Len(t)
  OBVIOUS
<1>5. \A i \in 1 .. n : [t[i] EXCEPT !.use = "plain"] \in Nodes
  BY <1>1, <1>2, <1>4
<1>6. Meaning(t) \in [1 .. n -> Nodes]
  BY <1>3, <1>4, <1>5
<1>7. Meaning(t) \in Seq(Nodes) /\ Len(Meaning(t)) = n
  BY <1>1, <1>4, <1>6
<1>8. ASSUME NEW i \in 1 .. n
      PROVE  /\ Meaning(t)[i].id = t[i].id /\ Meaning(t)[i].kind = t[i].kind
             /\ Meaning(t)[i].depth = t[i].depth /\ Meaning(t)[i].use = "plain"
  <2>1. Meaning(t)[i] = [t[i] EXCEPT !.use = "plain"] /\ t[i] \in Nodes
    BY <1>1, <1>3, <1>4
  <2> QED
    BY <1>2, <2>1
<1> QED
  BY <1>4, <1>7, <1>8

(* What means the same as t, and is plain.                                 *)
LEMMA MeaningIs ==
  ASSUME NEW t \in Seq(Nodes), NEW u \in Seq(Nodes), Len(u) = Len(t),
         \A i \in 1 .. Len(t) : /\ u[i].id = t[i].id /\ u[i].kind = t[i].kind
                                /\ u[i].depth = t[i].depth /\ u[i].use = "plain"
  PROVE  u = Meaning(t)
<1>1. PICK v : v = Meaning(t)
  OBVIOUS
<1>2. /\ v \in Seq(Nodes) /\ Len(v) = Len(t)
      /\ \A i \in 1 .. Len(t) :
           /\ v[i].id = t[i].id /\ v[i].kind = t[i].kind
           /\ v[i].depth = t[i].depth /\ v[i].use = "plain"
  BY <1>1, MeaningShape
<1>3. ASSUME NEW i \in 1 .. Len(u) PROVE u[i] = v[i]
  <2>1. i \in 1 .. Len(t) /\ u[i] \in Nodes /\ v[i] \in Nodes
    BY <1>2, TreeShape
  <2>2. u[i].id = v[i].id /\ u[i].kind = v[i].kind /\ u[i].depth = v[i].depth /\ u[i].use = v[i].use
    BY <1>2, <2>1
  <2> QED
    BY <2>1, <2>2, NodeEqual
<1>4. u = v
  BY <1>2, <1>3, SeqEqual
<1> QED
  BY <1>1, <1>4

(* A statement with the kinds and depths of a tree is one.                 *)
LEMMA SameShapeIsTree ==
  ASSUME NEW t \in Trees, NEW u \in Seq(Nodes), Len(u) = Len(t),
         \A i \in 1 .. Len(t) : u[i].kind = t[i].kind /\ u[i].depth = t[i].depth
  PROVE  u \in Trees
<1>1. t \in Seq(Nodes) /\ IsTree(t) /\ ChainsHoldClauses(t)
  BY DEF Trees
<1>2. Len(t) \in Nat /\ DOMAIN t = 1 .. Len(t) /\ DOMAIN u = 1 .. Len(t)
  BY <1>1, TreeShape
<1>3. IsTree(u)
  <2> SUFFICES ASSUME NEW i \in 1 .. Len(t)
               PROVE  /\ u[i].kind \in Kinds /\ u[i].use \in Uses
                      /\ u[i].depth \in IF i = 1 THEN {0} ELSE 1 .. u[i - 1].depth + 1
    BY <1>2 DEF IsTree
  <2>1. /\ t[i].kind \in Kinds
        /\ t[i].depth \in IF i = 1 THEN {0} ELSE 1 .. t[i - 1].depth + 1
    BY <1>1, <1>2 DEF IsTree
  <2>2. i # 1 => i - 1 \in 1 .. Len(t)
    BY <1>2
  <2>3. i # 1 => u[i - 1].depth = t[i - 1].depth
    BY <2>2
  <2>4. u[i].use \in Uses
    BY TreeShape DEF Nodes
  <2> QED
    BY <2>1, <2>3, <2>4
<1>4. ChainsHoldClauses(u)
  <2> SUFFICES ASSUME NEW i \in 1 .. Len(t), u[i].kind = "chain"
               PROVE  i < Len(u) /\ u[i + 1].depth = u[i].depth + 1
    BY <1>2 DEF ChainsHoldClauses
  <2>1. i < Len(t) /\ t[i + 1].depth = t[i].depth + 1
    BY <1>1, <1>2 DEF ChainsHoldClauses
  <2>2. i + 1 \in 1 .. Len(t)
    BY <1>2, <2>1
  <2>3. u[i].depth = t[i].depth /\ u[i + 1].depth = t[i + 1].depth
    BY <2>2
  <2> QED
    BY <2>1, <2>3
<1> QED
  BY <1>3, <1>4 DEF Trees

LEMMA MeaningIsTree ==
  ASSUME NEW t \in Trees
  PROVE  Meaning(t) \in Trees
<1>1. PICK u : u = Meaning(t)
  OBVIOUS
<1>2. t \in Seq(Nodes)
  BY DEF Trees
<1>3. /\ u \in Seq(Nodes) /\ Len(u) = Len(t)
      /\ \A i \in 1 .. Len(t) : u[i].kind = t[i].kind /\ u[i].depth = t[i].depth
  BY <1>1, <1>2, MeaningShape
<1>4. u \in Trees
  BY <1>3, SameShapeIsTree
<1> QED
  BY <1>1, <1>4

LEMMA SpansOfMeaning ==
  ASSUME NEW t \in Seq(Nodes), NEW u \in Seq(Nodes), u = Meaning(t),
         NEW i \in 1 .. Len(t), NEW m, Spans(u, i, m)
  PROVE  Spans(t, i, m)
<1>1. /\ Len(u) = Len(t) /\ Len(t) \in Nat
      /\ \A j \in 1 .. Len(t) : u[j].depth = t[j].depth
  BY MeaningShape, TreeShape
<1>2. /\ m \in Nat /\ 1 <= m /\ i + m - 1 <= Len(t)
      /\ \A k \in i + 1 .. i + m - 1 : u[k].depth > u[i].depth
      /\ i + m <= Len(t) => u[i + m].depth <= u[i].depth
  BY <1>1 DEF Spans
<1>3. \A k \in i + 1 .. i + m - 1 : k \in 1 .. Len(t)
  BY <1>1, <1>2
<1>4. i + m <= Len(t) => i + m \in 1 .. Len(t)
  BY <1>1, <1>2
<1>5. \A k \in i + 1 .. i + m - 1 : t[k].depth > t[i].depth
  BY <1>1, <1>2, <1>3
<1>6. i + m <= Len(t) => t[i + m].depth <= t[i].depth
  BY <1>1, <1>2, <1>4
<1> QED
  BY <1>2, <1>5, <1>6 DEF Spans

(* Equal meanings are reduced to equal meanings.                           *)

LEMMA ReducedMeaning ==
  ASSUME NEW t \in Trees, NEW p \in 1 .. Len(t)
  PROVE  Reduced(Meaning(t), p) = Meaning(Reduced(t, p))
<1>1. PICK u : u = Meaning(t)
  OBVIOUS
<1>2. t \in Seq(Nodes) /\ u \in Trees /\ u \in Seq(Nodes)
  BY <1>1, MeaningIsTree DEF Trees
<1>3. /\ Len(u) = Len(t)
      /\ \A i \in 1 .. Len(t) :
           /\ u[i].id = t[i].id /\ u[i].kind = t[i].kind
           /\ u[i].depth = t[i].depth /\ u[i].use = "plain"
  BY <1>1, <1>2, MeaningShape
<1>4. PICK r, v : r = Reduced(t, p) /\ v = Reduced(u, p)
  OBVIOUS
<1>5. PICK m, n : Grafted(t, p, r, m, n)
  BY <1>4, ReducedIsGrafted
<1>6. PICK m1, n1 : Grafted(u, p, v, m1, n1)
  BY <1>2, <1>3, <1>4, ReducedIsGrafted
<1>7. /\ Spans(t, p, m) /\ n \in Nat /\ 1 <= n
      /\ r \in Seq(Nodes) /\ Len(r) = Len(t) - m + n
      /\ \A j \in 1 .. p - 1 : r[j] = t[j]
      /\ \A j \in p + n .. Len(r) : r[j] = t[j - n + m]
  BY <1>5 DEF Grafted
<1>8. /\ Spans(u, p, m1) /\ n1 \in Nat /\ 1 <= n1
      /\ v \in Seq(Nodes) /\ Len(v) = Len(u) - m1 + n1
      /\ \A j \in 1 .. p - 1 : v[j] = u[j]
      /\ \A j \in p + n1 .. Len(v) : v[j] = u[j - n1 + m1]
  BY <1>6 DEF Grafted
<1>9. m1 = m
  <2>1. Spans(t, p, m1)
    BY <1>1, <1>2, <1>8, SpansOfMeaning
  <2> QED
    BY <1>2, <1>7, <2>1, SpanIsUnique
<1>10. /\ Len(t) \in Nat /\ p \in Nat /\ 1 <= p /\ p <= Len(t)
       /\ m \in Nat /\ 1 <= m /\ p + m - 1 <= Len(t)
  BY <1>2, <1>7, TreeShape DEF Spans
<1>11. \/ /\ n = 1 /\ n1 = 1
          /\ r[p].id = t[p].id /\ r[p].depth = t[p].depth
          /\ r[p].kind = IF t[p].kind = "expression" THEN "literal" ELSE "empty"
          /\ v[p].id = u[p].id /\ v[p].use = u[p].use /\ v[p].depth = u[p].depth
          /\ v[p].kind = IF u[p].kind = "expression" THEN "literal" ELSE "empty"
       \/ /\ n1 = n /\ n + 1 <= m
          /\ \A j \in p .. p + n - 1 :
               /\ r[j] = [t[j + 1] EXCEPT !.depth = t[j + 1].depth - 1]
               /\ v[j] = [u[j + 1] EXCEPT !.depth = u[j + 1].depth - 1]
  <2>1. u[p].kind = t[p].kind
    BY <1>3
  <2>2. CASE t[p].kind = "chain"
    <3>1. /\ n + 1 <= m /\ Spans(t, p + 1, n)
          /\ \A j \in p .. p + n - 1 : r[j] = [t[j + 1] EXCEPT !.depth = t[j + 1].depth - 1]
      BY <1>5, <2>2 DEF Grafted
    <3>2. /\ Spans(u, p + 1, n1)
          /\ \A j \in p .. p + n1 - 1 : v[j] = [u[j + 1] EXCEPT !.depth = u[j + 1].depth - 1]
      BY <1>6, <2>1, <2>2 DEF Grafted
    <3>3. p + 1 \in 1 .. Len(t)
      BY <1>7, <1>10, <3>1
    <3>4. n1 = n
      <4>1. Spans(t, p + 1, n1)
        BY <1>1, <1>2, <3>2, <3>3, SpansOfMeaning
      <4> QED
        BY <1>2, <3>1, <3>3, <4>1, SpanIsUnique
    <3> QED
      BY <3>1, <3>2, <3>4
  <2>3. CASE t[p].kind # "chain"
    BY <1>5, <1>6, <2>1, <2>3 DEF Grafted
  <2> QED
    BY <2>2, <2>3
<1>12. n1 = n /\ Len(v) = Len(r) /\ Len(r) \in Nat /\ p + n - 1 <= Len(r)
  BY <1>3, <1>7, <1>8, <1>9, <1>10, <1>11
<1>13. ASSUME NEW j \in 1 .. Len(r)
       PROVE  /\ v[j].id = r[j].id /\ v[j].kind = r[j].kind
              /\ v[j].depth = r[j].depth /\ v[j].use = "plain"
  <2>0. j \in Nat /\ 1 <= j /\ j <= Len(r)
    BY <1>12
  <2>1. CASE j < p
    <3>1. j \in 1 .. p - 1 /\ j \in 1 .. Len(t)
      BY <1>10, <2>0, <2>1
    <3> QED
      BY <1>3, <1>7, <1>8, <3>1
  <2>2. CASE j >= p + n
    <3>1. j \in p + n .. Len(r) /\ j - n + m \in 1 .. Len(t)
      BY <1>7, <1>10, <2>0, <2>2
    <3>2. r[j] = t[j - n + m] /\ v[j] = u[j - n + m]
      BY <1>7, <1>8, <1>9, <1>12, <3>1
    <3> QED
      BY <1>3, <3>1, <3>2
  <2>3. CASE j >= p /\ j <= p + n - 1
    <3>1. CASE /\ j = p /\ r[p].id = t[p].id /\ r[p].depth = t[p].depth
               /\ r[p].kind = IF t[p].kind = "expression" THEN "literal" ELSE "empty"
               /\ v[p].id = u[p].id /\ v[p].use = u[p].use /\ v[p].depth = u[p].depth
               /\ v[p].kind = IF u[p].kind = "expression" THEN "literal" ELSE "empty"
      BY <1>3, <3>1
    <3>2. CASE /\ n + 1 <= m
               /\ \A i \in p .. p + n - 1 :
                    /\ r[i] = [t[i + 1] EXCEPT !.depth = t[i + 1].depth - 1]
                    /\ v[i] = [u[i + 1] EXCEPT !.depth = u[i + 1].depth - 1]
      <4>1. j \in p .. p + n - 1 /\ j + 1 \in 1 .. Len(t)
        BY <1>7, <1>10, <2>0, <2>3, <3>2
      <4>2. /\ r[j] = [t[j + 1] EXCEPT !.depth = t[j + 1].depth - 1]
            /\ v[j] = [u[j + 1] EXCEPT !.depth = u[j + 1].depth - 1]
        BY <3>2, <4>1
      <4>3. t[j + 1] \in Nodes /\ u[j + 1] \in Nodes
        BY <1>2, <1>3, <4>1, TreeShape
      <4>4. /\ r[j].id = t[j + 1].id /\ r[j].kind = t[j + 1].kind
            /\ r[j].depth = t[j + 1].depth - 1
            /\ v[j].id = u[j + 1].id /\ v[j].kind = u[j + 1].kind
            /\ v[j].depth = u[j + 1].depth - 1 /\ v[j].use = u[j + 1].use
        BY <4>2, <4>3 DEF Nodes
      <4> QED
        BY <1>3, <4>1, <4>4
    <3>3. j \in p .. p + n - 1 /\ (n = 1 => j = p)
      BY <1>7, <1>10, <2>0, <2>3
    <3> QED
      BY <1>11, <3>1, <3>2, <3>3
  <2>4. j < p \/ j >= p + n \/ (j >= p /\ j <= p + n - 1)
    BY <1>7, <1>10, <2>0
  <2> QED
    BY <2>1, <2>2, <2>3, <2>4
<1>14. v = Meaning(r)
  BY <1>7, <1>8, <1>12, <1>13, MeaningIs
<1> QED
  BY <1>1, <1>4, <1>14

-----------------------------------------------------------------------------
(* What a step proposes is never larger: an order that needs no measure of *)
(* a whole query.                                                          *)

Weight(c) ==
  (IF c.kind = "empty" THEN 0 ELSE IF c.kind = "literal" THEN 1 ELSE 2)
    + (IF c.use = "transformed" THEN 1 ELSE 0)

SmallerNode(a, b) == a = b \/ Weight(a) < Weight(b)

SmallerTree(t, u) ==
  \/ Len(t) < Len(u)
  \/ Len(t) = Len(u) /\ \A i \in 1 .. Len(t) : SmallerNode(t[i], u[i])

Smaller(h, g) ==
  \/ Len(h) < Len(g)
  \/ Len(h) = Len(g) /\ \A k \in 1 .. Len(h) : SmallerTree(h[k], g[k])

LEMMA WeightType == \A c : Weight(c) \in Nat
BY DEF Weight

LEMMA SmallerTreeIsTransitive ==
  ASSUME NEW t \in Seq(Nodes), NEW u \in Seq(Nodes), NEW w \in Seq(Nodes),
         SmallerTree(t, u), SmallerTree(u, w)
  PROVE  SmallerTree(t, w)
<1>1. Len(t) \in Nat /\ Len(u) \in Nat /\ Len(w) \in Nat
  BY TreeShape
<1>2. CASE Len(t) < Len(u) \/ Len(u) < Len(w)
  <2>1. Len(t) <= Len(u) /\ Len(u) <= Len(w)
    BY <1>1 DEF SmallerTree
  <2>2. Len(t) < Len(w)
    BY <1>1, <1>2, <2>1
  <2> QED
    BY <2>2 DEF SmallerTree
<1>3. CASE ~(Len(t) < Len(u)) /\ ~(Len(u) < Len(w))
  <2>1. /\ Len(t) = Len(u) /\ Len(u) = Len(w)
        /\ \A i \in 1 .. Len(t) : SmallerNode(t[i], u[i])
        /\ \A i \in 1 .. Len(t) : SmallerNode(u[i], w[i])
    BY <1>3 DEF SmallerTree
  <2>2. ASSUME NEW i \in 1 .. Len(t) PROVE SmallerNode(t[i], w[i])
    <3>1. (t[i] = u[i] \/ Weight(t[i]) < Weight(u[i])) /\ (u[i] = w[i] \/ Weight(u[i]) < Weight(w[i]))
      BY <2>1 DEF SmallerNode
    <3>2. Weight(t[i]) \in Nat /\ Weight(u[i]) \in Nat /\ Weight(w[i]) \in Nat
      BY WeightType
    <3>3. t[i] = w[i] \/ Weight(t[i]) < Weight(w[i])
      BY <3>1, <3>2
    <3> QED
      BY <3>3 DEF SmallerNode
  <2> QED
    BY <2>1, <2>2 DEF SmallerTree
<1> QED
  BY <1>2, <1>3

LEMMA SmallerTreeIsAntisymmetric ==
  ASSUME NEW t \in Seq(Nodes), NEW u \in Seq(Nodes), SmallerTree(t, u), SmallerTree(u, t)
  PROVE  t = u
<1>1. Len(t) \in Nat /\ Len(u) \in Nat
  BY TreeShape
<1>2. /\ Len(t) = Len(u)
      /\ \A i \in 1 .. Len(t) : SmallerNode(t[i], u[i]) /\ SmallerNode(u[i], t[i])
  BY <1>1 DEF SmallerTree
<1>3. ASSUME NEW i \in 1 .. Len(t) PROVE t[i] = u[i]
  <2>1. (t[i] = u[i] \/ Weight(t[i]) < Weight(u[i])) /\ (u[i] = t[i] \/ Weight(u[i]) < Weight(t[i]))
    BY <1>2 DEF SmallerNode
  <2>2. Weight(t[i]) \in Nat /\ Weight(u[i]) \in Nat
    BY WeightType
  <2> QED
    BY <2>1, <2>2
<1> QED
  BY <1>2, <1>3, SeqEqual

LEMMA SmallerIsReflexive ==
  /\ \A t \in Seq(Nodes) : SmallerTree(t, t)
  /\ \A h \in Seq(Trees) : Smaller(h, h)
BY DEF SmallerNode, SmallerTree, Smaller

LEMMA SmallerIsTransitive ==
  ASSUME NEW h \in Seq(Trees), NEW g \in Seq(Trees), NEW f \in Seq(Trees),
         Smaller(h, g), Smaller(g, f)
  PROVE  Smaller(h, f)
<1>1. Len(h) \in Nat /\ Len(g) \in Nat /\ Len(f) \in Nat
  BY TreesAreSeqs
<1>2. CASE Len(h) < Len(g) \/ Len(g) < Len(f)
  <2>1. Len(h) <= Len(g) /\ Len(g) <= Len(f)
    BY <1>1 DEF Smaller
  <2>2. Len(h) < Len(f)
    BY <1>1, <1>2, <2>1
  <2> QED
    BY <2>2 DEF Smaller
<1>3. CASE ~(Len(h) < Len(g)) /\ ~(Len(g) < Len(f))
  <2>1. /\ Len(h) = Len(g) /\ Len(g) = Len(f)
        /\ \A k \in 1 .. Len(h) : SmallerTree(h[k], g[k])
        /\ \A k \in 1 .. Len(h) : SmallerTree(g[k], f[k])
    BY <1>3 DEF Smaller
  <2>2. ASSUME NEW k \in 1 .. Len(h) PROVE SmallerTree(h[k], f[k])
    <3>1. h[k] \in Seq(Nodes) /\ g[k] \in Seq(Nodes) /\ f[k] \in Seq(Nodes)
      BY <2>1, TreesAreSeqs
    <3>2. SmallerTree(h[k], g[k]) /\ SmallerTree(g[k], f[k])
      BY <2>1
    <3> QED
      BY <3>1, <3>2, SmallerTreeIsTransitive
  <2> QED
    BY <2>1, <2>2 DEF Smaller
<1> QED
  BY <1>2, <1>3

LEMMA SmallerIsAntisymmetric ==
  ASSUME NEW h \in Seq(Trees), NEW g \in Seq(Trees), Smaller(h, g), Smaller(g, h)
  PROVE  h = g
<1>1. Len(h) \in Nat /\ Len(g) \in Nat
  BY TreesAreSeqs
<1>2. /\ Len(h) = Len(g)
      /\ \A k \in 1 .. Len(h) : SmallerTree(h[k], g[k]) /\ SmallerTree(g[k], h[k])
  BY <1>1 DEF Smaller
<1>3. ASSUME NEW k \in 1 .. Len(h) PROVE h[k] = g[k]
  <2>1. h[k] \in Seq(Nodes) /\ g[k] \in Seq(Nodes)
    BY <1>2, TreesAreSeqs
  <2> QED
    BY <1>2, <2>1, SmallerTreeIsAntisymmetric
<1> QED
  BY <1>2, <1>3, SeqEqual

(* A statement whose clause was removed.                                   *)
ReductionOf(t, p, r) ==
  /\ r \in Trees /\ SmallerTree(r, t)
  /\ t[p].kind # "empty" => r # t
  /\ \A j \in 1 .. Len(r) : \E i \in 1 .. Len(t) : r[j].id = t[i].id

LEMMA ReducedIsSmaller ==
  ASSUME NEW t \in Trees, NEW p \in 1 .. Len(t)
  PROVE  ReductionOf(t, p, Reduced(t, p))
<1>1. PICK r : r = Reduced(t, p)
  OBVIOUS
<1>2. PICK m, n : Grafted(t, p, r, m, n)
  BY <1>1, ReducedIsGrafted
<1>3. r \in Trees
  BY <1>2, GraftedIsTree
<1>4. /\ t \in Seq(Nodes) /\ Len(t) \in Nat /\ p \in Nat /\ 1 <= p /\ p <= Len(t)
  BY TreeShape DEF Trees
<1>5. /\ r \in Seq(Nodes) /\ m \in Nat /\ n \in Nat /\ 1 <= m /\ 1 <= n
      /\ p + m - 1 <= Len(t) /\ Len(r) = Len(t) - m + n
  BY <1>2, GraftedDepths
<1>6. /\ \A j \in 1 .. p - 1 : r[j] = t[j]
      /\ \A j \in p + n .. Len(r) : r[j] = t[j - n + m]
  BY <1>2 DEF Grafted
<1>7. CASE /\ n = 1 /\ r[p].id = t[p].id /\ r[p].use = t[p].use /\ r[p].depth = t[p].depth
           /\ r[p].kind = IF t[p].kind = "expression" THEN "literal" ELSE "empty"
  <2>1. t[p] \in Nodes /\ r[p] \in Nodes
    <3>1. p \in 1 .. Len(r)
      BY <1>4, <1>5
    <3> QED
      BY <1>4, <1>5, <3>1, TreeShape
  <2>2. SmallerNode(r[p], t[p])
    <3>1. CASE t[p].kind = "empty"
      <4>1. r[p] = t[p]
        BY <1>7, <2>1, <3>1, NodeEqual
      <4> QED
        BY <4>1 DEF SmallerNode
    <3>2. CASE t[p].kind # "empty"
      <4>1. Weight(r[p]) < Weight(t[p])
        BY <1>7, <3>2 DEF Weight
      <4> QED
        BY <4>1 DEF SmallerNode
    <3> QED
      BY <3>1, <3>2
  <2>3. SmallerTree(r, t)
    <3>1. CASE m = 1
      <4>1. Len(r) = Len(t)
        BY <1>4, <1>5, <1>7, <3>1
      <4>2. ASSUME NEW j \in 1 .. Len(r) PROVE SmallerNode(r[j], t[j])
        <5>1. j \in Nat /\ (j < p => j \in 1 .. p - 1)
              /\ (j > p => j \in p + 1 .. Len(r) /\ j - 1 + 1 = j)
          BY <1>4, <4>1
        <5>2. j # p => r[j] = t[j]
          BY <1>4, <1>6, <1>7, <3>1, <5>1
        <5> QED
          BY <2>2, <5>2 DEF SmallerNode
      <4> QED
        BY <4>1, <4>2 DEF SmallerTree
    <3>2. CASE m # 1
      <4>1. Len(r) < Len(t)
        BY <1>4, <1>5, <1>7, <3>2
      <4> QED
        BY <4>1 DEF SmallerTree
    <3> QED
      BY <3>1, <3>2
  <2>4. t[p].kind # "empty" => r # t
    <3>1. t[p].kind # "empty" => r[p].kind # t[p].kind
      BY <1>7
    <3> QED
      BY <3>1
  <2>5. ASSUME NEW j \in 1 .. Len(r) PROVE \E i \in 1 .. Len(t) : r[j].id = t[i].id
    <3>0. j \in Nat /\ 1 <= j /\ j <= Len(r)
      BY <1>4, <1>5
    <3>1. CASE j < p
      <4>1. j \in 1 .. p - 1 /\ j \in 1 .. Len(t)
        BY <1>4, <3>0, <3>1
      <4> QED
        BY <1>6, <4>1
    <3>2. CASE j = p
      BY <1>4, <1>7, <3>2
    <3>3. CASE j > p
      <4>1. j \in p + n .. Len(r) /\ j - n + m \in 1 .. Len(t)
        BY <1>4, <1>5, <1>7, <3>0, <3>3
      <4>2. r[j] = t[j - n + m]
        BY <1>6, <4>1
      <4> QED
        BY <4>1, <4>2
    <3> QED
      BY <1>4, <3>0, <3>1, <3>2, <3>3
  <2> QED
    BY <1>1, <1>3, <2>3, <2>4, <2>5 DEF ReductionOf
<1>8. CASE /\ n + 1 <= m
           /\ \A j \in p .. p + n - 1 : r[j] = [t[j + 1] EXCEPT !.depth = t[j + 1].depth - 1]
  <2>1. Len(r) < Len(t)
    BY <1>4, <1>5, <1>8
  <2>2. SmallerTree(r, t) /\ r # t
    <3>1. r # t
      BY <1>4, <2>1
    <3> QED
      BY <2>1, <3>1 DEF SmallerTree
  <2>3. ASSUME NEW j \in 1 .. Len(r) PROVE \E i \in 1 .. Len(t) : r[j].id = t[i].id
    <3>0. j \in Nat /\ 1 <= j /\ j <= Len(r)
      BY <1>4, <1>5
    <3>1. CASE j < p
      <4>1. j \in 1 .. p - 1 /\ j \in 1 .. Len(t)
        BY <1>4, <3>0, <3>1
      <4> QED
        BY <1>6, <4>1
    <3>2. CASE j >= p /\ j <= p + n - 1
      <4>1. j \in p .. p + n - 1 /\ j + 1 \in 1 .. Len(t)
        BY <1>4, <1>5, <1>8, <3>0, <3>2
      <4>2. t[j + 1] \in Nodes
        BY <1>4, <4>1, TreeShape
      <4>3. r[j].id = t[j + 1].id
        BY <1>8, <4>1, <4>2 DEF Nodes
      <4> QED
        BY <4>1, <4>3
    <3>3. CASE j >= p + n
      <4>1. j \in p + n .. Len(r) /\ j - n + m \in 1 .. Len(t)
        BY <1>4, <1>5, <3>0, <3>3
      <4>2. r[j] = t[j - n + m]
        BY <1>6, <4>1
      <4> QED
        BY <4>1, <4>2
    <3>4. j < p \/ (j >= p /\ j <= p + n - 1) \/ j >= p + n
      BY <1>4, <1>5, <3>0
    <3> QED
      BY <3>1, <3>2, <3>3, <3>4
  <2> QED
    BY <1>1, <1>3, <2>2, <2>3 DEF ReductionOf
<1> QED
  BY <1>2, <1>7, <1>8 DEF Grafted

(* A statement whose transformation was undone.                            *)
Flip(t, i, u) == t \in Trees /\ i \in InUse(t) /\ u = [t EXCEPT ![i].use = "flipped"]

LEMMA FlippedIsSmaller ==
  ASSUME NEW t, NEW i, NEW u, Flip(t, i, u)
  PROVE  /\ u \in Trees /\ SmallerTree(u, t) /\ u # t /\ Meaning(u) = Meaning(t)
         /\ Len(u) = Len(t) /\ \A j \in 1 .. Len(u) : u[j].id = t[j].id
<1> USE DEF Flip
<1>1. /\ t \in Seq(Nodes) /\ Len(t) \in Nat /\ DOMAIN t = 1 .. Len(t)
      /\ \A j \in 1 .. Len(t) : t[j] \in Nodes
  BY TreeShape DEF Trees
<1>2. i \in 1 .. Len(t) /\ t[i].use = "transformed"
  BY <1>1 DEF InUse
<1>3. PICK c : c = [t[i] EXCEPT !.use = "flipped"]
  OBVIOUS
<1>4. c \in Nodes /\ c.id = t[i].id /\ c.kind = t[i].kind /\ c.depth = t[i].depth /\ c.use = "flipped"
  BY <1>1, <1>2, <1>3 DEF Nodes, Uses
<1>5. u = [t EXCEPT ![i] = c]
  BY <1>3
<1>6. /\ u \in Seq(Nodes) /\ Len(u) = Len(t)
      /\ \A j \in 1 .. Len(t) : u[j] = IF j = i THEN c ELSE t[j]
  BY <1>1, <1>2, <1>4, <1>5, ExceptSeq
<1>7. \A j \in 1 .. Len(t) : /\ u[j].id = t[j].id /\ u[j].kind = t[j].kind
                             /\ u[j].depth = t[j].depth
  BY <1>4, <1>6
<1>8. Meaning(u) = Meaning(t)
  <2>1. PICK v : v = Meaning(u)
    OBVIOUS
  <2>2. /\ v \in Seq(Nodes) /\ Len(v) = Len(u)
        /\ \A j \in 1 .. Len(u) : /\ v[j].id = u[j].id /\ v[j].kind = u[j].kind
                                  /\ v[j].depth = u[j].depth /\ v[j].use = "plain"
    BY <1>6, <2>1, MeaningShape
  <2>3. Len(v) = Len(t)
        /\ \A j \in 1 .. Len(t) : /\ v[j].id = t[j].id /\ v[j].kind = t[j].kind
                                  /\ v[j].depth = t[j].depth /\ v[j].use = "plain"
    BY <1>6, <1>7, <2>2
  <2>4. v = Meaning(t)
    BY <1>1, <2>2, <2>3, MeaningIs
  <2> QED
    BY <2>1, <2>4
<1>9. u \in Trees
  BY <1>6, <1>7, SameShapeIsTree
<1>10. SmallerTree(u, t)
  <2>1. Weight(c) < Weight(t[i])
    BY <1>2, <1>4 DEF Weight
  <2>2. \A j \in 1 .. Len(u) : SmallerNode(u[j], t[j])
    BY <1>6, <2>1 DEF SmallerNode
  <2> QED
    BY <1>6, <2>2 DEF SmallerTree
<1>11. u # t
  BY <1>2, <1>4, <1>6
<1> QED
  BY <1>6, <1>7, <1>8, <1>9, <1>10, <1>11

-----------------------------------------------------------------------------
(* A query whose first half has what the second means, and where only the  *)
(* last statement of a half comes from statement n of the report.          *)
Mirrored(q, m, n) ==
  /\ q \in Seq(Trees) /\ m \in Nat /\ 1 <= m /\ Len(q) = m + m
  /\ \A k \in 1 .. m :
       /\ q[k] = Meaning(q[m + k])
       /\ k # m => \A j \in 1 .. Len(q[k]) : q[k][j].id[1] # n

Halves(q, n) == Mirrored(q, Half(q), n)

LEMMA MirroredShape ==
  ASSUME NEW q, NEW m, NEW n, Mirrored(q, m, n)
  PROVE  /\ Half(q) = m
         /\ SecondHalf(q) \in Seq(Trees) /\ Len(SecondHalf(q)) = m
         /\ \A k \in 1 .. m : SecondHalf(q)[k] = q[m + k]
<1>1. q \in Seq(Trees) /\ m \in Nat /\ 1 <= m /\ Len(q) = m + m
  BY DEF Mirrored
<1>2. Half(q) = m
  <2>1. (m + m) \div 2 = m
    BY <1>1
  <2> QED
    BY <1>1, <2>1 DEF Half
<1>3. SecondHalf(q) = SubSeq(q, m + 1, m + m)
  BY <1>1, <1>2 DEF SecondHalf
<1>4. m + 1 \in Int /\ m + m \in Int /\ \A k \in m + 1 .. m + m : q[k] \in Trees
  <2>1. \A k \in m + 1 .. m + m : k \in 1 .. Len(q)
    BY <1>1
  <2> QED
    BY <1>1, <2>1, TreesAreSeqs
<1>5. /\ SubSeq(q, m + 1, m + m) \in Seq(Trees)
      /\ Len(SubSeq(q, m + 1, m + m))
           = IF m + 1 <= m + m THEN (m + m) - (m + 1) + 1 ELSE 0
      /\ \A k \in 1 .. (m + m) - (m + 1) + 1 : SubSeq(q, m + 1, m + m)[k] = q[(m + 1) + k - 1]
  BY <1>4, SubSeqProperties
<1>6. /\ m + 1 <= m + m /\ (m + m) - (m + 1) + 1 = m
      /\ \A k \in 1 .. m : (m + 1) + k - 1 = m + k
  BY <1>1
<1> QED
  BY <1>2, <1>3, <1>5, <1>6

LEMMA HalvesAreMirrored ==
  ASSUME NEW q, NEW m, NEW n, Mirrored(q, m, n)
  PROVE  Halves(q, n)
BY MirroredShape DEF Halves

(* w is q with u in the place of statement k, in both halves.              *)
BothReplaced(q, m, k, u, w) ==
  /\ w \in Seq(Trees) /\ Len(w) = m + m
  /\ \A h \in 1 .. m + m : w[h] = IF h = k THEN Meaning(u) ELSE IF h = m + k THEN u ELSE q[h]

LEMMA BothReplacedIsMirrored ==
  ASSUME NEW q, NEW m, NEW n, Mirrored(q, m, n), NEW k \in 1 .. m,
         NEW u \in Trees, SmallerTree(u, q[m + k]),
         \A j \in 1 .. Len(u) : \E i \in 1 .. Len(q[m + k]) : u[j].id = q[m + k][i].id,
         NEW w, BothReplaced(q, m, k, u, w)
  PROVE  /\ Mirrored(w, m, n)
         /\ SecondHalf(w) = [SecondHalf(q) EXCEPT ![k] = u]
         /\ Smaller(SecondHalf(w), SecondHalf(q))
<1>1. q \in Seq(Trees) /\ m \in Nat /\ 1 <= m /\ Len(q) = m + m
  BY DEF Mirrored
<1>2. /\ w \in Seq(Trees) /\ Len(w) = m + m
      /\ \A h \in 1 .. m + m :
           w[h] = IF h = k THEN Meaning(u) ELSE IF h = m + k THEN u ELSE q[h]
  BY DEF BothReplaced
<1>3. \A h \in 1 .. m :
        /\ h \in 1 .. m + m /\ m + h \in 1 .. m + m /\ h # m + k /\ m + h # k
        /\ (m + h = m + k) = (h = k)
  BY <1>1
<1>4. \A h \in 1 .. m : /\ w[h] = IF h = k THEN Meaning(u) ELSE q[h]
                        /\ w[m + h] = IF h = k THEN u ELSE q[m + h]
  BY <1>2, <1>3
<1>5. ASSUME NEW h \in 1 .. m
      PROVE  /\ w[h] = Meaning(w[m + h])
             /\ h # m => \A j \in 1 .. Len(w[h]) : w[h][j].id[1] # n
  <2>1. CASE h # k
    BY <1>4, <2>1 DEF Mirrored
  <2>2. CASE h = k
    <3>1. w[h] = Meaning(u) /\ w[m + h] = u
      BY <1>4, <2>2
    <3>2. q[k] = Meaning(q[m + k]) /\ (k # m => \A j \in 1 .. Len(q[k]) : q[k][j].id[1] # n)
      BY DEF Mirrored
    <3>3. PICK o : o = q[m + k]
      OBVIOUS
    <3>4. o \in Seq(Nodes) /\ u \in Seq(Nodes)
      BY <1>1, <1>3, <3>3, TreesAreSeqs DEF Trees
    <3>5. Len(q[k]) = Len(o) /\ \A i \in 1 .. Len(o) : q[k][i].id = o[i].id
      BY <3>2, <3>3, <3>4, MeaningShape
    <3>6. Len(w[h]) = Len(u) /\ \A i \in 1 .. Len(u) : w[h][i].id = u[i].id
      BY <3>1, <3>4, MeaningShape
    <3>7. ASSUME h # m, NEW j \in 1 .. Len(w[h]) PROVE w[h][j].id[1] # n
      <4>1. PICK i \in 1 .. Len(o) : u[j].id = o[i].id
        BY <3>3, <3>6
      <4>2. w[h][j].id = q[k][i].id
        BY <3>5, <3>6, <4>1
      <4>3. q[k][i].id[1] # n
        BY <2>2, <3>2, <3>5, <3>7
      <4> QED
        BY <4>2, <4>3
    <3> QED
      BY <3>1, <3>7
  <2> QED
    BY <2>1, <2>2
<1>6. Mirrored(w, m, n)
  BY <1>1, <1>2, <1>5 DEF Mirrored
<1>7. PICK g, f : g = SecondHalf(q) /\ f = SecondHalf(w)
  OBVIOUS
<1>8. /\ g \in Seq(Trees) /\ Len(g) = m /\ \A h \in 1 .. m : g[h] = q[m + h]
  BY <1>7, MirroredShape
<1>9. /\ f \in Seq(Trees) /\ Len(f) = m /\ \A h \in 1 .. m : f[h] = w[m + h]
  BY <1>6, <1>7, MirroredShape
<1>10. PICK e : e = [g EXCEPT ![k] = u]
  OBVIOUS
<1>11. /\ e \in Seq(Trees) /\ Len(e) = m
       /\ \A h \in 1 .. m : e[h] = IF h = k THEN u ELSE g[h]
  BY <1>8, <1>10, ExceptSeq
<1>12. f = [g EXCEPT ![k] = u]
  <2>1. ASSUME NEW h \in 1 .. m PROVE f[h] = e[h]
    <3>1. f[h] = IF h = k THEN u ELSE q[m + h]
      BY <1>4, <1>9
    <3>2. e[h] = IF h = k THEN u ELSE q[m + h]
      BY <1>8, <1>11
    <3> QED
      BY <3>1, <3>2
  <2>2. f \in Seq(Trees) /\ e \in Seq(Trees) /\ Len(f) = m /\ Len(e) = m
    BY <1>9, <1>11
  <2>3. f = e
    BY ONLY <2>1, <2>2, SeqEqual
  <2> QED
    BY <1>10, <2>3
<1>13. ASSUME NEW h \in 1 .. Len(f) PROVE SmallerTree(f[h], g[h])
  <2>1. CASE h = k
    BY <1>4, <1>8, <1>9, <2>1
  <2>2. CASE h # k
    <3>1. f[h] = g[h] /\ g[h] \in Seq(Nodes)
      BY <1>4, <1>8, <1>9, <2>2, TreesAreSeqs
    <3> QED
      BY <3>1, SmallerIsReflexive
  <2> QED
    BY <2>1, <2>2
<1> QED
  BY <1>6, <1>7, <1>8, <1>9, <1>12, <1>13 DEF Smaller

(* Statement i + 1 leaves both halves.                                     *)
WithoutBoth(q, m, i) ==
  SubSeq(q, 1, i) \o SubSeq(q, i + 2, m + i) \o SubSeq(q, m + i + 2, Len(q))

LEMMA PartOfQuery ==
  ASSUME NEW q \in Seq(Trees), NEW from \in Int, NEW to \in Int, 1 <= from, from <= to + 1,
         to <= Len(q), NEW len, len = to - from + 1
  PROVE  /\ SubSeq(q, from, to) \in Seq(Trees) /\ Len(SubSeq(q, from, to)) = len
         /\ \A h \in 1 .. len : SubSeq(q, from, to)[h] = q[from + h - 1]
<1>1. \A h \in from .. to : q[h] \in Trees
  <2>1. \A h \in from .. to : h \in 1 .. Len(q)
    BY TreesAreSeqs
  <2> QED
    BY <2>1, TreesAreSeqs
<1>2. /\ SubSeq(q, from, to) \in Seq(Trees)
      /\ Len(SubSeq(q, from, to)) = IF from <= to THEN to - from + 1 ELSE 0
      /\ \A h \in 1 .. to - from + 1 : SubSeq(q, from, to)[h] = q[from + h - 1]
  BY <1>1, SubSeqProperties
<1>3. (IF from <= to THEN to - from + 1 ELSE 0) = to - from + 1
  OBVIOUS
<1> QED
  BY <1>2, <1>3

LEMMA JoinedQueries ==
  ASSUME NEW a \in Seq(Trees), NEW b \in Seq(Trees)
  PROVE  /\ a \o b \in Seq(Trees) /\ Len(a \o b) = Len(a) + Len(b)
         /\ \A h \in 1 .. Len(a) + Len(b) :
              (a \o b)[h] = IF h <= Len(a) THEN a[h] ELSE b[h - Len(a)]
BY ConcatProperties

LEMMA WithoutBothShape ==
  ASSUME NEW q \in Seq(Trees), NEW m \in Nat, 2 <= m, Len(q) = m + m,
         NEW i \in 0 .. m - 2, NEW w, w = WithoutBoth(q, m, i)
  PROVE  /\ w \in Seq(Trees) /\ Len(w) = (m - 1) + (m - 1)
         /\ \A h \in 1 .. (m - 1) + (m - 1) :
              w[h] = q[IF h <= i THEN h ELSE IF h <= (m - 1) + i THEN h + 1 ELSE h + 2]
<1>0. i \in Nat /\ i <= m - 2
  OBVIOUS
<1>1. PICK a, b, c : /\ a = SubSeq(q, 1, i) /\ b = SubSeq(q, i + 2, m + i)
                     /\ c = SubSeq(q, m + i + 2, m + m)
  OBVIOUS
<1>2. /\ a \in Seq(Trees) /\ Len(a) = i /\ \A h \in 1 .. i : a[h] = q[1 + h - 1]
  <2>1. 1 \in Int /\ i \in Int /\ 1 <= 1 /\ 1 <= i + 1 /\ i <= Len(q) /\ i = i - 1 + 1
    BY <1>0
  <2> QED
    BY <1>1, <2>1, PartOfQuery
<1>3. /\ b \in Seq(Trees) /\ Len(b) = m - 1 /\ \A h \in 1 .. m - 1 : b[h] = q[(i + 2) + h - 1]
  <2>1. /\ i + 2 \in Int /\ m + i \in Int /\ 1 <= i + 2 /\ i + 2 <= m + i + 1 /\ m + i <= Len(q)
        /\ m - 1 = (m + i) - (i + 2) + 1
    BY <1>0
  <2> QED
    BY <1>1, <2>1, PartOfQuery
<1>4. /\ c \in Seq(Trees) /\ Len(c) = m - i - 1
      /\ \A h \in 1 .. m - i - 1 : c[h] = q[(m + i + 2) + h - 1]
  <2>1. /\ m + i + 2 \in Int /\ m + m \in Int /\ 1 <= m + i + 2 /\ m + i + 2 <= m + m + 1
        /\ m + m <= Len(q) /\ m - i - 1 = (m + m) - (m + i + 2) + 1
    BY <1>0
  <2> QED
    BY <1>1, <2>1, PartOfQuery
<1>5. PICK d : d = a \o b
  OBVIOUS
<1>6. /\ d \in Seq(Trees) /\ Len(d) = Len(a) + Len(b)
      /\ \A h \in 1 .. Len(a) + Len(b) : d[h] = IF h <= Len(a) THEN a[h] ELSE b[h - Len(a)]
  BY <1>2, <1>3, <1>5, JoinedQueries
<1>7. w = d \o c
  BY <1>1, <1>5 DEF WithoutBoth
<1>8. /\ w \in Seq(Trees) /\ Len(w) = Len(d) + Len(c)
      /\ \A h \in 1 .. Len(d) + Len(c) : w[h] = IF h <= Len(d) THEN d[h] ELSE c[h - Len(d)]
  <2>1. d \in Seq(Trees) /\ c \in Seq(Trees)
    BY <1>4, <1>6
  <2>2. /\ d \o c \in Seq(Trees) /\ Len(d \o c) = Len(d) + Len(c)
        /\ \A h \in 1 .. Len(d) + Len(c) :
             (d \o c)[h] = IF h <= Len(d) THEN d[h] ELSE c[h - Len(d)]
    BY <2>1, JoinedQueries
  <2> QED
    BY <1>7, <2>2
<1>9. Len(d) = (m - 1) + i /\ Len(d) + Len(c) = (m - 1) + (m - 1)
  BY <1>0, <1>2, <1>3, <1>4, <1>6
<1>10. ASSUME NEW h \in 1 .. (m - 1) + (m - 1)
       PROVE  w[h] = q[IF h <= i THEN h ELSE IF h <= (m - 1) + i THEN h + 1 ELSE h + 2]
  <2>0. h \in Nat /\ 1 <= h /\ h <= (m - 1) + (m - 1)
    OBVIOUS
  <2>1. CASE h <= i
    <3>1. h \in 1 .. i /\ 1 + h - 1 = h /\ h <= (m - 1) + i
      BY <1>0, <2>0, <2>1
    <3>2. w[h] = d[h]
      BY <1>8, <1>9, <3>1
    <3>3. h \in 1 .. Len(a) + Len(b) /\ h <= Len(a)
      BY <1>0, <1>2, <1>3, <2>0, <2>1
    <3>4. d[h] = a[h]
      BY <1>6, <3>3
    <3>5. a[h] = q[h]
      BY <1>2, <3>1
    <3> QED
      BY <2>1, <3>2, <3>4, <3>5
  <2>2. CASE h > i /\ h <= (m - 1) + i
    <3>1. w[h] = d[h]
      BY <1>8, <1>9, <2>2
    <3>2. h \in 1 .. Len(a) + Len(b) /\ ~(h <= Len(a)) /\ h - i \in 1 .. m - 1
          /\ (i + 2) + (h - i) - 1 = h + 1
      BY <1>0, <1>2, <1>3, <2>0, <2>2
    <3>3. d[h] = b[h - i]
      BY <1>2, <1>6, <3>2
    <3>4. b[h - i] = q[h + 1]
      BY <1>3, <3>2
    <3>5. ~(h <= i)
      BY <1>0, <2>0, <2>2
    <3> QED
      BY <2>2, <3>1, <3>3, <3>4, <3>5
  <2>3. CASE h > (m - 1) + i
    <3>1. ~(h <= (m - 1) + i) /\ h - ((m - 1) + i) \in 1 .. m - i - 1
          /\ (m + i + 2) + (h - ((m - 1) + i)) - 1 = h + 2 /\ ~(h <= i)
      BY <1>0, <2>0, <2>3
    <3>2. w[h] = c[h - ((m - 1) + i)]
      BY <1>8, <1>9, <3>1
    <3>3. c[h - ((m - 1) + i)] = q[h + 2]
      BY <1>4, <3>1
    <3> QED
      BY <3>1, <3>2, <3>3
  <2>4. h <= i \/ (h > i /\ h <= (m - 1) + i) \/ h > (m - 1) + i
    BY <1>0, <2>0
  <2> QED
    BY <2>1, <2>2, <2>3, <2>4
<1> QED
  BY <1>8, <1>9, <1>10

LEMMA WithoutBothIsMirrored ==
  ASSUME NEW q, NEW m, NEW n, Mirrored(q, m, n), m # 1, NEW i \in 0 .. m - 2,
         NEW w, w = WithoutBoth(q, m, i)
  PROVE  /\ Mirrored(w, m - 1, n)
         /\ SecondHalf(w) = WithoutStatement(SecondHalf(q), i + 1)
         /\ Smaller(SecondHalf(w), SecondHalf(q)) /\ SecondHalf(w) # SecondHalf(q)
<1>1. q \in Seq(Trees) /\ m \in Nat /\ 2 <= m /\ Len(q) = m + m /\ i \in Nat /\ i <= m - 2
  BY DEF Mirrored
<1>2. /\ w \in Seq(Trees) /\ Len(w) = (m - 1) + (m - 1)
      /\ \A h \in 1 .. (m - 1) + (m - 1) :
           w[h] = q[IF h <= i THEN h ELSE IF h <= (m - 1) + i THEN h + 1 ELSE h + 2]
  BY <1>1, WithoutBothShape
<1>3. ASSUME NEW h \in 1 .. m - 1
      PROVE  /\ w[h] = IF h <= i THEN q[h] ELSE q[h + 1]
             /\ w[(m - 1) + h] = IF h <= i THEN q[m + h] ELSE q[m + (h + 1)]
             /\ h \in 1 .. m /\ h + 1 \in 1 .. m /\ h # m
             /\ h + 1 = m => h = m - 1
  <2>0. h \in Nat /\ 1 <= h /\ h <= m - 1
    BY <1>1
  <2>1. h \in 1 .. (m - 1) + (m - 1) /\ (m - 1) + h \in 1 .. (m - 1) + (m - 1)
        /\ h <= (m - 1) + i /\ ~((m - 1) + h <= i) /\ ((m - 1) + h <= (m - 1) + i) = (h <= i)
        /\ (m - 1) + h + 1 = m + h /\ (m - 1) + h + 2 = m + (h + 1)
    BY <1>1, <2>0
  <2>2. w[h] = IF h <= i THEN q[h] ELSE q[h + 1]
    BY <1>2, <2>1
  <2>3. w[(m - 1) + h] = q[IF (m - 1) + h <= i THEN (m - 1) + h
                           ELSE IF (m - 1) + h <= (m - 1) + i THEN (m - 1) + h + 1
                           ELSE (m - 1) + h + 2]
    BY <1>2, <2>1
  <2>4. w[(m - 1) + h] = IF h <= i THEN q[m + h] ELSE q[m + (h + 1)]
    BY <2>1, <2>3
  <2>5. h \in 1 .. m /\ h + 1 \in 1 .. m /\ h # m /\ (h + 1 = m => h = m - 1)
    BY <1>1, <2>0
  <2> QED
    BY <2>2, <2>4, <2>5
<1>4. \A h \in 1 .. m : /\ q[h] = Meaning(q[m + h])
                        /\ h # m => \A j \in 1 .. Len(q[h]) : q[h][j].id[1] # n
  BY DEF Mirrored
<1>5. ASSUME NEW h \in 1 .. m - 1
      PROVE  /\ w[h] = Meaning(w[(m - 1) + h])
             /\ h # m - 1 => \A j \in 1 .. Len(w[h]) : w[h][j].id[1] # n
  <2>1. CASE h <= i
    <3>1. w[h] = q[h] /\ w[(m - 1) + h] = q[m + h] /\ h \in 1 .. m /\ h # m
      BY <1>3, <2>1
    <3> QED
      BY <1>4, <3>1
  <2>2. CASE ~(h <= i)
    <3>1. w[h] = q[h + 1] /\ w[(m - 1) + h] = q[m + (h + 1)] /\ h + 1 \in 1 .. m
          /\ (h + 1 = m => h = m - 1)
      BY <1>3, <2>2
    <3> QED
      BY <1>4, <3>1
  <2> QED
    BY <2>1, <2>2
<1>6. Mirrored(w, m - 1, n)
  <2>1. m - 1 \in Nat /\ 1 <= m - 1
    BY <1>1
  <2> QED
    BY <1>2, <1>5, <2>1 DEF Mirrored
<1>7. PICK g, f : g = SecondHalf(q) /\ f = SecondHalf(w)
  OBVIOUS
<1>8. /\ g \in Seq(Trees) /\ Len(g) = m /\ \A h \in 1 .. m : g[h] = q[m + h]
  BY <1>7, MirroredShape
<1>9. /\ f \in Seq(Trees) /\ Len(f) = m - 1 /\ \A h \in 1 .. m - 1 : f[h] = w[(m - 1) + h]
  BY <1>6, <1>7, MirroredShape
<1>10. PICK e : e = WithoutStatement(g, i + 1)
  OBVIOUS
<1>11. /\ e \in Seq(Trees) /\ Len(e) = Len(g) - 1
       /\ \A h \in 1 .. Len(g) - 1 : e[h] = IF h < i + 1 THEN g[h] ELSE g[h + 1]
  <2>1. i + 1 \in 1 .. Len(g)
    BY <1>1, <1>8
  <2> QED
    BY <1>8, <1>10, <2>1, StatementRemoved
<1>12. ASSUME NEW h \in 1 .. Len(f) PROVE f[h] = e[h]
  <2>1. h \in 1 .. m - 1 /\ h \in 1 .. Len(g) - 1 /\ (h < i + 1) = (h <= i)
    BY <1>1, <1>8, <1>9
  <2>2. f[h] = IF h <= i THEN q[m + h] ELSE q[m + (h + 1)]
    BY <1>3, <1>9, <2>1
  <2>3. e[h] = IF h <= i THEN q[m + h] ELSE q[m + (h + 1)]
    BY <1>3, <1>8, <1>11, <2>1
  <2> QED
    BY <2>2, <2>3
<1>13. f = e
  BY <1>8, <1>9, <1>11, <1>12, SeqEqual
<1>14. Len(f) < Len(g)
  BY <1>1, <1>8, <1>9
<1>15. Smaller(f, g)
  BY <1>14 DEF Smaller
<1>16. f # g
  BY <1>8, <1>9, <1>14
<1> QED
  BY <1>6, <1>7, <1>10, <1>13, <1>15, <1>16

LEMMA MeaningIsIdempotent ==
  ASSUME NEW t \in Seq(Nodes)
  PROVE  Meaning(Meaning(t)) = Meaning(t)
<1>1. PICK v, u : v = Meaning(t) /\ u = Meaning(v)
  OBVIOUS
<1>2. /\ v \in Seq(Nodes) /\ Len(v) = Len(t)
      /\ \A i \in 1 .. Len(t) : /\ v[i].id = t[i].id /\ v[i].kind = t[i].kind
                                /\ v[i].depth = t[i].depth /\ v[i].use = "plain"
  BY <1>1, MeaningShape
<1>3. /\ u \in Seq(Nodes) /\ Len(u) = Len(v)
      /\ \A i \in 1 .. Len(v) : /\ u[i].id = v[i].id /\ u[i].kind = v[i].kind
                                /\ u[i].depth = v[i].depth /\ u[i].use = "plain"
  BY <1>1, <1>2, MeaningShape
<1>4. /\ Len(u) = Len(t)
      /\ \A i \in 1 .. Len(t) : /\ u[i].id = t[i].id /\ u[i].kind = t[i].kind
                                /\ u[i].depth = t[i].depth /\ u[i].use = "plain"
  BY <1>2, <1>3
<1>5. u = Meaning(t)
  BY <1>3, <1>4, MeaningIs
<1> QED
  BY <1>1, <1>5

-----------------------------------------------------------------------------
(* The verdict of ValidateReductionResult.                                 *)

LEMMA PartNames ==
  ASSUME NEW c, NEW x \in PartsOf(c)
  PROVE  x[1] = c.id /\ (x[2] = "form" => c.use = "transformed")
<1>1. x \in {<<c.id, "place">> : k \in {c.kind} \ {"empty"}} => x = <<c.id, "place">>
  OBVIOUS
<1>2. x \in {<<c.id, "content">> : k \in {c.kind} \cap {"expression"}} => x = <<c.id, "content">>
  OBVIOUS
<1>3. x \in {<<c.id, "form">> : u \in {c.use} \cap {"transformed"}} =>
        x = <<c.id, "form">> /\ c.use = "transformed"
  OBVIOUS
<1>4. \/ x = <<c.id, "place">> \/ x = <<c.id, "content">>
      \/ x = <<c.id, "form">> /\ c.use = "transformed"
  BY <1>1, <1>2, <1>3 DEF PartsOf
<1> QED
  BY <1>4

LEMMA PartsOfQuery ==
  ASSUME NEW q \in Seq(Trees), NEW x \in Parts(q)
  PROVE  \E k \in 1 .. Len(q) : \E j \in 1 .. Len(q[k]) :
           x[1] = q[k][j].id /\ (x[2] = "form" => q[k][j].use = "transformed")
<1>1. Parts(q) = UNION {PartsIn(q[k]) : k \in 1 .. Len(q)}
  BY TreesAreSeqs, PartsByStatement
<1>2. PICK k \in 1 .. Len(q) : x \in PartsIn(q[k])
  BY <1>1
<1>3. PICK j \in 1 .. Len(q[k]) : x \in PartsOf(q[k][j])
  BY <1>2 DEF PartsIn
<1> QED
  BY <1>3, PartNames

(* What is known of the bug.                                               *)
Origin ==
  /\ bug \in Bugs /\ statementIndex + 1 \in Nat \ {0}
  /\ \E part \in trigger : part[1][1] = statementIndex + 1
  /\ bug[2] = "transformed" => \E part \in trigger : part[2] = "form"
  /\ origResults \in Seq(BOOLEAN) /\ Len(origResults) >= 1
  /\ origResults[Len(origResults)] = (bug[1] = "error")
  /\ (bug[2] = "transformed" /\ \E m \in 1 .. Len(origResults) : Len(origResults) = m + m) =>
       \A k \in 1 .. Len(origResults) - 1 : origResults[k] = FALSE

(* The errors of the report are not mistaken for those of q.               *)
Judged(q) == bug[2] = "transformed" \/ Len(q) # Len(origResults)

(* Neither the originals nor the first transformed statements show it.     *)
LEMMA OnlyLastShows ==
  ASSUME Origin, NEW s, NEW m, Mirrored(s, m, statementIndex + 1),
         bug[2] = "transformed", NEW k \in 1 .. m + m, k # m + m
  PROVE  ~Triggered(SinceReset(s, k))
<1>1. /\ s \in Seq(Trees) /\ m \in Nat /\ 1 <= m /\ Len(s) = m + m /\ Half(s) = m
      /\ k \in Nat /\ 1 <= k /\ k < m + m
  <2>1. /\ s \in Seq(Trees) /\ m \in Nat /\ 1 <= m /\ Len(s) = m + m
    BY DEF Mirrored
  <2>2. Half(s) = m
    BY MirroredShape
  <2> QED
    BY <2>1, <2>2
<1>2. \A h \in 1 .. m :
        /\ s[h] = Meaning(s[m + h]) /\ s[h] \in Trees /\ s[m + h] \in Trees
        /\ s[m + h] \in Seq(Nodes)
        /\ h # m => \A j \in 1 .. Len(s[h]) : s[h][j].id[1] # statementIndex + 1
  <2>1. \A h \in 1 .. m : h \in 1 .. m + m /\ m + h \in 1 .. m + m
    BY <1>1
  <2>2. \A h \in 1 .. m : s[h] \in Trees /\ s[m + h] \in Trees /\ s[m + h] \in Seq(Nodes)
    BY <1>1, <2>1, TreesAreSeqs
  <2> QED
    BY <2>2 DEF Mirrored
<1>3. CASE k <= m
  <2>1. SinceReset(s, k) = SubSeq(s, 1, k)
    BY <1>1, <1>3 DEF SinceReset
  <2>2. PICK a : a = SubSeq(s, 1, k)
    OBVIOUS
  <2>3. a \in Seq(Trees) /\ Len(a) = k /\ \A h \in 1 .. k : a[h] = s[1 + h - 1]
    <3>1. 1 \in Int /\ k \in Int /\ 1 <= 1 /\ 1 <= k + 1 /\ k <= Len(s) /\ k = k - 1 + 1
      BY <1>1, <1>3
    <3> QED
      BY <1>1, <2>2, <3>1, PartOfQuery
  <2>4. ASSUME NEW h \in 1 .. k, NEW j \in 1 .. Len(a[h]) PROVE a[h][j].use = "plain"
    <3>1. h \in 1 .. m /\ 1 + h - 1 = h
      BY <1>1, <1>3
    <3>2. a[h] = Meaning(s[m + h]) /\ s[m + h] \in Seq(Nodes)
      BY <1>2, <2>3, <3>1
    <3> QED
      BY <3>2, MeaningShape
  <2>5. \A x \in Parts(a) : x[2] # "form"
    BY <2>3, <2>4, PartsOfQuery
  <2> QED
    BY <2>1, <2>2, <2>5 DEF Origin, Triggered
<1>4. CASE k > m
  <2>1. SinceReset(s, k) = SubSeq(s, m + 1, k)
    BY <1>1, <1>4 DEF SinceReset
  <2>2. PICK a : a = SubSeq(s, m + 1, k)
    OBVIOUS
  <2>3. a \in Seq(Trees) /\ Len(a) = k - m /\ \A h \in 1 .. k - m : a[h] = s[(m + 1) + h - 1]
    <3>1. m + 1 \in Int /\ k \in Int /\ 1 <= m + 1 /\ m + 1 <= k + 1 /\ k <= Len(s)
          /\ k - m = k - (m + 1) + 1
      BY <1>1, <1>4
    <3> QED
      BY <1>1, <2>2, <3>1, PartOfQuery
  <2>4. ASSUME NEW h \in 1 .. k - m, NEW j \in 1 .. Len(a[h])
        PROVE  a[h][j].id[1] # statementIndex + 1
    <3>1. h \in 1 .. m /\ h # m /\ (m + 1) + h - 1 = m + h
      BY <1>1, <1>4
    <3>2. PICK o : o = s[m + h]
      OBVIOUS
    <3>3. a[h] = o /\ o \in Seq(Nodes) /\ s[h] = Meaning(o)
          /\ \A i \in 1 .. Len(s[h]) : s[h][i].id[1] # statementIndex + 1
      BY <1>2, <2>3, <3>1, <3>2
    <3>4. j \in 1 .. Len(o) /\ Len(s[h]) = Len(o) /\ s[h][j].id = o[j].id
      BY <3>3, MeaningShape
    <3> QED
      BY <3>3, <3>4
  <2>5. ASSUME NEW x \in Parts(a) PROVE x[1][1] # statementIndex + 1
    <3>1. PICK h \in 1 .. Len(a) : \E j \in 1 .. Len(a[h]) : x[1] = a[h][j].id
      BY <2>3, PartsOfQuery
    <3>2. PICK j \in 1 .. Len(a[h]) : x[1] = a[h][j].id
      BY <3>1
    <3>3. h \in 1 .. k - m
      BY <2>3, <3>1
    <3> QED
      BY <2>4, <3>2, <3>3
  <2> QED
    BY <2>1, <2>2, <2>5 DEF Origin, Triggered
<1> QED
  BY <1>1, <1>3, <1>4

(* Correct rows are the same in both halves.                               *)
LEMMA SeenIsSame ==
  ASSUME NEW s, NEW m, NEW n, Mirrored(s, m, n)
  PROVE  /\ SinceReset(s, m + m) = SecondHalf(s)
         /\ Answer(SinceReset(s, m)).seen = Answer(SinceReset(s, m + m)).seen
<1>1. /\ s \in Seq(Trees) /\ m \in Nat /\ 1 <= m /\ Len(s) = m + m /\ Half(s) = m
  BY MirroredShape DEF Mirrored
<1>2. SinceReset(s, m) = SubSeq(s, 1, m)
  BY <1>1 DEF SinceReset
<1>3. SinceReset(s, m + m) = SecondHalf(s)
  <2>1. ~(m + m <= m)
    BY <1>1
  <2> QED
    BY <1>1, <2>1 DEF SinceReset, SecondHalf
<1>4. PICK a, b : a = SubSeq(s, 1, m) /\ b = SecondHalf(s)
  OBVIOUS
<1>5. a \in Seq(Trees) /\ Len(a) = m /\ \A h \in 1 .. m : a[h] = s[1 + h - 1]
  <2>1. 1 \in Int /\ m \in Int /\ 1 <= 1 /\ 1 <= m + 1 /\ m <= Len(s) /\ m = m - 1 + 1
    BY <1>1
  <2> QED
    BY <1>1, <1>4, <2>1, PartOfQuery
<1>6. b \in Seq(Trees) /\ Len(b) = m /\ \A h \in 1 .. m : b[h] = s[m + h]
  BY <1>4, MirroredShape
<1>7. DOMAIN a = 1 .. m /\ DOMAIN b = 1 .. m
  BY <1>5, <1>6, TreesAreSeqs
<1>8. ASSUME NEW h \in 1 .. m PROVE Meaning(a[h]) = Meaning(b[h])
  <2>1. 1 + h - 1 = h /\ m + h \in 1 .. m + m
    BY <1>1
  <2>2. a[h] = Meaning(s[m + h]) /\ b[h] = s[m + h]
    BY <1>5, <1>6, <2>1 DEF Mirrored
  <2>3. s[m + h] \in Seq(Nodes)
    BY <1>1, <2>1, TreesAreSeqs
  <2> QED
    BY <2>2, <2>3, MeaningIsIdempotent
<1>9. [k \in {i \in DOMAIN a : bug[1] = "rows"} |-> Meaning(a[k])]
        = [k \in {i \in DOMAIN b : bug[1] = "rows"} |-> Meaning(b[k])]
  BY <1>7, <1>8
<1>10. Answer(a).seen = Answer(b).seen
  BY <1>9 DEF Answer
<1> QED
  BY <1>2, <1>3, <1>4, <1>10

LEMMA VerdictIsTrigger ==
  ASSUME Origin, NEW s, Halves(s, statementIndex + 1), Judged(s)
  PROVE  ValidateReductionResult(s) <=> Shows(SecondHalf(s), trigger)
<1>1. PICK m : m = Half(s) /\ Mirrored(s, m, statementIndex + 1)
  BY DEF Halves
<1>2. /\ s \in Seq(Trees) /\ m \in Nat /\ 1 <= m /\ Len(s) = m + m /\ DOMAIN s = 1 .. m + m
  BY <1>1, TreesAreSeqs DEF Mirrored
<1>3. m + m \in 1 .. m + m /\ m \in 1 .. m + m /\ m # m + m
  BY <1>2
<1>4. PICK b : b = SecondHalf(s)
  OBVIOUS
<1>5. SinceReset(s, m + m) = b
  BY <1>1, <1>4, SeenIsSame
<1>6. \A k : Result(s, k).error = (bug[1] = "error" /\ Triggered(SinceReset(s, k)))
             /\ Result(s, k).wrong = (bug[1] = "rows" /\ Triggered(SinceReset(s, k)))
  BY DEF Result, Answer
<1>7. bug[1] = "error" \/ (bug[1] = "rows" /\ bug[2] = "transformed")
  BY BugsAssumption DEF Origin
<1>8. bug[2] = "transformed" => \A k \in 1 .. m + m : k # m + m => ~Triggered(SinceReset(s, k))
  BY <1>1, OnlyLastShows
<1>9. PICK len : len = Len(origResults)
  OBVIOUS
<1>10. /\ len \in Nat /\ len >= 1 /\ origResults[len] = (bug[1] = "error")
       /\ (bug[2] = "transformed" /\ len = m + m) =>
             \A k \in 1 .. m + m : k # m + m => origResults[k] = FALSE
  <2>1. len \in Nat /\ len >= 1 /\ origResults[len] = (bug[1] = "error")
    BY <1>9, LenProperties DEF Origin
  <2>2. ASSUME bug[2] = "transformed", len = m + m
        PROVE  \A k \in 1 .. m + m : k # m + m => origResults[k] = FALSE
    <3>1. m \in 1 .. len
      BY <1>2, <2>2
    <3>2. \A k \in 1 .. len - 1 : origResults[k] = FALSE
      BY <1>9, <2>2, <3>1 DEF Origin
    <3>3. \A k \in 1 .. m + m : k # m + m => k \in 1 .. len - 1
      BY <1>2, <2>2
    <3> QED
      BY <3>2, <3>3
  <2> QED
    BY <2>1, <2>2
<1>11. Judged(s) => bug[2] = "transformed" \/ len # m + m
  BY <1>2, <1>9 DEF Judged
<1>12. SameErrors(s) = IF len # m + m THEN origResults[len] = Result(s, m + m).error
                         ELSE \A k \in 1 .. m + m : origResults[k] = Result(s, k).error
  BY <1>2, <1>9 DEF SameErrors
<1>13. ValidateReductionResult(s) =
         (/\ SameErrors(s)
          /\ \/ Result(s, m + m).error
             \/ ~IsEqualResult(Result(s, m), Result(s, m + m)))
  BY <1>1, <1>2 DEF ValidateReductionResult
<1>14. Shows(b, trigger) = Triggered(b)
  BY DEF Shows, Triggered
<1>15. CASE bug[1] = "error"
  <2>1. Result(s, m + m).error = Triggered(b)
    BY <1>5, <1>6, <1>15 DEF Triggered
  <2>2. origResults[len] = TRUE
    BY <1>10, <1>15
  <2>3. ASSUME Triggered(b) PROVE ValidateReductionResult(s)
    <3>1. CASE len # m + m
      BY <1>12, <1>13, <2>1, <2>2, <2>3, <3>1
    <3>2. CASE len = m + m
      <4>1. bug[2] = "transformed"
        BY <1>11, <3>2
      <4>2. ASSUME NEW k \in 1 .. m + m PROVE origResults[k] = Result(s, k).error
        <5>1. CASE k = m + m
          BY <2>1, <2>2, <2>3, <3>2, <5>1
        <5>2. CASE k # m + m
          <6>1. origResults[k] = FALSE
            BY <1>10, <3>2, <4>1, <5>2
          <6>2. ~Triggered(SinceReset(s, k))
            BY <1>8, <4>1, <5>2
          <6> QED
            BY <1>6, <6>1, <6>2
        <5> QED
          BY <5>1, <5>2
      <4> QED
        BY <1>12, <1>13, <2>1, <2>3, <3>2, <4>2
    <3> QED
      BY <3>1, <3>2
  <2>4. ASSUME ValidateReductionResult(s) PROVE Triggered(b)
    <3>1. SameErrors(s)
      BY <1>13, <2>4
    <3>2. origResults[len] = Result(s, m + m).error
      BY <1>3, <1>12, <3>1
    <3> QED
      BY <2>1, <2>2, <3>2
  <2> QED
    BY <1>4, <1>14, <2>3, <2>4
<1>16. CASE bug[1] = "rows" /\ bug[2] = "transformed"
  <2>1. \A k : Result(s, k).error = FALSE
    BY <1>6, <1>16
  <2>2. origResults[len] = FALSE
    BY <1>10, <1>16
  <2>3. SameErrors(s)
    <3>1. CASE len # m + m
      BY <1>12, <2>1, <2>2, <3>1
    <3>2. CASE len = m + m
      <4>1. \A k \in 1 .. m + m : origResults[k] = FALSE
        BY <1>10, <1>16, <2>2, <3>2
      <4> QED
        BY <1>12, <2>1, <3>2, <4>1
    <3> QED
      BY <3>1, <3>2
  <2>4. Result(s, m).seen = Result(s, m + m).seen
    BY <1>1, SeenIsSame DEF Result
  <2>5. Result(s, m).wrong = FALSE
    BY <1>3, <1>6, <1>8, <1>16
  <2>6. Result(s, m + m).wrong = Triggered(b)
    BY <1>5, <1>6, <1>16 DEF Triggered
  <2>7. IsEqualResult(Result(s, m), Result(s, m + m)) <=> ~Triggered(b)
    BY <2>4, <2>5, <2>6 DEF IsEqualResult, Triggered
  <2> QED
    BY <1>4, <1>13, <1>14, <2>1, <2>3, <2>7
<1> QED
  BY <1>7, <1>15, <1>16

-----------------------------------------------------------------------------
(* The halves stay parallel. *)

(* Where the keys of the context may point in a query of m originals.      *)
Bounded(m) ==
  /\ /\ reducedStarting \in BOOLEAN /\ reducedTransformations \in BOOLEAN
     /\ reducedEquivalenceClauses \in BOOLEAN
  /\ ~reducedStarting =>
       /\ reduceStartingStatementsIndex \in {Nil} \cup (0 .. m - 2)
       /\ reduceTransformationsIndex = Nil /\ reduceTransformationsFlipIndex = Nil
       /\ ~reducedTransformations
  /\ ~reducedTransformations =>
       /\ reduceTransformationsIndex \in {Nil} \cup (0 .. m + m - 1)
       /\ reduceTransformationsFlipIndex \in {Nil} \cup Nat
       /\ reduceEquivalenceStatementIndex = Nil /\ reduceEquivalenceClausesClauseIndex = Nil
       /\ ~reducedEquivalenceClauses
  /\ ~reducedEquivalenceClauses =>
       /\ reduceEquivalenceStatementIndex \in {Nil} \cup (0 .. m - 1)
       /\ reduceEquivalenceClausesClauseIndex \in {Nil} \cup Nat
       /\ reduceEquivalenceStatementIndex = Nil => reduceEquivalenceClausesClauseIndex = Nil

(* A pass has not begun.                                                   *)
Fresh ==
  /\ reducedStarting = FALSE /\ reduceStartingStatementsIndex = Nil
  /\ reducedTransformations = FALSE /\ reduceTransformationsIndex = Nil
  /\ reduceTransformationsFlipIndex = Nil
  /\ reducedEquivalenceClauses = FALSE /\ reduceEquivalenceStatementIndex = Nil
  /\ reduceEquivalenceClausesClauseIndex = Nil

LEMMA FreshIsBounded ==
  ASSUME Fresh, NEW m
  PROVE  Bounded(m)
BY DEF Fresh, Bounded

FirstOf(q, n) == SubSeq(q, 1, n) \o SubSeq(q, Len(q) - n + 1, Len(q))

FirstProposal == FirstOf(reducedClauses, statementIndex + 1)

Well(q) == Halves(q, statementIndex + 1) /\ Bounded(Half(q))

Accepted(q) == Judged(q) /\ Shows(SecondHalf(q), trigger)

(* The first proposal is accepted, and so both it and what is reduced from *)
(* it have parallel halves.                                                *)
HalvesInv ==
  /\ Origin
  /\ pc \in {"step", "run", "report", "done", "failed"}
  /\ reducedUntransformed \in BOOLEAN
  /\ ~reducedUntransformed =>
       /\ pc = "step" /\ newClauses = << >> /\ Fresh
       /\ Halves(FirstProposal, statementIndex + 1) /\ Accepted(FirstProposal)
  /\ reducedUntransformed =>
       /\ Halves(newClauses, statementIndex + 1)
       /\ pc \in {"step", "report", "done"} => Well(reducedClauses)
       /\ pc = "run" => Well(newClauses) /\ (Well(reducedClauses) \/ Accepted(newClauses))

LEMMA OriginalStatements ==
  ASSUME NEW n \in DOMAIN Shapes, NEW statements \in Originals(n)
  PROVE  /\ n \in Nat /\ 1 <= n
         /\ statements \in Seq(Trees) /\ Len(statements) = n /\ DOMAIN statements = 1 .. n
         /\ \A k \in 1 .. n : \A j \in 1 .. Len(statements[k]) :
              statements[k][j].use = "plain" /\ statements[k][j].id[1] = k
<1>1. n \in Nat /\ 1 <= n
  BY ShapesAssumption, LenProperties
<1>2. statements \in Seq(Trees)
  BY OriginalsAreQueries DEF Queries
<1>3. DOMAIN statements = 1 .. n
  BY DEF Originals
<1>4. Len(statements) = n
  BY <1>1, <1>2, <1>3, TreesAreSeqs
<1>5. ASSUME NEW k \in 1 .. n, NEW j \in 1 .. Len(statements[k])
      PROVE  statements[k][j].use = "plain" /\ statements[k][j].id[1] = k
  <2>1. PICK shape \in Shapes[k] : statements[k] = Statement(shape, k)
    BY DEF Originals
  <2>2. j \in DOMAIN statements[k]
    BY <1>2, <1>4, TreesAreSeqs
  <2>3. j \in DOMAIN shape
    BY <2>1, <2>2 DEF Statement
  <2> QED
    BY <2>1, <2>3 DEF Statement
<1> QED
  BY <1>1, <1>2, <1>3, <1>4, <1>5

LEMMA TransformationMeans ==
  ASSUME NEW t \in Trees, \A j \in 1 .. Len(t) : t[j].use = "plain",
         NEW u \in Transformations(t)
  PROVE  u \in Trees /\ t = Meaning(u)
<1>1. t \in Seq(Nodes) /\ Len(t) \in Nat /\ DOMAIN t = 1 .. Len(t)
      /\ \A j \in 1 .. Len(t) : t[j] \in Nodes
  BY TreeShape DEF Trees
<1>2. PICK S : u = [i \in DOMAIN t |-> IF i \in S THEN [t[i] EXCEPT !.use = "transformed"] ELSE t[i]]
  BY DEF Transformations
<1>3. PICK n : n = Len(t)
  OBVIOUS
<1>4. ASSUME NEW c \in Nodes, NEW d, d = [c EXCEPT !.use = "transformed"]
      PROVE  d \in Nodes /\ d.id = c.id /\ d.kind = c.kind /\ d.depth = c.depth
  BY <1>4 DEF Nodes, Uses
<1>5. ASSUME NEW j \in 1 .. n
      PROVE  /\ u[j] \in Nodes
             /\ u[j].id = t[j].id /\ u[j].kind = t[j].kind /\ u[j].depth = t[j].depth
  <2>1. u[j] = IF j \in S THEN [t[j] EXCEPT !.use = "transformed"] ELSE t[j]
    BY <1>1, <1>2, <1>3
  <2>2. t[j] \in Nodes
    BY <1>1, <1>3
  <2> QED
    BY <1>4, <2>1, <2>2
<1>6. u \in [1 .. n -> Nodes]
  BY <1>1, <1>2, <1>3, <1>5
<1>7. u \in Seq(Nodes) /\ Len(u) = n
  BY <1>1, <1>3, <1>6
<1>8. u \in Trees
  BY <1>3, <1>5, <1>7, SameShapeIsTree
<1>9. t = Meaning(u)
  BY <1>1, <1>3, <1>5, <1>7, MeaningIs
<1> QED
  BY <1>8, <1>9

LEMMA TransformedStatements ==
  ASSUME NEW n \in Nat, NEW originals \in Seq(Trees), DOMAIN originals = 1 .. n,
         Len(originals) = n,
         \A k \in 1 .. n : \A j \in 1 .. Len(originals[k]) : originals[k][j].use = "plain",
         NEW transformed \in TransformedFrom(originals)
  PROVE  /\ transformed \in Seq(Trees) /\ Len(transformed) = n
         /\ \A k \in 1 .. n : originals[k] = Meaning(transformed[k])
<1>1. /\ DOMAIN transformed = 1 .. n
      /\ transformed = [k \in 1 .. n |-> transformed[k]]
      /\ \A k \in 1 .. n : transformed[k] \in Transformations(originals[k])
  BY DEF TransformedFrom
<1>2. \A k \in 1 .. n : originals[k] \in Trees
  BY TreesAreSeqs
<1>3. \A k \in 1 .. n : transformed[k] \in Trees /\ originals[k] = Meaning(transformed[k])
  BY <1>1, <1>2, TransformationMeans
<1>4. transformed \in [1 .. n -> Trees]
  BY <1>1, <1>3
<1> QED
  BY <1>3, <1>4

(* The originals and their transformations, from the front and the back.   *)
Joined(q, n, a, b, c) ==
  /\ n \in Nat /\ 1 <= n /\ a \in Seq(Trees) /\ Len(a) = n
  /\ b \in Seq(Trees) /\ c \in Seq(Trees) /\ Len(c) = n
  /\ q = (a \o b) \o c

BeginsAndEnds(q, n, a, b, c) ==
  /\ q \in Seq(Trees) /\ Len(q) = n + Len(b) + n
  /\ SubSeq(q, 1, n) = a /\ SubSeq(q, Len(q) - n + 1, Len(q)) = c

LEMMA FirstOfReport ==
  ASSUME NEW q, NEW n, NEW a, NEW b, NEW c, Joined(q, n, a, b, c)
  PROVE  BeginsAndEnds(q, n, a, b, c)
<1>0. /\ n \in Nat /\ 1 <= n /\ a \in Seq(Trees) /\ Len(a) = n
      /\ b \in Seq(Trees) /\ c \in Seq(Trees) /\ Len(c) = n
      /\ q = (a \o b) \o c
  BY DEF Joined
<1> USE <1>0
<1>1. PICK d, l : d = a \o b /\ l = Len(b)
  OBVIOUS
<1>2. /\ d \in Seq(Trees) /\ Len(d) = n + l /\ l \in Nat
      /\ \A h \in 1 .. n + l : d[h] = IF h <= n THEN a[h] ELSE b[h - n]
  <2>1. /\ a \o b \in Seq(Trees) /\ Len(a \o b) = Len(a) + Len(b)
        /\ \A h \in 1 .. Len(a) + Len(b) :
             (a \o b)[h] = IF h <= Len(a) THEN a[h] ELSE b[h - Len(a)]
    BY JoinedQueries
  <2>2. l \in Nat
    BY <1>1, TreesAreSeqs
  <2> QED
    BY <1>1, <2>1, <2>2
<1>3. /\ q \in Seq(Trees) /\ Len(q) = n + l + n
      /\ \A h \in 1 .. n + l + n : q[h] = IF h <= n + l THEN d[h] ELSE c[h - (n + l)]
  <2>1. /\ d \o c \in Seq(Trees) /\ Len(d \o c) = Len(d) + Len(c)
        /\ \A h \in 1 .. Len(d) + Len(c) :
             (d \o c)[h] = IF h <= Len(d) THEN d[h] ELSE c[h - Len(d)]
    BY <1>2, JoinedQueries
  <2>2. q = d \o c
    BY <1>1
  <2> QED
    BY <1>2, <2>1, <2>2
<1>4. SubSeq(q, 1, n) = a
  <2>1. PICK e : e = SubSeq(q, 1, n)
    OBVIOUS
  <2>2. e \in Seq(Trees) /\ Len(e) = n /\ \A h \in 1 .. n : e[h] = q[1 + h - 1]
    <3>1. 1 \in Int /\ n \in Int /\ 1 <= 1 /\ 1 <= n + 1 /\ n <= Len(q) /\ n = n - 1 + 1
      BY <1>2, <1>3
    <3> QED
      BY <1>3, <2>1, <3>1, PartOfQuery
  <2>3. ASSUME NEW h \in 1 .. n PROVE e[h] = a[h]
    <3>1. h \in 1 .. n + l + n /\ h \in 1 .. n + l /\ h <= n /\ h <= n + l /\ 1 + h - 1 = h
      BY <1>2
    <3> QED
      BY <1>2, <1>3, <2>2, <3>1
  <2>4. e = a
    BY <2>2, <2>3, SeqEqual
  <2> QED
    BY <2>1, <2>4
<1>5. PICK from, to : from = n + l + 1 /\ to = n + l + n
  OBVIOUS
<1>6. /\ from \in Int /\ to \in Int /\ 1 <= from /\ from <= to + 1 /\ n = to - from + 1
      /\ to - n + 1 = from /\ l \in Nat
  <2>1. l \in Nat
    BY <1>2
  <2> QED
    BY <1>5, <2>1
<1>7. Len(q) = to
  BY <1>3, <1>5
<1>8. SubSeq(q, from, to) = c
  <2>1. PICK e : e = SubSeq(q, from, to)
    OBVIOUS
  <2>2. e \in Seq(Trees) /\ Len(e) = n /\ \A h \in 1 .. n : e[h] = q[from + h - 1]
    <3>1. /\ q \in Seq(Trees) /\ from \in Int /\ to \in Int /\ 1 <= from /\ from <= to + 1
          /\ to <= Len(q) /\ n = to - from + 1
      BY <1>3, <1>6, <1>7
    <3>2. /\ SubSeq(q, from, to) \in Seq(Trees) /\ Len(SubSeq(q, from, to)) = n
          /\ \A h \in 1 .. n : SubSeq(q, from, to)[h] = q[from + h - 1]
      BY <3>1, PartOfQuery
    <3> QED
      BY <2>1, <3>2
  <2>3. ASSUME NEW h \in 1 .. n PROVE e[h] = c[h]
    <3>0. PICK g : g = from + h - 1
      OBVIOUS
    <3>1. g \in 1 .. n + l + n /\ ~(g <= n + l) /\ g - (n + l) = h
      BY <1>5, <1>6, <3>0
    <3>2. e[h] = q[g]
      BY <2>2, <3>0
    <3>3. q[g] = c[g - (n + l)]
      BY <1>3, <3>1
    <3> QED
      BY <3>1, <3>2, <3>3
  <2>4. e = c
    BY <2>2, <2>3, SeqEqual
  <2> QED
    BY <2>1, <2>4
<1>9. SubSeq(q, Len(q) - n + 1, Len(q)) = c
  BY <1>6, <1>7, <1>8
<1> QED
  BY <1>1, <1>3, <1>4, <1>9 DEF BeginsAndEnds

(* Originals followed by their transformations.                            *)
LEMMA OriginalsMirror ==
  ASSUME NEW n \in Nat, 1 <= n, NEW a \in Seq(Trees), Len(a) = n,
         NEW c \in Seq(Trees), Len(c) = n,
         \A k \in 1 .. n : a[k] = Meaning(c[k]),
         \A k \in 1 .. n : \A j \in 1 .. Len(a[k]) : a[k][j].id[1] = k,
         NEW w, w = a \o c
  PROVE  Mirrored(w, n, n) /\ SecondHalf(w) = c
<1>1. /\ w \in Seq(Trees) /\ Len(w) = n + n
      /\ \A h \in 1 .. n + n : w[h] = IF h <= n THEN a[h] ELSE c[h - n]
  <2>1. /\ a \o c \in Seq(Trees) /\ Len(a \o c) = Len(a) + Len(c)
        /\ \A h \in 1 .. Len(a) + Len(c) :
             (a \o c)[h] = IF h <= Len(a) THEN a[h] ELSE c[h - Len(a)]
    BY JoinedQueries
  <2> QED
    BY <2>1
<1>2. \A h \in 1 .. n : /\ h \in 1 .. n + n /\ n + h \in 1 .. n + n /\ h <= n
                        /\ ~(n + h <= n) /\ (n + h) - n = h
  OBVIOUS
<1>3. \A h \in 1 .. n : w[h] = a[h] /\ w[n + h] = c[h]
  BY <1>1, <1>2
<1>4. Mirrored(w, n, n)
  BY <1>1, <1>3 DEF Mirrored
<1>5. PICK f : f = SecondHalf(w)
  OBVIOUS
<1>6. f \in Seq(Trees) /\ Len(f) = n /\ \A h \in 1 .. n : f[h] = w[n + h]
  BY <1>4, <1>5, MirroredShape
<1>7. f = c
  BY <1>3, <1>6, SeqEqual
<1> QED
  BY <1>4, <1>5, <1>7

LEMMA DroppedIsTree == Dropped \in Trees
<1>1. PICK c : c = [id |-> <<0, 0>>, kind |-> "clause", depth |-> 0, use |-> "plain"]
  OBVIOUS
<1>2. c \in Nodes
  BY <1>1 DEF Nodes, Kinds, Uses
<1>3. PICK t : t = << c >>
  OBVIOUS
<1>4. t \in Seq(Nodes) /\ Len(t) = 1 /\ DOMAIN t = 1 .. 1 /\ t[1] = c
  <2>1. t \in Seq(Nodes) /\ Len(t) = 1 /\ t[1] = c
    BY <1>2, <1>3, OneIsSeq
  <2> QED
    BY <2>1, LenProperties
<1>5. c.kind = "clause" /\ c.use = "plain" /\ c.depth = 0
  BY <1>1
<1>6. IsTree(t)
  BY <1>4, <1>5 DEF IsTree, Kinds, Uses
<1>7. ChainsHoldClauses(t)
  BY <1>4, <1>5 DEF ChainsHoldClauses
<1> QED
  BY <1>1, <1>3, <1>4, <1>6, <1>7 DEF Trees, Dropped

(* The report of a transformed statement.                                  *)
LEMMA TransformedReport ==
  ASSUME NEW n \in Nat, 1 <= n, NEW originals \in Seq(Trees), Len(originals) = n,
         NEW rest \in {<< >>, <<Dropped>>}, NEW transformed \in Seq(Trees), Len(transformed) = n,
         bug \in Bugs, bug[2] = "transformed",
         reducedClauses = (originals \o rest) \o transformed,
         origResults = [k \in 1 .. Len(reducedClauses) |->
                \/ rest # << >> /\ k = n + 1
                \/ bug[1] = "error" /\ k = Len(reducedClauses)]
  PROVE  /\ FirstOf(reducedClauses, n) = originals \o transformed
         /\ SubSeq(reducedClauses, Len(reducedClauses) - n + 1, Len(reducedClauses)) = transformed
         /\ origResults \in Seq(BOOLEAN) /\ Len(origResults) >= 1
         /\ origResults[Len(origResults)] = (bug[1] = "error")
         /\ (\E m \in 1 .. Len(origResults) : Len(origResults) = m + m) =>
               \A k \in 1 .. Len(origResults) - 1 : origResults[k] = FALSE
<1>1. rest \in Seq(Trees) /\ ((rest = << >> /\ Len(rest) = 0) \/ (rest # << >> /\ Len(rest) = 1))
  <2>1. CASE rest = << >>
    <3>1. << >> \in Seq(Trees) /\ Len(<< >>) = 0
      BY EmptySeq
    <3> QED
      BY ONLY <2>1, <3>1
  <2>2. CASE rest = << Dropped >>
    <3>1. PICK c \in Trees : c = Dropped
      BY DroppedIsTree
    <3>2. rest = << c >>
      BY <2>2, <3>1
    <3> QED
      BY <3>2
  <2> QED
    BY <2>1, <2>2
<1>2. /\ Len(reducedClauses) = n + Len(rest) + n
      /\ SubSeq(reducedClauses, 1, n) = originals
      /\ SubSeq(reducedClauses, Len(reducedClauses) - n + 1, Len(reducedClauses)) = transformed
  <2>1. PICK b : b = rest
    OBVIOUS
  <2>2. PICK q : q = reducedClauses
    OBVIOUS
  <2>3. /\ n \in Nat /\ 1 <= n /\ originals \in Seq(Trees) /\ Len(originals) = n
        /\ b \in Seq(Trees) /\ transformed \in Seq(Trees) /\ Len(transformed) = n
        /\ q = (originals \o b) \o transformed
    BY <1>1, <2>1, <2>2
  <2>4. Joined(q, n, originals, b, transformed)
    BY ONLY <2>3 DEF Joined
  <2>5. BeginsAndEnds(q, n, originals, b, transformed)
    BY ONLY <2>4, FirstOfReport
  <2>6. /\ Len(q) = n + Len(b) + n /\ SubSeq(q, 1, n) = originals
        /\ SubSeq(q, Len(q) - n + 1, Len(q)) = transformed
    BY ONLY <2>5 DEF BeginsAndEnds
  <2> QED
    BY ONLY <2>1, <2>2, <2>6
<1>3. PICK len : len = Len(reducedClauses)
  OBVIOUS
<1>4. len \in Nat /\ len >= 1 /\ (rest = << >> => len = n + n)
      /\ (rest # << >> => len = n + 1 + n)
  <2>1. PICK r : r = Len(rest)
    OBVIOUS
  <2>2. len = n + r + n
    BY ONLY <1>2, <1>3, <2>1
  <2>3. (rest = << >> /\ r = 0) \/ (rest # << >> /\ r = 1)
    BY ONLY <1>1, <2>1
  <2>4. n \in Nat /\ 1 <= n
    OBVIOUS
  <2> QED
    BY ONLY <2>2, <2>3, <2>4
<1>5. \A k \in 1 .. len : ((rest # << >> /\ k = n + 1) \/ (bug[1] = "error" /\ k = len)) \in BOOLEAN
  OBVIOUS
<1>6. origResults \in [1 .. len -> BOOLEAN]
  BY <1>3, <1>5
<1>7. origResults \in Seq(BOOLEAN) /\ Len(origResults) = len
  BY <1>4, <1>6
<1>8. ASSUME NEW k \in 1 .. len
      PROVE  /\ bug[1] = "error" /\ k = len => origResults[k] = TRUE
             /\ ~(rest # << >> /\ k = n + 1) /\ ~(bug[1] = "error" /\ k = len) =>
                  origResults[k] = FALSE
  BY <1>3
<1>9. origResults[len] = (bug[1] = "error")
  <2>1. ~(rest # << >> /\ len = n + 1) /\ len \in 1 .. len
    BY <1>4
  <2>2. CASE bug[1] = "error"
    BY <1>8, <2>1, <2>2
  <2>3. CASE bug[1] # "error"
    BY <1>8, <2>1, <2>3
  <2> QED
    BY <2>2, <2>3
<1>10. ASSUME NEW m \in 1 .. len, len = m + m, NEW k \in 1 .. len - 1
       PROVE  origResults[k] = FALSE
  <2>1. rest = << >> /\ k # len /\ k \in 1 .. len
    BY <1>4, <1>10
  <2> QED
    BY <1>8, <2>1
<1> QED
  BY <1>2, <1>4, <1>7, <1>9, <1>10 DEF FirstOf

LEMMA WellReported ==
  ASSUME Init
  PROVE  /\ Origin
         /\ Halves(FirstProposal, statementIndex + 1) /\ Accepted(FirstProposal)
<1>1. PICK n \in DOMAIN Shapes :
        /\ \E originals \in Originals(n) : RegeneratedQuery(n, originals)
        /\ BugShows(n) /\ statementIndex = n - 1
  BY DEF Init
<1>2. PICK originals \in Originals(n) : RegeneratedQuery(n, originals)
  BY <1>1
<1>3. /\ n \in Nat /\ 1 <= n
      /\ originals \in Seq(Trees) /\ Len(originals) = n /\ DOMAIN originals = 1 .. n
      /\ \A k \in 1 .. n : \A j \in 1 .. Len(originals[k]) :
           originals[k][j].use = "plain" /\ originals[k][j].id[1] = k
  BY OriginalStatements
<1>4. bug \in Bugs /\ statementIndex + 1 = n /\ n \in Nat \ {0}
  BY <1>1, <1>3 DEF Init
<1>5. ASSUME NEW c \in Seq(Trees), Len(c) = n, \A k \in 1 .. n : originals[k] = Meaning(c[k]),
             FirstOf(reducedClauses, n) = originals \o c, Shows(c, trigger),
             bug[2] = "transformed" \/ Len(origResults) = n
      PROVE  Halves(FirstProposal, statementIndex + 1) /\ Accepted(FirstProposal)
  <2>1. PICK w : w = originals \o c
    OBVIOUS
  <2>2. Mirrored(w, n, n) /\ SecondHalf(w) = c
    <3>1. /\ n \in Nat /\ 1 <= n /\ originals \in Seq(Trees) /\ Len(originals) = n
          /\ c \in Seq(Trees) /\ Len(c) = n
          /\ \A k \in 1 .. n : originals[k] = Meaning(c[k])
          /\ \A k \in 1 .. n : \A j \in 1 .. Len(originals[k]) : originals[k][j].id[1] = k
      BY <1>3, <1>5
    <3> QED
      BY ONLY <2>1, <3>1, OriginalsMirror
  <2>3. FirstProposal = w
    BY <1>4, <1>5, <2>1 DEF FirstProposal
  <2>4. Halves(w, n)
    BY <2>2, HalvesAreMirrored
  <2>5. Len(w) = n + n /\ n + n # n
    BY <1>3, <2>2 DEF Mirrored
  <2>6. Judged(w)
    BY <1>5, <2>5 DEF Judged
  <2> QED
    BY <1>4, <1>5, <2>2, <2>3, <2>4, <2>6 DEF Accepted
<1>6. CASE bug[2] = "original"
  <2>1. reducedClauses = originals /\ origResults = [k \in 1 .. n |-> k = n]
    BY <1>2, <1>6 DEF RegeneratedQuery, LoopInit
  <2>2. /\ Shows(originals, trigger) /\ \E part \in trigger : part[1][1] = n
    BY <1>1, <1>6, <2>1 DEF BugShows, Shows
  <2>3. bug[1] = "error"
    BY <1>4, <1>6, BugsAssumption
  <2>4. origResults \in Seq(BOOLEAN) /\ Len(origResults) = n /\ origResults[n] = TRUE
    <3>1. origResults \in [1 .. n -> BOOLEAN] /\ n \in 1 .. n
      BY <1>3, <2>1
    <3>2. origResults[n] = (n = n)
      BY <2>1, <3>1
    <3> QED
      BY <1>3, <3>1, <3>2
  <2>5. Origin
    BY <1>3, <1>4, <1>6, <2>2, <2>3, <2>4 DEF Origin
  <2>6. originals \o << >> = originals /\ << >> \o originals = originals /\ << >> \in Seq(Trees)
    BY <1>3, ConcatEmptySeq
  <2>7. SubSeq(originals, 1, n) = originals
    BY <1>3, SubSeqFull
  <2>8. FirstOf(reducedClauses, n) = originals \o originals
    <3>1. n - n + 1 = 1
      BY <1>3
    <3> QED
      BY <1>3, <2>1, <2>7, <3>1 DEF FirstOf
  <2>9. \A k \in 1 .. n : originals[k] = Meaning(originals[k])
    <3> SUFFICES ASSUME NEW k \in 1 .. n PROVE originals[k] = Meaning(originals[k])
      OBVIOUS
    <3>1. PICK t : t = originals[k]
      OBVIOUS
    <3>2. t \in Seq(Nodes) /\ \A i \in 1 .. Len(t) : t[i].use = "plain"
      BY <1>3, <3>1, TreesAreSeqs
    <3>3. t = Meaning(t)
      BY <3>2, MeaningIs
    <3> QED
      BY <3>1, <3>3
  <2> QED
    BY <1>3, <1>5, <2>2, <2>4, <2>5, <2>8, <2>9
<1>7. CASE bug[2] # "original"
  <2>1. PICK rest \in {<< >>, <<Dropped>>}, transformed \in TransformedFrom(originals) :
           /\ LoopInit(originals \o rest \o transformed)
           /\ origResults = [k \in 1 .. Len(reducedClauses) |->
                \/ rest # << >> /\ k = n + 1
                \/ bug[1] = "error" /\ k = Len(reducedClauses)]
    BY <1>2, <1>7 DEF RegeneratedQuery
  <2>2. bug[2] = "transformed"
    BY <1>4, <1>7, BugsAssumption
  <2>3. /\ transformed \in Seq(Trees) /\ Len(transformed) = n
        /\ \A k \in 1 .. n : originals[k] = Meaning(transformed[k])
    BY <1>3, TransformedStatements
  <2>4. reducedClauses = (originals \o rest) \o transformed
    BY <2>1 DEF LoopInit
  <2>5. /\ FirstOf(reducedClauses, n) = originals \o transformed
        /\ SubSeq(reducedClauses, Len(reducedClauses) - n + 1, Len(reducedClauses)) = transformed
        /\ origResults \in Seq(BOOLEAN) /\ Len(origResults) >= 1
        /\ origResults[Len(origResults)] = (bug[1] = "error")
        /\ (\E m \in 1 .. Len(origResults) : Len(origResults) = m + m) =>
              \A k \in 1 .. Len(origResults) - 1 : origResults[k] = FALSE
    <3>1. /\ n \in Nat /\ 1 <= n /\ originals \in Seq(Trees) /\ Len(originals) = n
          /\ rest \in {<< >>, <<Dropped>>} /\ transformed \in Seq(Trees) /\ Len(transformed) = n
          /\ bug \in Bugs /\ bug[2] = "transformed"
          /\ reducedClauses = (originals \o rest) \o transformed
          /\ origResults = [k \in 1 .. Len(reducedClauses) |->
                \/ rest # << >> /\ k = n + 1
                \/ bug[1] = "error" /\ k = Len(reducedClauses)]
      BY <1>3, <1>4, <2>1, <2>2, <2>3, <2>4
    <3> QED
      BY ONLY <3>1, TransformedReport
  <2>6. /\ Shows(transformed, trigger)
        /\ \E part \in trigger : part[1][1] = n
        /\ \E part \in trigger : part[2] = "form"
    BY <1>1, <2>2, <2>5 DEF BugShows, Shows
  <2>7. Origin
    BY <1>4, <2>2, <2>5, <2>6 DEF Origin
  <2> QED
    BY <1>5, <2>2, <2>3, <2>5, <2>6, <2>7
<1> QED
  BY <1>6, <1>7

LEMMA InitialHalves ==
  ASSUME Init
  PROVE  HalvesInv
<1>1. /\ pc = "step" /\ newClauses = << >>
  BY DEF Init, RegeneratedQuery, LoopInit
<1>2. reducedUntransformed = FALSE /\ Fresh
  BY DEF Init, Fresh
<1> QED
  BY <1>1, <1>2, WellReported DEF HalvesInv

(* How many of a set of positions precede i. *)
Before(S, i) == Cardinality({j \in S : j < i})

LEMMA BeforeIsOrder ==
  ASSUME NEW S \in SUBSET Nat, IsFiniteSet(S)
  PROVE  /\ \A i \in S : Before(S, i) \in Nat /\ Before(S, i) < Cardinality(S)
         /\ Cardinality(S) \in Nat
         /\ \A i, j \in S : j < i => Before(S, j) < Before(S, i)
         /\ \A i \in S : Cardinality({j \in S : j <= i}) = Before(S, i) + 1
<1>1. Cardinality(S) \in Nat
  BY FS_CardinalityType
<1>2. ASSUME NEW i \in S
      PROVE  /\ IsFiniteSet({j \in S : j < i}) /\ Before(S, i) \in Nat
             /\ Cardinality({j \in S : j <= i}) = Before(S, i) + 1
             /\ IsFiniteSet({j \in S : j <= i})
  <2>1. PICK B : B = {j \in S : j < i}
    OBVIOUS
  <2>2. IsFiniteSet(B)
    <3>1. B \subseteq S
      BY <2>1
    <3> QED
      BY <3>1, FS_Subset
  <2>3. Cardinality(B) \in Nat
    BY <2>2, FS_CardinalityType
  <2>4. i \notin B
    BY <2>1
  <2>5. {j \in S : j <= i} = B \cup {i}
    <3>1. ASSUME NEW j \in S PROVE j <= i <=> j < i \/ j = i
      <4>1. j \in Nat /\ i \in Nat
        OBVIOUS
      <4> QED
        BY <4>1
    <3> QED
      BY <2>1, <3>1
  <2>6. IsFiniteSet(B \cup {i}) /\ Cardinality(B \cup {i}) = Cardinality(B) + 1
    BY <2>2, <2>4, FS_AddElement
  <2> QED
    BY <2>1, <2>2, <2>3, <2>5, <2>6 DEF Before
<1>3. ASSUME NEW i \in S PROVE Before(S, i) + 1 <= Cardinality(S)
  <2>1. {j \in S : j <= i} \subseteq S
    OBVIOUS
  <2>2. Cardinality({j \in S : j <= i}) <= Cardinality(S)
    BY <2>1, FS_Subset
  <2> QED
    BY <1>2, <2>2
<1>4. ASSUME NEW i \in S, NEW j \in S, j < i PROVE Before(S, j) + 1 <= Before(S, i)
  <2>1. PICK A, B : A = {x \in S : x <= j} /\ B = {x \in S : x < i}
    OBVIOUS
  <2>2. A \subseteq B
    <3>1. ASSUME NEW x \in S, x <= j PROVE x < i
      <4>1. x \in Nat /\ i \in Nat /\ j \in Nat
        OBVIOUS
      <4> QED
        BY <1>4, <3>1, <4>1
    <3> QED
      BY <2>1, <3>1
  <2>3. IsFiniteSet(B)
    BY <1>2, <2>1
  <2>4. Cardinality(A) <= Cardinality(B)
    BY <2>2, <2>3, FS_Subset
  <2>5. Cardinality(A) = Before(S, j) + 1 /\ Cardinality(B) = Before(S, i)
    BY <1>2, <2>1 DEF Before
  <2> QED
    BY <2>4, <2>5
<1>5. ASSUME NEW i \in S PROVE Before(S, i) < Cardinality(S)
  <2>1. PICK a, b : a = Before(S, i) /\ b = Cardinality(S)
    OBVIOUS
  <2>2. a \in Nat /\ b \in Nat /\ a + 1 <= b
    BY <1>1, <1>2, <1>3, <2>1
  <2>3. a < b
    BY ONLY <2>2
  <2> QED
    BY <2>1, <2>3
<1>6. ASSUME NEW i \in S, NEW j \in S, j < i PROVE Before(S, j) < Before(S, i)
  <2>1. PICK a, b : a = Before(S, j) /\ b = Before(S, i)
    OBVIOUS
  <2>2. a \in Nat /\ b \in Nat /\ a + 1 <= b
    BY <1>2, <1>4, <1>6, <2>1
  <2>3. a < b
    BY ONLY <2>2
  <2> QED
    BY <2>1, <2>3
<1> QED
  BY <1>1, <1>2, <1>5, <1>6

LEMMA PositionsAreFinite ==
  ASSUME NEW t \in Seq(Nodes)
  PROVE  /\ Wrapped(t) \in SUBSET Nat /\ IsFiniteSet(Wrapped(t))
         /\ Common(t) \in SUBSET Nat /\ IsFiniteSet(Common(t))
         /\ InUse(t) \subseteq Wrapped(t)
         /\ \A i \in Wrapped(t) \cup Common(t) : i \in 1 .. Len(t)
<1>1. Len(t) \in Nat /\ DOMAIN t = 1 .. Len(t)
  BY TreeShape
<1>2. IsFiniteSet(1 .. Len(t))
  BY <1>1, FS_Interval
<1>3. Wrapped(t) \subseteq 1 .. Len(t) /\ Common(t) \subseteq 1 .. Len(t)
  BY <1>1 DEF Wrapped, Common
<1>4. IsFiniteSet(Wrapped(t)) /\ IsFiniteSet(Common(t))
  BY <1>2, <1>3, FS_Subset
<1>5. InUse(t) \subseteq Wrapped(t)
  BY DEF InUse, Wrapped
<1>6. 1 .. Len(t) \subseteq Nat
  BY <1>1
<1> QED
  BY <1>3, <1>4, <1>5, <1>6

(* flipTransformed deselects the next transformation in use, and the index *)
(* goes past it and nothing else that is in use.                           *)
LEMMA NextInUse ==
  ASSUME NEW t \in Seq(Nodes), NEW from \in Nat, Flippable(t, from) # {}
  PROVE  \E i \in InUse(t) :
           /\ flipTransformed(t, from) = [t EXCEPT ![i].use = "flipped"]
           /\ NextFlip(t, from) = Before(Wrapped(t), i) + 1
           /\ NextFlip(t, from) \in Nat
           /\ \A j \in InUse(t) :
                Before(Wrapped(t), j) < NextFlip(t, from) => Before(Wrapped(t), j) < from \/ j = i
<1>1. PICK S, W : S = Flippable(t, from) /\ W = Wrapped(t)
  OBVIOUS
<1>2. /\ W \in SUBSET Nat /\ IsFiniteSet(W) /\ InUse(t) \subseteq W
      /\ \A i \in W : i \in 1 .. Len(t)
  BY <1>1, PositionsAreFinite
<1>3. /\ \A i \in W : Before(W, i) \in Nat
      /\ \A i, j \in W : j < i => Before(W, j) < Before(W, i)
      /\ \A i \in W : Cardinality({j \in W : j <= i}) = Before(W, i) + 1
  BY <1>2, BeforeIsOrder
<1>4. S = {i \in InUse(t) : Before(W, i) >= from}
  BY <1>1 DEF Flippable, Before
<1>5. S \subseteq W
  BY <1>2, <1>4
<1>6. IsFiniteSet(S) /\ Cardinality(S) \in Nat /\ 0 < Cardinality(S)
  <2>1. IsFiniteSet(S)
    BY <1>2, <1>5, FS_Subset
  <2>2. Cardinality(S) \in Nat
    BY <2>1, FS_CardinalityType
  <2>3. Cardinality(S) # 0
    BY <1>1, <2>1, FS_EmptySet
  <2> QED
    BY <2>1, <2>2, <2>3
<1>7. PICK i : i = Nth(S, 0)
  OBVIOUS
<1>8. i \in S /\ Cardinality({j \in S : j < i}) = 0
  <2>1. S \in SUBSET Nat /\ \A x \in S : x <= Len(t)
    BY <1>2, <1>5
  <2>2. Len(t) \in Nat
    BY TreeShape
  <2>3. Nth(S, 0) \in S /\ Cardinality({j \in S : j < Nth(S, 0)}) = 0
    BY <1>6, <2>1, <2>2, NthIsElement
  <2> QED
    BY <1>7, <2>3
<1>9. \A j \in S : ~(j < i)
  <2>1. IsFiniteSet({j \in S : j < i})
    BY <1>6, FS_Subset
  <2>2. {j \in S : j < i} = {}
    BY <1>8, <2>1, FS_EmptySet
  <2> QED
    BY <2>2
<1>10. i \in InUse(t) /\ i \in W
  BY <1>4, <1>5, <1>8
<1>11. flipTransformed(t, from) = [t EXCEPT ![i].use = "flipped"]
  BY <1>1, <1>7 DEF flipTransformed
<1>12. NextFlip(t, from) = Before(W, i) + 1
  <2>1. NextFlip(t, from) = Cardinality({j \in W : j <= i})
    BY <1>1, <1>7 DEF NextFlip
  <2> QED
    BY <1>3, <1>10, <2>1
<1>13. Before(W, i) \in Nat
  BY <1>3, <1>10
<1>14. ASSUME NEW j \in InUse(t), Before(W, j) < Before(W, i) + 1, ~(Before(W, j) < from)
       PROVE  j = i
  <2>1. j \in W /\ Before(W, j) \in Nat
    BY <1>2, <1>3
  <2>2. ~(Before(W, i) < Before(W, j))
    BY <1>13, <1>14, <2>1
  <2>3. ~(i < j)
    BY <1>3, <1>10, <2>1, <2>2
  <2>4. j \in S
    BY <1>4, <1>14, <2>1
  <2>5. ~(j < i)
    BY <1>9, <2>4
  <2>6. i \in Nat /\ j \in Nat
    BY <1>2, <1>10, <2>1
  <2> QED
    BY <2>3, <2>5, <2>6
<1> QED
  <2>1. PICK k : k = NextFlip(t, from)
    OBVIOUS
  <2>2. k = Before(W, i) + 1 /\ k \in Nat
    BY <1>12, <1>13, <2>1
  <2>3. \A j \in InUse(t) : Before(W, j) < k => Before(W, j) < from \/ j = i
    BY <1>14, <2>2
  <2> QED
    BY <1>1, <1>10, <1>11, <2>1, <2>2, <2>3

(* What is left when nothing is flippable. *)
LEMMA NothingInUse ==
  ASSUME NEW t \in Seq(Nodes), NEW from \in Nat, Flippable(t, from) = {}, NEW i \in InUse(t)
  PROVE  Before(Wrapped(t), i) < from
<1>1. i \in Wrapped(t)
  BY PositionsAreFinite
<1>2. Before(Wrapped(t), i) \in Nat
  BY <1>1, PositionsAreFinite, BeforeIsOrder
<1>3. ~(Before(Wrapped(t), i) >= from)
  BY DEF Flippable, Before
<1> QED
  BY <1>2, <1>3

(* The clause that index others precede. *)
LEMMA NthCommon ==
  ASSUME NEW t \in Seq(Nodes), NEW index \in Nat, index < Cardinality(Common(t))
  PROVE  \E i \in Common(t) :
           /\ i = Nth(Common(t), index) /\ i \in 1 .. Len(t)
           /\ \A j \in Common(t) :
                Before(Common(t), j) < index + 1 => Before(Common(t), j) < index \/ j = i
<1>1. PICK S : S = Common(t)
  OBVIOUS
<1>2. S \in SUBSET Nat /\ IsFiniteSet(S) /\ \A i \in S : i \in 1 .. Len(t)
  BY <1>1, PositionsAreFinite
<1>3. /\ \A i \in S : Before(S, i) \in Nat
      /\ \A i, j \in S : j < i => Before(S, j) < Before(S, i)
  BY <1>2, BeforeIsOrder
<1>4. PICK i : i = Nth(S, index)
  OBVIOUS
<1>5. i \in S /\ Before(S, i) = index
  <2>1. Len(t) \in Nat /\ \A x \in S : x <= Len(t)
    BY <1>2, TreeShape
  <2>2. Nth(S, index) \in S /\ Cardinality({j \in S : j < Nth(S, index)}) = index
    BY <1>1, <1>2, <2>1, NthIsElement
  <2> QED
    BY <1>4, <2>2 DEF Before
<1>6. ASSUME NEW j \in S, Before(S, j) < index + 1, ~(Before(S, j) < index)
      PROVE  j = i
  <2>1. Before(S, j) \in Nat /\ i \in Nat /\ j \in Nat
    BY <1>2, <1>3, <1>5
  <2>2. Before(S, j) = index
    BY <1>6, <2>1
  <2>3. ~(Before(S, i) < Before(S, j)) /\ ~(Before(S, j) < Before(S, i))
    BY <1>5, <2>2
  <2>4. ~(i < j) /\ ~(j < i)
    BY <1>3, <1>5, <2>3
  <2> QED
    BY <2>1, <2>4
<1> QED
  BY <1>1, <1>2, <1>4, <1>5, <1>6

-----------------------------------------------------------------------------
(* What the steps propose. *)

LEMMA QueryReplaced ==
  ASSUME NEW q \in Seq(Trees), NEW n, Len(q) = n, NEW p \in 1 .. n, NEW u \in Trees,
         NEW s, s = [q EXCEPT ![p] = u]
  PROVE  /\ s \in Seq(Trees) /\ Len(s) = n
         /\ \A h \in 1 .. n : s[h] = IF h = p THEN u ELSE q[h]
BY ExceptSeq

(* A plain statement has nothing to flip: what is flipped is in the second *)
(* half.                                                                   *)
LEMMA FlipsAreTransformed ==
  ASSUME NEW q, NEW m, NEW n, Mirrored(q, m, n), NEW h \in 1 .. m + m, h <= m
  PROVE  InUse(q[h]) = {}
<1>1. m \in Nat /\ q \in Seq(Trees) /\ Len(q) = m + m /\ h \in 1 .. m /\ m + h \in 1 .. m + m
  BY DEF Mirrored
<1>2. PICK t, o : t = q[m + h] /\ o = q[h]
  OBVIOUS
<1>3. t \in Seq(Nodes) /\ o \in Seq(Nodes)
  BY <1>1, <1>2, TreesAreSeqs
<1>4. o = Meaning(t)
  BY <1>1, <1>2 DEF Mirrored
<1>5. Len(o) = Len(t) /\ \A j \in 1 .. Len(t) : o[j].use = "plain"
  BY <1>3, <1>4, MeaningShape
<1>6. DOMAIN o = 1 .. Len(o)
  BY <1>3, TreeShape
<1>7. InUse(o) = {}
  BY <1>5, <1>6 DEF InUse
<1> QED
  BY <1>2, <1>7

(* A statement of the second half, and its transformations.                *)
LEMMA StatementOfHalf ==
  ASSUME NEW q, NEW m, NEW n, Mirrored(q, m, n), NEW k \in 1 .. m, NEW g, g = SecondHalf(q)
  PROVE  /\ m + k \in 1 .. m + m /\ g \in Seq(Trees) /\ Len(g) = m /\ g[k] = q[m + k]
         /\ q[m + k] \in Trees /\ q[m + k] \in Seq(Nodes) /\ q[k] = Meaning(q[m + k])
<1>1. m \in Nat /\ q \in Seq(Trees) /\ Len(q) = m + m
  BY DEF Mirrored
<1>2. k \in 1 .. m + m /\ m + k \in 1 .. m + m
  BY <1>1
<1>3. g \in Seq(Trees) /\ Len(g) = m /\ g[k] = q[m + k]
  BY MirroredShape
<1>4. q[m + k] \in Trees /\ q[m + k] \in Seq(Nodes)
  BY <1>1, <1>2, TreesAreSeqs
<1> QED
  BY <1>2, <1>3, <1>4 DEF Mirrored

(* s is q with u for the transformed statement k, t, where i is flipped.   *)
FlipOf(q, m, n, k, t, i, u, s) ==
  /\ Mirrored(q, m, n) /\ k \in 1 .. m /\ t = q[m + k] /\ i \in InUse(t)
  /\ u = [t EXCEPT ![i].use = "flipped"] /\ s = [q EXCEPT ![m + k] = u]

SmallerHalf(q, m, n, k, u, s) ==
  /\ Mirrored(s, m, n) /\ Smaller(SecondHalf(s), SecondHalf(q))
  /\ SecondHalf(s) = [SecondHalf(q) EXCEPT ![k] = u]

LEMMA FlippedProposal ==
  ASSUME NEW q, NEW m, NEW n, NEW k, NEW t, NEW i, NEW u, NEW s,
         FlipOf(q, m, n, k, t, i, u, s)
  PROVE  SmallerHalf(q, m, n, k, u, s) /\ SecondHalf(s) # SecondHalf(q)
<1>1. PICK g : g = SecondHalf(q)
  OBVIOUS
<1>2. Mirrored(q, m, n) /\ k \in 1 .. m /\ t = q[m + k]
  BY DEF FlipOf
<1>3. /\ m + k \in 1 .. m + m /\ g \in Seq(Trees) /\ Len(g) = m /\ g[k] = t
      /\ t \in Trees /\ t \in Seq(Nodes) /\ q[k] = Meaning(t)
  BY <1>1, <1>2, StatementOfHalf
<1>4. /\ u \in Trees /\ SmallerTree(u, t) /\ u # t /\ Meaning(u) = Meaning(t)
      /\ Len(u) = Len(t) /\ \A j \in 1 .. Len(u) : u[j].id = t[j].id
  <2>1. Flip(t, i, u)
    BY <1>3 DEF FlipOf, Flip
  <2> QED
    BY ONLY <2>1, FlippedIsSmaller
<1>5. q \in Seq(Trees) /\ Len(q) = m + m /\ m \in Nat
  BY <1>2 DEF Mirrored
<1>6. s = [q EXCEPT ![m + k] = u]
  BY DEF FlipOf
<1>7. /\ s \in Seq(Trees) /\ Len(s) = m + m
      /\ \A h \in 1 .. m + m : s[h] = IF h = m + k THEN u ELSE q[h]
  <2>1. /\ q \in Seq(Trees) /\ Len(q) = m + m /\ m + k \in 1 .. m + m /\ u \in Trees
        /\ s = [q EXCEPT ![m + k] = u]
    BY <1>3, <1>4, <1>5, <1>6
  <2> QED
    BY ONLY <2>1, QueryReplaced
<1>8. k # m + k
  BY <1>2, <1>5
<1>9. BothReplaced(q, m, k, u, s)
  BY <1>3, <1>4, <1>7, <1>8 DEF BothReplaced
<1>10. \A j \in 1 .. Len(u) : \E p \in 1 .. Len(t) : u[j].id = t[p].id
  BY <1>4
<1>11. /\ Mirrored(s, m, n) /\ SecondHalf(s) = [g EXCEPT ![k] = u]
       /\ Smaller(SecondHalf(s), g)
  <2>1. /\ Mirrored(q, m, n) /\ k \in 1 .. m /\ u \in Trees /\ SmallerTree(u, q[m + k])
        /\ \A j \in 1 .. Len(u) : \E p \in 1 .. Len(q[m + k]) : u[j].id = q[m + k][p].id
        /\ BothReplaced(q, m, k, u, s)
    BY <1>2, <1>4, <1>9, <1>10
  <2>2. /\ Mirrored(s, m, n) /\ SecondHalf(s) = [SecondHalf(q) EXCEPT ![k] = u]
        /\ Smaller(SecondHalf(s), SecondHalf(q))
    BY ONLY <2>1, BothReplacedIsMirrored
  <2> QED
    BY ONLY <1>1, <2>2
<1>12. [g EXCEPT ![k] = u][k] = u /\ g[k] # u
  <2>1. k \in 1 .. Len(g)
    BY <1>2, <1>3
  <2> QED
    BY <1>3, <1>4, <2>1, ExceptSeq
<1> QED
  BY <1>1, <1>11, <1>12 DEF SmallerHalf

RemovalOf(q, m, n, k, t, i, s) ==
  /\ Mirrored(q, m, n) /\ k \in 1 .. m /\ t = q[m + k] /\ i \in 1 .. Len(t)
  /\ s = [q EXCEPT ![k] = Reduced(q[k], i), ![m + k] = Reduced(t, i)]

LEMMA ClauselessProposal ==
  ASSUME NEW q, NEW m, NEW n, NEW k, NEW t, NEW i, NEW s, RemovalOf(q, m, n, k, t, i, s)
  PROVE  /\ SmallerHalf(q, m, n, k, Reduced(t, i), s)
         /\ t[i].kind # "empty" => SecondHalf(s) # SecondHalf(q)
<1>0. /\ Mirrored(q, m, n) /\ k \in 1 .. m /\ t = q[m + k] /\ i \in 1 .. Len(t)
      /\ s = [q EXCEPT ![k] = Reduced(q[k], i), ![m + k] = Reduced(t, i)]
  BY DEF RemovalOf
<1> USE <1>0
<1>1. PICK g : g = SecondHalf(q)
  OBVIOUS
<1>2. /\ m + k \in 1 .. m + m /\ g \in Seq(Trees) /\ Len(g) = m /\ g[k] = t
      /\ t \in Trees /\ t \in Seq(Nodes) /\ q[k] = Meaning(t)
  BY <1>1, StatementOfHalf
<1>3. PICK u : u = Reduced(t, i)
  OBVIOUS
<1>4. ReductionOf(t, i, u)
  BY <1>2, <1>3, ReducedIsSmaller
<1>5. /\ u \in Trees /\ SmallerTree(u, t) /\ (t[i].kind # "empty" => u # t)
      /\ \A j \in 1 .. Len(u) : \E p \in 1 .. Len(t) : u[j].id = t[p].id
  BY <1>4 DEF ReductionOf
<1>6. Reduced(q[k], i) = Meaning(u)
  BY <1>2, <1>3, ReducedMeaning
<1>7. q \in Seq(Trees) /\ Len(q) = m + m /\ m \in Nat
  BY DEF Mirrored
<1>8. PICK v : v = Meaning(u)
  OBVIOUS
<1>9. v \in Trees
  BY <1>5, <1>8, MeaningIsTree
<1>10. PICK w : w = [q EXCEPT ![k] = v]
  OBVIOUS
<1>11. k \in 1 .. m + m /\ k # m + k
  BY <1>7
<1>12. /\ w \in Seq(Trees) /\ Len(w) = m + m
       /\ \A h \in 1 .. m + m : w[h] = IF h = k THEN v ELSE q[h]
  BY <1>7, <1>9, <1>10, <1>11, ExceptSeq
<1>13. s = [w EXCEPT ![m + k] = u]
  BY <1>3, <1>6, <1>8, <1>10
<1>14. /\ s \in Seq(Trees) /\ Len(s) = m + m
       /\ \A h \in 1 .. m + m : s[h] = IF h = m + k THEN u ELSE w[h]
  <2>1. /\ w \in Seq(Trees) /\ Len(w) = m + m /\ m + k \in 1 .. m + m /\ u \in Trees
        /\ s = [w EXCEPT ![m + k] = u]
    BY <1>2, <1>5, <1>12, <1>13
  <2> QED
    BY ONLY <2>1, QueryReplaced
<1>15. BothReplaced(q, m, k, u, s)
  BY <1>8, <1>11, <1>12, <1>14 DEF BothReplaced
<1>16. /\ Mirrored(s, m, n) /\ SecondHalf(s) = [g EXCEPT ![k] = u]
       /\ Smaller(SecondHalf(s), g)
  BY <1>1, <1>5, <1>15, BothReplacedIsMirrored
<1>17. [g EXCEPT ![k] = u][k] = u
  <2>1. k \in 1 .. Len(g)
    BY <1>2
  <2> QED
    BY <1>2, <1>5, <2>1, ExceptSeq
<1> QED
  BY <1>1, <1>2, <1>3, <1>5, <1>16, <1>17 DEF SmallerHalf

-----------------------------------------------------------------------------
(* What a pass has tried. *)

(* The steps of the pass are done with statement k; with a transformation  *)
(* of statement k of m, or a clause of it, that so many others precede.    *)
StatementPassed(k) ==
  \/ reducedStarting
  \/ reduceStartingStatementsIndex # Nil /\ k >= reduceStartingStatementsIndex + 2

FormPassed(m, k, before) ==
  \/ reducedTransformations
  \/ /\ reduceTransformationsIndex # Nil
     /\ \/ m + k - 1 < reduceTransformationsIndex
        \/ /\ m + k - 1 = reduceTransformationsIndex
           /\ before < Default(reduceTransformationsFlipIndex, 0)

ClausePassed(k, before) ==
  \/ reducedEquivalenceClauses
  \/ /\ reduceEquivalenceStatementIndex # Nil
     /\ \/ k - 1 < reduceEquivalenceStatementIndex
        \/ /\ k - 1 = reduceEquivalenceStatementIndex
           /\ before < Default(reduceEquivalenceClausesClauseIndex, 0)

FormNeeded(h, k, i, cause) == ~Shows([h EXCEPT ![k][i].use = "flipped"], cause)
ClauseNeeded(h, k, i, cause) ==
  h[k][i].kind # "empty" => ~Shows([h EXCEPT ![k] = Reduced(h[k], i)], cause)

(* What the pass is done with, the bug needs.                              *)
TriedStatements(h) ==
  \A k \in 1 .. Len(h) - 1 : StatementPassed(k) => Needed(h, k, trigger)

TriedForms(h) ==
  \A k \in 1 .. Len(h) : \A i \in InUse(h[k]) :
    FormPassed(Len(h), k, Before(Wrapped(h[k]), i)) => FormNeeded(h, k, i, trigger)

TriedClauses(h) ==
  \A k \in 1 .. Len(h) : \A i \in Common(h[k]) :
    ClausePassed(k, Before(Common(h[k]), i)) => ClauseNeeded(h, k, i, trigger)

Tried(h) == TriedStatements(h) /\ TriedForms(h) /\ TriedClauses(h)

AllNeeded(h) ==
  /\ \A k \in 1 .. Len(h) - 1 : Needed(h, k, trigger)
  /\ \A k \in 1 .. Len(h) :
       /\ \A i \in InUse(h[k]) : FormNeeded(h, k, i, trigger)
       /\ \A i \in Common(h[k]) : ClauseNeeded(h, k, i, trigger)

LEMMA PassBegins ==
  ASSUME Fresh, NEW h
  PROVE  Tried(h)
BY DEF Fresh, Tried, TriedStatements, TriedForms, TriedClauses,
       StatementPassed, FormPassed, ClausePassed

LEMMA PassEnds ==
  ASSUME reducedStarting, reducedTransformations, reducedEquivalenceClauses, NEW h, Tried(h)
  PROVE  AllNeeded(h)
BY DEF AllNeeded, Tried, TriedStatements, TriedForms, TriedClauses,
       StatementPassed, FormPassed, ClausePassed

(* A step of a pass proposes s for q; what it tried in vain, the bug needs. *)
PassGoesOn(q, s) ==
  /\ Smaller(SecondHalf(s), SecondHalf(q))
  /\ Bounded(Half(s))' /\ Bounded(Half(q))'
  /\ (~Shows(SecondHalf(s), trigger) \/ SecondHalf(s) = SecondHalf(q)) =>
       (Tried(SecondHalf(q)) => Tried(SecondHalf(q))')

LEMMA OtherPhases ==
  ASSUME NEW h, UNCHANGED trigger
  PROVE  /\ UNCHANGED startingCtx => (TriedStatements(h) => TriedStatements(h)')
         /\ UNCHANGED transformationsCtx => (TriedForms(h) => TriedForms(h)')
         /\ UNCHANGED clausesCtx => (TriedClauses(h) => TriedClauses(h)')
<1>1. ASSUME UNCHANGED startingCtx, TriedStatements(h) PROVE TriedStatements(h)'
  BY <1>1 DEF startingCtx, TriedStatements, StatementPassed
<1>2. ASSUME UNCHANGED transformationsCtx, TriedForms(h) PROVE TriedForms(h)'
  BY <1>2 DEF transformationsCtx, TriedForms, FormPassed
<1>3. ASSUME UNCHANGED clausesCtx, TriedClauses(h) PROVE TriedClauses(h)'
  BY <1>3 DEF clausesCtx, TriedClauses, ClausePassed
<1> QED
  BY <1>1, <1>2, <1>3

LEMMA RemoveStartingStep ==
  ASSUME NEW q, NEW m, NEW n, Mirrored(q, m, n), q = reducedClauses, Bounded(m),
         RemoveStarting
  PROVE  \E s : Propose(s, FALSE) /\ Halves(s, n) /\ PassGoesOn(q, s)
<1>1. /\ Half(q) = m /\ Statements = m /\ m \in Nat /\ 1 <= m
  <2>1. Half(q) = m
    BY MirroredShape
  <2>2. m \in Nat /\ 1 <= m
    BY DEF Mirrored
  <2> QED
    BY <2>1, <2>2 DEF Statements
<1>2. PICK x : x = IndexToRemove
  OBVIOUS
<1>3. ~reducedStarting /\ m # 1
  BY <1>1 DEF RemoveStarting, Starting
<1>4. x = Default(reduceStartingStatementsIndex, m - 2)
  BY <1>1, <1>2 DEF IndexToRemove
<1>5. /\ reduceStartingStatementsIndex \in {Nil} \cup (0 .. m - 2)
      /\ reduceTransformationsIndex = Nil /\ reduceTransformationsFlipIndex = Nil
      /\ ~reducedTransformations
      /\ reduceEquivalenceStatementIndex = Nil /\ reduceEquivalenceClausesClauseIndex = Nil
      /\ ~reducedEquivalenceClauses
  BY <1>3 DEF Bounded
<1>6. x \in 0 .. m - 2
  <2>1. m - 2 \in 0 .. m - 2
    BY <1>1, <1>3
  <2> QED
    BY <1>4, <1>5, <2>1 DEF Default
<1>7. PICK s : s = WithoutBoth(q, m, x)
  OBVIOUS
<1>8. s = Without(x)
  BY <1>1, <1>7 DEF WithoutBoth, Without
<1>9. /\ Propose(s, FALSE)
      /\ reduceStartingStatementsIndex' = x - 1
      /\ reducedStarting' = (x = 0)
      /\ UNCHANGED <<reducedUntransformed, transformationsCtx, clausesCtx>>
  BY <1>2, <1>8 DEF RemoveStarting
<1>10. PICK g, f : g = SecondHalf(q) /\ f = SecondHalf(s)
  OBVIOUS
<1>11. /\ Mirrored(s, m - 1, n) /\ f = WithoutStatement(g, x + 1) /\ Smaller(f, g) /\ f # g
  BY <1>3, <1>6, <1>7, <1>10, WithoutBothIsMirrored
<1>12. Half(s) = m - 1 /\ Halves(s, n) /\ g \in Seq(Trees) /\ Len(g) = m
  BY <1>10, <1>11, MirroredShape, HalvesAreMirrored
<1>13. UNCHANGED trigger
  BY <1>9 DEF Propose
<1>14. /\ UNCHANGED <<reduceTransformationsIndex, reduceTransformationsFlipIndex,
                      reducedTransformations, reduceEquivalenceStatementIndex,
                      reduceEquivalenceClausesClauseIndex, reducedEquivalenceClauses>>
  BY <1>9 DEF transformationsCtx, clausesCtx
<1>15. (x # 0 => x - 1 \in 0 .. (m - 1) - 2) /\ x - 1 \in Int
  BY <1>1, <1>6
<1>16. Bounded(m)' /\ Bounded(m - 1)'
  <2>1. x # 0 => x - 1 \in 0 .. m - 2
    BY <1>1, <1>6
  <2>2. reducedStarting' \in BOOLEAN /\ reducedTransformations' \in BOOLEAN
        /\ reducedEquivalenceClauses' \in BOOLEAN
    BY <1>9, <1>14 DEF Bounded
  <2>3. /\ reduceTransformationsIndex' = Nil /\ reduceTransformationsFlipIndex' = Nil
        /\ ~reducedTransformations'
        /\ reduceEquivalenceStatementIndex' = Nil /\ reduceEquivalenceClausesClauseIndex' = Nil
        /\ ~reducedEquivalenceClauses'
    BY <1>5, <1>14
  <2>4. ~reducedStarting' => x # 0 /\ reduceStartingStatementsIndex' = x - 1
    BY <1>9
  <2> QED
    BY <1>15, <2>1, <2>2, <2>3, <2>4 DEF Bounded
<1>17. ASSUME ~Shows(f, trigger) \/ f = g, Tried(g) PROVE Tried(g)'
  <2>1. Needed(g, x + 1, trigger)
    BY <1>11, <1>17 DEF Needed
  <2>2. ASSUME NEW k \in 1 .. Len(g) - 1, StatementPassed(k)' PROVE Needed(g, k, trigger)
    <3>1. k \in 1 .. m - 1
      BY <1>12
    <3>2. k = x + 1 \/ k >= x + 2
      <4>1. CASE x = 0
        BY <1>1, <3>1, <4>1
      <4>2. CASE x # 0
        <5>1. k >= (x - 1) + 2
          BY <1>9, <2>2, <4>2 DEF StatementPassed
        <5> QED
          BY <1>6, <3>1, <5>1
      <4> QED
        BY <4>1, <4>2
    <3>3. CASE k = x + 1
      BY <2>1, <3>3
    <3>4. CASE k >= x + 2
      <4>1. reduceStartingStatementsIndex # Nil /\ x = reduceStartingStatementsIndex
        <5>1. x # m - 2
          BY <1>1, <1>6, <3>1, <3>4
        <5> QED
          BY <1>4, <5>1 DEF Default
      <4>2. StatementPassed(k)
        BY <3>4, <4>1 DEF StatementPassed
      <4> QED
        BY <1>17, <4>2 DEF Tried, TriedStatements
    <3> QED
      BY <3>2, <3>3, <3>4
  <2>3. TriedStatements(g)'
    BY <1>13, <2>2 DEF TriedStatements
  <2>4. TriedForms(g)' /\ TriedClauses(g)'
    BY <1>9, <1>13, <1>17, OtherPhases DEF Tried
  <2> QED
    BY <2>3, <2>4 DEF Tried
<1>18. PassGoesOn(q, s)
  BY <1>1, <1>10, <1>11, <1>12, <1>16, <1>17 DEF PassGoesOn
<1> QED
  BY <1>9, <1>12, <1>18

(* The statement at the transformations' index.                            *)
LEMMA FlipPlace ==
  ASSUME NEW q, NEW m, NEW n, Mirrored(q, m, n), q = reducedClauses, Bounded(m), Flipping
  PROVE  /\ FlipStatement \in 0 .. m + m - 1 /\ FlipIndex \in Nat
         /\ reduceTransformationsIndex = Nil => FlipStatement = 0
         /\ reduceTransformationsIndex # Nil => FlipStatement = reduceTransformationsIndex
         /\ FlipIndex = Default(reduceTransformationsFlipIndex, 0)
         /\ reduceEquivalenceStatementIndex = Nil /\ reduceEquivalenceClausesClauseIndex = Nil
         /\ ~reducedTransformations /\ ~reducedEquivalenceClauses /\ reducedStarting
<1>1. /\ reduceTransformationsIndex \in {Nil} \cup (0 .. m + m - 1)
      /\ reduceTransformationsFlipIndex \in {Nil} \cup Nat
      /\ reduceEquivalenceStatementIndex = Nil /\ reduceEquivalenceClausesClauseIndex = Nil
      /\ ~reducedTransformations /\ ~reducedEquivalenceClauses /\ reducedStarting
  BY DEF Flipping, Bounded
<1>2. 0 \in 0 .. m + m - 1
  BY DEF Mirrored
<1> QED
  BY <1>1, <1>2 DEF FlipStatement, FlipIndex, Default

(* What a step that leaves the other phases alone has to show.             *)
LEMMA FormsGoOn ==
  ASSUME NEW q, NEW m, NEW n, Mirrored(q, m, n), NEW s, Mirrored(s, m, n),
         Smaller(SecondHalf(s), SecondHalf(q)),
         Bounded(m), reducedStarting, UNCHANGED <<trigger, startingCtx, clausesCtx>>,
         reduceEquivalenceStatementIndex = Nil, reduceEquivalenceClausesClauseIndex = Nil,
         ~reducedEquivalenceClauses,
         reducedTransformations' \in BOOLEAN,
         ~reducedTransformations' => /\ reduceTransformationsIndex' \in 0 .. m + m - 1
                                     /\ reduceTransformationsFlipIndex' \in Nat,
         ~Shows(SecondHalf(s), trigger) \/ SecondHalf(s) = SecondHalf(q) =>
           (TriedForms(SecondHalf(q)) => TriedForms(SecondHalf(q))')
  PROVE  Halves(s, n) /\ PassGoesOn(q, s)
<1>1. Half(q) = m /\ Half(s) = m /\ m \in Nat
  <2>1. Half(q) = m /\ Half(s) = m
    BY MirroredShape
  <2> QED
    BY <2>1 DEF Mirrored
<1>2. reducedStarting' = reducedStarting /\ UNCHANGED <<reduceEquivalenceStatementIndex,
         reduceEquivalenceClausesClauseIndex, reducedEquivalenceClauses>>
  BY DEF startingCtx, clausesCtx
<1>3. Bounded(m)'
  BY <1>2 DEF Bounded
<1>4. Halves(s, n)
  BY HalvesAreMirrored
<1>5. PICK g, f : g = SecondHalf(q) /\ f = SecondHalf(s)
  OBVIOUS
<1>6. ASSUME ~Shows(f, trigger) \/ f = g, Tried(g) PROVE Tried(g)'
  <2>1. TriedForms(g)'
    BY <1>5, <1>6 DEF Tried
  <2>2. TriedStatements(g)' /\ TriedClauses(g)'
    BY <1>6, OtherPhases DEF Tried
  <2> QED
    BY <2>1, <2>2 DEF Tried
<1>7. PassGoesOn(q, s)
  BY <1>1, <1>3, <1>5, <1>6 DEF PassGoesOn
<1> QED
  BY <1>4, <1>7

LEMMA FlipNextStep ==
  ASSUME NEW q, NEW m, NEW n, Mirrored(q, m, n), q = reducedClauses, Bounded(m), FlipNext
  PROVE  \E s : Propose(s, FALSE) /\ Halves(s, n) /\ PassGoesOn(q, s)
<1>1. PICK x, from : x = FlipStatement /\ from = FlipIndex
  OBVIOUS
<1>2. Flipping /\ Flippable(q[x + 1], from) # {}
  BY <1>1 DEF FlipNext, ToFlip
<1>3. /\ x \in 0 .. m + m - 1 /\ from \in Nat
      /\ reduceTransformationsIndex = Nil => x = 0
      /\ reduceTransformationsIndex # Nil => x = reduceTransformationsIndex
      /\ from = Default(reduceTransformationsFlipIndex, 0)
      /\ reduceEquivalenceStatementIndex = Nil /\ reduceEquivalenceClausesClauseIndex = Nil
      /\ ~reducedTransformations /\ ~reducedEquivalenceClauses /\ reducedStarting
  BY <1>1, <1>2, FlipPlace
<1>4. m \in Nat /\ 1 <= m /\ q \in Seq(Trees) /\ Len(q) = m + m
  BY DEF Mirrored
<1>5. ~(x + 1 <= m)
  <2> SUFFICES ASSUME x + 1 <= m PROVE FALSE
    OBVIOUS
  <2>1. x + 1 \in 1 .. m + m
    BY <1>3, <1>4
  <2>2. InUse(q[x + 1]) = {}
    BY <2>1, FlipsAreTransformed
  <2> QED
    BY <1>2, <2>2 DEF Flippable
<1>6. PICK k : k = x + 1 - m
  OBVIOUS
<1>7. k \in 1 .. m /\ x + 1 = m + k /\ x = m + k - 1 /\ x # 0
  BY <1>3, <1>4, <1>5, <1>6
<1>8. PICK t, g : t = q[m + k] /\ g = SecondHalf(q)
  OBVIOUS
<1>9. /\ m + k \in 1 .. m + m /\ g \in Seq(Trees) /\ Len(g) = m /\ g[k] = t
      /\ t \in Trees /\ t \in Seq(Nodes)
  BY <1>7, <1>8, StatementOfHalf
<1>10. PICK next : next = NextFlip(t, from)
  OBVIOUS
<1>11. PICK i \in InUse(t) :
         /\ flipTransformed(t, from) = [t EXCEPT ![i].use = "flipped"]
         /\ NextFlip(t, from) \in Nat
         /\ \A j \in InUse(t) :
              Before(Wrapped(t), j) < NextFlip(t, from) => Before(Wrapped(t), j) < from \/ j = i
  <2>1. Flippable(t, from) # {} /\ t \in Seq(Nodes) /\ from \in Nat
    BY <1>2, <1>3, <1>7, <1>8, <1>9
  <2> QED
    BY ONLY <2>1, NextInUse
<1>12. PICK u, s : u = [t EXCEPT ![i].use = "flipped"] /\ s = [q EXCEPT ![m + k] = u]
  OBVIOUS
<1>13. PICK f : f = SecondHalf(s)
  OBVIOUS
<1>14. /\ Mirrored(s, m, n) /\ Smaller(f, g)
       /\ f = [g EXCEPT ![k][i].use = "flipped"] /\ f # g
  <2>1. FlipOf(q, m, n, k, t, i, u, s)
    BY <1>7, <1>8, <1>12 DEF FlipOf
  <2>2. SmallerHalf(q, m, n, k, u, s) /\ SecondHalf(s) # SecondHalf(q)
    BY ONLY <2>1, FlippedProposal
  <2>3. [g EXCEPT ![k] = u] = [g EXCEPT ![k][i].use = "flipped"]
    BY ONLY <1>9, <1>12
  <2> QED
    BY <1>8, <1>13, <2>2, <2>3 DEF SmallerHalf
<1>15. s = [q EXCEPT ![x + 1] = flipTransformed(q[x + 1], from)]
  BY <1>7, <1>8, <1>11, <1>12
<1>16. /\ Propose(s, FALSE)
       /\ reduceTransformationsIndex' = x
       /\ reduceTransformationsFlipIndex' = next
       /\ UNCHANGED <<reducedTransformations, reducedUntransformed, startingCtx, clausesCtx>>
  BY <1>1, <1>7, <1>8, <1>10, <1>15 DEF FlipNext, ToFlip
<1>17. UNCHANGED <<trigger, startingCtx, clausesCtx>>
  BY <1>16 DEF Propose
<1>18. ASSUME ~Shows(f, trigger) \/ f = g, TriedForms(g) PROVE TriedForms(g)'
  <2>1. FormNeeded(g, k, i, trigger)
    BY <1>14, <1>18 DEF FormNeeded
  <2>2. reduceTransformationsIndex = x
    BY <1>3, <1>7
  <2>3. ASSUME NEW h \in 1 .. Len(g), NEW j \in InUse(g[h]), NEW b,
               b = Before(Wrapped(g[h]), j), FormPassed(Len(g), h, b)'
        PROVE  FormNeeded(g, h, j, trigger)
    <3>1. h \in 1 .. m /\ Len(g) = m
      BY <1>9
    <3>2. \/ m + h - 1 < x
          \/ m + h - 1 = x /\ b < next
      <4>1. next # Nil
        BY <1>10, <1>11 DEF Nil
      <4>2. ~reducedTransformations'
        BY <1>3, <1>16
      <4> QED
        BY <1>16, <2>3, <3>1, <4>1, <4>2 DEF FormPassed, Default
    <3>3. x # Nil
      BY <1>3 DEF Nil
    <3>4. CASE m + h - 1 < x
      <4>1. FormPassed(m, h, b)
        BY <2>2, <3>3, <3>4 DEF FormPassed
      <4> QED
        BY <1>18, <2>3, <3>1, <4>1 DEF TriedForms
    <3>5. CASE m + h - 1 = x /\ b < next
      <4>1. h = k
        BY <1>4, <1>7, <3>1, <3>5
      <4>2. b < from \/ j = i
        BY <1>9, <1>10, <1>11, <2>3, <3>5, <4>1
      <4>3. CASE j = i
        BY <2>1, <4>1, <4>3
      <4>4. CASE b < from
        <5>1. FormPassed(m, h, b)
          BY <1>3, <2>2, <3>3, <3>5, <4>4 DEF FormPassed
        <5> QED
          BY <1>18, <2>3, <3>1, <5>1 DEF TriedForms
      <4> QED
        BY <4>2, <4>3, <4>4
    <3> QED
      BY <3>2, <3>4, <3>5
  <2> QED
    BY <1>17, <2>3 DEF TriedForms
<1>19. ~reducedTransformations' => /\ reduceTransformationsIndex' \in 0 .. m + m - 1
                                   /\ reduceTransformationsFlipIndex' \in Nat
  BY <1>3, <1>10, <1>11, <1>16
<1>20. reducedTransformations' \in BOOLEAN
  <2>1. reducedTransformations \in BOOLEAN
    BY DEF Bounded
  <2> QED
    BY <1>16, <2>1
<1>21. Halves(s, n) /\ PassGoesOn(q, s)
  <2>1. ~Shows(SecondHalf(s), trigger) \/ SecondHalf(s) = SecondHalf(q) =>
           (TriedForms(SecondHalf(q)) => TriedForms(SecondHalf(q))')
    BY <1>8, <1>13, <1>18
  <2> QED
    <3>1. /\ Mirrored(q, m, n) /\ Mirrored(s, m, n) /\ Smaller(SecondHalf(s), SecondHalf(q))
          /\ Bounded(m) /\ reducedStarting /\ UNCHANGED <<trigger, startingCtx, clausesCtx>>
          /\ reduceEquivalenceStatementIndex = Nil /\ reduceEquivalenceClausesClauseIndex = Nil
          /\ ~reducedEquivalenceClauses /\ reducedTransformations' \in BOOLEAN
      BY <1>3, <1>8, <1>13, <1>14, <1>17, <1>20
    <3>2. ~reducedTransformations' => /\ reduceTransformationsIndex' \in 0 .. m + m - 1
                                      /\ reduceTransformationsFlipIndex' \in Nat
      BY <1>19
    <3> QED
      BY ONLY <2>1, <3>1, <3>2, FormsGoOn
<1> QED
  BY <1>16, <1>21

LEMMA NothingToFlipStep ==
  ASSUME NEW q, NEW m, NEW n, Mirrored(q, m, n), q = reducedClauses, Bounded(m),
         NothingToFlip
  PROVE  \E s : Propose(s, FALSE) /\ Halves(s, n) /\ PassGoesOn(q, s)
<1>1. PICK x, from : x = FlipStatement /\ from = FlipIndex
  OBVIOUS
<1>2. Flipping /\ Flippable(q[x + 1], from) = {}
  BY <1>1 DEF NothingToFlip, ToFlip
<1>3. /\ x \in 0 .. m + m - 1 /\ from \in Nat
      /\ reduceTransformationsIndex = Nil => x = 0
      /\ reduceTransformationsIndex # Nil => x = reduceTransformationsIndex
      /\ from = Default(reduceTransformationsFlipIndex, 0)
      /\ reduceEquivalenceStatementIndex = Nil /\ reduceEquivalenceClausesClauseIndex = Nil
      /\ ~reducedTransformations /\ ~reducedEquivalenceClauses /\ reducedStarting
  BY <1>1, <1>2, FlipPlace
<1>4. m \in Nat /\ 1 <= m /\ q \in Seq(Trees) /\ Len(q) = m + m
  BY DEF Mirrored
<1>5. /\ Propose(q, FALSE)
      /\ reduceTransformationsIndex' = x + 1
      /\ reduceTransformationsFlipIndex' = 0
      /\ reducedTransformations' = (x + 1 = m + m)
      /\ UNCHANGED <<reducedUntransformed, startingCtx, clausesCtx>>
  BY <1>1, <1>4 DEF NothingToFlip
<1>6. UNCHANGED <<trigger, startingCtx, clausesCtx>>
  BY <1>5 DEF Propose
<1>7. PICK g : g = SecondHalf(q)
  OBVIOUS
<1>8. g \in Seq(Trees) /\ Len(g) = m
  BY <1>7, MirroredShape
<1>9. ASSUME TriedForms(g) PROVE TriedForms(g)'
  <2>1. ASSUME NEW h \in 1 .. Len(g), NEW j \in InUse(g[h]), NEW b,
               b = Before(Wrapped(g[h]), j), FormPassed(Len(g), h, b)'
        PROVE  FormNeeded(g, h, j, trigger)
    <3>1. h \in 1 .. m /\ Len(g) = m
      BY <1>8
    <3>2. /\ m + h \in 1 .. m + m /\ g[h] = q[m + h] /\ g[h] \in Seq(Nodes)
      BY <1>7, <3>1, StatementOfHalf
    <3>3. j \in Wrapped(g[h])
      BY <3>2, PositionsAreFinite
    <3>4. b \in Nat
      BY <2>1, <3>2, <3>3, PositionsAreFinite, BeforeIsOrder
    <3>5. m + h - 1 < x + 1
      <4>1. CASE x + 1 = m + m
        BY <1>4, <3>1, <4>1
      <4>2. CASE x + 1 # m + m
        <5>1. \/ m + h - 1 < x + 1
              \/ b < 0
          BY <1>5, <2>1, <3>1, <4>2 DEF FormPassed, Default, Nil
        <5> QED
          BY <3>4, <5>1
      <4> QED
        BY <4>1, <4>2
    <3>6. m + h - 1 < x \/ m + h = x + 1
      BY <1>3, <1>4, <3>1, <3>5
    <3>7. x # 0
      BY <1>3, <1>4, <3>1, <3>6
    <3>8. reduceTransformationsIndex = x /\ x # Nil
      BY <1>3, <3>7 DEF Nil
    <3>9. FormPassed(m, h, b)
      <4>1. CASE m + h - 1 < x
        BY <3>8, <4>1 DEF FormPassed
      <4>2. CASE m + h = x + 1
        <5>1. m + h - 1 = x
          BY <1>3, <1>4, <3>1, <4>2
        <5>2. Flippable(g[h], from) = {}
          BY <1>2, <3>2, <4>2
        <5>3. b < from
          BY <1>3, <2>1, <3>2, <5>2, NothingInUse
        <5> QED
          BY <1>3, <3>8, <5>1, <5>3 DEF FormPassed
      <4> QED
        BY <3>6, <4>1, <4>2
    <3> QED
      BY <1>9, <2>1, <3>1, <3>9 DEF TriedForms
  <2> QED
    BY <1>6, <2>1 DEF TriedForms
<1>10. ~reducedTransformations' => /\ reduceTransformationsIndex' \in 0 .. m + m - 1
                                   /\ reduceTransformationsFlipIndex' \in Nat
  <2> SUFFICES ASSUME ~reducedTransformations'
               PROVE  x + 1 \in 0 .. m + m - 1
    BY <1>5
  <2>1. x + 1 # m + m
    BY <1>5
  <2> QED
    BY <1>3, <1>4, <2>1
<1>11. reducedTransformations' \in BOOLEAN
  BY <1>5
<1>12. Smaller(SecondHalf(q), SecondHalf(q))
  BY <1>7, <1>8, SmallerIsReflexive
<1>13. Halves(q, n) /\ PassGoesOn(q, q)
  <2>1. ~Shows(SecondHalf(q), trigger) \/ SecondHalf(q) = SecondHalf(q) =>
           (TriedForms(SecondHalf(q)) => TriedForms(SecondHalf(q))')
    BY <1>7, <1>9
  <2> QED
    BY <1>3, <1>6, <1>10, <1>11, <1>12, <2>1, FormsGoOn
<1> QED
  BY <1>5, <1>13

(* The statement at the clauses' index.                                    *)
LEMMA ClausePlace ==
  ASSUME NEW q, NEW m, NEW n, Mirrored(q, m, n), q = reducedClauses, Bounded(m), Shrinking
  PROVE  /\ ClauseStatement \in 0 .. m - 1 /\ ClauseIndex \in Nat /\ Statements = m
         /\ reduceEquivalenceStatementIndex = Nil => ClauseStatement = 0 /\ ClauseIndex = 0
         /\ reduceEquivalenceStatementIndex # Nil =>
              ClauseStatement = reduceEquivalenceStatementIndex
         /\ ClauseIndex = Default(reduceEquivalenceClausesClauseIndex, 0)
         /\ reducedTransformations /\ ~reducedEquivalenceClauses /\ reducedStarting
<1>1. /\ reduceEquivalenceStatementIndex \in {Nil} \cup (0 .. m - 1)
      /\ reduceEquivalenceClausesClauseIndex \in {Nil} \cup Nat
      /\ reduceEquivalenceStatementIndex = Nil => reduceEquivalenceClausesClauseIndex = Nil
      /\ reducedTransformations /\ ~reducedEquivalenceClauses /\ reducedStarting
  BY DEF Shrinking, Bounded
<1>2. 0 \in 0 .. m - 1
  BY DEF Mirrored
<1>3. Statements = m
  BY MirroredShape DEF Statements
<1> QED
  BY <1>1, <1>2, <1>3 DEF ClauseStatement, ClauseIndex, Default

LEMMA ClausesGoOn ==
  ASSUME NEW q, NEW m, NEW n, Mirrored(q, m, n), NEW s, Mirrored(s, m, n),
         Smaller(SecondHalf(s), SecondHalf(q)),
         Bounded(m), reducedStarting, reducedTransformations,
         UNCHANGED <<trigger, startingCtx, transformationsCtx>>,
         reducedEquivalenceClauses' \in BOOLEAN,
         ~reducedEquivalenceClauses' => /\ reduceEquivalenceStatementIndex' \in 0 .. m - 1
                                        /\ reduceEquivalenceClausesClauseIndex' \in Nat,
         ~Shows(SecondHalf(s), trigger) \/ SecondHalf(s) = SecondHalf(q) =>
           (TriedClauses(SecondHalf(q)) => TriedClauses(SecondHalf(q))')
  PROVE  Halves(s, n) /\ PassGoesOn(q, s)
<1>1. Half(q) = m /\ Half(s) = m /\ m \in Nat
  <2>1. Half(q) = m /\ Half(s) = m
    BY MirroredShape
  <2> QED
    BY <2>1 DEF Mirrored
<1>2. reducedStarting' = reducedStarting /\ reducedTransformations' = reducedTransformations
  BY DEF startingCtx, transformationsCtx
<1>3. Bounded(m)'
  <2>1. ~reducedEquivalenceClauses' => reduceEquivalenceStatementIndex' # Nil
    BY DEF Nil
  <2> QED
    BY <1>2, <2>1 DEF Bounded
<1>4. Halves(s, n)
  BY HalvesAreMirrored
<1>5. PICK g, f : g = SecondHalf(q) /\ f = SecondHalf(s)
  OBVIOUS
<1>6. ASSUME ~Shows(f, trigger) \/ f = g, Tried(g) PROVE Tried(g)'
  <2>1. TriedClauses(g)'
    BY <1>5, <1>6 DEF Tried
  <2>2. TriedStatements(g)' /\ TriedForms(g)'
    BY <1>6, OtherPhases DEF Tried
  <2> QED
    BY <2>1, <2>2 DEF Tried
<1>7. PassGoesOn(q, s)
  BY <1>1, <1>3, <1>5, <1>6 DEF PassGoesOn
<1> QED
  BY <1>4, <1>7

LEMMA RemoveClauseStep ==
  ASSUME NEW q, NEW m, NEW n, Mirrored(q, m, n), q = reducedClauses, Bounded(m),
         RemoveClause
  PROVE  \E s : Propose(s, FALSE) /\ Halves(s, n) /\ PassGoesOn(q, s)
<1>1. PICK y, index : y = ClauseStatement /\ index = ClauseIndex
  OBVIOUS
<1>2. Shrinking
  BY DEF RemoveClause
<1>3. /\ y \in 0 .. m - 1 /\ index \in Nat /\ Statements = m
      /\ reduceEquivalenceStatementIndex = Nil => y = 0 /\ index = 0
      /\ reduceEquivalenceStatementIndex # Nil => y = reduceEquivalenceStatementIndex
      /\ index = Default(reduceEquivalenceClausesClauseIndex, 0)
      /\ reducedTransformations /\ ~reducedEquivalenceClauses /\ reducedStarting
  BY <1>1, <1>2, ClausePlace
<1>4. m \in Nat /\ 1 <= m
  BY DEF Mirrored
<1>5. PICK k : k = y + 1
  OBVIOUS
<1>6. k \in 1 .. m /\ y + m + 1 = m + k /\ y = k - 1
  BY <1>3, <1>4, <1>5
<1>7. PICK t, g : t = q[m + k] /\ g = SecondHalf(q)
  OBVIOUS
<1>8. /\ m + k \in 1 .. m + m /\ g \in Seq(Trees) /\ Len(g) = m /\ g[k] = t
      /\ t \in Trees /\ t \in Seq(Nodes)
  BY <1>6, <1>7, StatementOfHalf
<1>9. Transformed = t /\ Original = q[k]
  BY <1>1, <1>3, <1>5, <1>6, <1>7 DEF Transformed, Original
<1>10. index < Cardinality(Common(t))
  BY <1>1, <1>9 DEF RemoveClause
<1>11. PICK i \in Common(t) :
         /\ i = Nth(Common(t), index) /\ i \in 1 .. Len(t)
         /\ \A j \in Common(t) :
              Before(Common(t), j) < index + 1 => Before(Common(t), j) < index \/ j = i
  BY <1>3, <1>8, <1>10, NthCommon
<1>12. PICK s : s = [q EXCEPT ![k] = Reduced(q[k], i), ![m + k] = Reduced(t, i)]
  OBVIOUS
<1>13. PICK f : f = SecondHalf(s)
  OBVIOUS
<1>14. /\ Mirrored(s, m, n) /\ Smaller(f, g)
       /\ f = [g EXCEPT ![k] = Reduced(t, i)] /\ (t[i].kind # "empty" => f # g)
  <2>1. RemovalOf(q, m, n, k, t, i, s)
    BY <1>6, <1>7, <1>11, <1>12 DEF RemovalOf
  <2>2. SmallerHalf(q, m, n, k, Reduced(t, i), s)
        /\ (t[i].kind # "empty" => SecondHalf(s) # SecondHalf(q))
    BY ONLY <2>1, ClauselessProposal
  <2> QED
    BY <1>7, <1>13, <2>2 DEF SmallerHalf
<1>15. s = WithoutClause(index)
  <2>1. reduceClauseAtIndex(q[k], t, index) = Reduced(q[k], i)
        /\ reduceClauseAtIndex(t, t, index) = Reduced(t, i)
    BY <1>11 DEF reduceClauseAtIndex
  <2>2. ClauseStatement + 1 = k /\ ClauseStatement + Statements + 1 = m + k
    BY <1>1, <1>3, <1>5, <1>6
  <2> QED
    BY <1>9, <1>12, <2>1, <2>2 DEF WithoutClause
<1>16. /\ Propose(s, FALSE)
       /\ reduceEquivalenceStatementIndex' = y
       /\ reduceEquivalenceClausesClauseIndex' = index + 1
       /\ UNCHANGED <<reducedEquivalenceClauses, reducedUntransformed, startingCtx,
                      transformationsCtx>>
  BY <1>1, <1>15 DEF RemoveClause
<1>17. UNCHANGED <<trigger, startingCtx, transformationsCtx>>
  BY <1>16 DEF Propose
<1>18. ASSUME ~Shows(f, trigger) \/ f = g, TriedClauses(g) PROVE TriedClauses(g)'
  <2>1. ClauseNeeded(g, k, i, trigger)
    BY <1>8, <1>14, <1>18 DEF ClauseNeeded
  <2>2. ASSUME NEW h \in 1 .. Len(g), NEW j \in Common(g[h]), NEW b,
               b = Before(Common(g[h]), j), ClausePassed(h, b)'
        PROVE  ClauseNeeded(g, h, j, trigger)
    <3>1. h \in 1 .. m /\ Len(g) = m
      BY <1>8
    <3>2. /\ g[h] \in Seq(Nodes) /\ b \in Nat
      <4>1. g[h] \in Seq(Nodes)
        BY <1>8, <3>1, TreesAreSeqs
      <4> QED
        BY <2>2, <4>1, PositionsAreFinite, BeforeIsOrder
    <3>3. h - 1 < y \/ (h - 1 = y /\ b < index + 1)
      <4>1. index + 1 # Nil /\ ~reducedEquivalenceClauses'
        BY <1>3, <1>16 DEF Nil
      <4> QED
        BY <1>16, <2>2, <4>1 DEF ClausePassed, Default
    <3>4. CASE h - 1 < y
      <4>1. y # 0 /\ y # Nil
        BY <1>3, <3>1, <3>4 DEF Nil
      <4>2. reduceEquivalenceStatementIndex = y
        BY <1>3, <4>1
      <4>3. ClausePassed(h, b)
        BY <3>4, <4>1, <4>2 DEF ClausePassed
      <4> QED
        BY <1>18, <2>2, <4>3 DEF TriedClauses
    <3>5. CASE h - 1 = y /\ b < index + 1
      <4>1. h = k
        BY <1>3, <1>5, <3>1, <3>5
      <4>2. b < index \/ j = i
        BY <1>8, <1>11, <2>2, <3>5, <4>1
      <4>3. CASE j = i
        BY <2>1, <4>1, <4>3
      <4>4. CASE b < index
        <5>1. index # 0
          BY <1>3, <3>2, <4>4
        <5>2. reduceEquivalenceStatementIndex # Nil /\ reduceEquivalenceStatementIndex = y
          BY <1>3, <5>1
        <5>3. ClausePassed(h, b)
          BY <1>3, <3>5, <4>4, <5>2 DEF ClausePassed
        <5> QED
          BY <1>18, <2>2, <5>3 DEF TriedClauses
      <4> QED
        BY <4>2, <4>3, <4>4
    <3> QED
      BY <3>3, <3>4, <3>5
  <2> QED
    BY <1>17, <2>2 DEF TriedClauses
<1>19. reduceEquivalenceStatementIndex' \in 0 .. m - 1
       /\ reduceEquivalenceClausesClauseIndex' \in Nat
  BY <1>3, <1>16
<1>20. reducedEquivalenceClauses' \in BOOLEAN
  <2>1. reducedEquivalenceClauses \in BOOLEAN
    BY DEF Bounded
  <2> QED
    BY <1>16, <2>1
<1>21. Halves(s, n) /\ PassGoesOn(q, s)
  <2>1. ~Shows(SecondHalf(s), trigger) \/ SecondHalf(s) = SecondHalf(q) =>
           (TriedClauses(SecondHalf(q)) => TriedClauses(SecondHalf(q))')
    BY <1>7, <1>13, <1>18
  <2> QED
    BY <1>3, <1>7, <1>13, <1>14, <1>17, <1>19, <1>20, <2>1, ClausesGoOn
<1> QED
  BY <1>16, <1>21

LEMMA NoClauseLeftStep ==
  ASSUME NEW q, NEW m, NEW n, Mirrored(q, m, n), q = reducedClauses, Bounded(m),
         NoClauseLeft
  PROVE  \E s : Propose(s, FALSE) /\ Halves(s, n) /\ PassGoesOn(q, s)
<1>1. PICK y, index : y = ClauseStatement /\ index = ClauseIndex
  OBVIOUS
<1>2. Shrinking
  BY DEF NoClauseLeft
<1>3. /\ y \in 0 .. m - 1 /\ index \in Nat /\ Statements = m
      /\ reduceEquivalenceStatementIndex = Nil => y = 0 /\ index = 0
      /\ reduceEquivalenceStatementIndex # Nil => y = reduceEquivalenceStatementIndex
      /\ index = Default(reduceEquivalenceClausesClauseIndex, 0)
      /\ reducedTransformations /\ ~reducedEquivalenceClauses /\ reducedStarting
  BY <1>1, <1>2, ClausePlace
<1>4. m \in Nat /\ 1 <= m
  BY DEF Mirrored
<1>5. PICK k : k = y + 1
  OBVIOUS
<1>6. k \in 1 .. m /\ y + m + 1 = m + k /\ y = k - 1
  BY <1>3, <1>4, <1>5
<1>7. PICK t, g : t = q[m + k] /\ g = SecondHalf(q)
  OBVIOUS
<1>8. /\ m + k \in 1 .. m + m /\ g \in Seq(Trees) /\ Len(g) = m /\ g[k] = t
      /\ t \in Trees /\ t \in Seq(Nodes)
  BY <1>6, <1>7, StatementOfHalf
<1>9. Transformed = t
  BY <1>1, <1>3, <1>6, <1>7 DEF Transformed
<1>10. index >= Cardinality(Common(t))
  BY <1>1, <1>9 DEF NoClauseLeft
<1>11. /\ Propose(q, FALSE)
       /\ reduceEquivalenceStatementIndex' = y + 1
       /\ reduceEquivalenceClausesClauseIndex' = 0
       /\ reducedEquivalenceClauses' = (y + 1 = m)
       /\ UNCHANGED <<reducedUntransformed, startingCtx, transformationsCtx>>
  BY <1>1, <1>3 DEF NoClauseLeft
<1>12. UNCHANGED <<trigger, startingCtx, transformationsCtx>>
  BY <1>11 DEF Propose
<1>13. ASSUME TriedClauses(g) PROVE TriedClauses(g)'
  <2>1. ASSUME NEW h \in 1 .. Len(g), NEW j \in Common(g[h]), NEW b,
               b = Before(Common(g[h]), j), ClausePassed(h, b)'
        PROVE  ClauseNeeded(g, h, j, trigger)
    <3>1. h \in 1 .. m /\ Len(g) = m
      BY <1>8
    <3>2. /\ b \in Nat /\ b < Cardinality(Common(g[h])) /\ Cardinality(Common(g[h])) \in Nat
      <4>1. g[h] \in Seq(Nodes)
        BY <1>8, <3>1, TreesAreSeqs
      <4> QED
        BY <2>1, <4>1, PositionsAreFinite, BeforeIsOrder
    <3>3. h - 1 < y + 1
      <4>1. CASE y + 1 = m
        BY <1>4, <3>1, <4>1
      <4>2. CASE y + 1 # m
        <5>1. h - 1 < y + 1 \/ b < 0
          BY <1>11, <2>1, <4>2 DEF ClausePassed, Default, Nil
        <5> QED
          BY <3>2, <5>1
      <4> QED
        BY <4>1, <4>2
    <3>4. h - 1 < y \/ h = k
      BY <1>3, <1>5, <3>1, <3>3
    <3>5. CASE h - 1 < y
      <4>1. y # 0 /\ y # Nil
        BY <1>3, <3>1, <3>5 DEF Nil
      <4>2. reduceEquivalenceStatementIndex = y
        BY <1>3, <4>1
      <4>3. ClausePassed(h, b)
        BY <3>5, <4>1, <4>2 DEF ClausePassed
      <4> QED
        BY <1>13, <2>1, <4>3 DEF TriedClauses
    <3>6. CASE h = k
      <4>1. b < index /\ index # 0
        <5>1. PICK c : c = Cardinality(Common(g[h]))
          OBVIOUS
        <5>2. b \in Nat /\ b < c /\ c \in Nat /\ index >= c /\ index \in Nat
          BY <1>3, <1>8, <1>10, <3>2, <3>6, <5>1
        <5> QED
          BY ONLY <5>2
      <4>2. reduceEquivalenceStatementIndex # Nil /\ reduceEquivalenceStatementIndex = y
        BY <1>3, <4>1
      <4>3. h - 1 = y
        BY <1>6, <3>6
      <4>4. ClausePassed(h, b)
        BY <1>3, <4>1, <4>2, <4>3 DEF ClausePassed
      <4> QED
        BY <1>13, <2>1, <4>4 DEF TriedClauses
    <3> QED
      BY <3>4, <3>5, <3>6
  <2> QED
    BY <1>12, <2>1 DEF TriedClauses
<1>14. ~reducedEquivalenceClauses' => /\ reduceEquivalenceStatementIndex' \in 0 .. m - 1
                                      /\ reduceEquivalenceClausesClauseIndex' \in Nat
  <2> SUFFICES ASSUME ~reducedEquivalenceClauses'
               PROVE  y + 1 \in 0 .. m - 1
    BY <1>11
  <2>1. y + 1 # m
    BY <1>11
  <2> QED
    BY <1>3, <1>4, <2>1
<1>15. reducedEquivalenceClauses' \in BOOLEAN
  BY <1>11
<1>16. Smaller(SecondHalf(q), SecondHalf(q))
  BY <1>7, <1>8, SmallerIsReflexive
<1>17. Halves(q, n) /\ PassGoesOn(q, q)
  <2>1. ~Shows(SecondHalf(q), trigger) \/ SecondHalf(q) = SecondHalf(q) =>
           (TriedClauses(SecondHalf(q)) => TriedClauses(SecondHalf(q))')
    BY <1>7, <1>13
  <2> QED
    BY <1>3, <1>12, <1>14, <1>15, <1>16, <2>1, ClausesGoOn
<1> QED
  BY <1>11, <1>17

LEMMA NoStartingStatementStep ==
  ASSUME NEW q, NEW m, NEW n, Mirrored(q, m, n), q = reducedClauses, Bounded(m),
         NoStartingStatement
  PROVE  \E s : Propose(s, FALSE) /\ Halves(s, n) /\ PassGoesOn(q, s)
<1>1. Half(q) = m
  BY MirroredShape
<1>2. m = 1 /\ ~reducedStarting
  BY <1>1 DEF NoStartingStatement, Starting, Statements
<1>3. /\ Propose(q, FALSE)
      /\ reducedStarting' = TRUE
      /\ UNCHANGED <<reducedUntransformed, reduceStartingStatementsIndex,
                     transformationsCtx, clausesCtx>>
  BY DEF NoStartingStatement
<1>4. UNCHANGED <<trigger, transformationsCtx, clausesCtx>>
  BY <1>3 DEF Propose
<1>5. PICK g : g = SecondHalf(q)
  OBVIOUS
<1>6. g \in Seq(Trees) /\ Len(g) = 1
  BY <1>2, <1>5, MirroredShape
<1>7. ASSUME Tried(g) PROVE Tried(g)'
  <2>1. TriedStatements(g)'
    BY <1>6 DEF TriedStatements
  <2>2. TriedForms(g)' /\ TriedClauses(g)'
    BY <1>4, <1>7, OtherPhases DEF Tried
  <2> QED
    BY <2>1, <2>2 DEF Tried
<1>8. Smaller(g, g)
  BY <1>6, SmallerIsReflexive
<1>9. Bounded(m)'
  BY <1>2, <1>3 DEF Bounded, transformationsCtx, clausesCtx
<1>10. Halves(q, n)
  BY HalvesAreMirrored
<1>11. PassGoesOn(q, q)
  BY <1>1, <1>5, <1>7, <1>8, <1>9 DEF PassGoesOn
<1> QED
  BY <1>3, <1>10, <1>11

-----------------------------------------------------------------------------
(* The steps keep the invariant. *)

PassStep ==
  \/ RemoveStarting \/ NoStartingStatement
  \/ FlipNext \/ NothingToFlip
  \/ RemoveClause \/ NoClauseLeft

LEMMA PassStepGoesOn ==
  ASSUME NEW q, q = reducedClauses, NEW n, n = statementIndex + 1, Well(q), PassStep
  PROVE  /\ \E s : Propose(s, FALSE) /\ Halves(s, n) /\ PassGoesOn(q, s)
         /\ reducedUntransformed /\ UNCHANGED reducedUntransformed
<1>1. PICK m : m = Half(q)
  OBVIOUS
<1>2. Mirrored(q, m, n) /\ Bounded(m)
  BY <1>1 DEF Well, Halves
<1>3. CASE RemoveStarting
  <2>1. \E s : Propose(s, FALSE) /\ Halves(s, n) /\ PassGoesOn(q, s)
    BY <1>2, <1>3, RemoveStartingStep
  <2>2. reducedUntransformed /\ UNCHANGED reducedUntransformed
    BY <1>3 DEF RemoveStarting, Starting
  <2> QED
    BY <2>1, <2>2
<1>4. CASE NoStartingStatement
  <2>1. \E s : Propose(s, FALSE) /\ Halves(s, n) /\ PassGoesOn(q, s)
    BY <1>2, <1>4, NoStartingStatementStep
  <2>2. reducedUntransformed /\ UNCHANGED reducedUntransformed
    BY <1>4 DEF NoStartingStatement, Starting
  <2> QED
    BY <2>1, <2>2
<1>5. CASE FlipNext
  <2>1. \E s : Propose(s, FALSE) /\ Halves(s, n) /\ PassGoesOn(q, s)
    BY <1>2, <1>5, FlipNextStep
  <2>2. reducedUntransformed /\ UNCHANGED reducedUntransformed
    BY <1>5 DEF FlipNext, Flipping
  <2> QED
    BY <2>1, <2>2
<1>6. CASE NothingToFlip
  <2>1. \E s : Propose(s, FALSE) /\ Halves(s, n) /\ PassGoesOn(q, s)
    BY <1>2, <1>6, NothingToFlipStep
  <2>2. reducedUntransformed /\ UNCHANGED reducedUntransformed
    BY <1>6 DEF NothingToFlip, Flipping
  <2> QED
    BY <2>1, <2>2
<1>7. CASE RemoveClause
  <2>1. \E s : Propose(s, FALSE) /\ Halves(s, n) /\ PassGoesOn(q, s)
    BY <1>2, <1>7, RemoveClauseStep
  <2>2. reducedUntransformed /\ UNCHANGED reducedUntransformed
    BY <1>7 DEF RemoveClause, Shrinking
  <2> QED
    BY <2>1, <2>2
<1>8. CASE NoClauseLeft
  <2>1. \E s : Propose(s, FALSE) /\ Halves(s, n) /\ PassGoesOn(q, s)
    BY <1>2, <1>8, NoClauseLeftStep
  <2>2. reducedUntransformed /\ UNCHANGED reducedUntransformed
    BY <1>8 DEF NoClauseLeft, Shrinking
  <2> QED
    BY <2>1, <2>2
<1> QED
  BY <1>3, <1>4, <1>5, <1>6, <1>7, <1>8 DEF PassStep

LEMMA SameContext ==
  ASSUME UNCHANGED <<origin, trigger>>, NEW q
  PROVE  /\ Origin => Origin'
         /\ Accepted(q) => Accepted(q)'
         /\ UNCHANGED ctx => (Well(q) => Well(q)')
<1>1. UNCHANGED <<bug, origResults, statementIndex, trigger>>
  BY DEF origin
<1>2. Origin => Origin'
  BY <1>1 DEF Origin
<1>3. Accepted(q) => Accepted(q)'
  BY <1>1 DEF Accepted, Judged
<1>4. ASSUME UNCHANGED ctx, Well(q) PROVE Well(q)'
  <2>1. UNCHANGED <<startingCtx, transformationsCtx, clausesCtx>>
    BY <1>4 DEF ctx
  <2>2. Bounded(Half(q))'
    BY <1>4, <2>1 DEF Well, Bounded, startingCtx, transformationsCtx, clausesCtx
  <2> QED
    BY <1>1, <1>4, <2>2 DEF Well
<1> QED
  BY <1>2, <1>3, <1>4

LEMMA RemoveUntransformedKeepsHalves ==
  ASSUME HalvesInv, RemoveUntransformed, UNCHANGED origin
  PROVE  HalvesInv' /\ newClauses' = FirstProposal
<1>1. PICK s : s = FirstProposal
  OBVIOUS
<1>2. /\ Propose(s, FALSE) /\ reducedUntransformed' = TRUE
      /\ UNCHANGED <<startingCtx, transformationsCtx, clausesCtx>> /\ ~reducedUntransformed
  BY <1>1 DEF RemoveUntransformed, FirstProposal, FirstOf
<1>3. Origin /\ Fresh /\ Halves(s, statementIndex + 1) /\ Accepted(s)
  BY <1>1, <1>2 DEF HalvesInv
<1>4. pc' = "run" /\ newClauses' = s /\ UNCHANGED <<reducedClauses, trigger>>
  BY <1>2 DEF Propose
<1>5. Origin' /\ Accepted(s)'
  BY <1>3, <1>4, SameContext
<1>6. Fresh'
  BY <1>2, <1>3 DEF Fresh, startingCtx, transformationsCtx, clausesCtx
<1>7. Bounded(Half(s))'
  BY <1>6 DEF Fresh, Bounded
<1>8. Halves(s, statementIndex + 1)'
  BY <1>3 DEF origin
<1>9. Well(s)'
  BY <1>7, <1>8 DEF Well
<1>10. Halves(newClauses, statementIndex + 1)' /\ Well(newClauses)' /\ Accepted(newClauses)'
  BY <1>4, <1>5, <1>8, <1>9
<1> QED
  BY <1>1, <1>2, <1>4, <1>5, <1>10 DEF HalvesInv

LEMMA PassStepKeepsHalves ==
  ASSUME HalvesInv, PassStep, UNCHANGED origin
  PROVE  /\ HalvesInv'
         /\ reducedUntransformed /\ reducedUntransformed' /\ pc = "step"
         /\ \E s : s = newClauses' /\ Propose(s, FALSE) /\ PassGoesOn(reducedClauses, s)
<1>1. PICK q, n : q = reducedClauses /\ n = statementIndex + 1
  OBVIOUS
<1>2. pc = "step" /\ reducedUntransformed
  BY DEF PassStep, RemoveStarting, NoStartingStatement, FlipNext, NothingToFlip,
         RemoveClause, NoClauseLeft, Starting, Flipping, Shrinking, Propose
<1>3. Origin /\ Well(q)
  BY <1>1, <1>2 DEF HalvesInv
<1>4. /\ \E s : Propose(s, FALSE) /\ Halves(s, n) /\ PassGoesOn(q, s)
      /\ UNCHANGED reducedUntransformed
  BY <1>1, <1>3, PassStepGoesOn
<1>5. PICK s : Propose(s, FALSE) /\ Halves(s, n) /\ PassGoesOn(q, s)
  BY <1>4
<1>6. pc' = "run" /\ newClauses' = s /\ UNCHANGED <<reducedClauses, trigger>>
  BY <1>5 DEF Propose
<1>7. Origin'
  BY <1>3, <1>6, SameContext
<1>8. Halves(q, n)
  BY <1>1, <1>3 DEF Well
<1>9. Bounded(Half(s))' /\ Bounded(Half(q))'
  BY <1>5 DEF PassGoesOn
<1>10. n = (statementIndex + 1)'
  BY <1>1 DEF origin
<1>11. Well(s)' /\ Well(q)' /\ Halves(s, statementIndex + 1)'
  BY <1>5, <1>8, <1>9, <1>10 DEF Well
<1>12. /\ Halves(newClauses, statementIndex + 1)' /\ Well(newClauses)'
       /\ Well(reducedClauses)'
  BY <1>1, <1>6, <1>11
<1>13. reducedUntransformed' = TRUE
  <2>1. reducedUntransformed \in BOOLEAN
    BY DEF HalvesInv
  <2> QED
    BY <1>2, <1>4, <2>1
<1>14. HalvesInv'
  BY <1>6, <1>7, <1>12, <1>13 DEF HalvesInv
<1>15. \E r : r = newClauses' /\ Propose(r, FALSE) /\ PassGoesOn(reducedClauses, r)
  <2>1. s = newClauses' /\ Propose(s, FALSE) /\ PassGoesOn(reducedClauses, s)
    BY <1>1, <1>5, <1>6
  <2> QED
    BY <2>1
<1> QED
  BY <1>2, <1>13, <1>14, <1>15

LEMMA FinishPassKeepsHalves ==
  ASSUME HalvesInv, FinishPass, UNCHANGED origin
  PROVE  HalvesInv' /\ Fresh'
<1>1. /\ pc = "step" /\ reducedUntransformed /\ reducedUntransformed' = reducedUntransformed
      /\ Propose(reducedClauses, TRUE)
  BY DEF FinishPass, ResetContext, Propose
<1>2. Fresh'
  BY DEF FinishPass, ResetContext, Fresh
<1>3. Origin /\ Well(reducedClauses)
  BY <1>1 DEF HalvesInv
<1>4. pc' = "run" /\ newClauses' = reducedClauses /\ UNCHANGED <<reducedClauses, trigger>>
  BY <1>1 DEF Propose
<1>5. Origin'
  BY <1>3, <1>4, SameContext
<1>6. PICK q : q = reducedClauses
  OBVIOUS
<1>7. Halves(q, statementIndex + 1)'
  BY <1>3, <1>6 DEF Well, origin
<1>8. Bounded(Half(q))'
  BY <1>2 DEF Fresh, Bounded
<1>9. Well(q)'
  BY <1>7, <1>8 DEF Well
<1>10. Halves(newClauses, statementIndex + 1)' /\ Well(newClauses)' /\ Well(reducedClauses)'
  BY <1>4, <1>6, <1>7, <1>9
<1>11. reducedUntransformed' = TRUE
  <2>1. reducedUntransformed \in BOOLEAN
    BY DEF HalvesInv
  <2> QED
    BY <1>1, <2>1
<1>12. HalvesInv'
  BY <1>4, <1>5, <1>10, <1>11 DEF HalvesInv
<1> QED
  BY <1>2, <1>12

(* The verdict on what is proposed, where it is judged by the trigger.     *)
LEMMA ProposalIsJudged ==
  ASSUME HalvesInv, pc = "run"
  PROVE  /\ reducedUntransformed /\ Halves(newClauses, statementIndex + 1)
         /\ Judged(newClauses) =>
              (ValidateReductionResult(newClauses) <=> Shows(SecondHalf(newClauses), trigger))
<1>1. /\ Origin /\ reducedUntransformed /\ Halves(newClauses, statementIndex + 1)
  BY DEF HalvesInv
<1>2. PICK s : s = newClauses
  OBVIOUS
<1>3. Judged(s) => (ValidateReductionResult(s) <=> Shows(SecondHalf(s), trigger))
  BY <1>1, <1>2, VerdictIsTrigger
<1> QED
  BY <1>1, <1>2, <1>3

LEMMA ValidateKeepsHalves ==
  ASSUME HalvesInv, Validate
  PROVE  HalvesInv'
<1>1. /\ pc = "run"
      /\ pc' \in {"step", "report"} /\ UNCHANGED <<newClauses, trigger, origin, ctx>>
      /\ reducedClauses' = IF ValidateReductionResult(newClauses) THEN newClauses
                                                                  ELSE reducedClauses
  BY DEF Validate, RunProposal
<1>2. /\ Origin /\ reducedUntransformed /\ Halves(newClauses, statementIndex + 1)
      /\ Well(newClauses) /\ (Well(reducedClauses) \/ Accepted(newClauses))
  BY <1>1, ProposalIsJudged DEF HalvesInv
<1>3. PICK r, s : r = reducedClauses' /\ s = newClauses
  OBVIOUS
<1>4. Well(r)
  <2>1. CASE ValidateReductionResult(s)
    BY <1>1, <1>2, <1>3, <2>1
  <2>2. CASE ~ValidateReductionResult(s)
    <3>1. ~Accepted(s)
      BY <1>1, <1>3, <2>2, ProposalIsJudged DEF Accepted
    <3>2. r = reducedClauses
      BY <1>1, <1>3, <2>2
    <3> QED
      BY <1>2, <1>3, <3>1, <3>2
  <2> QED
    BY <2>1, <2>2
<1>5. Well(r)' /\ Origin'
  BY <1>1, <1>2, <1>4, SameContext
<1>6. Halves(s, statementIndex + 1)'
  BY <1>1, <1>2, <1>3 DEF origin
<1>7. Well(reducedClauses)' /\ Halves(newClauses, statementIndex + 1)'
  BY <1>1, <1>3, <1>5, <1>6
<1>8. reducedUntransformed' = TRUE
  <2>1. reducedUntransformed \in BOOLEAN
    BY DEF HalvesInv
  <2> QED
    BY <1>1, <1>2, <2>1 DEF ctx
<1> QED
  BY <1>1, <1>5, <1>7, <1>8 DEF HalvesInv

LEMMA LastStepsKeepHalves ==
  ASSUME HalvesInv, Fail \/ Report \/ UNCHANGED vars
  PROVE  HalvesInv'
<1>1. UNCHANGED <<newClauses, reducedClauses, trigger, origin, ctx>>
  BY DEF Fail, RunFails, Report, CreateBugreport, vars, loopVars
<1>2. Origin'
  BY <1>1, SameContext DEF HalvesInv
<1>3. PICK r, s : r = reducedClauses /\ s = newClauses
  OBVIOUS
<1>4. /\ Well(r) => Well(r)'
      /\ Well(s) => Well(s)'
      /\ Accepted(s) => Accepted(s)'
  BY <1>1, SameContext
<1>5. Halves(s, statementIndex + 1) => Halves(s, statementIndex + 1)'
  BY <1>1 DEF origin
<1>6. r = reducedClauses' /\ s = newClauses'
  BY <1>1, <1>3
<1>7. UNCHANGED reducedUntransformed
  BY <1>1 DEF ctx
<1>8. CASE UNCHANGED vars
  <2>1. UNCHANGED pc
    BY <1>8 DEF vars, loopVars
  <2>2. CASE reducedUntransformed
    BY <1>2, <1>3, <1>4, <1>5, <1>6, <1>7, <2>1, <2>2 DEF HalvesInv
  <2>3. CASE ~reducedUntransformed
    <3>1. Fresh /\ Halves(FirstProposal, statementIndex + 1) /\ Accepted(FirstProposal)
      BY <2>3 DEF HalvesInv
    <3>2. Fresh'
      BY <1>1, <3>1 DEF Fresh, ctx, startingCtx, transformationsCtx, clausesCtx
    <3>3. PICK f : f = FirstProposal
      OBVIOUS
    <3>4. f = FirstProposal'
      BY <1>1, <3>3 DEF FirstProposal, origin
    <3>5. Accepted(f)' /\ Halves(f, statementIndex + 1)'
      <4>1. Accepted(f) => Accepted(f)'
        BY <1>1, SameContext
      <4>2. Halves(f, statementIndex + 1)'
        BY <1>1, <3>1, <3>3 DEF origin
      <4> QED
        BY <3>1, <3>3, <4>1, <4>2
    <3>6. Accepted(FirstProposal)' /\ Halves(FirstProposal, statementIndex + 1)'
      BY <3>4, <3>5
    <3> QED
      BY <1>1, <1>2, <1>7, <2>1, <2>3, <3>2, <3>6 DEF HalvesInv
  <2> QED
    BY <2>2, <2>3
<1>9. CASE Fail \/ Report
  <2>1. \/ pc \in {"run", "report"} /\ pc' = "failed"
        \/ pc = "report" /\ pc' = "done"
    BY <1>9 DEF Fail, RunFails, Report, CreateBugreport
  <2>2. reducedUntransformed = TRUE
    BY <2>1 DEF HalvesInv
  <2>3. pc = "report" => Well(r)
    BY <1>3, <2>2 DEF HalvesInv
  <2>4. Halves(s, statementIndex + 1)
    BY <1>3, <2>2 DEF HalvesInv
  <2>5. Halves(newClauses, statementIndex + 1)'
    BY <1>5, <1>6, <2>4
  <2>6. pc' = "done" => Well(reducedClauses)'
    BY <1>4, <1>6, <2>1, <2>3
  <2> QED
    BY <1>2, <1>7, <2>1, <2>2, <2>5, <2>6 DEF HalvesInv
<1> QED
  BY <1>8, <1>9

(***************************************************************************)
(* In every behaviour the first proposal is accepted, and the halves of    *)
(* what is proposed and kept are mirrored from then on.                    *)
(***************************************************************************)
THEOREM HalvesAreKept == Spec => []HalvesInv
<1>1. Init => HalvesInv
  BY InitialHalves
<1>2. HalvesInv /\ [Next]_vars => HalvesInv'
  <2> SUFFICES ASSUME HalvesInv, [Next]_vars PROVE HalvesInv'
    OBVIOUS
  <2>1. CASE ReduceStep
    <3>1. CASE RemoveUntransformed
      BY <2>1, <3>1, RemoveUntransformedKeepsHalves DEF ReduceStep
    <3>2. CASE PassStep
      BY <2>1, <3>2, PassStepKeepsHalves DEF ReduceStep
    <3>3. CASE FinishPass
      BY <2>1, <3>3, FinishPassKeepsHalves DEF ReduceStep
    <3>4. RemoveUntransformed \/ PassStep \/ FinishPass
      BY <2>1 DEF ReduceStep, PassStep
    <3> QED
      BY <3>1, <3>2, <3>3, <3>4
  <2>2. CASE Validate
    BY <2>2, ValidateKeepsHalves
  <2>3. CASE Fail \/ Report \/ UNCHANGED vars
    BY <2>3, LastStepsKeepHalves
  <2> QED
    BY <2>1, <2>2, <2>3 DEF Next
<1> QED
  BY <1>1, <1>2, PTL DEF Spec

LEMMA MirroredIsParallel ==
  ASSUME NEW q, NEW n, Halves(q, n)
  PROVE  Parallel(q)
<1>1. PICK m : m = Half(q)
  OBVIOUS
<1>2. Mirrored(q, m, n)
  BY <1>1 DEF Halves
<1>3. q \in Seq(Trees) /\ m \in Nat /\ 1 <= m /\ Len(q) = m + m
  BY <1>2 DEF Mirrored
<1>4. Len(q) % 2 = 0
  <2>1. (m + m) % 2 = 0
    BY <1>3
  <2> QED
    BY <1>3, <2>1
<1>5. ASSUME NEW k \in 1 .. m PROVE Meaning(q[k]) = Meaning(q[m + k])
  <2>1. m + k \in 1 .. m + m
    BY <1>3
  <2>2. PICK t : t = q[m + k]
    OBVIOUS
  <2>3. t \in Seq(Nodes)
    BY <1>3, <2>1, <2>2, TreesAreSeqs
  <2>4. q[k] = Meaning(t)
    BY <1>2, <2>2 DEF Mirrored
  <2>5. Meaning(Meaning(t)) = Meaning(t)
    BY <2>3, MeaningIsIdempotent
  <2> QED
    BY <2>2, <2>4, <2>5
<1> QED
  BY <1>1, <1>4, <1>5 DEF Parallel

(***************************************************************************)
(* HalvesStayParallel, for any shapes, any trigger and any bug.            *)
(***************************************************************************)
THEOREM HalvesAreParallel == Spec => []HalvesStayParallel
<1>1. HalvesInv => HalvesStayParallel
  <2> SUFFICES ASSUME HalvesInv, reducedUntransformed
               PROVE  /\ newClauses # << >> => Parallel(newClauses)
                      /\ pc # "run" /\ pc # "failed" => Parallel(reducedClauses)
    BY DEF HalvesStayParallel
  <2>1. Parallel(newClauses)
    BY MirroredIsParallel DEF HalvesInv
  <2>2. pc # "run" /\ pc # "failed" => Parallel(reducedClauses)
    BY MirroredIsParallel DEF HalvesInv, Well
  <2> QED
    BY <2>1, <2>2
<1> QED
  BY <1>1, HalvesAreKept, PTL

-----------------------------------------------------------------------------
(* Bugs of the transformed phase. *)

(* The second half that the next verdict is going to keep.                 *)
KeptHalf ==
  SecondHalf(IF pc = "run" /\ Shows(SecondHalf(newClauses), trigger)
               THEN newClauses ELSE reducedClauses)

PassIsOver == (pc = "run" /\ isDone) \/ pc \in {"report", "done"}

(* h got smaller since the last pass ended with p, or a step of this one   *)
(* was in vain for everything that it is done with.                        *)
ComparedWith(h, p) ==
  /\ Halves(p, statementIndex + 1) /\ Smaller(h, SecondHalf(p))
  /\ h = SecondHalf(p) =>
       /\ PassIsOver => AllNeeded(h)
       /\ ~PassIsOver => Tried(h)

PassInv ==
  /\ bug[2] = "transformed"
  /\ ~reducedUntransformed => prevStatements = << >>
  /\ (reducedUntransformed /\ pc # "failed") =>
       /\ Shows(KeptHalf, trigger)
       /\ (pc = "run" /\ isDone) => newClauses = reducedClauses /\ Fresh
       /\ (pc \in {"report", "done"} /\ fullReduction) => prevStatements = reducedClauses
       /\ prevStatements # << >> => ComparedWith(KeptHalf, prevStatements)

LEMMA SameNeeds ==
  ASSUME NEW h, UNCHANGED trigger
  PROVE  /\ AllNeeded(h) => AllNeeded(h)'
         /\ UNCHANGED ctx => (Tried(h) => Tried(h)') /\ (Fresh => Fresh')
<1>1. AllNeeded(h) => AllNeeded(h)'
  BY DEF AllNeeded
<1>2. ASSUME UNCHANGED ctx PROVE UNCHANGED <<startingCtx, transformationsCtx, clausesCtx>>
  BY <1>2 DEF ctx
<1>3. UNCHANGED ctx => (Tried(h) => Tried(h)')
  BY <1>2, OtherPhases DEF Tried
<1>4. UNCHANGED ctx => (Fresh => Fresh')
  BY <1>2 DEF Fresh, startingCtx, transformationsCtx, clausesCtx
<1> QED
  BY <1>1, <1>3, <1>4

LEMMA HalfOf ==
  ASSUME NEW q, NEW n, Halves(q, n)
  PROVE  SecondHalf(q) \in Seq(Trees) /\ q # << >>
<1>1. PICK m : m = Half(q)
  OBVIOUS
<1>2. Mirrored(q, m, n)
  BY <1>1 DEF Halves
<1>3. m \in Nat /\ 1 <= m /\ Len(q) = m + m
  BY <1>2 DEF Mirrored
<1>4. Len(<< >>) = 0 /\ m + m # 0
  BY <1>3, EmptySeq
<1> QED
  BY <1>2, <1>3, <1>4, MirroredShape

LEMMA FirstStepOfPass ==
  ASSUME HalvesInv, PassInv, RemoveUntransformed, UNCHANGED origin
  PROVE  PassInv'
<1>1. newClauses' = FirstProposal /\ HalvesInv'
  BY RemoveUntransformedKeepsHalves
<1>2. ~reducedUntransformed /\ reducedUntransformed' = TRUE
  BY DEF RemoveUntransformed
<1>3. /\ pc' = "run" /\ isDone' = FALSE /\ UNCHANGED <<prevStatements, trigger>>
  BY DEF RemoveUntransformed, Propose
<1>4. Shows(SecondHalf(FirstProposal), trigger)
  BY <1>2 DEF HalvesInv, Accepted
<1>5. PICK s : s = FirstProposal
  OBVIOUS
<1>6. newClauses' = s /\ Shows(SecondHalf(s), trigger) /\ trigger' = trigger
  BY <1>1, <1>3, <1>4, <1>5
<1>7. Shows(SecondHalf(newClauses), trigger)'
  BY <1>6
<1>8. Shows(KeptHalf, trigger)'
  BY <1>3, <1>7 DEF KeptHalf
<1>9. prevStatements' = << >>
  BY <1>2, <1>3 DEF PassInv
<1> QED
  BY <1>2, <1>3, <1>8, <1>9 DEF PassInv, origin

LEMMA PassStepKeepsPass ==
  ASSUME HalvesInv, PassInv, PassStep, UNCHANGED origin
  PROVE  PassInv'
<1>0. /\ HalvesInv' /\ reducedUntransformed /\ reducedUntransformed' /\ pc = "step"
      /\ \E s : s = newClauses' /\ Propose(s, FALSE) /\ PassGoesOn(reducedClauses, s)
  BY PassStepKeepsHalves
<1>1. PICK q, s, p, n : /\ q = reducedClauses /\ s = newClauses' /\ p = prevStatements
                        /\ n = statementIndex + 1
                        /\ Propose(s, FALSE) /\ PassGoesOn(q, s)
  BY <1>0
<1>2. /\ HalvesInv' /\ reducedUntransformed /\ reducedUntransformed' /\ pc = "step"
      /\ Propose(s, FALSE) /\ PassGoesOn(q, s)
  BY <1>0, <1>1
<1>3. /\ pc' = "run" /\ isDone' = FALSE
      /\ UNCHANGED <<reducedClauses, prevStatements, trigger>>
  BY <1>2 DEF Propose
<1>4. PICK g, f : g = SecondHalf(q) /\ f = SecondHalf(s)
  OBVIOUS
<1>5. Halves(q, n) /\ n = (statementIndex + 1)' /\ Halves(s, n)
  <2>1. Halves(q, n) /\ n = (statementIndex + 1)'
    BY <1>1, <1>2 DEF HalvesInv, Well, origin
  <2>2. Halves(newClauses, statementIndex + 1)'
    BY <1>2 DEF HalvesInv
  <2> QED
    BY <1>1, <2>1, <2>2
<1>6. g \in Seq(Trees) /\ f \in Seq(Trees)
  BY <1>4, <1>5, HalfOf
<1>7. KeptHalf = g
  BY <1>1, <1>2, <1>4 DEF KeptHalf
<1>8. Shows(g, trigger) /\ (p # << >> => ComparedWith(g, p))
  BY <1>1, <1>2, <1>7 DEF PassInv
<1>9. PICK e : e = IF Shows(f, trigger) THEN f ELSE g
  OBVIOUS
<1>10. KeptHalf' = e
  <2>1. q = reducedClauses' /\ s = newClauses' /\ trigger' = trigger
    BY <1>1, <1>3
  <2>2. Shows(SecondHalf(newClauses), trigger)' = Shows(f, trigger)
    BY <1>4, <2>1
  <2> QED
    BY <1>3, <1>4, <1>9, <2>1, <2>2 DEF KeptHalf
<1>11. Shows(e, trigger) /\ e \in Seq(Trees) /\ (e = f \/ e = g)
  BY <1>6, <1>8, <1>9
<1>12. Smaller(f, g)
  BY <1>2, <1>4 DEF PassGoesOn
<1>13. Smaller(e, g)
  BY <1>6, <1>11, <1>12, SmallerIsReflexive
<1>14. ~PassIsOver /\ ~PassIsOver'
  BY <1>2, <1>3 DEF PassIsOver
<1>15. ASSUME p # << >> PROVE ComparedWith(e, p)'
  <2>1. PICK h : h = SecondHalf(p)
    OBVIOUS
  <2>2. Halves(p, n) /\ Smaller(g, h) /\ (g = h => Tried(g))
    BY <1>1, <1>8, <1>14, <1>15, <2>1 DEF ComparedWith
  <2>3. h \in Seq(Trees)
    BY <2>1, <2>2, HalfOf
  <2>4. Smaller(e, h)
    BY <1>6, <1>11, <1>13, <2>2, <2>3, SmallerIsTransitive
  <2>5. ASSUME e = h PROVE Tried(e)'
    <3>1. Smaller(g, e)
      BY <2>2, <2>5
    <3>2. e = g
      BY <1>6, <1>11, <1>13, <3>1, SmallerIsAntisymmetric
    <3>3. ~Shows(f, trigger) \/ f = g
      BY <1>9, <3>2
    <3>4. Tried(g)
      BY <2>2, <2>5, <3>2
    <3>5. Tried(g)'
      BY <1>2, <1>4, <3>3, <3>4 DEF PassGoesOn
    <3> QED
      BY <3>2, <3>5
  <2>6. Halves(p, statementIndex + 1)'
    BY <1>5, <2>2
  <2> QED
    BY <1>14, <2>1, <2>4, <2>5, <2>6 DEF ComparedWith
<1>16. /\ Shows(KeptHalf, trigger)'
       /\ (prevStatements # << >> => ComparedWith(KeptHalf, prevStatements))'
  <2>1. p = prevStatements' /\ trigger' = trigger
    BY <1>1, <1>3
  <2> QED
    BY <1>10, <1>11, <1>15, <2>1
<1>17. bug'[2] = "transformed"
  BY DEF PassInv, origin
<1> QED
  BY <1>2, <1>3, <1>16, <1>17 DEF PassInv

LEMMA FinishPassKeepsPass ==
  ASSUME HalvesInv, PassInv, FinishPass, UNCHANGED origin
  PROVE  PassInv'
<1>1. PICK q, p, g : q = reducedClauses /\ p = prevStatements /\ g = SecondHalf(q)
  OBVIOUS
<1>2. /\ reducedUntransformed /\ pc = "step" /\ Fresh'
      /\ reducedStarting /\ reducedTransformations /\ reducedEquivalenceClauses
      /\ pc' = "run" /\ isDone' = TRUE /\ newClauses' = q
      /\ UNCHANGED <<reducedUntransformed, reducedClauses, prevStatements, trigger>>
  BY <1>1, FinishPassKeepsHalves DEF FinishPass, ResetContext, Propose
<1>3. KeptHalf = g
  BY <1>1, <1>2 DEF KeptHalf
<1>4. KeptHalf' = g
  BY <1>1, <1>2 DEF KeptHalf
<1>5. Shows(g, trigger) /\ (p # << >> => ComparedWith(g, p))
  BY <1>1, <1>2, <1>3 DEF PassInv
<1>6. ~PassIsOver /\ PassIsOver'
  BY <1>2 DEF PassIsOver
<1>7. ASSUME p # << >> PROVE ComparedWith(g, p)'
  <2>1. /\ Halves(p, statementIndex + 1) /\ Smaller(g, SecondHalf(p))
        /\ (g = SecondHalf(p) => Tried(g))
    BY <1>5, <1>6, <1>7 DEF ComparedWith
  <2>2. ASSUME g = SecondHalf(p) PROVE AllNeeded(g)'
    <3>1. AllNeeded(g)
      BY <1>2, <2>1, <2>2, PassEnds
    <3> QED
      BY <1>2, <3>1, SameNeeds
  <2>3. Halves(p, statementIndex + 1)'
    BY <2>1 DEF origin
  <2> QED
    BY <1>6, <2>1, <2>2, <2>3 DEF ComparedWith
<1>8. /\ Shows(KeptHalf, trigger)'
      /\ (prevStatements # << >> => ComparedWith(KeptHalf, prevStatements))'
  <2>1. p = prevStatements' /\ trigger' = trigger
    BY <1>1, <1>2
  <2> QED
    BY <1>4, <1>5, <1>7, <2>1
<1>9. bug'[2] = "transformed"
  BY DEF PassInv, origin
<1>10. (newClauses = reducedClauses)'
  BY <1>1, <1>2
<1> QED
  BY <1>2, <1>8, <1>9, <1>10 DEF PassInv

(* Where the bug is one of the transformed phase, every verdict is exact.  *)
LEMMA VerdictIsExact ==
  ASSUME HalvesInv, bug[2] = "transformed", pc = "run"
  PROVE  ValidateReductionResult(newClauses) <=> Shows(SecondHalf(newClauses), trigger)
<1>1. Judged(newClauses)
  BY DEF Judged
<1> QED
  BY <1>1, ProposalIsJudged

LEMMA ValidateKeepsPass ==
  ASSUME HalvesInv, PassInv, Validate
  PROVE  PassInv'
<1>1. PICK q, s, p, n : q = reducedClauses /\ s = newClauses /\ p = prevStatements
                        /\ n = statementIndex + 1
  OBVIOUS
<1>2. /\ pc = "run" /\ UNCHANGED <<newClauses, isDone, fullReduction, trigger, origin, ctx>>
      /\ reducedClauses' = IF ValidateReductionResult(s) THEN s ELSE q
      /\ \/ ~isDone /\ pc' = "step" /\ prevStatements' = p
         \/ isDone /\ Repeats /\ pc' = "step" /\ prevStatements' = s
         \/ isDone /\ ~Repeats /\ pc' = "report" /\ prevStatements' = p
  BY <1>1 DEF Validate, RunProposal
<1>3. reducedUntransformed /\ Halves(s, n)
  BY <1>1, <1>2, ProposalIsJudged
<1>4. ValidateReductionResult(s) <=> Shows(SecondHalf(s), trigger)
  BY <1>1, <1>2, VerdictIsExact DEF PassInv
<1>5. PICK e : e = KeptHalf
  OBVIOUS
<1>6. PICK r : r = IF Shows(SecondHalf(s), trigger) THEN s ELSE q
  OBVIOUS
<1>7. e = SecondHalf(r)
  BY <1>1, <1>2, <1>5, <1>6 DEF KeptHalf
<1>8. reducedClauses' = r
  BY <1>2, <1>4, <1>6
<1>9. KeptHalf' = e
  BY <1>2, <1>7, <1>8 DEF KeptHalf
<1>10. /\ Shows(e, trigger) /\ (isDone => s = q /\ Fresh)
       /\ (p # << >> => ComparedWith(e, p))
  BY <1>1, <1>2, <1>3, <1>5 DEF PassInv
<1>11. /\ AllNeeded(e) => AllNeeded(e)'
       /\ (Tried(e) => Tried(e)') /\ (Fresh => Fresh')
  BY <1>2, SameNeeds
<1>12. n = (statementIndex + 1)'
  BY <1>1, <1>2 DEF origin
<1>13. (p # << >> /\ PassIsOver' = PassIsOver) => ComparedWith(e, p)'
  BY <1>1, <1>10, <1>11, <1>12 DEF ComparedWith
<1>14. (PassIsOver <=> isDone)
  BY <1>2 DEF PassIsOver
<1>15. Shows(KeptHalf, trigger)'
  BY <1>2, <1>9, <1>10
<1>16. bug'[2] = "transformed" /\ reducedUntransformed' = reducedUntransformed
  BY <1>2 DEF PassInv, origin, ctx
<1>17. CASE ~isDone
  <2>1. pc' = "step" /\ prevStatements' = p
    BY <1>2, <1>17
  <2>2. PassIsOver' = PassIsOver
    BY <1>14, <1>17, <2>1 DEF PassIsOver
  <2>3. (prevStatements # << >> => ComparedWith(KeptHalf, prevStatements))'
    BY <1>9, <1>13, <2>1, <2>2
  <2> QED
    BY <1>3, <1>15, <1>16, <2>1, <2>3 DEF PassInv
<1>18. CASE isDone /\ Repeats
  <2>1. pc' = "step" /\ prevStatements' = s
    BY <1>2, <1>18
  <2>2. s = q /\ r = s /\ e = SecondHalf(s)
    BY <1>6, <1>7, <1>10, <1>18
  <2>3. Tried(e)'
    <3>1. Fresh'
      BY <1>10, <1>11, <1>18
    <3>2. Fresh => Tried(e)
      BY PassBegins
    <3>3. Tried(e)
      BY <1>10, <1>18, <3>2
    <3> QED
      BY <1>11, <3>3
  <2>4. ~PassIsOver'
    BY <2>1 DEF PassIsOver
  <2>5. Smaller(e, SecondHalf(s))
    BY <1>3, <2>2, HalfOf, SmallerIsReflexive
  <2>6. Halves(s, statementIndex + 1)'
    BY <1>3, <1>12
  <2>7. ComparedWith(e, s)'
    BY <2>3, <2>4, <2>5, <2>6 DEF ComparedWith
  <2>8. ComparedWith(KeptHalf, prevStatements)'
    BY <1>9, <2>1, <2>7
  <2> QED
    BY <1>3, <1>15, <1>16, <2>1, <2>8 DEF PassInv
<1>19. CASE isDone /\ ~Repeats
  <2>1. pc' = "report" /\ prevStatements' = p
    BY <1>2, <1>19
  <2>2. s = q /\ r = s
    BY <1>6, <1>10, <1>19
  <2>3. fullReduction => p = s
    BY <1>1, <1>19 DEF Repeats
  <2>4. (fullReduction => prevStatements = reducedClauses)'
    BY <1>2, <1>8, <2>1, <2>2, <2>3
  <2>5. PassIsOver' = PassIsOver
    BY <1>14, <1>19, <2>1 DEF PassIsOver
  <2>6. (prevStatements # << >> => ComparedWith(KeptHalf, prevStatements))'
    BY <1>9, <1>13, <2>1, <2>5
  <2> QED
    BY <1>3, <1>15, <1>16, <2>1, <2>4, <2>6 DEF PassInv
<1> QED
  BY <1>2, <1>17, <1>18, <1>19

LEMMA LastStepsKeepPass ==
  ASSUME PassInv, HalvesInv, Fail \/ Report \/ UNCHANGED vars
  PROVE  PassInv'
<1>1. UNCHANGED <<newClauses, reducedClauses, prevStatements, isDone, fullReduction, trigger,
                  origin, ctx>>
  BY DEF Fail, RunFails, Report, CreateBugreport, vars, loopVars
<1>2. bug'[2] = "transformed" /\ reducedUntransformed' = reducedUntransformed
  BY <1>1 DEF PassInv, origin, ctx
<1>3. CASE pc' = "failed"
  BY <1>1, <1>2, <1>3 DEF PassInv
<1>4. CASE ~reducedUntransformed
  BY <1>1, <1>2, <1>4 DEF PassInv
<1>5. CASE pc' # "failed" /\ reducedUntransformed
  <2>1. pc' = pc \/ (pc = "report" /\ pc' = "done")
    BY <1>5 DEF Fail, RunFails, Report, CreateBugreport, vars, loopVars
  <2>2. pc # "failed"
    BY <1>5, <2>1
  <2>3. PICK e, p, n : e = KeptHalf /\ p = prevStatements /\ n = statementIndex + 1
    OBVIOUS
  <2>4. e = KeptHalf' /\ p = prevStatements' /\ n = (statementIndex + 1)'
    BY <1>1, <2>1, <2>3 DEF KeptHalf, origin
  <2>5. PassIsOver' <=> PassIsOver
    BY <1>1, <2>1 DEF PassIsOver
  <2>6. /\ Shows(e, trigger) /\ (p # << >> => ComparedWith(e, p))
        /\ (pc = "run" /\ isDone) => newClauses = reducedClauses /\ Fresh
        /\ (pc \in {"report", "done"} /\ fullReduction) => p = reducedClauses
    BY <1>5, <2>2, <2>3 DEF PassInv
  <2>7. /\ AllNeeded(e) => AllNeeded(e)'
        /\ (Tried(e) => Tried(e)') /\ (Fresh => Fresh')
    BY <1>1, SameNeeds
  <2>8. ComparedWith(e, p) => ComparedWith(e, p)'
    BY <2>3, <2>4, <2>5, <2>7 DEF ComparedWith
  <2>9. /\ Shows(KeptHalf, trigger)'
        /\ (prevStatements # << >> => ComparedWith(KeptHalf, prevStatements))'
    BY <1>1, <2>4, <2>6, <2>8
  <2>10. /\ (pc' = "run" /\ isDone') => newClauses' = reducedClauses' /\ Fresh'
         /\ (pc' \in {"report", "done"} /\ fullReduction') => prevStatements' = reducedClauses'
    BY <1>1, <2>1, <2>3, <2>6, <2>7
  <2> QED
    BY <1>2, <1>5, <2>9, <2>10 DEF PassInv
<1> QED
  BY <1>3, <1>4, <1>5

(***************************************************************************)
(* In every behaviour with a bug of the transformed phase, a pass that     *)
(* changed nothing has tried everything in vain.                           *)
(***************************************************************************)
THEOREM PassesAreExact == bug[2] = "transformed" /\ Spec => []PassInv
<1>1. Init /\ bug[2] = "transformed" => PassInv
  BY DEF Init, RegeneratedQuery, LoopInit, PassInv
<1>2. PassInv /\ HalvesInv /\ [Next]_vars => PassInv'
  <2> SUFFICES ASSUME PassInv, HalvesInv, [Next]_vars PROVE PassInv'
    OBVIOUS
  <2>1. CASE ReduceStep
    <3>1. CASE RemoveUntransformed
      BY <2>1, <3>1, FirstStepOfPass DEF ReduceStep
    <3>2. CASE PassStep
      BY <2>1, <3>2, PassStepKeepsPass DEF ReduceStep
    <3>3. CASE FinishPass
      BY <2>1, <3>3, FinishPassKeepsPass DEF ReduceStep
    <3>4. RemoveUntransformed \/ PassStep \/ FinishPass
      BY <2>1 DEF ReduceStep, PassStep
    <3> QED
      BY <3>1, <3>2, <3>3, <3>4
  <2>2. CASE Validate
    BY <2>2, ValidateKeepsPass
  <2>3. CASE Fail \/ Report \/ UNCHANGED vars
    BY <2>3, LastStepsKeepPass
  <2> QED
    BY <2>1, <2>2, <2>3 DEF Next
<1> QED
  BY <1>1, <1>2, HalvesAreKept, PTL DEF Spec

(***************************************************************************)
(* ValidationIsExact, for any shapes and any trigger, where the bug is one *)
(* of the transformed phase.                                               *)
(***************************************************************************)
THEOREM ValidationJudgesTrigger == bug[2] = "transformed" /\ Spec => ValidationIsExact
<1>1. PassInv /\ HalvesInv /\ [Next]_vars =>
        [Validate => (reducedClauses' = newClauses <=> Triggered(SecondHalf(newClauses)))]_vars
  <2> SUFFICES ASSUME PassInv, HalvesInv, Validate
               PROVE  reducedClauses' = newClauses <=> Triggered(SecondHalf(newClauses))
    OBVIOUS
  <2>1. PICK s, q : s = newClauses /\ q = reducedClauses
    OBVIOUS
  <2>2. pc = "run" /\ reducedClauses' = IF ValidateReductionResult(s) THEN s ELSE q
    BY <2>1 DEF Validate, RunProposal
  <2>3. ValidateReductionResult(s) <=> Shows(SecondHalf(s), trigger)
    BY <2>1, <2>2, VerdictIsExact DEF PassInv
  <2>4. Triggered(SecondHalf(s)) <=> Shows(SecondHalf(s), trigger)
    BY DEF Triggered, Shows
  <2>5. ~Shows(SecondHalf(s), trigger) => q # s
    <3>1. reducedUntransformed
      BY <2>2, ProposalIsJudged
    <3>2. Shows(KeptHalf, trigger)
      BY <2>2, <3>1 DEF PassInv
    <3> QED
      BY <2>1, <3>2 DEF KeptHalf
  <2> QED
    BY <2>1, <2>2, <2>3, <2>4, <2>5
<1> QED
  BY <1>1, PassesAreExact, HalvesAreKept, PTL DEF Spec, ValidationIsExact

(***************************************************************************)
(* FullReductionIsComplete, for any shapes and any trigger, where the bug  *)
(* is one of the transformed phase.                                        *)
(***************************************************************************)
THEOREM FullReductionLeavesNothing ==
  bug[2] = "transformed" /\ Spec => []FullReductionIsComplete
<1>1. PassInv /\ HalvesInv => FullReductionIsComplete
  <2> SUFFICES ASSUME PassInv, HalvesInv, pc = "done", fullReduction
               PROVE  FullReductionIsComplete
    BY DEF FullReductionIsComplete
  <2>1. PICK q, h : q = reducedClauses /\ h = SecondHalf(q)
    OBVIOUS
  <2>2. reducedUntransformed /\ Halves(q, statementIndex + 1)
    BY <2>1 DEF HalvesInv, Well
  <2>3. h = KeptHalf
    BY <2>1 DEF KeptHalf
  <2>4. prevStatements = q /\ q # << >>
    BY <2>1, <2>2, HalfOf DEF PassInv
  <2>5. ComparedWith(h, q)
    BY <2>2, <2>3, <2>4 DEF PassInv
  <2>6. AllNeeded(h)
    BY <2>1, <2>5 DEF ComparedWith, PassIsOver
  <2>7. h \in Seq(Trees) /\ DOMAIN h = 1 .. Len(h)
    BY <2>1, <2>2, HalfOf, TreesAreSeqs
  <2>8. \A k \in 1 .. Len(h) - 1 : ~Triggered(WithoutStatement(h, k))
    BY <2>6 DEF AllNeeded, Needed, Shows, Triggered
  <2>9. \A k \in 1 .. Len(h) : \A i \in InUse(h[k]) :
          ~Triggered([h EXCEPT ![k][i].use = "flipped"])
    BY <2>6 DEF AllNeeded, FormNeeded, Shows, Triggered
  <2>10. \A k \in 1 .. Len(h) : \A i \in Common(h[k]) :
           h[k][i].kind # "empty" => ~Triggered([h EXCEPT ![k] = Reduced(h[k], i)])
    BY <2>6 DEF AllNeeded, ClauseNeeded, Shows, Triggered
  <2> QED
    BY <2>1, <2>7, <2>8, <2>9, <2>10 DEF FullReductionIsComplete
<1> QED
  BY <1>1, PassesAreExact, HalvesAreKept, PTL
=============================================================================
