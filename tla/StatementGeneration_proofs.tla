--------------------- MODULE StatementGeneration_proofs ---------------------
(***************************************************************************)
(* Proofs about StatementGeneration, for every limit on AST nodes, every   *)
(* byte string and every choice of clauses.                                *)
(*                                                                         *)
(* Each call of generateStatement hands on what is left of its limit.  As  *)
(* many calls were made as the nodes that the innermost call has counted,  *)
(* and those that its limit lacks of MaxASTNodes: what the outer calls     *)
(* counted needs no sum, their limits tell it.                             *)
(*                                                                         *)
(* Copies and updated capturers leave capturers behind that nothing refers *)
(* to.  Those in use are a forest, in which each capturer is above those   *)
(* it refers to and no two refer to the same one.  What a capturer in use  *)
(* keeps is what those below it keep and its own name, unless a call that  *)
(* generates it already knows of a change below it; and what each call has *)
(* written so far is what the subclauses that it has been through keep.    *)
(* So a call without a change ends with what its capturer kept.            *)
(***************************************************************************)
EXTENDS StatementGeneration, SequenceTheorems, FiniteSetTheorems, NaturalsInduction,
        WellFoundedInduction, TLAPS

IsList(s) == \E S : s \in Seq(S)

(* A call, with a limit that its nodes are within. *)
IsCall(c) ==
  /\ c = [capturer |-> c.capturer, max |-> c.max, nodes |-> c.nodes, next |-> c.next,
          start |-> c.start, drawn |-> c.drawn, clean |-> c.clean, imports |-> c.imports]
  /\ c.max \in Nat /\ c.nodes \in 1 .. c.max /\ c.next \in Nat
  /\ c.next = 0 => c.nodes = 1

(* A stack of calls, the innermost of which is the call of this number. *)
IsStack(cs, limit, number) ==
  /\ IsList(cs) /\ cs # << >>
  /\ \A k \in 1 .. Len(cs) : IsCall(cs[k])
  /\ cs[1].max = limit
  /\ \A k \in 1 .. Len(cs) - 1 : cs[k + 1].max = cs[k].max - cs[k].nodes
  /\ number = limit - cs[Len(cs)].max + cs[Len(cs)].nodes

(* The limit of the statement: only fuzzing has one. *)
Limit == IF phase = "fuzz" THEN MaxASTNodes ELSE Unlimited

IInv ==
  \/ outcome = "generating" /\ IsStack(calls, Limit, entered)
  \/ /\ calls = << >> /\ entered \in 1 .. Limit
     /\ \/ outcome = "generated" /\ entered < Limit
        \/ outcome = "failed" /\ entered = Limit

LEMMA LimitIsNat ==
  Limit \in Nat \ {0}
BY StatementGenerationAssumption DEF Limit, Unlimited

LEMMA ListProperties ==
  ASSUME NEW s, IsList(s)
  PROVE  /\ Len(s) \in Nat /\ DOMAIN s = 1 .. Len(s)
         /\ s # << >> => Len(s) \in 1 .. Len(s) /\ 1 \in 1 .. Len(s)
         /\ \A x : /\ IsList(Append(s, x)) /\ Len(Append(s, x)) = Len(s) + 1
                   /\ Append(s, x)[Len(s) + 1] = x
                   /\ \A k \in 1 .. Len(s) : Append(s, x)[k] = s[k]
<1>1. PICK S : s \in Seq(S)
  BY DEF IsList
<1>2. /\ Len(s) \in Nat /\ DOMAIN s = 1 .. Len(s)
      /\ s # << >> => Len(s) \in 1 .. Len(s) /\ 1 \in 1 .. Len(s)
  BY <1>1, LenProperties, EmptySeq
<1>3. ASSUME NEW x
      PROVE  /\ IsList(Append(s, x)) /\ Len(Append(s, x)) = Len(s) + 1
             /\ Append(s, x)[Len(s) + 1] = x
             /\ \A k \in 1 .. Len(s) : Append(s, x)[k] = s[k]
  <2>1. PICK T : T = S \cup {x}
    OBVIOUS
  <2>2. s \in Seq(T) /\ x \in T
    BY <1>1, <2>1, SeqMonotonic
  <2> QED
    BY <2>2, AppendProperties DEF IsList
<1> QED
  BY <1>2, <1>3

(* t is s with x in the place i. *)
Changed(s, i, x, t) ==
  /\ IsList(t) /\ Len(t) = Len(s)
  /\ \A k \in 1 .. Len(s) : t[k] = IF k = i THEN x ELSE s[k]

LEMMA ListExcept ==
  ASSUME NEW s, IsList(s), NEW i \in 1 .. Len(s), NEW x
  PROVE  Changed(s, i, x, [s EXCEPT ![i] = x])
<1>1. PICK S : s \in Seq(S)
  BY DEF IsList
<1>2. PICK T : T = S \cup {x}
  OBVIOUS
<1>3. s \in Seq(T) /\ x \in T
  BY <1>1, <1>2, SeqMonotonic
<1>4. /\ [s EXCEPT ![i] = x] \in Seq(T) /\ Len([s EXCEPT ![i] = x]) = Len(s)
      /\ \A k \in 1 .. Len(s) : [s EXCEPT ![i] = x][k] = IF k = i THEN x ELSE s[k]
  BY <1>3, ExceptSeq
<1> QED
  BY <1>4 DEF IsList, Changed

(* The calls but the innermost. *)
LEMMA OuterCalls ==
  ASSUME NEW s, IsList(s), s # << >>, NEW o, o = SubSeq(s, 1, Len(s) - 1)
  PROVE  /\ IsList(o) /\ Len(o) = Len(s) - 1 /\ \A k \in 1 .. Len(s) - 1 : o[k] = s[k]
         /\ o = << >> <=> Len(s) = 1
<1>1. PICK S : s \in Seq(S)
  BY DEF IsList
<1>2. Len(s) \in Nat /\ Len(s) >= 1
  BY <1>1, LenProperties, EmptySeq
<1>3. \A k \in 1 .. Len(s) - 1 : s[k] \in S
  BY <1>1, <1>2, ElementOfSeq
<1>4. /\ o \in Seq(S)
      /\ Len(o) = IF 1 <= Len(s) - 1 THEN (Len(s) - 1) - 1 + 1 ELSE 0
      /\ \A k \in 1 .. (Len(s) - 1) - 1 + 1 : o[k] = s[1 + k - 1]
  BY <1>2, <1>3, SubSeqProperties
<1>5. PICK n : n = Len(s)
  OBVIOUS
<1>8. n \in Nat /\ n >= 1 /\ (n - 1) - 1 + 1 = n - 1 /\ \A k \in 1 .. n - 1 : 1 + k - 1 = k
  BY <1>2, <1>5
<1>9. Len(o) = IF 1 <= n - 1 THEN n - 1 ELSE 0
  BY <1>4, <1>5, <1>8
<1>10. Len(o) = n - 1
  BY <1>8, <1>9
<1>6. \A k \in 1 .. n - 1 : o[k] = s[k]
  BY <1>4, <1>5, <1>8
<1>7. o = << >> <=> Len(s) = 1
  <2>1. o = << >> <=> Len(o) = 0
    BY <1>4, EmptySeq
  <2>2. n - 1 = 0 <=> n = 1
    BY <1>8
  <2> QED
    BY <1>5, <1>10, <2>1, <2>2
<1> QED
  BY <1>4, <1>5, <1>6, <1>7, <1>10 DEF IsList

-----------------------------------------------------------------------------
(* A call that was not made before. *)
LEMMA NewCall ==
  ASSUME NEW i, NEW max \in Nat \ {0}
  PROVE  IsCall(Call(i, max)) /\ Call(i, max).max = max /\ Call(i, max).nodes = 1
BY DEF IsCall, Call

(* A statement is begun. *)
LEMMA FirstCall ==
  ASSUME NEW i, NEW limit \in Nat \ {0}
  PROVE  IsStack(<< Call(i, limit) >>, limit, 1)
<1>1. PICK c : c = Call(i, limit)
  OBVIOUS
<1>2. IsCall(c) /\ c.max = limit /\ c.nodes = 1
  BY <1>1, NewCall
<1>3. << c >> \in Seq({c}) /\ Len(<< c >>) = 1 /\ << c >>[1] = c /\ << c >> # << >>
  OBVIOUS
<1>4. PICK t : t = << c >>
  OBVIOUS
<1>5. IsList(t) /\ Len(t) = 1 /\ t[1] = c /\ t # << >>
  BY <1>3, <1>4 DEF IsList
<1>6. (\A k \in 1 .. 1 : k = 1) /\ (\A k \in 1 .. 1 - 1 : FALSE)
  OBVIOUS
<1>7. 1 = limit - limit + 1
  OBVIOUS
<1>8. IsStack(t, limit, 1)
  BY <1>2, <1>5, <1>6, <1>7 DEF IsStack
<1> QED
  BY <1>1, <1>4, <1>8

(* The innermost call goes on, with the nodes it has. *)
LEMMA SameNodes ==
  ASSUME NEW s, NEW limit \in Nat, NEW number, IsStack(s, limit, number), NEW c, IsCall(c),
         c.max = s[Len(s)].max, c.nodes = s[Len(s)].nodes,
         NEW t, IsList(t), Len(t) = Len(s), t[Len(s)] = c,
         \A k \in 1 .. Len(s) - 1 : t[k] = s[k]
  PROVE  IsStack(t, limit, number)
<1>1. PICK n : n = Len(s)
  OBVIOUS
<1>2. n \in Nat /\ n >= 1 /\ n \in 1 .. n
  BY <1>1, ListProperties DEF IsStack
<1>3. ASSUME NEW k \in 1 .. n
      PROVE  IsCall(t[k]) /\ t[k].max = s[k].max /\ t[k].nodes = s[k].nodes
  <2>1. k = n \/ k \in 1 .. n - 1
    BY <1>2
  <2> QED
    BY <1>1, <2>1 DEF IsStack
<1>4. \A k \in 1 .. n - 1 : k \in 1 .. n /\ k + 1 \in 1 .. n
  BY <1>2
<1>5. \A k \in 1 .. n - 1 : t[k + 1].max = t[k].max - t[k].nodes
  BY <1>1, <1>3, <1>4 DEF IsStack
<1>6. t # << >> /\ 1 \in 1 .. n
  BY <1>1, <1>2, EmptySeq
<1> QED
  BY <1>1, <1>2, <1>3, <1>5, <1>6 DEF IsStack

(* A call makes another one, under what is left of its limit. *)
LEMMA DeeperCall ==
  ASSUME NEW s, NEW limit \in Nat, NEW number, IsStack(s, limit, number), NEW i,
         s[Len(s)].nodes < s[Len(s)].max,
         NEW t, t = Append(s, Call(i, s[Len(s)].max - s[Len(s)].nodes))
  PROVE  IsStack(t, limit, number + 1)
<1>1. PICK n, top, c : n = Len(s) /\ top = s[n] /\ c = Call(i, top.max - top.nodes)
  OBVIOUS
<1>2. n \in Nat /\ n >= 1 /\ n \in 1 .. n /\ IsList(s)
  BY <1>1, ListProperties DEF IsStack
<1>3. IsCall(top)
  BY <1>1, <1>2 DEF IsStack
<1>4. PICK max, nodes : max = top.max /\ nodes = top.nodes
  OBVIOUS
<1>5. max \in Nat /\ nodes \in 1 .. max /\ nodes < max
  BY <1>1, <1>3, <1>4 DEF IsCall
<1>6. max - nodes \in Nat \ {0} /\ max - nodes \in Nat
  BY <1>5
<1>7. IsCall(c) /\ c.max = max - nodes /\ c.nodes = 1
  BY <1>1, <1>4, <1>6, NewCall
<1>8. t = Append(s, c)
  BY <1>1
<1>9. /\ IsList(t) /\ Len(t) = n + 1 /\ t[n + 1] = c
      /\ \A k \in 1 .. n : t[k] = s[k]
  BY <1>1, <1>2, <1>8, ListProperties
<1>10. \A k \in 1 .. n + 1 : IsCall(t[k])
  <2>1. \A k \in 1 .. n + 1 : k = n + 1 \/ k \in 1 .. n
    BY <1>2
  <2> QED
    BY <1>1, <1>7, <1>9, <2>1 DEF IsStack
<1>11. \A k \in 1 .. n : t[k + 1].max = t[k].max - t[k].nodes
  <2>1. \A k \in 1 .. n : k = n \/ (k \in 1 .. n - 1 /\ k + 1 \in 1 .. n)
    BY <1>2
  <2> QED
    BY <1>1, <1>4, <1>7, <1>9, <2>1 DEF IsStack
<1>12. number + 1 = limit - (max - nodes) + 1
  <2>1. number = limit - max + nodes
    BY <1>1, <1>4 DEF IsStack
  <2> QED
    BY <1>5, <2>1
<1>13. t # << >> /\ t[1].max = limit
  <2>1. n + 1 # 0 /\ 1 \in 1 .. n
    BY <1>2
  <2> QED
    BY <1>9, <2>1, EmptySeq DEF IsStack
<1>14. (n + 1) - 1 = n
  BY <1>2
<1> QED
  BY <1>7, <1>9, <1>10, <1>11, <1>12, <1>13, <1>14 DEF IsStack

(* A call returns, with the nodes that it counted, to another one. *)
LEMMA ReturnedCall ==
  ASSUME NEW s, NEW limit \in Nat, NEW number, IsStack(s, limit, number),
         NEW o, o = SubSeq(s, 1, Len(s) - 1), o # << >>,
         NEW e, e = o[Len(o)],
         NEW t, t = [o EXCEPT ![Len(o)] = [e EXCEPT !.nodes = e.nodes + s[Len(s)].nodes,
                                                    !.next = e.next + 1]]
  PROVE  IsStack(t, limit, number)
<1>1. PICK n, top, c : n = Len(s) - 1 /\ top = s[n + 1] /\ c = s[n]
  OBVIOUS
<1>2. IsList(s) /\ s # << >> /\ Len(s) \in Nat /\ Len(s) >= 1
  BY ListProperties DEF IsStack
<1>3. /\ IsList(o) /\ Len(o) = n /\ \A k \in 1 .. n : o[k] = s[k]
      /\ n >= 1 /\ n \in Nat /\ n \in 1 .. n /\ n + 1 = Len(s)
  <2>1. IsList(o) /\ Len(o) = n /\ \A k \in 1 .. n : o[k] = s[k] /\ Len(s) # 1
    BY <1>1, <1>2, OuterCalls
  <2> QED
    BY <1>1, <1>2, <2>1
<1>4. IsCall(top) /\ IsCall(c)
  <2>1. n \in 1 .. Len(s) /\ n + 1 \in 1 .. Len(s)
    BY <1>3
  <2> QED
    BY <1>1, <2>1 DEF IsStack
<1>5. PICK max, nodes, below, next :
        max = c.max /\ nodes = c.nodes /\ below = top.nodes /\ next = c.next
  OBVIOUS
<1>6. top.max = max - nodes
  BY <1>1, <1>3, <1>5 DEF IsStack
<1>7. /\ max \in Nat /\ nodes \in 1 .. max /\ below \in 1 .. max - nodes /\ next \in Nat
  BY <1>4, <1>5, <1>6 DEF IsCall
<1>8. nodes + below \in 1 .. max /\ next + 1 \in Nat /\ next + 1 # 0
  BY <1>7
<1>9. PICK d : d = [c EXCEPT !.nodes = nodes + below, !.next = next + 1]
  OBVIOUS
<1>10. IsCall(d) /\ d.max = max /\ d.nodes = nodes + below
  BY <1>4, <1>5, <1>7, <1>8, <1>9 DEF IsCall
<1>11. t = [o EXCEPT ![n] = d]
  <2>1. o[n] = c /\ Len(o) = n
    BY <1>1, <1>3
  <2>2. e = c /\ s[Len(s)] = top
    BY <1>1, <1>3
  <2>3. t = [o EXCEPT ![n] = [c EXCEPT !.nodes = nodes + below, !.next = next + 1]]
    BY <1>5, <2>1, <2>2
  <2> QED
    BY <1>9, <2>3
<1>12. IsList(t) /\ Len(t) = n /\ \A k \in 1 .. n : t[k] = IF k = n THEN d ELSE s[k]
  <2>1. n \in 1 .. Len(o) /\ IsList(o) /\ Len(o) = n
    BY <1>3
  <2>2. IsList(t) /\ Len(t) = Len(o) /\ \A k \in 1 .. Len(o) : t[k] = IF k = n THEN d ELSE o[k]
    <3>1. Changed(o, n, d, [o EXCEPT ![n] = d])
      BY <2>1, ListExcept
    <3> QED
      BY <1>11, <3>1 DEF Changed
  <2> QED
    BY <1>3, <2>1, <2>2
<1>13. \A k \in 1 .. n : IsCall(t[k])
  <2>1. \A k \in 1 .. n : k \in 1 .. Len(s)
    BY <1>3
  <2> QED
    BY <1>10, <1>12, <2>1 DEF IsStack
<1>14. \A k \in 1 .. n - 1 : t[k + 1].max = t[k].max - t[k].nodes
  <2>1. \A k \in 1 .. n - 1 : k \in 1 .. n /\ k + 1 \in 1 .. n /\ k # n /\ k \in 1 .. Len(s) - 1
    BY <1>3
  <2>2. \A k \in 1 .. n - 1 : t[k] = s[k] /\ t[k + 1].max = s[k + 1].max
    BY <1>1, <1>5, <1>10, <1>12, <2>1
  <2> QED
    BY <2>1, <2>2 DEF IsStack
<1>15. number = limit - max + (nodes + below)
  <2>1. number = limit - (max - nodes) + below
    BY <1>1, <1>3, <1>5, <1>6 DEF IsStack
  <2> QED
    BY <1>7, <2>1
<1>16. t # << >> /\ t[1].max = limit
  <2>1. 1 \in 1 .. n /\ n # 0
    BY <1>3
  <2> QED
    BY <1>1, <1>5, <1>10, <1>12, <2>1, EmptySeq DEF IsStack
<1> QED
  <2>1. t[Len(t)] = d /\ Len(t) = n
    BY <1>3, <1>12
  <2>2. number = limit - t[Len(t)].max + t[Len(t)].nodes
    BY <1>10, <1>15, <2>1
  <2> QED
    BY <1>12, <1>13, <1>14, <1>16, <2>1, <2>2 DEF IsStack

(* Every call keeps its nodes and its limit when a capturer generates. *)
LEMMA GeneratedKeeps ==
  ASSUME NEW imports, IsStack(calls, Limit, entered)
  PROVE  IsStack(Generated(imports), Limit, entered)
<1>1. PICK n, t : n = Len(calls) /\ t = Generated(imports)
  OBVIOUS
<1>2. n \in Nat /\ n \in 1 .. n /\ DOMAIN calls = 1 .. n
  BY <1>1, ListProperties DEF IsStack
<1>3. ASSUME NEW k \in 1 .. n
      PROVE  IsCall(t[k]) /\ t[k].max = calls[k].max /\ t[k].nodes = calls[k].nodes
  <2>1. PICK c, d, v : /\ c = calls[k] /\ v = (c.clean /\ Clause.kept # {})
                       /\ d = IF k < n THEN c
                             ELSE [c EXCEPT !.next = 1, !.start = Len(text), !.drawn = Drawn,
                                            !.imports = imports]
    OBVIOUS
  <2>2. IsCall(c)
    BY <1>1, <2>1 DEF IsStack
  <2>3. k < n \/ k = n
    BY <1>2
  <2>4. IsCall(d) /\ d.max = c.max /\ d.nodes = c.nodes /\ d.clean = c.clean
    <3>1. CASE k < n
      BY <2>1, <2>2, <3>1
    <3>2. CASE ~(k < n)
      <4>1. d = [c EXCEPT !.next = 1, !.start = Len(text), !.drawn = Drawn, !.imports = imports]
        BY <2>1, <3>2
      <4>2. PICK x, y : x = Len(text) /\ y = Drawn
        OBVIOUS
      <4>3. d = [capturer |-> c.capturer, max |-> c.max, nodes |-> c.nodes, next |-> 1,
                 start |-> x, drawn |-> y, clean |-> c.clean, imports |-> imports]
        BY <2>2, <4>1, <4>2 DEF IsCall
      <4> QED
        BY <2>2, <4>3 DEF IsCall
    <3> QED
      BY <3>1, <3>2
  <2>5. IsCall([d EXCEPT !.clean = v]) /\ [d EXCEPT !.clean = v].max = c.max
        /\ [d EXCEPT !.clean = v].nodes = c.nodes
    BY <2>4 DEF IsCall
  <2>6. ~(k < n) => Top = c
    BY <1>1, <2>1, <2>3 DEF Top
  <2>7. t[k] = [d EXCEPT !.clean = v]
    BY <1>1, <1>2, <2>1, <2>3, <2>4, <2>6 DEF Generated
  <2> QED
    BY <2>1, <2>5, <2>7
<1>4. IsList(t) /\ Len(t) = n
  <2>1. PICK S : S = {t[k] : k \in 1 .. n}
    OBVIOUS
  <2>2. DOMAIN t = 1 .. n /\ t = [k \in 1 .. n |-> t[k]]
    BY <1>1, <1>2 DEF Generated
  <2>3. t \in [1 .. n -> S]
    BY <2>1, <2>2
  <2>4. t \in Seq(S) /\ Len(t) = n
    BY <1>2, <2>3
  <2> QED
    BY <2>4 DEF IsList
<1>6. \A k \in 1 .. n - 1 : t[k + 1].max = t[k].max - t[k].nodes
  <2>1. \A k \in 1 .. n - 1 : k \in 1 .. n /\ k + 1 \in 1 .. n
    BY <1>2
  <2> QED
    BY <1>1, <1>3, <2>1 DEF IsStack
<1>7. t # << >> /\ 1 \in 1 .. n
  BY <1>2, <1>4, EmptySeq
<1>8. t[1].max = Limit /\ entered = Limit - t[n].max + t[n].nodes
  BY <1>1, <1>2, <1>3, <1>7 DEF IsStack
<1>9. IsStack(t, Limit, entered)
  BY <1>3, <1>4, <1>6, <1>7, <1>8 DEF IsStack
<1> QED
  BY <1>1, <1>9

(* A call with its nodes returns. *)
LEMMA ReturnKeeps ==
  ASSUME IInv, phase' = phase, calls # << >>, entered' = entered,
         Return(Top.nodes)
  PROVE  IInv'
<1>1. IsStack(calls, Limit, entered) /\ outcome = "generating"
  BY DEF IInv
<1>6. Limit \in Nat /\ Limit' = Limit
  BY LimitIsNat DEF Limit
<1>2. PICK n : n = Len(calls)
  OBVIOUS
<1>3. n \in Nat /\ n \in 1 .. n /\ Top = calls[n] /\ IsList(calls)
  BY <1>1, <1>2, ListProperties DEF IsStack, Top
<1>4. CASE Outer = << >>
  <2>1. n = 1
    BY <1>2, <1>3, <1>4, OuterCalls DEF Outer
  <2>2. PICK max, nodes : max = Top.max /\ nodes = Top.nodes
    OBVIOUS
  <2>3. max = Limit /\ max \in Nat /\ nodes \in 1 .. max /\ entered = Limit - max + nodes
    BY <1>1, <1>2, <1>3, <2>1, <2>2 DEF IsStack, IsCall
  <2>4. entered = nodes /\ entered \in 1 .. Limit /\ (nodes >= max <=> entered = Limit)
        /\ (~(nodes >= max) <=> entered < Limit)
    BY <2>3
  <2>5. calls' = << >> /\ outcome' = IF nodes >= max THEN "failed" ELSE "generated"
    BY <1>4, <2>2 DEF Return
  <2> QED
    BY <1>6, <2>4, <2>5 DEF IInv
<1>5. CASE Outer # << >>
  <2>1. PICK s, o, e, t : s = calls /\ o = Outer /\ e = Caller /\ t = calls'
    OBVIOUS
  <2>2. IsStack(s, Limit, entered) /\ o = SubSeq(s, 1, Len(s) - 1) /\ o # << >> /\ e = o[Len(o)]
    BY <1>1, <1>5, <2>1 DEF Outer, Caller
  <2>3. t = [o EXCEPT ![Len(o)] = [e EXCEPT !.nodes = e.nodes + s[Len(s)].nodes,
                                            !.next = e.next + 1]]
    BY <1>5, <2>1 DEF Return, Top
  <2>4. IsStack(t, Limit, entered)
    BY <1>6, <2>2, <2>3, ReturnedCall
  <2>5. outcome' = outcome
    BY <1>5 DEF Return
  <2> QED
    BY <1>1, <1>6, <2>1, <2>4, <2>5 DEF IInv
<1> QED
  BY <1>4, <1>5

LEMMA LimitInvariance ==
  ASSUME IInv, [Next]_vars
  PROVE  IInv'
<1>1. ASSUME phase' = phase PROVE Limit' = Limit
  BY <1>1 DEF Limit
<1>13. Limit \in Nat
  BY LimitIsNat
<1>2. calls # << >> => IsStack(calls, Limit, entered) /\ outcome = "generating" /\ IsCall(Top)
  <2>1. IsStack(calls, Limit, entered) => Top = calls[Len(calls)] /\ Len(calls) \in 1 .. Len(calls)
    BY ListProperties DEF IsStack, Top
  <2> QED
    BY <2>1 DEF IInv, IsStack
<1>3. CASE LimitReached
  <2>1. /\ calls # << >> /\ entered' = entered /\ Return(1) /\ Top.next = 0
        /\ phase' = phase
    BY <1>3 DEF LimitReached, reductionVars
  <2>2. Top.nodes = 1
    BY <1>2, <2>1 DEF IsCall
  <2>3. Return(Top.nodes)
    BY <2>1, <2>2
  <2> QED
    BY <2>1, <2>3, ReturnKeeps
<1>4. CASE GiveUp
  BY <1>4, ReturnKeeps DEF GiveUp, reductionVars
<1>5. CASE Finish
  BY <1>5, ReturnKeeps DEF Finish, AtEnd, reductionVars
<1>6. CASE GenerateAgain \/ GenerateClause
  <2>1. /\ calls # << >> /\ Top.next = 0 /\ UNCHANGED <<entered, outcome, phase>>
        /\ \E imports : calls' = Generated(imports)
    BY <1>6, Zenon DEF GenerateAgain, GenerateClause, Entering, reductionVars
  <2>2. PICK imports : calls' = Generated(imports)
    BY <2>1
  <2>3. IsStack(Generated(imports), Limit, entered)
    BY <1>2, <2>1, GeneratedKeeps
  <2> QED
    BY <1>1, <1>2, <2>1, <2>2, <2>3 DEF IInv
<1>7. CASE Import
  <2>1. PICK name \in Top.imports : calls' = [calls EXCEPT ![Len(calls)].imports = @ \ {name}]
    BY <1>7 DEF Import
  <2>2. calls # << >> /\ UNCHANGED <<entered, outcome, phase>>
    BY <1>7 DEF Import, reductionVars
  <2>3. PICK n, c, s, t : /\ n = Len(calls) /\ s = calls /\ t = calls'
                          /\ c = [Top EXCEPT !.imports = Top.imports \ {name}]
    OBVIOUS
  <2>4. IsCall(c) /\ c.max = Top.max /\ c.nodes = Top.nodes
    BY <1>2, <2>2, <2>3 DEF IsCall
  <2>5. n \in 1 .. Len(s) /\ IsList(s) /\ Top = s[n] /\ IsStack(s, Limit, entered) /\ n \in Nat
    BY <1>2, <2>2, <2>3, ListProperties DEF IsStack, Top
  <2>6. t = [s EXCEPT ![n] = c]
    BY <2>1, <2>3, <2>5 DEF Top
  <2>7. Changed(s, n, c, t)
    BY <2>5, <2>6, ListExcept
  <2>8. IsList(t) /\ Len(t) = Len(s) /\ t[Len(s)] = c
        /\ \A k \in 1 .. Len(s) - 1 : t[k] = s[k]
    <3>1. \A k \in 1 .. n - 1 : k \in 1 .. n /\ k # n
      BY <2>5
    <3> QED
      BY <2>3, <2>5, <2>7, <3>1 DEF Changed
  <2>9. IsStack(t, Limit, entered)
    BY <1>13, <2>3, <2>4, <2>5, <2>8, SameNodes
  <2> QED
    BY <1>1, <1>2, <2>2, <2>3, <2>9 DEF IInv
<1>8. CASE Subcall
  <2>1. /\ calls # << >> /\ Top.nodes < Top.max /\ entered' = entered + 1
        /\ UNCHANGED <<outcome, phase>>
        /\ \E i : calls' = Append(calls, Call(i, Top.max - Top.nodes))
    BY <1>8 DEF Subcall, Remaining, reductionVars
  <2>2. PICK i : calls' = Append(calls, Call(i, Top.max - Top.nodes))
    BY <2>1
  <2>3. PICK s, t : s = calls /\ t = calls'
    OBVIOUS
  <2>4. /\ IsStack(s, Limit, entered) /\ s[Len(s)].nodes < s[Len(s)].max
        /\ t = Append(s, Call(i, s[Len(s)].max - s[Len(s)].nodes))
    BY <1>2, <2>1, <2>2, <2>3 DEF Top
  <2>5. IsStack(t, Limit, entered + 1)
    BY <1>13, <2>4, DeeperCall
  <2> QED
    BY <1>1, <1>2, <2>1, <2>3, <2>5 DEF IInv
<1>9. CASE Report \/ Propose \/ ReportReduced
  <2>1. phase' # "fuzz" /\ entered' = 1 /\ outcome' = "generating"
        /\ \E i : calls' = << Call(i, Unlimited) >>
    BY <1>9 DEF Report, Propose, ReportReduced, Start
  <2>2. PICK i, limit : calls' = << Call(i, limit) >> /\ limit = Unlimited
    BY <2>1
  <2>3. limit \in Nat \ {0}
    BY <2>2 DEF Unlimited
  <2>4. IsStack(<< Call(i, limit) >>, limit, 1)
    BY <2>3, FirstCall
  <2>5. Limit' = limit
    BY <2>1, <2>2 DEF Limit
  <2> QED
    BY <2>1, <2>2, <2>4, <2>5 DEF IInv
<1>10. CASE UNCHANGED vars
  <2>1. UNCHANGED <<calls, entered, outcome, phase>>
    BY <1>10 DEF vars, generationVars, reductionVars
  <2> QED
    BY <1>1, <2>1 DEF IInv
<1> QED
  BY <1>3, <1>4, <1>5, <1>6, <1>7, <1>8, <1>9, <1>10 DEF Next

LEMMA LimitInitially ==
  ASSUME Init
  PROVE  IInv
<1>1. /\ calls = << Call(1, MaxASTNodes) >> /\ entered = 1 /\ outcome = "generating"
      /\ phase = "fuzz"
  BY DEF Init
<1>2. IsStack(<< Call(1, MaxASTNodes) >>, MaxASTNodes, 1)
  BY FirstCall, StatementGenerationAssumption
<1>3. Limit = MaxASTNodes
  BY <1>1 DEF Limit
<1> QED
  BY <1>1, <1>2, <1>3 DEF IInv

(***************************************************************************)
(* While fuzzing, a statement is generated if and only if it took fewer    *)
(* calls of generateStatement than MaxASTNodes, and a call too many is     *)
(* never made (LimitIsExact).                                              *)
(***************************************************************************)
THEOREM TheLimitIsExact == Spec => []LimitIsExact
<1>1. Init => IInv
  BY LimitInitially
<1>2. IInv /\ [Next]_vars => IInv'
  BY LimitInvariance
<1>3. IInv => LimitIsExact
  <2> SUFFICES ASSUME IInv, phase = "fuzz"
               PROVE  /\ entered <= MaxASTNodes
                      /\ outcome = "generated" => entered < MaxASTNodes
                      /\ outcome = "failed" => entered = MaxASTNodes
    BY DEF LimitIsExact
  <2>4. Limit = MaxASTNodes
    BY DEF Limit
  <2>1. CASE outcome = "generating" /\ IsStack(calls, Limit, entered)
    <3>1. PICK n, max, nodes : n = Len(calls) /\ max = calls[n].max /\ nodes = calls[n].nodes
      OBVIOUS
    <3>2. n \in 1 .. n
      BY <2>1, <3>1, ListProperties DEF IsStack
    <3>3. max \in Nat /\ nodes \in 1 .. max /\ entered = MaxASTNodes - max + nodes
      BY <2>1, <2>4, <3>1, <3>2 DEF IsStack, IsCall
    <3>4. MaxASTNodes \in Nat
      BY StatementGenerationAssumption
    <3>5. entered <= MaxASTNodes
      BY <3>3, <3>4
    <3> QED
      BY <2>1, <3>5
  <2>2. CASE /\ calls = << >> /\ entered \in 1 .. MaxASTNodes
             /\ \/ outcome = "generated" /\ entered < MaxASTNodes
                \/ outcome = "failed" /\ entered = MaxASTNodes
    BY <2>2, StatementGenerationAssumption
  <2> QED
    BY <2>1, <2>2, <2>4 DEF IInv
<1> QED
  BY <1>1, <1>2, <1>3, PTL DEF Spec

-----------------------------------------------------------------------------
(* Lists, and what was written. *)

LEMMA CommonSet ==
  ASSUME NEW s, NEW t, IsList(s), IsList(t)
  PROVE  \E S : s \in Seq(S) /\ t \in Seq(S)
<1>1. PICK S : s \in Seq(S)
  BY DEF IsList
<1>2. PICK T : t \in Seq(T)
  BY DEF IsList
<1>3. PICK U : U = S \cup T
  OBVIOUS
<1>4. S \subseteq U /\ T \subseteq U
  BY <1>3
<1> QED
  BY <1>1, <1>2, <1>4, SeqMonotonic

LEMMA EmptyList ==
  IsList(<< >>) /\ Len(<< >>) = 0 /\ \A s : IsList(s) /\ Len(s) = 0 => s = << >>
<1>1. << >> \in Seq({}) /\ Len(<< >>) = 0
  BY EmptySeq
<1>2. ASSUME NEW s, IsList(s), Len(s) = 0 PROVE s = << >>
  <2>1. PICK S : s \in Seq(S)
    BY <1>2 DEF IsList
  <2> QED
    BY <1>2, <2>1, EmptySeq
<1> QED
  BY <1>1, <1>2 DEF IsList

(* What was written until n others came, when more is written. *)
LEMMA TextGrows ==
  ASSUME NEW txt, IsList(txt), NEW name, IsList(name), NEW a \in Nat, NEW b \in Nat,
         a <= b, b <= Len(txt)
  PROVE  /\ IsList(txt \o name) /\ Len(txt \o name) = Len(txt) + Len(name)
         /\ Len(name) \in Nat
         /\ SubSeq(txt \o name, a + 1, b) = SubSeq(txt, a + 1, b)
         /\ IsList(SubSeq(txt, a + 1, b))
<1>1. PICK S : txt \in Seq(S) /\ name \in Seq(S)
  BY CommonSet
<1>2. Len(txt) \in Nat /\ Len(name) \in Nat
  BY <1>1, LenProperties
<1>3. txt \o name \in Seq(S) /\ Len(txt \o name) = Len(txt) + Len(name)
  BY <1>1, ConcatProperties
<1>4. CASE a = b
  <2>1. b < a + 1 /\ a + 1 \in Int /\ b \in Int
    BY <1>4
  <2>2. SubSeq(txt \o name, a + 1, b) = << >> /\ SubSeq(txt, a + 1, b) = << >>
    BY <2>1, SubSeqEmpty
  <2> QED
    BY <1>2, <1>3, <2>2, EmptyList DEF IsList
<1>5. CASE a < b
  <2>1. a + 1 \in 1 .. Len(txt) /\ b \in 1 .. Len(txt) /\ a + 1 \in Int /\ b \in Int
    BY <1>2, <1>5
  <2>2. SubSeq(txt \o name, a + 1, b) = SubSeq(txt, a + 1, b)
    BY <1>1, <2>1, SubSeqOfConcat1
  <2>3. \A i \in a + 1 .. b : i \in 1 .. Len(txt)
    BY <1>2, <2>1
  <2>4. \A i \in a + 1 .. b : txt[i] \in S
    BY <1>1, <2>3, ElementOfSeq
  <2>5. SubSeq(txt, a + 1, b) \in Seq(S)
    BY <2>1, <2>4, SubSeqProperties
  <2> QED
    BY <1>2, <1>3, <2>2, <2>5 DEF IsList
<1> QED
  BY <1>4, <1>5

(* Three pieces, one after the other. *)
LEMMA TextJoins ==
  ASSUME NEW txt, IsList(txt), NEW name, IsList(name), NEW a \in Nat, NEW b \in Nat,
         a <= b, b <= Len(txt)
  PROVE  /\ SubSeq(txt, a + 1, b) \o (SubSeq(txt, b + 1, Len(txt)) \o name)
              = SubSeq(txt \o name, a + 1, Len(txt \o name))
         /\ IsList(SubSeq(txt, b + 1, Len(txt)) \o name)
<1>1. PICK S : txt \in Seq(S) /\ name \in Seq(S)
  BY CommonSet
<1>2. PICK w, n, m, u : w = txt \o name /\ n = Len(txt) /\ m = Len(name) /\ u = SubSeq(txt, b + 1, n)
  OBVIOUS
<1>3. n \in Nat /\ m \in Nat
  BY <1>1, <1>2, LenProperties
<1>4. w \in Seq(S) /\ Len(w) = n + m
  BY <1>1, <1>2, ConcatProperties
<1>5. \A i \in b + 1 .. n : i \in 1 .. n
  BY <1>3
<1>6. \A i \in b + 1 .. n : txt[i] \in S
  BY <1>1, <1>2, <1>5, ElementOfSeq
<1>7. u \in Seq(S)
  BY <1>2, <1>3, <1>6, SubSeqProperties
<1>8. u \o name \in Seq(S)
  BY <1>1, <1>7, ConcatProperties
<1>9. u = SubSeq(w, b + 1, n)
  <2>1. n <= Len(txt)
    BY <1>2, <1>3
  <2>2. b <= n
    BY <1>2
  <2>3. SubSeq(txt \o name, b + 1, n) = SubSeq(txt, b + 1, n)
    BY <1>3, <2>1, <2>2, TextGrows
  <2> QED
    BY <1>2, <2>3
<1>10. name = SubSeq(w, n + 1, n + m)
  <2>1. n + 1 \in Int /\ n + m \in Int
    BY <1>3
  <2>2. \A i \in n + 1 .. n + m : i \in 1 .. n + m /\ ~(i <= n) /\ i - n \in 1 .. m
    BY <1>3
  <2>3. \A i \in n + 1 .. n + m : w[i] = name[i - n]
    BY <1>1, <1>2, <2>2, ConcatProperties
  <2>4. \A i \in n + 1 .. n + m : w[i] \in S
    BY <1>4, <2>2, ElementOfSeq
  <2>5. PICK v : v = SubSeq(w, n + 1, n + m)
    OBVIOUS
  <2>6. /\ v \in Seq(S) /\ Len(v) = IF n + 1 <= n + m THEN (n + m) - (n + 1) + 1 ELSE 0
        /\ \A i \in 1 .. (n + m) - (n + 1) + 1 : v[i] = w[(n + 1) + i - 1]
    BY <2>1, <2>4, <2>5, SubSeqProperties
  <2>7. Len(v) = m /\ \A i \in 1 .. m : v[i] = w[n + i]
    <3>1. (n + m) - (n + 1) + 1 = m /\ \A i \in 1 .. m : (n + 1) + i - 1 = n + i
      BY <1>3
    <3>2. (n + 1 <= n + m /\ m >= 1) \/ (~(n + 1 <= n + m) /\ m = 0)
      BY <1>3
    <3> QED
      BY <2>6, <3>1, <3>2
  <2>8. \A i \in 1 .. m : n + i \in n + 1 .. n + m /\ (n + i) - n = i
    BY <1>3
  <2>9. \A i \in 1 .. m : v[i] = name[i]
    BY <2>3, <2>7, <2>8
  <2>10. v = name
    BY <1>1, <1>2, <2>6, <2>7, <2>9, SeqEqual
  <2> QED
    BY <2>5, <2>10
<1>11. u \o name = SubSeq(w, b + 1, n + m)
  <2>1. b + 1 \in 1 .. (n + m) + 1 /\ n \in (b + 1) - 1 .. n + m /\ n + m \in n .. n + m
    BY <1>2, <1>3
  <2>2. SubSeq(w, b + 1, n) \o SubSeq(w, n + 1, n + m) = SubSeq(w, b + 1, n + m)
    BY <1>4, <2>1, ConcatAdjacentSubSeq
  <2> QED
    BY <1>9, <1>10, <2>2
<1>12. SubSeq(txt, a + 1, b) = SubSeq(w, a + 1, b)
  BY <1>2, TextGrows
<1>13. SubSeq(w, a + 1, b) \o SubSeq(w, b + 1, n + m) = SubSeq(w, a + 1, n + m)
  <2>1. a + 1 \in 1 .. (n + m) + 1 /\ b \in (a + 1) - 1 .. n + m /\ n + m \in b .. n + m
    BY <1>2, <1>3
  <2> QED
    BY <1>4, <2>1, ConcatAdjacentSubSeq
<1> QED
  BY <1>2, <1>4, <1>8, <1>11, <1>12, <1>13 DEF IsList

LEMMA NothingWritten ==
  ASSUME NEW txt, IsList(txt)
  PROVE  SubSeq(txt, Len(txt) + 1, Len(txt)) = << >>
<1>1. Len(txt) \in Nat
  BY ListProperties
<1>2. PICK n : n = Len(txt)
  OBVIOUS
<1>3. n + 1 \in Int /\ n \in Int /\ n < n + 1
  BY <1>1, <1>2
<1>4. SubSeq(txt, n + 1, n) = << >>
  BY <1>3, SubSeqEmpty
<1> QED
  BY <1>2, <1>4

LEMMA EmptyConcat ==
  ASSUME NEW s, IsList(s)
  PROVE  << >> \o s = s
BY ConcatEmptySeq DEF IsList

-----------------------------------------------------------------------------
(* A capturer and all below it. *)

(* The place of an element in a set of numbers. *)
Place(S, j) == Cardinality({k \in S : k <= j})

LEMMA Places ==
  ASSUME NEW S \in SUBSET Nat, NEW b \in Nat, \A x \in S : x <= b
  PROVE  /\ Cardinality(S) \in Nat
         /\ \A j \in S : Place(S, j) \in 1 .. Cardinality(S)
         /\ \A i, j \in S : i < j => Place(S, i) < Place(S, j)
         /\ \A n \in 1 .. Cardinality(S) : \E j \in S : Place(S, j) = n
<1> DEFINE UpTo(j) == {k \in S : k <= j}
           N == Cardinality(S)
           place == [j \in S |-> Place(S, j)]
<1>1. IsFiniteSet(S)
  BY FS_BoundedSetOfNaturals
<1>2. N \in Nat
  BY <1>1, FS_CardinalityType
<1>3. ASSUME NEW j \in S
      PROVE  /\ IsFiniteSet(UpTo(j)) /\ Cardinality(UpTo(j)) \in 1 .. N
             /\ Place(S, j) = Cardinality(UpTo(j))
  <2>1. UpTo(j) \in SUBSET S /\ j \in UpTo(j)
    OBVIOUS
  <2>2. IsFiniteSet(UpTo(j)) /\ Cardinality(UpTo(j)) <= N
    BY <1>1, <2>1, FS_Subset
  <2>3. Cardinality(UpTo(j)) \in Nat /\ Cardinality(UpTo(j)) # 0
    BY <2>1, <2>2, FS_CardinalityType, FS_EmptySet
  <2> QED
    BY <1>2, <2>2, <2>3 DEF Place
<1>4. ASSUME NEW i \in S, NEW j \in S, i < j
      PROVE  Place(S, i) < Place(S, j)
  <2>0. i \in Nat /\ j \in Nat /\ \A k \in S : k \in Nat
    OBVIOUS
  <2>5. ~(j <= i) /\ \A k \in Nat : k <= i => k <= j
    BY <1>4, <2>0
  <2>1. j <= j /\ ~(j <= i) /\ \A k \in S : k <= i => k <= j
    BY <2>0, <2>5
  <2>2. UpTo(i) \in SUBSET UpTo(j) /\ j \in UpTo(j) /\ j \notin UpTo(i)
    BY <2>1
  <2>3. IsFiniteSet(UpTo(j)) /\ UpTo(i) # UpTo(j)
    BY <1>3, <2>2
  <2>4. Cardinality(UpTo(i)) <= Cardinality(UpTo(j)) /\ Cardinality(UpTo(i)) # Cardinality(UpTo(j))
    BY <2>2, <2>3, FS_Subset
  <2> HIDE DEF UpTo
  <2> QED
    BY <1>2, <1>3, <2>4
<1>5. place \in Injection(S, 1 .. N)
  <2>1. place \in [S -> 1 .. N]
    BY <1>3
  <2>2. ASSUME NEW i \in S, NEW j \in S, i # j PROVE place[i] # place[j]
    <3>0. i \in Nat /\ j \in Nat
      OBVIOUS
    <3>1. i < j \/ j < i
      BY <2>2, <3>0
    <3>6. \A x \in 1 .. N : x \in Nat
      BY <1>2
    <3>2. \A k \in S : Place(S, k) \in Nat
      BY <1>3, <3>6
    <3>3. PICK p, q : p = Place(S, i) /\ q = Place(S, j)
      OBVIOUS
    <3>4. p \in Nat /\ q \in Nat /\ (p < q \/ q < p)
      BY <1>4, <3>1, <3>2, <3>3
    <3>5. p # q
      BY <3>4
    <3> QED
      BY <3>3, <3>5
  <2> QED
    BY <2>1, <2>2 DEF Injection, IsInjective
<1>6. IsFiniteSet(1 .. N) /\ Cardinality(1 .. N) = N
  BY <1>2, FS_Interval
<1>7. place \in Surjection(S, 1 .. N)
  BY <1>1, <1>5, <1>6, FS_Injection
<1>8. \A n \in 1 .. N : \E j \in S : place[j] = n
  BY <1>7 DEF Surjection
<1>9. \A j \in S : Place(S, j) \in 1 .. N
  BY <1>3
<1> QED
  BY <1>2, <1>4, <1>8, <1>9

LEMMA LeastExists ==
  ASSUME NEW S \in SUBSET Nat, S # {}
  PROVE  \E x \in S : \A y \in S : x <= y
<1> DEFINE less == OpToRel(<, Nat)
<1>1. \E x \in S : \A y \in S : <<y, x>> \notin less
  BY WFMin, NatLessThanWellFounded
<1>2. \A x, y \in S : y < x => <<y, x>> \in less
  BY DEF OpToRel
<1> HIDE DEF less
<1>3. PICK x \in S : \A y \in S : <<y, x>> \notin less
  BY <1>1
<1>4. ASSUME NEW y \in S PROVE x <= y
  <2>1. x \in Nat /\ y \in Nat /\ ~(y < x)
    BY <1>2, <1>3
  <2> QED
    BY <2>1
<1> QED
  BY <1>4

(* A capturer as the program makes it. *)
IsCapturer(c) ==
  /\ c = [clause |-> c.clause, name |-> c.name, generated |-> c.generated,
          regenerated |-> c.regenerated, capturedSchema |-> c.capturedSchema,
          capturedModifiedSchema |-> c.capturedModifiedSchema,
          subclauses |-> c.subclauses, kept |-> c.kept]
  /\ IsList(c.name) /\ c.subclauses \in Seq(Nat) /\ Len(c.subclauses) <= 2
  /\ c.kept = {} \/ \E t : IsList(t) /\ c.kept = {t}
  /\ c.kept # {} => c.generated

(* Those below a capturer come after it. *)
Links(h) ==
  /\ IsList(h)
  /\ \A i \in 1 .. Len(h) :
       /\ IsCapturer(h[i])
       /\ \A k \in 1 .. Len(h[i].subclauses) : h[i].subclauses[k] \in i + 1 .. Len(h)

(* A set of capturers, with those below them. *)
Closed(h, C) ==
  C \subseteq 1 .. Len(h)
  /\ \A i \in C : \A k \in 1 .. Len(h[i].subclauses) : h[i].subclauses[k] \in C

LEMMA Subclause ==
  ASSUME NEW h, Links(h), NEW i \in 1 .. Len(h)
  PROVE  /\ DOMAIN h[i].subclauses = 1 .. Len(h[i].subclauses)
         /\ Len(h[i].subclauses) \in {0, 1, 2}
         /\ \A k \in 1 .. Len(h[i].subclauses) :
              /\ h[i].subclauses[k] \in Nat /\ h[i].subclauses[k] \in 1 .. Len(h)
              /\ i < h[i].subclauses[k]
<1>1. h[i].subclauses \in Seq(Nat) /\ Len(h[i].subclauses) <= 2
  BY DEF Links, IsCapturer
<1>2. PICK s, n : s = h[i].subclauses /\ n = Len(s)
  OBVIOUS
<1>3. n \in Nat /\ DOMAIN s = 1 .. n /\ n <= 2
  BY <1>1, <1>2, LenProperties
<1>4. n \in {0, 1, 2}
  BY <1>3
<1>5. Len(h) \in Nat
  BY ListProperties DEF Links
<1>6. \A k \in 1 .. n : s[k] \in i + 1 .. Len(h)
  BY <1>2 DEF Links
<1>7. \A x \in i + 1 .. Len(h) : x \in Nat /\ x \in 1 .. Len(h) /\ i < x
  BY <1>5
<1> QED
  BY <1>2, <1>3, <1>4, <1>6, <1>7

(* The function that Descendants is defined by. *)
IsBelow(h, f) ==
  f = [j \in DOMAIN h |-> {j} \cup UNION {f[h[j].subclauses[k]] : k \in DOMAIN h[j].subclauses}]
Below(h) == CHOOSE f : IsBelow(h, f)

LEMMA DescendantsAreBelow ==
  ASSUME NEW h, NEW i
  PROVE  Descendants(h, i) = Below(h)[i]
BY DEF Descendants, Below, IsBelow

LEMMA BelowEquation ==
  ASSUME NEW h, Links(h), NEW j \in 1 .. Len(h)
  PROVE  Below(h)[j] =
           {j} \cup UNION {Below(h)[h[j].subclauses[k]] : k \in 1 .. Len(h[j].subclauses)}
<1> DEFINE all == 1 .. Len(h)
           least(i) == {x \in all : \A C \in SUBSET all : Closed(h, C) /\ i \in C => x \in C}
           f == [i \in all |-> least(i)]
<1>1. DOMAIN h = all
  BY ListProperties DEF Links
<1>2. \A i \in all :
        /\ DOMAIN h[i].subclauses = 1 .. Len(h[i].subclauses)
        /\ \A k \in 1 .. Len(h[i].subclauses) : h[i].subclauses[k] \in all
  BY Subclause
<1>3. ASSUME NEW i \in all
      PROVE  f[i] = {i} \cup UNION {f[h[i].subclauses[k]] : k \in DOMAIN h[i].subclauses}
  <2> DEFINE these == {i} \cup UNION {f[h[i].subclauses[k]] : k \in DOMAIN h[i].subclauses}
  <2>1. \A k \in DOMAIN h[i].subclauses :
          h[i].subclauses[k] \in all /\ f[h[i].subclauses[k]] = least(h[i].subclauses[k])
    BY <1>2
  <2>2. these \subseteq all
    BY <2>1
  <2>3. ASSUME NEW x \in these, NEW l \in 1 .. Len(h[x].subclauses)
        PROVE  h[x].subclauses[l] \in these
    <3>1. PICK y : y = h[x].subclauses[l]
      OBVIOUS
    <3>2. y \in all /\ x \in all
      BY <1>2, <2>2, <3>1
    <3>3. CASE x = i
      <4>1. y \in least(y)
        BY <3>2
      <4>2. l \in DOMAIN h[i].subclauses /\ y = h[i].subclauses[l]
        BY <1>2, <3>1, <3>3
      <4> QED
        BY <2>1, <3>1, <4>1, <4>2
    <3>4. CASE x # i
      <4>1. PICK k \in DOMAIN h[i].subclauses : x \in least(h[i].subclauses[k])
        BY <2>1, <3>4
      <4>2. y \in least(h[i].subclauses[k])
        <5>1. ASSUME NEW C \in SUBSET all, Closed(h, C), h[i].subclauses[k] \in C PROVE y \in C
          <6>1. x \in C
            BY <4>1, <5>1
          <6> QED
            BY <3>1, <5>1, <6>1 DEF Closed
        <5> QED
          BY <3>2, <5>1
      <4> QED
        BY <2>1, <3>1, <4>1, <4>2
    <3> QED
      BY <3>3, <3>4
  <2>4. Closed(h, these) /\ i \in these
    BY <2>2, <2>3 DEF Closed
  <2>5. least(i) \subseteq these
    BY <2>2, <2>4
  <2>6. ASSUME NEW x \in these PROVE x \in least(i)
    <3>1. x \in all
      BY <2>2
    <3>2. ASSUME NEW C \in SUBSET all, Closed(h, C), i \in C PROVE x \in C
      <4>1. CASE x = i
        BY <3>2, <4>1
      <4>2. CASE x # i
        <5>1. PICK k \in DOMAIN h[i].subclauses : x \in least(h[i].subclauses[k])
          BY <2>1, <4>2
        <5>2. h[i].subclauses[k] \in C
          BY <1>2, <3>2 DEF Closed
        <5> QED
          BY <3>2, <5>1, <5>2
      <4> QED
        BY <4>1, <4>2
    <3> QED
      BY <3>1, <3>2
  <2>7. f[i] = least(i)
    OBVIOUS
  <2> QED
    BY <2>5, <2>6, <2>7
<1>4. IsBelow(h, f)
  BY <1>1, <1>3 DEF IsBelow
<1> HIDE DEF f
<1>5. \E g : IsBelow(h, g)
  BY <1>4
<1>6. IsBelow(h, Below(h))
  BY <1>5 DEF Below
<1>7. PICK b : b = Below(h)
  OBVIOUS
<1>10. IsBelow(h, b)
  BY <1>6, <1>7
<1>8. b = [i \in DOMAIN h |->
             {i} \cup UNION {b[h[i].subclauses[k]] : k \in DOMAIN h[i].subclauses}]
  BY <1>10 DEF IsBelow
<1>9. b[j] = {j} \cup UNION {b[h[j].subclauses[k]] : k \in DOMAIN h[j].subclauses}
  BY <1>1, <1>8
<1> QED
  BY <1>2, <1>7, <1>9

(* No set of positions goes on for ever. *)
LEMMA NoAscent ==
  ASSUME NEW n \in Nat, NEW B \in SUBSET (1 .. n), \A j \in B : \E k \in B : j < k
  PROVE  B = {}
<1> SUFFICES ASSUME B # {} PROVE FALSE
  OBVIOUS
<1>1. PICK T : T = {n - j : j \in B}
  OBVIOUS
<1>8. \A j \in B : n - j \in Nat
  OBVIOUS
<1>2. T \in SUBSET Nat /\ T # {}
  BY <1>1, <1>8
<1>3. PICK x \in T : \A y \in T : x <= y
  BY <1>2, LeastExists
<1>4. PICK j \in B : x = n - j
  BY <1>1
<1>5. PICK k \in B : j < k
  OBVIOUS
<1>6. n - j <= n - k
  BY <1>1, <1>3, <1>4
<1>7. j \in Nat /\ k \in Nat
  OBVIOUS
<1> QED
  BY <1>5, <1>6, <1>7

LEMMA DescendantsProperties ==
  ASSUME NEW h, Links(h), NEW i \in 1 .. Len(h)
  PROVE  /\ i \in Descendants(h, i) /\ Closed(h, Descendants(h, i))
         /\ \A j \in Descendants(h, i) : i <= j
         /\ \A C : Closed(h, C) /\ i \in C => Descendants(h, i) \subseteq C
<1>1. PICK f, all : f = Below(h) /\ all = 1 .. Len(h)
  OBVIOUS
<1>2. \A j \in all :
        f[j] = {j} \cup UNION {f[h[j].subclauses[k]] : k \in 1 .. Len(h[j].subclauses)}
  <2>1. TAKE j \in all
  <2>2. j \in 1 .. Len(h)
    BY <1>1
  <2>3. Below(h)[j] =
          {j} \cup UNION {Below(h)[h[j].subclauses[k]] : k \in 1 .. Len(h[j].subclauses)}
    BY <2>2, BelowEquation
  <2> QED
    BY <1>1, <2>3
<1>3. Len(h) \in Nat
  BY ListProperties DEF Links
<1>4. \A j \in all : \A k \in 1 .. Len(h[j].subclauses) :
        h[j].subclauses[k] \in all /\ j < h[j].subclauses[k]
  BY <1>1, Subclause
<1>5. ASSUME NEW C, Closed(h, C)
      PROVE  \A j \in C : f[j] \subseteq C
  <2>1. PICK B : B = {j \in C : ~(f[j] \subseteq C)}
    OBVIOUS
  <2>2. ASSUME NEW j \in B PROVE \E k \in B : j < k
    <3>1. j \in C /\ j \in all /\ ~(f[j] \subseteq C)
      BY <1>1, <1>5, <2>1 DEF Closed
    <3>2. PICK k \in 1 .. Len(h[j].subclauses) : ~(f[h[j].subclauses[k]] \subseteq C)
      BY <1>2, <3>1
    <3>3. h[j].subclauses[k] \in C /\ j < h[j].subclauses[k]
      BY <1>4, <1>5, <3>1 DEF Closed
    <3> QED
      BY <2>1, <3>2, <3>3
  <2>3. B \in SUBSET (1 .. Len(h))
    BY <1>5, <2>1 DEF Closed
  <2>4. B = {}
    BY <1>3, <2>2, <2>3, NoAscent
  <2> QED
    BY <2>1, <2>4
<1>6. Closed(h, all)
  BY <1>1, <1>4 DEF Closed
<1>7. \A j \in all : f[j] \subseteq all /\ j \in f[j]
  BY <1>2, <1>5, <1>6
<1> DEFINE Open(j) == \E x \in f[j] : \E l \in 1 .. Len(h[x].subclauses) : h[x].subclauses[l] \notin f[j]
<1>8. \A j \in all : ~Open(j)
  <2>1. PICK B : B = {j \in all : Open(j)}
    OBVIOUS
  <2>2. ASSUME NEW j \in B PROVE \E k \in B : j < k
    <3>1. PICK x \in f[j] : \E l \in 1 .. Len(h[x].subclauses) : h[x].subclauses[l] \notin f[j]
      BY <2>1
    <3>2. PICK l \in 1 .. Len(h[x].subclauses) : h[x].subclauses[l] \notin f[j]
      BY <3>1
    <3>3. j \in all
      BY <2>1
    <3>4. x # j
      <4>1. ASSUME x = j PROVE FALSE
        <5>1. h[j].subclauses[l] \in f[h[j].subclauses[l]]
          BY <1>4, <1>7, <3>3, <4>1
        <5> QED
          BY <1>2, <3>2, <3>3, <4>1, <5>1
      <4> QED
        BY <4>1
    <3>5. PICK k \in 1 .. Len(h[j].subclauses) : x \in f[h[j].subclauses[k]]
      BY <1>2, <3>3, <3>4
    <3>6. f[h[j].subclauses[k]] \subseteq f[j]
      BY <1>2, <3>3
    <3>7. h[x].subclauses[l] \notin f[h[j].subclauses[k]]
      BY <3>2, <3>6
    <3>8. Open(h[j].subclauses[k]) /\ h[j].subclauses[k] \in all /\ j < h[j].subclauses[k]
      BY <1>4, <3>3, <3>5, <3>7
    <3> HIDE DEF Open
    <3> QED
      BY <2>1, <3>8
  <2> HIDE DEF Open
  <2>3. B \in SUBSET (1 .. Len(h))
    BY <1>1, <2>1
  <2>4. B = {}
    BY <1>3, <2>2, <2>3, NoAscent
  <2> QED
    BY <2>1, <2>4
<1>9. Closed(h, f[i])
  BY <1>1, <1>7, <1>8 DEF Closed
<1>10. \A j \in f[i] : i <= j
  <2>1. PICK C : C = {j \in all : i <= j}
    OBVIOUS
  <2>2. \A x, y \in all : i <= x /\ x < y => i <= y
    BY <1>1, <1>3
  <2>3. Closed(h, C)
    BY <1>1, <1>4, <2>1, <2>2 DEF Closed
  <2>4. i \in C
    BY <1>1, <1>3, <2>1
  <2> QED
    BY <1>5, <2>1, <2>3, <2>4
<1>11. Descendants(h, i) = f[i]
  BY <1>1, DescendantsAreBelow
<1> QED
  BY <1>1, <1>5, <1>7, <1>9, <1>10, <1>11

(* t is h and copies of the capturers O of it: that of j is at at[j]. *)
Copied(h, t, O, at) ==
  /\ IsList(t) /\ Len(h) <= Len(t) /\ \A k \in 1 .. Len(h) : t[k] = h[k]
  /\ at \in [O -> Nat] /\ \A j \in O : at[j] \in Len(h) + 1 .. Len(t)
  /\ \A i, j \in O : i < j => at[i] < at[j]
  /\ \A k \in Len(h) + 1 .. Len(t) : \E j \in O : k = at[j]
  /\ \A j \in O :
       /\ IsCapturer(t[at[j]]) /\ t[at[j]].kept = h[j].kept /\ t[at[j]].name = h[j].name
       /\ Len(t[at[j]].subclauses) = Len(h[j].subclauses)
       /\ \A k \in 1 .. Len(h[j].subclauses) :
            t[at[j]].subclauses[k] = at[h[j].subclauses[k]]

Relinked(c, s) == [c EXCEPT !.subclauses = s]

LEMMA CapturerFields ==
  ASSUME NEW clause, NEW name, NEW generated, NEW regenerated, NEW captured, NEW modified,
         NEW subclauses, NEW kept, NEW d,
         d = [clause |-> clause, name |-> name, generated |-> generated,
              regenerated |-> regenerated, capturedSchema |-> captured,
              capturedModifiedSchema |-> modified, subclauses |-> subclauses, kept |-> kept]
  PROVE  /\ d.clause = clause /\ d.name = name /\ d.generated = generated
         /\ d.regenerated = regenerated /\ d.capturedSchema = captured
         /\ d.capturedModifiedSchema = modified /\ d.subclauses = subclauses /\ d.kept = kept
OBVIOUS

LEMMA CopyOfCapturer ==
  ASSUME NEW c, IsCapturer(c), NEW n \in Nat, n = Len(c.subclauses), NEW g,
         \A k \in 1 .. n : g[k] \in Nat, NEW s, s = [k \in 1 .. n |-> g[k]],
         NEW d, d = Relinked(c, s)
  PROVE  /\ IsCapturer(d) /\ d.kept = c.kept /\ d.name = c.name /\ d.subclauses = s
         /\ Len(s) = n /\ \A k \in 1 .. n : s[k] = g[k]
<1>1. s \in [1 .. n -> Nat] /\ \A k \in 1 .. n : s[k] = g[k]
  OBVIOUS
<1>2. s \in Seq(Nat) /\ Len(s) = n
  BY <1>1
<1>3. d = [clause |-> c.clause, name |-> c.name, generated |-> c.generated,
           regenerated |-> c.regenerated, capturedSchema |-> c.capturedSchema,
           capturedModifiedSchema |-> c.capturedModifiedSchema,
           subclauses |-> s, kept |-> c.kept]
  BY DEF IsCapturer, Relinked
<1>4. Len(s) <= 2
  BY <1>2 DEF IsCapturer
<1>5. /\ d.clause = c.clause /\ d.name = c.name /\ d.generated = c.generated
      /\ d.regenerated = c.regenerated /\ d.capturedSchema = c.capturedSchema
      /\ d.capturedModifiedSchema = c.capturedModifiedSchema
      /\ d.subclauses = s /\ d.kept = c.kept
  BY ONLY <1>3, CapturerFields
<1>6. d = [clause |-> d.clause, name |-> d.name, generated |-> d.generated,
           regenerated |-> d.regenerated, capturedSchema |-> d.capturedSchema,
           capturedModifiedSchema |-> d.capturedModifiedSchema,
           subclauses |-> d.subclauses, kept |-> d.kept]
  BY <1>3, <1>5
<1>7. IsCapturer(d)
  BY <1>2, <1>4, <1>5, <1>6 DEF IsCapturer
<1> QED
  BY <1>1, <1>2, <1>5, <1>7

LEMMA CopyProperties ==
  ASSUME Links(capturers), NEW i \in 1 .. Len(capturers), NEW O, O = Descendants(capturers, i)
  PROVE  \E at : Copied(capturers, Copy(i), O, at) /\ at[i] = Len(capturers) + 1
<1>1. PICK h, L, N : h = capturers /\ L = Len(h) /\ N = Cardinality(O)
  OBVIOUS
<1>2. IsList(h) /\ L \in Nat /\ Links(h) /\ i \in 1 .. L
  BY <1>1, ListProperties DEF Links
<1>3. i \in O /\ Closed(h, O) /\ \A j \in O : i <= j
  BY <1>1, <1>2, DescendantsProperties
<1>4. O \in SUBSET Nat /\ \A x \in O : x <= L
  <2>1. \A x \in 1 .. L : x \in Nat /\ x <= L
    BY <1>2
  <2> QED
    BY <1>1, <1>3, <2>1 DEF Closed
<1>5. PICK rank : rank = [j \in O |-> Place(O, j)]
  OBVIOUS
<1>6. /\ N \in Nat /\ \A j \in O : rank[j] \in 1 .. N
      /\ \A x, y \in O : x < y => rank[x] < rank[y]
      /\ \A n \in 1 .. N : \E j \in O : rank[j] = n
  <2>1. /\ Cardinality(O) \in Nat
        /\ \A j \in O : Place(O, j) \in 1 .. Cardinality(O)
        /\ \A x, y \in O : x < y => Place(O, x) < Place(O, y)
        /\ \A n \in 1 .. Cardinality(O) : \E j \in O : Place(O, j) = n
    BY ONLY <1>2, <1>4, Places
  <2>2. N = Cardinality(O) /\ \A j \in O : rank[j] = Place(O, j)
    BY <1>1, <1>5
  <2> QED
    BY <2>1, <2>2
<1>7. \A j \in O : rank[j] \in Nat /\ rank[j] # 0 /\ 1 <= rank[j] /\ rank[j] <= N
  BY <1>6
<1>8. \A x, y \in O : rank[x] = rank[y] => x = y
  <2> SUFFICES ASSUME NEW x \in O, NEW y \in O, rank[x] = rank[y], x # y PROVE FALSE
    OBVIOUS
  <2>1. x \in Nat /\ y \in Nat
    BY <1>4
  <2>2. x < y \/ y < x
    BY <2>1
  <2>3. rank[x] \in Nat /\ rank[y] \in Nat
    BY <1>7
  <2>4. rank[x] < rank[y] \/ rank[y] < rank[x]
    BY <1>6, <2>2
  <2> QED
    BY <2>3, <2>4
<1> DEFINE linked(j) == [k \in DOMAIN h[j].subclauses |-> L + rank[h[j].subclauses[k]]]
           nth(n) == CHOOSE j \in O : rank[j] = n
<1>9. PICK copies : copies = [n \in 1 .. N |-> Relinked(h[nth(n)], linked(nth(n)))]
  OBVIOUS
<1>10. \A j \in O : \A k \in DOMAIN h[j].subclauses : h[j].subclauses[k] \in O
  <2>1. \A j \in O : DOMAIN h[j].subclauses = 1 .. Len(h[j].subclauses)
    BY <1>1, <1>2, <1>3, Subclause DEF Closed
  <2> QED
    BY <1>3, <2>1 DEF Closed
<1>11. \A n \in 1 .. N : nth(n) \in O
  BY <1>6
<1>12. Copy(i) = h \o copies
  <2> DEFINE mth(n) == CHOOSE j \in O : Cardinality({k \in O : k <= j}) = n
             relinked(j) == [k \in DOMAIN h[j].subclauses |->
                               L + Cardinality({x \in O : x <= h[j].subclauses[k]})]
  <2>1. \A n \in 1 .. N : \A j \in O : rank[j] = n <=> Cardinality({k \in O : k <= j}) = n
    BY <1>5 DEF Place
  <2>2. \A n \in 1 .. N : nth(n) = mth(n)
    BY <2>1
  <2>3. \A j \in O : rank[j] = Cardinality({k \in O : k <= j})
    BY <1>5 DEF Place
  <2>4. ASSUME NEW j \in O PROVE linked(j) = relinked(j)
    BY <1>10, <2>3
  <2>5. Copy(i) = h \o [n \in 1 .. N |-> Relinked(h[mth(n)], relinked(mth(n)))]
    BY <1>1 DEF Copy, Relinked
  <2> HIDE DEF linked, relinked, nth, mth
  <2>6. \A n \in 1 .. N :
          Relinked(h[mth(n)], relinked(mth(n))) = Relinked(h[nth(n)], linked(nth(n)))
    BY <1>11, <2>2, <2>4
  <2> QED
    BY <1>9, <2>5, <2>6
<1>13. ASSUME NEW j \in O
       PROVE  copies[rank[j]] = Relinked(h[j], linked(j))
  <2>1. nth(rank[j]) = j
    BY <1>8
  <2>2. rank[j] \in 1 .. N
    BY <1>6
  <2> HIDE DEF linked, nth
  <2> QED
    BY <1>9, <2>1, <2>2
<1>14. PICK t, at : t = Copy(i) /\ at = [j \in O |-> L + rank[j]]
  OBVIOUS
<1>15. /\ IsList(t) /\ Len(t) = L + N /\ (\A k \in 1 .. L : t[k] = h[k])
       /\ \A n \in 1 .. N : t[L + n] = copies[n]
  <2>1. PICK S : S = {copies[n] : n \in 1 .. N}
    OBVIOUS
  <2>2. copies = [n \in 1 .. N |-> copies[n]]
    BY <1>9
  <2>3. copies \in [1 .. N -> S]
    BY <2>1, <2>2
  <2>4. copies \in Seq(S) /\ Len(copies) = N
    BY <1>6, <2>3
  <2>5. IsList(copies)
    BY <2>4 DEF IsList
  <2>6. PICK U : h \in Seq(U) /\ copies \in Seq(U)
    BY <1>2, <2>5, CommonSet
  <2>7. /\ t \in Seq(U) /\ Len(t) = Len(h) + Len(copies)
        /\ \A k \in 1 .. Len(h) + Len(copies) :
             t[k] = IF k <= Len(h) THEN h[k] ELSE copies[k - Len(h)]
    BY <1>12, <1>14, <2>6, ConcatProperties
  <2>8. \A k \in 1 .. L : k \in 1 .. L + N /\ k <= L
    BY <1>2, <1>6
  <2>9. \A n \in 1 .. N : L + n \in 1 .. L + N /\ ~(L + n <= L) /\ (L + n) - L = n
    BY <1>2, <1>6
  <2> QED
    BY <1>1, <2>4, <2>7, <2>8, <2>9 DEF IsList
<1>16. L <= L + N /\ \A j \in O : at[j] \in Nat /\ at[j] \in L + 1 .. L + N
  BY <1>2, <1>6, <1>7, <1>14
<1>17. \A x, y \in O : x < y => at[x] < at[y]
  <2>1. \A p, q \in Nat : p < q => L + p < L + q
    BY <1>2
  <2> QED
    BY <1>6, <1>7, <1>14, <2>1
<1>18. ASSUME NEW k \in L + 1 .. L + N PROVE \E j \in O : k = at[j]
  <2>1. k - L \in 1 .. N /\ k = L + (k - L)
    BY <1>2, <1>6
  <2> QED
    BY <1>6, <1>14, <2>1
<1>19. ASSUME NEW j \in O
       PROVE  /\ IsCapturer(t[at[j]]) /\ t[at[j]].kept = h[j].kept /\ t[at[j]].name = h[j].name
              /\ Len(t[at[j]].subclauses) = Len(h[j].subclauses)
              /\ \A k \in 1 .. Len(h[j].subclauses) :
                   t[at[j]].subclauses[k] = at[h[j].subclauses[k]]
  <2>1. PICK c, n, g, s : c = h[j] /\ n = Len(c.subclauses)
                       /\ g = [k \in 1 .. n |-> at[c.subclauses[k]]] /\ s = [k \in 1 .. n |-> g[k]]
    OBVIOUS
  <2>2. j \in 1 .. Len(h)
    BY <1>3 DEF Closed
  <2>3. IsCapturer(c) /\ DOMAIN c.subclauses = 1 .. n /\ n \in Nat
    <3>1. Len(h[j].subclauses) \in {0, 1, 2} /\ DOMAIN h[j].subclauses = 1 .. Len(h[j].subclauses)
      BY <1>2, <2>2, Subclause
    <3> QED
      BY <1>2, <2>1, <2>2, <3>1 DEF Links
  <2>4. \A k \in 1 .. n : c.subclauses[k] \in O /\ g[k] = at[c.subclauses[k]] /\ g[k] \in Nat
    BY <1>10, <1>16, <2>1, <2>3
  <2>5. t[at[j]] = copies[rank[j]]
    BY <1>6, <1>14, <1>15
  <2>6. s = linked(j)
    BY <1>14, <2>1, <2>3, <2>4
  <2> HIDE DEF linked
  <2>7. t[at[j]] = Relinked(c, s)
    BY <1>13, <2>1, <2>5, <2>6
  <2>8. PICK d : d = t[at[j]]
    OBVIOUS
  <2>9. /\ IsCapturer(d) /\ d.kept = c.kept /\ d.name = c.name /\ d.subclauses = s
        /\ Len(s) = n /\ \A k \in 1 .. n : s[k] = g[k]
    <3>1. /\ IsCapturer(c) /\ n \in Nat /\ n = Len(c.subclauses)
          /\ \A k \in 1 .. n : g[k] \in Nat
          /\ s = [k \in 1 .. n |-> g[k]] /\ d = Relinked(c, s)
      BY <2>1, <2>3, <2>4, <2>7, <2>8
    <3> QED
      BY ONLY <3>1, CopyOfCapturer, SMTT(30)
  <2> QED
    BY <2>1, <2>4, <2>8, <2>9
<1>20. at[i] = L + 1
  <2>1. rank[i] = 1
    <3>1. 1 \in 1 .. N
      BY <1>3, <1>6
    <3>2. PICK j \in O : rank[j] = 1
      BY <1>6, <3>1
    <3>3. i \in Nat /\ j \in Nat /\ i <= j
      BY <1>3, <1>4
    <3>4. i = j \/ i < j
      BY <3>3
    <3>5. rank[i] \in Nat /\ rank[i] # 0
      BY <1>3, <1>7
    <3>6. ~(rank[i] < 1)
      BY <3>5
    <3> QED
      BY <1>3, <1>6, <3>2, <3>4, <3>6
  <2> QED
    BY <1>3, <1>14, <2>1
<1>21. at \in [O -> Nat]
  BY <1>14, <1>16
<1>22. Copied(h, t, O, at)
  BY <1>1, <1>15, <1>16, <1>17, <1>18, <1>19, <1>21 DEF Copied
<1> QED
  BY <1>1, <1>14, <1>20, <1>22

-----------------------------------------------------------------------------
(* The capturers that are in use, and what they keep. *)

(* Each is below one other at most. *)
Forest(h, live) ==
  /\ Closed(h, live)
  /\ \A i, j \in live :
       \A k \in 1 .. Len(h[i].subclauses), l \in 1 .. Len(h[j].subclauses) :
         h[i].subclauses[k] = h[j].subclauses[l] => i = j /\ k = l

IsTop(h, live, r) ==
  r \in live /\ \A i \in live : \A k \in 1 .. Len(h[i].subclauses) : h[i].subclauses[k] # r

(* The text that a capturer keeps, and those of the first m of s, in order. *)
TextOf(h, i) == CHOOSE t \in h[i].kept : TRUE
Told(h, s, m) ==
  IF m = 0 THEN << >> ELSE IF m = 1 THEN TextOf(h, s[1]) ELSE TextOf(h, s[1]) \o TextOf(h, s[2])

(* A capturer that keeps a text, as all below it do, keeps what they give. *)
Consistent(h, i) ==
  (h[i].kept # {} /\ \A k \in 1 .. Len(h[i].subclauses) : h[h[i].subclauses[k]].kept # {})
     => h[i].kept = {Told(h, h[i].subclauses, Len(h[i].subclauses)) \o h[i].name}

LEMMA SameTelling ==
  ASSUME NEW h, NEW s, NEW t, NEW r, NEW m, m \in {0, 1, 2},
         \A k \in 1 .. m : t[r[k]].kept = h[s[k]].kept
  PROVE  Told(t, r, m) = Told(h, s, m)
<1>1. \A k \in 1 .. m : TextOf(t, r[k]) = TextOf(h, s[k])
  BY DEF TextOf
<1>2. CASE m = 0
  BY <1>2 DEF Told
<1>3. CASE m = 1
  <2>1. TextOf(t, r[1]) = TextOf(h, s[1])
    BY <1>1, <1>3
  <2> QED
    BY <1>3, <2>1 DEF Told
<1>4. CASE m = 2
  <2>1. TextOf(t, r[1]) = TextOf(h, s[1]) /\ TextOf(t, r[2]) = TextOf(h, s[2])
    BY <1>1, <1>4
  <2> QED
    BY <1>4, <2>1 DEF Told
<1> QED
  BY <1>2, <1>3, <1>4

LEMMA SameConsistent ==
  ASSUME NEW h, NEW i, Consistent(h, i), NEW t, NEW j,
         Len(h[i].subclauses) \in {0, 1, 2}, Len(t[j].subclauses) = Len(h[i].subclauses),
         t[j].kept = h[i].kept, t[j].name = h[i].name,
         \A k \in 1 .. Len(h[i].subclauses) :
           t[t[j].subclauses[k]].kept = h[h[i].subclauses[k]].kept
  PROVE  Consistent(t, j)
<1>1. PICK n, s, r : n = Len(h[i].subclauses) /\ s = h[i].subclauses /\ r = t[j].subclauses
  OBVIOUS
<1>2. \A k \in 1 .. n : t[r[k]].kept = h[s[k]].kept
  BY <1>1
<1>3. n \in {0, 1, 2} /\ Len(s) = n /\ Len(r) = n
  BY <1>1
<1>4. Told(t, r, n) = Told(h, s, n)
  BY ONLY <1>2, <1>3, SameTelling
<1>5. (h[i].kept # {} /\ \A k \in 1 .. n : h[s[k]].kept # {})
         => h[i].kept = {Told(h, s, n) \o h[i].name}
  BY <1>1 DEF Consistent
<1>6. (t[j].kept # {} /\ \A k \in 1 .. n : t[r[k]].kept # {})
         => t[j].kept = {Told(t, r, n) \o t[j].name}
  BY <1>2, <1>4, <1>5
<1> QED
  BY <1>1, <1>3, <1>6 DEF Consistent

LEMMA CopyKeeps ==
  ASSUME NEW h, Links(h), NEW live, Forest(h, live), \A i \in live : Consistent(h, i),
         NEW O, O \subseteq live, Closed(h, O),
         NEW t, NEW at, Copied(h, t, O, at), NEW base \in O, \A j \in O : base <= j,
         NEW copies, copies = {at[j] : j \in O}
  PROVE  /\ Links(t) /\ Forest(t, live \cup copies) /\ Closed(t, copies)
         /\ \A i \in live \cup copies : Consistent(t, i)
         /\ IsTop(t, live \cup copies, at[base])
         /\ IsTop(h, live, base) => IsTop(t, live \cup copies, base)
<1>1. PICK L, M : L = Len(h) /\ M = Len(t)
  OBVIOUS
<1>2. L \in Nat /\ M \in Nat /\ L <= M /\ \A k \in 1 .. L : k \in 1 .. M
  BY <1>1, ListProperties DEF Links, Copied
<1>3. /\ \A j \in O : at[j] \in Nat /\ at[j] \in 1 .. M /\ L < at[j] /\ at[j] \notin 1 .. L
      /\ \A k \in 1 .. M : k \in 1 .. L \/ \E j \in O : k = at[j]
  <2>1. \A j \in O : at[j] \in L + 1 .. M
    BY <1>1 DEF Copied
  <2>2. \A k \in L + 1 .. M : k \in Nat /\ k \in 1 .. M /\ L < k /\ k \notin 1 .. L
    BY <1>2
  <2>3. \A k \in 1 .. M : k \in 1 .. L \/ k \in L + 1 .. M
    BY <1>2
  <2>4. \A k \in L + 1 .. M : \E j \in O : k = at[j]
    BY <1>1 DEF Copied
  <2> QED
    BY <2>1, <2>2, <2>3, <2>4
<1>4. live \subseteq 1 .. L /\ O \subseteq 1 .. L /\ copies \subseteq 1 .. M
  BY <1>1, <1>3 DEF Forest, Closed
<1>5. \A k \in 1 .. L : t[k] = h[k]
  BY <1>1 DEF Copied
<1>6. \A i \in 1 .. L : /\ Len(h[i].subclauses) \in {0, 1, 2}
                        /\ \A k \in 1 .. Len(h[i].subclauses) :
                             /\ h[i].subclauses[k] \in Nat /\ h[i].subclauses[k] \in 1 .. L
                             /\ i < h[i].subclauses[k] /\ IsCapturer(h[i])
  BY <1>1, Subclause DEF Links
<1>7. \A i, j \in O : i < j => at[i] < at[j]
  BY DEF Copied
<1>8. \A i, j \in O : at[i] = at[j] => i = j
  <2> SUFFICES ASSUME NEW x \in O, NEW y \in O, at[x] = at[y], x # y PROVE FALSE
    OBVIOUS
  <2>1. x \in Nat /\ y \in Nat
    BY <1>4
  <2>2. x < y \/ y < x
    BY <2>1
  <2>3. at[x] < at[y] \/ at[y] < at[x]
    BY <1>7, <2>2
  <2> QED
    BY <1>3, <2>3
(* A copy, and what is below it. *)
<1>9. \A j \in O :
        /\ IsCapturer(t[at[j]]) /\ t[at[j]].kept = h[j].kept /\ t[at[j]].name = h[j].name
        /\ Len(t[at[j]].subclauses) = Len(h[j].subclauses)
        /\ \A k \in 1 .. Len(h[j].subclauses) :
             /\ h[j].subclauses[k] \in O
             /\ t[at[j]].subclauses[k] = at[h[j].subclauses[k]]
             /\ at[j] < at[h[j].subclauses[k]]
  <2>1. \A j \in O : \A k \in 1 .. Len(h[j].subclauses) :
          h[j].subclauses[k] \in O /\ j < h[j].subclauses[k]
    BY <1>4, <1>6 DEF Closed
  <2> QED
    BY <1>7, <2>1 DEF Copied
<1>20. \A i \in copies : \A k \in 1 .. Len(t[i].subclauses) : t[i].subclauses[k] \notin 1 .. L
  <2>1. ASSUME NEW j \in O, NEW k \in 1 .. Len(t[at[j]].subclauses)
        PROVE  t[at[j]].subclauses[k] \notin 1 .. L
    <3>1. k \in 1 .. Len(h[j].subclauses)
      BY <1>9
    <3>2. PICK x : x = h[j].subclauses[k]
      OBVIOUS
    <3>3. x \in O /\ t[at[j]].subclauses[k] = at[x]
      BY <1>9, <3>1, <3>2
    <3> QED
      BY <1>3, <3>3
  <2> QED
    BY <2>1
<1>10. Links(t)
  <2>1. ASSUME NEW i \in 1 .. M
        PROVE  IsCapturer(t[i])
               /\ \A k \in 1 .. Len(t[i].subclauses) : t[i].subclauses[k] \in i + 1 .. M
    <3>1. CASE i \in 1 .. L
      <4>1. \A k \in 1 .. Len(h[i].subclauses) : h[i].subclauses[k] \in i + 1 .. L
        BY <1>1, <3>1 DEF Links
      <4>2. \A x \in i + 1 .. L : x \in i + 1 .. M
        BY <1>2
      <4>3. IsCapturer(h[i])
        BY <1>1, <3>1 DEF Links
      <4> QED
        BY <1>5, <3>1, <4>1, <4>2, <4>3
    <3>2. ASSUME NEW j \in O, i = at[j]
          PROVE  IsCapturer(t[i])
                 /\ \A k \in 1 .. Len(t[i].subclauses) : t[i].subclauses[k] \in i + 1 .. M
      <4>1. \A k \in 1 .. Len(t[i].subclauses) :
              t[i].subclauses[k] \in Nat /\ i < t[i].subclauses[k] /\ t[i].subclauses[k] \in 1 .. M
        <5>1. ASSUME NEW k \in 1 .. Len(t[i].subclauses)
              PROVE  /\ t[i].subclauses[k] \in Nat /\ i < t[i].subclauses[k]
                     /\ t[i].subclauses[k] \in 1 .. M
          <6>1. k \in 1 .. Len(h[j].subclauses)
            BY <1>9, <3>2
          <6>2. PICK x : x = h[j].subclauses[k]
            OBVIOUS
          <6>3. x \in O /\ t[i].subclauses[k] = at[x] /\ i < at[x]
            BY <1>9, <3>2, <6>1, <6>2
          <6> QED
            BY <1>3, <6>3
        <5> QED
          BY <5>1
      <4>2. \A x \in Nat : i < x /\ x \in 1 .. M => x \in i + 1 .. M
        BY <1>2
      <4> QED
        BY <1>9, <3>2, <4>1, <4>2
    <3> QED
      BY <1>3, <3>1, <3>2
  <2> QED
    BY <1>1, <2>1 DEF Links, Copied
<1>11. Closed(t, copies)
  <2>1. \A i \in copies : \A k \in 1 .. Len(t[i].subclauses) : t[i].subclauses[k] \in copies
    BY <1>9
  <2> QED
    BY <1>1, <1>4, <2>1 DEF Closed
<1>12. \A i \in live : \A k \in 1 .. Len(h[i].subclauses) :
         h[i].subclauses[k] \in live /\ h[i].subclauses[k] \in 1 .. L
  BY <1>4 DEF Forest, Closed
<1>13. \A i \in live : t[i] = h[i] /\ i \in 1 .. L
  BY <1>4, <1>5
<1>14. Closed(t, live \cup copies)
  <2>1. \A i \in live : \A k \in 1 .. Len(t[i].subclauses) : t[i].subclauses[k] \in live
    BY <1>12, <1>13
  <2>2. live \cup copies \subseteq 1 .. M
    BY <1>2, <1>4
  <2> QED
    BY <1>1, <1>11, <2>1, <2>2 DEF Closed
<1>15. ASSUME NEW i \in live \cup copies, NEW j \in live \cup copies,
              NEW k \in 1 .. Len(t[i].subclauses), NEW l \in 1 .. Len(t[j].subclauses),
              t[i].subclauses[k] = t[j].subclauses[l]
       PROVE  i = j /\ k = l
  <2>1. CASE i \in live /\ j \in live
    <3>1. /\ h[i].subclauses[k] = h[j].subclauses[l]
          /\ k \in 1 .. Len(h[i].subclauses) /\ l \in 1 .. Len(h[j].subclauses)
      BY <1>13, <1>15, <2>1
    <3> QED
      BY <2>1, <3>1 DEF Forest
  <2>2. \A a \in live : \A c \in 1 .. Len(t[a].subclauses) : t[a].subclauses[c] \in 1 .. L
    BY <1>12, <1>13
  <2>3. \A a \in copies : \A c \in 1 .. Len(t[a].subclauses) : t[a].subclauses[c] \notin 1 .. L
    BY <1>20
  <2>5. ASSUME i \in copies, j \in copies PROVE i = j /\ k = l
    <3>1. PICK x \in O, y \in O : i = at[x] /\ j = at[y]
      BY <2>5
    <3>2. at[h[x].subclauses[k]] = at[h[y].subclauses[l]]
      BY <1>9, <1>15, <3>1
    <3>3. /\ k \in 1 .. Len(h[x].subclauses) /\ l \in 1 .. Len(h[y].subclauses)
          /\ h[x].subclauses[k] \in O /\ h[y].subclauses[l] \in O
      BY <1>9, <3>1
    <3>4. h[x].subclauses[k] = h[y].subclauses[l]
      BY <1>8, <3>2, <3>3
    <3>5. x = y /\ k = l
      BY <3>3, <3>4 DEF Forest
    <3> QED
      BY <3>1, <3>5
  <2> QED
    BY <2>1, <2>2, <2>3, <2>5, <1>15
<1>16. Forest(t, live \cup copies)
  BY <1>14, <1>15 DEF Forest
<1>17. ASSUME NEW i \in live \cup copies PROVE Consistent(t, i)
  <2>1. CASE i \in live
    <3>1. Consistent(h, i) /\ t[i] = h[i] /\ Len(h[i].subclauses) \in {0, 1, 2}
      BY <1>6, <1>13, <2>1
    <3>2. \A k \in 1 .. Len(h[i].subclauses) :
            t[t[i].subclauses[k]].kept = h[h[i].subclauses[k]].kept
      BY <1>5, <1>12, <2>1, <3>1
    <3> QED
      BY <3>1, <3>2, SameConsistent
  <2>2. ASSUME NEW j \in O, i = at[j] PROVE Consistent(t, i)
    <3>1. Consistent(h, j) /\ Len(h[j].subclauses) \in {0, 1, 2}
      BY <1>4, <1>6
    <3>2. \A k \in 1 .. Len(h[j].subclauses) :
            t[t[i].subclauses[k]].kept = h[h[j].subclauses[k]].kept
      BY <1>9, <2>2
    <3>3. Len(t[i].subclauses) = Len(h[j].subclauses) /\ t[i].kept = h[j].kept
          /\ t[i].name = h[j].name
      BY <1>9, <2>2
    <3> QED
      BY <3>1, <3>2, <3>3, SameConsistent
  <2> QED
    BY <2>1, <2>2
<1>18. IsTop(t, live \cup copies, at[base])
  <2>1. ASSUME NEW i \in live, NEW k \in 1 .. Len(t[i].subclauses)
        PROVE  t[i].subclauses[k] # at[base]
    BY <1>3, <1>12, <1>13
  <2>2. ASSUME NEW j \in O, NEW k \in 1 .. Len(t[at[j]].subclauses)
        PROVE  t[at[j]].subclauses[k] # at[base]
    <3>1. PICK x : x = h[j].subclauses[k]
      OBVIOUS
    <3>2. x \in O /\ t[at[j]].subclauses[k] = at[x] /\ x # base
      <4>1. k \in 1 .. Len(h[j].subclauses)
        BY <1>9
      <4>2. j < x /\ j \in Nat /\ x \in Nat /\ base \in Nat /\ base <= j
        BY <1>4, <1>6, <3>1, <4>1
      <4>3. x # base
        BY <4>2
      <4> QED
        BY <1>9, <3>1, <4>1, <4>3
    <3> QED
      BY <1>8, <3>2
  <2>3. at[base] \in live \cup copies
    OBVIOUS
  <2> QED
    BY <2>1, <2>2, <2>3 DEF IsTop
<1>19. ASSUME IsTop(h, live, base) PROVE IsTop(t, live \cup copies, base)
  <2>1. \A i \in live : \A k \in 1 .. Len(t[i].subclauses) : t[i].subclauses[k] # base
    BY <1>13, <1>19 DEF IsTop
  <2>2. \A i \in copies : \A k \in 1 .. Len(t[i].subclauses) : t[i].subclauses[k] # base
    BY <1>4, <1>20
  <2>3. base \in live
    OBVIOUS
  <2> QED
    BY <2>1, <2>2, <2>3 DEF IsTop
<1> QED
  BY <1>10, <1>11, <1>16, <1>17, <1>18, <1>19

(* What is in use, where nothing is being generated. *)
InUse(h, live) ==
  Links(h) /\ Forest(h, live) /\ \A i \in live : Consistent(h, i)

LEMMA Cleared ==
  ASSUME NEW h, Links(h), NEW i \in 1 .. Len(h), NEW c, c.kept = {}, NEW t, Changed(h, i, c, t),
         NEW x \in 1 .. Len(h), Consistent(h, x)
  PROVE  Consistent(t, x)
<1>1. \A k \in 1 .. Len(h) : t[k] = IF k = i THEN c ELSE h[k]
  BY DEF Changed
<1>2. \A k \in 1 .. Len(h[x].subclauses) : h[x].subclauses[k] \in 1 .. Len(h)
  BY Subclause
<1>3. CASE x = i
  BY <1>1, <1>3 DEF Consistent
<1>4. CASE x # i /\ \E k \in 1 .. Len(h[x].subclauses) : h[x].subclauses[k] = i
  <2>1. t[x] = h[x] /\ t[i] = c
    BY <1>1, <1>4
  <2>2. \E k \in 1 .. Len(t[x].subclauses) : t[t[x].subclauses[k]].kept = {}
    BY <1>4, <2>1
  <2> QED
    BY <2>2 DEF Consistent
<1>5. CASE x # i /\ \A k \in 1 .. Len(h[x].subclauses) : h[x].subclauses[k] # i
  <2>1. t[x] = h[x]
    BY <1>1, <1>5
  <2>2. \A k \in 1 .. Len(h[x].subclauses) :
          t[t[x].subclauses[k]].kept = h[h[x].subclauses[k]].kept
    BY <1>1, <1>2, <1>5, <2>1
  <2>3. Len(h[x].subclauses) \in {0, 1, 2}
    BY Subclause
  <2>4. /\ Len(t[x].subclauses) = Len(h[x].subclauses) /\ t[x].kept = h[x].kept
        /\ t[x].name = h[x].name
    BY <2>1
  <2> QED
    BY <2>2, <2>3, <2>4, SameConsistent
<1> QED
  BY <1>3, <1>4, <1>5

(* A capturer that was updated with a clause. *)
LEMMA UpdatedKeeps ==
  ASSUME NEW h, NEW live, InUse(h, live), NEW i \in live, NEW clause,
         NEW t, t = Updated(h, i, clause)
  PROVE  InUse(t, live) /\ \A r : IsTop(h, live, r) => IsTop(t, live, r)
<1>1. Links(h) /\ IsList(h) /\ live \subseteq 1 .. Len(h) /\ i \in 1 .. Len(h)
  BY DEF InUse, Links, Forest, Closed
<1>2. PICK b, c : b = h[i] /\
        c = [b EXCEPT !.clause = clause, !.name = << >>, !.generated = FALSE,
                      !.regenerated = TRUE, !.subclauses = << >>, !.kept = {}]
  OBVIOUS
<1>3. IsCapturer(b)
  BY <1>1, <1>2 DEF Links
<1>4. c = [clause |-> clause, name |-> << >>, generated |-> FALSE, regenerated |-> TRUE,
           capturedSchema |-> b.capturedSchema,
           capturedModifiedSchema |-> b.capturedModifiedSchema,
           subclauses |-> << >>, kept |-> {}]
  BY <1>2, <1>3 DEF IsCapturer
<1>5. /\ c.clause = clause /\ c.name = << >> /\ c.generated = FALSE /\ c.regenerated = TRUE
      /\ c.capturedSchema = b.capturedSchema
      /\ c.capturedModifiedSchema = b.capturedModifiedSchema
      /\ c.subclauses = << >> /\ c.kept = {}
  BY ONLY <1>4, CapturerFields
<1>6. IsCapturer(c) /\ Len(c.subclauses) = 0
  <2>1. c = [clause |-> c.clause, name |-> c.name, generated |-> c.generated,
             regenerated |-> c.regenerated, capturedSchema |-> c.capturedSchema,
             capturedModifiedSchema |-> c.capturedModifiedSchema,
             subclauses |-> c.subclauses, kept |-> c.kept]
    BY <1>4, <1>5
  <2>2. << >> \in Seq(Nat) /\ Len(<< >>) = 0 /\ IsList(<< >>) /\ 0 <= 2
    BY EmptySeq, EmptyList
  <2>3. IsList(c.name) /\ c.subclauses \in Seq(Nat) /\ Len(c.subclauses) = 0
    BY <1>5, <2>2
  <2> QED
    BY <1>5, <2>1, <2>2, <2>3 DEF IsCapturer
<1>7. Changed(h, i, c, t)
  <2>1. Updated(h, i, clause) =
          [h EXCEPT ![i] = [h[i] EXCEPT !.clause = clause, !.name = << >>, !.generated = FALSE,
                              !.regenerated = TRUE, !.subclauses = << >>, !.kept = {}]]
    BY DEF Updated
  <2>2. c = [h[i] EXCEPT !.clause = clause, !.name = << >>, !.generated = FALSE,
                         !.regenerated = TRUE, !.subclauses = << >>, !.kept = {}]
    BY <1>2
  <2>3. t = [h EXCEPT ![i] = c]
    BY <2>1, <2>2
  <2>4. IsList(h) /\ i \in 1 .. Len(h)
    BY <1>1
  <2>5. Changed(h, i, c, [h EXCEPT ![i] = c])
    BY ONLY <2>4, ListExcept
  <2> QED
    BY <2>3, <2>5
<1>8. /\ IsList(t) /\ Len(t) = Len(h)
      /\ \A k \in 1 .. Len(h) : t[k] = IF k = i THEN c ELSE h[k]
  BY <1>7 DEF Changed
<1>9. \A k \in 1 .. 0 : FALSE
  OBVIOUS
<1>10. Links(t)
  <2>1. ASSUME NEW k \in 1 .. Len(h)
        PROVE  IsCapturer(t[k])
               /\ \A l \in 1 .. Len(t[k].subclauses) : t[k].subclauses[l] \in k + 1 .. Len(h)
    BY <1>1, <1>6, <1>8, <1>9 DEF Links
  <2> QED
    BY <1>8, <2>1 DEF Links
<1>11. ASSUME NEW k \in live
       PROVE  (k # i /\ t[k] = h[k]) \/ (k = i /\ \A l \in 1 .. Len(t[k].subclauses) : FALSE)
  BY <1>1, <1>6, <1>8, <1>9
<1>12. Closed(t, live)
  BY <1>1, <1>8, <1>11 DEF InUse, Forest, Closed
<1>13. Forest(t, live)
  <2>1. ASSUME NEW p \in live, NEW q \in live, NEW k \in 1 .. Len(t[p].subclauses),
               NEW l \in 1 .. Len(t[q].subclauses), t[p].subclauses[k] = t[q].subclauses[l]
        PROVE  p = q /\ k = l
    <3>1. t[p] = h[p] /\ t[q] = h[q]
      BY <1>11
    <3> QED
      BY <2>1, <3>1 DEF InUse, Forest
  <2> QED
    BY <1>12, <2>1 DEF Forest
<1>14. \A k \in live : Consistent(t, k)
  <2>1. ASSUME NEW k \in live PROVE Consistent(t, k)
    <3>1. k \in 1 .. Len(h) /\ Consistent(h, k)
      BY <1>1 DEF InUse
    <3> QED
      BY <1>1, <1>5, <1>7, <3>1, Cleared
  <2> QED
    BY <2>1
<1>15. \A r : IsTop(h, live, r) => IsTop(t, live, r)
  BY <1>11 DEF IsTop
<1> QED
  BY <1>10, <1>13, <1>14, <1>15 DEF InUse

(* A capturer that was updated with one that is below it. *)
LEMMA LiftedKeeps ==
  ASSUME NEW h, NEW live, InUse(h, live), NEW i \in live,
         NEW l \in 1 .. Len(h[i].subclauses), NEW j, j = h[i].subclauses[l],
         NEW t, t = Lifted(h, i, j)
  PROVE  InUse(t, live \ {j}) /\ \A r : IsTop(h, live, r) => IsTop(t, live \ {j}, r)
<1>1. Links(h) /\ IsList(h) /\ live \subseteq 1 .. Len(h) /\ i \in 1 .. Len(h) /\ j \in live
  BY DEF InUse, Links, Forest, Closed
<1>2. PICK b, c : b = h[j] /\ c = [b EXCEPT !.kept = {}]
  OBVIOUS
<1>3. IsCapturer(b) /\ j \in 1 .. Len(h)
  BY <1>1, <1>2 DEF Links
<1>4. c = [clause |-> b.clause, name |-> b.name, generated |-> b.generated,
           regenerated |-> b.regenerated, capturedSchema |-> b.capturedSchema,
           capturedModifiedSchema |-> b.capturedModifiedSchema,
           subclauses |-> b.subclauses, kept |-> {}]
  BY <1>2, <1>3, Zenon DEF IsCapturer
<1>5. /\ c.clause = b.clause /\ c.name = b.name /\ c.generated = b.generated
      /\ c.regenerated = b.regenerated
      /\ c.capturedSchema = b.capturedSchema
      /\ c.capturedModifiedSchema = b.capturedModifiedSchema
      /\ c.subclauses = b.subclauses /\ c.kept = {}
  BY ONLY <1>4, CapturerFields
<1>6. IsCapturer(c)
  <2>1. c = [clause |-> c.clause, name |-> c.name, generated |-> c.generated,
             regenerated |-> c.regenerated, capturedSchema |-> c.capturedSchema,
             capturedModifiedSchema |-> c.capturedModifiedSchema,
             subclauses |-> c.subclauses, kept |-> c.kept]
    BY <1>4, <1>5
  <2> QED
    BY <1>3, <1>5, <2>1 DEF IsCapturer
<1>7. Changed(h, i, c, t)
  <2>1. Lifted(h, i, j) = [h EXCEPT ![i] = [h[j] EXCEPT !.kept = {}]]
    BY DEF Lifted
  <2>2. c = [h[j] EXCEPT !.kept = {}]
    BY <1>2
  <2>3. t = [h EXCEPT ![i] = c]
    BY <2>1, <2>2
  <2>4. IsList(h) /\ i \in 1 .. Len(h)
    BY <1>1
  <2>5. Changed(h, i, c, [h EXCEPT ![i] = c])
    BY ONLY <2>4, ListExcept
  <2> QED
    BY <2>3, <2>5
<1>8. /\ IsList(t) /\ Len(t) = Len(h)
      /\ \A k \in 1 .. Len(h) : t[k] = IF k = i THEN c ELSE h[k]
  BY <1>7 DEF Changed
<1>9. \A k \in 1 .. Len(h) : \A m \in 1 .. Len(h[k].subclauses) :
        h[k].subclauses[m] \in k + 1 .. Len(h) /\ k < h[k].subclauses[m] /\ h[k].subclauses[m] \in Nat
  BY <1>1, Subclause DEF Links
<1>10. i < j /\ i \in Nat /\ j \in Nat /\ i # j
  <2>1. i < j /\ j \in Nat /\ i \in Nat
    BY <1>1, <1>9
  <2> QED
    BY <2>1
<1>11. t[i].subclauses = h[j].subclauses /\ \A k \in live : k # i => t[k] = h[k]
  BY <1>1, <1>2, <1>5, <1>8
<1>12. Links(t)
  <2>1. ASSUME NEW k \in 1 .. Len(h)
        PROVE  IsCapturer(t[k])
               /\ \A m \in 1 .. Len(t[k].subclauses) : t[k].subclauses[m] \in k + 1 .. Len(h)
    <3>1. CASE k # i
      BY <1>1, <1>8, <3>1 DEF Links
    <3>2. CASE k = i
      <4>1. \A m \in 1 .. Len(h[j].subclauses) : h[j].subclauses[m] \in j + 1 .. Len(h)
        BY <1>3, <1>9
      <4>2. \A x \in j + 1 .. Len(h) : x \in i + 1 .. Len(h)
        BY <1>10
      <4>3. t[k].subclauses = h[j].subclauses /\ IsCapturer(t[k])
        BY <1>6, <1>8, <1>11, <3>2
      <4> QED
        BY <3>2, <4>1, <4>2, <4>3
    <3> QED
      BY <3>1, <3>2
  <2> QED
    BY <1>8, <2>1 DEF Links
(* Where a capturer that is in use was before. *)
<1> DEFINE at(k) == IF k = i THEN j ELSE k
<1>13. \A k \in live \ {j} : at(k) \in live /\ t[k].subclauses = h[at(k)].subclauses
  BY <1>1, <1>11
<1>14. \A p, q \in live \ {j} : at(p) = at(q) => p = q
  OBVIOUS
<1> HIDE DEF at
<1>15. \A k \in live \ {j} : \A m \in 1 .. Len(t[k].subclauses) : t[k].subclauses[m] \in live \ {j}
  <2> SUFFICES ASSUME NEW k \in live \ {j}, NEW m \in 1 .. Len(t[k].subclauses)
               PROVE  t[k].subclauses[m] \in live /\ t[k].subclauses[m] # j
    OBVIOUS
  <2>1. t[k].subclauses[m] = h[at(k)].subclauses[m] /\ at(k) \in live
        /\ m \in 1 .. Len(h[at(k)].subclauses)
    BY <1>13
  <2>2. t[k].subclauses[m] \in live
    BY <2>1 DEF InUse, Forest, Closed
  <2>3. ASSUME t[k].subclauses[m] = j PROVE FALSE
    <3>1. h[at(k)].subclauses[m] = h[i].subclauses[l]
      BY <2>1, <2>3
    <3>2. at(k) = i
      BY <2>1, <3>1 DEF InUse, Forest
    <3> QED
      BY <1>10, <3>2 DEF at
  <2> QED
    BY <2>2, <2>3
<1>16. Closed(t, live \ {j})
  BY <1>1, <1>8, <1>15 DEF Closed
<1>17. Forest(t, live \ {j})
  <2>1. ASSUME NEW p \in live \ {j}, NEW q \in live \ {j}, NEW k \in 1 .. Len(t[p].subclauses),
               NEW m \in 1 .. Len(t[q].subclauses), t[p].subclauses[k] = t[q].subclauses[m]
        PROVE  p = q /\ k = m
    <3>1. /\ h[at(p)].subclauses[k] = h[at(q)].subclauses[m] /\ at(p) \in live /\ at(q) \in live
          /\ k \in 1 .. Len(h[at(p)].subclauses) /\ m \in 1 .. Len(h[at(q)].subclauses)
      BY <1>13, <2>1
    <3>2. at(p) = at(q) /\ k = m
      BY <3>1 DEF InUse, Forest
    <3> QED
      BY <1>14, <3>2
  <2> QED
    BY <1>16, <2>1 DEF Forest
<1>18. \A k \in live \ {j} : Consistent(t, k)
  <2>1. ASSUME NEW k \in live \ {j} PROVE Consistent(t, k)
    <3>1. k \in 1 .. Len(h) /\ Consistent(h, k)
      BY <1>1 DEF InUse
    <3> QED
      BY <1>1, <1>5, <1>7, <3>1, Cleared
  <2> QED
    BY <2>1
<1>19. ASSUME NEW r, IsTop(h, live, r) PROVE IsTop(t, live \ {j}, r)
  <2>1. r \in live /\ r # j
    BY <1>19 DEF IsTop
  <2>2. \A k \in live \ {j} : \A m \in 1 .. Len(t[k].subclauses) : t[k].subclauses[m] # r
    BY <1>13, <1>19 DEF IsTop
  <2> QED
    BY <2>1, <2>2 DEF IsTop
<1> QED
  BY <1>12, <1>17, <1>18, <1>19 DEF InUse

(* A proposal: a copy of the capturers of a statement, changed at one place. *)
LEMMA ProposalKeeps ==
  ASSUME NEW live, InUse(capturers, live), NEW base, IsTop(capturers, live, base),
         NEW heap, heap = Copy(base), NEW top, top = Len(capturers) + 1, NEW u,
         \/ u = heap
         \/ \E i \in Descendants(heap, top) :
              \/ \E clause \in {"EmptyClause", "NewLabel"} : u = Updated(heap, i, clause)
              \/ \E k \in DOMAIN heap[i].subclauses : u = Lifted(heap, i, heap[i].subclauses[k])
  PROVE  \E used : InUse(u, used) /\ IsTop(u, used, top) /\ IsTop(u, used, base)
<1>1. PICK h : h = capturers
  OBVIOUS
<1>2. Links(h) /\ Forest(h, live) /\ base \in live /\ base \in 1 .. Len(h)
  BY <1>1 DEF InUse, Forest, Closed, IsTop
<1>3. PICK O : O = Descendants(h, base)
  OBVIOUS
<1>4. /\ base \in O /\ Closed(h, O) /\ \A j \in O : base <= j
      /\ \A C : Closed(h, C) /\ base \in C => O \subseteq C
  BY <1>2, <1>3, DescendantsProperties
<1>5. O \subseteq live
  BY <1>2, <1>4 DEF Forest
<1>6. PICK at : Copied(h, heap, O, at) /\ at[base] = top
  BY <1>1, <1>2, <1>3, CopyProperties
<1>7. PICK copies, all : copies = {at[j] : j \in O} /\ all = live \cup copies
  OBVIOUS
<1>8. \A i \in live : Consistent(h, i)
  BY <1>1 DEF InUse
<1>9. /\ Links(heap) /\ Forest(heap, live \cup copies) /\ Closed(heap, copies)
      /\ \A i \in live \cup copies : Consistent(heap, i)
      /\ IsTop(heap, live \cup copies, at[base])
      /\ IsTop(h, live, base) => IsTop(heap, live \cup copies, base)
  <2>1. /\ Links(h) /\ Forest(h, live) /\ O \subseteq live /\ Closed(h, O)
        /\ \A i \in live : Consistent(h, i)
        /\ Copied(h, heap, O, at) /\ base \in O /\ (\A j \in O : base <= j)
        /\ copies = {at[j] : j \in O}
    BY <1>2, <1>4, <1>5, <1>6, <1>7, <1>8
  <2> QED
    BY ONLY <2>1, CopyKeeps
<1>10. InUse(heap, all) /\ IsTop(heap, all, top) /\ IsTop(heap, all, base)
  BY <1>1, <1>6, <1>7, <1>9 DEF InUse
<1>11. Descendants(heap, top) \subseteq all
  <2>1. top \in all /\ top \in 1 .. Len(heap) /\ Closed(heap, all)
    BY <1>10 DEF IsTop, InUse, Forest, Closed
  <2> QED
    BY <1>9, <2>1, DescendantsProperties
<1>12. CASE u = heap
  BY <1>10, <1>12
<1>13. ASSUME NEW i \in Descendants(heap, top), NEW clause, u = Updated(heap, i, clause)
       PROVE  \E used : InUse(u, used) /\ IsTop(u, used, top) /\ IsTop(u, used, base)
  <2>1. i \in all
    BY <1>11
  <2>2. InUse(u, all) /\ \A r : IsTop(heap, all, r) => IsTop(u, all, r)
    BY <1>10, <1>13, <2>1, UpdatedKeeps
  <2> QED
    BY <1>10, <2>2
<1>14. ASSUME NEW i \in Descendants(heap, top), NEW k \in DOMAIN heap[i].subclauses,
              u = Lifted(heap, i, heap[i].subclauses[k])
       PROVE  \E used : InUse(u, used) /\ IsTop(u, used, top) /\ IsTop(u, used, base)
  <2>1. i \in all /\ i \in 1 .. Len(heap)
    BY <1>10, <1>11 DEF InUse, Forest, Closed
  <2>2. k \in 1 .. Len(heap[i].subclauses)
    BY <1>9, <2>1, Subclause
  <2>3. PICK j : j = heap[i].subclauses[k]
    OBVIOUS
  <2>4. InUse(u, all \ {j}) /\ \A r : IsTop(heap, all, r) => IsTop(u, all \ {j}, r)
    BY <1>10, <1>14, <2>1, <2>2, <2>3, LiftedKeeps
  <2> QED
    BY <1>10, <2>4
<1> QED
  BY <1>12, <1>13, <1>14

-----------------------------------------------------------------------------
(* The calls that generate, and what was written so far. *)

(* Something below a capturer that is being generated was changed, or new. *)
Unclean(cs, i) ==
  \E k \in 1 .. Len(cs) : cs[k].capturer = i /\ cs[k].next # 0 /\ ~cs[k].clean

(* How much was written when the subclauses of a call were, but the last. *)
Pos(cs, txt, k) == IF k < Len(cs) /\ cs[k + 1].next # 0 THEN cs[k + 1].start ELSE Len(txt)

(* A call that has generated the subclauses before next. *)
Frame(h, txt, c, p, d) ==
  /\ c.next - 1 \in 0 .. Len(h[c.capturer].subclauses)
  /\ p \in 0 .. Len(txt) /\ c.start \in 0 .. p
  /\ \A k \in 1 .. c.next - 1 : h[h[c.capturer].subclauses[k]].kept # {}
  /\ SubSeq(txt, c.start + 1, p) = Told(h, h[c.capturer].subclauses, c.next - 1)
  /\ c.clean => h[c.capturer].kept # {} /\ c.drawn = d
  /\ c.imports # {} => h[c.capturer].kept = {}

Stack(h, txt, cs, r, live, d) ==
  /\ IsList(cs) /\ cs # << >> /\ cs[1].capturer = r
  /\ \A k \in 1 .. Len(cs) :
       /\ cs[k].capturer \in live
       /\ cs[k].next \in Nat
       /\ cs[k].next # 0 => Frame(h, txt, cs[k], Pos(cs, txt, k), d)
       /\ cs[k].next = 0 => cs[k].imports = {} /\ cs[k].clean
  /\ \A k \in 1 .. Len(cs) - 1 :
       /\ cs[k].next \in 1 .. Len(h[cs[k].capturer].subclauses)
       /\ cs[k + 1].capturer = h[cs[k].capturer].subclauses[cs[k].next]
       /\ cs[k + 1].next # 0 /\ cs[k].clean => cs[k + 1].clean
  /\ \A k, l \in 1 .. Len(cs) : k < l => cs[k].capturer < cs[l].capturer

Keeps(h, txt, cs, r, live, d) ==
  /\ Links(h) /\ Forest(h, live) /\ IsTop(h, live, r) /\ IsList(txt)
  /\ \A i \in live : Unclean(cs, i) \/ Consistent(h, i)
  /\ cs # << >> => Stack(h, txt, cs, r, live, d)

(* Call n is the innermost one, and generates capturer i. *)
Inner(cs, n, i) == cs # << >> /\ n = Len(cs) /\ i = cs[n].capturer

(* The innermost call, and those outside of it. *)
Around(h, txt, cs, r, live, d, n, i) ==
  /\ Stack(h, txt, cs, r, live, d)
  /\ n \in Nat /\ n >= 1 /\ n \in 1 .. n /\ 1 \in 1 .. n
  /\ \A k \in 1 .. n : k \in Nat /\ cs[k].capturer \in live
                       /\ cs[k].capturer \in 1 .. Len(h) /\ (k = n \/ k < n)
  /\ \A k \in 1 .. n - 1 : /\ k \in 1 .. n /\ k + 1 \in 1 .. n /\ k < n /\ k # n
                           /\ cs[k].capturer # i /\ cs[k].capturer < i
  /\ i \in live /\ i \in 1 .. Len(h) /\ Len(txt) \in Nat

LEMMA Innermost ==
  ASSUME NEW h, NEW txt, NEW cs, NEW r, NEW live, NEW d, Keeps(h, txt, cs, r, live, d),
         NEW n, NEW i, Inner(cs, n, i)
  PROVE  Around(h, txt, cs, r, live, d, n, i)
<1>20. cs # << >> /\ n = Len(cs) /\ i = cs[n].capturer
  BY DEF Inner
<1>1. Stack(h, txt, cs, r, live, d)
  BY <1>20 DEF Keeps
<1>2. n \in Nat /\ n >= 1 /\ n \in 1 .. n /\ 1 \in 1 .. n
  BY <1>1, <1>20, ListProperties DEF Stack
<1>3. \A k \in 1 .. n : k \in Nat /\ (k = n \/ k < n)
  BY <1>2
<1>4. live \subseteq 1 .. Len(h) /\ Len(h) \in Nat
  BY ListProperties DEF Keeps, Forest, Closed, Links
<1>5. \A k \in 1 .. n : cs[k].capturer \in live /\ cs[k].capturer \in 1 .. Len(h)
  BY <1>1, <1>4, <1>20 DEF Stack
<1>6. \A k \in 1 .. n - 1 : k \in 1 .. n /\ k + 1 \in 1 .. n /\ k < n /\ k # n
  BY <1>2
<1>7. \A k \in 1 .. n - 1 : cs[k].capturer < i
  BY <1>1, <1>2, <1>6, <1>20 DEF Stack
<1>8. i \in live /\ i \in 1 .. Len(h)
  BY <1>2, <1>5, <1>20
<1>9. \A x, y \in 1 .. Len(h) : x < y => x # y
  BY <1>4
<1>10. \A k \in 1 .. n - 1 : cs[k].capturer # i
  BY <1>5, <1>6, <1>7, <1>8, <1>9
<1>11. Len(txt) \in Nat
  BY ListProperties DEF Keeps
<1> QED
  BY <1>1, <1>2, <1>3, <1>5, <1>6, <1>7, <1>8, <1>10, <1>11 DEF Around

(* What the calls need is kept where the capturers keep what they have. *)
LEMMA SameForest ==
  ASSUME NEW h, NEW live, Forest(h, live), NEW t, Len(h) \in Nat, Len(t) = Len(h),
         \A x \in live : t[x].subclauses = h[x].subclauses
  PROVE  Forest(t, live) /\ \A r : IsTop(h, live, r) => IsTop(t, live, r)
<1>1. Closed(t, live)
  BY DEF Forest, Closed
<1>2. ASSUME NEW p \in live, NEW q \in live, NEW k \in 1 .. Len(t[p].subclauses),
             NEW l \in 1 .. Len(t[q].subclauses), t[p].subclauses[k] = t[q].subclauses[l]
      PROVE  p = q /\ k = l
  <2>1. /\ h[p].subclauses[k] = h[q].subclauses[l]
        /\ k \in 1 .. Len(h[p].subclauses) /\ l \in 1 .. Len(h[q].subclauses)
    BY <1>2
  <2> QED
    BY <2>1 DEF Forest
<1>3. \A r : IsTop(h, live, r) => IsTop(t, live, r)
  BY DEF IsTop
<1> QED
  BY <1>1, <1>2, <1>3 DEF Forest

(* What c has generated of the capturers h, e has of t. *)
SameCall(h, c, t, e, d) ==
  /\ e.capturer = c.capturer /\ e.next = c.next /\ c.next \in Nat /\ c.next # 0
  /\ e.start = c.start
  /\ Len(h[c.capturer].subclauses) \in {0, 1, 2}
  /\ t[c.capturer].subclauses = h[c.capturer].subclauses
  /\ t[c.capturer].kept = h[c.capturer].kept
  /\ \A k \in 1 .. Len(h[c.capturer].subclauses) :
       t[h[c.capturer].subclauses[k]].kept = h[h[c.capturer].subclauses[k]].kept
  /\ e.clean => h[c.capturer].kept # {} /\ e.drawn = d
  /\ e.imports # {} => h[c.capturer].kept = {}

LEMMA SameFrame ==
  ASSUME NEW h, NEW txt, NEW c, NEW p, NEW d, Frame(h, txt, c, p, d), NEW t, NEW e, NEW d2,
         SameCall(h, c, t, e, d2)
  PROVE  Frame(t, txt, e, p, d2)
<1>1. PICK s, m, n : s = h[c.capturer].subclauses /\ m = c.next - 1 /\ n = Len(s)
  OBVIOUS
<1>2. m \in 0 .. n /\ n \in {0, 1, 2}
  BY <1>1 DEF Frame, SameCall
<1>3. m \in {0, 1, 2} /\ \A k \in 1 .. m : k \in 1 .. n
  BY <1>2
<1>4. \A k \in 1 .. m : t[s[k]].kept = h[s[k]].kept
  BY <1>1, <1>3 DEF SameCall
<1>5. Told(t, s, m) = Told(h, s, m)
  BY ONLY <1>3, <1>4, SameTelling
<1>6. \A k \in 1 .. m : t[s[k]].kept # {}
  BY <1>1, <1>4 DEF Frame
<1>7. SubSeq(txt, c.start + 1, p) = Told(h, s, m) /\ p \in 0 .. Len(txt) /\ c.start \in 0 .. p
  BY <1>1 DEF Frame
<1>8. /\ t[e.capturer].subclauses = s /\ e.next - 1 = m /\ e.start = c.start
      /\ t[e.capturer].kept = h[c.capturer].kept
      /\ e.clean => h[c.capturer].kept # {} /\ e.drawn = d2
      /\ e.imports # {} => h[c.capturer].kept = {}
  BY <1>1 DEF SameCall
<1> QED
  BY <1>1, <1>2, <1>5, <1>6, <1>7, <1>8 DEF Frame

(* The calls when a capturer generates. *)
Entered(cs, imports, kept, len, d, es) ==
  /\ IsList(es) /\ Len(es) = Len(cs)
  /\ \A k \in 1 .. Len(cs) : /\ es[k].capturer = cs[k].capturer
                             /\ es[k].clean <=> cs[k].clean /\ kept # {}
  /\ \A k \in 1 .. Len(cs) - 1 : /\ es[k].next = cs[k].next /\ es[k].start = cs[k].start
                                 /\ es[k].imports = cs[k].imports /\ es[k].drawn = cs[k].drawn
  /\ es[Len(cs)].next = 1 /\ es[Len(cs)].start = len
  /\ es[Len(cs)].drawn = d /\ es[Len(cs)].imports = imports

(* A call whose capturer is i is entered: the capturers become t. *)
HeapEntered(h, live, r, i, d, imports, t, used, d2) ==
  /\ Links(t) /\ Forest(t, used) /\ IsTop(t, used, r) /\ live \subseteq used
  /\ \A x \in live : t[x].kept = h[x].kept
  /\ \A x \in live : x # i => t[x].subclauses = h[x].subclauses /\ t[x].name = h[x].name
  /\ \A x \in used : x \notin live => t[x].kept = {}
  /\ h[i].kept # {} => d2 = d /\ t[i].subclauses = h[i].subclauses /\ t[i].name = h[i].name
  /\ imports # {} => h[i].kept = {}

(* A call generates its subclauses, or has them already. *)
LEMMA EnterKeeps ==
  ASSUME NEW h, NEW txt, NEW cs, NEW r, NEW live, NEW d, Keeps(h, txt, cs, r, live, d),
         NEW n, NEW i, Inner(cs, n, i), cs[n].next = 0,
         NEW imports, NEW t, NEW used, NEW d2, HeapEntered(h, live, r, i, d, imports, t, used, d2),
         NEW es, Entered(cs, imports, h[i].kept, Len(txt), d, es)
  PROVE  Keeps(t, txt, es, r, used, d2)
<1>21. cs # << >> /\ n = Len(cs) /\ i = cs[n].capturer
  BY DEF Inner
<1>11. Links(t) /\ Forest(t, used) /\ IsTop(t, used, r) /\ live \subseteq used
  BY DEF HeapEntered
<1>12. \A x \in live : t[x].kept = h[x].kept
  BY DEF HeapEntered
<1>13. \A x \in live : x # i => t[x].subclauses = h[x].subclauses /\ t[x].name = h[x].name
  BY DEF HeapEntered
<1>14. \A x \in used : x \notin live => t[x].kept = {}
  BY DEF HeapEntered
<1>15. h[i].kept # {} => d2 = d /\ t[i].subclauses = h[i].subclauses /\ t[i].name = h[i].name
  BY DEF HeapEntered
<1>16. imports # {} => h[i].kept = {}
  BY DEF HeapEntered
<1>17. IsList(es) /\ Len(es) = n
  BY <1>21 DEF Entered
<1>18. \A k \in 1 .. n : /\ es[k].capturer = cs[k].capturer
                         /\ es[k].clean <=> cs[k].clean /\ h[i].kept # {}
  BY <1>21 DEF Entered
<1>19. \A k \in 1 .. n - 1 : /\ es[k].next = cs[k].next /\ es[k].start = cs[k].start
                             /\ es[k].imports = cs[k].imports /\ es[k].drawn = cs[k].drawn
  BY <1>21 DEF Entered
<1>20. es[n].next = 1 /\ es[n].start = Len(txt) /\ es[n].drawn = d /\ es[n].imports = imports
  BY <1>21 DEF Entered
<1>1. /\ Stack(h, txt, cs, r, live, d)
      /\ n \in Nat /\ n >= 1 /\ n \in 1 .. n /\ 1 \in 1 .. n
      /\ \A k \in 1 .. n : k \in Nat /\ cs[k].capturer \in live
                           /\ cs[k].capturer \in 1 .. Len(h) /\ (k = n \/ k < n)
      /\ \A k \in 1 .. n - 1 : /\ k \in 1 .. n /\ k + 1 \in 1 .. n /\ k < n /\ k # n
                               /\ cs[k].capturer # i /\ cs[k].capturer < i
      /\ i \in live /\ i \in 1 .. Len(h) /\ Len(txt) \in Nat
  <2>1. Keeps(h, txt, cs, r, live, d) /\ Inner(cs, n, i)
    OBVIOUS
  <2>2. Around(h, txt, cs, r, live, d, n, i)
    BY ONLY <2>1, Innermost
  <2> QED
    BY ONLY <2>2 DEF Around
<1> USE <1>11, <1>12, <1>13, <1>14, <1>15, <1>16, <1>17, <1>18, <1>19, <1>20
<1>2. \A k \in 1 .. n : k = n \/ k \in 1 .. n - 1
  BY <1>1
<1>3. \A x \in live : /\ x \in 1 .. Len(h) /\ Len(h[x].subclauses) \in {0, 1, 2}
                      /\ \A k \in 1 .. Len(h[x].subclauses) : h[x].subclauses[k] \in live
  <2>1. \A x \in live : x \in 1 .. Len(h)
    BY DEF Keeps, Forest, Closed
  <2>2. \A x \in 1 .. Len(h) : Len(h[x].subclauses) \in {0, 1, 2}
    BY Subclause DEF Keeps
  <2> QED
    BY <2>1, <2>2 DEF Keeps, Forest, Closed
<1>4. ASSUME NEW k \in 1 .. n - 1
      PROVE  /\ cs[k].next \in 1 .. Len(h[cs[k].capturer].subclauses)
             /\ cs[k].next \in Nat /\ cs[k].next # 0
             /\ cs[k + 1].capturer = h[cs[k].capturer].subclauses[cs[k].next]
             /\ cs[k + 1].next # 0 /\ cs[k].clean => cs[k + 1].clean
             /\ Frame(h, txt, cs[k], Pos(cs, txt, k), d)
  <2>1. /\ cs[k].next \in 1 .. Len(h[cs[k].capturer].subclauses)
        /\ cs[k + 1].capturer = h[cs[k].capturer].subclauses[cs[k].next]
        /\ cs[k + 1].next # 0 /\ cs[k].clean => cs[k + 1].clean
    BY <1>1, <1>21 DEF Stack
  <2>2. \A m \in {0, 1, 2} : \A x \in 1 .. m : x \in Nat /\ x # 0
    OBVIOUS
  <2>3. cs[k].next \in Nat /\ cs[k].next # 0
    BY <1>1, <1>3, <2>1, <2>2
  <2> QED
    BY <1>1, <2>1, <2>3, <1>21 DEF Stack
<1>5. ASSUME NEW k \in 1 .. n - 1 PROVE Pos(es, txt, k) = Pos(cs, txt, k)
  <2>1. CASE k + 1 = n
    <3>1. es[k + 1].next = 1 /\ es[k + 1].start = Len(txt) /\ cs[k + 1].next = 0
      BY <2>1
    <3> QED
      BY <3>1 DEF Pos
  <2>2. CASE k + 1 # n
    <3>1. k + 1 \in 1 .. n - 1
      BY <1>1, <1>2, <2>2
    <3>2. es[k + 1].next = cs[k + 1].next /\ es[k + 1].start = cs[k + 1].start
      BY <3>1
    <3>3. Len(es) = Len(cs)
      BY <1>21
    <3> QED
      BY <3>2, <3>3 DEF Pos
  <2> QED
    BY <2>1, <2>2
<1>6. ASSUME NEW k \in 1 .. n - 1 PROVE Frame(t, txt, es[k], Pos(es, txt, k), d2)
  <2>1. PICK c, e, p, x : c = cs[k] /\ e = es[k] /\ p = Pos(cs, txt, k) /\ x = cs[k].capturer
    OBVIOUS
  <2>2. /\ Frame(h, txt, c, p, d) /\ c.next \in Nat /\ c.next # 0
    BY <1>4, <2>1
  <2>3. /\ e.capturer = c.capturer /\ e.next = c.next /\ e.start = c.start
        /\ e.imports = c.imports /\ e.drawn = c.drawn /\ (e.clean => c.clean /\ h[i].kept # {})
    BY <1>1, <2>1
  <2>4. x \in live /\ x # i /\ c.capturer = x
    BY <1>1, <2>1
  <2>5. /\ Len(h[c.capturer].subclauses) \in {0, 1, 2}
        /\ t[c.capturer].subclauses = h[c.capturer].subclauses
        /\ t[c.capturer].kept = h[c.capturer].kept
        /\ \A l \in 1 .. Len(h[c.capturer].subclauses) :
             t[h[c.capturer].subclauses[l]].kept = h[h[c.capturer].subclauses[l]].kept
    BY <1>3, <2>4
  <2>6. (e.clean => h[c.capturer].kept # {} /\ e.drawn = d2)
        /\ (e.imports # {} => h[c.capturer].kept = {})
    BY <2>2, <2>3 DEF Frame
  <2>8. /\ e.capturer = c.capturer /\ e.next = c.next /\ e.start = c.start
    BY <2>3
  <2>7. SameCall(h, c, t, e, d2)
    BY ONLY <2>2, <2>5, <2>6, <2>8 DEF SameCall
  <2>9. Frame(t, txt, e, p, d2)
    BY <2>2, <2>7, SameFrame
  <2> QED
    BY <1>5, <2>1, <2>9
<1>7. Frame(t, txt, es[n], Pos(es, txt, n), d2)
  <2>1. PICK e, m : e = es[n] /\ m = Len(txt)
    OBVIOUS
  <2>2. Pos(es, txt, n) = m
    BY <1>1, <2>1 DEF Pos
  <2>3. /\ e.capturer = i /\ e.next = 1 /\ e.start = m /\ e.drawn = d /\ e.imports = imports
        /\ (e.clean => h[i].kept # {}) /\ m \in Nat
    BY <1>1, <2>1, <1>21
  <2>4. e.next - 1 = 0 /\ m \in 0 .. m /\ \A k \in 1 .. 0 : FALSE
    BY <2>3
  <2>5. SubSeq(txt, m + 1, m) = << >>
    BY <2>1, NothingWritten DEF Keeps
  <2>6. Told(t, t[i].subclauses, 0) = << >>
    BY DEF Told
  <2>7. 0 \in 0 .. Len(t[i].subclauses)
    <3>1. i \in 1 .. Len(t)
      BY <1>1 DEF Forest, Closed
    <3>2. Len(t[i].subclauses) \in {0, 1, 2}
      BY <3>1, Subclause
    <3> QED
      BY <3>2
  <2>8. t[i].kept = h[i].kept /\ (h[i].kept # {} => d2 = d)
    BY <1>1
  <2>9. Frame(t, txt, e, m, d2)
    <3>1. e.next - 1 \in 0 .. Len(t[e.capturer].subclauses)
      BY <2>3, <2>4, <2>7
    <3>2. m \in 0 .. Len(txt) /\ e.start \in 0 .. m
      BY <2>1, <2>3, <2>4
    <3>3. \A k \in 1 .. e.next - 1 : t[t[e.capturer].subclauses[k]].kept # {}
      BY <2>4
    <3>4. SubSeq(txt, e.start + 1, m) = Told(t, t[e.capturer].subclauses, e.next - 1)
      BY <2>3, <2>4, <2>5, <2>6
    <3>5. e.clean => t[e.capturer].kept # {} /\ e.drawn = d2
      BY <2>3, <2>8
    <3>6. e.imports # {} => t[e.capturer].kept = {}
      BY <2>3, <2>8
    <3> QED
      BY <3>1, <3>2, <3>3, <3>4, <3>5, <3>6 DEF Frame
  <2> QED
    BY <2>1, <2>2, <2>9
<1>8. Stack(t, txt, es, r, used, d2)
  <2>1. es # << >> /\ es[1].capturer = r
    BY <1>1, EmptySeq DEF Stack
  <2>2. ASSUME NEW k \in 1 .. n
        PROVE  /\ es[k].capturer \in used
               /\ es[k].next \in Nat /\ es[k].next # 0
               /\ Frame(t, txt, es[k], Pos(es, txt, k), d2)
    <3>1. CASE k = n
      <4>1. es[k].capturer \in live /\ es[k].next = 1
        BY <1>1, <3>1
      <4> QED
        BY <1>7, <3>1, <4>1
    <3>2. CASE k \in 1 .. n - 1
      <4>2. cs[k].capturer \in live /\ es[k].capturer = cs[k].capturer
        BY <1>1
      <4>3. es[k].next = cs[k].next
        BY <3>2
      <4>1. es[k].capturer \in live /\ es[k].next \in Nat /\ es[k].next # 0
        BY <1>4, <3>2, <4>2, <4>3
      <4> QED
        BY <1>6, <3>2, <4>1
    <3> QED
      BY <1>2, <3>1, <3>2
  <2>3. ASSUME NEW k \in 1 .. n - 1
        PROVE  /\ es[k].next \in 1 .. Len(t[es[k].capturer].subclauses)
               /\ es[k + 1].capturer = t[es[k].capturer].subclauses[es[k].next]
               /\ es[k + 1].next # 0 /\ es[k].clean => es[k + 1].clean
    <3>1. /\ es[k].next = cs[k].next /\ es[k].capturer = cs[k].capturer
          /\ es[k + 1].capturer = cs[k + 1].capturer
      BY <1>1
    <3>2. t[cs[k].capturer].subclauses = h[cs[k].capturer].subclauses
      BY <1>1
    <3>3. es[k].clean => es[k + 1].clean
      <4>1. cs[k].clean => cs[k + 1].clean
        <5>1. cs[k + 1].next = 0 => cs[k + 1].clean
          BY <1>1, <1>21 DEF Stack
        <5> QED
          BY <1>4, <5>1
      <4> QED
        BY <1>1, <4>1
    <3> QED
      BY <1>4, <3>1, <3>2, <3>3
  <2>4. \A k, l \in 1 .. n : k < l => es[k].capturer < es[l].capturer
    BY <1>1, <1>21 DEF Stack
  <2> QED
    BY <2>1, <2>2, <2>3, <2>4 DEF Stack
<1>9. ASSUME NEW x \in used PROVE Unclean(es, x) \/ Consistent(t, x)
  <2>1. CASE x \notin live
    BY <2>1 DEF Consistent
  <2>2. CASE x \in live /\ Unclean(cs, x)
    <3>1. PICK k \in 1 .. n : cs[k].capturer = x /\ cs[k].next # 0 /\ ~cs[k].clean
      BY <2>2, <1>21 DEF Unclean
    <3>2. k \in 1 .. n - 1
      BY <1>2, <3>1
    <3>3. es[k].capturer = x /\ es[k].next # 0 /\ ~es[k].clean
      BY <3>1, <3>2
    <3> QED
      BY <3>3 DEF Unclean
  <2>3. CASE x \in live /\ Consistent(h, x)
    <3>1. CASE x = i /\ h[i].kept = {}
      BY <1>1, <3>1 DEF Consistent
    <3>2. CASE x # i \/ h[i].kept # {}
      <4>1. /\ t[x].subclauses = h[x].subclauses /\ t[x].name = h[x].name /\ t[x].kept = h[x].kept
        BY <1>1, <2>3, <3>2
      <4>2. \A k \in 1 .. Len(h[x].subclauses) :
              t[t[x].subclauses[k]].kept = h[h[x].subclauses[k]].kept
        BY <1>3, <2>3, <4>1
      <4>3. Len(h[x].subclauses) \in {0, 1, 2} /\ Len(t[x].subclauses) = Len(h[x].subclauses)
            /\ t[x].kept = h[x].kept /\ t[x].name = h[x].name /\ Consistent(h, x)
        BY <1>3, <2>3, <4>1
      <4> QED
        BY ONLY <4>2, <4>3, SameConsistent
    <3> QED
      BY <3>1, <3>2
  <2> QED
    BY <2>1, <2>2, <2>3 DEF Keeps
<1>10. IsList(txt)
  BY DEF Keeps
<1> QED
  BY <1>8, <1>9, <1>10 DEF Keeps

(* The subclauses of those in use, and the calls outside of the innermost. *)
Outside(h, txt, cs, live, d, n) ==
  /\ \A x \in live :
       /\ x \in 1 .. Len(h) /\ x \in Nat /\ Len(h[x].subclauses) \in {0, 1, 2}
       /\ \A k \in 1 .. Len(h[x].subclauses) :
            h[x].subclauses[k] \in live /\ x < h[x].subclauses[k] /\ h[x].subclauses[k] # x
  /\ \A k \in 1 .. n - 1 :
       /\ cs[k].next \in 1 .. Len(h[cs[k].capturer].subclauses)
       /\ cs[k].next \in Nat /\ cs[k].next # 0
       /\ cs[k + 1].capturer = h[cs[k].capturer].subclauses[cs[k].next]
       /\ cs[k].clean => cs[k + 1].clean
       /\ Frame(h, txt, cs[k], Pos(cs, txt, k), d)

LEMMA CallsOutside ==
  ASSUME NEW h, NEW txt, NEW cs, NEW r, NEW live, NEW d, Keeps(h, txt, cs, r, live, d),
         NEW n, NEW i, Inner(cs, n, i)
  PROVE  Outside(h, txt, cs, live, d, n)
<1>1. cs # << >> /\ n = Len(cs) /\ i = cs[n].capturer
  BY DEF Inner
<1>2. /\ Stack(h, txt, cs, r, live, d)
      /\ \A k \in 1 .. n : cs[k].capturer \in live
      /\ \A k \in 1 .. n - 1 : k \in 1 .. n /\ k + 1 \in 1 .. n
  BY Innermost DEF Around
<1>3. \A x \in live : /\ x \in 1 .. Len(h) /\ x \in Nat /\ Len(h[x].subclauses) \in {0, 1, 2}
                      /\ \A k \in 1 .. Len(h[x].subclauses) :
                           h[x].subclauses[k] \in live /\ x < h[x].subclauses[k]
                           /\ h[x].subclauses[k] \in Nat
  <2>1. \A x \in live : x \in 1 .. Len(h) /\ x \in Nat
    BY DEF Keeps, Forest, Closed
  <2>2. \A x \in 1 .. Len(h) : /\ Len(h[x].subclauses) \in {0, 1, 2}
                               /\ \A k \in 1 .. Len(h[x].subclauses) :
                                    x < h[x].subclauses[k] /\ h[x].subclauses[k] \in Nat
    BY Subclause DEF Keeps
  <2> QED
    BY <2>1, <2>2 DEF Keeps, Forest, Closed
<1>4. \A x, y \in Nat : x < y => y # x
  OBVIOUS
<1>5. \A x \in live : \A k \in 1 .. Len(h[x].subclauses) : h[x].subclauses[k] # x
  BY <1>3, <1>4
<1>6. ASSUME NEW k \in 1 .. n - 1
      PROVE  /\ cs[k].next \in 1 .. Len(h[cs[k].capturer].subclauses)
             /\ cs[k].next \in Nat /\ cs[k].next # 0
             /\ cs[k + 1].capturer = h[cs[k].capturer].subclauses[cs[k].next]
             /\ cs[k].clean => cs[k + 1].clean
             /\ Frame(h, txt, cs[k], Pos(cs, txt, k), d)
  <2>1. /\ cs[k].next \in 1 .. Len(h[cs[k].capturer].subclauses)
        /\ cs[k + 1].capturer = h[cs[k].capturer].subclauses[cs[k].next]
        /\ cs[k + 1].next # 0 /\ cs[k].clean => cs[k + 1].clean
        /\ cs[k + 1].next = 0 => cs[k + 1].clean
    BY <1>1, <1>2 DEF Stack
  <2>2. \A m \in {0, 1, 2} : \A x \in 1 .. m : x \in Nat /\ x # 0
    OBVIOUS
  <2>3. cs[k].next \in Nat /\ cs[k].next # 0
    BY <1>2, <1>3, <2>1, <2>2
  <2> QED
    BY <1>1, <1>2, <2>1, <2>3 DEF Stack
<1> QED
  BY <1>3, <1>5, <1>6 DEF Outside

LEMMA AllUnclean ==
  ASSUME NEW h, NEW txt, NEW cs, NEW r, NEW live, NEW d, Keeps(h, txt, cs, r, live, d),
         NEW n, NEW i, Inner(cs, n, i), cs[n].next # 0, ~cs[n].clean
  PROVE  \A k \in 1 .. n : cs[k].next # 0 /\ ~cs[k].clean
<1>1. cs # << >> /\ n = Len(cs) /\ i = cs[n].capturer
  BY DEF Inner
<1>2. /\ n \in Nat /\ n \in 1 .. n /\ \A k \in 1 .. n : k = n \/ k < n
      /\ \A k \in 1 .. n - 1 : k \in 1 .. n /\ k + 1 \in 1 .. n
  BY Innermost DEF Around
<1>3. \A k \in 1 .. n - 1 : cs[k].next # 0 /\ (cs[k].clean => cs[k + 1].clean)
  BY CallsOutside DEF Outside
<1>4. \A k \in 1 .. n : k = n \/ (k \in 1 .. n - 1 /\ k < k + 1)
  BY <1>2
<1>5. PICK B : B = {k \in 1 .. n : cs[k].clean}
  OBVIOUS
<1>6. ASSUME NEW k \in B PROVE \E l \in B : k < l
  <2>1. k \in 1 .. n /\ cs[k].clean
    BY <1>5
  <2>2. k \in 1 .. n - 1 /\ k < k + 1
    BY <1>4, <2>1
  <2> QED
    BY <1>2, <1>3, <1>5, <2>1, <2>2
<1>7. B \in SUBSET (1 .. n)
  BY <1>5
<1>8. B = {}
  BY <1>2, <1>6, <1>7, NoAscent
<1> QED
  BY <1>3, <1>4, <1>5, <1>8

(* A call asks about a name that it imports. *)
LEMMA ImportKeeps ==
  ASSUME NEW h, NEW txt, NEW cs, NEW r, NEW live, NEW d, Keeps(h, txt, cs, r, live, d),
         NEW n, NEW i, Inner(cs, n, i), cs[n].imports # {},
         NEW t, NEW d2, Links(t), Len(t) = Len(h),
         \A x \in 1 .. Len(h) : /\ t[x].kept = h[x].kept /\ t[x].subclauses = h[x].subclauses
                                /\ x # i => t[x].name = h[x].name,
         NEW e, NEW es, Changed(cs, n, e, es),
         e.capturer = i, e.next = cs[n].next, e.start = cs[n].start, e.clean <=> cs[n].clean
  PROVE  Keeps(t, txt, es, r, live, d2)
<1>21. cs # << >> /\ n = Len(cs) /\ i = cs[n].capturer
  BY DEF Inner
<1>1. /\ Stack(h, txt, cs, r, live, d)
      /\ n \in Nat /\ n >= 1 /\ n \in 1 .. n /\ 1 \in 1 .. n
      /\ \A k \in 1 .. n : cs[k].capturer \in live /\ cs[k].capturer \in 1 .. Len(h)
      /\ \A k \in 1 .. n - 1 : k \in 1 .. n /\ k + 1 \in 1 .. n /\ k < n /\ k # n
      /\ i \in live /\ i \in 1 .. Len(h)
  BY Innermost DEF Around
<1>2. \A x \in live : /\ x \in 1 .. Len(h) /\ Len(h[x].subclauses) \in {0, 1, 2}
                      /\ \A k \in 1 .. Len(h[x].subclauses) : h[x].subclauses[k] \in live
  BY CallsOutside DEF Outside
<1>3. /\ cs[n].next # 0 /\ cs[n].next \in Nat /\ Frame(h, txt, cs[n], Pos(cs, txt, n), d)
  <2>1. cs[n].imports # {}
    OBVIOUS
  <2> QED
    BY ONLY <1>1, <1>21, <2>1 DEF Stack
<1>4. h[i].kept = {} /\ ~cs[n].clean
  BY <1>3, <1>21 DEF Frame
<1>5. \A k \in 1 .. n : cs[k].next # 0 /\ ~cs[k].clean
  BY <1>3, <1>4, AllUnclean
<1>6. /\ IsList(es) /\ Len(es) = n
      /\ \A k \in 1 .. n : /\ es[k] = IF k = n THEN e ELSE cs[k]
                           /\ es[k].capturer = cs[k].capturer /\ es[k].next = cs[k].next
                           /\ es[k].start = cs[k].start /\ ~es[k].clean
  BY <1>5, <1>21 DEF Changed
<1>7. \A k \in 1 .. n : Pos(es, txt, k) = Pos(cs, txt, k)
  <2>1. \A k \in 1 .. n : k < n => k + 1 \in 1 .. n
    BY <1>1
  <2> QED
    BY <1>6, <2>1, <1>21 DEF Pos
<1>8. ASSUME NEW k \in 1 .. n PROVE Frame(t, txt, es[k], Pos(es, txt, k), d2)
  <2>1. PICK c, f, p, x : c = cs[k] /\ f = es[k] /\ p = Pos(cs, txt, k) /\ x = cs[k].capturer
    OBVIOUS
  <2>2. Frame(h, txt, c, p, d) /\ c.next \in Nat /\ c.next # 0
    BY <1>1, <1>5, <2>1, <1>21 DEF Stack
  <2>3. f.capturer = c.capturer /\ f.next = c.next /\ f.start = c.start /\ ~f.clean
    BY <1>6, <2>1
  <2>4. x \in live /\ c.capturer = x
    BY <1>1, <2>1
  <2>5. /\ Len(h[c.capturer].subclauses) \in {0, 1, 2}
        /\ t[c.capturer].subclauses = h[c.capturer].subclauses
        /\ t[c.capturer].kept = h[c.capturer].kept
        /\ \A l \in 1 .. Len(h[c.capturer].subclauses) :
             t[h[c.capturer].subclauses[l]].kept = h[h[c.capturer].subclauses[l]].kept
    BY <1>2, <2>4
  <2>6. f.imports # {} => h[c.capturer].kept = {}
    <3>1. CASE k = n
      <4>1. c.capturer = i
        BY <1>21, <2>1, <3>1
      <4> QED
        BY <1>4, <4>1
    <3>2. CASE k # n
      BY <1>6, <2>1, <2>2, <3>2 DEF Frame
    <3> QED
      BY <3>1, <3>2
  <2>7. f.clean => h[c.capturer].kept # {} /\ f.drawn = d2
    BY <2>3
  <2>8. f.capturer = c.capturer /\ f.next = c.next /\ f.start = c.start
    BY <2>3
  <2>9. SameCall(h, c, t, f, d2)
    BY ONLY <2>2, <2>5, <2>6, <2>7, <2>8 DEF SameCall
  <2>10. Frame(t, txt, f, p, d2)
    BY <2>2, <2>9, SameFrame
  <2> QED
    BY <1>7, <2>1, <2>10
<1>9. Stack(t, txt, es, r, live, d2)
  <2>1. es # << >> /\ es[1].capturer = r
    BY <1>1, <1>6, EmptySeq DEF Stack
  <2>2. ASSUME NEW k \in 1 .. n
        PROVE  es[k].capturer \in live /\ es[k].next \in Nat /\ es[k].next # 0
    <3>1. cs[k].next \in Nat
      BY <1>1, <1>21 DEF Stack
    <3> QED
      BY <1>1, <1>5, <1>6, <3>1
  <2>3. ASSUME NEW k \in 1 .. n - 1
        PROVE  /\ es[k].next \in 1 .. Len(t[es[k].capturer].subclauses)
               /\ es[k + 1].capturer = t[es[k].capturer].subclauses[es[k].next]
               /\ es[k + 1].next # 0 /\ es[k].clean => es[k + 1].clean
    <3>1. /\ cs[k].next \in 1 .. Len(h[cs[k].capturer].subclauses)
          /\ cs[k + 1].capturer = h[cs[k].capturer].subclauses[cs[k].next]
      BY <1>1, <1>21 DEF Stack
    <3>2. t[cs[k].capturer].subclauses = h[cs[k].capturer].subclauses
      BY <1>1
    <3> QED
      BY <1>1, <1>6, <3>1, <3>2, <1>21
  <2>4. \A k, l \in 1 .. n : k < l => es[k].capturer < es[l].capturer
    BY <1>1, <1>6, <1>21 DEF Stack
  <2> QED
    BY <1>6, <1>8, <2>1, <2>2, <2>3, <2>4 DEF Stack
<1>10. ASSUME NEW x \in live PROVE Unclean(es, x) \/ Consistent(t, x)
  <2>1. CASE Unclean(cs, x)
    <3>1. PICK k \in 1 .. n : cs[k].capturer = x
      BY <2>1, <1>21 DEF Unclean
    <3> QED
      BY <1>5, <1>6, <3>1 DEF Unclean
  <2>2. CASE x = i
    BY <1>1, <1>4, <2>2 DEF Consistent
  <2>3. CASE x # i /\ Consistent(h, x)
    <3>1. /\ t[x].subclauses = h[x].subclauses /\ t[x].name = h[x].name /\ t[x].kept = h[x].kept
      BY <1>2, <2>3
    <3>2. \A k \in 1 .. Len(h[x].subclauses) :
            t[t[x].subclauses[k]].kept = h[h[x].subclauses[k]].kept
      BY <1>2, <3>1
    <3>3. Len(h[x].subclauses) \in {0, 1, 2} /\ Len(t[x].subclauses) = Len(h[x].subclauses)
          /\ t[x].kept = h[x].kept /\ t[x].name = h[x].name /\ Consistent(h, x)
      BY <1>2, <2>3, <3>1
    <3> QED
      BY ONLY <3>2, <3>3, SameConsistent
  <2> QED
    BY <2>1, <2>2, <2>3 DEF Keeps
<1>11. Forest(t, live) /\ IsTop(t, live, r) /\ IsList(txt)
  <2>1. \A x \in live : t[x].subclauses = h[x].subclauses
    BY <1>2
  <2>2. Len(h) \in Nat /\ Forest(h, live) /\ IsTop(h, live, r) /\ IsList(txt)
    BY ListProperties DEF Keeps, Links
  <2> QED
    BY <2>1, <2>2, SameForest
<1> QED
  BY <1>9, <1>10, <1>11 DEF Keeps

(* A call makes another one. *)
LEMMA SubcallKeeps ==
  ASSUME NEW h, NEW txt, NEW cs, NEW r, NEW live, NEW d, Keeps(h, txt, cs, r, live, d),
         NEW n, NEW i, Inner(cs, n, i),
         cs[n].next \in 1 .. Len(h[i].subclauses),
         NEW c, c.capturer = h[i].subclauses[cs[n].next], c.next = 0, c.imports = {}, c.clean,
         NEW es, IsList(es), Len(es) = n + 1, es[n + 1] = c, \A k \in 1 .. n : es[k] = cs[k]
  PROVE  Keeps(h, txt, es, r, live, d)
<1>21. cs # << >> /\ n = Len(cs) /\ i = cs[n].capturer
  BY DEF Inner
<1>1. /\ Stack(h, txt, cs, r, live, d)
      /\ n \in Nat /\ n >= 1 /\ n \in 1 .. n /\ 1 \in 1 .. n
      /\ \A k \in 1 .. n : k \in Nat /\ cs[k].capturer \in live
                           /\ cs[k].capturer \in 1 .. Len(h) /\ (k = n \/ k < n)
      /\ \A k \in 1 .. n - 1 : /\ k \in 1 .. n /\ k + 1 \in 1 .. n /\ k < n /\ k # n
                               /\ cs[k].capturer # i /\ cs[k].capturer < i
      /\ i \in live /\ i \in 1 .. Len(h) /\ Len(txt) \in Nat
  <2>1. Keeps(h, txt, cs, r, live, d) /\ Inner(cs, n, i)
    OBVIOUS
  <2>2. Around(h, txt, cs, r, live, d, n, i)
    BY ONLY <2>1, Innermost
  <2> QED
    BY ONLY <2>2 DEF Around
<1>3. /\ IsList(es) /\ Len(es) = n + 1 /\ es[n + 1] = c
      /\ \A k \in 1 .. n : es[k] = cs[k]
  OBVIOUS
<1>10. n \in Nat
  BY ONLY <1>1
<1>11. \A k \in 1 .. n : k = n \/ (k \in 1 .. n - 1 /\ k + 1 \in 1 .. n /\ k < n + 1 /\ k < n)
  BY ONLY <1>10
<1>12. \A k, l \in 1 .. n + 1 : k < l => k \in 1 .. n /\ (l = n + 1 \/ l \in 1 .. n)
  BY ONLY <1>10
<1>9. \A x \in live :
        /\ x \in 1 .. Len(h) /\ x \in Nat /\ Len(h[x].subclauses) \in {0, 1, 2}
        /\ \A k \in 1 .. Len(h[x].subclauses) :
             h[x].subclauses[k] \in live /\ x < h[x].subclauses[k] /\ h[x].subclauses[k] # x
  BY CallsOutside DEF Outside
<1>4. /\ c.capturer \in live /\ i < c.capturer
      /\ \A x \in live : x \in Nat
  BY <1>1, <1>9
<1>5. \A k \in 1 .. n + 1 : (k = n + 1 \/ k \in 1 .. n) /\ k \in Nat
  BY <1>1
<1>6. \A k \in 1 .. n : Pos(es, txt, k) = Pos(cs, txt, k)
  <2>1. ASSUME NEW k \in 1 .. n PROVE Pos(es, txt, k) = Pos(cs, txt, k)
    <3>1. CASE k = n
      BY <1>1, <1>3, <3>1, <1>21 DEF Pos
    <3>2. CASE k < n
      <4>1. k + 1 \in 1 .. n /\ k < n + 1
        BY ONLY <1>10, <1>11, <3>2, k \in 1 .. n
      <4> QED
        BY <1>3, <3>2, <4>1, <1>21 DEF Pos
    <3> QED
      BY <1>1, <3>1, <3>2
  <2> QED
    BY <2>1
<1>7. Stack(h, txt, es, r, live, d)
  <2>1. es # << >> /\ es[1].capturer = r
    <3>1. n + 1 # 0
      BY <1>1
    <3> QED
      BY <1>1, <1>3, <3>1, EmptySeq DEF Stack
  <2>2. ASSUME NEW k \in 1 .. n + 1
        PROVE  /\ es[k].capturer \in live /\ es[k].next \in Nat
               /\ es[k].next # 0 => Frame(h, txt, es[k], Pos(es, txt, k), d)
               /\ es[k].next = 0 => es[k].imports = {} /\ es[k].clean
    <3>1. CASE k = n + 1
      BY <1>3, <1>4, <3>1
    <3>2. CASE k \in 1 .. n
      <4>1. /\ cs[k].capturer \in live /\ cs[k].next \in Nat
            /\ cs[k].next # 0 => Frame(h, txt, cs[k], Pos(cs, txt, k), d)
            /\ cs[k].next = 0 => cs[k].imports = {} /\ cs[k].clean
        BY <1>1, <3>2, <1>21 DEF Stack
      <4> QED
        BY <1>3, <1>6, <3>2, <4>1
    <3> QED
      BY <1>5, <3>1, <3>2
  <2>3. ASSUME NEW k \in 1 .. n
        PROVE  /\ es[k].next \in 1 .. Len(h[es[k].capturer].subclauses)
               /\ es[k + 1].capturer = h[es[k].capturer].subclauses[es[k].next]
               /\ es[k + 1].next # 0 /\ es[k].clean => es[k + 1].clean
    <3>1. CASE k = n
      BY <1>1, <1>3, <3>1, <1>21
    <3>2. CASE k # n
      <4>1. k \in 1 .. n - 1 /\ k + 1 \in 1 .. n
        BY <1>1, <3>2
      <4>2. /\ cs[k].next \in 1 .. Len(h[cs[k].capturer].subclauses)
            /\ cs[k + 1].capturer = h[cs[k].capturer].subclauses[cs[k].next]
            /\ cs[k + 1].next # 0 /\ cs[k].clean => cs[k + 1].clean
        BY <1>1, <4>1, <1>21 DEF Stack
      <4> QED
        BY <1>3, <4>1, <4>2
    <3> QED
      BY <3>1, <3>2
  <2>4. ASSUME NEW k \in 1 .. n + 1, NEW l \in 1 .. n + 1, k < l
        PROVE  es[k].capturer < es[l].capturer
    <3>1. CASE l = n + 1
      <4>1. k \in 1 .. n
        BY <1>1, <2>4, <3>1
      <4>2. cs[k].capturer = i \/ cs[k].capturer < i
        <5>1. k = n \/ k \in 1 .. n - 1
          BY <1>1, <4>1
        <5> QED
          BY <1>1, <5>1, <1>21
      <4>3. PICK x, y : x = cs[k].capturer /\ y = c.capturer
        OBVIOUS
      <4>4. x \in Nat /\ i \in Nat /\ y \in Nat
        BY <1>1, <1>4, <4>1, <4>3
      <4>5. (x = i \/ x < i) /\ i < y
        BY <1>4, <4>2, <4>3
      <4>6. x < y
        BY <4>4, <4>5
      <4> QED
        BY <1>3, <3>1, <4>1, <4>3, <4>6
    <3>2. CASE l # n + 1
      <4>1. k \in 1 .. n /\ l \in 1 .. n
        BY <1>12, <2>4, <3>2
      <4> QED
        BY <1>1, <1>3, <2>4, <4>1, <1>21 DEF Stack
    <3> QED
      BY <3>1, <3>2
  <2>5. (n + 1) - 1 = n
    BY <1>1
  <2> QED
    BY <1>3, <2>1, <2>2, <2>3, <2>4, <2>5 DEF Stack
<1>8. \A x \in live : Unclean(cs, x) => Unclean(es, x)
  <2>1. \A k \in 1 .. n : k \in 1 .. n + 1
    BY <1>1
  <2> QED
    BY <1>3, <2>1, <1>21 DEF Unclean
<1> QED
  BY <1>7, <1>8 DEF Keeps

(* The innermost call has nothing left to generate, and says this. *)
AtItsEnd(h, txt, cs, said) ==
  LET c == cs[Len(cs)]
      b == h[c.capturer]
  IN  /\ c.next # 0 /\ c.next > Len(b.subclauses)
      /\ said = SubSeq(txt, c.start + 1, Len(txt)) \o b.name

SaysWhatIsBelow(h, txt, i, c, d, said) ==
  /\ said = Told(h, h[i].subclauses, Len(h[i].subclauses)) \o h[i].name
  /\ \A k \in 1 .. Len(h[i].subclauses) : h[h[i].subclauses[k]].kept # {}
  /\ c.clean => h[i].kept = {said} /\ c.drawn = d
  /\ IsList(said) /\ c.start \in Nat /\ c.start <= Len(txt)

(* What a call says at its end is what those below it say, and its name. *)
LEMMA WhatIsSaid ==
  ASSUME NEW h, NEW txt, NEW cs, NEW r, NEW live, NEW d, Keeps(h, txt, cs, r, live, d),
         NEW n, NEW i, Inner(cs, n, i),
         NEW said, AtItsEnd(h, txt, cs, said)
  PROVE  SaysWhatIsBelow(h, txt, i, cs[n], d, said)
<1>21. cs # << >> /\ n = Len(cs) /\ i = cs[n].capturer
  BY DEF Inner
<1>1. /\ Stack(h, txt, cs, r, live, d)
      /\ n \in Nat /\ n \in 1 .. n
      /\ \A k \in 1 .. n - 1 : cs[k].capturer # i
      /\ i \in live /\ i \in 1 .. Len(h) /\ Len(txt) \in Nat
  BY Innermost DEF Around
<1>13. /\ cs[n].next # 0 /\ cs[n].next > Len(h[i].subclauses)
       /\ said = SubSeq(txt, cs[n].start + 1, Len(txt)) \o h[i].name
  BY <1>21 DEF AtItsEnd
<1>2. \A k \in 1 .. n : k = n \/ k \in 1 .. n - 1
  BY ONLY <1>1
<1>3. Frame(h, txt, cs[n], Pos(cs, txt, n), d) /\ cs[n].next \in Nat
  BY <1>1, <1>13, <1>21, Zenon DEF Stack
<1>4. Pos(cs, txt, n) = Len(txt)
  BY <1>1, <1>21 DEF Pos
<1>5. PICK m, next, len, start, s : /\ m = Len(h[i].subclauses) /\ next = cs[n].next /\ len = Len(txt)
                              /\ start = cs[n].start /\ s = h[i].subclauses
  BY Zenon
<1>6. m \in {0, 1, 2}
  <2>1. Len(h[i].subclauses) \in {0, 1, 2}
    BY <1>1, Subclause DEF Keeps
  <2> QED
    BY <1>5, <2>1
<1>7. next - 1 \in 0 .. m /\ next \in Nat /\ next > m /\ start \in 0 .. len /\ len \in Nat
  BY <1>1, <1>3, <1>4, <1>5, <1>13, <1>21, Zenon DEF Frame
<1>8. next - 1 = m /\ start \in Nat /\ start <= len
  BY ONLY <1>6, <1>7
<1>9. /\ \A k \in 1 .. m : h[s[k]].kept # {}
      /\ SubSeq(txt, start + 1, len) = Told(h, s, m)
      /\ cs[n].clean => h[i].kept # {} /\ cs[n].drawn = d
  BY <1>3, <1>4, <1>5, <1>8, <1>21, Zenon DEF Frame
<1>10. said = Told(h, s, m) \o h[i].name
  BY <1>5, <1>9, <1>13
<1>11. ASSUME cs[n].clean PROVE h[i].kept = {said}
  <2>1. ~Unclean(cs, i)
    BY <1>1, <1>2, <1>11, <1>21 DEF Unclean
  <2>2. Consistent(h, i)
    BY <1>1, <2>1 DEF Keeps
  <2> QED
    BY <1>5, <1>9, <1>10, <1>11, <2>2 DEF Consistent
<1>12. IsList(said)
  <2>1. IsList(txt) /\ IsList(h[i].name)
    BY <1>1 DEF Keeps, Links, IsCapturer
  <2>2. start <= start
    BY ONLY <1>8
  <2>3. len = Len(txt)
    BY <1>5
  <2>4. start \in Nat /\ start <= Len(txt)
    BY ONLY <1>8, <2>3
  <2>5. IsList(SubSeq(txt, start + 1, Len(txt)) \o h[i].name)
    BY ONLY <2>1, <2>2, <2>4, TextJoins
  <2> QED
    BY <1>5, <1>13, <2>5
<1> QED
  BY <1>5, <1>8, <1>9, <1>10, <1>11, <1>12, Zenon DEF SaysWhatIsBelow

(* The text of the next subclause is told. *)
ToldMore(h, s, t, m, l, said) ==
  /\ m \in {0, 1} /\ l = m + 1 /\ IsList(said) /\ t[s[l]].kept = {said}
  /\ \A k \in 1 .. m : t[s[k]].kept = h[s[k]].kept

LEMMA ToldNext ==
  ASSUME NEW h, NEW s, NEW t, NEW m, NEW l, NEW said, ToldMore(h, s, t, m, l, said)
  PROVE  Told(t, s, l) = Told(h, s, m) \o said
<1>4. /\ m \in {0, 1} /\ l = m + 1 /\ IsList(said) /\ t[s[l]].kept = {said}
      /\ \A k \in 1 .. m : t[s[k]].kept = h[s[k]].kept
  BY DEF ToldMore
<1>1. TextOf(t, s[l]) = said
  BY <1>4 DEF TextOf
<1>2. CASE m = 0
  <2>1. l = 1
    BY <1>2, <1>4
  <2>2. Told(t, s, l) = said
    BY <1>1, <2>1 DEF Told
  <2>3. Told(h, s, m) = << >>
    BY <1>2 DEF Told
  <2>4. << >> \o said = said
    BY <1>4, EmptyConcat
  <2> QED
    BY <2>2, <2>3, <2>4
<1>3. CASE m = 1
  <2>1. l = 2 /\ l # 0 /\ l # 1 /\ m # 0 /\ 1 \in 1 .. m
    BY <1>3, <1>4
  <2>2. Told(t, s, l) = TextOf(t, s[1]) \o said
    BY <1>1, <2>1 DEF Told
  <2>3. TextOf(t, s[1]) = TextOf(h, s[1])
    BY <1>4, <2>1 DEF TextOf
  <2>4. Told(h, s, m) = TextOf(h, s[1])
    BY <1>3 DEF Told
  <2> QED
    BY <2>2, <2>3, <2>4
<1> QED
  BY <1>2, <1>3, <1>4

(* It returns, and the call outside of it goes on. *)
Popped(cs, es) ==
  /\ IsList(es) /\ Len(es) = Len(cs) - 1
  /\ \A k \in 1 .. Len(cs) - 1 :
       /\ es[k].capturer = cs[k].capturer /\ es[k].start = cs[k].start
       /\ es[k].imports = cs[k].imports /\ es[k].drawn = cs[k].drawn
       /\ es[k].clean <=> cs[k].clean
       /\ es[k].next = IF k = Len(cs) - 1 THEN cs[k].next + 1 ELSE cs[k].next

(* Its capturer keeps what it said. *)
Captured(h, i, said, t) ==
  \E c : /\ IsCapturer(c) /\ c.subclauses = h[i].subclauses /\ c.name = h[i].name
         /\ c.kept = {said} /\ Changed(h, i, c, t)

Extended(txt, name, word) == word = txt \o name

(* A call of a clause ends, and keeps what it said. *)
LEMMA FinishKeeps ==
  ASSUME NEW h, NEW txt, NEW cs, NEW r, NEW live, NEW d, Keeps(h, txt, cs, r, live, d),
         NEW n, NEW i, Inner(cs, n, i),
         NEW said, AtItsEnd(h, txt, cs, said), NEW t, Captured(h, i, said, t),
         NEW word, Extended(txt, h[i].name, word), NEW es, Popped(cs, es)
  PROVE  Keeps(t, word, es, r, live, d)
<1>21. cs # << >> /\ n = Len(cs) /\ i = cs[n].capturer
  BY DEF Inner
<1>1. /\ Stack(h, txt, cs, r, live, d)
      /\ n \in Nat /\ n >= 1 /\ n \in 1 .. n /\ 1 \in 1 .. n
      /\ \A k \in 1 .. n : k \in Nat /\ cs[k].capturer \in live
                           /\ cs[k].capturer \in 1 .. Len(h) /\ (k = n \/ k < n)
      /\ \A k \in 1 .. n - 1 : /\ k \in 1 .. n /\ k + 1 \in 1 .. n /\ k < n /\ k # n
                               /\ cs[k].capturer # i /\ cs[k].capturer < i
      /\ i \in live /\ i \in 1 .. Len(h) /\ Len(txt) \in Nat
  <2>1. Keeps(h, txt, cs, r, live, d) /\ Inner(cs, n, i)
    OBVIOUS
  <2>2. Around(h, txt, cs, r, live, d, n, i)
    BY ONLY <2>1, Innermost
  <2> QED
    BY ONLY <2>2 DEF Around
<1>2. /\ \A x \in live :
           /\ x \in 1 .. Len(h) /\ x \in Nat /\ Len(h[x].subclauses) \in {0, 1, 2}
           /\ \A k \in 1 .. Len(h[x].subclauses) :
                h[x].subclauses[k] \in live /\ x < h[x].subclauses[k] /\ h[x].subclauses[k] # x
      /\ \A k \in 1 .. n - 1 :
           /\ cs[k].next \in 1 .. Len(h[cs[k].capturer].subclauses)
           /\ cs[k].next \in Nat /\ cs[k].next # 0
           /\ cs[k + 1].capturer = h[cs[k].capturer].subclauses[cs[k].next]
           /\ cs[k].clean => cs[k + 1].clean
           /\ Frame(h, txt, cs[k], Pos(cs, txt, k), d)
  <2>1. Keeps(h, txt, cs, r, live, d) /\ Inner(cs, n, i)
    OBVIOUS
  <2>2. Outside(h, txt, cs, live, d, n)
    BY ONLY <2>1, CallsOutside
  <2> QED
    BY ONLY <2>2 DEF Outside
<1>3. /\ said = Told(h, h[i].subclauses, Len(h[i].subclauses)) \o h[i].name
      /\ \A k \in 1 .. Len(h[i].subclauses) : h[h[i].subclauses[k]].kept # {}
      /\ cs[n].clean => h[i].kept = {said} /\ cs[n].drawn = d
      /\ IsList(said) /\ cs[n].start \in Nat /\ cs[n].start <= Len(txt)
  <2>1. /\ Keeps(h, txt, cs, r, live, d) /\ Inner(cs, n, i)
        /\ AtItsEnd(h, txt, cs, said)
    OBVIOUS
  <2>2. SaysWhatIsBelow(h, txt, i, cs[n], d, said)
    BY ONLY <2>1, WhatIsSaid
  <2> QED
    BY ONLY <2>2 DEF SaysWhatIsBelow
<1>15. PICK c : /\ IsCapturer(c) /\ c.subclauses = h[i].subclauses /\ c.name = h[i].name
                /\ c.kept = {said} /\ Changed(h, i, c, t)
  BY DEF Captured
<1>16. /\ IsList(es) /\ Len(es) = n - 1
       /\ \A k \in 1 .. n - 1 :
            /\ es[k].capturer = cs[k].capturer /\ es[k].start = cs[k].start
            /\ es[k].imports = cs[k].imports /\ es[k].drawn = cs[k].drawn
            /\ es[k].clean <=> cs[k].clean
            /\ es[k].next = IF k = n - 1 THEN cs[k].next + 1 ELSE cs[k].next
  BY <1>21 DEF Popped
<1>17. /\ word = txt \o h[i].name /\ cs[n].next # 0
       /\ said = SubSeq(txt, cs[n].start + 1, Len(txt)) \o h[i].name
  BY <1>21, Zenon DEF Extended, AtItsEnd
<1>4. /\ IsList(t) /\ Len(t) = Len(h)
      /\ \A x \in 1 .. Len(h) : /\ t[x] = IF x = i THEN c ELSE h[x]
                                /\ t[x].subclauses = h[x].subclauses /\ t[x].name = h[x].name
                                /\ (x # i \/ cs[n].clean => t[x].kept = h[x].kept)
                                /\ (h[x].kept # {} => t[x].kept # {})
      /\ t[i].kept = {said}
  BY <1>1, <1>3, <1>15 DEF Changed
<1>5. Links(t)
  <2>1. ASSUME NEW x \in 1 .. Len(h)
        PROVE  IsCapturer(t[x])
               /\ \A k \in 1 .. Len(t[x].subclauses) : t[x].subclauses[k] \in x + 1 .. Len(h)
    BY <1>4, <1>15 DEF Keeps, Links
  <2> QED
    BY <1>4, <2>1 DEF Links
<1>6. Forest(t, live) /\ IsTop(t, live, r)
  <2>1. \A x \in live : t[x].subclauses = h[x].subclauses
    BY <1>2, <1>4
  <2>2. Len(h) \in Nat /\ Forest(h, live) /\ IsTop(h, live, r)
    BY ListProperties DEF Keeps, Links
  <2> QED
    BY <1>4, <2>1, <2>2, SameForest
<1>7. /\ IsList(txt) /\ IsList(h[i].name)
      /\ \A x \in live : \A y \in live :
           \A k \in 1 .. Len(h[x].subclauses), l \in 1 .. Len(h[y].subclauses) :
             h[x].subclauses[k] = h[y].subclauses[l] => x = y /\ k = l
  BY <1>1 DEF Keeps, Links, IsCapturer, Forest
(* Only the call outside of it has the capturer below its own. *)
<1>8. ASSUME NEW x \in live, NEW k \in 1 .. Len(h[x].subclauses), h[x].subclauses[k] = i
      PROVE  n > 1 /\ n - 1 \in 1 .. n - 1 /\ x = cs[n - 1].capturer /\ k = cs[n - 1].next
  <2>1. n # 1
    <3>1. ASSUME n = 1 PROVE FALSE
      <4>1. r = i
        BY <1>1, <3>1, <1>21 DEF Stack
      <4> QED
        BY <1>8, <4>1 DEF Keeps, IsTop
    <3> QED
      BY <3>1
  <2>2. n > 1 /\ n - 1 \in 1 .. n - 1 /\ (n - 1) + 1 = n
    BY ONLY <1>1, <2>1
  <2>3. /\ i = h[cs[n - 1].capturer].subclauses[cs[n - 1].next]
        /\ cs[n - 1].next \in 1 .. Len(h[cs[n - 1].capturer].subclauses)
        /\ cs[n - 1].capturer \in live
    BY <1>1, <1>2, <2>2, <1>21, Zenon
  <2>4. PICK y, l : y = cs[n - 1].capturer /\ l = cs[n - 1].next
    OBVIOUS
  <2>5. /\ y \in live /\ l \in 1 .. Len(h[y].subclauses)
        /\ h[x].subclauses[k] = h[y].subclauses[l]
    BY <1>8, <2>3, <2>4, Zenon
  <2>6. x = y /\ k = l
    BY <1>7, <2>5
  <2> QED
    BY <2>2, <2>4, <2>6
<1>9. n - 1 \in Nat /\ \A k \in 1 .. n - 1 : (k = n - 1 /\ k + 1 = n)
                           \/ (k # n - 1 /\ k + 1 \in 1 .. n - 1 /\ k < n - 1 /\ k + 1 # n)
  BY ONLY <1>1
<1>10. \A k \in 1 .. n - 1 : es[k].next \in Nat /\ es[k].next # 0
  <2>1. \A a \in Nat : a + 1 \in Nat /\ a + 1 # 0
    OBVIOUS
  <2>2. \A k \in 1 .. n - 1 : cs[k].next \in Nat /\ cs[k].next # 0
    BY <1>2
  <2>3. \A k \in 1 .. n - 1 : es[k].next = IF k = n - 1 THEN cs[k].next + 1 ELSE cs[k].next
    BY <1>16
  <2> QED
    BY <2>1, <2>2, <2>3
<1>11. IsList(word)
  <2>1. word = txt \o h[i].name
    BY <1>17
  <2>2. 0 \in Nat /\ 0 <= 0 /\ Len(txt) >= 0
    BY ONLY <1>1
  <2>3. IsList(txt \o h[i].name)
    BY ONLY <1>7, <2>2, TextGrows
  <2> QED
    BY <2>1, <2>3
<1>12. ASSUME NEW x \in live PROVE Unclean(es, x) \/ Consistent(t, x)
  <2>1. CASE x = i
    <3>1. PICK s, m : s = h[i].subclauses /\ m = Len(s)
      OBVIOUS
    <3>2. m \in {0, 1, 2} /\ \A k \in 1 .. m : s[k] \in 1 .. Len(h) /\ s[k] # i
      BY <1>1, <1>2, <3>1
    <3>3. \A k \in 1 .. m : t[s[k]].kept = h[s[k]].kept
      BY <1>4, <3>2
    <3>4. Told(t, s, m) = Told(h, s, m)
      BY ONLY <3>2, <3>3, SameTelling
    <3>5. /\ t[i].kept = {Told(t, s, m) \o t[i].name} /\ t[i].subclauses = s
      BY <1>1, <1>3, <1>4, <3>1, <3>4
    <3> QED
      BY <2>1, <3>1, <3>5 DEF Consistent
  <2>2. CASE x # i /\ Unclean(cs, x)
    <3>1. PICK k \in 1 .. n : cs[k].capturer = x /\ ~cs[k].clean
      BY <2>2, <1>21 DEF Unclean
    <3>2. k # n
      BY <2>2, <3>1, <1>21
    <3>3. k \in 1 .. n - 1
      BY ONLY <1>1, <3>2, k \in 1 .. n
    <3>4. es[k].capturer = x /\ es[k].next # 0 /\ ~es[k].clean
      BY <1>10, <1>16, <3>1, <3>3
    <3> QED
      BY <1>16, <3>3, <3>4 DEF Unclean
  <2>3. CASE /\ x # i /\ Consistent(h, x)
             /\ cs[n].clean \/ \A k \in 1 .. Len(h[x].subclauses) : h[x].subclauses[k] # i
    <3>1. /\ t[x].subclauses = h[x].subclauses /\ t[x].name = h[x].name /\ t[x].kept = h[x].kept
      BY <1>2, <1>4, <2>3
    <3>2. \A k \in 1 .. Len(h[x].subclauses) :
            t[t[x].subclauses[k]].kept = h[h[x].subclauses[k]].kept
      BY <1>2, <1>4, <2>3, <3>1
    <3>3. Len(h[x].subclauses) \in {0, 1, 2} /\ Len(t[x].subclauses) = Len(h[x].subclauses)
          /\ t[x].kept = h[x].kept /\ t[x].name = h[x].name /\ Consistent(h, x)
      BY <1>2, <2>3, <3>1
    <3> QED
      BY ONLY <3>2, <3>3, SameConsistent
  <2>4. CASE ~cs[n].clean /\ \E k \in 1 .. Len(h[x].subclauses) : h[x].subclauses[k] = i
    <3>1. n - 1 \in 1 .. n - 1 /\ x = cs[n - 1].capturer
      BY <1>8, <2>4
    <3>2. ~cs[n - 1].clean
      BY <1>2, <1>9, <2>4, <3>1
    <3>3. es[n - 1].capturer = x /\ es[n - 1].next # 0 /\ ~es[n - 1].clean
      BY <1>10, <1>16, <3>1, <3>2
    <3> QED
      BY <1>16, <3>1, <3>3 DEF Unclean
  <2>5. Unclean(cs, x) \/ Consistent(h, x)
    BY DEF Keeps
  <2> QED
    BY <2>1, <2>2, <2>3, <2>4, <2>5
<1>13. ASSUME NEW k \in 1 .. n - 1 PROVE Frame(t, word, es[k], Pos(es, word, k), d)
  <2>1. PICK x, s, m, p, start :
          /\ x = cs[k].capturer /\ s = h[x].subclauses /\ m = cs[k].next - 1
          /\ p = Pos(cs, txt, k) /\ start = cs[k].start
    OBVIOUS
  <2>2. /\ x \in live /\ x # i /\ x \in 1 .. Len(h)
        /\ Len(s) \in {0, 1, 2} /\ m + 1 \in 1 .. Len(s) /\ m + 1 = cs[k].next
    <3>1. x \in live /\ x # i /\ x \in 1 .. Len(h)
      BY <1>1, <2>1
    <3>2. cs[k].next \in 1 .. Len(s) /\ Len(s) \in {0, 1, 2} /\ cs[k].next \in Nat
      BY <1>2, <2>1, <3>1
    <3>3. \A a \in Nat : (a - 1) + 1 = a
      BY ONLY <1>1
    <3>4. m + 1 = cs[k].next
      BY <2>1, <3>2, <3>3
    <3> QED
      BY <3>1, <3>2, <3>4
  <2>3. /\ m \in 0 .. Len(s) /\ p \in 0 .. Len(txt) /\ start \in 0 .. p
        /\ \A l \in 1 .. m : h[s[l]].kept # {}
        /\ SubSeq(txt, start + 1, p) = Told(h, s, m)
        /\ cs[k].clean => h[x].kept # {} /\ cs[k].drawn = d
        /\ cs[k].imports # {} => h[x].kept = {}
    BY <1>2, <2>1 DEF Frame
  <2>4. PICK len : len = Len(txt)
    OBVIOUS
  <2>5. start \in Nat /\ p \in Nat /\ start <= p /\ p <= Len(txt) /\ Len(txt) \in Nat
    <3>1. Len(txt) \in Nat /\ p \in 0 .. Len(txt) /\ start \in 0 .. p
      BY <1>1, <2>3
    <3> QED
      BY ONLY <3>1
  <2>6. m \in {0, 1} /\ m \in 0 .. Len(s) /\ (\A l \in 1 .. m : l \in 1 .. Len(s) /\ l # m + 1)
    <3>1. PICK len2 : len2 = Len(s)
      OBVIOUS
    <3>2. len2 \in {0, 1, 2} /\ m + 1 \in 1 .. len2 /\ m \in 0 .. len2
      BY <2>2, <2>3, <3>1
    <3>3. m \in {0, 1} /\ \A l \in 1 .. m : l \in 1 .. len2 /\ l # m + 1
      BY ONLY <3>2
    <3> QED
      BY <2>3, <3>1, <3>3
  <2>7. \A l \in 1 .. Len(s) : s[l] = i => k = n - 1 /\ l = m + 1
    <3>1. ASSUME NEW l \in 1 .. Len(s), s[l] = i PROVE k = n - 1 /\ l = m + 1
      <4>1. n - 1 \in 1 .. n - 1 /\ x = cs[n - 1].capturer /\ l = cs[n - 1].next
        BY <1>8, <2>1, <2>2, <3>1
      <4>2. k = n - 1
        <5>1. ASSUME k # n - 1 PROVE FALSE
          <6>1. k < n - 1 /\ k \in 1 .. n /\ n - 1 \in 1 .. n
            BY <1>1, <1>9, <4>1, <5>1
          <6>2. cs[k].capturer < cs[n - 1].capturer
            BY <1>1, <6>1, <1>21 DEF Stack
          <6>3. x < x /\ x \in Nat
            BY <1>2, <2>1, <2>2, <4>1, <6>2
          <6> QED
            BY ONLY <6>3
        <5> QED
          BY <5>1
      <4> QED
        BY <2>2, <4>1, <4>2
    <3> QED
      BY <3>1
  <2>8. \A l \in 1 .. m : s[l] \in 1 .. Len(h) /\ s[l] # i
    BY <1>2, <2>1, <2>2, <2>6, <2>7
  <2>9. \A l \in 1 .. m : t[s[l]].kept = h[s[l]].kept /\ t[s[l]].kept # {}
    BY <1>4, <2>3, <2>8
  <2>10. t[x].subclauses = s /\ t[x].kept = h[x].kept
    BY <1>4, <2>1, <2>2, Zenon
  <2>11. /\ es[k].capturer = x /\ es[k].start = start
         /\ es[k].clean => t[x].kept # {} /\ es[k].drawn = d
         /\ es[k].imports # {} => t[x].kept = {}
    BY <1>16, <2>1, <2>3, <2>10
  <2>12. /\ Len(word) = Len(txt) + Len(h[i].name) /\ Len(h[i].name) \in Nat
         /\ SubSeq(word, start + 1, p) = SubSeq(txt, start + 1, p)
    <3>1. word = txt \o h[i].name
      BY <1>17
    <3>2. IsList(txt) /\ IsList(h[i].name)
      BY <1>7
    <3>3. /\ Len(txt \o h[i].name) = Len(txt) + Len(h[i].name) /\ Len(h[i].name) \in Nat
          /\ SubSeq(txt \o h[i].name, start + 1, p) = SubSeq(txt, start + 1, p)
      BY ONLY <2>5, <3>2, TextGrows
    <3> QED
      BY <3>1, <3>3
  <2>13. PICK w : w = Len(word)
    OBVIOUS
  <2>14. w \in Nat /\ p \in 0 .. w /\ start \in 0 .. w
    <3>1. PICK a, b : a = Len(txt) /\ b = Len(h[i].name)
      OBVIOUS
    <3>2. a \in Nat /\ b \in Nat /\ w = a + b /\ p <= a /\ start <= p /\ p \in Nat /\ start \in Nat
      BY <2>5, <2>12, <2>13, <3>1
    <3> QED
      BY ONLY <3>2
  <2>15. CASE k # n - 1
    <3>1. k + 1 \in 1 .. n - 1 /\ k < n - 1 /\ es[k].next = cs[k].next
      BY <1>9, <1>16, <2>15
    <3>2. Pos(cs, txt, k) = cs[k + 1].start
      BY <1>1, <1>2, <3>1, <1>21 DEF Pos
    <3>3. Pos(es, word, k) = p
      BY <1>10, <1>16, <2>1, <3>1, <3>2 DEF Pos
    <3>4. Told(t, s, m) = Told(h, s, m)
      <4>1. m \in {0, 1, 2} /\ \A l \in 1 .. m : t[s[l]].kept = h[s[l]].kept
        BY <2>6, <2>9
      <4> QED
        BY ONLY <4>1, SameTelling
    <3>5. es[k].next - 1 = m
      BY <2>1, <3>1
    <3>6. SubSeq(word, start + 1, p) = Told(t, s, m)
      BY <2>3, <2>12, <3>4
    <3>7. Frame(t, word, es[k], p, d)
      BY <2>3, <2>9, <2>10, <2>11, <2>13, <2>14, <3>5, <3>6, Zenon DEF Frame
    <3> QED
      BY <3>3, <3>7
  <2>16. CASE k = n - 1
    <3>1. k + 1 = n /\ es[k].next = cs[k].next + 1 /\ k < n
      BY <1>1, <1>9, <1>16, <2>16
    <3>2. p = cs[n].start
      BY <1>17, <2>1, <3>1, <1>21, Zenon DEF Pos
    <3>3. Pos(es, word, k) = w
      <4>1. ~(k < Len(es))
        BY ONLY <1>1, <1>16, <2>16
      <4> QED
        BY <2>13, <4>1 DEF Pos
    <3>4. es[k].next - 1 = m + 1 /\ m + 1 \in 0 .. Len(s)
      <4>1. PICK a, b, len2 : a = cs[k].next /\ b = es[k].next /\ len2 = Len(s)
        OBVIOUS
      <4>2. b = a + 1 /\ m + 1 = a /\ m + 1 \in 1 .. len2 /\ len2 \in {0, 1, 2} /\ a \in Nat
        BY <1>2, <2>2, <3>1, <4>1
      <4>3. b - 1 = m + 1 /\ m + 1 \in 0 .. len2
        BY ONLY <4>2
      <4> QED
        BY <4>1, <4>3
    <3>5. s[m + 1] = i
      BY <1>2, <2>1, <2>2, <3>1, <1>21
    <3>6. \A l \in 1 .. m + 1 : t[s[l]].kept # {}
      <4>1. \A l \in 1 .. m + 1 : l \in 1 .. m \/ l = m + 1
        BY ONLY <2>6
      <4>2. t[s[m + 1]].kept # {}
        BY <1>4, <3>5
      <4>3. \A l \in 1 .. m : t[s[l]].kept # {}
        BY <2>9
      <4> QED
        BY ONLY <4>1, <4>2, <4>3
    <3>7. Told(t, s, m + 1) = Told(h, s, m) \o said
      <4>1. PICK l : l = m + 1
        OBVIOUS
      <4>2. ToldMore(h, s, t, m, l, said)
        BY <1>3, <1>4, <2>6, <2>9, <3>5, <4>1 DEF ToldMore
      <4>3. Told(t, s, l) = Told(h, s, m) \o said
        BY ONLY <4>2, ToldNext
      <4> QED
        BY <4>1, <4>3
    <3>8. SubSeq(word, start + 1, w) = Told(h, s, m) \o said
      <4>1. IsList(txt) /\ IsList(h[i].name)
        BY <1>7
      <4>2. SubSeq(txt, start + 1, p) \o (SubSeq(txt, p + 1, Len(txt)) \o h[i].name)
              = SubSeq(txt \o h[i].name, start + 1, Len(txt \o h[i].name))
        BY ONLY <2>5, <4>1, TextJoins
      <4>3. said = SubSeq(txt, p + 1, Len(txt)) \o h[i].name /\ word = txt \o h[i].name
        BY <1>17, <3>2
      <4> QED
        BY <2>3, <2>13, <4>2, <4>3
    <3>9. w \in 0 .. Len(word) /\ start \in 0 .. w
      <4>1. w \in 0 .. w
        BY ONLY <2>14
      <4> QED
        BY <2>13, <2>14, <4>1
    <3>10. Frame(t, word, es[k], w, d)
      <4>1. es[k].next - 1 \in 0 .. Len(t[es[k].capturer].subclauses)
        BY <2>10, <2>11, <3>4
      <4>2. \A l \in 1 .. es[k].next - 1 : t[t[es[k].capturer].subclauses[l]].kept # {}
        BY <2>10, <2>11, <3>4, <3>6
      <4>3. SubSeq(word, es[k].start + 1, w)
              = Told(t, t[es[k].capturer].subclauses, es[k].next - 1)
        BY <2>10, <2>11, <3>4, <3>7, <3>8
      <4> QED
        BY <2>11, <3>9, <4>1, <4>2, <4>3 DEF Frame
    <3> QED
      BY <3>3, <3>10
  <2> QED
    BY <2>15, <2>16
<1>14. ASSUME es # << >> PROVE Stack(t, word, es, r, live, d)
  <2>1. 1 \in 1 .. n - 1
    BY <1>9, <1>14, <1>16, ListProperties
  <2>2. es[1].capturer = r
    BY <1>1, <1>16, <2>1 DEF Stack
  <2>3. ASSUME NEW k \in 1 .. n - 1
        PROVE  es[k].capturer \in live /\ es[k].next \in Nat /\ es[k].next # 0
    BY <1>1, <1>10, <1>16
  <2>4. ASSUME NEW k \in 1 .. (n - 1) - 1
        PROVE  /\ es[k].next \in 1 .. Len(t[es[k].capturer].subclauses)
               /\ es[k + 1].capturer = t[es[k].capturer].subclauses[es[k].next]
               /\ es[k + 1].next # 0 /\ es[k].clean => es[k + 1].clean
    <3>1. k \in 1 .. n - 1 /\ k + 1 \in 1 .. n - 1 /\ k # n - 1
      BY ONLY <1>1, k \in 1 .. (n - 1) - 1
    <3>2. /\ es[k].capturer = cs[k].capturer /\ es[k + 1].capturer = cs[k + 1].capturer
          /\ (es[k].clean <=> cs[k].clean) /\ (es[k + 1].clean <=> cs[k + 1].clean)
          /\ es[k].next = cs[k].next
      BY <1>16, <3>1
    <3>3. t[cs[k].capturer].subclauses = h[cs[k].capturer].subclauses
      BY <1>1, <1>4, <3>1
    <3>4. /\ cs[k].next \in 1 .. Len(h[cs[k].capturer].subclauses)
          /\ cs[k + 1].capturer = h[cs[k].capturer].subclauses[cs[k].next]
          /\ cs[k].clean => cs[k + 1].clean
      BY <1>2, <3>1
    <3> QED
      BY <3>2, <3>3, <3>4
  <2>5. \A k, l \in 1 .. n - 1 : k < l => es[k].capturer < es[l].capturer
    BY <1>1, <1>16, <1>21 DEF Stack
  <2> QED
    BY <1>13, <1>14, <1>16, <2>2, <2>3, <2>4, <2>5 DEF Stack
<1> QED
  BY <1>5, <1>6, <1>11, <1>12, <1>14 DEF Keeps

-----------------------------------------------------------------------------
(* The steps of the program. *)

(* t is h where the capturer i has got m subclauses, which are new. *)
Grown(h, i, m, t) ==
  /\ m \in {0, 1, 2} /\ IsList(t) /\ Len(t) = Len(h) + m
  /\ \A x \in 1 .. Len(h) :
       /\ IsCapturer(t[x]) /\ t[x].kept = h[x].kept
       /\ x # i => t[x].subclauses = h[x].subclauses /\ t[x].name = h[x].name
  /\ Len(t[i].subclauses) = m /\ \A k \in 1 .. m : t[i].subclauses[k] = Len(h) + k
  /\ \A x \in Len(h) + 1 .. Len(h) + m :
       IsCapturer(t[x]) /\ Len(t[x].subclauses) = 0 /\ t[x].kept = {}

LEMMA GrownKeeps ==
  ASSUME NEW h, Links(h), NEW live, Forest(h, live), NEW i \in live, NEW m, NEW t,
         Grown(h, i, m, t), NEW used, used = live \cup (Len(h) + 1 .. Len(h) + m)
  PROVE  /\ Links(t) /\ Forest(t, used)
         /\ \A r : IsTop(h, live, r) => IsTop(t, used, r)
<1>1. PICK n : n = Len(h)
  OBVIOUS
<1>2. n \in Nat /\ live \subseteq 1 .. n /\ i \in 1 .. n /\ m \in {0, 1, 2}
  BY <1>1, ListProperties DEF Links, Forest, Closed, Grown
<1>3. /\ IsList(t) /\ Len(t) = n + m /\ Len(t[i].subclauses) = m
      /\ \A k \in 1 .. m : t[i].subclauses[k] = n + k
      /\ \A x \in 1 .. n : /\ IsCapturer(t[x])
                           /\ x # i => t[x].subclauses = h[x].subclauses
      /\ \A x \in n + 1 .. n + m : IsCapturer(t[x]) /\ Len(t[x].subclauses) = 0
  BY <1>1 DEF Grown
<1>4. /\ \A x \in 1 .. n + m : x \in 1 .. n \/ x \in n + 1 .. n + m
      /\ \A x \in 1 .. n : x \in 1 .. n + m /\ x \notin n + 1 .. n + m
                           /\ \A y \in n + 1 .. n + m : y \in x + 1 .. n + m
      /\ \A x \in n + 1 .. n + m : x \in 1 .. n + m
      /\ \A x \in 1 .. n : \A y \in x + 1 .. n : y \in x + 1 .. n + m
      /\ \A k \in 1 .. m : n + k \in n + 1 .. n + m
      /\ \A k, l \in 1 .. m : n + k = n + l => k = l
      /\ \A k \in 1 .. 0 : FALSE
  BY ONLY <1>2
<1>5. \A x \in 1 .. n : \A k \in 1 .. Len(h[x].subclauses) : h[x].subclauses[k] \in x + 1 .. n
  BY <1>1 DEF Links
<1>6. Links(t)
  <2>1. ASSUME NEW x \in 1 .. n + m
        PROVE  IsCapturer(t[x])
               /\ \A k \in 1 .. Len(t[x].subclauses) : t[x].subclauses[k] \in x + 1 .. n + m
    <3>1. CASE x \in n + 1 .. n + m
      BY <1>3, <1>4, <3>1
    <3>2. CASE x \in 1 .. n /\ x # i
      BY <1>3, <1>4, <1>5, <3>2
    <3>3. CASE x = i
      BY <1>2, <1>3, <1>4, <3>3
    <3> QED
      BY <1>4, <3>1, <3>2, <3>3
  <2> QED
    BY <1>3, <2>1 DEF Links
<1>7. used = live \cup (n + 1 .. n + m) /\ i \in live
  BY <1>1
<1>8. /\ \A x \in live : \A k \in 1 .. Len(h[x].subclauses) : h[x].subclauses[k] \in live
      /\ \A x, y \in live :
           \A k \in 1 .. Len(h[x].subclauses), l \in 1 .. Len(h[y].subclauses) :
             h[x].subclauses[k] = h[y].subclauses[l] => x = y /\ k = l
  BY DEF Forest, Closed
<1>9. ASSUME NEW x \in used, NEW k \in 1 .. Len(t[x].subclauses)
      PROVE  \/ /\ x \in live /\ k \in 1 .. Len(h[x].subclauses)
                /\ t[x].subclauses[k] = h[x].subclauses[k] /\ t[x].subclauses[k] \in live
             \/ /\ x = i /\ k \in 1 .. m /\ t[x].subclauses[k] = n + k
                /\ t[x].subclauses[k] \in n + 1 .. n + m
  <2>1. x \notin n + 1 .. n + m /\ x \in live
    BY <1>3, <1>4, <1>7, <1>9
  <2>2. CASE x = i
    BY <1>3, <1>4, <1>9, <2>2
  <2>3. CASE x # i
    BY <1>2, <1>3, <1>8, <1>9, <2>1, <2>3
  <2> QED
    BY <2>2, <2>3
<1>10. Closed(t, used)
  <2>1. used \subseteq 1 .. n + m
    BY <1>2, <1>4, <1>7
  <2> QED
    BY <1>3, <1>7, <1>9, <2>1 DEF Closed
<1>11. \A x \in live : x \notin n + 1 .. n + m
  BY <1>2, <1>4
<1>12. ASSUME NEW x \in used, NEW y \in used, NEW k \in 1 .. Len(t[x].subclauses),
              NEW l \in 1 .. Len(t[y].subclauses), t[x].subclauses[k] = t[y].subclauses[l]
       PROVE  x = y /\ k = l
  <2>1. PICK a : a = t[x].subclauses[k] /\ a = t[y].subclauses[l]
    BY <1>12
  <2>2. \/ x \in live /\ k \in 1 .. Len(h[x].subclauses) /\ a = h[x].subclauses[k] /\ a \in live
        \/ x = i /\ k \in 1 .. m /\ a = n + k /\ a \in n + 1 .. n + m
    BY <1>9, <2>1
  <2>3. \/ y \in live /\ l \in 1 .. Len(h[y].subclauses) /\ a = h[y].subclauses[l] /\ a \in live
        \/ y = i /\ l \in 1 .. m /\ a = n + l /\ a \in n + 1 .. n + m
    BY <1>9, <2>1
  <2> QED
    BY <1>4, <1>8, <1>11, <2>2, <2>3
<1>13. Forest(t, used)
  BY <1>10, <1>12 DEF Forest
<1>14. ASSUME NEW r, IsTop(h, live, r) PROVE IsTop(t, used, r)
  <2>1. r \in live /\ \A x \in live : \A k \in 1 .. Len(h[x].subclauses) : h[x].subclauses[k] # r
    BY <1>14 DEF IsTop
  <2>2. ASSUME NEW x \in used, NEW k \in 1 .. Len(t[x].subclauses) PROVE t[x].subclauses[k] # r
    BY <1>9, <1>11, <2>1
  <2> QED
    BY <1>7, <2>1, <2>2 DEF IsTop
<1> QED
  BY <1>6, <1>13, <1>14

(* The calls are those that Generated gives. *)
LEMMA CallsEntered ==
  ASSUME NEW imports, IsStack(calls, Limit, entered)
  PROVE  Entered(calls, imports, Clause.kept, Len(text), Drawn, Generated(imports))
<1>1. PICK n, t, x, y, kept : /\ n = Len(calls) /\ t = Generated(imports)
                              /\ x = Len(text) /\ y = Drawn /\ kept = Clause.kept
  OBVIOUS
<1>2. n \in Nat /\ n \in 1 .. n /\ DOMAIN calls = 1 .. n
  BY <1>1, ListProperties DEF IsStack
<1>3. ASSUME NEW k \in 1 .. n
      PROVE  /\ t[k].capturer = calls[k].capturer
             /\ t[k].clean <=> calls[k].clean /\ kept # {}
             /\ k < n => /\ t[k].next = calls[k].next /\ t[k].start = calls[k].start
                         /\ t[k].imports = calls[k].imports /\ t[k].drawn = calls[k].drawn
             /\ ~(k < n) => /\ t[k].next = 1 /\ t[k].start = x /\ t[k].drawn = y
                            /\ t[k].imports = imports
  <2>1. PICK c, d, v : /\ c = calls[k] /\ v = (c.clean /\ kept # {})
                       /\ d = IF k < n THEN c
                             ELSE [c EXCEPT !.next = 1, !.start = x, !.drawn = y,
                                            !.imports = imports]
    OBVIOUS
  <2>2. IsCall(c)
    BY <1>1, <2>1 DEF IsStack
  <2>3. k < n \/ k = n
    BY <1>2
  <2>4. d = IF k < n THEN c
            ELSE [capturer |-> c.capturer, max |-> c.max, nodes |-> c.nodes, next |-> 1,
                  start |-> x, drawn |-> y, clean |-> c.clean, imports |-> imports]
    <3>1. CASE k < n
      BY <2>1, <3>1
    <3>2. CASE ~(k < n)
      <4>1. d = [c EXCEPT !.next = 1, !.start = x, !.drawn = y, !.imports = imports]
        BY <2>1, <3>2
      <4>2. d = [capturer |-> c.capturer, max |-> c.max, nodes |-> c.nodes, next |-> 1,
                 start |-> x, drawn |-> y, clean |-> c.clean, imports |-> imports]
        BY <2>2, <4>1 DEF IsCall
      <4> QED
        BY <3>2, <4>2
    <3> QED
      BY <3>1, <3>2
  <2>5. d = [capturer |-> d.capturer, max |-> d.max, nodes |-> d.nodes, next |-> d.next,
             start |-> d.start, drawn |-> d.drawn, clean |-> d.clean, imports |-> d.imports]
        /\ d.clean = c.clean
    BY <2>2, <2>4 DEF IsCall
  <2>6. ~(k < n) => Top = c
    BY <1>1, <2>1, <2>3 DEF Top
  <2>7. t[k] = [d EXCEPT !.clean = v]
    BY <1>1, <1>2, <2>1, <2>3, <2>5, <2>6 DEF Generated
  <2>8. t[k] = [capturer |-> d.capturer, max |-> d.max, nodes |-> d.nodes, next |-> d.next,
                start |-> d.start, drawn |-> d.drawn, clean |-> v, imports |-> d.imports]
    BY <2>5, <2>7
  <2>9. /\ t[k].capturer = d.capturer /\ t[k].clean = v /\ t[k].next = d.next
        /\ t[k].start = d.start /\ t[k].imports = d.imports /\ t[k].drawn = d.drawn
    BY <2>8
  <2>10. /\ d.capturer = c.capturer
         /\ k < n => d.next = c.next /\ d.start = c.start /\ d.imports = c.imports
                     /\ d.drawn = c.drawn
         /\ ~(k < n) => d.next = 1 /\ d.start = x /\ d.drawn = y /\ d.imports = imports
    BY <2>4
  <2>11. t[k].clean <=> c.clean /\ kept # {}
    BY <2>1, <2>9
  <2> QED
    BY <2>1, <2>9, <2>10, <2>11
<1>4. IsList(t) /\ Len(t) = n
  <2>1. PICK S : S = {t[k] : k \in 1 .. n}
    OBVIOUS
  <2>2. DOMAIN t = 1 .. n /\ t = [k \in 1 .. n |-> t[k]]
    BY <1>1, <1>2 DEF Generated
  <2>3. t \in [1 .. n -> S]
    BY <2>1, <2>2
  <2>4. t \in Seq(S) /\ Len(t) = n
    BY <1>2, <2>3
  <2> QED
    BY <2>4 DEF IsList
<1>5. ~(n < n) /\ \A k \in 1 .. n - 1 : k \in 1 .. n /\ k < n
  BY ONLY <1>2
<1> QED
  BY <1>1, <1>2, <1>3, <1>4, <1>5 DEF Entered

(* What a clause generates. *)
LEMMA FewSubclauses ==
  ASSUME NEW clause, NEW known, NEW b, NEW below, below = Subclauses(clause, known, b)
  PROVE  IsList(below) /\ Len(below) \in {0, 1, 2}
<1>1. \/ \E x, y : below = << x, y >>
      \/ \E x : below = << x >>
      \/ below = << >>
  <2>1. CASE clause = "Labels"
    <3>1. below = << "LabelName", IF b % 2 = 0 THEN "CallSubqueryClause" ELSE "Labels" >>
      BY <2>1 DEF Subclauses
    <3>2. PICK y : y = IF b % 2 = 0 THEN "CallSubqueryClause" ELSE "Labels"
      OBVIOUS
    <3> QED
      BY <3>1, <3>2
  <2>2. CASE clause = "LabelName"
    <3>1. below = << IF b = 0 THEN "NewLabel" ELSE "ExistingLabel" >>
      BY <2>2 DEF Subclauses
    <3>2. PICK y : y = IF b = 0 THEN "NewLabel" ELSE "ExistingLabel"
      OBVIOUS
    <3> QED
      BY <3>1, <3>2
  <2>3. CASE clause = "ExistingLabel" /\ known = << >>
    <3>1. below = << "NewLabel" >>
      BY <2>3 DEF Subclauses
    <3> QED
      BY <3>1
  <2>4. CASE clause # "Labels" /\ clause # "LabelName" /\ ~(clause = "ExistingLabel" /\ known = << >>)
    BY <2>4 DEF Subclauses
  <2> QED
    BY <2>1, <2>2, <2>3, <2>4
<1>2. ASSUME NEW x, NEW y, below = << x, y >> PROVE IsList(below) /\ Len(below) \in {0, 1, 2}
  <2>1. << x, y >> \in Seq({x, y}) /\ Len(<< x, y >>) = 2
    OBVIOUS
  <2> QED
    BY <1>2, <2>1 DEF IsList
<1>3. ASSUME NEW x, below = << x >> PROVE IsList(below) /\ Len(below) \in {0, 1, 2}
  <2>1. << x >> \in Seq({x}) /\ Len(<< x >>) = 1
    OBVIOUS
  <2> QED
    BY <1>3, <2>1 DEF IsList
<1>4. below = << >> => IsList(below) /\ Len(below) \in {0, 1, 2}
  BY EmptyList
<1> QED
  BY <1>1, <1>2, <1>3, <1>4

LEMMA NameIsList ==
  ASSUME NEW clause, NEW known, NEW b, NEW named, named = WrittenName(clause, known, b)
  PROVE  IsList(named)
<1>1. named = << >> \/ \E x : named = << x >>
  BY DEF WrittenName
<1>2. ASSUME NEW x, named = << x >> PROVE IsList(named)
  <2>1. << x >> \in Seq({x})
    OBVIOUS
  <2> QED
    BY <1>2, <2>1 DEF IsList
<1> QED
  BY <1>1, <1>2, EmptyList

(* A new capturer. *)
LEMMA NewCapturer ==
  ASSUME NEW clause
  PROVE  /\ IsCapturer(Capturer(clause)) /\ Len(Capturer(clause).subclauses) = 0
         /\ Capturer(clause).kept = {}
<1>1. PICK c : c = Capturer(clause)
  OBVIOUS
<1>2. c = [clause |-> clause, name |-> << >>, generated |-> FALSE, regenerated |-> FALSE,
           capturedSchema |-> << >>, capturedModifiedSchema |-> << >>, subclauses |-> << >>,
           kept |-> {}]
  BY <1>1 DEF Capturer
<1>3. /\ c.clause = clause /\ c.name = << >> /\ c.generated = FALSE /\ c.regenerated = FALSE
      /\ c.capturedSchema = << >> /\ c.capturedModifiedSchema = << >>
      /\ c.subclauses = << >> /\ c.kept = {}
  BY ONLY <1>2, CapturerFields
<1>4. c = [clause |-> c.clause, name |-> c.name, generated |-> c.generated,
           regenerated |-> c.regenerated, capturedSchema |-> c.capturedSchema,
           capturedModifiedSchema |-> c.capturedModifiedSchema,
           subclauses |-> c.subclauses, kept |-> c.kept]
  BY <1>2, <1>3
<1>5. << >> \in Seq(Nat) /\ Len(<< >>) = 0 /\ IsList(<< >>) /\ 0 <= 2
  BY EmptySeq, EmptyList
<1>6. IsList(c.name) /\ c.subclauses \in Seq(Nat) /\ Len(c.subclauses) = 0
  BY <1>3, <1>5
<1> QED
  BY <1>1, <1>3, <1>4, <1>5, <1>6 DEF IsCapturer

(* t is s, and u after it. *)
Joined(s, u, t) ==
  /\ IsList(t) /\ Len(t) = Len(s) + Len(u)
  /\ \A k \in 1 .. Len(s) : t[k] = s[k]
  /\ \A k \in 1 .. Len(u) : t[Len(s) + k] = u[k]

LEMMA Concatenated ==
  ASSUME NEW s, IsList(s), NEW u, IsList(u)
  PROVE  Joined(s, u, s \o u)
<1>9. PICK t : t = s \o u
  OBVIOUS
<1>1. PICK S : s \in Seq(S) /\ u \in Seq(S)
  BY CommonSet
<1>2. s \o u \in Seq(S) /\ Len(s \o u) = Len(s) + Len(u)
      /\ \A k \in 1 .. Len(s) + Len(u) : (s \o u)[k] = IF k <= Len(s) THEN s[k] ELSE u[k - Len(s)]
  BY ONLY <1>1, ConcatProperties
<1>3. PICK a, b : a = Len(s) /\ b = Len(u)
  OBVIOUS
<1>4. a \in Nat /\ b \in Nat
  BY <1>1, <1>3, LenProperties
<1>5. /\ \A k \in 1 .. a : k \in 1 .. a + b /\ k <= a
      /\ \A k \in 1 .. b : a + k \in 1 .. a + b /\ ~(a + k <= a) /\ (a + k) - a = k
  BY ONLY <1>4
<1>6. t \in Seq(S) /\ Len(t) = a + b
      /\ \A k \in 1 .. a + b : t[k] = IF k <= a THEN s[k] ELSE u[k - a]
  BY <1>2, <1>3, <1>9
<1>7. \A k \in 1 .. a : t[k] = s[k]
  BY ONLY <1>5, <1>6
<1>8. ASSUME NEW k \in 1 .. b PROVE t[a + k] = u[k]
  BY ONLY <1>5, <1>6, k \in 1 .. b
<1> QED
  <2>1. Joined(s, u, t)
    BY <1>3, <1>6, <1>7, <1>8 DEF IsList, Joined
  <2> QED
    BY <1>9, <2>1

(* A capturer with another schema, which says no less. *)
LEMMA CapturedOf ==
  ASSUME NEW c, IsCapturer(c), NEW after, NEW d, d = [c EXCEPT !.capturedSchema = after]
  PROVE  /\ IsCapturer(d) /\ d.kept = c.kept /\ d.subclauses = c.subclauses
         /\ d.name = c.name
<1>1. d = [clause |-> c.clause, name |-> c.name, generated |-> c.generated,
           regenerated |-> c.regenerated, capturedSchema |-> after,
           capturedModifiedSchema |-> c.capturedModifiedSchema,
           subclauses |-> c.subclauses, kept |-> c.kept]
  BY DEF IsCapturer
<1>2. /\ d.clause = c.clause /\ d.name = c.name /\ d.generated = c.generated
      /\ d.regenerated = c.regenerated /\ d.capturedSchema = after
      /\ d.capturedModifiedSchema = c.capturedModifiedSchema
      /\ d.subclauses = c.subclauses /\ d.kept = c.kept
  BY ONLY <1>1, CapturerFields
<1>3. d = [clause |-> d.clause, name |-> d.name, generated |-> d.generated,
           regenerated |-> d.regenerated, capturedSchema |-> d.capturedSchema,
           capturedModifiedSchema |-> d.capturedModifiedSchema,
           subclauses |-> d.subclauses, kept |-> d.kept]
  BY <1>1, <1>2
<1> QED
  BY <1>2, <1>3 DEF IsCapturer

(* A capturer that has generated its clause. *)
IsClauseOf(c, n, m, d) ==
  /\ IsCapturer(d) /\ d.kept = c.kept /\ Len(d.subclauses) = m
  /\ \A k \in 1 .. m : d.subclauses[k] = n + k

(* The numbers of m capturers after the first n. *)
AreNumbers(s, n, m) == n \in Nat /\ m \in {0, 1, 2} /\ s = [k \in 1 .. m |-> n + k]

LEMMA ClauseOf ==
  ASSUME NEW c, IsCapturer(c), NEW known, NEW named, IsList(named),
         NEW n, NEW m, NEW s, AreNumbers(s, n, m)
  PROVE  IsClauseOf(c, n, m, [c EXCEPT !.capturedSchema = known, !.name = named,
                                       !.subclauses = s])
<1>5. PICK d : d = [c EXCEPT !.capturedSchema = known, !.name = named, !.subclauses = s]
  OBVIOUS
<1>1. d = [clause |-> c.clause, name |-> named, generated |-> c.generated,
           regenerated |-> c.regenerated, capturedSchema |-> known,
           capturedModifiedSchema |-> c.capturedModifiedSchema,
           subclauses |-> s, kept |-> c.kept]
  BY <1>5 DEF IsCapturer
<1>2. /\ d.clause = c.clause /\ d.name = named /\ d.generated = c.generated
      /\ d.regenerated = c.regenerated /\ d.capturedSchema = known
      /\ d.capturedModifiedSchema = c.capturedModifiedSchema
      /\ d.subclauses = s /\ d.kept = c.kept
  BY ONLY <1>1, CapturerFields
<1>3. d = [clause |-> d.clause, name |-> d.name, generated |-> d.generated,
           regenerated |-> d.regenerated, capturedSchema |-> d.capturedSchema,
           capturedModifiedSchema |-> d.capturedModifiedSchema,
           subclauses |-> d.subclauses, kept |-> d.kept]
  BY <1>1, <1>2
<1>4. s \in Seq(Nat) /\ Len(s) = m /\ Len(s) <= 2 /\ \A k \in 1 .. m : s[k] = n + k
  <2>4. n \in Nat /\ m \in {0, 1, 2} /\ s = [k \in 1 .. m |-> n + k]
    BY DEF AreNumbers
  <2>1. m \in Nat /\ m <= 2 /\ \A k \in 1 .. m : n + k \in Nat
    BY ONLY <2>4
  <2>2. s \in [1 .. m -> Nat]
    BY <2>1, <2>4
  <2>3. s \in Seq(Nat) /\ Len(s) = m
    BY <2>1, <2>2
  <2> QED
    BY <2>1, <2>3, <2>4
<1>6. IsClauseOf(c, n, m, d)
  BY <1>2, <1>3, <1>4 DEF IsCapturer, IsClauseOf
<1> QED
  BY <1>5, <1>6

(* The capturers when a clause is generated: those below it are new, and   *)
(* its own schema, or that of another capturer, is a new one.              *)
HeapAfter(h, i, known, named, below, owner, after, t) ==
  LET captured ==
        [h EXCEPT ![i] =
           [@ EXCEPT !.capturedSchema = known, !.name = named,
                     !.subclauses = [k \in DOMAIN below |-> Len(h) + k]]]
  IN t = (IF owner = 0 THEN captured ELSE [captured EXCEPT ![owner].capturedSchema = after])
         \o [k \in DOMAIN below |-> Capturer(below[k])]

LEMMA ClauseGrows ==
  ASSUME NEW h, Links(h), NEW i, i \in 1 .. Len(h), NEW known, NEW named, IsList(named),
         NEW below, IsList(below), Len(below) \in {0, 1, 2}, NEW owner, NEW after, NEW t,
         HeapAfter(h, i, known, named, below, owner, after, t)
  PROVE  Grown(h, i, Len(below), t)
<1>16. PICK captured :
         /\ captured = [h EXCEPT ![i] =
                          [@ EXCEPT !.capturedSchema = known, !.name = named,
                                    !.subclauses = [k \in DOMAIN below |-> Len(h) + k]]]
         /\ t = (IF owner = 0 THEN captured
                 ELSE [captured EXCEPT ![owner].capturedSchema = after])
                \o [k \in DOMAIN below |-> Capturer(below[k])]
  BY Zenon DEF HeapAfter
<1>1. PICK n, m, s, b, c : /\ n = Len(h) /\ m = Len(below) /\ s = [k \in 1 .. m |-> n + k]
                           /\ b = h[i]
                           /\ c = [b EXCEPT !.capturedSchema = known, !.name = named,
                                            !.subclauses = s]
  OBVIOUS
<1>2. /\ IsList(h) /\ n \in Nat /\ i \in 1 .. n /\ m \in {0, 1, 2} /\ DOMAIN below = 1 .. m
      /\ DOMAIN h = 1 .. n
      /\ \A x \in 1 .. n : IsCapturer(h[x])
  BY <1>1, ListProperties DEF Links
<1>3. /\ IsCapturer(c) /\ c.kept = h[i].kept /\ Len(c.subclauses) = m
      /\ \A k \in 1 .. m : c.subclauses[k] = n + k
  <2>1. IsCapturer(b) /\ b = h[i]
    BY <1>1, <1>2
  <2>2. AreNumbers(s, n, m) /\ IsList(named)
    BY <1>1, <1>2 DEF AreNumbers
  <2>3. IsClauseOf(b, n, m, [b EXCEPT !.capturedSchema = known, !.name = named,
                                      !.subclauses = s])
    BY ONLY <2>1, <2>2, ClauseOf
  <2>4. IsClauseOf(b, n, m, c)
    BY <1>1, <2>3
  <2> QED
    BY <2>1, <2>4 DEF IsClauseOf
<1>4. Changed(h, i, c, captured)
  <2>1. captured = [h EXCEPT ![i] =
                      [h[i] EXCEPT !.capturedSchema = known, !.name = named,
                                   !.subclauses = [k \in DOMAIN below |-> Len(h) + k]]]
    BY <1>16
  <2>2. s = [k \in DOMAIN below |-> Len(h) + k]
    BY <1>1, <1>2
  <2>3. c = [h[i] EXCEPT !.capturedSchema = known, !.name = named,
                         !.subclauses = [k \in DOMAIN below |-> Len(h) + k]]
    BY <1>1, <2>2
  <2>4. captured = [h EXCEPT ![i] = c]
    BY <2>1, <2>3
  <2>5. IsList(h) /\ i \in 1 .. Len(h)
    BY <1>1, <1>2
  <2>6. Changed(h, i, c, [h EXCEPT ![i] = c])
    BY ONLY <2>5, ListExcept
  <2> QED
    BY <2>4, <2>6
<1>5. /\ IsList(captured) /\ Len(captured) = n
      /\ \A x \in 1 .. n : captured[x] = (IF x = i THEN c ELSE h[x]) /\ IsCapturer(captured[x])
  BY <1>1, <1>2, <1>3, <1>4 DEF Changed
<1>6. PICK g : g = IF owner = 0 THEN captured
                   ELSE [captured EXCEPT ![owner].capturedSchema = after]
  OBVIOUS
<1>7. /\ IsList(g) /\ Len(g) = n
      /\ \A x \in 1 .. n : /\ IsCapturer(g[x]) /\ g[x].kept = captured[x].kept
                           /\ g[x].subclauses = captured[x].subclauses
                           /\ g[x].name = captured[x].name
  <2>1. CASE owner = 0
    BY <1>5, <1>6, <2>1
  <2>2. CASE owner # 0 /\ owner \in 1 .. n
    <3>1. PICK f : f = [captured[owner] EXCEPT !.capturedSchema = after]
      OBVIOUS
    <3>2. g = [captured EXCEPT ![owner] = f]
      BY <1>6, <2>2, <3>1
    <3>3. IsList(captured) /\ owner \in 1 .. Len(captured)
      BY <1>5, <2>2
    <3>4. Changed(captured, owner, f, [captured EXCEPT ![owner] = f])
      BY ONLY <3>3, ListExcept
    <3>5. IsCapturer(captured[owner])
      BY <1>5, <2>2
    <3>6. /\ IsCapturer(f) /\ f.kept = captured[owner].kept
          /\ f.subclauses = captured[owner].subclauses /\ f.name = captured[owner].name
      BY ONLY <3>1, <3>5, CapturedOf
    <3>7. /\ IsList(g) /\ Len(g) = n
          /\ \A x \in 1 .. n : g[x] = IF x = owner THEN f ELSE captured[x]
      BY <1>5, <3>2, <3>4 DEF Changed
    <3> QED
      BY <1>5, <3>6, <3>7
  <2>3. CASE owner # 0 /\ owner \notin 1 .. n
    <3>1. DOMAIN captured = 1 .. n
      BY <1>5, ListProperties
    <3>2. captured = [x \in 1 .. n |-> captured[x]]
      <4>1. PICK S : captured \in Seq(S)
        BY <1>5 DEF IsList
      <4> QED
        BY <3>1, <4>1
    <3>3. g = [captured EXCEPT ![owner].capturedSchema = after]
      BY <1>6, <2>3
    <3>4. g = captured
      BY <2>3, <3>1, <3>2, <3>3
    <3> QED
      BY <1>5, <3>4
  <2> QED
    BY <2>1, <2>2, <2>3
<1>8. PICK u : u = [k \in DOMAIN below |-> Capturer(below[k])]
  OBVIOUS
<1>9. /\ IsList(u) /\ Len(u) = m
      /\ \A k \in 1 .. m : IsCapturer(u[k]) /\ Len(u[k].subclauses) = 0 /\ u[k].kept = {}
  <2>1. u = [k \in 1 .. m |-> u[k]] /\ \A k \in 1 .. m : u[k] = Capturer(below[k])
    BY <1>2, <1>8
  <2>2. PICK S : S = {u[k] : k \in 1 .. m}
    OBVIOUS
  <2>3. u \in [1 .. m -> S]
    BY <2>1, <2>2
  <2>4. m \in Nat
    BY ONLY <1>2
  <2>5. u \in Seq(S) /\ Len(u) = m
    BY ONLY <2>3, <2>4
  <2> QED
    <3>1. IsList(u)
      BY <2>5 DEF IsList
    <3> QED
      BY <2>1, <2>5, <3>1, NewCapturer, ZenonT(40)
<1>10. t = g \o u
  BY <1>6, <1>8, <1>16
<1>11. /\ IsList(t) /\ Len(t) = n + m
       /\ \A k \in 1 .. n : t[k] = g[k]
       /\ \A k \in 1 .. m : t[n + k] = u[k]
  <2>1. IsList(g) /\ IsList(u) /\ Len(g) = n /\ Len(u) = m
    BY <1>7, <1>9
  <2>2. Joined(g, u, g \o u)
    BY ONLY <2>1, Concatenated
  <2>3. Joined(g, u, t)
    BY <1>10, <2>2
  <2> QED
    BY <2>1, <2>3 DEF Joined
<1>12. \A x \in n + 1 .. n + m : \E k \in 1 .. m : x = n + k
  <2>1. \A x \in n + 1 .. n + m : x - n \in 1 .. m /\ x = n + (x - n)
    BY ONLY <1>2
  <2> QED
    BY ONLY <2>1
<1>13. ASSUME NEW x \in 1 .. n
       PROVE  /\ IsCapturer(t[x]) /\ t[x].kept = h[x].kept
              /\ x # i => t[x].subclauses = h[x].subclauses /\ t[x].name = h[x].name
  <2>1. /\ t[x] = g[x] /\ IsCapturer(g[x]) /\ g[x].kept = captured[x].kept
        /\ g[x].subclauses = captured[x].subclauses /\ g[x].name = captured[x].name
    BY <1>7, <1>11
  <2>2. captured[x] = (IF x = i THEN c ELSE h[x]) /\ c.kept = h[i].kept
    BY <1>3, <1>5
  <2> QED
    BY ONLY <2>1, <2>2
<1>14. ASSUME NEW x \in n + 1 .. n + m
       PROVE  IsCapturer(t[x]) /\ Len(t[x].subclauses) = 0 /\ t[x].kept = {}
  <2>1. PICK k \in 1 .. m : x = n + k
    BY <1>12
  <2> QED
    BY <1>9, <1>11, <2>1
<1>15. Len(t[i].subclauses) = m /\ \A k \in 1 .. m : t[i].subclauses[k] = n + k
  <2>1. t[i].subclauses = c.subclauses
    BY <1>2, <1>5, <1>7, <1>11
  <2> QED
    BY <1>3, <2>1
<1> QED
  BY <1>1, <1>2, <1>11, <1>13, <1>14, <1>15 DEF Grown

-----------------------------------------------------------------------------
(* The invariant: unless the limit was met, after which nothing is said.   *)

Exhausted == calls # << >> /\ Top.nodes >= Top.max

KeptIn(live) ==
  /\ Keeps(capturers, text, calls, root, live, Drawn)
  /\ phase = "propose" => IsTop(capturers, live, accepted)

KInv == outcome = "failed" \/ Exhausted \/ \E live : KeptIn(live)

(* A call that has something left to do. *)
LEMMA CallGoesOn ==
  ASSUME IInv, KInv, calls # << >>, ~Exhausted
  PROVE  /\ \E live : KeptIn(live)
         /\ IsStack(calls, Limit, entered) /\ outcome = "generating"
         /\ Len(calls) \in Nat /\ Len(calls) \in 1 .. Len(calls) /\ IsList(calls)
         /\ Top = calls[Len(calls)] /\ IsCall(Top)
<1>1. IsStack(calls, Limit, entered) /\ outcome = "generating"
  BY DEF IInv
<1>2. /\ Len(calls) \in Nat /\ Len(calls) \in 1 .. Len(calls) /\ IsList(calls)
      /\ Top = calls[Len(calls)] /\ IsCall(Top)
  BY <1>1, ListProperties DEF IsStack, Top
<1> QED
  BY <1>1, <1>2 DEF KInv

LEMMA NotYetExhausted ==
  ASSUME IInv, calls # << >>, Top.next = 0, Top.max # 1
  PROVE  ~Exhausted
<1>1. IsCall(Top)
  BY ListProperties DEF IInv, IsStack, Top
<1>2. PICK max, nodes : max = Top.max /\ nodes = Top.nodes
  OBVIOUS
<1>3. max \in Nat /\ nodes = 1 /\ nodes \in 1 .. max /\ max # 1
  BY <1>1, <1>2 DEF IsCall
<1>4. ~(nodes >= max)
  BY ONLY <1>3
<1> QED
  BY <1>2, <1>4 DEF Exhausted

(* The limit was met by a call: its caller meets it. *)
LEMMA ExhaustedReturns ==
  ASSUME IInv, calls # << >>, Top.nodes >= Top.max, Return(Top.nodes)
  PROVE  KInv'
<1>1. IsStack(calls, Limit, entered) /\ IsList(calls)
  BY DEF IInv, IsStack
<1>2. PICK n : n = Len(calls)
  OBVIOUS
<1>3. n \in Nat /\ n \in 1 .. n /\ Top = calls[n]
  BY <1>1, <1>2, ListProperties DEF Top
<1>4. CASE Outer = << >>
  BY <1>4 DEF Return, KInv
<1>5. CASE Outer # << >>
  <2>1. /\ IsList(Outer) /\ Len(Outer) = n - 1 /\ \A k \in 1 .. n - 1 : Outer[k] = calls[k]
        /\ n # 1
    BY <1>1, <1>2, <1>5, OuterCalls DEF Outer
  <2>2. PICK m : m = n - 1
    OBVIOUS
  <2>3. m \in Nat /\ m \in 1 .. m /\ m + 1 = n /\ m \in 1 .. n
    BY ONLY <1>3, <2>1, <2>2
  <2>4. PICK c, d, o : /\ c = calls[m] /\ o = Outer
                       /\ d = [c EXCEPT !.nodes = c.nodes + Top.nodes, !.next = c.next + 1]
    OBVIOUS
  <2>5. Len(o) = m /\ o[m] = c /\ IsList(o) /\ Caller = c
    BY <2>1, <2>2, <2>3, <2>4 DEF Caller
  <2>6. calls' = [o EXCEPT ![m] = d]
    BY <1>5, <2>4, <2>5 DEF Return
  <2>7. Changed(o, m, d, [o EXCEPT ![m] = d])
    <3>1. IsList(o) /\ m \in 1 .. Len(o)
      BY <2>3, <2>5
    <3> QED
      BY ONLY <3>1, ListExcept
  <2>8. IsList(calls') /\ Len(calls') = m /\ calls'[m] = d
    BY <2>3, <2>5, <2>6, <2>7 DEF Changed
  <2>9. Top' = d /\ calls' # << >>
    <3>1. m # 0
      BY ONLY <2>3
    <3> QED
      BY <2>8, <3>1, EmptyList DEF Top
  <2>10. IsCall(c) /\ IsCall(Top) /\ Top.max = c.max - c.nodes
    <3>1. m \in 1 .. n - 1
      BY ONLY <2>2, <2>3
    <3> QED
      BY <1>1, <1>2, <1>3, <2>3, <2>4, <3>1 DEF IsStack
  <2>11. PICK max, nodes, below, next :
           max = c.max /\ nodes = c.nodes /\ below = Top.nodes /\ next = c.next
    OBVIOUS
  <2>12. /\ max \in Nat /\ nodes \in 1 .. max /\ below \in 1 .. max - nodes
         /\ below >= max - nodes
    BY <2>10, <2>11 DEF IsCall
  <2>13. d.nodes = nodes + below /\ d.max = max
    BY <2>4, <2>10, <2>11 DEF IsCall
  <2>14. nodes + below >= max
    BY ONLY <2>12
  <2>15. Exhausted'
    BY <2>9, <2>13, <2>14 DEF Exhausted
  <2> QED
    BY <2>15 DEF KInv
<1> QED
  BY <1>4, <1>5

LEMMA LimitReachedKeeps ==
  ASSUME IInv, LimitReached
  PROVE  KInv'
<1>1. /\ calls # << >> /\ Top.next = 0 /\ Top.max = 1 /\ Return(1)
  BY DEF LimitReached
<1>2. IsCall(Top)
  BY <1>1, ListProperties DEF IInv, IsStack, Top
<1>3. Top.nodes = 1 /\ 1 >= 1
  BY <1>1, <1>2 DEF IsCall
<1> QED
  BY <1>1, <1>3, ExhaustedReturns

LEMMA GiveUpKeeps ==
  ASSUME IInv, GiveUp
  PROVE  KInv'
BY ExhaustedReturns DEF GiveUp

(* Generate of a capturer that has its subclauses. *)
LEMMA GenerateAgainKeeps ==
  ASSUME IInv, KInv, GenerateAgain
  PROVE  KInv'
<1>1. /\ calls # << >> /\ Top.next = 0 /\ Top.max # 1 /\ calls' = Generated({})
      /\ UNCHANGED <<capturers, text, root, phase, accepted, index, overflow>>
  BY DEF GenerateAgain, Entering, reductionVars, seedVars
<1>2. ~Exhausted
  BY <1>1, NotYetExhausted
<1>3. PICK live : KeptIn(live)
  BY <1>1, <1>2, CallGoesOn
<1>4. IsStack(calls, Limit, entered) /\ Top = calls[Len(calls)]
  BY <1>1, <1>2, CallGoesOn
<1>5. PICK h, txt, cs, r, d, n, i, es :
        /\ h = capturers /\ txt = text /\ cs = calls /\ r = root /\ d = Drawn
        /\ n = Len(cs) /\ i = cs[n].capturer /\ es = calls'
  OBVIOUS
<1>6. /\ Keeps(h, txt, cs, r, live, d) /\ Inner(cs, n, i)
      /\ cs[n].next = 0
  BY <1>1, <1>3, <1>4, <1>5 DEF KeptIn, Inner
<1>7. /\ Links(h) /\ Forest(h, live) /\ IsTop(h, live, r) /\ live \subseteq live
  BY <1>6 DEF Keeps
<1>8. HeapEntered(h, live, r, i, d, {}, h, live, d)
  BY <1>7 DEF HeapEntered
<1>9. Entered(cs, {}, h[i].kept, Len(txt), d, es)
  <2>1. Clause.kept = h[i].kept
    BY <1>4, <1>5 DEF Clause
  <2> QED
    BY <1>1, <1>4, <1>5, <2>1, CallsEntered
<1>11. Keeps(h, txt, es, r, live, d)
  BY ONLY <1>6, <1>8, <1>9, EnterKeeps
<1>12. Drawn' = Drawn
  BY <1>1 DEF Drawn
<1>13. KeptIn(live)'
  BY <1>1, <1>3, <1>5, <1>11, <1>12 DEF KeptIn
<1> QED
  BY <1>13 DEF KInv

(* The heap of a clause that generates is that of a call that is entered. *)
LEMMA GrownIsEntered ==
  ASSUME NEW h, Links(h), NEW live, Forest(h, live), NEW r, IsTop(h, live, r),
         NEW i \in live, h[i].kept = {}, NEW m, NEW t, Grown(h, i, m, t),
         NEW used, used = live \cup (Len(h) + 1 .. Len(h) + m), NEW d, NEW d2, NEW imports
  PROVE  HeapEntered(h, live, r, i, d, imports, t, used, d2)
<1>1. /\ Links(t) /\ Forest(t, used) /\ \A q : IsTop(h, live, q) => IsTop(t, used, q)
  <2>1. /\ Links(h) /\ Forest(h, live) /\ i \in live /\ Grown(h, i, m, t)
        /\ used = live \cup (Len(h) + 1 .. Len(h) + m)
    OBVIOUS
  <2> QED
    BY ONLY <2>1, GrownKeeps
<1>2. live \subseteq 1 .. Len(h)
  BY DEF Forest, Closed
<1>3. \A x \in live : t[x].kept = h[x].kept
  BY <1>2 DEF Grown
<1>4. \A x \in live : x # i => t[x].subclauses = h[x].subclauses /\ t[x].name = h[x].name
  BY <1>2 DEF Grown
<1>5. \A x \in used : x \notin live => t[x].kept = {}
  BY DEF Grown
<1> QED
  BY <1>1, <1>3, <1>4, <1>5 DEF HeapEntered

(* t is h where the capturer i has generated its clause, from what it knows. *)
GeneratedHeap(h, i, clause, known, b, owner, t) ==
  LET named == WrittenName(clause, known, b)
      after == IF clause = "NewLabel" THEN known \o named ELSE known
  IN HeapAfter(h, i, known, named, Subclauses(clause, known, b), owner, after, t)

LEMMA GeneratedHeapGrows ==
  ASSUME NEW h, Links(h), NEW i, i \in 1 .. Len(h), NEW clause, NEW known, NEW b, NEW owner,
         NEW t, GeneratedHeap(h, i, clause, known, b, owner, t)
  PROVE  \E m : Grown(h, i, m, t)
<1>1. PICK below, named, after :
        /\ below = Subclauses(clause, known, b) /\ named = WrittenName(clause, known, b)
        /\ HeapAfter(h, i, known, named, below, owner, after, t)
  BY DEF GeneratedHeap
<1>2. IsList(below) /\ Len(below) \in {0, 1, 2}
  BY <1>1, FewSubclauses
<1>3. IsList(named)
  BY <1>1, NameIsList
<1>4. Links(h) /\ i \in 1 .. Len(h) /\ HeapAfter(h, i, known, named, below, owner, after, t)
  BY <1>1
<1>5. Grown(h, i, Len(below), t)
  BY ONLY <1>2, <1>3, <1>4, ClauseGrows
<1> QED
  BY <1>5

LEMMA GenerateClauseStep ==
  ASSUME GenerateClause
  PROVE  \E imports, known, b, owner :
           /\ calls' = Generated(imports)
           /\ GeneratedHeap(capturers, Top.capturer, Clause.clause, known, b, owner, capturers')
<1> DEFINE known == IF Clause.regenerated THEN Clause.capturedSchema ELSE schema
           owner == IF Clause.regenerated THEN Top.capturer ELSE shares
           clause == Clause.clause
<1>1. \E b \in Bytes :
        /\ calls' = Generated(Imports(clause, known))
        /\ GeneratedHeap(capturers, Top.capturer, clause, known, b, owner, capturers')
  BY Zenon DEF GenerateClause, GeneratedHeap, HeapAfter
<1> HIDE DEF known, owner
<1> QED
  BY <1>1

(* Generate of one that has to generate its clause. *)
LEMMA GenerateClauseKeeps ==
  ASSUME IInv, KInv, GenerateClause
  PROVE  KInv'
<1>1. /\ calls # << >> /\ Top.next = 0 /\ Top.max # 1 /\ ~Clause.generated
      /\ UNCHANGED <<text, outcome, root, phase, accepted>>
  BY Zenon DEF GenerateClause, Entering, reductionVars
<1>2. ~Exhausted
  BY <1>1, NotYetExhausted
<1>3. PICK live : KeptIn(live)
  BY <1>1, <1>2, CallGoesOn
<1>4. IsStack(calls, Limit, entered) /\ Top = calls[Len(calls)]
  BY <1>1, <1>2, CallGoesOn
<1>5. PICK h, txt, cs, r, d, d2, n, i, es, t :
        /\ h = capturers /\ txt = text /\ cs = calls /\ r = root /\ d = Drawn /\ d2 = Drawn'
        /\ n = Len(cs) /\ i = cs[n].capturer /\ es = calls' /\ t = capturers'
  OBVIOUS
<1>6. /\ Keeps(h, txt, cs, r, live, d) /\ Inner(cs, n, i)
      /\ cs[n].next = 0
  BY <1>1, <1>3, <1>4, <1>5 DEF KeptIn, Inner
<1>7. Links(h) /\ Forest(h, live) /\ IsTop(h, live, r)
  BY <1>6 DEF Keeps
<1>8. i \in live /\ i \in 1 .. Len(h)
  BY ONLY <1>6, Innermost DEF Around
<1>9. h[i].kept = {} /\ Clause = h[i] /\ Top.capturer = i
  <2>1. Clause = h[i] /\ Top.capturer = i
    BY <1>4, <1>5 DEF Clause
  <2>2. IsCapturer(h[i]) /\ ~h[i].generated
    BY <1>1, <1>7, <1>8, <2>1 DEF Links
  <2> QED
    BY <2>1, <2>2 DEF IsCapturer
<1>10. PICK imports, known, b, owner :
         /\ es = Generated(imports)
         /\ GeneratedHeap(h, i, h[i].clause, known, b, owner, t)
  BY <1>5, <1>9, GenerateClauseStep
<1>11. PICK m : Grown(h, i, m, t)
  BY <1>7, <1>8, <1>10, GeneratedHeapGrows
<1>12. PICK used : used = live \cup (Len(h) + 1 .. Len(h) + m)
  OBVIOUS
<1>13. HeapEntered(h, live, r, i, d, imports, t, used, d2)
  BY ONLY <1>7, <1>8, <1>9, <1>11, <1>12, GrownIsEntered
<1>14. Entered(cs, imports, h[i].kept, Len(txt), d, es)
  BY <1>4, <1>5, <1>9, <1>10, CallsEntered
<1>15. Keeps(t, txt, es, r, used, d2)
  BY ONLY <1>6, <1>13, <1>14, EnterKeeps
<1>16. \A q : IsTop(h, live, q) => IsTop(t, used, q)
  <2>1. /\ Links(h) /\ Forest(h, live) /\ i \in live /\ Grown(h, i, m, t)
        /\ used = live \cup (Len(h) + 1 .. Len(h) + m)
    BY <1>7, <1>8, <1>11, <1>12
  <2>2. Links(t) /\ Forest(t, used) /\ \A q : IsTop(h, live, q) => IsTop(t, used, q)
    BY ONLY <2>1, GrownKeeps
  <2> QED
    BY <2>2
<1>17. KeptIn(used)'
  BY <1>1, <1>3, <1>5, <1>15, <1>16 DEF KeptIn
<1> QED
  BY <1>17 DEF KInv

(* A capturer that has another name. *)
LEMMA RenamedCapturer ==
  ASSUME NEW c, IsCapturer(c), NEW name, IsList(name), NEW d, d = [c EXCEPT !.name = name]
  PROVE  IsCapturer(d) /\ d.kept = c.kept /\ d.subclauses = c.subclauses
<1>1. d = [clause |-> c.clause, name |-> name, generated |-> c.generated,
           regenerated |-> c.regenerated, capturedSchema |-> c.capturedSchema,
           capturedModifiedSchema |-> c.capturedModifiedSchema,
           subclauses |-> c.subclauses, kept |-> c.kept]
  BY DEF IsCapturer
<1>2. /\ d.clause = c.clause /\ d.name = name /\ d.generated = c.generated
      /\ d.regenerated = c.regenerated /\ d.capturedSchema = c.capturedSchema
      /\ d.capturedModifiedSchema = c.capturedModifiedSchema
      /\ d.subclauses = c.subclauses /\ d.kept = c.kept
  BY ONLY <1>1, CapturerFields
<1>3. d = [clause |-> d.clause, name |-> d.name, generated |-> d.generated,
           regenerated |-> d.regenerated, capturedSchema |-> d.capturedSchema,
           capturedModifiedSchema |-> d.capturedModifiedSchema,
           subclauses |-> d.subclauses, kept |-> d.kept]
  BY <1>1, <1>2
<1> QED
  BY <1>2, <1>3 DEF IsCapturer

(* t is h but for the name of the capturer i. *)
Renamed(h, i, t) ==
  /\ Links(t) /\ Len(t) = Len(h)
  /\ \A x \in 1 .. Len(h) : /\ t[x].kept = h[x].kept /\ t[x].subclauses = h[x].subclauses
                            /\ x # i => t[x].name = h[x].name

LEMMA NameGrows ==
  ASSUME NEW h, Links(h), NEW i \in 1 .. Len(h), NEW name, NEW t,
         \/ t = h
         \/ t = [h EXCEPT ![i].name = Append(@, name)]
  PROVE  Renamed(h, i, t)
<1>1. CASE t = h
  BY <1>1 DEF Renamed
<1>2. CASE t = [h EXCEPT ![i].name = Append(@, name)]
  <2>1. PICK word, d : word = Append(h[i].name, name) /\ d = [h[i] EXCEPT !.name = word]
    OBVIOUS
  <2>2. IsCapturer(h[i]) /\ IsList(h) /\ IsList(h[i].name)
    BY DEF Links, IsCapturer
  <2>3. IsList(word)
    BY <2>1, <2>2, ListProperties
  <2>4. IsCapturer(d) /\ d.kept = h[i].kept /\ d.subclauses = h[i].subclauses
    <3>1. IsCapturer(h[i]) /\ IsList(word) /\ d = [h[i] EXCEPT !.name = word]
      BY <2>1, <2>2, <2>3
    <3> QED
      BY ONLY <3>1, RenamedCapturer
  <2>5. t = [h EXCEPT ![i] = d]
    BY <1>2, <2>1
  <2>6. Changed(h, i, d, [h EXCEPT ![i] = d])
    BY <2>2, ListExcept
  <2>7. /\ IsList(t) /\ Len(t) = Len(h)
        /\ \A x \in 1 .. Len(h) : t[x] = IF x = i THEN d ELSE h[x]
    BY <2>5, <2>6 DEF Changed
  <2>8. \A x \in 1 .. Len(h) : t[x].kept = h[x].kept /\ t[x].subclauses = h[x].subclauses
                               /\ IsCapturer(t[x])
    BY <2>4, <2>7 DEF Links
  <2>9. Links(t)
    BY <2>7, <2>8 DEF Links
  <2> QED
    BY <2>7, <2>8, <2>9 DEF Renamed
<1> QED
  BY <1>1, <1>2

(* Generate asks about another name. *)
LEMMA ImportStepKeeps ==
  ASSUME IInv, KInv, Import
  PROVE  KInv'
<1>1. PICK name \in Top.imports :
        /\ calls' = [calls EXCEPT ![Len(calls)].imports = @ \ {name}]
        /\ \/ capturers' = capturers
           \/ capturers' = [capturers EXCEPT ![Top.capturer].name = Append(@, name)]
  BY DEF Import
<1>2. /\ calls # << >> /\ Top.imports # {}
      /\ UNCHANGED <<text, outcome, root, phase, accepted>>
  BY DEF Import, reductionVars
<1>3. PICK h, txt, cs, r, d, d2, n, i, es, t, c, e :
        /\ h = capturers /\ txt = text /\ cs = calls /\ r = root /\ d = Drawn /\ d2 = Drawn'
        /\ n = Len(cs) /\ i = cs[n].capturer /\ es = calls' /\ t = capturers'
        /\ c = cs[n] /\ e = [c EXCEPT !.imports = c.imports \ {name}]
  OBVIOUS
<1>4. /\ IsStack(cs, Limit, entered) /\ IsList(cs) /\ n \in 1 .. Len(cs) /\ Top = c
      /\ outcome = "generating"
  BY <1>2, <1>3, ListProperties DEF IInv, IsStack, Top
<1>5. IsCall(c)
  BY <1>3, <1>4 DEF IsStack
<1>6. /\ e.capturer = c.capturer /\ e.next = c.next /\ e.start = c.start /\ e.clean = c.clean
      /\ e.nodes = c.nodes /\ e.max = c.max
  BY <1>3, <1>5 DEF IsCall
<1>7. Changed(cs, n, e, es)
  <2>1. es = [cs EXCEPT ![n] = e]
    BY <1>1, <1>3, <1>4
  <2>2. Changed(cs, n, e, [cs EXCEPT ![n] = e])
    BY ONLY <1>4, ListExcept
  <2> QED
    BY <2>1, <2>2
<1>8. Len(es) = n /\ es[n] = e /\ IsList(es) /\ Top' = e
  <2>1. Len(es) = n /\ es[n] = e /\ IsList(es)
    BY <1>3, <1>4, <1>7 DEF Changed
  <2> QED
    BY <1>3, <2>1 DEF Top
<1>9. CASE Exhausted
  <2>1. n # 0
    BY <1>2, <1>3, <1>4, EmptyList
  <2>2. es # << >>
    BY <1>8, <2>1, EmptyList
  <2>3. Exhausted'
    BY <1>3, <1>4, <1>6, <1>8, <1>9, <2>2 DEF Exhausted
  <2> QED
    BY <2>3 DEF KInv
<1>10. CASE ~Exhausted
  <2>1. PICK live : KeptIn(live)
    BY <1>2, <1>10, CallGoesOn
  <2>2. Keeps(h, txt, cs, r, live, d) /\ Inner(cs, n, i)
    BY <1>2, <1>3, <2>1 DEF KeptIn, Inner
  <2>3. i \in live /\ i \in 1 .. Len(h)
    BY ONLY <2>2, Innermost DEF Around
  <2>4. Links(h) /\ Forest(h, live) /\ Len(h) \in Nat /\ live \subseteq 1 .. Len(h)
    BY <2>2, ListProperties DEF Keeps, Links, Forest, Closed
  <2>5. Renamed(h, i, t)
    <3>1. t = h \/ t = [h EXCEPT ![i].name = Append(@, name)]
      BY <1>1, <1>3, <1>4
    <3> QED
      BY ONLY <2>3, <2>4, <3>1, NameGrows
  <2>6. /\ Links(t) /\ Len(t) = Len(h)
        /\ \A x \in 1 .. Len(h) : /\ t[x].kept = h[x].kept /\ t[x].subclauses = h[x].subclauses
                                  /\ x # i => t[x].name = h[x].name
    BY <2>5 DEF Renamed
  <2>7. cs[n].imports # {}
    BY <1>2, <1>3, <1>4
  <2>8. /\ Changed(cs, n, e, es)
        /\ e.capturer = i /\ e.next = cs[n].next /\ e.start = cs[n].start
        /\ e.clean <=> cs[n].clean
    BY <1>3, <1>6, <1>7
  <2>9. Keeps(t, txt, es, r, live, d2)
    BY ONLY <2>2, <2>6, <2>7, <2>8, ImportKeeps
  <2>10. \A q : IsTop(h, live, q) => IsTop(t, live, q)
    <3>1. \A x \in live : t[x].subclauses = h[x].subclauses
      BY <2>4, <2>6
    <3> QED
      BY <2>4, <2>6, <3>1, SameForest
  <2>11. KeptIn(live)'
    BY <1>2, <1>3, <2>1, <2>9, <2>10 DEF KeptIn
  <2> QED
    BY <2>11 DEF KInv
<1> QED
  BY <1>9, <1>10

(* A call makes another one. *)
LEMMA SubcallStepKeeps ==
  ASSUME IInv, KInv, Subcall
  PROVE  KInv'
<1>1. /\ calls # << >> /\ Top.next \in DOMAIN Clause.subclauses /\ Top.nodes < Top.max
      /\ calls' = Append(calls, Call(Clause.subclauses[Top.next], Remaining))
      /\ UNCHANGED <<capturers, text, root, phase, accepted, index, overflow>>
  BY DEF Subcall, reductionVars, seedVars
<1>2. ~Exhausted
  <2>1. IsCall(Top)
    BY <1>1, ListProperties DEF IInv, IsStack, Top
  <2>2. PICK max, nodes : max = Top.max /\ nodes = Top.nodes
    OBVIOUS
  <2>3. max \in Nat /\ nodes \in 1 .. max /\ nodes < max
    BY <1>1, <2>1, <2>2 DEF IsCall
  <2>4. ~(nodes >= max)
    BY ONLY <2>3
  <2> QED
    BY <2>2, <2>4 DEF Exhausted
<1>3. PICK live : KeptIn(live)
  BY <1>1, <1>2, CallGoesOn
<1>4. IsStack(calls, Limit, entered) /\ Top = calls[Len(calls)] /\ IsList(calls)
  BY <1>1, <1>2, CallGoesOn
<1>5. PICK h, txt, cs, r, d, n, i, es, c :
        /\ h = capturers /\ txt = text /\ cs = calls /\ r = root /\ d = Drawn
        /\ n = Len(cs) /\ i = cs[n].capturer /\ es = calls'
        /\ c = Call(Clause.subclauses[Top.next], Remaining)
  OBVIOUS
<1>6. Keeps(h, txt, cs, r, live, d) /\ Inner(cs, n, i)
  BY <1>1, <1>3, <1>4, <1>5 DEF KeptIn, Inner
<1>7. i \in live /\ i \in 1 .. Len(h)
  BY ONLY <1>6, Innermost DEF Around
<1>8. cs[n].next \in 1 .. Len(h[i].subclauses)
  <2>1. DOMAIN h[i].subclauses = 1 .. Len(h[i].subclauses)
    BY <1>6, <1>7, Subclause DEF Keeps
  <2> QED
    BY <1>1, <1>4, <1>5, <2>1 DEF Clause
<1>9. c.capturer = h[i].subclauses[cs[n].next] /\ c.next = 0 /\ c.imports = {} /\ c.clean
  BY <1>4, <1>5 DEF Clause, Call
<1>10. /\ IsList(es) /\ Len(es) = n + 1 /\ es[n + 1] = c
       /\ \A k \in 1 .. n : es[k] = cs[k]
  <2>1. es = Append(cs, c) /\ IsList(cs)
    BY <1>1, <1>4, <1>5
  <2> QED
    BY <1>5, <2>1, ListProperties
<1>11. Keeps(h, txt, es, r, live, d)
  BY ONLY <1>6, <1>8, <1>9, <1>10, SubcallKeeps
<1>12. Drawn' = Drawn
  BY <1>1 DEF Drawn
<1>13. KeptIn(live)'
  BY <1>1, <1>3, <1>5, <1>11, <1>12 DEF KeptIn
<1> QED
  BY <1>13 DEF KInv

(* A capturer that has said something. *)
Says(c, said, d) ==
  IsCapturer(d) /\ d.kept = {said} /\ d.subclauses = c.subclauses /\ d.name = c.name

LEMMA CapturerSays ==
  ASSUME NEW c, IsCapturer(c), NEW said, IsList(said), NEW after
  PROVE  Says(c, said, [c EXCEPT !.capturedModifiedSchema = after, !.generated = TRUE,
                                 !.kept = {said}])
<1>4. PICK d : d = [c EXCEPT !.capturedModifiedSchema = after, !.generated = TRUE,
                             !.kept = {said}]
  OBVIOUS
<1>1. d = [clause |-> c.clause, name |-> c.name, generated |-> TRUE,
           regenerated |-> c.regenerated, capturedSchema |-> c.capturedSchema,
           capturedModifiedSchema |-> after,
           subclauses |-> c.subclauses, kept |-> {said}]
  BY <1>4 DEF IsCapturer
<1>2. /\ d.clause = c.clause /\ d.name = c.name /\ d.generated = TRUE
      /\ d.regenerated = c.regenerated /\ d.capturedSchema = c.capturedSchema
      /\ d.capturedModifiedSchema = after
      /\ d.subclauses = c.subclauses /\ d.kept = {said}
  BY ONLY <1>1, CapturerFields
<1>3. d = [clause |-> d.clause, name |-> d.name, generated |-> d.generated,
           regenerated |-> d.regenerated, capturedSchema |-> d.capturedSchema,
           capturedModifiedSchema |-> d.capturedModifiedSchema,
           subclauses |-> d.subclauses, kept |-> d.kept]
  BY <1>1, <1>2
<1>5. Says(c, said, d)
  BY <1>2, <1>3 DEF IsCapturer, Says
<1> QED
  BY <1>4, <1>5

(* What a call returns to. *)
LEMMA ReturnPops ==
  ASSUME NEW limit, NEW number, IsStack(calls, limit, number), NEW nodes, Return(nodes)
  PROVE  Popped(calls, calls')
<1>1. PICK n, m, cs, es : n = Len(cs) /\ m = n - 1 /\ cs = calls /\ es = calls'
  OBVIOUS
<1>2. IsList(cs) /\ n \in Nat /\ n \in 1 .. n /\ \A k \in 1 .. n : IsCall(cs[k])
  BY <1>1, ListProperties DEF IsStack
<1>3. Outer = SubSeq(cs, 1, Len(cs) - 1) /\ cs # << >>
  BY <1>1 DEF Outer, IsStack
<1>4. PICK o : o = Outer
  OBVIOUS
<1>5. /\ IsList(o) /\ Len(o) = m /\ \A k \in 1 .. m : o[k] = cs[k]
      /\ o = << >> <=> n = 1
  BY <1>1, <1>2, <1>3, <1>4, OuterCalls, ZenonT(40)
<1>6. CASE o = << >>
  <2>1. es = << >>
    BY <1>1, <1>4, <1>6 DEF Return
  <2>2. m = 0 /\ \A k \in 1 .. m : FALSE
    <3>1. n = 1
      BY <1>5, <1>6
    <3> QED
      BY ONLY <1>1, <3>1
  <2> QED
    BY <1>1, <2>1, <2>2, EmptyList DEF Popped
<1>7. CASE o # << >>
  <2>1. m \in Nat /\ m \in 1 .. m /\ \A k \in 1 .. m : k \in 1 .. n
    <3>1. n # 1
      BY <1>5, <1>7
    <3>2. m = n - 1
      BY <1>1
    <3> QED
      BY ONLY <1>2, <3>1, <3>2
  <2>2. PICK c, d : c = cs[m] /\ d = [c EXCEPT !.nodes = c.nodes + nodes, !.next = c.next + 1]
    OBVIOUS
  <2>3. Caller = c
    BY <1>4, <1>5, <2>1, <2>2 DEF Caller
  <2>4. es = [o EXCEPT ![m] = d]
    BY <1>1, <1>4, <1>5, <1>7, <2>2, <2>3 DEF Return
  <2>5. Changed(o, m, d, [o EXCEPT ![m] = d])
    <3>1. IsList(o) /\ m \in 1 .. Len(o)
      BY <1>5, <2>1
    <3> QED
      BY ONLY <3>1, ListExcept
  <2>6. /\ IsList(es) /\ Len(es) = m
        /\ \A k \in 1 .. m : es[k] = IF k = m THEN d ELSE cs[k]
    BY <1>5, <2>4, <2>5 DEF Changed
  <2>7. PICK x, y : x = c.nodes + nodes /\ y = c.next + 1
    OBVIOUS
  <2>8. IsCall(c)
    BY <1>2, <2>1, <2>2
  <2>9. d = [capturer |-> c.capturer, max |-> c.max, nodes |-> x, next |-> y,
             start |-> c.start, drawn |-> c.drawn, clean |-> c.clean, imports |-> c.imports]
    BY <2>2, <2>7, <2>8 DEF IsCall
  <2>10. /\ d.capturer = c.capturer /\ d.next = c.next + 1 /\ d.start = c.start
         /\ d.drawn = c.drawn /\ d.clean = c.clean /\ d.imports = c.imports
    BY <2>7, <2>9
  <2>11. ASSUME NEW k \in 1 .. m
         PROVE  /\ es[k].capturer = cs[k].capturer /\ es[k].start = cs[k].start
                /\ es[k].imports = cs[k].imports /\ es[k].drawn = cs[k].drawn
                /\ es[k].clean <=> cs[k].clean
                /\ es[k].next = IF k = m THEN cs[k].next + 1 ELSE cs[k].next
    <3>1. CASE k = m
      <4>1. es[k] = d /\ cs[k] = c
        BY <2>2, <2>6, <3>1
      <4> QED
        BY <2>10, <3>1, <4>1
    <3>2. CASE k # m
      <4>1. es[k] = cs[k]
        BY <2>6, <3>2
      <4> QED
        BY <3>2, <4>1
    <3> QED
      BY <3>1, <3>2
  <2> QED
    BY <1>1, <2>6, <2>11 DEF Popped
<1> QED
  BY <1>6, <1>7

(* What AtEnd says of the innermost call. *)
LEMMA AtEndSays ==
  ASSUME IInv, KInv, AtEnd
  PROVE  \E live : /\ KeptIn(live)
                   /\ AtItsEnd(capturers, text, calls, Said)
                   /\ SaysWhatIsBelow(capturers, text, Top.capturer, Top, Drawn, Said)
                   /\ Top = calls[Len(calls)] /\ IsStack(calls, Limit, entered)
<1>1. /\ calls # << >> /\ Top.next > Len(Clause.subclauses) /\ Top.nodes < Top.max
  BY DEF AtEnd
<1>2. IsCall(Top)
  BY <1>1, ListProperties DEF IInv, IsStack, Top
<1>3. ~Exhausted
  <2>1. PICK max, nodes : max = Top.max /\ nodes = Top.nodes
    OBVIOUS
  <2>2. max \in Nat /\ nodes \in 1 .. max /\ nodes < max
    BY <1>1, <1>2, <2>1 DEF IsCall
  <2>3. ~(nodes >= max)
    BY ONLY <2>2
  <2> QED
    BY <2>1, <2>3 DEF Exhausted
<1>4. PICK live : KeptIn(live)
  BY <1>1, <1>3, CallGoesOn
<1>5. IsStack(calls, Limit, entered) /\ Top = calls[Len(calls)]
  BY <1>1, <1>3, CallGoesOn
<1>6. PICK h, txt, cs, r, d, n, i, said :
        /\ h = capturers /\ txt = text /\ cs = calls /\ r = root /\ d = Drawn
        /\ n = Len(cs) /\ i = cs[n].capturer /\ said = Said
  OBVIOUS
<1>7. Keeps(h, txt, cs, r, live, d) /\ Inner(cs, n, i)
  BY <1>1, <1>4, <1>5, <1>6 DEF KeptIn, Inner
<1>8. i \in live /\ i \in 1 .. Len(h)
  BY ONLY <1>7, Innermost DEF Around
<1>9. AtItsEnd(h, txt, cs, said)
  <2>1. Clause = h[i] /\ Top = cs[n]
    BY <1>5, <1>6 DEF Clause
  <2>2. Len(h[i].subclauses) \in {0, 1, 2}
    BY <1>7, <1>8, Subclause DEF Keeps
  <2>3. PICK a, b : a = Len(h[i].subclauses) /\ b = cs[n].next
    OBVIOUS
  <2>4. a \in {0, 1, 2} /\ b \in Nat /\ b > a
    BY <1>1, <1>2, <2>1, <2>2, <2>3 DEF IsCall
  <2>5. b # 0
    BY ONLY <2>4
  <2> QED
    BY <1>6, <2>1, <2>3, <2>4, <2>5 DEF AtItsEnd, Said
<1>10. SaysWhatIsBelow(h, txt, i, cs[n], d, said)
  BY ONLY <1>7, <1>9, WhatIsSaid
<1> QED
  BY <1>4, <1>5, <1>6, <1>9, <1>10

LEMMA FinishStepKeeps ==
  ASSUME IInv, KInv, Finish
  PROVE  KInv'
<1>1. /\ AtEnd /\ text' = text \o Clause.name /\ Return(Top.nodes)
      /\ UNCHANGED <<root, phase, accepted, index, overflow>>
      /\ calls # << >>
  BY DEF Finish, AtEnd, reductionVars, seedVars
<1>2. PICK live : /\ KeptIn(live)
                  /\ AtItsEnd(capturers, text, calls, Said)
                  /\ SaysWhatIsBelow(capturers, text, Top.capturer, Top, Drawn, Said)
                  /\ Top = calls[Len(calls)] /\ IsStack(calls, Limit, entered)
  BY <1>1, AtEndSays
<1>3. PICK h, txt, cs, r, d, n, i, said, es, t, word, after :
        /\ h = capturers /\ txt = text /\ cs = calls /\ r = root /\ d = Drawn
        /\ n = Len(cs) /\ i = cs[n].capturer /\ said = Said /\ es = calls' /\ t = capturers'
        /\ word = text' /\ after = schema'
  OBVIOUS
<1>4. Keeps(h, txt, cs, r, live, d) /\ Inner(cs, n, i)
  BY <1>1, <1>2, <1>3 DEF KeptIn, Inner
<1>5. i \in live /\ i \in 1 .. Len(h)
  BY ONLY <1>4, Innermost DEF Around
<1>6. AtItsEnd(h, txt, cs, said) /\ IsList(said) /\ Clause = h[i] /\ Top.capturer = i
  BY <1>2, <1>3, Zenon DEF SaysWhatIsBelow, Clause
<1>7. Links(h) /\ IsCapturer(h[i]) /\ Forest(h, live) /\ IsList(h) /\ live \subseteq 1 .. Len(h)
  BY <1>4, <1>5 DEF Keeps, Links, Forest, Closed
<1>8. PICK c : c = [h[i] EXCEPT !.capturedModifiedSchema = after, !.generated = TRUE,
                                !.kept = {said}]
  OBVIOUS
<1>9. /\ IsCapturer(c) /\ c.kept = {said} /\ c.subclauses = h[i].subclauses
      /\ c.name = h[i].name
  <2>1. Says(h[i], said, [h[i] EXCEPT !.capturedModifiedSchema = after, !.generated = TRUE,
                                      !.kept = {said}])
    BY ONLY <1>6, <1>7, CapturerSays
  <2>2. Says(h[i], said, c)
    BY <1>8, <2>1
  <2> QED
    BY <2>2 DEF Says
<1>10. Changed(h, i, c, t)
  <2>1. capturers' =
          [capturers EXCEPT ![Top.capturer] =
             [capturers[Top.capturer] EXCEPT !.capturedModifiedSchema = schema',
                                             !.generated = TRUE, !.kept = {Said}]]
    BY DEF Finish
  <2>2. t = [h EXCEPT ![i] = c]
    BY <1>3, <1>6, <1>8, <2>1
  <2>3. Changed(h, i, c, [h EXCEPT ![i] = c])
    BY ONLY <1>5, <1>7, ListExcept
  <2> QED
    BY <2>2, <2>3
<1>11. Captured(h, i, said, t)
  BY <1>9, <1>10 DEF Captured
<1>12. Extended(txt, h[i].name, word)
  BY <1>1, <1>3, <1>6 DEF Extended
<1>13. Popped(cs, es)
  BY <1>1, <1>2, <1>3, ReturnPops
<1>14. Keeps(t, word, es, r, live, d)
  BY ONLY <1>4, <1>6, <1>11, <1>12, <1>13, FinishKeeps
<1>15. \A q : IsTop(h, live, q) => IsTop(t, live, q)
  <2>1. \A x \in live : t[x].subclauses = h[x].subclauses
    BY <1>7, <1>9, <1>10 DEF Changed
  <2>2. Len(h) \in Nat /\ Len(t) = Len(h)
    BY <1>7, <1>10, ListProperties DEF Changed
  <2> QED
    BY <1>7, <2>1, <2>2, SameForest
<1>16. Drawn' = Drawn
  BY <1>1 DEF Drawn
<1>17. KeptIn(live)'
  BY <1>1, <1>2, <1>3, <1>14, <1>15, <1>16 DEF KeptIn
<1> QED
  BY <1>17 DEF KInv

(* A statement is begun, of capturers that are in use. *)
LEMMA BegunKeeps ==
  ASSUME NEW h, NEW live, InUse(h, live), NEW r, IsTop(h, live, r), NEW max, NEW d,
         NEW txt, txt = << >>, NEW cs, cs = << Call(r, max) >>
  PROVE  Keeps(h, txt, cs, r, live, d)
<1>1. PICK c : c = Call(r, max)
  OBVIOUS
<1>2. c.capturer = r /\ c.next = 0 /\ c.imports = {} /\ c.clean
  BY <1>1 DEF Call
<1>3. IsList(cs) /\ Len(cs) = 1 /\ cs[1] = c /\ cs # << >>
  <2>1. << c >> \in Seq({c}) /\ Len(<< c >>) = 1 /\ << c >>[1] = c /\ << c >> # << >>
    OBVIOUS
  <2> QED
    BY <1>1, <2>1 DEF IsList
<1>4. /\ \A k \in 1 .. 1 : k = 1
      /\ \A k \in 1 .. 1 - 1 : FALSE
      /\ \A k, l \in 1 .. 1 : ~(k < l)
  OBVIOUS
<1>5. r \in live
  BY DEF IsTop
<1>6. Stack(h, txt, cs, r, live, d)
  <2>1. \A k \in 1 .. 1 : /\ cs[k].capturer \in live /\ cs[k].next = 0 /\ cs[k].imports = {}
                          /\ cs[k].clean
    BY <1>2, <1>3, <1>4, <1>5
  <2>2. \A k \in 1 .. 1 : cs[k].next \in Nat
    BY <2>1
  <2>3. cs[1].capturer = r
    BY <1>2, <1>3
  <2> QED
    BY <1>3, <1>4, <2>1, <2>2, <2>3 DEF Stack
<1> QED
  BY <1>6, EmptyList DEF Keeps, InUse

(* The capturer of a new statement. *)
LEMMA NewRoot ==
  ASSUME NEW h, h = << Capturer("Labels") >>
  PROVE  InUse(h, {1}) /\ IsTop(h, {1}, 1)
<1>1. PICK c : c = Capturer("Labels")
  OBVIOUS
<1>2. IsCapturer(c) /\ Len(c.subclauses) = 0 /\ c.kept = {}
  BY <1>1, NewCapturer
<1>3. IsList(h) /\ Len(h) = 1 /\ h[1] = c
  <2>1. << c >> \in Seq({c}) /\ Len(<< c >>) = 1 /\ << c >>[1] = c
    OBVIOUS
  <2> QED
    BY <1>1, <2>1 DEF IsList
<1>4. 1 .. 1 = {1} /\ \A k \in 1 .. 0 : FALSE
  OBVIOUS
<1>5. Links(h)
  BY <1>2, <1>3, <1>4 DEF Links
<1>6. Forest(h, {1}) /\ IsTop(h, {1}, 1)
  BY <1>2, <1>3, <1>4 DEF Forest, Closed, IsTop
<1>7. Consistent(h, 1)
  BY <1>2, <1>3 DEF Consistent
<1> QED
  BY <1>5, <1>6, <1>7 DEF InUse

(* Once a statement is generated, what was in use for it still is. *)
LEMMA GeneratedIsInUse ==
  ASSUME IInv, KInv, outcome = "generated"
  PROVE  \E live : /\ InUse(capturers, live) /\ IsTop(capturers, live, root)
                   /\ phase = "propose" => IsTop(capturers, live, accepted)
<1>1. calls = << >>
  BY DEF IInv
<1>2. PICK live : KeptIn(live)
  BY <1>1 DEF KInv, Exhausted
<1>3. \A i : ~Unclean(calls, i)
  <2>1. Len(calls) = 0
    BY <1>1, EmptyList
  <2>2. \A k \in 1 .. 0 : FALSE
    OBVIOUS
  <2> QED
    BY <2>1, <2>2 DEF Unclean
<1> QED
  BY <1>2, <1>3 DEF KeptIn, Keeps, InUse

LEMMA ReportKeeps ==
  ASSUME Report
  PROVE  KInv'
<1>1. /\ capturers' = << Capturer("Labels") >> /\ root' = 1 /\ text' = << >>
      /\ calls' = << Call(1, Unlimited) >> /\ phase' = "regenerate"
  BY DEF Report, Start
<1>2. InUse(capturers', {1}) /\ IsTop(capturers', {1}, 1)
  BY <1>1, NewRoot
<1>3. PICK h, cs, txt, d : h = capturers' /\ cs = calls' /\ txt = text' /\ d = Drawn'
  OBVIOUS
<1>4. Keeps(h, txt, cs, 1, {1}, d)
  BY <1>1, <1>2, <1>3, BegunKeeps
<1>5. KeptIn({1})'
  BY <1>1, <1>3, <1>4 DEF KeptIn
<1> QED
  BY <1>5 DEF KInv

LEMMA ProposeKeeps ==
  ASSUME IInv, KInv, Propose
  PROVE  KInv'
<1>1. PICK base \in Bases :
        LET top == Len(capturers) + 1
            heap == Copy(base)
        IN /\ accepted' = base /\ root' = top /\ Start(top, Unlimited)
           /\ \/ capturers' = heap
              \/ \E i \in Descendants(heap, top) :
                   \/ \E clause \in {"EmptyClause", "NewLabel"} :
                        capturers' = Updated(heap, i, clause)
                   \/ \E k \in DOMAIN heap[i].subclauses :
                        capturers' = Lifted(heap, i, heap[i].subclauses[k])
  BY DEF Propose
<1>2. outcome = "generated" /\ phase' = "propose"
  BY DEF Propose
<1>3. PICK live : /\ InUse(capturers, live) /\ IsTop(capturers, live, root)
                  /\ phase = "propose" => IsTop(capturers, live, accepted)
  BY <1>2, GeneratedIsInUse
<1>4. IsTop(capturers, live, base)
  BY <1>3 DEF Bases
<1>5. PICK heap, top, u, cs, txt, d :
        /\ heap = Copy(base) /\ top = Len(capturers) + 1 /\ u = capturers'
        /\ cs = calls' /\ txt = text' /\ d = Drawn'
  OBVIOUS
<1>6. \/ u = heap
      \/ \E i \in Descendants(heap, top) :
           \/ \E clause \in {"EmptyClause", "NewLabel"} : u = Updated(heap, i, clause)
           \/ \E k \in DOMAIN heap[i].subclauses : u = Lifted(heap, i, heap[i].subclauses[k])
  BY <1>1, <1>5
<1>7. PICK used : InUse(u, used) /\ IsTop(u, used, top) /\ IsTop(u, used, base)
  BY <1>3, <1>4, <1>5, <1>6, ProposalKeeps
<1>8. /\ txt = << >> /\ cs = << Call(top, Unlimited) >> /\ accepted' = base /\ root' = top
  BY <1>1, <1>5 DEF Start
<1>9. Keeps(u, txt, cs, top, used, d)
  BY <1>7, <1>8, BegunKeeps
<1>10. KeptIn(used)'
  BY <1>5, <1>7, <1>8, <1>9 DEF KeptIn
<1> QED
  BY <1>10 DEF KInv

LEMMA ReportReducedKeeps ==
  ASSUME IInv, KInv, ReportReduced
  PROVE  KInv'
<1>1. PICK base \in Bases : accepted' = base /\ root' = base /\ Start(base, Unlimited)
  BY DEF ReportReduced
<1>2. outcome = "generated" /\ phase' = "report" /\ capturers' = capturers
  BY DEF ReportReduced
<1>3. PICK live : /\ InUse(capturers, live) /\ IsTop(capturers, live, root)
                  /\ phase = "propose" => IsTop(capturers, live, accepted)
  BY <1>2, GeneratedIsInUse
<1>4. IsTop(capturers, live, base)
  BY <1>3 DEF Bases
<1>5. PICK h, cs, txt, d : h = capturers /\ cs = calls' /\ txt = text' /\ d = Drawn'
  OBVIOUS
<1>6. txt = << >> /\ cs = << Call(base, Unlimited) >>
  BY <1>1, <1>5 DEF Start
<1>7. Keeps(h, txt, cs, base, live, d)
  BY <1>3, <1>4, <1>5, <1>6, BegunKeeps
<1>8. KeptIn(live)'
  BY <1>1, <1>2, <1>5, <1>7 DEF KeptIn
<1> QED
  BY <1>8 DEF KInv

LEMMA KeptInvariance ==
  ASSUME IInv, KInv, [Next]_vars
  PROVE  KInv'
<1>1. CASE UNCHANGED vars
  <2>1. UNCHANGED <<capturers, text, calls, root, phase, accepted, outcome, index, overflow>>
    BY <1>1 DEF vars, generationVars, reductionVars, seedVars
  <2>2. Drawn' = Drawn /\ (Exhausted => Exhausted')
    BY <2>1 DEF Drawn, Exhausted, Top
  <2>3. ASSUME NEW live, KeptIn(live) PROVE KeptIn(live)'
    BY <2>1, <2>2, <2>3 DEF KeptIn
  <2> QED
    BY <2>1, <2>2, <2>3 DEF KInv
<1> QED
  BY <1>1, LimitReachedKeeps, GiveUpKeeps, GenerateAgainKeeps, GenerateClauseKeeps,
     ImportStepKeeps, SubcallStepKeeps, FinishStepKeeps, ReportKeeps, ProposeKeeps,
     ReportReducedKeeps DEF Next

(***************************************************************************)
(* A clause capturer under which no clause was changed gives the text it   *)
(* gave before and draws no byte (clausecapturer.go:24), whatever was done *)
(* to its copies and to those it was copied from (CapturedIsKept).         *)
(***************************************************************************)
THEOREM CapturedTextsAreKept == Spec => []CapturedIsKept
<1>1. Init => IInv /\ KInv
  <2> SUFFICES ASSUME Init PROVE IInv /\ KInv
    OBVIOUS
  <2>1. IInv
    BY LimitInitially
  <2>2. PICK h, cs, txt, d, max :
          h = capturers /\ cs = calls /\ txt = text /\ d = Drawn /\ max = MaxASTNodes
    OBVIOUS
  <2>3. /\ h = << Capturer("Labels") >> /\ cs = << Call(1, max) >> /\ txt = << >>
        /\ root = 1 /\ phase = "fuzz"
    BY <2>2 DEF Init
  <2>4. InUse(h, {1}) /\ IsTop(h, {1}, 1)
    BY <2>3, NewRoot
  <2>5. Keeps(h, txt, cs, 1, {1}, d)
    BY <2>3, <2>4, BegunKeeps
  <2>6. KeptIn({1})
    BY <2>2, <2>3, <2>5 DEF KeptIn
  <2> QED
    BY <2>1, <2>6 DEF KInv
<1>2. IInv /\ KInv /\ [Next]_vars => (IInv /\ KInv)'
  BY LimitInvariance, KeptInvariance
<1>3. IInv /\ KInv => CapturedIsKept
  <2> SUFFICES ASSUME IInv, KInv, AtEnd, Top.clean
               PROVE  Said \in Clause.kept /\ Drawn = Top.drawn
    BY DEF CapturedIsKept
  <2>1. SaysWhatIsBelow(capturers, text, Top.capturer, Top, Drawn, Said)
    BY AtEndSays
  <2>2. capturers[Top.capturer].kept = {Said} /\ Top.drawn = Drawn
    BY <2>1 DEF SaysWhatIsBelow
  <2> QED
    BY <2>2 DEF Clause
<1> QED
  BY <1>1, <1>2, <1>3, PTL DEF Spec
=============================================================================
