------------------------- MODULE SchemaScope_proofs -------------------------
(***************************************************************************)
(* Proofs about SchemaScope, for statements of every length, with any      *)
(* number of names and of open scopes.                                     *)
(*                                                                         *)
(* IInv: UsedNames is one map, which every schema of a statement shares,   *)
(* the kept ones included: whichever is put back, the names taken since    *)
(* are known.  It is never the map of the variables, which scopes replace. *)
(*                                                                         *)
(* ScopesAgree: what is left to do lies in the open scopes of the text.    *)
(* Each entry of todo belongs to one of them (lv), and each scope owes     *)
(* columns to what is around it (owed).  It has three parts.               *)
(*   Laid     the entries of a scope end before those of the next one, and *)
(*            come in an order that the grammar of the clauses allows;     *)
(*   Columns  every kept schema owes what the scope it leads to owes, and  *)
(*            what ends a part finds its columns returned, or something    *)
(*            before it that will return them;                             *)
(*   InNames  the variables of every kept schema are in the scope it leads *)
(*            to, and no two of these schemas share a map that may grow.   *)
(* An action of the model is one of four kinds of step: it goes on in the  *)
(* innermost scope (Inside), opens one (Opening), ends one (Closing), or   *)
(* goes on with, or ends, a UNION (GoingOn).                               *)
(***************************************************************************)
EXTENDS SchemaScope, SequenceTheorems, FiniteSetTheorems, WellFoundedInduction, TLAPS

ClauseNames ==
  { "BindIterator", "BodyPartEnd", "CallSubqueryClause", "CallSubqueryEnd",
    "CreateClause", "CreateElement", "CreateEnd", "Expression",
    "ForeachClause", "ForeachCommand", "LastWithElementEnd", "MergeClause",
    "MergeEnd", "OptionalWriteQuery", "PathPatternExpression", "Predicate",
    "PredicateEnd", "ReadClause", "Return", "ScopeEnd",
    "SimpleSubqueryExpressionBody", "SubqueryExpression",
    "SubqueryExpressionBodyPart", "Union", "UnionClause", "UnionEnd",
    "UnwindClause", "WithClause", "WithElementChain", "WithElementEnd",
    "WriteClause" }

(* The schemas of a statement, when there are n maps. *)
Shared(n) ==
  [ usedNames : {1}, vars : 2 .. n, justCreated : SUBSET Nat, columns : SUBSET Nat,
    mustReturn : BOOLEAN, isUnionAll : {"undecided", "all", "distinct"},
    inSubquery : BOOLEAN, inMerge : BOOLEAN ]

Entries(n) == [clause : ClauseNames, old : Shared(n), name : Nat]

MapLists == {m \in Seq(SUBSET Nat) : Len(m) >= 2}

IInv ==
  /\ maps \in MapLists
  /\ schema \in Shared(Len(maps))
  /\ todo \in Seq(Entries(Len(maps)))
  /\ maps[1] = taken

-----------------------------------------------------------------------------
(* What the operations of a schema give. *)

(* There is a first free name. *)
LEMMA NewNameIsFree ==
  ASSUME FreeNames # {}
  PROVE  NewName \in FreeNames
<1> DEFINE less == OpToRel(<, Nat)
<1>1. FreeNames \subseteq Nat
  BY SchemaScopeAssumption DEF FreeNames, Names
<1>2. \E x \in FreeNames : \A y \in FreeNames : <<y, x>> \notin less
  BY <1>1, WFMin, NatLessThanWellFounded
<1>3. \A x, y \in FreeNames : y < x => <<y, x>> \in less
  BY <1>1 DEF OpToRel
<1> HIDE DEF less
<1>4. PICK x \in FreeNames : \A y \in FreeNames : <<y, x>> \notin less
  BY <1>2
<1>5. ASSUME NEW y \in FreeNames PROVE x <= y
  <2>1. x \in Nat /\ y \in Nat
    BY <1>1
  <2>2. ~(y < x)
    BY <1>3, <1>4
  <2> QED
    BY <2>1, <2>2
<1> QED
  BY <1>5 DEF NewName, Min

LEMMA NewNameIsNat ==
  ASSUME TakeNewName
  PROVE  NewName \in Nat
BY NewNameIsFree, SchemaScopeAssumption DEF TakeNewName, FreeNames, Names

(* More maps do not hurt. *)
LEMMA SharedGrows ==
  ASSUME NEW m \in Nat, NEW n \in Nat, m <= n
  PROVE  /\ Shared(m) \subseteq Shared(n)
         /\ Seq(Entries(m)) \subseteq Seq(Entries(n))
<1>1. Shared(m) \subseteq Shared(n)
  BY DEF Shared
<1>2. Entries(m) \subseteq Entries(n)
  BY <1>1 DEF Entries
<1>3. ASSUME NEW s \in Seq(Entries(m)) PROVE s \in Seq(Entries(n))
  <2>1. \A i \in 1 .. Len(s) : s[i] \in Entries(n)
    BY <1>2, ElementOfSeq
  <2> QED
    BY <2>1, IsASeq
<1> QED
  BY <1>1, <1>3

LEMMA InsertKeeps ==
  ASSUME NEW m \in MapLists, NEW i \in 1 .. Len(m), NEW ns \in SUBSET Nat
  PROVE  /\ Insert(m, i, ns) \in MapLists
         /\ Len(Insert(m, i, ns)) = Len(m)
         /\ Insert(m, i, ns)[1] = IF i = 1 THEN m[1] \cup ns ELSE m[1]
<1>1. m \in Seq(SUBSET Nat) /\ Len(m) \in Nat /\ 1 \in 1 .. Len(m)
  BY LenProperties DEF MapLists
<1>2. m[i] \cup ns \in SUBSET Nat
  BY <1>1, ElementOfSeq
<1> DEFINE new == m[i] \cup ns
<1>3. Insert(m, i, ns) = [m EXCEPT ![i] = new]
  BY DEF Insert
<1> HIDE DEF new
<1>4. /\ [m EXCEPT ![i] = new] \in Seq(SUBSET Nat)
      /\ Len([m EXCEPT ![i] = new]) = Len(m)
      /\ [m EXCEPT ![i] = new][1] = IF 1 = i THEN new ELSE m[1]
  BY <1>1, <1>2, ExceptSeq DEF new
<1>5. i = 1 => new = m[1] \cup ns
  BY DEF new
<1>6. Len(m) >= 2
  BY DEF MapLists
<1>7. /\ Insert(m, i, ns) \in Seq(SUBSET Nat)
      /\ Len(Insert(m, i, ns)) = Len(m)
      /\ Insert(m, i, ns)[1] = IF 1 = i THEN new ELSE m[1]
  BY <1>3, <1>4
<1> QED
  BY <1>5, <1>6, <1>7 DEF MapLists

(* A schema with a new map of variables, and nothing else changed in maps. *)
Grown(h) ==
  /\ h.maps \in MapLists
  /\ Len(h.maps) = Len(maps) + 1
  /\ h.maps[1] = maps[1]
  /\ h.schema \in Shared(Len(maps) + 1)
  /\ h.schema.vars = Len(maps) + 1

LEMMA ContextsGrow ==
  ASSUME IInv
  PROVE  Grown(Copy) /\ Grown(NewContext) /\ Grown(NewSubContext) /\ Grown(ResetContext)
<1>1. maps \in Seq(SUBSET Nat) /\ Len(maps) \in Nat /\ Len(maps) >= 2
      /\ schema \in Shared(Len(maps))
  BY LenProperties DEF IInv, MapLists
<1>2. schema.vars \in 1 .. Len(maps)
  BY <1>1 DEF Shared
<1>3. maps[schema.vars] \in SUBSET Nat
  BY <1>1, <1>2, ElementOfSeq
<1>4. ASSUME NEW ns \in SUBSET Nat
      PROVE  /\ Append(maps, ns) \in MapLists
             /\ Len(Append(maps, ns)) = Len(maps) + 1
             /\ Append(maps, ns)[1] = maps[1]
  BY <1>1, AppendProperties DEF MapLists
<1> DEFINE n == Len(maps)
<1>5. /\ [schema EXCEPT !.vars = n + 1] \in Shared(n + 1)
      /\ [schema EXCEPT !.vars = n + 1].vars = n + 1
      /\ Fresh(schema) \in Shared(n + 1) /\ Fresh(schema).vars = n + 1
  <2>1. n \in Nat /\ n >= 2 /\ schema \in Shared(n)
    BY <1>1
  <2> HIDE DEF n
  <2>2. n + 1 \in 2 .. n + 1
    BY <2>1
  <2>3. /\ [schema EXCEPT !.vars = n + 1] \in Shared(n + 1)
        /\ [schema EXCEPT !.vars = n + 1].vars = n + 1
    BY <2>1, <2>2 DEF Shared
  <2>4. Fresh(schema) \in Shared(n + 1) /\ Fresh(schema).vars = n + 1
    BY <2>1, <2>2 DEF Shared, Fresh, n
  <2> QED
    BY <2>3, <2>4
<1>6. Grown(Copy)
  BY <1>3, <1>4, <1>5 DEF Grown, Copy
<1>7. Grown(NewContext) /\ Grown(NewSubContext)
  BY <1>3, <1>4, <1>5 DEF Grown, NewContext, NewSubContext
<1>8. Grown(ResetContext)
  BY <1>3, <1>4, <1>5 DEF Grown, ResetContext, Copy
<1> QED
  BY <1>6, <1>7, <1>8

(* A name that is taken gets into the map of used names. *)
LEMMA UseTakes ==
  ASSUME IInv, TakeNewName, NEW m \in MapLists, m[1] = maps[1]
  PROVE  Use(m, NewName) \in MapLists /\ Len(Use(m, NewName)) = Len(m)
         /\ Use(m, NewName)[1] = taken'
<1>1. {NewName} \in SUBSET Nat
  BY NewNameIsNat
<1>2. schema.usedNames = 1 /\ 1 \in 1 .. Len(m) /\ maps[1] = taken
  BY LenProperties DEF IInv, Shared, MapLists
<1>3. Use(m, NewName) = Insert(m, 1, {NewName})
  BY <1>2 DEF Use
<1>4. /\ Insert(m, 1, {NewName}) \in MapLists
      /\ Len(Insert(m, 1, {NewName})) = Len(m)
      /\ Insert(m, 1, {NewName})[1] = m[1] \cup {NewName}
  BY <1>1, <1>2, InsertKeeps
<1> QED
  BY <1>2, <1>3, <1>4 DEF TakeNewName

LEMMA PopulateTakes ==
  ASSUME IInv, NEW h, h.maps \in MapLists, h.maps[1] = maps[1],
         h.schema \in Shared(Len(h.maps)), Populate(h)
  PROVE  /\ maps' \in MapLists /\ Len(maps') = Len(h.maps) /\ maps'[1] = taken'
         /\ schema' \in Shared(Len(maps'))
<1>1. {NewName} \in SUBSET Nat
  BY NewNameIsNat DEF Populate
<1>2. maps' \in MapLists /\ Len(maps') = Len(h.maps) /\ maps'[1] = taken'
  BY UseTakes DEF Populate
<1> QED
  BY <1>1, <1>2 DEF Populate, Shared

-----------------------------------------------------------------------------
(* What is left to do. *)

LEMMA ShortLists ==
  ASSUME NEW S, NEW a \in S, NEW b \in S, NEW c \in S
  PROVE  << >> \in Seq(S) /\ << a >> \in Seq(S) /\ << a, b >> \in Seq(S)
         /\ << a, b, c >> \in Seq(S)
<1>1. << >> \in Seq(S)
  BY EmptySeq
<1>2. << a >> \in Seq(S)
  OBVIOUS
<1>3. << a, b >> \in Seq(S)
  OBVIOUS
<1>4. << a, b, c >> \in Seq(S)
  OBVIOUS
<1> QED
  BY <1>1, <1>2, <1>3, <1>4

(* What the entries are after a step, and the lists of them. *)
NextEntry == Entries(Len(maps'))
NextTodo == Seq(NextEntry)
NextShared == Shared(Len(maps'))

(* A step that keeps the maps, or adds to them, keeps the invariant. *)
Kept ==
  /\ maps' \in MapLists
  /\ Len(maps') >= Len(maps)
  /\ schema' \in NextShared
  /\ maps'[1] = taken'

LEMMA NextEntries ==
  ASSUME Kept
  PROVE  /\ \A c \in ClauseNames : Clause(c) \in NextEntry
         /\ \A c \in ClauseNames, s \in NextShared : Restore(c, s) \in NextEntry
         /\ \A c \in ClauseNames, k \in Nat : Bind(c, k) \in NextEntry
<1> DEFINE n == Len(maps')
<1>1. n \in Nat /\ n >= 2
  BY LenProperties DEF Kept, MapLists
<1>2. NextEntry = Entries(n) /\ NextShared = Shared(n)
  BY DEF NextEntry, NextShared
<1> HIDE DEF n
<1>3. EmptySchema \in Shared(n)
  BY <1>1 DEF EmptySchema, Shared
<1>4. \A c \in ClauseNames : Clause(c) \in Entries(n)
  BY <1>3 DEF Clause, Entries
<1>5. \A c \in ClauseNames, s \in Shared(n) : Restore(c, s) \in Entries(n)
  BY DEF Restore, Entries
<1>6. \A c \in ClauseNames, k \in Nat : Bind(c, k) \in Entries(n)
  BY <1>3 DEF Bind, Entries
<1> QED
  BY <1>2, <1>4, <1>5, <1>6

LEMMA NextTodos ==
  ASSUME Kept
  PROVE  /\ << >> \in NextTodo
         /\ \A a \in NextEntry : << a >> \in NextTodo
         /\ \A a, b \in NextEntry : << a, b >> \in NextTodo
         /\ \A a, b, c \in NextEntry : << a, b, c >> \in NextTodo
         /\ \A s, t \in NextTodo : s \o t \in NextTodo
         /\ \A c \in ClauseNames : \A t \in Optional(c) : t \in NextTodo
<1>1. << >> \in NextTodo
  BY EmptySeq DEF NextTodo
<1>2. /\ \A a \in NextEntry : << a >> \in NextTodo
      /\ \A a, b \in NextEntry : << a, b >> \in NextTodo
      /\ \A a, b, c \in NextEntry : << a, b, c >> \in NextTodo
  BY ShortLists DEF NextTodo
<1>3. \A s, t \in NextTodo : s \o t \in NextTodo
  BY ConcatProperties DEF NextTodo
<1>4. ASSUME NEW c \in ClauseNames, NEW t \in Optional(c) PROVE t \in NextTodo
  <2>1. Clause(c) \in NextEntry
    BY NextEntries
  <2> QED
    BY <1>1, <1>2, <2>1 DEF Optional
<1> QED
  BY <1>1, <1>2, <1>3, <1>4

LEMMA RestKept ==
  ASSUME IInv, Kept, todo # << >>
  PROVE  Tail(todo) \in NextTodo
<1>1. Len(maps) \in Nat /\ Len(maps') \in Nat
  BY LenProperties DEF IInv, Kept, MapLists
<1>2. Tail(todo) \in Seq(Entries(Len(maps)))
  BY HeadTailProperties DEF IInv
<1> QED
  BY <1>1, <1>2, SharedGrows DEF Kept, NextTodo, NextEntry

LEMMA GenerateKeeps ==
  ASSUME IInv, Kept, NEW c, NEW subclauses \in NextTodo, Generate(c, subclauses)
  PROVE  IInv'
<1>1. todo' \in NextTodo
  BY RestKept, NextTodos DEF Generate, Due
<1> QED
  BY <1>1 DEF IInv, Kept, NextTodo, NextEntry, NextShared

LEMMA ModifyKeeps ==
  ASSUME IInv, Kept, NEW c, ModifySchema(c)
  PROVE  IInv'
<1>1. todo' \in NextTodo
  BY RestKept DEF ModifySchema, Due
<1> QED
  BY <1>1 DEF IInv, Kept, NextTodo, NextEntry, NextShared

(* What the first of them keeps. *)
LEMMA HeadShape ==
  ASSUME IInv, NEW c, Due(c)
  PROVE  Old \in Shared(Len(maps)) /\ Name \in Nat
<1>1. Head(todo) \in Entries(Len(maps))
  BY HeadTailProperties DEF IInv, Due
<1> QED
  BY <1>1 DEF Entries, Old, Name

(* A step that leaves the maps alone. *)
LEMMA SameMaps ==
  ASSUME IInv, UNCHANGED <<maps, taken>>, schema' \in Shared(Len(maps))
  PROVE  Kept
BY LenProperties DEF IInv, Kept, MapLists, NextShared

LEMMA OldSchemas ==
  ASSUME IInv, Kept
  PROVE  Shared(Len(maps)) \subseteq NextShared /\ schema \in NextShared
<1>1. Len(maps) \in Nat /\ Len(maps') \in Nat
  BY LenProperties DEF IInv, Kept, MapLists
<1>2. Shared(Len(maps)) \subseteq NextShared
  BY <1>1, SharedGrows DEF Kept, NextShared
<1> QED
  BY <1>2 DEF IInv

(* A schema with maps among which the used names are those of now. *)
Ready(h) ==
  /\ h.maps \in MapLists
  /\ Len(h.maps) >= Len(maps)
  /\ h.maps[1] = maps[1]
  /\ h.schema \in Shared(Len(h.maps))

LEMMA GrownIsReady ==
  ASSUME IInv, NEW h, Grown(h)
  PROVE  Ready(h)
BY LenProperties DEF IInv, Grown, Ready, MapLists

Now == [schema |-> schema, maps |-> maps]

LEMMA NowIsReady == IInv => Ready(Now)
BY LenProperties DEF IInv, Ready, Now, MapLists

LEMMA ReadyKeeps ==
  ASSUME IInv, NEW h, Ready(h), schema' \in Shared(Len(h.maps)),
         \/ maps' = h.maps /\ UNCHANGED taken
         \/ TakeNewName /\ maps' = Use(h.maps, NewName)
  PROVE  Kept
<1>1. CASE maps' = h.maps /\ UNCHANGED taken
  BY <1>1 DEF Kept, Ready, IInv, NextShared
<1>2. CASE TakeNewName /\ maps' = Use(h.maps, NewName)
  BY <1>2, UseTakes DEF Kept, Ready, NextShared
<1> QED
  BY <1>1, <1>2

LEMMA BecomeKeeps ==
  ASSUME IInv, NEW h, Ready(h), Become(h)
  PROVE  Kept
BY ReadyKeeps DEF Become, Ready

LEMMA PopulateKeeps ==
  ASSUME IInv, NEW h, Ready(h), Populate(h)
  PROVE  Kept
<1>1. {NewName} \in SUBSET Nat
  BY NewNameIsNat DEF Populate
<1>2. schema' \in Shared(Len(h.maps))
  BY <1>1 DEF Populate, Ready, Shared
<1> QED
  BY <1>2, ReadyKeeps DEF Populate

(* Names that are put into the map of the variables of a schema. *)
LEMMA VariablesKeep ==
  ASSUME IInv, NEW s \in Shared(Len(maps)), NEW ns \in SUBSET Nat,
         maps' = Insert(maps, s.vars, ns), schema' \in Shared(Len(maps)), UNCHANGED taken
  PROVE  Kept
<1>1. Len(maps) \in Nat /\ s.vars \in 1 .. Len(maps) /\ s.vars # 1 /\ maps \in MapLists
  BY LenProperties DEF IInv, Shared, MapLists
<1>2. /\ Insert(maps, s.vars, ns) \in MapLists /\ Len(Insert(maps, s.vars, ns)) = Len(maps)
      /\ Insert(maps, s.vars, ns)[1] = maps[1]
  BY <1>1, InsertKeeps
<1> QED
  BY <1>1, <1>2 DEF IInv, Kept, NextShared

LEMMA ReturnInvariant ==
  ASSUME IInv, Return
  PROVE  IInv'
<1>1. Kept
  BY NowIsReady, ReadyKeeps DEF Return, Now, IInv
<1>2. PICK subclauses \in Optional("Expression") : Generate("Return", subclauses)
  BY DEF Return
<1>3. subclauses \in NextTodo
  BY <1>1, NextTodos DEF ClauseNames
<1> QED
  BY <1>1, <1>2, <1>3, GenerateKeeps

LEMMA CallSubqueryInvariant ==
  ASSUME IInv, CallSubqueryClause \/ CallSubqueryEnd
  PROVE  IInv'
<1>1. CASE CallSubqueryClause
  <2>1. PICK imports \in SUBSET maps[schema.vars], must \in BOOLEAN :
          LET body == [schema |-> [NewContext.schema EXCEPT !.inSubquery = TRUE],
                       maps |-> Insert(NewContext.maps, NewContext.schema.vars, imports)]
          IN IF must THEN Populate(body) ELSE Become(body)
    BY <1>1 DEF CallSubqueryClause
  <2> DEFINE body == [schema |-> [NewContext.schema EXCEPT !.inSubquery = TRUE],
                      maps |-> Insert(NewContext.maps, NewContext.schema.vars, imports)]
  <2>2. IF must THEN Populate(body) ELSE Become(body)
    BY <2>1
  <2>3. Grown(NewContext)
    BY ContextsGrow
  <2>4. Len(maps) \in Nat /\ Len(maps) >= 2 /\ maps \in Seq(SUBSET Nat)
        /\ schema.vars \in 1 .. Len(maps)
    BY LenProperties DEF IInv, MapLists, Shared
  <2>5. maps[schema.vars] \in SUBSET Nat
    BY <2>4, ElementOfSeq
  <2>6. imports \in SUBSET Nat
    BY <2>5
  <2>7. /\ body.maps \in MapLists /\ Len(body.maps) = Len(maps) + 1
        /\ body.maps[1] = maps[1]
    <3> DEFINE m == NewContext.maps
               i == NewContext.schema.vars
    <3>1. m \in MapLists /\ Len(m) = Len(maps) + 1 /\ m[1] = maps[1] /\ i = Len(maps) + 1
      BY <2>3 DEF Grown
    <3>2. body.maps = Insert(m, i, imports)
      OBVIOUS
    <3> HIDE DEF m, i, body
    <3>3. i \in 1 .. Len(m) /\ i # 1
      BY <2>4, <3>1
    <3>4. /\ Insert(m, i, imports) \in MapLists /\ Len(Insert(m, i, imports)) = Len(m)
          /\ Insert(m, i, imports)[1] = m[1]
      BY <2>6, <3>1, <3>3, InsertKeeps
    <3> QED
      BY <3>1, <3>2, <3>4
  <2>8. body.schema \in Shared(Len(maps) + 1)
    BY <2>3 DEF Grown, Shared
  <2>9. Ready(body)
    BY <2>4, <2>7, <2>8 DEF Ready
  <2> HIDE DEF body
  <2>10. Kept
    BY <2>2, <2>9, BecomeKeeps, PopulateKeeps
  <2>11. << Clause("ReadClause"), Restore("CallSubqueryEnd", schema) >> \in NextTodo
    BY <2>10, OldSchemas, NextEntries, NextTodos DEF ClauseNames
  <2> QED
    BY <1>1, <2>10, <2>11, GenerateKeeps DEF CallSubqueryClause
<1>2. CASE CallSubqueryEnd
  <2>1. Old \in Shared(Len(maps))
    BY <1>2, HeadShape DEF CallSubqueryEnd, ModifySchema
  <2>2. Returned \in SUBSET Nat /\ schema.usedNames = 1
    BY DEF Returned, IInv, Shared
  <2>3. maps' = Insert(maps, Old.vars, Returned)
    BY <1>2 DEF CallSubqueryEnd, Insert
  <2>4. schema' \in Shared(Len(maps)) /\ UNCHANGED taken
    BY <1>2, <2>1, <2>2 DEF CallSubqueryEnd, Shared
  <2>5. Kept
    BY <2>1, <2>2, <2>3, <2>4, VariablesKeep
  <2> QED
    BY <1>2, <2>5, ModifyKeeps DEF CallSubqueryEnd
<1> QED
  BY <1>1, <1>2

LEMMA UnionInvariant ==
  ASSUME IInv, Union \/ UnionClause \/ UnionEnd
  PROVE  IInv'
<1>1. CASE Union
  <2>1. PICK kind \in {"undecided", "all", "distinct"} :
          LET decided == [schema |-> [schema EXCEPT !.isUnionAll = kind], maps |-> maps]
          IN IF schema.mustReturn THEN Become(decided) ELSE Populate(decided)
    BY <1>1 DEF Union, IInv, Shared
  <2> DEFINE decided == [schema |-> [schema EXCEPT !.isUnionAll = kind], maps |-> maps]
  <2>2. IF schema.mustReturn THEN Become(decided) ELSE Populate(decided)
    BY <2>1
  <2>3. decided.schema \in Shared(Len(maps)) /\ decided.maps = maps
    BY DEF IInv, Shared
  <2>4. Ready(decided)
    BY <2>3, LenProperties DEF Ready, IInv, MapLists
  <2> HIDE DEF decided
  <2>5. Kept
    BY <2>2, <2>4, BecomeKeeps, PopulateKeeps
  <2>6. << Clause("ReadClause"), Clause("UnionClause") >> \in NextTodo
    BY <2>5, NextEntries, NextTodos DEF ClauseNames
  <2> QED
    BY <1>1, <2>5, <2>6, GenerateKeeps DEF Union
<1>2. CASE UnionClause
  <2>1. Grown(NewContext) /\ Ready(NewContext)
    BY ContextsGrow, GrownIsReady
  <2>2. UnionContext \in Shared(Len(maps) + 1)
    BY <2>1 DEF UnionContext, Grown, Shared, IInv
  <2>3. Kept
    BY <1>2, <2>1, <2>2, ReadyKeeps DEF UnionClause, Grown
  <2>4. << Clause("ReadClause"), Restore("UnionEnd", schema) >> \in NextTodo
    BY <2>3, OldSchemas, NextEntries, NextTodos DEF ClauseNames
  <2> QED
    BY <1>2, <2>3, <2>4, GenerateKeeps DEF UnionClause
<1>3. CASE UnionEnd
  <2>1. Old \in Shared(Len(maps))
    BY <1>3, HeadShape DEF UnionEnd, ModifySchema
  <2>2. Kept
    BY <1>3, <2>1, SameMaps DEF UnionEnd
  <2> QED
    BY <1>3, <2>2, ModifyKeeps DEF UnionEnd
<1> QED
  BY <1>1, <1>2, <1>3

LEMMA IteratorInvariant ==
  ASSUME IInv, BindIterator \/ ForeachClause \/ ScopeEnd
  PROVE  IInv'
<1>1. CASE BindIterator
  <2>1. {Name} \in SUBSET Nat
    BY <1>1, HeadShape DEF BindIterator, ModifySchema
  <2>2. Kept
    BY <1>1, <2>1, VariablesKeep DEF BindIterator, IInv
  <2> QED
    BY <1>1, <2>2, ModifyKeeps DEF BindIterator
<1>2. CASE ForeachClause
  <2>1. Grown(NewSubContext) /\ Ready(NewSubContext)
    BY ContextsGrow, GrownIsReady
  <2>2. Kept
    BY <1>2, <2>1, ReadyKeeps DEF ForeachClause, Ready
  <2>3. PICK list \in Optional("Expression") :
          Generate("ForeachClause",
            list \o << Bind("BindIterator", NewName), Clause("ForeachCommand"),
                      Restore("ScopeEnd", schema) >>)
    BY <1>2 DEF ForeachClause
  <2>4. NewName \in Nat
    BY <1>2, NewNameIsNat DEF ForeachClause
  <2>5. << Bind("BindIterator", NewName), Clause("ForeachCommand"),
           Restore("ScopeEnd", schema) >> \in NextTodo
    BY <2>2, <2>4, OldSchemas, NextEntries, NextTodos DEF ClauseNames
  <2>6. list \in NextTodo
    BY <2>2, NextTodos DEF ClauseNames
  <2> QED
    BY <2>2, <2>3, <2>5, <2>6, NextTodos, GenerateKeeps
<1>3. CASE ScopeEnd
  <2>1. Old \in Shared(Len(maps))
    BY <1>3, HeadShape DEF ScopeEnd, ModifySchema
  <2>2. Kept
    BY <1>3, <2>1, SameMaps DEF ScopeEnd, IInv, Shared
  <2> QED
    BY <1>3, <2>2, ModifyKeeps DEF ScopeEnd
<1> QED
  BY <1>1, <1>2, <1>3

LEMMA PredicateInvariant ==
  ASSUME IInv, Predicate \/ PredicateEnd
  PROVE  IInv'
<1>1. CASE Predicate
  <2>1. Grown(Copy) /\ Ready(Copy)
    BY ContextsGrow, GrownIsReady
  <2>2. schema' \in Shared(Len(Copy.maps))
    BY <1>1, <2>1, LenProperties, SharedGrows DEF Predicate, Grown, IInv, MapLists
  <2>3. Kept
    BY <1>1, <2>1, <2>2, ReadyKeeps DEF Predicate
  <2>4. PICK list \in Optional("Expression"), where \in Optional("Expression"),
             binds \in {<< >>, << Bind("BindIterator", NewName) >>} :
          Generate("Predicate",
            list \o binds \o where \o << Restore("PredicateEnd", Copy.schema) >>)
    BY <1>1 DEF Predicate
  <2>5. NewName \in Nat
    BY <1>1, NewNameIsNat DEF Predicate
  <2>6. Len(maps') = Len(Copy.maps)
    BY <1>1, <2>1, UseTakes DEF Predicate, Ready
  <2>7. Copy.schema \in NextShared
    BY <2>1, <2>6 DEF Ready, NextShared
  <2>8. /\ list \in NextTodo /\ where \in NextTodo /\ binds \in NextTodo
        /\ << Restore("PredicateEnd", Copy.schema) >> \in NextTodo
    BY <2>3, <2>5, <2>7, NextEntries, NextTodos DEF ClauseNames
  <2> QED
    BY <2>3, <2>4, <2>8, NextTodos, GenerateKeeps
<1>2. CASE PredicateEnd
  <2>1. Old \in Shared(Len(maps))
    BY <1>2, HeadShape DEF PredicateEnd, ModifySchema
  <2>2. Kept
    BY <1>2, <2>1, SameMaps DEF PredicateEnd
  <2> QED
    BY <1>2, <2>2, ModifyKeeps DEF PredicateEnd
<1> QED
  BY <1>1, <1>2

LEMMA SubqueryInvariant ==
  ASSUME IInv,
         SimpleSubqueryExpressionBody \/ SubqueryExpression \/ SubqueryExpressionBodyPart
           \/ BodyPartEnd
  PROVE  IInv'
<1>1. Grown(NewSubContext) /\ Ready(NewSubContext)
  BY ContextsGrow, GrownIsReady
<1>2. CASE SimpleSubqueryExpressionBody
  <2>1. Kept
    BY <1>1, <1>2, BecomeKeeps DEF SimpleSubqueryExpressionBody
  <2>2. PICK where \in Optional("Expression") :
          Generate("SimpleSubqueryExpressionBody",
            << Clause("PathPatternExpression") >> \o where \o << Restore("ScopeEnd", schema) >>)
    BY <1>2 DEF SimpleSubqueryExpressionBody
  <2>3. /\ << Clause("PathPatternExpression") >> \in NextTodo /\ where \in NextTodo
        /\ << Restore("ScopeEnd", schema) >> \in NextTodo
    BY <2>1, OldSchemas, NextEntries, NextTodos DEF ClauseNames
  <2> QED
    BY <2>1, <2>2, <2>3, NextTodos, GenerateKeeps
<1>3. CASE SubqueryExpression
  <2>1. PICK must, union \in BOOLEAN :
          /\ Generate("SubqueryExpression",
               (IF union THEN << Clause("SubqueryExpressionBodyPart") >> ELSE << >>)
                 \o << Clause("SubqueryExpressionBodyPart"), Restore("ScopeEnd", schema) >>)
          /\ IF must \/ union THEN Populate(NewSubContext) ELSE Become(NewSubContext)
    BY <1>3 DEF SubqueryExpression
  <2>2. Kept
    BY <1>1, <2>1, BecomeKeeps, PopulateKeeps
  <2>3. /\ (IF union THEN << Clause("SubqueryExpressionBodyPart") >> ELSE << >>) \in NextTodo
        /\ << Clause("SubqueryExpressionBodyPart"), Restore("ScopeEnd", schema) >> \in NextTodo
    BY <2>2, OldSchemas, NextEntries, NextTodos DEF ClauseNames
  <2> QED
    BY <2>1, <2>2, <2>3, NextTodos, GenerateKeeps
<1>4. CASE SubqueryExpressionBodyPart
  <2>1. schema' \in Shared(Len(NewSubContext.maps))
    BY <1>1, <1>4 DEF SubqueryExpressionBodyPart, Ready, IInv, Shared
  <2>2. Kept
    BY <1>1, <1>4, <2>1, ReadyKeeps DEF SubqueryExpressionBodyPart
  <2>3. PICK with \in Optional("WithClause"), where \in Optional("Expression") :
          Generate("SubqueryExpressionBodyPart",
            with \o << Clause("PathPatternExpression") >> \o where
              \o (IF schema.mustReturn THEN << Clause("Return") >> ELSE << >>)
              \o << Restore("BodyPartEnd", schema) >>)
    BY <1>4 DEF SubqueryExpressionBodyPart
  <2>4. /\ with \in NextTodo /\ where \in NextTodo
        /\ << Clause("PathPatternExpression") >> \in NextTodo
        /\ (IF schema.mustReturn THEN << Clause("Return") >> ELSE << >>) \in NextTodo
        /\ << Restore("BodyPartEnd", schema) >> \in NextTodo
    BY <2>2, OldSchemas, NextEntries, NextTodos DEF ClauseNames
  <2>5. with \o << Clause("PathPatternExpression") >> \o where
          \o (IF schema.mustReturn THEN << Clause("Return") >> ELSE << >>)
          \o << Restore("BodyPartEnd", schema) >> \in NextTodo
    BY <2>2, <2>4, NextTodos
  <2> QED
    BY <2>2, <2>3, <2>5, GenerateKeeps
<1>5. CASE BodyPartEnd
  <2>1. Old \in Shared(Len(maps))
    BY <1>5, HeadShape DEF BodyPartEnd, ModifySchema
  <2>2. Kept
    BY <1>5, <2>1, SameMaps DEF BodyPartEnd, IInv, Shared
  <2> QED
    BY <1>5, <2>2, ModifyKeeps DEF BodyPartEnd
<1> QED
  BY <1>2, <1>3, <1>4, <1>5

LEMMA DeclaringInvariant ==
  ASSUME IInv, UnwindClause \/ PathPatternExpression \/ WithElementChain
  PROVE  IInv'
<1>1. Kept
  <2>1. CASE UnwindClause \/ WithElementChain
    BY <2>1, NowIsReady, ReadyKeeps DEF UnwindClause, WithElementChain, Now, IInv
  <2>2. CASE PathPatternExpression /\ UNCHANGED <<maps, taken>>
    BY <2>2, SameMaps DEF PathPatternExpression, IInv
  <2>3. CASE /\ PathPatternExpression /\ TakeNewName
             /\ maps' = Insert(Use(maps, NewName), schema.vars, {NewName})
    <3> DEFINE m == Use(maps, NewName)
    <3>1. m \in MapLists /\ Len(m) = Len(maps) /\ m[1] = taken'
      BY <2>3, UseTakes DEF IInv
    <3>2. /\ Len(maps) \in Nat /\ schema.vars \in 1 .. Len(maps) /\ schema.vars # 1
          /\ schema' \in Shared(Len(maps))
      BY <2>3, LenProperties DEF IInv, Shared, MapLists, PathPatternExpression
    <3>3. {NewName} \in SUBSET Nat
      BY <2>3, NewNameIsNat
    <3>4. maps' = Insert(m, schema.vars, {NewName})
      BY <2>3
    <3> HIDE DEF m
    <3>5. /\ Insert(m, schema.vars, {NewName}) \in MapLists
          /\ Len(Insert(m, schema.vars, {NewName})) = Len(m)
          /\ Insert(m, schema.vars, {NewName})[1] = m[1]
      BY <3>1, <3>2, <3>3, InsertKeeps
    <3> QED
      BY <3>1, <3>2, <3>4, <3>5 DEF Kept, NextShared
  <2> QED
    BY <2>1, <2>2, <2>3 DEF PathPatternExpression
<1>2. CASE UnwindClause
  <2>1. PICK list \in Optional("Expression") :
          Generate("UnwindClause", list \o << Bind("BindIterator", NewName) >>)
    BY <1>2 DEF UnwindClause
  <2>2. NewName \in Nat
    BY <1>2, NewNameIsNat DEF UnwindClause
  <2>3. list \in NextTodo /\ << Bind("BindIterator", NewName) >> \in NextTodo
    BY <1>1, <2>2, NextEntries, NextTodos DEF ClauseNames
  <2> QED
    BY <1>1, <2>1, <2>3, NextTodos, GenerateKeeps
<1>3. CASE PathPatternExpression
  <2>1. PICK rest \in Optional("Expression") \cup Optional("PathPatternExpression") :
          Generate("PathPatternExpression", rest)
    BY <1>3 DEF PathPatternExpression
  <2>2. rest \in NextTodo
    BY <1>1, NextTodos DEF ClauseNames
  <2> QED
    BY <1>1, <2>1, <2>2, GenerateKeeps
<1>4. CASE WithElementChain
  <2>1. PICK e \in Optional("Expression"), more \in Optional("WithElementChain") :
          Generate("WithElementChain",
            e \o more \o
              << Bind(IF more = << >> THEN "LastWithElementEnd" ELSE "WithElementEnd", NewName) >>)
    BY <1>4 DEF WithElementChain
  <2> DEFINE last == IF more = << >> THEN "LastWithElementEnd" ELSE "WithElementEnd"
  <2>2. NewName \in Nat /\ last \in ClauseNames
    BY <1>4, NewNameIsNat DEF WithElementChain, ClauseNames
  <2>3. Generate("WithElementChain", e \o more \o << Bind(last, NewName) >>)
    BY <2>1
  <2> HIDE DEF last
  <2>4. e \in NextTodo /\ more \in NextTodo /\ << Bind(last, NewName) >> \in NextTodo
    <3>1. "Expression" \in ClauseNames /\ "WithElementChain" \in ClauseNames
      BY DEF ClauseNames
    <3> QED
      BY <1>1, <2>2, <3>1, NextEntries, NextTodos
  <2> QED
    BY <1>1, <2>3, <2>4, NextTodos, GenerateKeeps
<1> QED
  BY <1>2, <1>3, <1>4

LEMMA PatternInvariant ==
  ASSUME IInv, CreateElement \/ CreateEnd \/ MergeEnd \/ WithElementEnd
  PROVE  IInv'
<1>1. CASE CreateElement
  <2>1. Kept
    <3>1. CASE UNCHANGED <<schema, maps, taken>>
      BY <3>1, SameMaps DEF IInv
    <3>2. CASE /\ TakeNewName /\ maps' = Use(maps, NewName)
               /\ schema' = [schema EXCEPT !.justCreated = @ \cup {NewName}]
      <4>1. NewName \in Nat
        BY <3>2, NewNameIsNat
      <4>2. schema' \in Shared(Len(maps))
        BY <3>2, <4>1 DEF IInv, Shared
      <4> QED
        BY <3>2, <4>2, NowIsReady, ReadyKeeps DEF Now
    <3> QED
      BY <1>1, <3>1, <3>2 DEF CreateElement
  <2>2. PICK rest \in Optional("Expression") \cup Optional("CreateElement") :
          Generate("CreateElement", rest)
    BY <1>1 DEF CreateElement
  <2>3. rest \in NextTodo
    BY <2>1, NextTodos DEF ClauseNames
  <2> QED
    BY <2>1, <2>2, <2>3, GenerateKeeps
<1>2. CASE CreateEnd
  <2>1. schema.justCreated \in SUBSET Nat
    BY DEF IInv, Shared
  <2>2. Kept
    BY <1>2, <2>1, VariablesKeep DEF CreateEnd, IInv
  <2> QED
    BY <1>2, <2>2, ModifyKeeps DEF CreateEnd
<1>3. CASE MergeEnd
  <2>1. Old \in Shared(Len(maps))
    BY <1>3, HeadShape DEF MergeEnd, ModifySchema
  <2>2. Kept
    BY <1>3, <2>1, SameMaps DEF MergeEnd, IInv, Shared
  <2> QED
    BY <1>3, <2>2, ModifyKeeps DEF MergeEnd
<1>4. CASE WithElementEnd
  <2>1. Kept
    BY <1>4, ContextsGrow, GrownIsReady, BecomeKeeps DEF WithElementEnd
  <2> QED
    BY <1>4, <2>1, ModifyKeeps DEF WithElementEnd
<1> QED
  BY <1>1, <1>2, <1>3, <1>4

(* The clauses that only choose their subclauses, or change the schema     *)
(* alone. *)
LEMMA ChoosingInvariant ==
  ASSUME IInv,
         \/ ReadClause \/ WriteClause \/ OptionalWriteQuery \/ ForeachCommand
         \/ Expression \/ CreateClause \/ MergeClause \/ WithClause
  PROVE  IInv'
<1>1. UNCHANGED <<maps, taken>>
  BY DEF ReadClause, WriteClause, OptionalWriteQuery, ForeachCommand, Expression, CreateClause,
         MergeClause, WithClause
<1>2. schema' \in Shared(Len(maps))
  BY DEF IInv, ReadClause, WriteClause, OptionalWriteQuery, ForeachCommand, Expression,
         CreateClause, MergeClause, WithClause, Shared
<1>3. Kept
  BY <1>1, <1>2, SameMaps
<1>4. ASSUME NEW c, NEW subclauses \in NextTodo, Generate(c, subclauses)
      PROVE  IInv'
  BY <1>3, <1>4, GenerateKeeps
<1>5. CASE ReadClause
  BY <1>3, <1>4, <1>5, NextEntries, NextTodos DEF ReadClause, ClauseNames
<1>6. CASE WriteClause
  BY <1>3, <1>4, <1>6, NextEntries, NextTodos DEF WriteClause, ClauseNames
<1>7. CASE OptionalWriteQuery
  BY <1>3, <1>4, <1>7, NextEntries, NextTodos
  DEF OptionalWriteQuery, OptionalWrites, ClauseNames
<1>8. CASE ForeachCommand
  <2>1. PICK command \in ClauseNames, more \in Optional("ForeachCommand") :
          Generate("ForeachCommand", << Clause(command) >> \o more)
    BY <1>8 DEF ForeachCommand, ClauseNames
  <2>2. << Clause(command) >> \in NextTodo /\ more \in NextTodo
    BY <1>3, NextEntries, NextTodos DEF ClauseNames
  <2> QED
    BY <1>3, <1>4, <2>1, <2>2, NextTodos
<1>9. CASE Expression
  BY <1>3, <1>4, <1>9, NextEntries, NextTodos DEF Expression, ClauseNames
<1>10. CASE CreateClause
  BY <1>3, <1>4, <1>10, NextEntries, NextTodos DEF CreateClause, ClauseNames
<1>11. CASE MergeClause
  <2>1. PICK set \in Optional("Expression") :
          Generate("MergeClause",
            << Clause("CreateElement") >> \o set \o << Restore("MergeEnd", schema) >>)
    BY <1>11 DEF MergeClause
  <2>2. /\ << Clause("CreateElement") >> \in NextTodo /\ set \in NextTodo
        /\ << Restore("MergeEnd", schema) >> \in NextTodo
    BY <1>3, OldSchemas, NextEntries, NextTodos DEF ClauseNames
  <2> QED
    BY <1>3, <1>4, <2>1, <2>2, NextTodos
<1>12. CASE WithClause
  BY <1>3, <1>4, <1>12, NextTodos DEF WithClause, ClauseNames
<1> QED
  BY <1>5, <1>6, <1>7, <1>8, <1>9, <1>10, <1>11, <1>12

-----------------------------------------------------------------------------
LEMMA InitInvariant == Init => IInv
<1> SUFFICES ASSUME Init PROVE IInv
  OBVIOUS
<1>1. maps = << {}, {} >> /\ Len(maps) = 2 /\ maps \in Seq(SUBSET Nat)
  BY DEF Init
<1>2. EmptySchema \in Shared(2)
  BY DEF EmptySchema, Shared
<1>3. Clause("ReadClause") \in Entries(2)
  BY <1>2 DEF Clause, Entries, ClauseNames
<1>4. todo \in Seq(Entries(2))
  BY <1>3, ShortLists DEF Init
<1> QED
  BY <1>1, <1>2, <1>4 DEF Init, IInv, MapLists

LEMMA StepKeeps == IInv /\ [Next]_vars => IInv'
<1> SUFFICES ASSUME IInv, [Next]_vars PROVE IInv'
  OBVIOUS
<1>1. CASE UNCHANGED vars
  BY <1>1 DEF vars, IInv
<1> QED
  BY <1>1, ChoosingInvariant, ReturnInvariant, CallSubqueryInvariant, UnionInvariant,
     IteratorInvariant, PredicateInvariant, SubqueryInvariant, DeclaringInvariant,
     PatternInvariant
  DEF Next

(***************************************************************************)
(* The used names are one map, which every schema of the statement shares. *)
(***************************************************************************)
THEOREM Invariance == Spec => []IInv
BY InitInvariant, StepKeeps, PTL DEF Spec

(***************************************************************************)
(* UsedNames knows every name of the text (UsedNamesPersist), however many *)
(* scopes are opened, put away and put back: none is declared twice.       *)
(***************************************************************************)
THEOREM NamesAreKnown == Spec => []UsedNamesPersist
<1>1. IInv => UsedNamesPersist
  BY DEF IInv, UsedNamesPersist, Shared
<1> QED
  BY Invariance, <1>1, PTL
-----------------------------------------------------------------------------
(* The scopes of the text. *)

Frames ==
  [ scope : SUBSET Nat, pattern : SUBSET Nat, returned : SUBSET Nat,
    parts : SUBSET (SUBSET Nat), unions : SUBSET {"all", "distinct"} ]

FramesOK == frames \in Seq(Frames) /\ Depth \in Nat /\ Depth >= 1

(* What a step does to the innermost scope: it changes it, puts one on it, *)
(* or takes it away and changes the next.                                  *)
IsFrame(f, scope, pattern, returned, parts, unions) ==
  /\ f.scope = scope /\ f.pattern = pattern /\ f.returned = returned
  /\ f.parts = parts /\ f.unions = unions

Changed(scope, pattern, returned, parts, unions) ==
  /\ Depth' = Depth
  /\ IsFrame(frames'[Depth], scope, pattern, returned, parts, unions)
  /\ \A d \in 1 .. Depth - 1 : frames'[d] = frames[d]

Pushed(scope, pattern, unions) ==
  /\ Depth' = Depth + 1
  /\ IsFrame(frames'[Depth + 1], scope, pattern, {}, {}, unions)
  /\ \A d \in 1 .. Depth : frames'[d] = frames[d]

PoppedTo(scope, pattern, returned, parts, unions) ==
  /\ Depth' = Depth - 1 /\ Depth >= 2
  /\ IsFrame(frames'[Depth - 1], scope, pattern, returned, parts, unions)
  /\ \A d \in 1 .. Depth - 2 : frames'[d] = frames[d]

Below == frames[Depth - 1]

LEMMA InnerIsFrame ==
  ASSUME FramesOK
  PROVE  /\ Depth \in 1 .. Len(frames) /\ Inner \in Frames
         /\ \A d \in 1 .. Depth : frames[d] \in Frames
         /\ Depth >= 2 => Below \in Frames
<1>1. Depth \in 1 .. Len(frames) /\ \A d \in 1 .. Depth : frames[d] \in Frames
  BY ElementOfSeq DEF FramesOK, Depth
<1>2. Depth >= 2 => Depth - 1 \in 1 .. Depth
  BY DEF FramesOK
<1> QED
  BY <1>1, <1>2 DEF Inner, Below

LEMMA TopReplaced ==
  ASSUME FramesOK, NEW f \in Frames, frames' = [frames EXCEPT ![Depth] = f]
  PROVE  /\ FramesOK'
         /\ Changed(f.scope, f.pattern, f.returned, f.parts, f.unions)
<1>1. Depth \in 1 .. Len(frames) /\ Depth \in Nat /\ Depth >= 1 /\ frames \in Seq(Frames)
  BY InnerIsFrame DEF FramesOK
<1>2. PICK k : k = Depth
  OBVIOUS
<1>3. /\ frames' \in Seq(Frames) /\ Len(frames') = Len(frames)
      /\ \A d \in 1 .. Len(frames) : frames'[d] = IF d = k THEN f ELSE frames[d]
  BY <1>1, <1>2, ExceptSeq
<1>4. Depth' = k
  BY <1>2, <1>3 DEF Depth
<1>5. \A d \in 1 .. k - 1 : d \in 1 .. Len(frames) /\ d # k
  BY <1>1, <1>2
<1>6. frames'[k] = f /\ \A d \in 1 .. k - 1 : frames'[d] = frames[d]
  BY <1>1, <1>2, <1>3, <1>5
<1>7. FramesOK'
  BY <1>1, <1>2, <1>3, <1>4 DEF FramesOK
<1> QED
  BY <1>2, <1>4, <1>6, <1>7 DEF Changed, IsFrame

LEMMA ScopeChanged ==
  ASSUME FramesOK, NEW ns \in SUBSET Nat
  PROVE  /\ frames' = [frames EXCEPT ![Depth].scope = @ \cup ns] =>
              /\ FramesOK'
              /\ Changed(Inner.scope \cup ns, Inner.pattern, Inner.returned, Inner.parts, Inner.unions)
         /\ frames' = [frames EXCEPT ![Depth].scope = ns] =>
              /\ FramesOK'
              /\ Changed(ns, Inner.pattern, Inner.returned, Inner.parts, Inner.unions)
<1>1. Inner \in Frames /\ Inner = frames[Depth]
  BY InnerIsFrame DEF Inner
<1>2. ASSUME frames' = [frames EXCEPT ![Depth].scope = @ \cup ns]
      PROVE  FramesOK' /\ Changed(Inner.scope \cup ns, Inner.pattern, Inner.returned, Inner.parts, Inner.unions)
  <2>1. PICK f : f = [Inner EXCEPT !.scope = Inner.scope \cup ns]
    OBVIOUS
  <2>2. frames' = [frames EXCEPT ![Depth] = f]
    BY <1>1, <1>2, <2>1
  <2>3. f \in Frames /\ IsFrame(f, Inner.scope \cup ns, Inner.pattern, Inner.returned, Inner.parts, Inner.unions)
    BY <1>1, <2>1 DEF Frames, IsFrame
  <2>4. FramesOK' /\ Changed(f.scope, f.pattern, f.returned, f.parts, f.unions)
    BY <2>2, <2>3, TopReplaced
  <2> QED
    BY <2>3, <2>4 DEF IsFrame
<1>3. ASSUME frames' = [frames EXCEPT ![Depth].scope = ns]
      PROVE  FramesOK' /\ Changed(ns, Inner.pattern, Inner.returned, Inner.parts, Inner.unions)
  <2>1. PICK f : f = [Inner EXCEPT !.scope = ns]
    OBVIOUS
  <2>2. frames' = [frames EXCEPT ![Depth] = f]
    BY <1>1, <1>3, <2>1
  <2>3. f \in Frames /\ IsFrame(f, ns, Inner.pattern, Inner.returned, Inner.parts, Inner.unions)
    BY <1>1, <2>1 DEF Frames, IsFrame
  <2>4. FramesOK' /\ Changed(f.scope, f.pattern, f.returned, f.parts, f.unions)
    BY <2>2, <2>3, TopReplaced
  <2> QED
    BY <2>3, <2>4 DEF IsFrame
<1> QED
  BY <1>2, <1>3

LEMMA PatternChanged ==
  ASSUME FramesOK
  PROVE  /\ \A ns \in SUBSET Nat :
              frames' = [frames EXCEPT ![Depth].pattern = @ \cup ns] =>
                /\ FramesOK'
                /\ Changed(Inner.scope, Inner.pattern \cup ns, Inner.returned, Inner.parts, Inner.unions)
         /\ EndPattern =>
              /\ FramesOK'
              /\ Changed(Inner.scope \cup Inner.pattern, {}, Inner.returned, Inner.parts, Inner.unions)
<1>1. Inner \in Frames /\ Inner = frames[Depth]
  BY InnerIsFrame DEF Inner
<1>2. ASSUME NEW ns \in SUBSET Nat, frames' = [frames EXCEPT ![Depth].pattern = @ \cup ns]
      PROVE  FramesOK' /\ Changed(Inner.scope, Inner.pattern \cup ns, Inner.returned, Inner.parts, Inner.unions)
  <2>1. PICK f : f = [Inner EXCEPT !.pattern = Inner.pattern \cup ns]
    OBVIOUS
  <2>2. frames' = [frames EXCEPT ![Depth] = f]
    BY <1>1, <1>2, <2>1
  <2>3. f \in Frames /\ IsFrame(f, Inner.scope, Inner.pattern \cup ns, Inner.returned, Inner.parts, Inner.unions)
    BY <1>1, <2>1 DEF Frames, IsFrame
  <2>4. FramesOK' /\ Changed(f.scope, f.pattern, f.returned, f.parts, f.unions)
    BY <2>2, <2>3, TopReplaced
  <2> QED
    BY <2>3, <2>4 DEF IsFrame
<1>3. ASSUME EndPattern
      PROVE  FramesOK' /\ Changed(Inner.scope \cup Inner.pattern, {}, Inner.returned, Inner.parts, Inner.unions)
  <2>1. PICK f : f = [Inner EXCEPT !.scope = Inner.scope \cup Inner.pattern, !.pattern = {}]
    OBVIOUS
  <2>2. frames' = [frames EXCEPT ![Depth] = f]
    BY <1>1, <1>3, <2>1, InnerIsFrame, LenProperties DEF EndPattern, FramesOK, Frames
  <2>3. f \in Frames /\ IsFrame(f, Inner.scope \cup Inner.pattern, {}, Inner.returned, Inner.parts, Inner.unions)
    BY <1>1, <2>1 DEF Frames, IsFrame
  <2>4. FramesOK' /\ Changed(f.scope, f.pattern, f.returned, f.parts, f.unions)
    BY <2>2, <2>3, TopReplaced
  <2> QED
    BY <2>3, <2>4 DEF IsFrame
<1> QED
  BY <1>2, <1>3

(* The columns of a part, and the parts. *)
LEMMA PartChanged ==
  ASSUME FramesOK
  PROVE  /\ \A ns \in SUBSET Nat :
              frames' = [frames EXCEPT ![Depth].returned = ns] =>
                FramesOK' /\ Changed(Inner.scope, Inner.pattern, ns, Inner.parts, Inner.unions)
         /\ \A k \in {"all", "distinct"} :
              frames' = [frames EXCEPT ![Depth].unions = @ \cup {k}] =>
                FramesOK' /\ Changed(Inner.scope, Inner.pattern, Inner.returned, Inner.parts,
                                     Inner.unions \cup {k})
         /\ NextPart({}) =>
              FramesOK' /\ Changed({}, Inner.pattern, {}, Inner.parts \cup {Inner.returned}, Inner.unions)
         /\ frames' = [frames EXCEPT ![Depth].parts = @ \cup {Inner.returned}] =>
              FramesOK' /\ Changed(Inner.scope, Inner.pattern, Inner.returned,
                                   Inner.parts \cup {Inner.returned}, Inner.unions)
<1>1. Inner \in Frames /\ Inner = frames[Depth]
  BY InnerIsFrame DEF Inner
<1>2. ASSUME NEW ns \in SUBSET Nat, frames' = [frames EXCEPT ![Depth].returned = ns]
      PROVE  FramesOK' /\ Changed(Inner.scope, Inner.pattern, ns, Inner.parts, Inner.unions)
  <2>1. PICK f : f = [Inner EXCEPT !.returned = ns]
    OBVIOUS
  <2>2. frames' = [frames EXCEPT ![Depth] = f]
    BY <1>1, <1>2, <2>1
  <2>3. f \in Frames /\ IsFrame(f, Inner.scope, Inner.pattern, ns, Inner.parts, Inner.unions)
    BY <1>1, <2>1 DEF Frames, IsFrame
  <2>4. FramesOK' /\ Changed(f.scope, f.pattern, f.returned, f.parts, f.unions)
    BY <2>2, <2>3, TopReplaced
  <2> QED
    BY <2>3, <2>4 DEF IsFrame
<1>3. ASSUME NEW k \in {"all", "distinct"}, frames' = [frames EXCEPT ![Depth].unions = @ \cup {k}]
      PROVE  FramesOK' /\ Changed(Inner.scope, Inner.pattern, Inner.returned, Inner.parts,
                                  Inner.unions \cup {k})
  <2>1. PICK f : f = [Inner EXCEPT !.unions = Inner.unions \cup {k}]
    OBVIOUS
  <2>2. frames' = [frames EXCEPT ![Depth] = f]
    BY <1>1, <1>3, <2>1
  <2>3. f \in Frames /\ IsFrame(f, Inner.scope, Inner.pattern, Inner.returned, Inner.parts, Inner.unions \cup {k})
    BY <1>1, <2>1 DEF Frames, IsFrame
  <2>4. FramesOK' /\ Changed(f.scope, f.pattern, f.returned, f.parts, f.unions)
    BY <2>2, <2>3, TopReplaced
  <2> QED
    BY <2>3, <2>4 DEF IsFrame
<1>4. ASSUME NextPart({})
      PROVE  FramesOK' /\ Changed({}, Inner.pattern, {}, Inner.parts \cup {Inner.returned}, Inner.unions)
  <2>1. PICK f : f = [Inner EXCEPT !.scope = {}, !.returned = {},
                                   !.parts = Inner.parts \cup {Inner.returned}]
    OBVIOUS
  <2>2. frames' = [frames EXCEPT ![Depth] = f]
    BY <1>1, <1>4, <2>1, InnerIsFrame, LenProperties DEF NextPart, FramesOK, Frames
  <2>3. f \in Frames /\ IsFrame(f, {}, Inner.pattern, {}, Inner.parts \cup {Inner.returned}, Inner.unions)
    BY <1>1, <2>1 DEF Frames, IsFrame
  <2>4. FramesOK' /\ Changed(f.scope, f.pattern, f.returned, f.parts, f.unions)
    BY <2>2, <2>3, TopReplaced
  <2> QED
    BY <2>3, <2>4 DEF IsFrame
<1>5. ASSUME frames' = [frames EXCEPT ![Depth].parts = @ \cup {Inner.returned}]
      PROVE  FramesOK' /\ Changed(Inner.scope, Inner.pattern, Inner.returned,
                                  Inner.parts \cup {Inner.returned}, Inner.unions)
  <2>1. PICK f : f = [Inner EXCEPT !.parts = Inner.parts \cup {Inner.returned}]
    OBVIOUS
  <2>2. frames' = [frames EXCEPT ![Depth] = f]
    BY <1>1, <1>5, <2>1
  <2>3. f \in Frames /\ IsFrame(f, Inner.scope, Inner.pattern, Inner.returned,
                                Inner.parts \cup {Inner.returned}, Inner.unions)
    BY <1>1, <2>1 DEF Frames, IsFrame
  <2>4. FramesOK' /\ Changed(f.scope, f.pattern, f.returned, f.parts, f.unions)
    BY <2>2, <2>3, TopReplaced
  <2> QED
    BY <2>3, <2>4 DEF IsFrame
<1> QED
  BY <1>2, <1>3, <1>4, <1>5

LEMMA SameFrames ==
  ASSUME FramesOK, UNCHANGED frames
  PROVE  FramesOK' /\ Changed(Inner.scope, Inner.pattern, Inner.returned, Inner.parts, Inner.unions)
BY DEF FramesOK, Changed, IsFrame, Inner, Depth

LEMMA FramePushed ==
  ASSUME FramesOK, NEW f, f \in Frames, f.returned = {}, f.parts = {}, frames' = Append(frames, f)
  PROVE  FramesOK' /\ Pushed(f.scope, f.pattern, f.unions)
<1>1. PICK k : k = Depth
  OBVIOUS
<1>2. k \in Nat /\ k >= 1 /\ frames \in Seq(Frames) /\ Len(frames) = k
  BY <1>1 DEF FramesOK, Depth
<1>3. /\ frames' \in Seq(Frames) /\ Len(frames') = k + 1 /\ frames'[k + 1] = f
      /\ \A d \in 1 .. k : frames'[d] = frames[d]
  BY <1>2, AppendProperties
<1>4. Depth' = k + 1
  BY <1>3 DEF Depth
<1> QED
  BY <1>1, <1>2, <1>3, <1>4 DEF FramesOK, Pushed, IsFrame

LEMMA ScopePushed ==
  ASSUME FramesOK, NEW scope \in SUBSET Nat, Push(scope)
  PROVE  FramesOK' /\ Pushed(scope, {}, {})
<1>1. Frame(scope) \in Frames /\ IsFrame(Frame(scope), scope, {}, {}, {}, {})
  BY DEF Frame, Frames, IsFrame
<1> QED
  BY <1>1, FramePushed DEF Push, IsFrame

LEMMA PoppedFrames ==
  ASSUME FramesOK, Depth >= 2
  PROVE  /\ Popped \in Seq(Frames) /\ Len(Popped) = Depth - 1
         /\ \A d \in 1 .. Depth - 1 : Popped[d] = frames[d]
<1>1. PICK k : k = Depth
  OBVIOUS
<1>2. k \in Nat /\ k >= 2 /\ frames \in Seq(Frames) /\ Len(frames) = k
  BY <1>1 DEF FramesOK, Depth
<1>3. 1 \in 1 .. k + 1 /\ k - 1 \in 0 .. k /\ 1 <= k - 1 + 1 /\ k - 1 - 1 + 1 = k - 1
  BY <1>2
<1>4. /\ SubSeq(frames, 1, k - 1) \in Seq(Frames)
      /\ Len(SubSeq(frames, 1, k - 1)) = k - 1
      /\ \A d \in 1 .. k - 1 : SubSeq(frames, 1, k - 1)[d] = frames[d]
  BY <1>2, <1>3, SubSeqProperties
<1> QED
  BY <1>1, <1>4 DEF Popped

LEMMA JustPopped ==
  ASSUME FramesOK, Depth >= 2, frames' = Popped
  PROVE  FramesOK' /\ PoppedTo(Below.scope, Below.pattern, Below.returned, Below.parts, Below.unions)
<1>1. PICK k : k = Depth
  OBVIOUS
<1>2. k \in Nat /\ k >= 2
  BY <1>1 DEF FramesOK
<1>3. frames' \in Seq(Frames) /\ Len(frames') = k - 1 /\ \A d \in 1 .. k - 1 : frames'[d] = frames[d]
  BY <1>1, PoppedFrames
<1>4. Depth' = k - 1
  BY <1>3 DEF Depth
<1>5. k - 1 \in 1 .. k - 1 /\ k - 1 \in Nat /\ k - 1 >= 1 /\ \A d \in 1 .. k - 2 : d \in 1 .. k - 1
  BY <1>2
<1> QED
  BY <1>1, <1>2, <1>3, <1>4, <1>5 DEF FramesOK, PoppedTo, IsFrame, Below

(* The next scope changes as well. *)
LEMMA PoppedAndChanged ==
  ASSUME FramesOK, Depth >= 2, NEW f \in Frames, frames' = [Popped EXCEPT ![Depth - 1] = f]
  PROVE  FramesOK' /\ PoppedTo(f.scope, f.pattern, f.returned, f.parts, f.unions)
<1>1. PICK k : k = Depth
  OBVIOUS
<1>2. k \in Nat /\ k >= 2
  BY <1>1 DEF FramesOK
<1>3. PICK s : s = Popped
  OBVIOUS
<1>4. s \in Seq(Frames) /\ Len(s) = k - 1 /\ \A d \in 1 .. k - 1 : s[d] = frames[d]
  BY <1>1, <1>3, PoppedFrames
<1>5. k - 1 \in 1 .. k - 1 /\ k - 1 \in Nat /\ k - 1 >= 1
      /\ \A d \in 1 .. k - 2 : d \in 1 .. k - 1 /\ d # k - 1
  BY <1>2
<1>6. frames' = [s EXCEPT ![k - 1] = f]
  BY <1>1, <1>3
<1>7. /\ frames' \in Seq(Frames) /\ Len(frames') = k - 1
      /\ \A d \in 1 .. k - 1 : frames'[d] = IF d = k - 1 THEN f ELSE s[d]
  <2>1. PICK m : m = k - 1
    OBVIOUS
  <2>2. s \in Seq(Frames) /\ m \in 1 .. Len(s) /\ Len(s) = m
    BY <1>4, <1>5, <2>1
  <2>3. /\ [s EXCEPT ![m] = f] \in Seq(Frames) /\ Len([s EXCEPT ![m] = f]) = Len(s)
        /\ \A d \in 1 .. Len(s) : [s EXCEPT ![m] = f][d] = IF d = m THEN f ELSE s[d]
    BY <2>2, ExceptSeq
  <2> QED
    BY <1>6, <2>1, <2>2, <2>3
<1>8. Depth' = k - 1
  BY <1>7 DEF Depth
<1>9. frames'[k - 1] = f /\ \A d \in 1 .. k - 2 : frames'[d] = frames[d]
  BY <1>4, <1>5, <1>7
<1> QED
  BY <1>1, <1>2, <1>5, <1>7, <1>8, <1>9 DEF FramesOK, PoppedTo, IsFrame

LEMMA PoppedAndJoined ==
  ASSUME FramesOK, Depth >= 2
  PROVE  /\ frames' = [Popped EXCEPT ![Depth - 1].scope = @ \cup Inner.returned] =>
              FramesOK' /\ PoppedTo(Below.scope \cup Inner.returned, Below.pattern, Below.returned,
                                    Below.parts, Below.unions)
         /\ frames' = [Popped EXCEPT ![Depth - 1].parts = @ \cup {Inner.returned}] =>
              FramesOK' /\ PoppedTo(Below.scope, Below.pattern, Below.returned,
                                    Below.parts \cup {Inner.returned}, Below.unions)
<1>1. Inner \in Frames /\ Below \in Frames
  BY InnerIsFrame
<1>2. Popped[Depth - 1] = Below
  BY PoppedFrames DEF Below, FramesOK
<1>3. ASSUME frames' = [Popped EXCEPT ![Depth - 1].scope = @ \cup Inner.returned]
      PROVE  FramesOK' /\ PoppedTo(Below.scope \cup Inner.returned, Below.pattern, Below.returned,
                                   Below.parts, Below.unions)
  <2>1. PICK f : f = [Below EXCEPT !.scope = Below.scope \cup Inner.returned]
    OBVIOUS
  <2>2. frames' = [Popped EXCEPT ![Depth - 1] = f]
    BY <1>2, <1>3, <2>1
  <2>3. f \in Frames /\ IsFrame(f, Below.scope \cup Inner.returned, Below.pattern, Below.returned,
                                Below.parts, Below.unions)
    BY <1>1, <2>1 DEF Frames, IsFrame
  <2>4. FramesOK' /\ PoppedTo(f.scope, f.pattern, f.returned, f.parts, f.unions)
    BY <2>2, <2>3, PoppedAndChanged
  <2> QED
    BY <2>3, <2>4 DEF IsFrame
<1>4. ASSUME frames' = [Popped EXCEPT ![Depth - 1].parts = @ \cup {Inner.returned}]
      PROVE  FramesOK' /\ PoppedTo(Below.scope, Below.pattern, Below.returned,
                                   Below.parts \cup {Inner.returned}, Below.unions)
  <2>1. PICK f : f = [Below EXCEPT !.parts = Below.parts \cup {Inner.returned}]
    OBVIOUS
  <2>2. frames' = [Popped EXCEPT ![Depth - 1] = f]
    BY <1>2, <1>4, <2>1
  <2>3. f \in Frames /\ IsFrame(f, Below.scope, Below.pattern, Below.returned,
                                Below.parts \cup {Inner.returned}, Below.unions)
    BY <1>1, <2>1 DEF Frames, IsFrame
  <2>4. FramesOK' /\ PoppedTo(f.scope, f.pattern, f.returned, f.parts, f.unions)
    BY <2>2, <2>3, PoppedAndChanged
  <2> QED
    BY <2>3, <2>4 DEF IsFrame
<1> QED
  BY <1>3, <1>4

-----------------------------------------------------------------------------
(* What is left to do, scope by scope.  Each entry belongs to one of the   *)
(* open scopes, and some take it away.                                     *)

Popping == {"CallSubqueryEnd", "ScopeEnd", "PredicateEnd", "BodyPartEnd"}

(* The last of a (sub)query or of a part of it, before its columns.        *)
Tails == {"ReadClause", "WriteClause", "OptionalWriteQuery", "Union", "UnionClause", "UnionEnd"}

(* What may return columns. *)
Returning == Tails \cup {"Return"}

PartEnds == Ends \cup {"BodyPartEnd"}

Writing == {"CreateClause", "MergeClause", "CreateElement", "ForeachCommand"}

Withs ==
  {"ReadClause", "Union", "WithClause", "WithElementChain", "WithElementEnd", "LastWithElementEnd"}

Uniting == {"ReadClause", "Union", "UnionClause"}

(* b may come somewhere after a in the same scope.                         *)
Pair(a, b) ==
  /\ a \in Tails => b \in Ends
  /\ a = "Return" => b \in PartEnds
  /\ a \in Writing => b \notin Withs
  /\ a = "SubqueryExpressionBodyPart" => b \notin Uniting

(* c may take the place of h. *)
Heir(h, c) ==
  /\ c \in Tails => h \in Tails
  /\ c = "Return" => h \in Tails
  /\ c \in Writing => h \in Tails \cup Writing
  /\ c # "SubqueryExpressionBodyPart"

LEMMA HeirsPair ==
  ASSUME NEW h, NEW b, NEW c, Heir(h, c), Pair(h, b)
  PROVE  Pair(c, b)
BY DEF Heir, Pair, PartEnds, Ends, Tails, Withs, Writing

(* lv are the numbers of the scopes. *)
Laid(lv) ==
  /\ lv \in [Nat -> Nat]
  /\ todo # << >> => lv[1] = Depth
  /\ \A i \in 1 .. Len(todo) :
       lv[i] \in 1 .. Depth /\ (todo[i].clause \in Popping => lv[i] >= 2)
  /\ \A i \in 1 .. Len(todo) - 1 :
       lv[i + 1] = IF todo[i].clause \in Popping THEN lv[i] - 1 ELSE lv[i]
  /\ \A i, j \in 1 .. Len(todo) : i < j =>
       /\ lv[j] <= lv[i]
       /\ todo[i].clause \in Popping => lv[j] < lv[i]
       /\ lv[i] = lv[j] => Pair(todo[i].clause, todo[j].clause)

(* A step replaces the first entry by sub, all of the scope l.             *)
Spliced(sub, l, lv, new) ==
  /\ Len(sub) \in Nat /\ Len(todo) \in Nat /\ Len(todo) >= 1
  /\ Len(todo') = Len(todo) + Len(sub) - 1
  /\ new \in [Nat -> Nat]
  /\ \A i \in 1 .. Len(sub) : todo'[i] = sub[i] /\ new[i] = l
  /\ \A j \in 2 .. Len(todo) :
       todo'[j + Len(sub) - 1] = todo[j] /\ new[j + Len(sub) - 1] = lv[j]
  /\ \A i \in 1 .. Len(todo') :
       i \in 1 .. Len(sub) \/ \E j \in 2 .. Len(todo) : i = j + Len(sub) - 1

LEMMA SpliceExists ==
  ASSUME IInv, todo # << >>, NEW S, NEW sub \in Seq(S), todo' = sub \o Tail(todo),
         NEW l \in Nat, NEW lv \in [Nat -> Nat]
  PROVE  \E new : Spliced(sub, l, lv, new)
<1>1. PICK k, n : k = Len(sub) /\ n = Len(todo)
  OBVIOUS
<1>2. PICK T, tail : todo \in Seq(T) /\ tail = Tail(todo)
  BY DEF IInv
<1>3. k \in Nat /\ n \in Nat /\ n >= 1
  BY <1>1, <1>2, LenProperties, EmptySeq
<1>4. tail \in Seq(T) /\ Len(tail) = n - 1 /\ \A i \in 1 .. n - 1 : tail[i] = todo[i + 1]
  BY <1>1, <1>2, HeadTailProperties
<1>5. PICK U : U = S \cup T
  OBVIOUS
<1>6. sub \in Seq(U) /\ tail \in Seq(U)
  BY <1>4, <1>5, SeqMonotonic
<1>7. /\ Len(sub \o tail) = k + (n - 1)
      /\ \A i \in 1 .. k + (n - 1) : (sub \o tail)[i] = IF i <= k THEN sub[i] ELSE tail[i - k]
  <2>1. /\ Len(sub \o tail) = Len(sub) + Len(tail)
        /\ \A i \in 1 .. Len(sub) + Len(tail) :
             (sub \o tail)[i] = IF i <= Len(sub) THEN sub[i] ELSE tail[i - Len(sub)]
    BY <1>6, ConcatProperties
  <2>2. Len(sub) = k /\ Len(tail) = n - 1
    BY <1>1, <1>4
  <2> QED
    BY <2>1, <2>2
<1>8. /\ Len(todo') = k + (n - 1)
      /\ \A i \in 1 .. k + (n - 1) : todo'[i] = IF i <= k THEN sub[i] ELSE tail[i - k]
  BY <1>2, <1>7
<1> DEFINE new == [i \in Nat |-> IF i <= k THEN l ELSE IF i - k + 1 \in Nat THEN lv[i - k + 1] ELSE 0]
<1>9. new \in [Nat -> Nat]
  BY <1>3
<1>10. ASSUME NEW i \in 1 .. k PROVE todo'[i] = sub[i] /\ new[i] = l
  <2>1. i \in Nat /\ i <= k /\ i \in 1 .. k + (n - 1)
    BY <1>3
  <2> QED
    BY <1>8, <2>1
<1>11. ASSUME NEW j \in 2 .. n PROVE todo'[j + k - 1] = todo[j] /\ new[j + k - 1] = lv[j]
  <2>1. PICK i : i = j + k - 1
    OBVIOUS
  <2>2. /\ i \in Nat /\ i \in 1 .. k + (n - 1) /\ ~(i <= k) /\ i - k \in 1 .. n - 1
        /\ i - k + 1 = j /\ j \in Nat
    BY <1>3, <2>1
  <2>3. todo'[i] = tail[i - k] /\ tail[i - k] = todo[i - k + 1]
    BY <1>4, <1>8, <2>2
  <2>4. new[i] = lv[j]
    BY <2>2
  <2> QED
    BY <2>1, <2>2, <2>3, <2>4
<1>12. ASSUME NEW i \in 1 .. k + (n - 1)
       PROVE  i \in 1 .. k \/ \E j \in 2 .. n : i = j + k - 1
  <2>1. i \in 1 .. k \/ (i - k + 1 \in 2 .. n /\ i = (i - k + 1) + k - 1)
    BY <1>3
  <2> QED
    BY <2>1
<1>13. k + (n - 1) = n + k - 1
  BY <1>3
<1> HIDE DEF new
<1> QED
  BY <1>1, <1>3, <1>8, <1>9, <1>10, <1>11, <1>12, <1>13 DEF Spliced

(* Pairs of entries after a step. *)
LEMMA SplicedPairs ==
  ASSUME NEW sub, NEW l, NEW lv, NEW new, Spliced(sub, l, lv, new),
         NEW i \in 1 .. Len(todo'), NEW j \in 1 .. Len(todo'), i < j
  PROVE  \/ i \in 1 .. Len(sub) /\ j \in 1 .. Len(sub)
         \/ i \in 1 .. Len(sub) /\ \E q \in 2 .. Len(todo) : j = q + Len(sub) - 1
         \/ \E p, q \in 2 .. Len(todo) : p < q /\ i = p + Len(sub) - 1 /\ j = q + Len(sub) - 1
<1>1. Len(sub) \in Nat /\ Len(todo) \in Nat
  BY DEF Spliced
<1>2. PICK k, n : k = Len(sub) /\ n = Len(todo) /\ k \in Nat /\ n \in Nat
  BY <1>1
<1>3. /\ i \in 1 .. k \/ \E p \in 2 .. n : i = p + k - 1
      /\ j \in 1 .. k \/ \E q \in 2 .. n : j = q + k - 1
  BY <1>2 DEF Spliced
<1>4. CASE i \in 1 .. k
  BY <1>2, <1>3, <1>4
<1>5. CASE \E p \in 2 .. n : i = p + k - 1
  <2>1. PICK p \in 2 .. n : i = p + k - 1
    BY <1>5
  <2>2. j \notin 1 .. k
    BY <1>2, <2>1
  <2>3. PICK q \in 2 .. n : j = q + k - 1
    BY <1>3, <2>2
  <2>4. p < q
    BY <1>2, <2>1, <2>3
  <2> QED
    BY <1>2, <2>1, <2>3, <2>4
<1> QED
  BY <1>3, <1>4, <1>5

HeadClause == Head(todo).clause

LEMMA HeadIsFirst ==
  ASSUME IInv, todo # << >>
  PROVE  Head(todo) = todo[1] /\ Len(todo) \in Nat /\ 1 \in 1 .. Len(todo) /\ Len(todo) >= 1
BY HeadTailProperties, LenProperties, EmptySeq DEF IInv

(* The entries of sub may come in this order. *)
InOrder(sub) ==
  \A i, j \in 1 .. Len(sub) : i < j => Pair(sub[i].clause, sub[j].clause)

(* They come into the scope of the first entry. *)
LEMMA LaidInScope ==
  ASSUME IInv, IInv', FramesOK, todo # << >>, NEW lv, Laid(lv), NEW new, NEW sub,
         Spliced(sub, Depth, lv, new), Depth' = Depth, HeadClause \notin Popping,
         \A i \in 1 .. Len(sub) : sub[i].clause \notin Popping /\ Heir(HeadClause, sub[i].clause),
         InOrder(sub)
  PROVE  Laid(new)'
<1>1. PICK k, n, d : k = Len(sub) /\ n = Len(todo) /\ d = Depth
  OBVIOUS
<1>2. k \in Nat /\ n \in Nat /\ n >= 1 /\ Len(todo') = n + k - 1 /\ d \in Nat /\ d >= 1 /\ 1 \in 1 .. n
  BY <1>1 DEF Spliced, FramesOK
<1>3. new \in [Nat -> Nat]
  BY DEF Spliced
<1>4. todo[1].clause = HeadClause /\ lv[1] = d
  BY <1>1, HeadIsFirst DEF HeadClause, Laid
<1>5. \A i \in 1 .. k : todo'[i] = sub[i] /\ new[i] = d
  BY <1>1 DEF Spliced
<1>6. \A j \in 2 .. n : todo'[j + k - 1] = todo[j] /\ new[j + k - 1] = lv[j]
  BY <1>1 DEF Spliced
<1>7. \A i \in 1 .. n + k - 1 : i \in 1 .. k \/ \E j \in 2 .. n : i = j + k - 1
  BY <1>1, <1>2 DEF Spliced
<1>8. n >= 2 => lv[2] = d
  <2>1. n >= 2 => 1 \in 1 .. n - 1 /\ 1 + 1 = 2
    BY <1>2
  <2> QED
    BY <1>1, <1>4, <2>1 DEF Laid
<1>9. todo' # << >> => new[1] = d
  <2>1. CASE k >= 1
    BY <1>2, <1>5, <2>1
  <2>2. CASE k = 0 /\ n >= 2
    <3>1. 2 \in 2 .. n /\ 2 + k - 1 = 1
      BY <1>2, <2>2
    <3> QED
      BY <1>6, <1>8, <2>2, <3>1
  <2>3. CASE k = 0 /\ n = 1
    <3>1. Len(todo') = 0
      BY <1>2, <2>3
    <3>2. todo' = << >>
      BY <3>1, EmptySeq DEF IInv
    <3> QED
      BY <3>2
  <2> QED
    BY <1>2, <2>1, <2>2, <2>3
<1>10. ASSUME NEW i \in 1 .. n + k - 1
       PROVE  new[i] \in 1 .. d /\ (todo'[i].clause \in Popping => new[i] >= 2)
  <2>1. CASE i \in 1 .. k
    BY <1>1, <1>2, <1>5, <2>1
  <2>2. CASE \E j \in 2 .. n : i = j + k - 1
    <3>1. PICK j \in 2 .. n : i = j + k - 1
      BY <2>2
    <3>2. j \in 1 .. n
      BY <1>2
    <3>3. lv[j] \in 1 .. d /\ (todo[j].clause \in Popping => lv[j] >= 2)
      BY <1>1, <3>2 DEF Laid
    <3> QED
      BY <1>6, <3>1, <3>3
  <2> QED
    BY <1>7, <2>1, <2>2
<1>11. ASSUME NEW i \in 1 .. (n + k - 1) - 1
       PROVE  new[i + 1] = IF todo'[i].clause \in Popping THEN new[i] - 1 ELSE new[i]
  <2>1. i \in Nat /\ i \in 1 .. n + k - 1
    BY <1>2
  <2>2. CASE i \in 1 .. k
    <3>1. new[i] = d /\ todo'[i].clause \notin Popping
      BY <1>1, <1>5, <2>2
    <3>2. CASE i + 1 \in 1 .. k
      BY <1>5, <3>1, <3>2
    <3>3. CASE i = k
      <4>1. 2 \in 2 .. n /\ 2 + k - 1 = i + 1 /\ n >= 2
        BY <1>2, <3>3
      <4> QED
        BY <1>6, <1>8, <3>1, <4>1
    <3>4. i + 1 \in 1 .. k \/ i = k
      BY <1>2, <2>1, <2>2
    <3> QED
      BY <3>2, <3>3, <3>4
  <2>3. CASE \E j \in 2 .. n : i = j + k - 1
    <3>1. PICK j \in 2 .. n : i = j + k - 1
      BY <2>3
    <3>2. j \in 1 .. n - 1 /\ j + 1 \in 2 .. n /\ (j + 1) + k - 1 = i + 1
      BY <1>2, <3>1
    <3>3. lv[j + 1] = IF todo[j].clause \in Popping THEN lv[j] - 1 ELSE lv[j]
      BY <1>1, <3>2 DEF Laid
    <3> QED
      BY <1>6, <3>1, <3>2, <3>3
  <2> QED
    BY <1>7, <2>1, <2>2, <2>3
<1>12. ASSUME NEW i \in 1 .. n + k - 1, NEW j \in 1 .. n + k - 1, i < j
       PROVE  /\ new[j] <= new[i]
              /\ todo'[i].clause \in Popping => new[j] < new[i]
              /\ new[i] = new[j] => Pair(todo'[i].clause, todo'[j].clause)
  <2>1. CASE i \in 1 .. k /\ j \in 1 .. k
    <3>1. Pair(sub[i].clause, sub[j].clause)
      BY <1>1, <1>12, <2>1 DEF InOrder
    <3> QED
      BY <1>1, <1>2, <1>5, <2>1, <3>1
  <2>2. CASE i \in 1 .. k /\ \E q \in 2 .. n : j = q + k - 1
    <3>1. PICK q \in 2 .. n : j = q + k - 1
      BY <2>2
    <3>2. new[i] = d /\ todo'[i] = sub[i] /\ sub[i].clause \notin Popping
          /\ Heir(HeadClause, sub[i].clause)
      BY <1>1, <1>5, <2>2
    <3>3. q \in 1 .. n /\ 1 < q
      BY <1>2
    <3>4. lv[q] <= lv[1] /\ (lv[1] = lv[q] => Pair(HeadClause, todo[q].clause))
      BY <1>1, <1>2, <1>4, <3>3 DEF Laid
    <3>5. new[j] = lv[q] /\ todo'[j] = todo[q]
      BY <1>6, <3>1
    <3>6. lv[1] = lv[q] => Pair(sub[i].clause, todo[q].clause)
      BY <3>2, <3>4, HeirsPair
    <3> QED
      BY <1>4, <3>2, <3>4, <3>5, <3>6
  <2>3. CASE \E p, q \in 2 .. n : p < q /\ i = p + k - 1 /\ j = q + k - 1
    <3>1. PICK p \in 2 .. n, q \in 2 .. n : p < q /\ i = p + k - 1 /\ j = q + k - 1
      BY <2>3
    <3>2. p \in 1 .. n /\ q \in 1 .. n
      BY <1>2
    <3>3. /\ lv[q] <= lv[p]
          /\ todo[p].clause \in Popping => lv[q] < lv[p]
          /\ lv[p] = lv[q] => Pair(todo[p].clause, todo[q].clause)
      BY <1>1, <3>1, <3>2 DEF Laid
    <3> QED
      BY <1>6, <3>1, <3>3
  <2>4. \/ i \in 1 .. k /\ j \in 1 .. k
        \/ i \in 1 .. k /\ \E q \in 2 .. n : j = q + k - 1
        \/ \E p, q \in 2 .. n : p < q /\ i = p + k - 1 /\ j = q + k - 1
    <3>1. i \in 1 .. Len(todo') /\ j \in 1 .. Len(todo')
      BY <1>2
    <3> QED
      BY <1>1, <1>12, <3>1, SplicedPairs
  <2> QED
    BY <2>1, <2>2, <2>3, <2>4
<1> QED
  BY <1>1, <1>2, <1>3, <1>9, <1>10, <1>11, <1>12 DEF Laid

(* They are a scope of their own. *)
Encloses(sub) ==
  /\ Len(sub) \in Nat /\ Len(sub) >= 1
  /\ \A i \in 1 .. Len(sub) : sub[i].clause \in Popping <=> i = Len(sub)
  /\ InOrder(sub)

LEMMA LaidOpened ==
  ASSUME IInv, IInv', FramesOK, todo # << >>, NEW lv, Laid(lv), NEW new, NEW sub,
         Spliced(sub, Depth + 1, lv, new), Depth' = Depth + 1, HeadClause \notin Popping,
         Encloses(sub)
  PROVE  Laid(new)'
<1>1. PICK k, n, d : k = Len(sub) /\ n = Len(todo) /\ d = Depth
  OBVIOUS
<1>2. /\ k \in Nat /\ k >= 1 /\ n \in Nat /\ n >= 1 /\ Len(todo') = n + k - 1
      /\ d \in Nat /\ d >= 1 /\ 1 \in 1 .. n
  BY <1>1 DEF Spliced, FramesOK, Encloses
<1>3. new \in [Nat -> Nat]
  BY DEF Spliced
<1>4. todo[1].clause = HeadClause /\ lv[1] = d
  BY <1>1, HeadIsFirst DEF HeadClause, Laid
<1>5. \A i \in 1 .. k : todo'[i] = sub[i] /\ new[i] = d + 1
  BY <1>1 DEF Spliced
<1>6. \A j \in 2 .. n : todo'[j + k - 1] = todo[j] /\ new[j + k - 1] = lv[j]
  BY <1>1 DEF Spliced
<1>7. \A i \in 1 .. n + k - 1 : i \in 1 .. k \/ \E j \in 2 .. n : i = j + k - 1
  BY <1>1, <1>2 DEF Spliced
<1>8. n >= 2 => lv[2] = d
  <2>1. n >= 2 => 1 \in 1 .. n - 1 /\ 1 + 1 = 2
    BY <1>2
  <2> QED
    BY <1>1, <1>4, <2>1 DEF Laid
<1>9. new[1] = d + 1
  BY <1>2, <1>5
<1>0. \A i \in 1 .. k : todo'[i].clause \in Popping <=> i = k
  BY <1>1, <1>5 DEF Encloses
<1>10. ASSUME NEW i \in 1 .. n + k - 1
       PROVE  new[i] \in 1 .. d + 1 /\ (todo'[i].clause \in Popping => new[i] >= 2)
  <2>1. CASE i \in 1 .. k
    BY <1>1, <1>2, <1>5, <2>1
  <2>2. CASE \E j \in 2 .. n : i = j + k - 1
    <3>1. PICK j \in 2 .. n : i = j + k - 1
      BY <2>2
    <3>2. j \in 1 .. n
      BY <1>2
    <3>3. lv[j] \in 1 .. d /\ (todo[j].clause \in Popping => lv[j] >= 2)
      BY <1>1, <3>2 DEF Laid
    <3> QED
      BY <1>2, <1>6, <3>1, <3>3
  <2> QED
    BY <1>7, <2>1, <2>2
<1>11. ASSUME NEW i \in 1 .. (n + k - 1) - 1
       PROVE  new[i + 1] = IF todo'[i].clause \in Popping THEN new[i] - 1 ELSE new[i]
  <2>1. i \in Nat /\ i \in 1 .. n + k - 1
    BY <1>2
  <2>2. CASE i \in 1 .. k
    <3>1. new[i] = d + 1 /\ (todo'[i].clause \in Popping <=> i = k)
      BY <1>0, <1>5, <2>2
    <3>2. CASE i + 1 \in 1 .. k
      <4>1. i # k
        BY <1>2, <2>1, <3>2
      <4> QED
        BY <1>5, <3>1, <3>2, <4>1
    <3>3. CASE i = k
      <4>1. 2 \in 2 .. n /\ 2 + k - 1 = i + 1 /\ n >= 2 /\ (d + 1) - 1 = d
        BY <1>2, <3>3
      <4> QED
        BY <1>6, <1>8, <3>1, <3>3, <4>1
    <3>4. i + 1 \in 1 .. k \/ i = k
      BY <1>2, <2>1, <2>2
    <3> QED
      BY <3>2, <3>3, <3>4
  <2>3. CASE \E j \in 2 .. n : i = j + k - 1
    <3>1. PICK j \in 2 .. n : i = j + k - 1
      BY <2>3
    <3>2. j \in 1 .. n - 1 /\ j + 1 \in 2 .. n /\ (j + 1) + k - 1 = i + 1
      BY <1>2, <3>1
    <3>3. lv[j + 1] = IF todo[j].clause \in Popping THEN lv[j] - 1 ELSE lv[j]
      BY <1>1, <3>2 DEF Laid
    <3> QED
      BY <1>6, <3>1, <3>2, <3>3
  <2> QED
    BY <1>7, <2>1, <2>2, <2>3
<1>12. ASSUME NEW i \in 1 .. n + k - 1, NEW j \in 1 .. n + k - 1, i < j
       PROVE  /\ new[j] <= new[i]
              /\ todo'[i].clause \in Popping => new[j] < new[i]
              /\ new[i] = new[j] => Pair(todo'[i].clause, todo'[j].clause)
  <2>1. CASE i \in 1 .. k /\ j \in 1 .. k
    <3>1. Pair(sub[i].clause, sub[j].clause)
      BY <1>1, <1>12, <2>1 DEF InOrder, Encloses
    <3>2. i # k
      BY <1>2, <1>12, <2>1
    <3> QED
      BY <1>0, <1>2, <1>5, <2>1, <3>1, <3>2
  <2>2. CASE i \in 1 .. k /\ \E q \in 2 .. n : j = q + k - 1
    <3>1. PICK q \in 2 .. n : j = q + k - 1
      BY <2>2
    <3>2. new[i] = d + 1
      BY <1>5, <2>2
    <3>3. q \in 1 .. n
      BY <1>2
    <3>4. lv[q] \in 1 .. d
      BY <1>1, <3>3 DEF Laid
    <3>5. new[j] = lv[q]
      BY <1>6, <3>1
    <3> QED
      BY <1>2, <3>2, <3>4, <3>5
  <2>3. CASE \E p, q \in 2 .. n : p < q /\ i = p + k - 1 /\ j = q + k - 1
    <3>1. PICK p \in 2 .. n, q \in 2 .. n : p < q /\ i = p + k - 1 /\ j = q + k - 1
      BY <2>3
    <3>2. p \in 1 .. n /\ q \in 1 .. n
      BY <1>2
    <3>3. /\ lv[q] <= lv[p]
          /\ todo[p].clause \in Popping => lv[q] < lv[p]
          /\ lv[p] = lv[q] => Pair(todo[p].clause, todo[q].clause)
      BY <1>1, <3>1, <3>2 DEF Laid
    <3> QED
      BY <1>6, <3>1, <3>3
  <2>4. \/ i \in 1 .. k /\ j \in 1 .. k
        \/ i \in 1 .. k /\ \E q \in 2 .. n : j = q + k - 1
        \/ \E p, q \in 2 .. n : p < q /\ i = p + k - 1 /\ j = q + k - 1
    <3>1. i \in 1 .. Len(todo') /\ j \in 1 .. Len(todo')
      BY <1>2
    <3> QED
      BY <1>1, <1>12, <3>1, SplicedPairs
  <2> QED
    BY <2>1, <2>2, <2>3, <2>4
<1> QED
  BY <1>1, <1>2, <1>3, <1>9, <1>10, <1>11, <1>12 DEF Laid

(* The first entry takes its scope away. *)
LEMMA LaidClosed ==
  ASSUME IInv, IInv', FramesOK, todo # << >>, NEW lv, Laid(lv), NEW new,
         Spliced(<< >>, Depth, lv, new), Depth' = Depth - 1, HeadClause \in Popping
  PROVE  Laid(new)'
<1>1. PICK n, d : n = Len(todo) /\ d = Depth
  OBVIOUS
<1>2. n \in Nat /\ n >= 1 /\ d \in Nat /\ d >= 1 /\ 1 \in 1 .. n /\ Len(<< >>) = 0
  BY <1>1, EmptySeq DEF Spliced, FramesOK
<1>3. new \in [Nat -> Nat] /\ Len(todo') = n - 1
  BY <1>1, <1>2 DEF Spliced
<1>4. todo[1].clause \in Popping /\ lv[1] = d
  BY HeadIsFirst, <1>1 DEF HeadClause, Laid
<1>5. ASSUME NEW i \in 1 .. n - 1
      PROVE  i + 1 \in 1 .. n /\ todo'[i] = todo[i + 1] /\ new[i] = lv[i + 1]
  <2>1. PICK j : j = i + 1
    OBVIOUS
  <2>2. j \in 2 .. n /\ j \in 1 .. n /\ j + 0 - 1 = i
    BY <1>2, <2>1
  <2>3. todo'[j + 0 - 1] = todo[j] /\ new[j + 0 - 1] = lv[j]
    BY <1>1, <1>2, <2>2 DEF Spliced
  <2> QED
    BY <2>1, <2>2, <2>3
<1>6. todo' # << >> => new[1] = d - 1
  <2>1. CASE n >= 2
    <3>1. 1 \in 1 .. n - 1 /\ 1 + 1 = 2
      BY <1>2, <2>1
    <3>2. lv[2] = d - 1
      BY <1>1, <1>4, <3>1 DEF Laid
    <3> QED
      BY <1>5, <3>1, <3>2
  <2>2. CASE n = 1
    <3>1. todo' = << >>
      BY <1>3, <2>2, EmptySeq DEF IInv
    <3> QED
      BY <3>1
  <2> QED
    BY <1>2, <2>1, <2>2
<1>7. ASSUME NEW i \in 1 .. n - 1
      PROVE  new[i] \in 1 .. d - 1 /\ (todo'[i].clause \in Popping => new[i] >= 2)
  <2>1. PICK j : j = i + 1
    OBVIOUS
  <2>2. j \in 1 .. n /\ 1 < j
    BY <1>2, <2>1
  <2>3. lv[j] \in 1 .. d /\ (todo[j].clause \in Popping => lv[j] >= 2) /\ lv[j] < lv[1]
    BY <1>1, <1>2, <1>4, <2>2 DEF Laid
  <2> QED
    BY <1>2, <1>4, <1>5, <2>1, <2>3
<1>8. ASSUME NEW i \in 1 .. (n - 1) - 1
      PROVE  new[i + 1] = IF todo'[i].clause \in Popping THEN new[i] - 1 ELSE new[i]
  <2>1. i \in 1 .. n - 1 /\ i + 1 \in 1 .. n - 1
    BY <1>2
  <2>2. lv[(i + 1) + 1] = IF todo[i + 1].clause \in Popping THEN lv[i + 1] - 1 ELSE lv[i + 1]
    BY <1>1, <2>1 DEF Laid
  <2> QED
    BY <1>5, <2>1, <2>2
<1>9. ASSUME NEW i \in 1 .. n - 1, NEW j \in 1 .. n - 1, i < j
      PROVE  /\ new[j] <= new[i]
             /\ todo'[i].clause \in Popping => new[j] < new[i]
             /\ new[i] = new[j] => Pair(todo'[i].clause, todo'[j].clause)
  <2>1. PICK p, q : p = i + 1 /\ q = j + 1
    OBVIOUS
  <2>2. p \in 1 .. n /\ q \in 1 .. n /\ p < q
    BY <1>2, <1>9, <2>1
  <2>3. /\ lv[q] <= lv[p]
        /\ todo[p].clause \in Popping => lv[q] < lv[p]
        /\ lv[p] = lv[q] => Pair(todo[p].clause, todo[q].clause)
    BY <1>1, <2>2 DEF Laid
  <2>4. todo'[i] = todo[p] /\ new[i] = lv[p] /\ todo'[j] = todo[q] /\ new[j] = lv[q]
    BY <1>5, <2>1
  <2> QED
    BY <2>3, <2>4
<1> QED
  BY <1>1, <1>3, <1>6, <1>7, <1>8, <1>9 DEF Laid

-----------------------------------------------------------------------------
(* The columns that are owed.  owed[d] is what the (sub)query in scope d   *)
(* has to return, and of which kind its UNIONs are.                        *)

Obligations ==
  [mustReturn : BOOLEAN, columns : SUBSET Nat, isUnionAll : {"undecided", "all", "distinct"}]

OwedBy(s) == [mustReturn |-> s.mustReturn, columns |-> s.columns, isUnionAll |-> s.isUnionAll]

GoodFrame(f, o) ==
  /\ f.parts \subseteq {o.columns}
  /\ f.unions # {} => o.mustReturn
  /\ \A a, b \in f.unions : a = b
  /\ o.mustReturn <=> o.columns # {}

(* What the entry e of scope l needs: a schema that is put back owes the   *)
(* same as its scope, and a UNION goes on as it began.                     *)
Fits(e, l, owed, fs) ==
  /\ e.clause \in Popping => OwedBy(e.old) = owed[l - 1]
  /\ e.clause = "UnionEnd" => OwedBy(e.old) = owed[l]
  /\ e.clause \in {"UnionEnd", "UnionClause"} =>
       owed[l].mustReturn /\ owed[l].isUnionAll # "undecided"
  /\ e.clause \in Uniting \cup {"UnionEnd"} => fs[l].unions \subseteq {owed[l].isUnionAll}
  /\ e.clause \in Uniting /\ ~owed[l].mustReturn => fs[l].parts = {}
  /\ e.clause = "BodyPartEnd" =>
       owed[l].mustReturn = owed[l - 1].mustReturn /\ owed[l].columns = owed[l - 1].columns

(* The part that ends with c has returned what it owes. *)
Settled(c, f, o) == o.mustReturn \/ c = "BodyPartEnd" => f.returned = o.columns

(* Something of the scope of the i-th entry comes before it that returns.  *)
Awaits(t, lv, i) == \E j \in 1 .. i - 1 : t[j].clause \in Returning /\ lv[j] = lv[i]

Columns(lv, owed) ==
  /\ owed \in [Nat -> Obligations]
  /\ OwedBy(schema) = owed[Depth]
  /\ \A d \in 1 .. Depth : GoodFrame(frames[d], owed[d])
  /\ \A i \in 1 .. Len(todo) : Fits(todo[i], lv[i], owed, frames)
  /\ \A i, j \in 1 .. Len(todo) : i < j =>
       /\ lv[i] = lv[j] /\ todo[i].clause = "Return" /\ todo[j].clause = "BodyPartEnd" =>
            owed[lv[i]].mustReturn
       /\ lv[i] = lv[j] + 1 /\ todo[i].clause = "BodyPartEnd" => todo[j].clause \notin Uniting
  /\ \A i \in 1 .. Len(todo) : todo[i].clause \in PartEnds =>
       Settled(todo[i].clause, frames[lv[i]], owed[lv[i]]) \/ Awaits(todo, lv, i)

LEMMA FitsStill ==
  ASSUME NEW e, NEW l, NEW owed, NEW fs, NEW owed2, NEW fs2, Fits(e, l, owed, fs),
         owed2[l] = owed[l], e.clause \in Popping => owed2[l - 1] = owed[l - 1],
         fs2[l].unions = fs[l].unions, fs2[l].parts = fs[l].parts
  PROVE  Fits(e, l, owed2, fs2)
<1>1. e.clause = "BodyPartEnd" => e.clause \in Popping
  BY DEF Popping
<1> QED
  BY <1>1 DEF Fits

(* The entries after a step. *)
Places(sub, l, lv, new) ==
  \A i \in 1 .. Len(todo') :
     \/ i \in 1 .. Len(sub) /\ todo'[i] = sub[i] /\ new[i] = l
     \/ \E j \in 2 .. Len(todo) :
          i = j + Len(sub) - 1 /\ todo'[i] = todo[j] /\ new[i] = lv[j]

LEMMA SplicedEntries ==
  ASSUME NEW sub, NEW l, NEW lv, NEW new, Spliced(sub, l, lv, new)
  PROVE  Places(sub, l, lv, new)
BY DEF Spliced, Places

LEMMA AwaitsStill ==
  ASSUME NEW sub, NEW l, NEW lv, NEW new, Spliced(sub, l, lv, new),
         NEW j \in 2 .. Len(todo), Awaits(todo, lv, j),
         \/ \E r \in 1 .. Len(sub) : sub[r].clause \in Returning /\ l = lv[1]
         \/ todo[1].clause \notin Returning \/ lv[j] # lv[1]
  PROVE  Awaits(todo', new, j + Len(sub) - 1)
<1>1. PICK k, n : k = Len(sub) /\ n = Len(todo) /\ k \in Nat /\ n \in Nat
  BY DEF Spliced
<1>2. PICK q \in 1 .. j - 1 : todo[q].clause \in Returning /\ lv[q] = lv[j]
  BY DEF Awaits
<1>3. new[j + k - 1] = lv[j] /\ todo'[j + k - 1] = todo[j]
  BY <1>1 DEF Spliced
<1>4. CASE q = 1
  <2>1. PICK r \in 1 .. k : sub[r].clause \in Returning /\ l = lv[1]
    BY <1>1, <1>2, <1>4
  <2>2. todo'[r] = sub[r] /\ new[r] = l
    BY <1>1 DEF Spliced
  <2>3. r \in 1 .. (j + k - 1) - 1
    BY <1>1
  <2> QED
    BY <1>1, <1>2, <1>3, <1>4, <2>1, <2>2, <2>3 DEF Awaits
<1>5. CASE q # 1
  <2>1. q \in 2 .. n /\ q + k - 1 \in 1 .. (j + k - 1) - 1
    BY <1>1, <1>5
  <2>2. new[q + k - 1] = lv[q] /\ todo'[q + k - 1] = todo[q]
    BY <1>1, <2>1 DEF Spliced
  <2> QED
    BY <1>1, <1>2, <1>3, <2>1, <2>2 DEF Awaits
<1> QED
  BY <1>4, <1>5

(* A step within the innermost scope. *)
LEMMA ColumnsInScope ==
  ASSUME FramesOK, todo # << >>, NEW lv, Laid(lv), NEW owed, Columns(lv, owed),
         NEW sub, NEW new, Spliced(sub, Depth, lv, new),
         NEW owed2 \in [Nat -> Obligations], \A d \in Nat : d # Depth => owed2[d] = owed[d],
         Depth' = Depth, \A d \in 1 .. Depth - 1 : frames'[d] = frames[d],
         OwedBy(schema') = owed2[Depth], GoodFrame(frames'[Depth], owed2[Depth]),
         \A i \in 1 .. Len(sub) :
            /\ sub[i].clause \notin Popping
            /\ Fits(sub[i], Depth, owed2, frames')
            /\ sub[i].clause \in PartEnds => \E r \in 1 .. i - 1 : sub[r].clause \in Returning,
         \A j \in 2 .. Len(todo) : lv[j] = Depth =>
            /\ Fits(todo[j], Depth, owed2, frames')
            /\ todo[j].clause = "BodyPartEnd" =>
                 /\ owed2[Depth].mustReturn = owed[Depth].mustReturn
                 /\ \A i \in 1 .. Len(sub) : sub[i].clause # "Return"
            /\ todo[j].clause \in PartEnds =>
                 \/ Settled(todo[j].clause, frames'[Depth], owed2[Depth])
                 \/ \E r \in 1 .. Len(sub) : sub[r].clause \in Returning
                 \/ HeadClause \notin Returning /\ Awaits(todo, lv, j)
  PROVE  Columns(new, owed2)'
<1>1. PICK k, n, d : k = Len(sub) /\ n = Len(todo) /\ d = Depth
  OBVIOUS
<1>2. k \in Nat /\ n \in Nat /\ n >= 1 /\ Len(todo') = n + k - 1 /\ d \in Nat /\ d >= 1
  BY <1>1 DEF Spliced, FramesOK
<1>3. lv[1] = d
  BY <1>1 DEF Laid
<1>4. ASSUME NEW i \in 1 .. Len(todo')
      PROVE  \/ i \in 1 .. k /\ todo'[i] = sub[i] /\ new[i] = d
             \/ \E j \in 2 .. n : i = j + k - 1 /\ todo'[i] = todo[j] /\ new[i] = lv[j]
  <2>1. Places(sub, d, lv, new)
    BY <1>1, SplicedEntries
  <2> QED
    BY <1>1, <2>1 DEF Places
<1>5. \A j \in 2 .. n : /\ j \in 1 .. n /\ lv[j] \in 1 .. d
                        /\ todo[j].clause \in Popping => lv[j] >= 2
  <2>1. \A j \in 2 .. n : j \in 1 .. n
    BY <1>2
  <2> QED
    BY <1>1, <2>1 DEF Laid
<1>6. \A e \in 1 .. d : e # d => e \in 1 .. d - 1 /\ frames'[e] = frames[e] /\ owed2[e] = owed[e]
  BY <1>1, <1>2
<1>7. \A e \in 1 .. d : e - 1 \in Nat /\ e - 1 # d
  BY <1>2
<1>8. ASSUME NEW e \in 1 .. d PROVE GoodFrame(frames'[e], owed2[e])
  <2>1. GoodFrame(frames[e], owed[e])
    BY <1>1 DEF Columns
  <2> QED
    BY <1>1, <1>6, <2>1
<1>9. ASSUME NEW i \in 1 .. Len(todo') PROVE Fits(todo'[i], new[i], owed2, frames')
  <2>1. CASE i \in 1 .. k /\ todo'[i] = sub[i] /\ new[i] = d
    BY <1>1, <2>1
  <2>2. CASE \E j \in 2 .. n : i = j + k - 1 /\ todo'[i] = todo[j] /\ new[i] = lv[j]
    <3>1. PICK j \in 2 .. n : todo'[i] = todo[j] /\ new[i] = lv[j]
      BY <2>2
    <3>2. CASE lv[j] = d
      BY <1>1, <3>1, <3>2
    <3>3. CASE lv[j] # d
      <4>1. lv[j] \in 1 .. d /\ Fits(todo[j], lv[j], owed, frames)
        BY <1>1, <1>5 DEF Columns
      <4>2. PICK e, x : e = todo[j] /\ x = lv[j]
        OBVIOUS
      <4>3. /\ owed2[x] = owed[x] /\ owed2[x - 1] = owed[x - 1]
            /\ frames'[x].unions = frames[x].unions /\ frames'[x].parts = frames[x].parts
        BY <1>1, <1>6, <1>7, <3>3, <4>1, <4>2
      <4>4. Fits(e, x, owed2, frames')
        BY <4>1, <4>2, <4>3, FitsStill
      <4> QED
        BY <3>1, <4>2, <4>4
    <3> QED
      BY <3>2, <3>3
  <2> QED
    BY <1>4, <2>1, <2>2
<1>10. ASSUME NEW i \in 1 .. Len(todo'), NEW j \in 1 .. Len(todo'), i < j
       PROVE  /\ new[i] = new[j] /\ todo'[i].clause = "Return" /\ todo'[j].clause = "BodyPartEnd" =>
                   owed2[new[i]].mustReturn
              /\ new[i] = new[j] + 1 /\ todo'[i].clause = "BodyPartEnd" =>
                   todo'[j].clause \notin Uniting
  <2>0. "BodyPartEnd" \in Popping
    BY DEF Popping
  <2>1. CASE i \in 1 .. k /\ j \in 1 .. k
    <3>1. todo'[i] = sub[i] /\ todo'[j] = sub[j] /\ new[i] = d /\ new[j] = d
      BY <1>1, <2>1 DEF Spliced
    <3> QED
      BY <1>1, <2>0, <2>1, <3>1
  <2>2. CASE i \in 1 .. k /\ \E q \in 2 .. n : j = q + k - 1
    <3>1. PICK q \in 2 .. n : j = q + k - 1
      BY <2>2
    <3>2. todo'[i] = sub[i] /\ new[i] = d /\ todo'[j] = todo[q] /\ new[j] = lv[q]
      BY <1>1, <2>2, <3>1 DEF Spliced
    <3> QED
      BY <1>1, <2>0, <2>2, <3>2
  <2>3. CASE \E p, q \in 2 .. n : p < q /\ i = p + k - 1 /\ j = q + k - 1
    <3>1. PICK p \in 2 .. n, q \in 2 .. n : p < q /\ i = p + k - 1 /\ j = q + k - 1
      BY <2>3
    <3>2. todo'[i] = todo[p] /\ new[i] = lv[p] /\ todo'[j] = todo[q] /\ new[j] = lv[q]
      BY <1>1, <3>1 DEF Spliced
    <3>3. p \in 1 .. n /\ q \in 1 .. n
      BY <1>2
    <3>4. /\ lv[p] = lv[q] /\ todo[p].clause = "Return" /\ todo[q].clause = "BodyPartEnd" =>
               owed[lv[p]].mustReturn
          /\ lv[p] = lv[q] + 1 /\ todo[p].clause = "BodyPartEnd" => todo[q].clause \notin Uniting
      BY <1>1, <3>1, <3>3 DEF Columns
    <3>5. lv[p] = lv[q] /\ todo[q].clause = "BodyPartEnd" =>
            owed2[lv[p]].mustReturn = owed[lv[p]].mustReturn
      <4>1. CASE lv[p] = d
        BY <1>1, <4>1
      <4>2. CASE lv[p] # d
        BY <1>5, <1>6, <4>2
      <4> QED
        BY <4>1, <4>2
    <3> QED
      BY <3>2, <3>4, <3>5
  <2>4. \/ i \in 1 .. k /\ j \in 1 .. k
        \/ i \in 1 .. k /\ \E q \in 2 .. n : j = q + k - 1
        \/ \E p, q \in 2 .. n : p < q /\ i = p + k - 1 /\ j = q + k - 1
    <3>1. \/ i \in 1 .. Len(sub) /\ j \in 1 .. Len(sub)
          \/ i \in 1 .. Len(sub) /\ \E q \in 2 .. Len(todo) : j = q + Len(sub) - 1
          \/ \E p, q \in 2 .. Len(todo) :
               p < q /\ i = p + Len(sub) - 1 /\ j = q + Len(sub) - 1
      BY <1>10, SplicedPairs
    <3> QED
      BY <1>1, <3>1
  <2> QED
    BY <2>1, <2>2, <2>3, <2>4
<1>11. ASSUME NEW i \in 1 .. Len(todo'), todo'[i].clause \in PartEnds
       PROVE  Settled(todo'[i].clause, frames'[new[i]], owed2[new[i]]) \/ Awaits(todo', new, i)
  <2>1. CASE i \in 1 .. k /\ todo'[i] = sub[i] /\ new[i] = d
    <3>1. PICK r \in 1 .. i - 1 : sub[r].clause \in Returning
      BY <1>1, <1>11, <2>1
    <3>2. r \in 1 .. k
      BY <1>2, <2>1
    <3>3. todo'[r] = sub[r] /\ new[r] = d
      BY <1>1, <3>2 DEF Spliced
    <3> QED
      BY <2>1, <3>1, <3>3 DEF Awaits
  <2>2. CASE \E j \in 2 .. n : i = j + k - 1 /\ todo'[i] = todo[j] /\ new[i] = lv[j]
    <3>1. PICK j \in 2 .. n : i = j + k - 1 /\ todo'[i] = todo[j] /\ new[i] = lv[j]
      BY <2>2
    <3>2. j \in 1 .. n
      BY <1>5
    <3>3. Settled(todo[j].clause, frames[lv[j]], owed[lv[j]]) \/ Awaits(todo, lv, j)
      BY <1>1, <1>11, <3>1, <3>2 DEF Columns
    <3>4. CASE lv[j] = d
      <4>1. CASE Settled(todo[j].clause, frames'[d], owed2[d])
        BY <3>1, <3>4, <4>1
      <4>2. CASE \E r \in 1 .. k : sub[r].clause \in Returning
        <5>1. PICK r \in 1 .. k : sub[r].clause \in Returning
          BY <4>2
        <5>2. todo'[r] = sub[r] /\ new[r] = d
          BY <1>1 DEF Spliced
        <5>3. r \in 1 .. i - 1
          BY <1>2, <3>1
        <5> QED
          BY <3>1, <3>4, <5>1, <5>2, <5>3 DEF Awaits
      <4>3. CASE HeadClause \notin Returning /\ Awaits(todo, lv, j)
        <5>1. todo[1].clause \notin Returning
          <6>1. todo[1] = Head(todo)
            BY <1>1, <1>2
          <6> QED
            BY <4>3, <6>1 DEF HeadClause
        <5>2. Awaits(todo', new, j + Len(sub) - 1)
          BY <1>1, <4>3, <5>1, AwaitsStill
        <5> QED
          BY <1>1, <3>1, <5>2
      <4> QED
        BY <1>1, <1>11, <3>1, <3>4, <4>1, <4>2, <4>3
    <3>5. CASE lv[j] # d
      <4>1. CASE Settled(todo[j].clause, frames[lv[j]], owed[lv[j]])
        BY <1>5, <1>6, <3>1, <3>5, <4>1
      <4>2. CASE Awaits(todo, lv, j)
        <5>1. Awaits(todo', new, j + Len(sub) - 1)
          BY <1>1, <1>3, <3>5, <4>2, AwaitsStill
        <5> QED
          BY <1>1, <3>1, <5>1
      <4> QED
        BY <3>3, <4>1, <4>2
    <3> QED
      BY <3>4, <3>5
  <2> QED
    BY <1>4, <2>1, <2>2
<1>12. /\ owed2 \in [Nat -> Obligations]
       /\ OwedBy(schema)' = owed2[Depth']
       /\ \A e \in 1 .. Depth' : GoodFrame(frames'[e], owed2[e])
  BY <1>1, <1>8 DEF OwedBy
<1> QED
  BY <1>9, <1>10, <1>11, <1>12 DEF Columns

(* The entries of sub, in a scope of their own, have what they need. *)
Begins(sub, owed2) ==
  \A i \in 1 .. Len(sub) :
     /\ Fits(sub[i], Depth + 1, owed2, frames')
     /\ sub[i].clause = "Return" => owed2[Depth + 1].mustReturn
     /\ sub[i].clause \in PartEnds =>
          \/ Settled(sub[i].clause, frames'[Depth + 1], owed2[Depth + 1])
          \/ \E r \in 1 .. i - 1 : sub[r].clause \in Returning
     /\ sub[i].clause = "BodyPartEnd" => HeadClause = "SubqueryExpressionBodyPart"

(* A step into a scope of its own, of a schema that owes what is new.      *)
LEMMA ColumnsOpened ==
  ASSUME FramesOK, todo # << >>, NEW lv, Laid(lv), NEW owed, Columns(lv, owed),
         NEW sub, NEW new, Spliced(sub, Depth + 1, lv, new), Encloses(sub),
         NEW owed2 \in [Nat -> Obligations], \A d \in Nat : d # Depth + 1 => owed2[d] = owed[d],
         Depth' = Depth + 1, \A d \in 1 .. Depth : frames'[d] = frames[d],
         OwedBy(schema') = owed2[Depth + 1], GoodFrame(frames'[Depth + 1], owed2[Depth + 1]),
         HeadClause \notin Returning,
         Begins(sub, owed2)
  PROVE  Columns(new, owed2)'
<1>1. PICK k, n, d, t : k = Len(sub) /\ n = Len(todo) /\ d = Depth /\ t = Depth + 1
  OBVIOUS
<1>0. \A i \in 1 .. k :
        /\ Fits(sub[i], t, owed2, frames')
        /\ sub[i].clause = "Return" => owed2[t].mustReturn
        /\ sub[i].clause \in PartEnds =>
             \/ Settled(sub[i].clause, frames'[t], owed2[t])
             \/ \E r \in 1 .. i - 1 : sub[r].clause \in Returning
        /\ sub[i].clause = "BodyPartEnd" => HeadClause = "SubqueryExpressionBodyPart"
  BY <1>1 DEF Begins
<1>2. /\ k \in Nat /\ n \in Nat /\ n >= 1 /\ Len(todo') = n + k - 1 /\ d \in Nat /\ d >= 1
      /\ t = d + 1
  BY <1>1 DEF Spliced, FramesOK
<1>3. lv[1] = d /\ todo[1].clause = HeadClause
  <2>1. todo[1] = Head(todo)
    BY <1>1, <1>2
  <2> QED
    BY <1>1, <2>1 DEF Laid, HeadClause
<1>4. ASSUME NEW i \in 1 .. Len(todo')
      PROVE  \/ i \in 1 .. k /\ todo'[i] = sub[i] /\ new[i] = t
             \/ \E j \in 2 .. n : i = j + k - 1 /\ todo'[i] = todo[j] /\ new[i] = lv[j]
  <2>1. Places(sub, t, lv, new)
    BY <1>1, SplicedEntries
  <2> QED
    BY <1>1, <2>1 DEF Places
<1>5. \A j \in 2 .. n : j \in 1 .. n /\ 1 < j /\ lv[j] \in 1 .. d /\ lv[j] # t
  <2>1. \A j \in 2 .. n : j \in 1 .. n /\ 1 < j
    BY <1>2
  <2>2. t \notin 1 .. d
    BY <1>2
  <2> QED
    BY <1>1, <2>1, <2>2 DEF Laid
<1>6. \A e \in 1 .. d : frames'[e] = frames[e] /\ owed2[e] = owed[e] /\ owed2[e - 1] = owed[e - 1]
  BY <1>1, <1>2
<1>7. \A e \in 1 .. t : e = t \/ e \in 1 .. d
  BY <1>2
<1>8. ASSUME NEW e \in 1 .. t PROVE GoodFrame(frames'[e], owed2[e])
  <2>1. e \in 1 .. d => GoodFrame(frames[e], owed[e])
    BY <1>1 DEF Columns
  <2> QED
    BY <1>1, <1>6, <1>7, <2>1
<1>9. ASSUME NEW i \in 1 .. Len(todo') PROVE Fits(todo'[i], new[i], owed2, frames')
  <2>1. CASE i \in 1 .. k /\ todo'[i] = sub[i] /\ new[i] = t
    BY <1>0, <2>1
  <2>2. CASE \E j \in 2 .. n : i = j + k - 1 /\ todo'[i] = todo[j] /\ new[i] = lv[j]
    <3>1. PICK j \in 2 .. n : todo'[i] = todo[j] /\ new[i] = lv[j]
      BY <2>2
    <3>2. lv[j] \in 1 .. d /\ Fits(todo[j], lv[j], owed, frames)
      BY <1>1, <1>5 DEF Columns
    <3>3. PICK e, x : e = todo[j] /\ x = lv[j]
      OBVIOUS
    <3>4. Fits(e, x, owed2, frames')
      BY <1>6, <3>2, <3>3, FitsStill
    <3> QED
      BY <3>1, <3>3, <3>4
  <2> QED
    BY <1>4, <2>1, <2>2
<1>10. ASSUME NEW i \in 1 .. Len(todo'), NEW j \in 1 .. Len(todo'), i < j
       PROVE  /\ new[i] = new[j] /\ todo'[i].clause = "Return" /\ todo'[j].clause = "BodyPartEnd" =>
                   owed2[new[i]].mustReturn
              /\ new[i] = new[j] + 1 /\ todo'[i].clause = "BodyPartEnd" =>
                   todo'[j].clause \notin Uniting
  <2>1. CASE i \in 1 .. k /\ j \in 1 .. k
    <3>1. todo'[i] = sub[i] /\ todo'[j] = sub[j] /\ new[i] = t /\ new[j] = t
      BY <1>1, <2>1 DEF Spliced
    <3>2. t # t + 1
      BY <1>2
    <3> QED
      BY <1>0, <2>1, <3>1, <3>2
  <2>2. CASE i \in 1 .. k /\ \E q \in 2 .. n : j = q + k - 1
    <3>1. PICK q \in 2 .. n : j = q + k - 1
      BY <2>2
    <3>2. todo'[i] = sub[i] /\ new[i] = t /\ todo'[j] = todo[q] /\ new[j] = lv[q]
      BY <1>1, <2>2, <3>1 DEF Spliced
    <3>3. new[i] # new[j]
      BY <1>5, <3>2
    <3>4. ASSUME new[i] = new[j] + 1, todo'[i].clause = "BodyPartEnd"
          PROVE  todo'[j].clause \notin Uniting
      <4>1. lv[q] = d
        BY <1>2, <1>5, <3>2, <3>4
      <4>2. HeadClause = "SubqueryExpressionBodyPart"
        BY <1>0, <2>2, <3>2, <3>4
      <4>3. Pair(todo[1].clause, todo[q].clause)
        <5>1. 1 \in 1 .. n /\ q \in 1 .. n /\ 1 < q
          BY <1>2, <1>5
        <5> QED
          BY <1>1, <1>3, <4>1, <5>1 DEF Laid
      <4> QED
        BY <1>3, <3>2, <4>2, <4>3 DEF Pair
    <3> QED
      BY <3>3, <3>4
  <2>3. CASE \E p, q \in 2 .. n : p < q /\ i = p + k - 1 /\ j = q + k - 1
    <3>1. PICK p \in 2 .. n, q \in 2 .. n : p < q /\ i = p + k - 1 /\ j = q + k - 1
      BY <2>3
    <3>2. todo'[i] = todo[p] /\ new[i] = lv[p] /\ todo'[j] = todo[q] /\ new[j] = lv[q]
      BY <1>1, <3>1 DEF Spliced
    <3>3. p \in 1 .. n /\ q \in 1 .. n
      BY <1>5
    <3>4. /\ lv[p] = lv[q] /\ todo[p].clause = "Return" /\ todo[q].clause = "BodyPartEnd" =>
               owed[lv[p]].mustReturn
          /\ lv[p] = lv[q] + 1 /\ todo[p].clause = "BodyPartEnd" => todo[q].clause \notin Uniting
      BY <1>1, <3>1, <3>3 DEF Columns
    <3>5. owed2[lv[p]] = owed[lv[p]]
      BY <1>5, <1>6
    <3> QED
      BY <3>2, <3>4, <3>5
  <2>4. \/ i \in 1 .. k /\ j \in 1 .. k
        \/ i \in 1 .. k /\ \E q \in 2 .. n : j = q + k - 1
        \/ \E p, q \in 2 .. n : p < q /\ i = p + k - 1 /\ j = q + k - 1
    BY <1>1, <1>10, SplicedPairs
  <2> QED
    BY <2>1, <2>2, <2>3, <2>4
<1>11. ASSUME NEW i \in 1 .. Len(todo'), todo'[i].clause \in PartEnds
       PROVE  Settled(todo'[i].clause, frames'[new[i]], owed2[new[i]]) \/ Awaits(todo', new, i)
  <2>1. CASE i \in 1 .. k /\ todo'[i] = sub[i] /\ new[i] = t
    <3>1. CASE Settled(sub[i].clause, frames'[t], owed2[t])
      BY <2>1, <3>1
    <3>2. CASE \E r \in 1 .. i - 1 : sub[r].clause \in Returning
      <4>1. PICK r \in 1 .. i - 1 : sub[r].clause \in Returning
        BY <3>2
      <4>2. r \in 1 .. k
        BY <1>2, <2>1
      <4>3. todo'[r] = sub[r] /\ new[r] = t
        BY <1>1, <4>2 DEF Spliced
      <4> QED
        BY <2>1, <4>1, <4>3 DEF Awaits
    <3> QED
      BY <1>0, <1>11, <2>1, <3>1, <3>2
  <2>2. CASE \E j \in 2 .. n : i = j + k - 1 /\ todo'[i] = todo[j] /\ new[i] = lv[j]
    <3>1. PICK j \in 2 .. n : i = j + k - 1 /\ todo'[i] = todo[j] /\ new[i] = lv[j]
      BY <2>2
    <3>2. Settled(todo[j].clause, frames[lv[j]], owed[lv[j]]) \/ Awaits(todo, lv, j)
      BY <1>1, <1>5, <1>11, <3>1 DEF Columns
    <3>3. CASE Settled(todo[j].clause, frames[lv[j]], owed[lv[j]])
      BY <1>5, <1>6, <3>1, <3>3
    <3>4. CASE Awaits(todo, lv, j)
      <4>1. Awaits(todo', new, j + Len(sub) - 1)
        BY <1>1, <1>3, <3>4, AwaitsStill
      <4> QED
        BY <1>1, <3>1, <4>1
    <3> QED
      BY <3>2, <3>3, <3>4
  <2> QED
    BY <1>4, <2>1, <2>2
<1>12. /\ owed2 \in [Nat -> Obligations]
       /\ OwedBy(schema)' = owed2[Depth']
       /\ \A e \in 1 .. Depth' : GoodFrame(frames'[e], owed2[e])
  BY <1>1, <1>8 DEF OwedBy
<1> QED
  BY <1>9, <1>10, <1>11, <1>12 DEF Columns

(* The end of a scope; what is owed to the next is known.                  *)
LEMMA ColumnsClosed ==
  ASSUME FramesOK, todo # << >>, NEW lv, Laid(lv), NEW owed, Columns(lv, owed),
         NEW new, Spliced(<< >>, Depth, lv, new),
         HeadClause \in Popping, Depth' = Depth - 1, Depth >= 2,
         \A d \in 1 .. Depth - 2 : frames'[d] = frames[d],
         OwedBy(schema') = owed[Depth - 1],
         frames'[Depth - 1].unions = Below.unions, frames'[Depth - 1].returned = Below.returned,
         \/ frames'[Depth - 1].parts = Below.parts
         \/ /\ HeadClause = "BodyPartEnd"
            /\ frames'[Depth - 1].parts = Below.parts \cup {Inner.returned}
  PROVE  Columns(new, owed)'
<1>1. PICK n, d, b : n = Len(todo) /\ d = Depth /\ b = Depth - 1
  OBVIOUS
<1>2. /\ n \in Nat /\ n >= 1 /\ d \in Nat /\ d >= 2 /\ b = d - 1 /\ Len(<< >>) = 0 /\ 1 \in 1 .. n
      /\ b \in Nat /\ b >= 1 /\ b \in 1 .. d /\ d \in 1 .. d
  BY <1>1, EmptySeq DEF Spliced, FramesOK
<1>3. lv[1] = d /\ todo[1].clause = HeadClause
  <2>1. todo[1] = Head(todo)
    BY <1>1, <1>2
  <2> QED
    BY <1>1, <2>1 DEF Laid, HeadClause
<1>4. ASSUME NEW i \in 1 .. Len(todo')
      PROVE  \E j \in 2 .. n : i = j + 0 - 1 /\ todo'[i] = todo[j] /\ new[i] = lv[j]
  <2>1. PICK k, m : k = Len(<< >>) /\ m = Depth /\ k = 0
    BY <1>2
  <2>2. Places(<< >>, m, lv, new)
    BY <2>1, SplicedEntries
  <2>3. \/ i \in 1 .. k
        \/ \E j \in 2 .. n : i = j + k - 1 /\ todo'[i] = todo[j] /\ new[i] = lv[j]
    BY <1>1, <2>1, <2>2 DEF Places
  <2>4. i \notin 1 .. k
    BY <2>1
  <2> QED
    BY <2>1, <2>3, <2>4
<1>5. ASSUME NEW j \in 2 .. n
      PROVE  j \in 1 .. n /\ lv[j] \in 1 .. b /\ lv[j] \in 1 .. d /\ lv[j] # d
             /\ (todo[j].clause \in Popping => lv[j] >= 2)
  <2>1. j \in 1 .. n /\ 1 < j
    BY <1>2
  <2>2. lv[j] < lv[1] /\ lv[j] \in 1 .. d /\ (todo[j].clause \in Popping => lv[j] >= 2)
    BY <1>1, <1>2, <1>3, <2>1 DEF Laid
  <2> QED
    BY <1>2, <1>3, <2>1, <2>2
<1>6. \A e \in 1 .. b : e # b => e \in 1 .. d - 2 /\ frames'[e] = frames[e]
  <2>1. \A e \in 1 .. b : e # b => e \in 1 .. d - 2
    BY <1>2
  <2> QED
    BY <1>1, <2>1
<1>7. \A e \in 1 .. b : frames'[e].unions = frames[e].unions /\ frames'[e].returned = frames[e].returned
  BY <1>1, <1>6 DEF Below
<1>8. HeadClause = "BodyPartEnd" =>
        Inner.returned = owed[b].columns /\ owed[b].mustReturn = owed[d].mustReturn
  <2> SUFFICES ASSUME HeadClause = "BodyPartEnd"
               PROVE  Inner.returned = owed[b].columns /\ owed[b].mustReturn = owed[d].mustReturn
    OBVIOUS
  <2>1. ~Awaits(todo, lv, 1)
    BY DEF Awaits
  <2>2. Settled("BodyPartEnd", frames[d], owed[d])
    BY <1>1, <1>2, <1>3, <2>1 DEF Columns, PartEnds
  <2>3. Fits(todo[1], d, owed, frames)
    BY <1>1, <1>2, <1>3 DEF Columns
  <2> QED
    BY <1>1, <1>3, <2>2, <2>3 DEF Settled, Fits, Inner
<1>9. ASSUME NEW e \in 1 .. b PROVE GoodFrame(frames'[e], owed[e])
  <2>1. GoodFrame(frames[e], owed[e])
    BY <1>1, <1>2 DEF Columns
  <2>2. CASE e = b
    BY <1>1, <1>7, <1>8, <2>1, <2>2 DEF GoodFrame, Below
  <2>3. CASE e # b
    BY <1>6, <2>1, <2>3
  <2> QED
    BY <2>2, <2>3
<1>10. ASSUME NEW i \in 1 .. Len(todo') PROVE Fits(todo'[i], new[i], owed, frames')
  <2>1. PICK j \in 2 .. n : todo'[i] = todo[j] /\ new[i] = lv[j]
    BY <1>4
  <2>2. Fits(todo[j], lv[j], owed, frames)
    BY <1>1, <1>5 DEF Columns
  <2>3. CASE frames'[lv[j]].parts = frames[lv[j]].parts
    <3>1. PICK e, x : e = todo[j] /\ x = lv[j]
      OBVIOUS
    <3>2. Fits(e, x, owed, frames')
      BY <1>5, <1>7, <2>2, <2>3, <3>1, FitsStill
    <3> QED
      BY <2>1, <3>1, <3>2
  <2>4. CASE frames'[lv[j]].parts # frames[lv[j]].parts
    <3>1. lv[j] = b /\ HeadClause = "BodyPartEnd"
      BY <1>1, <1>5, <1>6, <2>4 DEF Below
    <3>2. todo[j].clause \notin Uniting
      <4>1. 1 < j /\ lv[1] = lv[j] + 1 /\ j \in 1 .. n
        BY <1>2, <1>3, <1>5, <3>1
      <4> QED
        BY <1>1, <1>2, <1>3, <3>1, <4>1 DEF Columns
    <3>3. PICK e, x : e = todo[j] /\ x = lv[j]
      OBVIOUS
    <3>4. frames'[x].unions = frames[x].unions
      BY <1>5, <1>7, <3>3
    <3>5. Fits(e, x, owed, frames')
      BY <2>2, <3>2, <3>3, <3>4 DEF Fits
    <3> QED
      BY <2>1, <3>3, <3>5
  <2> QED
    BY <2>3, <2>4
<1>11. ASSUME NEW i \in 1 .. Len(todo'), NEW j \in 1 .. Len(todo'), i < j
       PROVE  /\ new[i] = new[j] /\ todo'[i].clause = "Return" /\ todo'[j].clause = "BodyPartEnd" =>
                   owed[new[i]].mustReturn
              /\ new[i] = new[j] + 1 /\ todo'[i].clause = "BodyPartEnd" =>
                   todo'[j].clause \notin Uniting
  <2>1. PICK p \in 2 .. n : i = p + 0 - 1 /\ todo'[i] = todo[p] /\ new[i] = lv[p]
    BY <1>4
  <2>2. PICK q \in 2 .. n : j = q + 0 - 1 /\ todo'[j] = todo[q] /\ new[j] = lv[q]
    BY <1>4
  <2>3. p \in 1 .. n /\ q \in 1 .. n /\ p < q
    BY <1>2, <1>5, <1>11, <2>1, <2>2
  <2>4. /\ lv[p] = lv[q] /\ todo[p].clause = "Return" /\ todo[q].clause = "BodyPartEnd" =>
             owed[lv[p]].mustReturn
        /\ lv[p] = lv[q] + 1 /\ todo[p].clause = "BodyPartEnd" => todo[q].clause \notin Uniting
    BY <1>1, <2>3 DEF Columns
  <2> QED
    BY <2>1, <2>2, <2>4
<1>12. ASSUME NEW i \in 1 .. Len(todo'), todo'[i].clause \in PartEnds
       PROVE  Settled(todo'[i].clause, frames'[new[i]], owed[new[i]]) \/ Awaits(todo', new, i)
  <2>1. PICK j \in 2 .. n : i = j + 0 - 1 /\ todo'[i] = todo[j] /\ new[i] = lv[j]
    BY <1>4
  <2>2. Settled(todo[j].clause, frames[lv[j]], owed[lv[j]]) \/ Awaits(todo, lv, j)
    BY <1>1, <1>5, <1>12, <2>1 DEF Columns
  <2>3. CASE Settled(todo[j].clause, frames[lv[j]], owed[lv[j]])
    BY <1>5, <1>7, <2>1, <2>3 DEF Settled
  <2>4. CASE Awaits(todo, lv, j)
    <3>1. Awaits(todo', new, j + Len(<< >>) - 1)
      BY <1>1, <1>3, <1>5, <2>4, AwaitsStill
    <3> QED
      BY <1>2, <2>1, <3>1
  <2> QED
    BY <2>2, <2>3, <2>4
<1>13. /\ owed \in [Nat -> Obligations]
       /\ OwedBy(schema)' = owed[Depth']
       /\ \A e \in 1 .. Depth' : GoodFrame(frames'[e], owed[e])
  <2>1. owed \in [Nat -> Obligations]
    BY DEF Columns
  <2> QED
    BY <1>1, <1>9, <2>1 DEF OwedBy
<1> QED
  BY <1>10, <1>11, <1>12, <1>13 DEF Columns

-----------------------------------------------------------------------------
(* The names that are in scope. *)

Restoring == Popping \cup {"UnionEnd"}

InScope ==
  /\ maps[schema.vars] \subseteq Inner.scope
  /\ schema.justCreated \subseteq Inner.scope \cup Inner.pattern

(* What the entry e of scope l puts back is in the scope it leads to.  The *)
(* map of its variables is not the one in use, and a list of WITH, which   *)
(* takes a new map, does not come within a pattern.                        *)
Keeps(e, l, m, fs, s) ==
  /\ e.clause \in Popping =>
       /\ m[e.old.vars] \subseteq fs[l - 1].scope
       /\ e.old.justCreated \subseteq fs[l - 1].scope \cup fs[l - 1].pattern
  /\ e.clause \in Restoring => e.old.vars # s.vars
  /\ e.clause \in Withs /\ l = Len(fs) => s.justCreated = {}

(* Entries of the scopes x and y, one after the other. *)
Apart(e, x, f, y) ==
  /\ e.clause \in Restoring /\ f.clause \in Restoring => e.old.vars # f.old.vars
  /\ e.clause \in Popping /\ f.clause \in Withs /\ x = y + 1 => e.old.justCreated = {}

InNames(lv) ==
  /\ todo # << >> /\ HeadClause \notin Ends => InScope
  /\ \A i \in 1 .. Len(todo) : Keeps(todo[i], lv[i], maps, frames, schema)
  /\ \A i, j \in 1 .. Len(todo) : i < j => Apart(todo[i], lv[i], todo[j], lv[j])

LEMMA EntryVars ==
  ASSUME IInv
  PROVE  /\ Len(maps) \in Nat /\ Len(maps) + 1 \notin 2 .. Len(maps)
         /\ schema.vars \in 2 .. Len(maps)
         /\ \A i \in 1 .. Len(todo) : todo[i].old.vars \in 2 .. Len(maps)
<1>1. Len(maps) \in Nat /\ schema \in Shared(Len(maps)) /\ todo \in Seq(Entries(Len(maps)))
  BY LenProperties DEF IInv, MapLists
<1>2. \A i \in 1 .. Len(todo) : todo[i] \in Entries(Len(maps))
  BY <1>1, ElementOfSeq
<1>3. PICK n : n = Len(maps)
  OBVIOUS
<1>4. n + 1 \notin 2 .. n
  BY <1>1, <1>3
<1> QED
  BY <1>1, <1>2, <1>3, <1>4 DEF Shared, Entries

(* A step within the innermost scope. *)
LEMMA NamesInside ==
  ASSUME IInv, FramesOK, todo # << >>, NEW lv, Laid(lv), InNames(lv),
         NEW sub, NEW new, Spliced(sub, Depth, lv, new),
         Depth' = Depth, \A d \in 1 .. Depth - 1 : frames'[d] = frames[d],
         HeadClause \notin Popping,
         \A i \in 2 .. Len(maps) : i # schema.vars => maps'[i] = maps[i],
         \/ schema'.vars \in {schema.vars, Len(maps) + 1}
         \/ HeadClause \in Restoring /\ schema'.vars = Old.vars,
         \/ schema'.justCreated \subseteq schema.justCreated
         \/ HeadClause \in Writing \cup Tails,
         \A i \in 1 .. Len(sub) :
            /\ sub[i].clause \notin Popping
            /\ sub[i].clause \in Restoring =>
                 i = Len(sub) /\ sub[i].old.vars = schema.vars /\ schema'.vars # schema.vars
            /\ sub[i].clause \in Withs => schema'.justCreated = {},
         todo' # << >> /\ HeadClause' \notin Ends => InScope'
  PROVE  InNames(new)'
<1>1. PICK k, n, d : k = Len(sub) /\ n = Len(todo) /\ d = Depth
  OBVIOUS
<1>0. Len(frames) = d /\ Len(frames') = d
  BY <1>1 DEF Depth
<1>2. k \in Nat /\ n \in Nat /\ n >= 1 /\ Len(todo') = n + k - 1 /\ d \in Nat /\ d >= 1
  BY <1>1 DEF Spliced, FramesOK
<1>3. todo[1] = Head(todo) /\ todo[1].clause = HeadClause /\ lv[1] = d /\ 1 \in 1 .. n
  BY <1>1, <1>2, HeadIsFirst DEF HeadClause, Laid
<1>4. ASSUME NEW i \in 1 .. Len(todo')
      PROVE  \/ i \in 1 .. k /\ todo'[i] = sub[i] /\ new[i] = d
             \/ \E j \in 2 .. n : i = j + k - 1 /\ todo'[i] = todo[j] /\ new[i] = lv[j]
  <2>1. Places(sub, d, lv, new)
    BY <1>1, SplicedEntries
  <2> QED
    BY <1>1, <2>1 DEF Places
<1>5. ASSUME NEW j \in 2 .. n
      PROVE  j \in 1 .. n /\ 1 < j /\ lv[j] \in 1 .. d
  <2>1. j \in 1 .. n /\ 1 < j
    BY <1>2
  <2> QED
    BY <1>1, <2>1 DEF Laid
<1>6. ASSUME NEW j \in 2 .. n, todo[j].clause \in Restoring
      PROVE  /\ todo[j].old.vars # schema.vars /\ todo[j].old.vars # schema'.vars
             /\ maps'[todo[j].old.vars] = maps[todo[j].old.vars]
  <2>1. Keeps(todo[j], lv[j], maps, frames, schema) /\ Apart(todo[1], lv[1], todo[j], lv[j])
    BY <1>1, <1>3, <1>5 DEF InNames
  <2>2. todo[j].old.vars \in 2 .. Len(maps) /\ todo[j].old.vars # schema.vars
    BY <1>1, <1>5, <1>6, <2>1, EntryVars DEF Keeps
  <2>3. todo[j].old.vars # Len(maps) + 1
    BY <2>2, EntryVars
  <2>4. HeadClause \in Restoring => todo[j].old.vars # Old.vars
    BY <1>3, <1>6, <2>1 DEF Apart, Old
  <2> QED
    BY <2>2, <2>3, <2>4
<1>7. ASSUME NEW i \in 1 .. Len(todo') PROVE Keeps(todo'[i], new[i], maps', frames', schema')
  <2>1. CASE i \in 1 .. k /\ todo'[i] = sub[i] /\ new[i] = d
    BY <1>1, <2>1 DEF Keeps
  <2>2. CASE \E j \in 2 .. n : i = j + k - 1 /\ todo'[i] = todo[j] /\ new[i] = lv[j]
    <3>1. PICK j \in 2 .. n : todo'[i] = todo[j] /\ new[i] = lv[j]
      BY <2>2
    <3>2. PICK e, x : e = todo[j] /\ x = lv[j]
      OBVIOUS
    <3>3. Keeps(e, x, maps, frames, schema) /\ x \in 1 .. d
      BY <1>1, <1>5, <3>2 DEF InNames
    <3>4. e.clause \in Popping => e.clause \in Restoring /\ x >= 2
      BY <1>1, <1>5, <3>2 DEF Laid, Restoring
    <3>5. x >= 2 => frames'[x - 1] = frames[x - 1]
      <4>1. x >= 2 => x - 1 \in 1 .. d - 1
        BY <1>2, <3>3
      <4> QED
        BY <1>1, <4>1
    <3>6. e.clause \in Restoring => e.old.vars # schema'.vars /\ maps'[e.old.vars] = maps[e.old.vars]
      BY <1>6, <3>2
    <3>7. e.clause \in Withs /\ x = d => schema'.justCreated = {}
      <4>1. e.clause \in Withs /\ x = d => schema.justCreated = {}
        BY <1>0, <3>3 DEF Keeps
      <4>2. x = d => Pair(HeadClause, e.clause)
        BY <1>1, <1>3, <1>5, <3>2 DEF Laid
      <4>3. e.clause \in Withs /\ x = d => HeadClause \notin Writing \cup Tails
        BY <4>2 DEF Pair, Withs, Ends
      <4> QED
        BY <4>1, <4>3
    <3> QED
      BY <1>0, <3>1, <3>2, <3>3, <3>4, <3>5, <3>6, <3>7 DEF Keeps
  <2> QED
    BY <1>4, <2>1, <2>2
<1>8. ASSUME NEW i \in 1 .. Len(todo'), NEW j \in 1 .. Len(todo'), i < j
      PROVE  Apart(todo'[i], new[i], todo'[j], new[j])
  <2>0. Popping \subseteq Restoring
    BY DEF Restoring
  <2>1. CASE i \in 1 .. k /\ j \in 1 .. k
    <3>1. todo'[i] = sub[i] /\ todo'[j] = sub[j] /\ i # k
      BY <1>1, <1>2, <1>8, <2>1 DEF Spliced
    <3> QED
      BY <1>1, <2>1, <3>1 DEF Apart
  <2>2. CASE i \in 1 .. k /\ \E q \in 2 .. n : j = q + k - 1
    <3>1. PICK q \in 2 .. n : j = q + k - 1
      BY <2>2
    <3>2. todo'[i] = sub[i] /\ todo'[j] = todo[q]
      BY <1>1, <2>2, <3>1 DEF Spliced
    <3> QED
      BY <1>1, <1>6, <2>2, <3>2 DEF Apart
  <2>3. CASE \E p, q \in 2 .. n : p < q /\ i = p + k - 1 /\ j = q + k - 1
    <3>1. PICK p \in 2 .. n, q \in 2 .. n : p < q /\ i = p + k - 1 /\ j = q + k - 1
      BY <2>3
    <3>2. todo'[i] = todo[p] /\ new[i] = lv[p] /\ todo'[j] = todo[q] /\ new[j] = lv[q]
      BY <1>1, <3>1 DEF Spliced
    <3>3. Apart(todo[p], lv[p], todo[q], lv[q])
      BY <1>1, <1>5, <3>1 DEF InNames
    <3> QED
      BY <3>2, <3>3
  <2>4. \/ i \in 1 .. k /\ j \in 1 .. k
        \/ i \in 1 .. k /\ \E q \in 2 .. n : j = q + k - 1
        \/ \E p, q \in 2 .. n : p < q /\ i = p + k - 1 /\ j = q + k - 1
    <3>1. \/ i \in 1 .. Len(sub) /\ j \in 1 .. Len(sub)
          \/ i \in 1 .. Len(sub) /\ \E q \in 2 .. Len(todo) : j = q + Len(sub) - 1
          \/ \E p, q \in 2 .. Len(todo) :
               p < q /\ i = p + Len(sub) - 1 /\ j = q + Len(sub) - 1
      BY <1>8, SplicedPairs
    <3> QED
      BY <1>1, <3>1
  <2> QED
    BY <2>1, <2>2, <2>3, <2>4
<1> QED
  BY <1>7, <1>8 DEF InNames

(* A step into a scope of its own. *)
LEMMA NamesOpened ==
  ASSUME IInv, FramesOK, todo # << >>, NEW lv, Laid(lv), InNames(lv),
         NEW sub, NEW new, Spliced(sub, Depth + 1, lv, new), Encloses(sub),
         Depth' = Depth + 1, \A d \in 1 .. Depth : frames'[d] = frames[d],
         HeadClause \notin Ends,
         \A i \in 2 .. Len(maps) : maps'[i] = maps[i],
         NEW old, sub[Len(sub)].old = old, old.justCreated = schema.justCreated,
         maps'[old.vars] = maps[schema.vars],
         old.vars \in {schema.vars, Len(maps) + 1}, schema'.vars \in {schema.vars, Len(maps) + 1},
         old.vars # schema'.vars,
         \A i \in 1 .. Len(sub) :
            /\ sub[i].clause \in Restoring => i = Len(sub)
            /\ sub[i].clause \in Withs => schema'.justCreated = {},
         InScope'
  PROVE  InNames(new)'
<1>1. PICK k, n, d, t : k = Len(sub) /\ n = Len(todo) /\ d = Depth /\ t = Depth + 1
  OBVIOUS
<1>0. Len(frames) = d /\ Len(frames') = t
  BY <1>1 DEF Depth
<1>2. /\ k \in Nat /\ n \in Nat /\ n >= 1 /\ Len(todo') = n + k - 1 /\ d \in Nat /\ d >= 1
      /\ t = d + 1 /\ t - 1 = d /\ d \in 1 .. d
  BY <1>1 DEF Spliced, FramesOK
<1>3. todo[1] = Head(todo) /\ todo[1].clause = HeadClause /\ lv[1] = d /\ 1 \in 1 .. n
  BY <1>1, <1>2, HeadIsFirst DEF HeadClause, Laid
<1>4. ASSUME NEW i \in 1 .. Len(todo')
      PROVE  \/ i \in 1 .. k /\ todo'[i] = sub[i] /\ new[i] = t
             \/ \E j \in 2 .. n : i = j + k - 1 /\ todo'[i] = todo[j] /\ new[i] = lv[j]
  <2>1. Places(sub, t, lv, new)
    BY <1>1, SplicedEntries
  <2> QED
    BY <1>1, <2>1 DEF Places
<1>5. ASSUME NEW j \in 2 .. n
      PROVE  j \in 1 .. n /\ 1 < j /\ lv[j] \in 1 .. d /\ lv[j] # t
  <2>1. j \in 1 .. n /\ 1 < j
    BY <1>2
  <2>2. t \notin 1 .. d
    BY <1>2
  <2> QED
    BY <1>1, <2>1, <2>2 DEF Laid
<1>6. ASSUME NEW j \in 2 .. n, todo[j].clause \in Restoring
      PROVE  /\ todo[j].old.vars # schema.vars /\ todo[j].old.vars # schema'.vars
             /\ todo[j].old.vars # old.vars
             /\ maps'[todo[j].old.vars] = maps[todo[j].old.vars]
  <2>1. Keeps(todo[j], lv[j], maps, frames, schema)
    BY <1>1, <1>5 DEF InNames
  <2>2. todo[j].old.vars \in 2 .. Len(maps) /\ todo[j].old.vars # schema.vars
    BY <1>1, <1>5, <1>6, <2>1, EntryVars DEF Keeps
  <2>3. todo[j].old.vars # Len(maps) + 1
    BY <2>2, EntryVars
  <2> QED
    BY <2>2, <2>3
<1>7. InScope
  BY DEF InNames
<1>8. ASSUME NEW i \in 1 .. Len(todo') PROVE Keeps(todo'[i], new[i], maps', frames', schema')
  <2>1. CASE i \in 1 .. k /\ todo'[i] = sub[i] /\ new[i] = t
    <3>1. frames'[t - 1] = Inner
      BY <1>1, <1>2 DEF Inner
    <3>2. sub[i].clause \in Popping => sub[i].old = old
      BY <1>1, <2>1 DEF Encloses
    <3>3. sub[i].clause \in Restoring => sub[i].old = old
      BY <1>1, <2>1
    <3>4. sub[i].clause \in Withs => schema'.justCreated = {}
      BY <1>1, <2>1
    <3> QED
      BY <1>7, <2>1, <3>1, <3>2, <3>3, <3>4 DEF Keeps, InScope
  <2>2. CASE \E j \in 2 .. n : i = j + k - 1 /\ todo'[i] = todo[j] /\ new[i] = lv[j]
    <3>1. PICK j \in 2 .. n : todo'[i] = todo[j] /\ new[i] = lv[j]
      BY <2>2
    <3>2. PICK e, x : e = todo[j] /\ x = lv[j]
      OBVIOUS
    <3>3. Keeps(e, x, maps, frames, schema) /\ x \in 1 .. d /\ x # t
      BY <1>1, <1>5, <3>2 DEF InNames
    <3>4. e.clause \in Popping => e.clause \in Restoring /\ x >= 2
      BY <1>1, <1>5, <3>2 DEF Laid, Restoring
    <3>5. x >= 2 => frames'[x - 1] = frames[x - 1]
      <4>1. x >= 2 => x - 1 \in 1 .. d
        BY <1>2, <3>3
      <4> QED
        BY <1>1, <4>1
    <3>6. e.clause \in Restoring => e.old.vars # schema'.vars /\ maps'[e.old.vars] = maps[e.old.vars]
      BY <1>6, <3>2
    <3> QED
      BY <1>0, <3>1, <3>2, <3>3, <3>4, <3>5, <3>6 DEF Keeps
  <2> QED
    BY <1>4, <2>1, <2>2
<1>9. ASSUME NEW i \in 1 .. Len(todo'), NEW j \in 1 .. Len(todo'), i < j
      PROVE  Apart(todo'[i], new[i], todo'[j], new[j])
  <2>1. CASE i \in 1 .. k /\ j \in 1 .. k
    <3>1. todo'[i] = sub[i] /\ todo'[j] = sub[j] /\ i # k
      BY <1>1, <1>2, <1>9, <2>1 DEF Spliced
    <3> QED
      BY <1>1, <2>1, <3>1 DEF Apart, Restoring
  <2>2. CASE i \in 1 .. k /\ \E q \in 2 .. n : j = q + k - 1
    <3>1. PICK q \in 2 .. n : j = q + k - 1
      BY <2>2
    <3>2. todo'[i] = sub[i] /\ todo'[j] = todo[q] /\ new[i] = t /\ new[j] = lv[q]
      BY <1>1, <2>2, <3>1 DEF Spliced
    <3>3. sub[i].clause \in Restoring => sub[i].old = old
      BY <1>1, <2>2
    <3>4. ASSUME sub[i].clause \in Popping, todo[q].clause \in Withs, t = lv[q] + 1
          PROVE  sub[i].old.justCreated = {}
      <4>1. lv[q] = d
        BY <1>2, <1>5, <3>4
      <4>2. schema.justCreated = {}
        <5>1. Keeps(todo[q], d, maps, frames, schema)
          BY <1>1, <1>5, <4>1 DEF InNames
        <5> QED
          BY <1>0, <3>4, <5>1 DEF Keeps
      <4> QED
        BY <3>3, <3>4, <4>2 DEF Restoring
    <3> QED
      BY <1>6, <3>2, <3>3, <3>4 DEF Apart
  <2>3. CASE \E p, q \in 2 .. n : p < q /\ i = p + k - 1 /\ j = q + k - 1
    <3>1. PICK p \in 2 .. n, q \in 2 .. n : p < q /\ i = p + k - 1 /\ j = q + k - 1
      BY <2>3
    <3>2. todo'[i] = todo[p] /\ new[i] = lv[p] /\ todo'[j] = todo[q] /\ new[j] = lv[q]
      BY <1>1, <3>1 DEF Spliced
    <3>3. Apart(todo[p], lv[p], todo[q], lv[q])
      BY <1>1, <1>5, <3>1 DEF InNames
    <3> QED
      BY <3>2, <3>3
  <2>4. \/ i \in 1 .. k /\ j \in 1 .. k
        \/ i \in 1 .. k /\ \E q \in 2 .. n : j = q + k - 1
        \/ \E p, q \in 2 .. n : p < q /\ i = p + k - 1 /\ j = q + k - 1
    <3>1. \/ i \in 1 .. Len(sub) /\ j \in 1 .. Len(sub)
          \/ i \in 1 .. Len(sub) /\ \E q \in 2 .. Len(todo) : j = q + Len(sub) - 1
          \/ \E p, q \in 2 .. Len(todo) :
               p < q /\ i = p + Len(sub) - 1 /\ j = q + Len(sub) - 1
      BY <1>9, SplicedPairs
    <3> QED
      BY <1>1, <3>1
  <2> QED
    BY <2>1, <2>2, <2>3, <2>4
<1> QED
  BY <1>8, <1>9 DEF InNames

(* The end of a scope. *)
LEMMA NamesClosed ==
  ASSUME IInv, FramesOK, todo # << >>, NEW lv, Laid(lv), InNames(lv),
         NEW new, Spliced(<< >>, Depth, lv, new), HeadClause \in Popping,
         Depth' = Depth - 1, Depth >= 2,
         \A d \in 1 .. Depth - 2 : frames'[d] = frames[d],
         frames'[Depth - 1].pattern = Below.pattern,
         Below.scope \subseteq frames'[Depth - 1].scope,
         schema'.vars = Old.vars, schema'.justCreated = Old.justCreated,
         \A i \in 2 .. Len(maps) : i # Old.vars => maps'[i] = maps[i],
         maps'[Old.vars] \subseteq frames'[Depth - 1].scope
  PROVE  InNames(new)'
<1>1. PICK n, d : n = Len(todo) /\ d = Depth
  OBVIOUS
<1>0. Len(frames) = d /\ Len(frames') = d - 1
  BY <1>1 DEF Depth
<1>2. n \in Nat /\ n >= 1 /\ d \in Nat /\ d >= 2 /\ Len(<< >>) = 0 /\ 1 \in 1 .. n
  BY <1>1, EmptySeq DEF Spliced, FramesOK
<1>3. todo[1] = Head(todo) /\ todo[1].clause = HeadClause /\ lv[1] = d /\ todo[1].old = Old
  BY <1>1, <1>2, HeadIsFirst DEF HeadClause, Laid, Old
<1>4. ASSUME NEW i \in 1 .. Len(todo')
      PROVE  \E j \in 2 .. n : i = j + 0 - 1 /\ todo'[i] = todo[j] /\ new[i] = lv[j]
  <2>1. PICK k, m : k = Len(<< >>) /\ m = Depth /\ k = 0
    BY <1>2
  <2>2. Places(<< >>, m, lv, new)
    BY <2>1, SplicedEntries
  <2>3. \/ i \in 1 .. k
        \/ \E j \in 2 .. n : i = j + k - 1 /\ todo'[i] = todo[j] /\ new[i] = lv[j]
    BY <1>1, <2>1, <2>2 DEF Places
  <2>4. i \notin 1 .. k
    BY <2>1
  <2> QED
    BY <2>1, <2>3, <2>4
<1>5. ASSUME NEW j \in 2 .. n
      PROVE  j \in 1 .. n /\ 1 < j /\ lv[j] \in 1 .. d - 1 /\ (todo[j].clause \in Popping => lv[j] >= 2)
  <2>1. j \in 1 .. n /\ 1 < j
    BY <1>2
  <2>2. lv[j] < lv[1] /\ lv[j] \in 1 .. d /\ (todo[j].clause \in Popping => lv[j] >= 2)
    BY <1>1, <1>2, <1>3, <2>1 DEF Laid
  <2> QED
    BY <1>2, <1>3, <2>1, <2>2
<1>6. Keeps(todo[1], d, maps, frames, schema)
  BY <1>1, <1>2, <1>3 DEF InNames
<1>7. InScope'
  <2>1. frames[d - 1] = Below /\ Inner' = frames'[d - 1]
    BY <1>1 DEF Below, Inner
  <2>2. Old.justCreated \subseteq Below.scope \cup Below.pattern
    BY <1>3, <1>6, <2>1 DEF Keeps
  <2> QED
    BY <1>1, <2>1, <2>2 DEF InScope
<1>8. ASSUME NEW i \in 1 .. Len(todo') PROVE Keeps(todo'[i], new[i], maps', frames', schema')
  <2>1. PICK j \in 2 .. n : todo'[i] = todo[j] /\ new[i] = lv[j]
    BY <1>4
  <2>2. PICK e, x : e = todo[j] /\ x = lv[j]
    OBVIOUS
  <2>3. /\ Keeps(e, x, maps, frames, schema) /\ Apart(todo[1], d, e, x)
        /\ x \in 1 .. d - 1 /\ (e.clause \in Popping => x >= 2)
    BY <1>1, <1>2, <1>3, <1>5, <2>2 DEF InNames
  <2>4. x >= 2 => frames'[x - 1] = frames[x - 1]
    <3>1. x >= 2 => x - 1 \in 1 .. d - 2
      BY <1>2, <2>3
    <3> QED
      BY <1>1, <3>1
  <2>5. e.clause \in Restoring => e.old.vars # schema'.vars /\ maps'[e.old.vars] = maps[e.old.vars]
    <3>1. e.old.vars \in 2 .. Len(maps)
      BY <1>1, <1>5, <2>2, EntryVars
    <3>2. e.clause \in Restoring => e.old.vars # Old.vars
      BY <1>3, <2>3 DEF Apart, Restoring
    <3> QED
      BY <3>1, <3>2
  <2>6. e.clause \in Withs /\ x = d - 1 => schema'.justCreated = {}
    <3>1. x = d - 1 => d = x + 1
      BY <1>2
    <3> QED
      BY <1>3, <2>3, <3>1 DEF Apart
  <2>7. e.clause \in Popping => e.clause \in Restoring
    BY DEF Restoring
  <2> QED
    BY <1>0, <2>1, <2>2, <2>3, <2>4, <2>5, <2>6, <2>7 DEF Keeps
<1>9. ASSUME NEW i \in 1 .. Len(todo'), NEW j \in 1 .. Len(todo'), i < j
      PROVE  Apart(todo'[i], new[i], todo'[j], new[j])
  <2>1. PICK p \in 2 .. n : i = p + 0 - 1 /\ todo'[i] = todo[p] /\ new[i] = lv[p]
    BY <1>4
  <2>2. PICK q \in 2 .. n : j = q + 0 - 1 /\ todo'[j] = todo[q] /\ new[j] = lv[q]
    BY <1>4
  <2>3. p \in 1 .. n /\ q \in 1 .. n /\ p < q
    BY <1>2, <1>5, <1>9, <2>1, <2>2
  <2>4. Apart(todo[p], lv[p], todo[q], lv[q])
    BY <1>1, <2>3 DEF InNames
  <2> QED
    BY <2>1, <2>2, <2>4
<1> QED
  BY <1>7, <1>8, <1>9 DEF InNames

-----------------------------------------------------------------------------
(* The invariant, and the steps that keep it. *)

Scoped(lv, owed) == FramesOK /\ Laid(lv) /\ Columns(lv, owed) /\ InNames(lv)

ScopesAgree == \E lv, owed : Scoped(lv, owed)

Kinds(s) == {s[i].clause : i \in 1 .. Len(s)}

LEMMA RestSpliced ==
  ASSUME IInv, IInv', todo # << >>, NEW sub \in NextTodo, todo' = sub \o Tail(todo),
         NEW lv, Laid(lv), NEW l \in Nat
  PROVE  \E new : Spliced(sub, l, lv, new)
BY SpliceExists DEF NextTodo, Laid

LEMMA NothingSpliced ==
  ASSUME IInv, IInv', todo # << >>, todo' = Tail(todo), NEW lv, Laid(lv), NEW l \in Nat
  PROVE  \E new : Spliced(<< >>, l, lv, new)
<1>1. << >> \in NextTodo
  BY EmptySeq DEF NextTodo
<1>2. Tail(todo) = << >> \o Tail(todo)
  BY HeadTailProperties, ConcatEmptySeq DEF IInv
<1> QED
  BY <1>1, <1>2, RestSpliced

(* What the first entry has from the invariant. *)
LEMMA HeadHas ==
  ASSUME IInv, todo # << >>, NEW lv, NEW owed, Scoped(lv, owed)
  PROVE  /\ lv[1] = Depth /\ todo[1] = Head(todo) /\ 1 \in 1 .. Len(todo)
         /\ Fits(Head(todo), Depth, owed, frames)
         /\ Keeps(Head(todo), Depth, maps, frames, schema)
         /\ HeadClause \in PartEnds => Settled(HeadClause, Inner, owed[Depth])
         /\ HeadClause \in Popping => Depth >= 2
         /\ GoodFrame(Inner, owed[Depth]) /\ OwedBy(schema) = owed[Depth]
         /\ owed \in [Nat -> Obligations]
         /\ \A j \in 2 .. Len(todo) :
              /\ j \in 1 .. Len(todo) /\ 1 < j
              /\ lv[j] \in 1 .. Depth /\ (todo[j].clause \in Popping => lv[j] >= 2)
              /\ lv[j] = Depth => Pair(HeadClause, todo[j].clause)
              /\ lv[j] = Depth => Fits(todo[j], Depth, owed, frames)
              /\ lv[j] = Depth /\ todo[j].clause \in PartEnds =>
                   Settled(todo[j].clause, Inner, owed[Depth]) \/ Awaits(todo, lv, j)
              /\ lv[j] = Depth /\ HeadClause = "Return" /\ todo[j].clause = "BodyPartEnd" =>
                   owed[Depth].mustReturn
<1>1. todo[1] = Head(todo) /\ 1 \in 1 .. Len(todo) /\ Len(todo) \in Nat
  BY HeadIsFirst
<1>2. Laid(lv) /\ Columns(lv, owed) /\ InNames(lv) /\ FramesOK
  BY DEF Scoped
<1>3. lv[1] = Depth
  BY <1>2 DEF Laid
<1>4. Fits(Head(todo), Depth, owed, frames) /\ Keeps(Head(todo), Depth, maps, frames, schema)
  BY <1>1, <1>2, <1>3 DEF Columns, InNames
<1>5. HeadClause \in PartEnds => Settled(HeadClause, Inner, owed[Depth])
  <2>1. ~Awaits(todo, lv, 1)
    BY DEF Awaits
  <2> QED
    BY <1>1, <1>2, <1>3, <2>1 DEF Columns, HeadClause, Inner
<1>6. HeadClause \in Popping => Depth >= 2
  BY <1>1, <1>2, <1>3 DEF Laid, HeadClause
<1>7. GoodFrame(Inner, owed[Depth]) /\ OwedBy(schema) = owed[Depth] /\ owed \in [Nat -> Obligations]
  <2>1. Depth \in 1 .. Depth
    BY <1>2 DEF FramesOK
  <2> QED
    BY <1>2, <2>1 DEF Columns, Inner
<1>8. ASSUME NEW j \in 2 .. Len(todo)
      PROVE  /\ j \in 1 .. Len(todo) /\ 1 < j
             /\ lv[j] \in 1 .. Depth /\ (todo[j].clause \in Popping => lv[j] >= 2)
             /\ lv[j] = Depth => Pair(HeadClause, todo[j].clause)
             /\ lv[j] = Depth => Fits(todo[j], Depth, owed, frames)
             /\ lv[j] = Depth /\ todo[j].clause \in PartEnds =>
                  Settled(todo[j].clause, Inner, owed[Depth]) \/ Awaits(todo, lv, j)
             /\ lv[j] = Depth /\ HeadClause = "Return" /\ todo[j].clause = "BodyPartEnd" =>
                  owed[Depth].mustReturn
  <2>1. j \in 1 .. Len(todo) /\ 1 < j
    BY <1>1
  <2>2. /\ lv[j] \in 1 .. Depth /\ (todo[j].clause \in Popping => lv[j] >= 2)
        /\ lv[1] = lv[j] => Pair(todo[1].clause, todo[j].clause)
    BY <1>1, <1>2, <2>1 DEF Laid
  <2>3. /\ Fits(todo[j], lv[j], owed, frames)
        /\ todo[j].clause \in PartEnds =>
             Settled(todo[j].clause, frames[lv[j]], owed[lv[j]]) \/ Awaits(todo, lv, j)
        /\ lv[1] = lv[j] /\ todo[1].clause = "Return" /\ todo[j].clause = "BodyPartEnd" =>
             owed[lv[1]].mustReturn
    BY <1>1, <1>2, <2>1 DEF Columns
  <2> QED
    BY <1>1, <1>3, <2>1, <2>2, <2>3 DEF HeadClause, Inner
<1> QED
  BY <1>1, <1>3, <1>4, <1>5, <1>6, <1>7, <1>8

(* sub goes on in the scope of the first entry, and returns what that      *)
(* would have returned.                                                    *)
Continues(sub) ==
  /\ HeadClause \notin Popping \cup PartEnds
  /\ Kinds(sub) \cap (Popping \cup PartEnds) = {} /\ InOrder(sub)
  /\ \A c \in Kinds(sub) :
       /\ Heir(HeadClause, c)
       /\ c \in Uniting => HeadClause \in Uniting
       /\ c \in Withs => HeadClause \in Withs

Returns(sub) ==
  \/ Kinds(sub) \cap Returning # {}
  \/ HeadClause \notin Returning
  \/ HeadClause \in Tails /\ ~schema.mustReturn

(* A step within the innermost scope that changes nothing in what it owes. *)
LEMMA Inside ==
  ASSUME IInv, IInv', todo # << >>, NEW lv, NEW owed, Scoped(lv, owed), FramesOK',
         NEW sub \in NextTodo, todo' = sub \o Tail(todo),
         NEW scope, NEW pattern, NEW returned,
         Changed(scope, pattern, returned, Inner.parts, Inner.unions),
         Continues(sub),
         OwedBy(schema') = OwedBy(schema),
         \/ returned = Inner.returned /\ Returns(sub)
         \/ HeadClause = "Return" /\ (schema.mustReturn => returned = schema.columns),
         \A i \in 2 .. Len(maps) : i # schema.vars => maps'[i] = maps[i],
         schema'.vars \in {schema.vars, Len(maps) + 1},
         \/ schema'.justCreated \subseteq schema.justCreated
         \/ HeadClause \in Writing,
         InScope => InScope'
  PROVE  ScopesAgree'
<1>1. FramesOK /\ Laid(lv) /\ Columns(lv, owed) /\ InNames(lv) /\ Depth \in Nat
  BY DEF Scoped, FramesOK
<1>2. PICK new : Spliced(sub, Depth, lv, new)
  BY <1>1, RestSpliced
<1>3. /\ \A i \in 1 .. Len(sub) : sub[i].clause \in Kinds(sub)
      /\ HeadClause \notin Popping \cup PartEnds
      /\ Kinds(sub) \cap (Popping \cup PartEnds) = {} /\ InOrder(sub)
      /\ \A c \in Kinds(sub) :
           /\ Heir(HeadClause, c)
           /\ c \in Uniting => HeadClause \in Uniting
           /\ c \in Withs => HeadClause \in Withs
  BY DEF Kinds, Continues
<1>4. /\ Depth' = Depth /\ \A d \in 1 .. Depth - 1 : frames'[d] = frames[d]
      /\ IsFrame(frames'[Depth], scope, pattern, returned, Inner.parts, Inner.unions)
  BY DEF Changed
<1>5. Laid(new)'
  BY <1>1, <1>2, <1>3, <1>4, LaidInScope
<1>6. Columns(new, owed)'
  <2>1. OwedBy(schema') = owed[Depth] /\ owed \in [Nat -> Obligations]
        /\ schema.mustReturn = owed[Depth].mustReturn /\ schema.columns = owed[Depth].columns
    BY HeadHas DEF OwedBy
  <2>2. GoodFrame(frames'[Depth], owed[Depth])
    BY <1>4, HeadHas DEF GoodFrame, IsFrame
  <2>3. ASSUME NEW i \in 1 .. Len(sub)
        PROVE  /\ sub[i].clause \notin Popping /\ Fits(sub[i], Depth, owed, frames')
               /\ sub[i].clause \notin PartEnds
    <3>1. /\ sub[i].clause \notin Popping \cup PartEnds
          /\ sub[i].clause \in Uniting => HeadClause \in Uniting
      BY <1>3
    <3>2. HeadClause \in Uniting =>
            /\ Inner.unions \subseteq {owed[Depth].isUnionAll}
            /\ ~owed[Depth].mustReturn => Inner.parts = {}
      BY HeadHas DEF Fits, HeadClause, Inner
    <3> QED
      BY <1>4, <3>1, <3>2 DEF Fits, Popping, PartEnds, Ends, IsFrame
  <2>4. ASSUME NEW j \in 2 .. Len(todo), lv[j] = Depth
        PROVE  /\ Fits(todo[j], Depth, owed, frames')
               /\ todo[j].clause = "BodyPartEnd" =>
                    \A i \in 1 .. Len(sub) : sub[i].clause # "Return"
               /\ todo[j].clause \in PartEnds =>
                    \/ Settled(todo[j].clause, frames'[Depth], owed[Depth])
                    \/ \E r \in 1 .. Len(sub) : sub[r].clause \in Returning
                    \/ HeadClause \notin Returning /\ Awaits(todo, lv, j)
    <3>1. PICK e : e = todo[j]
      OBVIOUS
    <3>2. /\ Fits(e, Depth, owed, frames) /\ Pair(HeadClause, e.clause)
          /\ e.clause \in PartEnds =>
               Settled(e.clause, Inner, owed[Depth]) \/ Awaits(todo, lv, j)
          /\ HeadClause = "Return" /\ e.clause = "BodyPartEnd" => owed[Depth].mustReturn
      BY <2>4, <3>1, HeadHas
    <3>3. Fits(e, Depth, owed, frames')
      <4>1. frames'[Depth].unions = frames[Depth].unions /\ frames'[Depth].parts = frames[Depth].parts
        BY <1>4 DEF IsFrame, Inner
      <4> QED
        BY <3>2, <4>1, FitsStill
    <3>4. ASSUME e.clause = "BodyPartEnd", NEW i \in 1 .. Len(sub) PROVE sub[i].clause # "Return"
      <4>1. HeadClause \notin Tails
        BY <3>2, <3>4 DEF Pair, Ends
      <4> QED
        BY <1>3, <4>1 DEF Heir
    <3>5. ASSUME e.clause \in PartEnds
          PROVE  \/ Settled(e.clause, frames'[Depth], owed[Depth])
                 \/ \E r \in 1 .. Len(sub) : sub[r].clause \in Returning
                 \/ HeadClause \notin Returning /\ Awaits(todo, lv, j)
      <4>1. CASE Kinds(sub) \cap Returning # {}
        BY <4>1 DEF Kinds
      <4>2. CASE returned = Inner.returned /\ HeadClause \notin Returning
        BY <1>4, <3>2, <3>5, <4>2 DEF Settled, IsFrame
      <4>3. CASE HeadClause \in Tails /\ ~schema.mustReturn
        <5>1. e.clause # "BodyPartEnd"
          BY <3>2, <4>3 DEF Pair, Ends
        <5> QED
          BY <2>1, <4>3, <5>1 DEF Settled
      <4>4. CASE HeadClause = "Return" /\ (schema.mustReturn => returned = schema.columns)
        BY <1>4, <2>1, <3>2, <4>4 DEF Settled, IsFrame
      <4> QED
        BY <4>1, <4>2, <4>3, <4>4 DEF Returns
    <3> QED
      BY <3>1, <3>3, <3>4, <3>5
  <2> QED
    BY <1>1, <1>2, <1>4, <2>1, <2>2, <2>3, <2>4, ColumnsInScope
<1>7. InNames(new)'
  <2>1. ASSUME NEW i \in 1 .. Len(sub)
        PROVE  /\ sub[i].clause \notin Popping /\ sub[i].clause \notin Restoring
               /\ sub[i].clause \in Withs => schema'.justCreated = {}
    <3>1. sub[i].clause \notin Popping /\ sub[i].clause \notin Restoring
      BY <1>3 DEF Restoring, PartEnds, Ends
    <3>2. ASSUME sub[i].clause \in Withs PROVE schema'.justCreated = {}
      <4>1. HeadClause \in Withs
        BY <1>3, <3>2
      <4>2. schema.justCreated = {}
        BY <4>1, HeadHas DEF Keeps, HeadClause, Depth
      <4>3. HeadClause \notin Writing
        BY <4>1 DEF Writing, Withs
      <4> QED
        BY <4>2, <4>3
    <3> QED
      BY <3>1, <3>2
  <2>2. InScope'
    BY <1>1, <1>3 DEF InNames, PartEnds
  <2> QED
    BY <1>1, <1>2, <1>3, <1>4, <2>1, <2>2, NamesInside
<1> QED
  BY <1>5, <1>6, <1>7 DEF Scoped, ScopesAgree

(* Lists of what is to do. *)
LEMMA KindsOfLists ==
  /\ Kinds(<< >>) = {} /\ InOrder(<< >>)
  /\ \A a : Kinds(<< a >>) = {a.clause} /\ InOrder(<< a >>)
  /\ \A a, b : Kinds(<< a, b >>) = {a.clause, b.clause}
               /\ (Pair(a.clause, b.clause) => InOrder(<< a, b >>))
  /\ \A a, b, c : Kinds(<< a, b, c >>) = {a.clause, b.clause, c.clause}
                  /\ (Pair(a.clause, b.clause) /\ Pair(a.clause, c.clause)
                      /\ Pair(b.clause, c.clause) => InOrder(<< a, b, c >>))
<1>1. Kinds(<< >>) = {} /\ InOrder(<< >>)
  BY DEF Kinds, InOrder
<1>2. ASSUME NEW a PROVE Kinds(<< a >>) = {a.clause} /\ InOrder(<< a >>)
  <2>1. PICK s : s = << a >>
    OBVIOUS
  <2>2. Len(s) = 1 /\ s[1] = a
    BY <2>1
  <2>3. 1 .. 1 = {1}
    OBVIOUS
  <2>4. Kinds(s) = {a.clause} /\ InOrder(s)
    BY <2>2, <2>3 DEF Kinds, InOrder
  <2> QED
    BY <2>1, <2>4
<1>3. ASSUME NEW a, NEW b
      PROVE  Kinds(<< a, b >>) = {a.clause, b.clause}
             /\ (Pair(a.clause, b.clause) => InOrder(<< a, b >>))
  <2>1. PICK s : s = << a, b >>
    OBVIOUS
  <2>2. Len(s) = 2 /\ s[1] = a /\ s[2] = b
    BY <2>1
  <2>3. 1 .. 2 = {1, 2} /\ ~(2 < 1) /\ ~(1 < 1) /\ ~(2 < 2)
    OBVIOUS
  <2>4. Kinds(s) = {a.clause, b.clause}
    BY <2>2, <2>3 DEF Kinds
  <2>5. Pair(a.clause, b.clause) => InOrder(s)
    BY <2>2, <2>3 DEF InOrder
  <2> QED
    BY <2>1, <2>4, <2>5
<1>4. ASSUME NEW a, NEW b, NEW c
      PROVE  Kinds(<< a, b, c >>) = {a.clause, b.clause, c.clause}
             /\ (Pair(a.clause, b.clause) /\ Pair(a.clause, c.clause)
                 /\ Pair(b.clause, c.clause) => InOrder(<< a, b, c >>))
  <2>1. PICK s : s = << a, b, c >>
    OBVIOUS
  <2>2. Len(s) = 3 /\ s[1] = a /\ s[2] = b /\ s[3] = c
    BY <2>1
  <2>3. 1 .. 3 = {1, 2, 3}
    OBVIOUS
  <2>4. Kinds(s) = {a.clause, b.clause, c.clause}
    BY <2>2, <2>3 DEF Kinds
  <2>5. \A i, j \in {1, 2, 3} : i < j => <<i, j>> \in {<<1, 2>>, <<1, 3>>, <<2, 3>>}
    OBVIOUS
  <2>6. ASSUME Pair(a.clause, b.clause), Pair(a.clause, c.clause), Pair(b.clause, c.clause)
        PROVE  InOrder(s)
    <3>1. ASSUME NEW i \in {1, 2, 3}, NEW j \in {1, 2, 3}, i < j
          PROVE  Pair(s[i].clause, s[j].clause)
      <4>1. (i = 1 /\ j = 2) \/ (i = 1 /\ j = 3) \/ (i = 2 /\ j = 3)
        BY <2>5, <3>1
      <4> QED
        BY <2>2, <2>6, <4>1
    <3> QED
      BY <2>2, <2>3, <3>1 DEF InOrder
  <2> QED
    BY <2>1, <2>4, <2>6
<1> QED
  BY <1>1, <1>2, <1>3, <1>4

LEMMA KindsOfJoined ==
  ASSUME NEW S, NEW s \in Seq(S), NEW t \in Seq(S)
  PROVE  Kinds(s \o t) = Kinds(s) \cup Kinds(t)
<1>1. PICK k, n, u : k = Len(s) /\ n = Len(t) /\ u = s \o t
  OBVIOUS
<1>2. k \in Nat /\ n \in Nat
  BY <1>1, LenProperties
<1>3. /\ Len(s \o t) = Len(s) + Len(t)
      /\ \A i \in 1 .. Len(s) + Len(t) : (s \o t)[i] = IF i <= Len(s) THEN s[i] ELSE t[i - Len(s)]
  BY ConcatProperties
<1>4. Len(u) = k + n /\ \A i \in 1 .. k + n : u[i] = IF i <= k THEN s[i] ELSE t[i - k]
  BY <1>1, <1>3
<1>5. ASSUME NEW i \in 1 .. k + n PROVE u[i].clause \in Kinds(s) \cup Kinds(t)
  <2>1. CASE i \in 1 .. k
    <3>1. i <= k
      BY <1>2, <2>1
    <3>2. u[i] = s[i]
      BY <1>4, <3>1
    <3> QED
      BY <1>1, <2>1, <3>2 DEF Kinds
  <2>2. CASE ~(i <= k)
    <3>1. i - k \in 1 .. n
      BY <1>2, <2>2
    <3>2. u[i] = t[i - k]
      BY <1>4, <2>2
    <3> QED
      BY <1>1, <3>1, <3>2 DEF Kinds
  <2>3. i \in 1 .. k \/ ~(i <= k)
    BY <1>2
  <2> QED
    BY <2>1, <2>2, <2>3
<1>6. ASSUME NEW i \in 1 .. k PROVE s[i].clause \in Kinds(u)
  <2>1. i \in 1 .. k + n /\ i <= k
    BY <1>2
  <2> QED
    BY <1>1, <1>4, <2>1 DEF Kinds
<1>7. ASSUME NEW i \in 1 .. n PROVE t[i].clause \in Kinds(u)
  <2>1. PICK j : j = i + k
    OBVIOUS
  <2>2. j \in 1 .. k + n /\ ~(j <= k) /\ j - k = i
    BY <1>2, <2>1
  <2>3. u[j] = t[i]
    BY <1>4, <2>2
  <2> QED
    BY <1>4, <2>2, <2>3 DEF Kinds
<1>8. Kinds(u) \subseteq Kinds(s) \cup Kinds(t)
  BY <1>4, <1>5 DEF Kinds
<1>9. Kinds(s) \subseteq Kinds(u) /\ Kinds(t) \subseteq Kinds(u)
  BY <1>1, <1>6, <1>7 DEF Kinds
<1> QED
  BY <1>1, <1>8, <1>9

LEMMA AnyOrder ==
  ASSUME NEW s, \A a, b \in Kinds(s) : Pair(a, b)
  PROVE  InOrder(s)
BY DEF Kinds, InOrder

LEMMA LastInOrder ==
  ASSUME NEW S, NEW s \in Seq(S), NEW e \in S, InOrder(s), \A c \in Kinds(s) : Pair(c, e.clause)
  PROVE  /\ InOrder(s \o << e >>)
         /\ Len(s \o << e >>) \in Nat /\ Len(s \o << e >>) >= 1
         /\ (s \o << e >>)[Len(s \o << e >>)] = e
         /\ \A i \in 1 .. Len(s \o << e >>) :
              (s \o << e >>)[i].clause \in Kinds(s) \/ i = Len(s \o << e >>)
         /\ \A c \in Kinds(s) : \E i \in 1 .. Len(s \o << e >>) - 1 : (s \o << e >>)[i].clause = c
<1>1. PICK k, u : k = Len(s) /\ u = s \o << e >>
  OBVIOUS
<1>2. k \in Nat
  BY <1>1, LenProperties
<1>3. /\ << e >> \in Seq(S) /\ Len(<< e >>) = 1 /\ << e >>[1] = e
  OBVIOUS
<1>4. /\ Len(s \o << e >>) = Len(s) + Len(<< e >>)
      /\ \A i \in 1 .. Len(s) + Len(<< e >>) :
           (s \o << e >>)[i] = IF i <= Len(s) THEN s[i] ELSE << e >>[i - Len(s)]
  BY <1>3, ConcatProperties
<1>5. Len(u) = k + 1 /\ \A i \in 1 .. k + 1 : u[i] = IF i <= k THEN s[i] ELSE << e >>[i - k]
  BY <1>1, <1>3, <1>4
<1>6. u[k + 1] = e
  <2>1. k + 1 \in 1 .. k + 1 /\ ~(k + 1 <= k) /\ (k + 1) - k = 1
    BY <1>2
  <2> QED
    BY <1>3, <1>5, <2>1
<1>7. \A i \in 1 .. k : u[i] = s[i] /\ u[i].clause \in Kinds(s)
  <2>1. \A i \in 1 .. k : i \in 1 .. k + 1 /\ i <= k
    BY <1>2
  <2> QED
    BY <1>1, <1>5, <2>1 DEF Kinds
<1>8. \A i \in 1 .. k + 1 : i \in 1 .. k \/ i = k + 1
  BY <1>2
<1>9. InOrder(u)
  <2> SUFFICES ASSUME NEW i \in 1 .. k + 1, NEW j \in 1 .. k + 1, i < j
               PROVE  Pair(u[i].clause, u[j].clause)
    BY <1>5 DEF InOrder
  <2>1. i \in 1 .. k
    BY <1>2
  <2>2. CASE j \in 1 .. k
    BY <1>1, <1>7, <2>1, <2>2 DEF InOrder
  <2>3. CASE j = k + 1
    BY <1>6, <1>7, <2>1, <2>3
  <2> QED
    BY <1>8, <2>2, <2>3
<1>10. \A c \in Kinds(s) : \E i \in 1 .. (k + 1) - 1 : u[i].clause = c
  <2>1. (k + 1) - 1 = k
    BY <1>2
  <2> QED
    BY <1>1, <1>7, <2>1 DEF Kinds
<1>11. Len(u) \in Nat /\ Len(u) >= 1
  BY <1>2, <1>5
<1>12. \A i \in 1 .. k + 1 : u[i].clause \in Kinds(s) \/ i = k + 1
  BY <1>7, <1>8
<1>13. u[Len(u)] = e
  BY <1>5, <1>6
<1>14. /\ \A i \in 1 .. Len(u) : u[i].clause \in Kinds(s) \/ i = Len(u)
       /\ \A c \in Kinds(s) : \E i \in 1 .. Len(u) - 1 : u[i].clause = c
  BY <1>5, <1>10, <1>12
<1> QED
  BY <1>1, <1>9, <1>11, <1>13, <1>14

(* body is a scope of its own, which an entry c takes away. *)
Opens(body, c) ==
  /\ HeadClause \notin Popping \cup PartEnds \cup Returning
  /\ InOrder(body) /\ Kinds(body) \cap (Restoring \cup {"UnionClause"}) = {}
  /\ \A k \in Kinds(body) : Pair(k, c)
  /\ c \in Popping

(* What it owes is returned in it. *)
Settles(body, c) ==
  /\ c = "BodyPartEnd" =>
       /\ HeadClause = "SubqueryExpressionBodyPart"
       /\ schema'.mustReturn = schema.mustReturn /\ schema'.columns = schema.columns
  /\ c \in PartEnds => Kinds(body) \cap Returning # {} \/ schema'.columns = {}
  /\ "Return" \in Kinds(body) => schema'.mustReturn
  /\ schema'.mustReturn <=> schema'.columns # {}

(* Its UNIONs are of one kind. *)
Unites(body, unions) ==
  /\ Kinds(body) \cap Uniting # {} => unions = {}
  /\ unions # {} => schema'.mustReturn
  /\ \A a, b \in unions : a = b

(* A step into a scope of its own, which e takes away. *)
LEMMA Opening ==
  ASSUME IInv, IInv', todo # << >>, NEW lv, NEW owed, Scoped(lv, owed), FramesOK',
         NEW body \in NextTodo, NEW e \in NextEntry,
         todo' = (body \o << e >>) \o Tail(todo),
         NEW scope, NEW pattern, NEW unions, Pushed(scope, pattern, unions),
         Opens(body, e.clause), Settles(body, e.clause), Unites(body, unions), OwedBy(e.old) = OwedBy(schema),
         \A i \in 2 .. Len(maps) : maps'[i] = maps[i],
         e.old.justCreated = schema.justCreated, maps'[e.old.vars] = maps[schema.vars],
         e.old.vars \in {schema.vars, Len(maps) + 1},
         schema'.vars \in {schema.vars, Len(maps) + 1},
         e.old.vars # schema'.vars,
         Kinds(body) \cap Withs # {} => schema'.justCreated = {},
         InScope => InScope'
  PROVE  ScopesAgree'
<1>1. FramesOK /\ Laid(lv) /\ Columns(lv, owed) /\ InNames(lv) /\ Depth \in Nat /\ Depth + 1 \in Nat
  BY DEF Scoped, FramesOK
<1>0. /\ HeadClause \notin Popping /\ HeadClause \notin PartEnds /\ HeadClause \notin Returning
      /\ InOrder(body) /\ Kinds(body) \cap (Restoring \cup {"UnionClause"}) = {}
      /\ \A k \in Kinds(body) : Pair(k, e.clause)
      /\ e.clause \in Popping
  BY DEF Opens
<1>2. PICK sub : sub = body \o << e >>
  OBVIOUS
<1>3. sub \in NextTodo
  BY <1>2, ConcatProperties DEF NextTodo
<1>4. PICK new : Spliced(sub, Depth + 1, lv, new)
  BY <1>1, <1>2, <1>3, RestSpliced
<1>5. /\ InOrder(sub) /\ Len(sub) \in Nat /\ Len(sub) >= 1 /\ sub[Len(sub)] = e
      /\ \A i \in 1 .. Len(sub) : sub[i].clause \in Kinds(body) \/ i = Len(sub)
      /\ \A c \in Kinds(body) : \E i \in 1 .. Len(sub) - 1 : sub[i].clause = c
  BY <1>0, <1>2, LastInOrder DEF NextTodo
<1>6. \A i \in 1 .. Len(sub) : (sub[i].clause \in Kinds(body) /\ i # Len(sub)) \/ (i = Len(sub) /\ sub[i] = e)
  <2>1. \A i \in 1 .. Len(sub) : sub[i].clause \in Popping \cup Restoring => i = Len(sub)
    BY <1>0, <1>5 DEF Restoring
  <2> QED
    BY <1>5
<1>7. Encloses(sub)
  BY <1>0, <1>5 DEF Encloses, Restoring
<1>8. Depth' = Depth + 1 /\ \A d \in 1 .. Depth : frames'[d] = frames[d]
  BY DEF Pushed
<1>9. IsFrame(frames'[Depth + 1], scope, pattern, {}, {}, unions)
  BY DEF Pushed
<1>10. PICK owed2 : owed2 = [owed EXCEPT ![Depth + 1] = OwedBy(schema')]
  OBVIOUS
<1>11. OwedBy(schema') \in Obligations
  <2>1. schema' \in Shared(Len(maps'))
    BY DEF IInv
  <2> QED
    BY <2>1 DEF OwedBy, Obligations, Shared
<1>12. /\ owed \in [Nat -> Obligations] /\ OwedBy(schema) = owed[Depth]
  BY HeadHas
<1>13. /\ owed2 \in [Nat -> Obligations] /\ owed2[Depth + 1] = OwedBy(schema')
       /\ \A d \in Nat : d # Depth + 1 => owed2[d] = owed[d]
  BY <1>1, <1>10, <1>11, <1>12
<1>14. owed2[Depth] = OwedBy(schema)
  BY <1>1, <1>12, <1>13
<1>15. /\ owed2[Depth + 1].mustReturn = schema'.mustReturn
       /\ owed2[Depth + 1].columns = schema'.columns
       /\ owed2[Depth].mustReturn = schema.mustReturn /\ owed2[Depth].columns = schema.columns
  BY <1>13, <1>14 DEF OwedBy
<1>16. Laid(new)'
  BY <1>0, <1>1, <1>4, <1>7, <1>8, LaidOpened
<1>17. Columns(new, owed2)'
  <2>1. GoodFrame(frames'[Depth + 1], owed2[Depth + 1])
    BY <1>9, <1>15 DEF GoodFrame, IsFrame, Settles, Unites
  <2>2. Fits(e, Depth + 1, owed2, frames')
    <3>1. PICK l, b : l = Depth + 1 /\ b = l - 1
      OBVIOUS
    <3>2. b = Depth
      BY <1>1, <3>1
    <3>3. e.clause \in Popping => OwedBy(e.old) = owed2[b]
      BY <1>14, <3>2
    <3>4. e.clause = "BodyPartEnd" =>
            owed2[l].mustReturn = owed2[b].mustReturn /\ owed2[l].columns = owed2[b].columns
      BY <1>15, <3>1, <3>2 DEF Settles
    <3>5. e.clause \notin {"UnionEnd", "UnionClause"} \cup Uniting
      BY <1>0 DEF Popping, Uniting
    <3>6. Fits(e, l, owed2, frames')
      BY <3>1, <3>3, <3>4, <3>5 DEF Fits
    <3> QED
      BY <3>1, <3>6
  <2>3. ASSUME NEW i \in 1 .. Len(sub), sub[i].clause \in Kinds(body)
        PROVE  /\ Fits(sub[i], Depth + 1, owed2, frames')
               /\ sub[i].clause = "Return" => owed2[Depth + 1].mustReturn
               /\ sub[i].clause \notin PartEnds
    <3>1. sub[i].clause \notin Restoring \cup {"UnionClause"}
      BY <1>0, <2>3
    <3>2. sub[i].clause \notin PartEnds
      BY <3>1 DEF Restoring, Popping, PartEnds, Ends
    <3>3. sub[i].clause \in Uniting => frames'[Depth + 1].unions = {} /\ frames'[Depth + 1].parts = {}
      BY <1>9, <2>3 DEF IsFrame, Unites
    <3>4. Fits(sub[i], Depth + 1, owed2, frames')
      BY <3>1, <3>3 DEF Fits, Restoring, Popping
    <3> QED
      BY <1>15, <2>3, <3>2, <3>4 DEF Settles
  <2>4. e.clause \in PartEnds =>
          \/ Settled(e.clause, frames'[Depth + 1], owed2[Depth + 1])
          \/ \E r \in 1 .. Len(sub) - 1 : sub[r].clause \in Returning
    <3>1. ASSUME Kinds(body) \cap Returning # {}
          PROVE  \E r \in 1 .. Len(sub) - 1 : sub[r].clause \in Returning
      <4>1. PICK c \in Kinds(body) : c \in Returning
        BY <3>1
      <4> QED
        BY <1>5, <4>1
    <3>2. ASSUME schema'.columns = {}
          PROVE  Settled(e.clause, frames'[Depth + 1], owed2[Depth + 1])
      BY <1>9, <1>15, <3>2 DEF Settled, IsFrame
    <3> QED
      BY <3>1, <3>2 DEF Settles
  <2>5. ASSUME NEW i \in 1 .. Len(sub)
        PROVE  /\ Fits(sub[i], Depth + 1, owed2, frames')
               /\ sub[i].clause = "Return" => owed2[Depth + 1].mustReturn
               /\ sub[i].clause \in PartEnds =>
                    \/ Settled(sub[i].clause, frames'[Depth + 1], owed2[Depth + 1])
                    \/ \E r \in 1 .. i - 1 : sub[r].clause \in Returning
               /\ sub[i].clause = "BodyPartEnd" => HeadClause = "SubqueryExpressionBodyPart"
    <3>0. e.clause = "BodyPartEnd" => HeadClause = "SubqueryExpressionBodyPart"
      BY DEF Settles
    <3>1. CASE sub[i].clause \in Kinds(body)
      <4>1. sub[i].clause # "BodyPartEnd"
        BY <2>3, <3>1 DEF PartEnds
      <4> QED
        BY <2>3, <3>1, <4>1
    <3>2. CASE i = Len(sub) /\ sub[i] = e
      <4>1. e.clause # "Return"
        BY <1>0 DEF Popping
      <4> QED
        BY <2>2, <2>4, <3>0, <3>2, <4>1
    <3> QED
      BY <1>6, <3>1, <3>2
  <2>6. Begins(sub, owed2)
    BY <2>5 DEF Begins
  <2>7. /\ FramesOK /\ Laid(lv) /\ Columns(lv, owed) /\ HeadClause \notin Returning
    BY <1>0, <1>1
  <2>8. /\ Depth' = Depth + 1 /\ \A d \in 1 .. Depth : frames'[d] = frames[d]
        /\ owed2 \in [Nat -> Obligations] /\ OwedBy(schema') = owed2[Depth + 1]
        /\ \A d \in Nat : d # Depth + 1 => owed2[d] = owed[d]
    BY <1>8, <1>13
  <2> QED
    BY <1>4, <1>7, <2>1, <2>6, <2>7, <2>8, ColumnsOpened, SMTT(60)
<1>18. InNames(new)'
  <2>1. HeadClause \notin Ends
    BY <1>0 DEF PartEnds
  <2>2. InScope'
    BY <1>1, <2>1 DEF InNames
  <2>3. \A i \in 1 .. Len(sub) :
          /\ sub[i].clause \in Restoring => i = Len(sub)
          /\ sub[i].clause \in Withs => schema'.justCreated = {}
    <3>1. e.clause \notin Withs
      BY <1>0 DEF Popping, Withs
    <3> SUFFICES ASSUME NEW i \in 1 .. Len(sub)
                 PROVE  /\ sub[i].clause \in Restoring => i = Len(sub)
                        /\ sub[i].clause \in Withs => schema'.justCreated = {}
      OBVIOUS
    <3>2. CASE sub[i].clause \in Kinds(body) /\ i # Len(sub)
      <4>1. sub[i].clause \notin Restoring
        BY <1>0, <3>2
      <4> QED
        BY <3>2, <4>1
    <3>3. CASE i = Len(sub) /\ sub[i] = e
      BY <3>1, <3>3
    <3> QED
      BY <1>6, <3>2, <3>3
  <2>4. PICK old : old = e.old
    OBVIOUS
  <2>5. /\ sub[Len(sub)].old = old /\ old.justCreated = schema.justCreated
        /\ maps'[old.vars] = maps[schema.vars] /\ old.vars \in {schema.vars, Len(maps) + 1}
        /\ old.vars # schema'.vars
    BY <1>5, <2>4
  <2> QED
    BY <1>1, <1>4, <1>7, <1>8, <2>1, <2>2, <2>3, <2>5, NamesOpened
<1> QED
  BY <1>16, <1>17, <1>18 DEF Scoped, ScopesAgree

(* The end of a scope.  What is declared by it may be used after it. *)
LEMMA Closing ==
  ASSUME IInv, IInv', todo # << >>, NEW lv, NEW owed, Scoped(lv, owed), FramesOK',
         todo' = Tail(todo), HeadClause \in Popping,
         NEW ns, NEW parts,
         PoppedTo(Below.scope \cup ns, Below.pattern, Below.returned, parts, Below.unions),
         \/ parts = Below.parts
         \/ HeadClause = "BodyPartEnd" /\ parts = Below.parts \cup {Inner.returned},
         OwedBy(schema') = OwedBy(Old),
         schema'.vars = Old.vars, schema'.justCreated = Old.justCreated,
         \A i \in 2 .. Len(maps) : i # Old.vars => maps'[i] = maps[i],
         maps'[Old.vars] \subseteq maps[Old.vars] \cup ns
  PROVE  ScopesAgree'
<1>1. FramesOK /\ Laid(lv) /\ Columns(lv, owed) /\ InNames(lv) /\ Depth \in Nat
  BY DEF Scoped, FramesOK
<1>2. PICK new : Spliced(<< >>, Depth, lv, new)
  BY <1>1, NothingSpliced
<1>3. /\ Depth' = Depth - 1 /\ Depth >= 2
      /\ IsFrame(frames'[Depth - 1], Below.scope \cup ns, Below.pattern, Below.returned, parts,
                 Below.unions)
      /\ \A d \in 1 .. Depth - 2 : frames'[d] = frames[d]
  BY DEF PoppedTo
<1>4. Laid(new)'
  BY <1>1, <1>2, <1>3, LaidClosed
<1>5. OwedBy(Old) = owed[Depth - 1] /\ maps[Old.vars] \subseteq Below.scope
  <2>1. Fits(Head(todo), Depth, owed, frames) /\ Keeps(Head(todo), Depth, maps, frames, schema)
    BY HeadHas
  <2> QED
    BY <2>1 DEF Fits, Keeps, HeadClause, Old, Below
<1>6. Columns(new, owed)'
  BY <1>1, <1>2, <1>3, <1>5, ColumnsClosed DEF IsFrame
<1>7. InNames(new)'
  <2>1. /\ frames'[Depth - 1].pattern = Below.pattern
        /\ frames'[Depth - 1].scope = Below.scope \cup ns
    BY <1>3 DEF IsFrame
  <2>2. /\ Below.scope \subseteq frames'[Depth - 1].scope
        /\ maps'[Old.vars] \subseteq frames'[Depth - 1].scope
    BY <1>5, <2>1
  <2> QED
    BY <1>1, <1>2, <1>3, <2>1, <2>2, NamesClosed
<1> QED
  BY <1>4, <1>6, <1>7 DEF Scoped, ScopesAgree

-----------------------------------------------------------------------------
(* The steps within a scope. *)

Extended(m, ns) ==
  /\ m \in MapLists
  /\ Len(m) = Len(maps) + 1
  /\ \A i \in 2 .. Len(maps) : m[i] = maps[i]
  /\ m[Len(maps) + 1] = ns

MapsKept == \A i \in 2 .. Len(maps) : maps'[i] = maps[i]

LEMMA InsertAt ==
  ASSUME NEW m \in MapLists, NEW i \in 1 .. Len(m), NEW ns \in SUBSET Nat
  PROVE  \A j \in 1 .. Len(m) : Insert(m, i, ns)[j] = IF j = i THEN m[i] \cup ns ELSE m[j]
<1>1. m \in Seq(SUBSET Nat)
  BY DEF MapLists
<1>2. PICK x : x = m[i] \cup ns
  OBVIOUS
<1>3. x \in SUBSET Nat
  BY <1>1, <1>2, ElementOfSeq
<1>4. \A j \in 1 .. Len(m) : [m EXCEPT ![i] = x][j] = IF j = i THEN x ELSE m[j]
  BY <1>1, <1>3, ExceptSeq
<1>5. Insert(m, i, ns) = [m EXCEPT ![i] = x]
  BY <1>2 DEF Insert
<1> QED
  BY <1>2, <1>4, <1>5

LEMMA UseKeepsMaps ==
  ASSUME IInv, TakeNewName, NEW m \in MapLists
  PROVE  /\ Use(m, NewName) \in MapLists /\ Len(Use(m, NewName)) = Len(m)
         /\ \A j \in 2 .. Len(m) : Use(m, NewName)[j] = m[j]
<1>1. {NewName} \in SUBSET Nat
  BY NewNameIsNat
<1>2. schema.usedNames = 1 /\ Len(m) \in Nat /\ 1 \in 1 .. Len(m)
  BY LenProperties DEF IInv, Shared, MapLists
<1>3. Use(m, NewName) = Insert(m, 1, {NewName})
  BY <1>2 DEF Use
<1>4. \A j \in 2 .. Len(m) : j \in 1 .. Len(m) /\ j # 1
  BY <1>2
<1>5. \A j \in 1 .. Len(m) :
        Insert(m, 1, {NewName})[j] = IF j = 1 THEN m[1] \cup {NewName} ELSE m[j]
  BY <1>1, <1>2, InsertAt
<1>6. Insert(m, 1, {NewName}) \in MapLists /\ Len(Insert(m, 1, {NewName})) = Len(m)
  BY <1>1, <1>2, InsertKeeps
<1> QED
  BY <1>3, <1>4, <1>5, <1>6

LEMMA AppendExtends ==
  ASSUME IInv, NEW ns \in SUBSET Nat
  PROVE  Extended(Append(maps, ns), ns)
<1>1. maps \in Seq(SUBSET Nat) /\ Len(maps) \in Nat /\ Len(maps) >= 2
  BY LenProperties DEF IInv, MapLists
<1>2. /\ Append(maps, ns) \in Seq(SUBSET Nat)
      /\ Len(Append(maps, ns)) = Len(maps) + 1
      /\ \A i \in 1 .. Len(maps) : Append(maps, ns)[i] = maps[i]
      /\ Append(maps, ns)[Len(maps) + 1] = ns
  BY <1>1, AppendProperties
<1>3. \A i \in 2 .. Len(maps) : i \in 1 .. Len(maps)
  BY <1>1
<1> QED
  BY <1>1, <1>2, <1>3 DEF Extended, MapLists

LEMMA VarsAreNames ==
  ASSUME IInv
  PROVE  maps[schema.vars] \in SUBSET Nat /\ schema.vars \in 1 .. Len(maps)
<1>1. maps \in Seq(SUBSET Nat) /\ schema.vars \in 1 .. Len(maps)
  BY LenProperties DEF IInv, MapLists, Shared
<1> QED
  BY <1>1, ElementOfSeq

LEMMA ContextMaps ==
  ASSUME IInv
  PROVE  /\ Extended(Copy.maps, maps[schema.vars])
         /\ Extended(NewContext.maps, {})
         /\ Extended(NewSubContext.maps, maps[schema.vars])
         /\ Extended(ResetContext.maps, {})
<1>1. maps[schema.vars] \in SUBSET Nat
  BY VarsAreNames
<1>2. Extended(Append(maps, maps[schema.vars]), maps[schema.vars]) /\ Extended(Append(maps, {}), {})
  BY <1>1, AppendExtends
<1> QED
  BY <1>2 DEF Copy, NewContext, NewSubContext, ResetContext

LEMMA UseExtends ==
  ASSUME IInv, TakeNewName, NEW m, NEW ns, Extended(m, ns)
  PROVE  Extended(Use(m, NewName), ns)
<1>1. m \in MapLists
  BY DEF Extended
<1>2. /\ Use(m, NewName) \in MapLists /\ Len(Use(m, NewName)) = Len(m)
      /\ \A j \in 2 .. Len(m) : Use(m, NewName)[j] = m[j]
  BY <1>1, UseKeepsMaps
<1>3. PICK n : n = Len(maps) /\ n \in Nat /\ n >= 2
  BY LenProperties DEF IInv, MapLists
<1>4. /\ Len(m) = n + 1 /\ \A i \in 2 .. n : m[i] = maps[i]
      /\ m[n + 1] = ns
  BY <1>3 DEF Extended
<1>5. n + 1 \in 2 .. n + 1 /\ \A i \in 2 .. n : i \in 2 .. n + 1
  BY <1>3
<1>6. /\ Len(Use(m, NewName)) = n + 1 /\ Use(m, NewName)[n + 1] = ns
      /\ \A i \in 2 .. n : Use(m, NewName)[i] = maps[i]
  BY <1>2, <1>4, <1>5
<1> QED
  BY <1>2, <1>3, <1>6 DEF Extended

LEMMA KeptNow ==
  ASSUME IInv, IInv', \/ Len(maps') = Len(maps) \/ Len(maps') = Len(maps) + 1
  PROVE  Kept
<1>1. Len(maps) \in Nat
  BY LenProperties DEF IInv, MapLists
<1>2. Len(maps') >= Len(maps)
  BY <1>1
<1> QED
  BY <1>2 DEF IInv, Kept, NextShared

LEMMA UseOnly ==
  ASSUME IInv, TakeNewName, maps' = Use(maps, NewName)
  PROVE  MapsKept /\ Len(maps') = Len(maps)
<1>1. maps \in MapLists
  BY DEF IInv
<1> QED
  BY <1>1, UseKeepsMaps DEF MapsKept

(* A step that only chooses what comes next. *)
LEMMA Choosing ==
  ASSUME IInv, IInv', todo # << >>, NEW lv, NEW owed, Scoped(lv, owed),
         NEW sub \in NextTodo, todo' = sub \o Tail(todo), Continues(sub), Returns(sub),
         UNCHANGED <<schema, frames>>, MapsKept
  PROVE  ScopesAgree'
<1>1. FramesOK' /\ Changed(Inner.scope, Inner.pattern, Inner.returned, Inner.parts, Inner.unions)
  BY SameFrames DEF Scoped
<1>2. InScope => InScope'
  <2>1. maps'[schema.vars] = maps[schema.vars]
    BY EntryVars DEF MapsKept
  <2>2. Inner' = Inner
    BY DEF Inner, Depth
  <2> QED
    BY <2>1, <2>2 DEF InScope
<1>3. \A i \in 2 .. Len(maps) : i # schema.vars => maps'[i] = maps[i]
  BY DEF MapsKept
<1> QED
  BY <1>1, <1>2, <1>3, Inside

LEMMA HeadIs ==
  ASSUME NEW c, Due(c)
  PROVE  todo # << >> /\ HeadClause = c
BY DEF Due, HeadClause

LEMMA ClauseKinds ==
  /\ \A c : Clause(c).clause = c
  /\ \A c, s : Restore(c, s).clause = c /\ Restore(c, s).old = s
  /\ \A c, n : Bind(c, n).clause = c
BY DEF Clause, Restore, Bind

LEMMA OptionalKinds ==
  ASSUME NEW c, NEW t \in Optional(c)
  PROVE  Kinds(t) \subseteq {c}
BY KindsOfLists, ClauseKinds DEF Optional

(* Lists of clauses. *)
LEMMA ClauseLists ==
  /\ \A a : Kinds(<< Clause(a) >>) = {a} /\ InOrder(<< Clause(a) >>)
  /\ \A a, b : Kinds(<< Clause(a), Clause(b) >>) = {a, b}
               /\ (Pair(a, b) => InOrder(<< Clause(a), Clause(b) >>))
  /\ \A a, b, c : Kinds(<< Clause(a), Clause(b), Clause(c) >>) = {a, b, c}
                  /\ (Pair(a, b) /\ Pair(a, c) /\ Pair(b, c) =>
                      InOrder(<< Clause(a), Clause(b), Clause(c) >>))
<1>1. \A a : Kinds(<< Clause(a) >>) = {a} /\ InOrder(<< Clause(a) >>)
  BY KindsOfLists, ClauseKinds
<1>2. ASSUME NEW a, NEW b
      PROVE  Kinds(<< Clause(a), Clause(b) >>) = {a, b}
             /\ (Pair(a, b) => InOrder(<< Clause(a), Clause(b) >>))
  <2>1. PICK x, y : x = Clause(a) /\ y = Clause(b)
    OBVIOUS
  <2>2. x.clause = a /\ y.clause = b
    BY <2>1, ClauseKinds
  <2>3. Kinds(<< x, y >>) = {x.clause, y.clause}
        /\ (Pair(x.clause, y.clause) => InOrder(<< x, y >>))
    BY KindsOfLists
  <2> QED
    BY <2>1, <2>2, <2>3
<1>3. ASSUME NEW a, NEW b, NEW c
      PROVE  Kinds(<< Clause(a), Clause(b), Clause(c) >>) = {a, b, c}
             /\ (Pair(a, b) /\ Pair(a, c) /\ Pair(b, c) =>
                 InOrder(<< Clause(a), Clause(b), Clause(c) >>))
  <2>1. PICK x, y, z : x = Clause(a) /\ y = Clause(b) /\ z = Clause(c)
    OBVIOUS
  <2>2. x.clause = a /\ y.clause = b /\ z.clause = c
    BY <2>1, ClauseKinds
  <2>3. Kinds(<< x, y, z >>) = {x.clause, y.clause, z.clause}
        /\ (Pair(x.clause, y.clause) /\ Pair(x.clause, z.clause) /\ Pair(y.clause, z.clause) =>
            InOrder(<< x, y, z >>))
    BY KindsOfLists
  <2> QED
    BY <2>1, <2>2, <2>3
<1> QED
  BY <1>1, <1>2, <1>3

LEMMA ReadClauseAgrees ==
  ASSUME IInv, IInv', ReadClause, NEW lv, NEW owed, Scoped(lv, owed)
  PROVE  ScopesAgree'
<1>1. Kept /\ MapsKept
  BY KeptNow DEF ReadClause, MapsKept
<1>2. PICK sub \in
        {<< Clause("CallSubqueryClause"), Clause("ReadClause") >>,
         << Clause("Union") >>,
         << Clause("ForeachClause"), Clause("OptionalWriteQuery") >>,
         << Clause("UnwindClause"), Clause("ReadClause") >>,
         << Clause("PathPatternExpression"), Clause("ReadClause") >>,
         << Clause("PathPatternExpression"), Clause("Expression"), Clause("ReadClause") >>,
         << Clause("WithClause"), Clause("ReadClause") >>,
         << Clause("WithClause"), Clause("Expression"), Clause("ReadClause") >>,
         << Clause("WriteClause") >>} : Generate("ReadClause", sub)
  BY DEF ReadClause
<1>3. HeadClause = "ReadClause" /\ todo # << >> /\ todo' = sub \o Tail(todo)
  BY <1>2, HeadIs DEF Generate
<1>4. sub \in NextTodo
  BY <1>1, <1>2, NextTodos, NextEntries DEF ClauseNames
<1>5. Continues(sub) /\ Returns(sub)
  <2>1. HeadClause \notin Popping \cup PartEnds /\ HeadClause \in Tails
        /\ HeadClause \in Uniting /\ HeadClause \in Withs
    BY <1>3 DEF Popping, PartEnds, Ends, Tails, Uniting, Withs
  <2>2. ASSUME NEW c \in {"CallSubqueryClause", "ReadClause", "Union", "ForeachClause",
                          "OptionalWriteQuery", "UnwindClause", "PathPatternExpression",
                          "Expression", "WithClause", "WriteClause"}
        PROVE  c \notin Popping \cup PartEnds /\ Heir(HeadClause, c)
    BY <2>1, <2>2 DEF Popping, PartEnds, Ends, Heir, Writing
  <2>3. ASSUME NEW a \in {"CallSubqueryClause", "ForeachClause", "UnwindClause",
                          "PathPatternExpression", "WithClause", "Expression"}, NEW b
        PROVE  Pair(a, b)
    BY <2>3 DEF Pair, Tails, Writing
  <2>4. \/ \E a \in {"CallSubqueryClause", "UnwindClause", "PathPatternExpression", "WithClause"} :
             sub = << Clause(a), Clause("ReadClause") >>
        \/ sub = << Clause("ForeachClause"), Clause("OptionalWriteQuery") >>
        \/ \E a \in {"PathPatternExpression", "WithClause"} :
             sub = << Clause(a), Clause("Expression"), Clause("ReadClause") >>
        \/ \E a \in {"Union", "WriteClause"} : sub = << Clause(a) >>
    OBVIOUS
  <2>5. /\ InOrder(sub)
        /\ Kinds(sub) \subseteq {"CallSubqueryClause", "ReadClause", "Union", "ForeachClause",
                                 "OptionalWriteQuery", "UnwindClause", "PathPatternExpression",
                                 "Expression", "WithClause", "WriteClause"}
        /\ Kinds(sub) \cap {"ReadClause", "OptionalWriteQuery", "Union", "WriteClause"} # {}
    BY <2>3, <2>4, ClauseLists
  <2>6. Continues(sub)
    BY <2>1, <2>2, <2>5 DEF Continues
  <2>7. Returns(sub)
    BY <2>5 DEF Returns, Returning, Tails
  <2> QED
    BY <2>6, <2>7
<1> QED
  BY <1>1, <1>3, <1>4, <1>5, Choosing DEF ReadClause

(* Clauses that are neither of the end of a query nor of patterns that are *)
(* written nor of a list of WITH.                                          *)
Plain ==
  {"Expression", "Predicate", "SubqueryExpression", "SimpleSubqueryExpressionBody",
   "BindIterator", "ForeachClause", "PathPatternExpression", "CreateEnd", "MergeEnd"}

Listing == {"WithElementChain", "WithElementEnd", "LastWithElementEnd"}

LEMMA NextKinds ==
  \A s, t \in NextTodo : Kinds(s \o t) = Kinds(s) \cup Kinds(t)
<1>1. PICK S : S = NextEntry
  OBVIOUS
<1>2. \A s, t \in Seq(S) : Kinds(s \o t) = Kinds(s) \cup Kinds(t)
  BY KindsOfJoined
<1> QED
  BY <1>1, <1>2 DEF NextTodo

LEMMA PlainContinues ==
  ASSUME NEW sub, HeadClause \notin Popping \cup PartEnds,
         \/ Kinds(sub) \subseteq Plain
         \/ HeadClause \in Writing /\ Kinds(sub) \subseteq Plain \cup Writing
         \/ HeadClause \in Withs /\ Kinds(sub) \subseteq Plain \cup Listing
  PROVE  Continues(sub)
<1>1. ASSUME NEW c \in Plain \cup Writing \cup Listing
      PROVE  /\ c \notin Popping \cup PartEnds \cup Uniting \cup Tails
             /\ c \notin {"Return", "SubqueryExpressionBodyPart"}
  BY DEF Plain, Writing, Listing, Popping, PartEnds, Ends, Uniting, Tails
<1>2. (Plain \cup Writing) \cap Withs = {} /\ (Plain \cup Listing) \cap Writing = {}
  BY DEF Plain, Writing, Listing, Withs
<1>3. ASSUME NEW a \in Kinds(sub), NEW b \in Kinds(sub) PROVE Pair(a, b)
  BY <1>1, <1>2, <1>3 DEF Pair
<1>4. InOrder(sub)
  BY <1>3, AnyOrder
<1>5. ASSUME NEW c \in Kinds(sub)
      PROVE  /\ Heir(HeadClause, c) /\ c \notin Popping \cup PartEnds
             /\ c \in Uniting => HeadClause \in Uniting
             /\ c \in Withs => HeadClause \in Withs
  BY <1>1, <1>2, <1>5 DEF Heir
<1> QED
  BY <1>4, <1>5 DEF Continues

LEMMA WriteClauseAgrees ==
  ASSUME IInv, IInv', WriteClause, NEW lv, NEW owed, Scoped(lv, owed)
  PROVE  ScopesAgree'
<1>1. Kept /\ MapsKept
  BY KeptNow DEF WriteClause, MapsKept
<1>2. PICK sub \in
        {<< Clause("Return") >>,
         << Clause("CreateClause"), Clause("OptionalWriteQuery") >>,
         << Clause("MergeClause"), Clause("OptionalWriteQuery") >>,
         << Clause("Expression"), Clause("OptionalWriteQuery") >>} :
        Generate("WriteClause", sub)
  BY DEF WriteClause
<1>3. HeadClause = "WriteClause" /\ todo # << >> /\ todo' = sub \o Tail(todo)
  BY <1>2, HeadIs DEF Generate
<1>4. sub \in NextTodo
  BY <1>1, <1>2, NextTodos, NextEntries DEF ClauseNames
<1>5. HeadClause \notin Popping \cup PartEnds /\ HeadClause \in Tails
  BY <1>3 DEF Popping, PartEnds, Ends, Tails
<1>6. ASSUME NEW c \in {"Return", "CreateClause", "MergeClause", "Expression", "OptionalWriteQuery"}
      PROVE  c \notin Popping \cup PartEnds \cup Uniting \cup Withs /\ Heir(HeadClause, c)
  BY <1>5, <1>6 DEF Popping, PartEnds, Ends, Uniting, Withs, Heir
<1>7. \A a \in {"CreateClause", "MergeClause", "Expression"} : Pair(a, "OptionalWriteQuery")
  BY DEF Pair, Tails, Withs
<1>8. \/ sub = << Clause("Return") >>
      \/ \E a \in {"CreateClause", "MergeClause", "Expression"} :
           sub = << Clause(a), Clause("OptionalWriteQuery") >>
  OBVIOUS
<1>9. /\ InOrder(sub)
      /\ Kinds(sub) \subseteq {"Return", "CreateClause", "MergeClause", "Expression", "OptionalWriteQuery"}
      /\ Kinds(sub) \cap {"Return", "OptionalWriteQuery"} # {}
  BY <1>7, <1>8, ClauseLists
<1>10. Continues(sub)
  BY <1>5, <1>6, <1>9 DEF Continues
<1>11. Returns(sub)
  BY <1>9 DEF Returns, Returning, Tails
<1> QED
  BY <1>1, <1>3, <1>4, <1>10, <1>11, Choosing DEF WriteClause

LEMMA OptionalWriteQueryAgrees ==
  ASSUME IInv, IInv', OptionalWriteQuery, NEW lv, NEW owed, Scoped(lv, owed)
  PROVE  ScopesAgree'
<1>1. Kept /\ MapsKept
  BY KeptNow DEF OptionalWriteQuery, MapsKept
<1>2. PICK sub \in OptionalWrites : Generate("OptionalWriteQuery", sub)
  BY DEF OptionalWriteQuery
<1>3. HeadClause = "OptionalWriteQuery" /\ todo # << >> /\ todo' = sub \o Tail(todo)
  BY <1>2, HeadIs DEF Generate
<1>4. \/ sub = << Clause("WriteClause") >> \/ sub = << Clause("Return") >>
      \/ sub = << >> /\ ~schema.mustReturn
  BY <1>2 DEF OptionalWrites
<1>5. sub \in NextTodo
  BY <1>1, <1>4, NextTodos, NextEntries DEF ClauseNames
<1>6. HeadClause \notin Popping \cup PartEnds /\ HeadClause \in Tails
  BY <1>3 DEF Popping, PartEnds, Ends, Tails
<1>7. /\ InOrder(sub)
      /\ Kinds(sub) \subseteq {"WriteClause", "Return"}
      /\ Kinds(sub) # {} \/ ~schema.mustReturn
  <2>1. ASSUME NEW c \in {"WriteClause", "Return"}, sub = << Clause(c) >>
        PROVE  InOrder(sub) /\ Kinds(sub) = {c}
    BY <2>1, ClauseLists
  <2>2. ASSUME sub = << >> PROVE InOrder(sub) /\ Kinds(sub) = {}
    BY <2>2, KindsOfLists
  <2> QED
    BY <1>4, <2>1, <2>2
<1>8. ASSUME NEW c \in {"WriteClause", "Return"}
      PROVE  c \notin Popping \cup PartEnds \cup Uniting \cup Withs /\ Heir(HeadClause, c)
             /\ c \in Returning
  BY <1>6, <1>8 DEF Popping, PartEnds, Ends, Uniting, Withs, Heir, Returning, Tails
<1>9. Continues(sub) /\ Returns(sub)
  BY <1>6, <1>7, <1>8 DEF Continues, Returns
<1> QED
  BY <1>1, <1>3, <1>5, <1>9, Choosing DEF OptionalWriteQuery

LEMMA ForeachCommandAgrees ==
  ASSUME IInv, IInv', ForeachCommand, NEW lv, NEW owed, Scoped(lv, owed)
  PROVE  ScopesAgree'
<1>1. Kept /\ MapsKept
  BY KeptNow DEF ForeachCommand, MapsKept
<1>2. PICK command \in {"CreateClause", "MergeClause", "ForeachClause", "Expression"},
           more \in Optional("ForeachCommand") :
        Generate("ForeachCommand", << Clause(command) >> \o more)
  BY DEF ForeachCommand
<1>3. PICK sub : sub = << Clause(command) >> \o more
  OBVIOUS
<1>4. HeadClause = "ForeachCommand" /\ todo # << >> /\ todo' = sub \o Tail(todo)
  BY <1>2, <1>3, HeadIs DEF Generate
<1>5. << Clause(command) >> \in NextTodo /\ more \in NextTodo
  BY <1>1, NextTodos, NextEntries DEF ClauseNames
<1>6. sub \in NextTodo
  BY <1>1, <1>3, <1>5, NextTodos
<1>7. Kinds(sub) \subseteq {command, "ForeachCommand"}
  <2>1. Kinds(sub) = Kinds(<< Clause(command) >>) \cup Kinds(more)
    BY <1>3, <1>5, NextKinds
  <2>2. Kinds(<< Clause(command) >>) = {command}
    BY ClauseLists
  <2> QED
    BY <2>1, <2>2, OptionalKinds
<1>8. Continues(sub) /\ Returns(sub)
  <2>1. HeadClause \notin Popping \cup PartEnds /\ HeadClause \in Writing /\ HeadClause \notin Returning
    BY <1>4 DEF Popping, PartEnds, Ends, Writing, Returning, Tails
  <2>2. {command, "ForeachCommand"} \subseteq Plain \cup Writing
    BY DEF Plain, Writing
  <2> QED
    BY <1>7, <2>1, <2>2, PlainContinues DEF Returns
<1> QED
  BY <1>1, <1>4, <1>6, <1>8, Choosing DEF ForeachCommand

LEMMA ExpressionAgrees ==
  ASSUME IInv, IInv', Expression, NEW lv, NEW owed, Scoped(lv, owed)
  PROVE  ScopesAgree'
<1>1. Kept /\ MapsKept
  BY KeptNow DEF Expression, MapsKept
<1>2. PICK e \in {"Predicate", "SubqueryExpression", "SimpleSubqueryExpressionBody"} :
        Generate("Expression", << Clause(e) >>)
  BY DEF Expression
<1>3. HeadClause = "Expression" /\ todo # << >> /\ todo' = << Clause(e) >> \o Tail(todo)
  BY <1>2, HeadIs DEF Generate
<1>4. << Clause(e) >> \in NextTodo
  BY <1>1, NextTodos, NextEntries DEF ClauseNames
<1>5. Continues(<< Clause(e) >>) /\ Returns(<< Clause(e) >>)
  <2>1. HeadClause \notin Popping \cup PartEnds /\ HeadClause \notin Returning
    BY <1>3 DEF Popping, PartEnds, Ends, Returning, Tails
  <2>2. Kinds(<< Clause(e) >>) \subseteq Plain
    BY ClauseLists DEF Plain
  <2> QED
    BY <2>1, <2>2, PlainContinues DEF Returns
<1> QED
  BY <1>1, <1>3, <1>4, <1>5, Choosing DEF Expression

LEMMA UnwindClauseAgrees ==
  ASSUME IInv, IInv', UnwindClause, NEW lv, NEW owed, Scoped(lv, owed)
  PROVE  ScopesAgree'
<1>1. Kept /\ MapsKept
  BY UseOnly, KeptNow DEF UnwindClause
<1>2. PICK list \in Optional("Expression") :
        Generate("UnwindClause", list \o << Bind("BindIterator", NewName) >>)
  BY DEF UnwindClause
<1>3. PICK sub, last : last = << Bind("BindIterator", NewName) >> /\ sub = list \o last
  OBVIOUS
<1>4. HeadClause = "UnwindClause" /\ todo # << >> /\ todo' = sub \o Tail(todo)
  BY <1>2, <1>3, HeadIs DEF Generate
<1>5. NewName \in Nat
  BY NewNameIsNat DEF UnwindClause
<1>6. list \in NextTodo /\ last \in NextTodo
  BY <1>1, <1>3, <1>5, NextTodos, NextEntries DEF ClauseNames
<1>7. sub \in NextTodo
  BY <1>1, <1>3, <1>6, NextTodos
<1>8. Kinds(sub) \subseteq {"Expression", "BindIterator"}
  <2>1. Kinds(sub) = Kinds(list) \cup Kinds(last)
    BY <1>3, <1>6, NextKinds
  <2>2. Kinds(last) = {"BindIterator"}
    BY <1>3, KindsOfLists, ClauseKinds
  <2> QED
    BY <2>1, <2>2, OptionalKinds
<1>9. Continues(sub) /\ Returns(sub)
  <2>1. HeadClause \notin Popping \cup PartEnds /\ HeadClause \notin Returning
    BY <1>4 DEF Popping, PartEnds, Ends, Returning, Tails
  <2>2. Kinds(sub) \subseteq Plain
    BY <1>8 DEF Plain
  <2> QED
    BY <2>1, <2>2, PlainContinues DEF Returns
<1> QED
  BY <1>1, <1>4, <1>7, <1>9, Choosing DEF UnwindClause

LEMMA WithAgrees ==
  ASSUME IInv, IInv', WithClause \/ WithElementChain, NEW lv, NEW owed, Scoped(lv, owed)
  PROVE  ScopesAgree'
<1>1. CASE WithClause
  <2>1. Kept /\ MapsKept
    BY <1>1, KeptNow DEF WithClause, MapsKept
  <2>2. PICK list \in Optional("WithElementChain") : Generate("WithClause", list)
    BY <1>1 DEF WithClause
  <2>3. HeadClause = "WithClause" /\ todo # << >> /\ todo' = list \o Tail(todo)
    BY <2>2, HeadIs DEF Generate
  <2>4. list \in NextTodo
    BY <2>1, NextTodos DEF ClauseNames
  <2>5. Continues(list) /\ Returns(list)
    <3>1. HeadClause \notin Popping \cup PartEnds \cup Returning /\ HeadClause \in Withs
      BY <2>3 DEF Popping, PartEnds, Ends, Returning, Tails, Withs
    <3>2. Kinds(list) \subseteq Plain \cup Listing
      BY OptionalKinds DEF Listing
    <3> QED
      BY <3>1, <3>2, PlainContinues DEF Returns
  <2> QED
    BY <1>1, <2>1, <2>3, <2>4, <2>5, Choosing DEF WithClause
<1>2. CASE WithElementChain
  <2>1. Kept /\ MapsKept
    BY <1>2, UseOnly, KeptNow DEF WithElementChain
  <2>2. PICK e \in Optional("Expression"), more \in Optional("WithElementChain") :
          Generate("WithElementChain",
            e \o more \o << Bind(IF more = << >> THEN "LastWithElementEnd" ELSE "WithElementEnd", NewName) >>)
    BY <1>2 DEF WithElementChain
  <2>3. PICK c \in {"LastWithElementEnd", "WithElementEnd"} :
          c = IF more = << >> THEN "LastWithElementEnd" ELSE "WithElementEnd"
    OBVIOUS
  <2>4. PICK sub, begin, last :
          last = << Bind(c, NewName) >> /\ begin = e \o more /\ sub = begin \o last
    OBVIOUS
  <2>5. HeadClause = "WithElementChain" /\ todo # << >> /\ todo' = sub \o Tail(todo)
    BY <2>2, <2>3, <2>4, HeadIs DEF Generate
  <2>6. NewName \in Nat
    BY <1>2, NewNameIsNat DEF WithElementChain
  <2>7. e \in NextTodo /\ more \in NextTodo /\ last \in NextTodo
    BY <2>1, <2>4, <2>6, NextTodos, NextEntries DEF ClauseNames
  <2>8. begin \in NextTodo /\ sub \in NextTodo
    BY <2>1, <2>4, <2>7, NextTodos
  <2>9. Kinds(begin) = Kinds(e) \cup Kinds(more) /\ Kinds(sub) = Kinds(begin) \cup Kinds(last)
    BY <2>4, <2>7, <2>8, NextKinds
  <2>10. Kinds(last) = {c}
    BY <2>4, KindsOfLists, ClauseKinds
  <2>11. Kinds(sub) \subseteq {"Expression", "WithElementChain", c}
    BY <2>9, <2>10, OptionalKinds
  <2>12. Continues(sub) /\ Returns(sub)
    <3>1. HeadClause \notin Popping \cup PartEnds \cup Returning /\ HeadClause \in Withs
      BY <2>5 DEF Popping, PartEnds, Ends, Returning, Tails, Withs
    <3>2. Kinds(sub) \subseteq Plain \cup Listing
      BY <2>11 DEF Listing, Plain
    <3> QED
      BY <3>1, <3>2, PlainContinues DEF Returns
  <2> QED
    BY <1>2, <2>1, <2>5, <2>8, <2>12, Choosing DEF WithElementChain
<1> QED
  BY <1>1, <1>2

LEMMA InnerChanged ==
  ASSUME NEW a, NEW b, NEW c, NEW d, NEW e, Changed(a, b, c, d, e)
  PROVE  Inner'.scope = a /\ Inner'.pattern = b
BY DEF Changed, IsFrame, Inner

LEMMA NothingAdded ==
  ASSUME IInv, todo # << >>
  PROVE  Tail(todo) = << >> \o Tail(todo) /\ << >> \in NextTodo /\ Kinds(<< >>) = {}
<1>1. << >> \in NextTodo
  BY EmptySeq DEF NextTodo
<1>2. Tail(todo) = << >> \o Tail(todo)
  BY HeadTailProperties, ConcatEmptySeq DEF IInv
<1> QED
  BY <1>1, <1>2, KindsOfLists

LEMMA VarsInserted ==
  ASSUME IInv, NEW m \in MapLists, Len(m) = Len(maps), \A i \in 2 .. Len(maps) : m[i] = maps[i],
         NEW ns \in SUBSET Nat, maps' = Insert(m, schema.vars, ns)
  PROVE  /\ Len(maps') = Len(maps)
         /\ maps'[schema.vars] = maps[schema.vars] \cup ns
         /\ \A i \in 2 .. Len(maps) : i # schema.vars => maps'[i] = maps[i]
<1>1. Len(maps) \in Nat /\ schema.vars \in 2 .. Len(maps) /\ schema.vars \in 1 .. Len(m)
  BY EntryVars, VarsAreNames
<1>2. /\ Len(maps') = Len(m)
      /\ \A j \in 1 .. Len(m) :
           maps'[j] = IF j = schema.vars THEN m[schema.vars] \cup ns ELSE m[j]
  <2>1. PICK v \in 1 .. Len(m) : v = schema.vars
    BY <1>1
  <2>2. Len(Insert(m, v, ns)) = Len(m)
    BY InsertKeeps
  <2>3. \A j \in 1 .. Len(m) : Insert(m, v, ns)[j] = IF j = v THEN m[v] \cup ns ELSE m[j]
    BY InsertAt
  <2> QED
    BY <2>1, <2>2, <2>3
<1>3. \A i \in 2 .. Len(maps) : i \in 1 .. Len(m)
  BY <1>1
<1> QED
  BY <1>1, <1>2, <1>3

LEMMA HeadNotIn ==
  ASSUME HeadClause \in {"PathPatternExpression", "BindIterator", "CreateClause", "CreateElement",
                         "CreateEnd", "MergeClause", "MergeEnd", "LastWithElementEnd",
                         "WithElementEnd", "CallSubqueryClause", "ForeachClause", "Predicate",
                         "SimpleSubqueryExpressionBody", "SubqueryExpression",
                         "SubqueryExpressionBodyPart"}
  PROVE  HeadClause \notin Popping \cup PartEnds \cup Returning
BY DEF Popping, PartEnds, Ends, Returning, Tails

LEMMA PathPatternAgrees ==
  ASSUME IInv, IInv', PathPatternExpression, NEW lv, NEW owed, Scoped(lv, owed)
  PROVE  ScopesAgree'
<1>1. PICK sub \in Optional("Expression") \cup Optional("PathPatternExpression") :
        Generate("PathPatternExpression", sub)
  BY DEF PathPatternExpression
<1>2. HeadClause = "PathPatternExpression" /\ todo # << >> /\ todo' = sub \o Tail(todo)
  BY <1>1, HeadIs DEF Generate
<1>3. Continues(sub) /\ Returns(sub)
  <2>1. HeadClause \notin Popping \cup PartEnds \cup Returning
    BY <1>2, HeadNotIn
  <2>2. Kinds(sub) \subseteq Plain
    <3>1. Kinds(sub) \subseteq {"Expression"} \/ Kinds(sub) \subseteq {"PathPatternExpression"}
      BY OptionalKinds
    <3> QED
      BY <3>1 DEF Plain
  <2> QED
    BY <2>1, <2>2, PlainContinues DEF Returns
<1>4. Kept => sub \in NextTodo
  BY <1>1, NextTodos DEF ClauseNames
<1>5. CASE UNCHANGED <<maps, frames, taken>>
  <2>1. Kept /\ MapsKept
    BY <1>5, KeptNow DEF MapsKept
  <2> QED
    BY <1>2, <1>3, <1>4, <1>5, <2>1, Choosing DEF PathPatternExpression
<1>6. CASE /\ TakeNewName
           /\ maps' = Insert(Use(maps, NewName), schema.vars, {NewName})
           /\ Declare(NewName)
  <2>1. PICK m : m = Use(maps, NewName)
    OBVIOUS
  <2>2. {NewName} \in SUBSET Nat
    BY <1>6, NewNameIsNat
  <2>3. m \in MapLists /\ Len(m) = Len(maps) /\ \A i \in 2 .. Len(maps) : m[i] = maps[i]
    BY <1>6, <2>1, UseKeepsMaps DEF IInv
  <2>4. /\ Len(maps') = Len(maps)
        /\ maps'[schema.vars] = maps[schema.vars] \cup {NewName}
        /\ \A i \in 2 .. Len(maps) : i # schema.vars => maps'[i] = maps[i]
    BY <1>6, <2>1, <2>2, <2>3, VarsInserted
  <2>5. /\ FramesOK'
        /\ Changed(Inner.scope \cup {NewName}, Inner.pattern, Inner.returned, Inner.parts, Inner.unions)
    BY <1>6, <2>2, ScopeChanged DEF Declare, Scoped
  <2>6. schema' = schema
    BY DEF PathPatternExpression
  <2>7. InScope => InScope'
    BY <2>4, <2>5, <2>6, InnerChanged DEF InScope
  <2>8. sub \in NextTodo
    BY <1>4, <2>4, KeptNow
  <2> QED
    BY <1>2, <1>3, <2>4, <2>5, <2>6, <2>7, <2>8, Inside
<1> QED
  BY <1>5, <1>6 DEF PathPatternExpression

LEMMA BindIteratorAgrees ==
  ASSUME IInv, IInv', BindIterator, NEW lv, NEW owed, Scoped(lv, owed)
  PROVE  ScopesAgree'
<1>1. Due("BindIterator") /\ todo' = Tail(todo)
  BY DEF BindIterator, ModifySchema
<1>2. HeadClause = "BindIterator" /\ todo # << >>
  BY <1>1, HeadIs
<1>3. << >> \in NextTodo /\ todo' = << >> \o Tail(todo) /\ Kinds(<< >>) = {}
  BY <1>1, <1>2, NothingAdded
<1>4. Continues(<< >>) /\ Returns(<< >>)
  BY <1>2, <1>3, HeadNotIn, PlainContinues DEF Returns
<1>5. {Name} \in SUBSET Nat
  BY <1>1, HeadShape
<1>6. /\ maps'[schema.vars] = maps[schema.vars] \cup {Name}
      /\ \A i \in 2 .. Len(maps) : i # schema.vars => maps'[i] = maps[i]
  BY <1>5, VarsInserted DEF BindIterator, IInv
<1>7. /\ FramesOK'
      /\ Changed(Inner.scope \cup {Name}, Inner.pattern, Inner.returned, Inner.parts, Inner.unions)
  BY <1>5, ScopeChanged DEF BindIterator, Declare, Scoped
<1>8. schema' = schema
  BY DEF BindIterator
<1>9. InScope => InScope'
  BY <1>6, <1>7, <1>8, InnerChanged DEF InScope
<1> QED
  BY <1>2, <1>3, <1>4, <1>6, <1>7, <1>8, <1>9, Inside

LEMMA CreateAgrees ==
  ASSUME IInv, IInv', CreateClause \/ CreateEnd, NEW lv, NEW owed, Scoped(lv, owed)
  PROVE  ScopesAgree'
<1>1. CASE CreateClause
  <2>1. PICK sub : sub = << Clause("CreateElement"), Clause("CreateEnd") >>
    OBVIOUS
  <2>2. Generate("CreateClause", sub)
    BY <1>1, <2>1 DEF CreateClause
  <2>3. HeadClause = "CreateClause" /\ todo # << >> /\ todo' = sub \o Tail(todo)
    BY <2>2, HeadIs DEF Generate
  <2>4. Kept /\ UNCHANGED <<maps, frames, taken>> /\ schema' = [schema EXCEPT !.justCreated = {}]
    BY <1>1, KeptNow DEF CreateClause
  <2>5. sub \in NextTodo
    BY <2>1, <2>4, NextTodos, NextEntries DEF ClauseNames
  <2>6. Continues(sub) /\ Returns(sub)
    <3>1. HeadClause \notin Popping \cup PartEnds \cup Returning /\ HeadClause \in Writing
      BY <2>3, HeadNotIn DEF Writing
    <3>2. Kinds(sub) \subseteq Plain \cup Writing
      BY <2>1, ClauseLists DEF Plain, Writing
    <3> QED
      BY <3>1, <3>2, PlainContinues DEF Returns
  <2>7. /\ schema'.vars = schema.vars /\ schema'.justCreated = {} /\ OwedBy(schema') = OwedBy(schema)
    <3>1. schema \in Shared(Len(maps))
      BY DEF IInv
    <3> QED
      BY <2>4, <3>1 DEF Shared, OwedBy
  <2>8. FramesOK' /\ Changed(Inner.scope, Inner.pattern, Inner.returned, Inner.parts, Inner.unions)
    BY <2>4, SameFrames DEF Scoped
  <2>9. InScope => InScope'
    BY <2>4, <2>7, <2>8, InnerChanged DEF InScope
  <2> QED
    BY <2>3, <2>4, <2>5, <2>6, <2>7, <2>8, <2>9, Inside
<1>2. CASE CreateEnd
  <2>1. Due("CreateEnd") /\ todo' = Tail(todo)
    BY <1>2 DEF CreateEnd, ModifySchema
  <2>2. HeadClause = "CreateEnd" /\ todo # << >>
    BY <2>1, HeadIs
  <2>3. << >> \in NextTodo /\ todo' = << >> \o Tail(todo) /\ Kinds(<< >>) = {}
    BY <2>1, <2>2, NothingAdded
  <2>4. Continues(<< >>) /\ Returns(<< >>)
    BY <2>2, <2>3, HeadNotIn, PlainContinues DEF Returns
  <2>5. schema.justCreated \in SUBSET Nat
    BY DEF IInv, Shared
  <2>6. /\ maps'[schema.vars] = maps[schema.vars] \cup schema.justCreated
        /\ \A i \in 2 .. Len(maps) : i # schema.vars => maps'[i] = maps[i]
    BY <1>2, <2>5, VarsInserted DEF CreateEnd, IInv
  <2>7. /\ FramesOK'
        /\ Changed(Inner.scope \cup Inner.pattern, {}, Inner.returned, Inner.parts, Inner.unions)
    BY <1>2, PatternChanged DEF CreateEnd, Scoped
  <2>8. schema' = schema
    BY <1>2 DEF CreateEnd
  <2>9. InScope => InScope'
    BY <2>6, <2>7, <2>8, InnerChanged DEF InScope
  <2> QED
    BY <2>2, <2>3, <2>4, <2>6, <2>7, <2>8, <2>9, Inside
<1> QED
  BY <1>1, <1>2

LEMMA CreateElementAgrees ==
  ASSUME IInv, IInv', CreateElement, NEW lv, NEW owed, Scoped(lv, owed)
  PROVE  ScopesAgree'
<1>1. PICK sub \in Optional("Expression") \cup Optional("CreateElement") :
        Generate("CreateElement", sub)
  BY DEF CreateElement
<1>2. HeadClause = "CreateElement" /\ todo # << >> /\ todo' = sub \o Tail(todo)
  BY <1>1, HeadIs DEF Generate
<1>3. HeadClause \in Writing
  BY <1>2 DEF Writing
<1>4. Continues(sub) /\ Returns(sub)
  <2>1. HeadClause \notin Popping \cup PartEnds \cup Returning
    BY <1>2, HeadNotIn
  <2>2. Kinds(sub) \subseteq Plain \cup Writing
    <3>1. Kinds(sub) \subseteq {"Expression"} \/ Kinds(sub) \subseteq {"CreateElement"}
      BY OptionalKinds
    <3> QED
      BY <3>1 DEF Plain, Writing
  <2> QED
    BY <1>3, <2>1, <2>2, PlainContinues DEF Returns
<1>5. Kept => sub \in NextTodo
  BY <1>1, NextTodos DEF ClauseNames
<1>6. CASE UNCHANGED <<schema, maps, frames, taken>>
  <2>1. Kept /\ MapsKept
    BY <1>6, KeptNow DEF MapsKept
  <2> QED
    BY <1>2, <1>4, <1>5, <1>6, <2>1, Choosing
<1>7. CASE /\ TakeNewName
           /\ maps' = Use(maps, NewName)
           /\ schema' = [schema EXCEPT !.justCreated = @ \cup {NewName}]
           /\ frames' = [frames EXCEPT ![Depth].pattern = @ \cup {NewName}]
  <2>1. {NewName} \in SUBSET Nat
    BY <1>7, NewNameIsNat
  <2>2. MapsKept /\ Len(maps') = Len(maps)
    BY <1>7, UseOnly
  <2>3. /\ FramesOK'
        /\ Changed(Inner.scope, Inner.pattern \cup {NewName}, Inner.returned, Inner.parts, Inner.unions)
    BY <1>7, <2>1, PatternChanged DEF Scoped
  <2>4. /\ schema'.vars = schema.vars /\ schema'.justCreated = schema.justCreated \cup {NewName}
        /\ OwedBy(schema') = OwedBy(schema)
    <3>1. schema \in Shared(Len(maps))
      BY DEF IInv
    <3> QED
      BY <1>7, <3>1 DEF Shared, OwedBy
  <2>5. maps'[schema.vars] = maps[schema.vars]
    BY <2>2, EntryVars DEF MapsKept
  <2>6. InScope => InScope'
    BY <2>3, <2>4, <2>5, InnerChanged DEF InScope
  <2>7. sub \in NextTodo
    BY <1>5, <2>2, KeptNow
  <2>8. \A i \in 2 .. Len(maps) : i # schema.vars => maps'[i] = maps[i]
    BY <2>2 DEF MapsKept
  <2> QED
    BY <1>2, <1>3, <1>4, <2>3, <2>4, <2>6, <2>7, <2>8, Inside
<1> QED
  BY <1>6, <1>7 DEF CreateElement

LEMMA MergeAgrees ==
  ASSUME IInv, IInv', MergeClause \/ MergeEnd, NEW lv, NEW owed, Scoped(lv, owed)
  PROVE  ScopesAgree'
<1>1. schema \in Shared(Len(maps))
  BY DEF IInv
<1>2. CASE MergeClause
  <2>1. PICK set \in Optional("Expression") :
          Generate("MergeClause",
            << Clause("CreateElement") >> \o set \o << Restore("MergeEnd", schema) >>)
    BY <1>2 DEF MergeClause
  <2>2. PICK sub, first, begin, last :
          /\ first = << Clause("CreateElement") >> /\ begin = first \o set
          /\ last = << Restore("MergeEnd", schema) >> /\ sub = begin \o last
    OBVIOUS
  <2>3. HeadClause = "MergeClause" /\ todo # << >> /\ todo' = sub \o Tail(todo)
    BY <2>1, <2>2, HeadIs DEF Generate
  <2>4. Kept /\ UNCHANGED <<maps, frames, taken>> /\ schema' = [schema EXCEPT !.inMerge = TRUE]
    BY <1>2, KeptNow DEF MergeClause
  <2>5. first \in NextTodo /\ set \in NextTodo /\ last \in NextTodo
    BY <2>2, <2>4, NextTodos, NextEntries, OldSchemas DEF ClauseNames
  <2>6. begin \in NextTodo /\ sub \in NextTodo
    BY <2>2, <2>4, <2>5, NextTodos
  <2>7. Continues(sub) /\ Returns(sub)
    <3>1. HeadClause \notin Popping \cup PartEnds \cup Returning /\ HeadClause \in Writing
      BY <2>3, HeadNotIn DEF Writing
    <3>2. Kinds(sub) = Kinds(begin) \cup Kinds(last) /\ Kinds(begin) = Kinds(first) \cup Kinds(set)
      BY <2>2, <2>5, <2>6, NextKinds
    <3>3. Kinds(first) = {"CreateElement"} /\ Kinds(last) = {"MergeEnd"} /\ Kinds(set) \subseteq {"Expression"}
      BY <2>2, ClauseLists, KindsOfLists, ClauseKinds, OptionalKinds
    <3>4. Kinds(sub) \subseteq Plain \cup Writing
      BY <3>2, <3>3 DEF Plain, Writing
    <3> QED
      BY <3>1, <3>4, PlainContinues DEF Returns
  <2>8. /\ schema'.vars = schema.vars /\ schema'.justCreated = schema.justCreated
        /\ OwedBy(schema') = OwedBy(schema)
    BY <1>1, <2>4 DEF Shared, OwedBy
  <2>9. FramesOK' /\ Changed(Inner.scope, Inner.pattern, Inner.returned, Inner.parts, Inner.unions)
    BY <2>4, SameFrames DEF Scoped
  <2>10. InScope => InScope'
    BY <2>4, <2>8, <2>9, InnerChanged DEF InScope
  <2> QED
    BY <2>3, <2>4, <2>6, <2>7, <2>8, <2>9, <2>10, Inside
<1>3. CASE MergeEnd
  <2>1. Due("MergeEnd") /\ todo' = Tail(todo) /\ UNCHANGED <<maps, taken>>
        /\ schema' = [schema EXCEPT !.inMerge = Old.inMerge]
    BY <1>3 DEF MergeEnd, ModifySchema
  <2>2. HeadClause = "MergeEnd" /\ todo # << >>
    BY <2>1, HeadIs
  <2>3. << >> \in NextTodo /\ todo' = << >> \o Tail(todo) /\ Kinds(<< >>) = {}
    BY <2>1, <2>2, NothingAdded
  <2>4. Continues(<< >>) /\ Returns(<< >>)
    BY <2>2, <2>3, HeadNotIn, PlainContinues DEF Returns
  <2>5. /\ schema'.vars = schema.vars /\ schema'.justCreated = schema.justCreated
        /\ OwedBy(schema') = OwedBy(schema)
    BY <1>1, <2>1 DEF Shared, OwedBy
  <2>6. /\ FramesOK'
        /\ Changed(Inner.scope \cup Inner.pattern, {}, Inner.returned, Inner.parts, Inner.unions)
    BY <1>3, PatternChanged DEF MergeEnd, Scoped
  <2>7. InScope => InScope'
    BY <2>1, <2>5, <2>6, InnerChanged DEF InScope
  <2> QED
    BY <2>1, <2>2, <2>3, <2>4, <2>5, <2>6, <2>7, Inside
<1> QED
  BY <1>2, <1>3

LEMMA WithElementEndAgrees ==
  ASSUME IInv, IInv', WithElementEnd, NEW lv, NEW owed, Scoped(lv, owed)
  PROVE  ScopesAgree'
<1>1. PICK c \in {"LastWithElementEnd", "WithElementEnd"} : Due(c) /\ todo' = Tail(todo)
  BY DEF WithElementEnd, ModifySchema
<1>2. HeadClause \in {"LastWithElementEnd", "WithElementEnd"} /\ todo # << >>
  BY <1>1, HeadIs
<1>3. << >> \in NextTodo /\ todo' = << >> \o Tail(todo) /\ Kinds(<< >>) = {}
  BY <1>1, <1>2, NothingAdded
<1>4. Continues(<< >>) /\ Returns(<< >>)
  BY <1>2, <1>3, HeadNotIn, PlainContinues DEF Returns
<1>5. {Name} \in SUBSET Nat
  BY <1>1, HeadShape
<1>6. schema' = ResetContext.schema /\ maps' = ResetContext.maps
  BY DEF WithElementEnd, Become
<1>7. /\ maps'[Len(maps) + 1] = {}
      /\ \A i \in 2 .. Len(maps) : i # schema.vars => maps'[i] = maps[i]
  BY <1>6, ContextMaps DEF Extended
<1>8. /\ schema'.vars = Len(maps) + 1 /\ schema'.justCreated = schema.justCreated
      /\ OwedBy(schema') = OwedBy(schema)
  <2>1. schema \in Shared(Len(maps))
    BY DEF IInv
  <2> QED
    BY <1>6, <2>1 DEF ResetContext, Shared, OwedBy
<1>9. PICK scope : /\ FramesOK'
                   /\ Changed(scope, Inner.pattern, Inner.returned, Inner.parts, Inner.unions)
  BY <1>5, ScopeChanged DEF WithElementEnd, Declare, Scoped
<1>10. schema.justCreated = {}
  BY <1>2, HeadHas DEF Keeps, HeadClause, Withs, Depth
<1>11. InScope'
  BY <1>7, <1>8, <1>10 DEF InScope
<1> QED
  BY <1>2, <1>3, <1>4, <1>7, <1>8, <1>9, <1>11, Inside

LEMMA ReturnAgrees ==
  ASSUME IInv, IInv', Return, NEW lv, NEW owed, Scoped(lv, owed)
  PROVE  ScopesAgree'
<1>1. PICK sub \in Optional("Expression") : Generate("Return", sub)
  BY DEF Return
<1>2. HeadClause = "Return" /\ todo # << >> /\ todo' = sub \o Tail(todo) /\ schema' = schema
  BY <1>1, HeadIs DEF Generate, Return
<1>3. MapsKept /\ Len(maps') = Len(maps)
  BY UseOnly DEF Return, MapsKept
<1>4. sub \in NextTodo
  BY <1>3, KeptNow, NextTodos DEF ClauseNames
<1>5. Continues(sub)
  <2>1. HeadClause \notin Popping \cup PartEnds
    BY <1>2 DEF Popping, PartEnds, Ends
  <2>2. Kinds(sub) \subseteq Plain
    BY OptionalKinds DEF Plain
  <2> QED
    BY <2>1, <2>2, PlainContinues
<1>6. PICK returned \in SUBSET Nat :
        /\ frames' = [frames EXCEPT ![Depth].returned = returned]
        /\ schema.mustReturn => returned = schema.columns
  <2>1. CASE schema.mustReturn /\ frames' = [frames EXCEPT ![Depth].returned = schema.columns]
    <3>1. schema.columns \in SUBSET Nat
      BY DEF IInv, Shared
    <3> QED
      BY <2>1, <3>1
  <2>2. CASE ~schema.mustReturn /\ frames' = [frames EXCEPT ![Depth].returned = Inner.scope]
    <3>1. Inner.scope \in SUBSET Nat
      BY InnerIsFrame DEF Scoped, Frames
    <3> QED
      BY <2>2, <3>1
  <2>3. CASE /\ ~schema.mustReturn /\ TakeNewName
             /\ frames' = [frames EXCEPT ![Depth].returned = {NewName}]
    <3>1. {NewName} \in SUBSET Nat
      BY <2>3, NewNameIsNat
    <3> QED
      BY <2>3, <3>1
  <2> QED
    BY <2>1, <2>2, <2>3 DEF Return
<1>7. FramesOK' /\ Changed(Inner.scope, Inner.pattern, returned, Inner.parts, Inner.unions)
  BY <1>6, PartChanged DEF Scoped
<1>8. InScope => InScope'
  <2>1. maps'[schema.vars] = maps[schema.vars]
    BY <1>3, EntryVars DEF MapsKept
  <2> QED
    BY <1>2, <1>7, <2>1, InnerChanged DEF InScope
<1>9. \A i \in 2 .. Len(maps) : i # schema.vars => maps'[i] = maps[i]
  BY <1>3 DEF MapsKept
<1> QED
  BY <1>2, <1>4, <1>5, <1>6, <1>7, <1>8, <1>9, Inside

-----------------------------------------------------------------------------
(* The steps that open and close scopes. *)

LEMMA ScopeEndAgrees ==
  ASSUME IInv, IInv', ScopeEnd \/ PredicateEnd \/ BodyPartEnd \/ CallSubqueryEnd,
         NEW lv, NEW owed, Scoped(lv, owed)
  PROVE  ScopesAgree'
<1>1. PICK c \in Popping : Due(c) /\ todo' = Tail(todo)
                           /\ (BodyPartEnd => c = "BodyPartEnd")
                           /\ (CallSubqueryEnd => c = "CallSubqueryEnd")
  <2>1. CASE ScopeEnd
    BY <2>1 DEF ScopeEnd, BodyPartEnd, CallSubqueryEnd, ModifySchema, Popping, Due
  <2>2. CASE PredicateEnd
    BY <2>2 DEF PredicateEnd, BodyPartEnd, CallSubqueryEnd, ModifySchema, Popping, Due
  <2>3. CASE BodyPartEnd
    BY <2>3 DEF BodyPartEnd, CallSubqueryEnd, ModifySchema, Popping, Due
  <2>4. CASE CallSubqueryEnd
    BY <2>4 DEF BodyPartEnd, CallSubqueryEnd, ModifySchema, Popping, Due
  <2> QED
    BY <2>1, <2>2, <2>3, <2>4
<1>2. HeadClause = c /\ todo # << >>
  BY <1>1, HeadIs
<1>3. FramesOK /\ Depth >= 2
  BY <1>2, HeadHas DEF Scoped
<1>4. Old \in Shared(Len(maps))
  BY <1>1, HeadShape
<1>5. /\ OwedBy(schema') = OwedBy(Old)
      /\ schema'.vars = Old.vars /\ schema'.justCreated = Old.justCreated
  <2>1. schema' = Old \/ schema' = [Old EXCEPT !.usedNames = schema.usedNames]
    BY DEF ScopeEnd, PredicateEnd, BodyPartEnd, CallSubqueryEnd
  <2> QED
    BY <1>4, <2>1 DEF Shared, OwedBy
<1>6. CASE ScopeEnd \/ PredicateEnd
  <2>1. maps' = maps /\ frames' = Popped
    BY <1>6 DEF ScopeEnd, PredicateEnd
  <2>2. Below.scope \cup {} = Below.scope
    OBVIOUS
  <2>3. /\ FramesOK'
        /\ PoppedTo(Below.scope \cup {}, Below.pattern, Below.returned, Below.parts, Below.unions)
    BY <1>3, <2>1, <2>2, JustPopped
  <2>4. maps'[Old.vars] \subseteq maps[Old.vars] \cup {}
    BY <2>1
  <2> QED
    BY <1>1, <1>2, <1>5, <2>1, <2>3, <2>4, Closing
<1>7. CASE BodyPartEnd
  <2>1. /\ maps' = maps
        /\ frames' = [Popped EXCEPT ![Depth - 1].parts = @ \cup {Inner.returned}]
    BY <1>7 DEF BodyPartEnd
  <2>2. Below.scope \cup {} = Below.scope
    OBVIOUS
  <2>3. /\ FramesOK'
        /\ PoppedTo(Below.scope \cup {}, Below.pattern, Below.returned,
                    Below.parts \cup {Inner.returned}, Below.unions)
    BY <1>3, <2>1, <2>2, PoppedAndJoined
  <2>4. maps'[Old.vars] \subseteq maps[Old.vars] \cup {}
    BY <2>1
  <2> QED
    BY <1>1, <1>2, <1>5, <1>7, <2>1, <2>3, <2>4, Closing
<1>8. CASE CallSubqueryEnd
  <2>1. /\ maps' = Insert(maps, Old.vars, Returned)
        /\ frames' = [Popped EXCEPT ![Depth - 1].scope = @ \cup Inner.returned]
    BY <1>8 DEF CallSubqueryEnd, Insert
  <2>2. Returned \subseteq Inner.returned /\ Returned \in SUBSET Nat
    <3>1. schema.columns \in SUBSET Nat
      BY DEF IInv, Shared
    <3>2. Settled("CallSubqueryEnd", Inner, owed[Depth])
      BY <1>1, <1>2, <1>8, HeadHas DEF PartEnds, Ends
    <3>3. owed[Depth].mustReturn = schema.mustReturn /\ owed[Depth].columns = schema.columns
      BY <1>2, HeadHas DEF OwedBy
    <3> QED
      BY <3>1, <3>2, <3>3 DEF Settled, Returned
  <2>3. /\ maps'[Old.vars] = maps[Old.vars] \cup Returned
        /\ \A i \in 2 .. Len(maps) : i # Old.vars => maps'[i] = maps[i]
    <3>1. PICK v : v = Old.vars
      OBVIOUS
    <3>2. v \in 1 .. Len(maps) /\ maps \in MapLists /\ \A i \in 2 .. Len(maps) : i \in 1 .. Len(maps)
      <4>1. Len(maps) \in Nat
        BY EntryVars
      <4> QED
        BY <1>4, <3>1, <4>1 DEF IInv, Shared
    <3>3. \A j \in 1 .. Len(maps) :
            Insert(maps, v, Returned)[j] = IF j = v THEN maps[v] \cup Returned ELSE maps[j]
      BY <2>2, <3>2, InsertAt
    <3> QED
      BY <2>1, <3>1, <3>2, <3>3
  <2>4. /\ FramesOK'
        /\ PoppedTo(Below.scope \cup Inner.returned, Below.pattern, Below.returned, Below.parts,
                    Below.unions)
    BY <1>3, <2>1, PoppedAndJoined
  <2>5. maps'[Old.vars] \subseteq maps[Old.vars] \cup Inner.returned
    BY <2>2, <2>3
  <2> QED
    BY <1>1, <1>2, <1>5, <2>3, <2>4, <2>5, Closing
<1> QED
  BY <1>6, <1>7, <1>8

LEMMA ContextFields ==
  ASSUME IInv, NEW s \in {NewContext.schema, NewSubContext.schema}
  PROVE  /\ s \in Shared(Len(maps) + 1)
         /\ s.vars = Len(maps) + 1 /\ s.justCreated = {} /\ s.columns = {}
         /\ s.mustReturn = FALSE /\ s.isUnionAll = "undecided"
<1>1. s \in Shared(Len(maps) + 1)
  BY ContextsGrow DEF Grown
<1>2. s = Fresh(schema) /\ schema \in Shared(Len(maps))
  BY DEF NewContext, NewSubContext, IInv
<1>3. /\ Fresh(schema).vars = Len(maps) + 1 /\ Fresh(schema).justCreated = {}
      /\ Fresh(schema).columns = {} /\ Fresh(schema).mustReturn = FALSE
      /\ Fresh(schema).isUnionAll = "undecided"
  BY <1>2 DEF Fresh, Shared
<1> QED
  BY <1>1, <1>2, <1>3

LEMMA PopulateFields ==
  ASSUME NEW n, NEW h, h.schema \in Shared(n), Populate(h)
  PROVE  /\ schema'.vars = h.schema.vars /\ schema'.justCreated = h.schema.justCreated
         /\ schema'.isUnionAll = h.schema.isUnionAll
         /\ schema'.mustReturn = TRUE /\ schema'.columns # {}
         /\ TakeNewName /\ maps' = Use(h.maps, NewName)
BY DEF Populate, Shared

(* The scope of a subcontext, in place of the schema that is put back. *)
LEMMA OpeningFresh ==
  ASSUME IInv, IInv', todo # << >>, NEW lv, NEW owed, Scoped(lv, owed), FramesOK',
         NEW body \in NextTodo, NEW c \in {"ScopeEnd", "BodyPartEnd", "CallSubqueryEnd"},
         todo' = (body \o << Restore(c, schema) >>) \o Tail(todo),
         NEW scope, NEW unions, Pushed(scope, {}, unions),
         Opens(body, c), Settles(body, c), Unites(body, unions),
         NEW ns, Extended(maps', ns), InScope => ns \subseteq scope,
         schema'.vars = Len(maps) + 1, schema'.justCreated = {}
  PROVE  ScopesAgree'
<1>1. PICK e : e = Restore(c, schema)
  OBVIOUS
<1>2. e.clause = c /\ e.old = schema
  BY <1>1, ClauseKinds
<1>3. Kept
  BY KeptNow DEF Extended
<1>4. e \in NextEntry
  BY <1>1, <1>3, NextEntries, OldSchemas DEF ClauseNames
<1>5. MapsKept /\ maps'[schema.vars] = maps[schema.vars]
  BY EntryVars DEF MapsKept, Extended
<1>6. schema.vars # schema'.vars
  BY EntryVars
<1>7. InScope => InScope'
  <2>1. Inner'.scope = scope
    BY DEF Pushed, IsFrame, Inner
  <2> QED
    BY <2>1 DEF InScope, Extended
<1>8. c \in Popping
  BY DEF Popping
<1> QED
  BY <1>1, <1>2, <1>4, <1>5, <1>6, <1>7, <1>8, Opening DEF MapsKept

(* The context of a scope, with or without columns to return. *)
LEMMA ContextEntered ==
  ASSUME IInv, NEW h, h.schema \in Shared(Len(maps) + 1), h.schema.vars = Len(maps) + 1,
         h.schema.justCreated = {}, h.schema.columns = {}, h.schema.mustReturn = FALSE,
         NEW ns, Extended(h.maps, ns), Populate(h) \/ Become(h)
  PROVE  /\ Extended(maps', ns) /\ schema'.vars = Len(maps) + 1 /\ schema'.justCreated = {}
         /\ schema'.mustReturn <=> schema'.columns # {}
         /\ Populate(h) => schema'.mustReturn
<1>1. CASE Populate(h)
  <2>1. PICK n : n = Len(maps) + 1
    OBVIOUS
  <2>2. /\ schema'.vars = h.schema.vars /\ schema'.justCreated = h.schema.justCreated
        /\ schema'.mustReturn = TRUE /\ schema'.columns # {}
        /\ TakeNewName /\ maps' = Use(h.maps, NewName)
    BY <1>1, <2>1, PopulateFields
  <2>3. Extended(maps', ns)
    BY <2>2, UseExtends
  <2> QED
    BY <2>2, <2>3
<1>2. CASE Become(h) /\ ~Populate(h)
  BY <1>2 DEF Become
<1> QED
  BY <1>1, <1>2

LEMMA SubContextEntered ==
  ASSUME IInv, Populate(NewSubContext) \/ Become(NewSubContext)
  PROVE  /\ Extended(maps', maps[schema.vars])
         /\ schema'.vars = Len(maps) + 1 /\ schema'.justCreated = {}
         /\ schema'.mustReturn <=> schema'.columns # {}
         /\ Populate(NewSubContext) => schema'.mustReturn
<1>1. Extended(NewSubContext.maps, maps[schema.vars])
  BY ContextMaps
<1>2. /\ NewSubContext.schema \in Shared(Len(maps) + 1)
      /\ NewSubContext.schema.vars = Len(maps) + 1
      /\ NewSubContext.schema.justCreated = {} /\ NewSubContext.schema.columns = {}
      /\ NewSubContext.schema.mustReturn = FALSE
  BY ContextFields
<1> QED
  BY <1>1, <1>2, ContextEntered

(* A scope in which nothing is returned. *)
LEMMA PlainOpens ==
  ASSUME NEW body, NEW c \in Popping, c # "BodyPartEnd", c # "CallSubqueryEnd",
         HeadClause \notin Popping \cup PartEnds \cup Returning,
         Kinds(body) \subseteq Plain \cup Writing \cup {"SubqueryExpressionBodyPart"},
         schema'.mustReturn <=> schema'.columns # {},
         NEW unions, unions # {} => schema'.mustReturn, \A a, b \in unions : a = b
  PROVE  Opens(body, c) /\ Settles(body, c) /\ Unites(body, unions)
<1>1. ASSUME NEW k \in Kinds(body)
      PROVE  k \notin Tails \cup Returning \cup Withs \cup Uniting \cup Restoring \cup {"UnionClause"}
  BY <1>1 DEF Plain, Writing, Tails, Returning, Withs, Uniting, Restoring, Popping
<1>2. c \notin Withs \cup Uniting \cup PartEnds
  BY DEF Popping, Withs, Uniting, PartEnds, Ends
<1>3. ASSUME NEW a \in Kinds(body), NEW b, b \notin Withs \cup Uniting PROVE Pair(a, b)
  BY <1>1, <1>3 DEF Pair, Returning
<1>4. InOrder(body)
  BY <1>1, <1>3, AnyOrder
<1>5. Opens(body, c)
  BY <1>1, <1>2, <1>3, <1>4 DEF Opens
<1>6. Settles(body, c)
  BY <1>1, <1>2 DEF Settles, Returning
<1>7. Unites(body, unions)
  BY <1>1 DEF Unites
<1> QED
  BY <1>5, <1>6, <1>7

LEMMA InnerScopePushed ==
  ASSUME FramesOK, Push(Inner.scope)
  PROVE  FramesOK' /\ Pushed(Inner.scope, {}, {})
<1>1. Inner.scope \in SUBSET Nat
  BY InnerIsFrame DEF Frames
<1> QED
  BY <1>1, ScopePushed

LEMMA SubqueryBodyAgrees ==
  ASSUME IInv, IInv', SimpleSubqueryExpressionBody, NEW lv, NEW owed, Scoped(lv, owed)
  PROVE  ScopesAgree'
<1>1. PICK where \in Optional("Expression") :
        Generate("SimpleSubqueryExpressionBody",
          << Clause("PathPatternExpression") >> \o where \o << Restore("ScopeEnd", schema) >>)
  BY DEF SimpleSubqueryExpressionBody
<1>2. PICK body : body = << Clause("PathPatternExpression") >> \o where
  OBVIOUS
<1>3. /\ HeadClause = "SimpleSubqueryExpressionBody" /\ todo # << >>
      /\ todo' = (body \o << Restore("ScopeEnd", schema) >>) \o Tail(todo)
  BY <1>1, <1>2, HeadIs DEF Generate
<1>4. Become(NewSubContext) /\ Push(Inner.scope)
  BY DEF SimpleSubqueryExpressionBody
<1>5. /\ Extended(maps', maps[schema.vars])
      /\ schema'.vars = Len(maps) + 1 /\ schema'.justCreated = {}
      /\ schema'.mustReturn <=> schema'.columns # {}
  BY <1>4, SubContextEntered
<1>6. Kept
  BY <1>5, KeptNow DEF Extended
<1>7. << Clause("PathPatternExpression") >> \in NextTodo /\ where \in NextTodo
  BY <1>6, NextTodos, NextEntries DEF ClauseNames
<1>8. body \in NextTodo
  BY <1>2, <1>6, <1>7, NextTodos
<1>9. Kinds(body) \subseteq Plain
  <2>1. Kinds(body) = Kinds(<< Clause("PathPatternExpression") >>) \cup Kinds(where)
    BY <1>2, <1>7, NextKinds
  <2> QED
    BY <2>1, ClauseLists, OptionalKinds DEF Plain
<1>10. HeadClause \notin Popping \cup PartEnds \cup Returning
  BY <1>3, HeadNotIn
<1>11. FramesOK' /\ Pushed(Inner.scope, {}, {})
  BY <1>4, InnerScopePushed DEF Scoped
<1>12. Opens(body, "ScopeEnd") /\ Settles(body, "ScopeEnd") /\ Unites(body, {})
  <2>1. "ScopeEnd" \in Popping
    BY DEF Popping
  <2> QED
    BY <1>5, <1>9, <1>10, <2>1, PlainOpens
<1>13. InScope => maps[schema.vars] \subseteq Inner.scope
  BY DEF InScope
<1> QED
  BY <1>3, <1>5, <1>8, <1>11, <1>12, <1>13, OpeningFresh

LEMMA SubqueryExpressionAgrees ==
  ASSUME IInv, IInv', SubqueryExpression, NEW lv, NEW owed, Scoped(lv, owed)
  PROVE  ScopesAgree'
<1>1. PICK must \in BOOLEAN, union \in BOOLEAN :
       /\ frames' = Append(frames,
            [Frame(Inner.scope) EXCEPT !.unions = IF union THEN {"all"} ELSE {}])
       /\ Generate("SubqueryExpression",
            (IF union THEN << Clause("SubqueryExpressionBodyPart") >> ELSE << >>)
              \o << Clause("SubqueryExpressionBodyPart"), Restore("ScopeEnd", schema) >>)
       /\ IF must \/ union THEN Populate(NewSubContext) ELSE Become(NewSubContext)
  BY DEF SubqueryExpression
<1>2. PICK first : first = IF union THEN << Clause("SubqueryExpressionBodyPart") >> ELSE << >>
  OBVIOUS
<1>3. PICK part : part = << Clause("SubqueryExpressionBodyPart") >>
  OBVIOUS
<1>4. PICK e : e = Restore("ScopeEnd", schema)
  OBVIOUS
<1>5. PICK unions : unions = IF union THEN {"all"} ELSE {}
  OBVIOUS
<1>6. /\ Extended(maps', maps[schema.vars])
      /\ schema'.vars = Len(maps) + 1 /\ schema'.justCreated = {}
      /\ schema'.mustReturn <=> schema'.columns # {}
      /\ union => schema'.mustReturn
  BY <1>1, SubContextEntered
<1>7. Kept
  BY <1>6, KeptNow DEF Extended
<1>8. << e >> \in NextTodo /\ part \in NextTodo /\ first \in NextTodo
  <2>1. Clause("SubqueryExpressionBodyPart") \in NextEntry /\ e \in NextEntry
    BY <1>4, <1>7, NextEntries, OldSchemas DEF ClauseNames
  <2> QED
    BY <1>2, <1>3, <1>7, <2>1, NextTodos
<1>9. PICK body : body = first \o part
  OBVIOUS
<1>10. /\ HeadClause = "SubqueryExpression" /\ todo # << >>
       /\ todo' = (body \o << Restore("ScopeEnd", schema) >>) \o Tail(todo)
  <2>1. << Clause("SubqueryExpressionBodyPart"), e >> = part \o << e >>
    BY <1>3
  <2>2. first \o (part \o << e >>) = (first \o part) \o << e >>
    BY <1>8, ConcatAssociative DEF NextTodo
  <2>3. /\ Due("SubqueryExpression")
        /\ todo' = (first \o << Clause("SubqueryExpressionBodyPart"), e >>) \o Tail(todo)
    BY <1>1, <1>2, <1>4 DEF Generate
  <2> QED
    BY <1>4, <1>9, <2>1, <2>2, <2>3, HeadIs
<1>11. body \in NextTodo
  BY <1>7, <1>8, <1>9, NextTodos
<1>12. Kinds(body) \subseteq {"SubqueryExpressionBodyPart"}
  <2>1. Kinds(body) = Kinds(first) \cup Kinds(part)
    BY <1>8, <1>9, NextKinds
  <2>2. Kinds(part) = {"SubqueryExpressionBodyPart"}
    BY <1>3, ClauseLists
  <2>3. first = part \/ first = << >>
    BY <1>2, <1>3
  <2>4. Kinds(first) \subseteq {"SubqueryExpressionBodyPart"}
    BY <2>2, <2>3, KindsOfLists
  <2> QED
    BY <2>1, <2>2, <2>4
<1>13. HeadClause \notin Popping \cup PartEnds \cup Returning
  BY <1>10, HeadNotIn
<1>14. FramesOK' /\ Pushed(Inner.scope, {}, unions)
  <2>1. PICK f : f = [Frame(Inner.scope) EXCEPT !.unions = unions]
    OBVIOUS
  <2>2. Inner.scope \in SUBSET Nat
    BY InnerIsFrame DEF Frames, Scoped
  <2>3. unions \in SUBSET {"all", "distinct"}
    BY <1>5
  <2>4. /\ f \in Frames /\ f.returned = {} /\ f.parts = {} /\ f.scope = Inner.scope
        /\ f.pattern = {} /\ f.unions = unions
    BY <2>1, <2>2, <2>3 DEF Frames, Frame
  <2>5. frames' = Append(frames, f)
    BY <1>1, <1>5, <2>1
  <2>6. FramesOK' /\ Pushed(f.scope, f.pattern, f.unions)
    BY <2>4, <2>5, FramePushed DEF Scoped
  <2> QED
    BY <2>4, <2>6
<1>15. Opens(body, "ScopeEnd") /\ Settles(body, "ScopeEnd") /\ Unites(body, unions)
  <2>1. "ScopeEnd" \in Popping
    BY DEF Popping
  <2>2. (unions # {} => schema'.mustReturn) /\ \A a, b \in unions : a = b
    BY <1>5, <1>6
  <2> QED
    BY <1>6, <1>12, <1>13, <2>1, <2>2, PlainOpens
<1>16. InScope => maps[schema.vars] \subseteq Inner.scope
  BY DEF InScope
<1> QED
  BY <1>6, <1>10, <1>11, <1>14, <1>15, <1>16, OpeningFresh

LEMMA ForeachClauseAgrees ==
  ASSUME IInv, IInv', ForeachClause, NEW lv, NEW owed, Scoped(lv, owed)
  PROVE  ScopesAgree'
<1>1. PICK list \in Optional("Expression") :
       Generate("ForeachClause",
         list \o << Bind("BindIterator", NewName), Clause("ForeachCommand"),
                   Restore("ScopeEnd", schema) >>)
  BY DEF ForeachClause
<1>2. PICK a, b, e : a = Bind("BindIterator", NewName) /\ b = Clause("ForeachCommand")
                     /\ e = Restore("ScopeEnd", schema)
  OBVIOUS
<1>3. PICK h : h = NewSubContext
  OBVIOUS
<1>4. /\ Extended(maps', maps[schema.vars])
      /\ schema'.vars = Len(maps) + 1 /\ schema'.justCreated = {}
      /\ schema'.mustReturn <=> schema'.columns # {}
  <2>1. Extended(h.maps, maps[schema.vars])
    BY <1>3, ContextMaps
  <2>2. TakeNewName /\ maps' = Use(h.maps, NewName) /\ schema' = h.schema
    BY <1>3 DEF ForeachClause
  <2>3. Extended(maps', maps[schema.vars])
    BY <2>1, <2>2, UseExtends
  <2> QED
    BY <1>3, <2>2, <2>3, ContextFields
<1>5. Kept
  BY <1>4, KeptNow DEF Extended
<1>6. PICK bound : bound = << a, b >>
  OBVIOUS
<1>7. << e >> \in NextTodo /\ bound \in NextTodo /\ list \in NextTodo
  <2>1. a \in NextEntry /\ b \in NextEntry /\ e \in NextEntry
    BY <1>2, <1>5, NextEntries, OldSchemas, NewNameIsNat DEF ClauseNames, ForeachClause
  <2>2. "Expression" \in ClauseNames
    BY DEF ClauseNames
  <2> QED
    BY <1>5, <1>6, <2>1, <2>2, NextTodos
<1>8. PICK body : body = list \o bound
  OBVIOUS
<1>9. /\ HeadClause = "ForeachClause" /\ todo # << >>
      /\ todo' = (body \o << Restore("ScopeEnd", schema) >>) \o Tail(todo)
  <2>1. << a, b, e >> = bound \o << e >>
    BY <1>6
  <2>2. list \o (bound \o << e >>) = (list \o bound) \o << e >>
    BY <1>7, ConcatAssociative DEF NextTodo
  <2>3. Due("ForeachClause") /\ todo' = (list \o << a, b, e >>) \o Tail(todo)
    BY <1>1, <1>2 DEF Generate
  <2> QED
    BY <1>2, <1>8, <2>1, <2>2, <2>3, HeadIs
<1>10. body \in NextTodo
  BY <1>5, <1>7, <1>8, NextTodos
<1>11. Kinds(body) \subseteq Plain \cup Writing
  <2>1. Kinds(body) = Kinds(list) \cup Kinds(bound)
    BY <1>7, <1>8, NextKinds
  <2>2. a.clause = "BindIterator" /\ b.clause = "ForeachCommand"
    BY <1>2, ClauseKinds
  <2>3. Kinds(bound) = {"BindIterator", "ForeachCommand"}
    BY <1>6, <2>2, KindsOfLists
  <2>4. Kinds(list) \subseteq {"Expression"}
    BY OptionalKinds
  <2> QED
    BY <2>1, <2>3, <2>4 DEF Plain, Writing
<1>12. HeadClause \notin Popping \cup PartEnds \cup Returning
  BY <1>9, HeadNotIn
<1>13. FramesOK' /\ Pushed(Inner.scope, {}, {})
  BY InnerScopePushed DEF Scoped, ForeachClause
<1>14. Opens(body, "ScopeEnd") /\ Settles(body, "ScopeEnd") /\ Unites(body, {})
  <2>1. "ScopeEnd" \in Popping
    BY DEF Popping
  <2> QED
    BY <1>4, <1>11, <1>12, <2>1, PlainOpens
<1>15. InScope => maps[schema.vars] \subseteq Inner.scope
  BY DEF InScope
<1> QED
  BY <1>4, <1>9, <1>10, <1>13, <1>14, <1>15, OpeningFresh

LEMMA PredicateAgrees ==
  ASSUME IInv, IInv', Predicate, NEW lv, NEW owed, Scoped(lv, owed)
  PROVE  ScopesAgree'
<1>1. PICK list \in Optional("Expression"), where \in Optional("Expression"),
           binds \in {<< >>, << Bind("BindIterator", NewName) >>} :
       Generate("Predicate",
         list \o binds \o where \o << Restore("PredicateEnd", Copy.schema) >>)
  BY DEF Predicate
<1>2. PICK e : e = Restore("PredicateEnd", Copy.schema)
  OBVIOUS
<1>3. PICK body : body = list \o binds \o where
  OBVIOUS
<1>4. /\ HeadClause = "Predicate" /\ todo # << >>
      /\ todo' = (body \o << e >>) \o Tail(todo)
  BY <1>1, <1>2, <1>3, HeadIs DEF Generate
<1>5. Extended(maps', maps[schema.vars]) /\ TakeNewName /\ schema' = schema
  <2>1. PICK m : m = Copy.maps
    OBVIOUS
  <2>2. Extended(m, maps[schema.vars])
    BY <2>1, ContextMaps
  <2>3. TakeNewName /\ maps' = Use(m, NewName)
    BY <2>1 DEF Predicate
  <2> QED
    BY <2>2, <2>3, UseExtends DEF Predicate
<1>6. Kept
  BY <1>5, KeptNow DEF Extended
<1>7. /\ e.clause = "PredicateEnd" /\ e.old.vars = Len(maps) + 1
      /\ e.old.justCreated = schema.justCreated /\ OwedBy(e.old) = OwedBy(schema)
      /\ e \in NextEntry
  <2>1. e.clause = "PredicateEnd" /\ e.old = Copy.schema
    BY <1>2, ClauseKinds
  <2>2. Copy.schema = [schema EXCEPT !.vars = Len(maps) + 1] /\ schema \in Shared(Len(maps))
    BY DEF Copy, IInv
  <2>3. Copy.schema \in NextShared
    BY <1>5, ContextsGrow DEF Grown, Extended, NextShared
  <2> QED
    BY <1>2, <1>6, <2>1, <2>2, <2>3, NextEntries DEF Shared, OwedBy, ClauseNames
<1>8. list \in NextTodo /\ binds \in NextTodo /\ where \in NextTodo
  <2>1. Bind("BindIterator", NewName) \in NextEntry
    BY <1>5, <1>6, NextEntries, NewNameIsNat DEF ClauseNames
  <2>2. "Expression" \in ClauseNames
    BY DEF ClauseNames
  <2> QED
    BY <1>6, <2>1, <2>2, NextTodos
<1>9. list \o binds \in NextTodo /\ body \in NextTodo
  BY <1>3, <1>6, <1>8, NextTodos
<1>10. Kinds(body) \subseteq Plain
  <2>1. Kinds(body) = Kinds(list \o binds) \cup Kinds(where)
    BY <1>3, <1>8, <1>9, NextKinds
  <2>2. Kinds(list \o binds) = Kinds(list) \cup Kinds(binds)
    BY <1>8, NextKinds
  <2>3. Kinds(binds) \subseteq {"BindIterator"}
    <3>1. PICK b : b = Bind("BindIterator", NewName)
      OBVIOUS
    <3>2. b.clause = "BindIterator"
      BY <3>1, ClauseKinds
    <3> QED
      BY <3>1, <3>2, KindsOfLists
  <2>4. Kinds(list) \subseteq {"Expression"} /\ Kinds(where) \subseteq {"Expression"}
    BY OptionalKinds
  <2> QED
    BY <2>1, <2>2, <2>3, <2>4 DEF Plain
<1>11. HeadClause \notin Popping \cup PartEnds \cup Returning
  BY <1>4, HeadNotIn
<1>12. FramesOK' /\ Pushed(Inner.scope, Inner.pattern, {})
  <2>1. PICK f : f = [Frame(Inner.scope) EXCEPT !.pattern = Inner.pattern]
    OBVIOUS
  <2>2. Inner.scope \in SUBSET Nat /\ Inner.pattern \in SUBSET Nat
    BY InnerIsFrame DEF Frames, Scoped
  <2>3. /\ f \in Frames /\ f.returned = {} /\ f.parts = {} /\ f.scope = Inner.scope
        /\ f.pattern = Inner.pattern /\ f.unions = {}
    BY <2>1, <2>2 DEF Frames, Frame
  <2>4. frames' = Append(frames, f)
    BY <2>1 DEF Predicate
  <2>5. FramesOK' /\ Pushed(f.scope, f.pattern, f.unions)
    BY <2>3, <2>4, FramePushed DEF Scoped
  <2> QED
    BY <2>3, <2>5
<1>13. schema'.mustReturn <=> schema'.columns # {}
  BY <1>4, <1>5, HeadHas DEF GoodFrame, OwedBy
<1>14. Opens(body, "PredicateEnd") /\ Settles(body, "PredicateEnd") /\ Unites(body, {})
  <2>1. "PredicateEnd" \in Popping
    BY DEF Popping
  <2> QED
    BY <1>10, <1>11, <1>13, <2>1, PlainOpens
<1>15. /\ \A i \in 2 .. Len(maps) : maps'[i] = maps[i]
       /\ maps'[e.old.vars] = maps[schema.vars] /\ maps'[schema.vars] = maps[schema.vars]
       /\ e.old.vars # schema'.vars
  BY <1>5, <1>7, EntryVars DEF Extended
<1>16. InScope => InScope'
  <2>1. Inner'.scope = Inner.scope /\ Inner'.pattern = Inner.pattern
    BY <1>12 DEF Pushed, IsFrame, Inner
  <2> QED
    BY <1>5, <1>15, <2>1 DEF InScope
<1>17. Kinds(body) \cap Withs = {}
  BY <1>10 DEF Plain, Withs
<1> QED
  BY <1>4, <1>5, <1>7, <1>9, <1>12, <1>14, <1>15, <1>16, <1>17, Opening

LEMMA BodyPartAgrees ==
  ASSUME IInv, IInv', SubqueryExpressionBodyPart, NEW lv, NEW owed, Scoped(lv, owed)
  PROVE  ScopesAgree'
<1>1. PICK with \in Optional("WithClause"), where \in Optional("Expression") :
       Generate("SubqueryExpressionBodyPart",
         with \o << Clause("PathPatternExpression") >> \o where
           \o (IF schema.mustReturn THEN << Clause("Return") >> ELSE << >>)
           \o << Restore("BodyPartEnd", schema) >>)
  BY DEF SubqueryExpressionBodyPart
<1>2. PICK path, ret : /\ path = << Clause("PathPatternExpression") >>
                       /\ ret = IF schema.mustReturn THEN << Clause("Return") >> ELSE << >>
  OBVIOUS
<1>3. PICK first, body : first = with \o path \o where /\ body = first \o ret
  OBVIOUS
<1>4. /\ HeadClause = "SubqueryExpressionBodyPart" /\ todo # << >>
      /\ todo' = (body \o << Restore("BodyPartEnd", schema) >>) \o Tail(todo)
  BY <1>1, <1>2, <1>3, HeadIs DEF Generate
<1>5. /\ Extended(maps', maps[schema.vars])
      /\ schema'.vars = Len(maps) + 1 /\ schema'.justCreated = {}
      /\ schema'.mustReturn = schema.mustReturn /\ schema'.columns = schema.columns
  <2>1. Extended(maps', maps[schema.vars])
    BY ContextMaps DEF SubqueryExpressionBodyPart
  <2>2. PICK s : s = NewSubContext.schema
    OBVIOUS
  <2>3. s \in Shared(Len(maps) + 1) /\ s.vars = Len(maps) + 1 /\ s.justCreated = {}
    BY <2>2, ContextFields
  <2>4. schema' = [s EXCEPT !.mustReturn = schema.mustReturn, !.columns = schema.columns]
    BY <2>2 DEF SubqueryExpressionBodyPart
  <2> QED
    BY <2>1, <2>3, <2>4 DEF Shared
<1>6. Kept
  BY <1>5, KeptNow DEF Extended
<1>7. with \in NextTodo /\ path \in NextTodo /\ where \in NextTodo /\ ret \in NextTodo
      /\ Clause("Return") \in NextEntry
  <2>1. Clause("PathPatternExpression") \in NextEntry /\ Clause("Return") \in NextEntry
    BY <1>6, NextEntries DEF ClauseNames
  <2>2. "Expression" \in ClauseNames /\ "WithClause" \in ClauseNames
    BY DEF ClauseNames
  <2> QED
    BY <1>2, <1>6, <2>1, <2>2, NextTodos
<1>8. with \o path \in NextTodo /\ first \in NextTodo /\ body \in NextTodo
  <2>1. with \o path \in NextTodo
    BY <1>6, <1>7, NextTodos
  <2>2. first \in NextTodo
    BY <1>3, <1>6, <1>7, <2>1, NextTodos
  <2> QED
    BY <1>3, <1>6, <1>7, <2>1, <2>2, NextTodos
<1>9. Kinds(first) \subseteq {"WithClause", "PathPatternExpression", "Expression"}
  <2>1. Kinds(first) = Kinds(with \o path) \cup Kinds(where)
    BY <1>3, <1>7, <1>8, NextKinds
  <2>2. Kinds(with \o path) = Kinds(with) \cup Kinds(path)
    BY <1>7, NextKinds
  <2>3. Kinds(path) = {"PathPatternExpression"}
    BY <1>2, ClauseLists
  <2>4. Kinds(with) \subseteq {"WithClause"} /\ Kinds(where) \subseteq {"Expression"}
    BY OptionalKinds
  <2> QED
    BY <2>1, <2>2, <2>3, <2>4
<1>10. ASSUME NEW a \in Kinds(first), NEW b PROVE Pair(a, b)
  BY <1>9, <1>10 DEF Pair, Tails, Writing
<1>11. Kinds(body) = Kinds(first) \cup Kinds(ret)
  BY <1>3, <1>7, <1>8, NextKinds
<1>12. Kinds(ret) = IF schema.mustReturn THEN {"Return"} ELSE {}
  BY <1>2, ClauseLists, KindsOfLists
<1>13. InOrder(body)
  <2>1. CASE schema.mustReturn
    <3>1. PICK r : r = Clause("Return")
      OBVIOUS
    <3>2. body = first \o << r >> /\ r \in NextEntry /\ first \in Seq(NextEntry)
      BY <1>2, <1>3, <1>7, <1>8, <2>1, <3>1 DEF NextTodo
    <3>3. InOrder(first) /\ \A c \in Kinds(first) : Pair(c, r.clause)
      BY <1>10, AnyOrder
    <3> QED
      BY <3>2, <3>3, LastInOrder
  <2>2. CASE ~schema.mustReturn
    <3>1. Kinds(body) = Kinds(first)
      BY <1>11, <1>12, <2>2
    <3> QED
      BY <1>10, <3>1, AnyOrder
  <2> QED
    BY <2>1, <2>2
<1>14. HeadClause \notin Popping \cup PartEnds \cup Returning
  BY <1>4, HeadNotIn
<1>15. schema.mustReturn <=> schema.columns # {}
  BY <1>4, HeadHas DEF GoodFrame, OwedBy
<1>16. Kinds(body) \subseteq {"WithClause", "PathPatternExpression", "Expression", "Return"}
  BY <1>9, <1>11, <1>12
<1>17. Opens(body, "BodyPartEnd")
  <2>1. Kinds(body) \cap (Restoring \cup {"UnionClause"}) = {}
    BY <1>16 DEF Restoring, Popping
  <2>2. \A k \in Kinds(body) : Pair(k, "BodyPartEnd")
    BY <1>16 DEF Pair, Tails, Writing, PartEnds
  <2>3. "BodyPartEnd" \in Popping
    BY DEF Popping
  <2> QED
    BY <1>13, <1>14, <2>1, <2>2, <2>3 DEF Opens
<1>18. Settles(body, "BodyPartEnd")
  <2>1. Kinds(body) \cap Returning # {} \/ schema'.columns = {}
    BY <1>5, <1>11, <1>12, <1>15 DEF Returning
  <2>2. "Return" \in Kinds(body) => schema'.mustReturn
    BY <1>5, <1>9, <1>11, <1>12
  <2> QED
    BY <1>4, <1>5, <1>15, <2>1, <2>2 DEF Settles
<1>19. Unites(body, {})
  BY DEF Unites
<1>20. FramesOK' /\ Pushed(Inner.scope, {}, {})
  BY InnerScopePushed DEF Scoped, SubqueryExpressionBodyPart
<1>21. InScope => maps[schema.vars] \subseteq Inner.scope
  BY DEF InScope
<1> QED
  BY <1>4, <1>5, <1>8, <1>17, <1>18, <1>19, <1>20, <1>21, OpeningFresh

LEMMA InsertExtends ==
  ASSUME IInv, NEW m, Extended(m, {}), NEW ns \in SUBSET Nat
  PROVE  Extended(Insert(m, Len(maps) + 1, ns), ns)
<1>1. PICK n : n = Len(maps) /\ n \in Nat
  BY EntryVars
<1>2. /\ m \in MapLists /\ Len(m) = n + 1 /\ m[n + 1] = {}
      /\ \A i \in 2 .. n : m[i] = maps[i]
  BY <1>1 DEF Extended
<1>3. n + 1 \in 1 .. Len(m) /\ \A i \in 2 .. n : i \in 1 .. Len(m) /\ i # n + 1
  BY <1>1, <1>2
<1>4. \A j \in 1 .. Len(m) : Insert(m, n + 1, ns)[j] = IF j = n + 1 THEN m[n + 1] \cup ns ELSE m[j]
  BY <1>2, <1>3, InsertAt
<1>5. Insert(m, n + 1, ns) \in MapLists /\ Len(Insert(m, n + 1, ns)) = Len(m)
  BY <1>2, <1>3, InsertKeeps
<1>6. Insert(m, n + 1, ns)[n + 1] = ns /\ \A i \in 2 .. n : Insert(m, n + 1, ns)[i] = maps[i]
  BY <1>2, <1>3, <1>4
<1> QED
  BY <1>1, <1>2, <1>5, <1>6 DEF Extended

LEMMA CallSubqueryAgrees ==
  ASSUME IInv, IInv', CallSubqueryClause, NEW lv, NEW owed, Scoped(lv, owed)
  PROVE  ScopesAgree'
<1>1. PICK h, ns, scope :
        /\ h = [schema |-> [NewContext.schema EXCEPT !.inSubquery = TRUE],
                maps |-> Insert(NewContext.maps, NewContext.schema.vars, ns)]
        /\ ns \in SUBSET maps[schema.vars]
        /\ Populate(h) \/ Become(h)
        /\ scope = Inner.scope \/ scope = ns
        /\ Push(scope)
  BY DEF CallSubqueryClause
<1>2. /\ HeadClause = "CallSubqueryClause" /\ todo # << >>
      /\ todo' = << Clause("ReadClause"), Restore("CallSubqueryEnd", schema) >> \o Tail(todo)
  BY HeadIs DEF CallSubqueryClause, Generate
<1>3. ns \in SUBSET Nat
  BY <1>1, VarsAreNames
<1>4. /\ h.schema \in Shared(Len(maps) + 1) /\ h.schema.vars = Len(maps) + 1
      /\ h.schema.justCreated = {} /\ h.schema.columns = {} /\ h.schema.mustReturn = FALSE
      /\ Extended(h.maps, ns)
  <2>1. PICK s, m : s = NewContext.schema /\ m = NewContext.maps
    OBVIOUS
  <2>2. /\ s \in Shared(Len(maps) + 1) /\ s.vars = Len(maps) + 1 /\ s.justCreated = {}
        /\ s.columns = {} /\ s.mustReturn = FALSE
    BY <2>1, ContextFields
  <2>3. Extended(m, {})
    BY <2>1, ContextMaps
  <2>4. h.schema = [s EXCEPT !.inSubquery = TRUE] /\ h.maps = Insert(m, Len(maps) + 1, ns)
    BY <1>1, <2>1, <2>2
  <2>5. Extended(h.maps, ns)
    BY <1>3, <2>3, <2>4, InsertExtends
  <2> QED
    BY <2>2, <2>4, <2>5 DEF Shared
<1>5. /\ Extended(maps', ns) /\ schema'.vars = Len(maps) + 1 /\ schema'.justCreated = {}
      /\ schema'.mustReturn <=> schema'.columns # {}
  BY <1>1, <1>4, ContextEntered
<1>6. Kept
  BY <1>5, KeptNow DEF Extended
<1>7. PICK body : body = << Clause("ReadClause") >>
  OBVIOUS
<1>8. body \in NextTodo
  BY <1>6, <1>7, NextTodos, NextEntries DEF ClauseNames
<1>9. todo' = (body \o << Restore("CallSubqueryEnd", schema) >>) \o Tail(todo)
  <2>1. PICK e : e = Restore("CallSubqueryEnd", schema)
    OBVIOUS
  <2>2. << Clause("ReadClause"), e >> = body \o << e >>
    BY <1>7
  <2> QED
    BY <1>2, <2>1, <2>2
<1>10. Kinds(body) = {"ReadClause"} /\ InOrder(body)
  BY <1>7, ClauseLists
<1>11. HeadClause \notin Popping \cup PartEnds \cup Returning
  BY <1>2, HeadNotIn
<1>12. Opens(body, "CallSubqueryEnd")
  <2>1. Pair("ReadClause", "CallSubqueryEnd")
    BY DEF Pair, Ends, Writing
  <2>2. "ReadClause" \notin Restoring \cup {"UnionClause"} /\ "CallSubqueryEnd" \in Popping
    BY DEF Restoring, Popping
  <2> QED
    BY <1>10, <1>11, <2>1, <2>2 DEF Opens
<1>13. Settles(body, "CallSubqueryEnd") /\ Unites(body, {})
  BY <1>5, <1>10 DEF Settles, Unites, Returning, Tails
<1>14. FramesOK' /\ Pushed(scope, {}, {})
  <2>1. Inner.scope \in SUBSET Nat
    BY InnerIsFrame DEF Frames, Scoped
  <2> QED
    BY <1>1, <1>3, <2>1, ScopePushed DEF Scoped
<1>15. InScope => ns \subseteq scope
  BY <1>1 DEF InScope
<1> QED
  BY <1>2, <1>5, <1>8, <1>9, <1>12, <1>13, <1>14, <1>15, OpeningFresh

(* The parts of a UNION: sub goes on with one, or ends the last.           *)
GoesOn(sub) ==
  /\ Kinds(sub) \subseteq {"ReadClause", "UnionClause", "UnionEnd"} /\ InOrder(sub)
  /\ \A i \in 1 .. Len(sub) :
       /\ sub[i].clause \in PartEnds => \E r \in 1 .. i - 1 : sub[r].clause \in Returning
       /\ sub[i].clause = "UnionEnd" =>
            /\ i = Len(sub) /\ OwedBy(sub[i].old) = OwedBy(schema')
            /\ sub[i].old.vars = schema.vars /\ schema'.vars # schema.vars
       /\ sub[i].clause \in Withs => schema'.justCreated = {}

(* The columns and the kind are decided, and are those of the parts so far. *)
Decided(parts, unions) ==
  /\ schema'.mustReturn = TRUE /\ schema'.columns # {} /\ schema'.isUnionAll # "undecided"
  /\ unions \subseteq {schema'.isUnionAll} /\ parts \subseteq {schema'.columns}
  /\ schema.mustReturn /\ schema.isUnionAll # "undecided" => OwedBy(schema') = OwedBy(schema)

LEMMA GoingOn ==
  ASSUME IInv, IInv', todo # << >>, NEW lv, NEW owed, Scoped(lv, owed), FramesOK',
         HeadClause \in {"Union", "UnionClause", "UnionEnd"},
         NEW sub \in NextTodo, todo' = sub \o Tail(todo), GoesOn(sub),
         NEW scope, NEW pattern, NEW returned, NEW parts, NEW unions,
         Changed(scope, pattern, returned, parts, unions), Decided(parts, unions),
         Kinds(sub) \cap Returning # {} \/ returned = schema'.columns,
         \A i \in 2 .. Len(maps) : i # schema.vars => maps'[i] = maps[i],
         \/ schema'.vars \in {schema.vars, Len(maps) + 1}
         \/ HeadClause = "UnionEnd" /\ schema'.vars = Old.vars,
         todo' # << >> /\ HeadClause' \notin Ends => InScope'
  PROVE  ScopesAgree'
<1>1. FramesOK /\ Laid(lv) /\ Columns(lv, owed) /\ InNames(lv) /\ Depth \in Nat
  BY DEF Scoped, FramesOK
<1>2. PICK new : Spliced(sub, Depth, lv, new)
  BY <1>1, RestSpliced
<1>3. /\ Depth' = Depth /\ \A d \in 1 .. Depth - 1 : frames'[d] = frames[d]
      /\ IsFrame(frames'[Depth], scope, pattern, returned, parts, unions)
  BY DEF Changed
<1>4. HeadClause \notin Popping /\ HeadClause \in Tails /\ HeadClause \in Returning
  BY DEF Popping, Tails, Returning
<1>5. /\ \A i \in 1 .. Len(sub) : sub[i].clause \in {"ReadClause", "UnionClause", "UnionEnd"}
      /\ InOrder(sub)
  BY DEF GoesOn, Kinds
<1>6. \A i \in 1 .. Len(sub) : sub[i].clause \notin Popping /\ Heir(HeadClause, sub[i].clause)
  BY <1>4, <1>5 DEF Popping, Heir, Writing
<1>7. Laid(new)'
  BY <1>1, <1>2, <1>3, <1>4, <1>5, <1>6, LaidInScope
<1>8. PICK o, owed2 : o = OwedBy(schema') /\ owed2 = [owed EXCEPT ![Depth] = o]
  OBVIOUS
<1>9. /\ o.mustReturn = TRUE /\ o.columns = schema'.columns /\ o.isUnionAll = schema'.isUnionAll
      /\ o \in Obligations
  <2>1. schema' \in Shared(Len(maps'))
    BY DEF IInv
  <2> QED
    BY <1>8, <2>1 DEF OwedBy, Obligations, Shared, Decided
<1>10. /\ owed2 \in [Nat -> Obligations] /\ owed2[Depth] = o
       /\ \A d \in Nat : d # Depth => owed2[d] = owed[d]
  <2>1. owed \in [Nat -> Obligations]
    BY HeadHas
  <2> QED
    BY <1>1, <1>8, <1>9, <2>1
<1>11. /\ o.columns # {} /\ o.isUnionAll # "undecided"
       /\ unions \subseteq {o.isUnionAll} /\ parts \subseteq {o.columns}
       /\ owed[Depth].mustReturn /\ owed[Depth].isUnionAll # "undecided" => o = owed[Depth]
  <2>1. /\ OwedBy(schema) = owed[Depth] /\ owed[Depth].mustReturn = schema.mustReturn
        /\ owed[Depth].isUnionAll = schema.isUnionAll
    BY HeadHas DEF OwedBy
  <2> QED
    BY <1>8, <1>9, <2>1 DEF Decided
<1>12. /\ frames'[Depth].unions = unions /\ frames'[Depth].parts = parts
       /\ frames'[Depth].returned = returned
  BY <1>3 DEF IsFrame
<1>13. GoodFrame(frames'[Depth], owed2[Depth])
  BY <1>9, <1>10, <1>11, <1>12 DEF GoodFrame
<1>14. ASSUME NEW i \in 1 .. Len(sub)
       PROVE  /\ sub[i].clause \notin Popping /\ Fits(sub[i], Depth, owed2, frames')
              /\ sub[i].clause \in PartEnds => \E r \in 1 .. i - 1 : sub[r].clause \in Returning
  <2>1. sub[i].clause \notin Popping /\ sub[i].clause # "BodyPartEnd"
    BY <1>6 DEF Popping
  <2>2. sub[i].clause = "UnionEnd" => OwedBy(sub[i].old) = o
    BY <1>8 DEF GoesOn
  <2>3. Fits(sub[i], Depth, owed2, frames')
    BY <1>9, <1>10, <1>11, <1>12, <2>1, <2>2 DEF Fits
  <2> QED
    BY <2>1, <2>3 DEF GoesOn
<1>15. ASSUME NEW j \in 2 .. Len(todo), lv[j] = Depth
       PROVE  /\ Fits(todo[j], Depth, owed2, frames') /\ todo[j].clause # "BodyPartEnd"
              /\ todo[j].clause \in PartEnds =>
                   \/ Settled(todo[j].clause, frames'[Depth], owed2[Depth])
                   \/ \E r \in 1 .. Len(sub) : sub[r].clause \in Returning
  <2>1. PICK e : e = todo[j]
    OBVIOUS
  <2>2. Fits(e, Depth, owed, frames) /\ Pair(HeadClause, e.clause)
    BY <1>15, <2>1, HeadHas
  <2>3. e.clause \in Ends
    BY <1>4, <2>2 DEF Pair
  <2>4. e.clause # "BodyPartEnd"
    BY <2>3 DEF Ends
  <2>5. Fits(e, Depth, owed2, frames')
    <3>1. e.clause \in Popping => OwedBy(e.old) = owed2[Depth - 1]
      <4>1. ASSUME e.clause \in Popping PROVE Depth - 1 \in Nat /\ Depth - 1 # Depth
        <5>1. lv[j] >= 2
          BY <2>1, <4>1, HeadHas
        <5> QED
          BY <1>1, <1>15, <5>1
      <4> QED
        BY <1>10, <2>2, <4>1 DEF Fits
    <3>2. e.clause = "UnionEnd" => OwedBy(e.old) = o
      BY <1>11, <2>2 DEF Fits
    <3> QED
      BY <1>9, <1>10, <1>11, <1>12, <2>4, <3>1, <3>2 DEF Fits
  <2>6. \/ Settled(e.clause, frames'[Depth], owed2[Depth])
        \/ \E r \in 1 .. Len(sub) : sub[r].clause \in Returning
    BY <1>9, <1>10, <1>12 DEF Settled, Kinds
  <2> QED
    BY <2>1, <2>4, <2>5, <2>6
<1>16. Columns(new, owed2)'
  <2>1. FramesOK /\ Laid(lv) /\ Columns(lv, owed)
    BY <1>1
  <2>2. /\ owed2 \in [Nat -> Obligations] /\ OwedBy(schema') = owed2[Depth]
        /\ \A d \in Nat : d # Depth => owed2[d] = owed[d]
    BY <1>8, <1>10
  <2>3. Depth' = Depth /\ \A d \in 1 .. Depth - 1 : frames'[d] = frames[d]
    BY <1>3
  <2>4. \A j \in 2 .. Len(todo) : lv[j] = Depth =>
          /\ Fits(todo[j], Depth, owed2, frames')
          /\ todo[j].clause = "BodyPartEnd" =>
               /\ owed2[Depth].mustReturn = owed[Depth].mustReturn
               /\ \A i \in 1 .. Len(sub) : sub[i].clause # "Return"
          /\ todo[j].clause \in PartEnds =>
               \/ Settled(todo[j].clause, frames'[Depth], owed2[Depth])
               \/ \E r \in 1 .. Len(sub) : sub[r].clause \in Returning
               \/ HeadClause \notin Returning /\ Awaits(todo, lv, j)
    BY <1>15
  <2> QED
    BY <1>2, <1>13, <1>14, <2>1, <2>2, <2>3, <2>4, ColumnsInScope, SMTT(60)
<1>17. InNames(new)'
  <2>1. ASSUME NEW i \in 1 .. Len(sub)
        PROVE  /\ sub[i].clause \notin Popping
               /\ sub[i].clause \in Restoring =>
                    i = Len(sub) /\ sub[i].old.vars = schema.vars /\ schema'.vars # schema.vars
               /\ sub[i].clause \in Withs => schema'.justCreated = {}
    BY <1>6 DEF GoesOn, Restoring
  <2>2. \/ schema'.vars \in {schema.vars, Len(maps) + 1}
        \/ HeadClause \in Restoring /\ schema'.vars = Old.vars
    BY DEF Restoring
  <2>3. HeadClause \in Writing \cup Tails
    BY <1>4
  <2> QED
    BY <1>1, <1>2, <1>3, <1>4, <2>1, <2>2, <2>3, NamesInside
<1> QED
  BY <1>7, <1>16, <1>17 DEF Scoped, ScopesAgree

LEMMA UnionAgrees ==
  ASSUME IInv, IInv', Union, NEW lv, NEW owed, Scoped(lv, owed)
  PROVE  ScopesAgree'
<1>0. PICK kind \in {"all", "distinct"} : \E h :
        /\ schema.isUnionAll # "undecided" => kind = schema.isUnionAll
        /\ h = [schema |-> [schema EXCEPT !.isUnionAll = kind], maps |-> maps]
        /\ IF schema.mustReturn THEN Become(h) ELSE Populate(h)
        /\ frames' = [frames EXCEPT ![Depth].unions = @ \cup {kind}]
  <2>1. schema.isUnionAll \in {"undecided", "all", "distinct"}
    BY DEF IInv, Shared
  <2> QED
    BY <2>1 DEF Union
<1>1. PICK h :
        /\ schema.isUnionAll # "undecided" => kind = schema.isUnionAll
        /\ h = [schema |-> [schema EXCEPT !.isUnionAll = kind], maps |-> maps]
        /\ IF schema.mustReturn THEN Become(h) ELSE Populate(h)
        /\ frames' = [frames EXCEPT ![Depth].unions = @ \cup {kind}]
  BY <1>0
<1>2. PICK sub : sub = << Clause("ReadClause"), Clause("UnionClause") >>
  OBVIOUS
<1>3. HeadClause = "Union" /\ todo # << >> /\ todo' = sub \o Tail(todo)
  BY <1>2, HeadIs DEF Union, Generate
<1>4. schema \in Shared(Len(maps)) /\ h.schema = [schema EXCEPT !.isUnionAll = kind] /\ h.maps = maps
  BY <1>1 DEF IInv
<1>5. /\ schema'.mustReturn = TRUE /\ schema'.columns # {} /\ schema'.isUnionAll = kind
      /\ schema'.vars = schema.vars /\ schema'.justCreated = schema.justCreated
      /\ schema.mustReturn => schema'.columns = schema.columns
      /\ MapsKept /\ Len(maps') = Len(maps)
  <2>1. h.schema \in Shared(Len(maps)) /\ h.schema.vars = schema.vars
        /\ h.schema.justCreated = schema.justCreated /\ h.schema.isUnionAll = kind
        /\ h.schema.mustReturn = schema.mustReturn /\ h.schema.columns = schema.columns
    BY <1>4 DEF Shared
  <2>2. CASE schema.mustReturn
    <3>1. schema' = h.schema /\ maps' = maps
      BY <1>1, <1>4, <2>2 DEF Become
    <3>2. schema.columns # {}
      BY <1>3, <2>2, HeadHas DEF GoodFrame, OwedBy
    <3>3. schema.mustReturn = TRUE
      BY <1>4, <2>2 DEF Shared
    <3> QED
      BY <2>1, <3>1, <3>2, <3>3 DEF MapsKept
  <2>3. CASE ~schema.mustReturn
    <3>1. PICK n : n = Len(maps)
      OBVIOUS
    <3>2. /\ schema'.vars = h.schema.vars /\ schema'.justCreated = h.schema.justCreated
          /\ schema'.isUnionAll = h.schema.isUnionAll
          /\ schema'.mustReturn = TRUE /\ schema'.columns # {}
          /\ TakeNewName /\ maps' = Use(h.maps, NewName)
      BY <1>1, <2>1, <2>3, <3>1, PopulateFields
    <3>3. MapsKept /\ Len(maps') = Len(maps)
      BY <1>4, <3>2, UseOnly
    <3> QED
      BY <2>1, <2>3, <3>2, <3>3
  <2> QED
    BY <2>2, <2>3
<1>6. Kept
  BY <1>5, KeptNow
<1>7. sub \in NextTodo
  BY <1>2, <1>6, NextTodos, NextEntries DEF ClauseNames
<1>8. Kinds(sub) = {"ReadClause", "UnionClause"} /\ InOrder(sub)
  <2>1. Pair("ReadClause", "UnionClause")
    BY DEF Pair, Ends, Writing
  <2> QED
    BY <1>2, <2>1, ClauseLists
<1>9. schema.justCreated = {}
  BY <1>3, HeadHas DEF Keeps, HeadClause, Depth, Withs
<1>10. GoesOn(sub)
  <2>1. PICK a, b : a = Clause("ReadClause") /\ b = Clause("UnionClause") /\ sub = << a, b >>
    BY <1>2
  <2>2. a.clause = "ReadClause" /\ b.clause = "UnionClause" /\ Len(sub) = 2 /\ sub[1] = a /\ sub[2] = b
    BY <2>1, ClauseKinds
  <2>3. 1 .. 2 = {1, 2} /\ 1 \in 1 .. 2 - 1
    OBVIOUS
  <2> SUFFICES ASSUME NEW i \in 1 .. Len(sub)
               PROVE  /\ sub[i].clause \in PartEnds => \E r \in 1 .. i - 1 : sub[r].clause \in Returning
                      /\ sub[i].clause # "UnionEnd"
    BY <1>5, <1>8, <1>9 DEF GoesOn
  <2>4. CASE i = 1
    BY <2>2, <2>4 DEF PartEnds, Ends
  <2>5. CASE i = 2
    BY <2>2, <2>3, <2>5 DEF Returning, Tails
  <2> QED
    BY <2>2, <2>3, <2>4, <2>5
<1>11. PICK parts, unions : parts = Inner.parts /\ unions = Inner.unions \cup {kind}
  OBVIOUS
<1>12. FramesOK' /\ Changed(Inner.scope, Inner.pattern, Inner.returned, parts, unions)
  BY <1>1, <1>11, PartChanged DEF Scoped
<1>13. Decided(parts, unions)
  <2>1. /\ owed[Depth].mustReturn = schema.mustReturn /\ owed[Depth].columns = schema.columns
        /\ owed[Depth].isUnionAll = schema.isUnionAll
    BY <1>3, HeadHas DEF OwedBy
  <2>2. /\ Inner.unions \subseteq {schema.isUnionAll}
        /\ ~schema.mustReturn => Inner.parts = {}
        /\ Inner.parts \subseteq {schema.columns}
    BY <1>3, <2>1, HeadHas DEF Fits, HeadClause, Uniting, GoodFrame, Inner
  <2>3. Inner.unions \subseteq {"all", "distinct"}
    BY InnerIsFrame DEF Frames, Scoped
  <2>4. unions \subseteq {kind}
    BY <1>1, <1>11, <2>2, <2>3
  <2>5. parts \subseteq {schema'.columns}
    BY <1>5, <1>11, <2>2
  <2>6. schema.mustReturn /\ schema.isUnionAll # "undecided" => OwedBy(schema') = OwedBy(schema)
    <3>1. schema.mustReturn \in BOOLEAN
      BY <1>4 DEF Shared
    <3> QED
      BY <1>1, <1>5, <3>1 DEF OwedBy
  <2> QED
    BY <1>5, <2>4, <2>5, <2>6 DEF Decided
<1>14. InScope'
  <2>1. InScope
    BY <1>3 DEF Scoped, InNames, Ends
  <2>2. maps'[schema.vars] = maps[schema.vars]
    BY <1>5, EntryVars DEF MapsKept
  <2> QED
    BY <1>5, <1>12, <2>1, <2>2, InnerChanged DEF InScope
<1>15. Kinds(sub) \cap Returning # {}
  BY <1>8 DEF Returning, Tails
<1>16. \A i \in 2 .. Len(maps) : i # schema.vars => maps'[i] = maps[i]
  BY <1>5 DEF MapsKept
<1> QED
  BY <1>3, <1>5, <1>7, <1>10, <1>12, <1>13, <1>14, <1>15, <1>16, GoingOn

LEMMA UnionClauseAgrees ==
  ASSUME IInv, IInv', UnionClause, NEW lv, NEW owed, Scoped(lv, owed)
  PROVE  ScopesAgree'
<1>1. PICK a, b, sub : /\ a = Clause("ReadClause") /\ b = Restore("UnionEnd", schema)
                       /\ sub = << a, b >>
  OBVIOUS
<1>2. HeadClause = "UnionClause" /\ todo # << >> /\ todo' = sub \o Tail(todo)
  BY <1>1, HeadIs DEF UnionClause, Generate
<1>3. a.clause = "ReadClause" /\ b.clause = "UnionEnd" /\ b.old = schema
  BY <1>1, ClauseKinds
<1>4. schema \in Shared(Len(maps))
  BY DEF IInv
<1>5. /\ owed[Depth].mustReturn = schema.mustReturn /\ owed[Depth].columns = schema.columns
      /\ owed[Depth].isUnionAll = schema.isUnionAll
  BY <1>2, HeadHas DEF OwedBy
<1>6. /\ schema.mustReturn = TRUE /\ schema.columns # {} /\ schema.isUnionAll # "undecided"
      /\ Inner.unions \subseteq {schema.isUnionAll} /\ Inner.parts \subseteq {schema.columns}
      /\ Inner.returned = schema.columns
  <2>1. Fits(Head(todo), Depth, owed, frames) /\ GoodFrame(Inner, owed[Depth])
        /\ Settled(HeadClause, Inner, owed[Depth])
    BY <1>2, HeadHas DEF PartEnds, Ends
  <2>2. schema.mustReturn = TRUE
    BY <1>2, <1>4, <1>5, <2>1 DEF Fits, HeadClause, Shared
  <2> QED
    BY <1>2, <1>5, <2>1, <2>2 DEF Fits, HeadClause, Uniting, GoodFrame, Settled, Inner
<1>7. /\ Extended(maps', {}) /\ schema'.vars = Len(maps) + 1 /\ schema'.justCreated = {}
      /\ schema'.mustReturn = TRUE /\ schema'.columns = schema.columns
      /\ schema'.isUnionAll = schema.isUnionAll
  <2>1. PICK s : s = NewContext.schema
    OBVIOUS
  <2>2. s \in Shared(Len(maps) + 1) /\ s.vars = Len(maps) + 1 /\ s.justCreated = {}
    BY <2>1, ContextFields
  <2>3. schema' = [s EXCEPT !.isUnionAll = schema.isUnionAll, !.mustReturn = TRUE,
                            !.columns = schema.columns]
    BY <2>1 DEF UnionClause, UnionContext
  <2>4. Extended(maps', {})
    BY ContextMaps DEF UnionClause
  <2> QED
    BY <2>2, <2>3, <2>4 DEF Shared
<1>8. OwedBy(schema') = OwedBy(schema)
  BY <1>6, <1>7 DEF OwedBy
<1>9. Kept
  BY <1>7, KeptNow DEF Extended
<1>10. sub \in NextTodo
  BY <1>1, <1>9, NextTodos, NextEntries, OldSchemas DEF ClauseNames
<1>11. Kinds(sub) = {"ReadClause", "UnionEnd"} /\ InOrder(sub)
  <2>1. Pair("ReadClause", "UnionEnd")
    BY DEF Pair, Ends, Writing
  <2> QED
    BY <1>1, <1>3, <2>1, KindsOfLists
<1>12. schema'.vars # schema.vars
  BY <1>7, EntryVars
<1>13. GoesOn(sub)
  <2>1. Len(sub) = 2 /\ sub[1] = a /\ sub[2] = b
    BY <1>1
  <2>2. 1 .. 2 = {1, 2} /\ 1 \in 1 .. 2 - 1
    OBVIOUS
  <2> SUFFICES ASSUME NEW i \in 1 .. Len(sub)
               PROVE  /\ sub[i].clause \in PartEnds => \E r \in 1 .. i - 1 : sub[r].clause \in Returning
                      /\ sub[i].clause = "UnionEnd" => i = Len(sub) /\ sub[i].old = schema
    BY <1>7, <1>8, <1>11, <1>12 DEF GoesOn
  <2>3. CASE i = 1
    BY <1>3, <2>1, <2>3 DEF PartEnds, Ends
  <2>4. CASE i = 2
    BY <1>3, <2>1, <2>2, <2>4 DEF Returning, Tails
  <2> QED
    BY <2>1, <2>2, <2>3, <2>4
<1>14. PICK parts : parts = Inner.parts \cup {Inner.returned}
  OBVIOUS
<1>15. FramesOK' /\ Changed({}, Inner.pattern, {}, parts, Inner.unions)
  BY <1>14, PartChanged DEF Scoped, UnionClause
<1>16. Decided(parts, Inner.unions)
  BY <1>6, <1>7, <1>8, <1>14 DEF Decided
<1>17. InScope'
  BY <1>7 DEF InScope, Extended
<1>18. Kinds(sub) \cap Returning # {}
  BY <1>11 DEF Returning, Tails
<1>19. \A i \in 2 .. Len(maps) : i # schema.vars => maps'[i] = maps[i]
  BY <1>7 DEF Extended
<1> QED
  BY <1>2, <1>7, <1>10, <1>13, <1>15, <1>16, <1>17, <1>18, <1>19, GoingOn

LEMMA UnionEndAgrees ==
  ASSUME IInv, IInv', UnionEnd, NEW lv, NEW owed, Scoped(lv, owed)
  PROVE  ScopesAgree'
<1>1. Due("UnionEnd") /\ todo' = Tail(todo) /\ UNCHANGED <<maps, taken>> /\ schema' = Old
  BY DEF UnionEnd, ModifySchema
<1>2. HeadClause = "UnionEnd" /\ todo # << >>
  BY <1>1, HeadIs
<1>3. << >> \in NextTodo /\ todo' = << >> \o Tail(todo) /\ Kinds(<< >>) = {}
  BY <1>1, <1>2, NothingAdded
<1>4. GoesOn(<< >>)
  BY <1>3, KindsOfLists DEF GoesOn
<1>5. PICK parts : parts = Inner.parts \cup {Inner.returned}
  OBVIOUS
<1>6. FramesOK' /\ Changed(Inner.scope, Inner.pattern, Inner.returned, parts, Inner.unions)
  BY <1>5, PartChanged DEF Scoped, UnionEnd
<1>7. OwedBy(schema') = OwedBy(schema) /\ OwedBy(schema) = owed[Depth]
  BY <1>1, <1>2, HeadHas DEF Fits, HeadClause, Old
<1>8. Decided(parts, Inner.unions) /\ Inner.returned = schema'.columns
  <2>1. Fits(Head(todo), Depth, owed, frames) /\ GoodFrame(Inner, owed[Depth])
        /\ Settled(HeadClause, Inner, owed[Depth])
    BY <1>2, HeadHas DEF PartEnds, Ends
  <2>2. /\ owed[Depth].mustReturn = schema'.mustReturn /\ owed[Depth].columns = schema'.columns
        /\ owed[Depth].isUnionAll = schema'.isUnionAll
    BY <1>7 DEF OwedBy
  <2>3. schema'.mustReturn = TRUE
    <3>1. schema' \in Shared(Len(maps'))
      BY DEF IInv
    <3> QED
      BY <1>2, <2>1, <2>2, <3>1 DEF Fits, HeadClause, Shared
  <2>4. schema'.isUnionAll # "undecided" /\ schema'.columns # {} /\ Inner.returned = schema'.columns
        /\ Inner.parts \subseteq {schema'.columns}
    BY <1>2, <2>1, <2>2, <2>3 DEF Fits, HeadClause, GoodFrame, Settled
  <2>5. Inner.unions \subseteq {schema'.isUnionAll}
    BY <1>2, <2>1, <2>2 DEF Fits, HeadClause, Inner
  <2> QED
    BY <1>5, <1>7, <2>3, <2>4, <2>5 DEF Decided
<1>9. todo' # << >> => HeadClause' \in Ends
  <2>1. SUFFICES ASSUME todo' # << >> PROVE HeadClause' \in Ends
    OBVIOUS
  <2>2. todo \in Seq(Entries(Len(maps))) /\ Tail(todo) \in Seq(Entries(Len(maps)))
    BY <1>2, HeadTailProperties DEF IInv
  <2>3. Len(todo) \in Nat /\ Len(Tail(todo)) = Len(todo) - 1 /\ Len(Tail(todo)) >= 1
        /\ \A i \in 1 .. Len(Tail(todo)) : Tail(todo)[i] = todo[i + 1]
    BY <1>1, <1>2, <2>1, <2>2, HeadTailProperties, LenProperties, EmptySeq
  <2>4. Head(Tail(todo)) = Tail(todo)[1]
    BY <1>1, <2>1, <2>2, HeadTailProperties
  <2>5. 2 \in 2 .. Len(todo) /\ 1 \in 1 .. Len(todo) - 1 /\ 1 \in 1 .. Len(Tail(todo)) /\ 1 + 1 = 2
    BY <2>3
  <2>6. Head(todo') = todo[2]
    BY <1>1, <2>3, <2>4, <2>5
  <2>7. lv[2] = Depth
    <3>1. todo[1].clause \notin Popping /\ lv[1] = Depth
      BY <1>2, HeadHas DEF HeadClause, Popping
    <3>2. lv[1 + 1] = IF todo[1].clause \in Popping THEN lv[1] - 1 ELSE lv[1]
      BY <2>5 DEF Scoped, Laid
    <3> QED
      BY <2>5, <3>1, <3>2
  <2>8. Pair(HeadClause, todo[2].clause)
    BY <1>2, <2>5, <2>7, HeadHas
  <2> QED
    BY <1>2, <2>6, <2>8 DEF Pair, HeadClause, Tails
<1>10. \A i \in 2 .. Len(maps) : i # schema.vars => maps'[i] = maps[i]
  BY <1>1
<1>11. schema'.vars = Old.vars
  BY <1>1
<1> QED
  BY <1>2, <1>3, <1>4, <1>6, <1>8, <1>9, <1>10, <1>11, GoingOn

-----------------------------------------------------------------------------
LEMMA InitAgrees == Init => ScopesAgree
<1> SUFFICES ASSUME Init PROVE ScopesAgree
  OBVIOUS
<1>1. PICK e, f : e = Clause("ReadClause") /\ f = Frame({})
  OBVIOUS
<1>2. /\ todo = << e >> /\ frames = << f >> /\ schema = EmptySchema /\ maps = << {}, {} >>
      /\ e.clause = "ReadClause"
  BY <1>1, ClauseKinds DEF Init
<1>3. /\ Len(todo) = 1 /\ todo[1] = e /\ Head(todo) = e /\ Depth = 1 /\ frames[1] = f /\ Inner = f
  BY <1>2 DEF Depth, Inner
<1>4. f \in Frames /\ IsFrame(f, {}, {}, {}, {}, {})
  BY <1>1 DEF Frame, Frames, IsFrame
<1>5. FramesOK
  BY <1>2, <1>3, <1>4 DEF FramesOK
<1>6. e.clause \notin Popping \cup PartEnds \cup Restoring \cup {"UnionEnd", "UnionClause", "Return"}
  BY <1>2 DEF Popping, PartEnds, Restoring, Ends
<1>7. PICK lv, owed : lv = [i \in Nat |-> 1] /\ owed = [d \in Nat |-> OwedBy(EmptySchema)]
  OBVIOUS
<1>8. 1 .. 1 = {1} /\ 1 .. 1 - 1 = {} /\ ~(1 < 1)
  OBVIOUS
<1>9. Laid(lv)
  BY <1>3, <1>6, <1>7, <1>8 DEF Laid
<1>10. OwedBy(EmptySchema) \in Obligations /\ OwedBy(EmptySchema).mustReturn = FALSE
       /\ OwedBy(EmptySchema).columns = {}
  BY DEF OwedBy, EmptySchema, Obligations
<1>11. GoodFrame(f, owed[1])
  BY <1>4, <1>7, <1>10 DEF GoodFrame, IsFrame
<1>12. Fits(e, 1, owed, frames)
  BY <1>3, <1>4, <1>6 DEF Fits, IsFrame, Popping
<1>13. Columns(lv, owed)
  <2>1. owed \in [Nat -> Obligations] /\ OwedBy(schema) = owed[Depth]
    BY <1>2, <1>3, <1>7, <1>10
  <2>2. lv[1] = 1
    BY <1>7
  <2> QED
    BY <1>3, <1>6, <1>8, <1>11, <1>12, <2>1, <2>2 DEF Columns
<1>14. schema.vars = 2 /\ schema.justCreated = {} /\ maps[2] = {}
  BY <1>2 DEF EmptySchema
<1>15. InNames(lv)
  <2>1. InScope
    BY <1>14 DEF InScope
  <2>2. Keeps(todo[1], lv[1], maps, frames, schema)
    BY <1>3, <1>6, <1>14 DEF Keeps
  <2> QED
    BY <1>3, <1>8, <2>1, <2>2 DEF InNames
<1> QED
  BY <1>5, <1>9, <1>13, <1>15 DEF Scoped, ScopesAgree

LEMMA StepAgrees ==
  ASSUME IInv, IInv', ScopesAgree, Next
  PROVE  ScopesAgree'
<1>1. PICK lv, owed : Scoped(lv, owed)
  BY DEF ScopesAgree
<1>2. CASE ReadClause \/ WriteClause \/ OptionalWriteQuery \/ ForeachCommand \/ Expression
  BY <1>1, <1>2, ReadClauseAgrees, WriteClauseAgrees, OptionalWriteQueryAgrees,
     ForeachCommandAgrees, ExpressionAgrees
<1>3. CASE Return \/ CallSubqueryClause \/ Union \/ UnionClause \/ UnionEnd
  BY <1>1, <1>3, ReturnAgrees, CallSubqueryAgrees, UnionAgrees, UnionClauseAgrees, UnionEndAgrees
<1>4. CASE ScopeEnd \/ PredicateEnd \/ BodyPartEnd \/ CallSubqueryEnd
  BY <1>1, <1>4, ScopeEndAgrees
<1>5. CASE \/ BindIterator \/ ForeachClause \/ Predicate \/ SimpleSubqueryExpressionBody
           \/ SubqueryExpression \/ SubqueryExpressionBodyPart
  BY <1>1, <1>5, BindIteratorAgrees, ForeachClauseAgrees, PredicateAgrees, SubqueryBodyAgrees,
     SubqueryExpressionAgrees, BodyPartAgrees
<1>6. CASE \/ UnwindClause \/ PathPatternExpression \/ CreateClause \/ CreateElement \/ CreateEnd
           \/ MergeClause \/ MergeEnd
  BY <1>1, <1>6, UnwindClauseAgrees, PathPatternAgrees, CreateAgrees, CreateElementAgrees, MergeAgrees
<1>7. CASE WithClause \/ WithElementChain \/ WithElementEnd
  BY <1>1, <1>7, WithAgrees, WithElementEndAgrees
<1> QED
  BY <1>2, <1>3, <1>4, <1>5, <1>6, <1>7 DEF Next

(***************************************************************************)
(* The scopes that the generator keeps are those of the text: the schemas  *)
(* it will put back hold names of the scopes they belong to, and every     *)
(* (sub)query returns the columns its scope owes, part by part.            *)
(***************************************************************************)
THEOREM ScopeInvariance == Spec => []ScopesAgree
<1>1. Init => IInv /\ ScopesAgree
  BY InitInvariant, InitAgrees
<1>2. IInv /\ [Next]_vars => IInv'
  BY StepKeeps
<1>3. IInv /\ ScopesAgree /\ IInv' /\ [Next]_vars => ScopesAgree'
  <2>1. ASSUME ScopesAgree, UNCHANGED vars PROVE ScopesAgree'
    <3>1. PICK lv, owed : FramesOK /\ Laid(lv) /\ Columns(lv, owed) /\ InNames(lv)
      BY <2>1 DEF ScopesAgree, Scoped
    <3>2. todo' = todo /\ schema' = schema /\ maps' = maps /\ frames' = frames
      BY <2>1 DEF vars
    <3>3. FramesOK' /\ Laid(lv)'
      BY <3>1, <3>2 DEF FramesOK, Laid, Depth
    <3>4. Columns(lv, owed)'
      BY <3>1, <3>2 DEF Columns, Depth
    <3>5. InNames(lv)'
      BY <3>1, <3>2 DEF InNames, InScope, Inner, Depth, HeadClause
    <3> QED
      BY <3>3, <3>4, <3>5 DEF ScopesAgree, Scoped
  <2> QED
    BY <2>1, StepAgrees
<1> QED
  BY <1>1, <1>2, <1>3, PTL DEF Spec

(***************************************************************************)
(* The variables that the generator may refer to are in the scope of the   *)
(* text (NamesInScope), in statements of any length and depth.             *)
(***************************************************************************)
THEOREM NamesAreInScope == Spec => []NamesInScope
<1>1. ScopesAgree => NamesInScope
  BY DEF ScopesAgree, Scoped, InNames, InScope, NamesInScope, HeadClause
<1> QED
  BY ScopeInvariance, <1>1, PTL

(***************************************************************************)
(* All parts of a UNION return the same columns, at least one, and the     *)
(* UNIONs of a (sub)query are of one kind (UnionPartsAgree).               *)
(***************************************************************************)
THEOREM UnionsAgree == Spec => []UnionPartsAgree
<1>1. ASSUME ScopesAgree, NEW d \in DOMAIN frames
      PROVE  /\ Cardinality(frames[d].unions) <= 1 /\ Cardinality(frames[d].parts) <= 1
             /\ frames[d].unions # {} => {} \notin frames[d].parts
  <2>1. PICK lv, owed : Scoped(lv, owed)
    BY <1>1 DEF ScopesAgree
  <2>2. d \in 1 .. Depth
    BY <2>1, LenProperties DEF Scoped, FramesOK, Depth
  <2>3. PICK f, o : f = frames[d] /\ o = owed[d]
    OBVIOUS
  <2>4. GoodFrame(f, o)
    BY <2>1, <2>2, <2>3 DEF Scoped, Columns
  <2>5. ASSUME NEW S, \A a, b \in S : a = b PROVE Cardinality(S) <= 1
    <3>1. CASE S = {}
      BY <3>1, FS_EmptySet
    <3>2. CASE S # {}
      <4>1. PICK a : a \in S
        BY <3>2
      <4>2. S = {a}
        BY <2>5, <4>1
      <4>3. Cardinality({a}) = 1
        BY FS_Singleton
      <4> QED
        BY <4>2, <4>3
    <3> QED
      BY <3>1, <3>2
  <2>6. Cardinality(f.unions) <= 1
    BY <2>4, <2>5 DEF GoodFrame
  <2>7. Cardinality(f.parts) <= 1
    <3>1. \A a, b \in f.parts : a = b
      BY <2>4 DEF GoodFrame
    <3> QED
      BY <2>5, <3>1
  <2>8. f.unions # {} => {} \notin f.parts
    BY <2>4 DEF GoodFrame
  <2> QED
    BY <2>3, <2>6, <2>7, <2>8
<1>2. ScopesAgree => UnionPartsAgree
  BY <1>1 DEF UnionPartsAgree
<1> QED
  BY ScopeInvariance, <1>2, PTL
=============================================================================
