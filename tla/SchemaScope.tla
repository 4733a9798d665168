---------------------------- MODULE SchemaScope ----------------------------
(***************************************************************************)
(* Which names the generator takes for being in scope                      *)
(* (models/opencypher/schema/schema.go and the clauses that change it).    *)
(*                                                                         *)
(* generateStatement (translator.go) expands clauses depth-first: a clause *)
(* is generated, then its subclauses, then it may change the schema        *)
(* (ModifySchema).  todo is that recursion: the clauses still to generate, *)
(* from left to right, and the calls of ModifySchema that are due between  *)
(* them.  There is one schema record; clauses that open a scope keep a     *)
(* copy of it and put it back.  A copy of the record shares its maps, so   *)
(* maps holds them, and the schema refers to them by their index.          *)
(*                                                                         *)
(* Beside it stand the scopes that the text written so far has by the      *)
(* rules of Cypher (frames), to compare the schema with.                   *)
(*                                                                         *)
(* Names are numbered in the order in which they are taken.  Expressions   *)
(* are only there where they open a scope; types, labels and properties    *)
(* are left out.                                                           *)
(***************************************************************************)
EXTENDS Naturals, Sequences, FiniteSets, FiniteSetsExt

CONSTANTS
  MaxNames,       \* names in a statement
  MaxClauses,     \* clauses in a statement: the limit on AST nodes
  MaxScopes,      \* scopes that are open at once
  AllowReturnAll  \* ~DisallowReturnAll, which equivalence transformation sets

ASSUME SchemaScopeAssumption ==
  /\ MaxNames \in Nat /\ MaxClauses \in Nat /\ MaxScopes \in Nat
  /\ AllowReturnAll \in BOOLEAN

Names == 1 .. MaxNames

VARIABLES
  todo,     \* what generateStatement still has to do
  schema,   \* the schema of the statement
  maps,     \* the maps of names that schemas refer to
  frames,   \* Cypher: the open scopes of the text, the innermost last
  taken,    \* the names the text declares
  clauses   \* how many clauses were generated

vars == <<todo, schema, maps, frames, taken, clauses>>

(* The fields of Schema: vars stands for its maps of variables, columns    *)
(* for the variables to return.                                            *)
Schemas ==
  [usedNames : Nat, vars : Nat, justCreated : SUBSET Names, columns : SUBSET Names,
   mustReturn : BOOLEAN, isUnionAll : {"undecided", "all", "distinct"},
   inSubquery : BOOLEAN, inMerge : BOOLEAN]

(* Reset *)
EmptySchema ==
  [usedNames |-> 1, vars |-> 2, justCreated |-> {}, columns |-> {}, mustReturn |-> FALSE,
   isUnionAll |-> "undecided", inSubquery |-> FALSE, inMerge |-> FALSE]

(* A scope of the text: the names expressions may use, those the pattern   *)
(* being created may use as well, the columns of the last RETURN, and the  *)
(* columns and kinds of the UNIONs so far.                                 *)
Frame(scope) ==
  [scope |-> scope, pattern |-> {}, returned |-> {}, parts |-> {}, unions |-> {}]

-----------------------------------------------------------------------------
(* The operations of a schema: each gives a schema and the maps with it.   *)

(* Wrong on purpose: UsedNames is copied like the other maps. *)
CopyMutant ==
  [schema |-> [schema EXCEPT !.vars = Len(maps) + 1, !.usedNames = Len(maps) + 2],
   maps |-> maps \o << maps[schema.vars], maps[schema.usedNames] >>]

Copy ==
  [schema |-> [schema EXCEPT !.vars = Len(maps) + 1],
   maps |-> Append(maps, maps[schema.vars])]

Fresh(s) ==
  [s EXCEPT !.vars = Len(maps) + 1, !.justCreated = {}, !.columns = {},
            !.mustReturn = FALSE, !.isUnionAll = "undecided"]

NewContext == [schema |-> Fresh(schema), maps |-> Append(maps, {})]

(* Wrong on purpose: the variables are not copied. *)
NewSubContextMutant ==
  [schema |-> [Fresh(schema) EXCEPT !.vars = schema.vars], maps |-> maps]

NewSubContext == [schema |-> Fresh(schema), maps |-> Append(maps, maps[schema.vars])]

ResetContext ==
  [schema |-> [schema EXCEPT !.vars = Len(maps) + 1], maps |-> Append(maps, {})]

Insert(m, i, ns) == [m EXCEPT ![i] = @ \cup ns]

(* generateUniqueName: any name not in UsedNames, here the first. *)
FreeNames == Names \ maps[schema.usedNames]
NewName == Min(FreeNames)

Use(m, n) == Insert(m, schema.usedNames, {n})

-----------------------------------------------------------------------------
(* The recursion of generateStatement. *)

Clause(c) == [clause |-> c, old |-> EmptySchema, name |-> 0]
Restore(c, s) == [clause |-> c, old |-> s, name |-> 0]
Bind(c, n) == [clause |-> c, old |-> EmptySchema, name |-> n]

Optional(c) == {<< >>, << Clause(c) >>}

Due(c) == todo # << >> /\ Head(todo).clause = c

Generate(c, subclauses) ==
  /\ Due(c) /\ clauses < MaxClauses
  /\ clauses' = clauses + 1
  /\ todo' = subclauses \o Tail(todo)

ModifySchema(c) == Due(c) /\ todo' = Tail(todo) /\ UNCHANGED clauses

Old == Head(todo).old
Name == Head(todo).name

(* The text's scopes. *)
Depth == Len(frames)
Push(scope) == Depth < MaxScopes /\ frames' = Append(frames, Frame(scope))
Inner == frames[Depth]
Popped == SubSeq(frames, 1, Depth - 1)
Declare(n) == frames' = [frames EXCEPT ![Depth].scope = @ \cup {n}]
TakeNewName == FreeNames # {} /\ taken' = taken \cup {NewName}

Init ==
  /\ todo = << Clause("ReadClause") >>
  /\ schema = EmptySchema
  /\ maps = << {}, {} >>
  /\ frames = << Frame({}) >>
  /\ taken = {}
  /\ clauses = 0

-----------------------------------------------------------------------------
(* Clauses that only choose their subclauses. *)

ReadClause ==
  /\ \E subclauses \in
        {<< Clause("CallSubqueryClause"), Clause("ReadClause") >>,
         << Clause("Union") >>,
         << Clause("ForeachClause"), Clause("OptionalWriteQuery") >>,
         << Clause("UnwindClause"), Clause("ReadClause") >>,
         << Clause("PathPatternExpression"), Clause("ReadClause") >>,
         << Clause("PathPatternExpression"), Clause("Expression"), Clause("ReadClause") >>,
         << Clause("WithClause"), Clause("ReadClause") >>,
         << Clause("WithClause"), Clause("Expression"), Clause("ReadClause") >>,
         << Clause("WriteClause") >>} : Generate("ReadClause", subclauses)
  /\ UNCHANGED <<schema, maps, frames, taken>>

WriteClause ==
  /\ \E subclauses \in
        {<< Clause("Return") >>,
         << Clause("CreateClause"), Clause("OptionalWriteQuery") >>,
         << Clause("MergeClause"), Clause("OptionalWriteQuery") >>,
         << Clause("Expression"), Clause("OptionalWriteQuery") >>} :
        Generate("WriteClause", subclauses)
  /\ UNCHANGED <<schema, maps, frames, taken>>

OptionalWrites ==
  {<< Clause("WriteClause") >>,
   IF schema.mustReturn THEN << Clause("Return") >> ELSE << >>}

OptionalWriteQuery ==
  /\ \E subclauses \in OptionalWrites : Generate("OptionalWriteQuery", subclauses)
  /\ UNCHANGED <<schema, maps, frames, taken>>

ForeachCommand ==
  /\ \E command \in {"CreateClause", "MergeClause", "ForeachClause"} \cup
                    (IF maps[schema.vars] # {} THEN {"Expression"} ELSE {}) :
       \E more \in Optional("ForeachCommand") :
         Generate("ForeachCommand", << Clause(command) >> \o more)
  /\ UNCHANGED <<schema, maps, frames, taken>>

(* Only the expressions that open a scope.  IsInMergeClause forbids        *)
(* subqueries.                                                             *)
Expression ==
  /\ \E e \in {"Predicate"} \cup
              (IF schema.inMerge THEN {} ELSE {"SubqueryExpression", "SimpleSubqueryExpressionBody"}) :
       Generate("Expression", << Clause(e) >>)
  /\ UNCHANGED <<schema, maps, frames, taken>>

-----------------------------------------------------------------------------
(* RETURN.  A schema that must return decides on the columns; RETURN * is  *)
(* not written in CALL subqueries.                                         *)
Return ==
  /\ \E e \in Optional("Expression") : Generate("Return", e)
  /\ \/ /\ schema.mustReturn
        /\ frames' = [frames EXCEPT ![Depth].returned = schema.columns]
        /\ UNCHANGED <<maps, taken>>
     \/ /\ ~schema.mustReturn /\ AllowReturnAll /\ ~schema.inSubquery
        /\ maps[schema.vars] # {}
        /\ frames' = [frames EXCEPT ![Depth].returned = Inner.scope]
        /\ UNCHANGED <<maps, taken>>
     \/ /\ ~schema.mustReturn
        /\ TakeNewName
        /\ maps' = Use(maps, NewName)
        /\ frames' = [frames EXCEPT ![Depth].returned = {NewName}]
  /\ UNCHANGED schema

(* populateVariablesToReturn: one column (it may be more). *)
Populate(h) ==
  /\ TakeNewName
  /\ schema' = [h.schema EXCEPT !.mustReturn = TRUE, !.columns = {NewName}]
  /\ maps' = Use(h.maps, NewName)

Become(h) == schema' = h.schema /\ maps' = h.maps /\ UNCHANGED taken

-----------------------------------------------------------------------------
(* CALL *)

(* The body sees what is imported, all of it with WITH *.                  *)
CallSubqueryClause ==
  /\ Generate("CallSubqueryClause",
              << Clause("ReadClause"), Restore("CallSubqueryEnd", schema) >>)
  /\ \E imports \in SUBSET maps[schema.vars], all, must \in BOOLEAN :
       LET body == [schema |-> [NewContext.schema EXCEPT !.inSubquery = TRUE],
                    maps |-> Insert(NewContext.maps, NewContext.schema.vars, imports)]
       IN /\ all => imports = maps[schema.vars]
          /\ IF must THEN Populate(body) ELSE Become(body)
          /\ Push(IF all THEN Inner.scope ELSE imports)

(* The variables that a subquery which had to return adds. *)
Returned == IF schema.mustReturn THEN schema.columns ELSE {}

CallSubqueryEnd ==
  /\ ModifySchema("CallSubqueryEnd")
  /\ schema' = [Old EXCEPT !.usedNames = schema.usedNames]
  /\ maps' = [maps EXCEPT ![Old.vars] = @ \cup Returned]
  /\ frames' = [Popped EXCEPT ![Depth - 1].scope = @ \cup Inner.returned]
  /\ UNCHANGED taken
-----------------------------------------------------------------------------
(* UNION *)

Union ==
  /\ Generate("Union", << Clause("ReadClause"), Clause("UnionClause") >>)
  /\ \E kind \in IF schema.isUnionAll = "undecided" THEN {"all", "distinct"}
                  ELSE {schema.isUnionAll} :
       LET decided == [schema |-> [schema EXCEPT !.isUnionAll = kind], maps |-> maps]
       IN /\ IF schema.mustReturn THEN Become(decided) ELSE Populate(decided)
          /\ frames' = [frames EXCEPT ![Depth].unions = @ \cup {kind}]

(* Wrong on purpose: the columns are not handed on. *)
UnionContextMutant ==
  [NewContext.schema EXCEPT !.isUnionAll = schema.isUnionAll]

(* The context of the second part. *)
UnionContext ==
  [NewContext.schema EXCEPT !.isUnionAll = schema.isUnionAll, !.mustReturn = TRUE,
                            !.columns = schema.columns]

(* The text's scope begins anew, too. *)
NextPart(scope) ==
  frames' = [frames EXCEPT ![Depth].scope = scope, ![Depth].returned = {},
                           ![Depth].parts = @ \cup {Inner.returned}]

UnionClause ==
  /\ Generate("UnionClause", << Clause("ReadClause"), Restore("UnionEnd", schema) >>)
  /\ schema' = UnionContext /\ maps' = NewContext.maps
  /\ NextPart({})
  /\ UNCHANGED taken

UnionEnd ==
  /\ ModifySchema("UnionEnd")
  /\ schema' = Old
  /\ frames' = [frames EXCEPT ![Depth].parts = @ \cup {Inner.returned}]
  /\ UNCHANGED <<maps, taken>>

-----------------------------------------------------------------------------
(* Clauses with a scope of their own: FOREACH and subquery expressions     *)
(* work on a subcontext, predicates and list comprehensions on the schema  *)
(* itself, a copy of which they put back.                                  *)

(* The iterator is bound once its list is written. *)
BindIterator ==
  /\ ModifySchema("BindIterator")
  /\ maps' = Insert(maps, schema.vars, {Name})
  /\ Declare(Name)
  /\ UNCHANGED <<schema, taken>>

ForeachClause ==
  /\ TakeNewName
  /\ \E list \in Optional("Expression") :
       Generate("ForeachClause",
         list \o << Bind("BindIterator", NewName), Clause("ForeachCommand"),
                   Restore("ScopeEnd", schema) >>)
  /\ schema' = NewSubContext.schema
  /\ maps' = Use(NewSubContext.maps, NewName)
  /\ Push(Inner.scope)

(* ModifySchema of these clauses: the old schema, with the names since. *)
ScopeEnd ==
  /\ ModifySchema("ScopeEnd")
  /\ schema' = [Old EXCEPT !.usedNames = schema.usedNames]
  /\ frames' = Popped
  /\ UNCHANGED <<maps, taken>>

(* Predicate and ListComprehension; the latter need not bind its iterator. *)
Predicate ==
  /\ TakeNewName
  /\ \E list, where \in Optional("Expression"), binds \in {<< >>, << Bind("BindIterator", NewName) >>} :
       Generate("Predicate",
         list \o binds \o where \o << Restore("PredicateEnd", Copy.schema) >>)
  /\ maps' = Use(Copy.maps, NewName)
  /\ Depth < MaxScopes
  /\ frames' = Append(frames, [Frame(Inner.scope) EXCEPT !.pattern = Inner.pattern])
  /\ UNCHANGED schema

PredicateEnd ==
  /\ ModifySchema("PredicateEnd")
  /\ schema' = Old
  /\ frames' = Popped
  /\ UNCHANGED <<maps, taken>>

SimpleSubqueryExpressionBody ==
  /\ \E where \in Optional("Expression") :
       Generate("SimpleSubqueryExpressionBody",
         << Clause("PathPatternExpression") >> \o where \o << Restore("ScopeEnd", schema) >>)
  /\ Become(NewSubContext)
  /\ Push(Inner.scope)

(* With columns to return, or without; a UNION needs some. *)
SubqueryExpression ==
  /\ Depth < MaxScopes
  /\ \E must, union \in BOOLEAN :
       /\ frames' = Append(frames,
            [Frame(Inner.scope) EXCEPT !.unions = IF union THEN {"all"} ELSE {}])
       /\ Generate("SubqueryExpression",
            (IF union THEN << Clause("SubqueryExpressionBodyPart") >> ELSE << >>)
              \o << Clause("SubqueryExpressionBodyPart"), Restore("ScopeEnd", schema) >>)
       /\ IF must \/ union THEN Populate(NewSubContext) ELSE Become(NewSubContext)

SubqueryExpressionBodyPart ==
  /\ \E with \in Optional("WithClause"), where \in Optional("Expression") :
       Generate("SubqueryExpressionBodyPart",
         with \o << Clause("PathPatternExpression") >> \o where
           \o (IF schema.mustReturn THEN << Clause("Return") >> ELSE << >>)
           \o << Restore("BodyPartEnd", schema) >>)
  /\ schema' = [NewSubContext.schema EXCEPT !.mustReturn = schema.mustReturn,
                                            !.columns = schema.columns]
  /\ maps' = NewSubContext.maps
  /\ Push(Inner.scope)
  /\ UNCHANGED taken

BodyPartEnd ==
  /\ ModifySchema("BodyPartEnd")
  /\ schema' = [Old EXCEPT !.usedNames = schema.usedNames]
  /\ frames' = [Popped EXCEPT ![Depth - 1].parts = @ \cup {Inner.returned}]
  /\ UNCHANGED <<maps, taken>>
-----------------------------------------------------------------------------
(* Clauses that declare names in the scope they are in. *)

UnwindClause ==
  /\ TakeNewName
  /\ \E list \in Optional("Expression") :
       Generate("UnwindClause", list \o << Bind("BindIterator", NewName) >>)
  /\ maps' = Use(maps, NewName)
  /\ UNCHANGED <<schema, frames>>

(* A node or relationship of a pattern, with or without a name, and what   *)
(* follows: its properties, or the rest of the path.                       *)
PathPatternExpression ==
  /\ \E rest \in Optional("Expression") \cup Optional("PathPatternExpression") :
       Generate("PathPatternExpression", rest)
  /\ \/ UNCHANGED <<maps, frames, taken>>
     \/ /\ TakeNewName
        /\ maps' = Insert(Use(maps, NewName), schema.vars, {NewName})
        /\ Declare(NewName)
  /\ UNCHANGED schema

CreateClause ==
  /\ Generate("CreateClause", << Clause("CreateElement"), Clause("CreateEnd") >>)
  /\ schema' = [schema EXCEPT !.justCreated = {}]
  /\ UNCHANGED <<maps, frames, taken>>

(* The names of the pattern can be used once it is created. *)
EndPattern ==
  frames' = [frames EXCEPT ![Depth].scope = @ \cup Inner.pattern, ![Depth].pattern = {}]

CreateEnd ==
  /\ ModifySchema("CreateEnd")
  /\ maps' = Insert(maps, schema.vars, schema.justCreated)
  /\ EndPattern
  /\ UNCHANGED <<schema, taken>>

CreateElement ==
  /\ \E rest \in Optional("Expression") \cup Optional("CreateElement") :
       Generate("CreateElement", rest)
  /\ \/ UNCHANGED <<schema, maps, frames, taken>>
     \/ /\ TakeNewName
        /\ maps' = Use(maps, NewName)
        /\ schema' = [schema EXCEPT !.justCreated = @ \cup {NewName}]
        /\ frames' = [frames EXCEPT ![Depth].pattern = @ \cup {NewName}]

MergeClause ==
  /\ \E set \in Optional("Expression") :
       Generate("MergeClause",
         << Clause("CreateElement") >> \o set \o << Restore("MergeEnd", schema) >>)
  /\ schema' = [schema EXCEPT !.inMerge = TRUE]
  /\ UNCHANGED <<maps, frames, taken>>

MergeEnd ==
  /\ ModifySchema("MergeEnd")
  /\ schema' = [schema EXCEPT !.inMerge = Old.inMerge]
  /\ EndPattern
  /\ UNCHANGED <<maps, taken>>

(* WITH * or a list. *)
WithClause ==
  /\ \E list \in Optional("WithElementChain") : Generate("WithClause", list)
  /\ UNCHANGED <<schema, maps, frames, taken>>

(* An element of the list, the last one or not. *)
WithElementChain ==
  /\ TakeNewName
  /\ \E e \in Optional("Expression"), more \in Optional("WithElementChain") :
       Generate("WithElementChain",
         e \o more \o << Bind(IF more = << >> THEN "LastWithElementEnd" ELSE "WithElementEnd", NewName) >>)
  /\ maps' = Use(maps, NewName)
  /\ UNCHANGED <<schema, frames>>

(* ResetContext.  The names of the list are never added to the schema, as  *)
(* elementName is not set.  The last element is the first to come here.    *)
WithElementEnd ==
  /\ \/ /\ ModifySchema("LastWithElementEnd")
        /\ frames' = [frames EXCEPT ![Depth].scope = {Name}]
     \/ /\ ModifySchema("WithElementEnd")
        /\ Declare(Name)
  /\ Become(ResetContext)

Next ==
  \/ ReadClause \/ WriteClause \/ OptionalWriteQuery \/ ForeachCommand \/ Expression
  \/ Return \/ CallSubqueryClause \/ CallSubqueryEnd
  \/ Union \/ UnionClause \/ UnionEnd
  \/ BindIterator \/ ForeachClause \/ ScopeEnd \/ Predicate \/ PredicateEnd
  \/ SimpleSubqueryExpressionBody \/ SubqueryExpression
  \/ SubqueryExpressionBodyPart \/ BodyPartEnd
  \/ UnwindClause \/ PathPatternExpression
  \/ CreateClause \/ CreateElement \/ CreateEnd \/ MergeClause \/ MergeEnd
  \/ WithClause \/ WithElementChain \/ WithElementEnd

Spec == Init /\ [][Next]_vars

-----------------------------------------------------------------------------
(***************************************************************************)
(* Every variable keeps its type, and every schema, kept ones included,    *)
(* refers to maps that exist.                                              *)
(***************************************************************************)
TypeOK ==
  /\ todo \in Seq([clause : STRING, old : Schemas, name : Nat])
  /\ schema \in Schemas
  /\ maps \in Seq(SUBSET Names)
  /\ schema.vars \in DOMAIN maps /\ schema.usedNames \in DOMAIN maps
  /\ \A i \in DOMAIN todo :
       todo[i].old.vars \in DOMAIN maps /\ todo[i].old.usedNames \in DOMAIN maps
  /\ \A f \in DOMAIN frames :
       /\ frames[f].scope \subseteq Names /\ frames[f].pattern \subseteq Names
       /\ frames[f].returned \subseteq Names
       /\ frames[f].parts \subseteq SUBSET Names
       /\ frames[f].unions \subseteq {"all", "distinct"}
  /\ taken \subseteq Names /\ clauses \in 0 .. MaxClauses

(* Where a (sub)query, or a part of it, ends, nothing is referred to. *)
Ends == {"UnionClause", "UnionEnd", "CallSubqueryEnd"}

(***************************************************************************)
(* The variables the generator may refer to next are in the scope of the   *)
(* text at that place, whatever subqueries, unions and iterators came and  *)
(* went; those of the pattern being created are of this pattern or scope.  *)
(***************************************************************************)
NamesInScope ==
  todo # << >> /\ Head(todo).clause \notin Ends =>
    /\ maps[schema.vars] \subseteq Inner.scope
    /\ schema.justCreated \subseteq Inner.scope \cup Inner.pattern

(***************************************************************************)
(* UsedNames knows every name of the text, also those of scopes that were  *)
(* put away (schema.go:111: "Used names must persist"): none is declared   *)
(* twice.                                                                  *)
(***************************************************************************)
UsedNamesPersist == maps[schema.usedNames] = taken

(***************************************************************************)
(* All parts of a UNION end with a RETURN of the same columns, and all     *)
(* UNIONs of a (sub)query are of one kind.                                 *)
(***************************************************************************)
UnionPartsAgree ==
  \A f \in DOMAIN frames :
    /\ Cardinality(frames[f].unions) <= 1
    /\ Cardinality(frames[f].parts) <= 1
    /\ frames[f].unions # {} => {} \notin frames[f].parts
=============================================================================
