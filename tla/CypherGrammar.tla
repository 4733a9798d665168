---------------------------- MODULE CypherGrammar ----------------------------
(***************************************************************************)
(* The grammar that src/data/CypherParser.py parses reported statements    *)
(* with: one definition per parser method, named after it.  A method is    *)
(* the sequence of the tokens it matches and the methods it calls; a       *)
(* choice lists the alternatives in the order adaptivePredict numbers      *)
(* them, in which the parser also prefers them.                            *)
(*                                                                         *)
(* White space is left out: the methods match SP tokens where a statement  *)
(* may or must have them, and dinkel writes every statement with them.     *)
(* The other arrow heads and dashes of Unicode are left out, too.          *)
(***************************************************************************)
EXTENDS Sequences

(* A part of a method: a token or a method by name ("is"), alternatives    *)
(* ("choice"), or something repeated ("many").                             *)
Part(op, name, bodies) == [op |-> op, name |-> name, bodies |-> bodies]

Of(names) == [i \in DOMAIN names |-> Part("is", names[i], << >>)]
OneOf(bodies) == <<Part("choice", "", bodies)>>
AnyOf(names) == OneOf([i \in DOMAIN names |-> Of(<<names[i]>>)])
Maybe(body) == OneOf(<<body, << >> >>)
Many(body) == <<Part("many", "", <<body>>)>>
Some(body) == body \o Many(body)
List(name) == Of(<<name>>) \o Many(Of(<<",", name>>))

-----------------------------------------------------------------------------
(* Queries. *)

oC_Cypher == Of(<<"oC_Statement">>) \o Maybe(Of(<<";">>)) \o Of(<<"EOF">>)

oC_Statement == Of(<<"oC_Query">>)

oC_Query == AnyOf(<<"oC_RegularQuery", "oC_StandaloneCall">>)

oC_RegularQuery == Of(<<"oC_SingleQuery">>) \o Many(Of(<<"oC_Union">>))

oC_Union ==
  OneOf(<<Of(<<"UNION", "ALL", "oC_SingleQuery">>),
          Of(<<"UNION", "oC_SingleQuery">>)>>)

oC_SingleQuery == AnyOf(<<"oC_SinglePartQuery", "oC_MultiPartQuery">>)

oC_SinglePartQuery ==
  LET reading == Many(Of(<<"oC_ReadingClause">>)) IN
  OneOf(<<reading \o Of(<<"oC_Return">>),
          reading \o Some(Of(<<"oC_UpdatingClause">>))
                  \o Maybe(Of(<<"oC_Return">>))>>)

oC_MultiPartQuery ==
  Some(Many(Of(<<"oC_ReadingClause">>)) \o Many(Of(<<"oC_UpdatingClause">>))
         \o Of(<<"oC_With">>))
    \o Of(<<"oC_SinglePartQuery">>)

oC_UpdatingClause ==
  AnyOf(<<"oC_Create", "oC_Merge", "oC_Foreach", "oC_Delete", "oC_Set",
          "oC_CallSubquery", "oC_Remove">>)

oC_ReadingClause ==
  AnyOf(<<"oC_Match", "oC_Unwind", "oC_InQueryCall", "oC_CallSubquery">>)

-----------------------------------------------------------------------------
(* Clauses. *)

oC_Match ==
  Maybe(Of(<<"OPTIONAL">>)) \o Of(<<"MATCH", "oC_Pattern">>)
    \o Maybe(Of(<<"oC_Where">>))

oC_CallSubquery == Of(<<"CALL", "{", "oC_RegularQuery", "}">>)

oC_Foreach ==
  Of(<<"FOREACH", "(", "oC_IdInColl", "|">>) \o Some(Of(<<"oC_UpdatingClause">>))
    \o Of(<<")">>)

oC_Unwind == Of(<<"UNWIND", "oC_Expression", "AS", "oC_Variable">>)

oC_Merge == Of(<<"MERGE", "oC_PatternPart">>) \o Many(Of(<<"oC_MergeAction">>))

oC_MergeAction ==
  OneOf(<<Of(<<"ON", "MATCH", "oC_Set">>), Of(<<"ON", "CREATE", "oC_Set">>)>>)

oC_Create == Of(<<"CREATE", "oC_Pattern">>)

oC_Set == Of(<<"SET">>) \o List("oC_SetItem")

oC_SetItem ==
  OneOf(<<Of(<<"oC_PropertyExpression", "=", "oC_Expression">>),
          Of(<<"oC_Variable", "=", "oC_Expression">>),
          Of(<<"oC_Variable", "+=", "oC_Expression">>),
          Of(<<"oC_Variable", "oC_NodeLabels">>)>>)

oC_Delete ==
  Maybe(Of(<<"DETACH">>)) \o Of(<<"DELETE">>) \o List("oC_Expression")

oC_Remove == Of(<<"REMOVE">>) \o List("oC_RemoveItem")

oC_RemoveItem ==
  OneOf(<<Of(<<"oC_Variable", "oC_NodeLabels">>),
          Of(<<"oC_PropertyExpression">>)>>)

oC_InQueryCall ==
  Of(<<"CALL", "oC_ExplicitProcedureInvocation">>)
    \o Maybe(Of(<<"YIELD", "oC_YieldItems">>))

oC_StandaloneCall ==
  Of(<<"CALL">>)
    \o AnyOf(<<"oC_ExplicitProcedureInvocation",
               "oC_ImplicitProcedureInvocation">>)
    \o Maybe(Of(<<"YIELD">>) \o AnyOf(<<"*", "oC_YieldItems">>))

oC_YieldItems == List("oC_YieldItem") \o Maybe(Of(<<"oC_Where">>))

oC_YieldItem ==
  Maybe(Of(<<"oC_ProcedureResultField", "AS">>)) \o Of(<<"oC_Variable">>)

oC_With == Of(<<"WITH", "oC_ProjectionBody">>) \o Maybe(Of(<<"oC_Where">>))

oC_Return == Of(<<"RETURN", "oC_ProjectionBody">>)

oC_ProjectionBody ==
  Maybe(Of(<<"DISTINCT">>)) \o Of(<<"oC_ProjectionItems">>)
    \o Maybe(Of(<<"oC_Order">>)) \o Maybe(Of(<<"oC_Skip">>))
    \o Maybe(Of(<<"oC_Limit">>))

oC_ProjectionItems ==
  OneOf(<<Of(<<"*">>) \o Many(Of(<<",", "oC_ProjectionItem">>)),
          List("oC_ProjectionItem")>>)

oC_ProjectionItem ==
  OneOf(<<Of(<<"oC_Expression", "AS", "oC_Variable">>),
          Of(<<"oC_Expression">>)>>)

oC_Order == Of(<<"ORDER", "BY">>) \o List("oC_SortItem")

oC_Skip == Of(<<"L_SKIP", "oC_Expression">>)

oC_Limit == Of(<<"LIMIT", "oC_Expression">>)

oC_SortItem ==
  Of(<<"oC_Expression">>)
    \o Maybe(AnyOf(<<"ASCENDING", "ASC", "DESCENDING", "DESC">>))

oC_Where == Of(<<"WHERE", "oC_Expression">>)

-----------------------------------------------------------------------------
(* Patterns. *)

oC_Pattern == List("oC_PatternPart")

oC_PatternPart ==
  OneOf(<<Of(<<"oC_Variable", "=", "oC_AnonymousPatternPart">>),
          Of(<<"oC_AnonymousPatternPart">>)>>)

oC_AnonymousPatternPart == Of(<<"oC_PatternElement">>)

oC_PatternElement ==
  OneOf(<<Of(<<"oC_NodePattern">>) \o Many(Of(<<"oC_PatternElementChain">>)),
          Of(<<"(", "oC_PatternElement", ")">>)>>)

oC_RelationshipsPattern ==
  Of(<<"oC_NodePattern">>) \o Some(Of(<<"oC_PatternElementChain">>))

oC_NodePattern ==
  Of(<<"(">>) \o Maybe(Of(<<"oC_Variable">>)) \o Maybe(Of(<<"oC_NodeLabels">>))
    \o Maybe(Of(<<"oC_Properties">>)) \o Of(<<")">>)

oC_PatternElementChain == Of(<<"oC_RelationshipPattern", "oC_NodePattern">>)

oC_RelationshipPattern ==
  LET detail == Maybe(Of(<<"oC_RelationshipDetail">>))
      left == Of(<<"oC_LeftArrowHead", "oC_Dash">>)
      dash == Of(<<"oC_Dash">>)
      right == Of(<<"oC_Dash", "oC_RightArrowHead">>)
  IN OneOf(<<left \o detail \o right, left \o detail \o dash,
             dash \o detail \o right, dash \o detail \o dash>>)

oC_RelationshipDetail ==
  Of(<<"[">>) \o Maybe(Of(<<"oC_Variable">>))
    \o Maybe(Of(<<"oC_RelationshipTypes">>)) \o Maybe(Of(<<"oC_RangeLiteral">>))
    \o Maybe(Of(<<"oC_Properties">>)) \o Of(<<"]">>)

oC_Properties == AnyOf(<<"oC_MapLiteral", "oC_Parameter">>)

oC_RelationshipTypes ==
  Of(<<":", "oC_RelTypeName">>)
    \o Many(Of(<<"|">>) \o Maybe(Of(<<":">>)) \o Of(<<"oC_RelTypeName">>))

oC_NodeLabels == Some(Of(<<"oC_NodeLabel">>))

oC_NodeLabel == Of(<<":", "oC_LabelName">>)

oC_RangeLiteral ==
  LET bound == Maybe(Of(<<"oC_IntegerLiteral">>)) IN
  Of(<<"*">>) \o bound \o Maybe(Of(<<"..">>) \o bound)

oC_LabelName == Of(<<"oC_SchemaName">>)

oC_RelTypeName == Of(<<"oC_SchemaName">>)

-----------------------------------------------------------------------------
(* Expressions, by precedence. *)

oC_PropertyExpression == Of(<<"oC_Atom">>) \o Some(Of(<<"oC_PropertyLookup">>))

oC_Expression == Of(<<"oC_OrExpression">>)

oC_OrExpression ==
  Of(<<"oC_XorExpression">>) \o Many(Of(<<"OR", "oC_XorExpression">>))

oC_XorExpression ==
  Of(<<"oC_AndExpression">>) \o Many(Of(<<"XOR", "oC_AndExpression">>))

oC_AndExpression ==
  Of(<<"oC_NotExpression">>) \o Many(Of(<<"AND", "oC_NotExpression">>))

oC_NotExpression == Many(Of(<<"NOT">>)) \o Of(<<"oC_ComparisonExpression">>)

oC_ComparisonExpression ==
  Of(<<"oC_StringListNullPredicateExpression">>)
    \o Many(Of(<<"oC_PartialComparisonExpression">>))

oC_PartialComparisonExpression ==
  AnyOf(<<"=", "<>", "<", ">", "<=", ">=", "=~">>)
    \o Of(<<"oC_StringListNullPredicateExpression">>)

oC_StringListNullPredicateExpression ==
  Of(<<"oC_AddOrSubtractExpression">>)
    \o Many(AnyOf(<<"oC_StringPredicateExpression",
                    "oC_ListPredicateExpression",
                    "oC_NullPredicateExpression">>))

oC_StringPredicateExpression ==
  OneOf(<<Of(<<"STARTS", "WITH">>), Of(<<"ENDS", "WITH">>),
          Of(<<"CONTAINS">>)>>)
    \o Of(<<"oC_AddOrSubtractExpression">>)

oC_ListPredicateExpression == Of(<<"IN", "oC_AddOrSubtractExpression">>)

oC_NullPredicateExpression ==
  OneOf(<<Of(<<"IS", "NULL">>), Of(<<"IS", "NOT", "NULL">>)>>)

oC_AddOrSubtractExpression ==
  LET term == Of(<<"oC_MultiplyDivideModuloExpression">>) IN
  term \o Many(AnyOf(<<"+", "-">>) \o term)

oC_MultiplyDivideModuloExpression ==
  LET power == Of(<<"oC_PowerOfExpression">>) IN
  power \o Many(AnyOf(<<"*", "/", "%">>) \o power)

oC_PowerOfExpression ==
  LET unary == Of(<<"oC_UnaryAddOrSubtractExpression">>) IN
  unary \o Many(Of(<<"^">>) \o unary)

oC_UnaryAddOrSubtractExpression ==
  LET operand == Of(<<"oC_ListOperatorExpression">>) IN
  OneOf(<<operand, AnyOf(<<"+", "-">>) \o operand>>)

oC_ListOperatorExpression ==
  LET bound == Maybe(Of(<<"oC_Expression">>)) IN
  Of(<<"oC_PropertyOrLabelsExpression">>)
    \o Many(OneOf(<<Of(<<"[", "oC_Expression", "]">>),
                    Of(<<"[">>) \o bound \o Of(<<"..">>) \o bound
                      \o Of(<<"]">>)>>))

oC_PropertyOrLabelsExpression ==
  Of(<<"oC_Atom">>) \o Many(Of(<<"oC_PropertyLookup">>))
    \o Maybe(Of(<<"oC_NodeLabels">>))

oC_PropertyLookup == Of(<<".", "oC_PropertyKeyName">>)

oC_Atom ==
  OneOf(<<Of(<<"oC_Literal">>), Of(<<"oC_Parameter">>),
          Of(<<"oC_CaseExpression">>), Of(<<"COUNT", "(", "*", ")">>),
          Of(<<"oC_ListComprehension">>), Of(<<"oC_PatternComprehension">>),
          Of(<<"oC_Quantifier">>), Of(<<"oC_PatternPredicate">>),
          Of(<<"oC_ParenthesizedExpression">>), Of(<<"oC_FunctionInvocation">>),
          Of(<<"oC_ExistentialSubquery">>), Of(<<"oC_CountSubquery">>),
          Of(<<"oC_Variable">>)>>)

oC_CaseExpression ==
  LET alternatives == Some(Of(<<"oC_CaseAlternative">>)) IN
  OneOf(<<Of(<<"CASE">>) \o alternatives,
          Of(<<"CASE", "oC_Expression">>) \o alternatives>>)
    \o Maybe(Of(<<"ELSE", "oC_Expression">>)) \o Of(<<"END">>)

oC_CaseAlternative == Of(<<"WHEN", "oC_Expression", "THEN", "oC_Expression">>)

oC_ListComprehension ==
  Of(<<"[", "oC_FilterExpression">>) \o Maybe(Of(<<"|", "oC_Expression">>))
    \o Of(<<"]">>)

oC_PatternComprehension ==
  Of(<<"[">>) \o Maybe(Of(<<"oC_Variable", "=">>))
    \o Of(<<"oC_RelationshipsPattern">>) \o Maybe(Of(<<"oC_Where">>))
    \o Of(<<"|", "oC_Expression", "]">>)

oC_Quantifier ==
  AnyOf(<<"ALL", "ANY", "NONE", "SINGLE">>)
    \o Of(<<"(", "oC_FilterExpression", ")">>)

oC_FilterExpression == Of(<<"oC_IdInColl">>) \o Maybe(Of(<<"oC_Where">>))

oC_PatternPredicate == Of(<<"oC_RelationshipsPattern">>)

oC_ParenthesizedExpression == Of(<<"(", "oC_Expression", ")">>)

oC_IdInColl == Of(<<"oC_Variable", "IN", "oC_Expression">>)

(* Wrong on purpose: an argument may filter, as those of FILTER and        *)
(* EXTRACT once did.                                                       *)
FilterArgumentMutant ==
  Of(<<"oC_FunctionName", "(">>) \o Maybe(Of(<<"DISTINCT">>))
    \o Maybe(AnyOf(<<"oC_Expression", "oC_FilterExpression">>)
               \o Many(Of(<<",", "oC_Expression">>)))
    \o Of(<<")">>)

oC_FunctionInvocation ==
  Of(<<"oC_FunctionName", "(">>) \o Maybe(Of(<<"DISTINCT">>))
    \o Maybe(List("oC_Expression")) \o Of(<<")">>)

oC_FunctionName == Of(<<"oC_Namespace", "oC_SymbolicName">>)

(* Wrong on purpose: the clauses have to return something. *)
ReturningBodyMutant ==
  Of(<<"{">>)
    \o OneOf(<<Of(<<"oC_RegularQuery">>),
               Of(<<"oC_Pattern">>) \o Maybe(Of(<<"oC_Where">>))>>)
    \o Of(<<"}">>)

(* What follows EXISTS and COUNT: a query, a pattern, or the clauses of a  *)
(* query that returns nothing.                                             *)
SubqueryBody ==
  Of(<<"{">>)
    \o OneOf(<<Of(<<"oC_RegularQuery">>),
               Of(<<"oC_Pattern">>) \o Maybe(Of(<<"oC_Where">>)),
               Some(AnyOf(<<"oC_ReadingClause", "oC_With">>))>>)
    \o Of(<<"}">>)

oC_ExistentialSubquery == Of(<<"EXISTS">>) \o SubqueryBody

oC_CountSubquery == Of(<<"COUNT">>) \o SubqueryBody

oC_ExplicitProcedureInvocation ==
  Of(<<"oC_ProcedureName", "(">>) \o Maybe(List("oC_Expression")) \o Of(<<")">>)

oC_ImplicitProcedureInvocation == Of(<<"oC_ProcedureName">>)

oC_ProcedureResultField == Of(<<"oC_SymbolicName">>)

oC_ProcedureName == Of(<<"oC_Namespace", "oC_SymbolicName">>)

oC_Namespace == Many(Of(<<"oC_SymbolicName", ".">>))

-----------------------------------------------------------------------------
(* Literals and names. *)

oC_Variable == Of(<<"oC_SymbolicName">>)

oC_Literal ==
  AnyOf(<<"oC_BooleanLiteral", "NULL", "oC_NumberLiteral", "StringLiteral",
          "oC_ListLiteral", "oC_MapLiteral">>)

oC_BooleanLiteral == AnyOf(<<"TRUE", "FALSE">>)

oC_NumberLiteral == AnyOf(<<"oC_DoubleLiteral", "oC_IntegerLiteral">>)

oC_IntegerLiteral == AnyOf(<<"HexInteger", "OctalInteger", "DecimalInteger">>)

oC_DoubleLiteral == AnyOf(<<"ExponentDecimalReal", "RegularDecimalReal">>)

oC_ListLiteral == Of(<<"[">>) \o Maybe(List("oC_Expression")) \o Of(<<"]">>)

oC_MapLiteral ==
  LET pair == Of(<<"oC_PropertyKeyName", ":", "oC_Expression">>) IN
  Of(<<"{">>) \o Maybe(pair \o Many(Of(<<",">>) \o pair)) \o Of(<<"}">>)

oC_PropertyKeyName == Of(<<"oC_SchemaName">>)

oC_Parameter == Of(<<"$">>) \o AnyOf(<<"oC_SymbolicName", "DecimalInteger">>)

oC_SchemaName == AnyOf(<<"oC_SymbolicName", "oC_ReservedWord">>)

oC_ReservedWord ==
  AnyOf(<<"ALL", "ASC", "ASCENDING", "BY", "CREATE", "DELETE", "DESC",
          "DESCENDING", "DETACH", "EXISTS", "LIMIT", "MATCH", "MERGE", "ON",
          "OPTIONAL", "ORDER", "REMOVE", "RETURN", "SET", "L_SKIP", "WHERE",
          "WITH", "UNION", "UNWIND", "AND", "AS", "CONTAINS", "DISTINCT",
          "ENDS", "IN", "IS", "NOT", "OR", "STARTS", "XOR", "FALSE", "TRUE",
          "NULL", "CONSTRAINT", "DO", "FOR", "REQUIRE", "UNIQUE", "CASE",
          "WHEN", "THEN", "ELSE", "END", "MANDATORY", "SCALAR", "OF", "ADD",
          "DROP">>)

oC_SymbolicName ==
  AnyOf(<<"UnescapedSymbolicName", "EscapedSymbolicName", "HexLetter",
          "COUNT", "FILTER", "EXTRACT", "ANY", "NONE", "SINGLE">>)

oC_LeftArrowHead == Of(<<"<">>)

oC_RightArrowHead == Of(<<">">>)

oC_Dash == Of(<<"-">>)

-----------------------------------------------------------------------------
(* The methods by name. *)
Rules ==
  [ oC_Cypher |-> oC_Cypher, oC_Statement |-> oC_Statement, oC_Query |->
    oC_Query, oC_RegularQuery |-> oC_RegularQuery, oC_Union |-> oC_Union,
    oC_SingleQuery |-> oC_SingleQuery, oC_SinglePartQuery |->
    oC_SinglePartQuery, oC_MultiPartQuery |-> oC_MultiPartQuery,
    oC_UpdatingClause |-> oC_UpdatingClause, oC_ReadingClause |->
    oC_ReadingClause, oC_Match |-> oC_Match, oC_CallSubquery |->
    oC_CallSubquery, oC_Foreach |-> oC_Foreach, oC_Unwind |-> oC_Unwind,
    oC_Merge |-> oC_Merge, oC_MergeAction |-> oC_MergeAction, oC_Create |->
    oC_Create, oC_Set |-> oC_Set, oC_SetItem |-> oC_SetItem, oC_Delete |->
    oC_Delete, oC_Remove |-> oC_Remove, oC_RemoveItem |-> oC_RemoveItem,
    oC_InQueryCall |-> oC_InQueryCall, oC_StandaloneCall |->
    oC_StandaloneCall, oC_YieldItems |-> oC_YieldItems, oC_YieldItem |->
    oC_YieldItem, oC_With |-> oC_With, oC_Return |-> oC_Return,
    oC_ProjectionBody |-> oC_ProjectionBody, oC_ProjectionItems |->
    oC_ProjectionItems, oC_ProjectionItem |-> oC_ProjectionItem, oC_Order |->
    oC_Order, oC_Skip |-> oC_Skip, oC_Limit |-> oC_Limit, oC_SortItem |->
    oC_SortItem, oC_Where |-> oC_Where, oC_Pattern |-> oC_Pattern,
    oC_PatternPart |-> oC_PatternPart, oC_AnonymousPatternPart |->
    oC_AnonymousPatternPart, oC_PatternElement |-> oC_PatternElement,
    oC_RelationshipsPattern |-> oC_RelationshipsPattern, oC_NodePattern |->
    oC_NodePattern, oC_PatternElementChain |-> oC_PatternElementChain,
    oC_RelationshipPattern |-> oC_RelationshipPattern, oC_RelationshipDetail
    |-> oC_RelationshipDetail, oC_Properties |-> oC_Properties,
    oC_RelationshipTypes |-> oC_RelationshipTypes, oC_NodeLabels |->
    oC_NodeLabels, oC_NodeLabel |-> oC_NodeLabel, oC_RangeLiteral |->
    oC_RangeLiteral, oC_LabelName |-> oC_LabelName, oC_RelTypeName |->
    oC_RelTypeName, oC_PropertyExpression |-> oC_PropertyExpression,
    oC_Expression |-> oC_Expression, oC_OrExpression |-> oC_OrExpression,
    oC_XorExpression |-> oC_XorExpression, oC_AndExpression |->
    oC_AndExpression, oC_NotExpression |-> oC_NotExpression,
    oC_ComparisonExpression |-> oC_ComparisonExpression,
    oC_PartialComparisonExpression |-> oC_PartialComparisonExpression,
    oC_StringListNullPredicateExpression |->
    oC_StringListNullPredicateExpression, oC_StringPredicateExpression |->
    oC_StringPredicateExpression, oC_ListPredicateExpression |->
    oC_ListPredicateExpression, oC_NullPredicateExpression |->
    oC_NullPredicateExpression, oC_AddOrSubtractExpression |->
    oC_AddOrSubtractExpression, oC_MultiplyDivideModuloExpression |->
    oC_MultiplyDivideModuloExpression, oC_PowerOfExpression |->
    oC_PowerOfExpression, oC_UnaryAddOrSubtractExpression |->
    oC_UnaryAddOrSubtractExpression, oC_ListOperatorExpression |->
    oC_ListOperatorExpression, oC_PropertyOrLabelsExpression |->
    oC_PropertyOrLabelsExpression, oC_PropertyLookup |-> oC_PropertyLookup,
    oC_Atom |-> oC_Atom, oC_CaseExpression |-> oC_CaseExpression,
    oC_CaseAlternative |-> oC_CaseAlternative, oC_ListComprehension |->
    oC_ListComprehension, oC_PatternComprehension |-> oC_PatternComprehension,
    oC_Quantifier |-> oC_Quantifier, oC_FilterExpression |->
    oC_FilterExpression, oC_PatternPredicate |-> oC_PatternPredicate,
    oC_ParenthesizedExpression |-> oC_ParenthesizedExpression, oC_IdInColl |->
    oC_IdInColl, oC_FunctionInvocation |-> oC_FunctionInvocation,
    oC_FunctionName |-> oC_FunctionName, oC_ExistentialSubquery |->
    oC_ExistentialSubquery, oC_CountSubquery |-> oC_CountSubquery,
    oC_ExplicitProcedureInvocation |-> oC_ExplicitProcedureInvocation,
    oC_ImplicitProcedureInvocation |-> oC_ImplicitProcedureInvocation,
    oC_ProcedureResultField |-> oC_ProcedureResultField, oC_ProcedureName |->
    oC_ProcedureName, oC_Namespace |-> oC_Namespace, oC_Variable |->
    oC_Variable, oC_Literal |-> oC_Literal, oC_BooleanLiteral |->
    oC_BooleanLiteral, oC_NumberLiteral |-> oC_NumberLiteral,
    oC_IntegerLiteral |-> oC_IntegerLiteral, oC_DoubleLiteral |->
    oC_DoubleLiteral, oC_ListLiteral |-> oC_ListLiteral, oC_MapLiteral |->
    oC_MapLiteral, oC_PropertyKeyName |-> oC_PropertyKeyName, oC_Parameter |->
    oC_Parameter, oC_SchemaName |-> oC_SchemaName, oC_ReservedWord |->
    oC_ReservedWord, oC_SymbolicName |-> oC_SymbolicName, oC_LeftArrowHead |->
    oC_LeftArrowHead, oC_RightArrowHead |-> oC_RightArrowHead, oC_Dash |->
    oC_Dash ]
=============================================================================
