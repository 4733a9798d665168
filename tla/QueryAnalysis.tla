---------------------------- MODULE QueryAnalysis ----------------------------
(***************************************************************************)
(* src/data/main.py goes through the bug reports and has analyze.py        *)
(* measure the last statement of each: the parser reads it (CypherGrammar),*)
(* a listener walks over the parse tree, counts in module globals, and     *)
(* to_row makes a row of them.                                             *)
(*                                                                         *)
(* A statement is a sequence of tokens; a name stands for itself, any      *)
(* other token is written as the lexer calls it.  The parser and the       *)
(* walker of ANTLR are external, modelled by what they promise: the tree   *)
(* is the one that takes the first possible alternative at every choice    *)
(* when the whole rest of the statement is looked at, and the walker calls *)
(* the listener in the order of the text.                                  *)
(***************************************************************************)
EXTENDS CypherGrammar, Naturals, FiniteSetsExt, Bags, SequencesExt, TLC

CONSTANTS
  Variables,  \* the variables of the statements,
  Labels,     \* their node labels,
  Keys,       \* their property keys and relationship types,
  Functions,  \* and the functions they call
  Folders     \* the directories of reports main.py may find

VARIABLES
  folder,       \* the reports, in the order os.listdir returns them
  index,        \* the report main.py is at
  pc,           \* what main.py is doing with it
  threads,      \* the readings of the tokens so far, the preferred one first
  position,     \* the next token
  events,       \* the listener calls that are still to come
  text,         \* the terminal visited last
  dependencies, \* for each name, the uses after its first
  qc,           \* the names first seen as a variable
  cur_depth, max_depth,
  terminals,    \* how often each keyword was visited
  rows          \* the rows written

parsing == <<threads, position, events>>
globals == <<text, dependencies, qc, cur_depth, max_depth, terminals>>
vars == <<folder, index, pc, parsing, globals, rows>>

-----------------------------------------------------------------------------
(* Tokens. *)

(* CypherLexer's token types from UNION to FALSE. *)
Keywords ==
  {"UNION", "ALL", "OPTIONAL", "MATCH", "FOREACH", "UNWIND", "AS", "MERGE",
   "ON", "CREATE", "SET", "DETACH", "DELETE", "REMOVE", "CALL", "YIELD",
   "WITH", "RETURN", "DISTINCT", "ORDER", "BY", "L_SKIP", "LIMIT",
   "ASCENDING", "ASC", "DESCENDING", "DESC", "WHERE", "OR", "XOR", "AND",
   "NOT", "STARTS", "ENDS", "CONTAINS", "IN", "IS", "NULL", "COUNT", "CASE",
   "ELSE", "END", "WHEN", "THEN", "ANY", "NONE", "SINGLE", "EXISTS", "TRUE",
   "FALSE"}

Larger(a, b) == IF a > b THEN a ELSE b

Names == Variables \cup Labels \cup Keys \cup Functions

TokenType(token) == IF token \in Names THEN "UnescapedSymbolicName" ELSE token

-----------------------------------------------------------------------------
(* The parser. *)

(* Wrong on purpose: only subqueries, loops and quantifiers. *)
DepthRulesMutant ==
  {"oC_CallSubquery", "oC_CountSubquery", "oC_ExistentialSubquery",
   "oC_Foreach", "oC_Quantifier"}

(* The rules at whose ends the listener acts. *)
DepthRules ==
  {"oC_CallSubquery", "oC_CountSubquery", "oC_ExistentialSubquery",
   "oC_Foreach", "oC_ListPredicateExpression", "oC_Quantifier"}

ReferenceRules == {"oC_NodeLabel", "oC_RelTypeName", "oC_PropertyKeyName"}

(* The token types a body can begin with, "" when it can be empty. *)
RECURSIVE First(_)
First(body) ==
  IF body = << >> THEN {""}
  ELSE LET part == Head(body)
           begins ==
             CASE part.op = "is" /\ part.name \in DOMAIN Rules ->
                    First(Rules[part.name])
               [] part.op = "is" /\ part.name \notin DOMAIN Rules ->
                    {part.name}
               [] part.op = "choice" ->
                    UNION {First(part.bodies[i]) : i \in DOMAIN part.bodies}
               [] part.op = "many" -> First(part.bodies[1]) \cup {""}
       IN IF "" \in begins THEN (begins \ {""}) \cup First(Tail(body))
                           ELSE begins

RuleNames == DOMAIN Rules
FirstOfRule == [rule \in RuleNames |-> First(Rules[rule])]

Call(at, name) == [at |-> at, name |-> name]
Reading(rest, calls) == [rest |-> rest, calls |-> calls]

(***************************************************************************)
(* What becomes of one reading, which expects "rest" and has called the    *)
(* listener with "calls", when the next token is read: the readings that   *)
(* go on, in the order of the alternatives they take.                      *)
(***************************************************************************)
RECURSIVE ReadToken(_, _, _)
ReadToken(rest, calls, token) ==
  IF rest = << >> THEN << >>
  ELSE LET part == Head(rest)
           after == Tail(rest)
           name == part.name
           listened == DepthRules \cup ReferenceRules \cup {"oC_Variable"}
           entered == IF name \in DepthRules
                      THEN Append(calls, Call("enter", name)) ELSE calls
           left == IF name \in listened
                   THEN <<Part("exit", name, << >>)>> ELSE << >>
       IN CASE part.op = "exit" ->
                 ReadToken(after, Append(calls, Call("exit", name)), token)
            [] part.op = "is" /\ name \notin RuleNames ->
                 IF name # TokenType(token) THEN << >>
                 ELSE <<Reading(after, Append(calls, Call("visit", token)))>>
            [] part.op = "is" /\ name \in RuleNames ->
                 IF {TokenType(token), ""} \cap FirstOfRule[name] = {} THEN << >>
                 ELSE ReadToken(Rules[name] \o left \o after, entered, token)
            [] part.op = "choice" /\ Len(part.bodies) = 1 ->
                 ReadToken(part.bodies[1] \o after, calls, token)
            [] part.op = "choice" /\ Len(part.bodies) > 1 ->
                 LET half == Len(part.bodies) \div 2
                     first == OneOf(SubSeq(part.bodies, 1, half))
                     others == OneOf(SubSeq(part.bodies, half + 1,
                                            Len(part.bodies)))
                 IN ReadToken(first \o after, calls, token)
                      \o ReadToken(others \o after, calls, token)
            [] part.op = "many" ->
                 ReadToken(part.bodies[1] \o rest, calls, token)
                   \o ReadToken(after, calls, token)

(* The readings of all that are left, without those that an earlier,       *)
(* preferred one is equal to.                                              *)
RECURSIVE ReadAll(_, _)
ReadAll(readings, token) ==
  CASE readings = << >> -> << >>
    [] Len(readings) = 1 ->
         ReadToken(readings[1].rest, readings[1].calls, token)
    [] Len(readings) > 1 ->
         LET half == Len(readings) \div 2
             first == ReadAll(SubSeq(readings, 1, half), token)
             others == ReadAll(SubSeq(readings, half + 1, Len(readings)), token)
             known == ToSet(first)
         IN first \o SelectSeq(others, LAMBDA r : r \notin known)

-----------------------------------------------------------------------------
Query == folder[index].query \o <<"EOF">>

Init ==
  /\ folder \in Folders
  /\ index = 1
  /\ pc = "main"
  /\ threads = << >> /\ position = 1 /\ events = << >>
  /\ text = ""
  /\ dependencies = << >> /\ qc = {}
  /\ cur_depth = 1 /\ max_depth = 1
  /\ terminals = EmptyBag
  /\ rows = << >>

(* A report without a statement gets no row. *)
SkipReport ==
  /\ pc = "main" /\ index <= Len(folder)
  /\ folder[index].query = << >>
  /\ index' = index + 1
  /\ UNCHANGED <<folder, pc, parsing, globals, rows>>

BeginRow ==
  /\ pc = "main" /\ index <= Len(folder)
  /\ folder[index].query # << >>
  /\ dependencies' = << >> /\ qc' = {}
  /\ threads' = <<Reading(Of(<<"oC_Cypher">>), << >>)>>
  /\ position' = 1
  /\ pc' = "parse"
  /\ UNCHANGED <<folder, index, events, text, cur_depth, max_depth, terminals,
                 rows>>

Parse ==
  /\ pc = "parse" /\ position <= Len(Query)
  /\ LET next == ReadAll(threads, Query[position]) IN
     IF next # << >>
     THEN threads' = next /\ position' = position + 1 /\ pc' = pc
     ELSE pc' = "recover" /\ UNCHANGED <<threads, position>>
  /\ UNCHANGED <<folder, index, events, globals, rows>>

ParserReturns ==
  /\ pc = "parse" /\ position > Len(Query)
  /\ events' = threads[1].calls
  /\ pc' = "walk"
  /\ UNCHANGED <<folder, index, threads, position, globals, rows>>

(* The rules that are still open after the calls, the innermost last. *)
OpenRules(calls) ==
  FoldLeft(LAMBDA open, call :
             IF call.at = "enter" THEN Append(open, call.name)
             ELSE IF call.at = "exit" /\ call.name \in DepthRules
                  THEN Front(open) ELSE open,
           << >>, calls)

(***************************************************************************)
(* A statement outside the grammar is no error: the parser prints a        *)
(* message, skips tokens until a rule can go on or is left, and returns    *)
(* the tree of what it matched, in which every rule that was entered is    *)
(* left.  How far it comes is ANTLR's choice; what it matches after the    *)
(* tokens it skipped is left out.                                          *)
(***************************************************************************)
ParserRecovers ==
  /\ pc = "recover"
  /\ \E n \in 0 .. Len(threads[1].calls) :
       LET matched == SubSeq(threads[1].calls, 1, n)
           open == Reverse(OpenRules(matched))
       IN events' = matched \o [i \in DOMAIN open |-> Call("exit", open[i])]
  /\ pc' = "walk"
  /\ UNCHANGED <<folder, index, threads, position, globals, rows>>

-----------------------------------------------------------------------------
(* The listener. *)

Listen(at, rules) ==
  /\ pc = "walk" /\ events # << >>
  /\ Head(events).at = at
  /\ at # "visit" => Head(events).name \in rules
  /\ events' = Tail(events)
  /\ UNCHANGED <<folder, index, pc, threads, position, rows>>

Count(key) ==
  dependencies' = (key :> IF key \in DOMAIN dependencies
                          THEN dependencies[key] + 1 ELSE 0) @@ dependencies

(* What getText returns: of a label, the colon too. *)
TextOf(rule) == IF rule = "oC_NodeLabel" THEN <<":", text>> ELSE <<text>>

visitTerminal ==
  /\ Listen("visit", {})
  /\ text' = Head(events).name
  /\ terminals' = terminals (+) SetToBag({text'} \cap Keywords)
  /\ UNCHANGED <<dependencies, qc, cur_depth, max_depth>>

exitOC_Variable ==
  /\ Listen("exit", {"oC_Variable"})
  /\ qc' = qc \cup ({TextOf("oC_Variable")} \ DOMAIN dependencies)
  /\ Count(TextOf("oC_Variable"))
  /\ UNCHANGED <<text, cur_depth, max_depth, terminals>>

exitReference ==
  /\ Listen("exit", ReferenceRules)
  /\ Count(TextOf(Head(events).name))
  /\ UNCHANGED <<text, qc, cur_depth, max_depth, terminals>>

enter_depth ==
  /\ Listen("enter", DepthRules)
  /\ cur_depth' = cur_depth + 1
  /\ max_depth' = Larger(max_depth, cur_depth')
  /\ UNCHANGED <<text, dependencies, qc, terminals>>

exit_depth ==
  /\ Listen("exit", DepthRules)
  /\ cur_depth' = cur_depth - 1
  /\ UNCHANGED <<text, dependencies, qc, max_depth, terminals>>

-----------------------------------------------------------------------------
Row ==
  [ dependencies |-> MapThenSumSet(LAMBDA k : dependencies[k],
                                   DOMAIN dependencies),
    qc |-> MapThenSumSet(LAMBDA k : dependencies[k], qc),
    max_depth |-> max_depth,
    terminals |-> terminals ]

(* Wrong on purpose: the next statement starts at the depth of this one. *)
DepthKeptMutant ==
  /\ terminals' = EmptyBag
  /\ UNCHANGED <<text, dependencies, qc, max_depth, cur_depth>>

(* What to_row leaves the globals at; the next call clears the names.      *)
ResetGlobals ==
  /\ terminals' = EmptyBag
  /\ max_depth' = 1 /\ cur_depth' = 1
  /\ UNCHANGED <<text, dependencies, qc>>

EndRow ==
  /\ pc = "walk" /\ events = << >>
  /\ rows' = Append(rows, Row)
  /\ ResetGlobals
  /\ pc' = "main" /\ index' = index + 1
  /\ UNCHANGED <<folder, parsing>>

Next ==
  \/ SkipReport \/ BeginRow
  \/ Parse \/ ParserReturns \/ ParserRecovers
  \/ visitTerminal \/ exitOC_Variable \/ exitReference
  \/ enter_depth \/ exit_depth
  \/ EndRow

Spec == Init /\ [][Next]_vars

-----------------------------------------------------------------------------
(* What a row should say, read off the tokens without a grammar. *)

Opening == {"(", "[", "{"}
Closing == {")", "]", "}"}

(* The tokens after which a bracket opens a scope. *)
Scopes(bracket) ==
  CASE bracket = "{" -> {"CALL", "EXISTS", "COUNT"}
    [] bracket = "(" -> {"FOREACH", "ALL", "ANY", "NONE", "SINGLE"}
    [] bracket = "[" -> {}

Places(query, tokens) == {i \in DOMAIN query : query[i] \in tokens}

(* How many scopes of the statement are open at once, and one. *)
ScopeDepth(query) ==
  LET level == [i \in DOMAIN query |->
                  Cardinality(Places(SubSeq(query, 1, i), Opening))
                    - Cardinality(Places(SubSeq(query, 1, i), Closing))]
      scopes == {i \in Places(query, Opening) :
                   i > 1 /\ query[i - 1] \in Scopes(query[i])}
      opened(i) == {j \in scopes :
                      j <= i /\ \A k \in j .. i : level[k] >= level[j]}
  IN 1 + Max({0} \cup {Cardinality(opened(i)) : i \in scopes})

(* What is used at a place: a label is another thing than a variable. *)
Used(query, i) ==
  IF query[i] \in Labels /\ query[i - 1] = ":" THEN <<":", query[i]>>
                                              ELSE <<query[i]>>

(* The uses of the statement's names after the first of each. *)
LaterUses(query, names) ==
  LET places == Places(query, names)
  IN Cardinality(places) - Cardinality({Used(query, i) : i \in places})

Measured(query) ==
  LET isVariable(i) == Used(query, i) = <<query[i]>>
      variables == {i \in Places(query, Variables) : isVariable(i)}
  IN [ dependencies |-> LaterUses(query, Names \ Functions),
       qc |-> Cardinality(variables)
                - Cardinality({query[i] : i \in variables}),
       max_depth |-> ScopeDepth(query),
       terminals |-> [k \in Keywords \cap ToSet(query) |->
                        Cardinality(Places(query, {k}))] ]

-----------------------------------------------------------------------------
(* Properties. *)

(* main.py has just written the last row, of the report before this one. *)
Written == pc = "main" /\ index > 1 /\ folder[index - 1].query # << >>
MeasuredReport == folder[index - 1]

(***************************************************************************)
(* Every statement of dinkel's openCypher clauses is parsed to its end.    *)
(* to_row does not look at the errors of the parser: a statement that      *)
(* oC_Cypher does not know would be measured by half, unnoticed.           *)
(***************************************************************************)
OpenCypherIsParsed == pc = "recover" => folder[index].dialect # "openCypher"

(***************************************************************************)
(* All the ways to parse a statement of dinkel's openCypher clauses make   *)
(* the same listener calls, so that it does not matter to a row which one  *)
(* the parser takes: the subqueries, patterns, predicates, comprehensions  *)
(* and functions among the alternatives of oC_Atom begin                   *)
(* alike, and some keywords are names as well.                             *)
(***************************************************************************)
OneReading ==
  pc = "parse" /\ position > Len(Query) /\ folder[index].dialect = "openCypher"
    => \A i \in DOMAIN threads : threads[i].calls = threads[1].calls

(***************************************************************************)
(* The row to_row makes of a statement of dinkel's openCypher clauses      *)
(* counts the names, scopes and keywords of that statement, whatever was   *)
(* measured before it: also after one that the parser gave up in the       *)
(* middle of nested scopes, as all counts are kept in module globals.      *)
(* (Measured knows the names by their kind, which those of the recorded    *)
(* statements do not have: RowAsRecorded is about them.)                   *)
(***************************************************************************)
RowIsOfItsQuery ==
  Written /\ MeasuredReport.dialect = "openCypher"
          /\ MeasuredReport.recorded = << >>
    => Last(rows) = Measured(MeasuredReport.query)

(***************************************************************************)
(* A statement of src/data/results.csv gets the row that it has there:     *)
(* its data dependencies, query complexity, depth and number of keywords.  *)
(***************************************************************************)
RowAsRecorded ==
  Written /\ MeasuredReport.recorded # << >>
    => LET row == Last(rows) IN
       <<row.dependencies, row.qc, row.max_depth, BagCardinality(row.terminals)>>
         = MeasuredReport.recorded
=============================================================================
