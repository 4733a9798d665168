--------------------------- MODULE MCQueryAnalysis ---------------------------
(***************************************************************************)
(* Statements as the openCypher clauses of dinkel write them: every kind   *)
(* of clause with every kind of expression.  A report of one is followed   *)
(* by another report, whose row must not know of it.                       *)
(***************************************************************************)
EXTENDS QueryAnalysis

MCVariables == {"a", "b", "n", "x", "y", "z", "a0", "a1", "a2", "a3", "a4",
                "m", "n0", "n1"}
MCLabels == {"n", "L", "A", "B", "C"}
MCKeys == {"p", "q", "T", "U", "t"}
MCFunctions == {"f", "toBoolean", "collect", "runtime", "slotted", "TEXT",
                "INDEX", "COLLECT", "CYPHER"}

Simple ==
  { <<"x", ".", "p">>,
    <<"DecimalInteger">>,
    <<"ALL", "(", "y", "IN", "[", "x", "]", "WHERE", "ANY", "(", "z", "IN",
      "x", "WHERE", "z", ")", ")">>,
    <<"[", "y", "IN", "x", "|", "EXISTS", "{", "(", "y", ")", "-", "[", ":",
      "T", "]", "-", ">", "(", ":", "L", ")", "}", "]">>,
    <<"EXISTS", "{", "MATCH", "(", "y", ")", "<", "-", "[", ":", "U", "]", "-",
      "(", ")", "WHERE", "SINGLE", "(", "y", "IN", "[", "]", "WHERE", "TRUE",
      ")", "}">>,
    <<"COUNT", "{", "WITH", "x", "MATCH", "(", "y", ")", "RETURN", "f", "(",
      "y", ")", "AS", "a", "UNION", "ALL", "MATCH", "(", "b", ":", "L", ")",
      "RETURN", "b", "AS", "a", "}">>,
    <<"(", "CASE", "WHEN", "(", "x", "IS", "NOT", "NULL", ")", "THEN", "COUNT",
      "(", "DISTINCT", "x", ")", "ELSE", "COUNT", "(", "*", ")", "END", ")">>,
    <<"(", "(", "NOT", "x", ")", "AND", "NONE", "(", "y", "IN", "{", "p", ":",
      "x", "}", "WHERE", "y", ".", "p", ")", ")">> }

Comprehension(e) == <<"[", "y", "IN", "x", "|">> \o e \o <<"]">>

CountSubquery(e) ==
  <<"COUNT", "{", "MATCH", "(", "b", "{", "p", ":">> \o e \o
  <<"}", ")", "WHERE", "b", ".", "q", "}">>

Expressions ==
  Simple \cup {Comprehension(e) : e \in Simple}
         \cup {CountSubquery(e) : e \in Simple}

(* The clauses around an expression. *)
MatchAround(e) ==
  <<"MATCH", "(", "x", ":", "n", "{", "p", ":">> \o e \o
  <<"}", ")", "WHERE", "x", ".", "q", "RETURN", "x", "AS", "n", "ORDER", "BY",
    "n", "DESC">>

OptionalMatchAround(e) ==
  <<"OPTIONAL", "MATCH", "(", "x", ")", "-", "[", "y", ":", "T", "|", "U", "*",
    "DecimalInteger", "..", "DecimalInteger", "]", "-", ">", "(", ")", "WITH",
    "DISTINCT", "*", ",">> \o e \o
  <<"AS", "z", "L_SKIP", "DecimalInteger", "LIMIT", "DecimalInteger", "WHERE",
    "z", "RETURN", "*">>

UnwindAround(e) ==
  <<"UNWIND", "[">> \o e \o
  <<"]", "AS", "x", "CALL", "{", "WITH", "x", "RETURN", "x", ".", "p", "AS",
    "a", "}", "RETURN", "a">>

CreateSetAround(e) ==
  <<"CREATE", "(", ":", "L", "{", "p", ":">> \o e \o
  <<"}", ")", "-", "[", "a", ":", "T", "]", "-", ">", "(", "x", ")", "SET",
    "x", ".", "q", "=">> \o e \o
  <<",", "x", ":", "n">>

MergeOnAround(e) ==
  <<"MERGE", "(", "x", ":", "L", ")", "ON", "CREATE", "SET", "x", "=">> \o e \o
  <<"ON", "MATCH", "SET", "x", ".", "p", "=", "x", ".", "q">>

ForeachAround(e) ==
  <<"FOREACH", "(", "x", "IN">> \o e \o
  <<"|", "FOREACH", "(", "z", "IN", "x", "|", "CREATE", "(", "z", ")", "<",
    "-", "[", ":", "T", "]", "-", "(", ")", ")", ")">>

DeleteRemoveAround(e) ==
  <<"MATCH", "(", "x", ")", "-", "-", "(", "a", ")", "DETACH", "DELETE", "a",
    ",">> \o e \o
  <<"REMOVE", "x", ".", "p", ",", "x", ":", "L">>

UnionCallAround(e) ==
  <<"RETURN">> \o e \o
  <<"AS", "n", "UNION", "ALL", "CALL", "{", "CREATE", "(", "x", ")", "}",
    "RETURN", "x", ".", "p", "AS", "n">>

AroundExpression(e) ==
  { MatchAround(e), OptionalMatchAround(e), UnwindAround(e),
    CreateSetAround(e), MergeOnAround(e), ForeachAround(e),
    DeleteRemoveAround(e), UnionCallAround(e) }

Report(dialect, query, recorded) ==
  [dialect |-> dialect, query |-> query, recorded |-> recorded]

(* A report without a statement. *)
Empty == Report("none", << >>, << >>)

Probe ==
  Report("openCypher",
    <<"MATCH", "(", "x", ")", "RETURN", "EXISTS", "{", "(", "x", ":", "L",
      ")", "}">>, << >>)

(* What other dialects have, and the grammar does not: settings, label     *)
(* expressions, indices and COLLECT subqueries.                            *)
Foreign ==
  { <<"CYPHER", "runtime", "=", "slotted", "RETURN", "x">>,
    <<"MATCH", "(", "x", ":", "L", "&", "!", "n", ")", "RETURN", "x">>,
    <<"FOREACH", "(", "x", "IN", "[", "DecimalInteger", "]", "|", "CREATE",
      "TEXT", "INDEX", "n", ")">>,
    <<"RETURN", "EXISTS", "{", "MATCH", "(", "x", ")", "WHERE", "ANY", "(",
      "y", "IN", "x", "WHERE", "COLLECT", "{", "RETURN", "y", "}", ")",
      "}">> }

(* Rows of src/data/results.csv.  The last statement was reduced: its list *)
(* is what was left of a comprehension.                                    *)
Recorded ==
  << Report("openCypher",
      <<"WITH", "DecimalInteger", "AS", "n0", "ORDER", "BY", "NULL", "CALL",
        "{", "RETURN", "DecimalInteger", "AS", "n1", "ORDER", "BY", "NULL",
        "}", "UNWIND", "DecimalInteger", "AS", "x", "RETURN", "x">>,
      <<1, 1, 2, 14>>),
    Report("openCypher",
      <<"CALL", "{", "CREATE", "(", ")", "-", "[", "m", ":", "t", "]", "-",
        ">", "(", ")", "}", "MERGE", "(", ")", "<", "-", "[", "m", ":", "t",
        "]", "-", "(", ")", "-", "[", ":", "t", "]", "-", ">", "(", ")">>,
      <<3, 1, 2, 3>>),
    Report("openCypher",
      <<"CREATE", "(", "{", "x", ":", "CASE", "WHEN", "TRUE", "THEN", "EXISTS",
        "{", "MATCH", "(", ")", "}", "END", "}", ")">>,
      <<0, 0, 2, 8>>),
    Report("openCypher",
      <<"FOREACH", "(", "n0", "IN", "[", "DecimalInteger", "]", "|", "CREATE",
        "(", ")", "-", "[", ":", "A", "{", "n1", ":", "(", "CASE", "WHEN",
        "TRUE", "THEN", "(", "COUNT", "{", "(", ")", "}", ")", "END", ")", "}",
        "]", "-", ">", "(", ")", ")", "RETURN", "COUNT", "{", "(", ")", "-",
        "[", "{", "n1", ":", "DecimalInteger", "}", "]", "-", "(", ")", "}">>,
      <<1, 0, 3, 11>>),
    Report("openCypher",
      <<"MERGE", "(", "x", ":", "A", ")", "RETURN", "EXISTS", "{", "(", ")",
        "}", "ORDER", "BY", "x">>,
      <<1, 1, 2, 5>>),
    Report("openCypher",
      <<"RETURN", "[", "x", "IN", "[", "]", "|", "COUNT", "{", "RETURN", "x",
        "AS", "n0", "UNION", "RETURN", "x", "AS", "n0", "}", "]">>,
      <<3, 3, 2, 8>>),
    Report("openCypher",
      <<"MATCH", "(", "x", ")", "CALL", "{", "WITH", "*", "MATCH", "(", "{",
        "n0", ":", "x", ".", "n1", "}", ")", ",", "(", ":", "A", ")", "MERGE",
        "(", ")", "}">>,
      <<1, 1, 2, 5>>),
    Report("openCypher",
      <<"RETURN", "(", "CASE", "toBoolean", "(", "ALL", "(", "n0", "IN",
        "NULL", "WHERE", "TRUE", ")", ")", "WHEN", "FALSE", "THEN",
        "DecimalInteger", "END", ")">>,
      <<0, 0, 2, 11>>),
    Report("openCypher",
      <<"MERGE", "(", ")", "-", "[", ":", "A", "]", "-", ">", "(", "{", "x",
        ":", "DecimalInteger", "}", ")", "RETURN", "EXISTS", "{", "(", ":",
        "B", ":", "C", ")", "-", "[", "{", "x", ":", "DecimalInteger", "}",
        "]", "-", ">", "(", ")", "}">>,
      <<1, 0, 2, 3>>),
    Report("reduced",
      <<"WITH", "*", "LIMIT", "DecimalInteger", "CALL", "{", "WITH", "NULL",
        "AS", "a0", ",", "[", "a1", "IN", "collect", "(", "NULL", ")", "]",
        "AS", "a2", ",", "NULL", "AS", "a3", "RETURN", "DecimalInteger", "AS",
        "a4", "}", "MERGE", "(", ")">>,
      <<0, 0, 3, 14>>) >>

MCFolders ==
  {<<Report("openCypher", query, << >>), Probe>> :
     query \in UNION {AroundExpression(e) : e \in Expressions}}
  \cup {<<Empty, Report("foreign", query, << >>), Empty, Probe>> :
          query \in Foreign}
  \cup {Recorded}
=============================================================================
