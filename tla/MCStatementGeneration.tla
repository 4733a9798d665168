------------------------ MODULE MCStatementGeneration ------------------------
(* Two bytes, and a given byte string that may be too short or too long. *)
EXTENDS StatementGeneration

FewStrings == {<< >>, << 1 >>, << 0, 1, 1, 0, 1, 0, 1, 1, 0, 1 >>}
=============================================================================
