-------------------------- MODULE MCFuzzEquivalence --------------------------
(* Instances of FuzzEquivalence small enough for TLC. *)
EXTENDS FuzzEquivalence, TLC

NoLimit == -1
(* One of each verdict. *)
SomeErrors == {"none", "ignored", "connection", "other"}
=============================================================================
