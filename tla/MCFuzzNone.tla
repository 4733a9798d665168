------------------------------ MODULE MCFuzzNone ------------------------------
(* Instances of FuzzNone small enough for TLC. *)
EXTENDS FuzzNone, TLC

SomeErrors == {"none", "ignored", "connection", "other", "timeout"}
=============================================================================
