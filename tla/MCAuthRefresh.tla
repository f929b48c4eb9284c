----------------------------- MODULE MCAuthRefresh -----------------------------
(* Small instances of AuthRefresh for TLC.                                 *)
EXTENDS AuthRefresh

CONSTANT c

AllFailures == {"quota", "unauthorized"}
SomeErrors == {"unauthorized", "grant"}
=============================================================================
