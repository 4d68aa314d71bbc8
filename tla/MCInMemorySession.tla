-------------------------- MODULE MCInMemorySession --------------------------
(* One caller, two values of the fields.                                   *)
EXTENDS InMemorySession

CONSTANTS c1, d1, d2

MCCaller == {c1}
MCData == {d1, d2}
=============================================================================
