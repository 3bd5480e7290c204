-------------------------- MODULE MCTraceRegistry --------------------------
(***************************************************************************)
(* A small instance of TraceRegistry for TLC.                              *)
(***************************************************************************)
EXTENDS TraceRegistry

CONSTANTS p1, p2, a1, a2, s1

MCProcs == {p1, p2}
MCActors == {a1, a2}
MCSessions == {s1}
=============================================================================
