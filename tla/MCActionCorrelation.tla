------------------------ MODULE MCActionCorrelation ------------------------
(***************************************************************************)
(* Small instances of ActionCorrelation for TLC.                           *)
(***************************************************************************)
EXTENDS ActionCorrelation

CONSTANTS c1, c2, a1, t1, t2, w

MCCalls == {c1, c2}
MCActors == {a1}
MCTurns == {t1, t2}
MCWords == {w}
=============================================================================
