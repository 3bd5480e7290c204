------------------------- MODULE MCThreatEnrichment -------------------------
(***************************************************************************)
(* Small instances of ThreatEnrichment for TLC.  A unit of time is 500 ms. *)
(***************************************************************************)
EXTENDS ThreatEnrichment, TLC

CONSTANTS a1, a2, b, c, junk, hostA, hostB, hostC

MCTargets == {a1, a2, b, c, junk}
MCIndicators == {hostA, hostB, hostC}

\* Two spellings of one host, and something that is no host.
MCNormal ==
    [t \in Targets |-> CASE t \in {a1, a2} -> hostA [] t = b -> hostB [] t = c -> hostC
                         [] t = junk -> Invalid]

MCCalls ==
    {<<<<>>>>, <<<<a1, a2>>, <<b, a1>>>>, <<<<a1, b, c>>, <<c>>, <<>>>>, <<<<junk, a1>>, <<a2, junk>>>>,
     <<<<c, b>>, <<a1>>, <<a2, c>>>>}

Stats(m, s, h, u) == [malicious |-> m, suspicious |-> s, harmless |-> h, silent |-> u]

MCStatistics == {Stats(0, 0, 0, 0), Stats(1, 0, 2, 5), Stats(0, 1, 1, 0), Stats(0, 0, 3, 1)}

MCLatencies == {0, 1, 3}
MCTimeouts == {4, 6}
=============================================================================
