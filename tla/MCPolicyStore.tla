--------------------------- MODULE MCPolicyStore ---------------------------
(***************************************************************************)
(* Small instances of PolicyStore for TLC.                                 *)
(***************************************************************************)
EXTENDS PolicyStore, TLC

CONSTANTS h1, h2, c1, v1, v2, big

MCLoaders == {h1, h2}
MCCompilers == {c1}
MCPolicies == {v1, v2, big}

\* Hooks are interchangeable, and so are the bundles that fit: no action tells them apart.
MCSymmetry == Permutations(MCLoaders) \cup Permutations(MCPolicies \ {big})
=============================================================================
