-------------------------- MODULE MCHookLifecycle --------------------------
(***************************************************************************)
(* Small instances of HookLifecycle for TLC.                               *)
(***************************************************************************)
EXTENDS HookLifecycle

CONSTANTS c1, c2, strict, lax

Allowed == [action |-> "allow", rules |-> 0]
DeniedByDefault == [action |-> "deny", rules |-> 0]
DeniedBy(n) == [action |-> "deny", rules |-> n]
Undecidable == [action |-> "error", rules |-> 0]

\* The strict bundle denies the shell call by two rules and cannot decide the
\* other; the lax one allows the first and denies the second by default.
MCCalls == {c1, c2}
MCOneCall == {c1}
MCShellCalls == {c1}
MCBundles == {strict, lax}
MCVerdict ==
    [b \in MCBundles |->
        [c \in Calls |->
            IF b = strict THEN (IF c = c1 THEN DeniedBy(2) ELSE Undecidable)
            ELSE (IF c = c1 THEN Allowed ELSE DeniedByDefault)]]
=============================================================================
