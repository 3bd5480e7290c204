-------------------------- MODULE MCHooksInstaller --------------------------
(***************************************************************************)
(* Small instances of HooksInstaller for TLC.                              *)
(***************************************************************************)
EXTENDS HooksInstaller, TLC

CONSTANTS t1, t2, mine, shared, before, other, audit, old, new

MCTools == {t1, t2}
MCUserGroups == {mine, shared}
MCEvents == {before, other}
MCManaged == {before}
MCForeign == {audit}
MCOurs == {old, new}

File(b, o) == [e \in Events |-> IF e = before THEN b ELSE o]
Entry(m, s) == [g \in Groups |-> CASE g = mine -> m [] g = shared -> s [] OTHER -> {}]

\* No file, unusable ones, no handlers, one of another program, an older
\* installation twice and beside other handlers, and events that are no lists.
MCUserFiles ==
    {Absent, Null, Broken, NoEvents, Nothing,
     File(Entry({audit}, {}), Entry({}, {})),
     File(Entry({old}, {audit, old}), Entry({old}, {audit})),
     File(NotAList, Entry({}, {old})),
     File(Entry({old}, {}), NotAList)}

MCSymmetry == Permutations(MCTools)
=============================================================================
