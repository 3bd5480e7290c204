------------------------ MODULE HooksInstallerProofs ------------------------
(***************************************************************************)
(* Proofs about HooksInstaller, for all sets of runs, handlers, events and *)
(* files and for all bounds.                                               *)
(***************************************************************************)
EXTENDS HooksInstaller, TLAPS

(* Documents *)

LEMMA EmptyEntry == [g \in Groups |-> {}] \in Entries
<1>1. [g \in Groups |-> {}] \in [Groups -> SUBSET Handlers]
  OBVIOUS
<1>2. QED
  BY <1>1 DEF Entries, Groups

LEMMA NothingType == Nothing \in Documents
BY EmptyEntry DEF Nothing, Documents

LEMMA StrippedType ==
    ASSUME NEW d \in Documents
    PROVE  Stripped(d) \in Documents
<1>1. ASSUME NEW e \in Events
      PROVE  Stripped(d)[e] \in Entries \cup {NotAList}
  <2>1. CASE d[e] = NotAList
    BY <2>1 DEF Stripped
  <2>2. CASE d[e] # NotAList
    <3>1. d[e] \in Entries
      BY <2>2 DEF Documents
    <3>2. Stripped(d)[e] = [g \in Groups |-> d[e][g] \ Ours]
      BY <2>2 DEF Stripped
    <3>3. Stripped(d)[e] \in [Groups -> SUBSET Handlers]
      BY <3>1, <3>2 DEF Entries
    <3>4. \A t \in Tools : Stripped(d)[e][t] \subseteq Ours
      BY <3>1, <3>2 DEF Entries, Groups
    <3>5. QED
      BY <3>3, <3>4 DEF Entries
  <2>3. QED
    BY <2>1, <2>2
<1>2. QED
  BY <1>1 DEF Stripped, Documents

\* What Stripped does to one group.
LEMMA StrippedEntry ==
    ASSUME NEW d \in Documents, NEW e \in Events
    PROVE  /\ d[e] = NotAList <=> Stripped(d)[e] = NotAList
           /\ d[e] # NotAList =>
                 /\ d[e] \in Entries
                 /\ Stripped(d)[e] = [g \in Groups |-> d[e][g] \ Ours]
<1>1. CASE d[e] = NotAList
  BY <1>1 DEF Stripped
<1>2. CASE d[e] # NotAList
  <2>1. d[e] \in Entries
    BY <1>2 DEF Documents
  <2>2. Stripped(d)[e] = [g \in Groups |-> d[e][g] \ Ours]
    BY <1>2 DEF Stripped
  <2>3. Stripped(d)[e] \in [Groups -> SUBSET Handlers]
    BY <2>1, <2>2 DEF Entries
  <2>4. \A t \in Tools : Stripped(d)[e][t] \subseteq Ours
    BY <2>1, <2>2 DEF Entries, Groups
  <2>5. Stripped(d)[e] \in Entries
    BY <2>3, <2>4 DEF Entries
  <2>6. QED
    BY <1>2, <2>1, <2>2, <2>5, NotAListAssumption
<1>3. QED
  BY <1>1, <1>2

\* A stripped document has nothing left to strip.
LEMMA StrippedTwice ==
    ASSUME NEW d \in Documents
    PROVE  Stripped(Stripped(d)) = Stripped(d)
<1>1. ASSUME NEW e \in Events
      PROVE  Stripped(Stripped(d))[e] = Stripped(d)[e]
  <2>1. Stripped(d) \in Documents
    BY StrippedType
  <2>2. CASE d[e] = NotAList
    BY <2>2 DEF Stripped
  <2>3. CASE d[e] # NotAList
    <3>1. Stripped(d)[e] = [g \in Groups |-> d[e][g] \ Ours] /\ Stripped(d)[e] # NotAList
      BY <2>3, StrippedEntry
    <3>2. Stripped(Stripped(d))[e] = [g \in Groups |-> Stripped(d)[e][g] \ Ours]
      BY <2>1, <3>1, StrippedEntry
    <3>3. \A g \in Groups : Stripped(d)[e][g] \ Ours = Stripped(d)[e][g]
      BY <3>1
    <3>4. QED
      BY <3>1, <3>2, <3>3
  <2>4. QED
    BY <2>2, <2>3
<1>2. QED
  BY <1>1 DEF Stripped

\* Stripping leaves the handlers of others, and nothing else.
LEMMA StrippedIsForeign ==
    ASSUME NEW d \in Documents
    PROVE  Stripped(d) = ForeignPart(d)
<1>1. ASSUME NEW e \in Events
      PROVE  Stripped(d)[e] = ForeignPart(d)[e]
  <2>1. CASE d[e] = NotAList
    BY <2>1 DEF Stripped, ForeignPart
  <2>2. CASE d[e] # NotAList
    <3>1. d[e] \in Entries /\ Stripped(d)[e] = [g \in Groups |-> d[e][g] \ Ours]
      BY <2>2, StrippedEntry
    <3>2. ForeignPart(d)[e] = [g \in Groups |-> d[e][g] \cap Foreign]
      BY <2>2 DEF ForeignPart
    <3>3. ASSUME NEW g \in Groups
          PROVE  d[e][g] \ Ours = d[e][g] \cap Foreign
      BY <3>1, HandlersAssumption DEF Entries, Handlers
    <3>4. QED
      BY <3>1, <3>2, <3>3
  <2>3. QED
    BY <2>1, <2>2
<1>2. QED
  BY <1>1 DEF Stripped, ForeignPart

\* The document that is merged into.
Base(c) == IF c \in {Absent, Null} THEN Nothing ELSE c

LEMMA BaseType ==
    ASSUME NEW c, Installable(c)
    PROVE  /\ Base(c) \in Documents
           /\ \A e \in Managed : Base(c)[e] # NotAList
           /\ Base(c) = IF c \in Documents THEN c ELSE Nothing
<1>1. \A e \in Events : Nothing[e] \in Entries
  BY EmptyEntry DEF Nothing
<1>2. \A e \in Managed : Nothing[e] # NotAList
  BY <1>1, NotAListAssumption, EventsAssumption
<1>3. QED
  BY <1>2, NothingType, ContentsAssumption DEF Base, Installable

\* What Merged makes of one event.
LEMMA MergedEntry ==
    ASSUME NEW c, Installable(c), NEW t \in Tools, NEW e \in Events
    PROVE  /\ e \notin Managed => Merged(c, t)[e] = Stripped(Base(c))[e]
           /\ e \in Managed =>
                 /\ Base(c)[e] \in Entries
                 /\ Merged(c, t)[e] =
                       [g \in Groups |-> IF g = t THEN {Current} ELSE Base(c)[e][g] \ Ours]
                 /\ Merged(c, t)[e] \in Entries
<1>1. Merged(c, t)[e] = IF e \in Managed THEN [Stripped(Base(c))[e] EXCEPT ![t] = {Current}]
                        ELSE Stripped(Base(c))[e]
  BY DEF Merged, Base
<1>2. CASE e \notin Managed
  BY <1>1, <1>2
<1>3. CASE e \in Managed
  <2>1. Base(c)[e] \in Entries /\ Stripped(Base(c))[e] = [g \in Groups |-> Base(c)[e][g] \ Ours]
    BY <1>3, BaseType, StrippedEntry
  <2>2. Merged(c, t)[e] = [g \in Groups |-> IF g = t THEN {Current} ELSE Base(c)[e][g] \ Ours]
    BY <1>1, <1>3, <2>1 DEF Groups
  <2>3. Merged(c, t)[e] \in [Groups -> SUBSET Handlers]
    BY <2>1, <2>2, HandlersAssumption DEF Entries, Handlers
  <2>4. \A u \in Tools : Merged(c, t)[e][u] \subseteq Ours
    BY <2>1, <2>2, HandlersAssumption DEF Entries, Groups
  <2>5. Merged(c, t)[e] \in Entries
    BY <2>3, <2>4 DEF Entries
  <2>6. QED
    BY <1>3, <2>1, <2>2, <2>5
<1>4. QED
  BY <1>2, <1>3

LEMMA MergedType ==
    ASSUME NEW c, Installable(c), NEW t \in Tools
    PROVE  Merged(c, t) \in Documents
<1>1. ASSUME NEW e \in Events
      PROVE  Merged(c, t)[e] \in Entries \cup {NotAList}
  <2>1. Stripped(Base(c)) \in Documents
    BY BaseType, StrippedType
  <2>2. QED
    BY <2>1, MergedEntry DEF Documents
<1>2. QED
  BY <1>1 DEF Merged, Documents

\* `install` leaves the handlers of others alone, and `uninstall` takes off
\* again what `install` added and nothing else.
THEOREM Reversible ==
    ASSUME NEW c, Installable(c), NEW t \in Tools
    PROVE  Stripped(Merged(c, t)) = ForeignPart(c)
<1>1. ForeignPart(c) = Stripped(Base(c))
  <2>1. Base(c) \in Documents
    BY BaseType
  <2>2. CASE c \in Documents
    BY <2>2, BaseType, StrippedIsForeign
  <2>3. CASE c \notin Documents
    <3>1. Base(c) = Nothing
      BY <2>3, BaseType
    <3>2. \A e \in Events : Nothing[e] = [g \in Groups |-> {}] /\ Nothing[e] # NotAList
      BY EmptyEntry, NotAListAssumption DEF Nothing
    <3>3. Stripped(Nothing) = [e \in Events |-> [g \in Groups |-> {}]]
      BY <3>2 DEF Stripped
    <3>4. QED
      BY <2>3, <3>1, <3>3 DEF ForeignPart
  <2>4. QED
    BY <2>2, <2>3
<1>2. ASSUME NEW e \in Events
      PROVE  Stripped(Merged(c, t))[e] = Stripped(Base(c))[e]
  <2>1. Base(c) \in Documents /\ Merged(c, t) \in Documents /\ Stripped(Base(c)) \in Documents
    BY BaseType, MergedType, StrippedType
  <2>2. CASE e \notin Managed
    <3>1. Merged(c, t)[e] = Stripped(Base(c))[e]
      BY <2>2, MergedEntry
    <3>2. Stripped(Merged(c, t))[e] = Stripped(Stripped(Base(c)))[e]
      BY <3>1 DEF Stripped
    <3>3. QED
      BY <2>1, <3>2, StrippedTwice
  <2>3. CASE e \in Managed
    <3>1. /\ Base(c)[e] \in Entries
          /\ Merged(c, t)[e] =
                [g \in Groups |-> IF g = t THEN {Current} ELSE Base(c)[e][g] \ Ours]
          /\ Merged(c, t)[e] # NotAList
          /\ Base(c)[e] # NotAList
      BY <2>3, MergedEntry, NotAListAssumption
    <3>2. Stripped(Merged(c, t))[e] = [g \in Groups |-> Merged(c, t)[e][g] \ Ours]
      BY <2>1, <3>1, StrippedEntry
    <3>3. Stripped(Base(c))[e] = [g \in Groups |-> Base(c)[e][g] \ Ours]
      BY <2>1, <3>1, StrippedEntry
    <3>4. ASSUME NEW g \in Groups
          PROVE  Merged(c, t)[e][g] \ Ours = Base(c)[e][g] \ Ours
      <4>1. CASE g = t
        <5>1. Base(c)[e][t] \subseteq Ours
          BY <3>1 DEF Entries
        <5>2. QED
          BY <3>1, <4>1, <5>1, HandlersAssumption DEF Groups
      <4>2. CASE g # t
        BY <3>1, <4>2
      <4>3. QED
        BY <4>1, <4>2
    <3>5. QED
      BY <3>2, <3>3, <3>4
  <2>4. QED
    BY <2>2, <2>3
<1>3. QED
  BY <1>1, <1>2 DEF Stripped

\* What `install` writes is one complete installation, whatever it found.
THEOREM MergedIsInstalled ==
    ASSUME NEW c, Installable(c), NEW t \in Tools
    PROVE  Installed(Merged(c, t))
<1>1. DoctorPasses(Merged(c, t))
  <2>1. ASSUME NEW e \in Managed
        PROVE  /\ Merged(c, t)[e] # NotAList
               /\ \E g \in Groups : Merged(c, t)[e][g] \cap Ours # {}
    <3>1. /\ Merged(c, t)[e] \in Entries
          /\ Merged(c, t)[e] =
                [g \in Groups |-> IF g = t THEN {Current} ELSE Base(c)[e][g] \ Ours]
      BY MergedEntry, EventsAssumption
    <3>2. QED
      BY <3>1, NotAListAssumption, HandlersAssumption DEF Groups
  <2>2. QED
    BY <2>1, MergedType DEF DoctorPasses
<1>2. ASSUME NEW e \in Events, Merged(c, t)[e] # NotAList,
             NEW g \in Groups, Merged(c, t)[e][g] \cap Ours # {}
      PROVE  g = t /\ e \in Managed /\ Merged(c, t)[e][g] = {Current}
  <2>1. CASE e \notin Managed
    <3>1. Merged(c, t)[e] = Stripped(Base(c))[e]
      BY <2>1, MergedEntry
    <3>2. Stripped(Base(c))[e] = [h \in Groups |-> Base(c)[e][h] \ Ours]
      BY <1>2, <3>1, BaseType, StrippedEntry
    <3>3. QED
      BY <1>2, <3>1, <3>2
  <2>2. CASE e \in Managed
    <3>1. Merged(c, t)[e] =
             [h \in Groups |-> IF h = t THEN {Current} ELSE Base(c)[e][h] \ Ours]
      BY <2>2, MergedEntry
    <3>2. QED
      BY <1>2, <2>2, <3>1
  <2>3. QED
    BY <2>1, <2>2
<1>3. QED
  BY <1>1, <1>2 DEF Installed

-----------------------------------------------------------------------------
(* The inductive invariant *)

Writing == {"backup", "mkstemp", "write", "replace"}

\* A run past its read holds what its operation makes of the content it read;
\* if that is still in place, the foreign part agrees.
Prepared ==
    \A t \in Tools : pc[t] \in Writing =>
        /\ doc[t] \in Documents
        /\ readAt[t] \leq version
        /\ readAt[t] = version => Stripped(doc[t]) = ForeignPart(file)
        /\ \/ op[t] = "install" /\ Installed(doc[t])
           \/ op[t] = "uninstall" /\ Stripped(doc[t]) = doc[t]

\* A run past its backup has one of the content in place, unless that is newer.
Saved ==
    \A t \in Tools : pc[t] \in {"mkstemp", "write", "replace"} =>
        /\ savedAt[t] \leq version
        /\ \/ file = Absent
           \/ <<version, file>> \in backups
           \/ version > savedAt[t]

Inv == TypeOK /\ Prepared /\ Saved /\ WholeInstallation /\ OnlyKillsLitter

LEMMA InitInv == Init => Inv
<1> SUFFICES ASSUME Init PROVE Inv
  OBVIOUS
<1>1. TypeOK
  BY UserFilesAssumption, BoundsAssumption DEF Init, TypeOK, Contents
<1>2. QED
  BY <1>1, UserAssumption DEF Init, Inv, Prepared, Saved, Writing, WholeInstallation, OnlyKillsLitter

\* What a run that goes on has prepared.
LEMMA ReadPrepares ==
    ASSUME NEW c \in Contents, NEW t \in Tools, NEW o \in Operations,
           AfterRead(o, c) = "backup"
    PROVE  LET d == IF o = "install" THEN Merged(c, t) ELSE Stripped(c)
           IN  /\ d \in Documents
               /\ Stripped(d) = ForeignPart(c)
               /\ \/ o = "install" /\ Installed(d)
                  \/ o = "uninstall" /\ Stripped(d) = d
<1>1. CASE o = "install"
  <2>1. Installable(c)
    BY <1>1 DEF AfterRead
  <2>2. QED
    BY <1>1, <2>1, MergedType, Reversible, MergedIsInstalled
<1>2. CASE o = "uninstall"
  <2>1. c \in Documents
    BY <1>2 DEF AfterRead
  <2>2. QED
    BY <1>2, <2>1, StrippedType, StrippedTwice, StrippedIsForeign
<1>3. CASE o = "dry run"
  BY <1>3 DEF AfterRead
<1>4. QED
  BY <1>1, <1>2, <1>3 DEF Operations

LEMMA AfterReadType ==
    ASSUME NEW c, NEW o PROVE AfterRead(o, c) \in {"failed", "done", "backup"}
BY DEF AfterRead

LEMMA NextInv == Inv /\ [Next]_vars => Inv'
<1> SUFFICES ASSUME Inv, [Next]_vars PROVE Inv'
  OBVIOUS
<1> USE DEF Inv, history, run, Goto
<1>1. ASSUME NEW t \in Tools, Start(t) PROVE Inv'
  BY <1>1 DEF Start, TypeOK, Running, Prepared, Writing, Saved, WholeInstallation, OnlyKillsLitter
<1>2. ASSUME NEW t \in Tools, Read(t) PROVE Inv'
  <2>0. file \in Contents /\ op[t] \in Operations /\ version \in Nat
    BY DEF TypeOK
  <2>1. pc'[t] = AfterRead(op[t], file) /\ pc'[t] \in {"failed", "done", "backup"}
    BY <1>2, AfterReadType DEF Read, TypeOK
  <2>2. doc'[t] \in Contents
    <3>1. CASE pc'[t] # "backup"
      BY <1>2, <2>0, <2>1, <3>1 DEF Read, TypeOK
    <3>2. CASE pc'[t] = "backup"
      BY <1>2, <2>0, <2>1, <3>2, ReadPrepares DEF Read, TypeOK, Contents
    <3>3. QED
      BY <3>1, <3>2
  <2>3. TypeOK'
    BY <1>2, <2>1, <2>2 DEF Read, TypeOK, Running
  <2>4. Prepared'
    <3>1. ASSUME NEW u \in Tools, pc'[u] \in Writing, u # t
          PROVE  /\ pc[u] \in Writing /\ doc'[u] = doc[u] /\ readAt'[u] = readAt[u]
      BY <1>2, <3>1 DEF Read, TypeOK
    <3>2. ASSUME pc'[t] \in Writing
          PROVE  /\ doc'[t] \in Documents
                 /\ readAt'[t] = version
                 /\ Stripped(doc'[t]) = ForeignPart(file)
                 /\ \/ op[t] = "install" /\ Installed(doc'[t])
                    \/ op[t] = "uninstall" /\ Stripped(doc'[t]) = doc'[t]
      <4>1. AfterRead(op[t], file) = "backup"
        BY <2>1, <3>2 DEF Writing
      <4>2. /\ doc'[t] = IF op[t] = "install" THEN Merged(file, t) ELSE Stripped(file)
            /\ readAt'[t] = version
        BY <1>2, <4>1 DEF Read, TypeOK
      <4>3. QED
        BY <2>0, <4>1, <4>2, ReadPrepares
    <3>3. QED
      BY <1>2, <2>0, <3>1, <3>2 DEF Read, Prepared
  <2>5. Saved' /\ WholeInstallation' /\ OnlyKillsLitter'
    BY <1>2, <2>1 DEF Read, TypeOK, Saved, WholeInstallation, OnlyKillsLitter
  <2>6. QED
    BY <2>3, <2>4, <2>5
<1>3. ASSUME NEW t \in Tools, Backup(t) PROVE Inv'
  <2>1. TypeOK'
    BY <1>3 DEF Backup, TypeOK, Running
  <2>2. Prepared'
    BY <1>3 DEF Backup, TypeOK, Prepared, Writing
  <2>3. Saved'
    BY <1>3 DEF Backup, TypeOK, Saved
  <2>4. WholeInstallation' /\ OnlyKillsLitter'
    BY <1>3 DEF Backup, TypeOK, WholeInstallation, OnlyKillsLitter
  <2>5. QED
    BY <2>1, <2>2, <2>3, <2>4
<1>4. ASSUME NEW t \in Tools, MakeTemp(t) PROVE Inv'
  BY <1>4 DEF MakeTemp, TypeOK, Running, Prepared, Writing, Saved, WholeInstallation, OnlyKillsLitter
<1>5. ASSUME NEW t \in Tools, Write(t) PROVE Inv'
  BY <1>5 DEF Write, TypeOK, Running, Prepared, Writing, Saved, WholeInstallation, OnlyKillsLitter
<1>6. ASSUME NEW t \in Tools, Replace(t) PROVE Inv'
  <2>1. /\ doc[t] \in Documents
        /\ \/ op[t] = "install" /\ Installed(doc[t])
           \/ op[t] = "uninstall" /\ Stripped(doc[t]) = doc[t]
    BY <1>6 DEF Replace, Prepared, Writing
  <2>2. TypeOK'
    BY <1>6 DEF Replace, TypeOK, Running, Contents
  <2>3. Prepared'
    BY <1>6 DEF Replace, TypeOK, Prepared, Writing
  <2>4. Saved'
    BY <1>6 DEF Replace, TypeOK, Saved
  <2>5. WholeInstallation'
    BY <1>6, <2>1 DEF Replace, WholeInstallation
  <2>6. OnlyKillsLitter'
    BY <1>6 DEF Replace, TypeOK, OnlyKillsLitter
  <2>7. QED
    BY <2>2, <2>3, <2>4, <2>5, <2>6
<1>7. ASSUME NEW t \in Tools, Fail(t) \/ Kill(t) PROVE Inv'
  <2>1. TypeOK'
    BY <1>7 DEF Fail, Kill, TypeOK, Running
  <2>2. Prepared' /\ Saved' /\ WholeInstallation'
    BY <1>7 DEF Fail, Kill, TypeOK, Prepared, Writing, Saved, WholeInstallation
  <2>3. OnlyKillsLitter'
    BY <1>7 DEF Fail, Kill, TypeOK, OnlyKillsLitter
  <2>4. QED
    BY <2>1, <2>2, <2>3
<1>8. CASE Edit
  <2>1. TypeOK'
    BY <1>8, UserFilesAssumption DEF Edit, TypeOK
  <2>2. QED
    BY <1>8, <2>1, UserAssumption DEF Edit, TypeOK, Prepared, Writing, Saved, WholeInstallation, OnlyKillsLitter
<1>9. CASE UNCHANGED vars
  BY <1>9 DEF vars, TypeOK, Prepared, Writing, Saved, WholeInstallation, OnlyKillsLitter
<1>10. QED
  BY <1>1, <1>2, <1>3, <1>4, <1>5, <1>6, <1>7, <1>8, <1>9 DEF Next

-----------------------------------------------------------------------------
(* Theorems *)

THEOREM InvHolds == Spec => []Inv
BY InitInv, NextInv, PTL DEF Spec

\* The types of the state.
THEOREM TypeCorrect == Spec => []TypeOK
<1>1. Inv => TypeOK
  BY DEF Inv
<1>2. QED
  BY <1>1, InvHolds, PTL

\* A file that a run wrote holds one whole installation or none.
THEOREM InstallationsWhole == Spec => []WholeInstallation
<1>1. Inv => WholeInstallation
  BY DEF Inv
<1>2. QED
  BY <1>1, InvHolds, PTL

\* Temporary files stay behind only where a run was killed.
THEOREM LitterOfKills == Spec => []OnlyKillsLitter
<1>1. Inv => OnlyKillsLitter
  BY DEF Inv
<1>2. QED
  BY <1>1, InvHolds, PTL

\* A replacement changes foreign handlers only if the file was written since
\* the run read it, and the content it replaces is in a backup unless it was
\* written after the backup.
THEOREM ReplacementsAreAccounted == Spec => ReplacementsAccounted
<1> DEFINE Accounted ==
      \A t \in Tools :
          pc[t] = "replace" /\ pc'[t] = "done" =>
             /\ version = readAt[t] => ForeignPart(file') = ForeignPart(file)
             /\ \/ file = Absent
                \/ <<version, file>> \in backups
                \/ version > savedAt[t]
<1>1. ASSUME Inv, [Next]_vars PROVE [Accounted]_vars
  <2>1. ASSUME NEW t \in Tools, pc[t] = "replace", pc'[t] = "done"
        PROVE  Replace(t)
    <3>1. CASE Edit \/ UNCHANGED vars
      BY <2>1, <3>1 DEF Edit, run, vars
    <3>2. ASSUME NEW u \in Tools, u # t,
                 Start(u) \/ Read(u) \/ Backup(u) \/ MakeTemp(u) \/ Write(u)
                 \/ Replace(u) \/ Fail(u) \/ Kill(u)
          PROVE  pc'[t] = pc[t]
      BY <1>1, <3>2 DEF Inv, TypeOK, Start, Read, Backup, MakeTemp, Write, Replace, Fail, Kill, Goto
    <3>3. ~(Start(t) \/ Read(t) \/ Backup(t) \/ MakeTemp(t) \/ Write(t) \/ Fail(t) \/ Kill(t))
      BY <1>1, <2>1 DEF Inv, TypeOK, Start, Read, Backup, MakeTemp, Write, Fail, Kill, Goto
    <3>4. QED
      BY <1>1, <2>1, <3>1, <3>2, <3>3 DEF Next
  <2>2. ASSUME NEW t \in Tools, Replace(t)
        PROVE  /\ version = readAt[t] => ForeignPart(file') = ForeignPart(file)
               /\ \/ file = Absent
                  \/ <<version, file>> \in backups
                  \/ version > savedAt[t]
    <3>1. file' = doc[t] /\ doc[t] \in Documents
      BY <1>1, <2>2 DEF Replace, Inv, Prepared, Writing
    <3>2. ForeignPart(file') = Stripped(doc[t])
      BY <3>1, StrippedIsForeign
    <3>3. QED
      BY <1>1, <2>2, <3>2 DEF Replace, Inv, Prepared, Saved, Writing
  <2>3. QED
    BY <2>1, <2>2
<1>2. QED
  BY <1>1, InvHolds, PTL DEF Spec, ReplacementsAccounted
=============================================================================
