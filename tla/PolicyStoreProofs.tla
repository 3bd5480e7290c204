------------------------- MODULE PolicyStoreProofs -------------------------
(***************************************************************************)
(* Theorems about PolicyStore for every set of processes and bundles and   *)
(* every bound, and their TLAPS proofs.                                    *)
(***************************************************************************)
EXTENDS PolicyStore, TLAPS

\* A loader that accepted the active file holds a bundle it saw there.
HoldsAccepted ==
    \A p \in Loaders :
        pc[p] \in {"readLkg", "mkstemp", "write", "replace", "dirsync", "loaded"}
            => doc[p] \in Policies /\ doc[p] \in seen[p] /\ doc[p] \in loaded

\* Whoever writes, writes a validated bundle from a complete temporary file.
WritesValid ==
    \A p \in Procs :
        /\ pc[p] \in {"mkstemp", "write", "replace", "dirsync"} => doc[p] \in Policies
        /\ pc[p] = "replace" => tmp[p] = "synced"

\* A loader takes the fallback path because it met an unusable active file.
FellBack ==
    \A p \in Loaders :
        /\ pc[p] \in {"fallback", "recovered", "rejected"} => Bad \in seen[p]
        /\ pc[p] = "recovered" => doc[p] \in loaded
        /\ pc[p] = "rejected" => ~shielded[p]
        /\ pc[p] = "raised" => Raising \in seen[p] \/ ~shielded[p]

\* A running load has seen what the active file is now.
WatchesActive == \A p \in Loaders : Running(p) => file["active"] \in seen[p]

\* The .lkg is, and stays after a power loss, a bundle that was loaded, unless
\* something else has damaged it.
LkgWasLoaded == after["lkg"] \subseteq loaded \cup Unusable

\* The current content of a file is one that a power loss may leave.
CurrentSurvives == \A f \in Files : file[f] \in after[f]

ShieldHolds == \A p \in Loaders : shielded[p] => after["lkg"] \subseteq Policies

PromiseHolds == (DirOpens /\ promised # Bad) => after["active"] = {promised}

Inv ==
    /\ TypeOK
    /\ HoldsAccepted
    /\ WritesValid
    /\ FellBack
    /\ WatchesActive
    /\ LkgWasLoaded
    /\ CurrentSurvives
    /\ ShieldHolds
    /\ PromiseHolds

-----------------------------------------------------------------------------
(* Type correctness *)

USE DEF Procs, Files, Contents, Unusable, LoaderPC, CompilerPC, Bounds, Returned, Running

LEMMA TypeInit == Init => TypeOK
<1> SUFFICES ASSUME Init PROVE TypeOK
  OBVIOUS
<1>1. left \in [Bounds -> Nat]
  BY BoundsAssumption DEF Init
<1>2. /\ file \in [Files -> Contents]
      /\ loaded \in SUBSET Policies
  BY DEF Init
<1>3. after \in [Files -> SUBSET Contents]
  BY <1>2 DEF Init
<1>4. QED
  BY <1>1, <1>2, <1>3 DEF Init, TypeOK

\* Spending keeps every bound a natural number.
LEMMA SpendType ==
  ASSUME NEW b \in Bounds, left \in [Bounds -> Nat], Spend(b)
  PROVE  left' \in [Bounds -> Nat]
BY DEF Spend

\* How write_policy_atomic ends stays within what each kind of process can be.
LEMMA FinishType ==
  ASSUME TypeOK, NEW p \in Procs, NEW ok \in BOOLEAN, Finish(p, ok),
         p \in Compilers => doc[p] \in Contents
  PROVE  /\ pc' \in [Procs -> LoaderPC \cup CompilerPC]
         /\ \A q \in Loaders : pc'[q] \in LoaderPC
         /\ \A q \in Compilers : pc'[q] \in CompilerPC
         /\ promised' \in Contents
BY ProcsAssumption DEF TypeOK, Finish, Goto, Outcome

LEMMA TypeStep == TypeOK /\ [Next]_vars => TypeOK'
<1> SUFFICES ASSUME TypeOK, [Next]_vars PROVE TypeOK'
  OBVIOUS
<1>1. ASSUME NEW p \in Procs, StartLoad(p) PROVE TypeOK'
  BY <1>1, ProcsAssumption DEF TypeOK, StartLoad, Goto
<1>2. ASSUME NEW p \in Procs, StartCompile(p) PROVE TypeOK'
  <2>1. left' \in [Bounds -> Nat]
    BY <1>2, SpendType DEF StartCompile, TypeOK
  <2>2. QED
    BY <1>2, <2>1, ProcsAssumption DEF TypeOK, StartCompile, Goto, history
<1>3. ASSUME NEW p \in Procs, ReadActive(p) PROVE TypeOK'
  <2>1. p \in Loaders
    BY <1>3 DEF TypeOK, ReadActive
  <2>2. QED
    BY <1>3, <2>1, ProcsAssumption DEF TypeOK, ReadActive, Goto
<1>4. ASSUME NEW p \in Procs, ReadLkg(p) PROVE TypeOK'
  <2>1. p \in Loaders
    BY <1>4 DEF TypeOK, ReadLkg
  <2>2. QED
    BY <1>4, <2>1, ProcsAssumption DEF TypeOK, ReadLkg, Goto, history
<1>5. ASSUME NEW p \in Procs, Fallback(p) PROVE TypeOK'
  <2>1. p \in Loaders
    BY <1>5 DEF TypeOK, Fallback
  <2>2. QED
    BY <1>5, <2>1, ProcsAssumption DEF TypeOK, Fallback, Goto, history
<1>6. ASSUME NEW p \in Procs, MakeTemp(p) PROVE TypeOK'
  BY <1>6 DEF TypeOK, MakeTemp, Goto, history
<1>7. ASSUME NEW p \in Procs, WriteTemp(p) PROVE TypeOK'
  BY <1>7 DEF TypeOK, WriteTemp, Goto, history
<1>8. ASSUME NEW p \in Procs, Replace(p) PROVE TypeOK'
  <2>1. /\ pc' \in [Procs -> LoaderPC \cup CompilerPC]
        /\ \A q \in Loaders : pc'[q] \in LoaderPC
        /\ \A q \in Compilers : pc'[q] \in CompilerPC
        /\ tmp' \in [Procs -> {"none", "empty", "synced"}]
    BY <1>8 DEF TypeOK, Replace, Goto
  <2>2. /\ file' \in [Files -> Contents]
        /\ after' \in [Files -> SUBSET Contents]
    BY <1>8 DEF TypeOK, Replace, Survivor
  <2>3. seen' \in [Loaders -> SUBSET Contents] /\ promised' \in Contents
    BY <1>8 DEF TypeOK, Replace, Watch
  <2>4. QED
    BY <1>8, <2>1, <2>2, <2>3 DEF TypeOK, Replace
<1>9. ASSUME NEW p \in Procs, SyncDirectory(p) PROVE TypeOK'
  <2>1. after' \in [Files -> SUBSET Contents]
    BY <1>9 DEF TypeOK, SyncDirectory
  <2>2. QED
    BY <1>9, <2>1, FinishType DEF TypeOK, SyncDirectory
<1>10. ASSUME NEW p \in Procs, WriteFails(p) PROVE TypeOK'
  <2>1. left' \in [Bounds -> Nat]
    BY <1>10, SpendType DEF WriteFails, TypeOK
  <2>2. QED
    BY <1>10, <2>1, FinishType DEF TypeOK, WriteFails
<1>11. ASSUME NEW p \in Procs, Exit(p) PROVE TypeOK'
  BY <1>11 DEF TypeOK, Exit, Forget, Goto
<1>12. ASSUME NEW p \in Procs, Kill(p) PROVE TypeOK'
  <2>1. left' \in [Bounds -> Nat]
    BY <1>12, SpendType DEF Kill, TypeOK
  <2>2. QED
    BY <1>12, <2>1 DEF TypeOK, Kill, Forget, Goto
<1>13. ASSUME NEW f \in Files, NEW c \in Contents, Edit(f, c) PROVE TypeOK'
  <2>1. left' \in [Bounds -> Nat]
    BY <1>13, SpendType DEF Edit, TypeOK
  <2>2. /\ file' \in [Files -> Contents]
        /\ after' \in [Files -> SUBSET Contents]
    BY <1>13 DEF TypeOK, Edit
  <2>3. /\ seen' \in [Loaders -> SUBSET Contents]
        /\ shielded' \in [Loaders -> BOOLEAN]
        /\ promised' \in Contents
    <3>1. CASE f = "active"
      BY <1>13, <3>1 DEF TypeOK, Edit, Watch
    <3>2. CASE f # "active"
      <4>1. /\ shielded' = [p \in Loaders |-> FALSE]
            /\ UNCHANGED <<seen, promised>>
        BY <1>13, <3>2 DEF Edit
      <4>2. QED
        BY <4>1 DEF TypeOK
    <3>3. QED
      BY <3>1, <3>2
  <2>4. QED
    BY <1>13, <2>1, <2>2, <2>3 DEF TypeOK, Edit
<1>14. ASSUME PowerLoss PROVE TypeOK'
  <2>1. left' \in [Bounds -> Nat]
    BY <1>14, SpendType DEF PowerLoss, TypeOK
  <2>2. file' \in [Files -> Contents]
    BY <1>14 DEF TypeOK, PowerLoss
  <2>3. after' \in [Files -> SUBSET Contents]
    BY <1>14, <2>2 DEF PowerLoss
  <2>4. QED
    BY <1>14, <2>1, <2>2, <2>3 DEF TypeOK, PowerLoss
<1>15. ASSUME NEW p \in Procs, ReadFails(p) PROVE TypeOK'
  <2>1. p \in Loaders
    BY <1>15 DEF TypeOK, ReadFails
  <2>2. left' \in [Bounds -> Nat]
    BY <1>15, SpendType DEF ReadFails, TypeOK
  <2>3. seen' \in [Loaders -> SUBSET Contents] /\ shielded' \in [Loaders -> BOOLEAN]
    <3>1. seen' = [seen EXCEPT ![p] = @ \cup {Bad}] \/ seen' = seen
      BY <1>15 DEF ReadFails
    <3>2. shielded' = [shielded EXCEPT ![p] = FALSE] \/ shielded' = shielded
      BY <1>15 DEF ReadFails
    <3>3. seen' \in [Loaders -> SUBSET Contents]
      BY <2>1, <3>1 DEF TypeOK
    <3>4. shielded' \in [Loaders -> BOOLEAN]
      BY <2>1, <3>2 DEF TypeOK
    <3>5. QED
      BY <3>3, <3>4
  <2>4. QED
    BY <1>15, <2>1, <2>2, <2>3, ProcsAssumption DEF TypeOK, ReadFails, Goto
<1>16. ASSUME NEW p \in Procs, Oversizes(p) PROVE TypeOK'
  BY <1>16, FinishType DEF TypeOK, Oversizes
<1>17. CASE UNCHANGED vars
  BY <1>17 DEF TypeOK, vars
<1>18. QED
  BY <1>1, <1>2, <1>3, <1>4, <1>5, <1>6, <1>7, <1>8, <1>9, <1>10, <1>11, <1>12,
     <1>13, <1>14, <1>15, <1>16, <1>17 DEF Next, Step, External

\* The variables keep their types in every behaviour.
THEOREM TypeCorrect == Spec => []TypeOK
<1>1. Init => TypeOK
  BY TypeInit
<1>2. TypeOK /\ [Next]_vars => TypeOK'
  BY TypeStep
<1>3. QED
  BY <1>1, <1>2, PTL DEF Spec

-----------------------------------------------------------------------------
(* The inductive invariant *)

LEMMA InvInit == Init => Inv
<1> SUFFICES ASSUME Init PROVE Inv
  OBVIOUS
<1>1. TypeOK
  BY TypeInit
<1>2. HoldsAccepted /\ WritesValid /\ FellBack /\ WatchesActive
  BY DEF Init, HoldsAccepted, WritesValid, FellBack, WatchesActive
<1>3. LkgWasLoaded /\ CurrentSurvives
  BY DEF Init, LkgWasLoaded, CurrentSurvives
<1>4. ShieldHolds /\ PromiseHolds
  BY DEF Init, ShieldHolds, PromiseHolds
<1>5. QED
  BY <1>1, <1>2, <1>3, <1>4 DEF Inv

\* What the processes know: preserved by every step.
LEMMA KnowledgeStep ==
  ASSUME Inv, [Next]_vars
  PROVE  HoldsAccepted' /\ WritesValid' /\ FellBack' /\ WatchesActive'
<1> DEFINE Goal == HoldsAccepted' /\ WritesValid' /\ FellBack' /\ WatchesActive'
<1> USE DEF HoldsAccepted, WritesValid, FellBack, WatchesActive
<1>0. TypeOK /\ HoldsAccepted /\ WritesValid /\ FellBack /\ WatchesActive
  BY DEF Inv
<1>1. ASSUME NEW p \in Procs, StartLoad(p) PROVE Goal
  BY <1>0, <1>1, ProcsAssumption DEF TypeOK, StartLoad, Goto
<1>2. ASSUME NEW p \in Procs, StartCompile(p) PROVE Goal
  BY <1>0, <1>2, ProcsAssumption DEF TypeOK, StartCompile, Goto, history
<1>3. ASSUME NEW p \in Procs, ReadActive(p) PROVE Goal
  <2>0. p \in Loaders /\ file["active"] \in seen[p] /\ loaded \subseteq loaded'
    BY <1>0, <1>3 DEF TypeOK, ReadActive
  <2>1. CASE file["active"] \in Policies
    BY <1>0, <1>3, <2>0, <2>1, BadAssumption DEF TypeOK, ReadActive, Goto
  <2>2. CASE file["active"] = Bad
    BY <1>0, <1>3, <2>0, <2>2, BadAssumption DEF TypeOK, ReadActive, Goto
  <2>3. CASE file["active"] = Raising
    BY <1>0, <1>3, <2>0, <2>3, BadAssumption DEF TypeOK, ReadActive, Goto
  <2>4. QED
    BY <1>0, <2>1, <2>2, <2>3 DEF TypeOK
<1>4. ASSUME NEW p \in Procs, ReadLkg(p) PROVE Goal
  <2>1. p \in Loaders /\ doc[p] \in Policies
    BY <1>0, <1>4 DEF TypeOK, ReadLkg
  <2>2. file["lkg"] = Raising => ~shielded[p]
    BY <2>1, BadAssumption DEF Inv, ShieldHolds, CurrentSurvives
  <2>3. QED
    BY <1>0, <1>4, <2>1, <2>2, ProcsAssumption DEF TypeOK, ReadLkg, Goto, history
<1>5. ASSUME NEW p \in Procs, Fallback(p) PROVE Goal
  <2>1. file["lkg"] \in loaded \cup Unusable /\ file["lkg"] \in after["lkg"]
    BY DEF Inv, LkgWasLoaded, CurrentSurvives
  <2>2. p \in Loaders
    BY <1>0, <1>5 DEF TypeOK, Fallback
  <2>3. file["lkg"] \in Unusable => ~shielded[p]
    BY <2>1, <2>2, BadAssumption DEF Inv, ShieldHolds
  <2>4. file["lkg"] \in Policies => file["lkg"] \in loaded
    BY <2>1, BadAssumption
  <2>5. QED
    BY <1>0, <1>5, <2>2, <2>3, <2>4, BadAssumption DEF TypeOK, Fallback, Goto, history
<1>6. ASSUME NEW p \in Procs, MakeTemp(p) PROVE Goal
  BY <1>0, <1>6 DEF TypeOK, MakeTemp, Goto, history
<1>7. ASSUME NEW p \in Procs, WriteTemp(p) PROVE Goal
  BY <1>0, <1>7 DEF TypeOK, WriteTemp, Goto, history
<1>8. ASSUME NEW p \in Procs, Replace(p) PROVE Goal
  <2>1. CASE p \in Compilers
    BY <1>0, <1>8, <2>1, ProcsAssumption DEF TypeOK, Replace, Goto, Target, Watch
  <2>2. CASE p \notin Compilers
    BY <1>0, <1>8, <2>2 DEF TypeOK, Replace, Goto, Target
  <2>3. QED
    BY <2>1, <2>2
<1>9. ASSUME NEW p \in Procs, SyncDirectory(p) PROVE Goal
  BY <1>0, <1>9, ProcsAssumption DEF TypeOK, SyncDirectory, Finish, Outcome, Goto
<1>10. ASSUME NEW p \in Procs, WriteFails(p) PROVE Goal
  BY <1>0, <1>10, ProcsAssumption DEF TypeOK, WriteFails, Finish, Outcome, Goto
<1>11. ASSUME NEW p \in Procs, Exit(p) PROVE Goal
  BY <1>0, <1>11 DEF TypeOK, Exit, Forget, Goto
<1>12. ASSUME NEW p \in Procs, Kill(p) PROVE Goal
  BY <1>0, <1>12 DEF TypeOK, Kill, Forget, Goto
<1>13. ASSUME NEW f \in Files, NEW c \in Contents, Edit(f, c) PROVE Goal
  <2>1. CASE f = "active"
    BY <1>0, <1>13, <2>1 DEF TypeOK, Edit, Watch
  <2>2. CASE f = "lkg"
    BY <1>0, <1>13, <2>2 DEF TypeOK, Edit
  <2>3. QED
    BY <2>1, <2>2
<1>14. ASSUME PowerLoss PROVE Goal
  BY <1>14 DEF PowerLoss
<1>15. ASSUME NEW p \in Procs, ReadFails(p) PROVE Goal
  BY <1>0, <1>15, ProcsAssumption DEF TypeOK, ReadFails, Goto
<1>16. ASSUME NEW p \in Procs, Oversizes(p) PROVE Goal
  BY <1>0, <1>16, ProcsAssumption DEF TypeOK, Oversizes, Finish, Outcome, Goto
<1>17. CASE UNCHANGED vars
  BY <1>0, <1>17 DEF vars
<1>18. QED
  BY <1>1, <1>2, <1>3, <1>4, <1>5, <1>6, <1>7, <1>8, <1>9, <1>10, <1>11, <1>12,
     <1>13, <1>14, <1>15, <1>16, <1>17 DEF Next, Step, External

\* What the disk holds: preserved by every step.
LEMMA DiskStep ==
  ASSUME Inv, [Next]_vars
  PROVE  LkgWasLoaded' /\ CurrentSurvives' /\ ShieldHolds' /\ PromiseHolds'
<1> DEFINE Goal == LkgWasLoaded' /\ CurrentSurvives' /\ ShieldHolds' /\ PromiseHolds'
<1> USE DEF LkgWasLoaded, CurrentSurvives, ShieldHolds, PromiseHolds
<1>0. TypeOK /\ LkgWasLoaded /\ CurrentSurvives /\ ShieldHolds /\ PromiseHolds
  BY DEF Inv
<1>1. ASSUME NEW p \in Procs, StartLoad(p) PROVE Goal
  BY <1>0, <1>1 DEF TypeOK, StartLoad
<1>2. ASSUME NEW p \in Procs, StartCompile(p) PROVE Goal
  BY <1>0, <1>2 DEF StartCompile, history
<1>3. ASSUME NEW p \in Procs, ReadActive(p) PROVE Goal
  BY <1>0, <1>3 DEF ReadActive
<1>4. ASSUME NEW p \in Procs, ReadLkg(p) PROVE Goal
  BY <1>0, <1>4 DEF ReadLkg, history
<1>5. ASSUME NEW p \in Procs, Fallback(p) PROVE Goal
  BY <1>0, <1>5 DEF Fallback, history
<1>6. ASSUME NEW p \in Procs, MakeTemp(p) PROVE Goal
  BY <1>0, <1>6 DEF MakeTemp, history
<1>7. ASSUME NEW p \in Procs, WriteTemp(p) PROVE Goal
  BY <1>0, <1>7 DEF WriteTemp, history
<1>8. ASSUME NEW p \in Procs, Replace(p) PROVE Goal
  <2>1. Survivor(p) = doc[p] /\ doc[p] \in Policies
    BY <1>8 DEF Inv, WritesValid, Replace, Survivor
  <2>2. CASE p \in Compilers
    BY <1>0, <1>8, <2>1, <2>2 DEF TypeOK, Replace, Target
  <2>3. CASE p \in Loaders
    <3>1. doc[p] \in loaded
      BY <1>8, <2>3 DEF Inv, HoldsAccepted, Replace
    <3>2. QED
      BY <1>0, <1>8, <2>1, <2>3, <3>1, ProcsAssumption, BadAssumption
         DEF TypeOK, Replace, Target
  <2>4. QED
    BY <2>2, <2>3
<1>9. ASSUME NEW p \in Procs, SyncDirectory(p) PROVE Goal
  <2>1. CASE DirOpens
    BY <1>0, <1>9, <2>1, BadAssumption DEF TypeOK, SyncDirectory, Finish
  <2>2. CASE ~DirOpens
    BY <1>0, <1>9, <2>2 DEF TypeOK, SyncDirectory
  <2>3. QED
    BY <2>1, <2>2
<1>10. ASSUME NEW p \in Procs, WriteFails(p) PROVE Goal
  BY <1>0, <1>10 DEF WriteFails, Finish
<1>11. ASSUME NEW p \in Procs, Exit(p) PROVE Goal
  BY <1>0, <1>11 DEF TypeOK, Exit, Forget
<1>12. ASSUME NEW p \in Procs, Kill(p) PROVE Goal
  BY <1>0, <1>12 DEF TypeOK, Kill, Forget
<1>13. ASSUME NEW f \in Files, NEW c \in Contents, Edit(f, c) PROVE Goal
  <2>1. CASE f = "active"
    BY <1>0, <1>13, <2>1 DEF TypeOK, Edit
  <2>2. CASE f = "lkg"
    BY <1>0, <1>13, <2>2 DEF TypeOK, Edit
  <2>3. QED
    BY <2>1, <2>2
<1>14. ASSUME PowerLoss PROVE Goal
  <2>1. /\ file'["active"] \in after["active"] /\ file'["lkg"] \in after["lkg"]
        /\ after' = [f \in Files |-> {file'[f]}]
        /\ shielded' = [p \in Loaders |-> FALSE]
        /\ loaded' = loaded /\ promised' = promised
    BY <1>14 DEF PowerLoss
  <2>2. QED
    BY <1>0, <2>1
<1>15. ASSUME NEW p \in Procs, ReadFails(p) PROVE Goal
  BY <1>0, <1>15 DEF TypeOK, ReadFails
<1>16. ASSUME NEW p \in Procs, Oversizes(p) PROVE Goal
  BY <1>0, <1>16 DEF Oversizes, Finish
<1>17. CASE UNCHANGED vars
  BY <1>0, <1>17 DEF vars
<1>18. QED
  BY <1>1, <1>2, <1>3, <1>4, <1>5, <1>6, <1>7, <1>8, <1>9, <1>10, <1>11, <1>12,
     <1>13, <1>14, <1>15, <1>16, <1>17 DEF Next, Step, External

LEMMA InvStep == Inv /\ [Next]_vars => Inv'
<1> SUFFICES ASSUME Inv, [Next]_vars PROVE Inv'
  OBVIOUS
<1>1. TypeOK'
  BY TypeStep DEF Inv
<1>2. QED
  BY <1>1, KnowledgeStep, DiskStep DEF Inv

THEOREM Invariance == Spec => []Inv
<1>1. QED
  BY InvInit, InvStep, PTL DEF Spec

-----------------------------------------------------------------------------
(* What follows from it *)

\* load_policy returns a bundle that was active at some instant of the load.
THEOREM LoadsActive == Spec => []LoadedWasActive
<1>1. Inv => LoadedWasActive
  BY DEF Inv, HoldsAccepted, LoadedWasActive
<1>2. QED
  BY <1>1, Invariance, PTL

\* The .lkg is used only for an unusable active file, and was once loaded.
THEOREM FallsBackJustly == Spec => []FallbackJustified
<1>1. Inv => FallbackJustified
  BY DEF Inv, FellBack, FallbackJustified
<1>2. QED
  BY <1>1, Invariance, PTL

\* A load that starts with a valid durable .lkg returns a bundle, unless the .lkg
\* is damaged or unreadable, or the reading of the active file raises what
\* load_policy does not catch.
THEOREM ShieldedLoadsReturn == Spec => []NoRejectionOnceShielded
<1>1. Inv => NoRejectionOnceShielded
  BY DEF Inv, FellBack, NoRejectionOnceShielded
<1>2. QED
  BY <1>1, Invariance, PTL

\* A reported activation survives power losses until it is superseded.
THEOREM ActivationIsDurable == Spec => []DurableActivation
<1>1. Inv => DurableActivation
  BY DEF Inv, PromiseHolds, CurrentSurvives, DurableActivation
<1>2. QED
  BY <1>1, Invariance, PTL

\* No step but an edit from outside tears a file that is whole and durable.
THEOREM FilesAreNeverTorn == Spec => NeverTorn
<1>1. ASSUME Inv, [Next]_vars, NEW f \in Files, Sound(f), ~(\E c \in Contents : Edit(f, c))
      PROVE  Sound(f)'
  <2>0. TypeOK /\ WritesValid /\ CurrentSurvives /\ Sound(f)
    BY <1>1 DEF Inv
  <2> USE DEF Sound
  <2>1. ASSUME NEW p \in Procs, Replace(p) PROVE Sound(f)'
    <3>1. Survivor(p) = doc[p] /\ doc[p] \in Policies
      BY <2>0, <2>1 DEF WritesValid, Replace, Survivor
    <3>2. QED
      BY <2>0, <2>1, <3>1 DEF TypeOK, Replace
  <2>2. ASSUME NEW p \in Procs, SyncDirectory(p) PROVE Sound(f)'
    BY <2>0, <2>2 DEF TypeOK, SyncDirectory
  <2>3. ASSUME NEW g \in Files, NEW c \in Contents, Edit(g, c) PROVE Sound(f)'
    <3>1. g # f
      BY <1>1, <2>3
    <3>2. QED
      BY <2>0, <2>3, <3>1 DEF TypeOK, Edit
  <2>4. ASSUME PowerLoss PROVE Sound(f)'
    <3>1. file'["active"] \in after["active"] /\ file'["lkg"] \in after["lkg"]
          /\ after' = [g \in Files |-> {file'[g]}]
      BY <2>4 DEF PowerLoss
    <3>2. QED
      BY <2>0, <3>1
  <2>5. ASSUME UNCHANGED <<file, after>> PROVE Sound(f)'
    BY <2>0, <2>5
  <2>6. ASSUME NEW p \in Procs,
               \/ StartLoad(p) \/ StartCompile(p) \/ ReadActive(p) \/ ReadLkg(p)
               \/ Fallback(p) \/ ReadFails(p) \/ Oversizes(p) \/ MakeTemp(p) \/ WriteTemp(p)
               \/ WriteFails(p) \/ Exit(p) \/ Kill(p)
        PROVE UNCHANGED <<file, after>>
    BY <2>6 DEF StartLoad, StartCompile, ReadActive, ReadLkg, Fallback, ReadFails, Oversizes,
                MakeTemp, WriteTemp, WriteFails, Exit, Kill
  <2>7. QED
    BY <1>1, <2>1, <2>2, <2>3, <2>4, <2>5, <2>6 DEF Next, Step, External, vars
<1>2. ASSUME Inv, [Next]_vars
      PROVE  \A f \in Files : Sound(f) /\ ~(\E c \in Contents : Edit(f, c)) => Sound(f)'
  BY <1>1, <1>2
<1>3. QED
  BY <1>2, Invariance, PTL DEF Spec, NeverTorn
=============================================================================
