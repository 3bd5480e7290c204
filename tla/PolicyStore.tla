---------------------------- MODULE PolicyStore ----------------------------
(***************************************************************************)
(* The policy files on disk and the processes that touch them: every hook  *)
(* process (and doctor, simulate, status, detections) runs load_policy     *)
(* (policy_ir.py), every `policy compile` runs write_policy_atomic on the  *)
(* active bundle.  Nothing locks the two files; the only tools are a       *)
(* temporary file, fsync and rename.                                       *)
(*                                                                         *)
(* A validated bundle is a member of Policies; what _read_policy rejects   *)
(* with a PolicyValidationError, a missing, unreadable, oversized,         *)
(* malformed or invalid file, is Bad.  On some contents it raises          *)
(* something else, such as the TypeError for a failure_mode that is a list *)
(* or the RecursionError for very deep JSON: these are Raising.            *)
(***************************************************************************)
EXTENDS Naturals, FiniteSets

CONSTANTS
    Loaders,        \* processes that call load_policy
    Compilers,      \* processes that call write_policy_atomic on the active file
    Policies,       \* bundles that validate_policy accepts
    Oversized,      \* those of them that are within MAX_POLICY_BYTES as they stand
                    \* in the active file, but not as write_policy_atomic indents them
    Bad,            \* the content of a file that _read_policy rejects
    Raising,        \* the content on which it raises something else
    DirOpens,       \* os.open of the policy directory succeeds in _fsync_directory
    MaxActivations, \* bound: successful starts of `policy compile`
    MaxEdits,       \* bound: edits of the two files by something else
    MaxFaults,      \* bound: failing system calls and killed processes
    MaxCrashes      \* bound: power losses

Procs == Loaders \cup Compilers
Files == {"active", "lkg"}
Unusable == {Bad, Raising}
Contents == Policies \cup Unusable

ASSUME ProcsAssumption == Loaders \cap Compilers = {}
ASSUME BadAssumption == Policies \cap Unusable = {} /\ Bad # Raising
ASSUME OversizedAssumption == Oversized \subseteq Policies
ASSUME DirAssumption == DirOpens \in BOOLEAN
ASSUME BoundsAssumption ==
    /\ MaxActivations \in Nat /\ MaxEdits \in Nat
    /\ MaxFaults \in Nat /\ MaxCrashes \in Nat

VARIABLES
    pc,        \* where each process is
    doc,       \* the bundle a process holds in memory
    tmp,       \* the process's temporary file: "none", "empty" or "synced"
    file,      \* what a reader of each file gets
    after,     \* per file, the contents it may have after a power loss
    left       \* what remains of each bound

\* History variables: no action reads them.
VARIABLES
    seen,      \* per load, contents of the active file while it runs, and Bad
               \* if it could not read the file
    loaded,    \* bundles that some load has read from the active file
    shielded,  \* per load, the .lkg was valid and durable when it started, and
               \* neither damaged nor unreadable since
    promised   \* bundle whose activation was reported and not superseded

store == <<pc, doc, tmp, file, after, left>>
history == <<seen, loaded, shielded, promised>>
vars == <<pc, doc, tmp, file, after, left, seen, loaded, shielded, promised>>

LoaderPC == {"idle", "readActive", "readLkg", "fallback", "mkstemp", "write",
             "replace", "dirsync", "loaded", "recovered", "rejected", "raised"}
CompilerPC == {"idle", "mkstemp", "write", "replace", "dirsync", "activated", "failed"}
Returned == {"loaded", "recovered", "rejected", "raised", "activated", "failed"}
Bounds == {"activations", "edits", "faults", "crashes"}

TypeOK ==
    /\ pc \in [Procs -> LoaderPC \cup CompilerPC]
    /\ \A p \in Loaders : pc[p] \in LoaderPC
    /\ \A p \in Compilers : pc[p] \in CompilerPC
    /\ doc \in [Procs -> Contents]
    /\ tmp \in [Procs -> {"none", "empty", "synced"}]
    /\ file \in [Files -> Contents]
    /\ after \in [Files -> SUBSET Contents]
    /\ left \in [Bounds -> Nat]
    /\ seen \in [Loaders -> SUBSET Contents]
    /\ loaded \in SUBSET Policies
    /\ shielded \in [Loaders -> BOOLEAN]
    /\ promised \in Contents

\* The installation starts with or without an .lkg of the active bundle.
Init ==
    /\ pc = [p \in Procs |-> "idle"]
    /\ doc = [p \in Procs |-> Bad]
    /\ tmp = [p \in Procs |-> "none"]
    /\ \E a \in Contents : \E l \in {Bad} \cup ({a} \cap (Policies \ Oversized)) :
          /\ file = [f \in Files |-> IF f = "active" THEN a ELSE l]
          /\ loaded = {l} \ {Bad}
    /\ after = [f \in Files |-> {file[f]}]
    /\ left = [b \in Bounds |-> CASE b = "activations" -> MaxActivations
                                  [] b = "edits" -> MaxEdits
                                  [] b = "faults" -> MaxFaults
                                  [] b = "crashes" -> MaxCrashes]
    /\ seen = [p \in Loaders |-> {}]
    /\ shielded = [p \in Loaders |-> FALSE]
    /\ promised = Bad

-----------------------------------------------------------------------------
(* Helpers *)

Spend(b) == left[b] > 0 /\ left' = [left EXCEPT ![b] = @ - 1]

Goto(p, to) == pc' = [pc EXCEPT ![p] = to]

Target(p) == IF p \in Compilers THEN "active" ELSE "lkg"

Running(p) == pc[p] \notin Returned \cup {"idle"}

\* Every content the active file takes while a load runs is recorded.
Watch(c) == seen' = [p \in Loaders |-> IF Running(p) THEN seen[p] \cup {c} ELSE seen[p]]

\* Mutant: load_policy does not catch the failure of the refresh.
OutcomeUncaught(p, ok) == IF ok THEN "activated" ELSE "failed"

\* write_policy_atomic returns or raises: load_policy swallows the exception
\* and returns the active bundle; the compiler reports it.
Outcome(p, ok) ==
    IF p \in Loaders THEN "loaded" ELSE IF ok THEN "activated" ELSE "failed"

Finish(p, ok) ==
    /\ Goto(p, Outcome(p, ok))
    /\ promised' = IF p \in Compilers /\ ok /\ file["active"] = doc[p]
                   THEN doc[p] ELSE promised

-----------------------------------------------------------------------------
(* load_policy *)

StartLoad(p) ==
    /\ p \in Loaders
    /\ pc[p] = "idle"
    /\ Goto(p, "readActive")
    /\ seen' = [seen EXCEPT ![p] = {file["active"]}]
    /\ shielded' = [shielded EXCEPT ![p] = after["lkg"] \subseteq Policies]
    /\ UNCHANGED <<doc, tmp, file, after, left, loaded, promised>>

\* Mutant: an active bundle that differs from the snapshot is not trusted.
ReadActiveOnlyKnown(p) ==
    /\ pc[p] = "readActive"
    /\ doc' = [doc EXCEPT ![p] = file["active"]]
    /\ Goto(p, CASE file["active"] = Raising -> "raised"
                 [] file["active"] \in Policies /\ file["lkg"] \in {Bad, file["active"]} -> "readLkg"
                 [] OTHER -> "fallback")
    /\ loaded' = loaded \cup ({file["active"]} \cap Policies)
    /\ UNCHANGED <<tmp, file, after, left, seen, shielded, promised>>

\* _read_policy(path): one snapshot of the bytes, parsed and validated.  Only a
\* PolicyValidationError is caught.
ReadActive(p) ==
    /\ pc[p] = "readActive"
    /\ doc' = [doc EXCEPT ![p] = file["active"]]
    /\ Goto(p, CASE file["active"] \in Policies -> "readLkg"
                 [] file["active"] = Bad -> "fallback"
                 [] file["active"] = Raising -> "raised")
    /\ loaded' = loaded \cup ({file["active"]} \cap Policies)
    /\ UNCHANGED <<tmp, file, after, left, seen, shielded, promised>>

\* Mutant: the snapshot that was read for comparison is what is returned.
ReadLkgReturned(p) ==
    /\ pc[p] = "readLkg"
    /\ IF file["lkg"] \in Policies
       THEN Goto(p, "loaded") /\ doc' = [doc EXCEPT ![p] = file["lkg"]]
       ELSE Goto(p, IF file["lkg"] = Bad THEN "mkstemp" ELSE "raised") /\ UNCHANGED doc
    /\ UNCHANGED <<tmp, file, after, left, history>>

\* Mutant: digests are not compared, only an invalid snapshot is refreshed.
ReadLkgUncompared(p) ==
    /\ pc[p] = "readLkg"
    /\ Goto(p, CASE file["lkg"] \in Policies -> "loaded"
                 [] file["lkg"] = Bad -> "mkstemp"
                 [] file["lkg"] = Raising -> "raised")
    /\ UNCHANGED <<doc, tmp, file, after, left, history>>

\* The snapshot is refreshed when it is invalid or its digest differs.  What
\* its reading raises besides is not caught here either.
ReadLkg(p) ==
    /\ pc[p] = "readLkg"
    /\ Goto(p, CASE file["lkg"] = doc[p] -> "loaded"
                 [] file["lkg"] = Raising -> "raised"
                 [] OTHER -> "mkstemp")
    /\ UNCHANGED <<doc, tmp, file, after, left, history>>

Fallback(p) ==
    /\ pc[p] = "fallback"
    /\ doc' = [doc EXCEPT ![p] = file["lkg"]]
    /\ Goto(p, CASE file["lkg"] \in Policies -> "recovered"
                 [] file["lkg"] = Bad -> "rejected"
                 [] file["lkg"] = Raising -> "raised")
    /\ UNCHANGED <<tmp, file, after, left, history>>

\* stat or read raises OSError, which _read_policy makes a PolicyValidationError:
\* the load goes on as with a Bad file.
ReadFails(p) ==
    /\ pc[p] \in {"readActive", "readLkg", "fallback"}
    /\ Spend("faults")
    /\ Goto(p, CASE pc[p] = "readActive" -> "fallback"
                 [] pc[p] = "readLkg" -> "mkstemp"
                 [] pc[p] = "fallback" -> "rejected")
    /\ IF pc[p] = "readActive" THEN seen' = [seen EXCEPT ![p] = @ \cup {Bad}] ELSE UNCHANGED seen
    /\ IF pc[p] = "fallback" THEN shielded' = [shielded EXCEPT ![p] = FALSE] ELSE UNCHANGED shielded
    /\ UNCHANGED <<doc, tmp, file, after, loaded, promised>>

-----------------------------------------------------------------------------
(* write_policy_atomic *)

StartCompile(p) ==
    /\ p \in Compilers
    /\ pc[p] = "idle"
    /\ Spend("activations")
    /\ \E v \in Policies : doc' = [doc EXCEPT ![p] = v]
    /\ Goto(p, "mkstemp")
    /\ UNCHANGED <<tmp, file, after, history>>

\* Mutant: the file is opened for writing in place, which empties it.
MakeTempInPlace(p) ==
    /\ pc[p] = "mkstemp"
    /\ doc[p] \notin Oversized
    /\ Goto(p, "write")
    /\ tmp' = [tmp EXCEPT ![p] = "empty"]
    /\ file' = [file EXCEPT ![Target(p)] = Bad]
    /\ UNCHANGED <<doc, after, left, history>>

\* The indented document is over MAX_POLICY_BYTES: a PolicyValidationError before
\* anything is written.
Oversizes(p) ==
    /\ pc[p] = "mkstemp"
    /\ doc[p] \in Oversized
    /\ Finish(p, FALSE)
    /\ UNCHANGED <<doc, tmp, file, after, left, seen, loaded, shielded>>

MakeTemp(p) ==
    /\ pc[p] = "mkstemp"
    /\ doc[p] \notin Oversized
    /\ Goto(p, "write")
    /\ tmp' = [tmp EXCEPT ![p] = "empty"]
    /\ UNCHANGED <<doc, file, after, left, history>>

\* Mutant: no fsync of the temporary file.
WriteTempUnsynced(p) ==
    /\ pc[p] = "write"
    /\ Goto(p, "replace")
    /\ UNCHANGED <<doc, tmp, file, after, left, history>>

\* write, flush and fsync of the temporary file
WriteTemp(p) ==
    /\ pc[p] = "write"
    /\ Goto(p, "replace")
    /\ tmp' = [tmp EXCEPT ![p] = "synced"]
    /\ UNCHANGED <<doc, file, after, left, history>>

\* What the name gives after a power loss: unsynced data may be lost.
Survivor(p) == IF tmp[p] = "synced" THEN doc[p] ELSE Bad

\* os.replace: readers see the new content at once; until the directory is
\* synced a power loss may bring back what the name had before.
Replace(p) ==
    /\ pc[p] = "replace"
    /\ file' = [file EXCEPT ![Target(p)] = doc[p]]
    /\ after' = [after EXCEPT ![Target(p)] = @ \cup {Survivor(p)}]
    /\ tmp' = [tmp EXCEPT ![p] = "none"]
    /\ Goto(p, "dirsync")
    /\ IF Target(p) = "active"
       THEN Watch(doc[p]) /\ promised' = Bad
       ELSE UNCHANGED <<seen, promised>>
    /\ UNCHANGED <<doc, left, loaded, shielded>>

\* Mutant: no fsync of the directory.
SyncDirectorySkipped(p) ==
    /\ pc[p] = "dirsync"
    /\ Finish(p, TRUE)
    /\ UNCHANGED <<doc, tmp, file, after, left, seen, loaded, shielded>>

\* Both files live in one directory: its fsync makes both entries durable.
SyncDirectory(p) ==
    /\ pc[p] = "dirsync"
    /\ after' = IF DirOpens THEN [f \in Files |-> {file[f]}] ELSE after
    /\ Finish(p, TRUE)
    /\ UNCHANGED <<doc, tmp, file, left, seen, loaded, shielded>>

\* A system call raises OSError: the finally clause removes the temporary file.
WriteFails(p) ==
    /\ pc[p] \in {"mkstemp", "write", "replace", "dirsync"}
    /\ pc[p] = "dirsync" => DirOpens
    /\ Spend("faults")
    /\ tmp' = [tmp EXCEPT ![p] = "none"]
    /\ Finish(p, FALSE)
    /\ UNCHANGED <<doc, file, after, seen, loaded, shielded>>

-----------------------------------------------------------------------------
(* The end of a process, and what surrounds it *)

\* The history of a load ends with it.
Forget(p) ==
    /\ doc' = [doc EXCEPT ![p] = Bad]
    /\ seen' = [q \in Loaders |-> IF q = p THEN {} ELSE seen[q]]
    /\ shielded' = [q \in Loaders |-> q # p /\ shielded[q]]

Exit(p) ==
    /\ pc[p] \in Returned
    /\ Goto(p, "idle")
    /\ Forget(p)
    /\ UNCHANGED <<tmp, file, after, left, loaded, promised>>

\* The harness kills a hook at its timeout; its temporary file stays.
Kill(p) ==
    /\ Running(p)
    /\ Spend("faults")
    /\ Goto(p, "idle")
    /\ Forget(p)
    /\ tmp' = [tmp EXCEPT ![p] = "none"]
    /\ UNCHANGED <<file, after, loaded, promised>>

\* Someone else edits the active file, well or badly, or damages the .lkg.
Edit(f, c) ==
    /\ f = "lkg" => c \in Unusable
    /\ c # file[f]
    /\ Spend("edits")
    /\ file' = [file EXCEPT ![f] = c]
    /\ after' = [after EXCEPT ![f] = @ \cup {c}]
    /\ IF f = "active"
       THEN Watch(c) /\ promised' = Bad /\ shielded' = shielded
       ELSE /\ shielded' = [p \in Loaders |-> FALSE]
            /\ UNCHANGED <<seen, promised>>
    /\ UNCHANGED <<pc, doc, tmp, loaded>>

\* Power is lost: every process dies, each file is one of its survivors.
PowerLoss ==
    /\ Spend("crashes")
    /\ \E a \in after["active"], l \in after["lkg"] :
          /\ file' = [f \in Files |-> IF f = "active" THEN a ELSE l]
    /\ after' = [f \in Files |-> {file'[f]}]
    /\ pc' = [p \in Procs |-> "idle"]
    /\ doc' = [p \in Procs |-> Bad]
    /\ tmp' = [p \in Procs |-> "none"]
    /\ seen' = [p \in Loaders |-> {}]
    /\ shielded' = [p \in Loaders |-> FALSE]
    /\ UNCHANGED <<loaded, promised>>

Step(p) ==
    \/ ReadActive(p) \/ ReadLkg(p) \/ Fallback(p)
    \/ Oversizes(p) \/ MakeTemp(p) \/ WriteTemp(p) \/ Replace(p) \/ SyncDirectory(p)
    \/ Exit(p)

External == PowerLoss \/ \E f \in Files, c \in Contents : Edit(f, c)

Next ==
    \/ \E p \in Procs : Step(p) \/ StartLoad(p) \/ StartCompile(p)
                        \/ ReadFails(p) \/ WriteFails(p) \/ Kill(p)
    \/ External

Spec == Init /\ [][Next]_vars

\* The operating system schedules every process it has started, and hooks
\* keep being invoked.
Fairness == \A p \in Procs : WF_vars(Step(p)) /\ WF_vars(StartLoad(p))
FairSpec == Spec /\ Fairness

-----------------------------------------------------------------------------
(* Properties *)

\* load_policy evaluates a bundle that was the active one at some instant of
\* the load, whatever was compiled or edited meanwhile (docs/runtime-policy.md,
\* load step 5).
LoadedWasActive == \A p \in Loaders : pc[p] = "loaded" => doc[p] \in seen[p] \cap Policies

\* A hook runs on the .lkg only if the active file was unusable at some instant
\* of its load, and then on a bundle that an earlier load had accepted from the
\* active file, never on one that was compiled and not yet used.
FallbackJustified ==
    \A p \in Loaders : pc[p] = "recovered" => Bad \in seen[p] /\ doc[p] \in loaded

\* A load that starts with a valid durable .lkg finds a bundle, whatever
\* compiles, refreshes, faults, kills and power losses do, unless the .lkg is
\* damaged or unreadable, or the active file is one on which the reading
\* raises what load_policy does not catch.
NoRejectionOnceShielded ==
    \A p \in Loaders : shielded[p] =>
        pc[p] # "rejected" /\ (pc[p] = "raised" => Raising \in seen[p])

Sound(f) == file[f] \in Policies /\ after[f] \subseteq Policies

\* A file that would survive a power loss whole keeps doing so: no step of the
\* program, no fault and no crash leaves it torn, missing or invalid.
NeverTorn ==
    [][\A f \in Files : Sound(f) /\ ~(\E c \in Contents : Edit(f, c)) => Sound(f)']_vars

\* After `policy compile` reports success its bundle is the active one, also
\* after a power loss, until another compile or edit replaces it.
DurableActivation ==
    (DirOpens /\ promised # Bad) => file["active"] = promised /\ after["active"] = {promised}

\* When the active bundle settles on one that can be written, the .lkg settles
\* on the same bundle: stale refreshes by slow hooks are repaired by later
\* loads.  A .lkg whose reading raises must have been removed for that.
LkgConverges ==
    \A v \in Policies \ Oversized :
        <>[](file["active"] = v /\ file["lkg"] # Raising) => <>[](file["lkg"] = v)
=============================================================================
