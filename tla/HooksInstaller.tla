--------------------------- MODULE HooksInstaller ---------------------------
(***************************************************************************)
(* `install` and `uninstall` of the command line (cli.py): each run reads  *)
(* hooks.json, computes a new document, copies the file to a backup and    *)
(* renames a temporary file over it.  Nothing locks the file: other runs,  *)
(* the harness and the user may write it between any two of these steps.   *)
(*                                                                         *)
(* A document gives each lifecycle event its groups of handlers, and a     *)
(* group is known by who made it: a run of the tool or the user.  A group  *)
(* without handlers is no group, as install and uninstall drop it; its     *)
(* matcher, its other fields and the order of the groups are left out:     *)
(* they are copied.                                                        *)
(***************************************************************************)
EXTENDS Naturals

CONSTANTS
    Tools,      \* runs of `install` and `uninstall`
    UserGroups, \* groups of handlers that something else wrote
    Events,     \* lifecycle events that hooks.json may name
    Managed,    \* MANAGED_EVENTS
    Foreign,    \* handlers of other programs
    Ours,       \* handlers that run a .agent-runtime-security/codex_hook.py
    Current,    \* the handler that this installation writes
    NotAList,   \* the value of an event that is not a list
    Absent,     \* there is no hooks.json
    Null,       \* it holds null
    Broken,     \* it is unreadable, not JSON or neither of an object and null
    NoEvents,   \* an object whose field "hooks" is not an object
    UserFiles,  \* what the user may put in place
    MaxEdits,   \* bound: writes by the user
    MaxFaults   \* bound: failing system calls and killed runs

Groups == Tools \cup UserGroups
Handlers == Foreign \cup Ours

\* A run of the tool never puts a foreign handler into a group of its own.
Entries == {f \in [Groups -> SUBSET Handlers] : \A t \in Tools : f[t] \subseteq Ours}
Documents == [Events -> Entries \cup {NotAList}]
User == "user"
Contents == Documents \cup {Absent, Null, Broken, NoEvents}

ASSUME HandlersAssumption == Foreign \cap Ours = {} /\ Current \in Ours
ASSUME EventsAssumption == Managed \subseteq Events
ASSUME GroupsAssumption == Tools \cap UserGroups = {}
ASSUME NotAListAssumption == NotAList \notin Entries
ASSUME ContentsAssumption ==
    /\ {Absent, Null, Broken, NoEvents} \cap Documents = {}
    /\ Absent \notin {Null, Broken, NoEvents}
    /\ Null # Broken /\ Null # NoEvents /\ Broken # NoEvents
ASSUME UserFilesAssumption == UserFiles \subseteq Contents
ASSUME UserAssumption == User \notin Tools
ASSUME BoundsAssumption == MaxEdits \in Nat /\ MaxFaults \in Nat

VARIABLES
    pc,       \* where each run is
    op,       \* what it was asked to do
    doc,      \* the content it read, then the document it will write
    file,     \* hooks.json
    temps,    \* runs whose temporary file exists
    edits,    \* writes left to the user
    faults    \* faults left

\* History variables: no action reads them.
VARIABLES
    version,  \* writes of hooks.json so far
    writer,   \* who wrote it last
    readAt,   \* per run, the version it read
    savedAt,  \* per run, the version at the time of its backup
    backups   \* the backups: pairs of a version and its content

run == <<pc, op, doc>>
history == <<version, writer, readAt, savedAt, backups>>
vars == <<pc, op, doc, file, temps, edits, faults,
          version, writer, readAt, savedAt, backups>>

Operations == {"install", "uninstall", "dry run"}
Running == {"read", "backup", "mkstemp", "write", "replace"}

TypeOK ==
    /\ pc \in [Tools -> Running \cup {"idle", "done", "failed", "killed"}]
    /\ op \in [Tools -> Operations]
    /\ doc \in [Tools -> Contents]
    /\ file \in Contents
    /\ temps \subseteq Tools
    /\ edits \in Nat /\ faults \in Nat
    /\ version \in Nat
    /\ writer \in Tools \cup {User}
    /\ readAt \in [Tools -> Nat]
    /\ savedAt \in [Tools -> Nat]
    /\ backups \subseteq Nat \X Contents

Init ==
    /\ pc = [t \in Tools |-> "idle"]
    /\ op \in [Tools -> Operations]
    /\ doc = [t \in Tools |-> Absent]
    /\ file \in UserFiles
    /\ temps = {}
    /\ edits = MaxEdits /\ faults = MaxFaults
    /\ version = 0 /\ writer = User
    /\ readAt = [t \in Tools |-> 0]
    /\ savedAt = [t \in Tools |-> 0]
    /\ backups = {}

-----------------------------------------------------------------------------
(* Documents *)

Nothing == [e \in Events |-> [g \in Groups |-> {}]]

\* Mutant: a group that holds one of our handlers is dropped as a whole.
StrippedByGroup(d) ==
    [e \in Events |->
        IF d[e] = NotAList THEN NotAList
        ELSE [g \in Groups |-> IF d[e][g] \cap Ours = {} THEN d[e][g] ELSE {}]]

\* _remove_agent_runtime_security_groups: our handlers go, from all events
\* and groups; values that are not lists stay as they are.
Stripped(d) ==
    [e \in Events |->
        IF d[e] = NotAList THEN NotAList
        ELSE [g \in Groups |-> d[e][g] \ Ours]]

\* Without a file, or with null in it, the installation starts from nothing.
Installable(c) ==
    \/ c \in {Absent, Null}
    \/ c \in Documents /\ \A e \in Managed : c[e] # NotAList

\* Mutant: handlers of an earlier installation stay.
MergedUnstripped(c, t) ==
    LET d == IF c \in {Absent, Null} THEN Nothing ELSE c
    IN  [e \in Events |-> IF e \in Managed THEN [d[e] EXCEPT ![t] = {Current}] ELSE d[e]]

\* _merged_hooks: one new group for each managed event.
Merged(c, t) ==
    LET d == Stripped(IF c \in {Absent, Null} THEN Nothing ELSE c)
    IN  [e \in Events |-> IF e \in Managed THEN [d[e] EXCEPT ![t] = {Current}] ELSE d[e]]

\* _hook_checks of doctor: each managed event has a handler of ours.
DoctorPasses(c) ==
    /\ c \in Documents
    /\ \A e \in Managed : c[e] # NotAList /\ \E g \in Groups : c[e][g] \cap Ours # {}

-----------------------------------------------------------------------------
(* Runs of the tool *)

Goto(t, to) == pc' = [pc EXCEPT ![t] = to]

Start(t) ==
    /\ pc[t] = "idle"
    /\ Goto(t, "read")
    /\ UNCHANGED <<op, doc, file, temps, edits, faults, history>>

\* What command_install or command_uninstall does after it read the content c:
\* "failed" for a CliError, "done" where there is nothing to write.
AfterRead(o, c) ==
    CASE c = Broken -> "failed"
      [] o # "uninstall" /\ ~Installable(c) -> "failed"
      [] o = "uninstall" /\ c = Null -> "failed"
      [] o = "install" /\ Installable(c) -> "backup"
      [] o = "dry run" /\ Installable(c) -> "done"
      [] o = "uninstall" /\ c \in Documents /\ Stripped(c) # c -> "backup"
      [] OTHER -> "done"

\* path.exists and _read_json, then the new document.  A file that vanishes
\* between the two calls is one of the faults.
Read(t) ==
    /\ pc[t] = "read"
    /\ Goto(t, AfterRead(op[t], file))
    /\ doc' = [doc EXCEPT ![t] =
                 IF AfterRead(op[t], file) # "backup" THEN file
                 ELSE IF op[t] = "install" THEN Merged(file, t)
                 ELSE Stripped(file)]
    /\ readAt' = [readAt EXCEPT ![t] = version]
    /\ UNCHANGED <<op, file, temps, edits, faults, version, writer, savedAt, backups>>

\* _atomic_json: copy2 of the file as it is now, if there is one.
Backup(t) ==
    /\ pc[t] = "backup"
    /\ Goto(t, "mkstemp")
    /\ savedAt' = [savedAt EXCEPT ![t] = version]
    /\ backups' = IF file = Absent THEN backups ELSE backups \cup {<<version, file>>}
    /\ UNCHANGED <<op, doc, file, temps, edits, faults, version, writer, readAt>>

MakeTemp(t) ==
    /\ pc[t] = "mkstemp"
    /\ Goto(t, "write")
    /\ temps' = temps \cup {t}
    /\ UNCHANGED <<op, doc, file, edits, faults, history>>

\* json.dump, fsync and chmod of the temporary file.
Write(t) ==
    /\ pc[t] = "write"
    /\ Goto(t, "replace")
    /\ UNCHANGED <<op, doc, file, temps, edits, faults, history>>

Replace(t) ==
    /\ pc[t] = "replace"
    /\ Goto(t, "done")
    /\ file' = doc[t]
    /\ temps' = temps \ {t}
    /\ version' = version + 1
    /\ writer' = t
    /\ UNCHANGED <<op, doc, edits, faults, readAt, savedAt, backups>>

\* Any system call of the run raises an OSError: the finally clause removes
\* the temporary file, and main reports the error.
Fail(t) ==
    /\ pc[t] \in Running
    /\ faults > 0 /\ faults' = faults - 1
    /\ Goto(t, "failed")
    /\ temps' = temps \ {t}
    /\ UNCHANGED <<op, doc, file, edits, history>>

-----------------------------------------------------------------------------
(* The environment *)

Kill(t) ==
    /\ pc[t] \in Running
    /\ faults > 0 /\ faults' = faults - 1
    /\ Goto(t, "killed")
    /\ UNCHANGED <<op, doc, file, temps, edits, history>>

\* The user, or a program the user runs, replaces or removes the file.
Edit ==
    /\ edits > 0 /\ edits' = edits - 1
    /\ file' \in UserFiles \ {file}
    /\ version' = version + 1
    /\ writer' = User
    /\ UNCHANGED <<run, temps, faults, readAt, savedAt, backups>>

Next ==
    \/ \E t \in Tools :
          \/ Start(t) \/ Read(t) \/ Backup(t) \/ MakeTemp(t) \/ Write(t)
          \/ Replace(t) \/ Fail(t) \/ Kill(t)
    \/ Edit

Spec == Init /\ [][Next]_vars

-----------------------------------------------------------------------------
(* Properties *)

\* What the program may not touch: the handlers of others, group by group,
\* and the values that are no lists.
ForeignPart(c) ==
    [e \in Events |->
        IF c \notin Documents THEN [g \in Groups |-> {}]
        ELSE IF c[e] = NotAList THEN NotAList
        ELSE [g \in Groups |-> c[e][g] \cap Foreign]]

\* docs/cli.md: "Existing non-Agent Runtime Security handlers are preserved"
\* and "An existing file is copied [...] before replacement".  The code holds
\* a copy across unlocked steps, so what it can promise is this: a
\* replacement takes a foreign handler away, or adds one, only if the file
\* was written since the run read it, and even then the replaced content is
\* in a backup unless it was written after the backup was made.
ReplacementsAccounted ==
    [][\A t \in Tools :
          pc[t] = "replace" /\ pc'[t] = "done" =>
             /\ version = readAt[t] => ForeignPart(file') = ForeignPart(file)
             /\ \/ file = Absent
                \/ <<version, file>> \in backups
                \/ version > savedAt[t]]_vars

\* Each managed event has the current handler once; no other one is ours.
Installed(d) ==
    /\ DoctorPasses(d)
    /\ \A e \in Events : d[e] # NotAList =>
          \A g, h \in Groups :
             d[e][g] \cap Ours # {} /\ d[e][h] \cap Ours # {} =>
                g = h /\ e \in Managed /\ d[e][g] = {Current}

\* docs/cli.md: "Repeated installation is idempotent", ADR-0018: reversible.
\* Whatever was there, whoever else runs and wherever runs fail or are
\* killed, a file that an install wrote is one complete installation, which
\* doctor accepts, and one that an uninstall wrote has nothing left of any.
WholeInstallation ==
    writer \in Tools =>
        /\ file \in Documents
        /\ \/ op[writer] = "install" /\ Installed(file)
           \/ op[writer] = "uninstall" /\ Stripped(file) = file

\* Temporary files: only a run that was killed leaves its own behind, however
\* it ends otherwise.
OnlyKillsLitter ==
    \A t \in temps : pc[t] \in {"write", "replace", "killed"}
=============================================================================
