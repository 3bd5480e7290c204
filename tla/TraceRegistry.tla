--------------------------- MODULE TraceRegistry ---------------------------
(***************************************************************************)
(* TraceRegistry of trace_context.py: hook processes read and rewrite the  *)
(* session files of one directory under one advisory file lock.  A process *)
(* may be killed at any step (the harness does so at the hook timeout);    *)
(* the operating system then drops its lock.                               *)
(***************************************************************************)
EXTENDS TraceState, FiniteSets

CONSTANTS
    Procs,      \* hook processes
    Sessions,   \* Codex session ids
    NoCall,     \* no request
    Nobody,     \* the lock is free
    MaxCalls,   \* bound: calls made
    MaxFaults   \* bound: kills, failing system calls and damaged files

ASSUME NobodyAssumption == Nobody \notin Procs
ASSUME BoundsAssumption == MaxCalls \in Nat /\ MaxFaults \in Nat

VARIABLES
    pc,       \* where each process is
    req,      \* the request each process makes
    lock,     \* the holder of the flock on .lock
    state,    \* per session, the last record that was put in place
    damaged,  \* sessions whose file no longer holds that record
    mem,      \* the record a process has loaded and updated
    nextId,   \* the next random identifier
    calls,    \* calls left
    faults    \* faults left

\* History variable: every context that a call has returned.
VARIABLE told

vars == <<pc, req, lock, state, damaged, mem, nextId, calls, faults, told>>

PC == {"idle", "acquire", "load", "save", "replace", "unlock", "abort",
       "returned", "raised"}
Critical == {"load", "save", "replace", "unlock", "abort"}

Request == [op : {"get", "register"}, session : Sessions,
            actor : AllActors, parent : MaybeActor]

TypeOK ==
    /\ pc \in [Procs -> PC]
    /\ req \in [Procs -> Request \cup {NoCall}]
    /\ \A p \in Procs : pc[p] \in Critical \cup {"acquire"} => req[p] \in Request
    /\ lock \in Procs \cup {Nobody}
    /\ state \in [Sessions -> State \cup {NoState}]
    /\ damaged \in SUBSET Sessions
    /\ mem \in [Procs -> State \cup {NoState}]
    /\ nextId \in Nat /\ calls \in Nat /\ faults \in Nat
    /\ told \in SUBSET [session : Sessions, context : Context]

Init ==
    /\ pc = [p \in Procs |-> "idle"]
    /\ req = [p \in Procs |-> NoCall]
    /\ lock = Nobody
    /\ state = [s \in Sessions |-> NoState]
    /\ damaged = {}
    /\ mem = [p \in Procs |-> NoState]
    /\ nextId = 0
    /\ calls = MaxCalls
    /\ faults = MaxFaults
    /\ told = {}

Goto(p, to) == pc' = [pc EXCEPT ![p] = to]

Fault == faults > 0 /\ faults' = faults - 1

\* Mutant: one random identifier serves the trace and the new actor.
UpdatedWithOneId(r, old) ==
    LET st == IF old = NoState THEN NewState(nextId) ELSE old
    IN  IF r.op = "register" THEN Register(st, r.actor, r.parent, nextId) ELSE st

\* The record a request leads to, from the one its session has: a first use
\* draws a trace identity, a registration draws an actor token.
Updated(r, old) ==
    LET st == IF old = NoState THEN NewState(nextId) ELSE old
    IN  IF r.op = "register" THEN Register(st, r.actor, r.parent, nextId + 1) ELSE st

\* The context that the call on record st returns.
Answer(r, st) == ContextOf(st, Resolve(st, r.actor))

-----------------------------------------------------------------------------

\* Mutant: an event without ids is not rejected before the registry is used.
CallUnvalidated(p) ==
    /\ pc[p] = "idle"
    /\ calls > 0
    /\ calls' = calls - 1
    /\ Goto(p, "acquire")
    /\ \E r \in Request \cup {NoCall} : req' = [req EXCEPT ![p] = r]
    /\ UNCHANGED <<lock, state, damaged, mem, nextId, faults, told>>

\* A hook calls get or register_subagent.  An event without the ids they need
\* raises before anything is locked.
Call(p) ==
    /\ pc[p] = "idle"
    /\ calls > 0
    /\ calls' = calls - 1
    /\ \/ /\ \E r \in Request :
                /\ r.op = "get" => r.parent = NoActor
                /\ req' = [req EXCEPT ![p] = r]
          /\ Goto(p, "acquire")
       \/ Goto(p, "raised") /\ req' = req
    /\ UNCHANGED <<lock, state, damaged, mem, nextId, faults, told>>

\* Mutant: the lock is not exclusive.
AcquireShared(p) ==
    /\ pc[p] = "acquire"
    /\ lock' = p
    /\ Goto(p, "load")
    /\ UNCHANGED <<req, state, damaged, mem, nextId, calls, faults, told>>

\* flock(LOCK_EX) returns
Acquire(p) ==
    /\ pc[p] = "acquire"
    /\ lock = Nobody
    /\ lock' = p
    /\ Goto(p, "load")
    /\ UNCHANGED <<req, state, damaged, mem, nextId, calls, faults, told>>

\* Mutant: a file that does not parse counts as a session not seen before.
LoadForgiving(p) ==
    /\ pc[p] = "load"
    /\ LET s == req[p].session
       IN  mem' = [mem EXCEPT ![p] = Updated(req[p], IF s \in damaged THEN NoState ELSE state[s])]
    /\ nextId' = nextId + 2
    /\ Goto(p, "save")
    /\ UNCHANGED <<req, lock, state, damaged, calls, faults, told>>

\* _load and the update of the loaded record; a file that does not parse, or
\* is not of this session and schema, raises.
Load(p) ==
    /\ pc[p] = "load"
    /\ IF req[p].session \in damaged
       THEN Goto(p, "abort") /\ UNCHANGED <<mem, nextId>>
       ELSE /\ mem' = [mem EXCEPT ![p] = Updated(req[p], state[req[p].session])]
            /\ nextId' = nextId + 2
            /\ Goto(p, "save")
    /\ UNCHANGED <<req, lock, state, damaged, calls, faults, told>>

\* _save writes the temporary file
Save(p) ==
    /\ pc[p] = "save"
    /\ Goto(p, "replace")
    /\ UNCHANGED <<req, lock, state, damaged, mem, nextId, calls, faults, told>>

\* _save renames it over the session file, whatever that file holds by then
Replace(p) ==
    /\ pc[p] = "replace"
    /\ state' = [state EXCEPT ![req[p].session] = mem[p]]
    /\ damaged' = damaged \ {req[p].session}
    /\ Goto(p, "unlock")
    /\ UNCHANGED <<req, lock, mem, nextId, calls, faults, told>>

\* The context manager unlocks and the call returns its context ...
Unlock(p) ==
    /\ pc[p] = "unlock"
    /\ lock' = Nobody
    /\ told' = told \cup {[session |-> req[p].session, context |-> Answer(req[p], mem[p])]}
    /\ Goto(p, "returned")
    /\ UNCHANGED <<req, state, damaged, mem, nextId, calls, faults>>

\* Mutant: the exception skips the unlock and the process lives on.
AbortHoldingLock(p) ==
    /\ pc[p] = "abort"
    /\ Goto(p, "raised")
    /\ UNCHANGED <<req, lock, state, damaged, mem, nextId, calls, faults, told>>

\* ... or lets the exception through.
Abort(p) ==
    /\ pc[p] = "abort"
    /\ lock' = Nobody
    /\ Goto(p, "raised")
    /\ UNCHANGED <<req, state, damaged, mem, nextId, calls, faults, told>>

\* The lock file cannot be opened: nothing is locked yet.
OpenFails(p) ==
    /\ pc[p] = "acquire"
    /\ Fault
    /\ Goto(p, "raised")
    /\ UNCHANGED <<req, lock, state, damaged, mem, nextId, calls, told>>

\* Reading or writing raises OSError; _save removes its temporary file.
IOFails(p) ==
    /\ pc[p] \in {"load", "save", "replace"}
    /\ Fault
    /\ Goto(p, "abort")
    /\ UNCHANGED <<req, lock, state, damaged, mem, nextId, calls, told>>

Forget(p) ==
    /\ Goto(p, "idle")
    /\ req' = [req EXCEPT ![p] = NoCall]
    /\ mem' = [mem EXCEPT ![p] = NoState]

\* The process goes on with its event and exits.
Exit(p) ==
    /\ pc[p] \in {"returned", "raised"}
    /\ Forget(p)
    /\ UNCHANGED <<lock, state, damaged, nextId, calls, faults, told>>

Kill(p) ==
    /\ pc[p] \in Critical \cup {"acquire"}
    /\ Fault
    /\ Forget(p)
    /\ lock' = IF lock = p THEN Nobody ELSE lock
    /\ UNCHANGED <<state, damaged, nextId, calls, told>>

\* Something else overwrites a session file with what _load rejects.
Damage(s) ==
    /\ state[s] # NoState
    /\ s \notin damaged
    /\ Fault
    /\ damaged' = damaged \cup {s}
    /\ UNCHANGED <<pc, req, lock, state, mem, nextId, calls, told>>

Step(p) ==
    \/ Acquire(p) \/ Load(p) \/ Save(p) \/ Replace(p)
    \/ Unlock(p) \/ Abort(p) \/ Exit(p)

Next ==
    \/ \E p \in Procs : Step(p) \/ Call(p) \/ OpenFails(p) \/ IOFails(p) \/ Kill(p)
    \/ \E s \in Sessions : Damage(s)

Spec == Init /\ [][Next]_vars

\* The operating system runs every process, and hands a free lock to a waiter.
Fairness == \A p \in Procs : WF_vars(Step(p))
FairSpec == Spec /\ Fairness

-----------------------------------------------------------------------------
(* Properties *)

\* No two processes are between flock and unlock.
MutualExclusion ==
    \A p, q \in Procs : pc[p] \in Critical /\ pc[q] \in Critical => p = q

\* Whatever identity a call has returned, the session still records: the trace
\* of a session and the token and parent of an actor never change, and no
\* registration is lost to a concurrent, failed or killed update
\* (docs/trace-propagation.md, "Stable public correlation identifier").
IdentityStable ==
    \A c \in told :
        LET st == state[c.session]
        IN  /\ st # NoState
            /\ c.context.actor \in Known(st)
            /\ c.context = ContextOf(st, c.context.actor)

\* Two actors never share a token, and two sessions never share a trace.
TokensDistinct ==
    /\ \A s, t \in Sessions :
          (state[s] # NoState /\ state[t] # NoState /\ state[s].trace = state[t].trace) => s = t
    /\ \A c, d \in told : c.context.token = d.context.token => c = d

\* Parents lead to the root actor: no actor descends from itself, whatever
\* parent the events name.
LineageRooted == \A s \in Sessions : state[s] # NoState => Rooted(state[s])

\* Every call ends; a failed or killed one does not leave the others waiting.
EveryCallEnds == \A p \in Procs : pc[p] # "idle" ~> pc[p] = "idle"

\* The registry implements its promise: each call takes effect at its rename.
Identity == INSTANCE TraceIdentity WITH
    registry <- state,
    call <- req,
    phase <- [p \in Procs |->
                CASE pc[p] = "idle" -> "idle"
                  [] pc[p] \in {"acquire", "load", "save", "replace"} -> "called"
                  [] pc[p] \in {"unlock", "returned"} -> "served"
                  [] pc[p] \in {"abort", "raised"} -> "failed"]

ImplementsIdentity == Identity!Spec
=============================================================================
