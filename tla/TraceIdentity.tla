--------------------------- MODULE TraceIdentity ---------------------------
(***************************************************************************)
(* What the trace registry promises to the hook processes that share it:   *)
(* each call is served at one instant, against a registry that only grows. *)
(* There is no lock and no file here.                                      *)
(***************************************************************************)
EXTENDS TraceState

CONSTANTS Procs, Sessions, NoCall

VARIABLES
    registry,  \* per session, its record or NoState
    call,      \* per process, the request it makes or NoCall
    phase      \* per process: "idle", "called", "served" or "failed"

vars == <<registry, call, phase>>

Request == [op : {"get", "register"}, session : Sessions,
            actor : AllActors, parent : MaybeActor]

Init ==
    /\ registry = [s \in Sessions |-> NoState]
    /\ call = [p \in Procs |-> NoCall]
    /\ phase = [p \in Procs |-> "idle"]

Call(p, r) ==
    /\ phase[p] = "idle"
    /\ phase' = [phase EXCEPT ![p] = "called"]
    /\ call' = [call EXCEPT ![p] = r]
    /\ UNCHANGED registry

\* An event without the ids that its call needs.
Reject(p) ==
    /\ phase[p] = "idle"
    /\ phase' = [phase EXCEPT ![p] = "failed"]
    /\ UNCHANGED <<registry, call>>

\* What serving a request may add to the record of its session.
Admits(r) == {Root} \cup IF r.op = "register" THEN {r.actor} ELSE {}

Serve(p) ==
    LET r == call[p]
        old == registry[r.session]
        new == registry'[r.session]
    IN  /\ phase[p] = "called"
        /\ phase' = [phase EXCEPT ![p] = "served"]
        /\ new # NoState
        /\ Extends(new, old)
        /\ Rooted(new)
        /\ Known(new) = Admits(r) \cup IF old = NoState THEN {} ELSE Known(old)
        /\ registry' = [registry EXCEPT ![r.session] = new]
        /\ UNCHANGED call

Fail(p) ==
    /\ phase[p] = "called"
    /\ phase' = [phase EXCEPT ![p] = "failed"]
    /\ UNCHANGED <<registry, call>>

\* The call returns, raises, or its process is killed.
End(p) ==
    /\ phase[p] # "idle"
    /\ phase' = [phase EXCEPT ![p] = "idle"]
    /\ call' = [call EXCEPT ![p] = NoCall]
    /\ UNCHANGED registry

Next ==
    \E p \in Procs :
        \/ \E r \in Request : Call(p, r)
        \/ Reject(p)
        \/ Serve(p)
        \/ Fail(p)
        \/ End(p)

Spec == Init /\ [][Next]_vars
=============================================================================
