----------------------------- MODULE TraceState -----------------------------
(***************************************************************************)
(* The record that the trace registry keeps for one Codex session          *)
(* (trace_context.py), as values: a trace identity and, per known actor,   *)
(* its token and its parent.  Random identifiers are natural numbers drawn *)
(* in order, so that no number is drawn twice.                             *)
(***************************************************************************)
EXTENDS Naturals

CONSTANTS
    Actors,   \* the subagent ids that events carry
    Root,     \* ROOT_ACTOR_ID
    NoActor,  \* an absent actor id
    NoRecord, \* an actor the session does not know
    NoState   \* a session whose state file does not exist

ASSUME ActorsAssumption ==
    /\ Root \notin Actors
    /\ NoActor \notin Actors \cup {Root}
    /\ NoRecord \notin [token : Nat, parent : Actors \cup {Root, NoActor}]
ASSUME StateAssumption ==
    NoState \notin [trace : Nat, actors : [Actors \cup {Root} ->
                    [token : Nat, parent : Actors \cup {Root, NoActor}] \cup {NoRecord}]]

AllActors == Actors \cup {Root}
MaybeActor == AllActors \cup {NoActor}

ActorRecord == [token : Nat, parent : MaybeActor]
State == [trace : Nat, actors : [AllActors -> ActorRecord \cup {NoRecord}]]
Context == [trace : Nat, actor : AllActors, token : Nat, parent : MaybeActor]

Known(st) == {a \in AllActors : st.actors[a] # NoRecord}

\* _new_state: a fresh trace identity and the root actor, which has no parent.
NewState(id) ==
    [trace |-> id,
     actors |-> [a \in AllActors |->
                    IF a = Root THEN [token |-> id, parent |-> NoActor] ELSE NoRecord]]

\* Mutant: an event's parent is recorded although the session does not know it.
ParentUnchecked(st, parent) == IF parent = NoActor THEN Root ELSE parent

\* The parent an event names counts only if the session knows it.
ParentOf(st, parent) == IF parent \in Known(st) THEN parent ELSE Root

\* The update of register_subagent; it is idempotent.
Register(st, a, parent, id) ==
    IF a \in Known(st) THEN st
    ELSE [st EXCEPT !.actors[a] = [token |-> id, parent |-> ParentOf(st, parent)]]

\* get falls back to the root actor for an actor the session does not know.
Resolve(st, a) == IF a \in Known(st) THEN a ELSE Root

\* _context
ContextOf(st, a) ==
    [trace |-> st.trace, actor |-> a,
     token |-> st.actors[a].token, parent |-> st.actors[a].parent]

-----------------------------------------------------------------------------
\* Everything that old says is still said by new.
Extends(new, old) ==
    old # NoState =>
        /\ new.trace = old.trace
        /\ Known(old) \subseteq Known(new)
        /\ \A a \in Known(old) : new.actors[a] = old.actors[a]

\* Parents were there first: a chain of parents goes back in time and so ends
\* at the root actor, never in a cycle.
Rooted(st) ==
    /\ Root \in Known(st)
    /\ st.actors[Root].parent = NoActor
    /\ \A a \in Known(st) \ {Root} :
          LET up == st.actors[a].parent
          IN  up \in Known(st) /\ st.actors[up].token < st.actors[a].token
=============================================================================
