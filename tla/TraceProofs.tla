---------------------------- MODULE TraceProofs ----------------------------
(***************************************************************************)
(* Theorems about TraceRegistry and ActionCorrelation, for any number of   *)
(* processes, sessions, calls, turns and subagents and commands of any     *)
(* length, and their TLAPS proofs.                                         *)
(***************************************************************************)
EXTENDS TraceRegistry, ActionCorrelation, SequenceTheorems, TLAPS

(* Lemmas about the operators on trace records *)

\* Identifiers are drawn in order: n has not been drawn yet.
TokensBelow(st, n) == \A a \in Known(st) : st.actors[a].token < n

\* A new session has just its root actor.
LEMMA NewStateFacts ==
  ASSUME NEW id \in Nat
  PROVE  /\ NewState(id) \in State
         /\ Known(NewState(id)) = {Root}
         /\ Rooted(NewState(id))
         /\ TokensBelow(NewState(id), id + 1)
<1> DEFINE st == NewState(id)
<1>1. st \in State
  BY DEF NewState, State, ActorRecord, MaybeActor, AllActors
<1>2. st.actors[Root] = [token |-> id, parent |-> NoActor]
  BY DEF NewState, AllActors
<1>3. st.actors[Root] # NoRecord
  BY <1>2, ActorsAssumption
<1>4. \A a \in AllActors \ {Root} : st.actors[a] = NoRecord
  BY DEF NewState
<1>5. Known(st) = {Root}
  BY <1>3, <1>4 DEF Known, AllActors
<1>6. QED
  BY <1>1, <1>2, <1>5 DEF Rooted, TokensBelow

\* A registration adds one actor with a fresh token below a known parent.
LEMMA RegisterFacts ==
  ASSUME NEW st \in State, Rooted(st), NEW id \in Nat, TokensBelow(st, id),
         NEW a \in AllActors, NEW parent \in MaybeActor
  PROVE  LET new == Register(st, a, parent, id)
         IN  /\ new \in State
             /\ Extends(new, st)
             /\ Known(new) = Known(st) \cup {a}
             /\ Rooted(new)
             /\ TokensBelow(new, id + 1)
<1> DEFINE new == Register(st, a, parent, id)
           rec == [token |-> id, parent |-> ParentOf(st, parent)]
<1>0. \A b \in Known(st) : st.actors[b] \in ActorRecord
  BY DEF State, Known
<1>1. CASE a \in Known(st)
  <2>1. new = st
    BY <1>1 DEF Register
  <2>2. Known(new) = Known(st) \cup {a}
    BY <1>1, <2>1
  <2>3. TokensBelow(new, id + 1)
    BY <2>1, <1>0 DEF TokensBelow, ActorRecord
  <2>4. QED
    BY <2>1, <2>2, <2>3 DEF Extends
<1>2. CASE a \notin Known(st)
  <2>1. new = [st EXCEPT !.actors[a] = rec]
    BY <1>2 DEF Register
  <2>2. ParentOf(st, parent) \in Known(st)
    BY DEF ParentOf, Rooted
  <2>3. rec \in ActorRecord /\ rec # NoRecord
    BY <2>2, ActorsAssumption DEF ActorRecord, Known, MaybeActor, AllActors
  <2>4. /\ new \in State
        /\ new.trace = st.trace
        /\ new.actors[a] = rec
        /\ \A b \in AllActors \ {a} : new.actors[b] = st.actors[b]
    BY <2>1, <2>3 DEF State
  <2>5. Known(new) = Known(st) \cup {a}
    BY <2>3, <2>4 DEF Known
  <2>6. \A b \in Known(st) : b # a /\ b \in AllActors /\ new.actors[b] = st.actors[b]
    BY <1>2, <2>4 DEF Known
  <2>7. Extends(new, st)
    BY <2>4, <2>5, <2>6 DEF Extends
  <2>8. TokensBelow(new, id + 1)
    <3>1. \A b \in Known(st) : new.actors[b].token < id + 1
      BY <1>0, <2>6 DEF TokensBelow, ActorRecord
    <3>2. new.actors[a].token < id + 1
      BY <2>4
    <3>3. QED
      BY <2>5, <3>1, <3>2 DEF TokensBelow
  <2>9. Rooted(new)
    <3>1. Root \in Known(new) /\ new.actors[Root].parent = NoActor
      BY <2>5, <2>6 DEF Rooted
    <3>2. ASSUME NEW b \in Known(st) \ {Root}
          PROVE  /\ new.actors[b].parent \in Known(new)
                 /\ new.actors[new.actors[b].parent].token < new.actors[b].token
      <4>1. new.actors[b] = st.actors[b] /\ st.actors[b].parent \in Known(st)
        BY <2>6, <3>2 DEF Rooted
      <4>2. new.actors[st.actors[b].parent] = st.actors[st.actors[b].parent]
        BY <2>6, <4>1
      <4>3. QED
        BY <2>5, <3>2, <4>1, <4>2 DEF Rooted
    <3>3. /\ new.actors[a].parent \in Known(new)
          /\ new.actors[new.actors[a].parent].token < new.actors[a].token
      <4>1. new.actors[a].parent = ParentOf(st, parent) /\ new.actors[a].token = id
        BY <2>4
      <4>2. new.actors[ParentOf(st, parent)] = st.actors[ParentOf(st, parent)]
        BY <2>2, <2>6
      <4>3. QED
        BY <2>2, <2>5, <4>1, <4>2 DEF TokensBelow
    <3>4. QED
      BY <2>5, <3>1, <3>2, <3>3 DEF Rooted
  <2>10. QED
    BY <2>4, <2>5, <2>7, <2>8, <2>9
<1>3. QED
  BY <1>1, <1>2

LEMMA TokensBelowUp ==
  ASSUME NEW st \in State, NEW m \in Nat, NEW n \in Nat, m =< n, TokensBelow(st, m)
  PROVE  TokensBelow(st, n)
<1>1. \A a \in Known(st) : st.actors[a].token \in Nat
  BY DEF State, Known, ActorRecord
<1>2. QED
  BY <1>1 DEF TokensBelow

LEMMA ExtendsItself == \A st \in State : Extends(st, st)
BY DEF Extends

\* Apart from the new actor's token a registration changes nothing.
LEMMA RegisterTokens ==
  ASSUME NEW st \in State, Root \in Known(st), NEW id \in Nat,
         NEW a \in AllActors, NEW parent \in MaybeActor
  PROVE  LET new == Register(st, a, parent, id)
         IN  /\ new.trace = st.trace
             /\ new.actors[Root] = st.actors[Root]
             /\ \A b \in Known(new) :
                   \/ b \in Known(st) /\ new.actors[b] = st.actors[b]
                   \/ b = a /\ a \notin Known(st) /\ new.actors[b].token = id
<1> DEFINE new == Register(st, a, parent, id)
           rec == [token |-> id, parent |-> ParentOf(st, parent)]
<1>1. CASE a \in Known(st)
  BY <1>1 DEF Register
<1>2. CASE a \notin Known(st)
  <2>1. new = [st EXCEPT !.actors[a] = rec]
    BY <1>2 DEF Register
  <2>2. /\ new.trace = st.trace
        /\ new.actors[a] = rec
        /\ \A b \in AllActors \ {a} : new.actors[b] = st.actors[b]
    BY <2>1 DEF State
  <2>3. QED
    BY <1>2, <2>2 DEF Known
<1>3. QED
  BY <1>1, <1>2

-----------------------------------------------------------------------------
(* The inductive invariant *)

\* A process in the critical section holds the lock.
HoldsLock == \A p \in Procs : pc[p] \in Critical => lock = p

\* The stored records are well formed.
StatesRooted ==
    \A s \in Sessions : state[s] # NoState => Rooted(state[s]) /\ TokensBelow(state[s], nextId)

\* What requests may add to a session: the root actor and a registered actor.
Added(r) == {Root} \cup IF r.op = "register" THEN {r.actor} ELSE {}

\* new is a record that serving r may lead to from old.
Serves(r, new, old) ==
    /\ new \in State
    /\ Extends(new, old)
    /\ Rooted(new)
    /\ TokensBelow(new, nextId)
    /\ Known(new) = Added(r) \cup IF old = NoState THEN {} ELSE Known(old)

\* A process that is about to save has a record that serves its request from
\* the one its session still has.
PreparedFromCurrent ==
    \A p \in Procs :
        pc[p] \in {"save", "replace"} => Serves(req[p], mem[p], state[req[p].session])

\* A process about to return has put its record in place.
Placed == \A p \in Procs : pc[p] = "unlock" => state[req[p].session] = mem[p]

\* ... and that record exists.
SavedKnown == \A p \in Procs : pc[p] = "unlock" => mem[p] # NoState

Inv ==
    /\ TypeOK
    /\ HoldsLock
    /\ StatesRooted
    /\ PreparedFromCurrent
    /\ Placed
    /\ SavedKnown
    /\ IdentityStable

-----------------------------------------------------------------------------
(* What requests do to records *)

\* What _load and the update of the record produce serves the request.
LEMMA UpdatedFacts ==
  ASSUME NEW r \in Request, NEW old \in State \cup {NoState}, nextId \in Nat,
         old # NoState => Rooted(old) /\ TokensBelow(old, nextId)
  PROVE  LET new == Updated(r, old)
         IN  /\ new \in State
             /\ Extends(new, old)
             /\ Rooted(new)
             /\ TokensBelow(new, nextId + 2)
             /\ Known(new) = Added(r) \cup IF old = NoState THEN {} ELSE Known(old)
<1> DEFINE st == IF old = NoState THEN NewState(nextId) ELSE old
           new == Updated(r, old)
<1>0. r.actor \in AllActors /\ r.parent \in MaybeActor
  BY DEF Request
<1>1. /\ st \in State
      /\ Extends(st, old)
      /\ Rooted(st)
      /\ TokensBelow(st, nextId + 1)
      /\ Known(st) = {Root} \cup IF old = NoState THEN {} ELSE Known(old)
  <2>1. CASE old = NoState
    BY <2>1, NewStateFacts DEF Extends
  <2>2. CASE old # NoState
    <3>1. TokensBelow(old, nextId + 1)
      BY <2>2, TokensBelowUp
    <3>2. Root \in Known(old)
      BY <2>2 DEF Rooted
    <3>3. QED
      BY <2>2, <3>1, <3>2, ExtendsItself
  <2>3. QED
    BY <2>1, <2>2
<1>2. CASE r.op = "register"
  <2>1. new = Register(st, r.actor, r.parent, nextId + 1)
    BY <1>2 DEF Updated
  <2>2. /\ new \in State
        /\ Extends(new, st)
        /\ Known(new) = Known(st) \cup {r.actor}
        /\ Rooted(new)
        /\ TokensBelow(new, (nextId + 1) + 1)
    BY <1>0, <1>1, <2>1, RegisterFacts
  <2>3. Extends(new, old)
    <3>1. CASE old = NoState
      BY <3>1 DEF Extends
    <3>2. CASE old # NoState
      BY <2>2, <3>2, StateAssumption DEF Extends
    <3>3. QED
      BY <3>1, <3>2
  <2>4. TokensBelow(new, nextId + 2)
    BY <2>2, (nextId + 1) + 1 = nextId + 2
  <2>5. QED
    BY <1>1, <1>2, <2>2, <2>3, <2>4 DEF Added
<1>3. CASE r.op # "register"
  <2>1. new = st
    BY <1>3 DEF Updated
  <2>2. TokensBelow(new, nextId + 2)
    BY <1>1, <2>1, TokensBelowUp
  <2>3. QED
    BY <1>1, <1>3, <2>1, <2>2 DEF Added
<1>4. QED
  BY <1>2, <1>3

\* A request is answered with the context of an actor that its record knows.
LEMMA AnswerFacts ==
  ASSUME NEW r \in Request, NEW st \in State, Rooted(st)
  PROVE  /\ Resolve(st, r.actor) \in Known(st)
         /\ Answer(r, st) = ContextOf(st, Resolve(st, r.actor))
         /\ Answer(r, st) \in Context
         /\ Answer(r, st).actor = Resolve(st, r.actor)
<1>1. Resolve(st, r.actor) \in Known(st)
  BY DEF Resolve, Rooted
<1>2. st.actors[Resolve(st, r.actor)] \in ActorRecord /\ Resolve(st, r.actor) \in AllActors
  BY <1>1 DEF Known, State
<1>3. QED
  BY <1>1, <1>2 DEF Answer, ContextOf, Context, State, ActorRecord

-----------------------------------------------------------------------------
(* The inductive invariant *)

LEMMA InvInit == Init => Inv
<1> SUFFICES ASSUME Init PROVE Inv
  OBVIOUS
<1>1. TypeOK
  BY BoundsAssumption DEF Init, TypeOK, PC, Critical
<1>2. HoldsLock /\ StatesRooted /\ PreparedFromCurrent /\ Placed
     /\ SavedKnown /\ IdentityStable
  BY DEF Init, HoldsLock, Critical, StatesRooted, PreparedFromCurrent, Placed,
         SavedKnown, IdentityStable
<1>3. QED
  BY <1>1, <1>2 DEF Inv

\* Steps that leave the records and the returned contexts alone.
LEMMA QuietStep ==
  ASSUME Inv, UNCHANGED <<state, nextId, told>>,
         TypeOK', HoldsLock',
         \A p \in Procs : pc'[p] \in {"save", "replace", "unlock"}
             => /\ req'[p] = req[p] /\ mem'[p] = mem[p]
                /\ pc[p] \in {"save", "replace", "unlock"}
                /\ pc'[p] = "unlock" <=> pc[p] = "unlock"
  PROVE  Inv'
<1>1. StatesRooted' /\ IdentityStable'
  <2>1. StatesRooted /\ IdentityStable
    BY DEF Inv
  <2>2. QED
    BY <2>1 DEF StatesRooted, TokensBelow, IdentityStable
<1>2. PreparedFromCurrent'
  <2> SUFFICES ASSUME NEW p \in Procs, pc'[p] \in {"save", "replace"}
               PROVE  Serves(req[p], mem[p], state[req[p].session])'
    BY DEF PreparedFromCurrent
  <2>1. Serves(req[p], mem[p], state[req[p].session])
    BY DEF Inv, PreparedFromCurrent
  <2>2. QED
    BY <2>1 DEF Serves, TokensBelow
<1>3. Placed' /\ SavedKnown'
  BY DEF Inv, Placed, SavedKnown
<1>4. QED
  BY <1>1, <1>2, <1>3 DEF Inv

LEMMA InvStep == Inv /\ [Next]_vars => Inv'
<1> SUFFICES ASSUME Inv, [Next]_vars PROVE Inv'
  OBVIOUS
<1> USE DEF PC, Critical
<1>0. TypeOK /\ HoldsLock
  BY DEF Inv
<1>1. ASSUME NEW p \in Procs, Call(p) PROVE Inv'
  <2>1. TypeOK' /\ HoldsLock'
    BY <1>0, <1>1 DEF TypeOK, HoldsLock, Call, Goto
  <2>2. QED
    BY <1>0, <1>1, <2>1, QuietStep DEF TypeOK, Call, Goto
<1>2. ASSUME NEW p \in Procs, Acquire(p) PROVE Inv'
  <2>1. TypeOK'
    BY <1>0, <1>2 DEF TypeOK, Acquire, Goto
  <2>2. HoldsLock'
    BY <1>0, <1>2, NobodyAssumption DEF TypeOK, HoldsLock, Acquire, Goto
  <2>3. QED
    BY <1>0, <1>2, <2>1, <2>2, QuietStep DEF TypeOK, Acquire, Goto
<1>3. ASSUME NEW p \in Procs, Load(p) PROVE Inv'
  <2>1. CASE req[p].session \in damaged
    <3>1. TypeOK' /\ HoldsLock'
      BY <1>0, <1>3, <2>1 DEF TypeOK, HoldsLock, Load, Goto
    <3>2. QED
      BY <1>0, <1>3, <2>1, <3>1, QuietStep DEF TypeOK, Load, Goto
  <2>2. CASE req[p].session \notin damaged
    <3> DEFINE r == req[p]
               old == state[r.session]
               new == Updated(r, old)
    <3>1. r \in Request /\ r.session \in Sessions /\ old \in State \cup {NoState}
      BY <1>0, <1>3 DEF TypeOK, Load, Request
    <3>2. old # NoState => Rooted(old) /\ TokensBelow(old, nextId)
      BY <3>1 DEF Inv, StatesRooted
    <3>3. /\ new \in State
          /\ Extends(new, old)
          /\ Rooted(new)
          /\ TokensBelow(new, nextId + 2)
          /\ Known(new) = Added(r) \cup IF old = NoState THEN {} ELSE Known(old)
      BY <1>0, <3>1, <3>2, UpdatedFacts DEF TypeOK
    <3>4. /\ mem' = [mem EXCEPT ![p] = new]
          /\ nextId' = nextId + 2
          /\ pc' = [pc EXCEPT ![p] = "save"]
          /\ UNCHANGED <<req, lock, state, damaged, calls, faults, told>>
      BY <1>3, <2>2 DEF Load, Goto
    <3>5. TypeOK'
      BY <1>0, <1>3, <3>3, <3>4 DEF TypeOK, Load
    <3>6. HoldsLock'
      BY <1>0, <1>3, <3>4 DEF TypeOK, HoldsLock, Load
    <3>7. StatesRooted'
      <4> SUFFICES ASSUME NEW s \in Sessions, state[s] # NoState
                   PROVE  Rooted(state[s]) /\ TokensBelow(state[s], nextId + 2)
        BY <3>4 DEF StatesRooted, TokensBelow
      <4>1. Rooted(state[s]) /\ TokensBelow(state[s], nextId) /\ state[s] \in State
        BY <1>0 DEF Inv, StatesRooted, TypeOK
      <4>2. QED
        BY <1>0, <4>1, TokensBelowUp DEF TypeOK
    <3>8. PreparedFromCurrent'
      <4> SUFFICES ASSUME NEW q \in Procs, pc'[q] \in {"save", "replace"}
                   PROVE  Serves(req[q], mem[q], state[req[q].session])'
        BY DEF PreparedFromCurrent
      <4>1. CASE q = p
        BY <1>0, <3>3, <3>4, <4>1 DEF Serves, TypeOK, TokensBelow
      <4>2. CASE q # p
        BY <1>0, <1>3, <3>4, <4>2 DEF TypeOK, HoldsLock, Load
      <4>3. QED
        BY <4>1, <4>2
    <3>9. Placed' /\ SavedKnown' /\ IdentityStable'
      BY <1>0, <3>4 DEF Inv, TypeOK, Placed, SavedKnown, IdentityStable
    <3>10. QED
      BY <3>5, <3>6, <3>7, <3>8, <3>9 DEF Inv
  <2>3. QED
    BY <2>1, <2>2
<1>4. ASSUME NEW p \in Procs, Save(p) PROVE Inv'
  <2>1. TypeOK' /\ HoldsLock'
    BY <1>0, <1>4 DEF TypeOK, HoldsLock, Save, Goto
  <2>2. QED
    BY <1>0, <1>4, <2>1, QuietStep DEF TypeOK, Save, Goto
<1>5. ASSUME NEW p \in Procs, Replace(p) PROVE Inv'
  <2> DEFINE s == req[p].session
  <2>1. /\ s \in Sessions
        /\ Serves(req[p], mem[p], state[s])
        /\ state' = [state EXCEPT ![s] = mem[p]]
        /\ pc' = [pc EXCEPT ![p] = "unlock"]
        /\ UNCHANGED <<req, lock, mem, nextId, calls, faults, told>>
    BY <1>0, <1>5 DEF Inv, PreparedFromCurrent, TypeOK, Replace, Goto, Request
  <2>2. TypeOK'
    BY <1>0, <1>5, <2>1 DEF TypeOK, Replace, Serves
  <2>3. HoldsLock'
    BY <1>0, <1>5, <2>1 DEF TypeOK, HoldsLock, Replace
  <2>4. StatesRooted'
    BY <1>0, <2>1 DEF Inv, TypeOK, StatesRooted, Serves, TokensBelow
  <2>5. \A q \in Procs : q # p => pc'[q] \notin Critical
    BY <1>0, <1>5, <2>1 DEF TypeOK, HoldsLock, Replace
  <2>6. PreparedFromCurrent'
    BY <1>0, <2>1, <2>5 DEF TypeOK, PreparedFromCurrent
  <2>7. Placed' /\ SavedKnown'
    <3>1. mem[p] # NoState
      BY <2>1, StateAssumption DEF Serves, State, ActorRecord, MaybeActor, AllActors
    <3>2. QED
      BY <1>0, <2>1, <2>5, <3>1 DEF TypeOK, Placed, SavedKnown
  <2>8. IdentityStable'
    <3> SUFFICES ASSUME NEW c \in told
                 PROVE  /\ state'[c.session] # NoState
                        /\ c.context.actor \in Known(state'[c.session])
                        /\ c.context = ContextOf(state'[c.session], c.context.actor)
      BY <2>1 DEF IdentityStable
    <3>1. /\ c.session \in Sessions
          /\ state[c.session] # NoState
          /\ c.context.actor \in Known(state[c.session])
          /\ c.context = ContextOf(state[c.session], c.context.actor)
      BY <1>0 DEF Inv, TypeOK, IdentityStable
    <3>2. CASE c.session = s
      <4>1. mem[p] \in State /\ mem[p] # NoState /\ Extends(mem[p], state[s])
        BY <2>1, StateAssumption
           DEF Serves, State, ActorRecord, MaybeActor, AllActors
      <4>2. state'[c.session] = mem[p]
        BY <1>0, <2>1, <3>2 DEF TypeOK
      <4>3. QED
        BY <3>1, <3>2, <4>1, <4>2 DEF Extends, ContextOf
    <3>3. CASE c.session # s
      BY <1>0, <2>1, <3>1, <3>3 DEF TypeOK
    <3>4. QED
      BY <3>2, <3>3
  <2>9. QED
    BY <2>2, <2>3, <2>4, <2>6, <2>7, <2>8 DEF Inv
<1>6. ASSUME NEW p \in Procs, Unlock(p) PROVE Inv'
  <2> DEFINE r == req[p]
             c == [session |-> r.session, context |-> Answer(r, mem[p])]
  <2>1. /\ r \in Request /\ r.session \in Sessions
        /\ mem[p] \in State \cup {NoState}
        /\ state[r.session] = mem[p]
    BY <1>0, <1>6 DEF Inv, Placed, TypeOK, Unlock, Request
  <2>2. /\ pc' = [pc EXCEPT ![p] = "returned"]
        /\ lock' = Nobody
        /\ told' = told \cup {c}
        /\ UNCHANGED <<req, state, damaged, mem, nextId, calls, faults>>
    BY <1>6 DEF Unlock, Goto
  <2>3. mem[p] # NoState
    BY <1>0, <1>6 DEF Inv, SavedKnown, Unlock
  <2>4. Rooted(mem[p])
    BY <2>1, <2>3 DEF Inv, StatesRooted
  <2>5. /\ c.session = r.session
        /\ c.context = ContextOf(mem[p], Resolve(mem[p], r.actor))
        /\ c.context.actor = Resolve(mem[p], r.actor)
        /\ Resolve(mem[p], r.actor) \in Known(mem[p])
        /\ c \in [session : Sessions, context : Context]
    BY <2>1, <2>3, <2>4, AnswerFacts
  <2>6. TypeOK'
    BY <1>0, <1>6, <2>2, <2>5 DEF TypeOK, Unlock
  <2>7. HoldsLock'
    BY <1>0, <1>6, <2>2 DEF TypeOK, HoldsLock, Unlock
  <2>8. StatesRooted' /\ PreparedFromCurrent' /\ Placed' /\ SavedKnown'
    BY <1>0, <2>2 DEF Inv, TypeOK, StatesRooted, PreparedFromCurrent, Serves, TokensBelow,
                      Placed, SavedKnown
  <2>9. IdentityStable'
    BY <2>1, <2>2, <2>3, <2>5 DEF Inv, IdentityStable
  <2>10. QED
    BY <2>6, <2>7, <2>8, <2>9 DEF Inv
<1>7. ASSUME NEW p \in Procs, Abort(p) \/ OpenFails(p) \/ IOFails(p) \/ Exit(p) \/ Kill(p)
      PROVE  Inv'
  <2>1. faults' \in Nat
    BY <1>0, <1>7 DEF TypeOK, Abort, OpenFails, IOFails, Exit, Kill, Fault
  <2>2. TypeOK'
    BY <1>0, <1>7, <2>1 DEF TypeOK, Abort, OpenFails, IOFails, Exit, Kill, Forget, Goto
  <2>3. HoldsLock'
    BY <1>0, <1>7 DEF TypeOK, HoldsLock, Abort, OpenFails, IOFails, Exit, Kill, Forget, Goto
  <2>4. UNCHANGED <<state, nextId, told>>
    BY <1>7 DEF Abort, OpenFails, IOFails, Exit, Kill
  <2>5. \A q \in Procs : pc'[q] \in {"save", "replace", "unlock"}
             => /\ req'[q] = req[q] /\ mem'[q] = mem[q]
                /\ pc'[q] = pc[q]
    BY <1>0, <1>7 DEF TypeOK, Abort, OpenFails, IOFails, Exit, Kill, Forget, Goto
  <2>6. QED
    BY <2>2, <2>3, <2>4, <2>5, QuietStep
<1>8. ASSUME NEW s \in Sessions, Damage(s) PROVE Inv'
  <2>1. TypeOK' /\ HoldsLock'
    BY <1>0, <1>8 DEF TypeOK, HoldsLock, Damage, Fault
  <2>2. QED
    BY <1>8, <2>1, QuietStep DEF Damage
<1>9. CASE UNCHANGED vars
  <2>1. TypeOK' /\ HoldsLock'
    BY <1>0, <1>9 DEF TypeOK, HoldsLock, vars
  <2>2. QED
    BY <1>9, <2>1, QuietStep DEF vars
<1>10. QED
  BY <1>1, <1>2, <1>3, <1>4, <1>5, <1>6, <1>7, <1>8, <1>9 DEF Next, Step

THEOREM Invariance == Spec => []Inv
<1>1. QED
  BY InvInit, InvStep, PTL DEF Spec

-----------------------------------------------------------------------------
(* What follows from it *)

\* The variables keep their types in every behaviour.
THEOREM TypeCorrect == Spec => []TypeOK
<1>1. Inv => TypeOK
  BY DEF Inv
<1>2. QED
  BY <1>1, Invariance, PTL

\* At most one hook process is between flock and unlock.
THEOREM Exclusion == Spec => []MutualExclusion
<1>1. Inv => MutualExclusion
  BY DEF Inv, HoldsLock, MutualExclusion
<1>2. QED
  BY <1>1, Invariance, PTL

\* No identity that a call returned is ever changed or lost.
THEOREM IdentityIsStable == Spec => []IdentityStable
<1>1. Inv => IdentityStable
  BY DEF Inv
<1>2. QED
  BY <1>1, Invariance, PTL

\* Chains of parents end at the root actor.
THEOREM LineageIsRooted == Spec => []LineageRooted
<1>1. Inv => LineageRooted
  BY DEF Inv, StatesRooted, LineageRooted
<1>2. QED
  BY <1>1, Invariance, PTL

-----------------------------------------------------------------------------
(* Tokens and traces are distinct *)

\* The records sts give no token to two actors.
NoTokenTwice(sts) ==
    \A s, t \in Sessions :
        sts[s] # NoState /\ sts[t] # NoState =>
            \A a \in Known(sts[s]), b \in Known(sts[t]) :
                sts[s].actors[a].token = sts[t].actors[b].token => s = t /\ a = b

\* The root actor's token is as old as the trace.
TraceFromRoot(sts) ==
    \A s \in Sessions : sts[s] # NoState => sts[s].trace = sts[s].actors[Root].token

Distinct(sts) == NoTokenTwice(sts) /\ TraceFromRoot(sts)

\* The records are distinct, and stay so when a prepared record is put in place.
DistinctInv ==
    /\ Distinct(state)
    /\ \A p \in Procs :
          pc[p] \in {"save", "replace"} => Distinct([state EXCEPT ![req[p].session] = mem[p]])

\* An update draws the tokens it adds from those not drawn yet.
LEMMA UpdatedTokens ==
  ASSUME NEW r \in Request, NEW old \in State \cup {NoState}, nextId \in Nat,
         old # NoState =>
            /\ Rooted(old) /\ TokensBelow(old, nextId)
            /\ old.trace = old.actors[Root].token
            /\ \A a, b \in Known(old) : old.actors[a].token = old.actors[b].token => a = b
  PROVE  LET new == Updated(r, old)
         IN  /\ new.trace = new.actors[Root].token
             /\ \A a, b \in Known(new) : new.actors[a].token = new.actors[b].token => a = b
             /\ \A a \in Known(new) :
                   \/ old # NoState /\ a \in Known(old) /\ new.actors[a] = old.actors[a]
                   \/ new.actors[a].token \in {nextId, nextId + 1}
<1> DEFINE st == IF old = NoState THEN NewState(nextId) ELSE old
           new == Updated(r, old)
<1>0. r.actor \in AllActors /\ r.parent \in MaybeActor
  BY DEF Request
<1>1. /\ st \in State
      /\ Root \in Known(st)
      /\ st.trace = st.actors[Root].token
      /\ \A a, b \in Known(st) : st.actors[a].token = st.actors[b].token => a = b
      /\ \A a \in Known(st) :
            \/ old # NoState /\ a \in Known(old) /\ st.actors[a] = old.actors[a]
            \/ st.actors[a].token = nextId
      /\ \A a \in Known(st) : st.actors[a].token # nextId + 1
  <2>1. CASE old = NoState
    <3>1. st \in State /\ Known(st) = {Root}
      BY <2>1, NewStateFacts
    <3>2. st.trace = nextId /\ st.actors[Root].token = nextId
      BY <2>1 DEF NewState, AllActors
    <3>3. QED
      BY <2>1, <3>1, <3>2
  <2>2. CASE old # NoState
    <3>1. \A a \in Known(old) : old.actors[a].token \in Nat /\ old.actors[a].token < nextId
      BY <2>2 DEF TokensBelow, Known, State, ActorRecord
    <3>2. QED
      BY <2>2, <3>1 DEF Rooted
  <2>3. QED
    BY <2>1, <2>2
<1>2. CASE r.op = "register"
  <2>1. new = Register(st, r.actor, r.parent, nextId + 1)
    BY <1>2 DEF Updated
  <2>2. /\ new.trace = st.trace
        /\ new.actors[Root] = st.actors[Root]
        /\ \A b \in Known(new) :
              \/ b \in Known(st) /\ new.actors[b] = st.actors[b]
              \/ b = r.actor /\ new.actors[b].token = nextId + 1
    BY <1>0, <1>1, <2>1, RegisterTokens
  <2>3. new.trace = new.actors[Root].token
    BY <1>1, <2>2
  <2>4. ASSUME NEW a \in Known(new), NEW b \in Known(new),
               new.actors[a].token = new.actors[b].token
        PROVE  a = b
    <3> HIDE DEF new, st
    <3>1. QED
      BY <1>1, <2>2, <2>4
  <2>5. ASSUME NEW a \in Known(new)
        PROVE  \/ old # NoState /\ a \in Known(old) /\ new.actors[a] = old.actors[a]
               \/ new.actors[a].token \in {nextId, nextId + 1}
    <3> HIDE DEF new, st
    <3>1. QED
      BY <1>1, <2>2, <2>5
  <2>6. QED
    BY <2>3, <2>4, <2>5
<1>3. CASE r.op # "register"
  <2>1. new = st
    BY <1>3 DEF Updated
  <2>2. QED
    BY <1>1, <2>1
<1>4. QED
  BY <1>2, <1>3

LEMMA DistinctLoad ==
  ASSUME Inv, DistinctInv, NEW p \in Procs, Load(p), req[p].session \notin damaged
  PROVE  Distinct([state EXCEPT ![req[p].session] = Updated(req[p], state[req[p].session])])
<1> DEFINE s0 == req[p].session
           old == state[s0]
           new == Updated(req[p], old)
           sts == [state EXCEPT ![s0] = new]
<1>1. /\ req[p] \in Request
      /\ s0 \in Sessions
      /\ nextId \in Nat
      /\ old \in State \cup {NoState}
      /\ \A s \in Sessions : sts[s] = IF s = s0 THEN new ELSE state[s]
  BY DEF Inv, TypeOK, Load, Critical, Request
<1>2. old # NoState =>
        /\ Rooted(old) /\ TokensBelow(old, nextId)
        /\ old.trace = old.actors[Root].token
        /\ \A a, b \in Known(old) : old.actors[a].token = old.actors[b].token => a = b
  BY <1>1 DEF Inv, StatesRooted, DistinctInv, Distinct, NoTokenTwice, TraceFromRoot
<1>3. /\ new.trace = new.actors[Root].token
      /\ \A a, b \in Known(new) : new.actors[a].token = new.actors[b].token => a = b
      /\ \A a \in Known(new) :
            \/ old # NoState /\ a \in Known(old) /\ new.actors[a] = old.actors[a]
            \/ new.actors[a].token \in {nextId, nextId + 1}
  BY <1>1, <1>2, UpdatedTokens
<1> HIDE DEF new
<1>4. \A s \in Sessions \ {s0}, a \in Known(new), b \in AllActors :
        state[s] # NoState /\ b \in Known(state[s])
           => new.actors[a].token # state[s].actors[b].token
  <2> SUFFICES ASSUME NEW s \in Sessions \ {s0}, NEW a \in Known(new), NEW b \in Known(state[s]),
                      state[s] # NoState
               PROVE  new.actors[a].token # state[s].actors[b].token
    OBVIOUS
  <2>1. state[s].actors[b].token \in Nat /\ state[s].actors[b].token < nextId
    <3>1. state[s] \in State /\ TokensBelow(state[s], nextId)
      BY DEF Inv, TypeOK, StatesRooted
    <3>2. QED
      BY <3>1 DEF TokensBelow, Known, State, ActorRecord
  <2>2. CASE old # NoState /\ a \in Known(old) /\ new.actors[a] = old.actors[a]
    BY <1>1, <2>2 DEF DistinctInv, Distinct, NoTokenTwice
  <2>3. CASE new.actors[a].token \in {nextId, nextId + 1}
    BY <1>1, <2>1, <2>3
  <2>4. QED
    BY <1>3, <2>2, <2>3
<1>5. \A s \in Sessions : Known(sts[s]) \subseteq AllActors
  BY DEF Known
<1>6. NoTokenTwice(sts)
  <2> SUFFICES ASSUME NEW s \in Sessions, NEW t \in Sessions,
                      sts[s] # NoState, sts[t] # NoState,
                      NEW a \in Known(sts[s]), NEW b \in Known(sts[t]),
                      sts[s].actors[a].token = sts[t].actors[b].token
               PROVE  s = t /\ a = b
    BY DEF NoTokenTwice
  <2>1. CASE s = s0 /\ t = s0
    BY <1>1, <1>3, <2>1
  <2>2. CASE s = s0 /\ t # s0
    BY <1>1, <1>4, <1>5, <2>2
  <2>3. CASE s # s0 /\ t = s0
    BY <1>1, <1>4, <1>5, <2>3
  <2>4. CASE s # s0 /\ t # s0
    BY <1>1, <2>4 DEF DistinctInv, Distinct, NoTokenTwice
  <2>5. QED
    BY <2>1, <2>2, <2>3, <2>4
<1>7. TraceFromRoot(sts)
  BY <1>1, <1>3 DEF DistinctInv, Distinct, TraceFromRoot
<1>8. QED
  BY <1>6, <1>7 DEF Distinct, new

LEMMA DistinctInit == Init => DistinctInv
BY DEF Init, DistinctInv, Distinct, NoTokenTwice, TraceFromRoot

LEMMA DistinctStep == Inv /\ DistinctInv /\ [Next]_vars => DistinctInv'
<1> SUFFICES ASSUME Inv, DistinctInv, [Next]_vars PROVE DistinctInv'
  OBVIOUS
<1> USE DEF Critical
<1>0. TypeOK /\ HoldsLock
  BY DEF Inv
<1>1. ASSUME NEW p \in Procs, Load(p), req[p].session \notin damaged PROVE DistinctInv'
  <2>1. /\ mem' = [mem EXCEPT ![p] = Updated(req[p], state[req[p].session])]
        /\ UNCHANGED <<state, req>>
        /\ \A q \in Procs \ {p} : pc'[q] \notin {"save", "replace"}
    BY <1>0, <1>1 DEF TypeOK, HoldsLock, Load, Goto
  <2>2. mem'[p] = Updated(req[p], state[req[p].session])
    BY <1>0, <2>1 DEF TypeOK
  <2>3. Distinct([state EXCEPT ![req[p].session] = Updated(req[p], state[req[p].session])])
    BY <1>1, DistinctLoad
  <2>4. QED
    BY <2>1, <2>2, <2>3 DEF DistinctInv, Distinct, NoTokenTwice, TraceFromRoot
<1>2. ASSUME NEW p \in Procs, Replace(p) PROVE DistinctInv'
  <2>1. /\ state' = [state EXCEPT ![req[p].session] = mem[p]]
        /\ \A q \in Procs : pc'[q] \notin {"save", "replace"}
    BY <1>0, <1>2 DEF TypeOK, HoldsLock, Replace, Goto
  <2>2. Distinct([state EXCEPT ![req[p].session] = mem[p]])
    BY <1>2 DEF DistinctInv, Replace
  <2>3. QED
    BY <2>1, <2>2 DEF DistinctInv, Distinct, NoTokenTwice, TraceFromRoot
<1>3. ASSUME state' = state,
             \A q \in Procs : pc'[q] \in {"save", "replace"} =>
                pc[q] \in {"save", "replace"} /\ req'[q] = req[q] /\ mem'[q] = mem[q]
      PROVE DistinctInv'
  BY <1>3 DEF DistinctInv, Distinct, NoTokenTwice, TraceFromRoot
<1>4. ASSUME NEW p \in Procs,
             \/ Load(p) /\ req[p].session \in damaged
             \/ Call(p) \/ Acquire(p) \/ Save(p) \/ Unlock(p) \/ Abort(p)
             \/ OpenFails(p) \/ IOFails(p) \/ Exit(p) \/ Kill(p)
      PROVE DistinctInv'
  <2>1. state' = state
    BY <1>4 DEF Load, Call, Acquire, Save, Unlock, Abort, OpenFails, IOFails, Exit, Kill
  <2>2. \A q \in Procs : pc'[q] \in {"save", "replace"} =>
           pc[q] \in {"save", "replace"} /\ req'[q] = req[q] /\ mem'[q] = mem[q]
    BY <1>0, <1>4 DEF TypeOK, Load, Call, Acquire, Save, Unlock, Abort, OpenFails, IOFails,
                      Exit, Kill, Forget, Goto
  <2>3. QED
    BY <1>3, <2>1, <2>2
<1>5. CASE UNCHANGED vars
  BY <1>3, <1>5 DEF vars
<1>6. ASSUME NEW s \in Sessions, Damage(s) PROVE DistinctInv'
  BY <1>3, <1>6 DEF Damage
<1>7. QED
  BY <1>1, <1>2, <1>4, <1>5, <1>6 DEF Next, Step

\* No two actors, of one session or of two, ever get the same token, and no two
\* sessions the same trace.
THEOREM TokensAreDistinct == Spec => []TokensDistinct
<1>1. Inv /\ DistinctInv => TokensDistinct
  <2> SUFFICES ASSUME Inv, DistinctInv PROVE TokensDistinct
    OBVIOUS
  <2>1. ASSUME NEW s \in Sessions, NEW t \in Sessions,
               state[s] # NoState, state[t] # NoState, state[s].trace = state[t].trace
        PROVE  s = t
    <3>1. Root \in Known(state[s]) /\ Root \in Known(state[t])
      BY <2>1 DEF Inv, StatesRooted, Rooted
    <3>2. QED
      BY <2>1, <3>1 DEF DistinctInv, Distinct, NoTokenTwice, TraceFromRoot
  <2>2. ASSUME NEW c \in told, NEW d \in told, c.context.token = d.context.token
        PROVE  c = d
    <3>1. \A e \in {c, d} :
             /\ e \in [session : Sessions, context : Context]
             /\ state[e.session] # NoState
             /\ e.context.actor \in Known(state[e.session])
             /\ e.context = ContextOf(state[e.session], e.context.actor)
      BY DEF Inv, TypeOK, IdentityStable
    <3>2. \A e \in {c, d} :
             e.context.token = state[e.session].actors[e.context.actor].token
      BY <3>1 DEF ContextOf
    <3>3. c.session = d.session /\ c.context.actor = d.context.actor
      BY <2>2, <3>1, <3>2 DEF DistinctInv, Distinct, NoTokenTwice
    <3>4. QED
      BY <3>1, <3>3
  <2>3. QED
    BY <2>1, <2>2 DEF TokensDistinct
<1>2. Spec => []DistinctInv
  BY Invariance, DistinctInit, DistinctStep, PTL DEF Spec
<1>3. QED
  BY <1>1, <1>2, Invariance, PTL

-----------------------------------------------------------------------------
(* The registry implements TraceIdentity *)

USE DEF Identity!vars

LEMMA RefinesInit == Init => Identity!Init
BY DEF Init, Identity!Init

LEMMA RefinesStep == Inv /\ Inv' /\ [Next]_vars => [Identity!Next]_Identity!vars
<1> SUFFICES ASSUME Inv, Inv', [Next]_vars PROVE [Identity!Next]_Identity!vars
  OBVIOUS
<1> DEFINE phase(x) == CASE x = "idle" -> "idle"
                         [] x \in {"acquire", "load", "save", "replace"} -> "called"
                         [] x \in {"unlock", "returned"} -> "served"
                         [] x \in {"abort", "raised"} -> "failed"
<1> USE DEF PC, Critical
<1>0. TypeOK /\ TypeOK'
  BY DEF Inv
<1>1. ASSUME NEW p \in Procs, Call(p) PROVE [Identity!Next]_Identity!vars
  <2>1. CASE pc' = [pc EXCEPT ![p] = "acquire"]
    <3>1. PICK r \in Request : req' = [req EXCEPT ![p] = r]
      BY <1>0, <1>1, <2>1 DEF Call, Goto, TypeOK
    <3>2. Identity!Call(p, r)
      BY <1>0, <1>1, <2>1, <3>1 DEF Call, TypeOK, Identity!Call
    <3>3. r \in Identity!Request
      BY DEF Request, Identity!Request, MaybeActor, AllActors,
             Identity!MaybeActor, Identity!AllActors
    <3>4. QED
      BY <3>2, <3>3 DEF Identity!Next
  <2>2. CASE pc' = [pc EXCEPT ![p] = "raised"]
    <3>1. req' = req
      BY <1>0, <1>1, <2>2 DEF Call, Goto, TypeOK
    <3>2. Identity!Reject(p)
      BY <1>0, <1>1, <2>2, <3>1 DEF Call, TypeOK, Identity!Reject
    <3>3. QED
      BY <3>2 DEF Identity!Next
  <2>3. QED
    BY <1>1, <2>1, <2>2 DEF Call, Goto
<1>2. ASSUME NEW p \in Procs, Replace(p) PROVE [Identity!Next]_Identity!vars
  <2> DEFINE s == req[p].session
  <2>1. /\ s \in Sessions
        /\ Serves(req[p], mem[p], state[s])
        /\ state' = [state EXCEPT ![s] = mem[p]]
        /\ pc[p] = "replace"
        /\ pc' = [pc EXCEPT ![p] = "unlock"]
        /\ req' = req
    BY <1>0, <1>2 DEF Inv, PreparedFromCurrent, TypeOK, Replace, Goto, Request
  <2>2. mem[p] # NoState
    BY <2>1, StateAssumption DEF Serves, State, ActorRecord, MaybeActor, AllActors
  <2>3. state'[s] = mem[p]
    BY <1>0, <2>1 DEF TypeOK
  <2>4. Identity!Extends(state'[s], state[s])
    BY <2>1, <2>3 DEF Serves, Extends, Known, AllActors, Identity!Extends, Identity!Known,
                      Identity!AllActors
  <2>5. Identity!Rooted(state'[s])
    BY <2>1, <2>3 DEF Serves, Rooted, Known, AllActors, Identity!Rooted, Identity!Known,
                      Identity!AllActors
  <2>6. Identity!Known(state'[s])
          = Identity!Admits(req[p]) \cup
            IF state[s] = NoState THEN {} ELSE Identity!Known(state[s])
    BY <2>1, <2>3 DEF Serves, Known, AllActors, Added, Identity!Known, Identity!AllActors,
                      Identity!Admits
  <2>7. [q \in Procs |-> phase(pc[q])]' = [[q \in Procs |-> phase(pc[q])] EXCEPT ![p] = "served"]
    BY <1>0, <2>1 DEF TypeOK
  <2>8. Identity!Serve(p)
    BY <2>1, <2>2, <2>3, <2>4, <2>5, <2>6, <2>7 DEF Identity!Serve
  <2>9. QED
    BY <2>8 DEF Identity!Next
<1>3. ASSUME NEW p \in Procs, \/ Load(p) /\ req[p].session \in damaged
                             \/ OpenFails(p) \/ IOFails(p)
      PROVE [Identity!Next]_Identity!vars
  <2>1. /\ phase(pc[p]) = "called"
        /\ \/ pc' = [pc EXCEPT ![p] = "abort"]
           \/ pc' = [pc EXCEPT ![p] = "raised"]
        /\ UNCHANGED <<state, req>>
    BY <1>3 DEF Load, OpenFails, IOFails, Goto
  <2>2. Identity!Fail(p)
    BY <1>0, <2>1 DEF TypeOK, Identity!Fail
  <2>3. QED
    BY <2>2 DEF Identity!Next
<1>4. ASSUME NEW p \in Procs, Exit(p) \/ Kill(p) PROVE [Identity!Next]_Identity!vars
  <2>1. /\ pc[p] # "idle"
        /\ pc' = [pc EXCEPT ![p] = "idle"]
        /\ req' = [req EXCEPT ![p] = NoCall]
        /\ state' = state
    BY <1>4 DEF Exit, Kill, Forget, Goto
  <2>2. Identity!End(p)
    BY <1>0, <2>1 DEF TypeOK, Identity!End
  <2>3. QED
    BY <2>2 DEF Identity!Next
<1>5. ASSUME NEW p \in Procs,
             \/ Acquire(p) \/ Save(p) \/ Unlock(p) \/ Abort(p)
             \/ Load(p) /\ req[p].session \notin damaged
      PROVE UNCHANGED Identity!vars
  <2>1. /\ phase(pc'[p]) = phase(pc[p])
        /\ \E x \in PC : pc' = [pc EXCEPT ![p] = x]
        /\ UNCHANGED <<state, req>>
    BY <1>0, <1>5 DEF TypeOK, Acquire, Load, Save, Unlock, Abort, Goto
  <2>2. \A q \in Procs : phase(pc'[q]) = phase(pc[q])
    BY <1>0, <2>1 DEF TypeOK
  <2>3. [q \in Procs |-> phase(pc'[q])] = [q \in Procs |-> phase(pc[q])]
    <3> HIDE DEF phase
    <3>1. QED
      BY <2>2
  <2>4. QED
    BY <2>1, <2>3
<1>6. ASSUME NEW s \in Sessions, Damage(s) PROVE UNCHANGED Identity!vars
  BY <1>6 DEF Damage
<1>7. CASE UNCHANGED vars
  BY <1>7 DEF vars
<1>8. QED
  BY <1>1, <1>2, <1>3, <1>4, <1>5, <1>6, <1>7 DEF Next, Step

\* Each call of the registry takes effect at one instant, its rename, against a
\* registry that only grows; a failed call has no effect.
THEOREM Refinement == Spec => ImplementsIdentity
<1>1. QED
  BY RefinesInit, RefinesStep, Invariance, PTL DEF Spec, ImplementsIdentity, Identity!Spec

-----------------------------------------------------------------------------
(* ActionCorrelation *)

\* The parts of a command: words, and prefixes in which tokens may be redacted.
Part(x) ==
    \/ x.kind = "word"
    \/ x = [kind |-> "prefix", trace |-> x.trace, token |-> x.token, actor |-> x.actor,
            secret |-> x.secret, action |-> x.action]

Command(s) ==
    /\ s \in Seq({s[n] : n \in DOMAIN s})
    /\ \A n \in DOMAIN s : Part(s[n])

\* The proposal had no prefix of its own.
Bare(command) == command = <<>> \/ ~IsPrefix(Head(command))

\* What the actor of an observation has as its context.
ContextIn(o) == ContextOf(record, o.actor)

\* The session has its root actor, which unknown actors are taken for.
RecordsOK == Root \in Known(record)

CallsOK ==
    /\ call = [c \in Calls |-> call[c]]
    /\ \A c \in Calls :
          /\ call[c] \in [stage : Stages, actor : AllActors, turn : Turns, shell : BOOLEAN,
                          exact : BOOLEAN, asked : {call[c].asked}, given : {call[c].given}]
          /\ Command(call[c].asked)
          /\ Command(call[c].given)

\* A shell call runs what it asked for, after the prefix that one of the
\* observations obs tells; other calls run just what they asked for.
RunsAsked(c, asked, given, obs) ==
    IF call[c].shell
    THEN \E o \in obs :
            /\ o.call = c /\ o.event = "PreToolUse"
            /\ given = <<Prefix(ContextIn(o), o.action)>> \o asked
    ELSE given = asked

GivenAsAsked ==
    \A c \in Calls :
        /\ call[c].stage = "new" => \A o \in log : o.call # c
        /\ call[c].stage \in {"allowed", "permitted", "done"} =>
              RunsAsked(c, call[c].asked, call[c].given, log)

\* An observation names a known actor and its identifiers; they do not depend
\* on whether the event showed the command as asked for or as rewritten.
LogOK ==
    \A o \in log :
        /\ o.call \in Calls
        /\ o.actor \in Known(record)
        /\ o.trace = record.trace
        /\ o.secret = record.actors[o.actor].token
        /\ o.exact => o.action = [trace |-> record.trace, of |-> o.call]
        /\ Bare(call[o.call].asked) =>
              o.fingerprint = Fingerprint(o.call, call[o.call].asked, ContextIn(o))

CorrelationInv ==
    /\ CorrelationTypeOK
    /\ RecordsOK
    /\ CallsOK
    /\ GivenAsAsked
    /\ LogOK
    /\ OwnTokensRedacted

-----------------------------------------------------------------------------
(* Commands *)

\* A part before a command makes a command, with that head and that tail.
LEMMA Prepended ==
  ASSUME NEW x, Part(x), NEW s, Command(s)
  PROVE  /\ Command(<<x>> \o s)
         /\ <<x>> \o s # <<>>
         /\ Head(<<x>> \o s) = x
         /\ Tail(<<x>> \o s) = s
<1> DEFINE S == {s[n] : n \in DOMAIN s}
           t == <<x>> \o s
<1>1. s \in Seq(S) /\ s \in Seq(S \cup {x}) /\ <<x>> \in Seq(S \cup {x})
  BY DEF Command
<1>2. /\ t \in Seq(S \cup {x})
      /\ DOMAIN t = 1 .. Len(t) /\ Len(t) \in Nat
      /\ Len(t) = Len(s) + 1
      /\ \A n \in 1 .. Len(t) : t[n] = IF n = 1 THEN x ELSE s[n - 1]
  BY <1>1
<1>3. \A n \in DOMAIN t : Part(t[n])
  BY <1>1, <1>2 DEF Command
<1>4. t \in Seq({t[n] : n \in DOMAIN t})
  <2> DEFINE T == {t[n] : n \in DOMAIN t}
  <2>1. t \in [1 .. Len(t) -> S \cup {x}] /\ Len(t) \in Nat
    <3> HIDE DEF t, S
    <3>1. PICK n \in Nat : t \in [1 .. n -> S \cup {x}]
      BY <1>2, SeqDef
    <3>2. 1 .. n = 1 .. Len(t)
      BY <1>2, <3>1
    <3>3. n = Len(t)
      BY <1>2, <3>2
    <3>4. QED
      BY <3>1, <3>3
  <2>2. t \in [1 .. Len(t) -> T]
    <3> HIDE DEF t
    <3>1. QED
      BY <2>1
  <2>3. t \in Seq(T)
    <3> HIDE DEF t, T
    <3>1. QED
      BY <2>1, <2>2, SeqDef
  <2>4. QED
    BY <2>3
<1>5. t # <<>> /\ Head(t) = x /\ Tail(t) = s
  BY <1>1, <1>2
<1>6. QED
  BY <1>3, <1>4, <1>5 DEF Command

LEMMA OneWord == \A w : Command(<<Word(w)>>) /\ Part(Word(w))
BY DEF Command, Part, Word

LEMMA PrefixPart == \A ctx, action : Part(Prefix(ctx, action)) /\ IsPrefix(Prefix(ctx, action))
BY DEF Part, Prefix, IsPrefix

\* The prefix that PreToolUse has put before a bare command leaves no trace.
LEMMA SanitizedPrepended ==
  ASSUME NEW x, Part(x), IsPrefix(x), NEW s, Command(s), Bare(s), NEW ctx
  PROVE  Sanitized(<<x>> \o s, ctx) = Sanitized(s, ctx)
BY Prepended DEF Sanitized, Bare

\* The tokens of the context are nowhere in a sanitized command.
LEMMA SanitizedFacts ==
  ASSUME NEW s, Command(s), NEW ctx, ctx.trace \in Nat, ctx.token \in Nat,
         NEW n \in DOMAIN Sanitized(s, ctx), IsPrefix(Sanitized(s, ctx)[n])
  PROVE  /\ Sanitized(s, ctx)[n].token # ctx.trace
         /\ Sanitized(s, ctx)[n].secret # ctx.token
<1> DEFINE bare == IF s # <<>> /\ IsPrefix(Head(s)) THEN Tail(s) ELSE s
<1>1. s \in Seq({s[m] : m \in DOMAIN s}) /\ \A m \in DOMAIN s : Part(s[m])
  BY DEF Command
<1>2. \A m \in DOMAIN bare : Part(bare[m])
  <2>1. CASE s # <<>> /\ IsPrefix(Head(s))
    <3>1. \A m \in DOMAIN Tail(s) : m + 1 \in DOMAIN s /\ Tail(s)[m] = s[m + 1]
      BY <1>1, <2>1
    <3>2. QED
      BY <1>1, <2>1, <3>1
  <2>2. CASE ~(s # <<>> /\ IsPrefix(Head(s)))
    BY <1>1, <2>2
  <2>3. QED
    BY <2>1, <2>2
<1>3. n \in DOMAIN bare /\ Sanitized(s, ctx)[n] = Redact(bare[n], ctx)
  BY DEF Sanitized
<1> DEFINE x == bare[n]
<1>4. Part(x)
  BY <1>2, <1>3
<1> HIDE DEF bare, x
<1>5. IsPrefix(Redact(x, ctx)) => Redact(x, ctx).token # ctx.trace /\ Redact(x, ctx).secret # ctx.token
  BY <1>4, RedactedAssumption DEF Part, IsPrefix, Redact
<1>6. QED
  BY <1>3, <1>5 DEF x

-----------------------------------------------------------------------------
(* Observations *)

LEMMA ContextFacts ==
  ASSUME RecordsOK, record \in State, NEW hint \in MaybeActor
  PROVE  LET ctx == ContextOf(record, Resolve(record, hint))
         IN  /\ ctx.actor = Resolve(record, hint)
             /\ ctx.actor \in Known(record) /\ ctx.actor \in AllActors
             /\ ctx.trace = record.trace /\ ctx.trace \in Nat
             /\ ctx.token = record.actors[ctx.actor].token /\ ctx.token \in Nat
<1>1. Resolve(record, hint) \in Known(record)
  BY DEF RecordsOK, Resolve
<1>2. QED
  BY <1>1 DEF Known, State, ActorRecord, ContextOf

\* What an event that shows command adds to the log.
LEMMA ObservationFacts ==
  ASSUME CorrelationInv, NEW c \in Calls, NEW event \in Events, NEW hint \in Hints(c),
         NEW command, Command(command), NEW exact \in BOOLEAN
  PROVE  LET o == Observation(c, event, hint, command, exact)
             ctx == ContextOf(record, Resolve(record, hint))
         IN  /\ o.call = c /\ o.event = event /\ o.exact = exact
             /\ o.actor \in Known(record) /\ o.actor \in AllActors
             /\ ContextIn(o) = ctx
             /\ o.trace = record.trace /\ o.trace \in Nat
             /\ o.secret = record.actors[o.actor].token /\ o.secret \in Nat
             /\ exact => o.action = [trace |-> record.trace, of |-> c]
             /\ o.fingerprint = Fingerprint(c, command, ctx)
             /\ \A n \in DOMAIN o.stored :
                   IsPrefix(o.stored[n]) => o.stored[n].token # o.trace /\ o.stored[n].secret # o.secret
<1> DEFINE o == Observation(c, event, hint, command, exact)
           ctx == ContextOf(record, Resolve(record, hint))
<1>1. hint \in MaybeActor
  BY DEF CorrelationInv, CallsOK, Hints, MaybeActor
<1>2. /\ ctx.actor = Resolve(record, hint)
      /\ ctx.actor \in Known(record) /\ ctx.actor \in AllActors
      /\ ctx.trace = record.trace /\ ctx.trace \in Nat
      /\ ctx.token = record.actors[ctx.actor].token /\ ctx.token \in Nat
  BY <1>1, ContextFacts DEF CorrelationInv, CorrelationTypeOK
<1>3. /\ o.call = c /\ o.event = event /\ o.exact = exact
      /\ o.actor = ctx.actor /\ o.trace = ctx.trace /\ o.secret = ctx.token
      /\ o.action = ActionOf(c, command, ctx, exact)
      /\ o.fingerprint = Fingerprint(c, command, ctx)
      /\ o.stored = IF call[c].shell THEN Sanitized(command, ctx) ELSE <<>>
  BY DEF Observation
<1>4. ContextIn(o) = ctx
  BY <1>2, <1>3 DEF ContextIn
<1>5. exact => o.action = [trace |-> record.trace, of |-> c]
  BY <1>2, <1>3 DEF ActionOf
<1>6. ASSUME NEW n \in DOMAIN o.stored, IsPrefix(o.stored[n])
      PROVE  o.stored[n].token # o.trace /\ o.stored[n].secret # o.secret
  <2> HIDE DEF o, ctx
  <2>1. CASE call[c].shell
    BY <1>2, <1>3, <1>6, <2>1, SanitizedFacts
  <2>2. CASE ~call[c].shell
    BY <1>3, <1>6, <2>2
  <2>3. QED
    BY <2>1, <2>2
<1> HIDE DEF o, ctx
<1>7. QED
  BY <1>2, <1>3, <1>4, <1>5, <1>6 DEF o, ctx

\* The fingerprint of a call does not depend on whether its command is shown as
\* asked for or as rewritten.
LEMMA FingerprintGiven ==
  ASSUME CorrelationInv, NEW c \in Calls, call[c].stage \in {"allowed", "permitted", "done"},
         Bare(call[c].asked), NEW ctx
  PROVE  Fingerprint(c, call[c].given, ctx) = Fingerprint(c, call[c].asked, ctx)
<1>1. CASE call[c].shell
  <2>1. PICK o \in log : call[c].given = <<Prefix(ContextIn(o), o.action)>> \o call[c].asked
    BY <1>1 DEF CorrelationInv, GivenAsAsked, RunsAsked
  <2>2. Command(call[c].asked)
    BY DEF CorrelationInv, CallsOK
  <2>3. Sanitized(call[c].given, ctx) = Sanitized(call[c].asked, ctx)
    BY <2>1, <2>2, SanitizedPrepended, PrefixPart
  <2>4. QED
    BY <1>1, <2>3 DEF Fingerprint, ToolAction, Digested
<1>2. CASE ~call[c].shell
  <2>1. call[c].given = call[c].asked
    BY <1>2 DEF CorrelationInv, GivenAsAsked, RunsAsked
  <2>2. QED
    BY <2>1
<1>3. QED
  BY <1>1, <1>2

-----------------------------------------------------------------------------
(* The inductive invariant *)

LEMMA CorrelationInvInit == CorrelationInit => CorrelationInv
<1> SUFFICES ASSUME CorrelationInit PROVE CorrelationInv
  OBVIOUS
<1>1. record \in State /\ Root \in Known(record) /\ fresh \in Nat
  BY ActorsAssumption
     DEF CorrelationInit, NewState, State, Known, ActorRecord, MaybeActor, AllActors
<1>2. \A c \in Calls :
        /\ call[c] \in [stage : {"new"}, actor : AllActors, turn : Turns, shell : BOOLEAN,
                         exact : BOOLEAN, asked : {<<>>}, given : {<<>>}]
        /\ call[c].asked = <<>> /\ call[c].given = <<>> /\ call[c].stage = "new"
        /\ call[c].actor \in AllActors
  BY DEF CorrelationInit
<1>3. Command(<<>>)
  BY DEF Command
<1>4. CallsOK
  BY <1>2, <1>3 DEF CorrelationInit, CallsOK, Stages
<1>5. CorrelationTypeOK
  BY <1>1, <1>2 DEF CorrelationInit, CorrelationTypeOK, Stages
<1>6. GivenAsAsked /\ LogOK /\ OwnTokensRedacted
  BY <1>2 DEF CorrelationInit, GivenAsAsked, LogOK, OwnTokensRedacted
<1>7. QED
  BY <1>1, <1>4, <1>5, <1>6 DEF CorrelationInv, RecordsOK

\* What the harness knows of a call after an event.
Became(c, stage, asked, given) ==
    [call[c] EXCEPT !.stage = stage, !.asked = asked, !.given = given]

\* The step of a hook of call c that shows command, after which the harness
\* knows the call by stage, asked and given.
LEMMA HookStep ==
  ASSUME CorrelationInv, NEW c \in Calls, NEW event \in Events, NEW hint \in Hints(c),
         NEW command, Command(command), NEW exact \in BOOLEAN,
         NEW stage \in Stages \ {"new"}, NEW asked, Command(asked), NEW given, Command(given),
         call' = [call EXCEPT ![c] = Became(c, stage, asked, given)],
         log' = log \cup {Observation(c, event, hint, command, exact)},
         UNCHANGED <<record, fresh>>,
         call[c].stage = "new" \/ asked = call[c].asked,
         Bare(asked) =>
            Fingerprint(c, command, ContextOf(record, Resolve(record, hint)))
              = Fingerprint(c, asked, ContextOf(record, Resolve(record, hint))),
         stage \in {"allowed", "permitted", "done"} => RunsAsked(c, asked, given, log')
  PROVE  CorrelationInv'
<1> DEFINE new == Observation(c, event, hint, command, exact)
<1>1. /\ new.call = c /\ new.event = event /\ new.exact = exact
      /\ new.actor \in Known(record) /\ new.actor \in AllActors
      /\ ContextIn(new) = ContextOf(record, Resolve(record, hint))
      /\ new.trace = record.trace /\ new.trace \in Nat
      /\ new.secret = record.actors[new.actor].token /\ new.secret \in Nat
      /\ exact => new.action = [trace |-> record.trace, of |-> c]
      /\ new.fingerprint = Fingerprint(c, command, ContextIn(new))
      /\ \A n \in DOMAIN new.stored :
            IsPrefix(new.stored[n])
               => new.stored[n].token # new.trace /\ new.stored[n].secret # new.secret
  BY ObservationFacts
<1> HIDE DEF new
<1>2. log' = log \cup {new}
  BY DEF new
<1>3. /\ call' = [d \in Calls |-> call'[d]]
      /\ \A d \in Calls :
            /\ call'[d].shell = call[d].shell /\ call'[d].turn = call[d].turn
            /\ d # c => call'[d] = call[d]
      /\ call'[c].stage = stage /\ call'[c].asked = asked /\ call'[c].given = given
      /\ call'[c] \in [stage : Stages, actor : AllActors, turn : Turns, shell : BOOLEAN,
                        exact : BOOLEAN, asked : {asked}, given : {given}]
  BY DEF CorrelationInv, CallsOK, Became
<1>4. CorrelationTypeOK'
  <2>1. \A d \in Calls : call'[d].stage \in Stages /\ call'[d].actor \in AllActors
    BY <1>3 DEF CorrelationInv, CorrelationTypeOK
  <2>2. QED
    BY <1>1, <1>2, <1>3, <2>1 DEF CorrelationInv, CorrelationTypeOK
<1>5. RecordsOK'
  BY DEF CorrelationInv, RecordsOK
<1>6. CallsOK'
  <2>1. ASSUME NEW d \in Calls
        PROVE /\ call'[d] \in [stage : Stages, actor : AllActors, turn : Turns, shell : BOOLEAN,
                                exact : BOOLEAN, asked : {call'[d].asked}, given : {call'[d].given}]
              /\ Command(call'[d].asked)
              /\ Command(call'[d].given)
    BY <1>3 DEF CorrelationInv, CallsOK
  <2>2. QED
    BY <1>3, <2>1 DEF CallsOK
<1>7. GivenAsAsked'
  <2>1. ASSUME NEW d \in Calls, NEW asked1, NEW given1, RunsAsked(d, asked1, given1, log')
        PROVE  RunsAsked(d, asked1, given1, log)'
    BY <1>3, <2>1 DEF RunsAsked, ContextIn
  <2>2. ASSUME NEW d \in Calls, NEW asked1, NEW given1, RunsAsked(d, asked1, given1, log)
        PROVE  RunsAsked(d, asked1, given1, log')
    BY <1>2, <2>2 DEF RunsAsked
  <2>3. ASSUME NEW d \in Calls
        PROVE  /\ call'[d].stage = "new" => \A o \in log' : o.call # d
               /\ call'[d].stage \in {"allowed", "permitted", "done"} =>
                     RunsAsked(d, call'[d].asked, call'[d].given, log')
    <3>1. CASE d = c
      BY <1>3, <3>1
    <3>2. CASE d # c
      BY <1>1, <1>2, <1>3, <2>2, <3>2 DEF CorrelationInv, GivenAsAsked
    <3>3. QED
      BY <3>1, <3>2
  <2>4. QED
    BY <2>1, <2>3 DEF GivenAsAsked
<1>8. LogOK'
  <2>1. \A d \in Calls : \A s, ctx : Fingerprint(d, s, ctx)' = Fingerprint(d, s, ctx)
    BY <1>3 DEF Fingerprint, ToolAction, Digested
  <2> SUFFICES ASSUME NEW o \in log'
               PROVE  /\ o.call \in Calls
                      /\ o.actor \in Known(record)
                      /\ o.trace = record.trace
                      /\ o.secret = record.actors[o.actor].token
                      /\ o.exact => o.action = [trace |-> record.trace, of |-> o.call]
                      /\ Bare(call'[o.call].asked) =>
                            o.fingerprint = Fingerprint(o.call, call'[o.call].asked, ContextIn(o))
    BY <1>3 DEF LogOK, ContextIn, Fingerprint, ToolAction, Digested
  <2>2. CASE o \in log
    <3>1. /\ o.call \in Calls
          /\ o.actor \in Known(record)
          /\ o.trace = record.trace
          /\ o.secret = record.actors[o.actor].token
          /\ o.exact => o.action = [trace |-> record.trace, of |-> o.call]
          /\ Bare(call[o.call].asked) =>
                o.fingerprint = Fingerprint(o.call, call[o.call].asked, ContextIn(o))
      BY <2>2 DEF CorrelationInv, LogOK
    <3>2. call'[o.call].asked = call[o.call].asked
      BY <1>3, <2>2, <3>1 DEF CorrelationInv, GivenAsAsked
    <3>3. QED
      BY <3>1, <3>2
  <2>3. CASE o = new
    BY <1>1, <1>3, <2>3
  <2>4. QED
    BY <1>2, <2>2, <2>3
<1>9. OwnTokensRedacted'
  BY <1>1, <1>2 DEF CorrelationInv, OwnTokensRedacted
<1>10. QED
  BY <1>4, <1>5, <1>6, <1>7, <1>8, <1>9 DEF CorrelationInv

\* A registration adds one actor beside the known ones.
LEMMA RegisteredBeside ==
  ASSUME NEW a \in AllActors, NEW parent \in MaybeActor, NEW id \in Nat,
         record \in State, Root \in Known(record)
  PROVE  LET new == Register(record, a, parent, id)
         IN  /\ new \in State
             /\ new.trace = record.trace
             /\ Known(record) \subseteq Known(new)
             /\ \A b \in Known(record) : new.actors[b] = record.actors[b]
<1> DEFINE rec == [token |-> id, parent |-> ParentOf(record, parent)]
           new == Register(record, a, parent, id)
<1>1. CASE a \in Known(record)
  BY <1>1 DEF Register
<1>2. CASE a \notin Known(record)
  <2>1. rec \in ActorRecord
    BY DEF ParentOf, Known, ActorRecord, MaybeActor, AllActors
  <2>2. new = [record EXCEPT !.actors[a] = rec]
    BY <1>2 DEF Register
  <2>3. /\ new \in State /\ new.trace = record.trace
        /\ \A b \in AllActors \ {a} : new.actors[b] = record.actors[b]
    BY <2>1, <2>2 DEF State
  <2>4. \A b \in Known(record) : b \in AllActors \ {a} /\ record.actors[b] # NoRecord
    BY <1>2 DEF Known
  <2>5. QED
    BY <2>3, <2>4 DEF Known
<1>3. QED
  BY <1>1, <1>2

\* A registration leaves the contexts of the known actors alone.
LEMMA SubagentStep ==
  ASSUME CorrelationInv, NEW a \in Actors, SubagentStart(a)
  PROVE  CorrelationInv'
<1>1. record \in State /\ Root \in Known(record) /\ fresh \in Nat
  BY DEF CorrelationInv, CorrelationTypeOK, RecordsOK
<1>2. a \in AllActors /\ NoActor \in MaybeActor
  BY DEF AllActors, MaybeActor
<1>3. /\ record' \in State
      /\ record'.trace = record.trace
      /\ Known(record) \subseteq Known(record')
      /\ \A b \in Known(record) : record'.actors[b] = record.actors[b]
  BY <1>1, <1>2, RegisteredBeside DEF SubagentStart
<1>4. fresh' = fresh + 1 /\ UNCHANGED <<call, log>>
  BY DEF SubagentStart
<1>5. \A o \in log :
         o.actor \in Known(record) /\ ContextOf(record', o.actor) = ContextOf(record, o.actor)
  BY <1>3 DEF CorrelationInv, LogOK, ContextOf
<1>6. CorrelationTypeOK' /\ RecordsOK'
  BY <1>1, <1>3, <1>4 DEF CorrelationInv, CorrelationTypeOK, RecordsOK
<1>7. CallsOK' /\ OwnTokensRedacted'
  BY <1>4 DEF CorrelationInv, CallsOK, OwnTokensRedacted
<1>8. GivenAsAsked'
  <2>1. ASSUME NEW c \in Calls, call[c].stage \in {"allowed", "permitted", "done"}, call[c].shell
        PROVE  \E o \in log :
                  /\ o.call = c /\ o.event = "PreToolUse"
                  /\ call[c].given = <<Prefix(ContextOf(record', o.actor), o.action)>> \o call[c].asked
    <3>1. PICK o \in log :
             /\ o.call = c /\ o.event = "PreToolUse"
             /\ call[c].given = <<Prefix(ContextOf(record, o.actor), o.action)>> \o call[c].asked
      BY <2>1 DEF CorrelationInv, GivenAsAsked, RunsAsked, ContextIn
    <3>2. ContextOf(record', o.actor) = ContextOf(record, o.actor)
      BY <1>5
    <3>3. QED
      BY <3>1, <3>2
  <2>2. \A c \in Calls :
          /\ call[c].stage = "new" => \A o \in log : o.call # c
          /\ call[c].stage \in {"allowed", "permitted", "done"} /\ ~call[c].shell
                => call[c].given = call[c].asked
    BY DEF CorrelationInv, GivenAsAsked, RunsAsked
  <2>3. QED
    BY <1>4, <2>1, <2>2 DEF GivenAsAsked, RunsAsked, ContextIn
<1>9. LogOK'
  <2> SUFFICES ASSUME NEW o \in log
               PROVE  /\ o.call \in Calls
                      /\ o.actor \in Known(record')
                      /\ o.trace = record'.trace
                      /\ o.secret = record'.actors[o.actor].token
                      /\ o.exact => o.action = [trace |-> record'.trace, of |-> o.call]
                      /\ Bare(call[o.call].asked) =>
                            o.fingerprint =
                              Fingerprint(o.call, call[o.call].asked, ContextOf(record', o.actor))
    BY <1>4 DEF LogOK, ContextIn, Fingerprint, ToolAction, Digested
  <2>1. QED
    BY <1>3, <1>5 DEF CorrelationInv, LogOK, ContextIn
<1>10. QED
  BY <1>6, <1>7, <1>8, <1>9 DEF CorrelationInv

LEMMA ProposalsAreCommands ==
  ASSUME CorrelationInv, NEW command \in Proposals
  PROVE  Command(command)
<1>1. \A s \in Seen : Command(s)
  BY DEF Seen, CorrelationInv, CallsOK
<1>2. ASSUME NEW w \in Words, NEW s \in Seen
      PROVE  Command(<<Word(w)>> \o s)
  BY <1>1, OneWord, Prepended
<1>3. \/ \E w \in Words : command = <<Word(w)>>
      \/ command \in Seen
      \/ \E w \in Words, s \in Seen : command = <<Word(w)>> \o s
  BY DEF Proposals
<1>4. QED
  BY <1>1, <1>2, <1>3, OneWord

\* The step of a hook after PreToolUse, which asks for nothing new.
LEMMA LaterHookStep ==
  ASSUME CorrelationInv, NEW c \in Calls, NEW event \in Events, NEW hint \in Hints(c), NEW command,
         command = call[c].asked \/ command = call[c].given,
         NEW exact \in BOOLEAN, NEW stage \in Stages \ {"new"},
         call[c].stage \in {"allowed", "permitted"},
         log' = log \cup {Observation(c, event, hint, command, exact)},
         call' = [call EXCEPT ![c] = Became(c, stage, call[c].asked, call[c].given)],
         UNCHANGED <<record, fresh>>
  PROVE  CorrelationInv'
<1> DEFINE wanted == call[c].asked
           runs == call[c].given
           ctx == ContextOf(record, Resolve(record, hint))
<1>1. wanted = call[c].asked
  OBVIOUS
<1>2. Command(wanted) /\ Command(runs) /\ Command(command)
  BY DEF CorrelationInv, CallsOK
<1>3. call' = [call EXCEPT ![c] = Became(c, stage, wanted, runs)]
  OBVIOUS
<1>4. Bare(wanted) => Fingerprint(c, command, ctx) = Fingerprint(c, wanted, ctx)
  BY FingerprintGiven
<1>5. RunsAsked(c, wanted, runs, log')
  BY DEF CorrelationInv, GivenAsAsked, RunsAsked
<1> HIDE DEF runs, wanted
<1>6. QED
  BY <1>1, <1>2, <1>3, <1>4, <1>5, HookStep

LEMMA CorrelationInvStep == CorrelationInv /\ [CorrelationNext]_correlationVars => CorrelationInv'
<1> SUFFICES ASSUME CorrelationInv, [CorrelationNext]_correlationVars PROVE CorrelationInv'
  OBVIOUS
<1>1. ASSUME NEW a \in Actors, SubagentStart(a) PROVE CorrelationInv'
  BY <1>1, SubagentStep
<1>2. ASSUME NEW c \in Calls, PreToolUse(c) PROVE CorrelationInv'
  <2>1. PICK hint \in Hints(c), command \in Proposals :
          LET o == Observation(c, "PreToolUse", hint, command, call[c].exact)
          IN  /\ log' = log \cup {o}
              /\ \/ call' = [call EXCEPT ![c].stage = "denied", ![c].asked = command]
                 \/ call' = [call EXCEPT ![c].stage = "allowed", ![c].asked = command,
                                         ![c].given = Rewritten(c, command, o)]
    BY <1>2 DEF PreToolUse
  <2> DEFINE o == Observation(c, "PreToolUse", hint, command, call[c].exact)
  <2>2. /\ call[c].stage = "new"
        /\ log' = log \cup {o}
        /\ UNCHANGED <<record, fresh>>
    BY <1>2, <2>1 DEF PreToolUse
  <2>3. /\ call[c].exact \in BOOLEAN
        /\ "PreToolUse" \in Events
        /\ {"denied", "allowed"} \subseteq Stages \ {"new"}
        /\ Command(call[c].given)
        /\ Command(command)
    BY ProposalsAreCommands DEF CorrelationInv, CallsOK, Events, Stages
  <2>4. CASE call' = [call EXCEPT ![c].stage = "denied", ![c].asked = command]
    <3>1. call' = [call EXCEPT ![c] = Became(c, "denied", command, call[c].given)]
      BY <2>4 DEF CorrelationInv, CallsOK, Became
    <3>2. QED
      BY <2>2, <2>3, <3>1, HookStep
  <2>5. CASE call' = [call EXCEPT ![c].stage = "allowed", ![c].asked = command,
                                  ![c].given = Rewritten(c, command, o)]
    <3> DEFINE given == Rewritten(c, command, o)
    <3>1. call' = [call EXCEPT ![c] = Became(c, "allowed", command, given)]
      BY <2>5 DEF CorrelationInv, CallsOK, Became
    <3>2. /\ o.call = c /\ o.event = "PreToolUse"
          /\ ContextIn(o) = ContextOf(record, Resolve(record, hint))
      BY DEF Observation, ContextIn, ContextOf
    <3>3. Prefix([trace |-> o.trace, actor |-> o.actor, token |-> o.secret], o.action)
            = Prefix(ContextIn(o), o.action)
      BY <3>2 DEF Prefix, Observation
    <3>4. given = IF call[c].shell THEN <<Prefix(ContextIn(o), o.action)>> \o command ELSE command
      BY <3>3 DEF Rewritten
    <3>5. Command(given)
      BY <2>3, <3>4, Prepended, PrefixPart
    <3>6. RunsAsked(c, command, given, log')
      BY <2>2, <3>2, <3>4 DEF RunsAsked
    <3> HIDE DEF given
    <3>7. QED
      BY <2>2, <2>3, <3>1, <3>5, <3>6, HookStep
  <2>6. QED
    BY <2>1, <2>4, <2>5
<1>3. ASSUME NEW c \in Calls, PermissionRequest(c) PROVE CorrelationInv'
  <2>1. PICK hint \in Hints(c), command \in {call[c].asked, call[c].given} :
          log' = log \cup {Observation(c, "PermissionRequest", hint, command, FALSE)}
    BY <1>3 DEF PermissionRequest
  <2>2. PICK stage \in {"denied", "permitted"} : call' = [call EXCEPT ![c].stage = stage]
    BY <1>3 DEF PermissionRequest
  <2>3. /\ call[c].stage \in {"allowed", "permitted"}
        /\ UNCHANGED <<record, fresh>>
        /\ stage \in Stages \ {"new"}
        /\ "PermissionRequest" \in Events /\ FALSE \in BOOLEAN
        /\ command = call[c].asked \/ command = call[c].given
    BY <1>3 DEF PermissionRequest, Stages, Events
  <2>4. call' = [call EXCEPT ![c] = Became(c, stage, call[c].asked, call[c].given)]
    BY <2>2 DEF CorrelationInv, CallsOK, Became
  <2>5. QED
    BY <2>1, <2>3, <2>4, LaterHookStep
<1>4. ASSUME NEW c \in Calls, PostToolUse(c) PROVE CorrelationInv'
  <2> DEFINE run == call[c].given
  <2>1. PICK hint \in Hints(c) :
          log' = log \cup {Observation(c, "PostToolUse", hint, run, call[c].exact)}
    BY <1>4 DEF PostToolUse
  <2>2. call' = [call EXCEPT ![c].stage = "done"]
    BY <1>4 DEF PostToolUse
  <2>3. /\ call[c].stage \in {"allowed", "permitted"}
        /\ UNCHANGED <<record, fresh>>
        /\ "done" \in Stages \ {"new"}
        /\ "PostToolUse" \in Events /\ call[c].exact \in BOOLEAN
        /\ run = call[c].given
    BY <1>4 DEF PostToolUse, Stages, Events, CorrelationInv, CallsOK
  <2> HIDE DEF run
  <2>4. call' = [call EXCEPT ![c] = Became(c, "done", call[c].asked, call[c].given)]
    BY <2>2 DEF CorrelationInv, CallsOK, Became
  <2>5. QED
    BY <2>1, <2>3, <2>4, LaterHookStep
<1>5. CASE UNCHANGED correlationVars
  <2>1. CorrelationTypeOK' /\ RecordsOK' /\ CallsOK' /\ OwnTokensRedacted'
    BY <1>5 DEF correlationVars, CorrelationInv, CorrelationTypeOK, RecordsOK, CallsOK,
                OwnTokensRedacted
  <2>2. GivenAsAsked'
    BY <1>5 DEF correlationVars, CorrelationInv, GivenAsAsked, RunsAsked, ContextIn
  <2>3. LogOK'
    BY <1>5 DEF correlationVars, CorrelationInv, LogOK, ContextIn, Fingerprint, ToolAction, Digested
  <2>4. QED
    BY <2>1, <2>2, <2>3 DEF CorrelationInv
<1>6. QED
  BY <1>1, <1>2, <1>3, <1>4, <1>5 DEF CorrelationNext

\* The inductive invariant holds throughout.
THEOREM CorrelationInvariance == Correlation => []CorrelationInv
<1>1. QED
  BY CorrelationInvInit, CorrelationInvStep, PTL DEF Correlation

-----------------------------------------------------------------------------
(* What follows from it *)

\* The variables keep their types in every behaviour.
THEOREM CorrelationTypeCorrect == Correlation => []CorrelationTypeOK
<1>1. CorrelationInv => CorrelationTypeOK
  BY DEF CorrelationInv
<1>2. QED
  BY <1>1, CorrelationInvariance, PTL

\* No stored command has the token of its session or of its own actor.
THEOREM TokensAreRedacted == Correlation => []OwnTokensRedacted
<1>1. CorrelationInv => OwnTokensRedacted
  BY DEF CorrelationInv
<1>2. QED
  BY <1>1, CorrelationInvariance, PTL

\* Observations with a tool_use_id have one action id just when they are of one
\* call, however the attribution of its events changes.
THEOREM ExactlyJoined == Correlation => []ExactJoin
<1>1. CorrelationInv => ExactJoin
  <2> SUFFICES ASSUME CorrelationInv, NEW o \in log, NEW p \in log, o.exact, p.exact
               PROVE  o.action = p.action <=> o.call = p.call
    BY DEF ExactJoin
  <2>1. /\ o.action = [trace |-> record.trace, of |-> o.call]
        /\ p.action = [trace |-> record.trace, of |-> p.call]
    BY DEF CorrelationInv, LogOK
  <2>2. QED
    BY <2>1
<1>2. QED
  BY <1>1, CorrelationInvariance, PTL

\* A request has one fingerprint, as proposed and as rewritten, and shares it
\* only with the same request.
THEOREM RequestsJoined == Correlation => []RequestJoin
<1>1. CorrelationInv => RequestJoin
  <2> SUFFICES ASSUME CorrelationInv, NEW o \in log, NEW p \in log
               PROVE  /\ (o.call = p.call /\ o.actor = p.actor /\ Plain(o.call))
                             => o.fingerprint = p.fingerprint
                      /\ (o.fingerprint = p.fingerprint /\ Plain(o.call) /\ Plain(p.call)) =>
                            LET ctx == [trace |-> o.trace, actor |-> o.actor, token |-> o.secret]
                            IN  /\ call[o.call].turn = call[p.call].turn
                                /\ Digested(o.call, call[o.call].asked, ctx)
                                      = Digested(p.call, call[p.call].asked, ctx)
    BY DEF RequestJoin
  <2>1. ASSUME NEW q \in log, Plain(q.call)
        PROVE  q.fingerprint = Fingerprint(q.call, call[q.call].asked, ContextIn(q))
    BY <2>1 DEF CorrelationInv, LogOK, Plain, Bare
  <2>2. ASSUME o.call = p.call, o.actor = p.actor, Plain(o.call)
        PROVE  o.fingerprint = p.fingerprint
    BY <2>1, <2>2 DEF ContextIn
  <2>3. ASSUME o.fingerprint = p.fingerprint, Plain(o.call), Plain(p.call)
        PROVE  LET ctx == [trace |-> o.trace, actor |-> o.actor, token |-> o.secret]
               IN  /\ call[o.call].turn = call[p.call].turn
                   /\ Digested(o.call, call[o.call].asked, ctx)
                         = Digested(p.call, call[p.call].asked, ctx)
    <3> DEFINE ctx == [trace |-> o.trace, actor |-> o.actor, token |-> o.secret]
    <3>1. /\ call[o.call].turn = call[p.call].turn
          /\ o.actor = p.actor
          /\ Digested(o.call, call[o.call].asked, ContextIn(o))
                = Digested(p.call, call[p.call].asked, ContextIn(p))
      <4>1. Fingerprint(o.call, call[o.call].asked, ContextIn(o))
              = Fingerprint(p.call, call[p.call].asked, ContextIn(p))
        BY <2>1, <2>3
      <4>2. ContextIn(o).actor = o.actor /\ ContextIn(p).actor = p.actor
        BY DEF ContextIn, ContextOf
      <4>3. QED
        BY <4>1, <4>2 DEF Fingerprint, ToolAction
    <3>2. ContextIn(o) = ContextIn(p)
      BY <3>1 DEF ContextIn
    <3>3. ContextIn(o).trace = ctx.trace /\ ContextIn(o).token = ctx.token
      BY DEF CorrelationInv, LogOK, ContextIn, ContextOf
    <3>4. \A c, command : Digested(c, command, ContextIn(o)) = Digested(c, command, ctx)
      <4>1. \A x : Redact(x, ContextIn(o)) = Redact(x, ctx)
        BY <3>3 DEF Redact
      <4>2. \A command : Sanitized(command, ContextIn(o)) = Sanitized(command, ctx)
        BY <4>1 DEF Sanitized
      <4>3. QED
        BY <4>2 DEF Digested
    <3>5. QED
      BY <3>1, <3>2, <3>4
  <2>4. QED
    BY <2>2, <2>3
<1>2. QED
  BY <1>1, CorrelationInvariance, PTL

\* What a shell call exports is what PreToolUse has logged for it.
THEOREM DescendantsAreJoined == Correlation => []DescendantsJoin
<1>1. CorrelationInv => DescendantsJoin
  <2> SUFFICES ASSUME CorrelationInv, NEW c \in Calls, call[c].shell,
                      call[c].stage \in {"allowed", "permitted", "done"}, Plain(c)
               PROVE  /\ Exports(call[c].given) # {}
                      /\ \E o \in log :
                            /\ o.call = c /\ o.event = "PreToolUse"
                            /\ Environment(call[c].given).action = o.action
                            /\ Environment(call[c].given).actor = o.actor
    BY DEF DescendantsJoin
  <2> DEFINE asked == call[c].asked
             given == call[c].given
  <2>1. PICK o \in log :
          /\ o.call = c /\ o.event = "PreToolUse"
          /\ given = <<Prefix(ContextIn(o), o.action)>> \o asked
    BY DEF CorrelationInv, GivenAsAsked, RunsAsked
  <2> DEFINE head == Prefix(ContextIn(o), o.action)
  <2>2. IsPrefix(head) /\ head.action = o.action /\ head.actor = o.actor
    BY DEF IsPrefix, Prefix, ContextIn, ContextOf
  <2>3. asked \in Seq({asked[n] : n \in DOMAIN asked}) /\ (asked = <<>> \/ ~IsPrefix(asked[1]))
    <3>1. asked \in Seq({asked[n] : n \in DOMAIN asked})
      BY DEF CorrelationInv, CallsOK, Command
    <3>2. asked = <<>> \/ ~IsPrefix(Head(asked))
      BY DEF Plain
    <3> HIDE DEF asked
    <3>3. QED
      BY <3>1, <3>2
  <2> HIDE DEF head, asked, given
  <2>4. /\ DOMAIN given = 1 .. Len(asked) + 1 /\ Len(asked) \in Nat
        /\ given[1] = head
        /\ Len(asked) >= 1 => given[2] = asked[1] /\ asked # <<>>
    BY <2>1, <2>3 DEF head
  <2>5. Exports(given) = {1}
    <3>1. 1 \in Exports(given)
      BY <2>2, <2>4 DEF Exports
    <3>2. ASSUME NEW n \in Exports(given), n # 1 PROVE FALSE
      <4>1. n \in 1 .. Len(asked) + 1 /\ n >= 2 /\ 2 \in 1 .. n /\ IsPrefix(given[2])
        BY <2>4, <3>2 DEF Exports
      <4>2. QED
        BY <2>3, <2>4, <4>1
    <3>3. QED
      BY <3>1, <3>2
  <2>6. Environment(given) = head
    BY <2>4, <2>5 DEF Environment
  <2>7. QED
    BY <2>1, <2>2, <2>5, <2>6 DEF given
<1>2. QED
  BY <1>1, CorrelationInvariance, PTL
=============================================================================
