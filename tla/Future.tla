------------------------------- MODULE Future -------------------------------
(***************************************************************************)
(* Promises and futures (src/utils/future): threads that set values, wait  *)
(* for them, with or without a timeout, and chain callbacks that the       *)
(* worker pool runs; waitAll() and waitAny() over several futures.         *)
(*                                                                         *)
(* What is done with a SharedState's mutex held never yields, so that the  *)
(* mutex shows only where it is left locked: setValue() returns early with *)
(* the lock when the state has a value or has timed out. Its callbacks and *)
(* its notify() come after the unlock.                                     *)
(***************************************************************************)
EXTENDS Naturals, FiniteSets

CONSTANT Programs   \* what an application may do: a set of the records below

VARIABLES
    prog,       \* the program
    state,      \* the SharedState of each future
    joined,     \* what has been registered: <<the new future, the one it depends on>>
    tasks,      \* what the threads and the worker pool have to do
    ctx,        \* AllContext or AnyContext of each group
    pc, got     \* where each get() is and what it returned

vars == <<prog, state, joined, tasks, ctx, pc, got>>

\* The futures whose value a task of the application sets; for the future of each then() or
\* thenVoid() the one it was called on; for that of each waitAll() or waitAny() [all,
\* members]; and for each call of get() [on, timed].
Promises == prog.promises
Thens == prog.thens
Groups == prog.groups
Getters == prog.getters
FuturesOf(p) == p.promises \cup DOMAIN p.thens \cup DOMAIN p.groups
Futures == FuturesOf(prog)

\* A future is made once, by one call, from futures that exist.
ASSUME ProgramsAssumption ==
    \A p \in Programs :
        /\ p.promises \cap DOMAIN p.thens = {} /\ p.promises \cap DOMAIN p.groups = {}
        /\ DOMAIN p.thens \cap DOMAIN p.groups = {}
        /\ \A f \in DOMAIN p.thens : p.thens[f] \in FuturesOf(p)
        /\ \A f \in DOMAIN p.groups :
             /\ p.groups[f].all \in BOOLEAN
             /\ p.groups[f].members \subseteq FuturesOf(p) /\ IsFiniteSet(p.groups[f].members)
        /\ \A g \in DOMAIN p.getters : p.getters[g].on \in FuturesOf(p) /\ p.getters[g].timed \in BOOLEAN

\* A value is the set of what it was made from; a new state's is its type's default.
Default == {"default"}

NewState == [status |-> "None", value |-> Default, locked |-> FALSE, then_callback |-> {}, waiting |-> {}]

Unlocked(f) == ~state[f].locked

----------------------------------------------------------------------------
(* Promise *)

\* setValue() up to its unlock, and the rest of it as a task of the same thread.
Late(s) == [s EXCEPT !.locked = TRUE]
Valued(s, v) == [s EXCEPT !.status = "Done", !.value = v, !.then_callback = {}]
Rest(f) == [op |-> "notify", f |-> f, calls |-> state[f].then_callback]

setValue(f, v, done) ==
    /\ Unlocked(f)
    /\ IF state[f].status # "None"
       THEN /\ state' = [state EXCEPT ![f] = Late(@)]
            /\ tasks' = tasks \ done
       ELSE /\ state' = [state EXCEPT ![f] = Valued(@, v)]
            /\ tasks' = (tasks \ done) \cup {Rest(f)}

setTimeout(f) == state' = [state EXCEPT ![f].status = "Timeout", ![f].value = Default]

\* A thread of the application sets the value.
SetValue(t) ==
    /\ t.op = "set"
    /\ setValue(t.f, {t.f}, {t})
    /\ UNCHANGED <<prog, joined, ctx, pc, got>>

\* Mutant: whoever is told of the value by a callback is not woken.
NotifyOrCall(t) ==
    /\ t.op = "notify"
    /\ tasks' = (tasks \ {t}) \cup t.calls
    /\ IF state[t.f].waiting = {} \/ t.calls # {} THEN UNCHANGED <<state, pc>>
       ELSE \E g \in state[t.f].waiting :
              /\ state' = [state EXCEPT ![t.f].waiting = @ \ {g}]
              /\ pc' = [pc EXCEPT ![g] = "woken"]
    /\ UNCHANGED <<prog, joined, ctx, got>>

\* notify() wakes one of those who wait.
Woken(f, w) == [state EXCEPT ![f].waiting = @ \ w]

Notify(t) ==
    /\ t.op = "notify"
    /\ tasks' = (tasks \ {t}) \cup t.calls
    /\ IF state[t.f].waiting = {} THEN UNCHANGED <<state, pc>>
       ELSE \E g \in state[t.f].waiting :
              /\ state' = Woken(t.f, {g})
              /\ pc' = [pc EXCEPT ![g] = "woken"]
    /\ UNCHANGED <<prog, joined, ctx, got>>

----------------------------------------------------------------------------
(* then(), thenVoid(), waitAll() and waitAny() *)

Depends(f) == IF f \in DOMAIN Thens THEN {Thens[f]} ELSE IF f \in DOMAIN Groups THEN Groups[f].members ELSE {}

\* The future can be waited for: then(), or the loop of waitAll(), has returned.
Made(f) == \A p \in Depends(f) : <<f, p>> \in joined

\* Mutant: a callback always waits for setValue().
ThenLater(f, p) ==
    /\ state' = [state EXCEPT ![p].then_callback = @ \cup {[op |-> "call", f |-> f, on |-> p]}]
    /\ UNCHANGED tasks

\* then() on a future that is Done gives its callback to the pool at once; one that has
\* timed out times out the new future, and wakes nobody who waits for it. (A group's own
\* future is not that of its thenVoid().)
then(f, p) ==
    LET call == [op |-> "call", f |-> f, on |-> p]
    IN  CASE state[p].status = "Done" -> tasks' = tasks \cup {call} /\ UNCHANGED state
          [] state[p].status = "Timeout" ->
               /\ IF f \in DOMAIN Groups THEN UNCHANGED state ELSE setTimeout(f)
               /\ UNCHANGED tasks
          [] OTHER ->
               /\ state' = [state EXCEPT ![p].then_callback = @ \cup {call}]
               /\ UNCHANGED tasks

Join(f, p) ==
    /\ <<f, p>> \notin joined /\ Made(p) /\ Unlocked(p)
    /\ then(f, p)
    /\ joined' = joined \cup {<<f, p>>}
    /\ UNCHANGED <<prog, ctx, pc, got>>

\* ExecuteTask()'s task, on a thread of the pool. It reads the status without the lock,
\* and looks at its own promise before the callback and not after it.
CallTimedOut(t) ==
    /\ t.op = "call" /\ state[t.on].status = "Timeout"
    /\ tasks' = tasks \ {t}
    /\ IF t.f \in DOMAIN Groups THEN UNCHANGED state ELSE Unlocked(t.f) /\ setTimeout(t.f)
    /\ UNCHANGED <<prog, joined, ctx, pc, got>>

CallTooLate(t) ==
    /\ t.op = "call" /\ state[t.on].status # "Timeout" /\ t.f \notin DOMAIN Groups
    /\ Unlocked(t.f) /\ state[t.f].status = "Timeout"
    /\ tasks' = tasks \ {t}
    /\ UNCHANGED <<prog, state, joined, ctx, pc, got>>

Callback(t) ==
    /\ t.op = "call" /\ state[t.on].status # "Timeout" /\ t.f \notin DOMAIN Groups
    /\ Unlocked(t.f) /\ state[t.f].status # "Timeout"
    /\ tasks' = (tasks \ {t}) \cup {[op |-> "result", f |-> t.f, value |-> state[t.on].value \cup {t.f}]}
    /\ UNCHANGED <<prog, state, joined, ctx, pc, got>>

Result(t) ==
    /\ t.op = "result"
    /\ setValue(t.f, t.value, {t})
    /\ UNCHANGED <<prog, joined, ctx, pc, got>>

\* Mutant: every callback of waitAny() sets the value.
CompleteAlways(g, c) == ~Groups[g].all \/ c.count = Cardinality(Groups[g].members)

\* The callbacks of waitAll() and waitAny(), with the context's mutex held: the last or the
\* first of them sets the group's value.
Complete(g, c) == IF Groups[g].all THEN c.count = Cardinality(Groups[g].members) ELSE c.count = 1

Member(t) ==
    /\ t.op = "call" /\ state[t.on].status # "Timeout" /\ t.f \in DOMAIN Groups
    /\ LET v == state[t.on].value
           c == [count |-> ctx[t.f].count + 1,
                 values |-> IF Groups[t.f].all THEN ctx[t.f].values \cup v ELSE v]
       IN  /\ ctx' = [ctx EXCEPT ![t.f] = c]
           /\ IF Complete(t.f, c) THEN setValue(t.f, c.values, {t})
              ELSE tasks' = tasks \ {t} /\ UNCHANGED state
    /\ UNCHANGED <<prog, joined, pc, got>>

----------------------------------------------------------------------------
(* Future::get() *)

\* Mutant: a timed get() does not look at the status again.
ReturnAny(g, s) == pc' = [pc EXCEPT ![g] = "returned"] /\ got' = [got EXCEPT ![g] = s.value]

\* What get() returns when it need not wait: the timed one says false after a timeout,
\* the other returns whatever the value is.
Return(g, s) ==
    /\ pc' = [pc EXCEPT ![g] = IF Getters[g].timed /\ s.status = "Timeout" THEN "timeout" ELSE "returned"]
    /\ got' = [got EXCEPT ![g] = s.value]

\* One round of get()'s loop, with the mutex.
get(g) ==
    LET f == Getters[g].on
    IN  IF state[f].status = "None"
        THEN /\ pc' = [pc EXCEPT ![g] = "waiting"]
             /\ state' = [state EXCEPT ![f].waiting = @ \cup {g}]
             /\ UNCHANGED got
        ELSE Return(g, state[f]) /\ UNCHANGED state

Get(g) ==
    /\ pc[g] = "start" /\ Made(Getters[g].on) /\ Unlocked(Getters[g].on)
    /\ get(g)
    /\ UNCHANGED <<prog, joined, tasks, ctx>>

GetAgain(g) ==
    /\ pc[g] = "woken" /\ Unlocked(Getters[g].on)
    /\ get(g)
    /\ UNCHANGED <<prog, joined, tasks, ctx>>

\* The wait of a timed get() is over, and then it has the mutex again: the status is
\* Timeout from now on, also when a value has come in between.
Expire(g) ==
    /\ pc[g] = "waiting" /\ Getters[g].timed
    /\ state' = Woken(Getters[g].on, {g})
    /\ pc' = [pc EXCEPT ![g] = "expired"]
    /\ UNCHANGED <<prog, joined, tasks, ctx, got>>

GiveUp(g) ==
    /\ pc[g] = "expired" /\ Unlocked(Getters[g].on)
    /\ state' = [state EXCEPT ![Getters[g].on].status = "Timeout"]
    /\ pc' = [pc EXCEPT ![g] = "timeout"]
    /\ UNCHANGED <<prog, joined, tasks, ctx, got>>

----------------------------------------------------------------------------

Init ==
    /\ prog \in Programs
    /\ state = [f \in Futures |-> NewState]
    /\ joined = {}
    /\ tasks = {[op |-> "set", f |-> p] : p \in Promises}
    /\ ctx = [g \in DOMAIN Groups |-> [count |-> 0, values |-> {}]]
    /\ pc = [g \in DOMAIN Getters |-> "start"]
    /\ got = [g \in DOMAIN Getters |-> {}]

Run(t) == Notify(t) \/ CallTimedOut(t) \/ CallTooLate(t) \/ Callback(t) \/ Result(t) \/ Member(t)
PoolStep == \E t \in tasks : Run(t)
Getting(g) == GetAgain(g) \/ GiveUp(g)
AppStep ==
    \/ \E t \in tasks : SetValue(t)
    \/ \E f \in DOMAIN Thens \cup DOMAIN Groups : \E p \in Depends(f) : Join(f, p)
    \/ \E g \in DOMAIN Getters : Get(g)

Next == AppStep \/ PoolStep \/ \E g \in DOMAIN Getters : Getting(g) \/ Expire(g)

\* The threads run: what they have begun goes on (there is only so much of it, so that
\* one condition for all is enough). Nothing makes the application set a value, register
\* or wait.
Fairness == WF_vars(PoolStep) /\ WF_vars(\E g \in DOMAIN Getters : Getting(g))

Spec == Init /\ [][Next]_vars /\ Fairness

----------------------------------------------------------------------------
(* Properties *)

\* What the value of a future may be when m says so of the ones it depends on: a promise's
\* own; for waitAll() one value of each member, for waitAny() one of one of them.
Picks(m, members) == {v \in [members -> UNION {m[x] : x \in members}] : \A x \in members : v[x] \in m[x]}
MadeFrom(p, m, f) ==
    IF f \in DOMAIN p.thens THEN {v \cup {f} : v \in m[p.thens[f]]}
    ELSE IF f \notin DOMAIN p.groups THEN {{f}}
    ELSE IF p.groups[f].all THEN {UNION {v[x] : x \in p.groups[f].members} : v \in Picks(m, p.groups[f].members)}
    ELSE UNION {m[x] : x \in p.groups[f].members}

MeaningIn(p) == LET m[f \in FuturesOf(p)] == MadeFrom(p, m, f) IN m
Meaning == MeaningIn(prog)

\* No future depends on itself, so that the recursion comes to an end.
ASSUME MeaningAssumption ==
    \A p \in Programs : \A f \in FuturesOf(p) : MeaningIn(p)[f] = MadeFrom(p, MeaningIn(p), f)

On(f) == {g \in DOMAIN Getters : Getters[g].on = f}

\* A get() returns the value its promise, or the callbacks behind it, have made. Only the
\* get() without a timeout returns anything else, and only after another get() on the same
\* future, or one it depends on, has given up.
ValueTrue ==
    \A g \in DOMAIN Getters :
        pc[g] = "returned" =>
          \/ got[g] \in Meaning[Getters[g].on]
          \/ ~Getters[g].timed /\ state[Getters[g].on].status = "Timeout"

\* A state whose mutex setValue() has left locked is one that had timed out: no promise,
\* chain, waitAll() or waitAny() sets a value twice.
LockedByTimeout == \A f \in Futures : state[f].locked => state[f].status = "Timeout"

Named == UNION {FuturesOf(p) : p \in Programs}

Over(g) == pc[g] \in {"returned", "timeout"}

\* No wake-up is lost: of those who wait for a future that gets its value, one returns.
\* (One only: notify() wakes no more.)
GetReturns ==
    \A f \in Named :
        (f \in Futures /\ state[f].status = "Done" /\ \E g \in On(f) : pc[g] = "waiting") ~> (\E g \in On(f) : Over(g))

All(f) == IF f \in DOMAIN Groups THEN Groups[f].all ELSE TRUE
Ready(f) ==
    LET done == {p \in Depends(f) : state[p].status = "Done"}
    IN  Made(f) /\ IF All(f) THEN done = Depends(f) ELSE done # {}

Settled(f) ==
    f \in Futures => state[f].status # "None" \/ \E p \in Depends(f) : state[p].status = "Timeout"

\* A callback registered before, while or after the value is set is not lost: the future
\* of then() is settled, that of waitAll() once all its members have a value, that of
\* waitAny() once one has, unless a get() on a member gives up.
ChainSettles ==
    \A f \in Named : (f \in DOMAIN Thens \cup DOMAIN Groups /\ Ready(f)) ~> Settled(f)

=============================================================================
