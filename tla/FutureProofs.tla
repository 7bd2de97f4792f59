---------------------------- MODULE FutureProofs ----------------------------
(***************************************************************************)
(* Proofs about promises and futures (Future). A callback is in one place  *)
(* at a time: registered with its future, in the hands of the thread that  *)
(* sets the value, or with the worker pool. It runs at most once, so that  *)
(* nothing sets a value twice, and what it makes is what it should.        *)
(***************************************************************************)
EXTENDS Future, FiniteSetTheorems, TLAPS

----------------------------------------------------------------------------
(* The inductive invariant *)

Call(f, p) == [op |-> "call", f |-> f, on |-> p]
DependsIn(p, f) == IF f \in DOMAIN p.thens THEN {p.thens[f]} ELSE p.groups[f].members
CallsIn(p) == {c \in [op : {"call"}, f : DOMAIN p.thens \cup DOMAIN p.groups, on : FuturesOf(p)] : c.on \in DependsIn(p, c.f)}
ValuesIn(p) == SUBSET (FuturesOf(p) \cup {"default"})
StatesIn(p) ==
    [status : {"None", "Done", "Timeout"}, value : ValuesIn(p), locked : BOOLEAN, then_callback : SUBSET CallsIn(p),
     waiting : SUBSET DOMAIN p.getters]

SetsIn(p) == [op : {"set"}, f : p.promises]
NotifiesIn(p) ==
    {n \in [op : {"notify"}, f : FuturesOf(p), calls : SUBSET CallsIn(p)] : \A c \in n.calls : c.on = n.f}
ResultsIn(p) == [op : {"result"}, f : DOMAIN p.thens, value : ValuesIn(p)]
TasksIn(p) == SetsIn(p) \cup NotifiesIn(p) \cup CallsIn(p) \cup ResultsIn(p)

Calls == CallsIn(prog)
Values == ValuesIn(prog)

\* The types of what the threads share; a future's callbacks are called on that future.
TypeInv ==
    /\ prog \in Programs
    /\ state \in [Futures -> StatesIn(prog)]
    /\ \A p \in Futures : \A c \in state[p].then_callback : c.on = p
    /\ tasks \subseteq TasksIn(prog)
    /\ ctx \in [DOMAIN Groups -> [count : Nat, values : Values]]
    /\ pc \in [DOMAIN Getters -> {"start", "waiting", "woken", "expired", "returned", "timeout"}]
    /\ got \in [DOMAIN Getters -> Values]

Status(f) == state[f].status

\* Where a callback may be: with the pool, with its future, or with the thread that has
\* set the value and has not yet given it to the pool.
Pooled(c) == c \in tasks
Kept(c) == c \in state[c.on].then_callback
Handed(c) == \E n \in tasks : n.op = "notify" /\ c \in n.calls
Pending(c) == Pooled(c) \/ Kept(c) \/ Handed(c)

\* A callback has been registered and is in one place only. One that is with the pool, or
\* on its way there, is called on a future that is settled.
CallsInv ==
    \A c \in Calls :
        /\ Pending(c) => <<c.f, c.on>> \in joined
        /\ ~(Pooled(c) /\ Kept(c)) /\ ~(Pooled(c) /\ Handed(c)) /\ ~(Kept(c) /\ Handed(c))
        /\ Pooled(c) \/ Handed(c) => Status(c.on) # "None"

\* The thread that has set a future's value is the only one to do so.
NotifyInv ==
    \A n \in tasks : n.op = "notify" =>
        /\ Status(n.f) # "None"
        /\ \A k \in tasks : k.op = "notify" /\ k.f = n.f => k = n

HasResult(f) == \E r \in tasks : r.op = "result" /\ r.f = f

\* What is to set the value of a future has not done so: the application's thread, the
\* callback of then() and its result, and the last member of waitAll(), or the first of
\* waitAny().
Threshold(g) == IF Groups[g].all THEN Cardinality(Groups[g].members) ELSE 1

SetOnce ==
    /\ \A t \in tasks : t.op \in {"set", "result"} => Status(t.f) # "Done"
    /\ \A f \in DOMAIN Thens :
         /\ Status(f) = "Done" \/ HasResult(f) => <<f, Thens[f]>> \in joined /\ ~Pending(Call(f, Thens[f]))
         /\ \A r, s \in tasks : r.op = "result" /\ s.op = "result" /\ r.f = f /\ s.f = f => r = s
    /\ \A g \in DOMAIN Groups : Status(g) = "Done" => ctx[g].count >= Threshold(g)

OnceInv == CallsInv /\ NotifyInv /\ SetOnce

\* What the context of a waitAll() holds is one value of each member that was counted, and
\* no member is counted twice.
Explains(g, ran, v) ==
    /\ ran \subseteq Groups[g].members /\ v \in [ran -> Values]
    /\ ctx[g].count = Cardinality(ran)
    /\ ctx[g].values = UNION {v[m] : m \in ran}
    /\ \A m \in ran : v[m] \in Meaning[m] /\ <<g, m>> \in joined /\ ~Pending(Call(g, m))

ValuesInv ==
    /\ \A f \in Futures : Status(f) = "Done" => state[f].value \in Meaning[f]
    /\ \A r \in tasks : r.op = "result" => r.value \in Meaning[r.f]
    /\ \A g \in DOMAIN Groups : Groups[g].all => \E ran \in SUBSET Groups[g].members : \E v \in [ran -> Values] : Explains(g, ran, v)

Inv == TypeInv /\ OnceInv /\ LockedByTimeout /\ ValuesInv /\ ValueTrue
----------------------------------------------------------------------------
(* Types *)

\* A task is of the kind its op says.
LEMMA TaskKinds ==
    ASSUME NEW p, NEW t \in TasksIn(p)
    PROVE  /\ t.op \in {"set", "notify", "call", "result"}
           /\ t.op = "set" => t \in SetsIn(p)
           /\ t.op = "notify" => t \in NotifiesIn(p)
           /\ t.op = "call" => t \in CallsIn(p)
           /\ t.op = "result" => t \in ResultsIn(p)
  BY DEF TasksIn, SetsIn, NotifiesIn, CallsIn, ResultsIn

\* What a call is made of.
LEMMA CallParts ==
    ASSUME NEW p \in Programs, NEW c \in CallsIn(p)
    PROVE  /\ c = Call(c.f, c.on) /\ c.op = "call"
           /\ c.on \in FuturesOf(p) /\ c.f \in FuturesOf(p)
           /\ c.f \in DOMAIN p.thens => c.on = p.thens[c.f]
           /\ c.f \notin DOMAIN p.thens => c.f \in DOMAIN p.groups /\ c.on \in p.groups[c.f].members
  BY DEF CallsIn, Call, DependsIn, FuturesOf

\* Every task is about a future.
LEMMA TaskFuture ==
    ASSUME NEW p \in Programs, NEW t \in TasksIn(p)
    PROVE  t.f \in FuturesOf(p)
<1>1. t.op = "set" => t.f \in FuturesOf(p)
  BY TaskKinds DEF SetsIn, FuturesOf
<1>2. t.op = "result" => t.f \in FuturesOf(p)
  BY TaskKinds DEF ResultsIn, FuturesOf
<1>3. t.op = "notify" => t.f \in FuturesOf(p)
  BY TaskKinds DEF NotifiesIn
<1>4. t.op = "call" => t.f \in FuturesOf(p)
  BY TaskKinds, CallParts
<1> QED
  BY <1>1, <1>2, <1>3, <1>4, TaskKinds

\* then() and the loops of waitAll() and waitAny() make calls.
LEMMA CallMade ==
    ASSUME NEW p \in Programs, NEW f \in DOMAIN p.thens \cup DOMAIN p.groups, NEW q \in DependsIn(p, f)
    PROVE  Call(f, q) \in CallsIn(p)
<1>1. q \in FuturesOf(p)
  BY ProgramsAssumption DEF DependsIn
<1> QED
  BY <1>1 DEF CallsIn, Call

\* What setValue() does to a SharedState keeps its type.
LEMMA StateTypes ==
    ASSUME NEW p, NEW s \in StatesIn(p), NEW v \in ValuesIn(p)
    PROVE  /\ Late(s) \in StatesIn(p) /\ Late(s).then_callback = s.then_callback
           /\ Valued(s, v) \in StatesIn(p) /\ Valued(s, v).then_callback = {}
  BY DEF StatesIn, Late, Valued

\* A step that changes one SharedState keeps the type of all.
LEMMA OneStateTypes ==
    ASSUME TypeInv, NEW f \in Futures, NEW s, state' = [state EXCEPT ![f] = s],
           s \in StatesIn(prog), \A c \in s.then_callback : c \in state[f].then_callback \/ c.on = f
    PROVE  /\ state' \in [Futures -> StatesIn(prog)]
           /\ \A p \in Futures : \A c \in state'[p].then_callback : c.on = p
  BY DEF TypeInv

\* Setting a value keeps the types.
LEMMA SetValueTypes ==
    ASSUME TypeInv, NEW t \in tasks, NEW f \in Futures, NEW v \in Values, setValue(f, v, {t}), prog' = prog
    PROVE  /\ state' \in [Futures -> StatesIn(prog)]
           /\ \A p \in Futures : \A c \in state'[p].then_callback : c.on = p
           /\ tasks' \subseteq TasksIn(prog)
<1>1. CASE Status(f) # "None"
  <2>1. state' = [state EXCEPT ![f] = Late(state[f])] /\ tasks' = tasks \ {t}
    BY <1>1 DEF setValue, Status
  <2>2. state[f] \in StatesIn(prog)
    BY DEF TypeInv
  <2>3. Late(state[f]) \in StatesIn(prog) /\ Late(state[f]).then_callback = state[f].then_callback
    BY <2>2, StateTypes DEF Values
  <2> QED
    BY <2>1, <2>3, OneStateTypes DEF TypeInv
<1>2. CASE Status(f) = "None"
  <2>1. state' = [state EXCEPT ![f] = Valued(@, v)] /\ tasks' = (tasks \ {t}) \cup {Rest(f)}
    BY <1>2 DEF setValue, Status
  <2>2. /\ state' \in [Futures -> StatesIn(prog)]
        /\ \A p \in Futures : \A c \in state'[p].then_callback : c.on = p
    <3>1. state[f] \in StatesIn(prog)
      BY DEF TypeInv
    <3>2. Valued(state[f], v) \in StatesIn(prog) /\ Valued(state[f], v).then_callback = {}
      BY <3>1, StateTypes DEF Values
    <3> QED
      BY <2>1, <3>2, OneStateTypes
  <2>3. Rest(f) \in NotifiesIn(prog)
    BY DEF TypeInv, Rest, NotifiesIn, StatesIn, Futures
  <2> QED
    BY <2>1, <2>2, <2>3 DEF TypeInv, TasksIn
<1> QED
  BY <1>1, <1>2

\* Every step keeps the types.
LEMMA TypesKept ==
    ASSUME TypeInv, Next
    PROVE  TypeInv'
<1> USE DEF Futures, Thens, Groups, Getters, Promises, Calls, Values
<1>0. prog \in Programs /\ tasks \subseteq TasksIn(prog) /\ prog' = prog
  BY DEF TypeInv, Next, AppStep, PoolStep, Run, Getting, SetValue, Join, Get, Notify, CallTimedOut, CallTooLate, Callback,
         Result, Member, GetAgain, GiveUp, Expire
<1>1. ASSUME NEW t \in tasks, SetValue(t) PROVE TypeInv'
  <2>1. t \in SetsIn(prog) /\ setValue(t.f, {t.f}, {t})
    BY <1>0, <1>1, TaskKinds DEF SetValue
  <2>2. t.f \in Futures /\ {t.f} \in Values
    BY <2>1 DEF SetsIn, FuturesOf, ValuesIn
  <2> QED
    BY <1>0, <1>1, <2>1, <2>2, SetValueTypes DEF SetValue, TypeInv
<1>2. ASSUME NEW t \in tasks, Result(t) PROVE TypeInv'
  <2>1. t \in ResultsIn(prog) /\ setValue(t.f, t.value, {t})
    BY <1>0, <1>2, TaskKinds DEF Result
  <2>2. t.f \in Futures /\ t.value \in Values
    BY <2>1 DEF ResultsIn, FuturesOf
  <2> QED
    BY <1>0, <1>2, <2>1, <2>2, SetValueTypes DEF Result, TypeInv
<1>3. ASSUME NEW t \in tasks, Member(t) PROVE TypeInv'
  <2> DEFINE w == state[t.on].value
             c == [count |-> ctx[t.f].count + 1, values |-> IF Groups[t.f].all THEN ctx[t.f].values \cup w ELSE w]
  <2>1. t \in CallsIn(prog) /\ t.f \in Futures /\ t.on \in Futures /\ t.f \in DOMAIN Groups
    BY <1>0, <1>3, TaskKinds, CallParts DEF Member
  <2>2. c \in [count : Nat, values : Values]
    BY <2>1 DEF TypeInv, StatesIn, ValuesIn
  <2>3. ctx' \in [DOMAIN Groups -> [count : Nat, values : Values]]
    BY <1>3, <2>2, <2>1 DEF Member, TypeInv
  <2>4. CASE Complete(t.f, c)
    <3>1. setValue(t.f, c.values, {t})
      BY <1>3, <2>4 DEF Member
    <3> QED
      BY <3>1, <1>0, <1>3, <2>1, <2>2, <2>3, SetValueTypes DEF Member, TypeInv
  <2>5. CASE ~Complete(t.f, c)
    BY <2>5, <1>0, <1>3, <2>3 DEF Member, TypeInv
  <2> QED
    BY <2>4, <2>5
<1>4. ASSUME NEW t \in tasks, Notify(t) PROVE TypeInv'
  <2>1. t \in NotifiesIn(prog) /\ t.f \in Futures
    BY <1>0, <1>4, TaskKinds DEF Notify, NotifiesIn
  <2>2. tasks' \subseteq TasksIn(prog)
    BY <1>0, <1>4, <2>1 DEF Notify, NotifiesIn, TasksIn
  <2>3. CASE state[t.f].waiting = {}
    BY <1>0, <1>4, <2>2, <2>3 DEF Notify, TypeInv
  <2>4. CASE state[t.f].waiting # {}
    <3>1. PICK g \in state[t.f].waiting : state' = Woken(t.f, {g}) /\ pc' = [pc EXCEPT ![g] = "woken"]
      BY <1>4, <2>4 DEF Notify
    <3> DEFINE s == [state[t.f] EXCEPT !.waiting = @ \ {g}]
    <3>2. state' = [state EXCEPT ![t.f] = s]
      BY <3>1 DEF Woken
    <3>3. state[t.f] \in StatesIn(prog) /\ state[t.f].waiting \ {g} \in SUBSET DOMAIN Getters
      BY <2>1 DEF TypeInv, StatesIn
    <3>4. s \in StatesIn(prog) /\ s.then_callback = state[t.f].then_callback
      BY <3>3 DEF StatesIn
    <3>5. /\ state' \in [Futures -> StatesIn(prog)]
          /\ \A p \in Futures : \A c \in state'[p].then_callback : c.on = p
      BY <2>1, <3>2, <3>4, OneStateTypes
    <3> QED
      BY <1>0, <1>4, <2>2, <3>1, <3>5 DEF Notify, TypeInv
  <2> QED
    BY <2>3, <2>4
<1>5. ASSUME NEW f \in DOMAIN Thens \cup DOMAIN Groups, NEW q \in Depends(f), Join(f, q) PROVE TypeInv'
  <2>1. Call(f, q) \in CallsIn(prog) /\ f \in Futures /\ q \in Futures
    BY <1>0, CallMade, ProgramsAssumption DEF Depends, DependsIn, FuturesOf
  <2>2. tasks \cup {Call(f, q)} \subseteq TasksIn(prog)
    BY <1>0, <2>1 DEF TasksIn
  <2>3. state' \in [Futures -> StatesIn(prog)] /\ \A p \in Futures : \A c \in state'[p].then_callback : c.on = p
    <3>1. state[f] \in StatesIn(prog) /\ state[q] \in StatesIn(prog) /\ Default \in ValuesIn(prog)
      BY <2>1 DEF TypeInv, Default, ValuesIn
    <3>2. CASE UNCHANGED state
      BY <3>2 DEF TypeInv
    <3>3. CASE setTimeout(f)
      <4>1. state' = [state EXCEPT ![f] = [state[f] EXCEPT !.status = "Timeout", !.value = Default]]
        BY <3>3 DEF setTimeout
      <4> DEFINE s == [state[f] EXCEPT !.status = "Timeout", !.value = Default]
      <4>2. s \in StatesIn(prog) /\ s.then_callback = state[f].then_callback
        BY <3>1 DEF StatesIn
      <4> QED
        BY <2>1, <4>1, <4>2, OneStateTypes
    <3>4. CASE state' = [state EXCEPT ![q].then_callback = @ \cup {Call(f, q)}]
      <4> DEFINE calls == state[q].then_callback \cup {Call(f, q)}
                 s == [state[q] EXCEPT !.then_callback = calls]
      <4>1. state' = [state EXCEPT ![q] = s]
        BY <3>4
      <4>a. calls \in SUBSET CallsIn(prog)
        BY <2>1, <3>1 DEF StatesIn
      <4>2. s \in StatesIn(prog) /\ s.then_callback = calls
        <5> HIDE DEF calls
        <5> QED
          BY <3>1, <4>a DEF StatesIn
      <4>3. \A c \in s.then_callback : c \in state[q].then_callback \/ c.on = q
        BY <4>2 DEF Call
      <4> HIDE DEF s
      <4> QED
        BY <2>1, <4>1, <4>2, <4>3, OneStateTypes
    <3> QED
      BY <1>5, <3>2, <3>3, <3>4 DEF Join, then, Call
  <2>4. tasks' \subseteq TasksIn(prog)
    BY <1>0, <1>5, <2>2 DEF Join, then, Call, setTimeout
  <2> QED
    BY <1>0, <1>5, <2>3, <2>4 DEF Join, TypeInv
<1>6. ASSUME NEW t \in tasks, CallTimedOut(t) \/ CallTooLate(t) PROVE TypeInv'
  <2>1. t.f \in Futures
    BY <1>0, <1>6, TaskKinds, CallParts DEF CallTimedOut, CallTooLate
  <2>2. CASE setTimeout(t.f)
    <3>1. state[t.f] \in StatesIn(prog) /\ Default \in ValuesIn(prog)
      BY <2>1 DEF TypeInv, Default, ValuesIn
    <3>2. state' = [state EXCEPT ![t.f] = [state[t.f] EXCEPT !.status = "Timeout", !.value = Default]]
      BY <2>2 DEF setTimeout
    <3> DEFINE s == [state[t.f] EXCEPT !.status = "Timeout", !.value = Default]
    <3>a. s \in StatesIn(prog) /\ s.then_callback = state[t.f].then_callback
      BY <3>1 DEF StatesIn
    <3>3. /\ state' \in [Futures -> StatesIn(prog)]
          /\ \A p \in Futures : \A c \in state'[p].then_callback : c.on = p
      BY <2>1, <3>2, <3>a, OneStateTypes
    <3> QED
      BY <1>0, <1>6, <3>3 DEF CallTimedOut, CallTooLate, TypeInv
  <2> QED
    BY <1>0, <1>6, <2>2 DEF CallTimedOut, CallTooLate, TypeInv
<1>7. ASSUME NEW t \in tasks, Callback(t) PROVE TypeInv'
  <2> DEFINE r == [op |-> "result", f |-> t.f, value |-> state[t.on].value \cup {t.f}]
  <2>1. t.f \in DOMAIN Thens /\ t.f \in Futures /\ t.on \in Futures
    BY <1>0, <1>7, TaskKinds, CallParts DEF Callback
  <2>2. r \in ResultsIn(prog)
    BY <2>1 DEF ResultsIn, TypeInv, StatesIn, ValuesIn
  <2>3. tasks' \subseteq TasksIn(prog)
    BY <1>0, <1>7, <2>2 DEF Callback, TasksIn
  <2> QED
    BY <1>0, <1>7, <2>3 DEF Callback, TypeInv
<1>8. ASSUME NEW g \in DOMAIN Getters, Get(g) \/ GetAgain(g) PROVE TypeInv'
  <2>1. Getters[g].on \in Futures
    BY <1>0, ProgramsAssumption
  <2>2. state[Getters[g].on] \in StatesIn(prog) /\ state[Getters[g].on].value \in Values
    BY <2>1 DEF TypeInv, StatesIn
  <2>3. CASE Status(Getters[g].on) = "None"
    <3>1. state' = [state EXCEPT ![Getters[g].on] = [state[Getters[g].on] EXCEPT !.waiting = @ \cup {g}]]
      BY <1>8, <2>3 DEF Get, GetAgain, get, Status
    <3>2. state[Getters[g].on].waiting \cup {g} \in SUBSET DOMAIN Getters
      BY <2>2 DEF StatesIn
    <3> DEFINE s == [state[Getters[g].on] EXCEPT !.waiting = @ \cup {g}]
    <3>a. s \in StatesIn(prog) /\ s.then_callback = state[Getters[g].on].then_callback
      BY <2>2, <3>2 DEF StatesIn
    <3>3. /\ state' \in [Futures -> StatesIn(prog)]
          /\ \A p \in Futures : \A c \in state'[p].then_callback : c.on = p
      BY <2>1, <3>1, <3>a, OneStateTypes
    <3> QED
      BY <1>0, <1>8, <2>3, <3>3 DEF Get, GetAgain, get, Status, TypeInv
  <2> QED
    BY <1>0, <1>8, <2>2, <2>3 DEF Get, GetAgain, get, Status, Return, TypeInv
<1>9. ASSUME NEW g \in DOMAIN Getters, Expire(g) \/ GiveUp(g) PROVE TypeInv'
  <2>1. Getters[g].on \in Futures
    BY <1>0, ProgramsAssumption
  <2>2. state[Getters[g].on] \in StatesIn(prog) /\ state[Getters[g].on].waiting \ {g} \in SUBSET DOMAIN Getters
    BY <2>1 DEF TypeInv, StatesIn
  <2> DEFINE s == [state[Getters[g].on] EXCEPT !.waiting = @ \ {g}]
             u == [state[Getters[g].on] EXCEPT !.status = "Timeout"]
  <2>3. state' = [state EXCEPT ![Getters[g].on] = s] \/ state' = [state EXCEPT ![Getters[g].on] = u]
    BY <1>9 DEF Expire, GiveUp, Woken
  <2>a. s \in StatesIn(prog) /\ s.then_callback = state[Getters[g].on].then_callback
    BY <2>2 DEF StatesIn
  <2>b. u \in StatesIn(prog) /\ u.then_callback = state[Getters[g].on].then_callback
    BY <2>2 DEF StatesIn
  <2>4. /\ state' \in [Futures -> StatesIn(prog)]
        /\ \A p \in Futures : \A c \in state'[p].then_callback : c.on = p
    <3> HIDE DEF s, u
    <3> QED
      BY <2>1, <2>3, <2>a, <2>b, OneStateTypes
  <2> QED
    BY <1>0, <1>9, <2>4 DEF Expire, GiveUp, TypeInv
<1> QED
  BY <1>1, <1>2, <1>3, <1>4, <1>5, <1>6, <1>7, <1>8, <1>9 DEF Next, AppStep, PoolStep, Run, Getting

----------------------------------------------------------------------------
(* Callbacks run once and values are set once *)

\* A callback that has run, or was dropped, does not come back.
NoneAgain == \A c \in Calls : <<c.f, c.on>> \in joined /\ Pending(c)' => Pending(c)

\* A step that only takes tasks away, times futures out and counts members.
LEMMA OnceKept ==
    ASSUME TypeInv, OnceInv, prog' = prog, joined' = joined, tasks' \subseteq tasks,
           \A p \in Futures : /\ Status(p)' \in {Status(p), "Timeout"}
                              /\ state'[p].then_callback = state[p].then_callback,
           \A g \in DOMAIN Groups : ctx[g].count \in Nat /\ ctx'[g].count \in Nat /\ ctx'[g].count >= ctx[g].count
    PROVE  OnceInv' /\ NoneAgain
<1> USE DEF Futures, Thens, Groups, Getters, Promises, Calls, Values
<1>0. prog \in Programs
  BY DEF TypeInv
<1>1. \A c \in Calls : c.on \in Futures /\ (Pooled(c)' => Pooled(c)) /\ (Kept(c)' <=> Kept(c)) /\ (Handed(c)' => Handed(c))
  BY <1>0, CallParts DEF Pooled, Kept, Handed
<1>2. CallsInv'
  BY <1>1 DEF OnceInv, CallsInv, Pending
<1>3. NotifyInv'
  <2>1. \A n \in tasks : n.op = "notify" => n.f \in Futures
    BY TaskKinds DEF TypeInv, NotifiesIn
  <2> QED
    BY <2>1 DEF OnceInv, NotifyInv
<1>4. SetOnce'
  <2>1. \A n \in tasks : n.op \in {"set", "result"} => n.f \in Futures
    BY TaskKinds DEF TypeInv, SetsIn, ResultsIn, FuturesOf
  <2>2. \A f \in DOMAIN Thens : f \in Futures /\ Call(f, Thens[f]) \in Calls
    BY <1>0, CallMade DEF DependsIn, FuturesOf
  <2>3. \A f \in DOMAIN Thens : Pending(Call(f, Thens[f]))' => Pending(Call(f, Thens[f]))
    BY <1>1, <2>2 DEF Pending
  <2>4. \A f \in DOMAIN Groups : f \in Futures
    BY DEF FuturesOf
  <2>5. \A t \in tasks' : t.op \in {"set", "result"} => Status(t.f)' # "Done"
    BY <2>1 DEF OnceInv, SetOnce
  <2>6. \A f \in DOMAIN Thens : Status(f)' = "Done" \/ HasResult(f)' => <<f, Thens[f]>> \in joined /\ ~Pending(Call(f, Thens[f]))'
    BY <2>2, <2>3 DEF OnceInv, SetOnce, HasResult
  <2>7. \A g \in DOMAIN Groups : Status(g)' = "Done" => ctx'[g].count >= Threshold(g)
    <3> SUFFICES ASSUME NEW g \in DOMAIN Groups, Status(g)' = "Done" PROVE ctx'[g].count >= Threshold(g)
      OBVIOUS
    <3>1. ctx[g].count >= Threshold(g)
      BY <2>4 DEF OnceInv, SetOnce
    <3>2. Threshold(g) \in Nat
      BY <1>0, ProgramsAssumption, FS_CardinalityType DEF Threshold
    <3> QED
      BY <3>1, <3>2
  <2> QED
    BY <2>5, <2>6, <2>7 DEF OnceInv, SetOnce, Threshold
<1>5. NoneAgain
  BY <1>1 DEF NoneAgain, Pending
<1> QED
  BY <1>2, <1>3, <1>4, <1>5 DEF OnceInv

\* What setValue() does with the callbacks: those of a future that gets its value go to the
\* thread that has set it.
LEMMA SetValueMoves ==
    ASSUME TypeInv, OnceInv, NEW t \in tasks, t.op # "notify", NEW f \in Futures, NEW v, setValue(f, v, {t})
    PROVE  /\ \A p \in Futures : p # f => state'[p] = state[p] /\ Status(p)' = Status(p)
           /\ Status(f)' = IF Status(f) = "None" THEN "Done" ELSE Status(f)
           /\ \A c \in Calls : Pooled(c)' <=> Pooled(c) /\ c # t
           /\ \A c \in Calls : Kept(c)' <=> Kept(c) /\ ~(c.on = f /\ Status(f) = "None")
           /\ \A c \in Calls : Handed(c)' <=> Handed(c) \/ (c.on = f /\ Status(f) = "None" /\ Kept(c))
           /\ \A u \in tasks' : (u \in tasks /\ u # t) \/ (Status(f) = "None" /\ u = Rest(f))
<1> USE DEF Futures, Calls
<1>0. prog \in Programs /\ state[f] \in StatesIn(prog) /\ DOMAIN state = Futures
  BY DEF TypeInv
<1>1. CASE Status(f) # "None"
  <2>1. state' = [state EXCEPT ![f] = Late(state[f])] /\ tasks' = tasks \ {t}
    BY <1>1 DEF setValue, Status
  <2>2. Late(state[f]).status = state[f].status /\ Late(state[f]).then_callback = state[f].then_callback
    BY <1>0 DEF Late, StatesIn
  <2> QED
    BY <1>0, <1>1, <2>1, <2>2, CallParts DEF Status, Pooled, Kept, Handed
<1>2. CASE Status(f) = "None"
  <2>1. state' = [state EXCEPT ![f] = Valued(state[f], v)] /\ tasks' = (tasks \ {t}) \cup {Rest(f)}
    BY <1>2 DEF setValue, Status
  <2>2. Valued(state[f], v).status = "Done" /\ Valued(state[f], v).then_callback = {}
    BY <1>0 DEF Valued, StatesIn
  <2>3. Rest(f).op = "notify" /\ Rest(f).calls = state[f].then_callback /\ \A c \in Calls : c # Rest(f)
    BY <1>0, CallParts DEF Rest
  <2>4. \A c \in Calls : Kept(c)' <=> Kept(c) /\ c.on # f
    BY <1>0, <2>1, <2>2, CallParts DEF Kept
  <2>5. \A c \in state[f].then_callback : c.on = f
    BY DEF TypeInv
  <2>6. \A c \in Calls : Handed(c)' <=> Handed(c) \/ (c.on = f /\ Kept(c))
    BY <2>1, <2>3, <2>5 DEF Handed, Kept
  <2>7. \A c \in Calls : Pooled(c)' <=> Pooled(c) /\ c # t
    BY <2>1, <2>3 DEF Pooled
  <2>8. (\A p \in Futures : p # f => state'[p] = state[p] /\ Status(p)' = Status(p)) /\ Status(f)' = "Done"
    BY <1>0, <2>1, <2>2 DEF Status
  <2> QED
    BY <1>2, <2>1, <2>4, <2>6, <2>7, <2>8
<1> QED
  BY <1>1, <1>2

\* Setting a value keeps the invariant where nothing else is to set it: of a future of
\* then() the callback has run, and a group's members have been counted.
LEMMA SetValueOnce ==
    ASSUME TypeInv, OnceInv, NEW t \in tasks, t.op # "notify", NEW f \in Futures, NEW v, setValue(f, v, {t}),
           prog' = prog, joined' = joined,
           \A u \in tasks : u.op \in {"set", "result"} /\ u.f = f => u = t,
           f \in DOMAIN Thens => <<f, Thens[f]>> \in joined /\ ~Pending(Call(f, Thens[f])),
           \A g \in DOMAIN Groups : ctx[g].count \in Nat /\ ctx'[g].count \in Nat /\ ctx'[g].count >= ctx[g].count,
           f \in DOMAIN Groups => ctx'[f].count >= Threshold(f)
    PROVE  OnceInv' /\ NoneAgain
<1> USE DEF Futures, Thens, Groups, Getters, Promises, Calls, Values
<1>0. prog \in Programs
  BY DEF TypeInv
<1> DEFINE set == Status(f) = "None"
<1>1. /\ \A p \in Futures : p # f => Status(p)' = Status(p)
      /\ Status(f)' = IF set THEN "Done" ELSE Status(f)
      /\ \A c \in Calls : Pooled(c)' <=> Pooled(c) /\ c # t
      /\ \A c \in Calls : Kept(c)' <=> Kept(c) /\ ~(c.on = f /\ set)
      /\ \A c \in Calls : Handed(c)' <=> Handed(c) \/ (c.on = f /\ set /\ Kept(c))
      /\ \A u \in tasks' : (u \in tasks /\ u # t) \/ (set /\ u = Rest(f))
  BY SetValueMoves
<1>2. \A c \in Calls : c.on \in Futures /\ (Pending(c)' => Pending(c))
  BY <1>0, <1>1, CallParts DEF Pending
<1>3. \A n \in tasks : n.f \in Futures
  BY <1>0, TaskFuture DEF TypeInv
<1>4. CallsInv'
  BY <1>1, <1>2 DEF OnceInv, CallsInv
<1>5. NotifyInv'
  <2>1. Rest(f).f = f /\ Rest(f).op = "notify"
    BY DEF Rest
  <2>2. \A n \in tasks : n.op = "notify" => Status(n.f) # "None" /\ Status(n.f)' # "None"
    BY <1>1, <1>3 DEF OnceInv, NotifyInv
  <2>3. \A n \in tasks' : n.op = "notify" => Status(n.f)' # "None"
    BY <1>1, <2>1, <2>2
  <2>4. \A n, k \in tasks' : n.op = "notify" /\ k.op = "notify" /\ k.f = n.f => k = n
    BY <1>1, <2>1, <2>2 DEF OnceInv, NotifyInv
  <2> QED
    BY <2>3, <2>4 DEF NotifyInv
<1>6. SetOnce'
  <2>1. Rest(f).op = "notify"
    BY DEF Rest
  <2>2. \A u \in tasks' : u.op \in {"set", "result"} => u \in tasks /\ u.f # f
    BY <1>1, <2>1
  <2>3. \A u \in tasks' : u.op \in {"set", "result"} => Status(u.f)' # "Done"
    BY <1>1, <1>3, <2>2 DEF OnceInv, SetOnce
  <2>4. \A g \in DOMAIN Thens : g \in Futures /\ Call(g, Thens[g]) \in Calls
    BY <1>0, CallMade DEF DependsIn, FuturesOf
  <2>5. \A g \in DOMAIN Thens : Status(g)' = "Done" \/ HasResult(g)' =>
                                  <<g, Thens[g]>> \in joined /\ ~Pending(Call(g, Thens[g]))
    BY <1>1, <2>2, <2>4 DEF OnceInv, SetOnce, HasResult
  <2>6. \A g \in DOMAIN Thens : Status(g)' = "Done" \/ HasResult(g)' =>
                                  <<g, Thens[g]>> \in joined /\ ~Pending(Call(g, Thens[g]))'
    BY <1>2, <2>4, <2>5
  <2>7. \A g \in DOMAIN Groups : Status(g)' = "Done" => ctx'[g].count >= Threshold(g)
    <3> SUFFICES ASSUME NEW g \in DOMAIN Groups, Status(g)' = "Done", g # f PROVE ctx'[g].count >= Threshold(g)
      OBVIOUS
    <3>1. ctx[g].count >= Threshold(g)
      BY <1>1 DEF OnceInv, SetOnce, FuturesOf
    <3>2. Threshold(g) \in Nat
      BY <1>0, ProgramsAssumption, FS_CardinalityType DEF Threshold
    <3> QED
      BY <3>1, <3>2
  <2>8. \A g \in DOMAIN Thens : \A r, s \in tasks' : r.op = "result" /\ s.op = "result" /\ r.f = g /\ s.f = g => r = s
    BY <2>2 DEF OnceInv, SetOnce
  <2> QED
    BY <2>3, <2>6, <2>7, <2>8 DEF SetOnce, Threshold
<1>7. NoneAgain
  BY <1>2 DEF NoneAgain
<1> QED
  BY <1>4, <1>5, <1>6, <1>7 DEF OnceInv

\* What a callback that has run leaves behind: its result, which is the only one.
LEMMA CallbackOnce ==
    ASSUME TypeInv, OnceInv, NEW t \in tasks, Callback(t)
    PROVE  OnceInv' /\ NoneAgain
<1> USE DEF Futures, Thens, Groups, Getters, Promises, Calls, Values
<1> DEFINE r == [op |-> "result", f |-> t.f, value |-> state[t.on].value \cup {t.f}]
<1>0. prog \in Programs /\ prog' = prog /\ joined' = joined /\ state' = state /\ ctx' = ctx /\ tasks' = (tasks \ {t}) \cup {r}
  BY DEF TypeInv, Callback
<1>1. t \in Calls /\ t.f \in DOMAIN Thens /\ t = Call(t.f, Thens[t.f]) /\ t.f \in Futures /\ t.on \in Futures
  BY <1>0, TaskKinds, CallParts DEF Callback, TypeInv
<1>2. r.op = "result" /\ r.f = t.f /\ \A c \in Calls : c # r
  BY <1>0, CallParts
<1> HIDE DEF r
<1>3. \A c \in Calls : (Pooled(c)' <=> Pooled(c) /\ c # t) /\ (Kept(c)' <=> Kept(c)) /\ (Handed(c)' <=> Handed(c))
  <2>1. t.op = "call"
    BY DEF Callback
  <2> QED
    BY <1>0, <1>2, <2>1 DEF Pooled, Kept, Handed
<1>4. CallsInv'
  BY <1>0, <1>3 DEF OnceInv, CallsInv, Pending, Status
<1>5. NotifyInv'
  BY <1>0, <1>2 DEF OnceInv, NotifyInv, Status
<1>6. ~Pending(t)' /\ Pending(t)
  BY <1>1, <1>3 DEF Pending, Pooled, OnceInv, CallsInv
<1>7. <<t.f, Thens[t.f]>> \in joined /\ ~HasResult(t.f) /\ Status(t.f) # "Done"
  <2>1. <<t.f, t.on>> \in joined
    BY <1>1, <1>6 DEF OnceInv, CallsInv
  <2>2. t.on = Thens[t.f]
    BY <1>0, <1>1, CallParts
  <2> QED
    BY <1>1, <1>6, <2>1, <2>2 DEF OnceInv, SetOnce
<1>8. SetOnce'
  <2>1. \A u \in tasks' : u.op \in {"set", "result"} => Status(u.f)' # "Done"
    BY <1>0, <1>2, <1>7 DEF OnceInv, SetOnce, Status
  <2>2. \A g \in DOMAIN Thens : g \in Futures /\ Call(g, Thens[g]) \in Calls
    BY <1>0, CallMade DEF DependsIn, FuturesOf
  <2>3. \A g \in DOMAIN Thens : HasResult(g)' => HasResult(g) \/ g = t.f
    BY <1>0, <1>2 DEF HasResult
  <2>4. \A g \in DOMAIN Thens : Status(g)' = "Done" \/ HasResult(g)' => <<g, Thens[g]>> \in joined /\ ~Pending(Call(g, Thens[g]))'
    <3> SUFFICES ASSUME NEW g \in DOMAIN Thens, Status(g)' = "Done" \/ HasResult(g)'
                 PROVE  <<g, Thens[g]>> \in joined /\ ~Pending(Call(g, Thens[g]))'
      OBVIOUS
    <3>1. CASE g = t.f
      <4>1. Call(g, Thens[g]) = t /\ Call(g, Thens[g])' = t
        BY <1>0, <1>1, <3>1 DEF Call
      <4> QED
        BY <3>1, <1>0, <1>6, <1>7, <4>1 DEF Pending, Pooled, Kept, Handed
    <3>2. CASE g # t.f
      BY <3>2, <1>0, <1>3, <2>2, <2>3 DEF OnceInv, SetOnce, Pending, Status
    <3> QED
      BY <3>1, <3>2
  <2>5. \A g \in DOMAIN Thens : \A u, s \in tasks' : u.op = "result" /\ s.op = "result" /\ u.f = g /\ s.f = g => u = s
    BY <1>0, <1>1, <1>2, <1>7 DEF OnceInv, SetOnce, HasResult
  <2>6. \A g \in DOMAIN Groups : Status(g)' = "Done" => ctx'[g].count >= Threshold(g)
    BY <1>0 DEF OnceInv, SetOnce, Status
  <2> QED
    BY <1>0, <2>1, <2>4, <2>5, <2>6 DEF SetOnce, Threshold
<1>9. NoneAgain
  BY <1>3 DEF NoneAgain, Pending
<1> QED
  BY <1>4, <1>5, <1>8, <1>9 DEF OnceInv

\* The thread that has set a value gives the callbacks to the pool.
LEMMA NotifyOnce ==
    ASSUME TypeInv, OnceInv, NEW t \in tasks, Notify(t)
    PROVE  OnceInv' /\ NoneAgain
<1> USE DEF Futures, Thens, Groups, Getters, Promises, Calls, Values
<1>0. /\ prog \in Programs /\ prog' = prog /\ joined' = joined /\ ctx' = ctx /\ tasks' = (tasks \ {t}) \cup t.calls
      /\ t \in NotifiesIn(prog) /\ t.op = "notify" /\ t.calls \subseteq Calls /\ \A c \in t.calls : c.on = t.f
  BY TaskKinds DEF TypeInv, Notify, NotifiesIn
<1>1. \A p \in Futures : Status(p)' = Status(p) /\ state'[p].then_callback = state[p].then_callback
  <2>1. CASE UNCHANGED state
    BY <2>1 DEF Status
  <2>2. ASSUME NEW g, state' = Woken(t.f, {g})
        PROVE  \A p \in Futures : Status(p)' = Status(p) /\ state'[p].then_callback = state[p].then_callback
    <3>1. state[t.f] \in StatesIn(prog) /\ DOMAIN state = Futures
      BY <1>0 DEF TypeInv, NotifiesIn
    <3> QED
      BY <2>2, <3>1 DEF Woken, Status, StatesIn
  <2> QED
    BY <2>1, <2>2 DEF Notify
<1>2. \A c \in Calls : c.op = "call" /\ c.on \in Futures
  BY <1>0, CallParts
<1>3. \A c \in Calls : /\ Pooled(c)' <=> Pooled(c) \/ c \in t.calls
                       /\ Kept(c)' <=> Kept(c)
                       /\ Handed(c) <=> Handed(c)' \/ c \in t.calls
                       /\ Handed(c)' => c \notin t.calls
  <2>1. \A c \in Calls : Pooled(c)' <=> Pooled(c) \/ c \in t.calls
    BY <1>0, <1>2 DEF Pooled
  <2>2. \A c \in Calls : Kept(c)' <=> Kept(c)
    BY <1>1, <1>2 DEF Kept
  <2>3. \A c \in Calls : Handed(c) <=> Handed(c)' \/ c \in t.calls
    BY <1>0, <1>2 DEF Handed
  <2>4. ASSUME NEW c \in Calls, Handed(c)' PROVE c \notin t.calls
    <3>1. PICK n \in tasks' : n.op = "notify" /\ c \in n.calls
      BY <2>4 DEF Handed
    <3>2. n \in tasks /\ n # t
      BY <1>0, <1>2, <3>1
    <3>3. n \in NotifiesIn(prog)
      BY <3>1, <3>2, TaskKinds DEF TypeInv
    <3>4. n.f = c.on
      BY <3>1, <3>3 DEF NotifiesIn
    <3> QED
      BY <1>0, <3>1, <3>2, <3>4 DEF OnceInv, NotifyInv
  <2> QED
    BY <2>1, <2>2, <2>3, <2>4
<1>4. \A c \in Calls : Pending(c)' <=> Pending(c)
  BY <1>3 DEF Pending
<1>5. CallsInv'
  BY <1>0, <1>1, <1>2, <1>3, <1>4 DEF OnceInv, CallsInv
<1>6. \A u \in tasks : u.f \in Futures
  BY <1>0, TaskFuture DEF TypeInv
<1>7. NotifyInv'
  BY <1>0, <1>1, <1>2, <1>6 DEF OnceInv, NotifyInv
<1>8. SetOnce'
  <2>1. \A u \in tasks' : u.op \in {"set", "result"} => u \in tasks
    BY <1>0, <1>2
  <2>2. \A u \in tasks' : u.op \in {"set", "result"} => Status(u.f)' # "Done"
    BY <1>1, <1>6, <2>1 DEF OnceInv, SetOnce
  <2>3. \A g \in DOMAIN Thens : g \in Futures /\ Call(g, Thens[g]) \in Calls
    BY <1>0, CallMade DEF DependsIn, FuturesOf
  <2>4. \A g \in DOMAIN Thens : Status(g)' = "Done" \/ HasResult(g)' => <<g, Thens[g]>> \in joined /\ ~Pending(Call(g, Thens[g]))'
    BY <1>0, <1>1, <1>4, <2>1, <2>3 DEF OnceInv, SetOnce, HasResult
  <2>5. \A g \in DOMAIN Thens : \A u, s \in tasks' : u.op = "result" /\ s.op = "result" /\ u.f = g /\ s.f = g => u = s
    BY <2>1 DEF OnceInv, SetOnce
  <2>6. \A g \in DOMAIN Groups : Status(g)' = "Done" => ctx'[g].count >= Threshold(g)
    BY <1>0, <1>1 DEF OnceInv, SetOnce, FuturesOf
  <2> QED
    BY <1>0, <2>2, <2>4, <2>5, <2>6 DEF SetOnce, Threshold
<1>9. NoneAgain
  BY <1>4 DEF NoneAgain
<1> QED
  BY <1>5, <1>7, <1>8, <1>9 DEF OnceInv

\* then() registers a callback that was nowhere before.
LEMMA JoinOnce ==
    ASSUME TypeInv, OnceInv, NEW f \in DOMAIN Thens \cup DOMAIN Groups, NEW q \in Depends(f), Join(f, q)
    PROVE  OnceInv' /\ NoneAgain
<1> USE DEF Futures, Thens, Groups, Getters, Promises, Calls, Values
<1> DEFINE c0 == Call(f, q)
<1>0. prog \in Programs /\ prog' = prog /\ joined' = joined \cup {<<f, q>>} /\ <<f, q>> \notin joined /\ ctx' = ctx
  BY DEF TypeInv, Join
<1>1. c0 \in Calls /\ c0.f = f /\ c0.on = q /\ c0.op = "call" /\ f \in Futures /\ q \in Futures
  BY <1>0, CallMade, ProgramsAssumption DEF Depends, DependsIn, FuturesOf, Call
<1>2. ~Pending(c0)
  BY <1>0, <1>1 DEF OnceInv, CallsInv
<1>3. /\ tasks' = tasks \/ (tasks' = tasks \cup {c0} /\ Status(q) # "None" /\ state' = state)
      /\ \A p \in Futures : /\ Status(p)' \in {Status(p), "Timeout"}
                            /\ \/ state'[p].then_callback = state[p].then_callback
                               \/ p = q /\ state'[p].then_callback = state[p].then_callback \cup {c0} /\ tasks' = tasks
  <2>1. state[f] \in StatesIn(prog) /\ state[q] \in StatesIn(prog) /\ DOMAIN state = Futures
    BY <1>1 DEF TypeInv
  <2>2. CASE Status(q) = "Done"
    BY <2>2 DEF Join, then, Call, Status
  <2>3. CASE Status(q) = "Timeout"
    <3>1. tasks' = tasks
      BY <2>3 DEF Join, then, Status
    <3>2. CASE UNCHANGED state
      BY <3>1, <3>2 DEF Status
    <3>3. CASE setTimeout(f)
      BY <2>1, <3>1, <3>3 DEF Status, setTimeout, StatesIn
    <3> QED
      BY <2>3, <3>2, <3>3 DEF Join, then, Status
  <2>4. CASE Status(q) \notin {"Done", "Timeout"}
    <3>1. tasks' = tasks /\ state' = [state EXCEPT ![q].then_callback = @ \cup {c0}]
      BY <2>4 DEF Join, then, Status, Call
    <3> HIDE DEF c0
    <3> QED
      BY <2>1, <3>1 DEF Status, StatesIn
  <2> QED
    BY <2>2, <2>3, <2>4
<1> HIDE DEF c0
<1>4. \A c \in Calls : c.on \in Futures /\ (c = c0 <=> c.f = f /\ c.on = q)
  BY <1>0, <1>1, CallParts DEF Call
<1>5. \A c \in Calls : c # c0 => (Pooled(c)' <=> Pooled(c)) /\ (Kept(c)' <=> Kept(c)) /\ (Handed(c)' <=> Handed(c))
  <2>1. \A c \in Calls : c # c0 => (Pooled(c)' <=> Pooled(c)) /\ (Handed(c)' <=> Handed(c))
    BY <1>1, <1>3 DEF Pooled, Handed
  <2>2. \A c \in Calls : c # c0 => (Kept(c)' <=> Kept(c))
    BY <1>3, <1>4 DEF Kept
  <2> QED
    BY <2>1, <2>2
<1>6. /\ ~Handed(c0)' /\ ~(Pooled(c0)' /\ Kept(c0)')
      /\ Pooled(c0)' => Status(q)' # "None"
  <2>1. ~Handed(c0)'
    BY <1>1, <1>2, <1>3 DEF Handed, Pending
  <2>2. ~(Pooled(c0)' /\ Kept(c0)')
    BY <1>1, <1>2, <1>3 DEF Pooled, Kept, Pending
  <2>3. Pooled(c0)' => Status(q)' # "None"
    BY <1>1, <1>2, <1>3 DEF Pooled, Pending, Status
  <2> QED
    BY <2>1, <2>2, <2>3
<1>7. CallsInv'
  <2> SUFFICES ASSUME NEW c \in Calls
               PROVE  (/\ Pending(c) => <<c.f, c.on>> \in joined
                       /\ ~(Pooled(c) /\ Kept(c)) /\ ~(Pooled(c) /\ Handed(c)) /\ ~(Kept(c) /\ Handed(c))
                       /\ Pooled(c) \/ Handed(c) => Status(c.on) # "None")'
    BY <1>0 DEF CallsInv
  <2>1. CASE c = c0
    BY <1>0, <1>1, <1>6, <2>1
  <2>2. CASE c # c0
    BY <1>0, <1>3, <1>4, <1>5, <2>2 DEF OnceInv, CallsInv, Pending
  <2> QED
    BY <2>1, <2>2
<1>8. \A u \in tasks : u.f \in Futures
  BY <1>0, TaskFuture DEF TypeInv
<1>9. NotifyInv'
  BY <1>1, <1>3, <1>8 DEF OnceInv, NotifyInv
<1>10. SetOnce'
  <2>1. \A u \in tasks' : u.op \in {"set", "result"} => u \in tasks
    BY <1>1, <1>3
  <2>2. \A u \in tasks' : u.op \in {"set", "result"} => Status(u.f)' # "Done"
    BY <1>3, <1>8, <2>1 DEF OnceInv, SetOnce
  <2>3. \A g \in DOMAIN Thens : g \in Futures /\ Call(g, Thens[g]) \in Calls /\ Call(g, Thens[g])' = Call(g, Thens[g])
    BY <1>0, CallMade DEF DependsIn, FuturesOf, Call
  <2>4. \A g \in DOMAIN Thens : Status(g)' = "Done" \/ HasResult(g)' => <<g, Thens[g]>> \in joined /\ ~Pending(Call(g, Thens[g]))
    BY <1>3, <2>1, <2>3 DEF OnceInv, SetOnce, HasResult
  <2>5. ASSUME NEW g \in DOMAIN Thens, <<g, Thens[g]>> \in joined, ~Pending(Call(g, Thens[g]))
        PROVE  ~Pending(Call(g, Thens[g]))'
    <3>1. Call(g, Thens[g]) # c0
      BY <1>0, <1>1, <2>5 DEF Call
    <3> QED
      BY <1>0, <1>5, <2>3, <2>5, <3>1 DEF Pending
  <2>6. \A g \in DOMAIN Thens : \A u, s \in tasks' : u.op = "result" /\ s.op = "result" /\ u.f = g /\ s.f = g => u = s
    BY <2>1 DEF OnceInv, SetOnce
  <2>7. \A g \in DOMAIN Groups : Status(g)' = "Done" => ctx'[g].count >= Threshold(g)
    BY <1>0, <1>3 DEF OnceInv, SetOnce, FuturesOf
  <2> QED
    BY <1>0, <2>2, <2>4, <2>5, <2>6, <2>7 DEF SetOnce, Threshold
<1>11. NoneAgain
  BY <1>0, <1>1, <1>5 DEF NoneAgain, Pending
<1> QED
  BY <1>7, <1>9, <1>10, <1>11 DEF OnceInv

\* What a step that sets a value knows: it is the only one that does.
LEMMA Setters ==
    ASSUME TypeInv, OnceInv, NEW t \in tasks
    PROVE  /\ t.op = "set" \/ t.op = "result" =>
                /\ t.f \in Futures /\ Status(t.f) # "Done" /\ t.f \notin DOMAIN Groups
                /\ \A u \in tasks : u.op \in {"set", "result"} /\ u.f = t.f => u = t
                /\ t.f \in DOMAIN Thens => <<t.f, Thens[t.f]>> \in joined /\ ~Pending(Call(t.f, Thens[t.f]))
           /\ t.op = "call" /\ t.f \in DOMAIN Groups =>
                /\ t.f \in Futures /\ t.f \notin DOMAIN Thens
                /\ \A u \in tasks : u.op \in {"set", "result"} => u.f # t.f
                /\ ctx[t.f].count \in Nat /\ Threshold(t.f) \in Nat
                /\ ctx[t.f].count + 1 = Threshold(t.f) => Status(t.f) # "Done"
<1> USE DEF Futures, Thens, Groups, Promises
<1>0. prog \in Programs /\ t.f \in Futures
  BY TaskFuture DEF TypeInv
<1>1. \A u \in tasks : u.op = "set" => u.f \in Promises /\ u = [op |-> "set", f |-> u.f]
  BY TaskKinds DEF TypeInv, SetsIn
<1>2. \A u \in tasks : u.op = "result" => u.f \in DOMAIN Thens
  BY TaskKinds DEF TypeInv, ResultsIn
<1>3. /\ Promises \cap DOMAIN Thens = {} /\ Promises \cap DOMAIN Groups = {}
      /\ DOMAIN Thens \cap DOMAIN Groups = {}
  BY <1>0, ProgramsAssumption
<1>4. CASE t.op = "set"
  BY <1>0, <1>1, <1>2, <1>3, <1>4 DEF OnceInv, SetOnce
<1>5. CASE t.op = "result"
  BY <1>0, <1>1, <1>2, <1>3, <1>5 DEF OnceInv, SetOnce, HasResult
<1>6. CASE t.op = "call" /\ t.f \in DOMAIN Groups
  <2>1. Threshold(t.f) \in Nat /\ ctx[t.f].count \in Nat
    BY <1>0, <1>6, ProgramsAssumption, FS_CardinalityType DEF Threshold, TypeInv
  <2>2. Status(t.f) = "Done" => ctx[t.f].count >= Threshold(t.f)
    BY <1>6 DEF OnceInv, SetOnce
  <2> QED
    BY <1>0, <1>1, <1>2, <1>3, <1>6, <2>1, <2>2
<1> QED
  BY <1>4, <1>5, <1>6, TaskKinds DEF TypeInv

\* Setting a value leaves the mutex locked only where the state has timed out.
LEMMA SetValueLocks ==
    ASSUME TypeInv, LockedByTimeout, NEW f \in Futures, Status(f) # "Done", NEW v, NEW done, setValue(f, v, done), prog' = prog
    PROVE  LockedByTimeout'
<1>1. state[f] \in StatesIn(prog) /\ DOMAIN state = Futures /\ Status(f) \in {"None", "Timeout"}
  BY DEF TypeInv, StatesIn, Status
<1>2. CASE Status(f) = "Timeout"
  BY <1>1, <1>2 DEF setValue, Status, Late, LockedByTimeout, Futures, StatesIn
<1>3. CASE Status(f) = "None"
  BY <1>1, <1>3 DEF setValue, Status, Valued, LockedByTimeout, Futures, StatesIn, Unlocked
<1> QED
  BY <1>1, <1>2, <1>3

\* So does every other change: a status only goes to Timeout, and no mutex is left locked.
LEMMA LocksKept ==
    ASSUME TypeInv, LockedByTimeout, prog' = prog,
           \A p \in Futures : state'[p].locked = state[p].locked /\ Status(p)' \in {Status(p), "Timeout"}
    PROVE  LockedByTimeout'
  BY DEF LockedByTimeout, Status, Futures

\* The effect of the steps that do not set a value on the status, the mutex and the callbacks.
LEMMA QuietStates ==
    ASSUME TypeInv,
           \/ \E f \in Futures : setTimeout(f)
           \/ \E f \in Futures : \E w : state' = Woken(f, w) \/ state' = [state EXCEPT ![f].waiting = @ \cup w]
           \/ \E f \in Futures : state' = [state EXCEPT ![f].status = "Timeout"]
           \/ UNCHANGED state
    PROVE  \A p \in Futures : /\ state'[p].locked = state[p].locked /\ Status(p)' \in {Status(p), "Timeout"}
                              /\ state'[p].then_callback = state[p].then_callback
                              /\ Status(p)' # "Timeout" => state'[p].value = state[p].value
<1>1. \A f \in Futures : state[f] \in StatesIn(prog) /\ DOMAIN state = Futures
  BY DEF TypeInv
<1>2. CASE \E f \in Futures : setTimeout(f)
  BY <1>1, <1>2 DEF setTimeout, Status, StatesIn
<1>3. CASE \E f \in Futures : \E w : state' = Woken(f, w) \/ state' = [state EXCEPT ![f].waiting = @ \cup w]
  BY <1>1, <1>3 DEF Woken, Status, StatesIn
<1>4. CASE \E f \in Futures : state' = [state EXCEPT ![f].status = "Timeout"]
  BY <1>1, <1>4 DEF Status, StatesIn
<1>5. CASE UNCHANGED state
  BY <1>5 DEF Status
<1> QED
  BY <1>2, <1>3, <1>4, <1>5

\* The invariant about callbacks, the mutexes, and that a future stays timed out.
LEMMA OnceStep ==
    ASSUME TypeInv, OnceInv, LockedByTimeout, Next
    PROVE  OnceInv' /\ NoneAgain /\ LockedByTimeout' /\ \A p \in Futures : Status(p) = "Timeout" => Status(p)' = "Timeout"
<1> DEFINE Goal == OnceInv' /\ NoneAgain /\ LockedByTimeout' /\ \A p \in Futures : Status(p) = "Timeout" => Status(p)' = "Timeout"
<1> DEFINE Counted == \A g \in DOMAIN Groups : ctx[g].count \in Nat /\ ctx'[g].count \in Nat /\ ctx'[g].count >= ctx[g].count
           Enough(f) == f \in DOMAIN Groups => ctx'[f].count >= Threshold(f)
<1>0. prog \in Programs /\ (ctx' = ctx => Counted)
  BY DEF TypeInv, Groups
<1>1. ASSUME NEW t \in tasks, t.op # "notify", NEW f \in Futures, NEW v, setValue(f, v, {t}), Status(f) # "Done",
             prog' = prog, joined' = joined,
             \A u \in tasks : u.op \in {"set", "result"} /\ u.f = f => u = t,
             f \in DOMAIN Thens => <<f, Thens[f]>> \in joined /\ ~Pending(Call(f, Thens[f])),
             Counted, Enough(f)
      PROVE  Goal
  <2>1. OnceInv' /\ NoneAgain
    BY <1>1, SetValueOnce
  <2>2. LockedByTimeout'
    BY <1>1, SetValueLocks
  <2>3. \A p \in Futures : Status(p) = "Timeout" => Status(p)' = "Timeout"
    BY <1>1, SetValueMoves
  <2> QED
    BY <2>1, <2>2, <2>3
<1>2. ASSUME prog' = prog, joined' = joined, tasks' \subseteq tasks,
             \A p \in Futures : /\ state'[p].locked = state[p].locked /\ Status(p)' \in {Status(p), "Timeout"}
                                /\ state'[p].then_callback = state[p].then_callback,
             Counted
      PROVE  Goal
  <2>1. OnceInv' /\ NoneAgain
    BY <1>2, OnceKept
  <2>2. LockedByTimeout'
    BY <1>2, LocksKept
  <2> QED
    BY <1>2, <2>1, <2>2
<1>3. ASSUME NEW t \in tasks, SetValue(t) \/ Result(t) PROVE Goal
  <2>1. /\ t.op # "notify" /\ prog' = prog /\ joined' = joined /\ ctx' = ctx
        /\ t.op = "set" \/ t.op = "result"
    BY <1>3 DEF SetValue, Result
  <2>2. PICK v : setValue(t.f, v, {t})
    BY <1>3 DEF SetValue, Result
  <2>3. /\ t.f \in Futures /\ Status(t.f) # "Done" /\ t.f \notin DOMAIN Groups
        /\ \A u \in tasks : u.op \in {"set", "result"} /\ u.f = t.f => u = t
        /\ t.f \in DOMAIN Thens => <<t.f, Thens[t.f]>> \in joined /\ ~Pending(Call(t.f, Thens[t.f]))
    BY <2>1, Setters
  <2>4. Enough(t.f) /\ Counted
    BY <1>0, <2>1, <2>3
  <2> HIDE DEF Goal, Counted, Enough
  <2> QED
    BY <1>1, <2>1, <2>2, <2>3, <2>4
<1>4. ASSUME NEW t \in tasks, Member(t) PROVE Goal
  <2> DEFINE w == state[t.on].value
             c == [count |-> ctx[t.f].count + 1, values |-> IF Groups[t.f].all THEN ctx[t.f].values \cup w ELSE w]
  <2>1. /\ t.op = "call" /\ t.f \in DOMAIN Groups /\ prog' = prog /\ joined' = joined
        /\ ctx' = [ctx EXCEPT ![t.f] = c]
        /\ IF Complete(t.f, c) THEN setValue(t.f, c.values, {t}) ELSE tasks' = tasks \ {t} /\ UNCHANGED state
    BY <1>4 DEF Member
  <2>2. DOMAIN ctx = DOMAIN Groups
    BY DEF TypeInv
  <2>3. Counted
    BY <2>1, <2>2 DEF TypeInv
  <2>4. CASE Complete(t.f, c)
    <3>1. ctx'[t.f].count = Threshold(t.f) /\ ctx'[t.f].count = ctx[t.f].count + 1 /\ ctx'[t.f].count >= Threshold(t.f)
      BY <2>1, <2>2, <2>3, <2>4 DEF Complete, Threshold
    <3>2. setValue(t.f, c.values, {t})
      BY <2>1, <2>4
    <3>3. t.f \in Futures /\ t.f \notin DOMAIN Thens /\ (\A u \in tasks : u.op \in {"set", "result"} => u.f # t.f) /\ Status(t.f) # "Done"
      BY <2>1, <3>1, Setters
    <3>4. PICK v : setValue(t.f, v, {t})
      BY <3>2
    <3>5. t.op # "notify" /\ prog' = prog /\ joined' = joined
      BY <2>1
    <3>6. Enough(t.f)
      BY <3>1
    <3> HIDE DEF Goal, c, Counted, Enough
    <3> QED
      BY <1>1, <2>3, <3>3, <3>4, <3>5, <3>6
  <2>5. CASE ~Complete(t.f, c)
    <3>1. tasks' \subseteq tasks /\ state' = state
      BY <2>1, <2>5
    <3> QED
      BY <1>2, <2>1, <2>3, <3>1, QuietStates
  <2> QED
    BY <2>4, <2>5
<1>5. ASSUME NEW t \in tasks, Notify(t) PROVE Goal
  <2>1. OnceInv' /\ NoneAgain
    BY <1>5, NotifyOnce
  <2>2. t.f \in Futures
    BY <1>0, TaskFuture DEF TypeInv, Futures
  <2>3. prog' = prog /\ (UNCHANGED state \/ \E g : state' = Woken(t.f, {g}))
    BY <1>5 DEF Notify
  <2>4. \A p \in Futures : state'[p].locked = state[p].locked /\ Status(p)' \in {Status(p), "Timeout"}
    BY <2>2, <2>3, QuietStates
  <2> QED
    BY <2>1, <2>3, <2>4, LocksKept
<1>6. ASSUME NEW f \in DOMAIN Thens \cup DOMAIN Groups, NEW q \in Depends(f), Join(f, q) PROVE Goal
  <2>1. OnceInv' /\ NoneAgain
    BY <1>6, JoinOnce
  <2>2. f \in Futures /\ q \in Futures /\ prog' = prog
    BY <1>0, <1>6, ProgramsAssumption DEF Join, Depends, Futures, FuturesOf, Thens, Groups
  <2>3. \A p \in Futures : state'[p].locked = state[p].locked /\ Status(p)' \in {Status(p), "Timeout"}
    <3>1. CASE UNCHANGED state \/ setTimeout(f)
      BY <2>2, <3>1, QuietStates
    <3>2. ASSUME NEW c, state' = [state EXCEPT ![q].then_callback = c]
          PROVE  \A p \in Futures : state'[p].locked = state[p].locked /\ Status(p)' \in {Status(p), "Timeout"}
      <4>1. state[q] \in StatesIn(prog) /\ DOMAIN state = Futures
        BY <2>2 DEF TypeInv
      <4> QED
        BY <2>2, <3>2, <4>1 DEF Status, StatesIn
    <3>3. (UNCHANGED state \/ setTimeout(f)) \/ \E c : state' = [state EXCEPT ![q].then_callback = c]
      BY <1>6 DEF Join, then
    <3> QED
      BY <3>1, <3>2, <3>3
  <2> QED
    BY <2>1, <2>2, <2>3, LocksKept
<1>7. ASSUME NEW t \in tasks, CallTimedOut(t) \/ CallTooLate(t) PROVE Goal
  <2>1. t.f \in Futures
    BY <1>0, TaskFuture DEF TypeInv, Futures
  <2>2. /\ prog' = prog /\ joined' = joined /\ ctx' = ctx /\ tasks' \subseteq tasks
        /\ UNCHANGED state \/ setTimeout(t.f)
    BY <1>7 DEF CallTimedOut, CallTooLate
  <2> QED
    BY <1>0, <1>2, <2>1, <2>2, QuietStates
<1>8. ASSUME NEW t \in tasks, Callback(t) PROVE Goal
  <2>1. state' = state /\ prog' = prog
    BY <1>8 DEF Callback
  <2> QED
    BY <1>8, <2>1, CallbackOnce, QuietStates, LocksKept
<1>9. ASSUME NEW g \in DOMAIN Getters, Get(g) \/ GetAgain(g) \/ Expire(g) \/ GiveUp(g) PROVE Goal
  <2>1. Getters[g].on \in Futures
    BY <1>0, ProgramsAssumption DEF Futures, Getters
  <2>2. /\ prog' = prog /\ joined' = joined /\ ctx' = ctx /\ tasks' = tasks
        /\ \/ UNCHANGED state
           \/ state' = Woken(Getters[g].on, {g}) \/ state' = [state EXCEPT ![Getters[g].on].waiting = @ \cup {g}]
           \/ state' = [state EXCEPT ![Getters[g].on].status = "Timeout"]
    BY <1>9 DEF Get, GetAgain, get, Expire, GiveUp
  <2> QED
    BY <1>0, <1>2, <2>1, <2>2, QuietStates
<1> QED
  BY <1>3, <1>4, <1>5, <1>6, <1>7, <1>8, <1>9 DEF Next, AppStep, PoolStep, Run, Getting

----------------------------------------------------------------------------
(* Values *)

\* The rules by which values are made.
LEMMA MeaningRules ==
    ASSUME NEW p \in Programs, NEW f \in FuturesOf(p)
    PROVE  /\ f \in p.promises => {f} \in MeaningIn(p)[f]
           /\ f \in DOMAIN p.thens => \A v \in MeaningIn(p)[p.thens[f]] : v \cup {f} \in MeaningIn(p)[f]
           /\ f \in DOMAIN p.groups /\ ~p.groups[f].all =>
                \A m \in p.groups[f].members : \A v \in MeaningIn(p)[m] : v \in MeaningIn(p)[f]
<1> DEFINE M == MeaningIn(p)
<1>1. M[f] = MadeFrom(p, M, f)
  BY MeaningAssumption
<1>2. p.promises \cap DOMAIN p.thens = {} /\ p.promises \cap DOMAIN p.groups = {} /\ DOMAIN p.thens \cap DOMAIN p.groups = {}
  BY ProgramsAssumption
<1> HIDE DEF M
<1>3. f \in p.promises => {f} \in M[f]
  BY <1>1, <1>2 DEF MadeFrom
<1>4. f \in DOMAIN p.thens => \A v \in M[p.thens[f]] : v \cup {f} \in M[f]
  BY <1>1 DEF MadeFrom
<1>5. f \in DOMAIN p.groups /\ ~p.groups[f].all => \A m \in p.groups[f].members : \A v \in M[m] : v \in M[f]
  BY <1>1, <1>2 DEF MadeFrom
<1> QED
  BY <1>3, <1>4, <1>5 DEF M

\* The rule for waitAll(): one value of each member.
LEMMA MeaningOfAll ==
    ASSUME NEW p \in Programs, NEW f \in DOMAIN p.groups, p.groups[f].all, NEW S, NEW w \in [p.groups[f].members -> S],
           \A m \in p.groups[f].members : w[m] \in MeaningIn(p)[m],
           NEW value, value = UNION {w[m] : m \in p.groups[f].members}
    PROVE  value \in MeaningIn(p)[f]
<1> DEFINE M == MeaningIn(p)
           ms == p.groups[f].members
<1>1. M[f] = MadeFrom(p, M, f)
  BY MeaningAssumption DEF FuturesOf
<1>2. DOMAIN p.thens \cap DOMAIN p.groups = {}
  BY ProgramsAssumption
<1>3. w \in Picks(M, ms)
  <2>1. \A m \in ms : w[m] \in UNION {M[x] : x \in ms}
    OBVIOUS
  <2>2. w \in [ms -> UNION {M[x] : x \in ms}]
    BY <2>1
  <2> QED
    BY <2>2 DEF Picks
<1>4. M[f] = {UNION {v[x] : x \in ms} : v \in Picks(M, ms)}
  BY <1>1, <1>2 DEF MadeFrom
<1> HIDE DEF M
<1> QED
  BY <1>3, <1>4 DEF M

\* What a waitAll() has counted stays explained while it counts nothing.
LEMMA ExplainedKept ==
    ASSUME TypeInv, ValuesInv, NoneAgain, prog' = prog, joined \subseteq joined', NEW g \in DOMAIN Groups, Groups[g].all,
           ctx'[g] = ctx[g]
    PROVE  \E ran \in SUBSET Groups[g].members : \E v \in [ran -> Values] : Explains(g, ran, v)'
<1> USE DEF Futures, Thens, Groups, Getters, Promises, Calls, Values, Meaning
<1>0. prog \in Programs
  BY DEF TypeInv
<1>1. PICK ran \in SUBSET Groups[g].members : \E v \in [ran -> Values] : Explains(g, ran, v)
  BY DEF ValuesInv
<1>2. PICK v \in [ran -> Values] : Explains(g, ran, v)
  BY <1>1
<1>3. g \notin DOMAIN Thens
  BY <1>0, ProgramsAssumption
<1>4. \A m \in ran : Call(g, m) \in Calls /\ Call(g, m).f = g /\ Call(g, m).on = m
  BY <1>0, <1>3, CallMade DEF DependsIn, Call
<1>5. \A m \in ran : ~Pending(Call(g, m))' /\ <<g, m>> \in joined'
  BY <1>2, <1>4 DEF Explains, NoneAgain
<1>6. Explains(g, ran, v)'
  BY <1>0, <1>2, <1>5 DEF Explains
<1> QED
  BY <1>6

\* A step that counts no member keeps the invariant about values where what it adds is right.
LEMMA ValuesKept ==
    ASSUME TypeInv, ValuesInv, NoneAgain, prog' = prog, ctx' = ctx, joined \subseteq joined',
           \A f \in Futures : Status(f)' = "Done" => state'[f].value \in Meaning[f],
           \A r \in tasks' : r.op = "result" => r \in tasks \/ r.value \in Meaning[r.f]
    PROVE  ValuesInv'
<1> USE DEF Futures, Thens, Groups, Getters, Promises, Calls, Values, Meaning
<1>1. \A f \in Futures : Status(f)' = "Done" => state'[f].value \in Meaning[f]
  OBVIOUS
<1>2. \A r \in tasks' : r.op = "result" => r.value \in Meaning[r.f]
  BY DEF ValuesInv
<1>3. ASSUME NEW g \in DOMAIN Groups, Groups[g].all
      PROVE  \E ran \in SUBSET Groups[g].members : \E v \in [ran -> Values] : Explains(g, ran, v)'
  BY <1>3, ExplainedKept
<1> QED
  BY <1>1, <1>2, <1>3 DEF ValuesInv

\* A member's callback that adds its value to those of a waitAll().
LEMMA MemberExplained ==
    ASSUME TypeInv, OnceInv, ValuesInv, NoneAgain, NEW t \in tasks, Member(t), Groups[t.f].all, ~Pending(t)'
    PROVE  \E ran \in SUBSET Groups[t.f].members : \E v \in [ran -> Values] : Explains(t.f, ran, v)'
<1> USE DEF Futures, Thens, Groups, Getters, Promises, Calls, Values, Meaning
<1> DEFINE g == t.f
           m == t.on
           w == state[m].value
<1>0. /\ prog \in Programs /\ prog' = prog /\ joined' = joined /\ t.op = "call" /\ g \in DOMAIN Groups /\ Status(m) # "Timeout"
      /\ ctx'[g].count = ctx[g].count + 1 /\ ctx'[g].values = ctx[g].values \cup w
  BY DEF TypeInv, Member, Status
<1>1. t \in Calls /\ t = Call(g, m) /\ m \in Futures /\ g \notin DOMAIN Thens /\ m \in Groups[g].members
  BY <1>0, TaskKinds, CallParts, ProgramsAssumption DEF TypeInv
<1>2. Pending(t) /\ <<g, m>> \in joined /\ Status(m) = "Done"
  <2>1. Pooled(t)
    BY DEF Pooled
  <2>2. Status(m) \in {"None", "Done", "Timeout"}
    BY <1>1 DEF TypeInv, StatesIn, Status
  <2> QED
    BY <1>0, <1>1, <2>1, <2>2 DEF OnceInv, CallsInv, Pending
<1>3. w \in Meaning[m] /\ w \in Values
  BY <1>1, <1>2 DEF ValuesInv, TypeInv, StatesIn
<1>4. PICK ran \in SUBSET Groups[g].members : \E v \in [ran -> Values] : Explains(g, ran, v)
  BY <1>0 DEF ValuesInv
<1>5. PICK v \in [ran -> Values] : Explains(g, ran, v)
  BY <1>4
<1>6. m \notin ran
  BY <1>1, <1>2, <1>5 DEF Explains
<1> DEFINE ran1 == ran \cup {m}
           v1 == [x \in ran1 |-> IF x = m THEN w ELSE v[x]]
<1>7. IsFiniteSet(ran)
  <2>1. IsFiniteSet(Groups[g].members)
    BY <1>0, ProgramsAssumption
  <2> QED
    BY <1>4, <2>1, FS_Subset
<1>8. Cardinality(ran1) = Cardinality(ran) + 1
  BY <1>6, <1>7, FS_AddElement
<1>9. ran1 \in SUBSET Groups[g].members /\ v1 \in [ran1 -> Values]
  BY <1>1, <1>3
<1>10. ctx[g].values \cup w = UNION {v1[x] : x \in ran1}
  <2>1. ctx[g].values = UNION {v[x] : x \in ran}
    BY <1>5 DEF Explains
  <2>2. v1[m] = w /\ \A x \in ran : v1[x] = v[x]
    BY <1>6
  <2>3. m \in ran1 /\ ran \subseteq ran1 /\ \A x \in ran1 : x = m \/ x \in ran
    OBVIOUS
  <2> HIDE DEF v1, ran1, w, m, g
  <2>4. ASSUME NEW y \in ctx[g].values \cup w PROVE y \in UNION {v1[x] : x \in ran1}
    BY <2>1, <2>2, <2>3
  <2>5. ASSUME NEW y \in UNION {v1[x] : x \in ran1} PROVE y \in ctx[g].values \cup w
    BY <2>1, <2>2, <2>3
  <2> QED
    BY <2>4, <2>5
<1>11. \A x \in ran1 : v1[x] \in Meaning[x] /\ <<g, x>> \in joined' /\ ~Pending(Call(g, x))'
  <2>1. \A x \in ran : Call(g, x) \in Calls /\ Call(g, x).f = g /\ Call(g, x).on = x
    BY <1>0, <1>1, CallMade DEF DependsIn, Call
  <2>2. \A x \in ran : v1[x] \in Meaning[x] /\ <<g, x>> \in joined' /\ ~Pending(Call(g, x))'
    BY <1>0, <1>5, <1>6, <2>1 DEF Explains, NoneAgain
  <2>3. v1[m] \in Meaning[m] /\ <<g, m>> \in joined' /\ ~Pending(Call(g, m))'
    <3>1. v1[m] \in Meaning[m] /\ <<g, m>> \in joined'
      BY <1>0, <1>2, <1>3
    <3>2. ~Pending(Call(g, m))'
      BY <1>1 DEF Pending, Pooled, Kept, Handed
    <3> QED
      BY <3>1, <3>2
  <2> QED
    BY <2>2, <2>3
<1>12. PICK u : u = v1
  OBVIOUS
<1>13. Explains(g, ran1, u)'
  <2> HIDE DEF v1, w, m
  <2>1. ctx'[g].count = Cardinality(ran1) /\ ctx'[g].values = UNION {u[x] : x \in ran1}
    BY <1>0, <1>5, <1>8, <1>10, <1>12 DEF Explains
  <2>2. ran1 \subseteq Groups[g].members /\ u \in [ran1 -> Values] /\
        \A x \in ran1 : u[x] \in Meaning[x] /\ <<g, x>> \in joined' /\ ~Pending(Call(g, x))'
    BY <1>9, <1>11, <1>12
  <2> HIDE DEF ran1
  <2> QED
    BY <1>0, <2>1, <2>2 DEF Explains
<1> QED
  <2>1. u \in [ran1 -> Values] /\ ran1 \in SUBSET Groups[g].members
    BY <1>9, <1>12
  <2> HIDE DEF ran1
  <2> QED
    BY <2>1, <1>13

\* A member's callback, whether or not it completes its group.
LEMMA MemberValues ==
    ASSUME TypeInv, TypeInv', OnceInv, ValuesInv, NoneAgain, NEW t \in tasks, Member(t)
    PROVE  ValuesInv'
<1> USE DEF Futures, Thens, Groups, Getters, Promises, Calls, Values, Meaning
<1> DEFINE g == t.f
           m == t.on
           w == state[m].value
           c == [count |-> ctx[g].count + 1, values |-> IF Groups[g].all THEN ctx[g].values \cup w ELSE w]
<1>0. /\ prog \in Programs /\ prog' = prog /\ joined' = joined /\ t.op = "call" /\ g \in DOMAIN Groups /\ Status(m) # "Timeout"
      /\ ctx' = [ctx EXCEPT ![g] = c]
      /\ IF Complete(g, c) THEN setValue(g, c.values, {t}) ELSE tasks' = tasks \ {t} /\ UNCHANGED state
  BY DEF TypeInv, Member, Status
<1>1. t \in Calls /\ m \in Futures /\ g \in Futures /\ g \notin DOMAIN Thens /\ m \in Groups[g].members
  BY <1>0, TaskKinds, CallParts, ProgramsAssumption DEF TypeInv
<1>2. Pooled(t) /\ ~Kept(t) /\ ~Handed(t) /\ Status(m) = "Done"
  <2>1. Pooled(t)
    BY DEF Pooled
  <2>2. Status(m) \in {"None", "Done", "Timeout"}
    BY <1>1 DEF TypeInv, StatesIn, Status
  <2> QED
    BY <1>0, <1>1, <2>1, <2>2 DEF OnceInv, CallsInv
<1>3. w \in Meaning[m]
  BY <1>1, <1>2 DEF ValuesInv
<1>4. ctx'[g] = c /\ \A h \in DOMAIN Groups : h # g => ctx'[h] = ctx[h]
  BY <1>0 DEF TypeInv
<1> HIDE DEF c, w
<1>5. ~Pending(t)'
  <2>1. CASE Complete(g, c)
    BY <1>0, <1>1, <1>2, <2>1, SetValueMoves DEF Pending
  <2>2. CASE ~Complete(g, c)
    BY <1>0, <1>1, <1>2, <2>2 DEF Pending, Pooled, Kept, Handed
  <2> QED
    BY <2>1, <2>2
<1>6. ASSUME NEW h \in DOMAIN Groups, Groups[h].all
      PROVE  \E ran \in SUBSET Groups[h].members : \E v \in [ran -> Values] : Explains(h, ran, v)'
  <2>1. CASE h = g
    BY <1>5, <1>6, <2>1, MemberExplained
  <2>2. CASE h # g
    BY <1>0, <1>4, <1>6, <2>2, ExplainedKept
  <2> QED
    BY <2>1, <2>2
<1>7. ASSUME Complete(g, c)
      PROVE  c.values \in Meaning[g]
  <2>1. CASE ~Groups[g].all
    <3>1. c.values = w
      BY <2>1 DEF c
    <3> QED
      BY <1>0, <1>1, <1>3, <2>1, <3>1, MeaningRules
  <2>2. CASE Groups[g].all
    <3>1. PICK ran \in SUBSET Groups[g].members : \E v \in [ran -> Values] : Explains(g, ran, v)'
      BY <1>0, <1>6, <2>2
    <3>2. PICK v \in [ran -> Values] : Explains(g, ran, v)'
      BY <3>1
    <3>3. Cardinality(ran) = Cardinality(Groups[g].members)
      BY <1>0, <1>4, <1>7, <2>2, <3>2 DEF Explains, Complete
    <3>4. ran = Groups[g].members
      <4>1. IsFiniteSet(Groups[g].members)
        BY <1>0, ProgramsAssumption
      <4> QED
        BY <3>1, <3>3, <4>1, FS_Subset
    <3>5. c.values = UNION {v[x] : x \in Groups[g].members} /\ \A x \in Groups[g].members : v[x] \in Meaning[x]
      BY <1>0, <1>4, <3>2, <3>4 DEF Explains
    <3>6. v \in [Groups[g].members -> Values]
      BY <3>4
    <3> QED
      BY <1>0, <2>2, <3>5, <3>6, MeaningOfAll
  <2> QED
    BY <2>1, <2>2
<1>8. \A f \in Futures : Status(f)' = "Done" => state'[f].value \in Meaning[f]
  <2>1. CASE ~Complete(g, c)
    BY <1>0, <2>1 DEF ValuesInv, Status
  <2>2. CASE Complete(g, c) /\ Status(g) # "None"
    <3>1. state' = [state EXCEPT ![g] = Late(state[g])]
      BY <1>0, <2>2 DEF setValue, Status
    <3>2. state[g] \in StatesIn(prog) /\ DOMAIN state = Futures
      BY <1>1 DEF TypeInv
    <3> QED
      BY <3>1, <3>2 DEF ValuesInv, Status, Late, StatesIn
  <2>3. CASE Complete(g, c) /\ Status(g) = "None"
    <3>1. state' = [state EXCEPT ![g] = Valued(state[g], c.values)]
      BY <1>0, <2>3 DEF setValue, Status
    <3>2. state[g] \in StatesIn(prog) /\ DOMAIN state = Futures
      BY <1>1 DEF TypeInv
    <3> QED
      BY <1>7, <2>3, <3>1, <3>2 DEF ValuesInv, Status, Valued, StatesIn
  <2> QED
    BY <2>1, <2>2, <2>3
<1>9. \A r \in tasks' : r.op = "result" => r.value \in Meaning[r.f]
  BY <1>0 DEF setValue, Rest, ValuesInv
<1> QED
  BY <1>0, <1>6, <1>8, <1>9 DEF ValuesInv

\* setValue() with a value that the future may have.
LEMMA SetValueTrue ==
    ASSUME TypeInv, ValuesInv, NEW f \in Futures, NEW v \in Meaning[f], NEW done, setValue(f, v, done)
    PROVE  /\ \A p \in Futures : Status(p)' = "Done" => state'[p].value \in Meaning[p]
           /\ \A r \in tasks' : r.op = "result" => r \in tasks
<1>1. state[f] \in StatesIn(prog) /\ DOMAIN state = Futures
  BY DEF TypeInv
<1>2. CASE Status(f) # "None"
  <2>1. state' = [state EXCEPT ![f] = Late(state[f])] /\ tasks' = tasks \ done
    BY <1>2 DEF setValue, Status
  <2>2. Late(state[f]).status = state[f].status /\ Late(state[f]).value = state[f].value
    BY <1>1 DEF Late, StatesIn
  <2> QED
    BY <1>1, <2>1, <2>2 DEF Status, ValuesInv
<1>3. CASE Status(f) = "None"
  <2>1. state' = [state EXCEPT ![f] = Valued(state[f], v)] /\ tasks' = (tasks \ done) \cup {Rest(f)}
    BY <1>3 DEF setValue, Status
  <2>2. Valued(state[f], v).value = v /\ Rest(f).op = "notify"
    BY <1>1 DEF Valued, StatesIn, Rest
  <2> QED
    BY <1>1, <2>1, <2>2 DEF Status, ValuesInv
<1> QED
  BY <1>2, <1>3

\* Every step makes only values that the futures may have.
LEMMA ValuesStep ==
    ASSUME TypeInv, TypeInv', OnceInv, ValuesInv, NoneAgain, Next
    PROVE  ValuesInv'
<1> USE DEF Futures, Thens, Groups, Getters, Promises, Calls, Values, Meaning
<1>0. prog \in Programs /\ tasks \subseteq TasksIn(prog)
  BY DEF TypeInv
<1>1. ASSUME prog' = prog, ctx' = ctx, joined \subseteq joined', NEW f \in Futures, NEW v \in Meaning[f], NEW done, setValue(f, v, done)
      PROVE  ValuesInv'
  BY <1>1, SetValueTrue, ValuesKept
<1>2. ASSUME prog' = prog, ctx' = ctx, joined \subseteq joined', \A r \in tasks' : r.op = "result" => r \in tasks,
             \A p \in Futures : /\ Status(p)' \in {Status(p), "Timeout"}
                                /\ Status(p)' # "Timeout" => state'[p].value = state[p].value
      PROVE  ValuesInv'
  <2>1. \A p \in Futures : Status(p)' = "Done" => state'[p].value \in Meaning[p]
    BY <1>2 DEF ValuesInv
  <2> QED
    BY <1>2, <2>1, ValuesKept
<1>3. ASSUME NEW t \in tasks, SetValue(t) PROVE ValuesInv'
  <2>1. prog' = prog /\ ctx' = ctx /\ joined' = joined /\ setValue(t.f, {t.f}, {t}) /\ t.f \in Promises
    BY <1>0, <1>3, TaskKinds DEF SetValue, SetsIn
  <2>2. t.f \in Futures
    BY <2>1 DEF FuturesOf
  <2>3. {t.f} \in Meaning[t.f]
    BY <1>0, <2>1, <2>2, MeaningRules
  <2> QED
    BY <1>1, <2>1, <2>2, <2>3
<1>4. ASSUME NEW t \in tasks, Result(t) PROVE ValuesInv'
  <2>1. prog' = prog /\ ctx' = ctx /\ joined' = joined /\ setValue(t.f, t.value, {t}) /\ t.f \in Futures /\ t.value \in Meaning[t.f]
    BY <1>0, <1>4, TaskFuture DEF Result, ValuesInv
  <2> QED
    BY <1>1, <2>1
<1>5. ASSUME NEW t \in tasks, Callback(t) PROVE ValuesInv'
  <2> DEFINE r == [op |-> "result", f |-> t.f, value |-> state[t.on].value \cup {t.f}]
  <2>1. /\ prog' = prog /\ ctx' = ctx /\ joined' = joined /\ state' = state /\ tasks' = (tasks \ {t}) \cup {r}
        /\ t.op = "call" /\ Status(t.on) # "Timeout"
    BY <1>5 DEF Callback, Status
  <2>2. t \in Calls /\ t.on \in Futures /\ t.f \in Futures /\ t.f \in DOMAIN Thens /\ t.on = Thens[t.f]
    BY <1>0, <1>5, TaskKinds, CallParts DEF Callback
  <2>3. Status(t.on) = "Done"
    <3>1. Status(t.on) # "None"
      BY <2>2 DEF OnceInv, CallsInv, Pooled
    <3>2. Status(t.on) \in {"None", "Done", "Timeout"}
      BY <2>2 DEF TypeInv, StatesIn, Status
    <3> QED
      BY <2>1, <3>1, <3>2
  <2>4. state[t.on].value \in Meaning[t.on]
    BY <2>2, <2>3 DEF ValuesInv
  <2>5. state[t.on].value \cup {t.f} \in Meaning[t.f]
    BY <1>0, <2>2, <2>4, MeaningRules
  <2>6. \A u \in tasks' : u.op = "result" => u \in tasks \/ u.value \in Meaning[u.f]
    <3>1. r.f = t.f /\ r.value = state[t.on].value \cup {t.f} /\ \A u \in tasks' : u \in tasks \/ u = r
      BY <2>1
    <3> HIDE DEF r
    <3> QED
      BY <2>5, <3>1
  <2>7. \A p \in Futures : Status(p)' = "Done" => state'[p].value \in Meaning[p]
    BY <2>1 DEF ValuesInv, Status
  <2> QED
    BY <2>1, <2>6, <2>7, ValuesKept
<1>6. ASSUME NEW t \in tasks, Notify(t) PROVE ValuesInv'
  <2>0. t \in NotifiesIn(prog)
    BY <1>0, <1>6, TaskKinds DEF Notify
  <2>1. t.f \in Futures /\ \A c \in t.calls : c.op = "call"
    BY <1>0, <2>0, CallParts DEF NotifiesIn
  <2>2. /\ prog' = prog /\ ctx' = ctx /\ joined' = joined /\ (UNCHANGED state \/ \E g : state' = Woken(t.f, {g}))
        /\ \A r \in tasks' : r.op = "result" => r \in tasks
    BY <1>6, <2>1 DEF Notify
  <2> QED
    BY <1>2, <2>1, <2>2, QuietStates
<1>7. ASSUME NEW f \in DOMAIN Thens \cup DOMAIN Groups, NEW q \in Depends(f), Join(f, q) PROVE ValuesInv'
  <2>1. /\ f \in Futures /\ q \in Futures /\ prog' = prog /\ ctx' = ctx /\ joined \subseteq joined'
        /\ \A r \in tasks' : r.op = "result" => r \in tasks
    BY <1>0, <1>7, ProgramsAssumption DEF Join, then, Depends, FuturesOf
  <2>2. CASE UNCHANGED state \/ setTimeout(f)
    BY <1>2, <2>1, <2>2, QuietStates
  <2>3. ASSUME NEW c, state' = [state EXCEPT ![q].then_callback = c] PROVE ValuesInv'
    <3>1. state[q] \in StatesIn(prog) /\ DOMAIN state = Futures
      BY <2>1 DEF TypeInv
    <3>2. \A p \in Futures : Status(p)' = Status(p) /\ state'[p].value = state[p].value
      BY <2>3, <3>1 DEF Status, StatesIn
    <3> QED
      BY <1>2, <2>1, <3>2
  <2>4. (UNCHANGED state \/ setTimeout(f)) \/ \E c : state' = [state EXCEPT ![q].then_callback = c]
    BY <1>7 DEF Join, then
  <2> QED
    BY <2>2, <2>3, <2>4
<1>8. ASSUME NEW t \in tasks, CallTimedOut(t) \/ CallTooLate(t) PROVE ValuesInv'
  <2>1. /\ t.f \in Futures /\ prog' = prog /\ joined' = joined /\ ctx' = ctx /\ tasks' \subseteq tasks
        /\ UNCHANGED state \/ setTimeout(t.f)
    BY <1>0, <1>8, TaskFuture DEF CallTimedOut, CallTooLate
  <2> QED
    BY <1>2, <2>1, QuietStates
<1>9. ASSUME NEW g \in DOMAIN Getters, Get(g) \/ GetAgain(g) \/ Expire(g) \/ GiveUp(g) PROVE ValuesInv'
  <2>1. Getters[g].on \in Futures
    BY <1>0, ProgramsAssumption
  <2>2. /\ prog' = prog /\ joined' = joined /\ ctx' = ctx /\ tasks' = tasks
        /\ \/ UNCHANGED state
           \/ state' = Woken(Getters[g].on, {g}) \/ state' = [state EXCEPT ![Getters[g].on].waiting = @ \cup {g}]
           \/ state' = [state EXCEPT ![Getters[g].on].status = "Timeout"]
    BY <1>9 DEF Get, GetAgain, get, Expire, GiveUp
  <2> QED
    BY <1>2, <2>1, <2>2, QuietStates
<1>10. ASSUME NEW t \in tasks, Member(t) PROVE ValuesInv'
  BY <1>10, MemberValues
<1> QED
  BY <1>3, <1>4, <1>5, <1>6, <1>7, <1>8, <1>9, <1>10 DEF Next, AppStep, PoolStep, Run, Getting

\* What get() returns.
LEMMA ValueTrueStep ==
    ASSUME TypeInv, ValuesInv, ValueTrue, Next, \A p \in Futures : Status(p) = "Timeout" => Status(p)' = "Timeout"
    PROVE  ValueTrue'
<1> USE DEF Futures, Thens, Groups, Getters, Promises, Calls, Values, Meaning
<1>0. /\ prog \in Programs /\ prog' = prog /\ DOMAIN pc = DOMAIN Getters /\ DOMAIN got = DOMAIN Getters
      /\ \A g \in DOMAIN Getters : Getters[g].on \in Futures
  <2>1. prog' = prog
    BY DEF Next, AppStep, PoolStep, Run, Getting, SetValue, Join, Get, Notify, CallTimedOut, CallTooLate, Callback,
           Result, Member, GetAgain, GiveUp, Expire
  <2> QED
    BY <2>1, ProgramsAssumption DEF TypeInv
<1>1. ASSUME \A g \in DOMAIN Getters : pc'[g] = "returned" => pc[g] = "returned" /\ got'[g] = got[g]
      PROVE  ValueTrue'
  BY <1>0, <1>1 DEF ValueTrue, Status
<1>2. ASSUME NEW g \in DOMAIN Getters, Get(g) \/ GetAgain(g)
      PROVE  ValueTrue'
  <2> DEFINE f == Getters[g].on
  <2>1. CASE Status(f) = "None"
    BY <1>0, <1>1, <1>2, <2>1 DEF Get, GetAgain, get, Status
  <2>2. CASE Status(f) # "None"
    <3>1. Return(g, state[f]) /\ state' = state
      BY <1>2, <2>2 DEF Get, GetAgain, get, Status
    <3>2. Status(f) \in {"Done", "Timeout"}
      BY <1>0, <2>2 DEF TypeInv, StatesIn, Status
    <3>3. got'[g] = state[f].value /\ pc'[g] = (IF Getters[g].timed /\ Status(f) = "Timeout" THEN "timeout" ELSE "returned")
      BY <1>0, <3>1 DEF Return, Status
    <3>4. \A h \in DOMAIN Getters : h # g => pc'[h] = pc[h] /\ got'[h] = got[h]
      BY <1>0, <3>1 DEF Return
    <3>5. Status(f) = "Done" => state[f].value \in Meaning[f]
      BY <1>0 DEF ValuesInv
    <3> SUFFICES ASSUME NEW h \in DOMAIN Getters, pc'[h] = "returned"
                 PROVE  \/ got'[h] \in Meaning[Getters[h].on]
                        \/ ~Getters[h].timed /\ state'[Getters[h].on].status = "Timeout"
      BY <1>0 DEF ValueTrue
    <3>6. CASE h = g
      BY <3>1, <3>2, <3>3, <3>5, <3>6 DEF Status
    <3>7. CASE h # g
      BY <1>0, <3>1, <3>4, <3>7 DEF ValueTrue
    <3> QED
      BY <3>6, <3>7
  <2> QED
    BY <2>1, <2>2
<1>3. ASSUME NEW g \in DOMAIN Getters, Expire(g) \/ GiveUp(g) PROVE ValueTrue'
  BY <1>0, <1>1, <1>3 DEF Expire, GiveUp
<1>4. ASSUME NEW t \in tasks, Notify(t) PROVE ValueTrue'
  <2>1. pc' = pc \/ \E g : pc' = [pc EXCEPT ![g] = "woken"]
    BY <1>4 DEF Notify
  <2> QED
    BY <1>0, <1>1, <1>4, <2>1 DEF Notify
<1>5. ASSUME UNCHANGED <<pc, got>> PROVE ValueTrue'
  BY <1>1, <1>5
<1> QED
  BY <1>2, <1>3, <1>4, <1>5 DEF Next, AppStep, PoolStep, Run, Getting, SetValue, Join, CallTimedOut, CallTooLate, Callback,
                                Result, Member

----------------------------------------------------------------------------
(* The theorems *)

\* A new program satisfies the invariant: nothing has been registered, set or counted.
LEMMA InitInv ==
    ASSUME Init
    PROVE  Inv
<1> USE DEF Futures, Thens, Groups, Getters, Promises, Calls, Values
<1>1. TypeInv
  <2>1. NewState \in StatesIn(prog) /\ NewState.then_callback = {}
    BY DEF NewState, StatesIn, Default, ValuesIn
  <2>2. tasks \subseteq TasksIn(prog)
    BY DEF Init, TasksIn, SetsIn
  <2>3. {} \in Values
    BY DEF ValuesIn
  <2> QED
    BY <2>1, <2>2, <2>3 DEF Init, TypeInv
<1>2. (\A f \in Futures : Status(f) = "None" /\ state[f].locked = FALSE /\ state[f].then_callback = {}) /\ \A t \in tasks : t.op = "set" /\ t.f \in Futures
  BY DEF Init, NewState, Status, FuturesOf
<1>3. \A c \in Calls : ~Pending(c)
  BY <1>1, <1>2, CallParts DEF Pending, Pooled, Kept, Handed, TypeInv
<1>4. OnceInv
  BY <1>2, <1>3 DEF OnceInv, CallsInv, NotifyInv, SetOnce, HasResult, Pending, FuturesOf
<1>5. LockedByTimeout
  BY <1>2 DEF LockedByTimeout
<1>6. ValuesInv
  <2>1. \A f \in Futures : Status(f) # "Done"
    BY <1>2
  <2>2. \A r \in tasks : r.op # "result"
    BY <1>2
  <2>3. ASSUME NEW g \in DOMAIN Groups PROVE \E ran \in SUBSET Groups[g].members : \E v \in [ran -> Values] : Explains(g, ran, v)
    <3> DEFINE v == [x \in {} |-> {}]
    <3>1. v \in [{} -> Values] /\ {} \in SUBSET Groups[g].members
      OBVIOUS
    <3>2. ctx[g].count = Cardinality({}) /\ ctx[g].values = UNION {v[m] : m \in {}}
      BY FS_EmptySet DEF Init
    <3>3. Explains(g, {}, v)
      BY <3>1, <3>2 DEF Explains
    <3> HIDE DEF v
    <3> QED
      BY <3>1, <3>3
  <2> QED
    BY <2>1, <2>2, <2>3 DEF ValuesInv
<1>7. ValueTrue
  BY DEF Init, ValueTrue
<1> QED
  BY <1>1, <1>4, <1>5, <1>6, <1>7 DEF Inv

\* The invariant is inductive.
LEMMA InvStep ==
    ASSUME Inv, [Next]_vars
    PROVE  Inv'
<1>1. CASE Next
  <2>1. TypeInv'
    BY <1>1, TypesKept DEF Inv
  <2>2. OnceInv' /\ NoneAgain /\ LockedByTimeout' /\ \A p \in Futures : Status(p) = "Timeout" => Status(p)' = "Timeout"
    BY <1>1, OnceStep DEF Inv
  <2>3. ValuesInv'
    BY <1>1, <2>1, <2>2, ValuesStep DEF Inv
  <2>4. ValueTrue'
    BY <1>1, <2>2, ValueTrueStep DEF Inv
  <2> QED
    BY <2>1, <2>2, <2>3, <2>4 DEF Inv
<1>2. CASE UNCHANGED vars
  <2>1. TypeInv'
    BY <1>2 DEF Inv, vars, TypeInv, Futures, Groups, Getters, Values
  <2>2. OnceInv'
    BY <1>2 DEF Inv, vars, OnceInv, CallsInv, NotifyInv, SetOnce, Calls, Pending, Pooled, Kept, Handed, Status, HasResult,
                Threshold, Thens, Groups
  <2>3. LockedByTimeout' /\ ValueTrue'
    BY <1>2 DEF Inv, vars, LockedByTimeout, ValueTrue, Meaning, Futures, Getters
  <2>4. ValuesInv'
    <3>1. prog' = prog /\ ctx' = ctx /\ joined' = joined /\ state' = state /\ tasks' = tasks
      BY <1>2 DEF vars
    <3>2. NoneAgain
      BY <3>1 DEF NoneAgain, Calls, Pending, Pooled, Kept, Handed
    <3>3. \A f \in Futures : Status(f)' = "Done" => state'[f].value \in Meaning[f]
      BY <3>1 DEF Inv, ValuesInv, Status
    <3> QED
      BY <3>1, <3>2, <3>3, ValuesKept DEF Inv
  <2> QED
    BY <2>1, <2>2, <2>3, <2>4 DEF Inv
<1> QED
  BY <1>1, <1>2

\* setValue() leaves the mutex locked only of a state that has timed out: whatever futures
\* an application makes from each other, no thread and no callback sets a value twice.
THEOREM NoValueSetTwice == Spec => []LockedByTimeout
<1>1. Init => Inv
  BY InitInv
<1>2. Inv /\ [Next]_vars => Inv'
  BY InvStep
<1>3. Inv => LockedByTimeout
  BY DEF Inv
<1> QED
  BY <1>1, <1>2, <1>3, PTL DEF Spec

\* get() returns what the promises, the callbacks, waitAll() and waitAny() make, but for the
\* get() without a timeout, on a future that another get() has given up.
THEOREM ReturnedValuesTrue == Spec => []ValueTrue
<1>1. Init => Inv
  BY InitInv
<1>2. Inv /\ [Next]_vars => Inv'
  BY InvStep
<1>3. Inv => ValueTrue
  BY DEF Inv
<1> QED
  BY <1>1, <1>2, <1>3, PTL DEF Spec

=============================================================================
