------------------------------ MODULE MCFuture ------------------------------
(* A chain of two callbacks, waitAll() and waitAny(), each with several get(), some timed. *)
EXTENDS Future, TLC

Wait(f) == [on |-> f, timed |-> FALSE]
WaitTimed(f) == [on |-> f, timed |-> TRUE]
None == [x \in {} |-> {}]

Chain ==
    [promises |-> {"p"}, thens |-> "then" :> "p" @@ "next" :> "then", groups |-> None,
     getters |-> "p1" :> Wait("p") @@ "p2" :> WaitTimed("p") @@ "t1" :> WaitTimed("then") @@ "n1" :> Wait("next")]

\* waitAll() or waitAny() over a promise and a chain.
Group(all) ==
    [promises |-> {"p", "q"}, thens |-> "then" :> "p", groups |-> "group" :> [all |-> all, members |-> {"then", "q"}],
     getters |-> "g1" :> Wait("group") @@ "g2" :> WaitTimed("group") @@ "q1" :> WaitTimed("q")]

MCPrograms == {Chain, Group(TRUE), Group(FALSE)}
=============================================================================
