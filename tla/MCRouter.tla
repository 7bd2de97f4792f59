----------------------------- MODULE MCRouter -----------------------------
(* Patterns that share nodes, rival each other, conflict or are malformed.       *)
EXTENDS Router

A == Seg("a")
B == Seg("b")
X == Colon("x", "")
Num == Colon("n", "digits")
MCLegal == {"a", "b", "g", "x", "y", "n"}
MCAccepts == [r \in {"digits"} |-> {"1"}]

\* "/", "/a", "/:x", "/:x/b", "/a/:y", "/a/:x/" (in conflict with "/a/:y"), "/:n(digits)/b"
\* (in conflict with "/:x"), "/a//b", "/a/?", "/:x/:x", "/a/b"
MCPatterns ==
    {<<Empty, Empty>>, <<Empty, A>>, <<Empty, X>>, <<Empty, X, B>>, <<Empty, A, Colon("y", "")>>,
     <<Empty, A, X, Empty>>, <<Empty, Num, B>>, <<Empty, A, Empty, B>>, <<Empty, A, Seg("?")>>,
     <<Empty, X, X>>, <<A, B>>}

MCRegistrations ==
    {<<verb("GET", p, 1)>> : p \in MCPatterns}
      \cup {<<verb("POST", <<Empty, A>>, 2)>>, <<verb("PUT", <<Empty, X>>, 0)>>}
      \cup {<<use(<<Empty>>, 1)>>, <<use(<<Empty, A>>, 2)>>, <<use(<<Empty, X>>, 1)>>}
      \cup {group(<<Empty, A>>, 1, <<verb("GET", <<Empty>>, 1), verb("GET", <<Empty, B, Empty>>, 1), verb("POST", <<X>>, 1)>>)}

Get(path) == [method |-> "GET", path |-> path]
MCRequests ==
    {Get(<<"", "">>), Get(<<"", "a">>), Get(<<"", "1">>), Get(<<"", "a", "b">>), Get(<<"", "1", "b">>),
     Get(<<"", "a", "">>), Get(<<"", "a", "b", "">>), Get(<<"", "1", "">>), Get(<<"a">>), Get(<<"">>),
     [method |-> "POST", path |-> <<"", "a">>], [method |-> "POST", path |-> <<"", "a", "b">>],
     [method |-> "PUT", path |-> <<"", "1">>], [method |-> "HEAD", path |-> <<"", "a">>],
     [method |-> "", path |-> <<"", "a">>]}
=============================================================================
