------------------------------- MODULE Router -------------------------------
(***************************************************************************)
(* RESTful routing: RestFul, RouteGroup, Router, Trie and Node of src/http. *)
(*                                                                         *)
(* A string split at its slashes is a sequence: a request's path one of    *)
(* segments, a route's pattern one of fragments, and "/a/" is <<"", "a",   *)
(* "">>. A node of the trie is the sequence of fragments that leads to it, *)
(* so that its parent is its Front and the root is <<>>; a node that the   *)
(* code makes and never links to a parent is left out.                     *)
(***************************************************************************)
EXTENDS Integers, SequencesExt

CONSTANTS
    Registrations,     \* what the application may register, one call after another
    Requests,          \* the requests: [method, path]
    MaxRegistered,     \* registrations (bound)
    Legal,             \* the names _uri_segment_pattern accepts
    Accepts,           \* the segments each regex accepts
    MaxFallbackDepth   \* _max_fallback_depth

VARIABLES
    nodes, endpoints,  \* the trie
    middlewares,       \* a node's middlewares
    handlers,          \* a node's handlers by method
    pending,           \* what is left of the registration in progress
    log,               \* history: the registrations that were accepted
    tried,             \* history: the patterns that were given to the trie
    req                \* the request in progress, or the last one

vars == <<nodes, endpoints, middlewares, handlers, pending, log, tried, req>>
trie == <<nodes, endpoints, middlewares, handlers, pending, log, tried>>

\* A fragment "text", or ":text" with or without "(regex)".
Seg(text) == [colon |-> FALSE, text |-> text, regex |-> ""]
Colon(name, regex) == [colon |-> TRUE, text |-> name, regex |-> regex]
Empty == Seg("")

Root == <<>>
Methods == {"GET", "POST", "PUT", "DELETE"}

NoRequest == [at |-> "idle", method |-> "", path |-> <<>>, retried |-> FALSE, node |-> {}, params |-> <<>>,
              error |-> FALSE, stack |-> <<>>, depth |-> 0, fell |-> FALSE, run |-> <<>>, ran |-> <<>>, status |-> 0]

----------------------------------------------------------------------------
(* Registration *)

use(path, count) == [does |-> "use", method |-> "", path |-> path, count |-> count]
verb(method, path, count) == [does |-> "handle", method |-> method, path |-> path, count |-> count]

\* slim_path(): no two slashes in a row are left.
slim_path(path) ==
    <<Head(path)>> \o SelectSeq(SubSeq(path, 2, Len(path) - 1), LAMBDA f : f # Empty) \o <<Last(path)>>

\* RestFul::use(RouteGroup&): the group's middlewares at its prefix, then its routes.
group(prefix, count, apis) ==
    LET Mounted(api) ==
          [api EXCEPT !.path = IF @ = <<Empty>> THEN prefix ELSE slim_path(prefix \o @)]
    IN  (IF count = 0 THEN <<>> ELSE <<use(prefix, count)>>) \o [i \in DOMAIN apis |-> Mounted(apis[i])]

colon_child(n) == {m \in nodes : Len(m) = Len(n) + 1 /\ Front(m) = n /\ Last(m).colon}

\* trim_prefix_slash() and string_split(); a pattern of slashes only is one empty fragment.
Fragments(path) ==
    IF \A i \in DOMAIN path : path[i] = Empty THEN <<Empty>>
    ELSE SubSeq(path, SelectInSeq(path, LAMBDA f : f # Empty), Len(path))

\* Mutant: any name and regex may take the place of the parent's colon child.
AllowedAny(parent, f) ==
    IF f.colon THEN f.text \in Legal /\ f.regex # "()" ELSE f = Empty \/ f.text \in Legal

\* Whether _get_or_new_node() finds or makes the child of a node for a fragment.
Allowed(parent, f) ==
    IF f.colon
    THEN f.text \in Legal /\ f.regex # "()" /\ \A c \in colon_child(parent) : Last(c) = f
    ELSE f = Empty \/ f.text \in Legal

\* How many fragments _insert_node() has dealt with when it returns or throws.
Inserted(fs) ==
    Max({k \in 0 .. Len(fs) : \A i \in 1 .. k : Allowed(SubSeq(fs, 1, i - 1), fs[i])})

DoubleSlash(path) == \E i \in 2 .. Len(path) - 1 : path[i] = Empty

\* Whether a node has handlers for a method.
Handled(n, method) == n \in DOMAIN handlers /\ handlers[n][method] # <<>>

\* Mutant: a method of a route may be registered twice.
FindHandlerNever(n, method) == FALSE

\* The guard of Node::handle(): the handlers of a method are registered once.
find_handler(n, method) == Handled(n, method)

Actions(kind, count) == [i \in 1 .. count |-> [kind |-> kind, by |-> Len(log) + 1, n |-> i]]

Register(rs) ==
    /\ req.at \in {"idle", "answered"}
    /\ pending = <<>> /\ Len(tried) < MaxRegistered
    /\ pending' = rs /\ req' = NoRequest
    /\ UNCHANGED <<nodes, endpoints, middlewares, handlers, log, tried>>

\* The next call of Router::use() or init_basic_method(). What throws leaves the nodes it
\* has made, and ends the registration.
Apply ==
    /\ pending # <<>>
    /\ LET r == Head(pending)
           atRoot == r.does = "use" /\ r.path = <<Empty>>
           fs == IF atRoot THEN Root ELSE Fragments(r.path)
           k == IF atRoot THEN 0 ELSE IF DoubleSlash(r.path) THEN -1 ELSE Inserted(fs)
           found == k = Len(fs)
           taken == r.does = "handle" /\ find_handler(fs, r.method)
           added == Actions(r.does, r.count)
       IN  /\ nodes' = nodes \cup {SubSeq(fs, 1, i) : i \in 1 .. k}
           /\ endpoints' = IF found /\ ~atRoot THEN endpoints \cup {fs} ELSE endpoints
           /\ middlewares' =
                IF found /\ r.does = "use"
                THEN (fs :> ((IF fs \in DOMAIN middlewares THEN middlewares[fs] ELSE <<>>) \o added)) @@ middlewares
                ELSE middlewares
           /\ handlers' =
                IF found /\ r.does = "handle" /\ ~taken
                THEN (fs :> [m \in Methods |->
                               (IF fs \in DOMAIN handlers THEN handlers[fs][m] ELSE <<>>)
                                 \o (IF m = r.method THEN added ELSE <<>>)]) @@ handlers
                ELSE handlers
           /\ tried' = Append(tried, fs)
           /\ IF found /\ ~taken
              THEN /\ log' = Append(log, [does |-> r.does, method |-> r.method, at |-> fs, actions |-> added])
                   /\ pending' = Tail(pending)
              ELSE log' = log /\ pending' = <<>>
    /\ UNCHANGED req

----------------------------------------------------------------------------
(* Matching *)

get_colon_node(n, s) ==
    {c \in colon_child(n) : Last(c).regex = "" \/ s \in Accepts[Last(c).regex]}

exact_child(n, s) == {Append(n, Seg(s))} \cap nodes

\* Mutant: a parameter is preferred to an exact child.
ColonFirst(n, s) == IF get_colon_node(n, s) # {} THEN get_colon_node(n, s) ELSE exact_child(n, s)

\* The one node to go on with, if there is one: an exact child is preferred.
find_matched_child(n, s) == IF exact_child(n, s) # {} THEN exact_child(n, s) ELSE get_colon_node(n, s)

Walk(n, segs) == FoldLeft(LAMBDA at, s : UNION {find_matched_child(p, s) : p \in at}, {n}, segs)
After(n, segs, i) == Walk(n, SubSeq(segs, 1, i))

\* The colon nodes passed over for an exact child, with the index of their segment.
PassedOver(n, segs, base) ==
    FlattenSeq([i \in DOMAIN segs |->
        SetToSeq({[index |-> base + i, node |-> c] :
                    c \in UNION {get_colon_node(p, segs[i]) : p \in {q \in After(n, segs, i - 1) : exact_child(q, segs[i]) # {}}}})])

\* The parameters a walk from the root sets on its way.
Bound(segs) ==
    LET Named(i) == {Last(n).text : n \in {m \in After(Root, segs, i) : Last(m).colon}}
        names == UNION {Named(i) : i \in DOMAIN segs}
    IN  [x \in names |-> segs[Max({i \in DOMAIN segs : x \in Named(i)})]]

\* What Matched::node holds before it is set: the struct does not initialise it. It may be
\* null ({}), any node whose address the stack still has, or no node's address.
Wild == <<Colon("wild", "()")>>
Garbage == {{}, {Wild}} \cup {{n} : n \in nodes}

\* The path's segments; without its last slash when match() tries again.
Segments(r) == Tail(IF r.retried THEN Front(r.path) ELSE r.path)

\* done(err): RestFul::handle() writes the error, if there is one, as the response.
Done(r, status) == [r EXCEPT !.at = "answered", !.status = status]

\* Router::handle() and Trie::match() up to the first walk.
Request(r) ==
    /\ req.at \in {"idle", "answered"} /\ pending = <<>>
    /\ LET new == [NoRequest EXCEPT !.method = r.method, !.path = r.path]
           absolute == Len(r.path) > 1 /\ Head(r.path) = ""
       IN  req' = IF r.method = "" THEN Done(new, 404)
                  ELSE IF ~absolute THEN Done([new EXCEPT !.error = TRUE], 500)
                  ELSE [new EXCEPT !.at = "match"]
    /\ UNCHANGED trie

\* _match(): the walk from the root.
Match ==
    /\ req.at = "match"
    /\ LET segs == Segments(req)
           node == Walk(Root, segs) \cap endpoints
       IN  req' = [req EXCEPT !.node = node, !.params = Bound(segs) @@ @, !.depth = 0,
                              !.stack = PassedOver(Root, segs, 0),
                              !.at = IF node = {} THEN "fallback" ELSE "matched"]
    /\ UNCHANGED trie

FallbackLimit ==
    /\ req.at = "fallback" /\ req.depth + 1 > MaxFallbackDepth
    /\ req' = [req EXCEPT !.error = TRUE, !.at = "matched"]
    /\ UNCHANGED trie

FallbackEmpty ==
    /\ req.at = "fallback" /\ req.depth + 1 <= MaxFallbackDepth
    /\ req.stack = <<>>
    /\ req' = [req EXCEPT !.depth = @ + 1, !.at = "matched"]
    /\ UNCHANGED trie

\* An iteration of _match()'s loop with fallback_lookup(). The result it hands back was
\* copied before the lookup, so what it found is lost and its node is never set.
fallback_lookup ==
    /\ req.at = "fallback" /\ req.depth + 1 <= MaxFallbackDepth
    /\ req.stack # <<>>
    /\ \E garbage \in Garbage :
         LET fallback == Last(req.stack)
             segs == Segments(req)
             rest == SubSeq(segs, fallback.index + 1, Len(segs))
             stack == Front(req.stack) \o PassedOver(fallback.node, rest, fallback.index)
             found == Walk(fallback.node, rest) \cap endpoints # {} \/ garbage # {}
             param == Last(fallback.node).text :> segs[fallback.index]
             next == [req EXCEPT !.params = param @@ @, !.stack = stack, !.depth = @ + 1, !.fell = TRUE]
         IN  req' = IF found THEN [next EXCEPT !.node = garbage, !.error = FALSE, !.at = "matched"]
                    ELSE [next EXCEPT !.at = IF stack = <<>> THEN "matched" ELSE "fallback"]
    /\ UNCHANGED trie

CanRetry == req.node = {} /\ ~req.retried /\ Last(req.path) = ""

\* Mutant: every failed attempt is followed by another.
RetryForever ==
    /\ req.at = "matched" /\ CanRetry
    /\ req' = [req EXCEPT !.at = "match"]
    /\ UNCHANGED trie

\* match() tries again without the last slash.
Retry ==
    /\ req.at = "matched" /\ CanRetry
    /\ req' = [req EXCEPT !.retried = TRUE, !.at = "match"]
    /\ UNCHANGED trie

\* _get_pipeline() and compose_func(): the middlewares from the root down to the node,
\* then the handlers of the node.
Pipeline(n) == [i \in 1 .. Len(n) + 1 |-> SubSeq(n, 1, i - 1)]
compose_func(n, method) ==
    FlattenSeq([i \in DOMAIN Pipeline(n) |->
                  IF Pipeline(n)[i] \in DOMAIN middlewares THEN middlewares[Pipeline(n)[i]] ELSE <<>>])
      \o handlers[n][method]

\* The rest of Router::handle() up to its loop. A wild pointer is followed, and the
\* process ends.
Dispatch ==
    /\ req.at = "matched" /\ ~CanRetry
    /\ req' = IF req.error THEN Done(req, 500)
              ELSE IF Wild \in req.node THEN [req EXCEPT !.at = "crashed"]
              ELSE IF \A n \in req.node : req.method \notin Methods \/ ~Handled(n, req.method) THEN Done(req, 404)
              ELSE [req EXCEPT !.at = "run", !.run = compose_func(CHOOSE n \in req.node : TRUE, req.method)]
    /\ UNCHANGED trie

\* One action of the stack. A middleware may set the error; either kind may throw, which
\* sets it to 500. The loop ends at the first error.
Run ==
    /\ req.at = "run"
    /\ LET first == Head(req.run)
           next == [req EXCEPT !.run = Tail(@), !.ran = Append(@, first)]
       IN  \/ req' = IF next.run = <<>> THEN Done(next, 200) ELSE next
           \/ req' = Done(next, 500)
           \/ first.kind = "use" /\ req' = Done(next, 403)
    /\ UNCHANGED trie

Init ==
    /\ nodes = {Root} /\ endpoints = {}
    /\ middlewares = <<>> /\ handlers = <<>>
    /\ pending = <<>> /\ log = <<>> /\ tried = <<>>
    /\ req = NoRequest

Next ==
    \/ \E rs \in Registrations : Register(rs)
    \/ Apply
    \/ \E r \in Requests : Request(r)
    \/ Match \/ FallbackLimit \/ FallbackEmpty \/ fallback_lookup \/ Retry \/ Dispatch \/ Run

Handling == Match \/ FallbackLimit \/ FallbackEmpty \/ fallback_lookup \/ Retry \/ Dispatch \/ Run
Spec == Init /\ [][Next]_vars /\ WF_req(Handling)

----------------------------------------------------------------------------
(* Properties. Their reference is the log of what was registered, never the trie. *)

\* The trie is closed under parents, one colon child at most per node, endpoints,
\* middlewares and handlers belong to its nodes, and an iteration of the fallback loop
\* has a segment for every colon node on the stack.
TypeOK ==
    /\ Root \in nodes /\ \A n \in nodes \ {Root} : Front(n) \in nodes
    /\ \A n \in nodes : Cardinality(colon_child(n)) <= 1
    /\ endpoints \subseteq nodes \ {Root}
    /\ DOMAIN middlewares \subseteq nodes /\ DOMAIN handlers \subseteq endpoints
    /\ req.at \in {"idle", "match", "fallback", "matched", "run", "answered", "crashed"}
    /\ \A i \in DOMAIN req.stack : req.stack[i].index \in DOMAIN Segments(req)
    /\ req.depth <= MaxFallbackDepth

Accepted(f, s) == IF f.colon THEN f.regex = "" \/ s \in Accepts[f.regex] ELSE f.text = s
Matches(pattern, segs) ==
    Len(pattern) = Len(segs) /\ \A i \in DOMAIN segs : Accepted(pattern[i], segs[i])

Routes == {e \in ToSet(log) : e.does = "handle" /\ e.actions # <<>>}

\* No pattern ever given to the trie, refused or not, has a literal fragment where this
\* one has a parameter, for a path that this one matches.
NoRival(pattern, segs) ==
    \A q \in ToSet(tried), i \in DOMAIN segs :
        (Len(q) >= i /\ SubSeq(q, 1, i - 1) = SubSeq(pattern, 1, i - 1) /\ pattern[i].colon /\ ~q[i].colon)
          => q[i].text # segs[i]

\* What must run for a route: the middlewares of the prefixes of its pattern, the root's
\* first and each in the order of its use() calls, then the handlers.
Chain(e) ==
    FlattenSeq([i \in 1 .. Len(e.at) + 1 |->
        FlattenSeq([j \in DOMAIN log |->
            IF log[j].does = "use" /\ log[j].at = SubSeq(e.at, 1, i - 1) THEN log[j].actions ELSE <<>>])])
      \o e.actions

Params(e, segs) ==
    LET names == {e.at[i].text : i \in {j \in DOMAIN e.at : e.at[j].colon}}
    IN  [x \in names |-> segs[Max({i \in DOMAIN e.at : e.at[i].colon /\ e.at[i].text = x})]]

\* A handler runs only for a request that its route matches, after exactly the middlewares
\* registered at the route's prefixes, and finds the route's parameters (Router::handle(),
\* compose_func(), Trie::_match()), as long as no fallback lookup was made.
ServedRight ==
    (req.ran # <<>> /\ ~req.fell) =>
        \E e \in Routes :
            /\ e.method = req.method /\ Matches(e.at, Segments(req))
            /\ IsPrefix(req.ran, Chain(e))
            /\ req.status = 200 => req.ran = Chain(e)
            /\ \A x \in DOMAIN Params(e, Segments(req)) :
                 x \in DOMAIN req.params /\ req.params[x] = Params(e, Segments(req))[x]

\* A route that matches the path, without a rival, is the one that answers, whatever else
\* was registered before or after it, refused registrations and groups included. So it is
\* for a path with one more slash at its end when no pattern could take the empty segment
\* and no fallback lookup was made (Trie::match()).
RouteServed ==
    \A e \in Routes : req.at = "answered" /\ ~req.error /\ e.method = req.method =>
        /\ LET segs == Tail(req.path) IN
           Len(req.path) > 1 /\ Matches(e.at, segs) /\ NoRival(e.at, segs)
             => req.node = {e.at} /\ ~req.fell /\ req.ran # <<>> /\ IsPrefix(req.ran, Chain(e))
        /\ LET segs == Tail(Front(req.path)) IN
           (/\ ~req.fell /\ Len(req.path) > 2 /\ Last(req.path) = ""
            /\ Matches(e.at, segs) /\ NoRival(e.at, segs)
            /\ \A q \in ToSet(tried) :
                 ~(Len(q) > Len(segs) /\ IsPrefix(e.at, q) /\ Accepted(q[Len(segs) + 1], "")))
             => req.node = {e.at} /\ IsPrefix(req.ran, Chain(e))

\* Every request is answered: the fallback loop and the retry end (or the process has
\* followed a wild pointer).
Answered ==
    (req.at \in {"match", "fallback", "matched", "run"}) ~> (req.at \in {"answered", "crashed"})

=============================================================================
