-------------------------- MODULE MCHttpExchange --------------------------
(* Up to three calls of a session on one connection.                             *)
EXTENDS HttpExchange

\* Among them a Put() that gives a shorter length than the body has.
MCCalls ==
    {Get(<<"/", "a">>), Post(<<"/", "b">>, <<"x", "y">>), Put(<<"/", "c">>, <<"x", "y">>, 1),
     Patch(<<"/", "p">>, <<"x">>, 1), Delete(<<"/", "d">>, <<"z">>, 1), HeadCall(<<"/", "h">>),
     Options(<<"/", "o">>), WebSocket(<<"/", "w">>)}
MCOutcomes == {[does |-> "text", status |-> 200], [does |-> "text", status |-> 400],
               [does |-> "error", status |-> 500], [does |-> "nothing", status |-> 0]}
=============================================================================
