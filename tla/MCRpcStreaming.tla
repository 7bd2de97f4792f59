--------------------------- MODULE MCRpcStreaming ---------------------------
(* Messages of the two longer formats of a frame's header; pings have the short one. *)
EXTENDS RpcStreaming

MCScript == [s \in Sides |-> IF s = "client" THEN <<"medium", "long">> ELSE <<>>]
MCPings == [s \in Sides |-> IF s = "client" THEN 1 ELSE 0]
MCSize(m) == CASE m = "short" -> 125 [] m = "medium" -> 126 [] m = "long" -> 65536
=============================================================================
