---------------------------- MODULE MCMuxSession ----------------------------
(***************************************************************************)
(* MuxSession for TLC, with what src/mux_define.h says about closing a     *)
(* stream, stated as a property of the model.  The code does not keep the  *)
(* claim, and a run of its own shows how.                                  *)
(***************************************************************************)
EXTENDS MuxSession

\* mux_define.h bounds a stream's close: FLAGS_StreamCloseTimeout = 30 * 1000.
StreamCloseEnds ==
    \A p \in Peers : \A id \in Ids :
        state[p][id] = "LocalClose" ~> state[p][id] = "Closed"
=============================================================================
