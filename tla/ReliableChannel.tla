-------------------------- MODULE ReliableChannel --------------------------
(***************************************************************************)
(* What a message stream promises its two sides: every side reads what the *)
(* other has sent, whole, in order, once. UdpStream, built on datagrams    *)
(* that are lost, repeated and reordered, is shown to implement it.        *)
(***************************************************************************)
EXTENDS Naturals, Sequences

CONSTANTS Sides, Peer(_), Messages  \* the two sides, who faces whom, what can be sent

VARIABLES sent, received

Init ==
    /\ sent = [s \in Sides |-> <<>>]
    /\ received = [s \in Sides |-> <<>>]

Send(s, m) ==
    /\ sent' = [sent EXCEPT ![s] = Append(@, m)]
    /\ UNCHANGED received

Receive(s) ==
    /\ Len(received[s]) < Len(sent[Peer(s)])
    /\ received' = [received EXCEPT ![s] = Append(@, sent[Peer(s)][Len(@) + 1])]
    /\ UNCHANGED sent

Next == \E s \in Sides : (\E m \in Messages : Send(s, m)) \/ Receive(s)

Spec == Init /\ [][Next]_<<sent, received>>

=============================================================================
