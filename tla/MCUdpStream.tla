---------------------------- MODULE MCUdpStream ----------------------------
(* Small instances of UdpStream for TLC. *)
EXTENDS UdpStream

ClientSends == [client |-> 2, server |-> 0]
ReorderData == [client |-> 1, server |-> 2]
=============================================================================
