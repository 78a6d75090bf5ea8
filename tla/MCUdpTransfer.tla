---------------------------- MODULE MCUdpTransfer ----------------------------
EXTENDS UdpTransfer

(* Two ids that differ, as rand() gives them. *)
MCRand == [k \in Packet |-> k]
=============================================================================
