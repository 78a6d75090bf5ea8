------------------------------ MODULE UdpReceive ------------------------------
(***************************************************************************)
(* The pdp_netreceive object (modules/generic/pdp_udp_receive.c): a thread *)
(* receives packets and a clock of the pd thread passes them to the        *)
(* outlet, through two slots and an index that no lock protects.           *)
(*                                                                         *)
(* Packets are numbered in the order they are received; a reference to a   *)
(* packet is counted in users, as in module PacketPool.                    *)
(***************************************************************************)
EXTENDS Integers

CONSTANTS
    MaxReceived,    \* bound: packets received
    SocketErrors   \* select and recvfrom may fail

ASSUME ReceivedAssumption == MaxReceived \in Nat \ {0} /\ SocketErrors \in BOOLEAN

VARIABLES
    rx_index, rx_packet, rx_exit_thread,
    rusers,         \* reference count of each packet, -1 when released too often
    received,      \* packets received so far
    passed,        \* packets given to the outlet
    recvThread,        \* program counter of receive_thread
    recvPc,            \* program counter of the pd thread
    rslot, rout      \* the slot clock_tick works on and the packet it read there

recvVars == <<rx_index, rx_packet, rx_exit_thread, rusers, received, passed, recvThread, recvPc, rslot, rout>>

RecvPacket == 1 .. MaxReceived
RecvSlot == {0, 1}
NoReceived == -1
Other(i) == 1 - i

RecvTypeOK ==
    /\ rx_index \in RecvSlot
    /\ rx_packet \in [RecvSlot -> RecvPacket \union {NoReceived}]
    /\ rx_exit_thread \in BOOLEAN
    /\ rusers \in [RecvPacket -> {-1, 0, 1}]
    /\ received \in 0 .. MaxReceived
    /\ passed \subseteq RecvPacket
    /\ recvThread \in {"receive", "flip", "drop", "store", "stopped"}
    /\ recvPc \in {"idle", "test", "register", "output", "unuse", "clear", "join", "freed"}
    /\ rslot \in RecvSlot /\ rout \in RecvPacket \union {NoReceived}

(* pdp_udp_receive_new *)
RecvInit ==
    /\ rx_index = 0
    /\ rx_packet = [s \in RecvSlot |-> NoReceived]
    /\ rx_exit_thread = FALSE
    /\ rusers = [p \in RecvPacket |-> 0]
    /\ received = 0 /\ passed = {}
    /\ recvThread = "receive" /\ recvPc = "idle"
    /\ rslot = 0 /\ rout = NoReceived

(* pdp_packet_mark_unused *)
MarkUnused(p) == rusers' = IF p = NoReceived \/ rusers[p] = -1 THEN rusers ELSE [rusers EXCEPT ![p] = @ - 1]

-----------------------------------------------------------------------------
(* receive_thread *)

(* A packet is complete, was created and has the size it should have; the  *)
(* others are dropped before they reach the slots.                         *)
Receive ==
    /\ recvThread = "receive" /\ ~rx_exit_thread /\ received < MaxReceived
    /\ received' = received + 1
    /\ rusers' = [rusers EXCEPT ![received + 1] = 1]
    /\ recvThread' = "flip"
    /\ UNCHANGED <<rx_index, rx_packet, rx_exit_thread, passed, recvPc, rslot, rout>>

Flip ==
    /\ recvThread = "flip"
    /\ rx_index' = Other(rx_index)
    /\ recvThread' = "drop"
    /\ UNCHANGED <<rx_packet, rx_exit_thread, rusers, received, passed, recvPc, rslot, rout>>

Drop ==
    /\ recvThread = "drop"
    /\ MarkUnused(rx_packet[rx_index])
    /\ recvThread' = "store"
    /\ UNCHANGED <<rx_index, rx_packet, rx_exit_thread, received, passed, recvPc, rslot, rout>>

Store ==
    /\ recvThread = "store"
    /\ rx_packet' = [rx_packet EXCEPT ![rx_index] = received]
    /\ recvThread' = "receive"
    /\ UNCHANGED <<rx_index, rx_exit_thread, rusers, received, passed, recvPc, rslot, rout>>

(* An error of select or recvfrom ends the thread. *)
ReceiveError ==
    /\ SocketErrors /\ recvThread = "receive"
    /\ recvThread' = "stopped"
    /\ UNCHANGED <<rx_index, rx_packet, rx_exit_thread, rusers, received, passed, recvPc, rslot, rout>>

Stop ==
    /\ recvThread = "receive" /\ rx_exit_thread
    /\ recvThread' = "stopped"
    /\ UNCHANGED <<rx_index, rx_packet, rx_exit_thread, rusers, received, passed, recvPc, rslot, rout>>

-----------------------------------------------------------------------------
(* clock_tick: pdp_pass_if_valid(outlet, &x_packet[!x_index]) *)

clock_tick ==
    /\ recvPc = "idle"
    /\ rslot' = Other(rx_index)
    /\ recvPc' = "test"
    /\ UNCHANGED <<rx_index, rx_packet, rx_exit_thread, rusers, received, passed, recvThread, rout>>

PassTest ==
    /\ recvPc = "test"
    /\ recvPc' = IF rx_packet[rslot] = NoReceived THEN "idle" ELSE "register"
    /\ UNCHANGED <<rx_index, rx_packet, rx_exit_thread, rusers, received, passed, recvThread, rslot, rout>>

(* The slot is read again. *)
PassRegister ==
    /\ recvPc = "register"
    /\ rout' = rx_packet[rslot]
    /\ recvPc' = "output"
    /\ UNCHANGED <<rx_index, rx_packet, rx_exit_thread, rusers, received, passed, recvThread, rslot>>

(* The register phase: the objects behind the outlet read packet `out'. *)
PassOutput ==
    /\ recvPc = "output"
    /\ passed' = passed \union {rout}
    /\ recvPc' = "unuse"
    /\ UNCHANGED <<rx_index, rx_packet, rx_exit_thread, rusers, received, recvThread, rslot, rout>>

PassUnuse ==
    /\ recvPc = "unuse"
    /\ MarkUnused(rx_packet[rslot])
    /\ recvPc' = "clear"
    /\ UNCHANGED <<rx_index, rx_packet, rx_exit_thread, received, passed, recvThread, rslot, rout>>

(* Mutant: the slot keeps the packet. *)
PassKeeps ==
    /\ recvPc = "clear"
    /\ recvPc' = "idle" /\ rout' = NoReceived
    /\ UNCHANGED <<rx_index, rx_packet, rx_exit_thread, rusers, received, passed, recvThread, rslot>>

PassClear ==
    /\ recvPc = "clear"
    /\ rx_packet' = [rx_packet EXCEPT ![rslot] = NoReceived]
    /\ recvPc' = "idle" /\ rout' = NoReceived
    /\ UNCHANGED <<rx_index, rx_exit_thread, rusers, received, passed, recvThread, rslot>>

(* pdp_udp_receive_free *)
RecvFreeExit ==
    /\ recvPc = "idle"
    /\ rx_exit_thread' = TRUE
    /\ recvPc' = "join"
    /\ UNCHANGED <<rx_index, rx_packet, rusers, received, passed, recvThread, rslot, rout>>

RecvFreeJoin ==
    /\ recvPc = "join" /\ recvThread = "stopped"
    /\ rusers' = [p \in RecvPacket |->
                    IF \E s \in RecvSlot : rx_packet[s] = p THEN rusers[p] - 1 ELSE rusers[p]]
    /\ rx_packet' = [s \in RecvSlot |-> NoReceived]
    /\ recvPc' = "freed"
    /\ UNCHANGED <<rx_index, rx_exit_thread, received, passed, recvThread, rslot, rout>>

RecvFreed == recvPc = "freed" /\ UNCHANGED recvVars

-----------------------------------------------------------------------------
RecvThread == Receive \/ Flip \/ Drop \/ Store \/ Stop \/ ReceiveError
RecvPd == clock_tick \/ PassTest \/ PassRegister \/ PassOutput \/ PassUnuse \/ PassClear \/ RecvFreeJoin
RecvNext == RecvThread \/ RecvPd \/ RecvFreeExit \/ RecvFreed

RecvSpec == RecvInit /\ [][RecvNext]_recvVars

(* The clock ticks again and again; the thread runs. *)
RecvFair == WF_recvVars(RecvPd) /\ WF_recvVars(Flip) /\ WF_recvVars(Drop) /\ WF_recvVars(Store) /\ WF_recvVars(Stop)
RecvFairSpec == RecvSpec /\ RecvFair

-----------------------------------------------------------------------------
(* A packet the outlet is working on is still referenced: the receiving    *)
(* thread has not given it back to the pool.                               *)
OutputInUse == recvPc \in {"output", "unuse"} => rusers[rout] = 1

(* Every packet that was received and not overtaken by a later one is      *)
(* output, unless the object is freed.                                     *)
NewestOutput ==
    \A p \in RecvPacket : received = p ~> (\E r \in passed : r >= p) \/ rx_exit_thread \/ received > p

(* No packet leaves twice, although the thread may flip the index and      *)
(* refill the slot at any point of a tick.                                 *)
OutputOnce == recvPc = "output" => rout \notin passed

(* The object is freed: its thread stops. *)
FreeReturns == recvPc = "join" ~> recvPc = "freed"
=============================================================================
