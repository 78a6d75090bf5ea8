----------------------------- MODULE UdpTransfer -----------------------------
(***************************************************************************)
(* The transport protocol of system/net/pdp_net.c: a sender announces a    *)
(* packet (NEW), sends its chunks (DATA), asks what is missing (DONE) and  *)
(* sends that again until the answer (RESEND) is empty, every wait with a  *)
(* timeout and every round counted.  The network keeps every datagram ever *)
(* sent and delivers any of them at any time, so datagrams are lost,       *)
(* delayed, reordered and duplicated.                                      *)
(*                                                                         *)
(* The n-th packet a sender transmits is the number n; it is also the      *)
(* contents of its chunks and its type string.                             *)
(***************************************************************************)
EXTENDS Integers, FiniteSets

CONSTANTS
    Rand,              \* connection id of the k-th transmission of a process: rand() is never seeded
    MaxPackets,        \* bound: packets transmitted
    MaxChunks,         \* bound: chunks of a packet
    ResendMax,         \* RESEND_MAX_CHUNKS
    HsRetry,           \* hs_retry
    RsRetry,           \* rs_retry
    DoneRetry,         \* retries in _need_resend
    MaxRestarts,       \* bound: restarts of the sending process and new receiving objects
    SocketErrors       \* select and recv may fail

Packet == 1 .. MaxPackets
Chunk == 0 .. MaxChunks - 1
NoId == 0
Id == {Rand[k] : k \in Packet}

ASSUME BoundAssumption ==
    /\ MaxPackets \in Nat /\ MaxChunks \in Nat /\ ResendMax \in Nat \ {0}
    /\ HsRetry \in Nat /\ RsRetry \in Nat /\ DoneRetry \in Nat
    /\ MaxRestarts \in Nat
    /\ SocketErrors \in BOOLEAN
ASSUME RandAssumption == Rand \in [Packet -> Nat \ {NoId}]

VARIABLES
    sender,        \* t_pdp_udp_sender and the control state of pdp_udp_sender_send
    receiver,      \* t_pdp_udp_receiver
    s2r, r2s,      \* datagrams sent so far
    delivered,     \* packets for which pdp_udp_receiver_receive returned 1
    rand_calls,    \* calls of rand() by the sending process
    restarts       \* <<sender restarts, receiver restarts>>

vars == <<sender, receiver, s2r, r2s, delivered, rand_calls, restarts>>

Forward ==
    [kind : {"NEW"}, id : Id, nb : 1 .. MaxChunks, packet : Packet]
    \union [kind : {"DATA"}, id : Id, seq : Chunk, packet : Packet]
    \union [kind : {"DONE"}, id : Id]
Backward ==
    [kind : {"ACKNEW"}, id : Id] \union [kind : {"RESEND"}, id : Id, chunks : SUBSET Chunk]

SenderPc == {"idle", "header", "ack", "chunks", "done", "resend"}
Outcome == {"none", "confirmed", "unconfirmed", "error"}

Sender == [pc : SenderPc, packet : Packet \union {0}, id : Id \union {NoId}, nb : 0 .. MaxChunks,
           chunk_list : SUBSET Chunk, hs_retry : 0 .. HsRetry, rs_retry : 0 .. RsRetry,
           done_retry : 0 .. DoneRetry, outcome : Outcome,
           selects : {0, 1}]   \* selects called again in the running _receive_packet, modulo 2
Receiver == [id : Id \union {NoId}, nb : 0 .. MaxChunks, chunk_list : SUBSET Chunk,
             packet : Packet \union {0}, data : [Chunk -> Packet \union {0}],
             finished : BOOLEAN, transferred : BOOLEAN]
Delivery == [packet : Packet, nb : 1 .. MaxChunks, data : [Chunk -> Packet \union {0}]]

TypeOK ==
    /\ sender \in Sender
    /\ receiver \in Receiver
    /\ s2r \subseteq Forward
    /\ r2s \subseteq Backward
    /\ delivered \subseteq Delivery
    /\ rand_calls \in 0 .. MaxPackets
    /\ restarts \in (0 .. MaxRestarts) \X (0 .. MaxRestarts)

(* pdp_udp_sender_new, pdp_udp_receiver_new *)
NewSender(packet) ==
    [pc |-> "idle", packet |-> packet, id |-> NoId, nb |-> 0, chunk_list |-> {},
     hs_retry |-> 0, rs_retry |-> 0, done_retry |-> 0, outcome |-> "none", selects |-> 0]
NewReceiver ==
    [id |-> NoId, nb |-> 0, chunk_list |-> {}, packet |-> 0, data |-> [c \in Chunk |-> 0],
     finished |-> FALSE, transferred |-> FALSE]

Init ==
    /\ sender = NewSender(0)
    /\ receiver = NewReceiver
    /\ s2r = {} /\ r2s = {} /\ delivered = {}
    /\ rand_calls = 0
    /\ restarts = <<0, 0>>

-----------------------------------------------------------------------------
(* The sender *)

SenderOnly == UNCHANGED <<receiver, r2s, delivered, rand_calls, restarts>>
SenderQuiet == SenderOnly /\ UNCHANGED s2r
Goto(pc) == sender' = [sender EXCEPT !.pc = pc, !.selects = 0]
Finish(outcome) == sender' = [sender EXCEPT !.pc = "idle", !.outcome = outcome, !.selects = 0]

(* pdp_udp_sender_send up to the handshake: _prepare_for_new_transmission. *)
pdp_udp_sender_send(nb) ==
    /\ sender.pc = "idle" /\ sender.packet < MaxPackets
    /\ rand_calls' = rand_calls + 1
    /\ sender' = [pc |-> "header", packet |-> sender.packet + 1, id |-> Rand[rand_calls + 1],
                  nb |-> nb, chunk_list |-> 0 .. nb - 1, hs_retry |-> HsRetry,
                  rs_retry |-> RsRetry, done_retry |-> 0, outcome |-> "none", selects |-> 0]
    /\ UNCHANGED <<receiver, s2r, r2s, delivered, restarts>>

SendHeader ==
    /\ sender.pc = "header"
    /\ IF sender.hs_retry = 0
       THEN Finish("error") /\ UNCHANGED s2r
       ELSE /\ sender' = [sender EXCEPT !.hs_retry = @ - 1, !.pc = "ack"]
            /\ s2r' = s2r \union {[kind |-> "NEW", id |-> sender.id, nb |-> sender.nb,
                                   packet |-> sender.packet]}
    /\ SenderOnly

(***************************************************************************)
(* _receive_packet skips a datagram that is not of the protocol, of        *)
(* another transmission or of another kind, and calls select again with    *)
(* the whole timeout: a timeout comes only when nothing arrives that long. *)
(***************************************************************************)
SkipDatagram ==
    /\ sender.pc \in {"ack", "resend"}
    /\ sender' = [sender EXCEPT !.selects = 1 - @]
    /\ SenderQuiet

AckTimeout == sender.pc = "ack" /\ Goto("header") /\ SenderQuiet

(* An error of select or recv ends the handshake like an answer. *)
AckError == SocketErrors /\ sender.pc = "ack" /\ Goto("chunks") /\ SenderQuiet
AckReceived ==
    /\ sender.pc = "ack" /\ [kind |-> "ACKNEW", id |-> sender.id] \in r2s
    /\ Goto("chunks")
    /\ SenderQuiet

(* Mutant: the rounds are not counted. *)
SendChunksForever ==
    /\ sender.pc = "chunks"
    /\ sender' = [sender EXCEPT !.done_retry = DoneRetry, !.pc = "done"]
    /\ s2r' = s2r \union {[kind |-> "DATA", id |-> sender.id, seq |-> c, packet |-> sender.packet]
                          : c \in sender.chunk_list}
    /\ SenderOnly

(* One round of the transmission loop sends every chunk of the list. *)
SendChunks ==
    /\ sender.pc = "chunks"
    /\ IF sender.rs_retry = 0
       THEN Finish("error") /\ UNCHANGED s2r
       ELSE /\ sender' = [sender EXCEPT !.rs_retry = @ - 1, !.done_retry = DoneRetry, !.pc = "done"]
            /\ s2r' = s2r \union {[kind |-> "DATA", id |-> sender.id, seq |-> c,
                                   packet |-> sender.packet] : c \in sender.chunk_list}
    /\ SenderOnly

(* _need_resend: after the last retry the transmission counts as done. *)
SendDone ==
    /\ sender.pc = "done"
    /\ IF sender.done_retry = 0
       THEN Finish("unconfirmed") /\ UNCHANGED s2r
       ELSE /\ sender' = [sender EXCEPT !.done_retry = @ - 1, !.pc = "resend"]
            /\ s2r' = s2r \union {[kind |-> "DONE", id |-> sender.id]}
    /\ SenderOnly

ResendTimeout == sender.pc = "resend" /\ Goto("done") /\ SenderQuiet
ResendError == SocketErrors /\ sender.pc = "resend" /\ Finish("unconfirmed") /\ SenderQuiet

(* Mutant: the connection id of the answer is not compared. *)
ResendFromAny(m) ==
    /\ sender.pc = "resend" /\ m.kind = "RESEND"
    /\ \/ Cardinality(m.chunks) > sender.nb /\ Goto("done")
       \/ m.chunks = {} /\ Finish("confirmed")
       \/ Cardinality(m.chunks) \in 1 .. sender.nb
          /\ sender' = [sender EXCEPT !.chunk_list = m.chunks, !.pc = "chunks", !.selects = 0]
    /\ SenderQuiet

(* A list that is too long is ignored and DONE is sent again. *)
ResendReceived(m) ==
    /\ sender.pc = "resend" /\ m.kind = "RESEND" /\ m.id = sender.id
    /\ IF Cardinality(m.chunks) > sender.nb THEN Goto("done")
       ELSE IF m.chunks = {} THEN Finish("confirmed")
       ELSE sender' = [sender EXCEPT !.chunk_list = m.chunks, !.pc = "chunks", !.selects = 0]
    /\ SenderQuiet

(* The sending process dies and is started again: rand() starts over. *)
SenderRestart ==
    /\ restarts[1] + restarts[2] < MaxRestarts
    /\ restarts' = [restarts EXCEPT ![1] = @ + 1]
    /\ sender' = NewSender(sender.packet)
    /\ rand_calls' = 0
    /\ UNCHANGED <<receiver, s2r, r2s, delivered>>

-----------------------------------------------------------------------------
(* The receiver: one datagram per call of pdp_udp_receiver_receive *)

ReceiverOnly == UNCHANGED <<sender, s2r, rand_calls, restarts>>

_handle_PDP_UDP_NEW(m) ==
    /\ m.kind = "NEW"
    /\ receiver' = IF receiver.id = m.id THEN receiver
                   ELSE [NewReceiver EXCEPT !.id = m.id, !.nb = m.nb, !.packet = m.packet]
    /\ r2s' = r2s \union {[kind |-> "ACKNEW", id |-> m.id]}
    /\ UNCHANGED delivered
    /\ ReceiverOnly

(* The first missing chunks, as many as fit in a datagram. *)
Missing == 0 .. receiver.nb - 1 \ receiver.chunk_list

ResendList == {c \in Missing : Cardinality({b \in Missing : b < c}) < ResendMax}

(* pdp_udp_receiver_receive returns 1 the first time nothing is missing. The *)
(* object resets the receiver if it cannot create a packet of the type.      *)
_handle_PDP_UDP_DONE(m, created) ==
    /\ m.kind = "DONE" /\ m.id = receiver.id
    /\ r2s' = r2s \union {[kind |-> "RESEND", id |-> receiver.id, chunks |-> ResendList]}
    /\ LET finished == receiver.finished \/ ResendList = {}
           signal == finished /\ ~receiver.transferred
       IN /\ receiver' = [receiver EXCEPT !.finished = finished,
                                          !.transferred = @ \/ finished,
                                          !.id = IF signal /\ ~created THEN NoId ELSE @]
          /\ delivered' = IF signal
                          THEN delivered \union {[packet |-> receiver.packet, nb |-> receiver.nb,
                                                  data |-> receiver.data]}
                          ELSE delivered
    /\ ReceiverOnly

(* Mutant: chunks of any transmission are stored. *)
DataFromAny(m) ==
    /\ m.kind = "DATA" /\ receiver.id # NoId /\ m.seq < receiver.nb
    /\ receiver' = [receiver EXCEPT !.data[m.seq] = m.packet, !.chunk_list = @ \union {m.seq}]
    /\ UNCHANGED <<r2s, delivered>>
    /\ ReceiverOnly

_handle_UDP_DATA(m) ==
    /\ m.kind = "DATA" /\ m.id = receiver.id /\ m.seq < receiver.nb
    /\ receiver' = [receiver EXCEPT !.data[m.seq] = m.packet, !.chunk_list = @ \union {m.seq}]
    /\ UNCHANGED <<r2s, delivered>>
    /\ ReceiverOnly

(* The receiving object is freed and created again. *)
ReceiverRestart ==
    /\ restarts[1] + restarts[2] < MaxRestarts
    /\ restarts' = [restarts EXCEPT ![2] = @ + 1]
    /\ receiver' = NewReceiver
    /\ UNCHANGED <<sender, s2r, r2s, delivered, rand_calls>>

-----------------------------------------------------------------------------
SenderStep ==
    \/ SendHeader \/ AckTimeout \/ AckError \/ AckReceived
    \/ SendChunks \/ SendDone \/ ResendTimeout \/ ResendError \/ SkipDatagram
    \/ \E m \in r2s : ResendReceived(m)

ReceiverStep ==
    \E m \in s2r : \/ _handle_PDP_UDP_NEW(m) \/ _handle_UDP_DATA(m)
                   \/ \E created \in BOOLEAN : _handle_PDP_UDP_DONE(m, created)

Next ==
    \/ \E nb \in 1 .. MaxChunks : pdp_udp_sender_send(nb)
    \/ SenderStep \/ ReceiverStep
    \/ SenderRestart \/ ReceiverRestart

Spec == Init /\ [][Next]_vars

(* The sending thread runs, and select returns: with a datagram or when its *)
(* timeout is over.  Nothing keeps the network from sending datagrams that  *)
(* are skipped for ever.                                                    *)
FairSpec == Spec /\ WF_vars(SenderStep)

-----------------------------------------------------------------------------
(* Until the sending process is restarted, the ids of its transmissions    *)
(* differ, as long as rand() does not repeat a value.                      *)
IdsDiffer == restarts[1] = 0 /\ \A j, k \in Packet : Rand[j] = Rand[k] => j = k

(* A transmission that ends with an empty RESEND was delivered: no answer  *)
(* to an earlier DONE, to another transmission or from an earlier          *)
(* incarnation of the receiver is taken for it, as long as ids differ.     *)
ConfirmedDelivered ==
    IdsDiffer /\ sender.outcome = "confirmed" => \E d \in delivered : d.packet = sender.packet

(* What is delivered is whole and unmixed: every chunk was received and    *)
(* belongs to the packet whose type was announced, whatever the network    *)
(* does to chunks of earlier transmissions, as long as ids differ.         *)
Intact(d) == \A c \in 0 .. d.nb - 1 : d.data[c] = d.packet
DeliveredIntact == IdsDiffer => \A d \in delivered : Intact(d)

(* The same across a restart of the sender. *)
RestartIntact == \A d \in delivered : Intact(d)

(* Every send returns, whatever is lost, late or repeated, unless the      *)
(* network goes on for ever to bring datagrams that are skipped: all       *)
(* rounds are counted, but the selects of one wait are not.                *)
SendReturns ==
    []<><<SkipDatagram>>_vars \/ (sender.pc # "idle" ~> sender.pc = "idle")

(* pdp_udp_sender_send returns 1 for the outcomes confirmed and            *)
(* unconfirmed; its comment says that means success.                       *)
SuccessDelivered ==
    sender.outcome \in {"confirmed", "unconfirmed"}
        => \E d \in delivered : d.packet = sender.packet

(* The receiver signals the arrival of a packet once. *)
DeliveredOnce ==
    [][receiver'.transferred /\ ~receiver.transferred
        => \A d \in delivered : d.packet # receiver.packet]_vars
=============================================================================
