------------------------- MODULE UdpTransfer_proofs -------------------------
(***************************************************************************)
(* What the transport protocol keeps for every number of packets, chunks   *)
(* and retries, on a network that loses, repeats, delays and reorders.     *)
(***************************************************************************)
EXTENDS UdpTransfer, RingArithmetic, FiniteSetTheorems, TLAPS

-----------------------------------------------------------------------------
(* The list of a RESEND is empty only when nothing is missing, however few  *)
(* chunks fit in a datagram.                                                *)
LEMMA ResendComplete ==
    ASSUME receiver.nb \in Nat
    PROVE  ResendList = {} => 0 .. receiver.nb - 1 \subseteq receiver.chunk_list
<1> SUFFICES ASSUME ResendList = {}, Missing # {} PROVE FALSE
  BY DEF Missing
<1>1. Missing \in SUBSET Nat
  BY DEF Missing
<1>2. PICK c \in Missing : \A b \in Missing : c <= b
  BY <1>1, Smallest
<1>3. {b \in Missing : b < c} = {}
  <2>1. c \in Int /\ \A b \in Missing : b \in Int /\ ~(b < c)
    BY <1>1, <1>2
  <2> QED
    BY <2>1
<1>4. Cardinality({b \in Missing : b < c}) = 0
  BY <1>3, FS_EmptySet
<1> QED
  BY <1>2, <1>4, BoundAssumption DEF ResendList

-----------------------------------------------------------------------------
(* Types of the parts of the state that change together. *)
LEMMA InitTypeOK == Init => TypeOK
<1> SUFFICES ASSUME Init PROVE TypeOK
  OBVIOUS
<1>1. sender \in Sender
  BY BoundAssumption DEF Init, NewSender, Sender, SenderPc, Outcome, NoId
<1>2. receiver \in Receiver
  BY BoundAssumption DEF Init, NewReceiver, Receiver, NoId
<1> QED
  BY <1>1, <1>2, BoundAssumption DEF Init, TypeOK

(* The counters a bound of the type depends on. *)
Counters ==
    /\ rand_calls <= sender.packet
    /\ restarts[1] + restarts[2] <= MaxRestarts
    /\ sender.pc # "idle" => sender.packet \in Packet /\ sender.id \in Id /\ sender.nb \in 1 .. MaxChunks
    /\ receiver.id # NoId => receiver.packet \in Packet /\ receiver.nb \in 1 .. MaxChunks

TypeInv == TypeOK /\ Counters

(* Every step keeps the types. *)
LEMMA SenderTypes ==
    ASSUME TypeInv, sender' \in Sender, s2r' \subseteq Forward, SenderOnly,
           sender'.packet = sender.packet,
           sender'.pc # "idle" => sender.pc # "idle" /\ sender'.id = sender.id /\ sender'.nb = sender.nb
    PROVE  TypeInv'
BY DEF TypeInv, TypeOK, Counters, SenderOnly

LEMMA FinishTypes ==
    ASSUME sender \in Sender, NEW o \in Outcome, Finish(o)
    PROVE  sender' \in Sender /\ sender'.packet = sender.packet /\ sender'.id = sender.id /\ sender'.nb = sender.nb
BY DEF Finish, Sender, SenderPc

LEMMA SendType == TypeInv /\ (\E nb \in 1 .. MaxChunks : pdp_udp_sender_send(nb)) => TypeInv'
<1> SUFFICES ASSUME TypeInv, NEW nb \in 1 .. MaxChunks, pdp_udp_sender_send(nb) PROVE TypeInv'
  OBVIOUS
<1>1. /\ sender.packet + 1 \in Packet /\ rand_calls + 1 \in Packet /\ rand_calls + 1 <= sender.packet + 1
      /\ Rand[rand_calls + 1] \in Id
  <2>1. /\ sender.packet \in Packet \union {0} /\ sender.packet < MaxPackets /\ rand_calls \in 0 .. MaxPackets
        /\ rand_calls <= sender.packet
    BY DEF TypeInv, TypeOK, Counters, pdp_udp_sender_send, Sender
  <2>2. sender.packet + 1 \in Packet /\ rand_calls + 1 \in Packet /\ rand_calls + 1 <= sender.packet + 1
    BY <2>1, BoundAssumption DEF Packet
  <2> QED
    BY <2>2 DEF Id
<1>2. nb \in 0 .. MaxChunks /\ 0 .. nb - 1 \in SUBSET Chunk
  BY BoundAssumption DEF Chunk
<1>3. sender' \in Sender
  BY <1>1, <1>2, BoundAssumption DEF pdp_udp_sender_send, Sender, SenderPc, Outcome
<1>4. Counters'
  BY <1>1, BoundAssumption DEF TypeInv, TypeOK, Counters, pdp_udp_sender_send
<1> QED
  BY <1>1, <1>3, <1>4, BoundAssumption DEF TypeInv, TypeOK, pdp_udp_sender_send, Packet

LEMMA QuietTypes ==
    ASSUME TypeInv, SenderQuiet, NEW pc \in SenderPc, NEW o \in Outcome, NEW n \in {0, 1}, sender.pc # "idle",
           \/ sender' = [sender EXCEPT !.pc = pc, !.selects = n]
           \/ sender' = [sender EXCEPT !.pc = pc, !.outcome = o, !.selects = n]
           \/ sender' = [sender EXCEPT !.selects = n]
    PROVE  TypeInv'
<1>1. sender' \in Sender /\ sender'.packet = sender.packet /\ sender'.id = sender.id /\ sender'.nb = sender.nb
  BY DEF TypeInv, TypeOK, Sender
<1> QED
  BY <1>1, SenderTypes DEF SenderQuiet, TypeInv, TypeOK

LEMMA SendHeaderType == TypeInv /\ SendHeader => TypeInv'
<1> SUFFICES ASSUME TypeInv, SendHeader PROVE TypeInv'
  OBVIOUS
<1>1. sender \in Sender /\ sender.packet \in Packet /\ sender.id \in Id /\ sender.nb \in 1 .. MaxChunks
  BY DEF TypeInv, TypeOK, Counters, SendHeader
<1>2. sender' \in Sender /\ sender'.packet = sender.packet /\ sender'.id = sender.id /\ sender'.nb = sender.nb
  <2>1. CASE sender.hs_retry = 0
    BY <1>1, <2>1, FinishTypes DEF SendHeader, Outcome
  <2>2. CASE sender.hs_retry # 0
    <3>1. sender.hs_retry - 1 \in 0 .. HsRetry
      BY <1>1, <2>2, BoundAssumption DEF Sender
    <3> QED
      BY <1>1, <2>2, <3>1 DEF SendHeader, Sender, SenderPc, Outcome
  <2> QED
    BY <2>1, <2>2
<1>3. s2r' \subseteq Forward
  BY <1>1 DEF SendHeader, Forward, TypeInv, TypeOK
<1> QED
  BY <1>2, <1>3, SenderTypes DEF SendHeader

LEMMA SendChunksType == TypeInv /\ SendChunks => TypeInv'
<1> SUFFICES ASSUME TypeInv, SendChunks PROVE TypeInv'
  OBVIOUS
<1>1. sender \in Sender /\ sender.packet \in Packet /\ sender.id \in Id /\ sender.chunk_list \subseteq Chunk
  BY DEF TypeInv, TypeOK, Counters, SendChunks, Sender
<1>2. sender' \in Sender /\ sender'.packet = sender.packet /\ sender'.id = sender.id /\ sender'.nb = sender.nb
  <2>1. CASE sender.rs_retry = 0
    BY <1>1, <2>1, FinishTypes DEF SendChunks, Outcome
  <2>2. CASE sender.rs_retry # 0
    <3>1. sender.rs_retry - 1 \in 0 .. RsRetry /\ DoneRetry \in 0 .. DoneRetry
      BY <1>1, <2>2, BoundAssumption DEF Sender
    <3> QED
      BY <1>1, <2>2, <3>1 DEF SendChunks, Sender, SenderPc, Outcome
  <2> QED
    BY <2>1, <2>2
<1>3. s2r' \subseteq Forward
  BY <1>1 DEF SendChunks, Forward, TypeInv, TypeOK
<1> QED
  BY <1>2, <1>3, SenderTypes DEF SendChunks

LEMMA SendDoneType == TypeInv /\ SendDone => TypeInv'
<1> SUFFICES ASSUME TypeInv, SendDone PROVE TypeInv'
  OBVIOUS
<1>1. sender \in Sender /\ sender.id \in Id
  BY DEF TypeInv, TypeOK, Counters, SendDone
<1>2. sender' \in Sender /\ sender'.packet = sender.packet /\ sender'.id = sender.id /\ sender'.nb = sender.nb
  <2>1. CASE sender.done_retry = 0
    BY <1>1, <2>1, FinishTypes DEF SendDone, Outcome
  <2>2. CASE sender.done_retry # 0
    <3>1. sender.done_retry - 1 \in 0 .. DoneRetry
      BY <1>1, <2>2, BoundAssumption DEF Sender
    <3> QED
      BY <1>1, <2>2, <3>1 DEF SendDone, Sender, SenderPc, Outcome
  <2> QED
    BY <2>1, <2>2
<1>3. s2r' \subseteq Forward
  BY <1>1 DEF SendDone, Forward, TypeInv, TypeOK
<1> QED
  BY <1>2, <1>3, SenderTypes DEF SendDone

LEMMA ResendReceivedType == TypeInv /\ (\E m \in r2s : ResendReceived(m)) => TypeInv'
<1> SUFFICES ASSUME TypeInv, NEW m \in r2s, ResendReceived(m) PROVE TypeInv'
  OBVIOUS
<1>1. m.chunks \subseteq Chunk
  BY DEF TypeInv, TypeOK, Backward, ResendReceived
<1>2. sender' \in Sender /\ sender'.packet = sender.packet /\ sender'.id = sender.id /\ sender'.nb = sender.nb
  <2>1. CASE Goto("done")
    BY <2>1 DEF TypeInv, TypeOK, Goto, Sender, SenderPc, Outcome
  <2>2. CASE Finish("confirmed")
    BY <2>2 DEF TypeInv, TypeOK, Finish, Sender, SenderPc, Outcome
  <2>3. CASE sender' = [sender EXCEPT !.chunk_list = m.chunks, !.pc = "chunks", !.selects = 0]
    BY <1>1, <2>3 DEF TypeInv, TypeOK, Sender, SenderPc, Outcome
  <2> QED
    BY <2>1, <2>2, <2>3 DEF ResendReceived
<1> QED
  BY <1>2, SenderTypes DEF ResendReceived, SenderQuiet, TypeInv, TypeOK

LEMMA SenderStepType == TypeInv /\ SenderStep => TypeInv'
<1> SUFFICES ASSUME TypeInv, SenderStep PROVE TypeInv'
  OBVIOUS
<1>1. CASE AckTimeout \/ AckError \/ AckReceived \/ ResendTimeout \/ ResendError \/ SkipDatagram
  <2>1. sender.pc # "idle" /\ SenderQuiet
    BY <1>1 DEF AckTimeout, AckError, AckReceived, ResendTimeout, ResendError, SkipDatagram
  <2>2. CASE SkipDatagram
    <3>1. sender.selects \in {0, 1}
      BY DEF TypeInv, TypeOK, Sender
    <3>2. 1 - sender.selects \in {0, 1} /\ sender' = [sender EXCEPT !.selects = 1 - sender.selects]
      BY <2>2, <3>1 DEF SkipDatagram
    <3>3. "idle" \in SenderPc /\ "none" \in Outcome
      BY DEF SenderPc, Outcome
    <3> QED
      BY <2>1, <3>2, <3>3, QuietTypes
  <2>3. CASE ~SkipDatagram
    <3>1. \E pc \in SenderPc, o \in Outcome : \/ sender' = [sender EXCEPT !.pc = pc, !.selects = 0]
                                             \/ sender' = [sender EXCEPT !.pc = pc, !.outcome = o, !.selects = 0]
      BY <1>1, <2>3 DEF AckTimeout, AckError, AckReceived, ResendTimeout, ResendError, Goto, Finish, SenderPc, Outcome
    <3> QED
      BY <2>1, <3>1, QuietTypes
  <2> QED
    BY <2>2, <2>3
<1> QED
  BY <1>1, SendHeaderType, SendChunksType, SendDoneType, ResendReceivedType DEF SenderStep

LEMMA ReceiverTypes ==
    ASSUME TypeInv, receiver' \in Receiver, r2s' \subseteq Backward, delivered' \subseteq Delivery, ReceiverOnly,
           receiver'.id # NoId => receiver'.packet \in Packet /\ receiver'.nb \in 1 .. MaxChunks
    PROVE  TypeInv'
BY DEF TypeInv, TypeOK, Counters, ReceiverOnly

LEMMA NewType == ASSUME TypeInv, NEW m \in s2r, _handle_PDP_UDP_NEW(m) PROVE TypeInv'
<1>1. m.id \in Id /\ m.nb \in 1 .. MaxChunks /\ m.packet \in Packet
  BY DEF TypeInv, TypeOK, Forward, _handle_PDP_UDP_NEW
<1>2. receiver' \in Receiver
  <2>1. [NewReceiver EXCEPT !.id = m.id, !.nb = m.nb, !.packet = m.packet] \in Receiver
    <3>1. NewReceiver \in Receiver
      BY BoundAssumption DEF NewReceiver, Receiver
    <3>2. m.nb \in 0 .. MaxChunks
      BY <1>1, BoundAssumption
    <3> QED
      BY <1>1, <3>1, <3>2 DEF Receiver
  <2> QED
    BY <2>1 DEF TypeInv, TypeOK, _handle_PDP_UDP_NEW
<1>3. r2s' \subseteq Backward
  BY <1>1 DEF TypeInv, TypeOK, Backward, _handle_PDP_UDP_NEW
<1>4. receiver'.id # NoId => receiver'.packet \in Packet /\ receiver'.nb \in 1 .. MaxChunks
  BY <1>1 DEF _handle_PDP_UDP_NEW, TypeInv, Counters, NewReceiver
<1> QED
  BY <1>2, <1>3, <1>4, ReceiverTypes DEF _handle_PDP_UDP_NEW, TypeInv, TypeOK

LEMMA DataType == ASSUME TypeInv, NEW m \in s2r, _handle_UDP_DATA(m) PROVE TypeInv'
<1>1. m.seq \in Chunk /\ m.packet \in Packet
  BY DEF TypeInv, TypeOK, Forward, _handle_UDP_DATA
<1>2. receiver' \in Receiver
  BY <1>1 DEF TypeInv, TypeOK, Receiver, _handle_UDP_DATA
<1>3. receiver'.id = receiver.id /\ receiver'.packet = receiver.packet /\ receiver'.nb = receiver.nb
  BY DEF TypeInv, TypeOK, Receiver, _handle_UDP_DATA
<1> QED
  BY <1>2, <1>3, ReceiverTypes DEF _handle_UDP_DATA, TypeInv, TypeOK, Counters

(* What a DONE does to the receiver and to the packets delivered. *)
Finishes == receiver.finished \/ ResendList = {}
Signals == Finishes /\ ~receiver.transferred
Delivered == [packet |-> receiver.packet, nb |-> receiver.nb, data |-> receiver.data]
LEMMA DoneEffect ==
    ASSUME TypeInv, NEW m \in s2r, NEW created \in BOOLEAN, _handle_PDP_UDP_DONE(m, created)
    PROVE  /\ receiver.id \in Id /\ receiver.id # NoId /\ receiver.packet \in Packet /\ receiver.nb \in 1 .. MaxChunks
           /\ receiver' \in Receiver /\ receiver'.id \in {receiver.id, NoId}
           /\ receiver'.packet = receiver.packet /\ receiver'.nb = receiver.nb
           /\ receiver'.chunk_list = receiver.chunk_list /\ receiver'.data = receiver.data
           /\ receiver'.finished = Finishes /\ receiver'.transferred = (receiver.transferred \/ Finishes)
           /\ delivered' = (IF Signals THEN delivered \union {Delivered} ELSE delivered)
           /\ Delivered \in Delivery /\ ResendList \subseteq Chunk
           /\ r2s' = r2s \union {[kind |-> "RESEND", id |-> receiver.id, chunks |-> ResendList]}
<1>1. m.id \in Id /\ m.id = receiver.id
  BY DEF TypeInv, TypeOK, Forward, _handle_PDP_UDP_DONE
<1>2. receiver.id # NoId
  BY <1>1, RandAssumption DEF Id
<1>3. receiver.packet \in Packet /\ receiver.nb \in 1 .. MaxChunks
  BY <1>2 DEF TypeInv, Counters
<1>4. ResendList \subseteq Chunk
  BY <1>3, BoundAssumption DEF ResendList, Missing, Chunk
<1>5. Delivered \in Delivery
  BY <1>3 DEF Delivered, Delivery, TypeInv, TypeOK, Receiver
<1>6. /\ receiver' = [receiver EXCEPT !.finished = Finishes, !.transferred = receiver.transferred \/ Finishes,
                                     !.id = IF Signals /\ ~created THEN NoId ELSE receiver.id]
      /\ delivered' = (IF Signals THEN delivered \union {Delivered} ELSE delivered)
      /\ r2s' = r2s \union {[kind |-> "RESEND", id |-> receiver.id, chunks |-> ResendList]}
  BY DEF _handle_PDP_UDP_DONE, Finishes, Signals, Delivered
<1>7. receiver \in Receiver /\ Finishes \in BOOLEAN /\ (receiver.transferred \/ Finishes) \in BOOLEAN
  BY DEF TypeInv, TypeOK, Finishes
<1>8. /\ receiver' \in Receiver /\ receiver'.id \in {receiver.id, NoId}
      /\ receiver'.packet = receiver.packet /\ receiver'.nb = receiver.nb
      /\ receiver'.chunk_list = receiver.chunk_list /\ receiver'.data = receiver.data
      /\ receiver'.finished = Finishes /\ receiver'.transferred = (receiver.transferred \/ Finishes)
  BY <1>6, <1>7 DEF Receiver
<1> QED
  BY <1>1, <1>2, <1>3, <1>4, <1>5, <1>6, <1>8

LEMMA DoneType ==
    ASSUME TypeInv, NEW m \in s2r, NEW created \in BOOLEAN, _handle_PDP_UDP_DONE(m, created)
    PROVE  TypeInv'
<1>1. r2s' \subseteq Backward
  BY DoneEffect DEF TypeInv, TypeOK, Backward
<1>2. delivered' \subseteq Delivery
  BY DoneEffect DEF TypeInv, TypeOK
<1>3. receiver' \in Receiver /\ (receiver'.id # NoId => receiver'.packet \in Packet /\ receiver'.nb \in 1 .. MaxChunks)
  BY DoneEffect
<1>4. ReceiverOnly
  BY DEF _handle_PDP_UDP_DONE
<1> QED
  BY <1>1, <1>2, <1>3, <1>4, ReceiverTypes

LEMMA SenderRestartType == TypeInv /\ SenderRestart => TypeInv'
<1> SUFFICES ASSUME TypeInv, SenderRestart PROVE TypeInv'
  OBVIOUS
<1>1. sender' \in Sender /\ sender'.pc = "idle" /\ sender'.packet \in Nat
  BY BoundAssumption DEF TypeInv, TypeOK, SenderRestart, NewSender, Sender, SenderPc, Outcome, NoId, Packet
<1>2. /\ restarts' \in (0 .. MaxRestarts) \X (0 .. MaxRestarts) /\ restarts'[1] + restarts'[2] <= MaxRestarts
  BY BoundAssumption DEF TypeInv, TypeOK, SenderRestart
<1> QED
  BY <1>1, <1>2, BoundAssumption DEF TypeInv, TypeOK, Counters, SenderRestart

LEMMA ReceiverRestartType == TypeInv /\ ReceiverRestart => TypeInv'
<1> SUFFICES ASSUME TypeInv, ReceiverRestart PROVE TypeInv'
  OBVIOUS
<1>1. receiver' \in Receiver /\ receiver'.id = NoId
  BY BoundAssumption DEF ReceiverRestart, NewReceiver, Receiver
<1>2. restarts' \in (0 .. MaxRestarts) \X (0 .. MaxRestarts) /\ restarts'[1] + restarts'[2] <= MaxRestarts
  BY BoundAssumption DEF TypeInv, TypeOK, ReceiverRestart
<1> QED
  BY <1>1, <1>2 DEF TypeInv, TypeOK, Counters, ReceiverRestart

LEMMA InitTypeInv == Init => TypeInv
<1>1. Init => Counters
  BY BoundAssumption DEF Init, Counters, NewSender, NewReceiver
<1> QED
  BY <1>1, InitTypeOK DEF TypeInv

LEMMA StepTypeInv == TypeInv /\ [Next]_vars => TypeInv'
<1> SUFFICES ASSUME TypeInv, [Next]_vars PROVE TypeInv'
  OBVIOUS
<1>1. CASE ReceiverStep
  BY <1>1, NewType, DataType, DoneType DEF ReceiverStep
<1>2. CASE UNCHANGED vars
  BY <1>2 DEF vars, TypeInv, TypeOK, Counters
<1> QED
  BY <1>1, <1>2, SendType, SenderStepType, SenderRestartType, ReceiverRestartType DEF Next

(* The state of sender, receiver and network keeps its types: no index of   *)
(* a chunk, no retry and no packet number leaves its range.                 *)
THEOREM TypeCorrect == Spec => []TypeOK
<1>1. TypeInv => TypeOK
  BY DEF TypeInv
<1>2. Spec => []TypeInv
  BY InitTypeInv, StepTypeInv, PTL DEF Spec
<1> QED
  BY <1>1, <1>2, PTL

-----------------------------------------------------------------------------
(* The inductive invariant. *)
(* Until the sender restarts, the n-th transmission has the n-th id, in the *)
(* datagrams and at the receiver too.                                       *)
Numbered ==
    restarts[1] = 0 =>
        /\ rand_calls = sender.packet
        /\ sender.packet # 0 => sender.id = Rand[sender.packet]
        /\ \A m \in s2r : m.kind \in {"NEW", "DATA"} => m.id = Rand[m.packet]
        /\ receiver.id # NoId => receiver.id = Rand[receiver.packet]

(* The chunks that count as received belong to the packet announced. *)
Unmixed == IdsDiffer => \A c \in receiver.chunk_list : receiver.data[c] = receiver.packet

(* The receiver signals what it finished, and only then answers with an     *)
(* empty list.                                                              *)
Signalled ==
    /\ receiver.finished => receiver.transferred
    /\ receiver.transferred => \E d \in delivered : d.packet = receiver.packet
Answered ==
    restarts[1] = 0 =>
        \A m \in r2s : m.kind = "RESEND" /\ m.chunks = {} => \E d \in delivered : m.id = Rand[d.packet]

TransferInv ==
    TypeInv /\ Numbered /\ Unmixed /\ Signalled /\ Answered /\ ConfirmedDelivered /\ DeliveredIntact

LEMMA InitTransfer == Init => TransferInv
<1> SUFFICES ASSUME Init PROVE TransferInv
  OBVIOUS
<1>1. TypeInv
  BY InitTypeInv
<1>2. Numbered /\ Unmixed /\ Signalled /\ Answered /\ ConfirmedDelivered /\ DeliveredIntact
  BY DEF Init, NewSender, NewReceiver, Numbered, Unmixed, Signalled, Answered, ConfirmedDelivered, DeliveredIntact, IdsDiffer
<1> QED
  BY <1>1, <1>2 DEF TransferInv

LEMMA SendTransfer == TransferInv /\ (\E nb \in 1 .. MaxChunks : pdp_udp_sender_send(nb)) => TransferInv'
<1> SUFFICES ASSUME TransferInv, NEW nb \in 1 .. MaxChunks, pdp_udp_sender_send(nb) PROVE TransferInv'
  OBVIOUS
<1>1. TypeInv'
  BY SendType DEF TransferInv
<1>2. sender'.packet = sender.packet + 1 /\ sender'.id = Rand[rand_calls + 1] /\ sender'.outcome = "none"
      /\ rand_calls' = rand_calls + 1
  BY DEF pdp_udp_sender_send
<1>3. Numbered'
  BY <1>2 DEF TransferInv, Numbered, pdp_udp_sender_send
<1>4. Unmixed' /\ Signalled' /\ Answered' /\ ConfirmedDelivered' /\ DeliveredIntact'
  BY <1>2 DEF TransferInv, Numbered, Unmixed, Signalled, Answered, ConfirmedDelivered, DeliveredIntact, IdsDiffer, pdp_udp_sender_send
<1> QED
  BY <1>1, <1>3, <1>4 DEF TransferInv

(* A step of the sender that does not confirm anything. *)
LEMMA SenderMoves ==
    ASSUME TransferInv, TypeInv', SenderOnly, sender'.packet = sender.packet, sender'.id = sender.id,
           sender'.outcome = "confirmed" => sender.outcome = "confirmed",
           \A m \in s2r' \ s2r : m.kind = "DONE" \/ (m.packet = sender.packet /\ m.id = sender.id /\ sender.packet # 0)
    PROVE  TransferInv'
<1>1. Numbered'
  BY DEF TransferInv, Numbered, SenderOnly
<1>2. Unmixed' /\ Signalled' /\ Answered' /\ ConfirmedDelivered' /\ DeliveredIntact'
  BY DEF TransferInv, Numbered, Unmixed, Signalled, Answered, ConfirmedDelivered, DeliveredIntact, IdsDiffer, SenderOnly
<1> QED
  BY <1>1, <1>2 DEF TransferInv

LEMMA SenderStepTransfer == TransferInv /\ SenderStep => TransferInv'
<1> SUFFICES ASSUME TransferInv, SenderStep PROVE TransferInv'
  OBVIOUS
<1>1. TypeInv' /\ sender \in Sender
  BY SenderStepType DEF TransferInv, TypeInv, TypeOK
<1>2. CASE AckTimeout \/ AckError \/ AckReceived \/ ResendTimeout \/ ResendError \/ SkipDatagram
  <2>1. SenderOnly /\ s2r' = s2r /\ sender'.packet = sender.packet /\ sender'.id = sender.id
        /\ (sender'.outcome = sender.outcome \/ sender'.outcome = "unconfirmed")
    BY <1>1, <1>2 DEF AckTimeout, AckError, AckReceived, ResendTimeout, ResendError, SkipDatagram, Goto, Finish, SenderQuiet, Sender
  <2> QED
    BY <1>1, <2>1, SenderMoves
<1>3. CASE SendHeader
  <2>1. SenderOnly /\ sender'.packet = sender.packet /\ sender'.id = sender.id
        /\ (sender'.outcome = sender.outcome \/ sender'.outcome = "error")
    BY <1>1, <1>3 DEF SendHeader, Finish, Sender
  <2>2. \A m \in s2r' \ s2r : m.packet = sender.packet /\ m.id = sender.id /\ sender.packet # 0
    BY <1>3 DEF SendHeader, TransferInv, TypeInv, Counters, Packet
  <2> QED
    BY <1>1, <2>1, <2>2, SenderMoves
<1>4. CASE SendChunks
  <2>1. SenderOnly /\ sender'.packet = sender.packet /\ sender'.id = sender.id
        /\ (sender'.outcome = sender.outcome \/ sender'.outcome = "error")
    BY <1>1, <1>4 DEF SendChunks, Finish, Sender
  <2>2. \A m \in s2r' \ s2r : m.packet = sender.packet /\ m.id = sender.id /\ sender.packet # 0
    BY <1>4 DEF SendChunks, TransferInv, TypeInv, Counters, Packet
  <2> QED
    BY <1>1, <2>1, <2>2, SenderMoves
<1>5. CASE SendDone
  <2>1. SenderOnly /\ sender'.packet = sender.packet /\ sender'.id = sender.id
        /\ (sender'.outcome = sender.outcome \/ sender'.outcome = "unconfirmed")
    BY <1>1, <1>5 DEF SendDone, Finish, Sender
  <2>2. \A m \in s2r' \ s2r : m.kind = "DONE"
    BY <1>5 DEF SendDone
  <2> QED
    BY <1>1, <2>1, <2>2, SenderMoves
<1>6. ASSUME NEW m \in r2s, ResendReceived(m) PROVE TransferInv'
  <2>1. SenderOnly /\ s2r' = s2r /\ sender'.packet = sender.packet /\ sender'.id = sender.id
        /\ m.kind = "RESEND" /\ m.id = sender.id /\ sender.packet \in Packet
        /\ (sender'.outcome = sender.outcome \/ m.chunks = {})
    BY <1>1, <1>6 DEF ResendReceived, Goto, Finish, SenderQuiet, Sender, TransferInv, TypeInv, Counters
  <2>2. CASE m.chunks = {}
    <3>1. restarts[1] = 0 => \E d \in delivered : sender.id = Rand[d.packet] /\ d.packet \in Packet
      BY <1>6, <2>1, <2>2 DEF TransferInv, Answered, TypeInv, TypeOK, Delivery
    <3>2. restarts[1] = 0 => sender.id = Rand[sender.packet]
      BY <2>1 DEF TransferInv, Numbered, Packet
    <3>3. IdsDiffer => \E d \in delivered : d.packet = sender.packet
      BY <2>1, <3>1, <3>2 DEF IdsDiffer
    <3>4. ConfirmedDelivered'
      BY <2>1, <3>3 DEF ConfirmedDelivered, IdsDiffer, SenderOnly
    <3>5. Numbered' /\ Unmixed' /\ Signalled' /\ Answered' /\ DeliveredIntact'
      BY <2>1 DEF TransferInv, Numbered, Unmixed, Signalled, Answered, DeliveredIntact, IdsDiffer, SenderOnly
    <3> QED
      BY <1>1, <3>4, <3>5 DEF TransferInv
  <2>3. CASE m.chunks # {}
    BY <1>1, <2>1, <2>3, SenderMoves
  <2> QED
    BY <2>2, <2>3
<1> QED
  BY <1>2, <1>3, <1>4, <1>5, <1>6 DEF SenderStep

LEMMA NewTransfer == ASSUME TransferInv, NEW m \in s2r, _handle_PDP_UDP_NEW(m) PROVE TransferInv'
<1>1. TypeInv'
  BY NewType DEF TransferInv
<1>2. receiver' = receiver \/ (receiver'.id = m.id /\ receiver'.packet = m.packet /\ receiver'.chunk_list = {}
                             /\ receiver'.finished = FALSE /\ receiver'.transferred = FALSE)
  BY DEF _handle_PDP_UDP_NEW, NewReceiver
<1>3. Numbered' /\ Unmixed' /\ Signalled' /\ ConfirmedDelivered' /\ DeliveredIntact'
  BY <1>2 DEF TransferInv, Numbered, Unmixed, Signalled, ConfirmedDelivered, DeliveredIntact, IdsDiffer,
     _handle_PDP_UDP_NEW, ReceiverOnly
<1>4. Answered'
  BY DEF TransferInv, Answered, _handle_PDP_UDP_NEW, ReceiverOnly
<1> QED
  BY <1>1, <1>3, <1>4 DEF TransferInv

LEMMA DataTransfer == ASSUME TransferInv, NEW m \in s2r, _handle_UDP_DATA(m) PROVE TransferInv'
<1>1. TypeInv' /\ receiver \in Receiver
  BY DataType DEF TransferInv, TypeInv, TypeOK
<1>2. m.seq \in Chunk /\ m.packet \in Packet /\ m.id \in Id /\ m.id = receiver.id
  BY DEF TransferInv, TypeInv, TypeOK, Forward, _handle_UDP_DATA
<1>3. receiver.id # NoId
  BY <1>2, RandAssumption DEF Id
<1>4. IdsDiffer => m.packet = receiver.packet
  <2>1. receiver.packet \in Packet
    BY <1>3 DEF TransferInv, TypeInv, Counters
  <2>2. restarts[1] = 0 => Rand[m.packet] = Rand[receiver.packet]
    BY <1>2, <1>3 DEF TransferInv, Numbered, _handle_UDP_DATA
  <2> QED
    BY <1>2, <2>1, <2>2 DEF IdsDiffer
<1>5. /\ receiver'.id = receiver.id /\ receiver'.packet = receiver.packet
      /\ receiver'.finished = receiver.finished /\ receiver'.transferred = receiver.transferred
      /\ receiver'.chunk_list = receiver.chunk_list \union {m.seq}
      /\ receiver'.data = [receiver.data EXCEPT ![m.seq] = m.packet] /\ receiver.data \in [Chunk -> Packet \union {0}]
  BY <1>1 DEF _handle_UDP_DATA, Receiver
<1>6. Unmixed'
  BY <1>1, <1>2, <1>4, <1>5 DEF TransferInv, Unmixed, IdsDiffer, _handle_UDP_DATA, ReceiverOnly, Receiver
<1>7. Numbered' /\ Signalled' /\ Answered' /\ ConfirmedDelivered' /\ DeliveredIntact'
  BY <1>5 DEF TransferInv, Numbered, Signalled, Answered, ConfirmedDelivered, DeliveredIntact, IdsDiffer,
     _handle_UDP_DATA, ReceiverOnly
<1> QED
  BY <1>1, <1>6, <1>7 DEF TransferInv

LEMMA DoneTransfer ==
    ASSUME TransferInv, NEW m \in s2r, NEW created \in BOOLEAN, _handle_PDP_UDP_DONE(m, created)
    PROVE  TransferInv'
<1>1. TypeInv /\ TypeInv'
  BY DoneType DEF TransferInv
<1>2. ReceiverOnly /\ delivered \subseteq delivered'
  BY <1>1, DoneEffect DEF _handle_PDP_UDP_DONE
<1>3. Finishes => \E d \in delivered' : d.packet = receiver.packet
  <2>1. CASE receiver.transferred
    BY <1>2, <2>1 DEF TransferInv, Signalled
  <2>2. CASE Finishes /\ ~receiver.transferred
    <3>1. Delivered \in delivered' /\ Delivered.packet = receiver.packet
      BY <1>1, <2>2, DoneEffect DEF Signals, Delivered
    <3> QED
      BY <3>1
  <2> QED
    BY <2>1, <2>2
<1>4. Signalled'
  <2>1. receiver'.packet = receiver.packet /\ receiver'.finished = Finishes
        /\ receiver'.transferred = (receiver.transferred \/ Finishes)
    BY <1>1, DoneEffect
  <2> QED
    BY <1>2, <1>3, <2>1 DEF TransferInv, Signalled
<1>5. Numbered'
  BY <1>1, <1>2, DoneEffect DEF TransferInv, Numbered, ReceiverOnly
<1>6. Unmixed'
  BY <1>1, <1>2, DoneEffect DEF TransferInv, Unmixed, IdsDiffer, ReceiverOnly
<1>7. Answered'
  <2> SUFFICES ASSUME restarts[1] = 0, NEW a \in r2s', a.kind = "RESEND", a.chunks = {}
               PROVE  \E d \in delivered' : a.id = Rand[d.packet]
    BY <1>2 DEF Answered, ReceiverOnly
  <2>1. CASE a \in r2s
    BY <1>2, <2>1 DEF TransferInv, Answered
  <2>2. CASE a = [kind |-> "RESEND", id |-> receiver.id, chunks |-> ResendList]
    <3>1. Finishes /\ a.id = receiver.id
      BY <2>2 DEF Finishes
    <3>2. receiver.id = Rand[receiver.packet]
      BY <1>1, DoneEffect DEF TransferInv, Numbered
    <3> QED
      BY <1>3, <3>1, <3>2
  <2> QED
    BY <1>1, <2>1, <2>2, DoneEffect
<1>8. ConfirmedDelivered'
  BY <1>2 DEF TransferInv, ConfirmedDelivered, IdsDiffer, ReceiverOnly
<1>9. DeliveredIntact'
  <2> SUFFICES ASSUME IdsDiffer, NEW d \in delivered' PROVE Intact(d)
    BY <1>2 DEF DeliveredIntact, IdsDiffer, ReceiverOnly
  <2>1. CASE d \in delivered
    BY <2>1 DEF TransferInv, DeliveredIntact
  <2>2. CASE d = Delivered /\ Signals
    <3>1. ResendList = {}
      BY <2>2 DEF Signals, Finishes, TransferInv, Signalled
    <3>2. receiver.nb \in Nat
      BY <1>1, DoneEffect
    <3>3. 0 .. receiver.nb - 1 \subseteq receiver.chunk_list
      BY <3>1, <3>2, ResendComplete
    <3>4. \A c \in 0 .. receiver.nb - 1 : receiver.data[c] = receiver.packet
      BY <3>3 DEF TransferInv, Unmixed
    <3> QED
      BY <2>2, <3>4 DEF Intact, Delivered
  <2> QED
    BY <1>1, <2>1, <2>2, DoneEffect
<1> QED
  BY <1>1, <1>4, <1>5, <1>6, <1>7, <1>8, <1>9 DEF TransferInv

LEMMA RestartTransfer == TransferInv /\ (SenderRestart \/ ReceiverRestart) => TransferInv'
<1> SUFFICES ASSUME TransferInv, SenderRestart \/ ReceiverRestart PROVE TransferInv'
  OBVIOUS
<1>1. TypeInv'
  BY SenderRestartType, ReceiverRestartType DEF TransferInv
<1>2. CASE SenderRestart
  <2>1. restarts'[1] # 0
    BY <1>2 DEF SenderRestart, TransferInv, TypeInv, TypeOK
  <2> QED
    BY <1>1, <1>2, <2>1 DEF SenderRestart, TransferInv, Numbered, Unmixed, Signalled, Answered, ConfirmedDelivered, DeliveredIntact, IdsDiffer
<1>3. CASE ReceiverRestart
  <2>1. /\ receiver'.id = NoId /\ receiver'.chunk_list = {}
        /\ receiver'.finished = FALSE /\ receiver'.transferred = FALSE
    BY <1>3 DEF ReceiverRestart, NewReceiver
  <2>2. restarts'[1] = restarts[1]
    BY <1>3 DEF ReceiverRestart, TransferInv, TypeInv, TypeOK
  <2> QED
    BY <1>1, <1>3, <2>1, <2>2 DEF ReceiverRestart, TransferInv, Numbered, Unmixed, Signalled, Answered, ConfirmedDelivered, DeliveredIntact, IdsDiffer
<1> QED
  BY <1>2, <1>3

LEMMA StepTransfer == TransferInv /\ [Next]_vars => TransferInv'
<1> SUFFICES ASSUME TransferInv, [Next]_vars PROVE TransferInv'
  OBVIOUS
<1>1. CASE ReceiverStep
  BY <1>1, NewTransfer, DataTransfer, DoneTransfer DEF ReceiverStep
<1>2. CASE UNCHANGED vars
  <2>1. TypeInv'
    BY <1>2, StepTypeInv DEF TransferInv
  <2> QED
    BY <1>2, <2>1 DEF vars, TransferInv, Numbered, Unmixed, Signalled, Answered, ConfirmedDelivered, DeliveredIntact, IdsDiffer
<1> QED
  BY <1>1, <1>2, SendTransfer, SenderStepTransfer, RestartTransfer DEF Next

(* The invariant holds whatever the network does to the datagrams. *)
THEOREM TransferInvariant == Spec => []TransferInv
BY InitTransfer, StepTransfer, PTL DEF Spec

(* pdp_udp_sender_send that ends on an empty RESEND has delivered its       *)
(* packet, on every network, as long as the ids differ.                     *)
THEOREM Confirmed == Spec => []ConfirmedDelivered
<1>1. TransferInv => ConfirmedDelivered
  BY DEF TransferInv
<1> QED
  BY TransferInvariant, <1>1, PTL

(* Every packet the receiver signals is complete and holds only chunks of   *)
(* the transmission announced, as long as the ids differ.                   *)
THEOREM Whole == Spec => []DeliveredIntact
<1>1. TransferInv => DeliveredIntact
  BY DEF TransferInv
<1> QED
  BY TransferInvariant, <1>1, PTL
=============================================================================
