--------------------------- MODULE Threads_proofs ---------------------------
(***************************************************************************)
(* What the objects with a thread of their own keep for every number of    *)
(* packets and buffers: pdp_netsend, pdp_netreceive, the video capture,    *)
(* the raw streams and the image objects.                                  *)
(***************************************************************************)
EXTENDS UdpSend, UdpReceive, Capture, RawStream, Filters, RingArithmetic,
        SequenceTheorems, FiniteSetTheorems, TLAPS

-----------------------------------------------------------------------------
(* pdp_netsend.  The ring keeps its packets and their order for every       *)
(* number of slots and of packets, although it is never locked.             *)

(* The packets stored and the packets released: each index is the number   *)
(* of steps its thread has made.                                           *)
Stored == IF pd.pc = "advance" THEN accepted - 1 ELSE accepted
Passed == IF thread \in {"release", "advance"} THEN sent - 1 ELSE sent

IndexInv ==
    /\ x_write_packet = Stored % NbPackets
    /\ x_read_packet = Passed % NbPackets

(* Every stored packet is in its own slot. *)
HomeInv ==
    /\ \A n \in Oldest .. accepted : x_packet[(n - 1) % NbPackets] = n
    /\ \A s \in Slot : \/ x_packet[s] = Free
                       \/ x_packet[s] \in Oldest .. accepted /\ s = (x_packet[s] - 1) % NbPackets

(* No more packets than slots, and none transmitted before it is stored. *)
CountInv ==
    /\ sent <= accepted
    /\ accepted - Oldest + 1 <= NbPackets
    /\ thread \in {"release", "advance"} => sent >= 1
    /\ pd.pc = "advance" => accepted >= 1

(* The thread goes on to transmit only with a packet under its index. *)
ThreadInv ==
    /\ thread = "send" => ~ReadEmpty
    /\ thread = "awake" /\ ~x_exit_thread => ~ReadEmpty
    /\ pd.pc = "freed" => thread = "stopped"

RingIInv ==
    /\ TypeOK
    /\ IndexInv
    /\ pd.pc # "freed" => HomeInv
    /\ CountInv
    /\ ThreadInv

-----------------------------------------------------------------------------
LEMMA SlotFacts ==
    /\ NbPackets \in Nat \ {0} /\ MaxPackets \in Nat
    /\ Slot \subseteq Int
    /\ \A x \in Int : x % NbPackets \in Slot
    /\ -1 \notin 1 .. MaxPackets
BY SizeAssumption DEF Slot

LEMMA StepIndex ==
    ASSUME NEW k \in Int
    PROVE  Step(k % NbPackets) = (k + 1) % NbPackets
BY SlotFacts, ModStep DEF Step

(* The object starts with an empty ring (pdp_udp_send_new). *)
LEMMA RingInitIInv == Init => RingIInv
<1> SUFFICES ASSUME Init PROVE RingIInv  OBVIOUS
<1>1. 0 % NbPackets = 0  BY SizeAssumption
<1>2. TypeOK
  <2>1. x_packet \in [Slot -> 1 .. MaxPackets \union {Free}]  BY DEF Init
  <2>2. 0 \in Slot /\ 0 \in 0 .. MaxPackets  BY SizeAssumption DEF Slot
  <2>3. pd \in [pc : PdPc, op : {"none", "connect", "free"}]  BY DEF Init, PdPc
  <2>. QED  BY <2>1, <2>2, <2>3 DEF Init, TypeOK, None, ThreadPc
<1>3. IndexInv  BY <1>1 DEF Init, IndexInv, Stored, Passed
<1>4. Oldest = 1  BY DEF Init, Oldest
<1>5. HomeInv  BY <1>4 DEF Init, HomeInv
<1>6. CountInv  BY <1>4, SizeAssumption DEF Init, CountInv
<1>7. ThreadInv  BY DEF Init, ThreadInv
<1>. QED  BY <1>2, <1>3, <1>5, <1>6, <1>7 DEF RingIInv

(* Storing a packet: the slot is free only if fewer packets than slots are *)
(* stored, and it is the home of the next one.                             *)
LEMMA InputIInv ==
    ASSUME RingIInv, pdp_udp_send_input_0
    PROVE  RingIInv'
<1> USE SlotFacts
<1>1. TypeOK /\ HomeInv /\ CountInv /\ IndexInv /\ ThreadInv
  BY DEF RingIInv, pdp_udp_send_input_0
<1>2. accepted \in 0 .. MaxPackets /\ sent \in 0 .. MaxPackets /\ accepted + 1 \in 1 .. MaxPackets
  BY <1>1 DEF TypeOK, pdp_udp_send_input_0
<1>3. x_write_packet = accepted % NbPackets /\ x_packet[x_write_packet] = Free
  BY <1>1 DEF IndexInv, Stored, pdp_udp_send_input_0
<1>4. Oldest \in Int /\ Oldest >= 0 /\ Oldest' = Oldest /\ Passed' = Passed
  BY <1>2 DEF Oldest, Passed, pdp_udp_send_input_0
<1>5. accepted - Oldest + 1 < NbPackets
  <2> SUFFICES ASSUME accepted - Oldest + 1 >= NbPackets PROVE FALSE
    BY <1>2, <1>4
  <2>1. accepted = (Oldest - 1) + NbPackets * 1  BY <1>1, <1>2, <1>4 DEF CountInv
  <2>2. accepted % NbPackets = (Oldest - 1) % NbPackets
    <3>1. Oldest - 1 \in Int /\ 1 \in Int  BY <1>4
    <3>. QED  BY <2>1, <3>1, ModShift
  <2>3. Oldest \in Oldest .. accepted  BY <1>2, <1>4, <2>1
  <2>4. x_packet[accepted % NbPackets] = Oldest  BY <1>1, <2>2, <2>3 DEF HomeInv
  <2>. QED  BY <1>3, <1>4, <2>4 DEF Free
<1>6. TypeOK'
  BY <1>1, <1>2 DEF TypeOK, pdp_udp_send_input_0, PdGoto, PdPc
<1>7. x_packet' = [x_packet EXCEPT ![x_write_packet] = accepted + 1] /\ accepted' = accepted + 1
  BY DEF pdp_udp_send_input_0
<1>8. x_packet \in [Slot -> Int] /\ x_write_packet \in Slot /\ x_read_packet \in Slot
  BY <1>1 DEF TypeOK, Free
<1>9. HomeInv'
  <2>1. ASSUME NEW n \in Oldest .. accepted + 1
        PROVE  x_packet'[(n - 1) % NbPackets] = n
    <3>1. n - 1 \in Int /\ (n - 1) % NbPackets \in Slot  BY <1>4, <1>2
    <3>2. CASE n = accepted + 1  BY <1>3, <1>7, <1>8, <3>1, <3>2, <1>2
    <3>3. CASE n \in Oldest .. accepted
      <4>1. x_packet[(n - 1) % NbPackets] = n  BY <1>1, <3>3 DEF HomeInv
      <4>2. (n - 1) % NbPackets # x_write_packet  BY <1>3, <1>4, <4>1, <3>3 DEF Free
      <4>. QED  BY <1>7, <1>8, <3>1, <4>1, <4>2
    <3>. QED  BY <3>2, <3>3, <1>2, <1>4
  <2>2. ASSUME NEW s \in Slot
        PROVE  \/ x_packet'[s] = Free
               \/ /\ x_packet'[s] \in Oldest .. accepted + 1
                  /\ s = (x_packet'[s] - 1) % NbPackets
    <3>1. CASE s = x_write_packet
      <4>1. x_packet'[s] = accepted + 1  BY <1>7, <1>8, <3>1
      <4>2. accepted + 1 - 1 = accepted  BY <1>2
      <4>3. accepted + 1 \in Oldest .. accepted + 1
        BY <1>1, <1>2, <1>4 DEF Oldest, CountInv
      <4>4. x_packet'[s] - 1 = accepted  BY <1>2, <4>1, <4>2
      <4>5. s = (x_packet'[s] - 1) % NbPackets  BY <1>3, <3>1, <4>4
      <4>. QED  BY <4>1, <4>3, <4>5
    <3>2. CASE s # x_write_packet
      <4>1. x_packet'[s] = x_packet[s]  BY <1>7, <1>8, <3>2
      <4>2. \/ x_packet[s] = Free
            \/ x_packet[s] \in Oldest .. accepted /\ s = (x_packet[s] - 1) % NbPackets
        BY <1>1 DEF HomeInv
      <4>. QED  BY <4>1, <4>2, <1>2, <1>4
    <3>. QED  BY <3>1, <3>2
  <2>. QED  BY <2>1, <2>2, <1>4, <1>7 DEF HomeInv
<1>10. IndexInv'
  <2>1. Stored' = accepted  BY <1>1, <1>2 DEF Stored, pdp_udp_send_input_0, PdGoto, TypeOK
  <2>. QED  BY <2>1, <1>1, <1>3, <1>4 DEF IndexInv, pdp_udp_send_input_0
<1>11. CountInv'
  BY <1>1, <1>2, <1>4, <1>5 DEF CountInv, pdp_udp_send_input_0
<1>12. ThreadInv'
  <2>1. ~ReadEmpty => ~ReadEmpty'
    BY <1>2, <1>7, <1>8 DEF ReadEmpty, Free, pdp_udp_send_input_0
  <2>. QED  BY <1>1, <2>1 DEF ThreadInv, pdp_udp_send_input_0, PdGoto, TypeOK
<1>. QED  BY <1>6, <1>9, <1>10, <1>11, <1>12 DEF RingIInv

(* The thread transmits the oldest packet, the one after the last. *)
LEMMA SendFacts ==
    ASSUME RingIInv, Send
    PROVE  /\ sent' = sent + 1 /\ sent' <= accepted
           /\ pd.pc # "freed"
           /\ x_read_packet = sent % NbPackets
<1> USE SlotFacts
<1>1. TypeOK /\ CountInv /\ IndexInv /\ ThreadInv /\ pd.pc # "freed"
  BY DEF RingIInv, Send, ThreadInv
<1>2. HomeInv  BY <1>1 DEF RingIInv
<1>3. accepted \in 0 .. MaxPackets /\ sent \in 0 .. MaxPackets /\ x_read_packet \in Slot
  BY <1>1 DEF TypeOK
<1>4. Oldest = sent + 1 /\ x_read_packet = sent % NbPackets
  BY <1>1 DEF Oldest, IndexInv, Passed, Send
<1>5. x_packet[x_read_packet] \in Oldest .. accepted
  BY <1>1, <1>2, <1>3 DEF HomeInv, ThreadInv, ReadEmpty, Send
<1>6. sent + 1 \in Oldest .. accepted  BY <1>3, <1>4, <1>5
<1>7. sent + 1 - 1 = sent  BY <1>3
<1>8. x_packet[sent % NbPackets] = sent + 1
  <2>1. \A n \in Oldest .. accepted : x_packet[(n - 1) % NbPackets] = n  BY <1>2 DEF HomeInv
  <2>2. x_packet[((sent + 1) - 1) % NbPackets] = sent + 1  BY <1>6, <2>1
  <2>. QED  BY <1>3, <1>7, <2>2
<1>. QED  BY <1>1, <1>3, <1>4, <1>6, <1>8 DEF Send

(* Transmitting changes no slot. *)
LEMMA SendIInv ==
    ASSUME RingIInv, Send
    PROVE  RingIInv'
<1> USE SlotFacts
<1>1. TypeOK /\ CountInv /\ IndexInv /\ ThreadInv /\ HomeInv
  BY SendFacts DEF RingIInv
<1>2. accepted \in 0 .. MaxPackets /\ sent \in 0 .. MaxPackets  BY <1>1 DEF TypeOK
<1>3. sent' = sent + 1 /\ sent' <= accepted  BY SendFacts
<1>4. Oldest' = Oldest /\ Oldest = sent + 1  BY <1>3 DEF Oldest, Send
<1>5. Passed' = Passed /\ Stored' = Stored  BY <1>2, <1>3 DEF Passed, Stored, Send
<1>6. TypeOK'  BY <1>1, <1>2, <1>3 DEF TypeOK, Send, ring, ThreadPc
<1>7. IndexInv'  BY <1>1, <1>5 DEF IndexInv, Send, ring
<1>8. HomeInv'  BY <1>1, <1>4 DEF HomeInv, Send, ring
<1>9. CountInv'  BY <1>1, <1>2, <1>3, <1>4 DEF CountInv, Send
<1>10. ThreadInv'  BY SendFacts DEF ThreadInv, Send
<1>. QED  BY <1>6, <1>7, <1>8, <1>9, <1>10 DEF RingIInv

(* Clearing the slot of the packet just transmitted frees no other one:    *)
(* fewer than NbPackets numbers lie between them.                          *)
LEMMA ReleaseIInv ==
    ASSUME RingIInv, Release
    PROVE  RingIInv'
<1> USE SlotFacts
<1>1. TypeOK /\ CountInv /\ IndexInv /\ ThreadInv /\ HomeInv
  BY DEF RingIInv, Release, ThreadInv
<1>2. accepted \in 0 .. MaxPackets /\ sent \in 1 .. MaxPackets /\ sent <= accepted
  BY <1>1 DEF TypeOK, CountInv, Release
<1>3. Oldest = sent /\ Oldest' = sent + 1  BY DEF Oldest, Release
<1>4. x_read_packet = (sent - 1) % NbPackets  BY <1>1 DEF IndexInv, Passed, Release
<1>5. x_packet \in [Slot -> Int] /\ x_read_packet \in Slot  BY <1>1 DEF TypeOK, Free
<1>6. x_packet' = [x_packet EXCEPT ![x_read_packet] = Free] /\ accepted' = accepted /\ sent' = sent
  BY DEF Release
<1>7. Passed' = Passed /\ Stored' = Stored  BY DEF Passed, Stored, Release
<1>8. TypeOK'  BY <1>1 DEF TypeOK, Release, ThreadPc
<1>9. IndexInv'  BY <1>1, <1>7 DEF IndexInv, Release
<1>10. HomeInv'
  <2>1. ASSUME NEW n \in sent + 1 .. accepted
        PROVE  x_packet'[(n - 1) % NbPackets] = n
    <3>1. n - 1 \in Int /\ sent - 1 \in Int /\ sent - 1 < n - 1 /\ (n - 1) - (sent - 1) < NbPackets
      BY <1>1, <1>2, <1>3 DEF CountInv
    <3>2. (n - 1) % NbPackets # x_read_packet  BY <1>4, <3>1, ModDistinct
    <3>3. (n - 1) % NbPackets \in Slot  BY <3>1
    <3>4. x_packet[(n - 1) % NbPackets] = n
      <4>1. n \in Oldest .. accepted  BY <1>2, <1>3
      <4>. QED  BY <1>1, <4>1 DEF HomeInv
    <3>. QED  BY <1>5, <1>6, <3>2, <3>3, <3>4
  <2>2. ASSUME NEW s \in Slot
        PROVE  \/ x_packet'[s] = Free
               \/ /\ x_packet'[s] \in sent + 1 .. accepted
                  /\ s = (x_packet'[s] - 1) % NbPackets
    <3>1. CASE s = x_read_packet  BY <1>5, <1>6, <3>1
    <3>2. CASE s # x_read_packet
      <4>1. x_packet'[s] = x_packet[s]  BY <1>5, <1>6, <3>2
      <4>2. \/ x_packet[s] = Free
            \/ x_packet[s] \in sent .. accepted /\ s = (x_packet[s] - 1) % NbPackets
        BY <1>1, <1>3 DEF HomeInv
      <4>3. x_packet[s] # Free => x_packet[s] # sent  BY <1>4, <3>2, <4>2
      <4>4. x_packet[s] # Free => x_packet[s] \in sent + 1 .. accepted
        <5> SUFFICES ASSUME x_packet[s] # Free PROVE x_packet[s] \in sent + 1 .. accepted  OBVIOUS
        <5>1. x_packet[s] \in sent .. accepted /\ x_packet[s] # sent  BY <4>2, <4>3
        <5>2. \A v \in sent .. accepted : v = sent \/ v \in sent + 1 .. accepted  BY <1>2
        <5>. QED  BY <5>1, <5>2
      <4>. QED  BY <4>1, <4>2, <4>4
    <3>. QED  BY <3>1, <3>2
  <2>. QED  BY <2>1, <2>2, <1>3, <1>6 DEF HomeInv
<1>11. CountInv'  BY <1>1, <1>2, <1>3, <1>6 DEF CountInv, Release
<1>12. ThreadInv'  BY <1>1 DEF ThreadInv, Release
<1>. QED  BY <1>8, <1>9, <1>10, <1>11, <1>12 DEF RingIInv

(* The read index moves to the home of the next packet. *)
LEMMA AdvanceIInv ==
    ASSUME RingIInv, Advance
    PROVE  RingIInv'
<1> USE SlotFacts
<1>1. TypeOK /\ CountInv /\ IndexInv /\ ThreadInv /\ HomeInv
  BY DEF RingIInv, Advance, ThreadInv
<1>2. sent \in 1 .. MaxPackets  BY <1>1 DEF TypeOK, CountInv, Advance
<1>3. Oldest' = Oldest /\ Stored' = Stored /\ Passed' = sent /\ Passed = sent - 1
  BY DEF Oldest, Stored, Passed, Advance
<1>4. x_read_packet' = sent % NbPackets
  <2>1. x_read_packet = (sent - 1) % NbPackets  BY <1>1, <1>3 DEF IndexInv
  <2>2. sent - 1 \in Int /\ sent - 1 + 1 = sent  BY <1>2
  <2>. QED  BY <2>1, <2>2, StepIndex DEF Advance
<1>5. TypeOK'
  <2>1. x_read_packet' \in Slot  BY <1>2, <1>4
  <2>. QED  BY <1>1, <2>1 DEF TypeOK, Advance, ThreadPc
<1>6. IndexInv'  BY <1>1, <1>3, <1>4 DEF IndexInv, Advance
<1>7. HomeInv'  BY <1>1, <1>3 DEF HomeInv, Advance
<1>8. CountInv'  BY <1>1, <1>2, <1>3 DEF CountInv, Advance
<1>9. ThreadInv'  BY <1>1 DEF ThreadInv, Advance
<1>. QED  BY <1>5, <1>6, <1>7, <1>8, <1>9 DEF RingIInv

(* The write index moves to the home of the next packet to come. *)
LEMMA InputAdvanceIInv ==
    ASSUME RingIInv, InputAdvance
    PROVE  RingIInv'
<1> USE SlotFacts
<1>1. TypeOK /\ CountInv /\ IndexInv /\ ThreadInv /\ HomeInv
  BY DEF RingIInv, InputAdvance, ThreadInv
<1>2. accepted \in 1 .. MaxPackets  BY <1>1 DEF TypeOK, CountInv, InputAdvance
<1>3. pd' = [pd EXCEPT !.pc = "signal"] /\ pd \in [pc : PdPc, op : {"none", "connect", "free"}]
  BY <1>1 DEF InputAdvance, PdGoto, TypeOK
<1>4. pd'.pc = "signal" /\ pd' \in [pc : PdPc, op : {"none", "connect", "free"}]
  BY <1>3 DEF PdPc
<1>5. Oldest' = Oldest /\ Passed' = Passed /\ Stored' = accepted /\ Stored = accepted - 1
  BY <1>4 DEF Oldest, Stored, Passed, InputAdvance
<1>6. x_write_packet' = accepted % NbPackets
  <2>1. x_write_packet = (accepted - 1) % NbPackets  BY <1>1, <1>5 DEF IndexInv
  <2>2. accepted - 1 \in Int /\ accepted - 1 + 1 = accepted  BY <1>2
  <2>. QED  BY <2>1, <2>2, StepIndex DEF InputAdvance
<1>7. TypeOK'
  <2>1. x_write_packet' \in Slot  BY <1>2, <1>6
  <2>. QED  BY <1>1, <1>4, <2>1 DEF TypeOK, InputAdvance
<1>8. IndexInv'  BY <1>1, <1>5, <1>6 DEF IndexInv, InputAdvance
<1>9. HomeInv'  BY <1>1, <1>5 DEF HomeInv, InputAdvance
<1>10. CountInv'  BY <1>1, <1>4, <1>5 DEF CountInv, InputAdvance
<1>11. ThreadInv'  BY <1>1, <1>4 DEF ThreadInv, ReadEmpty, InputAdvance
<1>. QED  BY <1>7, <1>8, <1>9, <1>10, <1>11 DEF RingIInv

(* After pthread_join the ring is emptied; nobody uses it any more. *)
LEMMA FreeJoinIInv ==
    ASSUME RingIInv, FreeJoin
    PROVE  RingIInv'
<1> USE SlotFacts
<1>1. TypeOK /\ CountInv /\ IndexInv  BY DEF RingIInv
<1>2. pd' = [pd EXCEPT !.pc = "freed"] /\ pd \in [pc : PdPc, op : {"none", "connect", "free"}]
  BY <1>1 DEF FreeJoin, PdGoto, TypeOK
<1>3. pd'.pc = "freed" /\ pd' \in [pc : PdPc, op : {"none", "connect", "free"}]
  BY <1>2 DEF PdPc
<1>4. Oldest' = Oldest /\ Passed' = Passed /\ Stored' = Stored
  BY <1>3 DEF Oldest, Stored, Passed, FreeJoin
<1>5. TypeOK'
  <2>1. x_packet' \in [Slot -> 1 .. MaxPackets \union {Free}]  BY DEF FreeJoin
  <2>. QED  BY <1>1, <1>3, <2>1 DEF TypeOK, FreeJoin
<1>6. IndexInv'  BY <1>1, <1>4 DEF IndexInv, FreeJoin
<1>7. CountInv'  BY <1>1, <1>3, <1>4 DEF CountInv, FreeJoin
<1>8. ThreadInv'  BY DEF ThreadInv, FreeJoin
<1>. QED  BY <1>3, <1>5, <1>6, <1>7, <1>8 DEF RingIInv

(* The steps that only lock, sleep, wake or decide leave the ring alone. *)
Quiet ==
    /\ UNCHANGED <<ring, accepted, sent>>
    /\ x_exit_thread => x_exit_thread'
    /\ x_exit_thread' \in BOOLEAN
    /\ x_mut' \in {"pd", "thread", None}
    /\ pd' \in [pc : PdPc, op : {"none", "connect", "free"}]
    /\ (pd.pc # "advance" /\ pd'.pc # "advance") \/ pd'.pc = pd.pc
    /\ pd'.pc = "freed" <=> pd.pc = "freed"
    /\ thread' \in ThreadPc
    /\ \/ thread' = thread
       \/ /\ thread \notin {"send", "release", "advance", "stopped"}
          /\ thread' \notin {"release", "advance"}
          /\ thread' \in {"send", "awake"} => ~ReadEmpty \/ (x_exit_thread' = TRUE /\ thread' = "awake")

(* They keep the invariant. *)
LEMMA QuietIInv ==
    ASSUME RingIInv, Quiet
    PROVE  RingIInv'
<1>1. TypeOK /\ CountInv /\ IndexInv /\ ThreadInv  BY DEF RingIInv
<1>2. Oldest' = Oldest /\ Passed' = Passed /\ Stored' = Stored
  BY DEF Oldest, Passed, Stored, Quiet
<1>3. TypeOK'  BY <1>1 DEF TypeOK, Quiet, ring
<1>4. IndexInv'  BY <1>1, <1>2 DEF IndexInv, Quiet, ring
<1>5. (pd.pc # "freed" => HomeInv)'  BY <1>2 DEF RingIInv, HomeInv, Quiet, ring
<1>6. CountInv'  BY <1>1, <1>2 DEF CountInv, Quiet
<1>7. ThreadInv'
  <2>1. ReadEmpty' = ReadEmpty  BY DEF ReadEmpty, Quiet, ring
  <2>. QED  BY <1>1, <2>1 DEF ThreadInv, Quiet, TypeOK
<1>. QED  BY <1>3, <1>4, <1>5, <1>6, <1>7 DEF RingIInv

(* A step of the pd thread that moves its program counter only. *)
LEMMA PdGotoFacts ==
    ASSUME TypeOK, NEW c \in PdPc, PdGoto(c)
    PROVE  pd' \in [pc : PdPc, op : {"none", "connect", "free"}] /\ pd'.pc = c /\ pd'.op = pd.op
BY DEF TypeOK, PdGoto

(* Which steps these are. *)
LEMMA QuietSteps ==
    ASSUME RingIInv,
           \/ Start("connect") \/ Start("free") \/ _signal_sender
           \/ WaitLock \/ WaitTest \/ WaitBlock \/ Waited \/ FreeExit
           \/ Check \/ SignalDone \/ Test \/ Block \/ Wake \/ Awake
           \/ SpuriousWakeup \/ Freed \/ UNCHANGED vars
    PROVE  Quiet
<1> USE DEF Quiet
<1>1. TypeOK /\ ThreadInv  BY DEF RingIInv
<1>2. x_exit_thread \in BOOLEAN /\ x_mut \in {"pd", "thread", None} /\ thread \in ThreadPc
      /\ pd \in [pc : PdPc, op : {"none", "connect", "free"}]
  BY <1>1 DEF TypeOK
<1>3. CASE Start("connect") \/ Start("free")
  BY <1>2, <1>3 DEF Start, PdPc
<1>4. CASE _signal_sender
  <2>1. pd' \in [pc : PdPc, op : {"none", "connect", "free"}] /\ pd'.pc \in {"idle", "join"}
    BY <1>4, <1>2 DEF _signal_sender, PdGoto, PdPc
  <2>2. thread' = thread \/ (thread = "sleep" /\ thread' = "wake")
    <3>1. SignalThread  BY <1>4 DEF _signal_sender
    <3>. QED  BY <3>1 DEF SignalThread
  <2>. QED  BY <1>2, <1>4, <2>1, <2>2 DEF _signal_sender, ThreadPc
<1>5. CASE WaitLock  BY <1>1, <1>2, <1>5, PdGotoFacts DEF WaitLock, PdPc
<1>6. CASE WaitTest
  <2>1. PdGoto("waited") \/ PdGoto("wait_block")  BY <1>6 DEF WaitTest
  <2>2. pd' \in [pc : PdPc, op : {"none", "connect", "free"}] /\ pd'.pc \in {"waited", "wait_block"}
    BY <1>1, <2>1, PdGotoFacts DEF PdPc
  <2>3. x_mut' \in {"pd", "thread", None}  BY <1>2, <1>6 DEF WaitTest
  <2>. QED  BY <1>2, <1>6, <2>2, <2>3 DEF WaitTest
<1>7. CASE WaitBlock  BY <1>1, <1>2, <1>7, PdGotoFacts DEF WaitBlock, PdPc
<1>8. CASE Waited
  <2>1. pd' \in [pc : PdPc, op : {"none", "connect", "free"}] /\ pd'.pc \in {"exit", "idle"}
    BY <1>8, <1>2 DEF Waited, PdPc
  <2>. QED  BY <1>2, <1>8, <2>1 DEF Waited
<1>9. CASE FreeExit  BY <1>1, <1>2, <1>9, PdGotoFacts DEF FreeExit, PdPc
<1>10. CASE Check
  <2>1. thread = "check" /\ thread' \in {"signal", "stopped", "send"} /\ (thread' = "send" => ~ReadEmpty)
    BY <1>10 DEF Check
  <2>2. UNCHANGED <<ring, x_exit_thread, x_mut, accepted, sent, pd>>  BY <1>10 DEF Check
  <2>. QED  BY <1>2, <2>1, <2>2 DEF ThreadPc
<1>11. CASE SignalDone
  <2>1. pd' \in [pc : PdPc, op : {"none", "connect", "free"}]
        /\ (pd' = pd \/ (pd.pc = "wait_sleep" /\ pd'.pc = "wait_wake"))
    <3>1. CASE pd.pc = "wait_sleep"  BY <1>11, <1>2, <3>1 DEF SignalDone, PdPc
    <3>2. CASE pd.pc # "wait_sleep"  BY <1>11, <1>2, <3>2 DEF SignalDone
    <3>. QED  BY <3>1, <3>2
  <2>. QED  BY <1>2, <1>11, <2>1 DEF SignalDone, ThreadPc
<1>12. CASE Test
  <2>1. /\ thread = "test" /\ thread' \in {"block", "awake"} /\ x_mut' \in {"pd", "thread", None}
        /\ (thread' = "awake" => ~ReadEmpty \/ x_exit_thread = TRUE)
    BY <1>12, <1>2 DEF Test
  <2>. QED  BY <1>2, <1>12, <2>1 DEF Test, ThreadPc
<1>13. CASE Block  BY <1>2, <1>13 DEF Block, ThreadPc
<1>14. CASE Wake  BY <1>2, <1>14 DEF Wake, ThreadPc
<1>15. CASE Awake
  <2>1. thread = "awake" /\ thread' \in {"stopped", "send"} /\ (thread' = "send" => ~ReadEmpty)
    BY <1>1, <1>2, <1>15 DEF Awake, ThreadInv
  <2>2. UNCHANGED <<ring, x_exit_thread, x_mut, accepted, sent, pd>>  BY <1>15 DEF Awake
  <2>. QED  BY <1>2, <2>1, <2>2 DEF ThreadPc
<1>16. CASE SpuriousWakeup
  <2>1. CASE thread = "sleep" /\ thread' = "wake" /\ UNCHANGED pd
    BY <1>2, <1>16, <2>1 DEF SpuriousWakeup, ThreadPc
  <2>2. CASE pd.pc = "wait_sleep" /\ PdGoto("wait_wake") /\ UNCHANGED thread
    BY <1>1, <1>2, <1>16, <2>2, PdGotoFacts DEF SpuriousWakeup, PdPc
  <2>. QED  BY <1>16, <2>1, <2>2 DEF SpuriousWakeup
<1>17. CASE Freed \/ UNCHANGED vars  BY <1>2, <1>17 DEF Freed, vars, ring
<1>. QED
  BY <1>3, <1>4, <1>5, <1>6, <1>7, <1>8, <1>9, <1>10, <1>11, <1>12, <1>13, <1>14, <1>15, <1>16, <1>17

(* Every step of either thread keeps the invariant. *)
LEMMA RingNextIInv == RingIInv /\ [Next]_vars => RingIInv'
<1> SUFFICES ASSUME RingIInv, [Next]_vars PROVE RingIInv'  OBVIOUS
<1>1. CASE pdp_udp_send_input_0  BY <1>1, InputIInv
<1>2. CASE InputAdvance  BY <1>2, InputAdvanceIInv
<1>3. CASE FreeJoin  BY <1>3, FreeJoinIInv
<1>4. CASE Send  BY <1>4, SendIInv
<1>5. CASE Release  BY <1>5, ReleaseIInv
<1>6. CASE Advance  BY <1>6, AdvanceIInv
<1>7. CASE \/ Start("connect") \/ Start("free") \/ _signal_sender
           \/ WaitLock \/ WaitTest \/ WaitBlock \/ Waited \/ FreeExit
           \/ Check \/ SignalDone \/ Test \/ Block \/ Wake \/ Awake
           \/ SpuriousWakeup \/ Freed \/ UNCHANGED vars
  BY <1>7, QuietSteps, QuietIInv
<1>. QED
  BY <1>1, <1>2, <1>3, <1>4, <1>5, <1>6, <1>7 DEF Next, PdStep, ThreadStep

(* The invariant of the unlocked ring holds in every instance. *)
THEOREM RingInductive == Spec => []RingIInv
BY RingInitIInv, RingNextIInv, PTL DEF Spec

(* The indices stay in the ring and the slots hold packets or -1. *)
THEOREM SendTypeCorrect == Spec => []TypeOK
<1>1. RingIInv => TypeOK  BY DEF RingIInv
<1>. QED  BY <1>1, RingInductive, PTL

(* pdp_udp_send_input_0 never overwrites a packet and send_thread never    *)
(* frees another packet's slot: the ring holds what was accepted and not   *)
(* released, for every x_nb_packets.                                       *)
THEOREM ContentsKept == Spec => []RingContents
<1>1. RingIInv => RingContents  BY DEF RingIInv, HomeInv, RingContents
<1>. QED  BY <1>1, RingInductive, PTL

(* send_thread transmits every accepted packet in order, each once. *)
THEOREM InOrder == Spec => SentInOrder
<1>1. RingIInv /\ [Next]_vars => [sent' # sent => sent' = sent + 1 /\ sent' <= accepted]_vars
  <2> SUFFICES ASSUME RingIInv, [Next]_vars, sent' # sent
               PROVE  sent' = sent + 1 /\ sent' <= accepted
    OBVIOUS
  <2>1. CASE Send  BY <2>1, SendFacts
  <2>2. CASE ~Send
    BY <2>2 DEF Next, PdStep, ThreadStep, vars, pdp_udp_send_input_0, Start, InputAdvance,
                _signal_sender, WaitLock, WaitTest, WaitBlock, Waited, FreeExit, FreeJoin, Check,
                SignalDone, Test, Block, Wake, Awake, Release, Advance, SpuriousWakeup, Freed
  <2>. QED  BY <2>1, <2>2
<1>. QED  BY <1>1, RingInductive, PTL DEF Spec, SentInOrder

-----------------------------------------------------------------------------
(* pdp_netreceive.  The thread has a packet that is in no slot yet. *)
Pending == recvThread \in {"flip", "drop", "store"}

(* No packet is in both slots, and none that is not received yet. *)
SlotsApart ==
    /\ rx_packet[0] = rx_packet[1] => rx_packet[0] = NoReceived
    /\ \A s \in RecvSlot : rx_packet[s] <= received /\ (Pending => rx_packet[s] # received)

(* A packet that has left is in a slot only until the tick clears it. *)
PassedGone ==
    /\ \A s \in RecvSlot : rx_packet[s] \in passed => s = rslot /\ recvPc \in {"unuse", "clear"}
    /\ \A p \in passed : p <= received /\ (Pending => p # received)

(* The packet of a tick is read from a slot that is not empty, and is not   *)
(* in the other slot.                                                       *)
TickReads ==
    /\ recvPc = "register" => rx_packet[rslot] # NoReceived
    /\ recvPc \in {"output", "unuse"} => rout \in RecvPacket /\ rout <= received
    /\ recvPc = "output" =>
          /\ rout \notin passed /\ rx_packet[Other(rslot)] # rout
          /\ Pending => rout # received

(* A slot holds one reference, but between the release and the store or the *)
(* clearing that follows it.                                                *)
SlotsReferenced ==
    /\ Pending => rusers[received] = 1
    /\ \A s \in RecvSlot : rx_packet[s] # NoReceived =>
          \/ rusers[rx_packet[s]] = 1
          \/ recvThread = "store" /\ s = rx_index
          \/ recvPc = "clear" /\ s = rslot

RecvIInv ==
    /\ RecvTypeOK /\ (Pending => received >= 1)
    /\ SlotsApart /\ PassedGone /\ TickReads /\ SlotsReferenced

LEMMA RecvInitIInv == RecvInit => RecvIInv
<1>1. RecvInit => RecvTypeOK /\ (Pending => received >= 1)
  <2> SUFFICES ASSUME RecvInit PROVE RecvTypeOK /\ (Pending => received >= 1)
    OBVIOUS
  <2>1. rx_packet \in [RecvSlot -> RecvPacket \union {NoReceived}] /\ rusers \in [RecvPacket -> {-1, 0, 1}]
    BY DEF RecvInit
  <2>2. rslot \in RecvSlot /\ rx_index \in RecvSlot /\ received \in 0 .. MaxReceived
    BY ReceivedAssumption DEF RecvInit, RecvSlot
  <2>3. rx_exit_thread \in BOOLEAN
    BY Zenon DEF RecvInit
  <2> QED
    BY <2>1, <2>2, <2>3 DEF RecvInit, RecvTypeOK, Pending
<1>2. RecvInit => SlotsApart /\ PassedGone
  BY DEF RecvInit, SlotsApart, PassedGone, Pending, RecvSlot, NoReceived
<1>3. RecvInit => TickReads /\ SlotsReferenced
  BY DEF RecvInit, TickReads, SlotsReferenced, Pending, RecvSlot, NoReceived
<1> QED
  BY <1>1, <1>2, <1>3 DEF RecvIInv

LEMMA ReceiveIInv == RecvIInv /\ Receive => RecvIInv'
BY ReceivedAssumption DEF Receive, RecvIInv, RecvTypeOK, Pending, SlotsApart, PassedGone, TickReads,
   SlotsReferenced, RecvSlot, RecvPacket, NoReceived, Other

LEMMA FlipIInv == RecvIInv /\ Flip => RecvIInv'
BY ReceivedAssumption DEF Flip, RecvIInv, RecvTypeOK, Pending, SlotsApart, PassedGone, TickReads,
   SlotsReferenced, RecvSlot, RecvPacket, NoReceived, Other

LEMMA DropIInv == RecvIInv /\ Drop => RecvIInv'
BY ReceivedAssumption DEF Drop, MarkUnused, RecvIInv, RecvTypeOK, Pending, SlotsApart, PassedGone, TickReads,
   SlotsReferenced, RecvSlot, RecvPacket, NoReceived, Other

LEMMA StoreIInv == RecvIInv /\ Store => RecvIInv'
BY ReceivedAssumption DEF Store, RecvIInv, RecvTypeOK, Pending, SlotsApart, PassedGone, TickReads,
   SlotsReferenced, RecvSlot, RecvPacket, NoReceived, Other

LEMMA ReceiveErrorIInv == RecvIInv /\ ReceiveError => RecvIInv'
BY ReceivedAssumption DEF ReceiveError, RecvIInv, RecvTypeOK, Pending, SlotsApart, PassedGone, TickReads,
   SlotsReferenced, RecvSlot, RecvPacket, NoReceived, Other

LEMMA StopIInv == RecvIInv /\ Stop => RecvIInv'
BY ReceivedAssumption DEF Stop, RecvIInv, RecvTypeOK, Pending, SlotsApart, PassedGone, TickReads,
   SlotsReferenced, RecvSlot, RecvPacket, NoReceived, Other

LEMMA ClockTickIInv == RecvIInv /\ clock_tick => RecvIInv'
BY ReceivedAssumption DEF clock_tick, RecvIInv, RecvTypeOK, Pending, SlotsApart, PassedGone, TickReads,
   SlotsReferenced, RecvSlot, RecvPacket, NoReceived, Other

LEMMA PassTestIInv == RecvIInv /\ PassTest => RecvIInv'
BY ReceivedAssumption DEF PassTest, RecvIInv, RecvTypeOK, Pending, SlotsApart, PassedGone, TickReads,
   SlotsReferenced, RecvSlot, RecvPacket, NoReceived, Other

LEMMA PassRegisterIInv == RecvIInv /\ PassRegister => RecvIInv'
BY ReceivedAssumption DEF PassRegister, RecvIInv, RecvTypeOK, Pending, SlotsApart, PassedGone, TickReads,
   SlotsReferenced, RecvSlot, RecvPacket, NoReceived, Other

LEMMA PassOutputIInv == RecvIInv /\ PassOutput => RecvIInv'
BY ReceivedAssumption DEF PassOutput, RecvIInv, RecvTypeOK, Pending, SlotsApart, PassedGone, TickReads,
   SlotsReferenced, RecvSlot, RecvPacket, NoReceived, Other

LEMMA PassUnuseIInv == RecvIInv /\ PassUnuse => RecvIInv'
BY ReceivedAssumption DEF PassUnuse, MarkUnused, RecvIInv, RecvTypeOK, Pending, SlotsApart, PassedGone, TickReads,
   SlotsReferenced, RecvSlot, RecvPacket, NoReceived, Other

LEMMA PassClearIInv == RecvIInv /\ PassClear => RecvIInv'
BY ReceivedAssumption DEF PassClear, RecvIInv, RecvTypeOK, Pending, SlotsApart, PassedGone, TickReads,
   SlotsReferenced, RecvSlot, RecvPacket, NoReceived, Other

LEMMA RecvFreeExitIInv == RecvIInv /\ RecvFreeExit => RecvIInv'
BY ReceivedAssumption DEF RecvFreeExit, RecvIInv, RecvTypeOK, Pending, SlotsApart, PassedGone, TickReads,
   SlotsReferenced, RecvSlot, RecvPacket, NoReceived, Other

LEMMA RecvFreeJoinIInv == RecvIInv /\ RecvFreeJoin => RecvIInv'
BY ReceivedAssumption DEF RecvFreeJoin, RecvIInv, RecvTypeOK, Pending, SlotsApart, PassedGone, TickReads,
   SlotsReferenced, RecvSlot, RecvPacket, NoReceived, Other

LEMMA RecvStepIInv == RecvIInv /\ [RecvNext]_recvVars => RecvIInv'
<1>1. ASSUME RecvIInv, UNCHANGED recvVars PROVE RecvIInv'
  BY <1>1 DEF recvVars, RecvIInv, RecvTypeOK, Pending, SlotsApart, PassedGone, TickReads, SlotsReferenced
<1> QED
  BY <1>1, ReceiveIInv, FlipIInv, DropIInv, StoreIInv, ReceiveErrorIInv, StopIInv, ClockTickIInv, PassTestIInv,
     PassRegisterIInv, PassOutputIInv, PassUnuseIInv, PassClearIInv, RecvFreeExitIInv, RecvFreeJoinIInv
     DEF RecvNext, RecvThread, RecvPd, RecvFreed

(* The two slots and the index that no lock protects stay consistent,       *)
(* whatever the thread does between two steps of a tick.                    *)
THEOREM RecvInvariant == RecvSpec => []RecvIInv
BY RecvInitIInv, RecvStepIInv, PTL DEF RecvSpec

(* receive_thread and clock_tick keep the types of the object.              *)
THEOREM RecvTypeCorrect == RecvSpec => []RecvTypeOK
<1>1. RecvIInv => RecvTypeOK
  BY DEF RecvIInv
<1> QED
  BY RecvInvariant, <1>1, PTL

(* clock_tick never passes a packet to the outlet twice.                    *)
THEOREM PassedOnce == RecvSpec => []OutputOnce
<1>1. RecvIInv => OutputOnce
  BY DEF RecvIInv, TickReads, OutputOnce
<1> QED
  BY RecvInvariant, <1>1, PTL

-----------------------------------------------------------------------------
(* Video capture.  The steps the pd thread has still to do: those of a      *)
(* message, and in front of them what one of these steps became.            *)
Later == {"open", "close", "ensure", "next"}
Steps == Later \cup {"create", "join", "unmap"}
First(s) == IF s = <<>> THEN "idle" ELSE s[1]
Shape(s) ==
    /\ s \in Seq(Steps)
    /\ s # <<>> /\ s[1] # "join" => Tail(s) \in Seq(Later)
    /\ s # <<>> /\ s[1] = "join" => Tail(s) # <<>> /\ Tail(s)[1] = "unmap" /\ Tail(Tail(s)) \in Seq(Later)

(* An initialised device is open and mapped, has a thread from the step     *)
(* that creates it until the thread quits or is awaited.                    *)
DeviceOpen == vinit => vfd /\ vnb \in BufferCounts /\ vmapped = 0..vnb - 1
ThreadOwned ==
    /\ vthread # "none" => vinit /\ (vcontinue \/ First(vtodo) = "join")
    /\ vcontinue => vthread # "none"
    /\ First(vtodo) \in {"create", "unmap"} => vthread = "none"
RingStarts == First(vtodo) = "create" => vinit /\ vwr = 0 /\ vrd = 0
RingIndices == vsem \in 0..vnb /\ vwr \in 0..vnb - 1 /\ vrd \in 0..vnb - 1
Counted ==
    /\ RingIndices
    /\ (vrd + vsem) % vnb = (vwr + (IF vthread = "advance" THEN 1 ELSE 0)) % vnb
    /\ vthread = "post" => vsem < vnb
CaptureIInv ==
    /\ Shape(vtodo) /\ DeviceOpen /\ ThreadOwned /\ RingStarts
    /\ vinit /\ First(vtodo) # "create" => Counted

(* What taking a step off the list and putting others in its place leaves. *)
LEMMA PopShape ==
    ASSUME NEW s, Shape(s), s # <<>>, s[1] # "join"
    PROVE  Shape(Tail(s)) /\ First(Tail(s)) \in Later \cup {"idle"}
BY DEF Shape, First, Later, Steps

LEMMA PopJoin ==
    ASSUME NEW s, Shape(s), s # <<>>, s[1] = "join"
    PROVE  Shape(Tail(s)) /\ First(Tail(s)) = "unmap"
BY DEF Shape, First, Later, Steps

(* The steps of a message. *)
LEMMA LaterShape ==
    ASSUME NEW s \in Seq(Later)
    PROVE  Shape(s) /\ First(s) \in Later \cup {"idle"}
<1>1. s \in Seq(Steps)
  BY SeqMonotonic DEF Steps
<1>2. s # <<>> => s[1] \in Later /\ Tail(s) \in Seq(Later)
  BY HeadTailProperties
<1> QED
  BY <1>1, <1>2 DEF Shape, First, Later

(* A step put in front of a list is its head, the list its tail. *)
LEMMA PushTail ==
    ASSUME NEW S, NEW s \in Seq(S), NEW x \in S
    PROVE  /\ <<x>> \o s \in Seq(S) /\ <<x>> \o s # <<>>
           /\ (<<x>> \o s)[1] = x /\ Tail(<<x>> \o s) = s
<1>1. <<x>> \in Seq(S) /\ Len(<<x>>) = 1 /\ <<x>>[1] = x
  OBVIOUS
<1>2. /\ <<x>> \o s \in Seq(S) /\ Len(<<x>> \o s) = 1 + Len(s)
      /\ \A i \in 1 .. 1 + Len(s) : (<<x>> \o s)[i] = IF i <= 1 THEN <<x>>[i] ELSE s[i - 1]
  BY <1>1, ConcatProperties
<1>3. Len(s) \in Nat
  OBVIOUS
<1>4. <<x>> \o s # <<>> /\ (<<x>> \o s)[1] = x
  BY <1>1, <1>2, <1>3
<1>5. /\ Tail(<<x>> \o s) \in Seq(S) /\ Len(Tail(<<x>> \o s)) = Len(s)
      /\ \A i \in 1 .. Len(s) : Tail(<<x>> \o s)[i] = (<<x>> \o s)[i + 1]
  BY <1>2, <1>3, <1>4, HeadTailProperties
<1>6. \A i \in 1 .. Len(s) : Tail(<<x>> \o s)[i] = s[i]
  BY <1>2, <1>3, <1>5
<1>7. Tail(<<x>> \o s) = s
  BY <1>5, <1>6, SeqEqual
<1> QED
  BY <1>2, <1>4, <1>7

LEMMA PushShape ==
    ASSUME NEW s \in Seq(Later), NEW x \in Steps \ {"join"}
    PROVE  Shape(<<x>> \o s) /\ First(<<x>> \o s) = x
<1>1. s \in Seq(Steps)
  BY SeqMonotonic DEF Steps
<1> QED
  BY <1>1, PushTail DEF Shape, First

LEMMA PushJoin ==
    ASSUME NEW s \in Seq(Later)
    PROVE  Shape(<<"join", "unmap">> \o s) /\ First(<<"join", "unmap">> \o s) = "join"
<1>1. s \in Seq(Steps) /\ "join" \in Steps /\ "unmap" \in Steps
  BY SeqMonotonic DEF Steps
<1>2. <<"unmap">> \o s \in Seq(Steps) /\ <<"unmap">> \o s # <<>> /\ (<<"unmap">> \o s)[1] = "unmap"
      /\ Tail(<<"unmap">> \o s) = s
  BY <1>1, PushTail
<1>3. <<"join", "unmap">> \o s = <<"join">> \o (<<"unmap">> \o s)
  <2>1. <<"join">> \in Seq(Steps) /\ <<"unmap">> \in Seq(Steps) /\ <<"join", "unmap">> = <<"join">> \o <<"unmap">>
    BY <1>1
  <2> QED
    BY <1>1, <2>1, ConcatAssociative
<1>4. /\ <<"join">> \o (<<"unmap">> \o s) \in Seq(Steps) /\ <<"join">> \o (<<"unmap">> \o s) # <<>>
      /\ (<<"join">> \o (<<"unmap">> \o s))[1] = "join"
      /\ Tail(<<"join">> \o (<<"unmap">> \o s)) = <<"unmap">> \o s
  BY <1>1, <1>2, PushTail
<1> QED
  BY <1>2, <1>3, <1>4 DEF Shape, First

(* Remainders of the positions of a ring of n buffers. *)
LEMMA RingPosition ==
    ASSUME NEW n \in Nat \ {0}, NEW x \in 0 .. 2 * n - 1
    PROVE  x % n = IF x < n THEN x ELSE x - n
<1>1. CASE x < n
  BY <1>1, ModUnique, x = n * 0 + x
<1>2. CASE x >= n
  BY <1>2, ModUnique, x = n * 1 + (x - n), x - n \in 0 .. n - 1
<1> QED
  BY <1>1, <1>2

LEMMA CaptureInitIInv == CaptureInit => CaptureIInv
<1>1. CaptureInit => Shape(vtodo) /\ First(vtodo) = "idle"
  BY EmptySeq DEF CaptureInit, Shape, First
<1> QED
  BY <1>1 DEF CaptureInit, CaptureIInv, DeviceOpen, ThreadOwned, RingStarts, Counted, RingIndices

(* A message, and a step that leaves device and thread as they are. *)
LEMMA MessageIInv ==
    ASSUME CaptureIInv, First(vtodo) \notin {"join", "create"},
           UNCHANGED <<deviceVars, threadVars>>, Shape(vtodo'), First(vtodo') \notin {"join", "create", "unmap"}
    PROVE  CaptureIInv'
BY DEF CaptureIInv, DeviceOpen, ThreadOwned, RingStarts, Counted, RingIndices, deviceVars, threadVars

LEMMA CommandIInv == CaptureIInv /\ Command => CaptureIInv'
<1> SUFFICES ASSUME CaptureIInv, Command PROVE CaptureIInv'
  OBVIOUS
<1>1. First(vtodo) = "idle"
  BY DEF Command, First
<1>2. Shape(vtodo') /\ First(vtodo') \in Later \cup {"idle"}
  <2>1. vtodo' \in {<<>>, <<"open">>, <<"close">>, <<"close", "open">>, <<"ensure", "ensure", "ensure", "next">>}
    BY DEF Command, pdp_v4l_open, pdp_v4l_close, zl_v4l_set_dim, zl_v4l_set_format, v4l2_input, v4l2_standard,
           zl_v4l_set_fps, pdp_v4l_bang, Reopens
  <2>2. /\ <<>> \in Seq(Later) /\ <<"open">> \in Seq(Later) /\ <<"close">> \in Seq(Later)
        /\ <<"close", "open">> \in Seq(Later) /\ <<"ensure", "ensure", "ensure", "next">> \in Seq(Later)
    BY DEF Later
  <2>3. vtodo' \in Seq(Later)
    BY <2>1, <2>2
  <2> QED
    BY <2>3, LaterShape
<1> QED
  BY <1>1, <1>2, MessageIInv DEF Command, Later

LEMMA EnsureIInv == CaptureIInv /\ zl_v4l_open_if_necessary => CaptureIInv'
<1> SUFFICES ASSUME CaptureIInv, zl_v4l_open_if_necessary PROVE CaptureIInv'
  OBVIOUS
<1>1. First(vtodo) = "ensure" /\ Shape(vtodo) /\ Tail(vtodo) \in Seq(Later)
  BY DEF zl_v4l_open_if_necessary, First, CaptureIInv, Shape
<1>2. Shape(vtodo') /\ First(vtodo') \in Later \cup {"idle"}
  <2>1. CASE vinit
    BY <1>1, <2>1, PopShape, ConcatEmptySeq DEF zl_v4l_open_if_necessary
  <2>2. CASE ~vinit
    BY <1>1, <2>2, PushShape DEF zl_v4l_open_if_necessary, Steps, Later
  <2> QED
    BY <2>1, <2>2
<1> QED
  BY <1>1, <1>2, MessageIInv DEF zl_v4l_open_if_necessary, Later

LEMMA OpenClosesIInv == CaptureIInv /\ OpenCloses => CaptureIInv'
<1> SUFFICES ASSUME CaptureIInv, OpenCloses PROVE CaptureIInv'
  OBVIOUS
<1>1. First(vtodo) = "open" /\ vtodo \in Seq(Later)
  <2>1. Tail(vtodo) \in Seq(Later) /\ vtodo \in Seq(Steps) /\ vtodo # <<>> /\ vtodo[1] = "open"
    BY DEF OpenCloses, CaptureIInv, Shape
  <2>2. Len(Tail(vtodo)) = Len(vtodo) - 1 /\ \A i \in 1 .. Len(Tail(vtodo)) : Tail(vtodo)[i] = vtodo[i + 1]
    BY <2>1, HeadTailProperties
  <2>3. \A i \in 2 .. Len(vtodo) : vtodo[i] \in Later
    BY <2>1, <2>2
  <2>4. \A i \in 1 .. Len(vtodo) : vtodo[i] \in Later
    BY <2>1, <2>3 DEF Later
  <2> QED
    BY <2>1, <2>4 DEF First
<1>2. Shape(vtodo') /\ First(vtodo') = "close"
  BY <1>1, PushShape DEF OpenCloses, Steps, Later
<1> QED
  BY <1>1, <1>2, MessageIInv DEF OpenCloses

LEMMA CloseStopsIInv == CaptureIInv /\ CloseStops => CaptureIInv'
<1> SUFFICES ASSUME CaptureIInv, CloseStops PROVE CaptureIInv'
  OBVIOUS
<1>1. First(vtodo) = "close" /\ Tail(vtodo) \in Seq(Later)
  BY DEF CloseStops, First, CaptureIInv, Shape
<1>2. Shape(vtodo') /\ First(vtodo') = IF vcontinue THEN "join" ELSE "unmap"
  <2>1. CASE vcontinue
    BY <1>1, <2>1, PushJoin DEF CloseStops
  <2>2. CASE ~vcontinue
    BY <1>1, <2>2, PushShape DEF CloseStops, Steps
  <2> QED
    BY <2>1, <2>2
<1> QED
  BY <1>1, <1>2 DEF CloseStops, CaptureIInv, DeviceOpen, ThreadOwned, RingStarts, Counted, RingIndices, deviceVars

LEMMA CloseJoinsIInv == CaptureIInv /\ CloseJoins => CaptureIInv'
<1> SUFFICES ASSUME CaptureIInv, CloseJoins PROVE CaptureIInv'
  OBVIOUS
<1>1. First(vtodo) = "join" /\ Shape(vtodo)
  BY DEF CloseJoins, First, CaptureIInv
<1>2. Shape(vtodo') /\ First(vtodo') = "unmap"
  BY <1>1, PopJoin DEF CloseJoins
<1> QED
  BY <1>1, <1>2 DEF CloseJoins, CaptureIInv, DeviceOpen, ThreadOwned, RingStarts, Counted, RingIndices, deviceVars, threadVars

LEMMA CloseUnmapsIInv == CaptureIInv /\ CloseUnmaps => CaptureIInv'
<1> SUFFICES ASSUME CaptureIInv, CloseUnmaps PROVE CaptureIInv'
  OBVIOUS
<1>1. First(vtodo) = "unmap" /\ Shape(vtodo)
  BY DEF CloseUnmaps, First, CaptureIInv
<1>2. Shape(vtodo') /\ First(vtodo') \in Later \cup {"idle"}
  BY <1>1, PopShape DEF CloseUnmaps
<1> QED
  BY <1>1, <1>2 DEF CloseUnmaps, Later, CaptureIInv, DeviceOpen, ThreadOwned, RingStarts, Counted, RingIndices, threadVars

LEMMA OpenFailsIInv == CaptureIInv /\ OpenFails => CaptureIInv'
<1> SUFFICES ASSUME CaptureIInv, OpenFails PROVE CaptureIInv'
  OBVIOUS
<1>1. First(vtodo) = "open" /\ Shape(vtodo)
  BY DEF OpenFails, First, CaptureIInv
<1>2. Shape(vtodo') /\ First(vtodo') = "close"
  BY <1>1, PushShape DEF OpenFails, Shape, Steps, Later
<1> QED
  BY <1>1, <1>2 DEF OpenFails, CaptureIInv, DeviceOpen, ThreadOwned, RingStarts, Counted, RingIndices, threadVars

LEMMA OpenDeviceIInv == CaptureIInv /\ v4l2_open => CaptureIInv'
<1> SUFFICES ASSUME CaptureIInv, v4l2_open PROVE CaptureIInv'
  OBVIOUS
<1>1. First(vtodo) = "open" /\ Shape(vtodo)
  BY DEF v4l2_open, First, CaptureIInv
<1>2. Shape(vtodo') /\ First(vtodo') = "create"
  BY <1>1, PushShape DEF v4l2_open, Shape, Steps, Later
<1> QED
  BY <1>1, <1>2 DEF v4l2_open, CaptureIInv, DeviceOpen, ThreadOwned, RingStarts, Counted, RingIndices, threadVars

LEMMA OpenCreatesIInv == CaptureIInv /\ OpenCreates => CaptureIInv'
<1> SUFFICES ASSUME CaptureIInv, OpenCreates PROVE CaptureIInv'
  OBVIOUS
<1>1. First(vtodo) = "create" /\ Shape(vtodo)
  BY DEF OpenCreates, First, CaptureIInv
<1>2. Shape(vtodo') /\ First(vtodo') \in Later \cup {"idle"}
  BY <1>1, PopShape DEF OpenCreates
<1>3. Counted'
  <2>1. vwr = 0 /\ vrd = 0 /\ vnb \in 1 .. 8 /\ UNCHANGED <<vwr, vrd, vnb>> /\ vsem' = 0 /\ vthread' = "start"
    BY <1>1, BufferAssumption DEF CaptureIInv, RingStarts, DeviceOpen, OpenCreates
  <2> QED
    BY <2>1 DEF Counted, RingIndices
<1> QED
  BY <1>1, <1>2, <1>3 DEF OpenCreates, Later, CaptureIInv, DeviceOpen, ThreadOwned, RingStarts

(* The reader takes one frame and moves on by one buffer. *)
LEMMA ReaderMoves ==
    ASSUME NEW n \in Nat \ {0}, NEW w \in 0 .. n, NEW r \in 0 .. n - 1, NEW s \in 1 .. n, (r + s) % n = w % n
    PROVE  (r + 1) % n \in 0 .. n - 1 /\ (((r + 1) % n) + (s - 1)) % n = w % n
<1>1. (r + 1) % n \in 0 .. n - 1
  BY DivMod
<1>2. (r + 1) + (s - 1) = r + s
  OBVIOUS
<1>3. ((r + 1) + (s - 1)) % n = (((r + 1) % n) + (s - 1)) % n
  BY r + 1 \in Int, s - 1 \in Int, ModAdd
<1> QED
  BY <1>1, <1>2, <1>3

LEMMA NextIInv == CaptureIInv /\ zl_v4l_next => CaptureIInv'
<1> SUFFICES ASSUME CaptureIInv, zl_v4l_next PROVE CaptureIInv'
  OBVIOUS
<1>1. First(vtodo) = "next" /\ Shape(vtodo)
  BY DEF zl_v4l_next, First, CaptureIInv
<1>2. Shape(vtodo') /\ First(vtodo') \in Later \cup {"idle"}
  BY <1>1, PopShape DEF zl_v4l_next
<1>3. CASE vinit /\ vsem > 0
  <2> DEFINE w == vwr + (IF vthread = "advance" THEN 1 ELSE 0)
  <2>a. vnb \in 1 .. 8 /\ Counted
    BY <1>1, <1>3, BufferAssumption DEF CaptureIInv, DeviceOpen
  <2>1. vnb \in Nat \ {0} /\ Counted
    BY <2>a
  <2>2. /\ w \in 0 .. vnb /\ vrd \in 0 .. vnb - 1 /\ vsem \in 1 .. vnb /\ (vrd + vsem) % vnb = w % vnb
        /\ w' = w /\ vnb' = vnb /\ vwr' = vwr /\ vthread' = vthread
        /\ vsem' = vsem - 1 /\ vrd' = (vrd + 1) % vnb
    BY <1>3, <2>1 DEF Counted, RingIndices, zl_v4l_next, threadVars
  <2>3. vrd' \in 0 .. vnb - 1 /\ (vrd' + vsem') % vnb' = w' % vnb'
    <3> HIDE DEF w
    <3> QED
      BY <2>1, <2>2, ReaderMoves
  <2>4. Counted'
    BY <2>1, <2>2, <2>3 DEF Counted, RingIndices
  <2> QED
    BY <1>1, <1>2, <2>4 DEF zl_v4l_next, Later, CaptureIInv, DeviceOpen, ThreadOwned, RingStarts, threadVars
<1>4. CASE ~(vinit /\ vsem > 0)
  BY <1>1, <1>2, <1>4, MessageIInv DEF zl_v4l_next, Later, deviceVars
<1> QED
  BY <1>3, <1>4

(* The thread announces one frame more. *)
LEMMA WriterMoves ==
    ASSUME NEW n \in Nat \ {0}, NEW w \in Int, NEW r \in Int, NEW s \in Int, (r + s) % n = w % n
    PROVE  (r + (s + 1)) % n = (w + 1) % n
<1>1. r + s \in Int /\ 1 \in Int /\ r + (s + 1) = (r + s) + 1
  OBVIOUS
<1>2. ((r + s) + 1) % n = (((r + s) % n) + 1) % n
  BY <1>1, ModAdd
<1>3. (w + 1) % n = ((w % n) + 1) % n
  BY <1>1, ModAdd
<1> QED
  BY <1>1, <1>2, <1>3

(* A step of the thread that neither creates it nor touches the ring.      *)
LEMMA ThreadMovesIInv ==
    ASSUME CaptureIInv, UNCHANGED <<deviceVars, vtodo>>, vthread # "none",
           \/ vthread' \notin {"none", "post", "advance"} /\ vcontinue' = vcontinue
           \/ vthread' = "post" /\ vsem < vnb /\ vcontinue' = vcontinue
           \/ vthread' = "none" /\ ~vcontinue',
           vthread # "advance"
    PROVE  CaptureIInv'
BY DEF CaptureIInv, DeviceOpen, ThreadOwned, RingStarts, Counted, RingIndices, deviceVars

(* While there is a thread the ring is counted. *)
LEMMA ThreadCounts == CaptureIInv /\ vthread # "none" => Counted /\ vnb \in Nat \ {0}
<1> SUFFICES ASSUME CaptureIInv, vthread # "none" PROVE Counted /\ vnb \in Nat \ {0}
  OBVIOUS
<1>1. vinit /\ First(vtodo) # "create" /\ vnb \in BufferCounts
  BY DEF CaptureIInv, ThreadOwned, DeviceOpen
<1>2. vnb \in 1 .. 8
  BY <1>1, BufferAssumption
<1> QED
  BY <1>1, <1>2 DEF CaptureIInv

LEMMA NotifyChecksIInv == CaptureIInv /\ NotifyChecks => CaptureIInv'
<1> SUFFICES ASSUME CaptureIInv, NotifyChecks PROVE CaptureIInv'
  OBVIOUS
<1>1. Counted /\ vnb \in Nat \ {0}
  BY ThreadCounts DEF NotifyChecks, Goes
<1>2. vthread' = "loop" \/ (vthread' = "post" /\ vsem < vnb)
  <2>1. vsem \in Int /\ vnb \in Int /\ vthread' = IF vsem >= vnb THEN "loop" ELSE "post"
    <3>1. RingIndices
      BY <1>1 DEF Counted
    <3> QED
      BY <1>1, <3>1 DEF NotifyChecks, Goes, RingIndices
  <2> QED
    BY <2>1
<1> QED
  BY <1>2, ThreadMovesIInv DEF NotifyChecks, Goes

LEMMA NotifyPostsIInv == CaptureIInv /\ NotifyPosts => CaptureIInv'
<1> SUFFICES ASSUME CaptureIInv, NotifyPosts PROVE CaptureIInv'
  OBVIOUS
<1>1. Counted /\ vnb \in Nat \ {0}
  BY ThreadCounts DEF NotifyPosts, Goes
<1>2. Counted'
  <2>1. /\ vsem \in 0 .. vnb - 1 /\ vwr \in 0 .. vnb - 1 /\ vrd \in 0 .. vnb - 1 /\ (vrd + vsem) % vnb = vwr % vnb
        /\ UNCHANGED <<vnb, vwr, vrd>> /\ vsem' = vsem + 1 /\ vthread' = "advance"
    BY <1>1 DEF NotifyPosts, Goes, Counted, RingIndices
  <2>2. (vrd + (vsem + 1)) % vnb = (vwr + 1) % vnb
    <3>1. vwr \in Int /\ vrd \in Int /\ vsem \in Int /\ (vrd + vsem) % vnb = vwr % vnb
      BY <2>1
    <3> QED
      BY <1>1, <3>1, WriterMoves
  <2>4. (vrd' + vsem') % vnb' = (vwr' + 1) % vnb'
    BY <2>1, <2>2
  <2> QED
    BY <1>1, <2>1, <2>4 DEF Counted, RingIndices
<1> QED
  BY <1>2 DEF NotifyPosts, Goes, CaptureIInv, DeviceOpen, ThreadOwned, RingStarts

LEMMA NotifyAdvancesIInv == CaptureIInv /\ NotifyAdvances => CaptureIInv'
<1> SUFFICES ASSUME CaptureIInv, NotifyAdvances PROVE CaptureIInv'
  OBVIOUS
<1>1. Counted /\ vnb \in Nat \ {0}
  BY ThreadCounts DEF NotifyAdvances, Goes
<1>2. Counted'
  <2>1. /\ vsem \in 0 .. vnb /\ vwr \in 0 .. vnb - 1 /\ vrd \in 0 .. vnb - 1 /\ (vrd + vsem) % vnb = (vwr + 1) % vnb
        /\ UNCHANGED <<vnb, vsem, vrd>> /\ vwr' = (vwr + 1) % vnb /\ vthread' = "loop"
    BY <1>1 DEF NotifyAdvances, Goes, Counted, RingIndices
  <2>2. vwr' \in 0 .. vnb - 1
    BY <1>1, <2>1, vwr + 1 \in Int, DivMod
  <2>3. vwr' % vnb = vwr'
    <3>1. \A i \in 0 .. vnb - 1 : i = vnb * 0 + i
      BY <1>1
    <3>2. \A i \in 0 .. vnb - 1 : i % vnb = i
      BY <1>1, <3>1, ModUnique
    <3> QED
      BY <2>2, <3>2
  <2>4. (vrd' + vsem') % vnb' = (vwr' + 0) % vnb'
    BY <2>1, <2>2, <2>3
  <2> QED
    BY <1>1, <2>1, <2>2, <2>4 DEF Counted, RingIndices
<1> QED
  BY <1>2 DEF NotifyAdvances, Goes, CaptureIInv, DeviceOpen, ThreadOwned, RingStarts

LEMMA CaptureThreadIInv == CaptureIInv /\ CaptureThread => CaptureIInv'
<1> SUFFICES ASSUME CaptureIInv, CaptureThread PROVE CaptureIInv'
  OBVIOUS
<1>1. CASE ThreadStreams
  BY <1>1, ThreadMovesIInv DEF ThreadStreams
<1>2. CASE ThreadLoops
  BY <1>2, ThreadMovesIInv DEF ThreadLoops, Goes
<1>3. CASE v42l_sync_timeout
  BY <1>3, ThreadMovesIInv DEF v42l_sync_timeout
<1>4. CASE CaptureDequeues
  BY <1>4, ThreadMovesIInv DEF CaptureDequeues, Goes
<1>5. CASE CaptureEnqueues
  BY <1>5, ThreadMovesIInv DEF CaptureEnqueues, Goes
<1>6. CASE ThreadStops
  BY <1>6, ThreadMovesIInv DEF ThreadStops, Goes
<1>7. CASE ThreadQuits
  BY <1>7, ThreadMovesIInv DEF ThreadQuits, Goes
<1> QED
  BY <1>1, <1>2, <1>3, <1>4, <1>5, <1>6, <1>7, NotifyChecksIInv, NotifyPostsIInv, NotifyAdvancesIInv DEF CaptureThread

LEMMA CaptureStepIInv == CaptureIInv /\ [CaptureNext]_captureVars => CaptureIInv'
<1> SUFFICES ASSUME CaptureIInv, [CaptureNext]_captureVars PROVE CaptureIInv'
  OBVIOUS
<1>1. CASE Command
  BY <1>1, CommandIInv
<1>2. CASE CaptureThread
  BY <1>2, CaptureThreadIInv
<1>3. CASE CapturePd
  BY <1>3, EnsureIInv, CloseStopsIInv, CloseJoinsIInv, CloseUnmapsIInv, OpenFailsIInv, OpenClosesIInv, OpenDeviceIInv,
     OpenCreatesIInv, NextIInv DEF CapturePd
<1>4. CASE DriverCaptures \/ UNCHANGED captureVars
  BY <1>4 DEF DriverCaptures, captureVars, deviceVars, threadVars, CaptureIInv, DeviceOpen, ThreadOwned, RingStarts, Counted, RingIndices
<1> QED
  BY <1>1, <1>2, <1>3, <1>4 DEF CaptureNext

(* Through every order of messages, failures of the driver and steps of the *)
(* capturing thread, the thread has an open and mapped device, only one is  *)
(* made, and the semaphore counts the buffers between the two indices.      *)
THEOREM CaptureCorrect == CaptureSpec => []CaptureSound
<1>1. CaptureIInv => CaptureSound
  <2> SUFFICES ASSUME CaptureIInv PROVE CaptureSound
    OBVIOUS
  <2>1. CaptureAlive
    BY DEF CaptureIInv, CaptureAlive, ThreadOwned, DeviceOpen, First
  <2>2. CaptureCounted
    BY DEF CaptureIInv, CaptureCounted, Counted, RingIndices, First
  <2> QED
    BY <2>1, <2>2 DEF CaptureSound
<1>2. CaptureSpec => []CaptureIInv
  BY CaptureInitIInv, CaptureStepIInv, PTL DEF CaptureSpec
<1> QED
  BY <1>1, <1>2, PTL

-----------------------------------------------------------------------------
(* Raw streams.  The types of the state the invariant speaks of. *)
RawTypeOK ==
    /\ robj \in RawClasses
    /\ streamMade \in 0 .. MaxStream /\ streamed \in 0 .. streamMade
    /\ x_queue \in Seq(Nat) /\ ToSet(x_queue) \subseteq 1 .. streamMade
    /\ xfer \in [packet : 0 .. streamMade, left : Int]
    /\ passing \in 0 .. streamMade /\ lost \subseteq 1 .. streamMade
    /\ x_needle \in [packet : 0 .. streamMade, pos : Int]
    /\ streamUsers \in [Stream -> Int]

(* A packet is in transfer while the thread, or a bang, reads or writes it; *)
(* an object that is not active has no thread, and one that is synchronous  *)
(* reads in the pd thread.  An object is not active while a sync tells that *)
(* it closed it, so the mode may change then.                               *)
RawPhases ==
    /\ IF rthread = "transfer" THEN xfer.packet # NoPacket ELSE xfer = NoXfer
    /\ robj = "in" => rthread \in {"start", "transfer", "failed", "ended"}
    /\ robj # "in" => rthread # "start" /\ rpd \notin {"bang", "sync"} /\ syncs = <<>>
    /\ ~x_active => rthread = "ended" /\ rpd # "bang"
    /\ robj = "in" /\ ~x_mode /\ rpd # "bang" => rthread = "ended"
    /\ rpd = "bang" => passing = NoPacket
    /\ rpd \in {"release", "freed"} => ~x_active
    /\ syncs # <<>> => ~x_active
    /\ rthread = "pop" => x_queue # <<>>

(* Audio fills the last packet that was made. *)
NeedleLast ==
    /\ x_needle.packet # NoPacket => robj = "out~" /\ x_needle.packet = streamMade /\ streamed < streamMade
    /\ x_needle.packet # NoPacket => \E k \in Nat : x_needle.pos = k * AudioBlock /\ x_needle.pos < Chunks

Increasing(q) == \A i, j \in 1 .. Len(q) : i < j => q[i] < q[j]
RawOrder ==
    /\ Increasing(x_queue)
    /\ \A p \in ToSet(x_queue) : streamed < p
    /\ xfer.packet # NoPacket =>
          /\ streamed < xfer.packet
          /\ \A p \in ToSet(x_queue) : IF robj = "in" THEN p < xfer.packet ELSE xfer.packet < p

(* A packet has one owner at most, and a reference for it. *)
Apart ==
    /\ xfer.packet # NoPacket =>
          xfer.packet \notin ToSet(x_queue) \cup lost /\ xfer.packet # passing /\ xfer.packet # x_needle.packet
    /\ passing # NoPacket => passing \notin ToSet(x_queue) \cup lost /\ passing # x_needle.packet
    /\ x_needle.packet # NoPacket => x_needle.packet \notin ToSet(x_queue) \cup lost
    /\ \A p \in lost : p \notin ToSet(x_queue)
Owned(p) == p \in ToSet(x_queue) \/ xfer.packet = p \/ passing = p \/ x_needle.packet = p \/ p \in lost
RawOwned == \A p \in Stream : streamUsers[p] = One(Owned(p))

RawIInv == RawTypeOK /\ RawPhases /\ NeedleLast /\ RawOrder /\ Apart /\ RawOwned

(* What adding and removing a packet does to the set and the order of the   *)
(* queue.                                                                   *)
LEMMA QueueEmpty == ToSet(<<>>) = {} /\ <<>> \in Seq(Nat) /\ Increasing(<<>>)
BY DEF ToSet, Increasing

LEMMA QueueAppend ==
    ASSUME NEW q \in Seq(Nat), NEW x \in Nat
    PROVE  /\ Append(q, x) \in Seq(Nat) /\ Append(q, x) # <<>> /\ ToSet(Append(q, x)) = ToSet(q) \cup {x}
           /\ Increasing(q) /\ (\A p \in ToSet(q) : p < x) => Increasing(Append(q, x))
<1>1. /\ Append(q, x) \in Seq(Nat) /\ Append(q, x) # <<>> /\ Len(Append(q, x)) = Len(q) + 1 /\ Len(q) \in Nat
      /\ \A i \in 1 .. Len(q) : Append(q, x)[i] = q[i] /\ q[i] \in Nat
      /\ Append(q, x)[Len(q) + 1] = x
      /\ DOMAIN q = 1 .. Len(q) /\ DOMAIN Append(q, x) = 1 .. Len(q) + 1
  BY AppendProperties
<1>2. ToSet(Append(q, x)) = ToSet(q) \cup {x}
  BY <1>1 DEF ToSet
<1>3. Increasing(q) /\ (\A p \in ToSet(q) : p < x) => Increasing(Append(q, x))
  BY <1>1 DEF ToSet, Increasing
<1> QED
  BY <1>1, <1>2, <1>3

LEMMA QueueTail ==
    ASSUME NEW q \in Seq(Nat), q # <<>>, Increasing(q)
    PROVE  /\ Tail(q) \in Seq(Nat) /\ Head(q) \in ToSet(q) /\ ToSet(Tail(q)) = ToSet(q) \ {Head(q)}
           /\ Increasing(Tail(q)) /\ \A p \in ToSet(Tail(q)) : Head(q) < p
<1>1. /\ Tail(q) \in Seq(Nat) /\ Len(Tail(q)) = Len(q) - 1 /\ Len(q) \in Nat \ {0} /\ Head(q) = q[1]
      /\ \A i \in 1 .. Len(q) - 1 : Tail(q)[i] = q[i + 1]
      /\ \A i \in 1 .. Len(q) : q[i] \in Nat
      /\ DOMAIN q = 1 .. Len(q) /\ DOMAIN Tail(q) = 1 .. Len(q) - 1
  BY HeadTailProperties
<1>2. Increasing(Tail(q))
  BY <1>1 DEF Increasing
<1>3. \A p \in ToSet(Tail(q)) : Head(q) < p /\ p \in ToSet(q)
  BY <1>1 DEF ToSet, Increasing
<1>4. \A p \in ToSet(q) : p = Head(q) \/ p \in ToSet(Tail(q))
  <2> SUFFICES ASSUME NEW i \in 1 .. Len(q), i # 1 PROVE q[i] \in ToSet(Tail(q))
    BY <1>1 DEF ToSet
  <2>1. i - 1 \in 1 .. Len(q) - 1 /\ Tail(q)[i - 1] = q[i]
    BY <1>1
  <2> QED
    BY <1>1, <2>1 DEF ToSet
<1>5. Head(q) \in ToSet(q) /\ Head(q) \in Nat
  BY <1>1 DEF ToSet
<1> QED
  BY <1>1, <1>2, <1>3, <1>4, <1>5

(* Steps that move no packet. *)
LEMMA RawFrame ==
    ASSUME RawIInv, RawPhases',
           UNCHANGED <<robj, x_queue, x_needle, xfer, passing, streamUsers, streamMade, streamed, lost>>
    PROVE  RawIInv'
BY DEF RawIInv, RawTypeOK, NeedleLast, RawOrder, Apart, RawOwned, Owned

LEMMA RawQuietIInv ==
    ASSUME RawIInv, ~OpensInSync,
           \/ ReadCreateFails \/ ThreadEnds \/ rawin_bang \/ rawin_open \/ rawin_sync \/ Close("stop") \/ Close("free")
           \/ GiveUp \/ SyncSets \/ rawout_tick \/ ThreadOpens \/ ReaderComes \/ ThreadPolls \/ ThreadExits
           \/ \E n \in QueueSizes : rawout_queuesize(n)
    PROVE  RawIInv'
<1>1. CASE ReadCreateFails
  BY <1>1, RawFrame DEF ReadCreateFails, RawIInv, RawPhases, flags
<1>2. CASE ThreadEnds
  BY <1>2, RawFrame DEF ThreadEnds, RawIInv, RawPhases, flags
<1>3. CASE rawin_bang
  BY <1>3, RawFrame DEF rawin_bang, RawIInv, RawPhases, flags
<1>4. CASE rawin_open
  BY <1>4, RawFrame DEF rawin_open, RawIInv, RawPhases, flags
<1>5. CASE rawin_sync
  BY <1>5, RawFrame DEF rawin_sync, Close, RawIInv, RawPhases, flags
<1>6. CASE Close("stop")
  BY <1>6, RawFrame DEF Close, RawIInv, RawPhases, flags
<1>7. CASE Close("free")
  BY <1>7, RawFrame DEF Close, RawIInv, RawPhases, flags
<1>8. CASE GiveUp
  BY <1>8, RawFrame DEF GiveUp, RawIInv, RawPhases, flags
<1>9. CASE rawout_tick
  BY <1>9, RawFrame DEF rawout_tick, Noticed, RawIInv, RawPhases, flags
<1>10. CASE ThreadOpens
  BY <1>10, RawFrame DEF ThreadOpens, RawIInv, RawPhases, flags
<1>11. CASE ReaderComes
  BY <1>11, RawFrame DEF ReaderComes, RawIInv, RawPhases, flags
<1>12. CASE ThreadPolls
  BY <1>12, RawFrame DEF ThreadPolls, RawIInv, RawPhases, flags
<1>13. CASE ThreadExits
  BY <1>13, RawFrame DEF ThreadExits, RawIInv, RawPhases, flags
<1>14. CASE \E n \in QueueSizes : rawout_queuesize(n)
  BY <1>14, RawFrame DEF rawout_queuesize, RawIInv, RawPhases
<1>15. CASE SyncSets
  BY <1>15, RawFrame DEF SyncSets, RawIInv, RawPhases, flags
<1> QED
  BY <1>1, <1>2, <1>3, <1>4, <1>5, <1>6, <1>7, <1>8, <1>9, <1>10, <1>11, <1>12, <1>13, <1>14, <1>15

LEMMA ReadCreatesIInv == RawIInv /\ ReadCreates => RawIInv'
<1> SUFFICES ASSUME RawIInv, ReadCreates PROVE RawIInv'
  OBVIOUS
<1>1. RawTypeOK'
  BY StreamAssumption DEF ReadCreates, NewPacket, Plus, flags, NoPacket, NoXfer, NoNeedle, RawTypeOK, RawPhases, RawClasses, Stream, RawIInv
<1>2. RawPhases'
  BY StreamAssumption DEF ReadCreates, NewPacket, Plus, flags, NoPacket, NoXfer, NoNeedle, RawTypeOK, RawPhases, RawIInv
<1>3. NeedleLast'
  BY StreamAssumption DEF ReadCreates, NewPacket, Plus, flags, NoPacket, NoXfer, NoNeedle, RawTypeOK, NeedleLast, RawPhases, Apart, RawIInv
<1>4. RawOrder'
  BY StreamAssumption DEF ReadCreates, NewPacket, Plus, flags, NoPacket, NoXfer, NoNeedle, RawTypeOK, RawOrder, RawPhases, NeedleLast, RawClasses, RawIInv
<1>5. Apart'
  BY StreamAssumption DEF ReadCreates, NewPacket, Plus, flags, NoPacket, NoXfer, NoNeedle, RawTypeOK, RawPhases, NeedleLast, Apart, RawIInv
<1>6. RawOwned'
  BY StreamAssumption DEF ReadCreates, NewPacket, Plus, flags, NoPacket, NoXfer, NoNeedle, RawTypeOK, RawPhases, NeedleLast, Apart, RawOwned, Owned, One, Stream, RawIInv
<1> QED
  BY <1>1, <1>2, <1>3, <1>4, <1>5, <1>6 DEF RawIInv

LEMMA ReadGivesUpIInv == RawIInv /\ ReadGivesUp => RawIInv'
<1> SUFFICES ASSUME RawIInv, ReadGivesUp PROVE RawIInv'
  OBVIOUS
<1>1. RawTypeOK'
  BY StreamAssumption DEF ReadGivesUp, Plus, flags, NoPacket, NoXfer, NoNeedle, RawTypeOK, RawPhases, RawClasses, Stream, RawIInv
<1>2. RawPhases'
  BY StreamAssumption DEF ReadGivesUp, Plus, flags, NoPacket, NoXfer, NoNeedle, RawTypeOK, RawPhases, RawIInv
<1>3. NeedleLast'
  BY StreamAssumption DEF ReadGivesUp, Plus, flags, NoPacket, NoXfer, NoNeedle, RawTypeOK, NeedleLast, RawPhases, Apart, RawIInv
<1>4. RawOrder'
  BY StreamAssumption DEF ReadGivesUp, Plus, flags, NoPacket, NoXfer, NoNeedle, RawTypeOK, RawOrder, RawPhases, NeedleLast, RawClasses, RawIInv
<1>5. Apart'
  BY StreamAssumption DEF ReadGivesUp, Plus, flags, NoPacket, NoXfer, NoNeedle, RawTypeOK, RawPhases, NeedleLast, Apart, RawIInv
<1>6. RawOwned'
  BY StreamAssumption DEF ReadGivesUp, Plus, flags, NoPacket, NoXfer, NoNeedle, RawTypeOK, RawPhases, NeedleLast, Apart, RawOwned, Owned, One, Stream, RawIInv
<1> QED
  BY <1>1, <1>2, <1>3, <1>4, <1>5, <1>6 DEF RawIInv

LEMMA PipeBreaksIInv == RawIInv /\ PipeBreaks => RawIInv'
<1> SUFFICES ASSUME RawIInv, PipeBreaks PROVE RawIInv'
  OBVIOUS
<1>1. RawTypeOK'
  <2>1. xfer.packet \in 1 .. streamMade
    BY StreamAssumption DEF PipeBreaks, RawIInv, RawTypeOK, RawPhases, NoPacket
  <2>2. lost' \subseteq 1 .. streamMade
    BY <2>1 DEF PipeBreaks, RawIInv, RawTypeOK
  <2>3. xfer' \in [packet : 0 .. streamMade, left : Int]
    BY StreamAssumption DEF PipeBreaks, RawIInv, RawTypeOK, NoXfer, NoPacket
  <2> QED
    BY <2>2, <2>3 DEF PipeBreaks, RawIInv, RawTypeOK
<1>2. RawPhases'
  BY StreamAssumption DEF PipeBreaks, flags, NoPacket, NoXfer, NoNeedle, RawTypeOK, RawPhases, RawIInv
<1>3. NeedleLast'
  BY StreamAssumption DEF PipeBreaks, flags, NoPacket, NoXfer, NoNeedle, RawTypeOK, NeedleLast, RawPhases, Apart, RawIInv
<1>4. RawOrder'
  BY StreamAssumption DEF PipeBreaks, flags, NoPacket, NoXfer, NoNeedle, RawTypeOK, RawOrder, RawPhases, NeedleLast, RawClasses, RawIInv
<1>5. Apart'
  BY StreamAssumption DEF PipeBreaks, flags, NoPacket, NoXfer, NoNeedle, RawTypeOK, RawPhases, NeedleLast, Apart, RawIInv
<1>6. RawOwned'
  BY StreamAssumption DEF PipeBreaks, flags, NoPacket, NoXfer, NoNeedle, RawTypeOK, RawPhases, NeedleLast, Apart, RawOwned, Owned, One, Stream, RawIInv
<1> QED
  BY <1>1, <1>2, <1>3, <1>4, <1>5, <1>6 DEF RawIInv

LEMMA PipeMovesIInv == RawIInv /\ PipeMoves => RawIInv'
<1> SUFFICES ASSUME RawIInv, PipeMoves PROVE RawIInv'
  OBVIOUS
<1>1. RawTypeOK'
  BY StreamAssumption DEF PipeMoves, Moves, flags, NoPacket, NoXfer, NoNeedle, RawTypeOK, RawPhases, RawClasses, Stream, RawIInv
<1>2. RawPhases'
  BY StreamAssumption DEF PipeMoves, Moves, flags, NoPacket, NoXfer, NoNeedle, RawTypeOK, RawPhases, RawIInv
<1>3. NeedleLast'
  BY StreamAssumption DEF PipeMoves, Moves, flags, NoPacket, NoXfer, NoNeedle, RawTypeOK, NeedleLast, RawPhases, Apart, RawIInv
<1>4. RawOrder'
  BY StreamAssumption DEF PipeMoves, Moves, flags, NoPacket, NoXfer, NoNeedle, RawTypeOK, RawOrder, RawPhases, NeedleLast, RawClasses, RawIInv
<1>5. Apart'
  BY StreamAssumption DEF PipeMoves, Moves, flags, NoPacket, NoXfer, NoNeedle, RawTypeOK, RawPhases, NeedleLast, Apart, RawIInv
<1>6. RawOwned'
  BY StreamAssumption DEF PipeMoves, Moves, flags, NoPacket, NoXfer, NoNeedle, RawTypeOK, RawPhases, NeedleLast, Apart, RawOwned, Owned, One, Stream, RawIInv
<1> QED
  BY <1>1, <1>2, <1>3, <1>4, <1>5, <1>6 DEF RawIInv

LEMMA ThreadQueuesIInv == RawIInv /\ ThreadQueues => RawIInv'
<1> SUFFICES ASSUME RawIInv, ThreadQueues PROVE RawIInv'
  OBVIOUS
<1>a. /\ x_queue' = Append(x_queue, xfer.packet) /\ xfer.packet \in Nat /\ x_queue \in Seq(Nat)
      /\ x_queue' \in Seq(Nat) /\ x_queue' # <<>> /\ ToSet(x_queue') = ToSet(x_queue) \cup {xfer.packet}
      /\ (\A p \in ToSet(x_queue) : p < xfer.packet) => Increasing(x_queue')
  BY QueueAppend DEF RawIInv, RawTypeOK, RawOrder, RawPhases, ThreadQueues, NoPacket, NoXfer, NoNeedle
<1>1. RawTypeOK'
  BY <1>a, StreamAssumption DEF ThreadQueues, flags, NoPacket, NoXfer, NoNeedle, RawTypeOK, RawPhases, RawClasses, Stream, RawIInv
<1>2. RawPhases'
  BY <1>a, StreamAssumption DEF ThreadQueues, flags, NoPacket, NoXfer, NoNeedle, RawTypeOK, RawPhases, RawIInv
<1>3. NeedleLast'
  BY <1>a, StreamAssumption DEF ThreadQueues, flags, NoPacket, NoXfer, NoNeedle, RawTypeOK, NeedleLast, RawPhases, Apart, RawIInv
<1>4. RawOrder'
  BY <1>a, StreamAssumption DEF ThreadQueues, flags, NoPacket, NoXfer, NoNeedle, RawTypeOK, RawOrder, RawPhases, NeedleLast, RawClasses, RawIInv
<1>5. Apart'
  BY <1>a, StreamAssumption DEF ThreadQueues, flags, NoPacket, NoXfer, NoNeedle, RawTypeOK, RawPhases, NeedleLast, Apart, RawIInv
<1>6. RawOwned'
  BY <1>a, StreamAssumption DEF ThreadQueues, flags, NoPacket, NoXfer, NoNeedle, RawTypeOK, RawPhases, NeedleLast, Apart, RawOwned, Owned, One, Stream, RawIInv
<1> QED
  BY <1>1, <1>2, <1>3, <1>4, <1>5, <1>6 DEF RawIInv

LEMMA TickIInv == RawIInv /\ rawin_tick => RawIInv'
<1> SUFFICES ASSUME RawIInv, rawin_tick PROVE RawIInv'
  OBVIOUS
<1>a. /\ x_queue # <<>> /\ x_queue' = Tail(x_queue) /\ x_queue' \in Seq(Nat) /\ Head(x_queue) \in ToSet(x_queue)
      /\ ToSet(x_queue') = ToSet(x_queue) \ {Head(x_queue)} /\ Increasing(x_queue')
      /\ \A p \in ToSet(x_queue') : Head(x_queue) < p
  BY QueueTail DEF RawIInv, RawTypeOK, RawOrder, rawin_tick
<1>1. RawTypeOK'
  BY <1>a, StreamAssumption DEF rawin_tick, flags, NoPacket, NoXfer, NoNeedle, RawTypeOK, RawPhases, RawClasses, Stream, RawIInv
<1>2. RawPhases'
  BY <1>a, StreamAssumption DEF rawin_tick, flags, NoPacket, NoXfer, NoNeedle, RawTypeOK, RawPhases, RawIInv
<1>3. NeedleLast'
  BY <1>a, StreamAssumption DEF rawin_tick, flags, NoPacket, NoXfer, NoNeedle, RawTypeOK, NeedleLast, RawPhases, Apart, RawIInv
<1>4. RawOrder'
  BY <1>a, StreamAssumption DEF rawin_tick, flags, NoPacket, NoXfer, NoNeedle, RawTypeOK, RawOrder, RawPhases, NeedleLast, RawClasses, RawIInv
<1>5. Apart'
  BY <1>a, StreamAssumption DEF rawin_tick, flags, NoPacket, NoXfer, NoNeedle, RawTypeOK, RawPhases, NeedleLast, Apart, RawIInv
<1>6. RawOwned'
  BY <1>a, StreamAssumption DEF rawin_tick, flags, NoPacket, NoXfer, NoNeedle, RawTypeOK, RawPhases, NeedleLast, Apart, RawOwned, Owned, One, Stream, RawIInv
<1> QED
  BY <1>1, <1>2, <1>3, <1>4, <1>5, <1>6 DEF RawIInv

LEMMA PassesIInv == RawIInv /\ Passes => RawIInv'
<1> SUFFICES ASSUME RawIInv, Passes PROVE RawIInv'
  OBVIOUS
<1>1. RawTypeOK'
  BY StreamAssumption DEF Passes, Plus, flags, NoPacket, NoXfer, NoNeedle, RawTypeOK, RawPhases, RawClasses, Stream, RawIInv
<1>2. RawPhases'
  BY StreamAssumption DEF Passes, Plus, flags, NoPacket, NoXfer, NoNeedle, RawTypeOK, RawPhases, RawIInv
<1>3. NeedleLast'
  BY StreamAssumption DEF Passes, Plus, flags, NoPacket, NoXfer, NoNeedle, RawTypeOK, NeedleLast, RawPhases, Apart, RawIInv
<1>4. RawOrder'
  BY StreamAssumption DEF Passes, Plus, flags, NoPacket, NoXfer, NoNeedle, RawTypeOK, RawOrder, RawPhases, NeedleLast, RawClasses, RawIInv
<1>5. Apart'
  BY StreamAssumption DEF Passes, Plus, flags, NoPacket, NoXfer, NoNeedle, RawTypeOK, RawPhases, NeedleLast, Apart, RawIInv
<1>6. RawOwned'
  BY StreamAssumption DEF Passes, Plus, flags, NoPacket, NoXfer, NoNeedle, RawTypeOK, RawPhases, NeedleLast, Apart, RawOwned, Owned, One, Stream, RawIInv
<1> QED
  BY <1>1, <1>2, <1>3, <1>4, <1>5, <1>6 DEF RawIInv

LEMMA BangReadsIInv == RawIInv /\ BangReads => RawIInv'
<1> SUFFICES ASSUME RawIInv, BangReads PROVE RawIInv'
  OBVIOUS
<1>1. RawTypeOK'
  BY StreamAssumption DEF BangReads, flags, NoPacket, NoXfer, NoNeedle, RawTypeOK, RawPhases, RawClasses, Stream, RawIInv
<1>2. RawPhases'
  BY StreamAssumption DEF BangReads, flags, NoPacket, NoXfer, NoNeedle, RawTypeOK, RawPhases, RawIInv
<1>3. NeedleLast'
  BY StreamAssumption DEF BangReads, flags, NoPacket, NoXfer, NoNeedle, RawTypeOK, NeedleLast, RawPhases, Apart, RawIInv
<1>4. RawOrder'
  BY StreamAssumption DEF BangReads, flags, NoPacket, NoXfer, NoNeedle, RawTypeOK, RawOrder, RawPhases, NeedleLast, RawClasses, RawIInv
<1>5. Apart'
  BY StreamAssumption DEF BangReads, flags, NoPacket, NoXfer, NoNeedle, RawTypeOK, RawPhases, NeedleLast, Apart, RawIInv
<1>6. RawOwned'
  BY StreamAssumption DEF BangReads, flags, NoPacket, NoXfer, NoNeedle, RawTypeOK, RawPhases, NeedleLast, Apart, RawOwned, Owned, One, Stream, RawIInv
<1> QED
  BY <1>1, <1>2, <1>3, <1>4, <1>5, <1>6 DEF RawIInv

LEMMA RawoutOpenIInv == RawIInv /\ rawout_open => RawIInv'
<1> SUFFICES ASSUME RawIInv, rawout_open PROVE RawIInv'
  OBVIOUS
<1>a. x_queue' = <<>> /\ ToSet(x_queue') = {} /\ x_queue' \in Seq(Nat) /\ Increasing(x_queue')
  BY QueueEmpty DEF rawout_open
<1>1. RawTypeOK'
  BY <1>a, StreamAssumption DEF rawout_open, Cleared, NoPacket, NoXfer, NoNeedle, RawTypeOK, RawPhases, RawClasses, Stream, RawIInv
<1>2. RawPhases'
  BY <1>a, StreamAssumption DEF rawout_open, Cleared, NoPacket, NoXfer, NoNeedle, RawTypeOK, RawPhases, RawIInv
<1>3. NeedleLast'
  BY <1>a, StreamAssumption DEF rawout_open, Cleared, NoPacket, NoXfer, NoNeedle, RawTypeOK, NeedleLast, RawPhases, Apart, RawIInv
<1>4. RawOrder'
  BY <1>a, StreamAssumption DEF rawout_open, Cleared, NoPacket, NoXfer, NoNeedle, RawTypeOK, RawOrder, RawPhases, NeedleLast, RawClasses, RawIInv
<1>5. Apart'
  BY <1>a, StreamAssumption DEF rawout_open, Cleared, NoPacket, NoXfer, NoNeedle, RawTypeOK, RawPhases, NeedleLast, Apart, RawIInv
<1>6. RawOwned'
  BY <1>a, StreamAssumption DEF rawout_open, Cleared, NoPacket, NoXfer, NoNeedle, RawTypeOK, RawPhases, NeedleLast, Apart, RawOwned, Owned, One, Stream, RawIInv
<1> QED
  BY <1>1, <1>2, <1>3, <1>4, <1>5, <1>6 DEF RawIInv

LEMMA JoinedIInv == RawIInv /\ Joined => RawIInv'
<1> SUFFICES ASSUME RawIInv, Joined PROVE RawIInv'
  OBVIOUS
<1>a. robj # "in" => x_queue' = <<>> /\ ToSet(x_queue') = {} /\ x_queue' \in Seq(Nat) /\ Increasing(x_queue')
  BY QueueEmpty DEF Joined
<1>1. RawTypeOK'
  BY <1>a, StreamAssumption DEF Joined, Cleared, NoPacket, NoXfer, NoNeedle, RawTypeOK, RawPhases, RawClasses, Stream, RawIInv
<1>2. RawPhases'
  BY <1>a, StreamAssumption DEF Joined, Cleared, NoPacket, NoXfer, NoNeedle, RawTypeOK, RawPhases, RawIInv
<1>3. NeedleLast'
  BY <1>a, StreamAssumption DEF Joined, Cleared, NoPacket, NoXfer, NoNeedle, RawTypeOK, NeedleLast, RawPhases, Apart, RawIInv
<1>4. RawOrder'
  BY <1>a, StreamAssumption DEF Joined, Cleared, NoPacket, NoXfer, NoNeedle, RawTypeOK, RawOrder, RawPhases, NeedleLast, RawClasses, RawIInv
<1>5. Apart'
  BY <1>a, StreamAssumption DEF Joined, Cleared, NoPacket, NoXfer, NoNeedle, RawTypeOK, RawPhases, NeedleLast, Apart, RawIInv
<1>6. RawOwned'
  <2>1. CASE robj = "in"
    BY <2>1 DEF Joined, RawIInv, RawOwned, Owned
  <2>2. CASE robj # "in"
    BY <1>a, <2>2 DEF Joined, Cleared, RawIInv, RawTypeOK, Apart, RawOwned, Owned, One, Stream, NoPacket
  <2> QED
    BY <2>1, <2>2
<1> QED
  BY <1>1, <1>2, <1>3, <1>4, <1>5, <1>6 DEF RawIInv

LEMMA RawFreeIInv == RawIInv /\ RawFree => RawIInv'
<1> SUFFICES ASSUME RawIInv, RawFree PROVE RawIInv'
  OBVIOUS
<1>a. x_queue' = <<>> /\ ToSet(x_queue') = {} /\ x_queue' \in Seq(Nat) /\ Increasing(x_queue')
  BY QueueEmpty DEF RawFree
<1>1. RawTypeOK'
  BY <1>a, StreamAssumption DEF RawFree, flags, NoPacket, NoXfer, NoNeedle, RawTypeOK, RawPhases, RawClasses, Stream, RawIInv
<1>2. RawPhases'
  BY <1>a, StreamAssumption DEF RawFree, flags, NoPacket, NoXfer, NoNeedle, RawTypeOK, RawPhases, RawIInv
<1>3. NeedleLast'
  BY <1>a, StreamAssumption DEF RawFree, flags, NoPacket, NoXfer, NoNeedle, RawTypeOK, NeedleLast, RawPhases, Apart, RawIInv
<1>4. RawOrder'
  BY <1>a, StreamAssumption DEF RawFree, flags, NoPacket, NoXfer, NoNeedle, RawTypeOK, RawOrder, RawPhases, NeedleLast, RawClasses, RawIInv
<1>5. Apart'
  BY <1>a, StreamAssumption DEF RawFree, flags, NoPacket, NoXfer, NoNeedle, RawTypeOK, RawPhases, NeedleLast, Apart, RawIInv
<1>6. RawOwned'
  BY <1>a, StreamAssumption DEF RawFree, flags, NoPacket, NoXfer, NoNeedle, RawTypeOK, RawPhases, NeedleLast, Apart, RawOwned, Owned, One, Stream, RawIInv
<1> QED
  BY <1>1, <1>2, <1>3, <1>4, <1>5, <1>6 DEF RawIInv

LEMMA PdpInIInv == RawIInv /\ pdp_in => RawIInv'
<1> SUFFICES ASSUME RawIInv, pdp_in PROVE RawIInv'
  OBVIOUS
<1>a. /\ x_queue' = Append(x_queue, (streamMade + 1)) /\ (streamMade + 1) \in Nat /\ x_queue \in Seq(Nat)
      /\ x_queue' \in Seq(Nat) /\ x_queue' # <<>> /\ ToSet(x_queue') = ToSet(x_queue) \cup {(streamMade + 1)}
      /\ (\A p \in ToSet(x_queue) : p < (streamMade + 1)) => Increasing(x_queue')
  BY QueueAppend DEF RawIInv, RawTypeOK, RawOrder, RawPhases, pdp_in, NewPacket, NoPacket, NoXfer, NoNeedle
<1>1. RawTypeOK'
  <2>1. streamMade' = streamMade + 1 /\ streamMade \in 0 .. MaxStream - 1 /\ MaxStream \in Nat
    BY StreamAssumption DEF pdp_in, NewPacket, RawIInv, RawTypeOK
  <2>2. ToSet(x_queue') \subseteq 1 .. streamMade'
    BY <1>a, <2>1 DEF RawIInv, RawTypeOK
  <2>3. streamUsers' \in [Stream -> Int]
    BY <2>1 DEF pdp_in, NewPacket, Plus, RawIInv, RawTypeOK, Stream, NoPacket
  <2>4. xfer' \in [packet : 0 .. streamMade', left : Int] /\ x_needle' \in [packet : 0 .. streamMade', pos : Int]
    BY <2>1 DEF pdp_in, RawIInv, RawTypeOK
  <2> QED
    BY <1>a, <2>1, <2>2, <2>3, <2>4 DEF pdp_in, RawIInv, RawTypeOK
<1>2. RawPhases'
  BY <1>a, StreamAssumption DEF pdp_in, NewPacket, Plus, Noticed, flags, NoPacket, NoXfer, NoNeedle, RawTypeOK, RawPhases, RawIInv
<1>3. NeedleLast'
  BY <1>a, StreamAssumption DEF pdp_in, NewPacket, Plus, Noticed, flags, NoPacket, NoXfer, NoNeedle, RawTypeOK, NeedleLast, RawPhases, Apart, RawIInv
<1>4. RawOrder'
  BY <1>a, StreamAssumption DEF pdp_in, NewPacket, Plus, Noticed, flags, NoPacket, NoXfer, NoNeedle, RawTypeOK, RawOrder, RawPhases, NeedleLast, RawClasses, RawIInv
<1>5. Apart'
  BY <1>a, StreamAssumption DEF pdp_in, NewPacket, Plus, Noticed, flags, NoPacket, NoXfer, NoNeedle, RawTypeOK, RawPhases, NeedleLast, Apart, RawIInv
<1>6. RawOwned'
  <2> SUFFICES ASSUME NEW p \in Stream PROVE streamUsers'[p] = One(Owned(p)')
    BY DEF RawOwned
  <2>a. streamMade + 1 # 0 /\ streamUsers \in [Stream -> Int]
    BY StreamAssumption DEF RawIInv, RawTypeOK
  <2>1. streamUsers'[p] = IF p = streamMade + 1 THEN streamUsers[p] + 1 ELSE streamUsers[p]
    BY <2>a DEF pdp_in, NewPacket, Plus, NoPacket
  <2>2. Owned(p)' <=> (Owned(p) \/ p = streamMade + 1)
    BY <1>a DEF pdp_in, Owned
  <2>3. p = streamMade + 1 => ~Owned(p)
    BY StreamAssumption DEF RawIInv, RawTypeOK, Owned
  <2>4. streamUsers[p] = IF Owned(p) THEN 1 ELSE 0
    BY DEF RawIInv, RawOwned, One
  <2> QED
    BY <2>1, <2>2, <2>3, <2>4 DEF One
<1> QED
  BY <1>1, <1>2, <1>3, <1>4, <1>5, <1>6 DEF RawIInv

LEMMA ThreadPopsIInv == RawIInv /\ ThreadPops => RawIInv'
<1> SUFFICES ASSUME RawIInv, ThreadPops PROVE RawIInv'
  OBVIOUS
<1>a. /\ x_queue # <<>> /\ x_queue' = Tail(x_queue) /\ x_queue' \in Seq(Nat) /\ Head(x_queue) \in ToSet(x_queue)
      /\ ToSet(x_queue') = ToSet(x_queue) \ {Head(x_queue)} /\ Increasing(x_queue')
      /\ \A p \in ToSet(x_queue') : Head(x_queue) < p
  BY QueueTail DEF RawIInv, RawTypeOK, RawOrder, ThreadPops
<1>1. RawTypeOK'
  <2>1. Head(x_queue) \in 0 .. streamMade /\ ToSet(x_queue') \subseteq 1 .. streamMade
    BY <1>a, StreamAssumption DEF RawIInv, RawTypeOK
  <2>2. xfer' \in [packet : 0 .. streamMade, left : Int]
    BY <2>1, StreamAssumption DEF ThreadPops
  <2> QED
    BY <1>a, <2>1, <2>2 DEF ThreadPops, RawIInv, RawTypeOK
<1>2. RawPhases'
  BY <1>a, StreamAssumption DEF ThreadPops, flags, NoPacket, NoXfer, NoNeedle, RawTypeOK, RawPhases, RawIInv
<1>3. NeedleLast'
  BY <1>a, StreamAssumption DEF ThreadPops, flags, NoPacket, NoXfer, NoNeedle, RawTypeOK, NeedleLast, RawPhases, Apart, RawIInv
<1>4. RawOrder'
  BY <1>a, StreamAssumption DEF ThreadPops, flags, NoPacket, NoXfer, NoNeedle, RawTypeOK, RawOrder, RawPhases, NeedleLast, RawClasses, RawIInv
<1>5. Apart'
  BY <1>a, StreamAssumption DEF ThreadPops, flags, NoPacket, NoXfer, NoNeedle, RawTypeOK, RawPhases, NeedleLast, Apart, RawIInv
<1>6. RawOwned'
  BY <1>a, StreamAssumption DEF ThreadPops, flags, NoPacket, NoXfer, NoNeedle, RawTypeOK, RawPhases, NeedleLast, Apart, RawOwned, Owned, One, Stream, RawIInv
<1> QED
  BY <1>1, <1>2, <1>3, <1>4, <1>5, <1>6 DEF RawIInv

LEMMA WrittenIInv == RawIInv /\ Written => RawIInv'
<1> SUFFICES ASSUME RawIInv, Written PROVE RawIInv'
  OBVIOUS
<1>1. RawTypeOK'
  BY StreamAssumption DEF Written, Plus, flags, NoPacket, NoXfer, NoNeedle, RawTypeOK, RawPhases, RawClasses, Stream, RawIInv
<1>2. RawPhases'
  BY StreamAssumption DEF Written, Plus, flags, NoPacket, NoXfer, NoNeedle, RawTypeOK, RawPhases, RawIInv
<1>3. NeedleLast'
  BY StreamAssumption DEF Written, Plus, flags, NoPacket, NoXfer, NoNeedle, RawTypeOK, NeedleLast, RawPhases, Apart, RawIInv
<1>4. RawOrder'
  BY StreamAssumption DEF Written, Plus, flags, NoPacket, NoXfer, NoNeedle, RawTypeOK, RawOrder, RawPhases, NeedleLast, RawClasses, RawIInv
<1>5. Apart'
  BY StreamAssumption DEF Written, Plus, flags, NoPacket, NoXfer, NoNeedle, RawTypeOK, RawPhases, NeedleLast, Apart, RawIInv
<1>6. RawOwned'
  BY StreamAssumption DEF Written, Plus, flags, NoPacket, NoXfer, NoNeedle, RawTypeOK, RawPhases, NeedleLast, Apart, RawOwned, Owned, One, Stream, RawIInv
<1> QED
  BY <1>1, <1>2, <1>3, <1>4, <1>5, <1>6 DEF RawIInv

LEMMA WriteGivesUpIInv == RawIInv /\ WriteGivesUp => RawIInv'
<1> SUFFICES ASSUME RawIInv, WriteGivesUp PROVE RawIInv'
  OBVIOUS
<1>1. RawTypeOK'
  BY StreamAssumption DEF WriteGivesUp, Plus, flags, NoPacket, NoXfer, NoNeedle, RawTypeOK, RawPhases, RawClasses, Stream, RawIInv
<1>2. RawPhases'
  BY StreamAssumption DEF WriteGivesUp, Plus, flags, NoPacket, NoXfer, NoNeedle, RawTypeOK, RawPhases, RawIInv
<1>3. NeedleLast'
  BY StreamAssumption DEF WriteGivesUp, Plus, flags, NoPacket, NoXfer, NoNeedle, RawTypeOK, NeedleLast, RawPhases, Apart, RawIInv
<1>4. RawOrder'
  BY StreamAssumption DEF WriteGivesUp, Plus, flags, NoPacket, NoXfer, NoNeedle, RawTypeOK, RawOrder, RawPhases, NeedleLast, RawClasses, RawIInv
<1>5. Apart'
  BY StreamAssumption DEF WriteGivesUp, Plus, flags, NoPacket, NoXfer, NoNeedle, RawTypeOK, RawPhases, NeedleLast, Apart, RawIInv
<1>6. RawOwned'
  BY StreamAssumption DEF WriteGivesUp, Plus, flags, NoPacket, NoXfer, NoNeedle, RawTypeOK, RawPhases, NeedleLast, Apart, RawOwned, Owned, One, Stream, RawIInv
<1> QED
  BY <1>1, <1>2, <1>3, <1>4, <1>5, <1>6 DEF RawIInv

(* A block more fits: the packet is a whole number of blocks. *)
LEMMA BlockFits ==
    ASSUME BlocksFill, NEW k \in Nat, k * AudioBlock < Chunks
    PROVE  (k + 1) * AudioBlock = k * AudioBlock + AudioBlock /\ k * AudioBlock + AudioBlock <= Chunks
<1>1. PICK c \in Nat : Chunks = c * AudioBlock
  BY StreamAssumption DEF BlocksFill
<1>2. k < c
  <2> SUFFICES ASSUME c <= k PROVE FALSE
    BY <1>1
  <2>1. k - c \in Nat /\ AudioBlock \in Nat
    BY StreamAssumption, <1>1
  <2>2. (k - c) * AudioBlock >= 0
    BY <2>1
  <2>3. (k - c) * AudioBlock = k * AudioBlock - c * AudioBlock
    BY <2>1, <1>1
  <2> QED
    BY <1>1, <2>1, <2>2, <2>3, StreamAssumption
<1>3. c - k - 1 \in Nat /\ AudioBlock \in Nat
  BY <1>1, <1>2, StreamAssumption
<1>4. (c - k - 1) * AudioBlock >= 0
  BY <1>3
<1>5. (c - k - 1) * AudioBlock = c * AudioBlock - k * AudioBlock - AudioBlock
  BY <1>1, <1>3
<1>6. (k + 1) * AudioBlock = k * AudioBlock + AudioBlock
  BY <1>3
<1> QED
  BY <1>1, <1>3, <1>4, <1>5, <1>6, StreamAssumption

LEMMA NeedleMoves ==
    ASSUME BlocksFill, RawIInv, rawout_perform
    PROVE  /\ Needle.packet = streamMade' /\ Needle.packet \in Nat /\ Needle \in [packet : 0 .. streamMade', pos : Int]
           /\ Needle.packet # NoPacket /\ streamed < Needle.packet /\ Needle.packet \notin ToSet(x_queue) \cup lost
           /\ Needle.pos <= Chunks /\ \E k \in Nat : Needle.pos = k * AudioBlock
           /\ streamMade' \in streamMade .. MaxStream /\ streamMade' \in Nat
           /\ \A p \in ToSet(x_queue) : p < Needle.packet
<1>1. CASE x_needle.packet = NoPacket
  <2>1. Needle.packet = streamMade + 1 /\ Needle.pos = AudioBlock /\ Needle = [packet |-> streamMade + 1, pos |-> AudioBlock]
        /\ streamMade' = streamMade + 1 /\ streamMade \in 0 .. MaxStream - 1 /\ streamMade \in Nat /\ MaxStream \in Nat
    BY <1>1, StreamAssumption DEF Needle, rawout_perform, NewPacket, RawIInv, RawTypeOK
  <2>2. AudioBlock = 1 * AudioBlock /\ AudioBlock <= Chunks
    BY StreamAssumption, BlockFits, 0 \in Nat, 0 * AudioBlock = 0
  <2>3. streamed < streamMade + 1 /\ streamMade + 1 \notin ToSet(x_queue) \cup lost /\ \A p \in ToSet(x_queue) : p < streamMade + 1
    BY <2>1 DEF RawIInv, RawTypeOK
  <2> QED
    BY <2>1, <2>2, <2>3, StreamAssumption DEF NoPacket
<1>2. CASE x_needle.packet # NoPacket
  <2>a. /\ x_needle.packet = streamMade /\ streamed < streamMade /\ streamMade \in 0 .. MaxStream
        /\ x_needle \in [packet : 0 .. streamMade, pos : Int]
    BY <1>2 DEF RawIInv, RawTypeOK, NeedleLast
  <2>b. Needle = [x_needle EXCEPT !.pos = x_needle.pos + AudioBlock] /\ streamMade' = streamMade
    BY <1>2 DEF Needle, rawout_perform
  <2>c. AudioBlock \in Nat /\ MaxStream \in Nat
    BY StreamAssumption
  <2>1. /\ Needle.packet = x_needle.packet /\ x_needle.packet = streamMade
        /\ Needle.pos = x_needle.pos + AudioBlock /\ streamMade' = streamMade
        /\ streamed < streamMade /\ streamMade \in 0 .. MaxStream /\ streamMade \in Nat
        /\ Needle \in [packet : 0 .. streamMade, pos : Int]
    BY <2>a, <2>b, <2>c
  <2>2. PICK k \in Nat : x_needle.pos = k * AudioBlock /\ x_needle.pos < Chunks
    BY <1>2 DEF RawIInv, NeedleLast
  <2>3. Needle.pos = (k + 1) * AudioBlock /\ Needle.pos <= Chunks /\ k + 1 \in Nat
    BY <2>1, <2>2, BlockFits
  <2>4. x_needle.packet \notin ToSet(x_queue) \cup lost
    BY <1>2 DEF RawIInv, Apart
  <2>5. \A p \in ToSet(x_queue) : p < x_needle.packet
    BY <2>1, <2>4 DEF RawIInv, RawTypeOK
  <2>6. \E i \in Nat : Needle.pos = i * AudioBlock
    BY <2>3
  <2>7. streamMade' \in streamMade .. MaxStream
    BY <2>1, <2>c
  <2> QED
    BY <1>2, <2>1, <2>3, <2>4, <2>5, <2>6, <2>7
<1> QED
  BY <1>1, <1>2

LEMMA PerformIInv ==
    ASSUME BlocksFill, RawIInv, rawout_perform
    PROVE  RawIInv'
<1> DEFINE n == Needle.packet
<1>a. /\ n = streamMade' /\ n \in Nat /\ Needle \in [packet : 0 .. streamMade', pos : Int]
      /\ n # NoPacket /\ streamed < n /\ n \notin ToSet(x_queue) \cup lost
      /\ Needle.pos <= Chunks /\ (\E k \in Nat : Needle.pos = k * AudioBlock)
      /\ streamMade' \in streamMade .. MaxStream /\ streamMade' \in Nat
      /\ \A p \in ToSet(x_queue) : p < n
  BY NeedleMoves
<1>b. UNCHANGED <<robj, x_active, x_mode, rthread, xfer, rpd, passing, syncs, streamed, lost>> /\ robj = "out~"
  BY DEF rawout_perform, flags
<1>c. IF Needle.pos = Chunks THEN x_queue' = Append(x_queue, n) /\ x_needle' = NoNeedle
      ELSE x_needle' = Needle /\ x_queue' = x_queue
  BY DEF rawout_perform
<1>d. /\ x_queue' \in Seq(Nat) /\ Increasing(x_queue') /\ (x_queue' = <<>> => x_queue = <<>>)
      /\ ToSet(x_queue') = IF Needle.pos = Chunks THEN ToSet(x_queue) \cup {n} ELSE ToSet(x_queue)
  BY <1>a, <1>c, QueueAppend DEF RawIInv, RawTypeOK, RawOrder
<1>e. \A p \in Stream : streamUsers'[p] = (IF p = n THEN 1 ELSE streamUsers[p]) /\ streamUsers' \in [Stream -> Int]
  <2>1. CASE x_needle.packet = NoPacket
    <3>1. streamMade + 1 \in Stream /\ ~Owned(streamMade + 1) /\ n = streamMade + 1 /\ streamMade + 1 # 0
      BY <1>a, <2>1, StreamAssumption DEF rawout_perform, NewPacket, RawIInv, RawTypeOK, Owned, Stream
    <3>2. streamUsers[n] = 0 /\ streamUsers \in [Stream -> Int]
      BY <3>1 DEF RawIInv, RawTypeOK, RawOwned, One
    <3>3. streamUsers' = [streamUsers EXCEPT ![n] = streamUsers[n] + 1]
      BY <2>1, <3>1 DEF rawout_perform, NewPacket, Plus, NoPacket
    <3> QED
      BY <3>1, <3>2, <3>3
  <2>2. CASE x_needle.packet # NoPacket
    <3>1. n \in Stream /\ Owned(n)
      BY <1>a, <2>2, StreamAssumption DEF Needle, RawIInv, RawTypeOK, Owned, Stream, NoPacket
    <3>2. streamUsers[n] = 1 /\ streamUsers \in [Stream -> Int]
      BY <3>1 DEF RawIInv, RawTypeOK, RawOwned, One
    <3>3. streamUsers' = streamUsers
      BY <2>2 DEF rawout_perform
    <3> QED
      BY <3>1, <3>2, <3>3
  <2> QED
    BY <2>1, <2>2
<1>f. x_needle.packet # NoPacket => x_needle.packet = n
  BY DEF Needle, RawIInv, RawTypeOK
<1>g. xfer.packet \in Int /\ passing \in Int /\ xfer.packet < n /\ passing < n
  <2>1. /\ xfer.packet \in 0 .. streamMade /\ passing \in 0 .. streamMade /\ streamMade \in Nat /\ n \in Nat
        /\ streamMade <= n /\ n # 0
    BY <1>a DEF RawIInv, RawTypeOK, NoPacket
  <2>2. CASE x_needle.packet = NoPacket
    BY <1>a, <2>1, <2>2 DEF rawout_perform, NewPacket
  <2>3. CASE x_needle.packet # NoPacket
    BY <1>f, <2>1, <2>3 DEF RawIInv, Apart, NoPacket
  <2> QED
    BY <2>2, <2>3
<1>h. /\ x_needle'.packet = IF Needle.pos = Chunks THEN NoPacket ELSE n
      /\ Needle.pos # Chunks => x_needle'.pos = Needle.pos
  BY <1>c DEF NoNeedle
<1> HIDE DEF n
<1>1. RawTypeOK'
  <2>1. x_needle' \in [packet : 0 .. streamMade', pos : Int]
    BY <1>a, <1>c DEF NoNeedle, NoPacket
  <2>2. xfer' \in [packet : 0 .. streamMade', left : Int] /\ passing' \in 0 .. streamMade' /\ streamed' \in 0 .. streamMade'
    BY <1>a, <1>b DEF RawIInv, RawTypeOK
  <2>3. ToSet(x_queue') \subseteq 1 .. streamMade' /\ lost' \subseteq 1 .. streamMade'
    BY <1>a, <1>b, <1>d DEF RawIInv, RawTypeOK, NoPacket
  <2>4. streamMade' \in 0 .. MaxStream /\ streamUsers' \in [Stream -> Int]
    <3>1. streamUsers' \in [Stream -> Int]
      BY <1>a, <1>e, StreamAssumption DEF RawIInv, RawTypeOK, Stream, NoPacket
    <3> QED
      BY <1>a, <3>1 DEF RawIInv, RawTypeOK
  <2> QED
    BY <1>b, <1>d, <2>1, <2>2, <2>3, <2>4 DEF RawIInv, RawTypeOK
<1>2. RawPhases'
  BY <1>b, <1>d DEF RawIInv, RawPhases
<1>3. NeedleLast'
  <2>1. Needle.pos \in Int /\ Chunks \in Int
    BY <1>a, StreamAssumption
  <2>2. Needle.pos # Chunks => Needle.pos < Chunks
    BY <1>a, <2>1
  <2> QED
    BY <1>a, <1>b, <1>h, <2>2 DEF NeedleLast
<1>4. RawOrder'
  BY <1>a, <1>b, <1>d, <1>g DEF RawIInv, RawTypeOK, RawOrder
<1>5. Apart'
  BY <1>a, <1>b, <1>d, <1>g, <1>h DEF RawIInv, Apart, NoPacket
<1>6. RawOwned'
  <2> SUFFICES ASSUME NEW p \in Stream PROVE streamUsers'[p] = One(Owned(p)')
    BY DEF RawOwned
  <2>1. Owned(p)' <=> (Owned(p) \/ p = n)
    BY <1>b, <1>d, <1>f, <1>h DEF Owned, NoPacket, Stream
  <2>2. streamUsers[p] = One(Owned(p))
    BY DEF RawIInv, RawOwned
  <2> QED
    BY <1>e, <2>1, <2>2 DEF One
<1> QED
  BY <1>1, <1>2, <1>3, <1>4, <1>5, <1>6 DEF RawIInv

LEMMA RawInitIInv == RawInit => RawIInv
<1> SUFFICES ASSUME RawInit PROVE RawIInv
  OBVIOUS
<1>1. RawTypeOK
  BY QueueEmpty, StreamAssumption DEF RawInit, RawTypeOK, NoXfer, NoNeedle, NoPacket
<1>2. RawPhases /\ NeedleLast /\ RawOrder /\ Apart
  BY QueueEmpty DEF RawInit, RawPhases, NeedleLast, RawOrder, Apart, NoXfer, NoNeedle, NoPacket
<1>3. RawOwned
  BY QueueEmpty DEF RawInit, RawOwned, Owned, One, Stream, NoXfer, NoNeedle, NoPacket
<1> QED
  BY <1>1, <1>2, <1>3 DEF RawIInv

LEMMA RawStepIInv ==
    ASSUME BlocksFill, ~OpensInSync, RawIInv, [RawNext]_rawVars
    PROVE  RawIInv'
<1>1. CASE RawThread
  BY <1>1, ReadCreatesIInv, ReadGivesUpIInv, ThreadQueuesIInv, ThreadPopsIInv, WrittenIInv, WriteGivesUpIInv, RawQuietIInv
     DEF RawThread
<1>2. CASE RawPipe
  BY <1>2, PipeBreaksIInv, PipeMovesIInv, RawQuietIInv DEF RawPipe
<1>3. CASE RawCalls
  BY <1>3, BangReadsIInv, JoinedIInv, RawFreeIInv, PassesIInv, TickIInv, RawQuietIInv DEF RawCalls
<1>4. CASE RawMessages
  BY <1>4, RawoutOpenIInv, PdpInIInv, PerformIInv, RawQuietIInv DEF RawMessages
<1>5. CASE UNCHANGED rawVars
  <2>1. RawPhases'
    BY <1>5 DEF rawVars, flags, RawIInv, RawPhases
  <2> QED
    BY <1>5, <2>1, RawFrame DEF rawVars
<1> QED
  BY <1>1, <1>2, <1>3, <1>4, <1>5 DEF RawNext

(* A packet is at one place of the queue at most. *)
LEMMA QueuedOnce ==
    ASSUME NEW q \in Seq(Nat), Increasing(q), NEW p
    PROVE  Cardinality({i \in DOMAIN q : q[i] = p}) = One(p \in ToSet(q))
<1>1. DOMAIN q = 1 .. Len(q) /\ Len(q) \in Nat /\ \A i \in 1 .. Len(q) : q[i] \in Nat
  OBVIOUS
<1>2. CASE p \notin ToSet(q)
  <2>1. {i \in DOMAIN q : q[i] = p} = {}
    BY <1>2 DEF ToSet
  <2> QED
    BY <1>2, <2>1, FS_EmptySet DEF One
<1>3. CASE p \in ToSet(q)
  <2>1. PICK i \in DOMAIN q : q[i] = p
    BY <1>3 DEF ToSet
  <2>2. \A j \in DOMAIN q : q[j] = p => j = i
    BY <1>1, <2>1 DEF Increasing
  <2>3. {j \in DOMAIN q : q[j] = p} = {i}
    BY <2>1, <2>2
  <2> QED
    BY <1>3, <2>3, FS_Singleton DEF One
<1> QED
  BY <1>2, <1>3

LEMMA RawCounted == RawIInv => StreamCounted
<1> SUFFICES ASSUME RawIInv, NEW p \in Stream
             PROVE  streamUsers[p] = Cardinality({i \in DOMAIN x_queue : x_queue[i] = p}) + One(xfer.packet = p)
                       + One(passing = p) + One(x_needle.packet = p) + One(p \in lost)
  BY DEF StreamCounted
<1>1. Cardinality({i \in DOMAIN x_queue : x_queue[i] = p}) = One(p \in ToSet(x_queue))
  BY QueuedOnce DEF RawIInv, RawTypeOK, RawOrder
<1>2. streamUsers[p] = One(Owned(p))
  BY DEF RawIInv, RawOwned
<1>3. p # NoPacket
  BY DEF Stream, NoPacket
<1>4. One(Owned(p)) = One(p \in ToSet(x_queue)) + One(xfer.packet = p)
                         + One(passing = p) + One(x_needle.packet = p) + One(p \in lost)
  BY <1>3 DEF RawIInv, Apart, Owned, One
<1> QED
  BY <1>1, <1>2, <1>4

LEMMA RawOrdered == RawIInv => StreamOrdered
<1> SUFFICES ASSUME RawIInv, NEW i \in DOMAIN Line, NEW j \in DOMAIN Line, i < j
             PROVE  Line[i] < Line[j] /\ streamed < Line[i]
  BY DEF StreamOrdered
<1> DEFINE last == IF xfer = NoXfer THEN <<>> ELSE <<xfer.packet>>
<1>1. /\ x_queue \in Seq(Nat) /\ Increasing(x_queue) /\ DOMAIN x_queue = 1 .. Len(x_queue) /\ Len(x_queue) \in Nat
      /\ \A k \in 1 .. Len(x_queue) : x_queue[k] \in Nat /\ x_queue[k] \in ToSet(x_queue) /\ streamed < x_queue[k]
  BY DEF RawIInv, RawTypeOK, RawOrder, ToSet
<1>2. CASE xfer = NoXfer
  <2>1. Line = x_queue
    BY <1>1, <1>2, ConcatEmptySeq DEF Line
  <2> QED
    BY <1>1, <2>1 DEF Increasing
<1>3. CASE xfer # NoXfer
  <2>1. /\ xfer.packet \in Nat /\ xfer.packet # NoPacket /\ streamed < xfer.packet
        /\ \A p \in ToSet(x_queue) : IF robj = "in" THEN p < xfer.packet ELSE xfer.packet < p
    BY <1>3 DEF RawIInv, RawTypeOK, RawOrder, RawPhases
  <2>2. last = <<xfer.packet>> /\ last \in Seq(Nat) /\ Len(last) = 1 /\ last[1] = xfer.packet
    BY <1>3, <2>1
  <2> HIDE DEF last
  <2>3. CASE robj = "in"
    <3>1. Line = x_queue \o last
      BY <2>3 DEF Line, last
    <3>2. /\ Len(Line) = Len(x_queue) + 1 /\ DOMAIN Line = 1 .. Len(x_queue) + 1
          /\ \A k \in 1 .. Len(x_queue) + 1 : Line[k] = IF k <= Len(x_queue) THEN x_queue[k] ELSE last[k - Len(x_queue)]
      BY <1>1, <2>2, <3>1, ConcatProperties
    <3>3. i \in 1 .. Len(x_queue) /\ Line[i] = x_queue[i]
      BY <1>1, <3>2
    <3>4. CASE j <= Len(x_queue)
      BY <1>1, <3>2, <3>3, <3>4 DEF Increasing
    <3>5. CASE j = Len(x_queue) + 1
      BY <1>1, <2>1, <2>2, <2>3, <3>2, <3>3, <3>5
    <3> QED
      BY <1>1, <3>2, <3>4, <3>5
  <2>4. CASE robj # "in"
    <3>1. Line = last \o x_queue
      BY <2>4 DEF Line, last
    <3>2. /\ Len(Line) = 1 + Len(x_queue) /\ DOMAIN Line = 1 .. 1 + Len(x_queue)
          /\ \A k \in 1 .. 1 + Len(x_queue) : Line[k] = IF k <= 1 THEN last[k] ELSE x_queue[k - 1]
      BY <1>1, <2>2, <3>1, ConcatProperties
    <3>3. j - 1 \in 1 .. Len(x_queue) /\ Line[j] = x_queue[j - 1]
      BY <1>1, <3>2
    <3>4. CASE i = 1
      BY <1>1, <2>1, <2>2, <2>4, <3>2, <3>3, <3>4
    <3>5. CASE i > 1
      <4>1. i - 1 \in 1 .. Len(x_queue) /\ Line[i] = x_queue[i - 1] /\ i - 1 < j - 1
        BY <1>1, <3>2, <3>5
      <4> QED
        BY <1>1, <3>3, <4>1 DEF Increasing
    <3> QED
      BY <1>1, <3>2, <3>4, <3>5
  <2> QED
    BY <2>3, <2>4
<1> QED
  BY <1>2, <1>3

(* Thread, clock and messages of a raw stream share the queue safely: each  *)
(* packet has one owner and one reference, packets leave in the order they  *)
(* came, the thread that saw a packet without the lock pops one, and a      *)
(* closed object has no thread.  This is so while the patch does not answer *)
(* the bang of a sync with open, and its blocks of audio fill the packets.  *)
THEOREM StreamCorrect ==
    ASSUME BlocksFill, ~OpensInSync
    PROVE  RawSpec => []StreamSound
<1>1. RawIInv => StreamSound
  <2>1. RawIInv => PopsPacket /\ NeedleInside /\ ThreadJoined
    BY DEF RawIInv, RawPhases, PopsPacket, NeedleLast, NeedleInside, ThreadJoined
  <2> QED
    BY <2>1, RawCounted, RawOrdered DEF StreamSound
<1>2. RawIInv /\ [RawNext]_rawVars => RawIInv'
  BY RawStepIInv
<1>3. RawSpec => []RawIInv
  BY RawInitIInv, <1>2, PTL DEF RawSpec
<1> QED
  BY <1>1, <1>3, PTL

-----------------------------------------------------------------------------
(* The image objects.  The references to a packet, one by one.  A packet is *)
(* named by the object, kept by the patch, or both.                         *)
Names(a, p) == IF a = p THEN 1 ELSE 0
Keeps(p) == IF p \in fshared THEN 1 ELSE 0
Owners == \A p \in Buffers :
    fusers[p] = Names(fpacket0, p) + Names(fpacket1, p) + Names(fpacket2, p) + Keeps(p)

FilterTypes ==
    /\ fpacket0 \in 0..NbBuffers /\ fpacket1 \in 0..NbBuffers /\ fpacket2 \in 0..NbBuffers
    /\ fusers \in [Buffers -> Int] /\ fmask \in [Buffers -> {0}] /\ fshared \subseteq Buffers
    /\ fkind = [p \in Buffers |-> fkind[p]]
    /\ fstage \in {"idle", "preproc", "queued", "running", "done"}

(* Where a new packet is written no other is forgotten. *)
Stages ==
    /\ fclass \in Generators /\ fpacket0 # NoBuffer => fstage = "done"
    /\ fclass \in {"zoom", "scale"} /\ fstage \in {"idle", "preproc"} => fpacket1 = NoBuffer
    /\ fstage = "preproc" => fclass \notin Generators
    /\ fclass \in FilterClasses \cup {"freed"}
    /\ fstage # "idle" => fclass # "freed" /\ (fclass \notin Generators => fpacket0 # NoBuffer)
    /\ fstage \in {"queued", "running", "done"} => fclass # "grey2mask"

(* The sizes of a generator are legal in the object, in the messages still  *)
(* to be applied and in what the thread has read of them.                   *)
LegalSides == {n \in Nat : n > 0 /\ n % 8 = 0}
GeneratorWrites == ({"width", "height"} \X LegalSides) \cup ({"type"} \X {"yv12", "grey", "rgb"})
                   \cup ({"turbulence", "value", "chanmask"} \X Int)
Sized ==
    /\ fsample = [width |-> fsample.width, height |-> fsample.height]
    /\ fclass \in Generators =>
        /\ fwrites \in Seq(GeneratorWrites)
        /\ "width" \in DOMAIN fparam /\ "height" \in DOMAIN fparam
        /\ fparam["width"] \in LegalSides /\ fparam["height"] \in LegalSides
        /\ fstage \in {"running", "done"} => fsample.width \in LegalSides
        /\ fstage = "done" => fsample.height \in LegalSides

(* The channels of the last routine calls. *)
Asked ==
    /\ fworked # <<>> /\ fclass \notin {"noise", "plasma"} => fworked[1][1] = fworked[1][2]
    /\ Len(fworked) = 2 =>
          fworked[2][1] = IF fclass = "constant" THEN -1 - fworked[1][1] ELSE fworked[1][1]

FilterInv == FilterTypes /\ Owners /\ Stages /\ Sized /\ Asked

(* The packets of the thread belong together from the preprocessing on.     *)
(* This needs a pool that always has the packets asked for.                 *)
Together ==
    /\ \A p, q \in fshared : p = q
    /\ fclass # "bqt" => fpacket2 = NoBuffer
    /\ fclass = "bqt" =>
        /\ fpacket1 = NoBuffer <=> fpacket2 = NoBuffer
        /\ fpacket1 # NoBuffer => fpacket1 # fpacket2 /\ fkind[fpacket1] = fkind[fpacket2]
        /\ fstage # "idle" => fpacket0 # fpacket1 /\ fpacket0 # fpacket2
        /\ fstage \in {"queued", "running", "done"} => fpacket1 # NoBuffer /\ fkind[fpacket1] = fkind[fpacket0]
    /\ fclass \in {"zoom", "scale"} /\ fstage \in {"queued", "running", "done"} =>
        fpacket0 # fpacket1 /\ fpacket1 # NoBuffer

-----------------------------------------------------------------------------
(* The packet the pool gives. *)
LEMMA LowestIn ==
    ASSUME NEW S \in SUBSET Nat, S # {}
    PROVE  Lowest(S) \in S
<1>1. \E p \in S : \A q \in S : p <= q  BY Smallest
<1>. QED  BY <1>1 DEF Lowest

LEMMA NthIsFree ==
    ASSUME NEW n \in {1, 2}, NEW p \in Nth(n)
    PROVE  p = NoBuffer \/ (p \in Buffers /\ fusers[p] = 0)
<1> DEFINE first == Lowest(FreeBuffers)
<1>1. FreeBuffers \in SUBSET Nat /\ FreeBuffers \ {first} \in SUBSET Nat
  BY FilterAssumption DEF FreeBuffers, Buffers
<1>2. first = NoBuffer \/ first \in FreeBuffers
  <2>1. CASE FreeBuffers = {}  BY <2>1 DEF Lowest
  <2>2. CASE FreeBuffers # {}  BY <2>2, <1>1, LowestIn
  <2>. QED  BY <2>1, <2>2
<1>3. Lowest(FreeBuffers \ {first}) = NoBuffer \/ Lowest(FreeBuffers \ {first}) \in FreeBuffers \ {first}
  <2>1. CASE FreeBuffers \ {first} = {}  BY <2>1 DEF Lowest
  <2>2. CASE FreeBuffers \ {first} # {}  BY <2>2, <1>1, LowestIn
  <2>. QED  BY <2>1, <2>2
<1> HIDE DEF first
<1>4. p = first \/ p = Lowest(FreeBuffers \ {first}) \/ p = NoBuffer
  BY DEF Nth, first
<1>. QED  BY <1>2, <1>3, <1>4 DEF FreeBuffers

LEMMA NthDiffer ==
    ASSUME NEW p \in Nth(1), NEW q \in Nth(2), p = q
    PROVE  p = NoBuffer
<1> DEFINE first == Lowest(FreeBuffers)
<1>1. FreeBuffers \ {first} \in SUBSET Nat
  BY FilterAssumption DEF FreeBuffers, Buffers
<1>3. Lowest(FreeBuffers \ {first}) = NoBuffer \/ Lowest(FreeBuffers \ {first}) \in FreeBuffers \ {first}
  <2>1. CASE FreeBuffers \ {first} = {}  BY <2>1 DEF Lowest
  <2>2. CASE FreeBuffers \ {first} # {}  BY <2>2, <1>1, LowestIn
  <2>. QED  BY <2>1, <2>2
<1>4. p = first \/ p = NoBuffer  BY DEF Nth
<1>5. q = Lowest(FreeBuffers \ {first}) \/ q = NoBuffer  BY DEF Nth
<1> HIDE DEF first
<1>. QED  BY <1>3, <1>4, <1>5

(* A pool with two free packets that may not refuse gives them. *)
LEMMA NthGiven ==
    ASSUME ~AllocFails, NEW a \in FreeBuffers, NEW b \in FreeBuffers, a # b,
           NEW n \in {1, 2}, NEW p \in Nth(n)
    PROVE  p \in Buffers
<1> DEFINE first == Lowest(FreeBuffers)
<1>1. FreeBuffers \in SUBSET Nat /\ FreeBuffers \ {first} \in SUBSET Nat
  BY FilterAssumption DEF FreeBuffers, Buffers
<1>2. FreeBuffers # {} /\ FreeBuffers \ {first} # {}  OBVIOUS
<1>3. first \in FreeBuffers /\ Lowest(FreeBuffers \ {first}) \in FreeBuffers \ {first}
  BY <1>1, <1>2, LowestIn
<1> HIDE DEF first
<1>4. p = first \/ p = Lowest(FreeBuffers \ {first})
  BY DEF Nth, first
<1>. QED  BY <1>3, <1>4 DEF FreeBuffers

(* The count of the property is that of the names. *)
LEMMA NamesCounted ==
    ASSUME NEW a, NEW b, NEW c, NEW p
    PROVE  Cardinality({i \in 1..3 : <<a, b, c>>[i] = p}) = Names(a, p) + Names(b, p) + Names(c, p)
<1> DEFINE S == {i \in 1..3 : <<a, b, c>>[i] = p}
<1>0. 1..3 = {1, 2, 3}  OBVIOUS
<1> DEFINE A == IF a = p THEN {} \cup {1} ELSE {}
<1> DEFINE B == IF b = p THEN A \cup {2} ELSE A
<1> DEFINE C == IF c = p THEN B \cup {3} ELSE B
<1>1. S = C  BY <1>0
<1>2. IsFiniteSet({}) /\ Cardinality({}) = 0  BY FS_EmptySet
<1>3. IsFiniteSet(A) /\ Cardinality(A) = Names(a, p)
  <2>1. CASE a = p  BY <2>1, <1>2, FS_AddElement DEF Names
  <2>2. CASE a # p  BY <2>2, <1>2 DEF Names
  <2>. QED  BY <2>1, <2>2
<1>3a. Names(a, p) \in {0, 1} /\ Names(b, p) \in {0, 1} /\ 2 \notin A  BY DEF Names
<1> HIDE DEF A
<1>4. IsFiniteSet(B) /\ Cardinality(B) = Names(a, p) + Names(b, p)
  <2>1. CASE b = p  BY <2>1, <1>3, <1>3a, FS_AddElement DEF Names
  <2>2. CASE b # p  BY <2>2, <1>3, <1>3a DEF Names
  <2>. QED  BY <2>1, <2>2
<1>4a. 3 \notin B  BY DEF A
<1> HIDE DEF B
<1>5. Cardinality(C) = Names(a, p) + Names(b, p) + Names(c, p)
  <2>1. CASE c = p  BY <2>1, <1>4, <1>4a, <1>3a, FS_AddElement DEF Names
  <2>2. CASE c # p  BY <2>2, <1>4, <1>3a DEF Names
  <2>. QED  BY <2>1, <2>2
<1>. QED  BY <1>1, <1>5

LEMMA ThreeDiffer ==
    ASSUME NEW a, NEW b, NEW c, a # b, a # c, b # c
    PROVE  Cardinality({a, b, c}) = 3
<1>1. IsFiniteSet({a}) /\ Cardinality({a}) = 1  BY FS_Singleton
<1>2. IsFiniteSet({a} \cup {b}) /\ Cardinality({a} \cup {b}) = 2  BY <1>1, FS_AddElement
<1>3. Cardinality(({a} \cup {b}) \cup {c}) = 3  BY <1>2, FS_AddElement
<1>4. ({a} \cup {b}) \cup {c} = {a, b, c}  OBVIOUS
<1>. QED  BY <1>3, <1>4

(* A packet that nobody refers to has no owner. *)
LEMMA FreeUnowned ==
    ASSUME FilterInv, NEW p \in Buffers, fusers[p] = 0
    PROVE  p \notin {fpacket0, fpacket1, fpacket2} /\ p \notin fshared
BY DEF FilterInv, Owners, Names, Keeps

-----------------------------------------------------------------------------
LEMMA FilterInitInv == FilterInit => FilterInv
<1> SUFFICES ASSUME FilterInit PROVE FilterInv  OBVIOUS
<1>1. FilterTypes  BY FilterAssumption DEF FilterInit, FilterTypes, Buffers, NoBuffer
<1>2. Owners  BY DEF FilterInit, Owners, Names, Keeps, Buffers, NoBuffer
<1>3. Stages  BY DEF FilterInit, Stages, NoBuffer
<1>4. Sized
  <2>1. fsample = [width |-> fsample.width, height |-> fsample.height]
    BY DEF FilterInit, NoSample
  <2>2. ASSUME fclass \in Generators PROVE Constructed[fclass] \in {pdp_noise_new, pdp_plasma_new, pdp_constant_new}
    BY <2>2 DEF Constructed, Generators, FilterClasses
  <2>3. 320 \in LegalSides /\ 240 \in LegalSides  BY DEF LegalSides
  <2>4. ASSUME fclass \in Generators
        PROVE  /\ "width" \in DOMAIN fparam /\ "height" \in DOMAIN fparam
               /\ fparam["width"] \in LegalSides /\ fparam["height"] \in LegalSides
    BY <2>2, <2>3, <2>4 DEF FilterInit, pdp_noise_new, pdp_plasma_new, pdp_constant_new
  <2>. QED  BY <2>1, <2>4 DEF FilterInit, Sized
<1>5. Asked  BY DEF FilterInit, Asked
<1>. QED  BY <1>1, <1>2, <1>3, <1>4, <1>5 DEF FilterInv

-----------------------------------------------------------------------------
(* What a message writes to a generator. *)
LEMMA LegalWidth ==
    ASSUME NEW i \in Int
    PROVE  legalwidth(i) \in LegalSides
<1>1. CASE i > 0
  <2> DEFINE d == (i - 1) \div 8
  <2>1. d \in Nat  BY <1>1
  <2> HIDE DEF d
  <2>2. (d + 1) * 8 \in Nat /\ (d + 1) * 8 > 0 /\ ((d + 1) * 8) % 8 = 0  BY <2>1
  <2>. QED  BY <1>1, <2>2 DEF d, legalwidth, LegalSides
<1>2. CASE ~(i > 0)  BY <1>2 DEF legalwidth, LegalSides
<1>. QED  BY <1>1, <1>2

LEMMA ToIntInt ==
    ASSUME NEW f \in Int
    PROVE  ToInt(f) \in Int
BY FilterAssumption DEF ToInt

LEMMA GeneratorMessages ==
    ASSUME NEW class \in Generators, NEW w \in MessagesOf(class)
    PROVE  w \in Seq(GeneratorWrites)
<1>0. FloatArgs \subseteq Int /\ Unit \in Int  BY FilterAssumption
<1>1. ASSUME NEW f \in Int, NEW g \in Int PROVE pdp_generator_dim(f, g) \in Seq(GeneratorWrites)
  <2>1. legalwidth(ToInt(f)) \in LegalSides /\ legalwidth(ToInt(g)) \in LegalSides
    BY <1>1, ToIntInt, LegalWidth
  <2>. QED  BY <2>1 DEF pdp_generator_dim, GeneratorWrites, Set
<1>2. ASSUME NEW f \in Int PROVE pdp_plasma_turbulence(f) \in Seq(GeneratorWrites)
  BY DEF pdp_plasma_turbulence, GeneratorWrites, Set
<1>3. ASSUME NEW t \in {"grey", "rgb"} PROVE pdp_generator_type(t) \in Seq(GeneratorWrites)
  BY DEF pdp_generator_type, GeneratorWrites, Set
<1>4. ASSUME NEW f \in Int PROVE pdp_constant_value(f) \in Seq(GeneratorWrites)
  <2> DEFINE v == (32767 * Within(f, -Unit, Unit)) \div Unit
  <2>1. v \in Int  BY FilterAssumption DEF Within
  <2> HIDE DEF v
  <2>2. pdp_constant_value(f) = <<<<"value", v>>>>  BY DEF pdp_constant_value, Set, v
  <2>. QED  BY <2>1, <2>2 DEF GeneratorWrites
<1>5. ASSUME NEW f \in Int PROVE pdp_imagebase_chanmask(f) \in Seq(GeneratorWrites)
  BY ToIntInt DEF pdp_imagebase_chanmask, GeneratorWrites, Set
<1>6. CASE class = "noise"
  <2>1. w \in pdp_noise_setup  BY <1>6 DEF MessagesOf
  <2>. QED  BY <2>1, <1>0, <1>1 DEF pdp_noise_setup
<1>7. CASE class = "plasma"
  <2>1. w \in pdp_plasma_setup  BY <1>7 DEF MessagesOf
  <2>. QED  BY <2>1, <1>0, <1>1, <1>2 DEF pdp_plasma_setup
<1>8. CASE class = "constant"
  <2>1. w \in pdp_constant_setup  BY <1>8 DEF MessagesOf
  <2>2. \/ \E t \in {"grey", "rgb"} : w = pdp_generator_type(t)
        \/ \E f \in FloatArgs : w = pdp_constant_value(f) \/ w = pdp_imagebase_chanmask(f)
    BY <2>1 DEF pdp_constant_setup
  <2>. QED  BY <2>2, <1>0, <1>3, <1>4, <1>5
<1>. QED  BY <1>6, <1>7, <1>8 DEF Generators

-----------------------------------------------------------------------------
(* The messages. *)
LEMMA MessageInv == FilterInv /\ FilterMessage => FilterInv'
<1> SUFFICES ASSUME FilterInv, FilterMessage PROVE FilterInv'  OBVIOUS
<1>1. UNCHANGED <<fclass, fparam, fstage, fsample, fpacket0, fpacket1, fpacket2, fusers, fkind, fmask, fshared, fworked>>
  BY DEF FilterMessage, packetVars
<1>2. FilterTypes' /\ Owners' /\ Stages' /\ Asked'
  BY <1>1 DEF FilterInv, FilterTypes, Owners, Names, Keeps, Stages, Asked
<1>3. fclass \in Generators => fwrites' \in Seq(GeneratorWrites)
  BY GeneratorMessages DEF FilterMessage
<1>4. Sized'  BY <1>1, <1>3 DEF FilterInv, Sized
<1>. QED  BY <1>2, <1>4 DEF FilterInv

LEMMA AssignsInv == FilterInv /\ FilterAssigns => FilterInv'
<1> SUFFICES ASSUME FilterInv, FilterAssigns PROVE FilterInv'  OBVIOUS
<1>1. UNCHANGED <<fclass, fstage, fsample, fpacket0, fpacket1, fpacket2, fusers, fkind, fmask, fshared, fworked>>
  BY DEF FilterAssigns, packetVars
<1>2. FilterTypes' /\ Owners' /\ Stages' /\ Asked'
  BY <1>1 DEF FilterInv, FilterTypes, Owners, Names, Keeps, Stages, Asked
<1>3. ASSUME fclass \in Generators
      PROVE  /\ fwrites' \in Seq(GeneratorWrites)
             /\ "width" \in DOMAIN fparam' /\ "height" \in DOMAIN fparam'
             /\ fparam'["width"] \in LegalSides /\ fparam'["height"] \in LegalSides
  <2>1. fwrites \in Seq(GeneratorWrites) /\ fwrites # <<>>  BY <1>3 DEF FilterInv, Sized, FilterAssigns
  <2>2. fwrites[1] \in GeneratorWrites /\ Tail(fwrites) \in Seq(GeneratorWrites)  BY <2>1
  <2>3. fwrites[1][1] \in {"width", "height"} => fwrites[1][2] \in LegalSides
    BY <2>2 DEF GeneratorWrites
  <2>4. "width" \in DOMAIN fparam /\ "height" \in DOMAIN fparam
        /\ fparam["width"] \in LegalSides /\ fparam["height"] \in LegalSides
    BY <1>3 DEF FilterInv, Sized
  <2>5. fparam' = [fparam EXCEPT ![fwrites[1][1]] = fwrites[1][2]] /\ fwrites' = Tail(fwrites)
    BY DEF FilterAssigns
  <2>. QED  BY <2>2, <2>3, <2>4, <2>5
<1>4. Sized'  BY <1>1, <1>3 DEF FilterInv, Sized
<1>. QED  BY <1>2, <1>4 DEF FilterInv

(* Steps of the pd thread that change packets and nothing the thread reads. *)
LEMMA SizedKept ==
    ASSUME FilterInv, fclass' = fclass, fparam' = fparam, fwrites' = fwrites, fsample' = fsample,
           fstage' \notin {"running", "done"}
    PROVE  Sized'
BY DEF FilterInv, Sized

LEMMA AskedKept ==
    ASSUME FilterInv, fclass' = fclass, fworked' = fworked
    PROVE  Asked'
BY DEF FilterInv, Asked

LEMMA AcceptsInv == FilterInv /\ FilterAccepts => FilterInv'
<1> SUFFICES ASSUME FilterInv, FilterAccepts PROVE FilterInv'  OBVIOUS
<1>0. PICK kind \in FilterKinds, shared \in BOOLEAN, p \in Nth(1) :
    /\ fpacket0 = NoBuffer /\ fclass \notin Generators /\ p # NoBuffer /\ fstage = "idle" /\ PdIdle
    /\ fpacket0' = p /\ fkind' = [fkind EXCEPT ![p] = kind]
    /\ fusers' = [fusers EXCEPT ![p] = IF shared THEN 2 ELSE 1]
    /\ fshared' = IF shared THEN fshared \cup {p} ELSE fshared
    /\ fstage' = "preproc"
    /\ UNCHANGED <<fclass, fparam, fwrites, fmsgs, fsample, fpacket1, fpacket2, fmask, fworked>>
  BY Zenon DEF FilterAccepts
<1>1. p \in Buffers /\ fusers[p] = 0  BY <1>0, NthIsFree
<1>2. p \notin {fpacket0, fpacket1, fpacket2} /\ p \notin fshared  BY <1>1, FreeUnowned
<1>3. FilterTypes'
  <2>1. fusers' \in [Buffers -> Int] /\ fshared' \subseteq Buffers  BY <1>0, <1>1 DEF FilterInv, FilterTypes
  <2>2. fkind' = [q \in Buffers |-> fkind'[q]]  BY <1>0 DEF FilterInv, FilterTypes
  <2>. QED  BY <1>0, <1>1, <2>1, <2>2 DEF FilterInv, FilterTypes, Buffers
<1>4. Owners'
  <2> SUFFICES ASSUME NEW q \in Buffers
               PROVE  fusers'[q] = Names(fpacket0', q) + Names(fpacket1', q) + Names(fpacket2', q) + Keeps(q)'
    BY DEF Owners, Buffers
  <2>1. fusers[q] = Names(fpacket0, q) + Names(fpacket1, q) + Names(fpacket2, q) + Keeps(q)
    BY DEF FilterInv, Owners
  <2>2. CASE q = p
    <3>1. fusers'[q] = IF shared THEN 2 ELSE 1  BY <1>0, <1>1, <2>2 DEF FilterInv, FilterTypes
    <3>2. Keeps(q)' = IF shared THEN 1 ELSE 0  BY <1>0, <1>2, <2>2 DEF Keeps
    <3>3. Names(fpacket0', q) = 1 /\ Names(fpacket1', q) = 0 /\ Names(fpacket2', q) = 0
      BY <1>0, <1>2, <2>2 DEF Names
    <3>. QED  BY <3>1, <3>2, <3>3
  <2>3. CASE q # p
    <3>1. fusers'[q] = fusers[q]  BY <1>0, <2>3 DEF FilterInv, FilterTypes
    <3>2. Keeps(q)' = Keeps(q)  BY <1>0, <2>3 DEF Keeps
    <3>3. Names(fpacket0', q) = 0 /\ Names(fpacket0, q) = 0  BY <1>0, <2>3 DEF Names, NoBuffer, Buffers
    <3>. QED  BY <1>0, <2>1, <3>1, <3>2, <3>3
  <2>. QED  BY <2>2, <2>3
<1>5. Stages'  BY <1>0 DEF FilterInv, Stages, PdIdle
<1>6. Sized'  BY <1>0, SizedKept
<1>7. Asked'  BY <1>0, AskedKept
<1>. QED  BY <1>3, <1>4, <1>5, <1>6, <1>7 DEF FilterInv

LEMMA QueuesInv == FilterInv /\ FilterQueues => FilterInv'
<1> SUFFICES ASSUME FilterInv, FilterQueues PROVE FilterInv'  OBVIOUS
<1>0. fstage' = "queued" /\ UNCHANGED <<fclass, fparam, fwrites, fsample, fpacket0, fpacket1, fpacket2, fusers, fkind, fmask, fshared, fworked>>
  BY DEF FilterQueues, packetVars
<1>1. FilterTypes' /\ Owners'  BY <1>0 DEF FilterInv, FilterTypes, Owners, Names, Keeps
<1>2. Stages'  BY <1>0 DEF FilterInv, Stages, FilterQueues, Generators
<1>3. Sized'  BY <1>0, SizedKept
<1>4. Asked'  BY <1>0, AskedKept
<1>. QED  BY <1>1, <1>2, <1>3, <1>4 DEF FilterInv

LEMMA LetsGoInv == FilterInv /\ PatchLetsGo => FilterInv'
<1> SUFFICES ASSUME FilterInv, PatchLetsGo PROVE FilterInv'  OBVIOUS
<1>0. PICK p \in fshared :
    /\ fshared' = fshared \ {p} /\ fusers' = [fusers EXCEPT ![p] = @ - 1] /\ Live
    /\ UNCHANGED <<fclass, fparam, fwrites, fmsgs, fstage, fsample, fpacket0, fpacket1, fpacket2, fmask, fworked>>
  BY DEF PatchLetsGo
<1>1. FilterTypes'  BY <1>0 DEF FilterInv, FilterTypes, Live
<1>2. Owners'
  <2> SUFFICES ASSUME NEW q \in Buffers
               PROVE  fusers'[q] = Names(fpacket0', q) + Names(fpacket1', q) + Names(fpacket2', q) + Keeps(q)'
    BY DEF Owners, Buffers
  <2>1. fusers[q] = Names(fpacket0, q) + Names(fpacket1, q) + Names(fpacket2, q) + Keeps(q)
    BY DEF FilterInv, Owners
  <2>2. fusers'[q] = fusers[q] - Names(p, q) /\ Keeps(q)' = Keeps(q) - Names(p, q)
    BY <1>0 DEF FilterInv, FilterTypes, Names, Keeps
  <2>3. Names(fpacket0, q) \in Int /\ Names(fpacket1, q) \in Int /\ Names(fpacket2, q) \in Int
        /\ Keeps(q) \in Int /\ Names(p, q) \in Int
    BY DEF Names, Keeps
  <2>. QED  BY <1>0, <2>1, <2>2, <2>3
<1>3. Stages'  BY <1>0 DEF FilterInv, Stages
<1>4. Sized'  BY <1>0 DEF FilterInv, Sized
<1>5. Asked'  BY <1>0, AskedKept
<1>. QED  BY <1>1, <1>2, <1>3, <1>4, <1>5 DEF FilterInv

-----------------------------------------------------------------------------
(* References given and taken. *)
LEMMA GetsOne ==
    ASSUME NEW p, NEW q \in Buffers
    PROVE  Gets(p, 1)[q] = Names(p, q) /\ Nothing[q] = 0
BY DEF Gets, Nothing, Names

LEMMA GetsLess ==
    ASSUME NEW p, NEW q \in Buffers
    PROVE  Gets(p, -1)[q] = -Names(p, q)
BY DEF Gets, Names

LEMMA SumAt ==
    ASSUME NEW u, NEW a, NEW b, NEW c, NEW q \in Buffers
    PROVE  Sum3(u, a, b, c)[q] = u[q] + a[q] + b[q] + c[q] /\ DOMAIN Sum3(u, a, b, c) = Buffers
BY DEF Sum3

LEMMA SumType ==
    ASSUME NEW u, NEW a, NEW b, NEW c,
           \A q \in Buffers : u[q] \in Int /\ a[q] \in Int /\ b[q] \in Int /\ c[q] \in Int
    PROVE  Sum3(u, a, b, c) \in [Buffers -> Int]
BY DEF Sum3

LEMMA NamesType ==
    ASSUME NEW a, NEW p
    PROVE  Names(a, p) \in {0, 1} /\ Keeps(p) \in {0, 1}
BY DEF Names, Keeps

LEMMA PassesAt ==
    ASSUME NEW p, NEW keep \in BOOLEAN, NEW q \in Buffers, PassTo(p, keep)
    PROVE  Passes1(p, keep)[q] = Keeps(q)' - Keeps(q) - Names(p, q)
<1>1. Passes1(p, keep)[q] = IF q = p THEN (IF keep /\ p \notin fshared THEN 0 ELSE -1) ELSE 0
  BY DEF Passes1, Gets
<1>2. fshared' = IF keep /\ p # NoBuffer THEN fshared \cup {p} ELSE fshared  BY DEF PassTo
<1>3. q # NoBuffer  BY FilterAssumption DEF Buffers, NoBuffer
<1>. QED  BY <1>1, <1>2, <1>3 DEF Keeps, Names

LEMMA PassTypes ==
    ASSUME FilterInv, NEW p \in 0..NbBuffers, NEW keep \in BOOLEAN, PassTo(p, keep)
    PROVE  fshared' \subseteq Buffers
<1>1. fshared' = IF keep /\ p # NoBuffer THEN fshared \cup {p} ELSE fshared  BY DEF PassTo
<1>2. fshared \subseteq Buffers /\ (p # NoBuffer => p \in Buffers)
  BY FilterAssumption DEF FilterInv, FilterTypes, Buffers, NoBuffer
<1>. QED  BY <1>1, <1>2

LEMMA LiveTypes == Live => fkind' = [p \in Buffers |-> fkind'[p]]
BY DEF Live

-----------------------------------------------------------------------------
(* The preprocessing. *)
LEMMA BqtInv == FilterInv /\ pdp_bqt_preproc => FilterInv'
<1> SUFFICES ASSUME FilterInv, pdp_bqt_preproc PROVE FilterInv'  OBVIOUS
<1>0. fstage' = "queued" /\ fclass = "bqt" /\ fstage = "preproc"
      /\ UNCHANGED <<fclass, fparam, fwrites, fsample, fpacket0, fmask, fshared, fworked>>
  BY DEF pdp_bqt_preproc
<1>2. CASE ~UNCHANGED <<fpacket1, fpacket2, fusers, fkind>>
  <2>1. PICK p \in IF fpacket1 = NoBuffer THEN Nth(1) ELSE {fpacket1} \cup IF AllocFails THEN {NoBuffer} ELSE {},
             q \in IF fpacket2 = NoBuffer THEN Nth(2) ELSE {fpacket2} \cup IF AllocFails THEN {NoBuffer} ELSE {} :
            /\ fpacket1' = p /\ fpacket2' = q
            /\ fusers' = Sum3(fusers, Sum3(Gets(fpacket1, -1), Gets(fpacket2, -1), Nothing, Nothing), Gets(p, 1), Gets(q, 1))
            /\ fkind' = [r \in Buffers |-> IF r \in {p, q} THEN fkind[fpacket0] ELSE fkind[r]]
    BY <1>2, Zenon DEF pdp_bqt_preproc
  <2>2. p \in 0..NbBuffers /\ q \in 0..NbBuffers
    <3>1. fpacket1 \in 0..NbBuffers /\ fpacket2 \in 0..NbBuffers /\ NoBuffer \in 0..NbBuffers
      BY FilterAssumption DEF FilterInv, FilterTypes, NoBuffer
    <3>2. ASSUME NEW n \in {1, 2}, NEW r \in Nth(n) PROVE r \in 0..NbBuffers
      BY <3>1, <3>2, NthIsFree DEF Buffers
    <3>. QED  BY <3>1, <3>2
  <2>3. ASSUME NEW r \in Buffers
        PROVE  /\ fusers'[r] = fusers[r] - Names(fpacket1, r) - Names(fpacket2, r) + Names(p, r) + Names(q, r)
               /\ fusers'[r] \in Int /\ fusers[r] \in Int
    <3>1. fusers[r] \in Int  BY DEF FilterInv, FilterTypes
    <3>2. Names(fpacket1, r) \in {0, 1} /\ Names(fpacket2, r) \in {0, 1} /\ Names(p, r) \in {0, 1} /\ Names(q, r) \in {0, 1}
      BY NamesType
    <3>3. /\ Gets(fpacket1, -1)[r] = -Names(fpacket1, r) /\ Gets(fpacket2, -1)[r] = -Names(fpacket2, r)
          /\ Gets(p, 1)[r] = Names(p, r) /\ Gets(q, 1)[r] = Names(q, r) /\ Nothing[r] = 0
      <4>1. -1 \in Int /\ 1 \in Int  OBVIOUS
      <4>2. Gets(fpacket1, -1)[r] = -Names(fpacket1, r)  BY <4>1, <2>3, GetsLess
      <4>3. Gets(fpacket2, -1)[r] = -Names(fpacket2, r)  BY <4>1, <2>3, GetsLess
      <4>4. Gets(p, 1)[r] = Names(p, r) /\ Nothing[r] = 0  BY <4>1, <2>3, GetsOne
      <4>5. Gets(q, 1)[r] = Names(q, r)  BY <4>1, <2>3, GetsOne
      <4>. QED  BY <4>2, <4>3, <4>4, <4>5
    <3>4. fusers'[r] = fusers[r] + (Gets(fpacket1, -1)[r] + Gets(fpacket2, -1)[r] + Nothing[r] + Nothing[r])
                       + Gets(p, 1)[r] + Gets(q, 1)[r]
      BY <2>1, <2>3, SumAt
    <3>. QED  BY <3>1, <3>2, <3>3, <3>4
  <2>4. DOMAIN fusers' = Buffers /\ fusers' = [r \in Buffers |-> fusers'[r]]  BY <2>1 DEF Sum3
  <2>5. FilterTypes'
    <3>1. fusers' \in [Buffers -> Int]  BY <2>3, <2>4
    <3>2. fkind' = [r \in Buffers |-> fkind'[r]]  BY <2>1
    <3>. QED  BY <1>0, <2>1, <2>2, <3>1, <3>2 DEF FilterInv, FilterTypes
  <2>6. Owners'
    <3> SUFFICES ASSUME NEW r \in Buffers
                 PROVE  fusers'[r] = Names(fpacket0', r) + Names(fpacket1', r) + Names(fpacket2', r) + Keeps(r)'
      BY DEF Owners, Buffers
    <3>1. fusers[r] = Names(fpacket0, r) + Names(fpacket1, r) + Names(fpacket2, r) + Keeps(r)
      BY DEF FilterInv, Owners
    <3>2. Keeps(r)' = Keeps(r)  BY <1>0 DEF Keeps
    <3>3. Names(fpacket0, r) \in {0, 1} /\ Names(fpacket1, r) \in {0, 1} /\ Names(fpacket2, r) \in {0, 1}
          /\ Names(p, r) \in {0, 1} /\ Names(q, r) \in {0, 1} /\ Keeps(r) \in {0, 1}
      BY NamesType
    <3>. QED  BY <1>0, <2>1, <2>3, <3>1, <3>2, <3>3
  <2>7. Stages'  BY <1>0 DEF FilterInv, Stages, Generators
  <2>. QED  BY <1>0, <2>5, <2>6, <2>7, SizedKept, AskedKept DEF FilterInv
<1>3. CASE UNCHANGED <<fpacket1, fpacket2, fusers, fkind>>
  <2>1. Stages'  BY <1>0 DEF FilterInv, Stages, Generators
  <2>2. FilterTypes' /\ Owners'  BY <1>0, <1>3 DEF FilterInv, FilterTypes, Owners, Names, Keeps
  <2>. QED  BY <1>0, <2>1, <2>2, SizedKept, AskedKept DEF FilterInv
<1>. QED  BY <1>2, <1>3

(* A new packet in the second field, which is empty. *)
LEMMA SecondFilled ==
    ASSUME FilterInv, fpacket1 = NoBuffer, NEW p \in Nth(1), fpacket1' = p,
           fusers' = Sum3(fusers, Gets(p, 1), Nothing, Nothing),
           UNCHANGED <<fpacket0, fpacket2, fshared>>
    PROVE  Owners' /\ fusers' \in [Buffers -> Int] /\ p \in 0..NbBuffers
<1>1. p \in 0..NbBuffers  BY NthIsFree, FilterAssumption DEF Buffers, NoBuffer
<1>2. ASSUME NEW r \in Buffers
      PROVE  fusers'[r] = fusers[r] + Names(p, r) /\ fusers[r] \in Int /\ fusers'[r] \in Int
  <2>1. Gets(p, 1)[r] = Names(p, r) /\ Nothing[r] = 0  BY <1>2, GetsOne
  <2>2. fusers'[r] = fusers[r] + Gets(p, 1)[r] + Nothing[r] + Nothing[r]  BY <1>2, SumAt
  <2>. QED  BY <1>2, <2>1, <2>2, NamesType DEF FilterInv, FilterTypes
<1>3. fusers' = [r \in Buffers |-> fusers'[r]]  BY DEF Sum3
<1>4. Owners'
  <2> SUFFICES ASSUME NEW r \in Buffers
               PROVE  fusers'[r] = Names(fpacket0', r) + Names(fpacket1', r) + Names(fpacket2', r) + Keeps(r)'
    BY DEF Owners, Buffers
  <2>1. fusers[r] = Names(fpacket0, r) + Names(fpacket1, r) + Names(fpacket2, r) + Keeps(r)
    BY DEF FilterInv, Owners
  <2>2. Names(fpacket1, r) = 0  BY FilterAssumption DEF Names, NoBuffer, Buffers
  <2>3. Keeps(r)' = Keeps(r)  BY DEF Keeps
  <2>4. Names(fpacket0, r) \in {0, 1} /\ Names(fpacket2, r) \in {0, 1} /\ Names(p, r) \in {0, 1} /\ Keeps(r) \in {0, 1}
    BY NamesType
  <2>. QED  BY <1>2, <2>1, <2>2, <2>3, <2>4
<1>. QED  BY <1>1, <1>2, <1>3, <1>4

LEMMA ZoomInv == FilterInv /\ pdp_zoom_preproc => FilterInv'
<1> SUFFICES ASSUME FilterInv, pdp_zoom_preproc PROVE FilterInv'  OBVIOUS
<1>0. fstage' = "queued" /\ fclass = "zoom" /\ fstage = "preproc"
      /\ UNCHANGED <<fclass, fparam, fwrites, fsample, fpacket0, fpacket2, fmask, fshared, fworked>>
  BY DEF pdp_zoom_preproc
<1>1. PICK p \in Nth(1) : /\ fpacket1' = p /\ fusers' = Sum3(fusers, Gets(p, 1), Nothing, Nothing)
                          /\ fkind' = IF p = NoBuffer THEN fkind ELSE [fkind EXCEPT ![p] = fkind[fpacket0]]
  BY DEF pdp_zoom_preproc
<1>2. fpacket1 = NoBuffer  BY <1>0 DEF FilterInv, Stages
<1>3. Owners' /\ fusers' \in [Buffers -> Int] /\ p \in 0..NbBuffers  BY <1>0, <1>1, <1>2, SecondFilled
<1>4. FilterTypes'
  <2>1. fkind' = [r \in Buffers |-> fkind'[r]]  BY <1>1 DEF FilterInv, FilterTypes
  <2>. QED  BY <1>0, <1>1, <1>3, <2>1 DEF FilterInv, FilterTypes
<1>5. Stages'  BY <1>0 DEF FilterInv, Stages, Generators
<1>. QED  BY <1>0, <1>3, <1>4, <1>5, SizedKept, AskedKept DEF FilterInv

-----------------------------------------------------------------------------
(* A packet leaves the object, and another one may go with it: what the     *)
(* fields lose the patch gets or nobody.                                    *)
LEMMA ScaleInv == FilterInv /\ pdp_scale_process => FilterInv'
<1> SUFFICES ASSUME FilterInv, pdp_scale_process PROVE FilterInv'  OBVIOUS
<1>0. fclass = "scale" /\ fstage = "preproc" /\ UNCHANGED <<fclass, fparam, fwrites, fsample, fpacket2, fmask, fworked>>
  BY DEF pdp_scale_process
<1>1. CASE \E keep \in BOOLEAN :
          /\ PassTo(fpacket0, keep) /\ fusers' = Sum3(fusers, Passes1(fpacket0, keep), Nothing, Nothing)
          /\ fpacket0' = NoBuffer /\ fstage' = "idle" /\ Live /\ UNCHANGED fpacket1
  <2>1. PICK keep \in BOOLEAN :
          /\ PassTo(fpacket0, keep) /\ fusers' = Sum3(fusers, Passes1(fpacket0, keep), Nothing, Nothing)
          /\ fpacket0' = NoBuffer /\ fstage' = "idle" /\ Live /\ UNCHANGED fpacket1
    BY <1>1
  <2>2. ASSUME NEW r \in Buffers
        PROVE  /\ fusers'[r] = Names(fpacket0', r) + Names(fpacket1', r) + Names(fpacket2', r) + Keeps(r)'
               /\ fusers'[r] \in Int
    <3>1. Passes1(fpacket0, keep)[r] = Keeps(r)' - Keeps(r) - Names(fpacket0, r)  BY <2>1, <2>2, PassesAt
    <3>2. Nothing[r] = 0  BY <2>2, GetsOne
    <3>3. fusers'[r] = fusers[r] + Passes1(fpacket0, keep)[r] + Nothing[r] + Nothing[r]  BY <2>1, <2>2, SumAt
    <3>4. fusers[r] = Names(fpacket0, r) + Names(fpacket1, r) + Names(fpacket2, r) + Keeps(r)
      BY <2>2 DEF FilterInv, Owners
    <3>5. Names(fpacket0', r) = 0  BY <2>1, <2>2, FilterAssumption DEF Names, NoBuffer, Buffers
    <3>6. Keeps(r)' \in {0, 1}  BY DEF Keeps
    <3>. QED  BY <1>0, <2>1, <3>1, <3>2, <3>3, <3>4, <3>5, <3>6, NamesType
  <2>3. fusers' = [r \in Buffers |-> fusers'[r]]  BY <2>1 DEF Sum3
  <2>4. FilterTypes'
    <3>1. fusers' \in [Buffers -> Int]  BY <2>2, <2>3
    <3>2. fshared' \subseteq Buffers  BY <2>1, PassTypes DEF FilterInv, FilterTypes
    <3>3. fkind' = [r \in Buffers |-> fkind'[r]]  BY <2>1, LiveTypes
    <3>. QED  BY <1>0, <2>1, <3>1, <3>2, <3>3, FilterAssumption DEF FilterInv, FilterTypes, NoBuffer
  <2>5. Owners'  BY <2>2 DEF Owners, Buffers
  <2>6. Stages'  BY <1>0, <2>1 DEF FilterInv, Stages, Generators
  <2>. QED  BY <1>0, <2>1, <2>4, <2>5, <2>6, SizedKept, AskedKept DEF FilterInv
<1>2. CASE /\ \E p \in Nth(1) : /\ fpacket1' = p /\ fusers' = Sum3(fusers, Gets(p, 1), Nothing, Nothing)
                                /\ fkind' = IF p = NoBuffer THEN fkind ELSE [fkind EXCEPT ![p] = "scaled"]
                                /\ fstage' = IF p = NoBuffer THEN "idle" ELSE "queued"
           /\ UNCHANGED <<fpacket0, fshared>>
  <2>1. PICK p \in Nth(1) : /\ fpacket1' = p /\ fusers' = Sum3(fusers, Gets(p, 1), Nothing, Nothing)
                            /\ fkind' = IF p = NoBuffer THEN fkind ELSE [fkind EXCEPT ![p] = "scaled"]
                            /\ fstage' = IF p = NoBuffer THEN "idle" ELSE "queued"
    BY <1>2
  <2>2. fpacket1 = NoBuffer  BY <1>0 DEF FilterInv, Stages
  <2>3. Owners' /\ fusers' \in [Buffers -> Int] /\ p \in 0..NbBuffers  BY <1>0, <1>2, <2>1, <2>2, SecondFilled
  <2>4. FilterTypes'
    <3>1. fkind' = [r \in Buffers |-> fkind'[r]]  BY <2>1 DEF FilterInv, FilterTypes
    <3>. QED  BY <1>0, <1>2, <2>1, <2>3, <3>1 DEF FilterInv, FilterTypes
  <2>5. Stages'  BY <1>0, <1>2, <2>1 DEF FilterInv, Stages, Generators
  <2>6. Sized'  BY <1>0, <2>1, SizedKept
  <2>. QED  BY <1>0, <2>3, <2>4, <2>5, <2>6, AskedKept DEF FilterInv
<1>3. CASE fstage' = "idle" /\ UNCHANGED <<fpacket0, fpacket1, fusers, fkind, fshared>>
  <2>1. Stages'  BY <1>0, <1>3 DEF FilterInv, Stages, Generators
  <2>2. FilterTypes' /\ Owners'  BY <1>0, <1>3 DEF FilterInv, FilterTypes, Owners, Names, Keeps
  <2>. QED  BY <1>0, <1>3, <2>1, <2>2, SizedKept, AskedKept DEF FilterInv
<1>. QED  BY <1>1, <1>2, <1>3 DEF pdp_scale_process

LEMMA GreyInv == FilterInv /\ pdp_grey2mask_process => FilterInv'
<1> SUFFICES ASSUME FilterInv, pdp_grey2mask_process PROVE FilterInv'  OBVIOUS
<1>0. /\ fclass = "grey2mask" /\ fstage = "preproc" /\ fpacket0' = NoBuffer /\ fstage' = "idle" /\ Live
      /\ UNCHANGED <<fclass, fparam, fwrites, fsample, fpacket1, fpacket2, fmask, fworked>>
  BY DEF pdp_grey2mask_process
<1>1. PICK p \in IF fkind[fpacket0] = "other" THEN {fpacket0} ELSE Nth(1), keep \in BOOLEAN :
        /\ PassTo(p, keep)
        /\ fusers' = IF p = fpacket0 THEN Sum3(fusers, Passes1(p, keep), Nothing, Nothing)
                     ELSE Sum3(fusers, Gets(fpacket0, -1), Gets(p, 1), Passes1(p, keep))
  BY Zenon DEF pdp_grey2mask_process
<1>2. p \in 0..NbBuffers
  <2>1. CASE p = fpacket0  BY <2>1 DEF FilterInv, FilterTypes
  <2>2. CASE p \in Nth(1)  BY <2>2, NthIsFree, FilterAssumption DEF Buffers, NoBuffer
  <2>. QED  BY <1>1, <2>1, <2>2
<1>3. ASSUME NEW r \in Buffers
      PROVE  /\ fusers'[r] = Names(fpacket0', r) + Names(fpacket1', r) + Names(fpacket2', r) + Keeps(r)'
             /\ fusers'[r] \in Int
  <2>1. Passes1(p, keep)[r] = Keeps(r)' - Keeps(r) - Names(p, r)  BY <1>1, <1>3, PassesAt
  <2>2. -1 \in Int /\ 1 \in Int  OBVIOUS
  <2>3. Gets(fpacket0, -1)[r] = -Names(fpacket0, r) /\ Nothing[r] = 0  BY <1>3, <2>2, GetsOne, GetsLess
  <2>4. Gets(p, 1)[r] = Names(p, r)  BY <1>3, <2>2, GetsOne
  <2>5. fusers[r] = Names(fpacket0, r) + Names(fpacket1, r) + Names(fpacket2, r) + Keeps(r)
    BY <1>3 DEF FilterInv, Owners
  <2>6. Names(fpacket0', r) = 0  BY <1>0, <1>3, FilterAssumption DEF Names, NoBuffer, Buffers
  <2>7. Keeps(r)' \in {0, 1} /\ Keeps(r) \in {0, 1} /\ Names(fpacket0, r) \in {0, 1} /\ Names(p, r) \in {0, 1}
        /\ Names(fpacket1, r) \in {0, 1} /\ Names(fpacket2, r) \in {0, 1}
    BY DEF Keeps, Names
  <2>8. CASE p = fpacket0
    <3>1. fusers'[r] = fusers[r] + Passes1(p, keep)[r] + Nothing[r] + Nothing[r]  BY <1>1, <1>3, <2>8, SumAt
    <3>. QED  BY <1>0, <2>1, <2>3, <2>5, <2>6, <2>7, <2>8, <3>1
  <2>9. CASE p # fpacket0
    <3>1. fusers'[r] = fusers[r] + Gets(fpacket0, -1)[r] + Gets(p, 1)[r] + Passes1(p, keep)[r]  BY <1>1, <1>3, <2>9, SumAt
    <3>. QED  BY <1>0, <2>1, <2>3, <2>4, <2>5, <2>6, <2>7, <3>1
  <2>. QED  BY <2>8, <2>9
<1>4. fusers' = [r \in Buffers |-> fusers'[r]]  BY <1>1 DEF Sum3
<1>5. FilterTypes'
  <2>1. fusers' \in [Buffers -> Int]  BY <1>3, <1>4
  <2>2. fshared' \subseteq Buffers  BY <1>1, <1>2, PassTypes
  <2>3. fkind' = [r \in Buffers |-> fkind'[r]]  BY <1>0, LiveTypes
  <2>. QED  BY <1>0, <2>1, <2>2, <2>3, FilterAssumption DEF FilterInv, FilterTypes, NoBuffer
<1>6. Owners'  BY <1>3 DEF Owners, Buffers
<1>7. Stages'  BY <1>0 DEF FilterInv, Stages, Generators
<1>. QED  BY <1>0, <1>5, <1>6, <1>7, SizedKept, AskedKept DEF FilterInv

(* The callback. *)
LEMMA PostsInv == FilterInv /\ FilterPosts => FilterInv'
<1> SUFFICES ASSUME FilterInv, FilterPosts PROVE FilterInv'  OBVIOUS
<1> DEFINE made == fclass \in {"zoom", "scale"}
           out == IF made THEN fpacket1 ELSE fpacket0
<1>0. PICK keep \in BOOLEAN :
    /\ fstage = "done" /\ fstage' = "idle"
    /\ PassTo(out, keep)
    /\ fusers' = Sum3(fusers, Passes1(out, keep), IF made THEN Gets(fpacket0, -1) ELSE Nothing, Nothing)
    /\ fpacket0' = NoBuffer /\ fpacket1' = (IF made THEN NoBuffer ELSE fpacket1)
    /\ fsample' = NoSample /\ fworked' = <<>> /\ Live
    /\ UNCHANGED <<fclass, fparam, fwrites, fmsgs, fpacket2, fmask>>
  BY Zenon DEF FilterPosts
<1>1. out \in 0..NbBuffers  BY DEF FilterInv, FilterTypes
<1> HIDE DEF out
<1>3. ASSUME NEW r \in Buffers
      PROVE  /\ fusers'[r] = Names(fpacket0', r) + Names(fpacket1', r) + Names(fpacket2', r) + Keeps(r)'
             /\ fusers'[r] \in Int
  <2>1. Passes1(out, keep)[r] = Keeps(r)' - Keeps(r) - Names(out, r)  BY <1>0, <1>3, PassesAt
  <2>2. -1 \in Int /\ 1 \in Int  OBVIOUS
  <2>3. Gets(fpacket0, -1)[r] = -Names(fpacket0, r) /\ Nothing[r] = 0  BY <1>3, <2>2, GetsOne, GetsLess
  <2>5. fusers[r] = Names(fpacket0, r) + Names(fpacket1, r) + Names(fpacket2, r) + Keeps(r)
    BY <1>3 DEF FilterInv, Owners
  <2>6. Names(NoBuffer, r) = 0  BY <1>3, FilterAssumption DEF Names, NoBuffer, Buffers
  <2>7. Keeps(r)' \in {0, 1} /\ Keeps(r) \in {0, 1} /\ Names(fpacket0, r) \in {0, 1}
        /\ Names(fpacket1, r) \in {0, 1} /\ Names(fpacket2, r) \in {0, 1}
    BY DEF Keeps, Names
  <2>8. CASE made
    <3>1. fusers'[r] = fusers[r] + Passes1(out, keep)[r] + Gets(fpacket0, -1)[r] + Nothing[r]  BY <1>0, <1>3, <2>8, SumAt
    <3>2. out = fpacket1  BY <2>8 DEF out
    <3>. QED  BY <1>0, <2>1, <2>3, <2>5, <2>6, <2>7, <2>8, <3>1, <3>2
  <2>9. CASE ~made
    <3>1. fusers'[r] = fusers[r] + Passes1(out, keep)[r] + Nothing[r] + Nothing[r]  BY <1>0, <1>3, <2>9, SumAt
    <3>2. out = fpacket0  BY <2>9 DEF out
    <3>. QED  BY <1>0, <2>1, <2>3, <2>5, <2>6, <2>7, <2>9, <3>1, <3>2
  <2>. QED  BY <2>8, <2>9
<1>4. fusers' = [r \in Buffers |-> fusers'[r]]  BY <1>0 DEF Sum3
<1>5. FilterTypes'
  <2>1. fusers' \in [Buffers -> Int]  BY <1>3, <1>4
  <2>2. fshared' \subseteq Buffers  BY <1>0, <1>1, PassTypes
  <2>3. fkind' = [r \in Buffers |-> fkind'[r]]  BY <1>0, LiveTypes
  <2>4. fpacket1' \in 0..NbBuffers /\ fpacket0' \in 0..NbBuffers
    BY <1>0, FilterAssumption DEF FilterInv, FilterTypes, NoBuffer
  <2>. QED  BY <1>0, <2>1, <2>2, <2>3, <2>4 DEF FilterInv, FilterTypes
<1>6. Owners'  BY <1>3 DEF Owners, Buffers
<1>7. Stages'  BY <1>0 DEF FilterInv, Stages, Generators
<1>8. Sized'  BY <1>0 DEF FilterInv, Sized, NoSample
<1>9. Asked'  BY <1>0 DEF Asked
<1>. QED  BY <1>5, <1>6, <1>7, <1>8, <1>9 DEF FilterInv

LEMMA FreeInv == FilterInv /\ FilterFree => FilterInv'
<1> SUFFICES ASSUME FilterInv, FilterFree PROVE FilterInv'  OBVIOUS
<1>0. /\ fusers' = Sum3(fusers, Gets(fpacket0, -1), Gets(fpacket1, -1), Gets(fpacket2, -1))
      /\ fpacket0' = NoBuffer /\ fpacket1' = NoBuffer /\ fpacket2' = NoBuffer
      /\ fclass' = "freed" /\ fstage' = "idle"
      /\ fsample' = NoSample /\ fworked' = <<>> /\ Live
      /\ UNCHANGED <<fmask, fshared>>
  BY DEF FilterFree
<1>3. ASSUME NEW r \in Buffers
      PROVE  /\ fusers'[r] = Names(fpacket0', r) + Names(fpacket1', r) + Names(fpacket2', r) + Keeps(r)'
             /\ fusers'[r] \in Int
  <2>2. -1 \in Int  OBVIOUS
  <2>3. Gets(fpacket0, -1)[r] = -Names(fpacket0, r)  BY <1>3, <2>2, GetsLess
  <2>4. Gets(fpacket1, -1)[r] = -Names(fpacket1, r)  BY <1>3, <2>2, GetsLess
  <2>4a. Gets(fpacket2, -1)[r] = -Names(fpacket2, r)  BY <1>3, <2>2, GetsLess
  <2>5. fusers[r] = Names(fpacket0, r) + Names(fpacket1, r) + Names(fpacket2, r) + Keeps(r)
    BY <1>3 DEF FilterInv, Owners
  <2>6. Names(NoBuffer, r) = 0 /\ Keeps(r)' = Keeps(r)  BY <1>0, <1>3, FilterAssumption DEF Names, NoBuffer, Buffers, Keeps
  <2>7. Keeps(r) \in {0, 1} /\ Names(fpacket0, r) \in {0, 1}
        /\ Names(fpacket1, r) \in {0, 1} /\ Names(fpacket2, r) \in {0, 1}
    BY DEF Keeps, Names
  <2>8. fusers'[r] = fusers[r] + Gets(fpacket0, -1)[r] + Gets(fpacket1, -1)[r] + Gets(fpacket2, -1)[r]
    BY <1>0, <1>3, SumAt
  <2>. QED  BY <1>0, <2>3, <2>4, <2>4a, <2>5, <2>6, <2>7, <2>8
<1>4. fusers' = [r \in Buffers |-> fusers'[r]]  BY <1>0 DEF Sum3
<1>5. FilterTypes'
  <2>1. fusers' \in [Buffers -> Int]  BY <1>3, <1>4
  <2>3. fkind' = [r \in Buffers |-> fkind'[r]]  BY <1>0, LiveTypes
  <2>. QED  BY <1>0, <2>1, <2>3, FilterAssumption DEF FilterInv, FilterTypes, NoBuffer
<1>6. Owners'  BY <1>3 DEF Owners, Buffers
<1>7. Stages'  BY <1>0 DEF FilterInv, Stages, Generators
<1>8. Sized'  BY <1>0 DEF Sized, NoSample, Generators
<1>9. Asked'  BY <1>0 DEF Asked
<1>. QED  BY <1>5, <1>6, <1>7, <1>8, <1>9 DEF FilterInv

-----------------------------------------------------------------------------
(* The thread. *)
LEMMA BeginsInv == FilterInv /\ ThreadBegins => FilterInv'
<1> SUFFICES ASSUME FilterInv, ThreadBegins PROVE FilterInv'  OBVIOUS
<1>0. /\ fstage = "queued" /\ fstage' = "running"
      /\ fsample' = [fsample EXCEPT !.width = IF fclass \in Generators THEN fparam["width"] ELSE 0]
      /\ UNCHANGED <<fclass, fparam, fwrites, fpacket0, fpacket1, fpacket2, fusers, fkind, fmask, fshared, fworked>>
  BY DEF ThreadBegins, packetVars
<1>1. FilterTypes' /\ Owners'  BY <1>0 DEF FilterInv, FilterTypes, Owners, Names, Keeps
<1>2. Stages'  BY <1>0 DEF FilterInv, Stages
<1>3. Sized'
  <2>1. fsample = [width |-> fsample.width, height |-> fsample.height]  BY DEF FilterInv, Sized
  <2>2. fsample' = [width |-> fsample'.width, height |-> fsample'.height]
        /\ fsample'.width = IF fclass \in Generators THEN fparam["width"] ELSE 0
    BY <1>0, <2>1
  <2>. QED  BY <1>0, <2>2 DEF FilterInv, Sized
<1>4. Asked'  BY <1>0, AskedKept
<1>. QED  BY <1>1, <1>2, <1>3, <1>4 DEF FilterInv

LEMMA DirectInv == FilterInv /\ DirectProcess => FilterInv'
<1> SUFFICES ASSUME FilterInv, DirectProcess PROVE FilterInv'  OBVIOUS
<1>0. /\ fclass \in {"scale", "chrot"} /\ fstage = "running" /\ fstage' = "done"
      /\ UNCHANGED <<fclass, fparam, fwrites, fsample, fpacket0, fpacket1, fpacket2, fusers, fkind, fmask, fshared, fworked>>
  BY DEF DirectProcess, packetVars
<1>1. FilterTypes' /\ Owners'  BY <1>0 DEF FilterInv, FilterTypes, Owners, Names, Keeps
<1>2. Stages'  BY <1>0 DEF FilterInv, Stages
<1>3. Sized'  BY <1>0 DEF FilterInv, Sized, Generators
<1>4. Asked'  BY <1>0, AskedKept
<1>. QED  BY <1>1, <1>2, <1>3, <1>4 DEF FilterInv

(* The routines that a process method dispatches, and their channels. *)
LEMMA CallsShape ==
    ASSUME fclass \in FilterClasses \ {"scale", "chrot", "grey2mask"}
    PROVE  \/ /\ Len(Calls) = 1
              /\ fclass \notin {"noise", "plasma"} => Calls[1][2] = IF fclass = "gain" THEN 0 ELSE Mask
           \/ Len(Calls) = 0
           \/ /\ Len(Calls) = 2 /\ fclass \in {"conv", "constant"} /\ Calls[1][2] = Mask
              /\ Calls[2][2] = IF fclass = "constant" THEN -1 - Mask ELSE Mask
<1>1. CASE fclass = "conv"
  <2> DEFINE S == {"conv_ver", "conv_hor"} \X {Mask}
             v == IF fparam["ver"] THEN <<<<"conv_ver", Mask>>>> ELSE <<>>
             h == IF fparam["hor"] THEN <<<<"conv_hor", Mask>>>> ELSE <<>>
  <2>1. Calls = v \o h  BY <1>1 DEF Calls, pdp_conv_process
  <2>2. v \in Seq(S) /\ (v = <<>> \/ v = <<<<"conv_ver", Mask>>>>)  OBVIOUS
  <2>3. h \in Seq(S) /\ (h = <<>> \/ h = <<<<"conv_hor", Mask>>>>)  OBVIOUS
  <2> HIDE DEF v, h
  <2>4. \A e \in S : e[2] = Mask  OBVIOUS
  <2> HIDE DEF S
  <2>5. Calls \in Seq(S) /\ Len(Calls) = Len(v) + Len(h) /\ Len(v) \in {0, 1} /\ Len(h) \in {0, 1}
    BY <2>1, <2>2, <2>3
  <2>6. \A i \in 1..Len(Calls) : Calls[i][2] = Mask  BY <2>4, <2>5
  <2>7. Len(Calls) \in {0, 1, 2}
    <3> DEFINE k == Len(v)  l == Len(h)
    <3>1. Len(Calls) = k + l /\ k \in {0, 1} /\ l \in {0, 1}  BY <2>5
    <3> HIDE DEF k, l
    <3>. QED  BY <3>1
  <2>8. CASE Len(Calls) = 0  BY <2>8
  <2>9. CASE Len(Calls) = 1  BY <1>1, <2>6, <2>9
  <2>10. CASE Len(Calls) = 2  BY <1>1, <2>6, <2>10
  <2>. QED  BY <2>7, <2>8, <2>9, <2>10
<1>2. CASE fclass = "constant"
  BY <1>2 DEF Calls, pdp_constant_process
<1>3. CASE fclass \in {"noise", "plasma"}
  BY <1>3 DEF Calls, pdp_noise_process, pdp_plasma_process
<1>4. CASE fclass = "gain"
  BY <1>4 DEF Calls, pdp_gain_process
<1>5. CASE fclass \notin {"conv", "constant", "noise", "plasma", "gain"}
  BY <1>5 DEF Calls, FilterClasses, pdp_mix_process, pdp_randmix_process, pdp_logic_process, pdp_bqt_process,
              pdp_bq_process, pdp_cheby_process, pdp_zoom_process, pdp_add_process, pdp_mul_process, pdp_stateless_process
<1>. QED  BY <1>1, <1>2, <1>3, <1>4, <1>5

LEMMA DispatchAsked ==
    ASSUME FilterInv, fclass \in FilterClasses \ {"scale", "chrot", "grey2mask"}, fclass' = fclass,
           NEW p, NEW mask, mask = (IF fclass = "gain" THEN Mask ELSE 0), Dispatches(p, mask, Calls)
    PROVE  Asked' /\ fmask' \in [Buffers -> {0}]
<1>1. fmask' \in [Buffers -> {0}]  BY DEF Dispatches, FilterInv, FilterTypes
<1>2. fworked' = [i \in 1..Len(Calls) |-> <<IF i = 1 /\ mask # 0 THEN mask ELSE Calls[i][2], Mask>>]
  BY DEF Dispatches
<1>3. CASE Len(Calls) = 1
  <2>1. fclass \notin {"noise", "plasma"} => Calls[1][2] = IF fclass = "gain" THEN 0 ELSE Mask
    BY <1>3, CallsShape
  <2>2. DOMAIN fworked' = 1..1 /\ fworked'[1] = <<IF mask # 0 THEN mask ELSE Calls[1][2], Mask>>  BY <1>2, <1>3
  <2>3. Len(fworked') # 2  BY <1>2, <1>3
  <2>. QED  BY <1>1, <2>1, <2>2, <2>3 DEF Asked
<1>4. CASE Len(Calls) = 0
  <2>1. fworked' = <<>>  BY <1>2, <1>4
  <2>. QED  BY <1>1, <2>1 DEF Asked
<1>5. CASE Len(Calls) = 2
  <2>1. /\ fclass \in {"conv", "constant"} /\ Calls[1][2] = Mask
        /\ Calls[2][2] = IF fclass = "constant" THEN -1 - Mask ELSE Mask
    BY <1>5, CallsShape
  <2>2. fworked'[1] = <<Calls[1][2], Mask>> /\ fworked'[2] = <<Calls[2][2], Mask>>  BY <1>2, <1>5, <2>1
  <2>. QED  BY <1>1, <2>1, <2>2 DEF Asked
<1>. QED  BY <1>3, <1>4, <1>5, CallsShape

LEMMA ProcessInv == FilterInv /\ FilterProcess => FilterInv'
<1> SUFFICES ASSUME FilterInv, FilterProcess PROVE FilterInv'  OBVIOUS
<1>0. /\ fclass \notin Generators \cup {"scale", "chrot"} /\ fstage = "running" /\ fstage' = "done"
      /\ Dispatches(fpacket0, IF fclass = "gain" THEN Mask ELSE fmask[fpacket0], Calls)
      /\ UNCHANGED <<fclass, fparam, fwrites, fsample, fpacket0, fpacket1, fpacket2, fusers, fkind, fshared>>
  BY DEF FilterProcess
<1>1. fclass \in FilterClasses \ {"scale", "chrot", "grey2mask"}
  BY <1>0 DEF FilterInv, Stages
<1>2. fmask[fpacket0] = 0
  <2>1. fpacket0 \in Buffers
    BY <1>0, FilterAssumption DEF FilterInv, Stages, FilterTypes, Buffers, NoBuffer
  <2>. QED  BY <2>1 DEF FilterInv, FilterTypes
<1>3. Asked' /\ fmask' \in [Buffers -> {0}]
  <2> DEFINE mask == IF fclass = "gain" THEN Mask ELSE fmask[fpacket0]
  <2>1. mask = IF fclass = "gain" THEN Mask ELSE 0  BY <1>2
  <2>2. Dispatches(fpacket0, mask, Calls)  BY <1>0
  <2> HIDE DEF mask
  <2>. QED  BY <1>0, <1>1, <2>1, <2>2, DispatchAsked
<1>4. FilterTypes' /\ Owners'  BY <1>0, <1>3 DEF FilterInv, FilterTypes, Owners, Names, Keeps
<1>5. Stages'  BY <1>0 DEF FilterInv, Stages
<1>6. Sized'  BY <1>0 DEF FilterInv, Sized
<1>. QED  BY <1>3, <1>4, <1>5, <1>6 DEF FilterInv

LEMMA GeneratorInv == FilterInv /\ GeneratorProcess => FilterInv'
<1> SUFFICES ASSUME FilterInv, GeneratorProcess PROVE FilterInv'  OBVIOUS
<1>0. /\ fclass \in Generators /\ fstage = "running" /\ fstage' = "done"
      /\ UNCHANGED <<fclass, fparam, fwrites, fpacket1, fpacket2, fkind, fshared>>
  BY DEF GeneratorProcess
<1>1. PICK p \in IF fparam["type"] \in {"yv12", "grey"} THEN Nth(1) ELSE {NoBuffer} :
        /\ fpacket0' = p /\ fusers' = Sum3(fusers, Gets(p, 1), Nothing, Nothing)
        /\ fsample' = [fsample EXCEPT !.height = fparam["height"]]
        /\ IF p = NoBuffer THEN UNCHANGED <<fworked, fmask>> ELSE Dispatches(p, fmask[p], Calls)
  BY DEF GeneratorProcess
<1>2. p = NoBuffer \/ p \in Buffers  BY <1>1, NthIsFree
<1>3. fpacket0 = NoBuffer  BY <1>0 DEF FilterInv, Stages
<1>4. Asked' /\ fmask' \in [Buffers -> {0}]
  <2>1. CASE p = NoBuffer  BY <1>0, <1>1, <2>1, AskedKept DEF FilterInv, FilterTypes
  <2>2. CASE p # NoBuffer
    <3> DEFINE mask == fmask[p]
    <3>1. mask = IF fclass = "gain" THEN Mask ELSE 0  BY <1>0, <1>2, <2>2 DEF FilterInv, FilterTypes, Generators
    <3>2. Dispatches(p, mask, Calls)  BY <1>1, <2>2
    <3>3. fclass \in FilterClasses \ {"scale", "chrot", "grey2mask"}  BY <1>0 DEF Generators, FilterClasses
    <3> HIDE DEF mask
    <3>. QED  BY <1>0, <3>1, <3>2, <3>3, DispatchAsked
  <2>. QED  BY <2>1, <2>2
<1>5. ASSUME NEW r \in Buffers
      PROVE  /\ fusers'[r] = Names(fpacket0', r) + Names(fpacket1', r) + Names(fpacket2', r) + Keeps(r)'
             /\ fusers'[r] \in Int
  <2>1. Gets(p, 1)[r] = Names(p, r) /\ Nothing[r] = 0  BY <1>5, GetsOne
  <2>2. fusers'[r] = fusers[r] + Gets(p, 1)[r] + Nothing[r] + Nothing[r]  BY <1>1, <1>5, SumAt
  <2>3. fusers[r] = Names(fpacket0, r) + Names(fpacket1, r) + Names(fpacket2, r) + Keeps(r)
    BY <1>5 DEF FilterInv, Owners
  <2>4. Names(fpacket0, r) = 0  BY <1>3, <1>5, FilterAssumption DEF Names, NoBuffer, Buffers
  <2>5. Keeps(r)' = Keeps(r)  BY <1>0 DEF Keeps
  <2>6. Names(p, r) \in {0, 1} /\ Names(fpacket1, r) \in {0, 1} /\ Names(fpacket2, r) \in {0, 1} /\ Keeps(r) \in {0, 1}
    BY NamesType
  <2>. QED  BY <1>0, <1>1, <2>1, <2>2, <2>3, <2>4, <2>5, <2>6
<1>6. fusers' = [r \in Buffers |-> fusers'[r]]  BY <1>1 DEF Sum3
<1>7. FilterTypes'
  <2>1. fusers' \in [Buffers -> Int]  BY <1>5, <1>6
  <2>2. fpacket0' \in 0..NbBuffers  BY <1>1, <1>2, FilterAssumption DEF Buffers, NoBuffer
  <2>. QED  BY <1>0, <1>4, <2>1, <2>2 DEF FilterInv, FilterTypes
<1>8. Owners'  BY <1>5 DEF Owners, Buffers
<1>9. Stages'  BY <1>0 DEF FilterInv, Stages, Generators
<1>10. Sized'
  <2>1. fsample = [width |-> fsample.width, height |-> fsample.height]  BY DEF FilterInv, Sized
  <2>2. fsample' = [width |-> fsample'.width, height |-> fsample'.height]
        /\ fsample'.width = fsample.width /\ fsample'.height = fparam["height"]
    BY <1>1, <2>1
  <2>. QED  BY <1>0, <2>2 DEF FilterInv, Sized
<1>. QED  BY <1>4, <1>7, <1>8, <1>9, <1>10 DEF FilterInv

LEMMA FilterStep == FilterInv /\ [FilterNext]_filterVars => FilterInv'
<1> SUFFICES ASSUME FilterInv, [FilterNext]_filterVars PROVE FilterInv'  OBVIOUS
<1>1. CASE UNCHANGED filterVars
  BY <1>1 DEF filterVars, packetVars, FilterInv, FilterTypes, Owners, Names, Keeps, Stages, Sized, Asked
<1>2. CASE FilterNext
  BY <1>2, MessageInv, AssignsInv, AcceptsInv, QueuesInv, LetsGoInv, BqtInv, ZoomInv, ScaleInv, GreyInv, PostsInv,
     FreeInv, BeginsInv, DirectInv, ProcessInv, GeneratorInv
     DEF FilterNext, FilterThread, FilterPd
<1>. QED  BY <1>1, <1>2

-----------------------------------------------------------------------------
(* A pool of four always has the packets that are asked for. *)
LEMMA TwoFree ==
    ASSUME NbBuffers >= 4, FilterInv, \A p, q \in fshared : p = q, fpacket1 = NoBuffer, fpacket2 = NoBuffer
    PROVE  \E a, b \in FreeBuffers : a # b
<1>1. PICK s \in 0..NbBuffers : fshared \subseteq {s}
  <2>1. CASE fshared = {}  BY <2>1, FilterAssumption
  <2>2. CASE fshared # {}  BY <2>2, FilterAssumption DEF FilterInv, FilterTypes, Buffers
  <2>. QED  BY <2>1, <2>2
<1>2. PICK a \in 1..4, b \in 1..4 : a # b /\ a \notin {fpacket0, s} /\ b \notin {fpacket0, s}
  BY DEF FilterInv, FilterTypes
<1>3. ASSUME NEW c \in 1..4, c \notin {fpacket0, s} PROVE c \in FreeBuffers
  <2>1. c \in Buffers /\ c # NoBuffer  BY <1>3, FilterAssumption DEF Buffers, NoBuffer
  <2>2. fusers[c] = Names(fpacket0, c) + Names(fpacket1, c) + Names(fpacket2, c) + Keeps(c)
    BY <2>1 DEF FilterInv, Owners
  <2>3. Names(fpacket0, c) = 0 /\ Names(fpacket1, c) = 0 /\ Names(fpacket2, c) = 0 /\ Keeps(c) = 0
    BY <1>1, <1>3, <2>1 DEF Names, Keeps
  <2>. QED  BY <2>1, <2>2, <2>3 DEF FreeBuffers
<1>4. a \in FreeBuffers /\ b \in FreeBuffers  BY <1>2, <1>3
<1>. QED  BY <1>2, <1>4

(* A packet of the object has a reference, and keeps its kind when others   *)
(* are let go.                                                              *)
LEMMA NamedAlive ==
    ASSUME FilterInv, NEW p \in Buffers, p \in {fpacket0, fpacket1, fpacket2}
    PROVE  fusers[p] > 0
<1>1. fusers[p] = Names(fpacket0, p) + Names(fpacket1, p) + Names(fpacket2, p) + Keeps(p)
  BY DEF FilterInv, Owners
<1>2. Names(fpacket0, p) \in {0, 1} /\ Names(fpacket1, p) \in {0, 1} /\ Names(fpacket2, p) \in {0, 1} /\ Keeps(p) \in {0, 1}
  BY NamesType
<1>3. Names(fpacket0, p) = 1 \/ Names(fpacket1, p) = 1 \/ Names(fpacket2, p) = 1  BY DEF Names
<1>. QED  BY <1>1, <1>2, <1>3

LEMMA LiveKeeps ==
    ASSUME FilterInv', Live, NEW p \in Buffers, p \in {fpacket0', fpacket1', fpacket2'}
    PROVE  fkind'[p] = fkind[p]
<1>1. fusers'[p] = Names(fpacket0', p) + Names(fpacket1', p) + Names(fpacket2', p) + Keeps(p)'
  BY DEF FilterInv, Owners, Buffers
<1>2. Names(fpacket0', p) \in {0, 1} /\ Names(fpacket1', p) \in {0, 1} /\ Names(fpacket2', p) \in {0, 1} /\ Keeps(p)' \in {0, 1}
  BY DEF Names, Keeps
<1>3. Names(fpacket0', p) = 1 \/ Names(fpacket1', p) = 1 \/ Names(fpacket2', p) = 1  BY DEF Names
<1>4. fusers'[p] > 0  BY <1>1, <1>2, <1>3
<1>. QED  BY <1>4 DEF Live

LEMMA InPool ==
    ASSUME FilterInv, NEW p \in {fpacket0, fpacket1, fpacket2}, p # NoBuffer
    PROVE  p \in Buffers
BY FilterAssumption DEF FilterInv, FilterTypes, Buffers, NoBuffer

LEMMA SharedOne ==
    ASSUME Together, NEW p, NEW keep \in BOOLEAN, PassTo(p, keep)
    PROVE  \A a, b \in fshared' : a = b
<1>1. (keep => fshared \subseteq {p}) /\ fshared' = IF keep /\ p # NoBuffer THEN fshared \cup {p} ELSE fshared
  BY DEF PassTo
<1>. QED  BY <1>1 DEF Together

LEMMA TogetherInit == FilterInit => Together
BY DEF FilterInit, Together, NoBuffer

(* What a step must keep for the state of pdp_bqt. *)
LEMMA TogetherQuiet ==
    ASSUME FilterInv, Together, FilterInv',
           UNCHANGED <<fclass, fpacket0, fpacket1, fpacket2>>,
           fshared' \subseteq fshared,
           \A p \in {fpacket0, fpacket1, fpacket2} : p \in Buffers => fkind'[p] = fkind[p],
           \/ fstage' = fstage
           \/ fstage \in {"queued", "running"} /\ fstage' \in {"running", "done"}
           \/ fclass \notin {"bqt", "zoom", "scale"}
    PROVE  Together'
<1>1. /\ fpacket0 # NoBuffer => fkind'[fpacket0] = fkind[fpacket0]
      /\ fpacket1 # NoBuffer => fkind'[fpacket1] = fkind[fpacket1]
      /\ fpacket2 # NoBuffer => fkind'[fpacket2] = fkind[fpacket2]
  BY InPool
<1>2. fclass = "bqt" /\ fstage # "idle" => fpacket0 # NoBuffer
  BY DEF FilterInv, Stages, Generators
<1>. QED  BY <1>1, <1>2 DEF Together

LEMMA TogetherQuietSteps ==
    ASSUME FilterInv, Together, FilterInv',
           FilterMessage \/ FilterAssigns \/ FilterQueues \/ PatchLetsGo \/ ThreadBegins \/ FilterProcess \/ DirectProcess
    PROVE  Together'
<1>1. CASE FilterMessage \/ FilterAssigns
  <2>1. UNCHANGED <<fclass, fpacket0, fpacket1, fpacket2, fshared, fkind, fstage>>
    BY <1>1 DEF FilterMessage, FilterAssigns, packetVars
  <2>. QED  BY <2>1, TogetherQuiet
<1>2. CASE FilterQueues
  <2>1. UNCHANGED <<fclass, fpacket0, fpacket1, fpacket2, fshared, fkind>> /\ fclass \notin {"bqt", "zoom", "scale"}
    BY <1>2 DEF FilterQueues, packetVars
  <2>. QED  BY <2>1, TogetherQuiet
<1>3. CASE PatchLetsGo
  <2>1. UNCHANGED <<fclass, fpacket0, fpacket1, fpacket2, fstage>> /\ Live /\ fshared' \subseteq fshared
    BY <1>3 DEF PatchLetsGo
  <2>2. \A p \in {fpacket0, fpacket1, fpacket2} : p \in Buffers => fkind'[p] = fkind[p]
    BY <2>1, LiveKeeps
  <2>. QED  BY <2>1, <2>2, TogetherQuiet
<1>4. CASE ThreadBegins \/ FilterProcess \/ DirectProcess
  <2>1. UNCHANGED <<fclass, fpacket0, fpacket1, fpacket2, fshared, fkind>>
        /\ fstage \in {"queued", "running"} /\ fstage' \in {"running", "done"}
    BY <1>4 DEF ThreadBegins, FilterProcess, DirectProcess, packetVars
  <2>. QED  BY <2>1, TogetherQuiet
<1>. QED  BY <1>1, <1>2, <1>3, <1>4

LEMMA TogetherAccepts ==
    ASSUME FilterInv, Together, FilterInv', FilterAccepts
    PROVE  Together'
<1>0. PICK kind \in FilterKinds, shared \in BOOLEAN, p \in Nth(1) :
    /\ fpacket0 = NoBuffer /\ fclass \notin Generators /\ p # NoBuffer /\ fstage = "idle"
    /\ (shared => fshared = {})
    /\ fpacket0' = p /\ fkind' = [fkind EXCEPT ![p] = kind]
    /\ fshared' = IF shared THEN fshared \cup {p} ELSE fshared
    /\ fstage' = "preproc"
    /\ UNCHANGED <<fclass, fpacket1, fpacket2>>
  BY Zenon DEF FilterAccepts
<1>1. p \in Buffers /\ fusers[p] = 0  BY <1>0, NthIsFree
<1>2. p \notin {fpacket0, fpacket1, fpacket2}  BY <1>1, FreeUnowned
<1>3. fkind'[fpacket1] = fkind[fpacket1] /\ fkind'[fpacket2] = fkind[fpacket2]
  BY <1>0, <1>2 DEF FilterInv, FilterTypes
<1>. QED  BY <1>0, <1>2, <1>3 DEF Together

LEMMA TogetherBqt ==
    ASSUME ~AllocFails, NbBuffers >= 4, FilterInv, Together, FilterInv', pdp_bqt_preproc
    PROVE  Together'
<1>0. /\ fclass = "bqt" /\ fstage = "preproc" /\ fstage' = "queued" /\ UNCHANGED <<fclass, fpacket0, fshared>>
  BY DEF pdp_bqt_preproc
<1>1. CASE fpacket1 # NoBuffer /\ fkind[fpacket1] = fkind[fpacket0]
  <2>1. UNCHANGED <<fpacket1, fpacket2, fkind>>  BY <1>1 DEF pdp_bqt_preproc
  <2>. QED  BY <1>0, <1>1, <2>1 DEF Together
<1>2. CASE ~(fpacket1 # NoBuffer /\ fkind[fpacket1] = fkind[fpacket0])
  <2>1. PICK p \in IF fpacket1 = NoBuffer THEN Nth(1) ELSE {fpacket1} \cup IF AllocFails THEN {NoBuffer} ELSE {},
             q \in IF fpacket2 = NoBuffer THEN Nth(2) ELSE {fpacket2} \cup IF AllocFails THEN {NoBuffer} ELSE {} :
            /\ p = q => p = NoBuffer
            /\ fpacket1' = p /\ fpacket2' = q
            /\ fkind' = [r \in Buffers |-> IF r \in {p, q} THEN fkind[fpacket0] ELSE fkind[r]]
    BY <1>2, Zenon DEF pdp_bqt_preproc
  <2>2. fpacket0 \in Buffers  BY <1>0, InPool DEF FilterInv, Stages, Generators
  <2>3. p \in Buffers /\ q \in Buffers /\ p # q /\ p # fpacket0 /\ q # fpacket0
    <3>1. CASE fpacket1 = NoBuffer
      <4>1. fpacket2 = NoBuffer /\ \A a, b \in fshared : a = b  BY <1>0, <3>1 DEF Together
      <4>2. PICK a \in FreeBuffers, b \in FreeBuffers : a # b  BY <3>1, <4>1, TwoFree
      <4>3. p \in Nth(1) /\ q \in Nth(2)  BY <2>1, <3>1, <4>1
      <4>4. p \in Buffers  BY <4>2, <4>3, NthGiven
      <4>5. q \in Buffers  BY <4>2, <4>3, NthGiven
      <4>6. fusers[p] = 0 \/ p = NoBuffer  BY <4>3, NthIsFree
      <4>7. fusers[q] = 0 \/ q = NoBuffer  BY <4>3, NthIsFree
      <4>8. NoBuffer \notin Buffers  BY FilterAssumption DEF NoBuffer, Buffers
      <4>9. p # fpacket0 /\ q # fpacket0  BY <2>2, <4>4, <4>5, <4>6, <4>7, <4>8, FreeUnowned
      <4>. QED  BY <2>1, <4>4, <4>5, <4>8, <4>9
    <3>2. CASE fpacket1 # NoBuffer
      <4>1. fpacket2 # NoBuffer /\ fpacket1 # fpacket2 /\ fpacket0 # fpacket1 /\ fpacket0 # fpacket2
        BY <1>0, <3>2 DEF Together
      <4>2. p = fpacket1 /\ q = fpacket2  BY <2>1, <3>2, <4>1
      <4>. QED  BY <3>2, <4>1, <4>2, InPool
    <3>. QED  BY <3>1, <3>2
  <2>4. fkind'[p] = fkind[fpacket0] /\ fkind'[q] = fkind[fpacket0] /\ fkind'[fpacket0] = fkind[fpacket0]
    BY <2>1, <2>2, <2>3
  <2>5. p # NoBuffer /\ q # NoBuffer  BY <2>3, FilterAssumption DEF NoBuffer, Buffers
  <2>. QED  BY <1>0, <2>1, <2>3, <2>4, <2>5 DEF Together
<1>. QED  BY <1>1, <1>2

LEMMA TogetherSecond ==
    ASSUME ~AllocFails, NbBuffers >= 4, FilterInv, Together, fclass \in {"zoom", "scale"}, fstage = "preproc",
           NEW p \in Nth(1)
    PROVE  p # NoBuffer /\ p # fpacket0
<1>1. fpacket1 = NoBuffer  BY DEF FilterInv, Stages
<1>2. fpacket2 = NoBuffer /\ \A a, b \in fshared : a = b  BY DEF Together
<1>3. PICK a \in FreeBuffers, b \in FreeBuffers : a # b  BY <1>1, <1>2, TwoFree
<1>4. p \in Buffers  BY <1>3, NthGiven
<1>5. p # NoBuffer  BY <1>4, FilterAssumption DEF NoBuffer, Buffers
<1>6. fusers[p] = 0  BY <1>5, NthIsFree
<1>. QED  BY <1>4, <1>5, <1>6, FreeUnowned

LEMMA TogetherSteps ==
    ASSUME ~AllocFails, NbBuffers >= 4, FilterInv, Together, FilterInv', FilterNext
    PROVE  Together'
<1>1. CASE FilterMessage \/ FilterAssigns \/ FilterQueues \/ PatchLetsGo \/ ThreadBegins \/ FilterProcess \/ DirectProcess
  BY <1>1, TogetherQuietSteps
<1>2. CASE FilterAccepts  BY <1>2, TogetherAccepts
<1>3. CASE pdp_bqt_preproc  BY <1>3, TogetherBqt
<1>4. CASE pdp_zoom_preproc
  <2>1. /\ fclass = "zoom" /\ fstage = "preproc" /\ fstage' = "queued" /\ fpacket1' \in Nth(1)
        /\ UNCHANGED <<fclass, fpacket0, fpacket2, fshared>>
    BY <1>4 DEF pdp_zoom_preproc
  <2>2. fpacket1' # NoBuffer /\ fpacket1' # fpacket0  BY <2>1, TogetherSecond
  <2>. QED  BY <2>1, <2>2 DEF Together
<1>5. CASE pdp_scale_process
  <2>1. fclass = "scale" /\ fstage = "preproc" /\ UNCHANGED <<fclass, fpacket2>>  BY <1>5 DEF pdp_scale_process
  <2>2. CASE \E keep \in BOOLEAN : PassTo(fpacket0, keep) /\ fstage' = "idle"
    <3>1. \A a, b \in fshared' : a = b  BY <2>2, SharedOne
    <3>. QED  BY <2>1, <2>2, <3>1 DEF Together
  <2>3. CASE fpacket1' \in Nth(1) /\ UNCHANGED <<fpacket0, fshared>>
    <3>1. fpacket1' # NoBuffer /\ fpacket1' # fpacket0  BY <2>1, <2>3, TogetherSecond
    <3>. QED  BY <2>1, <2>3, <3>1 DEF Together
  <2>4. CASE fstage' = "idle" /\ UNCHANGED fshared
    BY <2>1, <2>4 DEF Together
  <2>. QED  BY <1>5, <2>2, <2>3, <2>4 DEF pdp_scale_process
<1>6. CASE pdp_grey2mask_process
  <2>1. fclass = "grey2mask" /\ UNCHANGED <<fclass, fpacket2>>  BY <1>6 DEF pdp_grey2mask_process
  <2>2. \E p, keep : keep \in BOOLEAN /\ PassTo(p, keep)  BY <1>6 DEF pdp_grey2mask_process
  <2>3. \A a, b \in fshared' : a = b  BY <2>2, SharedOne
  <2>. QED  BY <2>1, <2>3 DEF Together
<1>7. CASE FilterPosts
  <2> DEFINE made == fclass \in {"zoom", "scale"}
             out == IF made THEN fpacket1 ELSE fpacket0
  <2>1. PICK keep \in BOOLEAN :
    /\ fstage = "done" /\ fstage' = "idle" /\ PassTo(out, keep)
    /\ fpacket0' = NoBuffer /\ fpacket1' = (IF made THEN NoBuffer ELSE fpacket1)
    /\ Live /\ UNCHANGED <<fclass, fpacket2>>
    BY <1>7, Zenon DEF FilterPosts
  <2>2. \A a, b \in fshared' : a = b  BY <2>1, SharedOne
  <2>3. CASE fclass = "bqt"
    <3>1. fpacket1' = fpacket1 /\ fpacket2' = fpacket2  BY <2>1, <2>3
    <3>2. fpacket1 # NoBuffer /\ fpacket2 # NoBuffer /\ fpacket1 # fpacket2 /\ fkind[fpacket1] = fkind[fpacket2]
      BY <2>1, <2>3 DEF Together
    <3>3. fkind'[fpacket1] = fkind[fpacket1] /\ fkind'[fpacket2] = fkind[fpacket2]
      BY <2>1, <3>1, <3>2, LiveKeeps, InPool
    <3>. QED  BY <2>1, <2>2, <2>3, <3>1, <3>2, <3>3 DEF Together
  <2>4. CASE fclass # "bqt"
    BY <2>1, <2>2, <2>4 DEF Together
  <2>. QED  BY <2>3, <2>4
<1>8. CASE FilterFree
  <2>1. fclass' = "freed" /\ fpacket2' = NoBuffer /\ UNCHANGED fshared  BY <1>8 DEF FilterFree
  <2>. QED  BY <2>1 DEF Together
<1>9. CASE GeneratorProcess
  <2>1. fclass \in Generators /\ UNCHANGED <<fclass, fpacket2, fshared>>  BY <1>9 DEF GeneratorProcess
  <2>. QED  BY <2>1 DEF Together, Generators
<1>. QED  BY <1>1, <1>2, <1>3, <1>4, <1>5, <1>6, <1>7, <1>8, <1>9 DEF FilterNext, FilterThread, FilterPd

-----------------------------------------------------------------------------
LEMMA FilterSafe ==
    ASSUME FilterInv
    PROVE  FilterCounted /\ ChannelsAsked /\ GeneratedLegal
<1>1. FilterCounted
  <2> SUFFICES ASSUME NEW p \in Buffers
               PROVE  fusers[p] = Cardinality({i \in 1..3 : <<fpacket0, fpacket1, fpacket2>>[i] = p})
                                  + (IF p \in fshared THEN 1 ELSE 0)
    BY DEF FilterCounted
  <2>1. fusers[p] = Names(fpacket0, p) + Names(fpacket1, p) + Names(fpacket2, p) + Keeps(p)
    BY DEF FilterInv, Owners
  <2>2. Cardinality({i \in 1..3 : <<fpacket0, fpacket1, fpacket2>>[i] = p})
        = Names(fpacket0, p) + Names(fpacket1, p) + Names(fpacket2, p)
    BY NamesCounted
  <2>. QED  BY <2>1, <2>2 DEF Keeps
<1>2. ChannelsAsked  BY DEF FilterInv, FilterTypes, Asked, ChannelsAsked
<1>3. GeneratedLegal
  <2> SUFFICES ASSUME fclass \in Generators, fpacket0 # NoBuffer
               PROVE  fsample.width \in LegalSides /\ fsample.height \in LegalSides
    BY DEF GeneratedLegal, LegalSides
  <2>. QED  BY DEF FilterInv, Stages, Sized
<1>. QED  BY <1>1, <1>2, <1>3

LEMMA FilterFits ==
    ASSUME FilterInv, Together
    PROVE  PacketsFit
<1>1. CASE fclass = "bqt" /\ fstage = "running"
  <2>1. fpacket1 # NoBuffer /\ fpacket2 # NoBuffer /\ fpacket0 # fpacket1 /\ fpacket0 # fpacket2 /\ fpacket1 # fpacket2
        /\ fkind[fpacket1] = fkind[fpacket0] /\ fkind[fpacket2] = fkind[fpacket0]
    BY <1>1 DEF Together
  <2>. QED  BY <1>1, <2>1, ThreeDiffer DEF PacketsFit
<1>2. CASE ~(fclass = "bqt" /\ fstage = "running")
  BY <1>2 DEF PacketsFit, Together
<1>. QED  BY <1>1, <1>2

(* Every reference to a packet has one owner, a routine works on the        *)
(* channels asked for, and a generated image has legal sides, for every     *)
(* pool, also one that refuses packets, and every sequence of messages in   *)
(* between (puredata/pdp_imagebase.c, modules/image_basic).                 *)
THEOREM FiltersCount == FilterSpec => [](FilterCounted /\ ChannelsAsked /\ GeneratedLegal)
<1>. USE DEF FilterSpec
<1>1. FilterSpec => []FilterInv  BY FilterInitInv, FilterStep, PTL
<1>. QED  BY <1>1, FilterSafe, PTL

(* And if the pool holds four packets and refuses none, the routines of the *)
(* thread also get packets that belong together: FiltersSound.  A pool that *)
(* may refuse breaks it, as pdp_bqt looks at its first state packet twice.  *)
THEOREM FiltersStaySound ==
    ASSUME ~AllocFails, NbBuffers >= 4
    PROVE  FilterSpec => []FiltersSound
<1>1. FilterInit => FilterInv /\ Together  BY FilterInitInv, TogetherInit
<1>2. FilterInv /\ Together /\ [FilterNext]_filterVars => FilterInv' /\ Together'
  <2> SUFFICES ASSUME FilterInv, Together, [FilterNext]_filterVars PROVE FilterInv' /\ Together'  OBVIOUS
  <2>1. FilterInv'  BY FilterStep
  <2>2. CASE UNCHANGED filterVars  BY <2>1, <2>2 DEF filterVars, packetVars, Together
  <2>. QED  BY <2>1, <2>2, TogetherSteps
<1>3. FilterInv /\ Together => FiltersSound  BY FilterSafe, FilterFits DEF FiltersSound
<1>. QED  BY <1>1, <1>2, <1>3, PTL DEF FilterSpec

=============================================================================
