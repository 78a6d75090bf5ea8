------------------------------- MODULE UdpSend -------------------------------
(***************************************************************************)
(* The pdp_netsend object (modules/generic/pdp_udp_send.c): the pd thread  *)
(* stores packets in a small ring, a thread of the object transmits them.  *)
(* The two sides own the write and the read index; a slot that holds -1 is *)
(* free.  The ring is not locked: the mutex and the two conditions only    *)
(* put the threads to sleep.                                               *)
(*                                                                         *)
(* Packets are numbered in the order in which the ring accepts them.       *)
(***************************************************************************)
EXTENDS Integers

CONSTANTS
    NbPackets,     \* x_nb_packets
    MaxPackets     \* bound: packets accepted

ASSUME SizeAssumption == NbPackets \in Nat \ {0} /\ MaxPackets \in Nat

VARIABLES
    x_packet, x_read_packet, x_write_packet, x_exit_thread,
    x_mut,         \* who holds the mutex
    accepted,      \* packets stored so far
    sent,          \* the last packet transmitted
    pd,            \* the pd thread: program counter and operation
    thread         \* program counter of send_thread

ring == <<x_packet, x_read_packet, x_write_packet>>
vars == <<x_packet, x_read_packet, x_write_packet, x_exit_thread, x_mut, accepted, sent, pd, thread>>

Slot == 0 .. NbPackets - 1
Free == -1
None == "none"

PdPc == {"idle", "advance", "signal", "wait_lock", "wait_test", "wait_block", "wait_sleep", "wait_wake",
         "waited", "exit", "exit_signal", "join", "freed"}
ThreadPc == {"check", "signal", "test", "block", "sleep", "wake", "awake", "send", "release", "advance",
             "stopped"}

TypeOK ==
    /\ x_packet \in [Slot -> 1 .. MaxPackets \union {Free}]
    /\ x_read_packet \in Slot /\ x_write_packet \in Slot
    /\ x_exit_thread \in BOOLEAN
    /\ x_mut \in {"pd", "thread", None}
    /\ accepted \in 0 .. MaxPackets /\ sent \in 0 .. MaxPackets
    /\ pd \in [pc : PdPc, op : {"none", "connect", "free"}]
    /\ thread \in ThreadPc

(* pdp_udp_send_new *)
Init ==
    /\ x_packet = [s \in Slot |-> Free]
    /\ x_read_packet = 0 /\ x_write_packet = 0
    /\ x_exit_thread = FALSE
    /\ x_mut = None
    /\ accepted = 0 /\ sent = 0
    /\ pd = [pc |-> "idle", op |-> "none"]
    /\ thread = "check"

ReadEmpty == x_packet[x_read_packet] = Free
Step(i) == (i + 1) % NbPackets

-----------------------------------------------------------------------------
(* The pd thread *)

PdGoto(pc) == pd' = [pd EXCEPT !.pc = pc]

(* Mutant: a full ring is not noticed. *)
InputAlways ==
    /\ pd.pc = "idle" /\ accepted < MaxPackets
    /\ accepted' = accepted + 1
    /\ x_packet' = [x_packet EXCEPT ![x_write_packet] = accepted + 1]
    /\ PdGoto("advance")
    /\ UNCHANGED <<x_read_packet, x_write_packet, x_exit_thread, x_mut, sent, thread>>

(* register_ro: a packet is stored if the slot is free, else dropped.  The  *)
(* sender of the message holds the packet, so pdp_packet_copy_ro gives it   *)
(* back; a number that names no packet would be stored as -1, and the write *)
(* index would pass a slot that stays free.                                 *)
pdp_udp_send_input_0 ==
    /\ pd.pc = "idle" /\ accepted < MaxPackets
    /\ x_packet[x_write_packet] = Free
    /\ accepted' = accepted + 1
    /\ x_packet' = [x_packet EXCEPT ![x_write_packet] = accepted + 1]
    /\ PdGoto("advance")
    /\ UNCHANGED <<x_read_packet, x_write_packet, x_exit_thread, x_mut, sent, thread>>

InputAdvance ==
    /\ pd.pc = "advance"
    /\ x_write_packet' = Step(x_write_packet)
    /\ PdGoto("signal")
    /\ UNCHANGED <<x_packet, x_read_packet, x_exit_thread, x_mut, accepted, sent, thread>>

SignalThread == thread' = IF thread = "sleep" THEN "wake" ELSE thread

(* Mutant: the signal is sent without the mutex. *)
SignalUnlocked ==
    /\ pd.pc \in {"signal", "exit_signal"}
    /\ SignalThread
    /\ PdGoto(IF pd.pc = "signal" THEN "idle" ELSE "join")
    /\ UNCHANGED <<ring, x_exit_thread, x_mut, accepted, sent>>

_signal_sender ==
    /\ pd.pc \in {"signal", "exit_signal"} /\ x_mut = None
    /\ SignalThread
    /\ PdGoto(IF pd.pc = "signal" THEN "idle" ELSE "join")
    /\ UNCHANGED <<ring, x_exit_thread, x_mut, accepted, sent>>

(* connect and free start with _wait_until_done. *)
Start(op) ==
    /\ pd.pc = "idle"
    /\ pd' = [pc |-> "wait_lock", op |-> op]
    /\ UNCHANGED <<ring, x_exit_thread, x_mut, accepted, sent, thread>>

WaitLock ==
    /\ pd.pc \in {"wait_lock", "wait_wake"} /\ x_mut = None
    /\ x_mut' = "pd"
    /\ PdGoto("wait_test")
    /\ UNCHANGED <<ring, x_exit_thread, accepted, sent, thread>>

WaitTest ==
    /\ pd.pc = "wait_test"
    /\ IF ReadEmpty THEN PdGoto("waited") /\ x_mut' = None
       ELSE PdGoto("wait_block") /\ UNCHANGED x_mut
    /\ UNCHANGED <<ring, x_exit_thread, accepted, sent, thread>>

WaitBlock ==
    /\ pd.pc = "wait_block"
    /\ x_mut' = None
    /\ PdGoto("wait_sleep")
    /\ UNCHANGED <<ring, x_exit_thread, accepted, sent, thread>>

(* The target address is changed, or the object goes on to stop its thread. *)
Waited ==
    /\ pd.pc = "waited"
    /\ pd' = IF pd.op = "free" THEN [pd EXCEPT !.pc = "exit"] ELSE [pc |-> "idle", op |-> "none"]
    /\ UNCHANGED <<ring, x_exit_thread, x_mut, accepted, sent, thread>>

FreeExit ==
    /\ pd.pc = "exit"
    /\ x_exit_thread' = TRUE
    /\ PdGoto("exit_signal")
    /\ UNCHANGED <<ring, x_mut, accepted, sent, thread>>

(* pthread_join, then the packets left in the ring are marked unused. *)
FreeJoin ==
    /\ pd.pc = "join" /\ thread = "stopped"
    /\ x_packet' = [s \in Slot |-> Free]
    /\ PdGoto("freed")
    /\ UNCHANGED <<x_read_packet, x_write_packet, x_exit_thread, x_mut, accepted, sent, thread>>

-----------------------------------------------------------------------------
(* send_thread *)

(* _wait_for_feeder: no locking while there is data. *)
Check ==
    /\ thread = "check"
    /\ thread' = IF ReadEmpty THEN "signal" ELSE IF x_exit_thread THEN "stopped" ELSE "send"
    /\ UNCHANGED <<ring, x_exit_thread, x_mut, accepted, sent, pd>>

SignalDone ==
    /\ thread = "signal" /\ x_mut = None
    /\ x_mut' = "thread"
    /\ pd' = IF pd.pc = "wait_sleep" THEN [pd EXCEPT !.pc = "wait_wake"] ELSE pd
    /\ thread' = "test"
    /\ UNCHANGED <<ring, x_exit_thread, accepted, sent>>

Test ==
    /\ thread = "test" /\ x_mut = "thread"
    /\ IF ReadEmpty /\ ~x_exit_thread
       THEN thread' = "block" /\ UNCHANGED x_mut
       ELSE thread' = "awake" /\ x_mut' = None
    /\ UNCHANGED <<ring, x_exit_thread, accepted, sent, pd>>

(* pthread_cond_wait gives the mutex back and sleeps in one step. *)
Block ==
    /\ thread = "block"
    /\ x_mut' = None
    /\ thread' = "sleep"
    /\ UNCHANGED <<ring, x_exit_thread, accepted, sent, pd>>

Wake ==
    /\ thread = "wake" /\ x_mut = None
    /\ x_mut' = "thread"
    /\ thread' = "test"
    /\ UNCHANGED <<ring, x_exit_thread, accepted, sent, pd>>

Awake ==
    /\ thread = "awake"
    /\ thread' = IF x_exit_thread THEN "stopped" ELSE "send"
    /\ UNCHANGED <<ring, x_exit_thread, x_mut, accepted, sent, pd>>

(* pdp_udp_sender_send (module UdpTransfer) returns, whatever its result. *)
Send ==
    /\ thread = "send"
    /\ sent' = x_packet[x_read_packet]
    /\ thread' = "release"
    /\ UNCHANGED <<ring, x_exit_thread, x_mut, accepted, pd>>

(* Mutant: the slot is not cleared after the transmission. *)
ReleaseKeeps ==
    /\ thread = "release"
    /\ thread' = "advance"
    /\ UNCHANGED <<ring, x_exit_thread, x_mut, accepted, sent, pd>>

Release ==
    /\ thread = "release"
    /\ x_packet' = [x_packet EXCEPT ![x_read_packet] = Free]
    /\ thread' = "advance"
    /\ UNCHANGED <<x_read_packet, x_write_packet, x_exit_thread, x_mut, accepted, sent, pd>>

Advance ==
    /\ thread = "advance"
    /\ x_read_packet' = Step(x_read_packet)
    /\ thread' = "check"
    /\ UNCHANGED <<x_packet, x_write_packet, x_exit_thread, x_mut, accepted, sent, pd>>

-----------------------------------------------------------------------------
PdStep ==
    \/ InputAdvance \/ _signal_sender
    \/ WaitLock \/ WaitTest \/ WaitBlock \/ Waited \/ FreeExit \/ FreeJoin

ThreadStep ==
    \/ Check \/ SignalDone \/ Test \/ Block \/ Wake \/ Awake \/ Send \/ Release \/ Advance

(* pthread_cond_wait may return without a signal; its callers test again. *)
SpuriousWakeup ==
    /\ \/ thread = "sleep" /\ thread' = "wake" /\ UNCHANGED pd
       \/ pd.pc = "wait_sleep" /\ PdGoto("wait_wake") /\ UNCHANGED thread
    /\ UNCHANGED <<ring, x_exit_thread, x_mut, accepted, sent>>

Freed == pd.pc = "freed" /\ UNCHANGED vars

Next ==
    \/ pdp_udp_send_input_0 \/ Start("connect") \/ Start("free")
    \/ PdStep \/ ThreadStep \/ SpuriousWakeup \/ Freed

Spec == Init /\ [][Next]_vars

(* Both threads run; pthread_mutex_lock lets each of them in eventually. *)
FairSpec ==
    /\ Spec
    /\ SF_vars(WaitLock) /\ SF_vars(_signal_sender) /\ SF_vars(SignalDone) /\ SF_vars(Wake)
    /\ WF_vars(PdStep) /\ WF_vars(ThreadStep)

-----------------------------------------------------------------------------
(* Packets are transmitted in the order they were accepted, each once and  *)
(* none skipped, although the two threads never lock the ring.             *)
SentInOrder ==
    [][sent' # sent => sent' = sent + 1 /\ sent' <= accepted]_vars

(* The ring holds exactly the packets that were accepted and not yet       *)
(* released, the n-th in slot n - 1 modulo the size: no store overwrites a *)
(* packet and no release frees another packet's slot.                      *)
Oldest == IF thread = "release" THEN sent ELSE sent + 1
RingContents ==
    pd.pc # "freed" =>
        /\ \A n \in Oldest .. accepted : x_packet[(n - 1) % NbPackets] = n
        /\ \A s \in Slot : x_packet[s] = Free \/ x_packet[s] \in Oldest .. accepted

(* No wakeup is lost: an accepted packet is transmitted, unless the object *)
(* is freed.                                                               *)
PacketSent == \A n \in 1 .. MaxPackets : accepted >= n ~> (sent >= n \/ pd.op = "free")

(* connect and free come back from waiting for the thread, and the thread  *)
(* is joined.                                                              *)
WaitReturns == /\ pd.op = "connect" ~> pd.pc = "idle"
               /\ pd.op = "free" ~> pd.pc = "freed"

(* No wakeup is lost in either direction: both of the above. *)
SendLive == PacketSent /\ WaitReturns

(* _wait_until_done comes back when everything has been transmitted. *)
WaitedAllSent == pd.pc = "waited" => sent = accepted
=============================================================================
