------------------------------ MODULE RawStream ------------------------------
(* pdp_rawin and pdp_rawout (modules/generic): raw packets through a pipe.  *)
(* A thread of the object reads the pipe into packets, or writes packets to *)
(* it, and shares a queue with the pd thread.  Additions and removals are   *)
(* locked, the tests for an empty queue and the flags are not.              *)
(* Packets are numbered as they are made; the data of each is Chunks parts. *)
EXTENDS Integers, Sequences, FiniteSets, SequencesExt

CONSTANTS
    MaxStream,     (* bound: packets made *)
    Chunks,        (* parts of a packet a pipe may take or give *)
    QueueSizes,    (* arguments of queuesize *)
    AudioBlock,    (* parts of a packet an audio block fills *)
    OpensInSync    (* whether the patch answers the bang of a sync with open *)

ASSUME StreamAssumption ==
    /\ MaxStream \in Nat /\ AudioBlock \in Nat \ {0} /\ Chunks \in Nat \ {0}
    /\ OpensInSync \in BOOLEAN

(* Blocks of audio fill a packet of pdp_rawout~ exactly.  rawout_dsp_new    *)
(* makes the packet 2048 samples of every channel and rawout_perform does   *)
(* not look how much is left: this holds while the patch runs in blocks of  *)
(* a power of two no longer than 2048.                                      *)
BlocksFill == \E k \in 1..Chunks : Chunks = k * AudioBlock

VARIABLES
    robj,          (* the class: "in", "out", or "out~" for pdp_rawout~ *)
    x_queue, x_active, x_giveup, x_done, x_mode, x_max_queuesize,
    x_needle,      (* pdp_rawout~: [packet, pos], the packet audio is written to *)
    rthread,       (* program counter of the thread, or of a read in the pd thread *)
    xfer,          (* the packet in transfer and the parts that are left *)
    rpd,           (* the pd thread: the call it is in *)
    passing,       (* the packet the pd thread is passing to the patch *)
    syncs,         (* the sync calls inside their bang: what each was called inside of *)
    streamUsers,   (* packet -> references *)
    streamMade,    (* packets made *)
    streamed,      (* the last packet from the queue that was passed or written whole *)
    lost           (* packets that were in transfer when the pipe broke *)

flags == <<x_active, x_giveup, x_done, x_mode, x_max_queuesize>>
rawVars == <<robj, x_queue, flags, x_needle, rthread, xfer, rpd, passing, syncs,
             streamUsers, streamMade, streamed, lost>>

Stream == 1..MaxStream
NoPacket == 0
NoXfer == [packet |-> NoPacket, left |-> 0]
NoNeedle == [packet |-> NoPacket, pos |-> 0]
DEF_QUEUESIZE == 100
RawClasses == {"in", "out", "out~"}

RawInit ==
    /\ robj \in RawClasses
    /\ x_queue = <<>> /\ x_active = FALSE /\ x_giveup = FALSE /\ x_done = FALSE /\ x_mode = FALSE
    /\ x_max_queuesize = DEF_QUEUESIZE /\ x_needle = NoNeedle
    /\ rthread = "ended" /\ xfer = NoXfer /\ rpd = "idle" /\ passing = NoPacket /\ syncs = <<>>
    /\ streamUsers = [p \in Stream |-> 0] /\ streamMade = 0 /\ streamed = 0 /\ lost = {}

Plus(p, n) == streamUsers' = IF p = NoPacket THEN streamUsers ELSE [streamUsers EXCEPT ![p] = @ + n]
NewPacket == streamMade < MaxStream /\ streamMade' = streamMade + 1 /\ Plus(streamMade + 1, 1)


--------------------------------------------------------------------------------
(* read_packet: it gives up between two reads.  A select error or the end   *)
(* of the pipe leaves the packet behind.                                    *)
ReadCreates ==
    /\ robj = "in" /\ rthread = "start"
    /\ NewPacket
    /\ xfer' = [packet |-> streamMade + 1, left |-> Chunks] /\ rthread' = "transfer"
    /\ UNCHANGED <<robj, x_queue, flags, x_needle, rpd, passing, syncs, streamed, lost>>
ReadCreateFails ==
    /\ robj = "in" /\ rthread = "start"
    /\ rthread' = "failed"
    /\ UNCHANGED <<robj, x_queue, flags, x_needle, xfer, rpd, passing, syncs, streamUsers, streamMade, streamed, lost>>
ReadGivesUp ==
    /\ robj = "in" /\ rthread = "transfer" /\ xfer.left > 0 /\ x_giveup
    /\ Plus(xfer.packet, -1) /\ xfer' = NoXfer /\ rthread' = "failed"
    /\ UNCHANGED <<robj, x_queue, flags, x_needle, rpd, passing, syncs, streamMade, streamed, lost>>
PipeBreaks ==
    /\ rthread = "transfer" /\ xfer.left > 0 /\ ~x_giveup
    /\ lost' = lost \cup {xfer.packet} /\ xfer' = NoXfer
    /\ rthread' = IF robj = "in" THEN "failed" ELSE "close"
    /\ UNCHANGED <<robj, x_queue, flags, x_needle, rpd, passing, syncs, streamUsers, streamMade, streamed>>
(* A negative count of read is added as it is: more is left than before. *)
Moves(n) == xfer' = [xfer EXCEPT !.left = @ - n]
PipeMoves ==
    /\ rthread = "transfer" /\ xfer.left > 0 /\ ~x_giveup
    /\ \/ \E n \in 1..xfer.left : Moves(n)
       \/ robj = "in" /\ xfer.left \in 1..Chunks /\ Moves(-1)
    /\ UNCHANGED <<robj, x_queue, flags, x_needle, rthread, rpd, passing, syncs, streamUsers, streamMade, streamed, lost>>

(* rawin_thread: the packet is queued; the thread ends with the first read  *)
(* that fails.                                                              *)
ThreadQueues ==
    /\ robj = "in" /\ rthread = "transfer" /\ xfer.left = 0 /\ rpd # "bang"
    /\ x_queue' = Append(x_queue, xfer.packet)
    /\ xfer' = NoXfer /\ rthread' = "start"
    /\ UNCHANGED <<robj, flags, x_needle, rpd, passing, syncs, streamUsers, streamMade, streamed, lost>>
ThreadEnds ==
    /\ robj = "in" /\ rthread = "failed" /\ rpd # "bang"
    /\ rthread' = "ended"
    /\ UNCHANGED <<robj, x_queue, flags, x_needle, xfer, rpd, passing, syncs, streamUsers, streamMade, streamed, lost>>

(* rawin_tick pops and passes until the queue is empty. *)
rawin_tick ==
    /\ robj = "in" /\ rpd = "idle" /\ passing = NoPacket /\ syncs = <<>> /\ x_queue # <<>>
    /\ passing' = Head(x_queue) /\ x_queue' = Tail(x_queue) /\ streamed' = Head(x_queue)
    /\ UNCHANGED <<robj, flags, x_needle, rthread, xfer, rpd, syncs, streamUsers, streamMade, lost>>
Passes ==
    /\ robj = "in" /\ rpd = "idle" /\ passing # NoPacket /\ passing \notin ToSet(syncs)
    /\ Plus(passing, -1) /\ passing' = NoPacket
    /\ UNCHANGED <<robj, x_queue, flags, x_needle, rthread, xfer, rpd, syncs, streamMade, streamed, lost>>
(* rawin_bang reads in the pd thread; an error closes the pipe. *)
rawin_bang ==
    /\ robj = "in" /\ rpd = "idle" /\ passing = NoPacket /\ x_active /\ ~x_mode
    /\ rpd' = "bang" /\ rthread' = "start"
    /\ UNCHANGED <<robj, x_queue, flags, x_needle, xfer, passing, syncs, streamUsers, streamMade, streamed, lost>>
BangReads ==
    /\ rpd = "bang" /\ \/ rthread = "failed" /\ rpd' = "stop" /\ UNCHANGED passing
                       \/ rthread = "transfer" /\ xfer.left = 0 /\ rpd' = "idle" /\ passing' = xfer.packet
    /\ rthread' = "ended" /\ xfer' = NoXfer
    /\ UNCHANGED <<robj, x_queue, flags, x_needle, syncs, streamUsers, streamMade, streamed, lost>>

--------------------------------------------------------------------------------
(* rawin_open and rawout_open; the pipe of rawin is opened here, and its    *)
(* thread runs in one of its two modes.                                     *)
Cleared(q) == streamUsers' = [p \in Stream |-> IF p \in ToSet(q) THEN streamUsers[p] - 1 ELSE streamUsers[p]]
rawin_open ==
    /\ robj = "in" /\ rpd = "idle" /\ ~x_active /\ (syncs = <<>> \/ OpensInSync)
    /\ x_giveup' = FALSE /\ x_active' = TRUE
    /\ rthread' = IF x_mode THEN "start" ELSE "ended"
    /\ UNCHANGED <<robj, x_queue, x_done, x_mode, x_max_queuesize, x_needle, xfer, rpd, passing, syncs,
                   streamUsers, streamMade, streamed, lost>>
rawout_open ==
    /\ robj # "in" /\ rpd = "idle" /\ ~x_active
    /\ x_giveup' = FALSE /\ x_done' = FALSE /\ x_active' = TRUE
    /\ Cleared(x_queue) /\ x_queue' = <<>>
    /\ rthread' = "open"
    /\ UNCHANGED <<robj, x_mode, x_max_queuesize, x_needle, xfer, rpd, passing, syncs, streamMade, streamed, lost>>

(* The close messages, rawout_stopthread, and rawin_sync, which closes and  *)
(* then sets the mode: the thread is told to give up and waited for.  The   *)
(* end is told with a bang, inside which the patch may send the object      *)
(* messages: rawin_sync sets the mode when that bang returns.  An object    *)
(* that is freed has no connections any more.                               *)
Close(then) ==
    /\ rpd = "idle" /\ (then = "free" => passing = NoPacket /\ syncs = <<>>)
    /\ rpd' = IF x_active THEN then ELSE IF then = "free" THEN "release" ELSE "idle"
    /\ IF then = "sync" /\ ~x_active THEN x_mode' \in BOOLEAN ELSE UNCHANGED x_mode
    /\ UNCHANGED <<robj, x_queue, x_active, x_giveup, x_done, x_max_queuesize, x_needle, rthread, xfer, passing, syncs,
                   streamUsers, streamMade, streamed, lost>>
rawin_sync == robj = "in" /\ Close("sync")
(* Mutant: the queue is cleared before the thread ended. *)
ClosedEarly ==
    /\ rpd \in {"stop", "sync", "free"} /\ x_giveup' = TRUE
    /\ x_active' = FALSE /\ Cleared(x_queue) /\ x_queue' = <<>>
    /\ rpd' = IF rpd = "free" THEN "release" ELSE "idle"
    /\ syncs' = IF rpd = "sync" THEN Append(syncs, passing) ELSE syncs
    /\ UNCHANGED <<robj, x_mode, x_done, x_max_queuesize, x_needle, rthread, xfer, passing, streamMade, streamed, lost>>
GiveUp ==
    /\ rpd \in {"stop", "sync", "free"} /\ ~x_giveup /\ x_giveup' = TRUE
    /\ UNCHANGED <<robj, x_queue, x_active, x_done, x_mode, x_max_queuesize, x_needle, rthread, xfer, rpd, passing, syncs,
                   streamUsers, streamMade, streamed, lost>>
Joined ==
    /\ rpd \in {"stop", "sync", "free"} /\ x_giveup
    /\ rthread = "ended" \/ (robj = "in" /\ ~x_mode)
    /\ x_active' = FALSE
    /\ IF robj = "in" THEN UNCHANGED <<x_queue, streamUsers>> ELSE Cleared(x_queue) /\ x_queue' = <<>>
    /\ rpd' = IF rpd = "free" THEN "release" ELSE "idle"
    /\ syncs' = IF rpd = "sync" THEN Append(syncs, passing) ELSE syncs
    /\ UNCHANGED <<robj, x_mode, x_giveup, x_done, x_max_queuesize, x_needle, rthread, xfer, passing, streamMade, streamed, lost>>
SyncSets ==
    /\ rpd = "idle" /\ syncs # <<>> /\ Last(syncs) = passing
    /\ x_mode' \in BOOLEAN /\ syncs' = Front(syncs)
    /\ UNCHANGED <<robj, x_queue, x_active, x_giveup, x_done, x_max_queuesize, x_needle, rthread, xfer, rpd, passing,
                   streamUsers, streamMade, streamed, lost>>
RawFree ==
    /\ rpd = "release" /\ rpd' = "freed"
    /\ streamUsers' = [p \in Stream |-> streamUsers[p]
          - (IF p \in ToSet(x_queue) THEN 1 ELSE 0) - (IF p = x_needle.packet THEN 1 ELSE 0)]
    /\ x_queue' = <<>> /\ x_needle' = NoNeedle
    /\ UNCHANGED <<robj, flags, rthread, xfer, passing, syncs, streamMade, streamed, lost>>

--------------------------------------------------------------------------------
(* pdp_rawout: a message that finds the thread done closes the object. *)
Noticed == rpd' = IF x_done /\ x_active THEN "stop" ELSE "idle"
pdp_in ==
    /\ robj = "out" /\ rpd = "idle"
    /\ NewPacket /\ Len(x_queue) < x_max_queuesize
    /\ x_queue' = Append(x_queue, streamMade + 1) /\ Noticed
    /\ UNCHANGED <<robj, flags, x_needle, rthread, xfer, passing, syncs, streamed, lost>>
rawout_tick ==
    /\ robj # "in" /\ rpd = "idle" /\ x_done /\ x_active /\ Noticed
    /\ UNCHANGED <<robj, x_queue, flags, x_needle, rthread, xfer, passing, syncs, streamUsers, streamMade, streamed, lost>>
rawout_queuesize(n) ==
    /\ robj # "in" /\ rpd = "idle" /\ x_max_queuesize' = n
    /\ UNCHANGED <<robj, x_queue, x_active, x_giveup, x_done, x_mode, x_needle, rthread, xfer, rpd, passing, syncs,
                   streamUsers, streamMade, streamed, lost>>
(* rawout_perform: audio fills a packet of its own, which is queued when    *)
(* nothing of it is left; a full queue drops the block.                     *)
Needle == IF x_needle.packet = NoPacket THEN [packet |-> streamMade + 1, pos |-> AudioBlock]
          ELSE [x_needle EXCEPT !.pos = @ + AudioBlock]
rawout_perform ==
    /\ robj = "out~" /\ rpd = "idle" /\ Len(x_queue) < x_max_queuesize
    /\ IF x_needle.packet = NoPacket THEN NewPacket ELSE UNCHANGED <<streamUsers, streamMade>>
    /\ IF Needle.pos = Chunks THEN x_queue' = Append(x_queue, Needle.packet) /\ x_needle' = NoNeedle
       ELSE x_needle' = Needle /\ UNCHANGED x_queue
    /\ UNCHANGED <<robj, flags, rthread, xfer, rpd, passing, syncs, streamed, lost>>

(* rawout_thread: a pipe without a reader is opened a second time, and that *)
(* call waits for one.                                                      *)
ThreadOpens ==
    /\ rthread = "open" /\ rthread' \in {"main", "exit", "blocked"}
    /\ UNCHANGED <<robj, x_queue, flags, x_needle, xfer, rpd, passing, syncs, streamUsers, streamMade, streamed, lost>>
ReaderComes ==
    /\ rthread = "blocked" /\ rthread' = "main"
    /\ UNCHANGED <<robj, x_queue, flags, x_needle, xfer, rpd, passing, syncs, streamUsers, streamMade, streamed, lost>>
ThreadPolls ==
    /\ rthread = "main" /\ (x_queue # <<>> \/ x_giveup)
    /\ rthread' = IF x_queue # <<>> THEN "pop" ELSE "close"
    /\ UNCHANGED <<robj, x_queue, flags, x_needle, xfer, rpd, passing, syncs, streamUsers, streamMade, streamed, lost>>
ThreadPops ==
    /\ rthread = "pop" /\ x_queue # <<>>
    /\ xfer' = [packet |-> Head(x_queue), left |-> Chunks] /\ x_queue' = Tail(x_queue)
    /\ rthread' = "transfer"
    /\ UNCHANGED <<robj, flags, x_needle, rpd, passing, syncs, streamUsers, streamMade, streamed, lost>>
Written ==
    /\ robj # "in" /\ rthread = "transfer" /\ xfer.left = 0
    /\ Plus(xfer.packet, -1) /\ streamed' = xfer.packet /\ xfer' = NoXfer /\ rthread' = "main"
    /\ UNCHANGED <<robj, x_queue, flags, x_needle, rpd, passing, syncs, streamMade, lost>>
WriteGivesUp ==
    /\ robj # "in" /\ rthread = "transfer" /\ xfer.left > 0 /\ x_giveup
    /\ Plus(xfer.packet, -1) /\ xfer' = NoXfer /\ rthread' = "close"
    /\ UNCHANGED <<robj, x_queue, flags, x_needle, rpd, passing, syncs, streamMade, streamed, lost>>
(* Mutant: x_done is not set. *)
ExitQuietly ==
    /\ rthread \in {"close", "exit"} /\ rthread' = "ended"
    /\ UNCHANGED <<robj, x_queue, flags, x_needle, xfer, rpd, passing, syncs, streamUsers, streamMade, streamed, lost>>
ThreadExits ==
    /\ rthread \in {"close", "exit"} /\ x_done' = TRUE /\ rthread' = "ended"
    /\ UNCHANGED <<robj, x_queue, x_active, x_giveup, x_mode, x_max_queuesize, x_needle, xfer, rpd, passing, syncs,
                   streamUsers, streamMade, streamed, lost>>

--------------------------------------------------------------------------------
RawThread ==
    \/ ReadCreates \/ ReadCreateFails \/ ReadGivesUp \/ ThreadQueues \/ ThreadEnds
    \/ ThreadOpens \/ ThreadPolls \/ ThreadPops \/ Written \/ WriteGivesUp \/ ThreadExits
RawPipe == PipeBreaks \/ PipeMoves \/ ReaderComes
RawCalls == BangReads \/ GiveUp \/ Joined \/ SyncSets \/ RawFree \/ Passes \/ rawin_tick \/ rawout_tick
RawMessages ==
    \/ rawin_open \/ rawout_open \/ rawin_sync \/ rawin_bang \/ pdp_in \/ rawout_perform
    \/ Close("stop") \/ Close("free") \/ \E n \in QueueSizes : rawout_queuesize(n)
RawNext == RawThread \/ RawPipe \/ RawCalls \/ RawMessages
RawSpec == RawInit /\ [][RawNext]_rawVars
(* The thread runs and the clock ticks; the pipe need not move. *)
RawFair == WF_rawVars(RawThread) /\ WF_rawVars(RawCalls)

--------------------------------------------------------------------------------
One(b) == IF b THEN 1 ELSE 0
(* Every packet has one reference and one owner: the queue, the transfer,   *)
(* the audio input or the outlet.  The only packets that nobody owns are    *)
(* those that were in transfer when the pipe broke.                         *)
StreamCounted == \A p \in Stream : streamUsers[p] =
    Cardinality({i \in DOMAIN x_queue : x_queue[i] = p}) + One(xfer.packet = p)
    + One(passing = p) + One(x_needle.packet = p) + One(p \in lost)

(* Packets leave the queue in the order in which they came, through every   *)
(* opening and closing of the pipe.  (A bang passes the packet it read at   *)
(* once, before those that a change of mode left in the queue.)             *)
Line == IF robj = "in" THEN x_queue \o IF xfer = NoXfer THEN <<>> ELSE <<xfer.packet>>
        ELSE (IF xfer = NoXfer THEN <<>> ELSE <<xfer.packet>>) \o x_queue
StreamOrdered == \A i, j \in DOMAIN Line : i < j => Line[i] < Line[j] /\ streamed < Line[i]

(* The thread that found the queue not empty, without the lock, pops a      *)
(* packet, and audio is written inside its packet.                          *)
PopsPacket == rthread = "pop" => x_queue # <<>>
NeedleInside == x_needle.packet # NoPacket => x_needle.pos < Chunks

(* "stop thread: set giveup + wait" (pdp_rawin.c:257, pdp_rawout.c:369): an *)
(* object that is closed has no thread, whatever the modes it was opened    *)
(* and closed in.  Only so may free take the queue away.  (With OpensInSync *)
(* the patch opens in the mode that sync is about to change, and no later   *)
(* close waits for the thread.)                                            *)
ThreadJoined == ~x_active => rthread = "ended"

(* Thread, clock and messages share the list of packets: each packet has    *)
(* one owner, the order is kept through opening and closing, and what the   *)
(* thread saw without the lock still holds when it pops.                    *)
StreamSound == StreamCounted /\ StreamOrdered /\ PopsPacket /\ NeedleInside /\ ThreadJoined

(* A close, a free or a change of mode returns: the thread sees the request *)
(* wherever it is, except in the call that waits for a reader of the pipe.  *)
CloseReturns == \A c \in {"stop", "sync", "free"} : rpd = c ~> rpd # c \/ rthread = "blocked"

(* A writing thread that ended by itself is noticed and the object closed. *)
EndNoticed == robj # "in" /\ rthread = "ended" /\ x_active ~> ~x_active
StreamEnds == CloseReturns /\ EndNoticed

(* Read errors move the data back by one: not true. *)
DataInside == xfer.left <= Chunks
=============================================================================
