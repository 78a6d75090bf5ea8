---------------------------- MODULE FrameObjects ----------------------------
(* The objects that keep packets: pdp_loop, pdp_del, pdp_reg, pdp_snap and  *)
(* pdp_convert (modules/generic).  All of them run in the pd thread; what   *)
(* makes them hard is that an outlet call is a call into the patch, which   *)
(* may send messages back before it returns.  Such a call is a frame: while *)
(* it is open the patch takes references to the packet and sends the        *)
(* messages in Nested.                                                      *)
EXTENDS Integers, Sequences, FiniteSets

CONSTANTS
    NbFrames,      (* packets of the pool *)
    Sizes,         (* sizes asked of pdp_loop *)
    Positions,     (* positions and durations, negative ones too *)
    DelayOrder,    (* creation argument of pdp_del *)
    Nested,        (* messages the patch sends from inside an outlet call *)
    MaxHead        (* bound on play_head *)

ASSUME FrameAssumption ==
    /\ NbFrames \in Nat /\ Sizes \subseteq Int /\ Positions \subseteq Int
    /\ DelayOrder \in Int /\ MaxHead \in Int

VARIABLES
    fobj,          (* the object: its class *)
    users,         (* packet -> references *)
    patch,         (* packet -> references of the patch *)
    x_packet,      (* the packets the object keeps, in slots 0 .. x_order - 1 *)
    x_play_head, x_record_head, x_recording_frames, x_loop,       (* pdp_loop *)
    x_head, x_delay,                                              (* pdp_del *)
    x_snapnext,                                                   (* pdp_snap *)
    frame,         (* the open outlet call *)
    history,       (* packets registered with pdp_del, the last one first *)
    awaiting       (* pdp_del: the process message follows the register *)

loopVars == <<x_play_head, x_record_head, x_recording_frames, x_loop>>
delVars == <<x_head, x_delay, history, awaiting>>
frameVars == <<fobj, users, patch, x_packet, loopVars, delVars, x_snapnext, frame>>

Frames == 1..NbFrames
None == -1
NoFrame == [phase |-> "none", packet |-> None]
Slots(n) == 0..n - 1
x_order == Cardinality(DOMAIN x_packet)
Empty(n) == [i \in Slots(n) |-> None]

pdp_loop_realsize(f) == IF f <= 2 THEN 2 ELSE f
DelSlots == IF DelayOrder + 1 <= 2 THEN 2 ELSE DelayOrder + 1
SlotsOf(class) == CASE class = "loop" -> pdp_loop_realsize(0) [] class = "del" -> DelSlots [] OTHER -> 1

FrameInit ==
    /\ fobj \in {"loop", "del", "reg", "snap", "convert"}
    /\ users = [p \in Frames |-> 0] /\ patch = [p \in Frames |-> 0]
    /\ x_packet = Empty(SlotsOf(fobj))
    /\ x_play_head = 0 /\ x_record_head = 0 /\ x_recording_frames = 0 /\ x_loop = TRUE
    /\ x_head = 0 /\ x_delay = (IF DelayOrder < 0 THEN 0 ELSE DelayOrder)
    /\ x_snapnext = FALSE
    /\ frame = NoFrame /\ history = <<>> /\ awaiting = FALSE

(* References are given back and made in one go, as a handler does. *)
Times(f, p) == Cardinality({i \in DOMAIN f : f[i] = p})
Changed(u, out, in) == [p \in Frames |-> u[p] - Times(out, p) + Times(in, p)]
Update(out, in) == users' = Changed(users, out, in)

Outside(m) == frame = NoFrame \/ m \in Nested

--------------------------------------------------------------------------------
(* The patch: it makes packets, keeps some and lets them go. *)
PatchMakes == \E p \in Frames :
    /\ users[p] = 0 /\ frame = NoFrame
    /\ Update(<<>>, <<p>>) /\ patch' = [patch EXCEPT ![p] = 1]
    /\ UNCHANGED <<fobj, x_packet, loopVars, delVars, x_snapnext, frame>>
PatchKeeps ==
    /\ frame.phase = "pdp" /\ frame.packet # None /\ patch[frame.packet] = 0
    /\ Update(<<>>, <<frame.packet>>) /\ patch' = [patch EXCEPT ![frame.packet] = 1]
    /\ UNCHANGED <<fobj, x_packet, loopVars, delVars, x_snapnext, frame>>
PatchReleases == \E p \in Frames :
    /\ patch[p] = 1 /\ frame = NoFrame
    /\ Update(<<p>>, <<>>) /\ patch' = [patch EXCEPT ![p] = 0]
    /\ UNCHANGED <<fobj, x_packet, loopVars, delVars, x_snapnext, frame>>

(* The packet of slot i is replaced by a reference to p. *)
Store(i, p) ==
    /\ Update(<<x_packet[i]>>, <<p>>)
    /\ x_packet' = [x_packet EXCEPT ![i] = p]

--------------------------------------------------------------------------------
(* pdp_loop *)
pdp_loop_input_0(p) ==
    /\ fobj = "loop" /\ patch[p] = 1 /\ Outside("input") /\ x_recording_frames # 0
    /\ IF x_record_head \in DOMAIN x_packet THEN Store(x_record_head, p) ELSE UNCHANGED <<users, x_packet>>
    /\ x_record_head' = x_record_head + 1
    /\ x_recording_frames' = IF x_record_head + 1 = x_order THEN 0 ELSE x_recording_frames - 1
    /\ UNCHANGED <<fobj, patch, x_play_head, x_loop, delVars, x_snapnext, frame>>

(* The position leaves first, then the packet that was there before. *)
pdp_loop_bang ==
    /\ fobj = "loop" /\ frame = NoFrame /\ x_play_head < MaxHead
    /\ x_loop \/ x_play_head < x_order
    /\ frame' = [phase |-> "float", packet |-> x_packet[x_play_head % x_order]]
    /\ UNCHANGED <<fobj, users, patch, x_packet, loopVars, delVars, x_snapnext>>
LoopOutputs ==
    /\ fobj = "loop" /\ frame.phase = "float"
    /\ frame' = [frame EXCEPT !.phase = "pdp"]
    /\ UNCHANGED <<fobj, users, patch, x_packet, loopVars, delVars, x_snapnext>>
LoopAdvances ==
    /\ fobj = "loop" /\ frame.phase = "pdp"
    /\ frame' = NoFrame /\ x_play_head' = x_play_head + 1
    /\ UNCHANGED <<fobj, users, patch, x_packet, x_record_head, x_recording_frames, x_loop, delVars, x_snapnext>>

All(x) == [i \in 1..Cardinality(DOMAIN x) |-> x[i - 1]]
pdp_loop_reset ==
    /\ fobj = "loop" /\ Outside("reset")
    /\ Update(All(x_packet), <<>>) /\ x_packet' = Empty(x_order)
    /\ x_play_head' = 0 /\ x_record_head' = 0
    /\ UNCHANGED <<fobj, patch, x_recording_frames, x_loop, delVars, x_snapnext, frame>>

(* C's remainder, made positive. *)
Wrapped(i) == i % x_order

pdp_loop_record(start, dur) ==
    /\ fobj = "loop" /\ Outside("record")
    /\ x_record_head' = Wrapped(start)
    /\ x_recording_frames' = IF dur <= 0 THEN x_order - Wrapped(start) ELSE dur
    /\ UNCHANGED <<fobj, users, patch, x_packet, x_play_head, x_loop, delVars, x_snapnext, frame>>
pdp_loop_store(i) == pdp_loop_record(i, 1)
pdp_loop_seek(i) ==
    /\ fobj = "loop" /\ Outside("seek")
    /\ x_play_head' = Wrapped(i)
    /\ UNCHANGED <<fobj, users, patch, x_packet, x_record_head, x_recording_frames, x_loop, delVars, x_snapnext, frame>>
pdp_loop_seek_hot(i) ==
    /\ fobj = "loop" /\ frame = NoFrame
    /\ x_play_head' = Wrapped(i)
    /\ frame' = [phase |-> "float", packet |-> x_packet[Wrapped(i)]]
    /\ UNCHANGED <<fobj, users, patch, x_packet, x_record_head, x_recording_frames, x_loop, delVars, x_snapnext>>
pdp_loop_stop ==
    /\ fobj = "loop" /\ Outside("stop") /\ x_recording_frames' = 0
    /\ UNCHANGED <<fobj, users, patch, x_packet, x_play_head, x_record_head, x_loop, delVars, x_snapnext, frame>>
pdp_loop_loop(on) ==
    /\ fobj = "loop" /\ Outside("loop") /\ x_loop' = on
    /\ UNCHANGED <<fobj, users, patch, x_packet, x_play_head, x_record_head, x_recording_frames, delVars, x_snapnext, frame>>

(* Mutant: the new slots take the old handles without a reference. *)
ResizeShares(f) ==
    LET order == pdp_loop_realsize(f)
        new == [i \in Slots(order) |-> x_packet[i % x_order]]
    IN  /\ fobj = "loop" /\ Outside("size") /\ order # x_order
        /\ x_packet' = new
        /\ Update([i \in 1..x_order - order |-> x_packet[order + i - 1]], <<>>)
        /\ x_play_head' = IF order < x_order THEN x_play_head % order ELSE x_play_head
        /\ x_record_head' = IF order < x_order THEN x_record_head % order ELSE x_record_head
        /\ UNCHANGED <<fobj, patch, x_recording_frames, x_loop, delVars, x_snapnext, frame>>
(* A longer loop repeats the old one, with references of its own; a shorter *)
(* one lets the rest go and moves the heads back into it.                   *)
pdp_loop_resize(f) ==
    LET order == pdp_loop_realsize(f)
        new == [i \in Slots(order) |-> x_packet[i % x_order]]
    IN  /\ fobj = "loop" /\ Outside("size") /\ order # x_order
        /\ x_packet' = new
        /\ Update([i \in 1..x_order - order |-> x_packet[order + i - 1]],
                  [i \in 1..order - x_order |-> new[x_order + i - 1]])
        /\ x_play_head' = IF order < x_order THEN x_play_head % order ELSE x_play_head
        /\ x_record_head' = IF order < x_order THEN x_record_head % order ELSE x_record_head
        /\ UNCHANGED <<fobj, patch, x_recording_frames, x_loop, delVars, x_snapnext, frame>>

LoopStep ==
    \/ \E p \in Frames : pdp_loop_input_0(p)
    \/ pdp_loop_bang \/ LoopOutputs \/ LoopAdvances \/ pdp_loop_reset \/ pdp_loop_stop
    \/ \E i \in Positions : pdp_loop_store(i) \/ pdp_loop_seek(i) \/ pdp_loop_seek_hot(i)
    \/ \E i, j \in Positions : pdp_loop_record(i, j)
    \/ \E b \in BOOLEAN : pdp_loop_loop(b)
    \/ \E f \in Sizes : pdp_loop_resize(f)

--------------------------------------------------------------------------------
(* pdp_del: a packet is stored at the head when it is registered, and the   *)
(* process message sends the one x_delay slots further.                     *)
DelRegister(p) ==
    /\ fobj = "del" /\ patch[p] = 1 /\ frame = NoFrame /\ ~awaiting
    /\ Store(x_head % x_order, p)
    /\ history' = SubSeq(<<p>> \o history, 1, IF Len(history) < x_order THEN Len(history) + 1 ELSE x_order)
    /\ awaiting' = TRUE
    /\ UNCHANGED <<fobj, patch, loopVars, x_head, x_delay, x_snapnext, frame>>

(* A copy is passed: announced, released and processed. *)
DelProcess ==
    /\ fobj = "del" /\ frame = NoFrame /\ awaiting
    /\ LET p == x_packet[(x_head + x_delay) % x_order]
       IN  frame' = [phase |-> "pdp", packet |-> p] /\ Update(<<>>, <<p>>)
    /\ UNCHANGED <<fobj, patch, x_packet, loopVars, delVars, x_snapnext>>
DelAdvances ==
    /\ fobj = "del" /\ frame # NoFrame
    /\ Update(<<frame.packet>>, <<>>) /\ frame' = NoFrame
    /\ x_head' = (x_head + x_order - 1) % x_order /\ awaiting' = FALSE
    /\ UNCHANGED <<fobj, patch, x_packet, loopVars, x_delay, history, x_snapnext>>
pdp_del_delay(d) ==
    /\ fobj = "del" /\ frame = NoFrame
    /\ x_delay' = IF d < 0 THEN 0 ELSE IF d >= x_order THEN x_order - 1 ELSE d
    /\ UNCHANGED <<fobj, users, patch, x_packet, loopVars, x_head, history, awaiting, x_snapnext, frame>>
pdp_del_reset ==
    /\ fobj = "del" /\ frame = NoFrame
    /\ Update(All(x_packet), <<>>) /\ x_packet' = Empty(x_order)
    /\ x_head' = 0 /\ history' = [i \in DOMAIN history |-> None]
    /\ UNCHANGED <<fobj, patch, loopVars, x_delay, awaiting, x_snapnext, frame>>
DelStep == \/ \E p \in Frames : DelRegister(p)
           \/ DelProcess \/ DelAdvances \/ pdp_del_reset
           \/ \E d \in Positions : pdp_del_delay(d)

--------------------------------------------------------------------------------
(* pdp_reg, pdp_snap and pdp_convert keep one packet. *)
pdp_reg_input(p) ==
    /\ fobj = "reg" /\ patch[p] = 1 /\ Outside("input")
    /\ Store(0, p)
    /\ UNCHANGED <<fobj, patch, loopVars, delVars, x_snapnext, frame>>
(* A file that cannot be read leaves the packet alone. *)
pdp_reg_load_png(p) ==
    /\ fobj = "reg" /\ users[p] = 0 /\ Outside("input")
    /\ Store(0, p)
    /\ UNCHANGED <<fobj, patch, loopVars, delVars, x_snapnext, frame>>
pdp_snap_snap ==
    /\ fobj = "snap" /\ Outside("snap") /\ x_snapnext' = TRUE
    /\ UNCHANGED <<fobj, users, patch, x_packet, loopVars, delVars, frame>>
pdp_snap_input_1(p) ==
    /\ fobj = "snap" /\ patch[p] = 1 /\ Outside("input") /\ x_snapnext
    /\ Store(0, p) /\ x_snapnext' = FALSE
    /\ UNCHANGED <<fobj, patch, loopVars, delVars, frame>>
HoldBang ==
    /\ fobj \in {"reg", "snap"} /\ frame = NoFrame /\ x_packet[0] # None
    /\ frame' = [phase |-> "pdp", packet |-> x_packet[0]]
    /\ UNCHANGED <<fobj, users, patch, x_packet, loopVars, delVars, x_snapnext>>
HoldReturns ==
    /\ fobj \in {"reg", "snap"} /\ frame # NoFrame /\ frame' = NoFrame
    /\ UNCHANGED <<fobj, users, patch, x_packet, loopVars, delVars, x_snapnext>>
(* The packet is converted or copied; a conversion makes a packet or fails. *)
ConvertRegister(p) ==
    /\ fobj = "convert" /\ patch[p] = 1 /\ Outside("input")
    /\ \E q \in {r \in Frames : users[r] = 0} \cup {p, None} : Store(0, q)
    /\ UNCHANGED <<fobj, patch, loopVars, delVars, x_snapnext, frame>>
(* The packet is announced, released and forgotten, and only then processed. *)
ConvertProcess ==
    /\ fobj = "convert" /\ frame = NoFrame /\ x_packet[0] # None
    /\ frame' = [phase |-> "pdp", packet |-> x_packet[0]]
    /\ UNCHANGED <<fobj, users, patch, x_packet, loopVars, delVars, x_snapnext>>
ConvertPassed ==
    /\ fobj = "convert" /\ frame # NoFrame
    /\ Update(<<x_packet[0]>>, <<>>) /\ x_packet' = [x_packet EXCEPT ![0] = None]
    /\ frame' = NoFrame
    /\ UNCHANGED <<fobj, patch, loopVars, delVars, x_snapnext>>
HoldStep == \/ \E p \in Frames : \/ pdp_reg_input(p) \/ pdp_reg_load_png(p)
                                 \/ pdp_snap_input_1(p) \/ ConvertRegister(p)
            \/ pdp_snap_snap \/ HoldBang \/ HoldReturns \/ ConvertProcess \/ ConvertPassed

(* Every packet is let go. *)
ObjectFree ==
    /\ frame = NoFrame
    /\ Update(All(x_packet), <<>>) /\ x_packet' = Empty(x_order)
    /\ fobj' = "freed"
    /\ UNCHANGED <<patch, loopVars, delVars, x_snapnext, frame>>

FrameNext == PatchMakes \/ PatchKeeps \/ PatchReleases \/ LoopStep \/ DelStep \/ HoldStep \/ ObjectFree
FrameSpec == FrameInit /\ [][FrameNext]_frameVars

--------------------------------------------------------------------------------
Kept(p) == Times(x_packet, p)
Passed(p) == IF fobj = "del" /\ frame.packet = p THEN 1 ELSE 0

(* Every reference has an owner: a slot of the object, the patch, or the    *)
(* copy that pdp_del passes.  Resizing, resetting, recording over a frame   *)
(* and freeing the object lose none and give none back twice.               *)
FramesCounted == \A p \in Frames : users[p] = Kept(p) + patch[p] + Passed(p)

(* While it records pdp_loop writes inside its array, whatever record,      *)
(* store, size, reset and stop messages came before.                        *)
RecordInside == x_recording_frames # 0 => x_record_head \in DOMAIN x_packet \/ fobj = "freed"

(* pdp_del sends the packet that was registered x_delay messages before,    *)
(* through changes of the delay and resets.                                 *)
DelayExact == fobj = "del" /\ frame # NoFrame =>
    frame.packet = IF x_delay + 1 \in DOMAIN history THEN history[x_delay + 1] ELSE None

(* A packet is alive while it is being sent out.  With every message in     *)
(* Nested it does not hold: pdp_loop reads the handle before the position   *)
(* leaves, and the patch may reset, resize or record in between.            *)
OutputAlive == frame.phase = "pdp" /\ frame.packet # None => users[frame.packet] > 0

(* The objects that keep packets own each of them once through every        *)
(* message, also those sent from inside their outlet call; they record      *)
(* inside the loop, delay by the frames asked for and send out packets that *)
(* are alive.                                                               *)
FrameSound == FramesCounted /\ RecordInside /\ DelayExact /\ OutputAlive
=============================================================================
