------------------------------- MODULE PdpBase -------------------------------
(***************************************************************************)
(* Objects of the base class (puredata/pdp_base.c) that pass packets       *)
(* through their outlets (pdp_comm.c) and process them in the processing   *)
(* queue.  The pd thread sends messages depth first: its stack holds what  *)
(* is left to do, the innermost call first.  The queue is the abstract     *)
(* TaskQueue that module ProcQueue implements.                             *)
(*                                                                         *)
(* A process method is one of four that the repository has: a generator    *)
(* (pdp_noise), a filter that works in place (pdp_gain), one that fills a  *)
(* packet of its own (pdp_zoom) and one that replaces the packet or        *)
(* deletes it (pdp_mat_mul).                                               *)
(***************************************************************************)
EXTENDS Integers, Sequences, FiniteSets

CONSTANTS
    Obj, NoObj,
    Kind,          \* the class of each object
    Wire,          \* the inlets <<object, inlet>> each outlet is connected to
    MaxCold,       \* cold inlets of an object
    NbHandles,     \* bound: packets of the pool
    Capacity,      \* tasks the queue holds
    MayFree,       \* objects that may be deleted
    Threaded,      \* objects that start in the thread: a class may disable it
    MayToggle      \* objects whose use of the thread may be switched

Inlet == 0 .. MaxCold
Cold == 1 .. MaxCold
Handle == 0 .. NbHandles - 1
NoPacket == -1
Packet == Handle \union {NoPacket}

ASSUME PatchAssumption ==
    /\ Kind \in [Obj -> {"noise", "gain", "zoom", "mat"}]
    /\ \A o \in Obj : Wire[o] \in Seq(Obj \X Inlet)
    /\ NoObj \notin Obj /\ IsFiniteSet(Obj)
    /\ MaxCold \in Nat /\ NbHandles \in Nat /\ Capacity \in Nat \ {0} 
    /\ MayFree \subseteq Obj /\ MayToggle \subseteq Obj /\ Threaded \subseteq Obj

VARIABLES
    b_packet, b_packet_next, b_queued, b_thread_enabled,
    x_packet,      \* the packet a derived class keeps besides those
    users,         \* reference counts
    alive,         \* objects that exist
    stack,         \* calls of the pd thread
    todo, done,    \* the queue
    given,         \* the packets an object had when its task was added
    processed      \* objects whose active packet was processed, or refused by a full queue

object == <<b_packet, b_packet_next, b_queued, b_thread_enabled, x_packet, alive>>
vars == <<object, users, stack, todo, done, given, processed>>

CancelledTask(t) == NoObj
Q == INSTANCE TaskQueue WITH Tasks <- Obj, Cancelled <- CancelledTask

Call == [op : {"ro", "rw", "process"}, obj : Obj, inlet : Inlet, packet : Packet]
        \union [op : {"unuse", "pass"}, obj : Obj, own : BOOLEAN]
        \union [op : {"discard", "direct"}, obj : Obj]
        \union [op : {"tick", "called"}]

TypeOK ==
    /\ b_packet \in [Obj -> [Inlet -> Packet]]
    /\ b_packet_next \in [Obj -> [Inlet -> Packet]]
    /\ b_queued \in [Obj -> BOOLEAN] /\ b_thread_enabled \in [Obj -> BOOLEAN]
    /\ x_packet \in [Obj -> Packet]
    /\ users \in [Handle -> Nat]
    /\ alive \subseteq Obj
    /\ stack \in Seq(Call)
    /\ todo \in Seq(Obj) /\ done \in Seq(Obj \union {NoObj})
    /\ Len(todo) + Len(done) <= Capacity
    /\ given \in [Obj -> [Inlet -> Packet]]
    /\ processed \subseteq Obj

NoPackets == [i \in Inlet |-> NoPacket]

(* pdp_base_init *)
Init ==
    /\ b_packet = [o \in Obj |-> NoPackets]
    /\ b_packet_next = [o \in Obj |-> NoPackets]
    /\ b_queued = [o \in Obj |-> FALSE]
    /\ b_thread_enabled = [o \in Obj |-> o \in Threaded]
    /\ x_packet = [o \in Obj |-> NoPacket]
    /\ users = [h \in Handle |-> 0]
    /\ alive = Obj
    /\ stack = <<>>
    /\ Q!TaskQueueInit
    /\ given = [o \in Obj |-> NoPackets]
    /\ processed = {}

-----------------------------------------------------------------------------
(* The packet pool, as these objects use it *)

(* A new packet.  The pool grows when all are in use: the bound NbHandles   *)
(* disables a step that would need one more.                               *)
Fresh == {h \in Handle : users[h] = 0 /\ \A g \in 0 .. h - 1 : users[g] > 0}
Retain(u, p) == IF p = NoPacket THEN u ELSE [u EXCEPT ![p] = @ + 1]
Release(u, p) == IF p = NoPacket THEN u ELSE [u EXCEPT ![p] = @ - 1]

-----------------------------------------------------------------------------
(* The pd thread *)

Top == Head(stack)
Do(op) == stack # <<>> /\ Top.op = op
Return == stack' = Tail(stack)
Run(calls) == stack' = calls \o Tail(stack)
Unqueued == UNCHANGED <<todo, done>>

(* The connections of an outlet, in their order: those to a deleted object *)
(* are gone.                                                               *)
Connected(o) ==
    LET wires == {n \in DOMAIN Wire[o] : Wire[o][n][1] \in alive}
    IN CHOOSE c \in [1 .. Cardinality(wires) -> wires] : \A i, j \in DOMAIN c : i < j => c[i] < c[j]

(* outlet_anything: one message to every connected inlet. *)
Send(op, o, p) ==
    LET c == Connected(o)
    IN [n \in DOMAIN c |-> [op |-> op, obj |-> Wire[o][c[n]][1], inlet |-> Wire[o][c[n]][2], packet |-> p]]

Pass(o, own) == [op |-> "pass", obj |-> o, own |-> own]
Passed(o, own) == IF own THEN x_packet[o] ELSE b_packet[o][0]
Clear(o, own) ==
    IF own THEN x_packet' = [x_packet EXCEPT ![o] = NoPacket] /\ UNCHANGED b_packet
    ELSE b_packet' = [b_packet EXCEPT ![o][0] = NoPacket] /\ UNCHANGED x_packet

pdp_packet_pass_if_valid ==
    /\ Do("pass")
    /\ LET o == Top.obj
           p == Passed(o, Top.own)
       IN Run(IF p = NoPacket THEN <<>>
              ELSE Send("ro", o, p) \o Send("rw", o, p)
                   \o <<[op |-> "unuse", obj |-> o, own |-> Top.own]>>
                   \o Send("process", o, NoPacket))
    /\ UNCHANGED <<object, users, given, processed>> /\ Unqueued

PassUnuse ==
    /\ Do("unuse")
    /\ users' = Release(users, Passed(Top.obj, Top.own))
    /\ Clear(Top.obj, Top.own)
    /\ processed' = processed \ {Top.obj}
    /\ Return
    /\ UNCHANGED <<b_packet_next, b_queued, b_thread_enabled, alive, given>> /\ Unqueued

(* pdp_base_postprocess with the postproc method of the class. *)
Postprocess(o) ==
    CASE Kind[o] = "noise" -> <<Pass(o, TRUE), Pass(o, FALSE)>>
      [] Kind[o] = "zoom" -> <<[op |-> "discard", obj |-> o], Pass(o, TRUE), Pass(o, FALSE)>>
      [] OTHER -> <<Pass(o, FALSE)>>

(* pdp_zoom_postproc deletes the source packet. *)
Discard ==
    /\ Do("discard")
    /\ users' = Release(users, b_packet[Top.obj][0])
    /\ b_packet' = [b_packet EXCEPT ![Top.obj][0] = NoPacket]
    /\ Return
    /\ UNCHANGED <<b_packet_next, b_queued, b_thread_enabled, x_packet, alive, given, processed>> /\ Unqueued

-----------------------------------------------------------------------------
(* Processing *)

(* pdp_packet_replace_if_valid, for the cold inlets. *)
Moved(o) == {i \in Cold : b_packet_next[o][i] # NoPacket}
AfterMove(o) ==
    [h \in Handle |-> users[h] - Cardinality({i \in Moved(o) : b_packet[o][i] = h})]

(* pdp_zoom_preproc makes the packet for the result. *)
Preproc(o) == Kind[o] = "zoom" /\ b_packet[o][0] # NoPacket

(* pdp_base_bang: `rest' is what the caller has left to do. *)
pdp_base_bang(o, rest) ==
    IF b_queued[o] THEN UNCHANGED <<object, users, given, processed>> /\ Unqueued /\ stack' = rest
    ELSE
    /\ b_packet' = [b_packet EXCEPT ![o] =
            [i \in Inlet |-> IF i \in Moved(o) THEN b_packet_next[o][i] ELSE b_packet[o][i]]]
    /\ b_packet_next' = [b_packet_next EXCEPT ![o] = NoPackets]
    /\ \E p \in IF Preproc(o) THEN Fresh ELSE {NoPacket} :
          /\ users' = Retain(AfterMove(o), p)
          /\ x_packet' = IF p = NoPacket THEN x_packet ELSE [x_packet EXCEPT ![o] = p]
    /\ IF ~b_thread_enabled[o]
       THEN /\ stack' = <<[op |-> "direct", obj |-> o]>> \o Postprocess(o) \o rest
            /\ UNCHANGED <<b_queued, given, processed>> /\ Unqueued
       ELSE IF Len(todo) + Len(done) < Capacity
       THEN /\ Q!Submit(o)
            /\ b_queued' = [b_queued EXCEPT ![o] = TRUE]
            /\ given' = [given EXCEPT ![o] = b_packet'[o]]
            /\ stack' = rest
            /\ UNCHANGED processed
       ELSE /\ stack' = Postprocess(o) \o rest   \* the queue is full
            /\ processed' = processed \union {o}
            /\ UNCHANGED <<b_queued, given>> /\ Unqueued
    /\ UNCHANGED <<b_thread_enabled, alive>>

(* pdp_base_process: what the process methods do to the packets. *)
pdp_base_process(o) ==
    /\ \/ /\ Kind[o] = "noise"
          /\ \E p \in Fresh :
                /\ users' = Retain(users, p)
                /\ x_packet' = [x_packet EXCEPT ![o] = p]
          /\ UNCHANGED b_packet
       \/ Kind[o] \in {"gain", "zoom"} /\ UNCHANGED <<b_packet, x_packet, users>>
       \/ /\ Kind[o] = "mat"   \* pdp_base_set_packet
          /\ \E result \in Fresh \union {NoPacket} :
                /\ users' = Retain(Release(users, b_packet[o][0]), result)
                /\ b_packet' = [b_packet EXCEPT ![o][0] = result]
          /\ UNCHANGED x_packet
    /\ processed' = processed \union {o}
    /\ given' = [given EXCEPT ![o] = NoPackets]
    /\ UNCHANGED <<b_packet_next, b_thread_enabled, alive>>

Direct ==
    /\ Do("direct")
    /\ pdp_base_process(Top.obj)
    /\ Return
    /\ UNCHANGED b_queued /\ Unqueued

(* Mutant: the process method is not called. *)
ThreadSkips == todo # <<>> /\ Q!Process /\ UNCHANGED <<object, users, stack, given, processed>>

(* The processing thread takes the oldest task. *)
Thread ==
    /\ todo # <<>>
    /\ pdp_base_process(Head(todo))
    /\ Q!Process
    /\ UNCHANGED <<b_queued, stack>>

-----------------------------------------------------------------------------
(* Inlets *)

Readonly(o) == Kind[o] = "mat"
Disabled(o) == Kind[o] = "noise"

(* A packet is registered in an empty register, or dropped: what a copy or *)
(* a conversion gives depends on the packet.                               *)
CopyRo(p) == {p}
CopyRw(p) == Fresh \union {NoPacket}

(* Mutant: the packet replaces the active one. *)
RegisterReplaces(o, copies) ==
    \E p \in copies :
        /\ users' = Retain(Release(users, b_packet[o][0]), p)
        /\ b_packet' = [b_packet EXCEPT ![o][0] = p]
        /\ processed' = processed \ {o}
        /\ UNCHANGED <<b_packet_next, b_queued, b_thread_enabled, x_packet, alive>>

Register(o, copies) ==
    IF b_packet[o][0] # NoPacket THEN UNCHANGED <<object, users, processed>>
    ELSE \E p \in copies :
            /\ users' = Retain(users, p)
            /\ b_packet' = [b_packet EXCEPT ![o][0] = p]
            /\ processed' = processed \ {o}
            /\ UNCHANGED <<b_packet_next, b_queued, b_thread_enabled, x_packet, alive>>

HotRegister ==
    /\ stack # <<>> /\ Top.op \in {"ro", "rw"} /\ Top.inlet = 0
    /\ CASE ~Disabled(Top.obj) /\ Readonly(Top.obj) /\ Top.op = "ro" -> Register(Top.obj, CopyRo(Top.packet))
         [] ~Disabled(Top.obj) /\ ~Readonly(Top.obj) /\ Top.op = "rw" -> Register(Top.obj, CopyRw(Top.packet))
         [] OTHER -> UNCHANGED <<object, users, processed>>
    /\ Return
    /\ UNCHANGED given /\ Unqueued

HotProcess ==
    /\ Do("process") /\ Top.inlet = 0
    /\ IF Disabled(Top.obj) \/ b_packet[Top.obj][0] = NoPacket \/ b_queued[Top.obj]
       THEN Return /\ UNCHANGED <<object, users, given, processed>> /\ Unqueued
       ELSE pdp_base_bang(Top.obj, Tail(stack))

pdp_base_input_cold ==
    /\ stack # <<>> /\ Top.op \in {"ro", "rw", "process"} /\ Top.inlet # 0
    /\ IF Top.op = "ro" /\ b_packet_next[Top.obj][Top.inlet] = NoPacket
       THEN /\ users' = Retain(users, Top.packet)
            /\ b_packet_next' = [b_packet_next EXCEPT ![Top.obj][Top.inlet] = Top.packet]
       ELSE UNCHANGED <<users, b_packet_next>>
    /\ Return
    /\ UNCHANGED <<b_packet, b_queued, b_thread_enabled, x_packet, alive, given, processed>> /\ Unqueued

-----------------------------------------------------------------------------
(* What starts the pd thread *)

BangGenerator(o) ==
    /\ stack = <<>> /\ o \in alive /\ Kind[o] = "noise"
    /\ pdp_base_bang(o, <<>>)

pdp_procqueue_tick ==
    /\ stack = <<>>
    /\ stack' = <<[op |-> "tick"]>>
    /\ UNCHANGED <<object, users, given, processed>> /\ Unqueued

(* Mutant: the queue id is reset after the callback. *)
TickKeepsId ==
    /\ Do("tick")
    /\ IF done = <<>> THEN Return
       ELSE Run((IF Head(done) = NoObj THEN <<>> ELSE Postprocess(Head(done)))
                \o <<[op |-> "called"], [op |-> "tick"]>>)
    /\ UNCHANGED <<object, users, given, processed>> /\ Unqueued

(* pdp_procqueue_callback: the slot is given up after the callback. *)
Tick ==
    /\ Do("tick")
    /\ IF done = <<>> THEN Return /\ UNCHANGED b_queued
       ELSE LET o == Head(done) IN
            IF o = NoObj
            THEN Run(<<[op |-> "called"], [op |-> "tick"]>>) /\ UNCHANGED b_queued
            ELSE /\ b_queued' = [b_queued EXCEPT ![o] = FALSE]
                 /\ Run(Postprocess(o) \o <<[op |-> "called"], [op |-> "tick"]>>)
    /\ UNCHANGED <<b_packet, b_packet_next, b_thread_enabled, x_packet, alive, users, given, processed>> /\ Unqueued

Called ==
    /\ Do("called")
    /\ Q!CallBack
    /\ Return
    /\ UNCHANGED <<object, users, given, processed>>

pdp_base_thread(o) ==
    /\ stack = <<>> /\ o \in alive \intersect MayToggle
    /\ b_thread_enabled' = [b_thread_enabled EXCEPT ![o] = ~@]
    /\ UNCHANGED <<b_packet, b_packet_next, b_queued, x_packet, alive, users, stack, given, processed>>
    /\ Unqueued

(* The references an object holds. *)
Held(o, h) ==
    Cardinality({i \in Inlet : b_packet[o][i] = h}) + Cardinality({i \in Inlet : b_packet_next[o][i] = h})
    + (IF x_packet[o] = h THEN 1 ELSE 0)

(* Mutant: the packets of the cold inlets that wait are not released. *)
FreeKeepsNext(o) ==
    /\ stack = <<>> /\ o \in alive \intersect MayFree
    /\ b_queued[o] => todo = <<>>
    /\ done' = [n \in DOMAIN done |-> IF done[n] = o THEN NoObj ELSE done[n]]
    /\ users' = [h \in Handle |-> users[h] - Cardinality({i \in Inlet : b_packet[o][i] = h})]
    /\ b_packet' = [b_packet EXCEPT ![o] = NoPackets]
    /\ b_packet_next' = [b_packet_next EXCEPT ![o] = NoPackets]
    /\ x_packet' = [x_packet EXCEPT ![o] = NoPacket]
    /\ b_queued' = [b_queued EXCEPT ![o] = FALSE]
    /\ alive' = alive \ {o}
    /\ UNCHANGED <<b_thread_enabled, stack, todo, given, processed>>

(* pdp_procqueue_finish waits for the thread and cancels the callback; the *)
(* classes release the packet they keep themselves.                        *)
pdp_base_free(o) ==
    /\ stack = <<>> /\ o \in alive \intersect MayFree
    /\ b_queued[o] => todo = <<>>
    /\ done' = [n \in DOMAIN done |-> IF done[n] = o THEN NoObj ELSE done[n]]
    /\ users' = [h \in Handle |-> users[h] - Held(o, h)]
    /\ b_packet' = [b_packet EXCEPT ![o] = NoPackets]
    /\ b_packet_next' = [b_packet_next EXCEPT ![o] = NoPackets]
    /\ x_packet' = [x_packet EXCEPT ![o] = NoPacket]
    /\ b_queued' = [b_queued EXCEPT ![o] = FALSE]
    /\ alive' = alive \ {o}
    /\ UNCHANGED <<b_thread_enabled, stack, todo, given, processed>>

-----------------------------------------------------------------------------
Dispatch ==
    \/ pdp_packet_pass_if_valid \/ PassUnuse \/ Discard \/ Direct
    \/ HotRegister \/ HotProcess \/ pdp_base_input_cold
    \/ Tick \/ Called

Next ==
    \/ Dispatch \/ Thread \/ pdp_procqueue_tick
    \/ \E o \in Obj : BangGenerator(o) \/ pdp_base_thread(o) \/ pdp_base_free(o)

Spec == Init /\ [][Next]_vars

(* The pd thread goes on with what it does, the processing thread runs and *)
(* the clock of the queue ticks.                                           *)
FairSpec == Spec /\ WF_vars(Dispatch) /\ WF_vars(Thread) /\ SF_vars(pdp_procqueue_tick)

-----------------------------------------------------------------------------
(* Every reference an object holds is counted and nothing else is: no      *)
(* packet leaks or is released twice, whatever is dropped, replaced,       *)
(* cancelled or deleted while tasks are pending.                           *)
RefCount ==
    \A h \in Handle : users[h] = Cardinality({r \in Obj \X Inlet : b_packet[r[1]][r[2]] = h})
                               + Cardinality({r \in Obj \X Inlet : b_packet_next[r[1]][r[2]] = h})
                               + Cardinality({o \in Obj : x_packet[o] = h})

(* A packet in a register message is still referenced when the message is  *)
(* received: the sender unregisters it only after both register phases.    *)
MessageReferenced ==
    stack # <<>> /\ Top.op \in {"ro", "rw"} => users[Top.packet] > 0

(* While an object's task waits or runs, the packets it was banged with    *)
(* stay in its registers: no inlet, feedback or deletion takes them away   *)
(* from the processing thread.                                             *)
TaskOwnsPackets == \A n \in DOMAIN todo : b_packet[todo[n]] = given[todo[n]]

(* The packet that a process method writes has no other reader. *)
Written(o) == CASE Kind[o] = "gain" -> {b_packet[o][0]}
                [] Kind[o] = "zoom" -> {x_packet[o]}
                [] OTHER -> {}
WriteExclusive ==
    \A n \in DOMAIN todo : \A p \in Written(todo[n]) \ {NoPacket} : users[p] = 1

(* The packet that leaves the outlet of the base class is the result of    *)
(* the process method, unless the full queue refused the task.             *)
OutputProcessed(o) == Do("pass") /\ ~Top.own /\ Top.obj = o /\ b_packet[o][0] # NoPacket => o \in processed
PassedProcessed == \A o \in Obj : Kind[o] # "mat" => OutputProcessed(o)

(* The same for the process methods that delete the packet when they fail. *)
MatrixProcessed == \A o \in Obj : Kind[o] = "mat" => OutputProcessed(o)

(* A cold inlet keeps the packet it received last, as its comment says. *)
ColdNewest ==
    [][Do("ro") /\ Top.inlet # 0 => b_packet_next'[Top.obj][Top.inlet] = Top.packet]_vars

(* Sending ends: feedback into a cold inlet, or through the queue, does    *)
(* not keep the pd thread in a loop.                                       *)
DispatchEnds == stack # <<>> ~> stack = <<>>

(* A packet that was accepted by a hot inlet leaves the object again.      *)
HotLeaves == \A o \in Obj : b_packet[o][0] # NoPacket ~> b_packet[o][0] = NoPacket

(* Packets have owners: a message's packet is referenced, a queued task    *)
(* keeps the packets it was given, and who writes a packet has it alone.   *)
PacketsOwned == TypeOK /\ MessageReferenced /\ TaskOwnsPackets /\ WriteExclusive

(* Messages end and packets leave: no loop of the patch, no full queue and *)
(* no toggling of the thread stops them.                                   *)
Lively == DispatchEnds /\ HotLeaves
=============================================================================
