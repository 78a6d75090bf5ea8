------------------------------ MODULE PacketPool ------------------------------
(***************************************************************************)
(* The packet pool (system/kernel/pdp_packet.c): an array of reference     *)
(* counted packets shared by the pd thread and the processing threads, and *)
(* one reuse fifo per type description, a hint cache of unused packets     *)
(* that pdp_packet_new bypasses.                                           *)
(*                                                                         *)
(* A section between LOCK and UNLOCK is one step, except the loop of       *)
(* pdp_packet_reuse, which takes one step per fifo element and holds       *)
(* `lock' in between.  References are the program's packet variables (Var) *)
(* and, while an operation runs, the handle its thread has obtained.  A    *)
(* variable is operated on by one thread at a time; its callers see to     *)
(* that (pdp_base.c, through the processing queue).                        *)
(***************************************************************************)
EXTENDS Integers, FiniteSets, Sequences

CONSTANTS
    Thread, Var,
    Data,          \* contents of a packet
    Type,          \* type descriptions without wildcards
    SizeOf,        \* data size of each type
    Canon,         \* the description the class constructor gives when asked for a type
    NoFactory,     \* types whose class has no create method, or one that fails
    Scarce,        \* types for whose clones the constructor may find no memory
    Impure,        \* types whose class has a cleanup method
    Sleepy,        \* types whose class has a sleep method
    DoNotCopy,     \* types created with PDP_FLAG_DONOTCOPY
    SwappedCopy,   \* types whose copy method takes (dst, src)
    Shared,        \* types the program copies read-only
    InitialSize,   \* PDP_INITIAL_POOL_SIZE
    MaxPool,       \* bound: no memory for more packets than this
    Null           \* an empty slot of the pool

Handle == 0 .. MaxPool - 1
Invalid == -1
NoDesc == "none"
None == "none"
Ref == Var \union Thread

ASSUME RefAssumption == IsFiniteSet(Var) /\ IsFiniteSet(Thread) /\ Var \cap Thread = {}
ASSUME NoneAssumption == NoDesc \notin Type /\ None \notin Thread /\ None \notin Var
ASSUME SizeAssumption == InitialSize \in Nat \ {0} /\ MaxPool \in Nat /\ InitialSize <= MaxPool
ASSUME TypeAssumption ==
    /\ SizeOf \in [Type -> Nat] /\ Canon \in [Type -> Type]
    /\ \A t \in Type : Canon[Canon[t]] = Canon[t]
    /\ \A s \in {NoFactory, Scarce, Impure, Sleepy, DoNotCopy, SwappedCopy, Shared} : s \subseteq Type

VARIABLES
    pool,          \* the packet at each handle, or Null
    pool_size,
    fifo,          \* s_reusefifo of each type description, next to pop first
    ref,           \* the handle each reference holds
    op,            \* the operation each thread is in
    lock           \* who holds pdp_pool_mutex between two steps

vars == <<pool, pool_size, fifo, ref, op, lock>>

Header == [users : Nat, desc : Type \union {NoDesc}, size : Nat, data : Data]

ASSUME NullAssumption == Null \notin Header \union Data

Reuse == {"reuse", "factory"}
Pc == Reuse \union {"idle", "construct", "create", "init", "delete", "fallback",
       "fallback_create", "fallback_init", "copy", "release", "sleep", "cleanup",
       "return", "crash"}
OpName == {"none", "new", "factory", "clone", "copy_rw", "replace", "mark_unused", "delete"}

Op == [pc : Pc, op : OpName, type : Type \union {NoDesc}, src : Var \union {None},
       dst : Var \union {None}]
Idle == [pc |-> "idle", op |-> "none", type |-> NoDesc, src |-> None, dst |-> None]

TypeOK ==
    /\ pool \in [Handle -> Header \union {Null}]
    /\ pool_size \in 1 .. MaxPool
    /\ fifo \in [Type -> Seq(Handle)]
    /\ ref \in [Ref -> Handle \union {Invalid}]
    /\ op \in [Thread -> Op]
    /\ lock \in Thread \union {None}

(* pdp_packet_setup *)
Init ==
    /\ pool = [h \in Handle |-> Null]
    /\ pool_size = InitialSize
    /\ fifo = [t \in Type |-> <<>>]
    /\ ref = [r \in Ref |-> Invalid]
    /\ op = [t \in Thread |-> Idle]
    /\ lock = None

-----------------------------------------------------------------------------
(* pdp_packet_header *)
Valid(h) == h \in Handle /\ h < pool_size /\ pool[h] # Null

Elems(s) == {s[i] : i \in DOMAIN s}
Least(S) == CHOOSE h \in S : \A g \in S : h <= g

Goto(t, pc) == op' = [op EXCEPT ![t].pc = pc]
Return(t) == op' = [op EXCEPT ![t] = Idle]

(* Variables no running operation works on. *)
Free(v) == \A t \in Thread : op[t].src # v /\ op[t].dst # v
Holds(t, v) == op[t].pc = "idle" /\ Free(v) /\ Valid(ref[v])
Vacant(t, v) == op[t].pc = "idle" /\ Free(v) /\ ref[v] = Invalid

Start(t, name, pc, type, src, dst) ==
    op' = [op EXCEPT ![t] = [pc |-> pc, op |-> name, type |-> type, src |-> src, dst |-> dst]]

(* _pdp_packet_save_nolock: h joins the fifo of its type unless it is there. *)
Save(F, h, type) == IF h \in Elems(F[type]) THEN F ELSE [F EXCEPT ![type] = <<h>> \o @]

(***************************************************************************)
(* The end of an attempt to obtain a packet: with a packet, the data is    *)
(* copied next or the caller gets it; without, a constructor returns -1    *)
(* and pdp_packet_replace_with_writable goes on to release the old packet. *)
(***************************************************************************)
Obtained(t) == Goto(t, IF op[t].op \in {"copy_rw", "replace"} THEN "copy" ELSE "return")
Failed(t) == IF op[t].op = "replace" THEN Goto(t, "release") ELSE Return(t)

(* pdp_factory_newpacket once nothing could be reused: the constructor of  *)
(* the class, or nothing; pdp_packet_clone_rw then clones by hand.         *)
Constructor(t) ==
    IF op[t].type \notin NoFactory THEN Goto(t, "construct")
    ELSE IF op[t].op = "factory" THEN Return(t)
    ELSE Goto(t, "fallback")

-----------------------------------------------------------------------------
(* Operations on packet variables *)

(* A type specific constructor (pdp_packet_new_image_grey, ...) called by the program. *)
pdp_packet_new_type(t, type, v) ==
    /\ Vacant(t, v) /\ Canon[type] = type
    /\ Start(t, "new", "construct", type, None, v)
    /\ UNCHANGED <<pool, pool_size, fifo, ref, lock>>

pdp_factory_newpacket(t, type, v) ==
    /\ Vacant(t, v)
    /\ Start(t, "factory", "factory", type, None, v)
    /\ UNCHANGED <<pool, pool_size, fifo, ref, lock>>

pdp_packet_copy_ro(t, v, w) ==
    /\ Holds(t, v) /\ Vacant(t, w) /\ lock = None
    /\ pool[ref[v]].desc \in Shared
    /\ pool' = [pool EXCEPT ![ref[v]].users = @ + 1]
    /\ ref' = [ref EXCEPT ![w] = ref[v]]
    /\ UNCHANGED <<pool_size, fifo, op, lock>>

pdp_packet_clone_rw(t, v, w) ==
    /\ Holds(t, v) /\ Vacant(t, w)
    /\ Start(t, "clone", "reuse", pool[ref[v]].desc, v, w)
    /\ UNCHANGED <<pool, pool_size, fifo, ref, lock>>

pdp_packet_copy_rw(t, v, w) ==
    /\ Holds(t, v) /\ Vacant(t, w)
    /\ pool[ref[v]].desc \notin DoNotCopy
    /\ Start(t, "copy_rw", "reuse", pool[ref[v]].desc, v, w)
    /\ UNCHANGED <<pool, pool_size, fifo, ref, lock>>

WritableTwo(v) == pool[ref[v]].users <= 2   \* mutant: a packet with two users counts as writable
pdp_packet_writable(v) == pool[ref[v]].users = 1

(* Only a packet that is not writable is replaced. *)
pdp_packet_replace_with_writable(t, v) ==
    /\ Holds(t, v) /\ ~pdp_packet_writable(v)
    /\ LET type == pool[ref[v]].desc IN
       Start(t, "replace", IF type \in DoNotCopy THEN "release" ELSE "reuse", type, v, v)
    /\ UNCHANGED <<pool, pool_size, fifo, ref, lock>>

(* A user writes the packet it may write. *)
Write(t, v, d) ==
    /\ Holds(t, v) /\ pdp_packet_writable(v)
    /\ pool' = [pool EXCEPT ![ref[v]].data = d]
    /\ UNCHANGED <<pool_size, fifo, ref, op, lock>>

-----------------------------------------------------------------------------
(***************************************************************************)
(* One round of the loop of pdp_packet_reuse, for pdp_packet_clone_rw      *)
(* ("reuse") and for pdp_factory_newpacket ("factory").  The header of the *)
(* popped handle is used without a test: if the packet was deleted, the    *)
(* program is lost ("crash").                                              *)
(***************************************************************************)
ReuseEmpty(t) ==
    /\ op[t].pc \in Reuse /\ lock \in {None, t}
    /\ fifo[op[t].type] = <<>>
    /\ lock' = None
    /\ IF op[t].pc = "reuse" THEN Goto(t, "factory") ELSE Constructor(t)
    /\ UNCHANGED <<pool, pool_size, fifo, ref>>

Popping(t) == op[t].pc \in Reuse /\ lock \in {None, t} /\ fifo[op[t].type] # <<>>
Popped(t) == Head(fifo[op[t].type])
Pop(t) == [fifo EXCEPT ![op[t].type] = Tail(@)]

ReuseDangling(t) ==
    /\ Popping(t) /\ ~Valid(Popped(t))
    /\ Goto(t, "crash")
    /\ UNCHANGED <<pool, pool_size, fifo, ref, lock>>

(* Mutant: the type of the packet is not checked. *)
ReuseAnyType(t) ==
    /\ Popping(t) /\ Valid(Popped(t))
    /\ pool[Popped(t)].users = 0
    /\ fifo' = Pop(t) /\ lock' = None
    /\ pool' = [pool EXCEPT ![Popped(t)].users = 1]
    /\ ref' = [ref EXCEPT ![t] = Popped(t)]
    /\ Obtained(t)
    /\ UNCHANGED <<pool_size>>

ReuseRevive(t) ==
    /\ Popping(t) /\ Valid(Popped(t))
    /\ pool[Popped(t)].users = 0 /\ pool[Popped(t)].desc = op[t].type
    /\ fifo' = Pop(t) /\ lock' = None
    /\ pool' = [pool EXCEPT ![Popped(t)].users = 1]
    /\ ref' = [ref EXCEPT ![t] = Popped(t)]
    /\ Obtained(t)
    /\ UNCHANGED <<pool_size>>

(* The packet is in use, or of another type whose fifo it moves to. *)
ReuseSkip(t) ==
    /\ Popping(t) /\ Valid(Popped(t))
    /\ LET h == Popped(t) IN
       /\ pool[h].users > 0 \/ pool[h].desc # op[t].type
       /\ fifo' = IF pool[h].users = 0 THEN Save(Pop(t), h, pool[h].desc) ELSE Pop(t)
    /\ lock' = t
    /\ UNCHANGED <<pool, pool_size, ref, op>>

-----------------------------------------------------------------------------
(***************************************************************************)
(* pdp_packet_new, called by a constructor ("construct") or by             *)
(* pdp_packet_clone_rw ("fallback"): reap the first unused pure packet of  *)
(* the same size, whatever its type; its data stays.                       *)
(***************************************************************************)
NewSize(t) == IF op[t].pc = "fallback" THEN pool[ref[op[t].src]].size
              ELSE SizeOf[Canon[op[t].type]]

(* Mutant: packets in use are taken. *)
ReapableUsed(t) == {h \in Handle : Valid(h) /\ pool[h].users <= 1 /\ pool[h].size = NewSize(t)}
Reapable(t) ==
    {h \in Handle : Valid(h) /\ pool[h].users = 0 /\ pool[h].size = NewSize(t)
                    /\ pool[h].desc \notin Impure}

Fresh(size, data) == [users |-> 1, desc |-> NoDesc, size |-> size, data |-> data]

pdp_packet_new(t) ==
    /\ op[t].pc \in {"construct", "fallback"} /\ lock = None
    /\ IF Reapable(t) # {}
       THEN LET h == Least(Reapable(t)) IN
            /\ pool' = [pool EXCEPT ![h] = Fresh(NewSize(t), pool[h].data)]
            /\ ref' = [ref EXCEPT ![t] = h]
            /\ Goto(t, IF op[t].pc = "construct" THEN "init" ELSE "fallback_init")
       ELSE /\ Goto(t, IF op[t].pc = "construct" THEN "create" ELSE "fallback_create")
            /\ UNCHANGED <<pool, ref>>
    /\ UNCHANGED <<pool_size, fifo, lock>>

(* _pdp_packet_create_nolock: the first free slot, in a pool twice as large *)
(* if there is none.                                                        *)
FreeSlot == {h \in Handle : h < pool_size /\ pool[h] = Null}

Slot == IF FreeSlot # {} THEN Least(FreeSlot) ELSE pool_size

CreateSize(t) == IF op[t].pc = "fallback_create" THEN pool[ref[op[t].src]].size
                 ELSE SizeOf[Canon[op[t].type]]

pdp_packet_create(t, d) ==
    /\ op[t].pc \in {"create", "fallback_create"} /\ lock = None
    /\ FreeSlot # {} \/ 2 * pool_size <= MaxPool
    /\ pool_size' = IF FreeSlot # {} THEN pool_size ELSE 2 * pool_size
    /\ pool' = [pool EXCEPT ![Slot] = Fresh(CreateSize(t), d)]
    /\ ref' = [ref EXCEPT ![t] = Slot]
    /\ Goto(t, IF op[t].pc = "create" THEN "init" ELSE "fallback_init")
    /\ UNCHANGED <<fifo, lock>>

(* pdp_alloc failed; the pool may have grown before.  A clone whose factory *)
(* fails like this is made by hand, like one that has none.                 *)
CreateFails(t) ==
    /\ op[t].pc \in {"create", "fallback_create"} /\ lock = None
    /\ pool_size' = IF FreeSlot = {} /\ 2 * pool_size <= MaxPool THEN 2 * pool_size ELSE pool_size
    /\ IF op[t].pc = "create" /\ op[t].op \notin {"new", "factory"}
       THEN op[t].type \in Scarce /\ Goto(t, "fallback")
       ELSE Failed(t)
    /\ UNCHANGED <<pool, fifo, ref, lock>>

(* The rest of a constructor: the header gets its description; a factory    *)
(* method deletes the packet if that is not exactly what was asked for.     *)
InitHeader(t) ==
    /\ op[t].pc = "init"
    /\ pool' = [pool EXCEPT ![ref[t]].desc = Canon[op[t].type]]
    /\ IF Canon[op[t].type] = op[t].type THEN Obtained(t) ELSE Goto(t, "delete")
    /\ UNCHANGED <<pool_size, fifo, ref, lock>>

(* pdp_packet_delete in the factory method: images and bitmaps are pure. *)
DeleteInexact(t) ==
    /\ op[t].pc = "delete" /\ lock = None
    /\ pool' = [pool EXCEPT ![ref[t]] = Null]
    /\ ref' = [ref EXCEPT ![t] = Invalid]
    /\ IF op[t].op = "factory" THEN Return(t) ELSE Goto(t, "fallback")
    /\ UNCHANGED <<pool_size, fifo, lock>>

(* The clone by hand: memcpy of the source's header, users included. *)
CloneHeader(t) ==
    /\ op[t].pc = "fallback_init"
    /\ pool' = [pool EXCEPT ![ref[t]] = [pool[ref[op[t].src]] EXCEPT !.data = pool[ref[t]].data]]
    /\ Obtained(t)
    /\ UNCHANGED <<pool_size, fifo, ref, lock>>

(* Mutant: the copy does not get the data. *)
CopyNothing(t) ==
    /\ op[t].pc = "copy"
    /\ Goto(t, IF op[t].op = "replace" THEN "release" ELSE "return")
    /\ UNCHANGED <<pool, pool_size, fifo, ref, lock>>

(* The end of pdp_packet_copy_rw.  The copy method is called with the       *)
(* source first; a method declared (dst, src) re-initialises the source     *)
(* with the copy's own dimensions and leaves the data of both as it was.    *)
CopyData(t) ==
    /\ op[t].pc = "copy"
    /\ pool' = IF op[t].type \in SwappedCopy THEN pool
               ELSE [pool EXCEPT ![ref[t]].data = pool[ref[op[t].src]].data]
    /\ Goto(t, IF op[t].op = "replace" THEN "release" ELSE "return")
    /\ UNCHANGED <<pool_size, fifo, ref, lock>>

(* The caller stores the handle in its variable. *)
StoreHandle(t) ==
    /\ op[t].pc = "return"
    /\ ref' = [ref EXCEPT ![op[t].dst] = ref[t], ![t] = Invalid]
    /\ Return(t)
    /\ UNCHANGED <<pool, pool_size, fifo, lock>>

-----------------------------------------------------------------------------
(***************************************************************************)
(* pdp_packet_mark_unused, by a user or by replace_with_writable: the last *)
(* user leaves through the sleep method, called without the lock while     *)
(* users is still 1.                                                       *)
(***************************************************************************)
Continue(t) == IF op[t].op = "replace" THEN Goto(t, "return") ELSE Return(t)

(* Clear users and save the packet. *)
Retire(t, v) ==
    /\ pool' = [pool EXCEPT ![ref[v]].users = 0]
    /\ fifo' = Save(fifo, ref[v], pool[ref[v]].desc)
    /\ ref' = [ref EXCEPT ![v] = Invalid]
    /\ UNCHANGED <<pool_size, lock>>

Decrement(t, v) ==
    /\ pool' = [pool EXCEPT ![ref[v]].users = @ - 1]
    /\ ref' = [ref EXCEPT ![v] = Invalid]
    /\ UNCHANGED <<pool_size, fifo, lock>>

pdp_packet_mark_unused(t, v) ==
    /\ Holds(t, v) /\ lock = None
    /\ \/ /\ pool[ref[v]].users > 1
          /\ Decrement(t, v)
          /\ UNCHANGED op
       \/ /\ pool[ref[v]].users <= 1 /\ pool[ref[v]].desc \notin Sleepy
          /\ Retire(t, v)
          /\ UNCHANGED op
       \/ /\ pool[ref[v]].users <= 1 /\ pool[ref[v]].desc \in Sleepy
          /\ Start(t, "mark_unused", "sleep", pool[ref[v]].desc, v, None)
          /\ UNCHANGED <<pool, pool_size, fifo, ref, lock>>

ReleaseOld(t) ==
    /\ op[t].pc = "release" /\ lock = None
    /\ LET v == op[t].src IN
       \/ pool[ref[v]].users > 1 /\ Decrement(t, v) /\ Continue(t)
       \/ pool[ref[v]].users <= 1 /\ pool[ref[v]].desc \notin Sleepy
          /\ Retire(t, v) /\ Continue(t)
       \/ pool[ref[v]].users <= 1 /\ pool[ref[v]].desc \in Sleepy
          /\ Goto(t, "sleep") /\ UNCHANGED <<pool, pool_size, fifo, ref, lock>>

SleepDone(t) ==
    /\ op[t].pc = "sleep" /\ lock = None
    /\ Retire(t, op[t].src)
    /\ Continue(t)

(* pdp_packet_delete by the only user; cleanup is called without the lock. *)
pdp_packet_delete(t, v) ==
    /\ Holds(t, v) /\ pool[ref[v]].users = 1 /\ pool[ref[v]].desc \in Impure
    /\ Start(t, "delete", "cleanup", pool[ref[v]].desc, v, None)
    /\ UNCHANGED <<pool, pool_size, fifo, ref, lock>>

CleanupDone(t) ==
    /\ op[t].pc = "cleanup" /\ lock = None
    /\ pool' = [pool EXCEPT ![ref[op[t].src]] = Null]
    /\ ref' = [ref EXCEPT ![op[t].src] = Invalid]
    /\ Return(t)
    /\ UNCHANGED <<pool_size, fifo, lock>>
-----------------------------------------------------------------------------
UserStep(t) ==
    \E v \in Var :
        \/ pdp_packet_replace_with_writable(t, v)
        \/ pdp_packet_mark_unused(t, v)
        \/ pdp_packet_delete(t, v)
        \/ \E d \in Data : Write(t, v, d)
        \/ \E type \in Type : pdp_packet_new_type(t, type, v) \/ pdp_factory_newpacket(t, type, v)
        \/ \E w \in Var \ {v} : \/ pdp_packet_copy_ro(t, v, w)
                                \/ pdp_packet_clone_rw(t, v, w)
                                \/ pdp_packet_copy_rw(t, v, w)

PoolStep(t) ==
    \/ ReuseEmpty(t) \/ ReuseDangling(t) \/ ReuseRevive(t) \/ ReuseSkip(t)
    \/ pdp_packet_new(t) \/ CreateFails(t) \/ InitHeader(t) \/ DeleteInexact(t)
    \/ \E d \in Data : pdp_packet_create(t, d)
    \/ CloneHeader(t) \/ CopyData(t) \/ StoreHandle(t)
    \/ ReleaseOld(t) \/ SleepDone(t) \/ CleanupDone(t)

Next == \E t \in Thread : UserStep(t) \/ PoolStep(t)

Spec == Init /\ [][Next]_vars

-----------------------------------------------------------------------------
References(h) == {r \in Ref : ref[r] = h}

(***************************************************************************)
(* The reference counts are exact: users is the number of variables and    *)
(* running operations that hold the packet, and no reference dangles.      *)
(* Every path that creates, revives, shares, clones or releases a packet   *)
(* changes users and a reference together, across threads.                 *)
(***************************************************************************)
RefCount ==
    /\ \A r \in Ref : ref[r] # Invalid => Valid(ref[r])
    /\ \A h \in Handle : pool[h] # Null => pool[h].users = Cardinality(References(h))

(* What pdp_packet_reuse, the factory, clone, copy and replace hand to     *)
(* their caller is writable: nobody else uses it.                          *)
ReturnsWritable ==
    \A t \in Thread : op[t].pc = "return" /\ ref[t] # Invalid => pool[ref[t]].users = 1

(* ... and it has the type that was asked for, although pdp_packet_new     *)
(* turns packets into other types behind the back of the reuse fifos.      *)
ReturnsType ==
    \A t \in Thread : op[t].pc = "return" /\ ref[t] # Invalid => pool[ref[t]].desc = op[t].type

(* No packet is lost: an unused packet is in the reuse fifo of its type,   *)
(* also after it was reaped, retyped and released.                         *)
UnusedFindable ==
    \A h \in Handle : pool[h] # Null /\ pool[h].users = 0 => h \in Elems(fifo[pool[h].desc])

(* The "big o hack" bounds the fifos: a handle is at most once in each.    *)
FifoNoDup ==
    \A type \in Type : Cardinality(Elems(fifo[type])) = Len(fifo[type])

(* A handle popped from a reuse fifo still names a packet: the comment in  *)
(* pdp_packet_reuse counts on packets being deleted and replaced.          *)
NoDanglingPop == \A t \in Thread : op[t].pc # "crash"

(* pdp_packet_copy_rw returns a copy: from the end of the copying until    *)
(* the source is released its contents are those of the source, whatever   *)
(* other users of the source do meanwhile.                                 *)
CopyFaithful ==
    \A t \in Thread :
        /\ op[t].op \in {"copy_rw", "replace"} /\ op[t].pc \in {"release", "return"}
        /\ ref[t] # Invalid /\ ref[op[t].src] # Invalid
        => pool[ref[t]].data = pool[ref[op[t].src]].data

(***************************************************************************)
(* Packet variables behave as if each held its own value (PacketValues): a *)
(* write through one variable is never seen through another, and no value  *)
(* changes because a packet is reused, reaped or released.  While a thread *)
(* is about to store the packet it obtained, the variable already stands   *)
(* for that packet.                                                        *)
(***************************************************************************)
Contents(h) == IF Valid(h) THEN pool[h].data ELSE Null
ValueOf(v) ==
    IF \E t \in Thread : op[t].pc = "return" /\ op[t].dst = v
    THEN Contents(ref[CHOOSE t \in Thread : op[t].pc = "return" /\ op[t].dst = v])
    ELSE Contents(ref[v])

Values == INSTANCE PacketValues WITH
    Holder <- Var, Value <- Data, Empty <- Null, val <- [v \in Var |-> ValueOf(v)]
ImplementsValues == Values!ValuesSpec

(* What the reuse of packets may never do: hand out a packet that is in    *)
(* use, of another type or gone, or lose one that could be reused.         *)
FifoSound == TypeOK /\ ReturnsWritable /\ ReturnsType /\ UnusedFindable /\ FifoNoDup /\ NoDanglingPop
=============================================================================
