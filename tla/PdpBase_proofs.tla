---------------------------- MODULE PdpBase_proofs ----------------------------
(***************************************************************************)
(* Objects of the base class in any patch: exact reference counts whatever *)
(* is connected, and the ownership of packets when no zoom feeds its own   *)
(* hot inlet.                                                              *)
(***************************************************************************)
EXTENDS PdpBase, RingArithmetic, FiniteSetTheorems, SequenceTheorems, TLAPS

-----------------------------------------------------------------------------
(* Counting references. *)
Has(A, a) == IF a \in A THEN 1 ELSE 0
Is(p, h) == IF p = h THEN 1 ELSE 0
Slots == Obj \X Inlet
Count(f, h) == Cardinality({r \in Slots : f[r[1]][r[2]] = h})
OwnCount(f, h) == Cardinality({o \in Obj : f[o] = h})
Row(f, h) == Cardinality({i \in Inlet : f[i] = h})
Rows == [Obj -> [Inlet -> Packet]]
OnlyAt(f, g, o, i) == \A q \in Obj, j \in Inlet : q # o \/ j # i => g[q][j] = f[q][j]
OnlyOf(f, g, o) == \A q \in Obj : q # o => g[q] = f[q]

LEMMA ChangeOne ==
    ASSUME NEW S, IsFiniteSet(S), NEW A \in SUBSET S, NEW B \in SUBSET S, NEW a, A \ {a} = B \ {a}
    PROVE  /\ Cardinality(A) \in Nat /\ Cardinality(B) \in Nat
           /\ Cardinality(B) + Has(A, a) = Cardinality(A) + Has(B, a)
<1>1. IsFiniteSet(A) /\ IsFiniteSet(B)
  BY FS_Subset
<1>2. Cardinality(A) \in Nat /\ Cardinality(B) \in Nat
  BY <1>1, FS_CardinalityType
<1>3. Cardinality(A \ {a}) = IF a \in A THEN Cardinality(A) - 1 ELSE Cardinality(A)
  BY <1>1, FS_RemoveElement
<1>4. Cardinality(B \ {a}) = IF a \in B THEN Cardinality(B) - 1 ELSE Cardinality(B)
  BY <1>1, FS_RemoveElement
<1>5. CASE a \in A /\ a \in B
  BY <1>2, <1>3, <1>4, <1>5 DEF Has, Is
<1>6. CASE a \in A /\ a \notin B
  BY <1>2, <1>3, <1>4, <1>6 DEF Has
<1>7. CASE a \notin A /\ a \in B
  <2>1. Cardinality(B) - 1 = Cardinality(A)
    BY <1>2, <1>3, <1>4, <1>7
  <2>2. Has(A, a) = 0 /\ Has(B, a) = 1
    BY <1>7 DEF Has
  <2> QED
    BY <1>2, <2>1, <2>2
<1>8. CASE a \notin A /\ a \notin B
  BY <1>2, <1>3, <1>4, <1>8 DEF Has
<1> QED
  BY <1>5, <1>6, <1>7, <1>8

LEMMA Finite ==
    /\ IsFiniteSet(Obj) /\ IsFiniteSet(Inlet) /\ IsFiniteSet(Slots)
    /\ \A f, h : Count(f, h) \in Nat /\ OwnCount(f, h) \in Nat /\ Row(f, h) \in Nat
<1>1. IsFiniteSet(Obj) /\ IsFiniteSet(Inlet)
  BY PatchAssumption, FS_Interval DEF Inlet
<1>2. IsFiniteSet(Slots)
  BY <1>1, FS_Product DEF Slots
<1>3. SUFFICES ASSUME NEW f, NEW h
               PROVE  Count(f, h) \in Nat /\ OwnCount(f, h) \in Nat /\ Row(f, h) \in Nat
  BY <1>1, <1>2
<1>4. IsFiniteSet({r \in Slots : f[r[1]][r[2]] = h})
  BY <1>2, FS_Subset
<1>5. IsFiniteSet({o \in Obj : f[o] = h})
  BY <1>1, FS_Subset
<1>6. IsFiniteSet({i \in Inlet : f[i] = h})
  BY <1>1, FS_Subset
<1> QED
  BY <1>4, <1>5, <1>6, FS_CardinalityType DEF Count, OwnCount, Row

(* One register changes. *)
LEMMA SlotCount ==
    ASSUME NEW f, NEW g, NEW o \in Obj, NEW i \in Inlet, NEW h, OnlyAt(f, g, o, i)
    PROVE  Count(g, h) + Is(f[o][i], h) = Count(f, h) + Is(g[o][i], h)
<1> DEFINE A == {r \in Slots : f[r[1]][r[2]] = h}
           B == {r \in Slots : g[r[1]][r[2]] = h}
           a == <<o, i>>
<1>1. a \in Slots /\ a[1] = o /\ a[2] = i
  BY DEF Slots
<1>3. \A r \in Slots \ {a} : g[r[1]][r[2]] = f[r[1]][r[2]]
  <2> TAKE r \in Slots \ {a}
  <2>1. r[1] \in Obj /\ r[2] \in Inlet /\ (r[1] # o \/ r[2] # i)
    BY DEF Slots
  <2> QED
    BY <2>1 DEF OnlyAt
<1>4. A \ {a} = B \ {a}
  BY <1>3
<1>5. (a \in A <=> f[o][i] = h) /\ (a \in B <=> g[o][i] = h)
  BY <1>1
<1>6. Cardinality(B) + Has(A, a) = Cardinality(A) + Has(B, a)
  <2>1. A \in SUBSET Slots /\ B \in SUBSET Slots
    OBVIOUS
  <2> HIDE DEF A, B, a
  <2> QED
    BY <1>4, <2>1, Finite, ChangeOne
<1>7. Has(A, a) = Is(f[o][i], h) /\ Has(B, a) = Is(g[o][i], h)
  BY <1>5 DEF Has, Is
<1> QED
  BY <1>6, <1>7 DEF Count

LEMMA OwnChange ==
    ASSUME NEW f, NEW g, NEW o \in Obj, NEW h, OnlyOf(f, g, o)
    PROVE  OwnCount(g, h) + Is(f[o], h) = OwnCount(f, h) + Is(g[o], h)
<1> DEFINE A == {q \in Obj : f[q] = h}
           B == {q \in Obj : g[q] = h}
<1>1. A \ {o} = B \ {o}
  BY DEF OnlyOf
<1>2. (o \in A <=> f[o] = h) /\ (o \in B <=> g[o] = h)
  OBVIOUS
<1>3. Cardinality(B) + Has(A, o) = Cardinality(A) + Has(B, o)
  BY <1>1, Finite, ChangeOne
<1>4. Has(A, o) = Is(f[o], h) /\ Has(B, o) = Is(g[o], h)
  BY <1>2 DEF Has, Is
<1> QED
  BY <1>3, <1>4 DEF OwnCount

(* The registers of one object change. *)
LEMMA RowCount ==
    ASSUME NEW f, NEW g, NEW o \in Obj, NEW h, OnlyOf(f, g, o)
    PROVE  Count(g, h) + Row(f[o], h) = Count(f, h) + Row(g[o], h)
<1> DEFINE Others(x) == {r \in (Obj \ {o}) \X Inlet : x[r[1]][r[2]] = h}
           Mine(x) == {r \in {o} \X Inlet : x[r[1]][r[2]] = h}
<1>1. ASSUME NEW x
      PROVE  Count(x, h) = Cardinality(Others(x)) + Row(x[o], h) /\ Cardinality(Others(x)) \in Nat
  <2> DEFINE R == {i \in Inlet : x[o][i] = h}
             pair == [i \in R |-> <<o, i>>]
  <2>1. IsFiniteSet(R)
    BY Finite, FS_Subset
  <2>2. pair \in Bijection(R, Mine(x))
    <3>1. pair \in [R -> Mine(x)]
      OBVIOUS
    <3>2. \A i, j \in R : pair[i] = pair[j] => i = j
      OBVIOUS
    <3>3. \A r \in Mine(x) : r[2] \in R /\ pair[r[2]] = r
      OBVIOUS
    <3> QED
      <4>1. pair \in Surjection(R, Mine(x))
        BY <3>1, <3>3 DEF Surjection
      <4>2. pair \in Injection(R, Mine(x))
        BY <3>1, <3>2 DEF Injection, IsInjective
      <4> QED
        BY <4>1, <4>2 DEF Bijection
  <2>3. IsFiniteSet(Mine(x)) /\ Cardinality(Mine(x)) = Cardinality(R)
    BY <2>1, <2>2, FS_Bijection DEF ExistsBijection
  <2>4. {r \in Slots : x[r[1]][r[2]] = h} = Others(x) \union Mine(x) /\ Others(x) \intersect Mine(x) = {}
    BY DEF Slots
  <2>5. IsFiniteSet(Others(x))
    <3>1. Others(x) \subseteq Slots
      BY DEF Slots
    <3> QED
      BY <3>1, Finite, FS_Subset
  <2>6. Cardinality(Others(x)) \in Nat /\ Cardinality(Mine(x)) \in Nat
    BY <2>3, <2>5, FS_CardinalityType
  <2>7. Count(x, h) = Cardinality(Others(x)) + Cardinality(Mine(x))
    <3> DEFINE O == Others(x)
               M == Mine(x)
    <3> HIDE DEF O, M
    <3>1. IsFiniteSet(O) /\ IsFiniteSet(M) /\ O \intersect M = {}
      BY <2>3, <2>4, <2>5 DEF O, M
    <3>2. Cardinality(O) \in Nat /\ Cardinality(M) \in Nat
      BY <2>6 DEF O, M
    <3>3. Cardinality(O \union M) = Cardinality(O) + Cardinality(M)
      <4>1. Cardinality(O \union M) = Cardinality(O) + Cardinality(M) - Cardinality(O \intersect M)
        BY <3>1, FS_Union
      <4>2. Cardinality(O \intersect M) = 0
        BY <3>1, FS_EmptySet
      <4> QED
        BY <3>2, <4>1, <4>2
    <3> QED
      BY <2>4, <3>3 DEF O, M, Count
  <2> QED
    BY <2>3, <2>6, <2>7 DEF Row
<1>2. Others(g) = Others(f)
  BY DEF OnlyOf
<1>3. Count(f, h) = Cardinality(Others(f)) + Row(f[o], h) /\ Cardinality(Others(f)) \in Nat
  BY <1>1
<1>4. Count(g, h) = Cardinality(Others(f)) + Row(g[o], h)
  BY <1>1, <1>2
<1> HIDE DEF Others, Mine
<1> QED
  BY <1>3, <1>4, Finite

-----------------------------------------------------------------------------
(* The inductive invariant, first what holds of every patch.               *)

(* Only cold inlets have a waiting packet, and a generator no active one. *)
Registers ==
    \A o \in Obj : b_packet_next[o][0] = NoPacket /\ (Kind[o] = "noise" => b_packet[o][0] = NoPacket)

(* The calls that come from a postprocess and send or clear the result of  *)
(* an object, but for the empty packet of a generator or a zoom.           *)
Leaves(c) == c.op \in {"pass", "unuse"} /\ (c.own \/ Kind[c.obj] \in {"gain", "mat"})
Leaving(o) == \E k \in DOMAIN stack : Leaves(stack[k]) /\ stack[k].obj = o

Releases(o, own) == \E k \in DOMAIN stack : stack[k].op = "unuse" /\ stack[k].obj = o /\ stack[k].own = own

(* Messages that register a packet are sent by an object that has the      *)
(* packet and is about to clear it.                                        *)
Sending ==
    \A k \in DOMAIN stack : stack[k].op = "unuse" =>
        /\ Passed(stack[k].obj, stack[k].own) # NoPacket
        /\ \A j \in 1 .. k - 1 : /\ stack[j].op \in {"ro", "rw"}
                                 /\ stack[j].packet = Passed(stack[k].obj, stack[k].own)
Registering ==
    \A k \in DOMAIN stack : stack[k].op \in {"ro", "rw"} =>
        \E m \in DOMAIN stack : m > k /\ stack[m].op = "unuse"

(* Nothing runs between a direct call of the process method, the deletion  *)
(* of the source and the result's leaving: an object is banged when        *)
(* nothing is left to do with its last result.                             *)
Together ==
    \A k \in DOMAIN stack :
        /\ stack[k].op = "direct" => k = 1 /\ Leaving(stack[k].obj)
        /\ stack[k].op = "discard" \/ (stack[k].op = "pass" /\ Leaves(stack[k])) =>
               \A j \in 1 .. k - 1 : stack[j].op \in {"direct", "discard"} /\ stack[j].obj = stack[k].obj
Unqueues ==
    \A k \in DOMAIN stack : Leaves(stack[k]) \/ stack[k].op \in {"direct", "discard"} =>
        ~b_queued[stack[k].obj]

(* A callback is at the bottom of the stack, on top of the tick that goes  *)
(* on with the next.  The task called back has left the queue for its      *)
(* object, which may be queued again.                                      *)
InCall == \E k \in DOMAIN stack : stack[k].op = "called"
Ticking ==
    \A k \in DOMAIN stack :
        /\ stack[k].op = "tick" => k = Len(stack)
        /\ stack[k].op = "called" => k + 1 = Len(stack) /\ done # <<>>
Waiting == {n \in DOMAIN done : InCall => n > 1}
QueuedOnce ==
    /\ \A n \in DOMAIN todo : b_queued[todo[n]] /\ \A m \in DOMAIN todo : todo[m] = todo[n] => m = n
    /\ \A n \in Waiting : done[n] # NoObj =>
           /\ b_queued[done[n]]
           /\ \A m \in Waiting : done[m] = done[n] => m = n
           /\ \A m \in DOMAIN todo : todo[m] # done[n]

(* A class keeps a packet of its own from the task to the leaving only. *)
OwnPacket ==
    /\ \A o \in Obj : x_packet[o] # NoPacket => Kind[o] \in {"noise", "zoom"} /\ (b_queued[o] \/ Leaving(o))
    /\ \A n \in DOMAIN todo : Kind[todo[n]] = "noise" => x_packet[todo[n]] = NoPacket
    /\ \A k \in DOMAIN stack : stack[k].op = "direct" /\ Kind[stack[k].obj] = "noise" =>
           x_packet[stack[k].obj] = NoPacket

StackOK == Sending /\ Registering /\ Together /\ Unqueues /\ Ticking
CountInv == TypeOK /\ Registers /\ StackOK /\ QueuedOnce /\ OwnPacket /\ RefCount

-----------------------------------------------------------------------------
(* What holds when no zoom is reached from its own outlet through hot       *)
(* inlets: the process method of pdp_zoom keeps its source in the register *)
(* while its result leaves.                                                *)
HotTargets(o) == {q \in Obj : \E n \in DOMAIN Wire[o] : Wire[o][n] = <<q, 0>>}
Downstream(o) ==
    {q \in Obj : \A S \in SUBSET Obj :
        HotTargets(o) \subseteq S /\ (\A r \in S : HotTargets(r) \subseteq S) => q \in S}
NoFeedback == \A o \in Obj : Kind[o] = "zoom" => o \notin Downstream(o)

(* The second pass of a zoom, for its empty source, waits below what its   *)
(* result has caused downstream.                                           *)
Empties(c) == c.op = "pass" /\ ~c.own /\ Kind[c.obj] = "zoom"
Below(c, o) ==
    /\ c.op \in {"ro", "rw", "process"} /\ c.inlet = 0 => c.obj \in Downstream(o)
    /\ c.op \in {"pass", "unuse", "discard", "direct"} => c.obj \in Downstream(o) \union {o}
SourceGone ==
    \A k \in DOMAIN stack : Empties(stack[k]) =>
        /\ ~b_queued[stack[k].obj]
        /\ \A j \in 1 .. k - 1 : Below(stack[j], stack[k].obj)
        /\ \/ b_packet[stack[k].obj][0] = NoPacket
           \/ \E j \in 1 .. k - 1 : stack[j].op = "discard" /\ stack[j].obj = stack[k].obj
SendsResult == \A k \in DOMAIN stack : stack[k].op = "unuse" => Leaves(stack[k])

(* A queued task has its packets, the ones it was given. *)
TaskPackets ==
    /\ TaskOwnsPackets
    /\ \A n \in DOMAIN todo : Kind[todo[n]] # "noise" => b_packet[todo[n]][0] # NoPacket
    /\ \A o \in Obj : b_queued[o] /\ Kind[o] = "gain" => b_packet[o][0] # NoPacket

(* The packet that a class writes is its own until it is sent. *)
Exclusive ==
    \A o \in Obj :
        /\ Kind[o] = "gain" /\ b_packet[o][0] # NoPacket => users[b_packet[o][0]] = 1 \/ Releases(o, FALSE)
        /\ x_packet[o] # NoPacket => users[x_packet[o]] = 1 \/ Releases(o, TRUE)

(* What waits for its callback or leaves is processed. *)
ResultReady ==
    /\ \A n \in Waiting : done[n] # NoObj /\ Kind[done[n]] = "gain" => done[n] \in processed
    /\ \A k \in DOMAIN stack : stack[k].op = "pass" /\ Kind[stack[k].obj] = "gain" =>
           stack[k].obj \in processed \/ \E j \in DOMAIN stack : stack[j].op = "direct" /\ stack[j].obj = stack[k].obj

OwnerInv == CountInv /\ SourceGone /\ SendsResult /\ TaskPackets /\ Exclusive /\ ResultReady

-----------------------------------------------------------------------------
(* What the steps do to registers and counts. *)
LEMMA Handles ==
    /\ Handle \subseteq Nat /\ NoPacket \notin Handle /\ Handle \subseteq Packet /\ NoPacket \in Packet
    /\ 0 \in Inlet /\ Cold \subseteq Inlet /\ Inlet \subseteq Nat
    /\ Fresh \subseteq Handle /\ \A p \in Fresh : users[p] = 0
BY PatchAssumption DEF Handle, NoPacket, Packet, Inlet, Cold, Fresh

LEMMA Exchange ==
    ASSUME NEW u \in [Handle -> Int], NEW a \in Packet, NEW p \in Packet
    PROVE  Retain(Release(u, a), p) = [h \in Handle |-> u[h] - Is(a, h) + Is(p, h)]
<1> DEFINE v == Release(u, a)
<1>1. v = [h \in Handle |-> u[h] - Is(a, h)]
  <2>1. CASE a = NoPacket
    BY <2>1, Handles DEF Release, Is
  <2>2. CASE a \in Handle
    <3>1. v = [u EXCEPT ![a] = u[a] - 1]
      BY <2>2, Handles DEF Release
    <3>2. \A h \in Handle : v[h] = u[h] - Is(a, h)
      BY <2>2, <3>1 DEF Is
    <3>3. v \in [Handle -> Int]
      BY <2>2, <3>1
    <3> QED
      BY <3>2, <3>3
  <2> QED
    BY <2>1, <2>2 DEF Packet
<1>2. v \in [Handle -> Int] /\ \A h \in Handle : v[h] = u[h] - Is(a, h)
  BY <1>1 DEF Is
<1> HIDE DEF v
<1>3. Retain(v, p) = [h \in Handle |-> v[h] + Is(p, h)]
  <2>1. CASE p = NoPacket
    BY <1>2, <2>1, Handles DEF Retain, Is
  <2>2. CASE p \in Handle
    <3>1. Retain(v, p) = [v EXCEPT ![p] = v[p] + 1]
      BY <2>2, Handles DEF Retain
    <3>2. \A h \in Handle : Retain(v, p)[h] = v[h] + Is(p, h)
      BY <1>2, <2>2, <3>1 DEF Is
    <3>3. Retain(v, p) \in [Handle -> Int]
      BY <1>2, <2>2, <3>1
    <3> QED
      BY <3>2, <3>3
  <2> QED
    BY <2>1, <2>2 DEF Packet
<1> QED
  BY <1>2, <1>3 DEF v

LEMMA NothingReleased ==
    \A u : Release(u, NoPacket) = u /\ Retain(u, NoPacket) = u
BY DEF Release, Retain

LEMMA Counts ==
    RefCount <=> \A h \in Handle :
        users[h] = Count(b_packet, h) + Count(b_packet_next, h) + OwnCount(x_packet, h)
BY DEF RefCount, Count, OwnCount, Slots

LEMMA CountsNext ==
    RefCount' <=> \A h \in Handle :
        users'[h] = Count(b_packet', h) + Count(b_packet_next', h) + OwnCount(x_packet', h)
BY DEF RefCount, Count, OwnCount, Slots

LEMMA SetActive ==
    ASSUME TypeOK, RefCount, NEW o \in Obj,
           OnlyAt(b_packet, b_packet', o, 0),
           b_packet' \in Rows,
           users' = Retain(Release(users, b_packet[o][0]), b_packet'[o][0]),
           UNCHANGED <<b_packet_next, x_packet>>
    PROVE  RefCount' /\ users' \in [Handle -> Nat]
<1>1. users \in [Handle -> Int] /\ b_packet[o][0] \in Packet /\ b_packet'[o][0] \in Packet
  BY Handles DEF TypeOK, Rows
<1>2. users' = [h \in Handle |-> users[h] - Is(b_packet[o][0], h) + Is(b_packet'[o][0], h)]
  BY <1>1, Exchange
<1>3. ASSUME NEW h \in Handle
      PROVE  /\ users'[h] = Count(b_packet', h) + Count(b_packet_next', h) + OwnCount(x_packet', h)
             /\ users'[h] \in Nat
  <2>1. Count(b_packet', h) + Is(b_packet[o][0], h) = Count(b_packet, h) + Is(b_packet'[o][0], h)
    BY Handles, SlotCount
  <2>2. users[h] = Count(b_packet, h) + Count(b_packet_next, h) + OwnCount(x_packet, h)
    BY Counts
  <2>3. Is(b_packet[o][0], h) \in Nat /\ Is(b_packet'[o][0], h) \in Nat
    BY DEF Is
  <2>4. users'[h] = users[h] - Is(b_packet[o][0], h) + Is(b_packet'[o][0], h)
    BY <1>2
  <2> QED
    BY <2>1, <2>2, <2>3, <2>4, Finite
<1> QED
  BY <1>2, <1>3, CountsNext

LEMMA SetOwn ==
    ASSUME TypeOK, RefCount, NEW o \in Obj,
           OnlyOf(x_packet, x_packet', o),
           x_packet' \in [Obj -> Packet],
           users' = Retain(Release(users, x_packet[o]), x_packet'[o]),
           UNCHANGED <<b_packet, b_packet_next>>
    PROVE  RefCount' /\ users' \in [Handle -> Nat]
<1>1. users \in [Handle -> Int] /\ x_packet[o] \in Packet /\ x_packet'[o] \in Packet
  BY Handles DEF TypeOK, Rows
<1>2. users' = [h \in Handle |-> users[h] - Is(x_packet[o], h) + Is(x_packet'[o], h)]
  BY <1>1, Exchange
<1>3. ASSUME NEW h \in Handle
      PROVE  /\ users'[h] = Count(b_packet', h) + Count(b_packet_next', h) + OwnCount(x_packet', h)
             /\ users'[h] \in Nat
  <2>1. OwnCount(x_packet', h) + Is(x_packet[o], h) = OwnCount(x_packet, h) + Is(x_packet'[o], h)
    BY Handles, OwnChange
  <2>2. users[h] = Count(b_packet, h) + Count(b_packet_next, h) + OwnCount(x_packet, h)
    BY Counts
  <2>3. Is(x_packet[o], h) \in Nat /\ Is(x_packet'[o], h) \in Nat
    BY DEF Is
  <2>4. users'[h] = users[h] - Is(x_packet[o], h) + Is(x_packet'[o], h)
    BY <1>2
  <2> QED
    BY <2>1, <2>2, <2>3, <2>4, Finite
<1> QED
  BY <1>2, <1>3, CountsNext

LEMMA SetNext ==
    ASSUME TypeOK, RefCount, NEW o \in Obj, NEW i \in Inlet, b_packet_next[o][i] = NoPacket,
           OnlyAt(b_packet_next, b_packet_next', o, i),
           b_packet_next' \in Rows,
           users' = Retain(users, b_packet_next'[o][i]),
           UNCHANGED <<b_packet, x_packet>>
    PROVE  RefCount' /\ users' \in [Handle -> Nat]
<1>1. users \in [Handle -> Int] /\ b_packet_next[o][i] \in Packet /\ b_packet_next'[o][i] \in Packet
  BY Handles DEF TypeOK, Rows
<1>2. users' = [h \in Handle |-> users[h] - Is(b_packet_next[o][i], h) + Is(b_packet_next'[o][i], h)]
  BY <1>1, Exchange, NothingReleased
<1>3. ASSUME NEW h \in Handle
      PROVE  /\ users'[h] = Count(b_packet', h) + Count(b_packet_next', h) + OwnCount(x_packet', h)
             /\ users'[h] \in Nat
  <2>1. Count(b_packet_next', h) + Is(b_packet_next[o][i], h) = Count(b_packet_next, h) + Is(b_packet_next'[o][i], h)
    BY Handles, SlotCount
  <2>2. users[h] = Count(b_packet, h) + Count(b_packet_next, h) + OwnCount(x_packet, h)
    BY Counts
  <2>3. Is(b_packet_next[o][i], h) \in Nat /\ Is(b_packet_next'[o][i], h) \in Nat
    BY DEF Is
  <2>4. users'[h] = users[h] - Is(b_packet_next[o][i], h) + Is(b_packet_next'[o][i], h)
    BY <1>2
  <2> QED
    BY <2>1, <2>2, <2>3, <2>4, Finite
<1> QED
  BY <1>2, <1>3, CountsNext

(* pdp_base_movepassive: the waiting packets replace those of the cold     *)
(* inlets.                                                                 *)
Comes(next) == {i \in Cold : next[i] # NoPacket}
Gone(old, next, h) == Cardinality({i \in Comes(next) : old[i] = h})
MovesRow(old, next, new) == \A i \in Inlet : new[i] = IF i \in Comes(next) THEN next[i] ELSE old[i]
LEMMA MoveCount ==
    ASSUME NEW old, NEW next, NEW new, NEW h \in Handle, next[0] = NoPacket, MovesRow(old, next, new)
    PROVE  /\ Gone(old, next, h) \in Nat
           /\ Row(new, h) = Row(old, h) - Gone(old, next, h) + Row(next, h)
<1> DEFINE M == Comes(next)
           A == {i \in M : old[i] = h}
           B == {i \in Inlet : old[i] = h}
           N == {i \in Inlet : next[i] = h}
           R == {i \in Inlet : new[i] = h}
<1>1. A \subseteq B /\ B \subseteq Inlet /\ N \subseteq Inlet /\ A \subseteq Inlet
  BY Handles DEF Comes
<1>2. R = (B \ A) \union N /\ (B \ A) \intersect N = {}
  <2>1. Inlet = Cold \union {0} /\ 0 \notin Cold /\ h # NoPacket
    BY PatchAssumption, Handles DEF Inlet, Cold
  <2>2. N \subseteq M
    BY <2>1 DEF Comes
  <2> QED
    BY <2>1, <2>2 DEF MovesRow
<1>3. B = (B \ A) \union A /\ (B \ A) \intersect A = {}
  BY <1>1
<1>4. IsFiniteSet(A) /\ IsFiniteSet(B \ A) /\ IsFiniteSet(N)
  <2>1. B \ A \subseteq Inlet
    BY <1>1
  <2> HIDE DEF A, B, N
  <2> QED
    BY <1>1, <2>1, Finite, FS_Subset
<1>5. \A X, Y : IsFiniteSet(X) /\ IsFiniteSet(Y) /\ X \intersect Y = {} =>
           /\ Cardinality(X \union Y) = Cardinality(X) + Cardinality(Y)
           /\ Cardinality(X) \in Nat /\ Cardinality(Y) \in Nat
  <2> TAKE X, Y
  <2> HAVE IsFiniteSet(X) /\ IsFiniteSet(Y) /\ X \intersect Y = {}
  <2>1. Cardinality(X \union Y) = Cardinality(X) + Cardinality(Y) - Cardinality(X \intersect Y)
    BY FS_Union
  <2>2. Cardinality(X \intersect Y) = 0 /\ Cardinality(X) \in Nat /\ Cardinality(Y) \in Nat
    BY FS_EmptySet, FS_CardinalityType
  <2> QED
    BY <2>1, <2>2
<1> DEFINE D == B \ A
<1> HIDE DEF A, B, N, R, D
<1>6. IsFiniteSet(A) /\ IsFiniteSet(D) /\ IsFiniteSet(N)
  BY <1>4 DEF D
<1>7. D \intersect N = {} /\ D \intersect A = {} /\ R = D \union N /\ B = D \union A
  BY <1>2, <1>3 DEF D
<1>8. Cardinality(B) = Cardinality(D) + Cardinality(A) /\ Cardinality(D) \in Nat /\ Cardinality(A) \in Nat
  BY <1>5, <1>6, <1>7
<1>9. Cardinality(R) = Cardinality(D) + Cardinality(N) /\ Cardinality(N) \in Nat
  BY <1>5, <1>6, <1>7
<1>10. Cardinality(R) = Cardinality(B) - Cardinality(A) + Cardinality(N)
  BY <1>8, <1>9
<1> QED
  BY <1>8, <1>10 DEF A, B, N, R, Row, Gone

LEMMA NoRow ==
    ASSUME NEW h \in Handle
    PROVE  Row(NoPackets, h) = 0
<1>1. {i \in Inlet : NoPackets[i] = h} = {}
  BY Handles DEF NoPackets
<1> QED
  BY <1>1, FS_EmptySet DEF Row

(* A bang moves the packets, and the preprocessing of a class adds one.    *)
LEMMA MoveCounts ==
    ASSUME TypeOK, RefCount, Registers, NEW o \in Obj,
           OnlyOf(b_packet, b_packet', o), OnlyOf(b_packet_next, b_packet_next', o), OnlyOf(x_packet, x_packet', o),
           MovesRow(b_packet[o], b_packet_next[o], b_packet'[o]),
           b_packet_next'[o] = NoPackets,
           NEW p \in Packet, users' = Retain(AfterMove(o), p),
           IF p = NoPacket THEN x_packet'[o] = x_packet[o] ELSE x_packet[o] = NoPacket /\ x_packet'[o] = p
    PROVE  RefCount' /\ users' \in [Handle -> Nat]
<1>1. ASSUME NEW h \in Handle
      PROVE  /\ AfterMove(o)[h] \in Int
             /\ AfterMove(o)[h] + Is(p, h) = Count(b_packet', h) + Count(b_packet_next', h) + OwnCount(x_packet', h)
  <2> DEFINE c == Gone(b_packet[o], b_packet_next[o], h)
  <2>1. c \in Nat /\ Row(b_packet'[o], h) = Row(b_packet[o], h) - c + Row(b_packet_next[o], h)
    BY MoveCount DEF Registers
  <2>2. Count(b_packet', h) + Row(b_packet[o], h) = Count(b_packet, h) + Row(b_packet'[o], h)
    BY RowCount
  <2>3. Count(b_packet_next', h) + Row(b_packet_next[o], h) = Count(b_packet_next, h) + Row(b_packet_next'[o], h)
    BY RowCount
  <2>4. OwnCount(x_packet', h) + Is(x_packet[o], h) = OwnCount(x_packet, h) + Is(x_packet'[o], h)
    BY OwnChange
  <2>5. Row(b_packet_next'[o], h) = 0
    BY NoRow
  <2>6. users[h] = Count(b_packet, h) + Count(b_packet_next, h) + OwnCount(x_packet, h) /\ users[h] \in Nat
    BY Counts DEF TypeOK
  <2>7. AfterMove(o)[h] = users[h] - c
    BY DEF AfterMove, Moved, Gone, Comes
  <2>8. Is(x_packet'[o], h) = Is(x_packet[o], h) + Is(p, h) /\ Is(x_packet[o], h) \in Nat /\ Is(p, h) \in Nat
    BY Handles DEF Is
  <2> HIDE DEF c
  <2>9. /\ Count(b_packet', h) \in Nat /\ Count(b_packet, h) \in Nat /\ Row(b_packet[o], h) \in Nat
        /\ Count(b_packet_next', h) \in Nat /\ Count(b_packet_next, h) \in Nat /\ Row(b_packet_next[o], h) \in Nat
        /\ OwnCount(x_packet', h) \in Nat /\ OwnCount(x_packet, h) \in Nat
    BY Finite
  <2>10. Count(b_packet', h) = Count(b_packet, h) - c + Row(b_packet_next[o], h)
    <3> DEFINE a == Row(b_packet'[o], h)
               b == Row(b_packet[o], h)
               d == Row(b_packet_next[o], h)
               x == Count(b_packet', h)
               y == Count(b_packet, h)
    <3>1. x + b = y + a /\ a = b - c + d
      BY <2>1, <2>2
    <3>2. c \in Nat /\ b \in Nat /\ d \in Nat /\ x \in Nat /\ y \in Nat
      BY <2>1, <2>9
    <3> HIDE DEF a, b, d, x, y
    <3>3. x = y - c + d
      BY <3>1, <3>2
    <3> QED
      BY <3>3 DEF d, x, y
  <2>11. Count(b_packet_next', h) = Count(b_packet_next, h) - Row(b_packet_next[o], h)
    BY <2>3, <2>5, <2>9
  <2>12. OwnCount(x_packet', h) = OwnCount(x_packet, h) + Is(p, h)
    BY <2>4, <2>8, <2>9
  <2> QED
    BY <2>1, <2>6, <2>7, <2>8, <2>9, <2>10, <2>11, <2>12
<1>2. AfterMove(o) \in [Handle -> Int]
  BY <1>1 DEF AfterMove
<1>3. users' = [h \in Handle |-> AfterMove(o)[h] - Is(NoPacket, h) + Is(p, h)]
  <2> DEFINE u == AfterMove(o)
  <2> HIDE DEF u
  <2>1. Retain(Release(u, NoPacket), p) = [h \in Handle |-> u[h] - Is(NoPacket, h) + Is(p, h)]
    BY <1>2, Exchange, Handles DEF u
  <2> QED
    BY <2>1, NothingReleased DEF u
<1>4. \A h \in Handle : Is(NoPacket, h) = 0
  BY Handles DEF Is
<1>5. ASSUME NEW h \in Handle
      PROVE  /\ users'[h] = Count(b_packet', h) + Count(b_packet_next', h) + OwnCount(x_packet', h)
             /\ users'[h] \in Nat
  <2>1. users'[h] = AfterMove(o)[h] + Is(p, h)
    <3>1. Is(p, h) \in Nat
      BY DEF Is
    <3> QED
      BY <1>1, <1>3, <1>4, <3>1
  <2> QED
    BY <1>1, <2>1, Finite
<1> QED
  BY <1>3, <1>5, CountsNext

(* A deleted object releases what it has. *)
LEMMA FreeCounts ==
    ASSUME TypeOK, RefCount, NEW o \in Obj,
           OnlyOf(b_packet, b_packet', o), OnlyOf(b_packet_next, b_packet_next', o), OnlyOf(x_packet, x_packet', o),
           b_packet'[o] = NoPackets, b_packet_next'[o] = NoPackets, x_packet'[o] = NoPacket,
           users' = [h \in Handle |-> users[h] - Held(o, h)]
    PROVE  RefCount' /\ users' \in [Handle -> Nat]
<1>1. ASSUME NEW h \in Handle
      PROVE  /\ users'[h] = Count(b_packet', h) + Count(b_packet_next', h) + OwnCount(x_packet', h)
             /\ users'[h] \in Nat
  <2>1. Count(b_packet', h) + Row(b_packet[o], h) = Count(b_packet, h) + Row(b_packet'[o], h)
    BY RowCount
  <2>2. Count(b_packet_next', h) + Row(b_packet_next[o], h) = Count(b_packet_next, h) + Row(b_packet_next'[o], h)
    BY RowCount
  <2>3. OwnCount(x_packet', h) + Is(x_packet[o], h) = OwnCount(x_packet, h) + Is(x_packet'[o], h)
    BY OwnChange
  <2>4. Row(b_packet'[o], h) = 0 /\ Row(b_packet_next'[o], h) = 0
    BY NoRow
  <2>5. Is(x_packet'[o], h) = 0 /\ Is(x_packet[o], h) \in Nat
    BY Handles DEF Is
  <2>6. users[h] = Count(b_packet, h) + Count(b_packet_next, h) + OwnCount(x_packet, h)
    BY Counts
  <2>7. users'[h] = users[h] - Held(o, h)
    OBVIOUS
  <2>8. Held(o, h) = Row(b_packet[o], h) + Row(b_packet_next[o], h) + Is(x_packet[o], h)
    BY DEF Held, Row, Is
  <2> QED
    BY <2>1, <2>2, <2>3, <2>4, <2>5, <2>6, <2>7, <2>8, Finite
<1> QED
  BY <1>1, CountsNext

-----------------------------------------------------------------------------
(* Calls and connections. *)
LEMMA CallFields ==
    ASSUME NEW c \in Call
    PROVE  /\ c.op \in {"ro", "rw", "process", "unuse", "pass", "discard", "direct", "tick", "called"}
           /\ c.op \in {"ro", "rw", "process"} => c.obj \in Obj /\ c.inlet \in Inlet /\ c.packet \in Packet
           /\ c.op \in {"unuse", "pass"} => c.obj \in Obj /\ c.own \in BOOLEAN
           /\ c.op \in {"discard", "direct"} => c.obj \in Obj
BY DEF Call

(* A set of numbers can be put in order. *)
Ordered(c) == \A i, j \in DOMAIN c : i < j => c[i] < c[j]
Enumerable(n) == \A S \in SUBSET (1 .. n) : \E c \in [1 .. Cardinality(S) -> S] : Ordered(c)

LEMMA Enumeration == \A n \in Nat : Enumerable(n)
<1> SUFFICES ASSUME \E n \in Nat : ~Enumerable(n) PROVE FALSE
  OBVIOUS
<1>1. PICK n \in Nat : ~Enumerable(n) /\ \A k \in Nat : ~Enumerable(k) => n <= k
  <2> DEFINE B == {k \in Nat : ~Enumerable(k)}
  <2>1. B # {} /\ B \subseteq Nat
    OBVIOUS
  <2> HIDE DEF B
  <2>2. PICK k \in B : \A m \in B : k <= m
    BY <2>1, Smallest
  <2> QED
    BY <2>2 DEF B
<1>2. PICK S \in SUBSET (1 .. n) : ~\E c \in [1 .. Cardinality(S) -> S] : Ordered(c)
  BY <1>1 DEF Enumerable
<1>3. CASE n = 0
  <2>1. S = {}
    BY <1>3
  <2>2. [i \in {} |-> i] \in [1 .. Cardinality(S) -> S] /\ Ordered([i \in {} |-> i])
    BY <2>1, FS_EmptySet DEF Ordered
  <2> QED
    BY <1>2, <2>2
<1>4. CASE n # 0
  <2> DEFINE R == S \ {n}
  <2>1. n - 1 \in Nat /\ R \in SUBSET (1 .. n - 1)
    BY <1>4
  <2>2. Enumerable(n - 1)
    BY <1>1, <2>1
  <2>3. PICK c \in [1 .. Cardinality(R) -> R] : Ordered(c)
    BY <2>1, <2>2 DEF Enumerable
  <2>4. IsFiniteSet(S)
    <3>1. IsFiniteSet(1 .. n)
      BY FS_Interval
    <3> QED
      BY <3>1, FS_Subset
  <2>5. CASE n \notin S
    BY <1>2, <2>3, <2>5
  <2>6. CASE n \in S
    <3> DEFINE r == Cardinality(R)
               d == [i \in 1 .. r + 1 |-> IF i = r + 1 THEN n ELSE c[i]]
    <3>1. Cardinality(S) = r + 1 /\ r \in Nat
      <4>1. IsFiniteSet(R) /\ Cardinality(R) = Cardinality(S) - 1
        BY <2>4, <2>6, FS_RemoveElement
      <4> QED
        BY <4>1, <2>4, FS_CardinalityType
    <3> HIDE DEF r
    <3>2. \A i \in 1 .. r : c[i] \in R /\ c[i] \in 1 .. n - 1
      BY <2>1, <2>3 DEF r
    <3>3. d \in [1 .. Cardinality(S) -> S]
      <4>1. \A i \in 1 .. r + 1 : d[i] \in S
        <5> TAKE i \in 1 .. r + 1
        <5>1. CASE i = r + 1
          BY <2>6, <5>1
        <5>2. CASE i # r + 1
          <6>1. i \in 1 .. r /\ d[i] = c[i]
            BY <3>1, <5>2
          <6> QED
            BY <3>2, <6>1
        <5> QED
          BY <5>1, <5>2
      <4> QED
        BY <3>1, <4>1
    <3>4. Ordered(d)
      <4> SUFFICES ASSUME NEW i \in 1 .. r + 1, NEW j \in 1 .. r + 1, i < j PROVE d[i] < d[j]
        BY DEF Ordered
      <4>1. i \in 1 .. r /\ d[i] = c[i]
        BY <3>1
      <4>2. CASE j = r + 1
        <5>1. c[i] \in 1 .. n - 1 /\ d[j] = n
          BY <3>1, <3>2, <4>1, <4>2
        <5> QED
          BY <4>1, <5>1
      <4>3. CASE j # r + 1
        <5>1. j \in 1 .. r /\ d[j] = c[j] /\ DOMAIN c = 1 .. r
          BY <3>1, <4>3, <2>3 DEF r
        <5> QED
          BY <2>3, <4>1, <5>1 DEF Ordered
      <4> QED
        BY <4>2, <4>3
    <3> QED
      BY <1>2, <3>3, <3>4
  <2> QED
    BY <2>5, <2>6
<1> QED
  BY <1>3, <1>4

LEMMA Sends ==
    ASSUME NEW o \in Obj, NEW p \in Packet, NEW op \in {"ro", "rw", "process"}
    PROVE  /\ Send(op, o, p) \in Seq(Call)
           /\ \A k \in 1 .. Len(Send(op, o, p)) :
                 /\ Send(op, o, p)[k].op = op /\ Send(op, o, p)[k].packet = p
                 /\ Send(op, o, p)[k].inlet = 0 => Send(op, o, p)[k].obj \in HotTargets(o)
<1> DEFINE wires == {n \in DOMAIN Wire[o] : Wire[o][n][1] \in alive}
           c == Connected(o)
           s == Send(op, o, p)
<1>1. Wire[o] \in Seq(Obj \X Inlet) /\ Len(Wire[o]) \in Nat /\ wires \in SUBSET (1 .. Len(Wire[o]))
  BY PatchAssumption
<1>2. \E d \in [1 .. Cardinality(wires) -> wires] : Ordered(d)
  <2> HIDE DEF wires
  <2> QED
    BY <1>1, Enumeration DEF Enumerable
<1>3. c \in [1 .. Cardinality(wires) -> wires]
  <2>1. c = CHOOSE d \in [1 .. Cardinality(wires) -> wires] : Ordered(d)
    BY DEF Connected, Ordered
  <2> HIDE DEF wires, c
  <2> QED
    BY <1>2, <2>1
<1>4. Cardinality(wires) \in Nat
  <2> HIDE DEF wires
  <2>1. IsFiniteSet(1 .. Len(Wire[o]))
    BY <1>1, FS_Interval
  <2> QED
    BY <1>1, <2>1, FS_Subset, FS_CardinalityType
<1>5. s = [k \in DOMAIN c |-> [op |-> op, obj |-> Wire[o][c[k]][1], inlet |-> Wire[o][c[k]][2], packet |-> p]]
  BY DEF Send
<1>6. DOMAIN c = 1 .. Cardinality(wires)
  BY <1>3
<1>7. \A k \in DOMAIN c : Wire[o][c[k]] \in Obj \X Inlet /\ c[k] \in DOMAIN Wire[o]
  <2> TAKE k \in DOMAIN c
  <2>1. c[k] \in wires
    BY <1>3
  <2>2. c[k] \in 1 .. Len(Wire[o])
    BY <1>1, <2>1
  <2> QED
    BY <1>1, <2>2
<1> HIDE DEF c, wires, s
<1>8. \A k \in DOMAIN c : /\ s[k] \in Call /\ s[k].op = op /\ s[k].packet = p
                          /\ s[k].inlet = 0 => s[k].obj \in HotTargets(o)
  <2> TAKE k \in DOMAIN c
  <2>1. PICK q \in Obj, i \in Inlet : Wire[o][c[k]] = <<q, i>>
    BY <1>7
  <2>2. s[k] = [op |-> op, obj |-> q, inlet |-> i, packet |-> p]
    BY <1>5, <2>1
  <2> QED
    BY <1>7, <2>1, <2>2 DEF Call, HotTargets
<1>9. s \in [1 .. Cardinality(wires) -> Call]
  BY <1>5, <1>6, <1>8
<1>10. s \in Seq(Call) /\ Len(s) = Cardinality(wires)
  BY <1>4, <1>9
<1> QED
  BY <1>6, <1>8, <1>10 DEF s

-----------------------------------------------------------------------------
(* What the steps do to the stack. *)
LEMMA Splice ==
    ASSUME NEW calls \in Seq(Call), NEW rest \in Seq(Call), NEW s, s = calls \o rest
    PROVE  /\ s \in Seq(Call) /\ Len(s) = Len(calls) + Len(rest)
           /\ Len(calls) \in Nat /\ Len(rest) \in Nat
           /\ \A k \in 1 .. Len(calls) : k \in DOMAIN s /\ s[k] = calls[k]
           /\ \A k \in 1 .. Len(rest) : Len(calls) + k \in DOMAIN s /\ s[Len(calls) + k] = rest[k]
           /\ \A k \in DOMAIN s : \/ k \in 1 .. Len(calls) /\ s[k] = calls[k]
                                  \/ k - Len(calls) \in 1 .. Len(rest) /\ s[k] = rest[k - Len(calls)]
OBVIOUS

LEMMA Popped ==
    ASSUME TypeOK, stack # <<>>
    PROVE  /\ Top = stack[1] /\ Top \in Call /\ 1 \in DOMAIN stack /\ DOMAIN stack = 1 .. Len(stack)
           /\ Tail(stack) \in Seq(Call) /\ Len(stack) \in Nat /\ Len(Tail(stack)) = Len(stack) - 1
           /\ DOMAIN Tail(stack) = 1 .. Len(Tail(stack)) /\ Len(Tail(stack)) \in Nat
           /\ \A k \in 1 .. Len(Tail(stack)) : k + 1 \in DOMAIN stack /\ Tail(stack)[k] = stack[k + 1]
           /\ \A k \in DOMAIN stack : k # 1 => k - 1 \in 1 .. Len(Tail(stack)) /\ Tail(stack)[k - 1] = stack[k]
BY DEF TypeOK, Top

(* Calls that concern no packet, at the end of the stack. *)
Plain(s) ==
    \A k \in DOMAIN s : s[k].op \in {"process", "tick", "called"} \/ (s[k].op = "pass" /\ ~Leaves(s[k]))
Ends(s) ==
    \A k \in DOMAIN s : (s[k].op = "tick" => k = Len(s)) /\ (s[k].op = "called" => k + 1 = Len(s))

LEMMA PlainTail ==
    ASSUME TypeOK, StackOK, stack # <<>>, Top.op \notin {"ro", "rw", "direct", "discard"}
    PROVE  Plain(Tail(stack))
<1> SUFFICES ASSUME NEW k \in 1 .. Len(Tail(stack))
             PROVE  \/ stack[k + 1].op \in {"process", "tick", "called"}
                    \/ stack[k + 1].op = "pass" /\ ~Leaves(stack[k + 1])
  BY Popped DEF Plain
<1>1. k + 1 \in DOMAIN stack /\ stack[k + 1] \in Call /\ 1 \in 1 .. (k + 1) - 1
  BY Popped DEF TypeOK
<1>2. \A m \in DOMAIN stack : m # 1 => stack[m].op # "unuse"
  <2> SUFFICES ASSUME NEW m \in DOMAIN stack, m # 1, stack[m].op = "unuse" PROVE FALSE
    OBVIOUS
  <2>1. 1 \in 1 .. m - 1
    BY Popped
  <2> QED
    BY <2>1, Popped DEF StackOK, Sending
<1>3. stack[k + 1].op \notin {"ro", "rw", "unuse"}
  BY <1>1, <1>2, Popped DEF StackOK, Registering
<1>4. stack[k + 1].op \notin {"direct", "discard"} /\ ~(stack[k + 1].op = "pass" /\ Leaves(stack[k + 1]))
  BY <1>1, Popped DEF StackOK, Together
<1> QED
  BY <1>1, <1>3, <1>4, CallFields

LEMMA EndsTail ==
    ASSUME TypeOK, StackOK, stack # <<>>
    PROVE  Ends(Tail(stack))
<1> SUFFICES ASSUME NEW k \in 1 .. Len(Tail(stack))
             PROVE  /\ stack[k + 1].op = "tick" => k = Len(Tail(stack))
                    /\ stack[k + 1].op = "called" => k + 1 = Len(Tail(stack))
  <2>1. DOMAIN Tail(stack) = 1 .. Len(Tail(stack)) /\ \A k \in 1 .. Len(Tail(stack)) : Tail(stack)[k] = stack[k + 1]
    BY Popped
  <2> QED
    BY <2>1 DEF Ends
<1>1. k + 1 \in DOMAIN stack /\ Len(stack) \in Nat /\ Len(Tail(stack)) = Len(stack) - 1
  BY Popped
<1>2. /\ stack[k + 1].op = "tick" => k + 1 = Len(stack)
      /\ stack[k + 1].op = "called" => (k + 1) + 1 = Len(stack)
  BY <1>1 DEF StackOK, Ticking
<1>3. k \in Int
  BY Popped
<1> DEFINE l == Len(stack)
           m == Len(Tail(stack))
<1>4. l \in Nat /\ m = l - 1
  BY <1>1
<1> HIDE DEF l, m
<1>5. (k + 1 = l => k = m) /\ ((k + 1) + 1 = l => k + 1 = m)
  BY <1>3, <1>4
<1> QED
  BY <1>2, <1>5 DEF l, m

(* A bang or a callback: the postprocess of an object comes first. *)
PostCalls(s, o) ==
    \A k \in DOMAIN s :
        /\ s[k].op \in {"direct", "discard", "pass"} /\ s[k].obj = o
        /\ s[k].op = "direct" => k = 1 /\ \E m \in DOMAIN s : Leaves(s[m])
        /\ s[k].op = "discard" \/ (s[k].op = "pass" /\ Leaves(s[k])) =>
               \A j \in 1 .. k - 1 : s[j].op \in {"direct", "discard"}

LEMMA PushOK ==
    ASSUME NEW o, NEW calls \in Seq(Call), PostCalls(calls, o),
           NEW rest \in Seq(Call), Plain(rest), Ends(rest),
           stack' = calls \o rest,
           calls # <<>> => ~b_queued'[o],
           \A k \in DOMAIN rest : rest[k].op = "called" => done' # <<>>
    PROVE  StackOK'
<1> DEFINE s == stack'
           n == Len(calls)
<1>1. /\ s \in Seq(Call) /\ Len(s) = n + Len(rest) /\ n \in Nat /\ Len(rest) \in Nat /\ DOMAIN s = 1 .. Len(s)
      /\ \A k \in 1 .. n : k \in DOMAIN s /\ s[k] = calls[k]
      /\ \A k \in DOMAIN s : \/ k \in 1 .. n /\ s[k] = calls[k]
                             \/ k - n \in 1 .. Len(rest) /\ s[k] = rest[k - n]
  BY Splice
<1>2. DOMAIN calls = 1 .. n /\ DOMAIN rest = 1 .. Len(rest)
  OBVIOUS
<1> HIDE DEF s, n
<1>3. \A k \in DOMAIN s : s[k].op \notin {"unuse", "ro", "rw"}
  <2> TAKE k \in DOMAIN s
  <2>1. CASE k \in 1 .. n /\ s[k] = calls[k]
    BY <1>2, <2>1 DEF PostCalls
  <2>2. CASE k - n \in 1 .. Len(rest) /\ s[k] = rest[k - n]
    BY <1>2, <2>2 DEF Plain
  <2> QED
    BY <1>1, <2>1, <2>2
<1>4. \A k \in DOMAIN s : s[k].op \in {"direct", "discard"} \/ Leaves(s[k]) =>
          k \in 1 .. n /\ s[k] = calls[k] /\ s[k].obj = o /\ ~b_queued'[o]
  <2> TAKE k \in DOMAIN s
  <2> HAVE s[k].op \in {"direct", "discard"} \/ Leaves(s[k])
  <2>1. k \in 1 .. n /\ s[k] = calls[k]
    BY <1>1, <1>2 DEF Plain, Leaves
  <2>2. calls # <<>>
    BY <1>2, <2>1 DEF n
  <2>3. calls[k].obj = o
    BY <1>2, <2>1 DEF PostCalls
  <2> QED
    BY <2>1, <2>2, <2>3
<1>5. Sending' /\ Registering'
  BY <1>3 DEF Sending, Registering, s
<1>6. Unqueues'
  BY <1>4 DEF Unqueues, Leaves, s
<1>7. Together'
  <2>1. ASSUME NEW k \in DOMAIN s, s[k].op = "direct"
        PROVE  k = 1 /\ \E m \in DOMAIN s : Leaves(s[m]) /\ s[m].obj = s[k].obj
    <3>1. k \in DOMAIN calls /\ s[k] = calls[k] /\ s[k].obj = o
      BY <1>2, <1>4, <2>1
    <3>2. k = 1 /\ \E m \in DOMAIN calls : Leaves(calls[m])
      BY <2>1, <3>1 DEF PostCalls
    <3>3. PICK m \in DOMAIN calls : Leaves(calls[m])
      BY <3>2
    <3>4. calls[m].obj = o /\ m \in DOMAIN s /\ s[m] = calls[m]
      BY <1>1, <1>2, <3>3 DEF PostCalls
    <3> QED
      BY <3>1, <3>2, <3>3, <3>4
  <2>2. ASSUME NEW k \in DOMAIN s, s[k].op = "discard" \/ (s[k].op = "pass" /\ Leaves(s[k])),
               NEW j \in 1 .. k - 1
        PROVE  s[j].op \in {"direct", "discard"} /\ s[j].obj = s[k].obj
    <3>1. k \in DOMAIN calls /\ s[k] = calls[k] /\ s[k].obj = o
      BY <1>2, <1>4, <2>2
    <3>2. j \in DOMAIN calls /\ s[j] = calls[j]
      BY <1>1, <1>2, <3>1
    <3> QED
      BY <2>2, <3>1, <3>2 DEF PostCalls
  <2> QED
    BY <2>1, <2>2 DEF Together, Leaving, Leaves, s
<1>8. Ticking'
  <2> SUFFICES ASSUME NEW k \in DOMAIN s
               PROVE  /\ s[k].op = "tick" => k = Len(s)
                      /\ s[k].op = "called" => k + 1 = Len(s) /\ done' # <<>>
    BY DEF Ticking, s
  <2>1. CASE k \in 1 .. n /\ s[k] = calls[k]
    BY <1>2, <2>1 DEF PostCalls
  <2>2. CASE k - n \in 1 .. Len(rest) /\ s[k] = rest[k - n]
    <3>1. rest[k - n].op = "tick" => k - n = Len(rest)
      BY <1>2, <2>2 DEF Ends
    <3>2. rest[k - n].op = "called" => (k - n) + 1 = Len(rest) /\ done' # <<>>
      BY <1>2, <2>2 DEF Ends
    <3>3. k \in Int
      BY <1>1
    <3>4. k - n = Len(rest) => k = Len(s)
      BY <1>1, <3>3
    <3>5. (k - n) + 1 = Len(rest) => k + 1 = Len(s)
      BY <1>1, <3>3
    <3> QED
      BY <2>2, <3>1, <3>2, <3>4, <3>5
  <2> QED
    BY <1>1, <2>1, <2>2
<1> QED
  BY <1>5, <1>6, <1>7, <1>8 DEF StackOK

LEMMA PopOK ==
    ASSUME TypeOK, StackOK, stack # <<>>, stack' = Tail(stack), b_queued' = b_queued, done' = done,
           \A o \in Obj, own \in BOOLEAN : Releases(o, own) => Passed(o, own)' = Passed(o, own)
    PROVE  StackOK'
<1> DEFINE s == stack'
<1>1. /\ DOMAIN s = 1 .. Len(s) /\ DOMAIN stack = 1 .. Len(stack) /\ Len(stack) \in Nat /\ Len(s) = Len(stack) - 1
      /\ \A k \in DOMAIN s : k \in Int /\ k + 1 \in DOMAIN stack /\ s[k] = stack[k + 1]
      /\ \A k \in DOMAIN stack : k # 1 => k - 1 \in DOMAIN s /\ s[k - 1] = stack[k]
  BY Popped
<1> HIDE DEF s
<1>2. Sending'
  <2> SUFFICES ASSUME NEW k \in DOMAIN s, s[k].op = "unuse"
               PROVE  \E o \in Obj, own \in BOOLEAN :
                          /\ s[k].obj = o /\ s[k].own = own /\ Passed(o, own)' # NoPacket
                          /\ \A j \in 1 .. k - 1 : s[j].op \in {"ro", "rw"} /\ s[j].packet = Passed(o, own)'
    BY DEF Sending, Passed, s
  <2>1. k + 1 \in DOMAIN stack /\ s[k] = stack[k + 1] /\ stack[k + 1] \in Call
    BY <1>1 DEF TypeOK
  <2>2. PICK o \in Obj, own \in BOOLEAN : s[k].obj = o /\ s[k].own = own
    BY <2>1, CallFields
  <2>3. Passed(o, own)' = Passed(o, own)
    BY <2>1, <2>2 DEF Releases
  <2>4. Passed(o, own) # NoPacket
    BY <2>1, <2>2 DEF StackOK, Sending
  <2>5. ASSUME NEW j \in 1 .. k - 1
        PROVE  s[j].op \in {"ro", "rw"} /\ s[j].packet = Passed(o, own)
    <3>1. j \in DOMAIN s /\ j + 1 \in 1 .. (k + 1) - 1 /\ s[j] = stack[j + 1]
      BY <1>1
    <3> QED
      BY <2>1, <2>2, <3>1 DEF StackOK, Sending
  <2> QED
    BY <2>2, <2>3, <2>4, <2>5
<1>3. Registering'
  <2> SUFFICES ASSUME NEW k \in DOMAIN s, s[k].op \in {"ro", "rw"}
               PROVE  \E m \in DOMAIN s : m > k /\ s[m].op = "unuse"
    BY DEF Registering, s
  <2>1. k + 1 \in DOMAIN stack /\ s[k] = stack[k + 1] /\ k \in Int /\ k >= 1
    BY <1>1
  <2>2. PICK m \in DOMAIN stack : m > k + 1 /\ stack[m].op = "unuse"
    BY <2>1 DEF StackOK, Registering
  <2>3. m \in Int /\ m # 1 /\ m - 1 > k
    BY <1>1, <2>1, <2>2
  <2>4. m - 1 \in DOMAIN s /\ s[m - 1] = stack[m]
    BY <1>1, <2>3
  <2> QED
    BY <2>2, <2>3, <2>4
<1>4. Together'
  <2>1. ASSUME NEW k \in DOMAIN s
        PROVE  s[k].op # "direct"
    <3>1. k + 1 \in DOMAIN stack /\ s[k] = stack[k + 1] /\ k + 1 # 1
      BY <1>1
    <3> QED
      BY <3>1 DEF StackOK, Together
  <2>2. ASSUME NEW k \in DOMAIN s, s[k].op = "discard" \/ (s[k].op = "pass" /\ Leaves(s[k])),
               NEW j \in 1 .. k - 1
        PROVE  s[j].op \in {"direct", "discard"} /\ s[j].obj = s[k].obj
    <3>1. k + 1 \in DOMAIN stack /\ s[k] = stack[k + 1]
      BY <1>1
    <3>2. j \in DOMAIN s /\ j + 1 \in 1 .. (k + 1) - 1 /\ s[j] = stack[j + 1]
      BY <1>1
    <3> QED
      BY <2>2, <3>1, <3>2 DEF StackOK, Together
  <2> QED
    BY <2>1, <2>2 DEF Together, Leaves, s
<1>5. Unqueues'
  <2> SUFFICES ASSUME NEW k \in DOMAIN s, Leaves(s[k]) \/ s[k].op \in {"direct", "discard"}
               PROVE  ~b_queued[s[k].obj]
    BY DEF Unqueues, Leaves, s
  <2> QED
    BY <1>1 DEF StackOK, Unqueues
<1>6. Ticking'
  <2> SUFFICES ASSUME NEW k \in DOMAIN s
               PROVE  /\ s[k].op = "tick" => k = Len(s)
                      /\ s[k].op = "called" => k + 1 = Len(s) /\ done # <<>>
    BY DEF Ticking, s
  <2>1. k + 1 \in DOMAIN stack /\ s[k] = stack[k + 1] /\ k \in Int
    BY <1>1
  <2>2. /\ s[k].op = "tick" => k + 1 = Len(stack)
        /\ s[k].op = "called" => (k + 1) + 1 = Len(stack) /\ done # <<>>
    BY <2>1 DEF StackOK, Ticking
  <2> QED
    BY <1>1, <2>1, <2>2
<1> QED
  BY <1>2, <1>3, <1>4, <1>5, <1>6 DEF StackOK

LEMMA SameOK ==
    ASSUME TypeOK, StackOK, stack' = stack, b_queued' = b_queued, done # <<>> => done' # <<>>,
           \A o \in Obj, own \in BOOLEAN : Releases(o, own) => Passed(o, own)' = Passed(o, own)
    PROVE  StackOK'
<1>1. Sending'
  <2> SUFFICES ASSUME NEW k \in DOMAIN stack, stack[k].op = "unuse"
               PROVE  \E o \in Obj, own \in BOOLEAN :
                          /\ stack[k].obj = o /\ stack[k].own = own /\ Passed(o, own)' # NoPacket
                          /\ \A j \in 1 .. k - 1 : stack[j].op \in {"ro", "rw"} /\ stack[j].packet = Passed(o, own)'
    BY DEF Sending, Passed
  <2>1. stack[k] \in Call
    BY DEF TypeOK
  <2>2. PICK o \in Obj, own \in BOOLEAN : stack[k].obj = o /\ stack[k].own = own
    BY <2>1, CallFields
  <2>3. Passed(o, own)' = Passed(o, own)
    BY <2>2 DEF Releases
  <2> QED
    BY <2>2, <2>3 DEF StackOK, Sending
<1>2. Registering' /\ Together' /\ Unqueues' /\ Ticking'
  BY DEF StackOK, Registering, Together, Unqueues, Ticking, Leaving, Leaves
<1> QED
  BY <1>1, <1>2 DEF StackOK

LEMMA Posts ==
    ASSUME NEW o \in Obj
    PROVE  /\ Postprocess(o) \in Seq(Call) /\ PostCalls(Postprocess(o), o)
           /\ \E k \in DOMAIN Postprocess(o) : Leaves(Postprocess(o)[k])
           /\ \A k \in DOMAIN Postprocess(o) : Postprocess(o)[k].op # "direct"
<1> DEFINE s == Postprocess(o)
           e == [op |-> "discard", obj |-> o]
           t == Pass(o, TRUE)
           f == Pass(o, FALSE)
           Good(k) == /\ s[k].op \in {"discard", "pass"} /\ s[k].obj = o
                      /\ s[k].op = "discard" \/ Leaves(s[k]) => \A j \in 1 .. k - 1 : s[j].op = "discard"
<1>1. /\ e \in Call /\ e.op = "discard" /\ e.obj = o
      /\ t \in Call /\ t.op = "pass" /\ t.obj = o /\ t.own = TRUE
      /\ f \in Call /\ f.op = "pass" /\ f.obj = o /\ f.own = FALSE
  BY DEF Call, Pass
<1>2. Leaves(t) /\ ~Leaves(e) /\ (Leaves(f) <=> Kind[o] \in {"gain", "mat"})
  BY <1>1 DEF Leaves
<1>3. s = CASE Kind[o] = "noise" -> <<t, f>> [] Kind[o] = "zoom" -> <<e, t, f>> [] OTHER -> <<f>>
  BY DEF Postprocess
<1>4. SUFFICES s \in Seq(Call) /\ (\A k \in DOMAIN s : Good(k)) /\ \E k \in DOMAIN s : Leaves(s[k])
  BY DEF PostCalls
<1> HIDE DEF s, e, t, f
<1>5. CASE Kind[o] = "noise"
  <2>1. s = <<t, f>>
    BY <1>3, <1>5
  <2>2. /\ s \in Seq(Call) /\ DOMAIN s = 1 .. 2
        /\ s[1] = t /\ s[2] = f
    BY <1>1, <2>1
  <2>3. 1 \in DOMAIN s /\ Leaves(s[1])
    BY <1>2, <1>5, <2>2
  <2>4. ASSUME NEW k \in DOMAIN s PROVE Good(k)
    <3>1. CASE k = 1
      BY <1>1, <1>2, <1>5, <2>2, <3>1
    <3>2. CASE k = 2
      BY <1>1, <1>2, <1>5, <2>2, <3>2
    <3> QED
      BY <2>2, <3>1, <3>2
  <2> QED
    BY <2>2, <2>3, <2>4
<1>6. CASE Kind[o] = "zoom"
  <2>1. s = <<e, t, f>>
    BY <1>3, <1>6
  <2>2. /\ s \in Seq(Call) /\ DOMAIN s = 1 .. 3
        /\ s[1] = e /\ s[2] = t /\ s[3] = f
    BY <1>1, <2>1
  <2>3. 2 \in DOMAIN s /\ Leaves(s[2])
    BY <1>2, <1>6, <2>2
  <2>4. ASSUME NEW k \in DOMAIN s PROVE Good(k)
    <3>1. CASE k = 1
      BY <1>1, <1>2, <1>6, <2>2, <3>1
    <3>2. CASE k = 2
      BY <1>1, <1>2, <1>6, <2>2, <3>2
    <3>3. CASE k = 3
      BY <1>1, <1>2, <1>6, <2>2, <3>3
    <3> QED
      BY <2>2, <3>1, <3>2, <3>3
  <2> QED
    BY <2>2, <2>3, <2>4
<1>7. CASE Kind[o] \in {"gain", "mat"}
  <2>1. s = <<f>>
    BY <1>3, <1>7
  <2>2. /\ s \in Seq(Call) /\ DOMAIN s = 1 .. 1
        /\ s[1] = f
    BY <1>1, <2>1
  <2>3. 1 \in DOMAIN s /\ Leaves(s[1])
    BY <1>2, <1>7, <2>2
  <2>4. ASSUME NEW k \in DOMAIN s PROVE Good(k)
    <3>1. CASE k = 1
      BY <1>1, <1>2, <1>7, <2>2, <3>1
    <3> QED
      BY <2>2, <3>1
  <2> QED
    BY <2>2, <2>3, <2>4
<1> QED
  BY <1>5, <1>6, <1>7, PatchAssumption

(* A call in front of others. *)
LEMMA InFront ==
    ASSUME NEW d \in Call, NEW r \in Seq(Call), NEW s, s = <<d>> \o r
    PROVE  /\ s \in Seq(Call) /\ s[1] = d /\ DOMAIN s = 1 .. Len(r) + 1
           /\ \A k \in DOMAIN s : k \in Int /\ (k = 1 \/ (k - 1 \in DOMAIN r /\ s[k] = r[k - 1]))
           /\ \A k \in DOMAIN r : k + 1 \in DOMAIN s /\ s[k + 1] = r[k]
<1> DEFINE f == <<d>>
           n == Len(r)
<1>1. f \in Seq(Call) /\ Len(f) = 1 /\ f[1] = d
  OBVIOUS
<1> HIDE DEF f
<1>2. s = f \o r
  BY DEF f
<1>3. /\ s \in Seq(Call) /\ Len(s) = 1 + n /\ n \in Nat /\ DOMAIN s = 1 .. Len(s)
      /\ \A k \in 1 .. 1 : s[k] = f[k]
      /\ \A k \in 1 .. n : 1 + k \in DOMAIN s /\ s[1 + k] = r[k]
  BY <1>1, <1>2, Splice
<1>4. DOMAIN r = 1 .. n
  OBVIOUS
<1> HIDE DEF n
<1>5. \A k \in DOMAIN r : k + 1 \in DOMAIN s /\ s[k + 1] = r[k]
  <2> TAKE k \in DOMAIN r
  <2>1. k \in Int /\ 1 + k = k + 1
    BY <1>3, <1>4
  <2> QED
    BY <1>3, <1>4, <2>1
<1>6. \A k \in DOMAIN s : k \in Int /\ (k = 1 \/ (k - 1 \in DOMAIN r /\ s[k] = r[k - 1]))
  <2> TAKE k \in DOMAIN s
  <2>1. k \in 1 .. 1 + n
    BY <1>3
  <2>2. k \in Int /\ (k = 1 \/ (k - 1 \in 1 .. n /\ (k - 1) + 1 = k))
    BY <1>3, <2>1
  <2> QED
    BY <1>4, <1>5, <2>2
<1> QED
  BY <1>1, <1>3, <1>4, <1>5, <1>6 DEF n

LEMMA DirectPosts ==
    ASSUME NEW o \in Obj, NEW s, s = <<[op |-> "direct", obj |-> o]>> \o Postprocess(o)
    PROVE  /\ s \in Seq(Call) /\ PostCalls(s, o)
           /\ \E k \in DOMAIN s : Leaves(s[k])
<1> DEFINE d == [op |-> "direct", obj |-> o]
           r == Postprocess(o)
<1>1. d \in Call /\ d.op = "direct" /\ d.obj = o /\ ~Leaves(d)
  BY DEF Call, Leaves
<1>2. r \in Seq(Call) /\ DOMAIN r = 1 .. Len(r) /\ Len(r) \in Nat
  BY Posts
<1>3. /\ s \in Seq(Call) /\ s[1] = d /\ DOMAIN s = 1 .. Len(r) + 1
      /\ \A k \in DOMAIN s : k \in Int /\ (k = 1 \/ (k - 1 \in DOMAIN r /\ s[k] = r[k - 1]))
      /\ \A k \in DOMAIN r : k + 1 \in DOMAIN s /\ s[k + 1] = r[k]
  <2>1. d \in Call /\ r \in Seq(Call) /\ s = <<d>> \o r
    BY <1>1, <1>2
  <2> HIDE DEF r, d
  <2> QED
    BY ONLY <2>1, InFront
<1>4. \E k \in DOMAIN s : Leaves(s[k])
  BY <1>3, Posts
<1>5. ASSUME NEW k \in DOMAIN s
      PROVE  /\ s[k].op \in {"direct", "discard", "pass"} /\ s[k].obj = o
             /\ s[k].op = "direct" => k = 1
             /\ s[k].op = "discard" \/ (s[k].op = "pass" /\ Leaves(s[k])) =>
                    \A j \in 1 .. k - 1 : s[j].op \in {"direct", "discard"}
  <2>1. CASE k = 1
    BY <1>1, <1>3, <2>1
  <2>2. CASE k # 1
    <3>1. k - 1 \in DOMAIN r /\ s[k] = r[k - 1]
      BY <1>3, <2>2
    <3>2. s[k].op \in {"discard", "pass"} /\ s[k].obj = o
      BY <3>1, Posts DEF PostCalls
    <3>3. ASSUME s[k].op = "discard" \/ (s[k].op = "pass" /\ Leaves(s[k])), NEW j \in 1 .. k - 1
          PROVE  s[j].op \in {"direct", "discard"}
      <4>1. j = 1 \/ (j - 1 \in 1 .. (k - 1) - 1 /\ j \in DOMAIN s)
        BY <1>3
      <4>2. CASE j = 1
        BY <1>1, <1>3, <4>2
      <4>3. CASE j # 1
        <5>1. s[j] = r[j - 1]
          BY <1>3, <4>1, <4>3
        <5> QED
          BY <3>1, <3>3, <4>1, <4>3, <5>1, Posts DEF PostCalls
      <4> QED
        BY <4>2, <4>3
    <3> QED
      BY <3>2, <3>3
  <2> QED
    BY <2>1, <2>2
<1> QED
  BY <1>3, <1>4, <1>5 DEF PostCalls

(* A packet leaves: both register phases, then the packet is cleared, then *)
(* the process phase.                                                      *)
Hot(c, o) == c.inlet = 0 => c.obj \in HotTargets(o)
Passing(s, o, own, p) ==
    \E m \in DOMAIN s :
        /\ s[m].op = "unuse" /\ s[m].obj = o /\ s[m].own = own
        /\ \A j \in DOMAIN s : j < m => s[j].op \in {"ro", "rw"} /\ s[j].packet = p /\ Hot(s[j], o)
        /\ \A j \in DOMAIN s : j > m => s[j].op = "process" /\ Hot(s[j], o)

PassedOn(o, own, p) ==
    Send("ro", o, p) \o Send("rw", o, p) \o <<[op |-> "unuse", obj |-> o, own |-> own]>>
    \o Send("process", o, NoPacket)

LEMMA PassCalls ==
    ASSUME NEW o \in Obj, NEW own \in BOOLEAN, NEW p \in Packet
    PROVE  PassedOn(o, own, p) \in Seq(Call) /\ Passing(PassedOn(o, own, p), o, own, p)
<1> DEFINE s == PassedOn(o, own, p)
           a == Send("ro", o, p)
           b == Send("rw", o, p)
           c == Send("process", o, NoPacket)
           u == [op |-> "unuse", obj |-> o, own |-> own]
<1>1. a \in Seq(Call) /\ \A k \in 1 .. Len(a) : a[k].op = "ro" /\ a[k].packet = p /\ Hot(a[k], o)
  BY Sends DEF Hot
<1>2. b \in Seq(Call) /\ \A k \in 1 .. Len(b) : b[k].op = "rw" /\ b[k].packet = p /\ Hot(b[k], o)
  BY Sends DEF Hot
<1>3. c \in Seq(Call) /\ \A k \in 1 .. Len(c) : c[k].op = "process" /\ Hot(c[k], o)
  BY Sends, Handles DEF Hot
<1>4. u \in Call /\ u.op = "unuse" /\ u.obj = o /\ u.own = own
  BY DEF Call
<1>5. s = ((a \o b) \o <<u>>) \o c
  BY DEF PassedOn
<1> HIDE DEF s, a, b, c, u
<1> DEFINE d == a \o b
           e == d \o <<u>>
<1>6. /\ d \in Seq(Call) /\ Len(d) = Len(a) + Len(b) /\ Len(a) \in Nat /\ Len(b) \in Nat
      /\ \A k \in 1 .. Len(d) : d[k].op \in {"ro", "rw"} /\ d[k].packet = p /\ Hot(d[k], o)
  <2>1. /\ d \in Seq(Call) /\ Len(d) = Len(a) + Len(b) /\ Len(a) \in Nat /\ Len(b) \in Nat /\ DOMAIN d = 1 .. Len(d)
        /\ \A k \in DOMAIN d : \/ k \in 1 .. Len(a) /\ d[k] = a[k]
                               \/ k - Len(a) \in 1 .. Len(b) /\ d[k] = b[k - Len(a)]
    BY <1>1, <1>2, Splice
  <2> QED
    BY <1>1, <1>2, <2>1
<1> HIDE DEF d
<1> DEFINE m == Len(d) + 1
<1>7. e \in Seq(Call) /\ Len(e) = m /\ e[m] = u /\ \A k \in 1 .. Len(d) : e[k] = d[k]
  <2>1. \A x, y : x \in Seq(Call) /\ y \in Call =>
            /\ x \o <<y>> \in Seq(Call) /\ Len(x \o <<y>>) = Len(x) + 1 /\ (x \o <<y>>)[Len(x) + 1] = y
            /\ \A k \in 1 .. Len(x) : (x \o <<y>>)[k] = x[k]
    OBVIOUS
  <2> QED
    BY <1>4, <1>6, <2>1
<1>12. Len(d) \in Nat /\ m \in Nat /\ m = Len(d) + 1
  BY <1>6
<1> HIDE DEF e, m
<1>8. /\ s \in Seq(Call) /\ Len(s) = m + Len(c) /\ DOMAIN s = 1 .. Len(s) /\ Len(c) \in Nat /\ m \in Nat
      /\ \A k \in 1 .. m : k \in DOMAIN s /\ s[k] = e[k]
      /\ \A k \in DOMAIN s : \/ k \in 1 .. m /\ s[k] = e[k]
                             \/ k - m \in 1 .. Len(c) /\ s[k] = c[k - m]
  <2>1. s = e \o c
    BY <1>5 DEF d, e
  <2>2. /\ s \in Seq(Call) /\ Len(s) = Len(e) + Len(c) /\ Len(c) \in Nat
        /\ \A k \in 1 .. Len(e) : k \in DOMAIN s /\ s[k] = e[k]
        /\ \A k \in DOMAIN s : \/ k \in 1 .. Len(e) /\ s[k] = e[k]
                               \/ k - Len(e) \in 1 .. Len(c) /\ s[k] = c[k - Len(e)]
    <3>1. e \in Seq(Call) /\ c \in Seq(Call)
      BY <1>3, <1>7
    <3> QED
      BY <2>1, <3>1, Splice
  <2>3. DOMAIN s = 1 .. Len(s)
    BY <2>2
  <2>4. Len(e) = m
    BY <1>7
  <2> HIDE DEF s
  <2> QED
    BY <1>12, <2>2, <2>3, <2>4
<1>9. m \in DOMAIN s /\ s[m].op = "unuse" /\ s[m].obj = o /\ s[m].own = own
  BY <1>4, <1>7, <1>8, <1>12
<1>10. ASSUME NEW j \in DOMAIN s, j < m
       PROVE  s[j].op \in {"ro", "rw"} /\ s[j].packet = p /\ Hot(s[j], o)
  <2>1. j \in 1 .. Len(d) /\ s[j] = d[j]
    BY <1>7, <1>8, <1>10, <1>12
  <2> QED
    BY <1>6, <2>1
<1>11. ASSUME NEW j \in DOMAIN s, j > m
       PROVE  s[j].op = "process" /\ Hot(s[j], o)
  <2>1. j - m \in 1 .. Len(c) /\ s[j] = c[j - m]
    BY <1>8, <1>11
  <2> QED
    BY <1>3, <2>1
<1> QED
  BY <1>8, <1>9, <1>10, <1>11 DEF Passing, s

LEMMA SendOK ==
    ASSUME TypeOK, StackOK, Do("pass"), Passed(Top.obj, Top.own) # NoPacket,
           NEW calls \in Seq(Call), Passing(calls, Top.obj, Top.own, Passed(Top.obj, Top.own)),
           stack' = calls \o Tail(stack), UNCHANGED <<b_packet, x_packet, b_queued, done>>
    PROVE  StackOK'
<1> DEFINE s == stack'
           n == Len(calls)
           rest == Tail(stack)
<1>0. stack # <<>> /\ Top.op = "pass" /\ Top \in Call /\ Top = stack[1] /\ 1 \in DOMAIN stack
  BY Popped DEF Do
<1>1. PICK o \in Obj, own \in BOOLEAN : Top.obj = o /\ Top.own = own
  BY <1>0, CallFields
<1>2. rest \in Seq(Call) /\ Plain(rest) /\ Ends(rest) /\ DOMAIN rest = 1 .. Len(rest)
  BY <1>0, Popped, PlainTail, EndsTail
<1>3. /\ s \in Seq(Call) /\ Len(s) = n + Len(rest) /\ n \in Nat /\ Len(rest) \in Nat /\ DOMAIN s = 1 .. Len(s)
      /\ \A k \in 1 .. n : k \in DOMAIN s /\ s[k] = calls[k]
      /\ \A k \in DOMAIN s : \/ k \in 1 .. n /\ s[k] = calls[k]
                             \/ k - n \in 1 .. Len(rest) /\ s[k] = rest[k - n]
  BY <1>2, Splice
<1>4. PICK m \in DOMAIN calls :
        /\ calls[m].op = "unuse" /\ calls[m].obj = o /\ calls[m].own = own
        /\ \A j \in DOMAIN calls : j < m => calls[j].op \in {"ro", "rw"} /\ calls[j].packet = Passed(o, own)
        /\ \A j \in DOMAIN calls : j > m => calls[j].op = "process"
  BY <1>1 DEF Passing
<1>5. DOMAIN calls = 1 .. n
  OBVIOUS
<1>6. Passed(o, own)' = Passed(o, own) /\ Passed(o, own) # NoPacket
  BY <1>1 DEF Passed
<1>7. done # <<>> \/ \A k \in DOMAIN rest : rest[k].op # "called"
  BY <1>0, Popped DEF StackOK, Ticking
<1>8. Leaves(Top) => ~b_queued'[o]
  BY <1>0, <1>1 DEF StackOK, Unqueues
<1> HIDE DEF s, n, rest
<1>9. ASSUME NEW k \in DOMAIN s
      PROVE  \/ k < m /\ s[k].op \in {"ro", "rw"} /\ s[k].packet = Passed(o, own)
             \/ k = m /\ s[k] = calls[m]
             \/ k > m /\ s[k].op = "process"
             \/ k > m /\ k - n \in DOMAIN rest /\ s[k] = rest[k - n]
  <2>1. CASE k \in 1 .. n /\ s[k] = calls[k]
    BY <1>4, <1>5, <2>1
  <2>2. CASE k - n \in 1 .. Len(rest) /\ s[k] = rest[k - n]
    BY <1>2, <1>3, <1>4, <1>5, <2>2
  <2> QED
    BY <1>3, <2>1, <2>2
<1>10. m \in DOMAIN s /\ s[m] = calls[m] /\ m \in Int
  BY <1>3, <1>5
<1>11. \A k \in DOMAIN s : s[k].op \in {"unuse"} => k = m
  BY <1>2, <1>9 DEF Plain
<1>12. \A k \in DOMAIN s : s[k].op \in {"ro", "rw"} => k < m
  BY <1>2, <1>4, <1>9 DEF Plain
<1>13. \A k \in DOMAIN s : s[k].op \notin {"direct", "discard"} /\ (Leaves(s[k]) => k = m)
  <2> TAKE k \in DOMAIN s
  <2>1. CASE k = m
    BY <1>4, <1>10, <2>1
  <2>2. CASE k # m
    BY <1>2, <1>9, <2>2 DEF Plain, Leaves
  <2> QED
    BY <2>1, <2>2
<1>14. Sending'
  <2>1. \A j \in 1 .. m - 1 : j \in DOMAIN s /\ j < m /\ j # m
    BY <1>3, <1>10
  <2>2. \A j \in 1 .. m - 1 : s[j].op \in {"ro", "rw"} /\ s[j].packet = Passed(o, own)
    BY <1>9, <1>10, <2>1
  <2>3. s[m].obj = o /\ s[m].own = own
    BY <1>4, <1>10
  <2> QED
    BY <1>6, <1>11, <2>2, <2>3 DEF Sending, Passed, s
<1>15. Registering'
  BY <1>4, <1>10, <1>12 DEF Registering, s
<1>16. Together'
  BY <1>4, <1>10, <1>13 DEF Together, Leaves, s
<1>17. Unqueues'
  <2>1. Leaves(s[m]) => Leaves(Top)
    BY <1>0, <1>1, <1>4, <1>10 DEF Leaves
  <2> QED
    BY <1>4, <1>8, <1>10, <1>13, <2>1 DEF Unqueues, Leaves, s
<1>18. Ticking'
  <2> SUFFICES ASSUME NEW k \in DOMAIN s, s[k].op \in {"tick", "called"}
               PROVE  /\ s[k].op = "tick" => k = Len(s)
                      /\ s[k].op = "called" => k + 1 = Len(s) /\ done # <<>>
    BY DEF Ticking, s
  <2>1. k - n \in DOMAIN rest /\ s[k] = rest[k - n] /\ k \in Int
    <3>1. k # m /\ s[k].op \notin {"ro", "rw", "process"}
      BY <1>4, <1>10
    <3> QED
      BY <1>3, <1>9, <3>1
  <2>2. (s[k].op = "tick" => k - n = Len(rest)) /\ (s[k].op = "called" => (k - n) + 1 = Len(rest) /\ done # <<>>)
    BY <1>2, <1>7, <2>1 DEF Ends
  <2>3. (k - n = Len(rest) => k = Len(s)) /\ ((k - n) + 1 = Len(rest) => k + 1 = Len(s))
    BY <1>3, <2>1
  <2> QED
    BY <2>2, <2>3
<1> QED
  BY <1>14, <1>15, <1>16, <1>17, <1>18 DEF StackOK

-----------------------------------------------------------------------------
(* The calls of a stack as a set: what an invariant says of some call or   *)
(* of all, whatever its place.                                             *)
Elems(s) == {s[k] : k \in DOMAIN s}

LEMMA ElemsSplice ==
    ASSUME NEW calls \in Seq(Call), NEW rest \in Seq(Call), NEW s, s = calls \o rest
    PROVE  Elems(s) = Elems(calls) \union Elems(rest)
<1>1. /\ DOMAIN calls = 1 .. Len(calls) /\ DOMAIN rest = 1 .. Len(rest)
      /\ \A k \in 1 .. Len(calls) : k \in DOMAIN s /\ s[k] = calls[k]
      /\ \A k \in 1 .. Len(rest) : Len(calls) + k \in DOMAIN s /\ s[Len(calls) + k] = rest[k]
      /\ \A k \in DOMAIN s : \/ k \in 1 .. Len(calls) /\ s[k] = calls[k]
                             \/ k - Len(calls) \in 1 .. Len(rest) /\ s[k] = rest[k - Len(calls)]
  BY Splice
<1>2. ASSUME NEW c \in Elems(s) PROVE c \in Elems(calls) \union Elems(rest)
  BY <1>1 DEF Elems
<1>3. ASSUME NEW c \in Elems(calls) \union Elems(rest) PROVE c \in Elems(s)
  BY <1>1 DEF Elems
<1> QED
  BY <1>2, <1>3

LEMMA ElemsTail ==
    ASSUME TypeOK, stack # <<>>
    PROVE  Elems(stack) = {Top} \union Elems(Tail(stack))
<1>1. ASSUME NEW c \in Elems(stack) PROVE c \in {Top} \union Elems(Tail(stack))
  <2>1. PICK k \in DOMAIN stack : c = stack[k]
    BY DEF Elems
  <2>2. CASE k = 1
    BY <2>1, <2>2, Popped
  <2>3. CASE k # 1
    <3>1. k - 1 \in DOMAIN Tail(stack) /\ Tail(stack)[k - 1] = c
      BY <2>1, <2>3, Popped
    <3> QED
      BY <3>1 DEF Elems
  <2> QED
    BY <2>2, <2>3
<1>2. ASSUME NEW c \in {Top} \union Elems(Tail(stack)) PROVE c \in Elems(stack)
  <2>1. CASE c = Top
    BY <2>1, Popped DEF Elems
  <2>2. CASE c \in Elems(Tail(stack))
    <3>1. PICK k \in DOMAIN Tail(stack) : c = Tail(stack)[k]
      BY <2>2 DEF Elems
    <3>2. k + 1 \in DOMAIN stack /\ c = stack[k + 1]
      BY <3>1, Popped
    <3> QED
      BY <3>2 DEF Elems
  <2> QED
    BY <2>1, <2>2
<1> QED
  BY <1>1, <1>2

LEMMA ElemsEmpty == Elems(<<>>) = {}
BY DEF Elems

LEMMA InCalls ==
    /\ InCall <=> \E c \in Elems(stack) : c.op = "called"
    /\ InCall' <=> \E c \in Elems(stack') : c.op = "called"
BY DEF InCall, Elems

LEMMA Leavings ==
    /\ \A o : Leaving(o) <=> \E c \in Elems(stack) : Leaves(c) /\ c.obj = o
    /\ \A o : Leaving(o)' <=> \E c \in Elems(stack') : Leaves(c) /\ c.obj = o
BY DEF Leaving, Elems, Leaves

LEMMA PlainElems ==
    ASSUME NEW s, Plain(s)
    PROVE  \A c \in Elems(s) : c.op \in {"process", "tick", "called", "pass"} /\ ~Leaves(c)
BY DEF Plain, Elems, Leaves

LEMMA OwnPacketNext ==
    ASSUME \A o \in Obj : x_packet'[o] # NoPacket =>
               Kind[o] \in {"noise", "zoom"} /\ (b_queued'[o] \/ \E c \in Elems(stack') : Leaves(c) /\ c.obj = o),
           \A n \in DOMAIN todo' : Kind[todo'[n]] = "noise" => x_packet'[todo'[n]] = NoPacket,
           \A c \in Elems(stack') : c.op = "direct" /\ Kind[c.obj] = "noise" => x_packet'[c.obj] = NoPacket
    PROVE  OwnPacket'
<1>1. \A o \in Obj : x_packet'[o] # NoPacket => Kind[o] \in {"noise", "zoom"} /\ (b_queued'[o] \/ Leaving(o)')
  BY Leavings
<1>2. \A k \in DOMAIN stack' : stack'[k].op = "direct" /\ Kind[stack'[k].obj] = "noise" =>
          x_packet'[stack'[k].obj] = NoPacket
  BY DEF Elems
<1> QED
  BY <1>1, <1>2 DEF OwnPacket

LEMMA QueuedSame ==
    ASSUME QueuedOnce, UNCHANGED <<todo, done, b_queued>>, InCall' <=> InCall
    PROVE  QueuedOnce'
<1>1. Waiting' = Waiting
  BY DEF Waiting
<1> QED
  BY <1>1 DEF QueuedOnce

(* Returning to calls that concern no packet. *)
LEMMA ReturnOK ==
    ASSUME NEW rest \in Seq(Call), Plain(rest), Ends(rest), stack' = rest,
           \A k \in DOMAIN rest : rest[k].op = "called" => done' # <<>>
    PROVE  StackOK'
<1> DEFINE none == SubSeq(rest, 1, 0)
<1>1. none \in Seq(Call) /\ none = <<>>
  OBVIOUS
<1>2. none \o rest = rest
  OBVIOUS
<1>3. PostCalls(none, NoObj)
  BY <1>1 DEF PostCalls
<1> HIDE DEF none
<1> QED
  BY <1>1, <1>2, <1>3, PushOK

Put(f, o, i, p) == [f EXCEPT ![o][i] = p]
LEMMA SetSlot ==
    ASSUME NEW f \in Rows, NEW o \in Obj, NEW i \in Inlet, NEW p \in Packet
    PROVE  /\ Put(f, o, i, p) \in Rows /\ OnlyAt(f, Put(f, o, i, p), o, i) /\ OnlyOf(f, Put(f, o, i, p), o)
           /\ Put(f, o, i, p)[o][i] = p
<1> DEFINE g == Put(f, o, i, p)
<1>1. f[o] \in [Inlet -> Packet] /\ [f[o] EXCEPT ![i] = p] \in [Inlet -> Packet]
  BY DEF Rows
<1>2. g = [f EXCEPT ![o] = [f[o] EXCEPT ![i] = p]]
  BY DEF Put
<1> DEFINE r == [f[o] EXCEPT ![i] = p]
<1>3. r[i] = p /\ \A j \in Inlet : j # i => r[j] = f[o][j]
  BY <1>1
<1> HIDE DEF r
<1>4. g = [f EXCEPT ![o] = r] /\ r \in [Inlet -> Packet]
  BY <1>1, <1>2 DEF r
<1>5. g \in Rows /\ g[o] = r /\ \A q \in Obj : q # o => g[q] = f[q]
  BY <1>4 DEF Rows
<1> QED
  BY <1>3, <1>5 DEF OnlyAt, OnlyOf

(* A call that returns and leaves queue and own packets alone. *)
LEMMA QueuedPop ==
    ASSUME TypeOK, QueuedOnce, stack # <<>>, Top.op # "called", stack' = Tail(stack),
           UNCHANGED <<todo, done, b_queued>>
    PROVE  QueuedOnce'
<1>1. Elems(stack) = {Top} \union Elems(stack')
  BY ElemsTail
<1>2. InCall' <=> InCall
  BY <1>1, InCalls
<1> QED
  BY <1>2, QueuedSame

LEMMA OwnPop ==
    ASSUME TypeOK, OwnPacket, stack # <<>>, ~Leaves(Top), stack' = Tail(stack),
           UNCHANGED <<x_packet, b_queued, todo>>
    PROVE  OwnPacket'
<1>1. Elems(stack) = {Top} \union Elems(stack')
  BY ElemsTail
<1>2. \A q \in Obj : Leaving(q) => \E c \in Elems(stack') : Leaves(c) /\ c.obj = q
  BY <1>1, Leavings
<1>3. \A q \in Obj : x_packet[q] # NoPacket => Kind[q] \in {"noise", "zoom"} /\ (b_queued[q] \/ Leaving(q))
  BY DEF OwnPacket
<1>4. \A c \in Elems(stack) : c.op = "direct" /\ Kind[c.obj] = "noise" => x_packet[c.obj] = NoPacket
  BY DEF OwnPacket, Elems
<1>5. \A n \in DOMAIN todo : Kind[todo[n]] = "noise" => x_packet[todo[n]] = NoPacket
  BY DEF OwnPacket
<1> QED
  BY <1>1, <1>2, <1>3, <1>4, <1>5, OwnPacketNext

-----------------------------------------------------------------------------
(* Each step preserves the invariant. *)
LEMMA PassStep ==
    ASSUME CountInv, pdp_packet_pass_if_valid
    PROVE  CountInv'
<1> DEFINE rest == Tail(stack)
<1>0. TypeOK /\ StackOK /\ Registers /\ QueuedOnce /\ OwnPacket /\ RefCount
  BY DEF CountInv
<1>1. stack # <<>> /\ Top.op = "pass" /\ Do("pass")
  BY DEF pdp_packet_pass_if_valid, Do
<1>2. PICK o \in Obj, own \in BOOLEAN : Top.obj = o /\ Top.own = own
  BY <1>0, <1>1, Popped, CallFields
<1>3. UNCHANGED <<object, users, given, processed, todo, done>>
  BY DEF pdp_packet_pass_if_valid, Unqueued
<1>4. rest \in Seq(Call) /\ Plain(rest) /\ Ends(rest)
  BY <1>0, <1>1, PlainTail, EndsTail, Popped
<1>5. Passed(o, own) \in Packet
  BY <1>0, Handles DEF Passed, TypeOK
<1>6. PICK calls \in Seq(Call) :
        /\ stack' = calls \o rest
        /\ IF Passed(o, own) = NoPacket THEN calls = <<>> ELSE Passing(calls, o, own, Passed(o, own))
  <2>1. CASE Passed(o, own) = NoPacket
    <3>1. stack' = <<>> \o rest
      BY <1>2, <2>1 DEF pdp_packet_pass_if_valid, Run
    <3>2. <<>> \in Seq(Call)
      OBVIOUS
    <3> QED
      BY <2>1, <3>1, <3>2
  <2>2. CASE Passed(o, own) # NoPacket
    <3>1. stack' = PassedOn(o, own, Passed(o, own)) \o rest
      BY <1>2, <2>2 DEF pdp_packet_pass_if_valid, Run, PassedOn
    <3> QED
      BY <1>5, <2>2, <3>1, PassCalls
  <2> QED
    BY <2>1, <2>2
<1>7. \A k \in DOMAIN rest : rest[k].op = "called" => done # <<>>
  BY <1>0, <1>1, Popped DEF StackOK, Ticking
<1>8. TypeOK'
  <2>1. stack' \in Seq(Call)
    BY <1>4, <1>6
  <2> QED
    BY <1>0, <1>3, <2>1 DEF TypeOK, object
<1>9. Registers' /\ RefCount'
  BY <1>0, <1>3 DEF Registers, RefCount, object
<1>10. StackOK'
  <2>1. CASE Passed(o, own) = NoPacket
    <3>1. stack' = rest
      BY <1>4, <1>6, <2>1
    <3> QED
      BY <1>3, <1>4, <1>7, <3>1, ReturnOK
  <2>2. CASE Passed(o, own) # NoPacket
    <3>1. UNCHANGED <<b_packet, x_packet, b_queued, done>>
      BY <1>3 DEF object
    <3> QED
      BY <1>0, <1>1, <1>2, <1>6, <2>2, <3>1, SendOK
  <2> QED
    BY <2>1, <2>2
<1>11. Elems(stack) = {Top} \union Elems(rest) /\ Elems(stack') = Elems(calls) \union Elems(rest)
  BY <1>0, <1>1, <1>4, <1>6, ElemsTail, ElemsSplice
<1>12. \A c \in Elems(calls) : c.op \in {"ro", "rw", "unuse", "process"}
  <2>1. CASE Passed(o, own) = NoPacket
    BY <1>6, <2>1, ElemsEmpty
  <2>2. CASE Passed(o, own) # NoPacket
    <3>1. DOMAIN calls \subseteq Int
      BY <1>6
    <3> QED
      BY <1>6, <2>2, <3>1 DEF Passing, Elems
  <2> QED
    BY <2>1, <2>2
<1>13. QueuedOnce'
  <2>1. InCall' <=> InCall
    BY <1>1, <1>11, <1>12, InCalls
  <2> QED
    BY <1>0, <1>3, <2>1, QueuedSame DEF object
<1>14. OwnPacket'
  <2>1. ASSUME NEW q \in Obj, x_packet[q] # NoPacket, ~b_queued[q]
        PROVE  \E c \in Elems(stack') : Leaves(c) /\ c.obj = q
    <3>1. Leaving(q) /\ Kind[q] \in {"noise", "zoom"}
      BY <1>0, <2>1 DEF OwnPacket
    <3>2. Leaves(Top) /\ q = o
      BY <1>2, <1>4, <1>11, <3>1, Leavings, PlainElems
    <3>3. own /\ Passed(o, own) # NoPacket
      BY <1>2, <2>1, <3>1, <3>2 DEF Leaves, Passed
    <3>4. PICK m \in DOMAIN calls : calls[m].op = "unuse" /\ calls[m].obj = o /\ calls[m].own = own
      BY <1>6, <3>3 DEF Passing
    <3>5. calls[m] \in Elems(stack') /\ Leaves(calls[m])
      BY <1>11, <3>3, <3>4 DEF Elems, Leaves
    <3> QED
      BY <3>2, <3>4, <3>5
  <2>2. \A c \in Elems(stack') : c.op # "direct"
    BY <1>4, <1>11, <1>12, PlainElems
  <2>3. \A q \in Obj : x_packet[q] # NoPacket => Kind[q] \in {"noise", "zoom"}
    BY <1>0 DEF OwnPacket
  <2>4. \A n \in DOMAIN todo : Kind[todo[n]] = "noise" => x_packet[todo[n]] = NoPacket
    BY <1>0 DEF OwnPacket
  <2>5. UNCHANGED <<x_packet, b_queued, todo>>
    BY <1>3 DEF object
  <2> QED
    BY <2>1, <2>2, <2>3, <2>4, <2>5, OwnPacketNext
<1> QED
  BY <1>8, <1>9, <1>10, <1>13, <1>14 DEF CountInv

LEMMA PassUnuseStep ==
    ASSUME CountInv, PassUnuse
    PROVE  CountInv'
<1> DEFINE rest == Tail(stack)
<1>0. TypeOK /\ StackOK /\ Registers /\ QueuedOnce /\ OwnPacket /\ RefCount
  BY DEF CountInv
<1>1. stack # <<>> /\ Top.op = "unuse"
  BY DEF PassUnuse, Do
<1>2. PICK o \in Obj, own \in BOOLEAN : Top.obj = o /\ Top.own = own
  BY <1>0, <1>1, Popped, CallFields
<1>3. UNCHANGED <<b_packet_next, b_queued, b_thread_enabled, alive, given, todo, done>> /\ stack' = rest
      /\ processed' = processed \ {o}
  BY <1>2 DEF PassUnuse, Unqueued, Return
<1>4. rest \in Seq(Call) /\ Plain(rest) /\ Ends(rest)
  BY <1>0, <1>1, PlainTail, EndsTail, Popped
<1>5. /\ b_packet' \in Rows /\ x_packet' \in [Obj -> Packet]
      /\ IF own THEN b_packet' = b_packet /\ OnlyOf(x_packet, x_packet', o) /\ x_packet'[o] = NoPacket
                ELSE x_packet' = x_packet /\ OnlyAt(b_packet, b_packet', o, 0) /\ b_packet'[o][0] = NoPacket
  <2>1. Clear(o, own)
    BY <1>2 DEF PassUnuse
  <2>2. CASE own
    BY <1>0, <2>1, <2>2, Handles DEF Clear, TypeOK, Rows, OnlyOf
  <2>3. CASE ~own
    <3>1. b_packet \in Rows /\ b_packet' = Put(b_packet, o, 0, NoPacket) /\ x_packet' = x_packet
      BY <1>0, <2>1, <2>3 DEF Clear, TypeOK, Rows, Put
    <3> QED
      BY <1>0, <2>3, <3>1, Handles, SetSlot DEF TypeOK
  <2> QED
    BY <2>2, <2>3
<1>6. users' = Retain(Release(users, Passed(o, own)), NoPacket)
  BY <1>2, NothingReleased DEF PassUnuse
<1>7. RefCount' /\ users' \in [Handle -> Nat]
  <2>1. CASE own
    <3>1. users' = Retain(Release(users, x_packet[o]), x_packet'[o])
      BY <1>5, <1>6, <2>1 DEF Passed
    <3> QED
      BY <1>0, <1>3, <1>5, <2>1, <3>1, SetOwn
  <2>2. CASE ~own
    <3>1. users' = Retain(Release(users, b_packet[o][0]), b_packet'[o][0])
      BY <1>5, <1>6, <2>2 DEF Passed
    <3> QED
      BY <1>0, <1>3, <1>5, <2>2, <3>1, SetActive
  <2> QED
    BY <2>1, <2>2
<1>8. TypeOK'
  <2>1. b_packet' \in [Obj -> [Inlet -> Packet]]
    BY <1>5 DEF Rows
  <2> QED
    BY <1>0, <1>3, <1>4, <1>5, <1>7, <2>1 DEF TypeOK
<1>9. Registers'
  <2>1. \A q \in Obj : b_packet'[q][0] = b_packet[q][0] \/ b_packet'[q][0] = NoPacket
    BY <1>5, Handles DEF OnlyAt
  <2> QED
    BY <1>0, <1>3, <2>1 DEF Registers
<1>10. StackOK'
  <2>1. \A k \in DOMAIN rest : rest[k].op = "called" => done' # <<>>
    BY <1>0, <1>1, <1>3, Popped DEF StackOK, Ticking
  <2> QED
    BY <1>3, <1>4, <2>1, ReturnOK
<1>11. Elems(stack) = {Top} \union Elems(rest)
  BY <1>0, <1>1, ElemsTail
<1>12. QueuedOnce'
  <2>1. InCall' <=> InCall
    BY <1>1, <1>3, <1>11, InCalls
  <2> QED
    BY <1>0, <1>3, <2>1, QueuedSame
<1>13. OwnPacket'
  <2>1. ASSUME NEW q \in Obj, x_packet'[q] # NoPacket
        PROVE  b_queued[q] /\ Kind[q] \in {"noise", "zoom"}
    <3>1. x_packet[q] # NoPacket /\ (q = o => ~own)
      BY <1>5, <2>1 DEF OnlyOf
    <3>2. Kind[q] \in {"noise", "zoom"} /\ (b_queued[q] \/ Leaving(q))
      BY <1>0, <3>1 DEF OwnPacket
    <3>3. ~Leaving(q)
      <4>1. ~(Leaves(Top) /\ Top.obj = q)
        BY <1>2, <3>1, <3>2 DEF Leaves
      <4> QED
        BY <1>4, <1>11, <4>1, Leavings, PlainElems
    <3> QED
      BY <3>2, <3>3
  <2>2. \A c \in Elems(stack') : c.op # "direct"
    BY <1>3, <1>4, PlainElems
  <2>3. \A n \in DOMAIN todo : todo[n] \in Obj /\ (Kind[todo[n]] = "noise" => x_packet[todo[n]] = NoPacket)
    BY <1>0 DEF OwnPacket, TypeOK
  <2>4. \A n \in DOMAIN todo' : Kind[todo'[n]] = "noise" => x_packet'[todo'[n]] = NoPacket
    BY <1>3, <1>5, <2>3 DEF OnlyOf
  <2>5. b_queued' = b_queued
    BY <1>3
  <2> QED
    BY <2>1, <2>2, <2>4, <2>5, OwnPacketNext
<1> QED
  BY <1>7, <1>8, <1>9, <1>10, <1>12, <1>13 DEF CountInv

(* A process method changes the packet of its class only. *)
LEMMA ProcessData ==
    ASSUME TypeOK, Registers, RefCount, NEW o \in Obj, pdp_base_process(o),
           Kind[o] = "noise" => x_packet[o] = NoPacket
    PROVE  /\ b_packet' \in Rows /\ x_packet' \in [Obj -> Packet] /\ users' \in [Handle -> Nat]
           /\ given' \in Rows /\ processed' = processed \union {o}
           /\ UNCHANGED <<b_packet_next, b_thread_enabled, alive>>
           /\ RefCount' /\ Registers'
           /\ IF Kind[o] = "mat" THEN OnlyAt(b_packet, b_packet', o, 0) ELSE b_packet' = b_packet
           /\ IF Kind[o] = "noise" THEN OnlyOf(x_packet, x_packet', o) ELSE x_packet' = x_packet
<1>1. /\ processed' = processed \union {o} /\ UNCHANGED <<b_packet_next, b_thread_enabled, alive>>
      /\ given' \in Rows
  <2>1. NoPackets \in [Inlet -> Packet]
    BY Handles DEF NoPackets
  <2> QED
    BY <2>1 DEF pdp_base_process, TypeOK, Rows
<1>2. CASE Kind[o] = "noise"
  <2>1. PICK p \in Fresh : users' = Retain(users, p) /\ x_packet' = [x_packet EXCEPT ![o] = p] /\ b_packet' = b_packet
    BY <1>2 DEF pdp_base_process
  <2>2. p \in Handle /\ p \in Packet
    BY Handles
  <2>3. x_packet' \in [Obj -> Packet] /\ x_packet'[o] = p /\ OnlyOf(x_packet, x_packet', o)
    BY <2>1, <2>2 DEF TypeOK, OnlyOf
  <2>4. users' = Retain(Release(users, x_packet[o]), x_packet'[o])
    BY <1>2, <2>1, <2>3, NothingReleased
  <2>5. RefCount' /\ users' \in [Handle -> Nat]
    BY <1>1, <2>1, <2>3, <2>4, SetOwn
  <2> QED
    BY <1>1, <1>2, <2>1, <2>3, <2>5 DEF TypeOK, Rows, Registers
<1>3. CASE Kind[o] \in {"gain", "zoom"}
  <2>1. UNCHANGED <<b_packet, x_packet, users>>
    BY <1>3 DEF pdp_base_process
  <2> QED
    BY <1>1, <1>3, <2>1 DEF TypeOK, Rows, Registers, RefCount
<1>4. CASE Kind[o] = "mat"
  <2>1. PICK p \in Fresh \union {NoPacket} :
          /\ users' = Retain(Release(users, b_packet[o][0]), p)
          /\ b_packet' = Put(b_packet, o, 0, p) /\ x_packet' = x_packet
    BY <1>4 DEF pdp_base_process, Put
  <2>2. p \in Packet
    BY Handles
  <2>3. b_packet' \in Rows /\ b_packet'[o][0] = p /\ OnlyAt(b_packet, b_packet', o, 0)
    <3>1. b_packet \in Rows
      BY DEF TypeOK, Rows
    <3> QED
      BY <2>1, <2>2, <3>1, Handles, SetSlot
  <2>4. RefCount' /\ users' \in [Handle -> Nat]
    BY <1>1, <2>1, <2>3, SetActive
  <2>5. Registers'
    <3>1. \A q \in Obj : Kind[q] = "noise" => b_packet'[q][0] = b_packet[q][0]
      BY <1>4, <2>3, Handles DEF OnlyAt
    <3> QED
      BY <1>1, <3>1 DEF Registers
  <2> QED
    BY <1>1, <1>4, <2>1, <2>3, <2>4, <2>5 DEF TypeOK
<1> QED
  BY <1>2, <1>3, <1>4, PatchAssumption

LEMMA DirectStep ==
    ASSUME CountInv, Direct
    PROVE  CountInv'
<1> DEFINE rest == Tail(stack)
<1>0. TypeOK /\ StackOK /\ Registers /\ QueuedOnce /\ OwnPacket /\ RefCount
  BY DEF CountInv
<1>1. stack # <<>> /\ Top.op = "direct"
  BY DEF Direct, Do
<1>2. PICK o \in Obj : Top.obj = o
  BY <1>0, <1>1, Popped, CallFields
<1>3. pdp_base_process(o) /\ stack' = rest /\ UNCHANGED <<b_queued, todo, done>>
  BY <1>2 DEF Direct, Return, Unqueued
<1>4. rest \in Seq(Call) /\ Top = stack[1] /\ 1 \in DOMAIN stack
  BY <1>0, <1>1, Popped
<1>5. Kind[o] = "noise" => x_packet[o] = NoPacket
  BY <1>0, <1>1, <1>2, <1>4 DEF OwnPacket
<1>6. /\ b_packet' \in Rows /\ x_packet' \in [Obj -> Packet] /\ users' \in [Handle -> Nat]
      /\ given' \in Rows /\ processed' = processed \union {o}
      /\ UNCHANGED <<b_packet_next, b_thread_enabled, alive>>
      /\ RefCount' /\ Registers'
      /\ IF Kind[o] = "noise" THEN OnlyOf(x_packet, x_packet', o) ELSE x_packet' = x_packet
  BY <1>0, <1>3, <1>5, ProcessData
<1>7. TypeOK'
  BY <1>0, <1>3, <1>4, <1>6 DEF TypeOK, Rows
<1>8. StackOK'
  <2>1. \A q \in Obj, own \in BOOLEAN : ~Releases(q, own)
    <3> SUFFICES ASSUME NEW k \in DOMAIN stack, stack[k].op = "unuse" PROVE FALSE
      BY DEF Releases
    <3>1. k # 1 /\ 1 \in 1 .. k - 1
      BY <1>0, <1>1, <1>4, Popped
    <3> QED
      BY <1>0, <1>1, <1>4, <3>1 DEF StackOK, Sending
  <2> QED
    BY <1>0, <1>1, <1>3, <2>1, PopOK
<1>9. Elems(stack) = {Top} \union Elems(rest)
  BY <1>0, <1>1, ElemsTail
<1>10. QueuedOnce'
  BY <1>0, <1>1, <1>3, QueuedPop
<1>11. OwnPacket'
  <2>1. ~Leaves(Top)
    BY <1>1 DEF Leaves
  <2>2. \E c \in Elems(stack') : Leaves(c) /\ c.obj = o
    <3>1. Leaving(o)
      BY <1>0, <1>1, <1>2, <1>4 DEF StackOK, Together
    <3> QED
      BY <1>3, <1>9, <2>1, <3>1, Leavings
  <2>3. ASSUME NEW q \in Obj, x_packet'[q] # NoPacket
        PROVE  Kind[q] \in {"noise", "zoom"} /\ (b_queued'[q] \/ \E c \in Elems(stack') : Leaves(c) /\ c.obj = q)
    <3>1. CASE q = o /\ Kind[o] = "noise"
      BY <2>2, <3>1
    <3>2. CASE q # o \/ Kind[o] # "noise"
      <4>1. x_packet[q] # NoPacket
        BY <1>6, <2>3, <3>2 DEF OnlyOf
      <4>2. Kind[q] \in {"noise", "zoom"} /\ (b_queued[q] \/ Leaving(q))
        BY <1>0, <4>1 DEF OwnPacket
      <4> QED
        BY <1>3, <1>9, <2>1, <4>2, Leavings
    <3> QED
      BY <3>1, <3>2
  <2>4. ~b_queued[o]
    BY <1>0, <1>1, <1>2, <1>4 DEF StackOK, Unqueues
  <2>5. \A n \in DOMAIN todo : todo[n] \in Obj /\ todo[n] # o /\ (Kind[todo[n]] = "noise" => x_packet[todo[n]] = NoPacket)
    BY <1>0, <2>4 DEF OwnPacket, TypeOK, QueuedOnce
  <2>6. \A n \in DOMAIN todo' : Kind[todo'[n]] = "noise" => x_packet'[todo'[n]] = NoPacket
    BY <1>3, <1>6, <2>5 DEF OnlyOf
  <2>7. \A c \in Elems(stack') : c.op # "direct"
    <3> SUFFICES ASSUME NEW k \in DOMAIN rest, rest[k].op = "direct" PROVE FALSE
      BY <1>3 DEF Elems
    <3>1. k + 1 \in DOMAIN stack /\ stack[k + 1].op = "direct" /\ k + 1 # 1
      BY <1>0, <1>1, Popped
    <3> QED
      BY <1>0, <3>1 DEF StackOK, Together
  <2> QED
    BY <2>3, <2>6, <2>7, OwnPacketNext
<1> QED
  BY <1>6, <1>7, <1>8, <1>10, <1>11 DEF CountInv

LEMMA DiscardStep ==
    ASSUME CountInv, Discard
    PROVE  CountInv'
<1> DEFINE rest == Tail(stack)
<1>0. TypeOK /\ StackOK /\ Registers /\ QueuedOnce /\ OwnPacket /\ RefCount
  BY DEF CountInv
<1>1. stack # <<>> /\ Top.op = "discard"
  BY DEF Discard, Do
<1>2. PICK o \in Obj : Top.obj = o
  BY <1>0, <1>1, Popped, CallFields
<1>3. /\ users' = Release(users, b_packet[o][0]) /\ b_packet' = Put(b_packet, o, 0, NoPacket)
      /\ stack' = rest
      /\ UNCHANGED <<b_packet_next, b_queued, b_thread_enabled, x_packet, alive, given, processed, todo, done>>
  BY <1>2 DEF Discard, Return, Unqueued, Put
<1>4. rest \in Seq(Call) /\ Top = stack[1] /\ 1 \in DOMAIN stack
  BY <1>0, <1>1, Popped
<1>5. b_packet' \in Rows /\ OnlyAt(b_packet, b_packet', o, 0) /\ b_packet'[o][0] = NoPacket
  <2>1. b_packet \in Rows
    BY <1>0 DEF TypeOK, Rows
  <2> QED
    BY <1>3, <2>1, Handles, SetSlot
<1>6. RefCount' /\ users' \in [Handle -> Nat]
  <2>1. users' = Retain(Release(users, b_packet[o][0]), b_packet'[o][0])
    BY <1>3, <1>5, NothingReleased
  <2> QED
    BY <1>0, <1>3, <1>5, <2>1, SetActive
<1>7. TypeOK'
  <2>1. b_packet' \in [Obj -> [Inlet -> Packet]]
    BY <1>5 DEF Rows
  <2>2. UNCHANGED <<b_packet_next, b_queued, b_thread_enabled, x_packet, alive, given, processed, todo, done>>
        /\ stack' \in Seq(Call)
    BY <1>3, <1>4
  <2> QED
    BY <1>0, <1>6, <2>1, <2>2 DEF TypeOK
<1>8. Registers'
  <2>1. \A q \in Obj : b_packet'[q][0] = b_packet[q][0] \/ b_packet'[q][0] = NoPacket
    BY <1>5, Handles DEF OnlyAt
  <2> QED
    BY <1>0, <1>3, <2>1 DEF Registers
<1>9. StackOK'
  <2>1. \A q \in Obj, own \in BOOLEAN : ~Releases(q, own)
    <3> SUFFICES ASSUME NEW k \in DOMAIN stack, stack[k].op = "unuse" PROVE FALSE
      BY DEF Releases
    <3>1. k # 1 /\ 1 \in 1 .. k - 1
      BY <1>0, <1>1, <1>4, Popped
    <3> QED
      BY <1>0, <1>1, <1>4, <3>1 DEF StackOK, Sending
  <2> QED
    BY <1>0, <1>1, <1>3, <2>1, PopOK
<1>10. UNCHANGED <<x_packet, b_queued, todo, done>> /\ stack' = rest /\ ~Leaves(Top)
  BY <1>1, <1>3 DEF Leaves
<1>11. QueuedOnce' /\ OwnPacket'
  BY <1>0, <1>1, <1>10, QueuedPop, OwnPop
<1> QED
  BY <1>6, <1>7, <1>8, <1>9, <1>11 DEF CountInv

(* What registering a packet in a hot inlet does, when it does anything. *)
Registered(o, p) ==
    /\ b_packet[o][0] = NoPacket /\ Kind[o] # "noise"
    /\ IF Kind[o] = "mat" THEN p = Top.packet ELSE p \in Fresh \union {NoPacket}
    /\ users' = Retain(users, p) /\ b_packet' = Put(b_packet, o, 0, p)
    /\ processed' = processed \ {o}
    /\ UNCHANGED <<b_packet_next, b_queued, b_thread_enabled, x_packet, alive>>

LEMMA RegisterWays ==
    ASSUME NEW o, Top.obj = o, Top.packet \in Packet, HotRegister, ~UNCHANGED <<object, users, processed>>
    PROVE  \E p \in Packet : Registered(o, p)
<1>1. CopyRo(Top.packet) \in SUBSET Packet /\ CopyRw(Top.packet) \in SUBSET Packet
  BY Handles DEF CopyRo, CopyRw
<1>2. \/ ~Disabled(o) /\ Readonly(o) /\ Register(o, CopyRo(Top.packet))
      \/ ~Disabled(o) /\ ~Readonly(o) /\ Register(o, CopyRw(Top.packet))
  <2>1. CASE Disabled(o)
    BY <2>1 DEF HotRegister
  <2>2. CASE ~Disabled(o) /\ Readonly(o) /\ Top.op = "ro"
    BY <2>2 DEF HotRegister
  <2>3. CASE ~Disabled(o) /\ ~Readonly(o) /\ Top.op = "rw"
    BY <2>3 DEF HotRegister
  <2>4. CASE ~Disabled(o) /\ ~(Readonly(o) /\ Top.op = "ro") /\ ~(~Readonly(o) /\ Top.op = "rw")
    BY <2>4 DEF HotRegister
  <2> QED
    BY <2>1, <2>2, <2>3, <2>4
<1>3. ASSUME NEW copies, Register(o, copies)
      PROVE  /\ b_packet[o][0] = NoPacket
             /\ \E p \in copies : /\ users' = Retain(users, p) /\ b_packet' = Put(b_packet, o, 0, p)
                                  /\ processed' = processed \ {o}
                                  /\ UNCHANGED <<b_packet_next, b_queued, b_thread_enabled, x_packet, alive>>
  BY <1>3 DEF Register, Put
<1>4. CASE Readonly(o) /\ ~Disabled(o) /\ Register(o, CopyRo(Top.packet))
  BY <1>1, <1>3, <1>4 DEF CopyRo, Readonly, Disabled, Registered
<1>5. CASE ~Readonly(o) /\ ~Disabled(o) /\ Register(o, CopyRw(Top.packet))
  BY <1>1, <1>3, <1>5 DEF CopyRw, Readonly, Disabled, Registered
<1> QED
  BY <1>2, <1>4, <1>5

LEMMA RegisterStep ==
    ASSUME CountInv, HotRegister
    PROVE  CountInv'
<1> DEFINE rest == Tail(stack)
<1>0. TypeOK /\ StackOK /\ Registers /\ QueuedOnce /\ OwnPacket /\ RefCount
  BY DEF CountInv
<1>1. stack # <<>> /\ Top.op \in {"ro", "rw"}
  BY DEF HotRegister
<1>2. PICK o \in Obj : Top.obj = o
  BY <1>0, <1>1, Popped, CallFields
<1>3. stack' = rest /\ UNCHANGED <<given, todo, done>> /\ rest \in Seq(Call) /\ Top = stack[1] /\ Top.packet \in Packet
  BY <1>0, <1>1, Popped, CallFields DEF HotRegister, Return, Unqueued
<1>4. CASE UNCHANGED <<object, users, processed>>
  <2>1. UNCHANGED <<b_packet, b_packet_next, b_queued, b_thread_enabled, x_packet, alive, users, processed, todo, done, given>>
    BY <1>3, <1>4 DEF object
  <2>2. ~Leaves(Top) /\ Top.op # "called"
    BY <1>1 DEF Leaves
  <2>3. StackOK'
    BY <1>0, <1>1, <1>3, <2>1, PopOK DEF Passed
  <2>4. QueuedOnce' /\ OwnPacket'
    BY <1>0, <1>1, <1>3, <2>1, <2>2, QueuedPop, OwnPop
  <2>5. TypeOK' /\ Registers' /\ RefCount'
    BY <1>0, <1>3, <2>1 DEF TypeOK, Registers, RefCount
  <2> QED
    BY <2>3, <2>4, <2>5 DEF CountInv
<1>5. CASE ~UNCHANGED <<object, users, processed>>
  <2>1. PICK p \in Packet :
          /\ b_packet[o][0] = NoPacket /\ Kind[o] # "noise"
          /\ users' = Retain(users, p) /\ b_packet' = Put(b_packet, o, 0, p)
          /\ processed' = processed \ {o}
          /\ UNCHANGED <<b_packet_next, b_queued, b_thread_enabled, x_packet, alive>>
    BY <1>2, <1>3, <1>5, RegisterWays DEF Registered
  <2>2. b_packet' \in Rows /\ OnlyAt(b_packet, b_packet', o, 0) /\ b_packet'[o][0] = p
    <3>1. b_packet \in Rows
      BY <1>0 DEF TypeOK, Rows
    <3> QED
      BY <2>1, <3>1, Handles, SetSlot
  <2>3. RefCount' /\ users' \in [Handle -> Nat]
    <3>1. users' = Retain(Release(users, b_packet[o][0]), b_packet'[o][0])
      BY <2>1, <2>2, NothingReleased
    <3> QED
      BY <1>0, <2>1, <2>2, <3>1, SetActive
  <2>4. TypeOK'
    <3>1. b_packet' \in [Obj -> [Inlet -> Packet]]
      BY <2>2 DEF Rows
    <3>2. UNCHANGED <<b_packet_next, b_queued, b_thread_enabled, x_packet, alive>> /\ processed' \subseteq processed
      BY <2>1
    <3> QED
      BY <1>0, <1>3, <2>3, <3>1, <3>2 DEF TypeOK
  <2>5. Registers'
    <3>1. \A q \in Obj : Kind[q] = "noise" => b_packet'[q][0] = b_packet[q][0]
      BY <2>1, <2>2, Handles DEF OnlyAt
    <3> QED
      BY <1>0, <2>1, <3>1 DEF Registers
  <2>6. StackOK'
    <3>1. ASSUME NEW q \in Obj, NEW own \in BOOLEAN, Releases(q, own)
          PROVE  Passed(q, own)' = Passed(q, own)
      <4>1. Passed(q, own) # NoPacket
        BY <1>0, <3>1 DEF Releases, StackOK, Sending
      <4>2. x_packet' = x_packet /\ b_packet[o][0] = NoPacket
        BY <2>1
      <4>3. ~own => b_packet'[q][0] = b_packet[q][0]
        BY <2>2, <4>1, <4>2, Handles DEF OnlyAt, Passed
      <4> QED
        BY <4>2, <4>3 DEF Passed
    <3>2. b_queued' = b_queued
      BY <2>1
    <3> QED
      BY <1>0, <1>1, <1>3, <3>1, <3>2, PopOK
  <2>7. QueuedOnce' /\ OwnPacket'
    <3>1. UNCHANGED <<b_queued, x_packet>> /\ ~Leaves(Top) /\ Top.op # "called"
      BY <1>1, <2>1 DEF Leaves
    <3> QED
      BY <1>0, <1>1, <1>3, <3>1, QueuedPop, OwnPop
  <2> QED
    BY <2>3, <2>4, <2>5, <2>6, <2>7 DEF CountInv
<1> QED
  BY <1>4, <1>5

LEMMA ColdStep ==
    ASSUME CountInv, pdp_base_input_cold
    PROVE  CountInv'
<1> DEFINE rest == Tail(stack)
<1>0. TypeOK /\ StackOK /\ Registers /\ QueuedOnce /\ OwnPacket /\ RefCount
  BY DEF CountInv
<1>1. stack # <<>> /\ Top.op \in {"ro", "rw", "process"} /\ Top.inlet # 0
  BY DEF pdp_base_input_cold
<1>2. PICK o \in Obj, i \in Inlet, p \in Packet : Top.obj = o /\ Top.inlet = i /\ Top.packet = p
  BY <1>0, <1>1, Popped, CallFields
<1>3. /\ stack' = rest /\ rest \in Seq(Call)
      /\ UNCHANGED <<b_packet, b_queued, b_thread_enabled, x_packet, alive, given, processed, todo, done>>
  BY <1>0, <1>1, Popped DEF pdp_base_input_cold, Return, Unqueued
<1>4. RefCount' /\ users' \in [Handle -> Nat] /\ b_packet_next' \in Rows /\ \A q \in Obj : b_packet_next'[q][0] = b_packet_next[q][0]
  <2>1. CASE UNCHANGED <<users, b_packet_next>>
    BY <1>0, <1>3, <2>1 DEF RefCount, TypeOK, Rows
  <2>2. CASE ~UNCHANGED <<users, b_packet_next>>
    <3>1. /\ b_packet_next[o][i] = NoPacket /\ users' = Retain(users, p)
          /\ b_packet_next' = Put(b_packet_next, o, i, p)
      BY <1>2, <2>2 DEF pdp_base_input_cold, Put
    <3>2. b_packet_next' \in Rows /\ OnlyAt(b_packet_next, b_packet_next', o, i) /\ b_packet_next'[o][i] = p
      <4>1. b_packet_next \in Rows
        BY <1>0 DEF TypeOK, Rows
      <4> QED
        BY <3>1, <4>1, SetSlot
    <3>3. users' = Retain(users, b_packet_next'[o][i])
      BY <3>1, <3>2
    <3>4. RefCount' /\ users' \in [Handle -> Nat]
      <4>1. UNCHANGED <<b_packet, x_packet>> /\ b_packet_next[o][i] = NoPacket
        BY <1>3, <3>1
      <4> QED
        BY <1>0, <3>2, <3>3, <4>1, SetNext
    <3>5. \A q \in Obj : b_packet_next'[q][0] = b_packet_next[q][0]
      BY <1>1, <1>2, <3>2, Handles DEF OnlyAt
    <3> QED
      BY <3>2, <3>4, <3>5
  <2> QED
    BY <2>1, <2>2
<1>5. TypeOK' /\ Registers'
  BY <1>0, <1>3, <1>4 DEF TypeOK, Rows, Registers
<1>6. ~Leaves(Top) /\ Top.op # "called"
  BY <1>1 DEF Leaves
<1>7. StackOK'
  BY <1>0, <1>1, <1>3, PopOK DEF Passed
<1>8. QueuedOnce' /\ OwnPacket'
  BY <1>0, <1>1, <1>3, <1>6, QueuedPop, OwnPop
<1> QED
  BY <1>4, <1>5, <1>7, <1>8 DEF CountInv

(* A bang of an object that is not queued: the registers after it. *)
LEMMA BangData ==
    ASSUME TypeOK, Registers, RefCount, OwnPacket, NEW o \in Obj, NEW rest, pdp_base_bang(o, rest),
           ~b_queued[o], ~Leaving(o)
    PROVE  /\ b_packet' \in Rows /\ b_packet_next' \in Rows /\ x_packet' \in [Obj -> Packet] /\ users' \in [Handle -> Nat]
           /\ UNCHANGED <<b_thread_enabled, alive>> /\ RefCount' /\ Registers'
           /\ OnlyOf(b_packet, b_packet', o) /\ b_packet'[o][0] = b_packet[o][0]
           /\ OnlyOf(x_packet, x_packet', o) /\ x_packet[o] = NoPacket
           /\ IF Preproc(o) THEN x_packet'[o] \in Fresh /\ users'[x_packet'[o]] = 1 ELSE x_packet' = x_packet
<1>1. x_packet[o] = NoPacket
  BY DEF OwnPacket
<1>2. PICK p \in Packet :
        /\ users' = Retain(AfterMove(o), p)
        /\ x_packet' = IF p = NoPacket THEN x_packet ELSE [x_packet EXCEPT ![o] = p]
        /\ IF Preproc(o) THEN p \in Fresh ELSE p = NoPacket
  <2>1. PICK p \in IF Preproc(o) THEN Fresh ELSE {NoPacket} :
          /\ users' = Retain(AfterMove(o), p)
          /\ x_packet' = IF p = NoPacket THEN x_packet ELSE [x_packet EXCEPT ![o] = p]
    BY DEF pdp_base_bang
  <2> QED
    BY <2>1, Handles
<1>3. x_packet' \in [Obj -> Packet] /\ OnlyOf(x_packet, x_packet', o)
      /\ IF p = NoPacket THEN x_packet' = x_packet ELSE x_packet'[o] = p
  BY <1>2 DEF TypeOK, OnlyOf
<1> DEFINE row == [i \in Inlet |-> IF i \in Moved(o) THEN b_packet_next[o][i] ELSE b_packet[o][i]]
<1>4. row \in [Inlet -> Packet] /\ MovesRow(b_packet[o], b_packet_next[o], row) /\ row[0] = b_packet[o][0]
  BY Handles DEF TypeOK, Moved, MovesRow, Comes, Cold
<1>5. b_packet' = [b_packet EXCEPT ![o] = row] /\ b_packet_next' = [b_packet_next EXCEPT ![o] = NoPackets]
  BY DEF pdp_base_bang
<1> HIDE DEF row
<1>6. b_packet' \in Rows /\ OnlyOf(b_packet, b_packet', o) /\ b_packet'[o] = row
  BY <1>4, <1>5 DEF TypeOK, Rows, OnlyOf
<1>7. b_packet_next' \in Rows /\ OnlyOf(b_packet_next, b_packet_next', o) /\ b_packet_next'[o] = NoPackets
  <2>1. NoPackets \in [Inlet -> Packet]
    BY Handles DEF NoPackets
  <2> QED
    BY <1>5, <2>1 DEF TypeOK, Rows, OnlyOf
<1>8. MovesRow(b_packet[o], b_packet_next[o], b_packet'[o]) /\ b_packet'[o][0] = b_packet[o][0]
  BY <1>4, <1>6
<1>9. RefCount' /\ users' \in [Handle -> Nat]
  <2>1. IF p = NoPacket THEN x_packet'[o] = x_packet[o] ELSE x_packet[o] = NoPacket /\ x_packet'[o] = p
    BY <1>1, <1>3
  <2>2. users' = Retain(AfterMove(o), p)
    BY <1>2
  <2> QED
    BY <1>3, <1>6, <1>7, <1>8, <2>1, <2>2, MoveCounts
<1>10. Registers'
  <2>1. \A q \in Obj : b_packet'[q][0] = b_packet[q][0]
    BY <1>6, <1>8 DEF OnlyOf
  <2>2. \A q \in Obj : b_packet_next'[q][0] = NoPacket
    BY <1>7, Handles DEF OnlyOf, NoPackets, Registers
  <2> QED
    BY <2>1, <2>2 DEF Registers
<1>11. UNCHANGED <<b_thread_enabled, alive>>
  BY DEF pdp_base_bang
<1>12. ASSUME Preproc(o) PROVE x_packet'[o] \in Fresh /\ users'[x_packet'[o]] = 1
  <2>1. p \in Fresh /\ p \in Handle /\ x_packet'[o] = p /\ users[p] = 0
    BY <1>2, <1>3, <1>12, Handles
  <2>2. Count(b_packet, p) = 0 /\ Count(b_packet_next, p) = 0 /\ OwnCount(x_packet, p) = 0
    BY <2>1, Counts, Finite
  <2>3. AfterMove(o)[p] = 0
    <3> DEFINE c == Gone(b_packet[o], b_packet_next[o], p)
               R == {i \in Inlet : b_packet[o][i] = p}
    <3>1. AfterMove(o)[p] = users[p] - c
      BY <2>1 DEF AfterMove, Moved, Gone, Comes
    <3>2. {i \in Comes(b_packet_next[o]) : b_packet[o][i] = p} = {}
      <4> SUFFICES ASSUME NEW i \in Inlet, b_packet[o][i] = p PROVE FALSE
        BY Handles DEF Comes
      <4>1. <<o, i>> \in {r \in Slots : b_packet[r[1]][r[2]] = p}
        BY DEF Slots
      <4>2. IsFiniteSet({r \in Slots : b_packet[r[1]][r[2]] = p})
        BY Finite, FS_Subset
      <4>3. {r \in Slots : b_packet[r[1]][r[2]] = p} = {}
        BY <2>2, <4>2, FS_EmptySet DEF Count
      <4> QED
        BY <4>1, <4>3
    <3>3. c = 0
      BY <3>2, FS_EmptySet DEF Gone
    <3> QED
      BY <2>1, <3>1, <3>3
  <2>4. p # NoPacket /\ users' = [AfterMove(o) EXCEPT ![p] = AfterMove(o)[p] + 1] /\ p \in DOMAIN AfterMove(o)
    BY <1>2, <2>1, Handles DEF Retain, AfterMove
  <2> QED
    BY <2>1, <2>3, <2>4
<1>13. ~Preproc(o) => x_packet' = x_packet
  BY <1>2
<1> QED
  BY <1>1, <1>3, <1>6, <1>7, <1>8, <1>9, <1>10, <1>11, <1>12, <1>13

(* The three ways a bang goes on: no thread, a place in the queue, none. *)
Unthreaded(o, rest) ==
    /\ ~b_thread_enabled[o]
    /\ stack' = (<<[op |-> "direct", obj |-> o]>> \o Postprocess(o)) \o rest
    /\ UNCHANGED <<b_queued, given, processed, todo, done>>
Added(o, rest) ==
    /\ Len(todo) + Len(done) < Capacity /\ todo' = Append(todo, o)
    /\ b_queued' = [b_queued EXCEPT ![o] = TRUE]
    /\ given' = [given EXCEPT ![o] = b_packet'[o]]
    /\ stack' = rest /\ UNCHANGED <<done, processed>>
Refused(o, rest) ==
    /\ stack' = Postprocess(o) \o rest /\ processed' = processed \union {o}
    /\ UNCHANGED <<b_queued, given, todo, done>>

LEMMA BangWays ==
    ASSUME NEW o, NEW rest, pdp_base_bang(o, rest), ~b_queued[o]
    PROVE  Unthreaded(o, rest) \/ Added(o, rest) \/ Refused(o, rest)
<1>1. CASE ~b_thread_enabled[o]
  BY <1>1 DEF pdp_base_bang, Unthreaded, Unqueued
<1>2. CASE b_thread_enabled[o] /\ Len(todo) + Len(done) < Capacity
  BY <1>2 DEF pdp_base_bang, Added, Q!Submit
<1>3. CASE b_thread_enabled[o] /\ ~(Len(todo) + Len(done) < Capacity)
  BY <1>3 DEF pdp_base_bang, Refused, Unqueued
<1> QED
  BY <1>1, <1>2, <1>3

LEMMA BangStep ==
    ASSUME CountInv, NEW o \in Obj, NEW rest \in Seq(Call), pdp_base_bang(o, rest),
           Plain(rest), Ends(rest), \A k \in DOMAIN rest : rest[k].op = "called" => done # <<>>,
           InCall <=> \E c \in Elems(rest) : c.op = "called",
           \A q \in Obj : ~Leaving(q)
    PROVE  CountInv'
<1>0. TypeOK /\ StackOK /\ Registers /\ QueuedOnce /\ OwnPacket /\ RefCount
  BY DEF CountInv
<1>1. \A q \in Obj : x_packet[q] # NoPacket => Kind[q] \in {"noise", "zoom"} /\ b_queued[q]
  BY <1>0 DEF OwnPacket
<1>2. \A n \in DOMAIN todo : Kind[todo[n]] = "noise" => x_packet[todo[n]] = NoPacket
  BY <1>0 DEF OwnPacket
<1>3. CASE b_queued[o]
  <2>1. UNCHANGED <<b_packet, b_packet_next, b_queued, b_thread_enabled, x_packet, alive, users, given, processed, todo, done>>
        /\ stack' = rest
    BY <1>3 DEF pdp_base_bang, object, Unqueued
  <2>2. TypeOK' /\ Registers' /\ RefCount'
    BY <1>0, <2>1 DEF TypeOK, Registers, RefCount
  <2>3. StackOK'
    BY <2>1, ReturnOK
  <2>4. QueuedOnce'
    BY <1>0, <2>1, QueuedSame, InCalls
  <2>5. OwnPacket'
    BY <1>1, <1>2, <2>1, PlainElems, OwnPacketNext
  <2> QED
    BY <2>2, <2>3, <2>4, <2>5 DEF CountInv
<1>4. CASE ~b_queued[o]
  <2>1. /\ b_packet' \in Rows /\ b_packet_next' \in Rows /\ x_packet' \in [Obj -> Packet] /\ users' \in [Handle -> Nat]
        /\ UNCHANGED <<b_thread_enabled, alive>> /\ RefCount' /\ Registers'
        /\ OnlyOf(x_packet, x_packet', o) /\ x_packet[o] = NoPacket
        /\ x_packet'[o] # NoPacket => Kind[o] = "zoom"
    BY <1>0, <1>4, BangData DEF Preproc
  <2>2. \A n \in DOMAIN todo : todo[n] \in Obj /\ todo[n] # o
    BY <1>0, <1>4 DEF QueuedOnce, TypeOK
  <2>3. \A q \in Obj : x_packet'[q] # NoPacket => \/ q # o /\ b_queued[q] /\ Kind[q] \in {"noise", "zoom"}
                                                  \/ q = o /\ Kind[q] = "zoom"
    BY <1>1, <2>1 DEF OnlyOf
  <2>4. \A n \in DOMAIN todo : Kind[todo[n]] = "noise" => x_packet'[todo[n]] = NoPacket
    BY <1>2, <2>1, <2>2 DEF OnlyOf
  <2>5. Postprocess(o) \in Seq(Call) /\ PostCalls(Postprocess(o), o)
        /\ \E k \in DOMAIN Postprocess(o) : Leaves(Postprocess(o)[k])
    BY Posts
  <2>6. ASSUME NEW calls \in Seq(Call), PostCalls(calls, o), \E k \in DOMAIN calls : Leaves(calls[k]),
               stack' = calls \o rest, UNCHANGED <<b_queued, todo, done>>
        PROVE  StackOK' /\ QueuedOnce' /\ OwnPacket' /\ stack' \in Seq(Call)
    <3>9. stack' \in Seq(Call)
      BY <2>6
    <3>1. StackOK'
      BY <1>4, <2>6, PushOK
    <3>2. Elems(stack') = Elems(calls) \union Elems(rest)
      BY <2>6, ElemsSplice
    <3>3. \A c \in Elems(calls) : c.op # "called" /\ c.obj = o
      BY <2>6 DEF PostCalls, Elems
    <3>4. InCall' <=> InCall
      BY <3>2, <3>3, InCalls
    <3>5. QueuedOnce'
      BY <1>0, <2>6, <3>4, QueuedSame
    <3>6. \E c \in Elems(stack') : Leaves(c) /\ c.obj = o
      BY <2>6, <3>2, <3>3 DEF Elems
    <3>7. \A c \in Elems(stack') : c.op = "direct" /\ Kind[c.obj] = "noise" => x_packet'[c.obj] = NoPacket
      BY <2>3, <3>2, <3>3, PlainElems
    <3>8. OwnPacket'
      BY <2>3, <2>4, <2>6, <3>6, <3>7, OwnPacketNext
    <3> QED
      BY <3>1, <3>5, <3>8, <3>9
  <2>7. CASE Unthreaded(o, rest)
    <3> DEFINE calls == <<[op |-> "direct", obj |-> o]>> \o Postprocess(o)
    <3>1. calls \in Seq(Call) /\ PostCalls(calls, o) /\ \E k \in DOMAIN calls : Leaves(calls[k])
      BY DirectPosts
    <3>2. stack' = calls \o rest /\ UNCHANGED <<b_queued, given, processed, todo, done>>
      BY <2>7 DEF Unthreaded
    <3> HIDE DEF calls
    <3>3. StackOK' /\ QueuedOnce' /\ OwnPacket' /\ stack' \in Seq(Call)
      BY <2>6, <3>1, <3>2
    <3>4. TypeOK'
      BY <1>0, <2>1, <3>2, <3>3 DEF TypeOK, Rows
    <3> QED
      BY <2>1, <3>3, <3>4 DEF CountInv
  <2>8. CASE Refused(o, rest)
    <3>1. stack' = Postprocess(o) \o rest /\ UNCHANGED <<b_queued, given, todo, done>> /\ processed' = processed \union {o}
      BY <2>8 DEF Refused
    <3>2. StackOK' /\ QueuedOnce' /\ OwnPacket' /\ stack' \in Seq(Call)
      BY <2>5, <2>6, <3>1
    <3>3. TypeOK'
      BY <1>0, <2>1, <3>1, <3>2 DEF TypeOK, Rows
    <3> QED
      BY <2>1, <3>2, <3>3 DEF CountInv
  <2>9. CASE Added(o, rest)
    <3>1. /\ Len(todo) + Len(done) < Capacity /\ todo' = Append(todo, o)
          /\ b_queued' = [b_queued EXCEPT ![o] = TRUE] /\ given' = [given EXCEPT ![o] = b_packet'[o]]
          /\ stack' = rest /\ done' = done /\ processed' = processed
      BY <2>9 DEF Added
    <3>2. b_queued' \in [Obj -> BOOLEAN] /\ b_queued'[o] /\ \A q \in Obj : q # o => b_queued'[q] = b_queued[q]
      BY <1>0, <3>1 DEF TypeOK
    <3>3. /\ todo' \in Seq(Obj) /\ Len(todo') = Len(todo) + 1 /\ todo'[Len(todo) + 1] = o
          /\ DOMAIN todo' = 1 .. Len(todo) + 1 /\ DOMAIN todo = 1 .. Len(todo) /\ Len(todo) \in Nat
          /\ \A n \in DOMAIN todo : todo'[n] = todo[n] /\ n \in DOMAIN todo'
      BY <1>0, <3>1 DEF TypeOK
    <3>4. given' \in Rows
      BY <1>0, <2>1, <3>1 DEF TypeOK, Rows
    <3>5. TypeOK'
      <4>1. Len(todo') + Len(done') <= Capacity
        BY <1>0, <3>1, <3>3, PatchAssumption DEF TypeOK
      <4>2. UNCHANGED <<b_thread_enabled, alive, done, processed>> /\ stack' \in Seq(Call)
        BY <2>1, <3>1
      <4>3. b_packet' \in [Obj -> [Inlet -> Packet]] /\ b_packet_next' \in [Obj -> [Inlet -> Packet]] /\ given' \in [Obj -> [Inlet -> Packet]]
        BY <2>1, <3>4 DEF Rows
      <4> QED
        BY <1>0, <2>1, <3>2, <3>3, <4>1, <4>2, <4>3 DEF TypeOK
    <3>6. StackOK'
      BY <3>1, ReturnOK
    <3>7. QueuedOnce'
      <4>1. InCall' <=> InCall
        BY <3>1, InCalls
      <4>2. Waiting' = Waiting /\ done' = done
        BY <3>1, <4>1 DEF Waiting
      <4>3. \A n \in DOMAIN todo' : \/ n \in DOMAIN todo /\ todo'[n] = todo[n]
                                    \/ n = Len(todo) + 1 /\ todo'[n] = o
        <5> TAKE n \in DOMAIN todo'
        <5> DEFINE l == Len(todo)
        <5>1. n \in 1 .. l + 1 /\ l \in Nat
          BY <3>3
        <5> HIDE DEF l
        <5>2. n \in 1 .. l \/ n = l + 1
          BY <5>1
        <5> QED
          BY <3>3, <5>2 DEF l
      <4>4. ASSUME NEW n \in DOMAIN todo'
            PROVE  b_queued'[todo'[n]] /\ \A m \in DOMAIN todo' : todo'[m] = todo'[n] => m = n
        BY <1>0, <2>2, <3>2, <4>3 DEF QueuedOnce
      <4>5. ASSUME NEW n \in Waiting, done[n] # NoObj
            PROVE  /\ b_queued'[done[n]] /\ \A m \in Waiting : done[m] = done[n] => m = n
                   /\ \A m \in DOMAIN todo' : todo'[m] # done[n]
        <5>1. done[n] \in Obj
          BY <1>0, <4>5 DEF Waiting, TypeOK
        <5>2. b_queued[done[n]] /\ (\A m \in Waiting : done[m] = done[n] => m = n) /\ \A m \in DOMAIN todo : todo[m] # done[n]
          BY <1>0, <4>5 DEF QueuedOnce
        <5>3. done[n] # o
          BY <1>4, <5>2
        <5> QED
          BY <3>2, <4>3, <5>1, <5>2, <5>3
      <4> QED
        BY <4>2, <4>4, <4>5 DEF QueuedOnce
    <3>8. OwnPacket'
      <4>1. \A n \in DOMAIN todo' : Kind[todo'[n]] = "noise" => x_packet'[todo'[n]] = NoPacket
        BY <2>3, <2>4, <3>3
      <4>2. \A q \in Obj : x_packet'[q] # NoPacket => Kind[q] \in {"noise", "zoom"} /\ b_queued'[q]
        BY <2>3, <3>2
      <4>3. \A c \in Elems(stack') : c.op # "direct"
        BY <3>1, PlainElems
      <4> QED
        BY <4>1, <4>2, <4>3, OwnPacketNext
    <3> QED
      BY <2>1, <3>5, <3>6, <3>7, <3>8 DEF CountInv
  <2> QED
    BY <1>4, <2>7, <2>8, <2>9, BangWays
<1> QED
  BY <1>3, <1>4

LEMMA ProcessStep ==
    ASSUME CountInv, HotProcess
    PROVE  CountInv'
<1> DEFINE rest == Tail(stack)
<1>0. TypeOK /\ StackOK /\ Registers /\ QueuedOnce /\ OwnPacket /\ RefCount
  BY DEF CountInv
<1>1. stack # <<>> /\ Top.op = "process" /\ Top.op # "called" /\ ~Leaves(Top)
  BY DEF HotProcess, Do, Leaves
<1>2. PICK o \in Obj : Top.obj = o
  BY <1>0, <1>1, Popped, CallFields
<1>3. rest \in Seq(Call) /\ Plain(rest) /\ Ends(rest) /\ Elems(stack) = {Top} \union Elems(rest)
  BY <1>0, <1>1, PlainTail, EndsTail, Popped, ElemsTail
<1>4. \A k \in DOMAIN rest : rest[k].op = "called" => done # <<>>
  BY <1>0, <1>1, Popped DEF StackOK, Ticking
<1>5. CASE UNCHANGED <<object, users, given, processed, todo, done>> /\ stack' = rest
  <2>1. UNCHANGED <<b_packet, b_packet_next, b_queued, b_thread_enabled, x_packet, alive, users, given, processed, todo, done>>
    BY <1>5 DEF object
  <2>2. TypeOK' /\ Registers' /\ RefCount'
    BY <1>0, <1>3, <1>5, <2>1 DEF TypeOK, Registers, RefCount
  <2>3. StackOK'
    BY <1>3, <1>4, <1>5, <2>1, ReturnOK
  <2>4. QueuedOnce' /\ OwnPacket'
    BY <1>0, <1>1, <1>5, <2>1, QueuedPop, OwnPop
  <2> QED
    BY <2>2, <2>3, <2>4 DEF CountInv
<1>6. CASE pdp_base_bang(o, rest)
  <2>1. InCall <=> \E c \in Elems(rest) : c.op = "called"
    BY <1>1, <1>3, InCalls
  <2>2. \A q \in Obj : ~Leaving(q)
    BY <1>1, <1>3, Leavings, PlainElems
  <2> QED
    BY <1>3, <1>4, <1>6, <2>1, <2>2, BangStep
<1> QED
  BY <1>2, <1>5, <1>6 DEF HotProcess, Return, Unqueued

(* An empty stack has nothing to be wrong about. *)
LEMMA Idle ==
    ASSUME stack = <<>>
    PROVE  /\ stack \in Seq(Call) /\ Plain(stack) /\ Ends(stack) /\ Elems(stack) = {}
           /\ ~InCall /\ \A q \in Obj : ~Leaving(q)
<1>1. stack \in Seq(Call) /\ Plain(stack) /\ Ends(stack) /\ Elems(stack) = {}
  BY ElemsEmpty DEF Plain, Ends
<1> QED
  BY <1>1, InCalls, Leavings

LEMMA GeneratorStep ==
    ASSUME CountInv, NEW o \in Obj, BangGenerator(o)
    PROVE  CountInv'
<1>1. stack = <<>> /\ pdp_base_bang(o, stack)
  BY DEF BangGenerator
<1>2. /\ stack \in Seq(Call) /\ Plain(stack) /\ Ends(stack) /\ \A q \in Obj : ~Leaving(q)
      /\ InCall <=> \E c \in Elems(stack) : c.op = "called"
  BY <1>1, Idle
<1>3. \A k \in DOMAIN stack : stack[k].op = "called" => done # <<>>
  BY <1>1
<1>4. pdp_base_bang(o, stack)
  BY <1>1
<1> QED
  BY <1>2, <1>3, <1>4, BangStep

LEMMA ThreadStep ==
    ASSUME CountInv, Thread
    PROVE  CountInv'
<1> DEFINE o == Head(todo)
           l == Len(todo)
           m == Len(done)
<1>0. TypeOK /\ StackOK /\ Registers /\ QueuedOnce /\ OwnPacket /\ RefCount
  BY DEF CountInv
<1>1. /\ todo # <<>> /\ pdp_base_process(o) /\ todo' = Tail(todo) /\ done' = Append(done, o)
      /\ UNCHANGED <<b_queued, stack>>
  BY DEF Thread, Q!Process
<1>2. /\ o \in Obj /\ l \in Nat /\ m \in Nat /\ 1 \in DOMAIN todo /\ todo[1] = o
      /\ todo' \in Seq(Obj) /\ Len(todo') = l - 1
      /\ \A n \in DOMAIN todo' : n \in Nat /\ n + 1 \in DOMAIN todo /\ todo'[n] = todo[n + 1]
  BY <1>0, <1>1 DEF TypeOK
<1>3. /\ done' \in Seq(Obj \union {NoObj}) /\ Len(done') = m + 1 /\ done'[m + 1] = o
      /\ DOMAIN done = 1 .. m /\ DOMAIN done' = 1 .. m + 1
      /\ \A n \in DOMAIN done : done'[n] = done[n]
  BY <1>0, <1>1, <1>2 DEF TypeOK
<1>4. b_queued[o] /\ (Kind[o] = "noise" => x_packet[o] = NoPacket)
  BY <1>0, <1>2 DEF QueuedOnce, OwnPacket
<1> HIDE DEF o
<1>5. /\ b_packet' \in Rows /\ x_packet' \in [Obj -> Packet] /\ users' \in [Handle -> Nat]
      /\ given' \in Rows /\ processed' = processed \union {o}
      /\ UNCHANGED <<b_packet_next, b_thread_enabled, alive>>
      /\ RefCount' /\ Registers'
      /\ IF Kind[o] = "mat" THEN OnlyAt(b_packet, b_packet', o, 0) ELSE b_packet' = b_packet
      /\ IF Kind[o] = "noise" THEN OnlyOf(x_packet, x_packet', o) ELSE x_packet' = x_packet
  BY <1>0, <1>1, <1>2, <1>4, ProcessData
<1>6. TypeOK'
  <2>1. Len(todo') + Len(done') <= Capacity
    BY <1>0, <1>2, <1>3 DEF TypeOK
  <2> HIDE DEF m
  <2>2. b_packet' \in [Obj -> [Inlet -> Packet]] /\ given' \in [Obj -> [Inlet -> Packet]] /\ processed' \subseteq Obj
    BY <1>0, <1>2, <1>5 DEF Rows, TypeOK
  <2>3. todo' \in Seq(Obj) /\ done' \in Seq(Obj \union {NoObj})
    BY <1>2, <1>3
  <2>4. UNCHANGED <<b_packet_next, b_thread_enabled, alive, b_queued, stack>>
    BY <1>1, <1>5
  <2>5. x_packet' \in [Obj -> Packet] /\ users' \in [Handle -> Nat]
    BY <1>5
  <2> QED
    BY <1>0, <2>1, <2>2, <2>3, <2>4, <2>5 DEF TypeOK
<1>7. StackOK'
  <2>1. ASSUME NEW q \in Obj, NEW own \in BOOLEAN, Releases(q, own)
        PROVE  Passed(q, own)' = Passed(q, own)
    <3>1. CASE q # o
      <4>1. x_packet'[q] = x_packet[q] /\ b_packet'[q][0] = b_packet[q][0]
        BY <1>5, <3>1, Handles DEF OnlyAt, OnlyOf
      <4> QED
        BY <4>1 DEF Passed
    <3>2. CASE q = o
      <4>1. ~own /\ Kind[o] # "mat"
        BY <1>0, <1>4, <2>1, <3>2 DEF Releases, StackOK, Unqueues, Leaves
      <4> QED
        BY <1>5, <3>2, <4>1 DEF Passed
    <3> QED
      BY <3>1, <3>2
  <2>2. done' # <<>>
    BY <1>3
  <2>3. b_queued' = b_queued /\ stack' = stack
    BY <1>1
  <2> QED
    BY <1>0, <2>1, <2>2, <2>3, SameOK
<1>8. QueuedOnce'
  <2>1. InCall' <=> InCall
    BY <1>1 DEF InCall
  <2>2. \A n \in Waiting' : (n \in Waiting /\ done'[n] = done[n]) \/ n = m + 1
    <3> TAKE n \in Waiting'
    <3>1. n \in 1 .. m + 1 /\ (InCall => n > 1)
      BY <1>3, <2>1 DEF Waiting
    <3>2. n \in 1 .. m \/ n = m + 1
      <4> HIDE DEF m
      <4> QED
        BY <1>2, <3>1
    <3> HIDE DEF m
    <3> QED
      BY <1>3, <3>1, <3>2 DEF Waiting
  <2>3. \A n \in DOMAIN todo : n # 1 => todo[n] # o
    BY <1>0, <1>2 DEF QueuedOnce
  <2>4. \A n \in Waiting : done[n] # o
    <3> SUFFICES ASSUME NEW n \in Waiting, done[n] = o PROVE FALSE
      OBVIOUS
    <3>1. o # NoObj
      BY <1>2, PatchAssumption
    <3> QED
      BY <1>0, <1>2, <3>1 DEF QueuedOnce
  <2>5. ASSUME NEW n \in DOMAIN todo'
        PROVE  b_queued'[todo'[n]] /\ (\A k \in DOMAIN todo' : todo'[k] = todo'[n] => k = n) /\ todo'[n] # o
    <3>1. n + 1 \in DOMAIN todo /\ todo'[n] = todo[n + 1] /\ n \in Nat /\ n + 1 # 1
      BY <1>2
    <3>2. b_queued[todo[n + 1]] /\ \A k \in DOMAIN todo : todo[k] = todo[n + 1] => k = n + 1
      BY <1>0, <3>1 DEF QueuedOnce
    <3>3. ASSUME NEW k \in DOMAIN todo', todo'[k] = todo'[n] PROVE k = n
      BY <1>2, <3>1, <3>2, <3>3
    <3>4. b_queued' = b_queued
      BY <1>1
    <3> QED
      BY <2>3, <3>1, <3>2, <3>3, <3>4
  <2> HIDE DEF m
  <2>6. ASSUME NEW n \in Waiting', done'[n] # NoObj
        PROVE  /\ b_queued'[done'[n]]
               /\ \A k \in Waiting' : done'[k] = done'[n] => k = n
               /\ \A k \in DOMAIN todo' : todo'[k] # done'[n]
    <3>1. b_queued' = b_queued
      BY <1>1
    <3>2. CASE n = m + 1
      BY <1>3, <1>4, <2>2, <2>4, <2>5, <3>1, <3>2
    <3>3. CASE n \in Waiting /\ done'[n] = done[n]
      <4>1. /\ b_queued[done[n]] /\ \A k \in Waiting : done[k] = done[n] => k = n
            /\ \A k \in DOMAIN todo : todo[k] # done[n]
        BY <1>0, <2>6, <3>3 DEF QueuedOnce
      <4>2. \A k \in DOMAIN todo' : todo'[k] # done[n]
        BY <1>2, <4>1
      <4>3. \A k \in Waiting' : done'[k] = done[n] => k = n
        BY <1>3, <2>2, <2>4, <3>3, <4>1
      <4> QED
        BY <3>1, <3>3, <4>1, <4>2, <4>3
    <3> QED
      BY <2>2, <3>2, <3>3
  <2> QED
    BY <2>5, <2>6 DEF QueuedOnce
<1>9. OwnPacket'
  <2>1. UNCHANGED <<b_queued, stack>>
    BY <1>1
  <2>2. ASSUME NEW q \in Obj, x_packet'[q] # NoPacket
        PROVE  Kind[q] \in {"noise", "zoom"} /\ (b_queued'[q] \/ \E c \in Elems(stack') : Leaves(c) /\ c.obj = q)
    <3>1. CASE q = o /\ Kind[o] = "noise"
      BY <1>4, <2>1, <3>1
    <3>2. CASE q # o \/ Kind[o] # "noise"
      <4>1. x_packet[q] # NoPacket
        BY <1>5, <2>2, <3>2 DEF OnlyOf
      <4>2. Kind[q] \in {"noise", "zoom"} /\ (b_queued[q] \/ Leaving(q))
        BY <1>0, <4>1 DEF OwnPacket
      <4> QED
        BY <2>1, <4>2, Leavings
    <3> QED
      BY <3>1, <3>2
  <2>3. ASSUME NEW n \in DOMAIN todo', Kind[todo'[n]] = "noise" PROVE x_packet'[todo'[n]] = NoPacket
    <3>1. n + 1 \in DOMAIN todo /\ todo'[n] = todo[n + 1] /\ n + 1 # 1 /\ todo[n + 1] \in Obj
      BY <1>0, <1>2 DEF TypeOK
    <3>2. todo[n + 1] # o /\ x_packet[todo[n + 1]] = NoPacket
      BY <1>0, <1>2, <2>3, <3>1 DEF QueuedOnce, OwnPacket
    <3> QED
      BY <1>5, <3>1, <3>2 DEF OnlyOf
  <2>4. ASSUME NEW c \in Elems(stack), c.op = "direct", Kind[c.obj] = "noise" PROVE x_packet'[c.obj] = NoPacket
    <3>1. PICK k \in DOMAIN stack : c = stack[k]
      BY DEF Elems
    <3>2. c.obj \in Obj /\ x_packet[c.obj] = NoPacket /\ ~b_queued[c.obj]
      BY <1>0, <2>4, <3>1, CallFields DEF OwnPacket, TypeOK, StackOK, Unqueues
    <3> QED
      BY <1>4, <1>5, <3>2 DEF OnlyOf
  <2> QED
    BY <2>1, <2>2, <2>3, <2>4, OwnPacketNext
<1> QED
  BY <1>5, <1>6, <1>7, <1>8, <1>9 DEF CountInv

LEMMA StartTickStep ==
    ASSUME CountInv, pdp_procqueue_tick
    PROVE  CountInv'
<1> DEFINE s == <<[op |-> "tick"]>>
<1>0. TypeOK /\ StackOK /\ Registers /\ QueuedOnce /\ OwnPacket /\ RefCount
  BY DEF CountInv
<1>1. stack = <<>> /\ stack' = s /\ UNCHANGED <<object, users, given, processed, todo, done>>
  BY DEF pdp_procqueue_tick, Unqueued
<1>2. s \in Seq(Call) /\ Len(s) = 1 /\ DOMAIN s = 1 .. 1 /\ s[1].op = "tick"
  BY DEF Call
<1> HIDE DEF s
<1>3. Plain(s) /\ Ends(s) /\ \A k \in DOMAIN s : s[k].op # "called"
  BY <1>2 DEF Plain, Ends
<1>4. UNCHANGED <<b_packet, b_packet_next, b_queued, b_thread_enabled, x_packet, alive, users, given, processed, todo, done>>
      /\ stack' = s
  BY <1>1 DEF object
<1>5. ~InCall /\ \A q \in Obj : ~Leaving(q)
  BY <1>1, Idle
<1>6. TypeOK' /\ Registers' /\ RefCount'
  BY <1>0, <1>2, <1>4 DEF TypeOK, Registers, RefCount
<1>7. StackOK'
  BY <1>2, <1>3, <1>4, ReturnOK
<1>8. QueuedOnce'
  <2>1. ~InCall'
    BY <1>3, <1>4 DEF InCall
  <2> QED
    BY <1>0, <1>4, <1>5, <2>1, QueuedSame
<1>9. OwnPacket'
  <2>1. \A c \in Elems(stack') : c.op # "direct"
    BY <1>3, <1>4, PlainElems
  <2>2. \A q \in Obj : x_packet[q] # NoPacket => Kind[q] \in {"noise", "zoom"} /\ b_queued[q]
    BY <1>0, <1>5 DEF OwnPacket
  <2>3. \A n \in DOMAIN todo : Kind[todo[n]] = "noise" => x_packet[todo[n]] = NoPacket
    BY <1>0 DEF OwnPacket
  <2> QED
    BY <1>4, <2>1, <2>2, <2>3, OwnPacketNext
<1> QED
  BY <1>6, <1>7, <1>8, <1>9 DEF CountInv

(* A tick is the last call of the stack: what follows is the callback. *)
Callback == <<[op |-> "called"], [op |-> "tick"]>>
LEMMA Callbacks ==
    /\ Callback \in Seq(Call) /\ Plain(Callback) /\ Ends(Callback)
    /\ \A c \in Elems(Callback) : c.op \in {"called", "tick"}
    /\ \E c \in Elems(Callback) : c.op = "called"
<1> DEFINE s == Callback
<1>1. s \in Seq(Call) /\ Len(s) = 2 /\ DOMAIN s = 1 .. 2 /\ s[1].op = "called" /\ s[2].op = "tick"
  BY DEF Call, Callback
<1>2. \A k \in DOMAIN s : k = 1 \/ k = 2
  BY <1>1
<1> HIDE DEF s
<1> QED
  BY <1>1, <1>2 DEF Plain, Ends, Elems, s

LEMMA TickStep ==
    ASSUME CountInv, Tick
    PROVE  CountInv'
<1> DEFINE rest == Tail(stack)
<1>0. TypeOK /\ StackOK /\ Registers /\ QueuedOnce /\ OwnPacket /\ RefCount
  BY DEF CountInv
<1>1. stack # <<>> /\ Top.op = "tick" /\ Top.op # "called" /\ ~Leaves(Top)
      /\ UNCHANGED <<b_packet, b_packet_next, b_thread_enabled, x_packet, alive, users, given, processed, todo, done>>
  BY DEF Tick, Do, Leaves, Unqueued
<1>2. rest = <<>> /\ rest \in Seq(Call)
  <2>1. Len(stack) = 1
    BY <1>0, <1>1, Popped DEF StackOK, Ticking
  <2>2. Len(rest) = 0 /\ rest \in Seq(Call)
    BY <1>0, <1>1, <2>1, Popped
  <2> HIDE DEF rest
  <2> QED
    BY <2>2
<1>3. Elems(stack) = {Top}
  BY <1>0, <1>1, <1>2, ElemsTail, ElemsEmpty
<1>4. ~InCall /\ \A q \in Obj : ~Leaving(q)
  BY <1>1, <1>3, InCalls, Leavings
<1>5. \A q \in Obj : x_packet[q] # NoPacket => Kind[q] \in {"noise", "zoom"} /\ b_queued[q]
  BY <1>0, <1>4 DEF OwnPacket
<1>6. \A n \in DOMAIN todo : Kind[todo[n]] = "noise" => x_packet[todo[n]] = NoPacket
  BY <1>0 DEF OwnPacket
<1>7. Registers' /\ RefCount'
  BY <1>0, <1>1 DEF Registers, RefCount
<1>8. CASE done = <<>>
  <2>1. stack' = rest /\ b_queued' = b_queued
    BY <1>8 DEF Tick, Return
  <2>2. TypeOK'
    BY <1>0, <1>1, <1>2, <2>1 DEF TypeOK
  <2>3. Plain(rest) /\ Ends(rest) /\ \A k \in DOMAIN rest : rest[k].op # "called"
    BY <1>2 DEF Plain, Ends
  <2>4. StackOK'
    BY <1>2, <2>1, <2>3, ReturnOK
  <2>5. QueuedOnce' /\ OwnPacket'
    BY <1>0, <1>1, <2>1, QueuedPop, OwnPop
  <2> QED
    BY <1>7, <2>2, <2>4, <2>5 DEF CountInv
<1>9. CASE done # <<>>
  <2>1. 1 \in DOMAIN done /\ Head(done) = done[1] /\ done[1] \in Obj \union {NoObj} /\ DOMAIN done \subseteq Nat
    BY <1>0, <1>9 DEF TypeOK
  <2>2. Waiting = DOMAIN done
    BY <1>4 DEF Waiting
  <2>3. InCall' => /\ Waiting' = {n \in DOMAIN done : n > 1}
                   /\ \A n \in Waiting' : n \in Waiting /\ n # 1
    BY <1>1, <2>1, <2>2 DEF Waiting
  <2>4. CASE done[1] = NoObj
    <3>1. stack' = Callback /\ b_queued' = b_queued
      <4>1. stack' = Callback \o rest /\ b_queued' = b_queued
        BY <1>9, <2>1, <2>4 DEF Tick, Run, Callback
      <4> HIDE DEF rest
      <4>2. Callback \o rest = Callback
        BY <1>2, Callbacks
      <4> QED
        BY <4>1, <4>2
    <3>2. TypeOK'
      BY <1>0, <1>1, <3>1, Callbacks DEF TypeOK
    <3>3. StackOK'
      BY <1>1, <1>9, <3>1, Callbacks, ReturnOK
    <3>4. InCall'
      BY <3>1, Callbacks, InCalls
    <3>5. QueuedOnce'
      BY <1>0, <1>1, <2>3, <3>1, <3>4 DEF QueuedOnce
    <3>6. OwnPacket'
      BY <1>1, <1>5, <1>6, <3>1, Callbacks, OwnPacketNext
    <3> QED
      BY <1>7, <3>2, <3>3, <3>5, <3>6 DEF CountInv
  <2>5. CASE done[1] # NoObj
    <3> DEFINE o == done[1]
               post == Postprocess(o)
    <3>1. o \in Obj
      BY <2>1, <2>5
    <3>2. stack' = post \o Callback /\ b_queued' = [b_queued EXCEPT ![o] = FALSE]
      <4>1. stack' = (post \o Callback) \o rest /\ b_queued' = [b_queued EXCEPT ![o] = FALSE]
        BY <1>9, <2>1, <2>5 DEF Tick, Run, Callback
      <4>2. post \in Seq(Call) /\ post \o Callback \in Seq(Call)
        BY <3>1, Posts, Callbacks
      <4> HIDE DEF post, rest
      <4>3. \A s \in Seq(Call) : s \o rest = s
        BY <1>2
      <4> QED
        BY <4>1, <4>2, <4>3
    <3>3. post \in Seq(Call) /\ PostCalls(post, o) /\ (\E k \in DOMAIN post : Leaves(post[k]))
          /\ \A k \in DOMAIN post : post[k].op # "direct"
      BY <3>1, Posts
    <3> HIDE DEF post, o
    <3>4. b_queued' \in [Obj -> BOOLEAN] /\ ~b_queued'[o] /\ \A q \in Obj : q # o => b_queued'[q] = b_queued[q]
      BY <1>0, <3>1, <3>2 DEF TypeOK
    <3>5. TypeOK'
      <4>1. stack' \in Seq(Call)
        BY <3>2, <3>3, Callbacks
      <4> QED
        BY <1>0, <1>1, <3>4, <4>1 DEF TypeOK
    <3>6. StackOK'
      <4>1. \A k \in DOMAIN Callback : Callback[k].op = "called" => done' # <<>>
        BY <1>1, <1>9
      <4> QED
        BY <3>2, <3>3, <3>4, <4>1, Callbacks, PushOK
    <3>7. Elems(stack') = Elems(post) \union Elems(Callback)
      BY <3>2, <3>3, Callbacks, ElemsSplice
    <3>8. InCall'
      BY <3>7, Callbacks, InCalls
    <3>9. \A n \in DOMAIN todo : todo[n] # o /\ todo[n] \in Obj
      BY <1>0, <2>1, <2>2, <2>5 DEF QueuedOnce, TypeOK, o
    <3>10. \A n \in Waiting' : n \in Waiting /\ done[n] # o /\ done[n] \in Obj \union {NoObj}
      BY <1>0, <2>1, <2>2, <2>3, <2>5, <3>8 DEF QueuedOnce, TypeOK, o
    <3>11. QueuedOnce'
      <4>1. UNCHANGED <<todo, done>>
        BY <1>1
      <4> QED
        BY <1>0, <3>4, <3>9, <3>10, <4>1 DEF QueuedOnce
    <3>12. OwnPacket'
      <4>1. \A c \in Elems(post) : c.obj = o /\ c.op # "direct"
        BY <3>3 DEF PostCalls, Elems
      <4>2. \E c \in Elems(stack') : Leaves(c) /\ c.obj = o
        BY <3>3, <3>7, <4>1 DEF Elems
      <4>3. \A c \in Elems(stack') : c.op # "direct"
        BY <3>7, <4>1, Callbacks
      <4>4. UNCHANGED <<x_packet, todo>>
        BY <1>1
      <4> QED
        BY <1>5, <1>6, <3>4, <4>2, <4>3, <4>4, OwnPacketNext
    <3> QED
      BY <1>7, <3>5, <3>6, <3>11, <3>12 DEF CountInv
  <2> QED
    BY <2>4, <2>5
<1> QED
  BY <1>8, <1>9

LEMMA CalledStep ==
    ASSUME CountInv, Called
    PROVE  CountInv'
<1> DEFINE rest == Tail(stack)
<1>0. TypeOK /\ StackOK /\ Registers /\ QueuedOnce /\ OwnPacket /\ RefCount
  BY DEF CountInv
<1>1. stack # <<>> /\ Top.op = "called" /\ ~Leaves(Top) /\ done # <<>> /\ done' = Tail(done) /\ todo' = todo /\ stack' = rest
      /\ UNCHANGED <<b_packet, b_packet_next, b_queued, b_thread_enabled, x_packet, alive, users, given, processed>>
  BY DEF Called, Do, Leaves, Return, Q!CallBack, object
<1>2. rest \in Seq(Call) /\ Plain(rest) /\ Ends(rest) /\ Elems(stack) = {Top} \union Elems(rest)
  BY <1>0, <1>1, PlainTail, EndsTail, Popped, ElemsTail
<1>3. /\ done' \in Seq(Obj \union {NoObj}) /\ Len(done') = Len(done) - 1 /\ Len(done) \in Nat
      /\ \A n \in DOMAIN done' : n \in Nat /\ n + 1 \in DOMAIN done /\ n + 1 > 1 /\ done'[n] = done[n + 1]
  BY <1>0, <1>1 DEF TypeOK
<1>4. TypeOK'
  <2>1. Len(todo') + Len(done') <= Capacity
    BY <1>0, <1>1, <1>3, PatchAssumption DEF TypeOK
  <2> QED
    BY <1>0, <1>1, <1>2, <1>3, <2>1 DEF TypeOK
<1>5. Registers' /\ RefCount'
  BY <1>0, <1>1 DEF Registers, RefCount
<1>6. \A k \in DOMAIN rest : rest[k].op # "called"
  <2> SUFFICES ASSUME NEW k \in DOMAIN rest, rest[k].op = "called" PROVE FALSE
    OBVIOUS
  <2>1. k \in Int /\ k >= 1 /\ k + 1 \in DOMAIN stack /\ stack[k + 1] = rest[k] /\ 1 \in DOMAIN stack /\ stack[1] = Top
    BY <1>0, <1>1, Popped
  <2>2. (k + 1) + 1 = Len(stack) /\ 1 + 1 = Len(stack)
    BY <1>0, <1>1, <2>1 DEF StackOK, Ticking
  <2> DEFINE l == Len(stack)
  <2>3. k \in Int /\ k >= 1 /\ (k + 1) + 1 = l /\ 1 + 1 = l
    BY <2>1, <2>2
  <2> HIDE DEF l
  <2> QED
    BY <2>3
<1>7. StackOK'
  BY <1>1, <1>2, <1>6, ReturnOK
<1>8. InCall /\ ~InCall'
  BY <1>1, <1>2, <1>6, InCalls DEF Elems
<1>9. QueuedOnce'
  <2>1. \A n \in Waiting' : n \in DOMAIN done' /\ n + 1 \in Waiting
    BY <1>3, <1>8 DEF Waiting
  <2>2. ASSUME NEW n \in Waiting', done'[n] # NoObj
        PROVE  /\ b_queued[done'[n]]
               /\ \A k \in Waiting' : done'[k] = done'[n] => k = n
               /\ \A k \in DOMAIN todo : todo[k] # done'[n]
    <3>1. n + 1 \in Waiting /\ done'[n] = done[n + 1] /\ n \in Nat
      BY <1>3, <2>1
    <3>2. /\ b_queued[done[n + 1]] /\ \A k \in Waiting : done[k] = done[n + 1] => k = n + 1
          /\ \A k \in DOMAIN todo : todo[k] # done[n + 1]
      BY <1>0, <2>2, <3>1 DEF QueuedOnce
    <3>3. ASSUME NEW k \in Waiting', done'[k] = done'[n] PROVE k = n
      <4>1. k + 1 \in Waiting /\ done'[k] = done[k + 1] /\ k \in Nat
        BY <1>3, <2>1
      <4>2. k + 1 = n + 1
        BY <3>1, <3>2, <3>3, <4>1
      <4> QED
        BY <3>1, <4>1, <4>2
    <3> QED
      BY <3>1, <3>2, <3>3
  <2>3. UNCHANGED <<b_queued, todo>>
    BY <1>1
  <2> QED
    BY <1>0, <2>2, <2>3 DEF QueuedOnce
<1>10. OwnPacket'
  <2>1. UNCHANGED <<x_packet, b_queued, todo>> /\ stack' = rest
    BY <1>1
  <2> QED
    BY <1>0, <1>1, <2>1, OwnPop
<1> QED
  BY <1>4, <1>5, <1>7, <1>9, <1>10 DEF CountInv

LEMMA ToggleStep ==
    ASSUME CountInv, NEW o \in Obj, pdp_base_thread(o)
    PROVE  CountInv'
<1>0. TypeOK /\ StackOK /\ Registers /\ QueuedOnce /\ OwnPacket /\ RefCount
  BY DEF CountInv
<1>1. UNCHANGED <<b_packet, b_packet_next, b_queued, x_packet, alive, users, stack, given, processed, todo, done>>
      /\ b_thread_enabled' = [b_thread_enabled EXCEPT ![o] = ~@]
  BY DEF pdp_base_thread, Unqueued
<1>2. b_thread_enabled' \in [Obj -> BOOLEAN]
  BY <1>0, <1>1 DEF TypeOK
<1>3. UNCHANGED <<b_packet, b_packet_next, b_queued, x_packet, alive, users, stack, given, processed, todo, done>>
  BY <1>1
<1>4. TypeOK' /\ Registers' /\ RefCount'
  BY <1>0, <1>2, <1>3 DEF TypeOK, Registers, RefCount
<1>5. StackOK'
  BY <1>0, <1>3, SameOK DEF Passed
<1>6. QueuedOnce' /\ OwnPacket'
  BY <1>0, <1>3 DEF QueuedOnce, Waiting, InCall, OwnPacket, Leaving, Leaves
<1> QED
  BY <1>4, <1>5, <1>6 DEF CountInv

LEMMA FreeStep ==
    ASSUME CountInv, NEW o \in Obj, pdp_base_free(o)
    PROVE  CountInv'
<1>0. TypeOK /\ StackOK /\ Registers /\ QueuedOnce /\ OwnPacket /\ RefCount
  BY DEF CountInv
<1>1. /\ stack = <<>> /\ (b_queued[o] => todo = <<>>)
      /\ done' = [n \in DOMAIN done |-> IF done[n] = o THEN NoObj ELSE done[n]]
      /\ users' = [h \in Handle |-> users[h] - Held(o, h)]
      /\ b_packet' = [b_packet EXCEPT ![o] = NoPackets]
      /\ b_packet_next' = [b_packet_next EXCEPT ![o] = NoPackets]
      /\ x_packet' = [x_packet EXCEPT ![o] = NoPacket]
      /\ b_queued' = [b_queued EXCEPT ![o] = FALSE]
      /\ alive' \subseteq alive
      /\ UNCHANGED <<b_thread_enabled, stack, todo, given, processed>>
  BY DEF pdp_base_free
<1>2. NoPackets \in [Inlet -> Packet] /\ NoPackets[0] = NoPacket
  BY Handles DEF NoPackets
<1>3. b_packet' \in Rows /\ OnlyOf(b_packet, b_packet', o) /\ b_packet'[o] = NoPackets
  BY <1>0, <1>1, <1>2 DEF TypeOK, Rows, OnlyOf
<1>4. b_packet_next' \in Rows /\ OnlyOf(b_packet_next, b_packet_next', o) /\ b_packet_next'[o] = NoPackets
  BY <1>0, <1>1, <1>2 DEF TypeOK, Rows, OnlyOf
<1>5. x_packet' \in [Obj -> Packet] /\ OnlyOf(x_packet, x_packet', o) /\ x_packet'[o] = NoPacket
  BY <1>0, <1>1, Handles DEF TypeOK, OnlyOf
<1>6. users' = [h \in Handle |-> users[h] - Held(o, h)]
  BY <1>1
<1>7. RefCount' /\ users' \in [Handle -> Nat]
  BY <1>0, <1>3, <1>4, <1>5, <1>6, FreeCounts
<1>8. b_queued' \in [Obj -> BOOLEAN] /\ ~b_queued'[o] /\ \A q \in Obj : q # o => b_queued'[q] = b_queued[q]
  BY <1>0, <1>1 DEF TypeOK
<1>9. /\ done' \in Seq(Obj \union {NoObj}) /\ Len(done') = Len(done) /\ DOMAIN done' = DOMAIN done
      /\ \A n \in DOMAIN done : done'[n] = IF done[n] = o THEN NoObj ELSE done[n]
  <2>1. done \in Seq(Obj \union {NoObj}) /\ DOMAIN done = 1 .. Len(done) /\ Len(done) \in Nat
    BY <1>0 DEF TypeOK
  <2>2. \A n \in 1 .. Len(done) : (IF done[n] = o THEN NoObj ELSE done[n]) \in Obj \union {NoObj}
    BY <2>1
  <2>3. done' = [n \in 1 .. Len(done) |-> IF done[n] = o THEN NoObj ELSE done[n]]
    BY <1>1, <2>1
  <2>4. done' \in [1 .. Len(done) -> Obj \union {NoObj}]
    BY <2>2, <2>3
  <2> QED
    BY <2>1, <2>3, <2>4
<1>10. UNCHANGED <<b_thread_enabled, stack, todo, given, processed>> /\ alive' \subseteq alive /\ stack = <<>>
  BY <1>1
<1>11. TypeOK'
  <2>1. b_packet' \in [Obj -> [Inlet -> Packet]] /\ b_packet_next' \in [Obj -> [Inlet -> Packet]]
    BY <1>3, <1>4 DEF Rows
  <2> QED
    BY <1>0, <1>5, <1>7, <1>8, <1>9, <1>10, <2>1 DEF TypeOK
<1>12. Registers'
  BY <1>0, <1>2, <1>3, <1>4 DEF Registers, OnlyOf
<1>13. StackOK'
  <2>1. stack \in Seq(Call) /\ Plain(stack) /\ Ends(stack) /\ \A k \in DOMAIN stack : stack[k].op = "called" => done' # <<>>
    BY <1>10, Idle
  <2>2. stack' = stack
    BY <1>10
  <2> QED
    BY <2>1, <2>2, ReturnOK
<1>14. \A n \in DOMAIN todo : todo[n] # o /\ todo[n] \in Obj
  <2> SUFFICES ASSUME NEW n \in DOMAIN todo PROVE todo[n] # o /\ todo[n] \in Obj
    OBVIOUS
  <2>1. todo # <<>> /\ b_queued[todo[n]] /\ todo[n] \in Obj
    BY <1>0 DEF QueuedOnce, TypeOK
  <2> QED
    BY <1>1, <2>1
<1>15. QueuedOnce'
  <2>1. ~InCall /\ ~InCall'
    BY <1>10, Idle DEF InCall
  <2>2. Waiting' = DOMAIN done /\ Waiting = DOMAIN done
    BY <1>9, <2>1 DEF Waiting
  <2>3. \A n \in DOMAIN done : done[n] \in Obj \union {NoObj}
    BY <1>0 DEF TypeOK
  <2>4. ASSUME NEW n \in DOMAIN done, done'[n] # NoObj
        PROVE  /\ done'[n] = done[n] /\ b_queued'[done[n]]
               /\ \A m \in DOMAIN done : done'[m] = done[n] => m = n
               /\ \A m \in DOMAIN todo : todo[m] # done[n]
    BY <1>0, <1>8, <1>9, <2>2, <2>3, <2>4 DEF QueuedOnce
  <2>5. \A n \in DOMAIN todo : b_queued'[todo[n]] /\ \A m \in DOMAIN todo : todo[m] = todo[n] => m = n
    BY <1>0, <1>8, <1>14 DEF QueuedOnce
  <2>6. todo' = todo
    BY <1>10
  <2> QED
    BY <2>2, <2>4, <2>5, <2>6 DEF QueuedOnce
<1>16. OwnPacket'
  <2>1. Elems(stack') = {} /\ \A q \in Obj : ~Leaving(q)
    BY <1>10, Idle, ElemsEmpty
  <2>2. \A q \in Obj : x_packet'[q] # NoPacket => Kind[q] \in {"noise", "zoom"} /\ b_queued'[q]
    BY <1>0, <1>5, <1>8, <2>1 DEF OwnPacket, OnlyOf
  <2>3. \A n \in DOMAIN todo : Kind[todo[n]] = "noise" => x_packet'[todo[n]] = NoPacket
    BY <1>0, <1>5, <1>14 DEF OwnPacket, OnlyOf
  <2>4. todo' = todo
    BY <1>10
  <2> QED
    BY <2>1, <2>2, <2>3, <2>4, OwnPacketNext
<1> QED
  BY <1>7, <1>11, <1>12, <1>13, <1>15, <1>16 DEF CountInv

LEMMA StutterStep ==
    ASSUME CountInv, UNCHANGED vars
    PROVE  CountInv'
<1>0. TypeOK /\ StackOK /\ Registers /\ QueuedOnce /\ OwnPacket /\ RefCount
  BY DEF CountInv
<1>1. UNCHANGED <<b_packet, b_packet_next, b_queued, b_thread_enabled, x_packet, alive, users, stack, given, processed, todo, done>>
  BY DEF vars, object
<1>2. TypeOK' /\ Registers' /\ RefCount'
  BY <1>0, <1>1 DEF TypeOK, Registers, RefCount
<1>3. StackOK'
  BY <1>0, <1>1, SameOK DEF Passed
<1>4. QueuedOnce' /\ OwnPacket'
  BY <1>0, <1>1 DEF QueuedOnce, Waiting, InCall, OwnPacket, Leaving, Leaves
<1> QED
  BY <1>2, <1>3, <1>4 DEF CountInv

LEMMA CountInvNext == CountInv /\ [Next]_vars => CountInv'
<1> SUFFICES ASSUME CountInv, [Next]_vars PROVE CountInv'
  OBVIOUS
<1>1. CASE Dispatch
  BY <1>1, PassStep, PassUnuseStep, DiscardStep, DirectStep, RegisterStep, ProcessStep, ColdStep, TickStep, CalledStep
     DEF Dispatch
<1>2. CASE Thread
  BY <1>2, ThreadStep
<1>3. CASE pdp_procqueue_tick
  BY <1>3, StartTickStep
<1>4. CASE \E o \in Obj : BangGenerator(o) \/ pdp_base_thread(o) \/ pdp_base_free(o)
  BY <1>4, GeneratorStep, ToggleStep, FreeStep
<1>5. CASE UNCHANGED vars
  BY <1>5, StutterStep
<1> QED
  BY <1>1, <1>2, <1>3, <1>4, <1>5 DEF Next

LEMMA CountInvInit == Init => CountInv
<1> SUFFICES ASSUME Init PROVE CountInv
  OBVIOUS
<1>1. /\ b_packet = [q \in Obj |-> NoPackets] /\ b_packet_next = [q \in Obj |-> NoPackets]
      /\ b_queued = [q \in Obj |-> FALSE] /\ b_thread_enabled = [q \in Obj |-> q \in Threaded]
      /\ x_packet = [q \in Obj |-> NoPacket] /\ users = [h \in Handle |-> 0] /\ alive = Obj
      /\ stack = <<>> /\ todo = <<>> /\ done = <<>> /\ given = [q \in Obj |-> NoPackets] /\ processed = {}
  BY DEF Init, Q!TaskQueueInit
<1>2. NoPackets \in [Inlet -> Packet] /\ \A i \in Inlet : NoPackets[i] = NoPacket
  BY Handles DEF NoPackets
<1>3. TypeOK
  <2>1. b_packet \in [Obj -> [Inlet -> Packet]] /\ b_packet_next \in [Obj -> [Inlet -> Packet]] /\ given \in [Obj -> [Inlet -> Packet]]
    BY <1>1, <1>2
  <2>2. b_queued \in [Obj -> BOOLEAN] /\ b_thread_enabled \in [Obj -> BOOLEAN]
    BY <1>1
  <2>3. x_packet \in [Obj -> Packet] /\ users \in [Handle -> Nat] /\ alive \subseteq Obj /\ processed \subseteq Obj
    BY <1>1, Handles
  <2>4. stack \in Seq(Call) /\ todo \in Seq(Obj) /\ done \in Seq(Obj \union {NoObj}) /\ Len(todo) + Len(done) <= Capacity
    BY <1>1, PatchAssumption
  <2> QED
    BY <2>1, <2>2, <2>3, <2>4 DEF TypeOK
<1>4. Registers
  BY <1>1, <1>2, Handles DEF Registers
<1>5. StackOK
  BY <1>1 DEF StackOK, Sending, Registering, Together, Unqueues, Ticking
<1>6. QueuedOnce /\ OwnPacket
  BY <1>1 DEF QueuedOnce, Waiting, OwnPacket
<1>7. RefCount
  <2>1. ASSUME NEW h \in Handle
        PROVE  users[h] = Count(b_packet, h) + Count(b_packet_next, h) + OwnCount(x_packet, h)
    <3>1. {r \in Slots : b_packet[r[1]][r[2]] = h} = {} /\ {r \in Slots : b_packet_next[r[1]][r[2]] = h} = {}
      BY <1>1, <1>2, Handles DEF Slots
    <3>2. {q \in Obj : x_packet[q] = h} = {}
      BY <1>1, Handles
    <3>3. Count(b_packet, h) = 0 /\ Count(b_packet_next, h) = 0 /\ OwnCount(x_packet, h) = 0
      BY <3>1, <3>2, FS_EmptySet DEF Count, OwnCount
    <3> QED
      BY <1>1, <3>3
  <2> QED
    BY <2>1, Counts
<1> QED
  BY <1>3, <1>4, <1>5, <1>6, <1>7 DEF CountInv

LEMMA CountInvAlways == Spec => []CountInv
BY CountInvInit, CountInvNext, PTL DEF Spec

(* Reference counts are exact in every patch of objects of the base class: *)
(* whatever is connected, banged, toggled or deleted, a packet is counted  *)
(* once for every register or own packet that holds it and never else.     *)
THEOREM ReferencesExact == Spec => []RefCount
<1>1. CountInv => RefCount
  BY DEF CountInv
<1> QED
  BY <1>1, CountInvAlways, PTL

-----------------------------------------------------------------------------
(* Who holds a packet. *)
LEMMA Counted ==
    ASSUME NEW f, NEW h
    PROVE  /\ \A o \in Obj, i \in Inlet : f[o][i] = h => Count(f, h) >= 1
           /\ \A o \in Obj : f[o] = h => OwnCount(f, h) >= 1
           /\ Count(f, h) = 1 => \A o, q \in Obj, i, j \in Inlet : f[o][i] = h /\ f[q][j] = h => o = q /\ i = j
           /\ OwnCount(f, h) = 1 => \A o, q \in Obj : f[o] = h /\ f[q] = h => o = q
<1> DEFINE A == {r \in Slots : f[r[1]][r[2]] = h}
           B == {o \in Obj : f[o] = h}
<1>1. IsFiniteSet(A) /\ IsFiniteSet(B) /\ Cardinality(A) = Count(f, h) /\ Cardinality(B) = OwnCount(f, h)
  BY Finite, FS_Subset DEF Count, OwnCount
<1>2. \A o \in Obj, i \in Inlet : f[o][i] = h => <<o, i>> \in A
  BY DEF Slots
<1>3. \A o \in Obj : f[o] = h => o \in B
  OBVIOUS
<1> HIDE DEF A, B
<1>4. Cardinality(A) \in Nat /\ Cardinality(B) \in Nat
  BY <1>1, FS_CardinalityType
<1>5. (A # {} => Cardinality(A) # 0) /\ (B # {} => Cardinality(B) # 0)
  BY <1>1, FS_EmptySet
<1>6. Cardinality(A) = 1 => \E x : A = {x}
  BY <1>1, FS_Singleton
<1>7. Cardinality(B) = 1 => \E x : B = {x}
  BY <1>1, FS_Singleton
<1>8. ASSUME NEW o \in Obj, NEW i \in Inlet, f[o][i] = h PROVE Count(f, h) >= 1
  <2>1. A # {}
    BY <1>2, <1>8
  <2> QED
    BY <1>1, <1>4, <1>5, <2>1
<1>9. \A o \in Obj : f[o] = h => OwnCount(f, h) >= 1
  BY <1>1, <1>3, <1>4, <1>5
<1>10. ASSUME Count(f, h) = 1, NEW o \in Obj, NEW q \in Obj, NEW i \in Inlet, NEW j \in Inlet, f[o][i] = h, f[q][j] = h
       PROVE  o = q /\ i = j
  <2>1. PICK x : A = {x}
    BY <1>1, <1>6, <1>10
  <2>2. <<o, i>> = x /\ <<q, j>> = x
    BY <1>2, <1>10, <2>1
  <2> QED
    BY <2>2
<1>11. ASSUME OwnCount(f, h) = 1, NEW o \in Obj, NEW q \in Obj, f[o] = h, f[q] = h
       PROVE  o = q
  BY <1>1, <1>3, <1>7, <1>11
<1> QED
  BY <1>8, <1>9, <1>10, <1>11

(* A packet that is held has users, and one that has one user has one     *)
(* holder.                                                                 *)
LEMMA Holders ==
    ASSUME TypeOK, RefCount
    PROVE  /\ \A o \in Obj, i \in Inlet : b_packet[o][i] # NoPacket => users[b_packet[o][i]] \in Nat \ {0}
           /\ \A o \in Obj : x_packet[o] # NoPacket => users[x_packet[o]] \in Nat \ {0}
           /\ \A o, q \in Obj : b_packet[o][0] # NoPacket /\ users[b_packet[o][0]] = 1 =>
                  (b_packet[q][0] = b_packet[o][0] => q = o) /\ x_packet[q] # b_packet[o][0]
           /\ \A o, q \in Obj : x_packet[o] # NoPacket /\ users[x_packet[o]] = 1 =>
                  (x_packet[q] = x_packet[o] => q = o) /\ b_packet[q][0] # x_packet[o]
<1>1. \A o \in Obj : x_packet[o] \in Packet /\ \A i \in Inlet : b_packet[o][i] \in Packet
  BY DEF TypeOK
<1>2. ASSUME NEW h \in Handle
      PROVE  users[h] = Count(b_packet, h) + Count(b_packet_next, h) + OwnCount(x_packet, h)
             /\ Count(b_packet, h) \in Nat /\ Count(b_packet_next, h) \in Nat /\ OwnCount(x_packet, h) \in Nat
             /\ users[h] \in Nat
  BY Counts, Finite DEF TypeOK
<1>3. ASSUME NEW o \in Obj, NEW i \in Inlet, b_packet[o][i] # NoPacket
      PROVE  users[b_packet[o][i]] \in Nat \ {0}
  <2>1. b_packet[o][i] \in Handle /\ Count(b_packet, b_packet[o][i]) >= 1
    BY <1>1, <1>3, Counted DEF Packet
  <2> QED
    BY <1>2, <2>1
<1>4. ASSUME NEW o \in Obj, x_packet[o] # NoPacket
      PROVE  users[x_packet[o]] \in Nat \ {0}
  <2>1. x_packet[o] \in Handle /\ OwnCount(x_packet, x_packet[o]) >= 1
    BY <1>1, <1>4, Counted DEF Packet
  <2> QED
    BY <1>2, <2>1
<1>5. ASSUME NEW o \in Obj, NEW q \in Obj, b_packet[o][0] # NoPacket, users[b_packet[o][0]] = 1
      PROVE  (b_packet[q][0] = b_packet[o][0] => q = o) /\ x_packet[q] # b_packet[o][0]
  <2> DEFINE h == b_packet[o][0]
  <2>1. h \in Handle /\ Count(b_packet, h) >= 1
    BY <1>1, <1>5, Counted, Handles DEF Packet
  <2>2. Count(b_packet, h) = 1 /\ OwnCount(x_packet, h) = 0
    BY <1>2, <1>5, <2>1
  <2>3. x_packet[q] = h => OwnCount(x_packet, h) >= 1
    BY Counted
  <2>4. b_packet[q][0] = h => q = o
    BY <2>2, Counted, Handles
  <2> QED
    BY <2>2, <2>3, <2>4
<1>6. ASSUME NEW o \in Obj, NEW q \in Obj, x_packet[o] # NoPacket, users[x_packet[o]] = 1
      PROVE  (x_packet[q] = x_packet[o] => q = o) /\ b_packet[q][0] # x_packet[o]
  <2> DEFINE h == x_packet[o]
  <2>1. h \in Handle /\ OwnCount(x_packet, h) >= 1
    BY <1>1, <1>6, Counted DEF Packet
  <2>2. Count(b_packet, h) = 0 /\ OwnCount(x_packet, h) = 1
    BY <1>2, <1>6, <2>1
  <2>3. b_packet[q][0] = h => Count(b_packet, h) >= 1
    BY Counted, Handles
  <2>4. x_packet[q] = h => q = o
    BY <2>2, Counted
  <2> QED
    BY <2>2, <2>3, <2>4
<1> QED
  BY <1>3, <1>4, <1>5, <1>6

LEMMA HoldersNext ==
    ASSUME TypeOK', RefCount'
    PROVE  /\ \A o \in Obj : b_packet'[o][0] # NoPacket => users'[b_packet'[o][0]] \in Nat \ {0}
           /\ \A o \in Obj : x_packet'[o] # NoPacket => users'[x_packet'[o]] \in Nat \ {0}
<1>1. \A o \in Obj : x_packet'[o] \in Packet /\ b_packet'[o][0] \in Packet
  BY Handles DEF TypeOK
<1>2. ASSUME NEW h \in Handle
      PROVE  users'[h] = Count(b_packet', h) + Count(b_packet_next', h) + OwnCount(x_packet', h)
             /\ Count(b_packet', h) \in Nat /\ Count(b_packet_next', h) \in Nat /\ OwnCount(x_packet', h) \in Nat
             /\ users'[h] \in Nat
  BY CountsNext, Finite DEF TypeOK
<1>3. ASSUME NEW o \in Obj, b_packet'[o][0] # NoPacket
      PROVE  users'[b_packet'[o][0]] \in Nat \ {0}
  <2>1. b_packet'[o][0] \in Handle /\ Count(b_packet', b_packet'[o][0]) >= 1
    BY <1>1, <1>3, Counted, Handles DEF Packet
  <2> QED
    BY <1>2, <2>1
<1>4. ASSUME NEW o \in Obj, x_packet'[o] # NoPacket
      PROVE  users'[x_packet'[o]] \in Nat \ {0}
  <2>1. x_packet'[o] \in Handle /\ OwnCount(x_packet', x_packet'[o]) >= 1
    BY <1>1, <1>4, Counted DEF Packet
  <2> QED
    BY <1>2, <2>1
<1> QED
  BY <1>3, <1>4

(* A register message's packet is held by the object that sends it. *)
LEMMA Referenced == CountInv => MessageReferenced
<1> SUFFICES ASSUME CountInv, stack # <<>>, Top.op \in {"ro", "rw"} PROVE users[Top.packet] > 0
  BY DEF MessageReferenced
<1>0. TypeOK /\ StackOK /\ RefCount
  BY DEF CountInv
<1>1. 1 \in DOMAIN stack /\ Top = stack[1]
  BY <1>0, Popped
<1>2. PICK m \in DOMAIN stack : m > 1 /\ stack[m].op = "unuse"
  BY <1>0, <1>1 DEF StackOK, Registering
<1>3. PICK o \in Obj, own \in BOOLEAN : stack[m].obj = o /\ stack[m].own = own
  BY <1>0, <1>2, CallFields DEF TypeOK
<1>4. 1 \in 1 .. m - 1
  BY <1>0, <1>2, Popped
<1>5. Passed(o, own) # NoPacket /\ Top.packet = Passed(o, own)
  BY <1>0, <1>1, <1>2, <1>3, <1>4 DEF StackOK, Sending
<1>6. users[Passed(o, own)] \in Nat \ {0}
  BY <1>0, <1>5, Holders, Handles DEF Passed
<1> QED
  BY <1>5, <1>6

-----------------------------------------------------------------------------
(* Ownership, in patches where no zoom feeds its own hot inlet. *)
OwnerRest == SourceGone /\ SendsResult /\ TaskPackets /\ Exclusive /\ ResultReady

LEMMA Flows ==
    ASSUME NEW o \in Obj, NEW z \in Obj, o \in Downstream(z) \union {z}
    PROVE  HotTargets(o) \subseteq Downstream(z)
<1> SUFFICES ASSUME NEW q \in HotTargets(o), NEW S \in SUBSET Obj, HotTargets(z) \subseteq S,
                    \A r \in S : HotTargets(r) \subseteq S
             PROVE  q \in S
  BY DEF Downstream, HotTargets
<1>1. CASE o = z
  BY <1>1
<1>2. CASE o \in Downstream(z)
  <2>1. o \in S
    BY <1>2 DEF Downstream
  <2> QED
    BY <2>1
<1> QED
  BY <1>1, <1>2

(* The calls that an object makes are below the second pass of a zoom when *)
(* the object is.                                                          *)
LEMMA BelowOf ==
    ASSUME NEW o \in Obj, NEW z \in Obj, o \in Downstream(z) \union {z}, NEW c
    PROVE  /\ c.op \in {"pass", "unuse", "discard", "direct"} /\ c.obj = o => Below(c, z)
           /\ c.op \in {"ro", "rw", "process"} /\ Hot(c, o) => Below(c, z)
           /\ c.op \in {"tick", "called"} => Below(c, z)
BY Flows DEF Below, Hot

LEMMA SourceTail ==
    ASSUME TypeOK, SourceGone, stack # <<>>, NEW k \in DOMAIN Tail(stack), Empties(Tail(stack)[k])
    PROVE  LET z == Tail(stack)[k].obj
           IN  /\ z \in Obj /\ Kind[z] = "zoom" /\ ~b_queued[z] /\ Below(Top, z)
               /\ \A j \in 1 .. k - 1 : Below(Tail(stack)[j], z)
               /\ \/ b_packet[z][0] = NoPacket
                  \/ Top.op = "discard" /\ Top.obj = z
                  \/ \E j \in 1 .. k - 1 : Tail(stack)[j].op = "discard" /\ Tail(stack)[j].obj = z
<1> DEFINE t == Tail(stack)
           z == t[k].obj
<1>1. k \in 1 .. Len(t) /\ k + 1 \in DOMAIN stack /\ t[k] = stack[k + 1] /\ k \in Nat /\ Top = stack[1]
      /\ \A j \in 1 .. k - 1 : j \in 1 .. Len(t) /\ t[j] = stack[j + 1]
  BY Popped
<1>2. t[k] \in Call /\ t[k].op = "pass" /\ Kind[z] = "zoom" /\ z \in Obj
  <2>1. t[k] \in Call
    BY <1>1 DEF TypeOK
  <2> QED
    BY <2>1, CallFields DEF Empties
<1>3. /\ ~b_queued[z] /\ \A j \in 1 .. (k + 1) - 1 : Below(stack[j], z)
      /\ b_packet[z][0] = NoPacket \/ \E j \in 1 .. (k + 1) - 1 : stack[j].op = "discard" /\ stack[j].obj = z
  BY <1>1 DEF SourceGone
<1>4. 1 \in 1 .. (k + 1) - 1 /\ \A j \in 1 .. k - 1 : j + 1 \in 1 .. (k + 1) - 1
  BY <1>1
<1>5. Below(Top, z) /\ \A j \in 1 .. k - 1 : Below(t[j], z)
  BY <1>1, <1>3, <1>4
<1>6. ASSUME NEW j \in 1 .. (k + 1) - 1, stack[j].op = "discard", stack[j].obj = z
      PROVE  \/ Top.op = "discard" /\ Top.obj = z
             \/ \E i \in 1 .. k - 1 : t[i].op = "discard" /\ t[i].obj = z
  <2>1. CASE j = 1
    BY <1>1, <1>6, <2>1
  <2>2. CASE j # 1
    <3>1. j - 1 \in 1 .. k - 1 /\ (j - 1) + 1 = j
      BY <1>1, <2>2
    <3>2. t[j - 1] = stack[j]
      BY <1>1, <3>1
    <3> QED
      BY <1>6, <3>1, <3>2
  <2> QED
    BY <2>1, <2>2
<1>7. \/ b_packet[z][0] = NoPacket
      \/ Top.op = "discard" /\ Top.obj = z
      \/ \E j \in 1 .. k - 1 : t[j].op = "discard" /\ t[j].obj = z
  BY <1>3, <1>6
<1> QED
  BY <1>2, <1>3, <1>5, <1>7

LEMMA SourcePop ==
    ASSUME TypeOK, SourceGone, stack # <<>>, stack' = Tail(stack), b_queued' = b_queued,
           \A z \in Obj : Kind[z] = "zoom" /\ Below(Top, z) => b_packet'[z][0] \in {b_packet[z][0], NoPacket},
           \A z \in Obj : Top.op = "discard" /\ Top.obj = z => b_packet'[z][0] = NoPacket
    PROVE  SourceGone'
<1> DEFINE t == Tail(stack)
<1> SUFFICES ASSUME NEW k \in DOMAIN t, Empties(t[k])
             PROVE  LET z == t[k].obj
                    IN  /\ ~b_queued[z]
                        /\ \A j \in 1 .. k - 1 : Below(t[j], z)
                        /\ \/ b_packet'[z][0] = NoPacket
                           \/ \E j \in 1 .. k - 1 : t[j].op = "discard" /\ t[j].obj = z
  BY DEF SourceGone, Empties, Below
<1> DEFINE z == t[k].obj
<1>1. /\ z \in Obj /\ Kind[z] = "zoom" /\ ~b_queued[z] /\ Below(Top, z)
      /\ \A j \in 1 .. k - 1 : Below(t[j], z)
      /\ \/ b_packet[z][0] = NoPacket
         \/ Top.op = "discard" /\ Top.obj = z
         \/ \E j \in 1 .. k - 1 : t[j].op = "discard" /\ t[j].obj = z
  BY SourceTail
<1> HIDE DEF t, z
<1>2. \/ b_packet'[z][0] = NoPacket
      \/ \E j \in 1 .. k - 1 : t[j].op = "discard" /\ t[j].obj = z
  BY <1>1
<1> QED
  BY <1>1, <1>2 DEF z

(* Calls of an object on top of calls that concern no packet. *)
OfObject(calls, o) ==
    \A k \in DOMAIN calls :
        \/ calls[k].op \in {"pass", "unuse", "discard", "direct"} /\ calls[k].obj = o
        \/ calls[k].op \in {"ro", "rw", "process"} /\ Hot(calls[k], o)
Discards(calls, o) ==
    \A k \in DOMAIN calls : Empties(calls[k]) =>
        \E j \in 1 .. k - 1 : calls[j].op = "discard" /\ calls[j].obj = o

LEMMA SourcePush ==
    ASSUME NEW o \in Obj, NEW calls \in Seq(Call), OfObject(calls, o), Discards(calls, o),
           NEW rest \in Seq(Call), stack' = calls \o rest,
           \A k \in DOMAIN calls : Empties(calls[k]) => ~b_queued'[o],
           \A k \in DOMAIN rest : Empties(rest[k]) =>
               /\ rest[k].obj \in Obj /\ ~b_queued'[rest[k].obj] /\ b_packet'[rest[k].obj][0] = NoPacket
               /\ o \in Downstream(rest[k].obj) \union {rest[k].obj}
               /\ \A j \in 1 .. k - 1 : Below(rest[j], rest[k].obj)
    PROVE  SourceGone'
<1> DEFINE s == stack'
           n == Len(calls)
<1>1. /\ s \in Seq(Call) /\ Len(s) = n + Len(rest) /\ n \in Nat /\ Len(rest) \in Nat /\ DOMAIN s = 1 .. Len(s)
      /\ \A k \in 1 .. n : k \in DOMAIN s /\ s[k] = calls[k]
      /\ \A k \in DOMAIN s : \/ k \in 1 .. n /\ s[k] = calls[k]
                             \/ k - n \in 1 .. Len(rest) /\ s[k] = rest[k - n]
  BY Splice
<1>2. DOMAIN calls = 1 .. n /\ DOMAIN rest = 1 .. Len(rest)
  OBVIOUS
<1> HIDE DEF s, n
<1> SUFFICES ASSUME NEW k \in DOMAIN s, Empties(s[k])
             PROVE  /\ ~b_queued'[s[k].obj]
                    /\ \A j \in 1 .. k - 1 : Below(s[j], s[k].obj)
                    /\ \/ b_packet'[s[k].obj][0] = NoPacket
                       \/ \E j \in 1 .. k - 1 : s[j].op = "discard" /\ s[j].obj = s[k].obj
  BY DEF SourceGone, Empties, Below, s
<1>3. CASE k \in 1 .. n /\ s[k] = calls[k]
  <2>1. s[k].obj = o /\ ~b_queued'[o]
    BY <1>2, <1>3 DEF OfObject, Empties
  <2>2. \A j \in 1 .. k - 1 : j \in DOMAIN calls /\ s[j] = calls[j]
    BY <1>1, <1>2, <1>3
  <2>3. \A j \in 1 .. k - 1 : Below(s[j], o)
    BY <2>2, BelowOf DEF OfObject
  <2>4. \E j \in 1 .. k - 1 : s[j].op = "discard" /\ s[j].obj = o
    BY <1>2, <1>3, <2>2 DEF Discards
  <2> QED
    BY <2>1, <2>3, <2>4
<1>4. CASE k - n \in 1 .. Len(rest) /\ s[k] = rest[k - n]
  <2> DEFINE z == rest[k - n].obj
  <2>1. /\ z \in Obj /\ ~b_queued'[z] /\ b_packet'[z][0] = NoPacket /\ o \in Downstream(z) \union {z}
        /\ \A j \in 1 .. (k - n) - 1 : Below(rest[j], z)
    BY <1>2, <1>4
  <2>2. ASSUME NEW j \in 1 .. k - 1 PROVE Below(s[j], z)
    <3>1. j \in DOMAIN s
      BY <1>1
    <3>2. CASE j \in 1 .. n /\ s[j] = calls[j]
      <4>1. \/ calls[j].op \in {"pass", "unuse", "discard", "direct"} /\ calls[j].obj = o
            \/ calls[j].op \in {"ro", "rw", "process"} /\ Hot(calls[j], o)
        BY <1>2, <3>2 DEF OfObject
      <4> HIDE DEF z
      <4> QED
        BY <2>1, <3>2, <4>1, BelowOf
    <3>3. CASE j - n \in 1 .. Len(rest) /\ s[j] = rest[j - n]
      <4>1. j - n \in 1 .. (k - n) - 1
        BY <1>1, <1>4, <3>3
      <4> QED
        BY <2>1, <3>3, <4>1
    <3> QED
      BY <1>1, <3>1, <3>2, <3>3
  <2>3. s[k].obj = z
    BY <1>4
  <2> HIDE DEF z
  <2> QED
    BY <2>1, <2>2, <2>3
<1> QED
  BY <1>1, <1>3, <1>4

LEMMA PostsDiscard ==
    ASSUME NEW o \in Obj
    PROVE  /\ OfObject(Postprocess(o), o) /\ Discards(Postprocess(o), o)
           /\ \A s : s = <<[op |-> "direct", obj |-> o]>> \o Postprocess(o) => OfObject(s, o) /\ Discards(s, o)
<1> DEFINE r == Postprocess(o)
           d == [op |-> "direct", obj |-> o]
           s == <<d>> \o r
<1>1. r \in Seq(Call) /\ DOMAIN r = 1 .. Len(r) /\ Len(r) \in Nat /\ PostCalls(r, o)
  BY Posts
<1>2. OfObject(r, o)
  BY <1>1 DEF PostCalls, OfObject
<1>3. Discards(r, o)
  <2>1. CASE Kind[o] = "zoom"
    <3>1. r = <<[op |-> "discard", obj |-> o], Pass(o, TRUE), Pass(o, FALSE)>>
      BY <2>1 DEF Postprocess
    <3>2. DOMAIN r = 1 .. 3 /\ r[1].op = "discard" /\ r[1].obj = o /\ r[2].own = TRUE
      BY <3>1 DEF Pass
    <3> HIDE DEF r
    <3> SUFFICES ASSUME NEW k \in DOMAIN r, Empties(r[k]) PROVE \E j \in 1 .. k - 1 : r[j].op = "discard" /\ r[j].obj = o
      BY DEF Discards
    <3>3. k = 1 \/ k = 2 \/ k = 3
      BY <3>2
    <3>4. k = 3
      BY <3>2, <3>3 DEF Empties
    <3>5. 1 \in 1 .. k - 1
      BY <3>4
    <3> QED
      BY <3>2, <3>5
  <2>2. CASE Kind[o] # "zoom"
    BY <1>1, <2>2 DEF Discards, Empties, PostCalls
  <2> QED
    BY <2>1, <2>2
<1>4. /\ s \in Seq(Call) /\ s[1] = d /\ DOMAIN s = 1 .. Len(r) + 1
      /\ \A k \in DOMAIN s : k \in Int /\ (k = 1 \/ (k - 1 \in DOMAIN r /\ s[k] = r[k - 1]))
      /\ \A k \in DOMAIN r : k + 1 \in DOMAIN s /\ s[k + 1] = r[k]
  <2>1. d \in Call /\ r \in Seq(Call) /\ s = <<d>> \o r
    BY <1>1 DEF Call
  <2> HIDE DEF r, d, s
  <2> QED
    BY <2>1, InFront
<1>5. d.op = "direct" /\ d.obj = o /\ ~Empties(d)
  BY DEF Empties
<1> HIDE DEF r, s, d
<1>6. OfObject(s, o)
  BY <1>2, <1>4, <1>5 DEF OfObject
<1>7. Discards(s, o)
  <2> SUFFICES ASSUME NEW k \in DOMAIN s, Empties(s[k]) PROVE \E j \in 1 .. k - 1 : s[j].op = "discard" /\ s[j].obj = o
    BY DEF Discards
  <2>1. k # 1
    BY <1>4, <1>5
  <2>2. k \in Int /\ k - 1 \in DOMAIN r /\ s[k] = r[k - 1]
    BY <1>4, <2>1
  <2>3. PICK j \in 1 .. (k - 1) - 1 : r[j].op = "discard" /\ r[j].obj = o
    BY <1>3, <2>2 DEF Discards
  <2>4. j \in DOMAIN r /\ j + 1 \in 1 .. k - 1
    BY <1>1, <2>2 DEF r
  <2>5. s[j + 1] = r[j]
    BY <1>4, <2>4
  <2> QED
    BY <2>3, <2>4, <2>5
<1> QED
  BY <1>2, <1>3, <1>6, <1>7 DEF r, s, d

LEMMA Released ==
    /\ \A o, own : Releases(o, own) <=> \E c \in Elems(stack) : c.op = "unuse" /\ c.obj = o /\ c.own = own
    /\ \A o, own : Releases(o, own)' <=> \E c \in Elems(stack') : c.op = "unuse" /\ c.obj = o /\ c.own = own
BY DEF Releases, Elems

LEMMA OwnerElems ==
    ASSUME OwnerRest
    PROVE  /\ \A c \in Elems(stack) : c.op = "unuse" => Leaves(c)
           /\ \A c \in Elems(stack) : c.op = "pass" /\ Kind[c.obj] = "gain" =>
                  c.obj \in processed \/ \E d \in Elems(stack) : d.op = "direct" /\ d.obj = c.obj
BY DEF OwnerRest, SendsResult, ResultReady, Elems

LEMMA SendsNext ==
    ASSUME \A c \in Elems(stack') : c.op = "unuse" => Leaves(c)
    PROVE  SendsResult'
BY DEF SendsResult, Elems, Leaves

LEMMA ReadyNext ==
    ASSUME \A n \in Waiting' : done'[n] # NoObj /\ Kind[done'[n]] = "gain" => done'[n] \in processed',
           \A c \in Elems(stack') : c.op = "pass" /\ Kind[c.obj] = "gain" =>
               c.obj \in processed' \/ \E d \in Elems(stack') : d.op = "direct" /\ d.obj = c.obj
    PROVE  ResultReady'
BY DEF ResultReady, Elems

(* Packets stay exclusive when their users do not grow, or when they are   *)
(* new, or sent.                                                           *)
LEMMA ExclusiveNext ==
    ASSUME TypeOK', RefCount', TypeOK, RefCount, Exclusive,
           \A o \in Obj : Kind[o] = "gain" /\ b_packet'[o][0] # NoPacket =>
               \/ users'[b_packet'[o][0]] = 1 \/ Releases(o, FALSE)'
               \/ /\ b_packet'[o][0] = b_packet[o][0] /\ ~Releases(o, FALSE)
                  /\ users'[b_packet[o][0]] <= users[b_packet[o][0]],
           \A o \in Obj : x_packet'[o] # NoPacket =>
               \/ users'[x_packet'[o]] = 1 \/ Releases(o, TRUE)'
               \/ /\ x_packet'[o] = x_packet[o] /\ ~Releases(o, TRUE)
                  /\ users'[x_packet[o]] <= users[x_packet[o]]
    PROVE  Exclusive'
<1>1. /\ \A o \in Obj : b_packet'[o][0] # NoPacket => users'[b_packet'[o][0]] \in Nat \ {0}
      /\ \A o \in Obj : x_packet'[o] # NoPacket => users'[x_packet'[o]] \in Nat \ {0}
  BY HoldersNext
<1>2. ASSUME NEW o \in Obj, Kind[o] = "gain", b_packet'[o][0] # NoPacket
      PROVE  users'[b_packet'[o][0]] = 1 \/ Releases(o, FALSE)'
  <2> SUFFICES ASSUME b_packet'[o][0] = b_packet[o][0], ~Releases(o, FALSE), users'[b_packet[o][0]] <= users[b_packet[o][0]]
               PROVE  users'[b_packet'[o][0]] = 1
    BY <1>2
  <2>1. users[b_packet[o][0]] = 1 /\ users'[b_packet[o][0]] \in Nat \ {0}
    BY <1>1, <1>2 DEF Exclusive
  <2> QED
    BY <2>1
<1>3. ASSUME NEW o \in Obj, x_packet'[o] # NoPacket
      PROVE  users'[x_packet'[o]] = 1 \/ Releases(o, TRUE)'
  <2> SUFFICES ASSUME x_packet'[o] = x_packet[o], ~Releases(o, TRUE), users'[x_packet[o]] <= users[x_packet[o]]
               PROVE  users'[x_packet'[o]] = 1
    BY <1>3
  <2>1. users[x_packet[o]] = 1 /\ users'[x_packet[o]] \in Nat \ {0}
    BY <1>1, <1>3 DEF Exclusive
  <2> QED
    BY <2>1
<1> QED
  BY <1>2, <1>3 DEF Exclusive

LEMMA ExclusiveSame ==
    ASSUME Exclusive, UNCHANGED <<b_packet, x_packet, users>>,
           \A o \in Obj, own \in BOOLEAN : Releases(o, own) => Releases(o, own)'
    PROVE  Exclusive'
<1>1. \A o \in Obj : (Releases(o, FALSE) => Releases(o, FALSE)') /\ (Releases(o, TRUE) => Releases(o, TRUE)')
  OBVIOUS
<1> QED
  BY <1>1 DEF Exclusive

LEMMA ExchangeUsers ==
    ASSUME NEW u \in [Handle -> Nat], NEW a \in Packet, NEW p \in Packet, NEW h \in Handle
    PROVE  /\ h # p => Retain(Release(u, a), p)[h] <= u[h]
           /\ h = p /\ a # p => Retain(Release(u, a), p)[h] = u[h] + 1
<1>1. u \in [Handle -> Int] /\ u[h] \in Nat
  OBVIOUS
<1>2. Retain(Release(u, a), p)[h] = u[h] - Is(a, h) + Is(p, h)
  BY <1>1, Exchange
<1> QED
  BY <1>1, <1>2 DEF Is

(* Without register messages on top nobody is about to clear a packet. *)
LEMMA NoReleases ==
    ASSUME TypeOK, StackOK, stack # <<>>, Top.op \notin {"ro", "rw", "unuse"}
    PROVE  \A c \in Elems(stack) : c.op # "unuse"
<1> SUFFICES ASSUME NEW k \in DOMAIN stack, stack[k].op = "unuse" PROVE FALSE
  BY DEF Elems
<1>1. k # 1 /\ 1 \in 1 .. k - 1 /\ stack[1] = Top
  BY Popped
<1> QED
  BY <1>1 DEF StackOK, Sending

LEMMA NoLeavingPass ==
    ASSUME TypeOK, StackOK, stack # <<>>, Top.op \notin {"direct", "discard"}
    PROVE  \A c \in Elems(Tail(stack)) : ~(c.op = "pass" /\ Leaves(c))
<1> SUFFICES ASSUME NEW k \in DOMAIN Tail(stack), Tail(stack)[k].op = "pass", Leaves(Tail(stack)[k]) PROVE FALSE
  BY DEF Elems
<1>1. k + 1 \in DOMAIN stack /\ stack[k + 1] = Tail(stack)[k] /\ 1 \in 1 .. (k + 1) - 1 /\ stack[1] = Top
  BY Popped
<1> QED
  BY <1>1 DEF StackOK, Together

(* The packet of a message that registers it is about to be cleared by the *)
(* object that has it alone.                                               *)
LEMMA Shared ==
    ASSUME CountInv, Exclusive, stack # <<>>, Top.op \in {"ro", "rw"}
    PROVE  /\ Top.packet \in Handle
           /\ \A q \in Obj : Kind[q] = "gain" /\ b_packet[q][0] = Top.packet => Releases(q, FALSE)
           /\ \A q \in Obj : x_packet[q] = Top.packet => Releases(q, TRUE)
<1>0. TypeOK /\ StackOK /\ RefCount
  BY DEF CountInv
<1>1. 1 \in DOMAIN stack /\ Top = stack[1] /\ Top.packet \in Packet
  BY <1>0, Popped, CallFields
<1>2. PICK m \in DOMAIN stack : m > 1 /\ stack[m].op = "unuse"
  BY <1>0, <1>1 DEF StackOK, Registering
<1>3. PICK o \in Obj, own \in BOOLEAN : stack[m].obj = o /\ stack[m].own = own
  BY <1>0, <1>2, CallFields DEF TypeOK
<1>4. 1 \in 1 .. m - 1
  BY <1>0, <1>2, Popped
<1>5. Passed(o, own) # NoPacket /\ Top.packet = Passed(o, own)
  BY <1>0, <1>1, <1>2, <1>3, <1>4 DEF StackOK, Sending
<1>6. Releases(o, own)
  BY <1>2, <1>3 DEF Releases
<1>7. ASSUME NEW q \in Obj, Kind[q] = "gain", b_packet[q][0] = Top.packet PROVE Releases(q, FALSE)
  <2> SUFFICES ASSUME users[b_packet[q][0]] = 1 PROVE Releases(q, FALSE)
    BY <1>5, <1>7 DEF Exclusive
  <2>1. ~own /\ o = q
    BY <1>0, <1>5, <1>7, Holders DEF Passed
  <2> QED
    BY <1>6, <2>1
<1>8. ASSUME NEW q \in Obj, x_packet[q] = Top.packet PROVE Releases(q, TRUE)
  <2> SUFFICES ASSUME users[x_packet[q]] = 1 PROVE Releases(q, TRUE)
    BY <1>5, <1>8 DEF Exclusive
  <2>1. own /\ o = q
    BY <1>0, <1>5, <1>8, Holders DEF Passed
  <2> QED
    BY <1>6, <2>1
<1> QED
  BY <1>1, <1>5, <1>7, <1>8 DEF Packet

LEMMA WaitingSame ==
    ASSUME done' = done, InCall' <=> InCall
    PROVE  Waiting' = Waiting
BY DEF Waiting

LEMMA WaitingPop ==
    ASSUME TypeOK, stack # <<>>, Top.op # "called", stack' = Tail(stack), done' = done
    PROVE  Waiting' = Waiting /\ Elems(stack) = {Top} \union Elems(stack')
<1>1. Elems(stack) = {Top} \union Elems(stack')
  BY ElemsTail
<1>2. InCall' <=> InCall
  BY <1>1, InCalls
<1> QED
  BY <1>1, <1>2, WaitingSame

(* A call that returns without any effect. *)
LEMMA OwnerPop ==
    ASSUME TypeOK, OwnerRest, stack # <<>>, Top.op \notin {"called", "unuse", "direct", "discard"},
           stack' = Tail(stack), UNCHANGED <<b_packet, b_queued, x_packet, users, given, processed, todo, done>>
    PROVE  OwnerRest'
<1>0. SourceGone /\ TaskPackets /\ Exclusive /\ ResultReady
  BY DEF OwnerRest
<1>1. Waiting' = Waiting /\ Elems(stack) = {Top} \union Elems(stack')
  BY WaitingPop
<1>2. SourceGone'
  BY <1>0, SourcePop
<1>3. SendsResult'
  BY <1>1, OwnerElems, SendsNext
<1>4. TaskPackets'
  BY <1>0 DEF TaskPackets, TaskOwnsPackets
<1>5. Exclusive'
  <2>1. \A o \in Obj, own \in BOOLEAN : Releases(o, own) => Releases(o, own)'
    BY <1>1, Released
  <2> QED
    BY <1>0, <2>1, ExclusiveSame
<1>6. ResultReady'
  <2>1. \A n \in Waiting : done[n] # NoObj /\ Kind[done[n]] = "gain" => done[n] \in processed
    BY <1>0 DEF ResultReady
  <2>2. \A c \in Elems(stack') : c.op = "pass" /\ Kind[c.obj] = "gain" =>
            c.obj \in processed \/ \E d \in Elems(stack') : d.op = "direct" /\ d.obj = c.obj
    BY <1>1, OwnerElems
  <2> QED
    BY <1>1, <2>1, <2>2, ReadyNext
<1> QED
  BY <1>2, <1>3, <1>4, <1>5, <1>6 DEF OwnerRest

LEMMA PassOwner ==
    ASSUME NoFeedback, OwnerInv, CountInv', pdp_packet_pass_if_valid
    PROVE  OwnerRest'
<1> DEFINE rest == Tail(stack)
<1>0. TypeOK /\ StackOK /\ Registers /\ OwnerRest /\ SourceGone /\ TaskPackets /\ Exclusive /\ ResultReady
  BY DEF OwnerInv, CountInv, OwnerRest
<1>1. stack # <<>> /\ Top.op = "pass" /\ UNCHANGED <<b_packet, b_queued, x_packet, users, given, processed, todo, done>>
  BY DEF pdp_packet_pass_if_valid, Do, object, Unqueued
<1>2. PICK o \in Obj, own \in BOOLEAN : Top.obj = o /\ Top.own = own
  BY <1>0, <1>1, Popped, CallFields
<1>3. rest \in Seq(Call) /\ Plain(rest) /\ Elems(stack) = {Top} \union Elems(rest) /\ 1 \in DOMAIN stack /\ stack[1] = Top
  BY <1>0, <1>1, PlainTail, Popped, ElemsTail
<1>4. Passed(o, own) \in Packet
  BY <1>0, Handles DEF Passed, TypeOK
<1>5. CASE Passed(o, own) = NoPacket
  <2>1. stack' = <<>> \o rest
    BY <1>2, <1>5 DEF pdp_packet_pass_if_valid, Run
  <2>2. stack' = Tail(stack)
    BY <1>3, <2>1
  <2> QED
    BY <1>0, <1>1, <2>2, OwnerPop
<1>6. CASE Passed(o, own) # NoPacket
  <2> DEFINE calls == PassedOn(o, own, Passed(o, own))
  <2>1. stack' = calls \o rest
    BY <1>2, <1>6 DEF pdp_packet_pass_if_valid, Run, PassedOn
  <2>2. calls \in Seq(Call) /\ Passing(calls, o, own, Passed(o, own))
    BY <1>4, PassCalls
  <2> HIDE DEF calls
  <2>3. Elems(stack') = Elems(calls) \union Elems(rest)
    BY <1>3, <2>1, <2>2, ElemsSplice
  <2>4. PICK m \in DOMAIN calls :
          /\ calls[m].op = "unuse" /\ calls[m].obj = o /\ calls[m].own = own
          /\ \A j \in DOMAIN calls : j < m => calls[j].op \in {"ro", "rw"} /\ Hot(calls[j], o)
          /\ \A j \in DOMAIN calls : j > m => calls[j].op = "process" /\ Hot(calls[j], o)
    BY <2>2 DEF Passing
  <2>5. \A j \in DOMAIN calls : j \in Int /\ m \in Int /\ (j < m \/ j = m \/ j > m)
    BY <2>2
  <2>6. OfObject(calls, o)
    BY <2>4, <2>5 DEF OfObject
  <2>7. \A j \in DOMAIN calls : calls[j].op \in {"ro", "rw", "process"} \/ calls[j] = calls[m]
    BY <2>4, <2>5
  <2>8. \A j \in DOMAIN calls : ~Empties(calls[j])
    BY <2>4, <2>7 DEF Empties
  <2>9. \A k \in DOMAIN rest : Empties(rest[k]) =>
          /\ rest[k].obj \in Obj /\ ~b_queued'[rest[k].obj] /\ b_packet'[rest[k].obj][0] = NoPacket
          /\ o \in Downstream(rest[k].obj) \union {rest[k].obj}
          /\ \A j \in 1 .. k - 1 : Below(rest[j], rest[k].obj)
    <3> SUFFICES ASSUME NEW k \in DOMAIN rest, Empties(rest[k])
                 PROVE  /\ rest[k].obj \in Obj /\ ~b_queued[rest[k].obj] /\ b_packet[rest[k].obj][0] = NoPacket
                        /\ o \in Downstream(rest[k].obj) \union {rest[k].obj}
                        /\ \A j \in 1 .. k - 1 : Below(rest[j], rest[k].obj)
      BY <1>1
    <3> DEFINE z == rest[k].obj
    <3>1. /\ z \in Obj /\ ~b_queued[z] /\ Below(Top, z)
          /\ \A j \in 1 .. k - 1 : Below(rest[j], z)
          /\ \/ b_packet[z][0] = NoPacket
             \/ Top.op = "discard" /\ Top.obj = z
             \/ \E j \in 1 .. k - 1 : rest[j].op = "discard" /\ rest[j].obj = z
      BY <1>0, <1>1, SourceTail
    <3>2. \A j \in 1 .. k - 1 : rest[j].op # "discard"
      <4>1. \A j \in 1 .. k - 1 : j \in DOMAIN rest
        BY <1>0, <1>1, Popped
      <4> QED
        BY <1>3, <4>1 DEF Plain
    <3>3. o \in Downstream(z) \union {z}
      BY <1>1, <1>2, <3>1 DEF Below
    <3> HIDE DEF z, rest
    <3> QED
      BY <1>1, <3>1, <3>2, <3>3 DEF z
  <2>10. SourceGone'
    BY <1>3, <2>1, <2>2, <2>6, <2>8, <2>9, SourcePush DEF Discards
  <2>11. Leaves(calls[m])
    <3>1. CASE own
      BY <2>4, <3>1 DEF Leaves
    <3>2. CASE ~own
      <4>1. b_packet[o][0] # NoPacket
        BY <1>6, <3>2 DEF Passed
      <4>2. Kind[o] # "noise"
        BY <1>0, <4>1 DEF Registers
      <4>3. Kind[o] # "zoom"
        <5> SUFFICES ASSUME Kind[o] = "zoom" PROVE FALSE
          OBVIOUS
        <5>1. Empties(stack[1])
          BY <1>1, <1>2, <1>3, <3>2 DEF Empties
        <5>2. \A j \in 1 .. 1 - 1 : FALSE
          OBVIOUS
        <5> QED
          BY <1>0, <1>2, <1>3, <4>1, <5>1, <5>2 DEF SourceGone
      <4>4. Kind[o] \in {"gain", "mat"}
        BY <4>2, <4>3, PatchAssumption
      <4> QED
        BY <2>4, <4>4 DEF Leaves
    <3> QED
      BY <3>1, <3>2
  <2>12. SendsResult'
    <3>1. \A c \in Elems(calls) : c.op = "unuse" => Leaves(c)
      BY <2>4, <2>7, <2>11 DEF Elems
    <3>2. \A c \in Elems(rest) : c.op # "unuse"
      BY <1>3, PlainElems
    <3> QED
      BY <2>3, <3>1, <3>2, SendsNext
  <2>13. TaskPackets'
    BY <1>0, <1>1 DEF TaskPackets, TaskOwnsPackets
  <2>14. Exclusive'
    <3>1. \A c \in Elems(stack) : c.op # "unuse"
      BY <1>0, <1>1, NoReleases
    <3>2. \A q \in Obj, w \in BOOLEAN : ~Releases(q, w)
      BY <3>1, Released
    <3> QED
      BY <1>0, <1>1, <3>2, ExclusiveSame
  <2>15. ResultReady'
    <3>1. \A c \in Elems(calls) : c.op \in {"ro", "rw", "process", "unuse"}
      BY <2>4, <2>7 DEF Elems
    <3>2. InCall' <=> InCall
      BY <1>1, <1>3, <2>3, <3>1, InCalls
    <3>3. Waiting' = Waiting
      BY <1>1, <3>2, WaitingSame
    <3>4. \A n \in Waiting : done[n] # NoObj /\ Kind[done[n]] = "gain" => done[n] \in processed
      BY <1>0 DEF ResultReady
    <3>5. \A c \in Elems(stack') : ~(c.op = "pass" /\ Kind[c.obj] = "gain")
      BY <1>3, <2>3, <3>1, PlainElems DEF Leaves
    <3>6. UNCHANGED <<done, processed>>
      BY <1>1
    <3> QED
      BY <3>3, <3>4, <3>5, <3>6, ReadyNext
  <2> QED
    BY <2>10, <2>12, <2>13, <2>14, <2>15 DEF OwnerRest
<1> QED
  BY <1>5, <1>6

LEMMA TaskKept ==
    ASSUME TypeOK, TaskPackets, UNCHANGED <<todo, b_queued>>,
           \A n \in DOMAIN todo : b_packet'[todo[n]] = b_packet[todo[n]] /\ given'[todo[n]] = given[todo[n]],
           \A q \in Obj : b_queued[q] /\ Kind[q] = "gain" => b_packet'[q] = b_packet[q]
    PROVE  TaskPackets'
<1>1. \A n \in DOMAIN todo : /\ b_packet'[todo[n]] = given'[todo[n]]
                             /\ Kind[todo[n]] # "noise" => b_packet'[todo[n]][0] # NoPacket
  BY DEF TaskPackets, TaskOwnsPackets
<1>2. \A q \in Obj : b_queued[q] /\ Kind[q] = "gain" => b_packet'[q][0] # NoPacket
  BY DEF TaskPackets
<1> QED
  BY <1>1, <1>2 DEF TaskPackets, TaskOwnsPackets

(* The rows of all objects but one are the same when one register changes. *)
LEMMA OtherRows ==
    ASSUME NEW f \in Rows, NEW g \in Rows, NEW o \in Obj, OnlyAt(f, g, o, 0)
    PROVE  \A q \in Obj : q # o => g[q] = f[q]
<1> SUFFICES ASSUME NEW q \in Obj, q # o PROVE g[q] = f[q]
  OBVIOUS
<1>1. g[q] \in [Inlet -> Packet] /\ f[q] \in [Inlet -> Packet] /\ \A i \in Inlet : g[q][i] = f[q][i]
  BY DEF Rows, OnlyAt
<1> QED
  BY <1>1

LEMMA UnuseOwner ==
    ASSUME OwnerInv, CountInv', PassUnuse
    PROVE  OwnerRest'
<1> DEFINE rest == Tail(stack)
<1>0. /\ TypeOK /\ StackOK /\ QueuedOnce /\ RefCount /\ OwnerRest /\ SourceGone /\ TaskPackets /\ Exclusive /\ ResultReady
      /\ TypeOK' /\ RefCount'
  BY DEF OwnerInv, CountInv, OwnerRest
<1>1. stack # <<>> /\ Top.op = "unuse" /\ UNCHANGED <<b_queued, given, todo, done>> /\ stack' = rest
  BY DEF PassUnuse, Do, Unqueued, Return
<1>2. PICK o \in Obj, own \in BOOLEAN : Top.obj = o /\ Top.own = own
  BY <1>0, <1>1, Popped, CallFields
<1>3. processed' = processed \ {o} /\ Clear(o, own) /\ users' = Release(users, Passed(o, own))
  BY <1>2 DEF PassUnuse
<1>4. /\ Plain(rest) /\ Waiting' = Waiting /\ Elems(stack) = {Top} \union Elems(stack')
      /\ 1 \in DOMAIN stack /\ stack[1] = Top
  BY <1>0, <1>1, PlainTail, WaitingPop, Popped
<1>5. ~b_queued[o]
  <2>1. Leaves(Top)
    BY <1>0, <1>1, <1>4, OwnerElems
  <2> QED
    BY <1>0, <1>2, <1>4, <2>1 DEF StackOK, Unqueues
<1>6. /\ IF own THEN b_packet' = b_packet /\ OnlyOf(x_packet, x_packet', o) /\ x_packet'[o] = NoPacket
                ELSE x_packet' = x_packet /\ OnlyAt(b_packet, b_packet', o, 0) /\ b_packet'[o][0] = NoPacket
      /\ \A q \in Obj : q # o => b_packet'[q] = b_packet[q]
  <2>1. CASE own
    BY <1>0, <1>3, <2>1 DEF Clear, OnlyOf, TypeOK
  <2>2. CASE ~own
    <3>1. b_packet \in Rows /\ b_packet' = Put(b_packet, o, 0, NoPacket) /\ x_packet' = x_packet
      BY <1>0, <1>3, <2>2 DEF Clear, TypeOK, Rows, Put
    <3>2. b_packet' \in Rows /\ OnlyAt(b_packet, b_packet', o, 0) /\ b_packet'[o][0] = NoPacket
      BY <3>1, Handles, SetSlot
    <3>3. \A q \in Obj : q # o => b_packet'[q] = b_packet[q]
      <4>1. b_packet \in Rows
        BY <3>1
      <4> QED
        BY <3>2, <4>1, OtherRows
    <3> QED
      BY <2>2, <3>1, <3>2, <3>3
  <2> QED
    BY <2>1, <2>2
<1>7. SourceGone'
  <2>1. \A z \in Obj : b_packet'[z][0] \in {b_packet[z][0], NoPacket}
    BY <1>6
  <2> QED
    BY <1>0, <1>1, <2>1, SourcePop
<1>8. SendsResult'
  BY <1>0, <1>4, OwnerElems, SendsNext
<1>9. TaskPackets'
  <2>1. \A n \in DOMAIN todo : todo[n] \in Obj /\ todo[n] # o
    BY <1>0, <1>5 DEF QueuedOnce, TypeOK
  <2>2. \A n \in DOMAIN todo : b_packet'[todo[n]] = b_packet[todo[n]] /\ given'[todo[n]] = given[todo[n]]
    BY <1>1, <1>6, <2>1
  <2>3. \A q \in Obj : b_queued[q] /\ Kind[q] = "gain" => b_packet'[q] = b_packet[q]
    BY <1>5, <1>6
  <2> QED
    BY <1>0, <1>1, <2>2, <2>3, TaskKept
<1>10. Exclusive'
  <2>1. \A c \in Elems(stack) : c.op = "unuse" => c = Top
    BY <1>1, <1>4, PlainElems
  <2>2. \A q \in Obj : (Releases(q, FALSE) => q = o /\ ~own) /\ (Releases(q, TRUE) => q = o /\ own)
    <3>1. \A q, w : Releases(q, w) => q = o /\ w = own
      BY <1>2, <2>1, Released
    <3>2. CASE own = TRUE
      BY <3>1, <3>2
    <3>3. CASE own = FALSE
      BY <3>1, <3>3
    <3> QED
      BY <3>2, <3>3
  <2>3. \A h \in Handle : users'[h] <= users[h]
    <3> TAKE h \in Handle
    <3>1. Passed(o, own) \in Packet /\ users \in [Handle -> Nat]
      BY <1>0, Handles DEF TypeOK, Passed
    <3>2. users' = Retain(Release(users, Passed(o, own)), NoPacket) /\ h # NoPacket
      BY <1>3, NothingReleased, Handles
    <3> QED
      BY <3>1, <3>2, ExchangeUsers, Handles
  <2>4. \A q \in Obj : b_packet'[q][0] # NoPacket =>
            b_packet'[q][0] = b_packet[q][0] /\ b_packet[q][0] \in Handle /\ ~(q = o /\ ~own)
    BY <1>0, <1>6, Handles DEF TypeOK, Packet
  <2>5. \A q \in Obj : x_packet'[q] # NoPacket =>
            x_packet'[q] = x_packet[q] /\ x_packet[q] \in Handle /\ ~(q = o /\ own)
    BY <1>0, <1>6 DEF TypeOK, Packet, OnlyOf
  <2> QED
    BY <1>0, <2>2, <2>3, <2>4, <2>5, ExclusiveNext
<1>11. ResultReady'
  <2>1. \A n \in Waiting : done[n] # NoObj /\ Kind[done[n]] = "gain" => done[n] \in processed /\ done[n] # o
    BY <1>0, <1>5 DEF ResultReady, QueuedOnce
  <2>2. \A c \in Elems(stack') : ~(c.op = "pass" /\ Kind[c.obj] = "gain")
    BY <1>1, <1>4, PlainElems DEF Leaves
  <2>3. \A n \in Waiting' : done'[n] # NoObj /\ Kind[done'[n]] = "gain" => done'[n] \in processed'
    BY <1>1, <1>3, <1>4, <2>1
  <2> QED
    BY <2>2, <2>3, ReadyNext
<1> QED
  BY <1>7, <1>8, <1>9, <1>10, <1>11 DEF OwnerRest

LEMMA DiscardOwner ==
    ASSUME OwnerInv, CountInv', Discard
    PROVE  OwnerRest'
<1> DEFINE rest == Tail(stack)
<1>0. /\ TypeOK /\ StackOK /\ QueuedOnce /\ RefCount /\ OwnerRest /\ SourceGone /\ TaskPackets /\ Exclusive /\ ResultReady
      /\ TypeOK' /\ RefCount'
  BY DEF OwnerInv, CountInv, OwnerRest
<1>1. stack # <<>> /\ Top.op = "discard" /\ UNCHANGED <<b_queued, x_packet, given, processed, todo, done>> /\ stack' = rest
  BY DEF Discard, Do, Unqueued, Return
<1>2. PICK o \in Obj : Top.obj = o
  BY <1>0, <1>1, Popped, CallFields
<1>3. users' = Release(users, b_packet[o][0]) /\ b_packet' = Put(b_packet, o, 0, NoPacket)
  BY <1>2 DEF Discard, Put
<1>4. /\ Waiting' = Waiting /\ Elems(stack) = {Top} \union Elems(stack') /\ 1 \in DOMAIN stack /\ stack[1] = Top
      /\ \A c \in Elems(stack) : c.op # "unuse"
  BY <1>0, <1>1, WaitingPop, Popped, NoReleases
<1>5. ~b_queued[o]
  BY <1>0, <1>1, <1>2, <1>4 DEF StackOK, Unqueues
<1>6. b_packet'[o][0] = NoPacket /\ \A q \in Obj : q # o => b_packet'[q] = b_packet[q]
  <2>1. b_packet \in Rows
    BY <1>0 DEF TypeOK, Rows
  <2>2. b_packet' \in Rows /\ OnlyAt(b_packet, b_packet', o, 0) /\ b_packet'[o][0] = NoPacket
    BY <1>3, <2>1, Handles, SetSlot
  <2> QED
    BY <2>1, <2>2, OtherRows
<1>7. SourceGone'
  <2>1. \A z \in Obj : b_packet'[z][0] \in {b_packet[z][0], NoPacket}
    BY <1>6
  <2> QED
    BY <1>0, <1>1, <1>2, <1>6, <2>1, SourcePop
<1>8. SendsResult'
  BY <1>4, SendsNext
<1>9. TaskPackets'
  <2>1. \A n \in DOMAIN todo : todo[n] \in Obj /\ todo[n] # o
    BY <1>0, <1>5 DEF QueuedOnce, TypeOK
  <2>2. \A n \in DOMAIN todo : b_packet'[todo[n]] = b_packet[todo[n]] /\ given'[todo[n]] = given[todo[n]]
    BY <1>1, <1>6, <2>1
  <2>3. \A q \in Obj : b_queued[q] /\ Kind[q] = "gain" => b_packet'[q] = b_packet[q]
    BY <1>5, <1>6
  <2> QED
    BY <1>0, <1>1, <2>2, <2>3, TaskKept
<1>10. Exclusive'
  <2>1. \A q \in Obj : ~Releases(q, FALSE) /\ ~Releases(q, TRUE)
    BY <1>4, Released
  <2>2. \A h \in Handle : users'[h] <= users[h]
    <3> TAKE h \in Handle
    <3>1. b_packet[o][0] \in Packet /\ users \in [Handle -> Nat]
      BY <1>0, Handles DEF TypeOK
    <3>2. users' = Retain(Release(users, b_packet[o][0]), NoPacket) /\ h # NoPacket
      BY <1>3, NothingReleased, Handles
    <3> QED
      BY <3>1, <3>2, ExchangeUsers, Handles
  <2>3. \A q \in Obj : b_packet'[q][0] # NoPacket => b_packet'[q][0] = b_packet[q][0] /\ b_packet[q][0] \in Handle
    <3>1. \A q \in Obj : b_packet[q][0] \in Packet
      BY <1>0, Handles DEF TypeOK
    <3>2. \A q \in Obj : b_packet'[q][0] # NoPacket => b_packet'[q][0] = b_packet[q][0]
      BY <1>6
    <3> QED
      BY <3>1, <3>2 DEF Packet
  <2>4. \A q \in Obj : x_packet'[q] # NoPacket => x_packet'[q] = x_packet[q] /\ x_packet[q] \in Handle
    BY <1>0, <1>1 DEF TypeOK, Packet
  <2> QED
    BY <1>0, <2>1, <2>2, <2>3, <2>4, ExclusiveNext
<1>11. ResultReady'
  <2>1. \A n \in Waiting : done[n] # NoObj /\ Kind[done[n]] = "gain" => done[n] \in processed
    BY <1>0 DEF ResultReady
  <2>2. \A c \in Elems(stack') : c.op = "pass" /\ Kind[c.obj] = "gain" =>
            c.obj \in processed \/ \E d \in Elems(stack') : d.op = "direct" /\ d.obj = c.obj
    BY <1>0, <1>1, <1>4, OwnerElems
  <2>3. UNCHANGED <<done, processed>>
    BY <1>1
  <2> QED
    BY <1>4, <2>1, <2>2, <2>3, ReadyNext
<1> QED
  BY <1>7, <1>8, <1>9, <1>10, <1>11 DEF OwnerRest

(* A process method leaves the packets of others alone and makes new ones. *)
LEMMA ProcessUsers ==
    ASSUME TypeOK, NEW o \in Obj, pdp_base_process(o), Kind[o] = "noise" => x_packet[o] = NoPacket
    PROVE  /\ \A h \in Handle : users[h] # 0 => users'[h] <= users[h]
           /\ Kind[o] = "noise" => x_packet'[o] \in Handle /\ users'[x_packet'[o]] = 1
           /\ OnlyOf(given, given', o)
<1>0. users \in [Handle -> Nat] /\ b_packet[o][0] \in Packet
  BY Handles DEF TypeOK
<1>1. OnlyOf(given, given', o)
  BY DEF pdp_base_process, OnlyOf, TypeOK
<1>2. CASE Kind[o] = "noise"
  <2>1. PICK p \in Fresh : users' = Retain(users, p) /\ x_packet' = [x_packet EXCEPT ![o] = p]
    BY <1>2 DEF pdp_base_process
  <2>2. p \in Handle /\ p \in Packet /\ users[p] = 0 /\ users' = Retain(Release(users, NoPacket), p) /\ p # NoPacket
    BY <2>1, Handles, NothingReleased
  <2>3. x_packet'[o] = p
    BY <2>1 DEF TypeOK
  <2>4. users'[p] = users[p] + 1
    BY <1>0, <2>2, Handles, ExchangeUsers
  <2>5. \A h \in Handle : h # p => users'[h] <= users[h]
    BY <1>0, <2>2, Handles, ExchangeUsers
  <2> QED
    BY <1>1, <1>2, <2>2, <2>3, <2>4, <2>5
<1>3. CASE Kind[o] \in {"gain", "zoom"}
  <2>1. users' = users
    BY <1>3 DEF pdp_base_process
  <2> QED
    BY <1>0, <1>1, <1>3, <2>1
<1>4. CASE Kind[o] = "mat"
  <2>1. PICK p \in Fresh \union {NoPacket} : users' = Retain(Release(users, b_packet[o][0]), p)
    BY <1>4 DEF pdp_base_process
  <2>2. p \in Packet /\ (p \in Handle => users[p] = 0)
    BY Handles
  <2>3. \A h \in Handle : h # p => users'[h] <= users[h]
    BY <1>0, <2>1, <2>2, ExchangeUsers
  <2> QED
    BY <1>1, <1>4, <2>2, <2>3
<1> QED
  BY <1>2, <1>3, <1>4, PatchAssumption

LEMMA ProcessExclusive ==
    ASSUME TypeOK, Registers, RefCount, TypeOK', Exclusive, NEW o \in Obj, pdp_base_process(o),
           Kind[o] = "noise" => x_packet[o] = NoPacket,
           \A q, w : Releases(q, w) => Releases(q, w)'
    PROVE  Exclusive' /\ \A q \in Obj : Kind[q] # "mat" => b_packet'[q] = b_packet[q]
<1>1. /\ RefCount' /\ b_packet' \in Rows
      /\ IF Kind[o] = "mat" THEN OnlyAt(b_packet, b_packet', o, 0) ELSE b_packet' = b_packet
      /\ IF Kind[o] = "noise" THEN OnlyOf(x_packet, x_packet', o) ELSE x_packet' = x_packet
  BY ProcessData
<1>2. /\ \A h \in Handle : users[h] # 0 => users'[h] <= users[h]
      /\ Kind[o] = "noise" => x_packet'[o] \in Handle /\ users'[x_packet'[o]] = 1
  BY ProcessUsers
<1>3. \A q \in Obj : Kind[q] # "mat" => b_packet'[q] = b_packet[q]
  <2>1. CASE Kind[o] = "mat"
    <3>1. b_packet \in Rows /\ b_packet' \in Rows /\ OnlyAt(b_packet, b_packet', o, 0)
      BY <1>1, <2>1 DEF TypeOK, Rows
    <3>2. \A q \in Obj : q # o => b_packet'[q] = b_packet[q]
      BY <3>1, OtherRows
    <3> QED
      BY <2>1, <3>2
  <2>2. CASE Kind[o] # "mat"
    BY <1>1, <2>2
  <2> QED
    BY <2>1, <2>2
<1>4. /\ \A q \in Obj : b_packet[q][0] \in Packet /\ x_packet[q] \in Packet
      /\ \A q \in Obj : b_packet[q][0] # NoPacket => users[b_packet[q][0]] # 0
      /\ \A q \in Obj : x_packet[q] # NoPacket => users[x_packet[q]] # 0
  BY Handles, Holders DEF TypeOK
<1>5. \A q \in Obj : Kind[q] = "gain" /\ b_packet'[q][0] # NoPacket =>
          b_packet'[q][0] = b_packet[q][0] /\ users'[b_packet[q][0]] <= users[b_packet[q][0]]
  BY <1>2, <1>3, <1>4 DEF Packet
<1>6. \A q \in Obj : x_packet'[q] # NoPacket =>
          \/ users'[x_packet'[q]] = 1
          \/ x_packet'[q] = x_packet[q] /\ users'[x_packet[q]] <= users[x_packet[q]]
  BY <1>1, <1>2, <1>4 DEF Packet, OnlyOf
<1>7. \A q : (Releases(q, TRUE) => Releases(q, TRUE)') /\ (Releases(q, FALSE) => Releases(q, FALSE)')
  OBVIOUS
<1>8. Exclusive'
  BY <1>1, <1>5, <1>6, <1>7, ExclusiveNext
<1> QED
  BY <1>3, <1>8

LEMMA DirectOwner ==
    ASSUME OwnerInv, CountInv', Direct
    PROVE  OwnerRest'
<1> DEFINE rest == Tail(stack)
<1>0. /\ TypeOK /\ StackOK /\ Registers /\ QueuedOnce /\ OwnPacket /\ RefCount
      /\ OwnerRest /\ SourceGone /\ TaskPackets /\ Exclusive /\ ResultReady /\ TypeOK'
  BY DEF OwnerInv, CountInv, OwnerRest
<1>1. stack # <<>> /\ Top.op = "direct" /\ UNCHANGED <<b_queued, todo, done>> /\ stack' = rest
  BY DEF Direct, Do, Unqueued, Return
<1>2. PICK o \in Obj : Top.obj = o
  BY <1>0, <1>1, Popped, CallFields
<1>3. pdp_base_process(o)
  BY <1>2 DEF Direct
<1>4. /\ Waiting' = Waiting /\ Elems(stack) = {Top} \union Elems(stack') /\ 1 \in DOMAIN stack /\ stack[1] = Top
      /\ \A c \in Elems(stack) : c.op # "unuse"
  BY <1>0, <1>1, WaitingPop, Popped, NoReleases
<1>5. ~b_queued[o] /\ (Kind[o] = "noise" => x_packet[o] = NoPacket)
  BY <1>0, <1>1, <1>2, <1>4 DEF StackOK, Unqueues, OwnPacket
<1>6. processed' = processed \union {o} /\ OnlyOf(given, given', o)
  BY <1>0, <1>3, <1>5, ProcessUsers DEF pdp_base_process
<1>7. Exclusive' /\ \A q \in Obj : Kind[q] # "mat" => b_packet'[q] = b_packet[q]
  <2>1. \A q, w : Releases(q, w) => Releases(q, w)'
    BY <1>4, Released
  <2> QED
    BY <1>0, <1>3, <1>5, <2>1, ProcessExclusive
<1>8. \A q \in Obj : q # o => b_packet'[q] = b_packet[q]
  <2>1. IF Kind[o] = "mat" THEN OnlyAt(b_packet, b_packet', o, 0) ELSE b_packet' = b_packet
    BY <1>0, <1>3, <1>5, ProcessData
  <2>2. b_packet \in Rows /\ b_packet' \in Rows
    BY <1>0 DEF TypeOK, Rows
  <2>3. CASE Kind[o] = "mat"
    BY <2>1, <2>2, <2>3, OtherRows
  <2> QED
    BY <2>1, <2>3
<1>9. SourceGone'
  <2>1. \A z \in Obj : Kind[z] = "zoom" => b_packet'[z][0] = b_packet[z][0]
    BY <1>7
  <2> QED
    BY <1>0, <1>1, <2>1, SourcePop
<1>10. SendsResult'
  BY <1>4, SendsNext
<1>11. TaskPackets'
  <2>1. \A n \in DOMAIN todo : todo[n] \in Obj /\ todo[n] # o
    BY <1>0, <1>5 DEF QueuedOnce, TypeOK
  <2>2. \A n \in DOMAIN todo : b_packet'[todo[n]] = b_packet[todo[n]] /\ given'[todo[n]] = given[todo[n]]
    BY <1>6, <1>8, <2>1 DEF OnlyOf
  <2>3. \A q \in Obj : b_queued[q] /\ Kind[q] = "gain" => b_packet'[q] = b_packet[q]
    BY <1>7
  <2> QED
    BY <1>0, <1>1, <2>2, <2>3, TaskKept
<1>12. ResultReady'
  <2>1. \A n \in Waiting : done[n] # NoObj /\ Kind[done[n]] = "gain" => done[n] \in processed
    BY <1>0 DEF ResultReady
  <2>2. ASSUME NEW c \in Elems(stack'), c.op = "pass", Kind[c.obj] = "gain"
        PROVE  c.obj \in processed' \/ \E d \in Elems(stack') : d.op = "direct" /\ d.obj = c.obj
    BY <1>0, <1>2, <1>4, <1>6, <2>2, OwnerElems
  <2>3. done' = done
    BY <1>1
  <2> QED
    BY <1>4, <1>6, <2>1, <2>2, <2>3, ReadyNext
<1> QED
  BY <1>7, <1>9, <1>10, <1>11, <1>12 DEF OwnerRest

LEMMA ThreadOwner ==
    ASSUME OwnerInv, CountInv', Thread
    PROVE  OwnerRest'
<1> DEFINE o == Head(todo)
           m == Len(done)
<1>0. /\ TypeOK /\ StackOK /\ Registers /\ QueuedOnce /\ OwnPacket /\ RefCount
      /\ OwnerRest /\ SourceGone /\ SendsResult /\ TaskPackets /\ Exclusive /\ ResultReady /\ TypeOK'
  BY DEF OwnerInv, CountInv, OwnerRest
<1>1. /\ todo # <<>> /\ pdp_base_process(o) /\ todo' = Tail(todo) /\ done' = Append(done, o)
      /\ UNCHANGED <<b_queued, stack>>
  BY DEF Thread, Q!Process
<1>2. /\ o \in Obj /\ 1 \in DOMAIN todo /\ todo[1] = o
      /\ \A n \in DOMAIN todo' : n \in Nat /\ n + 1 \in DOMAIN todo /\ todo'[n] = todo[n + 1] /\ n + 1 # 1
  BY <1>0, <1>1 DEF TypeOK
<1>3. /\ m \in Nat /\ done'[m + 1] = o /\ DOMAIN done = 1 .. m /\ DOMAIN done' = 1 .. m + 1
      /\ \A n \in DOMAIN done : done'[n] = done[n]
  BY <1>0, <1>1, <1>2 DEF TypeOK
<1>4. Kind[o] = "noise" => x_packet[o] = NoPacket
  BY <1>0, <1>2 DEF OwnPacket
<1> HIDE DEF o, m
<1>5. processed' = processed \union {o} /\ OnlyOf(given, given', o)
  BY <1>0, <1>1, <1>2, <1>4, ProcessUsers DEF pdp_base_process
<1>6. Exclusive' /\ \A q \in Obj : Kind[q] # "mat" => b_packet'[q] = b_packet[q]
  <2>1. \A q, w : Releases(q, w) => Releases(q, w)'
    BY <1>1, Released
  <2> QED
    BY <1>0, <1>1, <1>2, <1>4, <2>1, ProcessExclusive
<1>7. \A q \in Obj : q # o => b_packet'[q] = b_packet[q]
  <2>1. IF Kind[o] = "mat" THEN OnlyAt(b_packet, b_packet', o, 0) ELSE b_packet' = b_packet
    BY <1>0, <1>1, <1>2, <1>4, ProcessData
  <2>2. b_packet \in Rows /\ b_packet' \in Rows
    BY <1>0 DEF TypeOK, Rows
  <2>3. CASE Kind[o] = "mat"
    BY <1>2, <2>1, <2>2, <2>3, OtherRows
  <2> QED
    BY <2>1, <2>3
<1>8. SourceGone'
  <2> SUFFICES ASSUME NEW k \in DOMAIN stack, Empties(stack[k])
               PROVE  /\ ~b_queued[stack[k].obj]
                      /\ \A j \in 1 .. k - 1 : Below(stack[j], stack[k].obj)
                      /\ \/ b_packet'[stack[k].obj][0] = NoPacket
                         \/ \E j \in 1 .. k - 1 : stack[j].op = "discard" /\ stack[j].obj = stack[k].obj
    BY <1>1 DEF SourceGone, Empties, Below
  <2>1. stack[k].obj \in Obj /\ Kind[stack[k].obj] = "zoom"
    BY <1>0, CallFields DEF Empties, TypeOK
  <2>2. b_packet'[stack[k].obj] = b_packet[stack[k].obj]
    BY <1>6, <2>1
  <2> QED
    BY <1>0, <2>2 DEF SourceGone
<1>9. SendsResult'
  BY <1>0, <1>1 DEF SendsResult, Leaves
<1>10. TaskPackets'
  <2>1. ASSUME NEW n \in DOMAIN todo'
        PROVE  b_packet'[todo'[n]] = given'[todo'[n]] /\ (Kind[todo'[n]] # "noise" => b_packet'[todo'[n]][0] # NoPacket)
    <3>1. n + 1 \in DOMAIN todo /\ todo'[n] = todo[n + 1] /\ n + 1 # 1
      BY <1>2
    <3>2. todo[n + 1] # o /\ todo[n + 1] \in Obj
      BY <1>0, <1>2, <3>1 DEF QueuedOnce, TypeOK
    <3>3. b_packet[todo[n + 1]] = given[todo[n + 1]] /\ (Kind[todo[n + 1]] # "noise" => b_packet[todo[n + 1]][0] # NoPacket)
      BY <1>0, <3>1 DEF TaskPackets, TaskOwnsPackets
    <3> QED
      BY <1>5, <1>7, <3>1, <3>2, <3>3 DEF OnlyOf
  <2>2. \A q \in Obj : b_queued'[q] /\ Kind[q] = "gain" => b_packet'[q][0] # NoPacket
    BY <1>0, <1>1, <1>6 DEF TaskPackets
  <2> QED
    BY <2>1, <2>2 DEF TaskPackets, TaskOwnsPackets
<1>11. ResultReady'
  <2>1. InCall' <=> InCall
    BY <1>1 DEF InCall
  <2>2. ASSUME NEW n \in Waiting', done'[n] # NoObj, Kind[done'[n]] = "gain" PROVE done'[n] \in processed'
    <3>1. n \in 1 .. m + 1 /\ (InCall => n > 1)
      BY <1>3, <2>1 DEF Waiting
    <3>2. n \in 1 .. m \/ n = m + 1
      BY <1>3, <3>1
    <3>3. CASE n = m + 1
      BY <1>3, <1>5, <3>3
    <3>4. CASE n \in 1 .. m
      <4>1. n \in Waiting /\ done'[n] = done[n]
        BY <1>3, <3>1, <3>4 DEF Waiting
      <4>2. done[n] \in processed
        BY <1>0, <2>2, <4>1 DEF ResultReady
      <4> QED
        BY <1>5, <4>1, <4>2
    <3> QED
      BY <3>2, <3>3, <3>4
  <2>3. stack' = stack
    BY <1>1
  <2>4. \A c \in Elems(stack') : c.op = "pass" /\ Kind[c.obj] = "gain" =>
            c.obj \in processed' \/ \E d \in Elems(stack') : d.op = "direct" /\ d.obj = c.obj
    BY <1>0, <1>5, <2>3, OwnerElems
  <2> QED
    BY <2>2, <2>4, ReadyNext
<1> QED
  BY <1>6, <1>8, <1>9, <1>10, <1>11 DEF OwnerRest

(* Registering a packet that is being sent. *)
LEMMA SharedNext ==
    ASSUME CountInv, CountInv', Exclusive, stack # <<>>, Top.op \in {"ro", "rw"}, stack' = Tail(stack),
           users' = Retain(users, Top.packet), x_packet' = x_packet,
           \A q \in Obj : Kind[q] = "gain" => b_packet'[q][0] = b_packet[q][0]
    PROVE  Exclusive'
<1> DEFINE p == Top.packet
<1>0. TypeOK /\ RefCount /\ TypeOK' /\ RefCount'
  BY DEF CountInv
<1>1. /\ p \in Handle
      /\ \A q \in Obj : Kind[q] = "gain" /\ b_packet[q][0] = p => Releases(q, FALSE)
      /\ \A q \in Obj : x_packet[q] = p => Releases(q, TRUE)
  BY Shared
<1>2. \A q, w : Releases(q, w) => Releases(q, w)'
  <2>1. Elems(stack) = {Top} \union Elems(stack')
    BY <1>0, ElemsTail
  <2> QED
    BY <2>1, Released
<1>3. \A h \in Handle : h # p => users'[h] <= users[h]
  <2>1. users \in [Handle -> Nat] /\ p \in Packet /\ users' = Retain(Release(users, NoPacket), p) /\ NoPacket \in Packet
    BY <1>0, <1>1, Handles, NothingReleased DEF TypeOK
  <2> HIDE DEF p
  <2> QED
    BY <2>1, ExchangeUsers
<1>4. \A q \in Obj : b_packet[q][0] \in Packet /\ x_packet[q] \in Packet
  BY <1>0, Handles DEF TypeOK
<1> HIDE DEF p
<1>5. \A q \in Obj : Kind[q] = "gain" /\ b_packet[q][0] # NoPacket =>
          Releases(q, FALSE)' \/ (~Releases(q, FALSE) /\ users'[b_packet[q][0]] <= users[b_packet[q][0]])
  BY <1>1, <1>2, <1>3, <1>4 DEF Packet
<1>6. \A q \in Obj : x_packet[q] # NoPacket =>
          Releases(q, TRUE)' \/ (~Releases(q, TRUE) /\ users'[x_packet[q]] <= users[x_packet[q]])
  BY <1>1, <1>2, <1>3, <1>4 DEF Packet
<1> QED
  BY <1>0, <1>5, <1>6, ExclusiveNext

LEMMA RegisterOwner ==
    ASSUME NoFeedback, OwnerInv, CountInv', HotRegister
    PROVE  OwnerRest'
<1> DEFINE rest == Tail(stack)
<1>0. /\ TypeOK /\ StackOK /\ QueuedOnce /\ RefCount /\ CountInv
      /\ OwnerRest /\ SourceGone /\ SendsResult /\ TaskPackets /\ Exclusive /\ ResultReady /\ TypeOK' /\ RefCount'
  BY DEF OwnerInv, CountInv, OwnerRest
<1>1. stack # <<>> /\ Top.op \in {"ro", "rw"} /\ Top.inlet = 0 /\ UNCHANGED <<given, todo, done>> /\ stack' = rest
  BY DEF HotRegister, Return, Unqueued
<1>2. PICK o \in Obj : Top.obj = o
  BY <1>0, <1>1, Popped, CallFields
<1>3. CASE UNCHANGED <<object, users, processed>>
  <2>1. UNCHANGED <<b_packet, b_queued, x_packet, users, given, processed, todo, done>>
    BY <1>1, <1>3 DEF object
  <2> QED
    BY <1>0, <1>1, <2>1, OwnerPop
<1>4. CASE ~UNCHANGED <<object, users, processed>>
  <2>1. PICK p \in Packet : Registered(o, p)
    <3>1. Top.packet \in Packet
      BY <1>0, <1>1, Popped, CallFields
    <3> QED
      BY <1>2, <1>4, <3>1, RegisterWays
  <2>2. /\ b_packet[o][0] = NoPacket /\ Kind[o] # "noise" /\ users' = Retain(users, p)
        /\ IF Kind[o] = "mat" THEN p = Top.packet ELSE p \in Fresh \union {NoPacket}
        /\ processed' = processed \ {o} /\ UNCHANGED <<b_queued, x_packet>>
    BY <2>1 DEF Registered
  <2>3. b_packet'[o][0] = p /\ \A q \in Obj : q # o => b_packet'[q] = b_packet[q]
    <3>1. b_packet \in Rows /\ b_packet' = Put(b_packet, o, 0, p)
      BY <1>0, <2>1 DEF TypeOK, Rows, Registered
    <3>2. b_packet' \in Rows /\ OnlyAt(b_packet, b_packet', o, 0) /\ b_packet'[o][0] = p
      BY <3>1, Handles, SetSlot
    <3>3. b_packet \in Rows
      BY <3>1
    <3> QED
      BY <3>2, <3>3, OtherRows
  <2>4. Waiting' = Waiting /\ Elems(stack) = {Top} \union Elems(stack')
    BY <1>0, <1>1, WaitingPop
  <2>5. SourceGone'
    <3>1. ASSUME NEW z \in Obj, Kind[z] = "zoom", Below(Top, z)
          PROVE  b_packet'[z][0] \in {b_packet[z][0], NoPacket}
      <4>1. o \in Downstream(z)
        BY <1>1, <1>2, <3>1 DEF Below
      <4>2. o # z
        BY <3>1, <4>1 DEF NoFeedback
      <4> QED
        BY <2>3, <4>2
    <3>2. b_queued' = b_queued
      BY <2>2
    <3> QED
      BY <1>0, <1>1, <3>1, <3>2, SourcePop
  <2>6. SendsResult'
    BY <1>0, <2>4, OwnerElems, SendsNext
  <2>7. TaskPackets'
    <3>1. \A n \in DOMAIN todo : todo[n] \in Obj /\ todo[n] # o
      BY <1>0, <2>2 DEF TaskPackets, TypeOK
    <3>2. \A n \in DOMAIN todo : b_packet'[todo[n]] = b_packet[todo[n]] /\ given'[todo[n]] = given[todo[n]]
      BY <1>1, <2>3, <3>1
    <3>3. \A q \in Obj : b_queued[q] /\ Kind[q] = "gain" => b_packet'[q] = b_packet[q]
      BY <1>0, <2>2, <2>3 DEF TaskPackets
    <3>4. UNCHANGED <<todo, b_queued>>
      BY <1>1, <2>2
    <3> QED
      BY <1>0, <3>2, <3>3, <3>4, TaskKept
  <2>8. Exclusive'
    <3>1. CASE Kind[o] = "mat"
      <4>1. \A q \in Obj : Kind[q] = "gain" => b_packet'[q][0] = b_packet[q][0]
        BY <2>3, <3>1
      <4>2. users' = Retain(users, Top.packet) /\ x_packet' = x_packet
        BY <2>2, <3>1
      <4> QED
        BY <1>0, <1>1, <4>1, <4>2, SharedNext
    <3>2. CASE Kind[o] # "mat"
      <4>1. p \in Packet /\ (p \in Handle => users[p] = 0)
        BY <2>2, <3>2, Handles
      <4>2. users \in [Handle -> Nat] /\ users' = Retain(Release(users, NoPacket), p) /\ NoPacket \in Packet
        BY <1>0, <2>2, Handles, NothingReleased DEF TypeOK
      <4>3. \A h \in Handle : h # p => users'[h] <= users[h]
        BY <4>1, <4>2, ExchangeUsers
      <4>4. p # NoPacket => users'[p] = 1
        <5> SUFFICES ASSUME p # NoPacket PROVE users'[p] = 1
          OBVIOUS
        <5>1. p \in Handle /\ NoPacket # p
          BY <4>1 DEF Packet
        <5>2. users'[p] = users[p] + 1
          BY <4>2, <5>1, Handles, ExchangeUsers
        <5> QED
          BY <4>1, <5>1, <5>2
      <4>5. /\ \A q \in Obj : b_packet[q][0] \in Packet /\ x_packet[q] \in Packet
            /\ \A q \in Obj : b_packet[q][0] # NoPacket => users[b_packet[q][0]] # 0
            /\ \A q \in Obj : x_packet[q] # NoPacket => users[x_packet[q]] # 0
        BY <1>0, Handles, Holders DEF TypeOK
      <4>6. \A q, w : Releases(q, w) => Releases(q, w)'
        BY <1>1, <2>4, Released
      <4>7. \A q \in Obj : (Releases(q, TRUE) => Releases(q, TRUE)') /\ (Releases(q, FALSE) => Releases(q, FALSE)')
        BY <4>6
      <4>8. \A q \in Obj : b_packet'[q][0] # NoPacket =>
                \/ users'[b_packet'[q][0]] = 1
                \/ b_packet'[q][0] = b_packet[q][0] /\ users'[b_packet[q][0]] <= users[b_packet[q][0]]
        BY <2>3, <4>1, <4>3, <4>4, <4>5 DEF Packet
      <4>9. \A q \in Obj : x_packet[q] # NoPacket => users'[x_packet[q]] <= users[x_packet[q]]
        BY <4>1, <4>3, <4>5 DEF Packet
      <4>10. x_packet' = x_packet
        BY <2>2
      <4> QED
        BY <1>0, <4>7, <4>8, <4>9, <4>10, ExclusiveNext
    <3> QED
      BY <3>1, <3>2
  <2>9. ResultReady'
    <3>1. ASSUME NEW n \in Waiting, done[n] # NoObj, Kind[done[n]] = "gain" PROVE done[n] \in processed'
      <4>1. done[n] \in Obj /\ b_queued[done[n]] /\ done[n] \in processed
        BY <1>0, <3>1 DEF ResultReady, QueuedOnce, Waiting, TypeOK
      <4>2. done[n] # o
        BY <1>0, <2>2, <3>1, <4>1 DEF TaskPackets
      <4> QED
        BY <2>2, <4>1, <4>2
    <3>2. \A c \in Elems(stack') : ~(c.op = "pass" /\ Kind[c.obj] = "gain")
      BY <1>0, <1>1, NoLeavingPass DEF Leaves
    <3>3. done' = done
      BY <1>1
    <3> QED
      BY <2>4, <3>1, <3>2, <3>3, ReadyNext
  <2> QED
    BY <2>5, <2>6, <2>7, <2>8, <2>9 DEF OwnerRest
<1> QED
  BY <1>3, <1>4

LEMMA ColdOwner ==
    ASSUME OwnerInv, CountInv', pdp_base_input_cold
    PROVE  OwnerRest'
<1>0. /\ TypeOK /\ StackOK /\ CountInv
      /\ OwnerRest /\ SourceGone /\ SendsResult /\ TaskPackets /\ Exclusive /\ ResultReady
  BY DEF OwnerInv, CountInv, OwnerRest
<1>1. /\ stack # <<>> /\ Top.op \in {"ro", "rw", "process"} /\ stack' = Tail(stack)
      /\ UNCHANGED <<b_packet, b_queued, x_packet, given, processed, todo, done>>
  BY DEF pdp_base_input_cold, Return, Unqueued
<1>2. CASE users' = users
  BY <1>0, <1>1, <1>2, OwnerPop
<1>3. CASE users' # users
  <2>1. Top.op = "ro" /\ users' = Retain(users, Top.packet)
    BY <1>3 DEF pdp_base_input_cold
  <2>2. Waiting' = Waiting /\ Elems(stack) = {Top} \union Elems(stack')
    BY <1>0, <1>1, WaitingPop
  <2>3. SourceGone'
    BY <1>0, <1>1, <2>1, SourcePop
  <2>4. SendsResult'
    BY <1>0, <2>2, OwnerElems, SendsNext
  <2>5. TaskPackets'
    BY <1>0, <1>1 DEF TaskPackets, TaskOwnsPackets
  <2>6. Exclusive'
    BY <1>0, <1>1, <2>1, SharedNext
  <2>7. ResultReady'
    <3>1. \A n \in Waiting : done[n] # NoObj /\ Kind[done[n]] = "gain" => done[n] \in processed
      BY <1>0 DEF ResultReady
    <3>2. \A c \in Elems(stack') : ~(c.op = "pass" /\ Kind[c.obj] = "gain")
      BY <1>0, <1>1, <2>1, NoLeavingPass DEF Leaves
    <3>3. UNCHANGED <<done, processed>>
      BY <1>1
    <3> QED
      BY <2>2, <3>1, <3>2, <3>3, ReadyNext
  <2> QED
    BY <2>3, <2>4, <2>5, <2>6, <2>7 DEF OwnerRest
<1> QED
  BY <1>2, <1>3

(* A bang only releases packets, but for the new one of its object. *)
LEMMA BangUsers ==
    ASSUME TypeOK, NEW o \in Obj, NEW rest, pdp_base_bang(o, rest), ~b_queued[o]
    PROVE  \A h \in Handle : users[h] # 0 => users'[h] <= users[h]
<1> SUFFICES ASSUME NEW h \in Handle, users[h] # 0 PROVE users'[h] <= users[h]
  OBVIOUS
<1>1. PICK p \in IF Preproc(o) THEN Fresh ELSE {NoPacket} : users' = Retain(AfterMove(o), p)
  BY DEF pdp_base_bang
<1>2. p # h
  BY <1>1, Handles
<1>3. users[h] \in Nat
  BY DEF TypeOK
<1> DEFINE n == Cardinality({i \in Moved(o) : b_packet[o][i] = h})
<1>4. n \in Nat
  <2>1. {i \in Moved(o) : b_packet[o][i] = h} \subseteq Inlet
    BY Handles DEF Moved
  <2> QED
    BY <2>1, Finite, FS_Subset, FS_CardinalityType
<1>5. AfterMove(o)[h] = users[h] - n /\ h \in DOMAIN AfterMove(o)
  BY DEF AfterMove
<1>6. users'[h] = AfterMove(o)[h]
  BY <1>1, <1>2, <1>5 DEF Retain
<1> HIDE DEF n
<1> QED
  BY <1>3, <1>4, <1>5, <1>6

LEMMA BangOwner ==
    ASSUME OwnerInv, CountInv', NEW o \in Obj, NEW rest \in Seq(Call), pdp_base_bang(o, rest), Plain(rest),
           InCall <=> \E c \in Elems(rest) : c.op = "called",
           \A q \in Obj : ~Leaving(q), \A c \in Elems(stack) : c.op # "unuse",
           ~b_queued[o], Kind[o] # "noise" => b_packet[o][0] # NoPacket,
           \A k \in DOMAIN rest : Empties(rest[k]) =>
               /\ rest[k].obj \in Obj /\ rest[k].obj # o /\ ~b_queued[rest[k].obj]
               /\ b_packet[rest[k].obj][0] = NoPacket /\ o \in Downstream(rest[k].obj)
               /\ \A j \in 1 .. k - 1 : Below(rest[j], rest[k].obj)
    PROVE  OwnerRest'
<1>0. /\ TypeOK /\ StackOK /\ Registers /\ QueuedOnce /\ OwnPacket /\ RefCount
      /\ OwnerRest /\ TaskPackets /\ Exclusive /\ ResultReady /\ TypeOK' /\ RefCount'
  BY DEF OwnerInv, CountInv, OwnerRest
<1>1. /\ b_packet' \in Rows /\ OnlyOf(b_packet, b_packet', o) /\ b_packet'[o][0] = b_packet[o][0]
      /\ OnlyOf(x_packet, x_packet', o) /\ x_packet[o] = NoPacket
      /\ IF Preproc(o) THEN users'[x_packet'[o]] = 1 ELSE x_packet' = x_packet
  BY <1>0, BangData
<1>2. Exclusive'
  <2>1. \A q \in Obj : ~Releases(q, TRUE) /\ ~Releases(q, FALSE)
    <3>1. \A q, w : ~Releases(q, w)
      BY Released
    <3> QED
      BY <3>1
  <2>2. \A h \in Handle : users[h] # 0 => users'[h] <= users[h]
    BY <1>0, BangUsers
  <2>3. /\ \A q \in Obj : b_packet[q][0] \in Packet /\ x_packet[q] \in Packet
        /\ \A q \in Obj : b_packet[q][0] # NoPacket => users[b_packet[q][0]] # 0
        /\ \A q \in Obj : x_packet[q] # NoPacket => users[x_packet[q]] # 0
    BY <1>0, Handles, Holders DEF TypeOK
  <2>4. \A q \in Obj : b_packet'[q][0] = b_packet[q][0]
    BY <1>1 DEF OnlyOf
  <2>5. \A q \in Obj : b_packet[q][0] # NoPacket => users'[b_packet[q][0]] <= users[b_packet[q][0]]
    BY <2>2, <2>3 DEF Packet
  <2>6. \A q \in Obj : x_packet[q] # NoPacket => users'[x_packet[q]] <= users[x_packet[q]]
    BY <2>2, <2>3 DEF Packet
  <2>7. \A q \in Obj : x_packet'[q] # NoPacket => users'[x_packet'[q]] = 1 \/ x_packet'[q] = x_packet[q]
    BY <1>1 DEF OnlyOf
  <2> QED
    BY <1>0, <2>1, <2>4, <2>5, <2>6, <2>7, ExclusiveNext
<1>3. \A n \in DOMAIN todo : todo[n] \in Obj /\ todo[n] # o
  BY <1>0 DEF QueuedOnce, TypeOK
<1>4. \A c \in Elems(rest) : c.op # "unuse" /\ ~(c.op = "pass" /\ Kind[c.obj] = "gain")
  BY PlainElems DEF Leaves
<1>5. \A n \in Waiting : done[n] # NoObj /\ Kind[done[n]] = "gain" => done[n] \in processed
  BY <1>0 DEF ResultReady
<1>6. ASSUME NEW calls \in Seq(Call), PostCalls(calls, o), OfObject(calls, o), Discards(calls, o), stack' = calls \o rest,
             UNCHANGED <<b_queued, given, todo, done>>, processed \subseteq processed',
             o \in processed' \/ \E d \in Elems(calls) : d.op = "direct" /\ d.obj = o
      PROVE  OwnerRest'
  <2>1. Elems(stack') = Elems(calls) \union Elems(rest)
    BY <1>6, ElemsSplice
  <2>2. \A c \in Elems(calls) : c.op # "called" /\ c.op # "unuse" /\ c.obj = o
    BY <1>6 DEF PostCalls, Elems
  <2>3. SourceGone'
    <3>1. \A k \in DOMAIN rest : Empties(rest[k]) =>
            /\ rest[k].obj \in Obj /\ ~b_queued'[rest[k].obj] /\ b_packet'[rest[k].obj][0] = NoPacket
            /\ o \in Downstream(rest[k].obj) \union {rest[k].obj}
            /\ \A j \in 1 .. k - 1 : Below(rest[j], rest[k].obj)
      BY <1>1, <1>6 DEF OnlyOf
    <3>2. ~b_queued'[o]
      BY <1>6
    <3> QED
      BY <1>6, <3>1, <3>2, SourcePush
  <2>4. SendsResult'
    BY <1>4, <2>1, <2>2, SendsNext
  <2>5. TaskPackets'
    <3>1. \A n \in DOMAIN todo : b_packet'[todo[n]] = b_packet[todo[n]] /\ given'[todo[n]] = given[todo[n]]
      BY <1>1, <1>3, <1>6 DEF OnlyOf
    <3>2. \A q \in Obj : b_queued[q] /\ Kind[q] = "gain" => b_packet'[q] = b_packet[q]
      BY <1>1 DEF OnlyOf
    <3> QED
      BY <1>0, <1>6, <3>1, <3>2, TaskKept
  <2>6. ResultReady'
    <3>1. InCall' <=> InCall
      BY <2>1, <2>2, InCalls
    <3>2. Waiting' = Waiting /\ done' = done
      BY <1>6, <3>1, WaitingSame
    <3>3. \A c \in Elems(stack') : c.op = "pass" /\ Kind[c.obj] = "gain" =>
              c.obj \in processed' \/ \E d \in Elems(stack') : d.op = "direct" /\ d.obj = c.obj
      BY <1>4, <1>6, <2>1, <2>2
    <3> QED
      BY <1>5, <1>6, <3>2, <3>3, ReadyNext
  <2> QED
    BY <1>2, <2>3, <2>4, <2>5, <2>6 DEF OwnerRest
<1>7. CASE Unthreaded(o, rest)
  <2> DEFINE d == [op |-> "direct", obj |-> o]
             calls == <<d>> \o Postprocess(o)
  <2>1. calls \in Seq(Call) /\ PostCalls(calls, o)
    BY DirectPosts
  <2>2. OfObject(calls, o) /\ Discards(calls, o)
    BY PostsDiscard
  <2>3. \E c \in Elems(calls) : c.op = "direct" /\ c.obj = o
    <3>1. Postprocess(o) \in Seq(Call) /\ d \in Call
      BY Posts DEF Call
    <3>2. <<d>> \in Seq(Call) /\ Elems(<<d>>) = {d}
      BY <3>1 DEF Elems
    <3>3. Elems(calls) = Elems(<<d>>) \union Elems(Postprocess(o))
      BY <3>1, <3>2, ElemsSplice
    <3> QED
      BY <3>2, <3>3
  <2>4. stack' = calls \o rest /\ UNCHANGED <<b_queued, given, processed, todo, done>>
    BY <1>7 DEF Unthreaded
  <2> HIDE DEF calls
  <2> QED
    BY <1>6, <2>1, <2>2, <2>3, <2>4
<1>8. CASE Refused(o, rest)
  <2> DEFINE calls == Postprocess(o)
  <2>1. calls \in Seq(Call) /\ PostCalls(calls, o) /\ OfObject(calls, o) /\ Discards(calls, o)
    BY Posts, PostsDiscard
  <2>2. stack' = calls \o rest /\ UNCHANGED <<b_queued, given, todo, done>> /\ processed' = processed \union {o}
    BY <1>8 DEF Refused
  <2> HIDE DEF calls
  <2> QED
    BY <1>6, <2>1, <2>2
<1>9. CASE Added(o, rest)
  <2>1. /\ todo' = Append(todo, o)
        /\ b_queued' = [b_queued EXCEPT ![o] = TRUE] /\ given' = [given EXCEPT ![o] = b_packet'[o]]
        /\ stack' = rest /\ done' = done /\ processed' = processed
    BY <1>9 DEF Added
  <2>2. \A q \in Obj : q # o => b_queued'[q] = b_queued[q] /\ given'[q] = given[q]
    BY <1>0, <2>1 DEF TypeOK
  <2>3. given'[o] = b_packet'[o]
    BY <1>0, <2>1 DEF TypeOK
  <2>4. \A n \in DOMAIN todo' : (n \in DOMAIN todo /\ todo'[n] = todo[n]) \/ todo'[n] = o
    <3> TAKE n \in DOMAIN todo'
    <3> DEFINE l == Len(todo)
    <3>1. l \in Nat /\ DOMAIN todo = 1 .. l /\ n \in 1 .. l + 1 /\ todo'[l + 1] = o /\ \A k \in 1 .. l : todo'[k] = todo[k]
      BY <1>0, <2>1 DEF TypeOK
    <3> HIDE DEF l
    <3>2. n \in 1 .. l \/ n = l + 1
      BY <3>1
    <3> QED
      BY <3>1, <3>2
  <2>5. SourceGone'
    <3>1. \A k \in DOMAIN rest : Empties(rest[k]) =>
            /\ rest[k].obj \in Obj /\ ~b_queued'[rest[k].obj] /\ b_packet'[rest[k].obj][0] = NoPacket
            /\ o \in Downstream(rest[k].obj) \union {rest[k].obj}
            /\ \A j \in 1 .. k - 1 : Below(rest[j], rest[k].obj)
      BY <1>1, <2>2 DEF OnlyOf
    <3>2. <<>> \in Seq(Call)
      OBVIOUS
    <3>3. OfObject(<<>>, o) /\ Discards(<<>>, o) /\ \A k \in DOMAIN <<>> : Empties(<<>>[k]) => ~b_queued'[o]
      BY DEF OfObject, Discards
    <3>4. stack' = <<>> \o rest
      BY <2>1
    <3> QED
      BY <3>1, <3>2, <3>3, <3>4, SourcePush
  <2>6. SendsResult'
    BY <1>4, <2>1, SendsNext
  <2>7. TaskPackets'
    <3>1. ASSUME NEW n \in DOMAIN todo'
          PROVE  b_packet'[todo'[n]] = given'[todo'[n]] /\ (Kind[todo'[n]] # "noise" => b_packet'[todo'[n]][0] # NoPacket)
      <4>1. CASE todo'[n] = o
        BY <1>1, <2>3, <4>1
      <4>2. CASE n \in DOMAIN todo /\ todo'[n] = todo[n]
        <5>1. b_packet[todo[n]] = given[todo[n]] /\ (Kind[todo[n]] # "noise" => b_packet[todo[n]][0] # NoPacket)
          BY <1>0, <4>2 DEF TaskPackets, TaskOwnsPackets
        <5>2. b_packet'[todo[n]] = b_packet[todo[n]] /\ given'[todo[n]] = given[todo[n]]
          BY <1>1, <1>3, <2>2, <4>2 DEF OnlyOf
        <5> QED
          BY <4>2, <5>1, <5>2
      <4> QED
        BY <2>4, <4>1, <4>2
    <3>2. ASSUME NEW q \in Obj, b_queued'[q], Kind[q] = "gain" PROVE b_packet'[q][0] # NoPacket
      <4>1. CASE q = o
        BY <1>1, <3>2, <4>1
      <4>2. CASE q # o
        BY <1>0, <1>1, <2>2, <3>2, <4>2 DEF OnlyOf, TaskPackets
      <4> QED
        BY <4>1, <4>2
    <3> QED
      BY <3>1, <3>2 DEF TaskPackets, TaskOwnsPackets
  <2>8. ResultReady'
    <3>1. InCall' <=> InCall
      BY <2>1, InCalls
    <3>2. Waiting' = Waiting /\ done' = done
      BY <2>1, <3>1, WaitingSame
    <3> QED
      BY <1>4, <1>5, <2>1, <3>2, ReadyNext
  <2> QED
    BY <1>2, <2>5, <2>6, <2>7, <2>8 DEF OwnerRest
<1> QED
  BY <1>7, <1>8, <1>9, BangWays

LEMMA StutterOwner ==
    ASSUME OwnerRest, UNCHANGED <<b_packet, b_queued, x_packet, users, stack, todo, done, given, processed>>
    PROVE  OwnerRest'
<1>0. SourceGone /\ SendsResult /\ TaskPackets /\ Exclusive /\ ResultReady
  BY DEF OwnerRest
<1>1. SourceGone'
  BY <1>0 DEF SourceGone, Empties, Below
<1>2. SendsResult' /\ TaskPackets'
  BY <1>0 DEF SendsResult, Leaves, TaskPackets, TaskOwnsPackets
<1>3. Exclusive'
  BY <1>0 DEF Exclusive, Releases
<1>4. ResultReady'
  BY <1>0 DEF ResultReady, Waiting, InCall
<1> QED
  BY <1>1, <1>2, <1>3, <1>4 DEF OwnerRest

LEMMA ProcessOwner ==
    ASSUME NoFeedback, OwnerInv, CountInv', HotProcess
    PROVE  OwnerRest'
<1> DEFINE rest == Tail(stack)
<1>0. TypeOK /\ StackOK /\ OwnerRest /\ SourceGone
  BY DEF OwnerInv, CountInv, OwnerRest
<1>1. stack # <<>> /\ Top.op = "process" /\ Top.inlet = 0 /\ ~Leaves(Top)
  BY DEF HotProcess, Do, Leaves
<1>2. PICK o \in Obj : Top.obj = o
  BY <1>0, <1>1, Popped, CallFields
<1>3. rest \in Seq(Call) /\ Plain(rest) /\ Elems(stack) = {Top} \union Elems(rest)
  BY <1>0, <1>1, PlainTail, Popped, ElemsTail
<1>4. CASE Disabled(o) \/ b_packet[o][0] = NoPacket \/ b_queued[o]
  <2>1. stack' = Tail(stack) /\ UNCHANGED <<b_packet, b_queued, x_packet, users, given, processed, todo, done>>
    BY <1>2, <1>4 DEF HotProcess, Return, Unqueued, object
  <2> QED
    BY <1>0, <1>1, <2>1, OwnerPop
<1>5. CASE ~(Disabled(o) \/ b_packet[o][0] = NoPacket \/ b_queued[o])
  <2>1. pdp_base_bang(o, rest) /\ b_packet[o][0] # NoPacket /\ ~b_queued[o]
    BY <1>2, <1>5 DEF HotProcess
  <2>2. InCall <=> \E c \in Elems(rest) : c.op = "called"
    BY <1>1, <1>3, InCalls
  <2>3. \A q \in Obj : ~Leaving(q)
    BY <1>1, <1>3, Leavings, PlainElems
  <2>4. \A c \in Elems(stack) : c.op # "unuse"
    BY <1>0, <1>1, NoReleases
  <2>5. ASSUME NEW k \in DOMAIN rest, Empties(rest[k])
        PROVE  /\ rest[k].obj \in Obj /\ rest[k].obj # o /\ ~b_queued[rest[k].obj]
               /\ b_packet[rest[k].obj][0] = NoPacket /\ o \in Downstream(rest[k].obj)
               /\ \A j \in 1 .. k - 1 : Below(rest[j], rest[k].obj)
    <3> DEFINE z == rest[k].obj
    <3>1. /\ z \in Obj /\ Kind[z] = "zoom" /\ ~b_queued[z] /\ Below(Top, z)
          /\ \A j \in 1 .. k - 1 : Below(rest[j], z)
          /\ \/ b_packet[z][0] = NoPacket
             \/ Top.op = "discard" /\ Top.obj = z
             \/ \E j \in 1 .. k - 1 : rest[j].op = "discard" /\ rest[j].obj = z
      BY <1>0, <1>1, <2>5, SourceTail
    <3>2. \A j \in 1 .. k - 1 : rest[j].op # "discard"
      <4>1. \A j \in 1 .. k - 1 : j \in DOMAIN rest
        BY <1>0, <1>1, Popped
      <4> QED
        BY <1>3, <4>1 DEF Plain
    <3>3. o \in Downstream(z)
      BY <1>1, <1>2, <3>1 DEF Below
    <3>4. z # o
      BY <3>1, <3>3 DEF NoFeedback
    <3> HIDE DEF z, rest
    <3> QED
      BY <1>1, <3>1, <3>2, <3>3, <3>4 DEF z
  <2> HIDE DEF rest
  <2> QED
    BY <1>3, <2>1, <2>2, <2>3, <2>4, <2>5, BangOwner
<1> QED
  BY <1>4, <1>5

LEMMA GeneratorOwner ==
    ASSUME OwnerInv, CountInv', NEW o \in Obj, BangGenerator(o)
    PROVE  OwnerRest'
<1>1. stack = <<>> /\ pdp_base_bang(o, stack) /\ Kind[o] = "noise"
  BY DEF BangGenerator
<1>2. CASE b_queued[o]
  <2>1. UNCHANGED <<b_packet, b_queued, x_packet, users, stack, todo, done, given, processed>>
    BY <1>1, <1>2 DEF pdp_base_bang, object, Unqueued
  <2>2. OwnerRest
    BY DEF OwnerInv, OwnerRest
  <2> QED
    BY <2>1, <2>2, StutterOwner
<1>3. CASE ~b_queued[o]
  <2>1. /\ stack \in Seq(Call) /\ Plain(stack) /\ \A q \in Obj : ~Leaving(q)
        /\ InCall <=> \E c \in Elems(stack) : c.op = "called"
        /\ \A c \in Elems(stack) : c.op # "unuse"
    BY <1>1, Idle
  <2>2. DOMAIN stack = {}
    BY <1>1
  <2>3. pdp_base_bang(o, stack) /\ Kind[o] = "noise"
    BY <1>1
  <2> QED
    BY <1>3, <2>1, <2>2, <2>3, BangOwner
<1> QED
  BY <1>2, <1>3

(* Steps that leave the packets where they are while nothing is sent. *)
LEMMA OwnerQuiet ==
    ASSUME TaskPackets, Exclusive, UNCHANGED <<b_packet, x_packet, users, given, todo>>,
           \A q \in Obj : b_queued'[q] => b_queued[q], \A c \in Elems(stack) : c.op # "unuse"
    PROVE  TaskPackets' /\ Exclusive'
<1>1. TaskPackets'
  BY DEF TaskPackets, TaskOwnsPackets
<1>2. \A q \in Obj, w \in BOOLEAN : ~Releases(q, w)
  BY Released
<1>3. Exclusive'
  BY <1>2, ExclusiveSame
<1> QED
  BY <1>1, <1>3

LEMMA StartTickOwner ==
    ASSUME OwnerInv, CountInv', pdp_procqueue_tick
    PROVE  OwnerRest'
<1> DEFINE s == <<[op |-> "tick"]>>
<1>0. SourceGone /\ SendsResult /\ TaskPackets /\ Exclusive /\ ResultReady
  BY DEF OwnerInv
<1>1. stack = <<>> /\ stack' = s /\ UNCHANGED <<b_packet, b_queued, x_packet, users, todo, done, given, processed>>
  BY DEF pdp_procqueue_tick, Unqueued, object
<1>2. DOMAIN s = 1 .. 1 /\ s[1].op = "tick"
  OBVIOUS
<1> HIDE DEF s
<1>3. \A k \in DOMAIN s : s[k].op = "tick"
  BY <1>2
<1>4. \A c \in Elems(stack') : c.op = "tick"
  BY <1>1, <1>3 DEF Elems
<1>5. ~InCall /\ Elems(stack) = {} /\ ~InCall'
  BY <1>1, <1>4, Idle, InCalls
<1>6. SourceGone'
  BY <1>1, <1>3 DEF SourceGone, Empties
<1>7. SendsResult'
  BY <1>4, SendsNext
<1>8. TaskPackets' /\ Exclusive'
  BY <1>0, <1>1, <1>5, OwnerQuiet
<1>9. ResultReady'
  <2>1. Waiting' = Waiting
    BY <1>1, <1>5, WaitingSame
  <2>2. \A n \in Waiting : done[n] # NoObj /\ Kind[done[n]] = "gain" => done[n] \in processed
    BY <1>0 DEF ResultReady
  <2>3. UNCHANGED <<done, processed>>
    BY <1>1
  <2> QED
    BY <1>4, <2>1, <2>2, <2>3, ReadyNext
<1> QED
  BY <1>6, <1>7, <1>8, <1>9 DEF OwnerRest

LEMMA TickOwner ==
    ASSUME OwnerInv, CountInv', Tick
    PROVE  OwnerRest'
<1> DEFINE rest == Tail(stack)
<1>0. /\ TypeOK /\ StackOK /\ QueuedOnce
      /\ OwnerRest /\ SourceGone /\ SendsResult /\ TaskPackets /\ Exclusive /\ ResultReady
  BY DEF OwnerInv, CountInv, OwnerRest
<1>1. stack # <<>> /\ Top.op = "tick" /\ Top.op # "called"
      /\ UNCHANGED <<b_packet, x_packet, users, given, processed, todo, done>>
  BY DEF Tick, Do, Unqueued
<1>2. rest = <<>> /\ rest \in Seq(Call)
  <2>1. Len(stack) = 1
    BY <1>0, <1>1, Popped DEF StackOK, Ticking
  <2>2. Len(rest) = 0 /\ rest \in Seq(Call)
    BY <1>0, <1>1, <2>1, Popped
  <2> HIDE DEF rest
  <2> QED
    BY <2>2
<1>3. Elems(stack) = {Top} /\ ~InCall /\ \A c \in Elems(stack) : c.op # "unuse"
  <2>1. Elems(stack) = {Top}
    BY <1>0, <1>1, <1>2, ElemsTail, ElemsEmpty
  <2> QED
    BY <1>1, <2>1, InCalls
<1>4. CASE done = <<>>
  <2>1. stack' = Tail(stack) /\ b_queued' = b_queued
    BY <1>4 DEF Tick, Return
  <2> QED
    BY <1>0, <1>1, <2>1, OwnerPop
<1>5. CASE done # <<>>
  <2>1. 1 \in DOMAIN done /\ Head(done) = done[1] /\ done[1] \in Obj \union {NoObj} /\ DOMAIN done \subseteq Nat
    BY <1>0, <1>5 DEF TypeOK
  <2>2. Waiting = DOMAIN done
    BY <1>3 DEF Waiting
  <2>3. \A n \in Waiting : done[n] # NoObj /\ Kind[done[n]] = "gain" => done[n] \in processed
    BY <1>0 DEF ResultReady
  <2>4. \A n \in Waiting' : n \in Waiting
    BY <1>1, <2>2 DEF Waiting
  <2>5. ASSUME NEW o \in Obj, NEW calls \in Seq(Call), OfObject(calls, o), Discards(calls, o),
               \A k \in DOMAIN calls : calls[k].op \in {"direct", "discard", "pass"} /\ calls[k].obj = o
                                       /\ (Kind[o] = "gain" => o \in processed) /\ ~b_queued'[o],
               stack' = calls \o Callback, \A q \in Obj : b_queued'[q] => b_queued[q]
        PROVE  OwnerRest'
    <3>1. \A k \in DOMAIN Callback : ~Empties(Callback[k])
      BY Callbacks DEF Empties, Elems
    <3>2. SourceGone'
      BY <2>5, <3>1, Callbacks, SourcePush
    <3>3. Elems(stack') = Elems(calls) \union Elems(Callback)
      BY <2>5, Callbacks, ElemsSplice
    <3>4. \A c \in Elems(calls) : c.op # "unuse" /\ c.obj = o /\ (Kind[o] = "gain" => o \in processed)
      BY <2>5 DEF Elems
    <3>5. SendsResult'
      BY <3>3, <3>4, Callbacks, SendsNext
    <3>6. TaskPackets' /\ Exclusive'
      BY <1>0, <1>1, <1>3, <2>5, OwnerQuiet
    <3>7. ResultReady'
      <4>1. UNCHANGED <<done, processed>>
        BY <1>1
      <4>2. \A c \in Elems(stack') : c.op = "pass" /\ Kind[c.obj] = "gain" => c.obj \in processed
        BY <3>3, <3>4, Callbacks
      <4> QED
        BY <2>3, <2>4, <4>1, <4>2, ReadyNext
    <3> QED
      BY <3>2, <3>5, <3>6, <3>7 DEF OwnerRest
  <2>6. CASE done[1] = NoObj
    <3>1. stack' = Callback \o rest /\ b_queued' = b_queued
      BY <1>5, <2>1, <2>6 DEF Tick, Run, Callback
    <3> HIDE DEF rest
    <3>2. stack' = Callback
      BY <1>2, <3>1, Callbacks
    <3>3. SourceGone' /\ SendsResult'
      BY <3>2, Callbacks DEF SourceGone, SendsResult, Empties, Elems
    <3>4. TaskPackets' /\ Exclusive'
      BY <1>0, <1>1, <1>3, <3>1, OwnerQuiet
    <3>5. ResultReady'
      <4>1. UNCHANGED <<done, processed>>
        BY <1>1
      <4> QED
        BY <2>3, <2>4, <3>2, <4>1, Callbacks, ReadyNext
    <3> QED
      BY <3>3, <3>4, <3>5 DEF OwnerRest
  <2>7. CASE done[1] # NoObj
    <3> DEFINE o == done[1]
               post == Postprocess(o)
    <3>1. o \in Obj
      BY <2>1, <2>7
    <3>2. stack' = post \o Callback /\ b_queued' = [b_queued EXCEPT ![o] = FALSE]
      <4>1. stack' = (post \o Callback) \o rest /\ b_queued' = [b_queued EXCEPT ![o] = FALSE]
        BY <1>5, <2>1, <2>7 DEF Tick, Run, Callback
      <4>2. post \in Seq(Call) /\ post \o Callback \in Seq(Call)
        BY <3>1, Posts, Callbacks
      <4> HIDE DEF post, rest
      <4>3. \A s \in Seq(Call) : s \o rest = s
        BY <1>2
      <4> QED
        BY <4>1, <4>2, <4>3
    <3>3. post \in Seq(Call) /\ PostCalls(post, o) /\ OfObject(post, o) /\ Discards(post, o)
      BY <3>1, Posts, PostsDiscard
    <3>4. Kind[o] = "gain" => o \in processed
      BY <2>1, <2>2, <2>3, <2>7
    <3> HIDE DEF post, o
    <3>5. ~b_queued'[o] /\ \A q \in Obj : b_queued'[q] => b_queued[q]
      BY <1>0, <3>1, <3>2 DEF TypeOK
    <3>6. \A k \in DOMAIN post : post[k].op \in {"direct", "discard", "pass"} /\ post[k].obj = o
                                 /\ (Kind[o] = "gain" => o \in processed) /\ ~b_queued'[o]
      BY <3>3, <3>4, <3>5 DEF PostCalls
    <3>7. stack' = post \o Callback
      BY <3>2
    <3> QED
      BY <2>5, <3>1, <3>3, <3>5, <3>6, <3>7
  <2> QED
    BY <2>6, <2>7
<1> QED
  BY <1>4, <1>5

LEMMA CalledOwner ==
    ASSUME OwnerInv, CountInv', Called
    PROVE  OwnerRest'
<1>0. /\ TypeOK /\ StackOK
      /\ OwnerRest /\ SourceGone /\ SendsResult /\ TaskPackets /\ Exclusive /\ ResultReady
  BY DEF OwnerInv, CountInv, OwnerRest
<1>1. stack # <<>> /\ Top.op = "called" /\ done # <<>> /\ done' = Tail(done) /\ stack' = Tail(stack)
      /\ UNCHANGED <<b_packet, b_queued, x_packet, users, given, processed, todo>>
  BY DEF Called, Do, Return, Q!CallBack, object
<1>2. Elems(stack) = {Top} \union Elems(stack') /\ \A c \in Elems(stack) : c.op # "unuse"
  BY <1>0, <1>1, ElemsTail, NoReleases
<1>3. \A n \in DOMAIN done' : n + 1 \in DOMAIN done /\ n + 1 > 1 /\ done'[n] = done[n + 1]
  BY <1>0, <1>1 DEF TypeOK
<1>4. SourceGone'
  BY <1>0, <1>1, SourcePop
<1>5. SendsResult'
  BY <1>2, SendsNext
<1>6. TaskPackets' /\ Exclusive'
  BY <1>0, <1>1, <1>2, OwnerQuiet
<1>7. ResultReady'
  <2>1. \A n \in Waiting' : n + 1 \in Waiting /\ done'[n] = done[n + 1]
    BY <1>3 DEF Waiting
  <2>2. \A n \in Waiting : done[n] # NoObj /\ Kind[done[n]] = "gain" => done[n] \in processed
    BY <1>0 DEF ResultReady
  <2>3. \A c \in Elems(stack') : ~(c.op = "pass" /\ Kind[c.obj] = "gain")
    BY <1>0, <1>1, NoLeavingPass DEF Leaves
  <2>4. processed' = processed
    BY <1>1
  <2> QED
    BY <2>1, <2>2, <2>3, <2>4, ReadyNext
<1> QED
  BY <1>4, <1>5, <1>6, <1>7 DEF OwnerRest

LEMMA FreeOwner ==
    ASSUME OwnerInv, CountInv', NEW o \in Obj, pdp_base_free(o)
    PROVE  OwnerRest'
<1>0. /\ TypeOK /\ StackOK /\ QueuedOnce /\ RefCount /\ TypeOK' /\ RefCount'
      /\ SourceGone /\ SendsResult /\ TaskPackets /\ Exclusive /\ ResultReady
  BY DEF OwnerInv, CountInv
<1>1. /\ stack = <<>> /\ (b_queued[o] => todo = <<>>)
      /\ done' = [n \in DOMAIN done |-> IF done[n] = o THEN NoObj ELSE done[n]]
      /\ users' = [h \in Handle |-> users[h] - Held(o, h)]
      /\ UNCHANGED <<stack, todo, given, processed>>
  BY DEF pdp_base_free
<1>2. /\ b_packet'[o][0] = NoPacket /\ \A q \in Obj : q # o => b_packet'[q] = b_packet[q]
      /\ x_packet'[o] = NoPacket /\ \A q \in Obj : q # o => x_packet'[q] = x_packet[q]
      /\ ~b_queued'[o] /\ \A q \in Obj : q # o => b_queued'[q] = b_queued[q]
  BY <1>0, Handles DEF pdp_base_free, TypeOK, NoPackets
<1>3. DOMAIN stack' = {} /\ Elems(stack') = {} /\ Elems(stack) = {} /\ ~InCall /\ ~InCall'
  BY <1>1, Idle, ElemsEmpty, InCalls
<1>4. SourceGone' /\ SendsResult'
  BY <1>3 DEF SourceGone, SendsResult
<1>5. TaskPackets'
  <2>1. \A n \in DOMAIN todo : todo[n] # o /\ todo[n] \in Obj
    <3> SUFFICES ASSUME NEW n \in DOMAIN todo PROVE todo[n] # o /\ todo[n] \in Obj
      OBVIOUS
    <3>1. todo # <<>> /\ b_queued[todo[n]] /\ todo[n] \in Obj
      BY <1>0 DEF QueuedOnce, TypeOK
    <3> QED
      BY <1>1, <3>1
  <2>2. \A n \in DOMAIN todo : /\ b_packet'[todo[n]] = given[todo[n]]
                               /\ Kind[todo[n]] # "noise" => b_packet'[todo[n]][0] # NoPacket
    BY <1>0, <1>2, <2>1 DEF TaskPackets, TaskOwnsPackets
  <2>3. \A q \in Obj : b_queued'[q] /\ Kind[q] = "gain" => b_packet'[q][0] # NoPacket
    BY <1>0, <1>2 DEF TaskPackets
  <2>4. UNCHANGED <<todo, given>>
    BY <1>1
  <2> QED
    BY <2>2, <2>3, <2>4 DEF TaskPackets, TaskOwnsPackets
<1>6. Exclusive'
  <2>1. \A h \in Handle : users'[h] <= users[h]
    <3> TAKE h \in Handle
    <3>1. Held(o, h) \in Nat /\ users[h] \in Nat
      <4>1. Row(b_packet[o], h) \in Nat /\ Row(b_packet_next[o], h) \in Nat
        BY Finite
      <4>2. Held(o, h) = Row(b_packet[o], h) + Row(b_packet_next[o], h) + (IF x_packet[o] = h THEN 1 ELSE 0)
        BY DEF Held, Row
      <4>3. users[h] \in Nat
        BY <1>0 DEF TypeOK
      <4> QED
        BY <4>1, <4>2, <4>3
    <3>2. users'[h] = users[h] - Held(o, h)
      BY <1>1
    <3> QED
      BY <3>1, <3>2
  <2>2. \A q \in Obj : ~Releases(q, TRUE) /\ ~Releases(q, FALSE)
    <3>1. \A q, w : ~Releases(q, w)
      BY <1>3, Released
    <3> QED
      BY <3>1
  <2>3. \A q \in Obj : b_packet'[q][0] # NoPacket => b_packet'[q][0] = b_packet[q][0]
    BY <1>2
  <2>4. \A q \in Obj : x_packet'[q] # NoPacket => x_packet'[q] = x_packet[q]
    BY <1>2
  <2>5. \A q \in Obj : b_packet[q][0] \in Packet /\ x_packet[q] \in Packet
    BY <1>0, Handles DEF TypeOK
  <2>6. \A q \in Obj : b_packet[q][0] # NoPacket => users'[b_packet[q][0]] <= users[b_packet[q][0]]
    BY <2>1, <2>5 DEF Packet
  <2>7. \A q \in Obj : x_packet[q] # NoPacket => users'[x_packet[q]] <= users[x_packet[q]]
    BY <2>1, <2>5 DEF Packet
  <2> QED
    BY <1>0, <2>2, <2>3, <2>4, <2>6, <2>7, ExclusiveNext
<1>7. ResultReady'
  <2>1. \A n \in Waiting' : n \in Waiting /\ (done'[n] = NoObj \/ done'[n] = done[n])
    BY <1>1, <1>3 DEF Waiting
  <2>2. \A n \in Waiting : done[n] # NoObj /\ Kind[done[n]] = "gain" => done[n] \in processed
    BY <1>0 DEF ResultReady
  <2>3. processed' = processed
    BY <1>1
  <2> QED
    BY <1>3, <2>1, <2>2, <2>3, ReadyNext
<1> QED
  BY <1>4, <1>5, <1>6, <1>7 DEF OwnerRest

LEMMA OwnerInvNext == NoFeedback /\ OwnerInv /\ [Next]_vars => OwnerInv'
<1> SUFFICES ASSUME NoFeedback, OwnerInv, [Next]_vars PROVE OwnerInv'
  OBVIOUS
<1>0. CountInv /\ OwnerRest
  BY DEF OwnerInv, OwnerRest
<1>1. CountInv'
  BY <1>0, CountInvNext
<1>2. OwnerRest'
  <2>1. CASE Dispatch
    BY <1>1, <2>1, PassOwner, UnuseOwner, DiscardOwner, DirectOwner, RegisterOwner, ProcessOwner, ColdOwner, TickOwner, CalledOwner
       DEF Dispatch
  <2>2. CASE Thread
    BY <1>1, <2>2, ThreadOwner
  <2>3. CASE pdp_procqueue_tick
    BY <1>1, <2>3, StartTickOwner
  <2>4. ASSUME NEW o \in Obj, pdp_base_thread(o) PROVE OwnerRest'
    <3>1. UNCHANGED <<b_packet, b_queued, x_packet, users, stack, todo, done, given, processed>>
      BY <2>4 DEF pdp_base_thread, Unqueued
    <3> QED
      BY <1>0, <3>1, StutterOwner
  <2>5. CASE UNCHANGED vars
    <3>1. UNCHANGED <<b_packet, b_queued, x_packet, users, stack, todo, done, given, processed>>
      BY <2>5 DEF vars, object
    <3> QED
      BY <1>0, <3>1, StutterOwner
  <2> QED
    BY <1>1, <2>1, <2>2, <2>3, <2>4, <2>5, GeneratorOwner, FreeOwner DEF Next
<1> QED
  BY <1>1, <1>2 DEF OwnerInv, OwnerRest

LEMMA OwnerInvInit == Init => OwnerInv
<1> SUFFICES ASSUME Init PROVE OwnerInv
  OBVIOUS
<1>1. /\ b_packet = [q \in Obj |-> NoPackets] /\ b_queued = [q \in Obj |-> FALSE]
      /\ x_packet = [q \in Obj |-> NoPacket] /\ stack = <<>> /\ todo = <<>> /\ done = <<>>
  BY DEF Init, Q!TaskQueueInit
<1>2. CountInv
  BY CountInvInit
<1>3. SourceGone /\ SendsResult /\ TaskPackets /\ ResultReady
  BY <1>1 DEF SourceGone, SendsResult, TaskPackets, TaskOwnsPackets, ResultReady, Waiting
<1>4. Exclusive
  <2>1. \A q \in Obj : b_packet[q][0] = NoPacket /\ x_packet[q] = NoPacket
    BY <1>1, Handles DEF NoPackets
  <2> QED
    BY <2>1 DEF Exclusive
<1> QED
  BY <1>2, <1>3, <1>4 DEF OwnerInv

LEMMA OwnerInvAlways == NoFeedback => (Spec => []OwnerInv)
<1> SUFFICES ASSUME NoFeedback PROVE Spec => []OwnerInv
  OBVIOUS
<1>1. OwnerInv /\ [Next]_vars => OwnerInv'
  BY OwnerInvNext
<1> QED
  BY <1>1, OwnerInvInit, PTL DEF Spec

(* In a patch where no zoom is reached from its own outlet through hot     *)
(* inlets: the packet of a register message is still referenced when the   *)
(* message is received, a task in the queue keeps the packets it was       *)
(* banged with, and the packet a process method writes has no other        *)
(* reader, whatever the interleaving of the two threads.                   *)
THEOREM PacketsAreOwned == NoFeedback => (Spec => []PacketsOwned)
<1> SUFFICES ASSUME NoFeedback PROVE Spec => []PacketsOwned
  OBVIOUS
<1>1. OwnerInv => PacketsOwned
  <2> SUFFICES ASSUME OwnerInv PROVE PacketsOwned
    OBVIOUS
  <2>0. CountInv /\ TypeOK /\ StackOK /\ QueuedOnce /\ TaskPackets /\ Exclusive
    BY DEF OwnerInv, CountInv
  <2>1. MessageReferenced
    BY <2>0, Referenced
  <2>2. TaskOwnsPackets
    BY <2>0 DEF TaskPackets
  <2>3. WriteExclusive
    <3> SUFFICES ASSUME NEW n \in DOMAIN todo, NEW p \in Written(todo[n]) \ {NoPacket} PROVE users[p] = 1
      BY DEF WriteExclusive
    <3>1. PICK o \in Obj : todo[n] = o /\ b_queued[o]
      BY <2>0 DEF TypeOK, QueuedOnce
    <3>2. CASE Kind[o] = "gain"
      <4>1. p = b_packet[o][0] /\ p # NoPacket
        BY <3>1, <3>2 DEF Written
      <4>2. ~Releases(o, FALSE)
        BY <2>0, <3>1, <3>2 DEF Releases, StackOK, Unqueues, Leaves
      <4> QED
        BY <2>0, <3>2, <4>1, <4>2 DEF Exclusive
    <3>3. CASE Kind[o] = "zoom"
      <4>1. p = x_packet[o] /\ p # NoPacket
        BY <3>1, <3>3 DEF Written
      <4>2. ~Releases(o, TRUE)
        BY <2>0, <3>1 DEF Releases, StackOK, Unqueues, Leaves
      <4> QED
        BY <2>0, <4>1, <4>2 DEF Exclusive
    <3>4. CASE Kind[o] \notin {"gain", "zoom"}
      BY <3>1, <3>4 DEF Written
    <3> QED
      BY <3>2, <3>3, <3>4
  <2> QED
    BY <2>0, <2>1, <2>2, <2>3 DEF PacketsOwned
<1> QED
  BY <1>1, OwnerInvAlways, PTL

(* In such a patch what leaves the outlet of the base class of a           *)
(* generator, a filter or a zoom is the result of its process method, or   *)
(* the packet that the full queue refused to process; a source that waits  *)
(* in the register never passes in place of the result.                    *)
THEOREM ResultsPass == NoFeedback => (Spec => []PassedProcessed)
<1> SUFFICES ASSUME NoFeedback PROVE Spec => []PassedProcessed
  OBVIOUS
<1>1. OwnerInv => PassedProcessed
  <2> SUFFICES ASSUME OwnerInv, NEW o \in Obj, Kind[o] # "mat", Do("pass"), ~Top.own, Top.obj = o, b_packet[o][0] # NoPacket
               PROVE  o \in processed
    BY DEF PassedProcessed, OutputProcessed
  <2>0. TypeOK /\ StackOK /\ Registers /\ SourceGone /\ ResultReady /\ stack # <<>> /\ Top.op = "pass"
    BY DEF OwnerInv, CountInv, Do
  <2>1. 1 \in DOMAIN stack /\ stack[1] = Top
    BY <2>0, Popped
  <2>2. Kind[o] # "noise"
    BY <2>0 DEF Registers
  <2>3. Kind[o] # "zoom"
    <3> SUFFICES ASSUME Kind[o] = "zoom" PROVE FALSE
      OBVIOUS
    <3>1. Empties(stack[1]) /\ \A j \in 1 .. 1 - 1 : FALSE
      BY <2>0, <2>1 DEF Empties
    <3> QED
      BY <2>0, <2>1, <3>1 DEF SourceGone
  <2>4. Kind[o] = "gain"
    BY <2>2, <2>3, PatchAssumption
  <2>5. o \in processed \/ \E j \in DOMAIN stack : stack[j].op = "direct" /\ stack[j].obj = o
    BY <2>0, <2>1, <2>4 DEF ResultReady
  <2>6. \A j \in DOMAIN stack : stack[j].op # "direct"
    <3>1. \A j \in DOMAIN stack : stack[j].op = "direct" => j = 1
      BY <2>0 DEF StackOK, Together
    <3> QED
      BY <2>0, <2>1, <3>1
  <2> QED
    BY <2>5, <2>6
<1> QED
  BY <1>1, OwnerInvAlways, PTL
=============================================================================
