--------------------------- MODULE Objects_proofs ---------------------------
(***************************************************************************)
(* What the objects that run in the pd thread keep for every size, every   *)
(* number of packets and every message sent from inside an outlet call.    *)
(***************************************************************************)
EXTENDS FrameObjects, PatchObjects, Display, Scanners, ColorConvert, RingArithmetic, SequenceTheorems, FiniteSetTheorems, TLAPS

-----------------------------------------------------------------------------
(* How often a packet is in an array. *)
Is(a, p) == IF a = p THEN 1 ELSE 0

LEMMA TimesType ==
    ASSUME NEW n \in Nat, NEW f, DOMAIN f \subseteq 0..n, NEW p
    PROVE  Times(f, p) \in Nat /\ IsFiniteSet({i \in DOMAIN f : f[i] = p})
           /\ (Times(f, p) = 0 <=> \A i \in DOMAIN f : f[i] # p)
<1> DEFINE S == {i \in DOMAIN f : f[i] = p}
<1>1. IsFiniteSet(0..n)  BY FS_Interval
<1>2. S \in SUBSET (0..n)  OBVIOUS
<1>3. IsFiniteSet(S)  BY <1>1, <1>2, FS_Subset
<1>4. Cardinality(S) \in Nat /\ (Cardinality(S) = 0 <=> S = {})  BY <1>3, FS_CardinalityType, FS_EmptySet
<1>. QED  BY <1>3, <1>4 DEF Times

LEMMA TimesNone ==
    ASSUME NEW p
    PROVE  Times(<<>>, p) = 0
<1>1. {i \in DOMAIN <<>> : <<>>[i] = p} = {}  OBVIOUS
<1>. QED  BY <1>1, FS_EmptySet DEF Times

LEMMA TimesOne ==
    ASSUME NEW a, NEW p
    PROVE  Times(<<a>>, p) = Is(a, p)
<1>1. {i \in DOMAIN <<a>> : <<a>>[i] = p} = IF a = p THEN {1} ELSE {}  OBVIOUS
<1>3. Cardinality({}) = 0 /\ Cardinality({1}) = 1  BY FS_EmptySet, FS_Singleton
<1>4. CASE a = p  BY <1>1, <1>3, <1>4 DEF Times, Is
<1>5. CASE a # p  BY <1>1, <1>3, <1>5 DEF Times, Is
<1>. QED  BY <1>4, <1>5

LEMMA TimesStored ==
    ASSUME NEW n \in Nat, NEW f, DOMAIN f = Slots(n), NEW j \in Slots(n), NEW q, NEW p,
           NEW g, DOMAIN g = Slots(n), \A k \in Slots(n) : g[k] = IF k = j THEN q ELSE f[k]
    PROVE  Times(g, p) = Times(f, p) - Is(f[j], p) + Is(q, p)
<1> DEFINE S == {i \in DOMAIN f : f[i] = p}
           T == {i \in DOMAIN g : g[i] = p}
<1>0. IsFiniteSet(S) /\ Cardinality(S) \in Nat
  <2>1. DOMAIN f \subseteq 0..n  BY DEF Slots
  <2>2. IsFiniteSet(S)  BY <2>1, TimesType
  <2> HIDE DEF S
  <2>. QED  BY <2>2, FS_CardinalityType
<1>1. IsFiniteSet(S \ {j}) /\ Cardinality(S \ {j}) = Cardinality(S) - Is(f[j], p)
  <2>1. j \in S <=> f[j] = p  OBVIOUS
  <2> HIDE DEF S
  <2>. QED  BY <1>0, <2>1, FS_RemoveElement DEF Is
<1>2. T = IF q = p THEN (S \ {j}) \cup {j} ELSE S \ {j}  OBVIOUS
<1>3. Cardinality(T) = Cardinality(S \ {j}) + Is(q, p)
  <2>1. j \notin S \ {j}  OBVIOUS
  <2> DEFINE R == S \ {j}
  <2> HIDE DEF R, T
  <2>2. CASE q = p
    <3>1. T = R \cup {j}  BY <1>2, <2>2 DEF R
    <3>2. Cardinality(R \cup {j}) = Cardinality(R) + 1  BY <1>1, <2>1, FS_AddElement DEF R
    <3>. QED  BY <2>2, <3>1, <3>2 DEF Is, R
  <2>3. CASE q # p
    <3>1. T = R  BY <1>2, <2>3 DEF R
    <3>2. Cardinality(R) \in Nat  BY <1>1, FS_CardinalityType DEF R
    <3>. QED  BY <2>3, <3>1, <3>2 DEF Is, R
  <2>. QED  BY <2>2, <2>3
<1>. QED  BY <1>0, <1>1, <1>3 DEF Times

(* Two arrays that are the same but for the numbers of their places. *)
LEMMA TimesShifted ==
    ASSUME NEW n \in Nat, NEW f, DOMAIN f \subseteq 0..n, NEW g, NEW d \in Int, NEW p,
           DOMAIN g \subseteq Int,
           \A i \in DOMAIN f : i + d \in DOMAIN g /\ g[i + d] = f[i],
           \A i \in DOMAIN g : i - d \in DOMAIN f
    PROVE  Times(g, p) = Times(f, p)
<1> DEFINE S == {i \in DOMAIN f : f[i] = p}
           T == {i \in DOMAIN g : g[i] = p}
           h == [i \in S |-> i + d]
<1>1. IsFiniteSet(S)  BY TimesType
<1>2. h \in [S -> T]  OBVIOUS
<1>3. \A a, b \in S : h[a] = h[b] => a = b  OBVIOUS
<1>4. \A t \in T : t - d \in S /\ h[t - d] = t
  <2> SUFFICES ASSUME NEW t \in T PROVE t - d \in S /\ h[t - d] = t  OBVIOUS
  <2>1. t \in Int /\ t - d \in DOMAIN f /\ g[(t - d) + d] = f[t - d]  OBVIOUS
  <2>2. (t - d) + d = t  BY <2>1
  <2>. QED  BY <2>1, <2>2
<1>5. h \in Bijection(S, T)
  <2>1. h \in Injection(S, T)  BY <1>2, <1>3, Zenon DEF Injection, IsInjective
  <2>2. h \in Surjection(S, T)
    <3> HIDE DEF h, S, T
    <3>. QED  BY <1>2, <1>4, Zenon DEF Surjection
  <2>. QED  BY <2>1, <2>2, Zenon DEF Bijection
<1>6. ExistsBijection(S, T)  BY <1>5 DEF ExistsBijection
<1>. QED  BY <1>1, <1>6, FS_Bijection DEF Times

(* An array is its beginning and the rest. *)
LEMMA TimesSplit ==
    ASSUME NEW m \in Nat, NEW k \in 0..m, NEW f, DOMAIN f = Slots(m),
           NEW g, DOMAIN g = Slots(k), \A i \in Slots(k) : g[i] = f[i],
           NEW p
    PROVE  Times(f, p) = Times(g, p) + Times([i \in 1..m - k |-> f[k + i - 1]], p)
<1> DEFINE h == [i \in 1..m - k |-> f[k + i - 1]]
           r == [i \in k..m - 1 |-> f[i]]
           F == {i \in DOMAIN f : f[i] = p}
           G == {i \in DOMAIN g : g[i] = p}
           R == {i \in DOMAIN r : r[i] = p}
<1>1. Times(r, p) = Times(h, p)
  <2>1. DOMAIN h = 1..m - k /\ DOMAIN r = k..m - 1  OBVIOUS
  <2>2. ASSUME NEW i \in DOMAIN h PROVE i + (k - 1) \in DOMAIN r /\ r[i + (k - 1)] = h[i]
    <3>1. i \in 1..m - k  BY <2>1
    <3>2. i + (k - 1) = k + i - 1 /\ i + (k - 1) \in k..m - 1  BY <3>1
    <3>. QED  BY <3>1, <3>2
  <2>3. \A i \in DOMAIN r : i - (k - 1) \in DOMAIN h  BY <2>1
  <2>4. DOMAIN h \subseteq 0..m /\ DOMAIN r \subseteq Int /\ k - 1 \in Int  BY <2>1
  <2> HIDE DEF h, r
  <2>. QED  BY <2>2, <2>3, <2>4, TimesShifted
<1>2. F = G \cup R /\ G \cap R = {}  BY DEF Slots
<1>3. IsFiniteSet(G) /\ IsFiniteSet(R)
  <2>1. IsFiniteSet(F)
    <3>1. DOMAIN f \subseteq 0..m  BY DEF Slots
    <3>. QED  BY <3>1, TimesType
  <2>2. G \in SUBSET F /\ R \in SUBSET F  BY <1>2
  <2>. QED  BY <2>1, <2>2, FS_Subset
<1>4. Cardinality(F) = Cardinality(G) + Cardinality(R)
  <2> HIDE DEF F, G, R
  <2>1. Cardinality(G \cup R) = Cardinality(G) + Cardinality(R) - Cardinality({})  BY <1>2, <1>3, FS_Union
  <2>. QED  BY <1>2, <1>3, <2>1, FS_EmptySet, FS_CardinalityType
<1>. QED  BY <1>1, <1>4 DEF Times

LEMMA TimesEmpty ==
    ASSUME NEW n \in Nat, NEW p, p # None
    PROVE  Times(Empty(n), p) = 0
<1>1. {i \in DOMAIN Empty(n) : Empty(n)[i] = p} = {}  BY DEF Empty
<1>. QED  BY <1>1, FS_EmptySet DEF Times

(* The number of slots is that of the array. *)
LEMMA OrderOf ==
    ASSUME NEW n \in Nat, DOMAIN x_packet = Slots(n)
    PROVE  x_order = n
BY FS_Interval DEF x_order, Slots

LEMMA OrderThen ==
    ASSUME NEW n \in Nat, DOMAIN x_packet' = Slots(n)
    PROVE  x_order' = n
BY FS_Interval DEF x_order, Slots

LEMMA TimesAll ==
    ASSUME NEW n \in Nat, DOMAIN x_packet = Slots(n), NEW p
    PROVE  Times(All(x_packet), p) = Times(x_packet, p)
<1> DEFINE a == All(x_packet)
<1>1. a = [i \in 1..n |-> x_packet[i - 1]]
  <2>1. Cardinality(DOMAIN x_packet) = n  BY OrderOf DEF x_order
  <2>. QED  BY <2>1 DEF All
<1>2. DOMAIN a = 1..n  BY <1>1
<1>3. \A i \in DOMAIN a : i + (-1) \in DOMAIN x_packet /\ x_packet[i + (-1)] = a[i]  BY <1>1, <1>2 DEF Slots
<1>4. \A i \in DOMAIN x_packet : i - (-1) \in DOMAIN a  BY <1>2 DEF Slots
<1>5. DOMAIN a \subseteq 0..n /\ DOMAIN x_packet \subseteq Int /\ -1 \in Int  BY <1>2 DEF Slots
<1> HIDE DEF a
<1>6. Times(x_packet, p) = Times(a, p)
  <2> DEFINE d == -1
  <2>1. d \in Int /\ (\A i \in DOMAIN a : i + d \in DOMAIN x_packet /\ x_packet[i + d] = a[i])
        /\ (\A i \in DOMAIN x_packet : i - d \in DOMAIN a)
    BY <1>3, <1>4, <1>5
  <2> HIDE DEF d
  <2>. QED  BY <1>5, <2>1, TimesShifted
<1>. QED  BY <1>6 DEF a

-----------------------------------------------------------------------------
(* The frame stores: who owns a packet, where pdp_loop writes and what      *)
(* pdp_del has in its ring.                                                 *)
MaybeFrames == Frames \cup {None}
FrameClasses == {"loop", "del", "reg", "snap", "convert", "freed"}

FrameTypes ==
    /\ fobj \in FrameClasses
    /\ users \in [Frames -> Int] /\ patch \in [Frames -> {0, 1}]
    /\ x_order \in Nat \ {0} /\ x_packet \in [Slots(x_order) -> MaybeFrames]
    /\ x_play_head \in Int /\ x_record_head \in Int /\ x_recording_frames \in Int
    /\ x_head \in Int /\ x_delay \in Int /\ awaiting \in BOOLEAN
    /\ frame \in [phase : {"none", "float", "pdp"}, packet : MaybeFrames]
    /\ frame.phase = "none" => frame = NoFrame
    /\ history \in Seq(MaybeFrames)

(* What pdp_del was given j registers ago. *)
Delayed(j) == IF j \in DOMAIN history THEN history[j] ELSE None

(* The ring of pdp_del from its head on is what was registered, the last    *)
(* first; between a register and its process message the last is at the     *)
(* head, otherwise the head is the slot before it.                          *)
RingOrdered == fobj = "del" =>
    /\ x_head \in 0..x_order - 1 /\ x_delay \in 0..x_order - 1 /\ Len(history) <= x_order
    /\ \A k \in 0..x_order - 1 :
          x_packet[(x_head + (IF awaiting THEN 0 ELSE 1) + k) % x_order] = Delayed(k + 1)

DelaySent == fobj = "del" /\ frame # NoFrame => awaiting /\ frame.packet = Delayed(x_delay + 1)

FrameInv == FrameTypes /\ FramesCounted /\ RecordInside /\ RingOrdered /\ DelaySent

(* When nothing that changes the slots is sent from inside an outlet call,  *)
(* the packet that is sent out stays in its slot.                           *)
SentHeld == frame # NoFrame /\ frame.packet # None /\ fobj # "del" =>
    \E i \in Slots(x_order) : x_packet[i] = frame.packet

LEMMA OneOrder ==
    ASSUME NEW n \in Nat, NEW S, x_packet \in [Slots(n) -> S]
    PROVE  x_order = n /\ DOMAIN x_packet = Slots(n)
BY OrderOf

LEMMA OneOrderThen ==
    ASSUME NEW n \in Nat, NEW S, x_packet' \in [Slots(n) -> S]
    PROVE  x_order' = n /\ x_packet' \in [Slots(x_order') -> S]
BY OrderThen

LEMMA TimesKept ==
    ASSUME FrameTypes, NEW p
    PROVE  Times(x_packet, p) \in Nat /\ (Times(x_packet, p) = 0 => \A i \in Slots(x_order) : x_packet[i] # p)
<1>1. x_order \in Nat /\ DOMAIN x_packet = Slots(x_order)  BY DEF FrameTypes
<1>2. DOMAIN x_packet \subseteq 0..x_order  BY <1>1 DEF Slots
<1>. QED  BY <1>1, <1>2, TimesType

(* The types that follow when the array of slots changes. *)
LEMMA UsersThen ==
    ASSUME FrameTypes, NEW out, NEW in,
           \A p \in Frames : Times(out, p) \in Int /\ Times(in, p) \in Int,
           Update(out, in)
    PROVE  users' \in [Frames -> Int] /\ \A p \in Frames : users'[p] = users[p] - Times(out, p) + Times(in, p)
<1>1. users' = [p \in Frames |-> users[p] - Times(out, p) + Times(in, p)]  BY Zenon DEF Update, Changed
<1>2. \A p \in Frames : users[p] \in Int  BY DEF FrameTypes
<1>. QED  BY <1>1, <1>2

LEMMA UsersOne ==
    ASSUME FrameTypes, NEW out, NEW in,
           out \in {<<>>} \cup {<<a>> : a \in MaybeFrames}, in \in {<<>>} \cup {<<a>> : a \in MaybeFrames},
           Update(out, in)
    PROVE  users' \in [Frames -> Int] /\ \A p \in Frames : users'[p] = users[p] - Times(out, p) + Times(in, p)
<1>1. \A p \in Frames : Times(out, p) \in Int /\ Times(in, p) \in Int
  <2> SUFFICES ASSUME NEW p \in Frames, NEW s, s \in {<<>>} \cup {<<a>> : a \in MaybeFrames}
               PROVE Times(s, p) \in Int
    OBVIOUS
  <2>1. CASE s = <<>>  BY <2>1, TimesNone
  <2>2. CASE \E a \in MaybeFrames : s = <<a>>  BY <2>2, TimesOne DEF Is
  <2>. QED  BY <2>1, <2>2
<1>. QED  BY <1>1, UsersThen

(* A packet is put into a slot. *)
LEMMA StoreCounts ==
    ASSUME FrameTypes, FramesCounted, NEW i \in Slots(x_order), NEW q \in MaybeFrames,
           Store(i, q), UNCHANGED <<patch, frame, fobj>>
    PROVE  /\ users' \in [Frames -> Int] /\ x_order' = x_order
           /\ x_packet' \in [Slots(x_order') -> MaybeFrames]
           /\ x_packet' = [x_packet EXCEPT ![i] = q]
           /\ FramesCounted'
<1>1. Update(<<x_packet[i]>>, <<q>>) /\ x_packet' = [x_packet EXCEPT ![i] = q]  BY Zenon DEF Store
<1>2. x_packet \in [Slots(x_order) -> MaybeFrames] /\ x_packet[i] \in MaybeFrames /\ x_order \in Nat
  BY DEF FrameTypes
<1>3. x_packet' \in [Slots(x_order) -> MaybeFrames]  BY <1>1, <1>2
<1>4. x_order' = x_order /\ x_packet' \in [Slots(x_order') -> MaybeFrames]  BY <1>2, <1>3, OneOrderThen
<1>5. users' \in [Frames -> Int] /\ \A p \in Frames : users'[p] = users[p] - Times(<<x_packet[i]>>, p) + Times(<<q>>, p)
  BY <1>1, <1>2, UsersOne
<1>6. ASSUME NEW p \in Frames PROVE users'[p] = Kept(p)' + patch'[p] + Passed(p)'
  <2>1. users'[p] = users[p] - Is(x_packet[i], p) + Is(q, p)  BY <1>5, TimesOne
  <2>2. Times(x_packet', p) = Times(x_packet, p) - Is(x_packet[i], p) + Is(q, p)
    <3>1. DOMAIN x_packet = Slots(x_order)  BY <1>2
    <3>2. x_order \in Nat  BY <1>2
    <3>3. DOMAIN x_packet' = Slots(x_order)
          /\ \A k \in Slots(x_order) : x_packet'[k] = IF k = i THEN q ELSE x_packet[k]
      BY <1>1, <1>2
    <3>. QED  BY <3>1, <3>2, <3>3, TimesStored
  <2>3. users[p] = Times(x_packet, p) + patch[p] + Passed(p)  BY DEF FramesCounted, Kept
  <2>4. Times(x_packet, p) \in Int /\ patch[p] \in Int /\ Passed(p) \in Int /\ Is(x_packet[i], p) \in Int /\ Is(q, p) \in Int
    BY TimesKept DEF FrameTypes, Passed, Is
  <2>5. Kept(p)' = Times(x_packet', p) /\ Passed(p)' = Passed(p)  BY DEF Kept, Passed
  <2>. QED  BY <2>1, <2>2, <2>3, <2>4, <2>5
<1>. QED  BY <1>1, <1>4, <1>5, <1>6 DEF FramesCounted

(* Every slot is emptied. *)
LEMMA EmptyCounts ==
    ASSUME FrameTypes, FramesCounted, Update(All(x_packet), <<>>), x_packet' = Empty(x_order),
           UNCHANGED patch, \A p \in Frames : Passed(p)' = Passed(p)
    PROVE  /\ users' \in [Frames -> Int] /\ x_order' = x_order
           /\ x_packet' \in [Slots(x_order') -> MaybeFrames]
           /\ FramesCounted'
<1>1. x_order \in Nat /\ DOMAIN x_packet = Slots(x_order)  BY DEF FrameTypes
<1>2. x_packet' \in [Slots(x_order) -> MaybeFrames]  BY DEF Empty, MaybeFrames
<1>3. x_order' = x_order /\ x_packet' \in [Slots(x_order') -> MaybeFrames]  BY <1>1, <1>2, OneOrderThen
<1>4. \A p \in Frames : Times(All(x_packet), p) = Times(x_packet, p) /\ Times(<<>>, p) = 0
  BY <1>1, TimesAll, TimesNone
<1>5. users' \in [Frames -> Int] /\ \A p \in Frames : users'[p] = users[p] - Times(All(x_packet), p) + Times(<<>>, p)
  <2>1. \A p \in Frames : Times(All(x_packet), p) \in Int /\ Times(<<>>, p) \in Int  BY <1>4, TimesKept
  <2>. QED  BY <2>1, UsersThen
<1>6. ASSUME NEW p \in Frames PROVE users'[p] = Kept(p)' + patch'[p] + Passed(p)'
  <2>1. users'[p] = users[p] - Times(x_packet, p)  BY <1>4, <1>5, TimesKept DEF FrameTypes
  <2>2. p # None  BY DEF Frames, None
  <2>3. Times(x_packet', p) = 0  BY <1>1, <2>2, TimesEmpty
  <2>4. users[p] = Times(x_packet, p) + patch[p] + Passed(p)  BY DEF FramesCounted, Kept
  <2>5. Times(x_packet, p) \in Int /\ patch[p] \in Int /\ Passed(p) \in Int
    BY TimesKept DEF FrameTypes, Passed
  <2>6. Kept(p)' = Times(x_packet', p)  BY DEF Kept
  <2>. QED  BY <2>1, <2>3, <2>4, <2>5, <2>6
<1>. QED  BY <1>3, <1>5, <1>6 DEF FramesCounted

(* Nothing is given or taken. *)
LEMMA SameCounts ==
    ASSUME FrameTypes, FramesCounted, UNCHANGED <<users, patch, x_packet>>,
           \A p \in Frames : Passed(p)' = Passed(p)
    PROVE  /\ users' \in [Frames -> Int] /\ x_order' = x_order
           /\ x_packet' \in [Slots(x_order') -> MaybeFrames]
           /\ FramesCounted'
<1>1. x_order' = x_order  BY DEF x_order
<1>2. users' \in [Frames -> Int] /\ x_packet' \in [Slots(x_order') -> MaybeFrames]  BY <1>1 DEF FrameTypes
<1>3. \A p \in Frames : Kept(p)' = Kept(p)  BY DEF Kept
<1>. QED  BY <1>1, <1>2, <1>3 DEF FramesCounted

(* The object is not pdp_del: nothing is passed. *)
LEMMA NothingPassed ==
    ASSUME fobj # "del", fobj' = fobj
    PROVE  \A p \in Frames : Passed(p)' = Passed(p)
BY DEF Passed

(* What a step that leaves the ring of pdp_del, or the loop, alone keeps. *)
LEMMA SameRing ==
    ASSUME FrameInv, UNCHANGED <<fobj, x_packet, delVars, x_record_head, x_recording_frames>>
    PROVE  RecordInside' /\ RingOrdered' /\ (UNCHANGED frame => DelaySent')
<1>1. x_order' = x_order  BY DEF x_order
<1>2. RecordInside'  BY DEF FrameInv, RecordInside
<1>3. \A j : Delayed(j)' = Delayed(j)  BY DEF Delayed, delVars
<1>4. RingOrdered'  BY <1>1, <1>3 DEF FrameInv, RingOrdered, delVars
<1>5. UNCHANGED frame => DelaySent'  BY <1>3 DEF FrameInv, DelaySent, delVars
<1>. QED  BY <1>2, <1>4, <1>5

(* The patch takes or gives back references. *)
LEMMA PatchBalance ==
    ASSUME FrameTypes, FramesCounted, NEW out, NEW in,
           UNCHANGED <<fobj, x_packet, frame>>, patch' \in [Frames -> {0, 1}],
           users' \in [Frames -> Int],
           \A p \in Frames : users'[p] = users[p] - Times(out, p) + Times(in, p),
           \A p \in Frames : Times(out, p) \in Int /\ Times(in, p) \in Int
                             /\ patch'[p] = patch[p] - Times(out, p) + Times(in, p)
    PROVE  FramesCounted'
<1>7. ASSUME NEW p \in Frames PROVE users'[p] = Kept(p)' + patch'[p] + Passed(p)'
  <2>1. users[p] = Kept(p) + patch[p] + Passed(p)  BY DEF FramesCounted
  <2>2. Kept(p)' = Kept(p) /\ Passed(p)' = Passed(p)  BY DEF Kept, Passed
  <2>5. users[p] \in Int /\ patch[p] \in Int  BY DEF FrameTypes
  <2>6. Kept(p) \in Int /\ Passed(p) \in Int  BY TimesKept DEF Kept, Passed
  <2>. QED  BY <2>1, <2>2, <2>5, <2>6
<1>. QED  BY <1>7 DEF FramesCounted

LEMMA PatchCounts ==
    ASSUME FrameInv, NEW q \in Frames, NEW out, NEW in,
           UNCHANGED <<fobj, x_packet, loopVars, delVars, x_snapnext, frame>>,
           \/ patch[q] = 0 /\ out = <<>> /\ in = <<q>> /\ patch' = [patch EXCEPT ![q] = 1]
           \/ patch[q] = 1 /\ out = <<q>> /\ in = <<>> /\ patch' = [patch EXCEPT ![q] = 0],
           Update(out, in)
    PROVE  FrameInv'
<1>1. FrameTypes /\ FramesCounted  BY DEF FrameInv
<1>2. q \in MaybeFrames  BY DEF MaybeFrames
<1>3. users' \in [Frames -> Int] /\ \A p \in Frames : users'[p] = users[p] - Times(out, p) + Times(in, p)
  BY <1>1, <1>2, UsersOne
<1>4. x_order' = x_order  BY DEF x_order
<1>5. patch' \in [Frames -> {0, 1}] /\ patch \in [Frames -> {0, 1}]  BY <1>1 DEF FrameTypes
<1>6. FrameTypes'  BY <1>1, <1>3, <1>4, <1>5 DEF FrameTypes, loopVars, delVars
<1>7. ASSUME NEW p \in Frames
      PROVE  Times(out, p) \in Int /\ Times(in, p) \in Int /\ patch'[p] = patch[p] - Times(out, p) + Times(in, p)
  <2>1. CASE patch[q] = 0 /\ out = <<>> /\ in = <<q>> /\ patch' = [patch EXCEPT ![q] = 1]
    BY <1>5, <2>1, TimesOne, TimesNone DEF Is
  <2>2. CASE patch[q] = 1 /\ out = <<q>> /\ in = <<>> /\ patch' = [patch EXCEPT ![q] = 0]
    BY <1>5, <2>2, TimesOne, TimesNone DEF Is
  <2>. QED  BY <2>1, <2>2
<1>8. FramesCounted'  BY <1>1, <1>3, <1>5, <1>7, PatchBalance
<1>9. RecordInside' /\ RingOrdered' /\ DelaySent'  BY SameRing DEF loopVars
<1>. QED  BY <1>6, <1>8, <1>9 DEF FrameInv

LEMMA PatchStepKeeps ==
    ASSUME FrameInv, PatchMakes \/ PatchKeeps \/ PatchReleases
    PROVE  FrameInv'
<1>1. CASE PatchMakes
  <2>1. PICK q \in Frames : /\ users[q] = 0 /\ Update(<<>>, <<q>>) /\ patch' = [patch EXCEPT ![q] = 1]
                            /\ UNCHANGED <<fobj, x_packet, loopVars, delVars, x_snapnext, frame>>
    BY <1>1, Zenon DEF PatchMakes
  <2>2. patch[q] = 0
    <3>1. users[q] = Kept(q) + patch[q] + Passed(q)  BY DEF FrameInv, FramesCounted
    <3>2. Kept(q) \in Nat /\ Passed(q) \in Nat /\ patch[q] \in Nat
      BY TimesKept DEF FrameInv, FrameTypes, Kept, Passed
    <3>. QED  BY <2>1, <3>1, <3>2
  <2> DEFINE out == <<>>
             in == <<q>>
  <2>3. Update(out, in) /\ out = <<>> /\ in = <<q>>  BY <2>1
  <2> HIDE DEF out, in
  <2>. QED  BY <2>1, <2>2, <2>3, PatchCounts
<1>2. CASE PatchKeeps
  <2> DEFINE q == frame.packet
             out == <<>>
             in == <<q>>
  <2>1. q \in Frames /\ patch[q] = 0 /\ Update(out, in) /\ out = <<>> /\ in = <<q>> /\ patch' = [patch EXCEPT ![q] = 1]
        /\ UNCHANGED <<fobj, x_packet, loopVars, delVars, x_snapnext, frame>>
    BY <1>2 DEF PatchKeeps, FrameInv, FrameTypes, MaybeFrames
  <2> HIDE DEF q, out, in
  <2>. QED  BY <2>1, PatchCounts
<1>3. CASE PatchReleases
  <2>1. PICK q \in Frames : /\ patch[q] = 1 /\ Update(<<q>>, <<>>) /\ patch' = [patch EXCEPT ![q] = 0]
                            /\ UNCHANGED <<fobj, x_packet, loopVars, delVars, x_snapnext, frame>>
    BY <1>3, Zenon DEF PatchReleases
  <2> DEFINE in == <<>>
             out == <<q>>
  <2>3. Update(out, in) /\ in = <<>> /\ out = <<q>>  BY <2>1
  <2> HIDE DEF out, in
  <2>. QED  BY <2>1, <2>3, PatchCounts
<1>. QED  BY <1>1, <1>2, <1>3

(* A step of an object that is not pdp_del: the packets it keeps, its heads *)
(* and its frame have their types again, and every reference is accounted   *)
(* for; the ring is another object's.                                       *)
LEMMA OtherStep ==
    ASSUME FrameInv, fobj # "del", fobj' = fobj, UNCHANGED <<patch, delVars>>,
           users' \in [Frames -> Int], x_order' \in Nat \ {0}, x_packet' \in [Slots(x_order') -> MaybeFrames],
           FramesCounted',
           x_play_head' \in Int, x_record_head' \in Int, x_recording_frames' \in Int,
           frame' = frame \/ frame' = NoFrame
               \/ \E ph \in {"float", "pdp"}, p \in MaybeFrames : frame' = [phase |-> ph, packet |-> p],
           RecordInside'
    PROVE  FrameInv'
<1>1. frame' \in [phase : {"none", "float", "pdp"}, packet : MaybeFrames] /\ (frame'.phase = "none" => frame' = NoFrame)
  BY DEF FrameInv, FrameTypes, NoFrame, MaybeFrames
<1>2. FrameTypes'  BY <1>1 DEF FrameInv, FrameTypes, delVars
<1>3. RingOrdered' /\ DelaySent'  BY DEF RingOrdered, DelaySent
<1>. QED  BY <1>2, <1>3 DEF FrameInv

LEMMA LoopQuiet ==
    ASSUME FrameInv, fobj = "loop", UNCHANGED <<fobj, users, patch, x_packet, delVars>>,
           x_play_head' \in Int, x_record_head' \in Int, x_recording_frames' \in Int,
           frame' = frame \/ frame' = NoFrame
               \/ \E ph \in {"float", "pdp"}, p \in MaybeFrames : frame' = [phase |-> ph, packet |-> p],
           x_recording_frames' # 0 => x_record_head' \in Slots(x_order)
    PROVE  FrameInv'
<1>1. FrameTypes /\ FramesCounted  BY DEF FrameInv
<1>2. \A p \in Frames : Passed(p)' = Passed(p)  BY NothingPassed
<1>3. /\ users' \in [Frames -> Int] /\ x_order' = x_order
      /\ x_packet' \in [Slots(x_order') -> MaybeFrames]
      /\ FramesCounted'
  BY <1>1, <1>2, SameCounts
<1>4. x_order' \in Nat \ {0}  BY <1>1, <1>3 DEF FrameTypes
<1>5. RecordInside'  BY <1>3 DEF RecordInside
<1>. QED  BY <1>3, <1>4, <1>5, OtherStep

LEMMA WrappedIn ==
    ASSUME FrameTypes, NEW i \in Int
    PROVE  Wrapped(i) \in Slots(x_order) /\ x_packet[Wrapped(i)] \in MaybeFrames
           /\ Wrapped(i) \in Int /\ Wrapped(i) < x_order
BY DivMod DEF FrameTypes, Wrapped, Slots

LEMMA LoopInputKeeps ==
    ASSUME FrameInv, NEW p \in Frames, pdp_loop_input_0(p)
    PROVE  FrameInv'
<1>1. FrameTypes /\ FramesCounted /\ x_order \in Nat \ {0} /\ DOMAIN x_packet = Slots(x_order)
      /\ x_record_head \in Int /\ x_recording_frames \in Int /\ x_play_head \in Int
  BY DEF FrameInv, FrameTypes
<1>2. x_record_head \in Slots(x_order)  BY <1>1 DEF FrameInv, RecordInside, pdp_loop_input_0
<1>3. /\ fobj = "loop" /\ Store(x_record_head, p) /\ x_record_head' = x_record_head + 1
      /\ x_recording_frames' = IF x_record_head + 1 = x_order THEN 0 ELSE x_recording_frames - 1
      /\ UNCHANGED <<fobj, patch, x_play_head, x_loop, delVars, x_snapnext, frame>>
  BY <1>1, <1>2 DEF pdp_loop_input_0
<1>4. p \in MaybeFrames  BY DEF MaybeFrames
<1>5. /\ users' \in [Frames -> Int] /\ x_order' = x_order
      /\ x_packet' \in [Slots(x_order') -> MaybeFrames] /\ FramesCounted'
  BY <1>1, <1>2, <1>3, <1>4, StoreCounts
<1>6. RecordInside'
  <2>1. x_recording_frames' # 0 => x_record_head' \in Slots(x_order)  BY <1>1, <1>2, <1>3 DEF Slots
  <2>. QED  BY <1>5, <2>1 DEF RecordInside
<1>7. x_record_head' \in Int /\ x_recording_frames' \in Int  BY <1>1, <1>3
<1>. QED  BY <1>1, <1>3, <1>5, <1>6, <1>7, OtherStep

LEMMA LoopResetKeeps ==
    ASSUME FrameInv, pdp_loop_reset
    PROVE  FrameInv'
<1>1. FrameTypes /\ FramesCounted /\ x_order \in Nat \ {0} /\ x_recording_frames \in Int
  BY DEF FrameInv, FrameTypes
<1>2. /\ fobj = "loop" /\ Update(All(x_packet), <<>>) /\ x_packet' = Empty(x_order)
      /\ x_play_head' = 0 /\ x_record_head' = 0
      /\ UNCHANGED <<fobj, patch, x_recording_frames, x_loop, delVars, x_snapnext, frame>>
  BY DEF pdp_loop_reset
<1>3. \A p \in Frames : Passed(p)' = Passed(p)  BY <1>2, NothingPassed
<1>4. /\ users' \in [Frames -> Int] /\ x_order' = x_order
      /\ x_packet' \in [Slots(x_order') -> MaybeFrames] /\ FramesCounted'
  BY <1>1, <1>2, <1>3, EmptyCounts
<1>5. RecordInside'  BY <1>1, <1>2, <1>4 DEF RecordInside, Slots
<1>. QED  BY <1>1, <1>2, <1>4, <1>5, OtherStep

LEMMA SmallRemainder ==
    ASSUME NEW k \in Nat \ {0}, NEW i \in 0..k - 1
    PROVE  i % k = i
<1>1. i = k * 0 + i  OBVIOUS
<1>. QED  BY <1>1, ModUnique

(* Resizing moves no reference: a longer loop takes one for every slot it   *)
(* gains, a shorter one gives one back for every slot it loses.             *)
LEMMA LoopResizeKeeps ==
    ASSUME FrameInv, NEW f \in Sizes, pdp_loop_resize(f)
    PROVE  FrameInv'
<1> DEFINE n == x_order
           m == pdp_loop_realsize(f)
           new == [i \in Slots(m) |-> x_packet[i % n]]
           out == [i \in 1..n - m |-> x_packet[m + i - 1]]
           in == [i \in 1..m - n |-> new[n + i - 1]]
<1>1. FrameTypes /\ FramesCounted /\ n \in Nat \ {0} /\ x_packet \in [Slots(n) -> MaybeFrames]
      /\ x_record_head \in Int /\ x_play_head \in Int /\ x_recording_frames \in Int
  BY DEF FrameInv, FrameTypes
<1>2. /\ fobj = "loop" /\ m # n /\ x_packet' = new /\ Update(out, in)
      /\ x_play_head' = IF m < n THEN x_play_head % m ELSE x_play_head
      /\ x_record_head' = IF m < n THEN x_record_head % m ELSE x_record_head
      /\ UNCHANGED <<fobj, patch, x_recording_frames, x_loop, delVars, x_snapnext, frame>>
  BY Zenon DEF pdp_loop_resize
<1>3. m \in Nat \ {0} /\ m >= 2  BY FrameAssumption DEF pdp_loop_realsize
<1> HIDE DEF m, n
<1>4. \A i \in Slots(m) : i % n \in Slots(n) /\ (i < n => i % n = i)
  <2> SUFFICES ASSUME NEW i \in Slots(m) PROVE i % n \in Slots(n) /\ (i < n => i % n = i)
    OBVIOUS
  <2>1. i \in Nat  BY <1>3 DEF Slots
  <2>2. i % n \in Slots(n)  BY <1>1, <2>1, DivMod DEF Slots
  <2>3. ASSUME i < n PROVE i % n = i
    <3>1. i \in 0..n - 1  BY <1>1, <2>1, <2>3
    <3>. QED  BY <1>1, <3>1, SmallRemainder
  <2>. QED  BY <2>2, <2>3
<1>5. new \in [Slots(m) -> MaybeFrames] /\ DOMAIN new = Slots(m)  BY <1>1, <1>4
<1>6. x_order' = m /\ x_packet' \in [Slots(x_order') -> MaybeFrames]
  BY <1>2, <1>3, <1>5, OneOrderThen
<1>7. ASSUME NEW p
      PROVE  /\ Times(out, p) \in Int /\ Times(in, p) \in Int /\ Times(new, p) \in Int /\ Times(x_packet, p) \in Int
             /\ Times(new, p) = Times(x_packet, p) - Times(out, p) + Times(in, p)
  <2>1. DOMAIN out = 1..n - m /\ DOMAIN in = 1..m - n /\ DOMAIN x_packet = Slots(n)  BY <1>1
  <2>2. DOMAIN out \subseteq 0..n /\ DOMAIN in \subseteq 0..m /\ DOMAIN new \subseteq 0..m /\ DOMAIN x_packet \subseteq 0..n
    BY <1>1, <1>3, <1>5, <2>1 DEF Slots
  <2>3. Times(out, p) \in Nat /\ (DOMAIN out = {} => Times(out, p) = 0)
    <3> HIDE DEF out
    <3>. QED  BY <1>1, <2>2, TimesType
  <2>4. Times(in, p) \in Nat /\ (DOMAIN in = {} => Times(in, p) = 0)
    <3> HIDE DEF in
    <3>. QED  BY <1>3, <2>2, TimesType
  <2>5. Times(new, p) \in Nat /\ Times(x_packet, p) \in Nat
    <3> HIDE DEF new
    <3>. QED  BY <1>1, <1>3, <2>2, TimesType
  <2>6. CASE m < n
    <3>1. m \in 0..n /\ \A i \in Slots(m) : new[i] = x_packet[i]  BY <1>1, <1>3, <1>4, <2>6 DEF Slots
    <3>2. Times(x_packet, p) = Times(new, p) + Times([i \in 1..n - m |-> x_packet[m + i - 1]], p)
      <4> HIDE DEF new
      <4>. QED  BY <1>1, <1>5, <2>1, <3>1, TimesSplit
    <3>3. DOMAIN in = {}  BY <1>1, <1>3, <2>1, <2>6
    <3> HIDE DEF in, new
    <3>. QED  BY <2>3, <2>4, <2>5, <3>2, <3>3
  <2>7. CASE n < m
    <3>1. n \in 0..m /\ \A i \in Slots(n) : x_packet[i] = new[i]
      <4>1. n \in 0..m /\ \A i \in Slots(n) : i \in Slots(m) /\ i < n  BY <1>1, <1>3, <2>7 DEF Slots
      <4>2. \A i \in Slots(m) : new[i] = x_packet[i % n]  OBVIOUS
      <4> HIDE DEF new
      <4>. QED  BY <1>4, <4>1, <4>2
    <3>2. Times(new, p) = Times(x_packet, p) + Times([i \in 1..m - n |-> new[n + i - 1]], p)
      <4> HIDE DEF new
      <4>. QED  BY <1>1, <1>3, <1>5, <2>1, <3>1, TimesSplit
    <3>3. DOMAIN out = {}  BY <1>1, <1>3, <2>1, <2>7
    <3> HIDE DEF out, new
    <3>. QED  BY <2>3, <2>4, <2>5, <3>2, <3>3
  <2> HIDE DEF out, in, new
  <2>. QED  BY <1>1, <1>2, <1>3, <2>6, <2>7
<1>8. users' \in [Frames -> Int] /\ \A p \in Frames : users'[p] = users[p] - Times(out, p) + Times(in, p)
  <2>1. \A p \in Frames : Times(out, p) \in Int /\ Times(in, p) \in Int  BY <1>7
  <2> HIDE DEF out, in
  <2>. QED  BY <1>1, <1>2, <2>1, UsersThen
<1>9. FramesCounted'
  <2> SUFFICES ASSUME NEW p \in Frames PROVE users'[p] = Kept(p)' + patch'[p] + Passed(p)'
    BY DEF FramesCounted
  <2>1. users[p] = Times(x_packet, p) + patch[p] + Passed(p)  BY <1>1 DEF FramesCounted, Kept
  <2>2. Kept(p)' = Times(new, p) /\ Passed(p)' = 0 /\ Passed(p) = 0  BY <1>2 DEF Kept, Passed
  <2>3. patch[p] \in Int /\ patch'[p] = patch[p]  BY <1>1, <1>2 DEF FrameTypes
  <2> HIDE DEF new, out, in
  <2>. QED  BY <1>7, <1>8, <2>1, <2>2, <2>3
<1>10. x_play_head' \in Int /\ x_record_head' \in Int /\ (m < n => x_record_head' \in Slots(m))
  BY <1>1, <1>2, <1>3, DivMod DEF Slots
<1>11. RecordInside'
  <2>1. x_recording_frames' # 0 => x_record_head' \in Slots(m)
    <3>1. x_recording_frames # 0 => x_record_head \in Slots(n)  BY <1>1, <1>2 DEF FrameInv, RecordInside
    <3>. QED  BY <1>1, <1>2, <1>3, <1>10, <3>1 DEF Slots
  <2>. QED  BY <1>5, <1>2, <2>1 DEF RecordInside
<1>. QED  BY <1>1, <1>2, <1>3, <1>6, <1>8, <1>9, <1>10, <1>11, OtherStep

LEMMA LoopPlaysKeeps ==
    ASSUME FrameInv, pdp_loop_bang \/ LoopOutputs \/ LoopAdvances
    PROVE  FrameInv'
<1>1. FrameTypes /\ x_play_head \in Int /\ x_record_head \in Int /\ x_recording_frames \in Int /\ DOMAIN x_packet = Slots(x_order)
  BY DEF FrameInv, FrameTypes
<1>2. fobj = "loop" => (x_recording_frames # 0 => x_record_head \in Slots(x_order))
  BY <1>1 DEF FrameInv, RecordInside
<1>3. CASE pdp_loop_bang
  <2> DEFINE q == x_packet[Wrapped(x_play_head)]
  <2>1. q \in MaybeFrames  BY <1>1, WrappedIn
  <2>2. fobj = "loop" /\ frame' = [phase |-> "float", packet |-> q]
        /\ UNCHANGED <<fobj, users, patch, x_packet, loopVars, delVars, x_snapnext>>
    BY <1>3 DEF pdp_loop_bang, Wrapped
  <2> HIDE DEF q
  <2>3. \E ph \in {"float", "pdp"}, r \in MaybeFrames : frame' = [phase |-> ph, packet |-> r]  BY <2>1, <2>2
  <2>4. fobj = "loop" /\ UNCHANGED <<fobj, users, patch, x_packet, delVars, x_play_head, x_record_head, x_recording_frames>>
    BY <2>2 DEF loopVars
  <2>. QED  BY <1>1, <1>2, <2>3, <2>4, LoopQuiet
<1>4. CASE LoopOutputs
  <2> DEFINE q == frame.packet
  <2>1. q \in MaybeFrames /\ frame' = [phase |-> "pdp", packet |-> q]
    BY <1>1, <1>4 DEF LoopOutputs, FrameTypes
  <2>2. fobj = "loop" /\ UNCHANGED <<fobj, users, patch, x_packet, delVars, x_play_head, x_record_head, x_recording_frames>>
    BY <1>4 DEF LoopOutputs, loopVars
  <2>3. \E ph \in {"float", "pdp"}, r \in MaybeFrames : frame' = [phase |-> ph, packet |-> r]
    <3> HIDE DEF q
    <3>. QED  BY <2>1
  <2>. QED  BY <1>1, <1>2, <2>2, <2>3, LoopQuiet
<1>5. CASE LoopAdvances
  <2>1. fobj = "loop" /\ UNCHANGED <<fobj, users, patch, x_packet, delVars, x_record_head, x_recording_frames>>
        /\ x_play_head' = x_play_head + 1 /\ frame' = NoFrame
    BY <1>5 DEF LoopAdvances
  <2>2. x_play_head' \in Int  BY <1>1, <2>1
  <2>. QED  BY <1>1, <1>2, <2>1, <2>2, LoopQuiet
<1>. QED  BY <1>3, <1>4, <1>5

LEMMA LoopRecordKeeps ==
    ASSUME FrameInv, NEW start \in Int, NEW dur \in Int, pdp_loop_record(start, dur)
    PROVE  FrameInv'
<1>1. FrameTypes /\ x_play_head \in Int /\ x_order \in Int  BY DEF FrameInv, FrameTypes
<1>2. Wrapped(start) \in Slots(x_order) /\ Wrapped(start) \in Int  BY <1>1, WrappedIn
<1>3. /\ fobj = "loop" /\ x_record_head' = Wrapped(start)
      /\ x_recording_frames' = IF dur <= 0 THEN x_order - Wrapped(start) ELSE dur
      /\ UNCHANGED <<fobj, users, patch, x_packet, x_play_head, delVars, frame>>
  BY DEF pdp_loop_record
<1>4. x_recording_frames' \in Int  BY <1>1, <1>2, <1>3
<1>. QED  BY <1>1, <1>2, <1>3, <1>4, LoopQuiet

LEMMA LoopHeadsKeeps ==
    ASSUME FrameInv,
           pdp_loop_stop \/ (\E i \in Positions : pdp_loop_seek(i) \/ pdp_loop_seek_hot(i))
           \/ (\E b \in BOOLEAN : pdp_loop_loop(b))
    PROVE  FrameInv'
<1>1. FrameTypes /\ x_play_head \in Int /\ x_record_head \in Int /\ x_recording_frames \in Int /\ DOMAIN x_packet = Slots(x_order)
  BY DEF FrameInv, FrameTypes
<1>2. fobj = "loop" => (x_recording_frames # 0 => x_record_head \in Slots(x_order))
  BY <1>1 DEF FrameInv, RecordInside
<1>3. CASE pdp_loop_stop
  <2>1. fobj = "loop" /\ UNCHANGED <<fobj, users, patch, x_packet, delVars, x_play_head, x_record_head, frame>>
        /\ x_recording_frames' = 0
    BY <1>3 DEF pdp_loop_stop
  <2>. QED  BY <1>1, <2>1, LoopQuiet
<1>4. ASSUME NEW i \in Positions, pdp_loop_seek(i) PROVE FrameInv'
  <2>1. fobj = "loop" /\ UNCHANGED <<fobj, users, patch, x_packet, delVars, x_record_head, x_recording_frames, frame>>
        /\ x_play_head' = Wrapped(i)
    BY <1>4 DEF pdp_loop_seek
  <2>2. x_play_head' \in Int  BY <1>1, <2>1, WrappedIn, FrameAssumption
  <2>. QED  BY <1>1, <1>2, <2>1, <2>2, LoopQuiet
<1>5. ASSUME NEW i \in Positions, pdp_loop_seek_hot(i) PROVE FrameInv'
  <2> DEFINE q == x_packet[Wrapped(i)]
  <2>1. fobj = "loop" /\ UNCHANGED <<fobj, users, patch, x_packet, delVars, x_record_head, x_recording_frames>>
        /\ x_play_head' = Wrapped(i) /\ frame' = [phase |-> "float", packet |-> q]
    BY <1>5 DEF pdp_loop_seek_hot
  <2>2. x_play_head' \in Int /\ q \in MaybeFrames  BY <1>1, <2>1, WrappedIn, FrameAssumption
  <2> HIDE DEF q
  <2>3. \E ph \in {"float", "pdp"}, r \in MaybeFrames : frame' = [phase |-> ph, packet |-> r]  BY <2>1, <2>2
  <2>. QED  BY <1>1, <1>2, <2>1, <2>2, <2>3, LoopQuiet
<1>6. ASSUME NEW b \in BOOLEAN, pdp_loop_loop(b) PROVE FrameInv'
  <2>1. fobj = "loop" /\ UNCHANGED <<fobj, users, patch, x_packet, delVars, x_play_head, x_record_head, x_recording_frames, frame>>
    BY <1>6 DEF pdp_loop_loop
  <2>. QED  BY <1>1, <1>2, <2>1, LoopQuiet
<1>. QED  BY <1>3, <1>4, <1>5, <1>6

LEMMA LoopStepKeeps ==
    ASSUME FrameInv, LoopStep
    PROVE  FrameInv'
<1>1. CASE \E p \in Frames : pdp_loop_input_0(p)  BY <1>1, LoopInputKeeps
<1>2. CASE pdp_loop_bang \/ LoopOutputs \/ LoopAdvances  BY <1>2, LoopPlaysKeeps
<1>3. CASE pdp_loop_reset  BY <1>3, LoopResetKeeps
<1>4. CASE pdp_loop_stop \/ (\E i \in Positions : pdp_loop_seek(i) \/ pdp_loop_seek_hot(i))
           \/ (\E b \in BOOLEAN : pdp_loop_loop(b))
  BY <1>4, LoopHeadsKeeps
<1>5. ASSUME NEW i \in Positions, pdp_loop_store(i) PROVE FrameInv'
  <2>1. pdp_loop_record(i, 1) /\ i \in Int /\ 1 \in Int  BY <1>5, FrameAssumption DEF pdp_loop_store
  <2>. QED  BY <2>1, LoopRecordKeeps
<1>6. ASSUME NEW i \in Positions, NEW j \in Positions, pdp_loop_record(i, j) PROVE FrameInv'
  <2>1. i \in Int /\ j \in Int  BY FrameAssumption
  <2>. QED  BY <1>6, <2>1, LoopRecordKeeps
<1>7. CASE \E f \in Sizes : pdp_loop_resize(f)  BY <1>7, LoopResizeKeeps
<1>. QED  BY <1>1, <1>2, <1>3, <1>4, <1>5, <1>6, <1>7 DEF LoopStep

-----------------------------------------------------------------------------
(* pdp_reg, pdp_snap and pdp_convert put a packet in their one slot. *)
LEMMA SlotZero ==
    ASSUME FrameTypes
    PROVE  0 \in Slots(x_order) /\ x_packet[0] \in MaybeFrames
BY DEF FrameTypes, Slots

LEMMA HoldStoreKeeps ==
    ASSUME FrameInv, NEW q \in MaybeFrames, fobj \notin {"loop", "del"}, Store(0, q),
           UNCHANGED <<fobj, patch, loopVars, delVars>>, frame' = frame
    PROVE  FrameInv'
<1>1. FrameTypes /\ FramesCounted /\ x_order \in Nat \ {0} /\ 0 \in Slots(x_order)
      /\ x_play_head \in Int /\ x_record_head \in Int /\ x_recording_frames \in Int
  BY SlotZero DEF FrameInv, FrameTypes
<1>2. /\ users' \in [Frames -> Int] /\ x_order' = x_order
      /\ x_packet' \in [Slots(x_order') -> MaybeFrames] /\ FramesCounted'
  BY <1>1, StoreCounts
<1>3. RecordInside'
  <2>1. DOMAIN x_packet' = DOMAIN x_packet  BY <1>1, <1>2 DEF FrameTypes
  <2>. QED  BY <2>1 DEF FrameInv, RecordInside, loopVars
<1>. QED  BY <1>1, <1>2, <1>3, OtherStep DEF loopVars

LEMMA HoldQuiet ==
    ASSUME FrameInv, fobj \notin {"loop", "del"}, UNCHANGED <<fobj, users, patch, x_packet, loopVars, delVars>>,
           frame' = frame \/ frame' = NoFrame
               \/ \E ph \in {"float", "pdp"}, p \in MaybeFrames : frame' = [phase |-> ph, packet |-> p]
    PROVE  FrameInv'
<1>1. FrameTypes /\ FramesCounted /\ x_order \in Nat \ {0}
      /\ x_play_head \in Int /\ x_record_head \in Int /\ x_recording_frames \in Int
  BY DEF FrameInv, FrameTypes
<1>2. \A p \in Frames : Passed(p)' = Passed(p)  BY NothingPassed
<1>3. /\ users' \in [Frames -> Int] /\ x_order' = x_order
      /\ x_packet' \in [Slots(x_order') -> MaybeFrames] /\ FramesCounted'
  BY <1>1, <1>2, SameCounts
<1>4. RecordInside'  BY DEF FrameInv, RecordInside, loopVars
<1>. QED  BY <1>1, <1>3, <1>4, OtherStep DEF loopVars

(* The converted packet goes out with the reference the slot had. *)
LEMMA ConvertPassedKeeps ==
    ASSUME FrameInv, ConvertPassed
    PROVE  FrameInv'
<1>1. FrameTypes /\ FramesCounted /\ x_order \in Nat \ {0} /\ 0 \in Slots(x_order) /\ x_packet[0] \in MaybeFrames
      /\ x_packet \in [Slots(x_order) -> MaybeFrames]
      /\ x_play_head \in Int /\ x_record_head \in Int /\ x_recording_frames \in Int
  BY SlotZero DEF FrameInv, FrameTypes
<1>2. /\ fobj = "convert" /\ Update(<<x_packet[0]>>, <<>>) /\ x_packet' = [x_packet EXCEPT ![0] = None]
      /\ frame' = NoFrame /\ UNCHANGED <<fobj, patch, loopVars, delVars>>
  BY DEF ConvertPassed
<1>3. x_packet' \in [Slots(x_order) -> MaybeFrames]  BY <1>1, <1>2 DEF MaybeFrames
<1>4. x_order' = x_order /\ x_packet' \in [Slots(x_order') -> MaybeFrames]  BY <1>1, <1>3, OneOrderThen
<1>5. users' \in [Frames -> Int] /\ \A p \in Frames : users'[p] = users[p] - Times(<<x_packet[0]>>, p) + Times(<<>>, p)
  BY <1>1, <1>2, UsersOne
<1>6. ASSUME NEW p \in Frames PROVE users'[p] = Kept(p)' + patch'[p] + Passed(p)'
  <2>1. users'[p] = users[p] - Is(x_packet[0], p)
    <3>1. Times(<<x_packet[0]>>, p) = Is(x_packet[0], p) /\ Times(<<>>, p) = 0  BY TimesOne, TimesNone
    <3>2. Is(x_packet[0], p) \in Int /\ users[p] \in Int  BY <1>1 DEF Is, FrameTypes
    <3>. QED  BY <1>5, <3>1, <3>2
  <2>2. Times(x_packet', p) = Times(x_packet, p) - Is(x_packet[0], p) + Is(None, p)
    <3>1. DOMAIN x_packet = Slots(x_order) /\ DOMAIN x_packet' = Slots(x_order)
          /\ \A k \in Slots(x_order) : x_packet'[k] = IF k = 0 THEN None ELSE x_packet[k]
      BY <1>1, <1>2
    <3>2. x_order \in Nat /\ 0 \in Slots(x_order)  BY <1>1
    <3>. QED  BY <3>1, <3>2, TimesStored
  <2>3. Is(None, p) = 0  BY DEF Is, None, Frames
  <2>4. users[p] = Times(x_packet, p) + patch[p] + Passed(p)  BY <1>1 DEF FramesCounted, Kept
  <2>5. Times(x_packet, p) \in Int /\ patch[p] \in Int /\ Is(x_packet[0], p) \in Int
    BY <1>1, TimesKept DEF FrameTypes, Is
  <2>6. Kept(p)' = Times(x_packet', p) /\ Passed(p)' = 0 /\ Passed(p) = 0 /\ patch'[p] = patch[p]
    BY <1>2 DEF Kept, Passed
  <2>. QED  BY <2>1, <2>2, <2>3, <2>4, <2>5, <2>6
<1>7. FramesCounted'  BY <1>6 DEF FramesCounted
<1>8. RecordInside'
  <2>1. DOMAIN x_packet' = DOMAIN x_packet  BY <1>2
  <2>. QED  BY <1>2, <2>1 DEF FrameInv, RecordInside, loopVars
<1>. QED  BY <1>1, <1>2, <1>4, <1>5, <1>7, <1>8, OtherStep DEF loopVars

LEMMA HoldStepKeeps ==
    ASSUME FrameInv, HoldStep
    PROVE  FrameInv'
<1>1. FrameTypes /\ x_packet[0] \in MaybeFrames  BY SlotZero DEF FrameInv
<1>2. \A p \in Frames : p \in MaybeFrames  BY DEF MaybeFrames
<1>3. ASSUME NEW p \in Frames, pdp_reg_input(p) PROVE FrameInv'
  BY <1>2, <1>3, HoldStoreKeeps DEF pdp_reg_input
<1>4. ASSUME NEW p \in Frames, pdp_reg_load_png(p) PROVE FrameInv'
  BY <1>2, <1>4, HoldStoreKeeps DEF pdp_reg_load_png
<1>5. ASSUME NEW p \in Frames, pdp_snap_input_1(p) PROVE FrameInv'
  BY <1>2, <1>5, HoldStoreKeeps DEF pdp_snap_input_1
<1>6. ASSUME NEW p \in Frames, ConvertRegister(p) PROVE FrameInv'
  <2>1. PICK q \in {r \in Frames : users[r] = 0} \cup {p, None} : Store(0, q)  BY <1>6, Zenon DEF ConvertRegister
  <2>2. q \in MaybeFrames  BY DEF MaybeFrames
  <2>3. fobj = "convert" /\ UNCHANGED <<fobj, patch, loopVars, delVars, frame>>  BY <1>6 DEF ConvertRegister
  <2>. QED  BY <2>1, <2>2, <2>3, HoldStoreKeeps
<1>7. CASE pdp_snap_snap  BY <1>7, HoldQuiet DEF pdp_snap_snap
<1>8. CASE HoldBang \/ ConvertProcess
  <2>1. fobj \notin {"loop", "del"} /\ UNCHANGED <<fobj, users, patch, x_packet, loopVars, delVars>>
        /\ frame' = [phase |-> "pdp", packet |-> x_packet[0]]
    BY <1>8 DEF HoldBang, ConvertProcess
  <2>2. \E ph \in {"float", "pdp"}, r \in MaybeFrames : frame' = [phase |-> ph, packet |-> r]  BY <1>1, <2>1
  <2>. QED  BY <2>1, <2>2, HoldQuiet
<1>9. CASE HoldReturns  BY <1>9, HoldQuiet DEF HoldReturns
<1>10. CASE ConvertPassed  BY <1>10, ConvertPassedKeeps
<1>. QED  BY <1>3, <1>4, <1>5, <1>6, <1>7, <1>8, <1>9, <1>10 DEF HoldStep

-----------------------------------------------------------------------------
(* pdp_del *)
LEMMA DelTypes ==
    ASSUME FrameInv, fobj = "del"
    PROVE  /\ x_order \in Nat \ {0} /\ x_packet \in [Slots(x_order) -> MaybeFrames]
           /\ x_head \in 0..x_order - 1 /\ x_delay \in 0..x_order - 1
           /\ history \in Seq(MaybeFrames) /\ Len(history) <= x_order /\ Len(history) \in Nat
           /\ DOMAIN history = 1..Len(history)
BY DEF FrameInv, FrameTypes, RingOrdered

(* A packet goes into the slot at the head: the ring is what it was, one    *)
(* place further, and the oldest packet of a full ring is gone.             *)
LEMMA DelRegisterKeeps ==
    ASSUME FrameInv, NEW p \in Frames, DelRegister(p)
    PROVE  FrameInv'
<1> DEFINE n == x_order
           h == history
           l == IF Len(h) < n THEN Len(h) + 1 ELSE n
<1>1. fobj = "del" /\ frame = NoFrame /\ ~awaiting /\ Store(x_head % n, p)
      /\ history' = SubSeq(<<p>> \o h, 1, l) /\ awaiting' = TRUE
      /\ UNCHANGED <<fobj, patch, x_play_head, x_record_head, x_recording_frames, x_head, x_delay, frame>>
  BY DEF DelRegister, loopVars
<1>2. /\ n \in Nat \ {0} /\ x_packet \in [Slots(n) -> MaybeFrames]
      /\ x_head \in 0..n - 1 /\ x_delay \in 0..n - 1
      /\ h \in Seq(MaybeFrames) /\ Len(h) <= n /\ Len(h) \in Nat /\ DOMAIN h = 1..Len(h)
  BY <1>1, DelTypes
<1>3. FrameTypes /\ FramesCounted /\ p \in MaybeFrames  BY DEF FrameInv, MaybeFrames
<1>4. x_head % n = x_head /\ x_head \in Slots(n)  BY <1>2, SmallRemainder DEF Slots
<1>5. /\ users' \in [Frames -> Int] /\ x_order' = n /\ x_packet' \in [Slots(x_order') -> MaybeFrames]
      /\ x_packet' = [x_packet EXCEPT ![x_head] = p] /\ FramesCounted'
  BY <1>1, <1>3, <1>4, StoreCounts
<1> HIDE DEF n
<1>6. /\ history' \in Seq(MaybeFrames) /\ Len(history') = l /\ l \in 1..n
      /\ DOMAIN history' = 1..l
      /\ \A k \in 1..l : history'[k] = IF k = 1 THEN p ELSE h[k - 1]
  <2> DEFINE s == <<p>> \o h
  <2>1. s \in Seq(MaybeFrames) /\ Len(s) = Len(h) + 1 /\ \A k \in 1..Len(s) : s[k] = IF k = 1 THEN p ELSE h[k - 1]
    BY <1>2, <1>3
  <2>2. l \in 1..n /\ l <= Len(s) /\ 1 \in 1..Len(s) + 1 /\ l \in 0..Len(s)  BY <1>2, <2>1
  <2> HIDE DEF s, l
  <2>3. SubSeq(s, 1, l) \in Seq(MaybeFrames) /\ Len(SubSeq(s, 1, l)) = l
        /\ \A k \in 1..l : SubSeq(s, 1, l)[k] = s[k]
    BY <2>1, <2>2
  <2>4. history' = SubSeq(s, 1, l)  BY <1>1 DEF s
  <2>5. \A k \in 1..l : k \in 1..Len(s)  BY <2>1, <2>2
  <2>6. DOMAIN SubSeq(s, 1, l) = 1..l  BY <2>3
  <2>. QED  BY <2>1, <2>2, <2>3, <2>4, <2>5, <2>6
<1>7. ASSUME NEW k \in 0..n - 1
      PROVE  x_packet'[(x_head + 0 + k) % n] = Delayed(k + 1)'
  <2>1. CASE k = 0
    <3>1. (x_head + 0 + k) % n = x_head  BY <1>2, <1>4, <2>1
    <3>2. x_packet'[x_head] = p  BY <1>2, <1>4, <1>5
    <3>3. Delayed(k + 1)' = p  BY <1>6, <2>1 DEF Delayed
    <3>. QED  BY <3>1, <3>2, <3>3
  <2>2. CASE k # 0
    <3> DEFINE j == (x_head + k) % n
    <3>0. x_head + k \in Int  BY <1>2
    <3>1. j \in Slots(n)  BY <1>2, <3>0, DivMod DEF Slots
    <3>2. j # x_head
      <4>1. x_head < x_head + k /\ x_head + k - x_head < n /\ x_head \in Int /\ x_head + k \in Int  BY <1>2, <2>2
      <4> DEFINE y == x_head + k
      <4> HIDE DEF y
      <4>2. x_head % n # y % n
        <5>1. y \in Int /\ x_head < y /\ y - x_head < n  BY <1>2, <4>1 DEF y
        <5>. QED  BY <1>2, <4>1, <5>1, ModDistinct
      <4>. QED  BY <1>4, <4>2 DEF y
    <3>3. x_packet'[j] = x_packet[j]
      <4> HIDE DEF j
      <4>. QED  BY <1>2, <1>5, <3>1, <3>2
    <3>4. x_packet[(x_head + 1 + (k - 1)) % n] = Delayed((k - 1) + 1)
      <4>1. k - 1 \in 0..n - 1  BY <1>2, <2>2
      <4>. QED  BY <1>1, <4>1 DEF FrameInv, RingOrdered, n
    <3>5. x_head + 1 + (k - 1) = x_head + k /\ (k - 1) + 1 = k /\ x_head + 0 + k = x_head + k  BY <1>2
    <3>6. Delayed(k + 1)' = Delayed(k)
      <4>1. k + 1 \in 1..l <=> k \in 1..Len(h)  BY <1>2, <2>2
      <4> HIDE DEF l
      <4>2. (k + 1) - 1 = k /\ k + 1 # 1  BY <1>2, <2>2
      <4>. QED  BY <1>2, <1>6, <4>1, <4>2 DEF Delayed
    <3>. QED  BY <3>3, <3>4, <3>5, <3>6
  <2>. QED  BY <2>1, <2>2
<1>8. RingOrdered'
  <2>1. x_order' = n /\ x_head' = x_head /\ x_delay' = x_delay /\ awaiting' = TRUE /\ Len(history') <= n
    BY <1>1, <1>2, <1>5, <1>6
  <2>. QED  BY <1>2, <1>7, <2>1 DEF RingOrdered
<1>9. RecordInside'
  <2>1. DOMAIN x_packet' = DOMAIN x_packet  BY <1>5
  <2>. QED  BY <1>1, <2>1 DEF FrameInv, RecordInside
<1>10. DelaySent'  BY <1>1 DEF DelaySent
<1>11. FrameTypes'  BY <1>1, <1>2, <1>3, <1>5, <1>6 DEF FrameTypes
<1>. QED  BY <1>5, <1>8, <1>9, <1>10, <1>11 DEF FrameInv

(* The packet that goes out is the one of x_delay registers before, and it  *)
(* has a reference of its own until it is processed.                        *)
LEMMA DelProcessKeeps ==
    ASSUME FrameInv, DelProcess
    PROVE  FrameInv'
<1> DEFINE q == x_packet[(x_head + x_delay) % x_order]
           out == <<>>
           in == <<q>>
<1>1. fobj = "del" /\ frame = NoFrame /\ awaiting /\ frame' = [phase |-> "pdp", packet |-> q] /\ Update(out, in)
      /\ UNCHANGED <<fobj, patch, x_packet, loopVars, delVars>>
  BY DEF DelProcess
<1>2. /\ x_order \in Nat \ {0} /\ x_packet \in [Slots(x_order) -> MaybeFrames]
      /\ x_head \in 0..x_order - 1 /\ x_delay \in 0..x_order - 1
  BY <1>1, DelTypes
<1>3. (x_head + x_delay) % x_order \in Slots(x_order)  BY <1>2, DivMod DEF Slots
<1>4. q \in MaybeFrames  BY <1>2, <1>3
<1>5. q = Delayed(x_delay + 1)
  <2>1. x_packet[(x_head + 0 + x_delay) % x_order] = Delayed(x_delay + 1)
    BY <1>1, <1>2 DEF FrameInv, RingOrdered
  <2>2. x_head + 0 + x_delay = x_head + x_delay  BY <1>2
  <2>. QED  BY <2>1, <2>2
<1>6. FrameTypes /\ FramesCounted  BY DEF FrameInv
<1> HIDE DEF q
<1>7. users' \in [Frames -> Int] /\ \A p \in Frames : users'[p] = users[p] - Times(<<>>, p) + Times(<<q>>, p)
  BY <1>1, <1>4, <1>6, UsersOne
<1>8. x_order' = x_order  BY <1>1 DEF x_order
<1>9. FrameTypes'
  <2>1. frame' \in [phase : {"none", "float", "pdp"}, packet : MaybeFrames] /\ frame'.phase # "none"
    BY <1>1, <1>4
  <2>. QED  BY <1>1, <1>6, <1>7, <1>8, <2>1 DEF FrameTypes, loopVars, delVars
<1>10. ASSUME NEW p \in Frames PROVE users'[p] = Kept(p)' + patch'[p] + Passed(p)'
  <2>1. users'[p] = users[p] + Is(q, p)
    <3>1. Times(<<q>>, p) = Is(q, p) /\ Times(<<>>, p) = 0  BY TimesOne, TimesNone
    <3>2. Is(q, p) \in Int /\ users[p] \in Int  BY <1>6 DEF Is, FrameTypes
    <3>. QED  BY <1>7, <3>1, <3>2
  <2>2. users[p] = Kept(p) + patch[p] + Passed(p)  BY <1>6 DEF FramesCounted
  <2>3. Passed(p) = 0  BY <1>1 DEF Passed, NoFrame, None, Frames
  <2>4. Passed(p)' = Is(q, p)  BY <1>1 DEF Passed, Is
  <2>5. Kept(p)' = Kept(p) /\ patch'[p] = patch[p]  BY <1>1 DEF Kept
  <2>6. Kept(p) \in Int /\ patch[p] \in Int /\ Is(q, p) \in Int  BY <1>6, TimesKept DEF Kept, FrameTypes, Is
  <2>. QED  BY <2>1, <2>2, <2>3, <2>4, <2>5, <2>6
<1>11. FramesCounted'  BY <1>10 DEF FramesCounted
<1>12. RecordInside' /\ RingOrdered'  BY <1>1, SameRing DEF loopVars
<1>13. DelaySent'
  <2>1. awaiting' = awaiting /\ x_delay' = x_delay /\ history' = history /\ frame'.packet = q
    BY <1>1 DEF delVars
  <2>. QED  BY <1>1, <1>5, <2>1 DEF DelaySent, Delayed
<1>. QED  BY <1>9, <1>11, <1>12, <1>13 DEF FrameInv

(* The packet is let go and the head goes one slot back. *)
LEMMA DelAdvancesKeeps ==
    ASSUME FrameInv, DelAdvances
    PROVE  FrameInv'
<1> DEFINE n == x_order
           q == frame.packet
           out == <<q>>
           in == <<>>
<1>1. fobj = "del" /\ frame # NoFrame /\ Update(out, in) /\ frame' = NoFrame
      /\ x_head' = (x_head + n - 1) % n /\ awaiting' = FALSE
      /\ UNCHANGED <<fobj, patch, x_packet, loopVars, x_delay, history>>
  BY DEF DelAdvances
<1>2. /\ n \in Nat \ {0} /\ x_packet \in [Slots(n) -> MaybeFrames]
      /\ x_head \in 0..n - 1 /\ x_delay \in 0..n - 1
      /\ history \in Seq(MaybeFrames) /\ Len(history) <= n
  BY <1>1, DelTypes
<1>3. FrameTypes /\ FramesCounted /\ q \in MaybeFrames  BY DEF FrameInv, FrameTypes
<1>4. awaiting  BY <1>1 DEF FrameInv, DelaySent
<1>5. x_order' = n  BY <1>1 DEF x_order
<1>6. users' \in [Frames -> Int] /\ \A p \in Frames : users'[p] = users[p] - Times(<<q>>, p) + Times(<<>>, p)
  BY <1>1, <1>3, UsersOne
<1>7. x_head' \in 0..n - 1 /\ x_head' \in Int  BY <1>1, <1>2, DivMod
<1>8. FrameTypes'
  <2>1. frame' \in [phase : {"none", "float", "pdp"}, packet : MaybeFrames] /\ awaiting' \in BOOLEAN
    BY <1>1 DEF NoFrame, MaybeFrames
  <2>. QED  BY <1>1, <1>3, <1>5, <1>6, <1>7, <2>1 DEF FrameTypes, loopVars
<1>9. ASSUME NEW p \in Frames PROVE users'[p] = Kept(p)' + patch'[p] + Passed(p)'
  <2>1. users'[p] = users[p] - Is(q, p)
    <3>1. Times(<<q>>, p) = Is(q, p) /\ Times(<<>>, p) = 0  BY TimesOne, TimesNone
    <3>2. Is(q, p) \in Int /\ users[p] \in Int  BY <1>3 DEF Is, FrameTypes
    <3>. QED  BY <1>6, <3>1, <3>2
  <2>2. users[p] = Kept(p) + patch[p] + Passed(p)  BY <1>3 DEF FramesCounted
  <2>3. Passed(p) = Is(q, p)  BY <1>1 DEF Passed, Is
  <2>4. Passed(p)' = 0  BY <1>1 DEF Passed, NoFrame, None, Frames
  <2>5. Kept(p)' = Kept(p) /\ patch'[p] = patch[p]  BY <1>1 DEF Kept
  <2>6. Kept(p) \in Int /\ patch[p] \in Int /\ Is(q, p) \in Int  BY <1>3, TimesKept DEF Kept, FrameTypes, Is
  <2>. QED  BY <2>1, <2>2, <2>3, <2>4, <2>5, <2>6
<1>10. FramesCounted'  BY <1>9 DEF FramesCounted
<1>11. RecordInside'  BY <1>1 DEF FrameInv, RecordInside, loopVars
<1> HIDE DEF n
<1>12. ASSUME NEW k \in 0..n - 1
       PROVE  x_packet'[(x_head' + 1 + k) % n] = Delayed(k + 1)'
  <2>1. (x_head' + 1 + k) % n = (x_head + 0 + k) % n
    <3> DEFINE a == x_head + n - 1
    <3>1. a \in Int /\ 1 + k \in Int  BY <1>2
    <3>2. (a + (1 + k)) % n = ((a % n) + (1 + k)) % n
      <4> HIDE DEF a
      <4>. QED  BY <1>2, <3>1, ModAdd
    <3>3. a + (1 + k) = (x_head + 0 + k) + n * 1  BY <1>2
    <3>4. ((x_head + 0 + k) + n * 1) % n = (x_head + 0 + k) % n
      <4> DEFINE b == x_head + 0 + k
      <4>1. b \in Int  BY <1>2
      <4>2. (b + n * 1) % n = b % n
        <5> DEFINE one == 1
        <5>1. one \in Int  OBVIOUS
        <5>2. (b + n * one) % n = b % n
          <6> HIDE DEF b, one
          <6>. QED  BY <1>2, <4>1, <5>1, ModShift
        <5>. QED  BY <5>2
      <4>. QED  BY <4>2
    <3>5. (a % n) + (1 + k) = x_head' + 1 + k  BY <1>1, <1>2, <1>7
    <3>. QED  BY <3>2, <3>3, <3>4, <3>5
  <2>2. x_packet[(x_head + 0 + k) % n] = Delayed(k + 1)
    BY <1>1, <1>4 DEF FrameInv, RingOrdered, n
  <2>3. Delayed(k + 1)' = Delayed(k + 1) /\ x_packet' = x_packet  BY <1>1 DEF Delayed
  <2>. QED  BY <2>1, <2>2, <2>3
<1>13. RingOrdered'
  <2>1. x_order' = n /\ x_delay' = x_delay /\ awaiting' = FALSE /\ Len(history') <= n  BY <1>1, <1>2, <1>5
  <2>. QED  BY <1>2, <1>7, <1>12, <2>1 DEF RingOrdered
<1>14. DelaySent'  BY <1>1 DEF DelaySent
<1>. QED  BY <1>8, <1>10, <1>11, <1>13, <1>14 DEF FrameInv

LEMMA DelDelayKeeps ==
    ASSUME FrameInv, NEW d \in Positions, pdp_del_delay(d)
    PROVE  FrameInv'
<1>1. /\ fobj = "del" /\ frame = NoFrame
      /\ x_delay' = IF d < 0 THEN 0 ELSE IF d >= x_order THEN x_order - 1 ELSE d
      /\ UNCHANGED <<fobj, users, patch, x_packet, loopVars, x_head, history, awaiting, frame>>
  BY DEF pdp_del_delay
<1>2. x_order \in Nat \ {0}  BY <1>1, DelTypes
<1>3. FrameTypes /\ FramesCounted /\ \A p \in Frames : Passed(p)' = Passed(p)  BY <1>1 DEF FrameInv, Passed
<1>4. /\ users' \in [Frames -> Int] /\ x_order' = x_order
      /\ x_packet' \in [Slots(x_order') -> MaybeFrames] /\ FramesCounted'
  BY <1>1, <1>3, SameCounts
<1>5. x_delay' \in 0..x_order - 1 /\ x_delay' \in Int  BY <1>1, <1>2, FrameAssumption
<1>6. FrameTypes'  BY <1>1, <1>3, <1>4, <1>5 DEF FrameTypes, loopVars
<1>7. RecordInside'  BY <1>1 DEF FrameInv, RecordInside, loopVars
<1>8. RingOrdered'
  <2>1. \A j : Delayed(j)' = Delayed(j)  BY <1>1 DEF Delayed
  <2>. QED  BY <1>1, <1>4, <1>5, <2>1 DEF FrameInv, RingOrdered
<1>9. DelaySent'  BY <1>1 DEF DelaySent
<1>. QED  BY <1>4, <1>6, <1>7, <1>8, <1>9 DEF FrameInv

LEMMA DelResetKeeps ==
    ASSUME FrameInv, pdp_del_reset
    PROVE  FrameInv'
<1>1. fobj = "del" /\ frame = NoFrame /\ Update(All(x_packet), <<>>) /\ x_packet' = Empty(x_order)
      /\ x_head' = 0 /\ history' = [i \in DOMAIN history |-> None]
      /\ UNCHANGED <<fobj, patch, loopVars, x_delay, awaiting, frame>>
  BY DEF pdp_del_reset
<1>2. /\ x_order \in Nat \ {0} /\ x_delay \in 0..x_order - 1
      /\ history \in Seq(MaybeFrames) /\ Len(history) <= x_order /\ Len(history) \in Nat
      /\ DOMAIN history = 1..Len(history)
  BY <1>1, DelTypes
<1>3. FrameTypes /\ FramesCounted /\ \A p \in Frames : Passed(p)' = Passed(p)  BY <1>1 DEF FrameInv, Passed
<1>4. /\ users' \in [Frames -> Int] /\ x_order' = x_order
      /\ x_packet' \in [Slots(x_order') -> MaybeFrames] /\ FramesCounted'
  BY <1>1, <1>3, EmptyCounts
<1>5. history' \in Seq(MaybeFrames) /\ Len(history') = Len(history) /\ DOMAIN history' = DOMAIN history
  BY <1>1, <1>2 DEF MaybeFrames
<1>6. FrameTypes'  BY <1>1, <1>3, <1>4, <1>5 DEF FrameTypes, loopVars
<1>7. RecordInside'
  <2>1. fobj' = "del" /\ DOMAIN x_packet' = DOMAIN x_packet  BY <1>1, <1>3 DEF Empty, FrameTypes
  <2>. QED  BY <1>1, <2>1 DEF FrameInv, RecordInside, loopVars
<1>8. ASSUME NEW k \in 0..x_order - 1
      PROVE  x_packet'[(0 + (IF awaiting' THEN 0 ELSE 1) + k) % x_order] = Delayed(k + 1)'
  <2> DEFINE i == 0 + (IF awaiting' THEN 0 ELSE 1) + k
  <2>1. i \in Int  BY <1>2
  <2>2. Delayed(k + 1)' = None  BY <1>1 DEF Delayed
  <2> HIDE DEF i
  <2>3. i % x_order \in Slots(x_order)  BY <1>2, <2>1, DivMod DEF Slots
  <2>4. x_packet'[i % x_order] = None  BY <1>1, <2>3 DEF Empty
  <2>. QED  BY <2>2, <2>4 DEF i
<1>9. RingOrdered'
  <2>1. x_order' = x_order /\ x_head' = 0 /\ x_delay' = x_delay /\ Len(history') <= x_order  BY <1>1, <1>2, <1>4, <1>5
  <2>2. 0 \in 0..x_order - 1  BY <1>2
  <2>. QED  BY <1>2, <1>8, <2>1, <2>2 DEF RingOrdered
<1>10. DelaySent'  BY <1>1 DEF DelaySent
<1>. QED  BY <1>4, <1>6, <1>7, <1>9, <1>10 DEF FrameInv

LEMMA DelStepKeeps ==
    ASSUME FrameInv, DelStep
    PROVE  FrameInv'
BY DelRegisterKeeps, DelProcessKeeps, DelAdvancesKeeps, DelDelayKeeps, DelResetKeeps DEF DelStep

(* Freeing the object gives back what it kept. *)
LEMMA FreeKeeps ==
    ASSUME FrameInv, ObjectFree
    PROVE  FrameInv'
<1>1. frame = NoFrame /\ Update(All(x_packet), <<>>) /\ x_packet' = Empty(x_order) /\ fobj' = "freed"
      /\ UNCHANGED <<patch, loopVars, delVars, frame>>
  BY DEF ObjectFree
<1>2. FrameTypes /\ FramesCounted  BY DEF FrameInv
<1>3. \A p \in Frames : Passed(p)' = Passed(p)  BY <1>1 DEF Passed, NoFrame, None, Frames
<1>4. /\ users' \in [Frames -> Int] /\ x_order' = x_order
      /\ x_packet' \in [Slots(x_order') -> MaybeFrames] /\ FramesCounted'
  BY <1>1, <1>2, <1>3, EmptyCounts
<1>5. FrameTypes'  BY <1>1, <1>2, <1>4 DEF FrameTypes, loopVars, delVars, FrameClasses
<1>6. RecordInside' /\ RingOrdered' /\ DelaySent'  BY <1>1 DEF RecordInside, RingOrdered, DelaySent
<1>. QED  BY <1>4, <1>5, <1>6 DEF FrameInv

-----------------------------------------------------------------------------
(* The packet that goes out. *)
LEMMA SameHeld ==
    ASSUME FrameInv, SentHeld, UNCHANGED <<fobj, x_packet, frame>>
    PROVE  SentHeld'
BY DEF SentHeld, x_order

LEMMA HeldAgain ==
    ASSUME FrameInv, SentHeld, frame = NoFrame, UNCHANGED frame
    PROVE  SentHeld'
BY DEF SentHeld

LEMMA HeldLoop ==
    ASSUME FrameInv, SentHeld, LoopStep, {"input", "reset", "size"} \cap Nested = {}
    PROVE  SentHeld'
<1>1. FrameTypes /\ x_play_head \in Int /\ DOMAIN x_packet = Slots(x_order) /\ frame.packet \in MaybeFrames
  BY DEF FrameInv, FrameTypes
<1>2. "input" \notin Nested /\ "reset" \notin Nested /\ "size" \notin Nested  OBVIOUS
<1>3. CASE \E p \in Frames : pdp_loop_input_0(p)
  <2>. QED  BY <1>2, <1>3, HeldAgain DEF pdp_loop_input_0, Outside
<1>4. CASE pdp_loop_reset
  <2>. QED  BY <1>2, <1>4, HeldAgain DEF pdp_loop_reset, Outside
<1>5. CASE \E f \in Sizes : pdp_loop_resize(f)
  <2>1. frame = NoFrame /\ UNCHANGED frame  BY <1>2, <1>5 DEF pdp_loop_resize, Outside
  <2>. QED  BY <2>1, HeldAgain
<1>6. CASE pdp_loop_bang
  <2>1. x_packet' = x_packet /\ frame'.packet = x_packet[Wrapped(x_play_head)] /\ x_order' = x_order
    BY <1>6 DEF pdp_loop_bang, Wrapped, x_order
  <2>2. Wrapped(x_play_head) \in Slots(x_order)  BY <1>1, WrappedIn
  <2>. QED  BY <2>1, <2>2 DEF SentHeld
<1>7. CASE LoopOutputs
  <2>1. x_packet' = x_packet /\ frame'.packet = frame.packet /\ frame # NoFrame /\ fobj' = fobj /\ x_order' = x_order
    BY <1>7 DEF LoopOutputs, NoFrame, FrameInv, FrameTypes, x_order
  <2>. QED  BY <2>1 DEF SentHeld
<1>8. CASE LoopAdvances  BY <1>8 DEF LoopAdvances, SentHeld
<1>9. CASE pdp_loop_stop  BY <1>9, SameHeld DEF pdp_loop_stop
<1>10. ASSUME NEW i \in Positions, pdp_loop_store(i) \/ pdp_loop_seek(i) PROVE SentHeld'
  BY <1>10, SameHeld DEF pdp_loop_store, pdp_loop_record, pdp_loop_seek
<1>11. ASSUME NEW i \in Positions, pdp_loop_seek_hot(i) PROVE SentHeld'
  <2>1. x_packet' = x_packet /\ frame'.packet = x_packet[Wrapped(i)] /\ x_order' = x_order
    BY <1>11 DEF pdp_loop_seek_hot, x_order
  <2>2. Wrapped(i) \in Slots(x_order)  BY <1>1, WrappedIn, FrameAssumption
  <2>. QED  BY <2>1, <2>2 DEF SentHeld
<1>12. CASE \E i, j \in Positions : pdp_loop_record(i, j)  BY <1>12, SameHeld DEF pdp_loop_record
<1>13. CASE \E b \in BOOLEAN : pdp_loop_loop(b)  BY <1>13, SameHeld DEF pdp_loop_loop
<1>. QED  BY <1>3, <1>4, <1>5, <1>6, <1>7, <1>8, <1>9, <1>10, <1>11, <1>12, <1>13 DEF LoopStep

LEMMA HeldHold ==
    ASSUME FrameInv, SentHeld, HoldStep, {"input", "reset", "size"} \cap Nested = {}
    PROVE  SentHeld'
<1>1. FrameTypes /\ 0 \in Slots(x_order)  BY SlotZero DEF FrameInv
<1>2. "input" \notin Nested  OBVIOUS
<1>3. CASE \E p \in Frames : pdp_reg_input(p) \/ pdp_reg_load_png(p) \/ pdp_snap_input_1(p) \/ ConvertRegister(p)
  <2>1. frame = NoFrame /\ UNCHANGED frame
    BY <1>2, <1>3 DEF pdp_reg_input, pdp_reg_load_png, pdp_snap_input_1, ConvertRegister, Outside
  <2>. QED  BY <2>1, HeldAgain
<1>4. CASE pdp_snap_snap  BY <1>4, SameHeld DEF pdp_snap_snap
<1>5. CASE HoldBang \/ ConvertProcess
  <2>1. x_packet' = x_packet /\ frame'.packet = x_packet[0] /\ x_order' = x_order
    BY <1>5 DEF HoldBang, ConvertProcess, x_order
  <2>. QED  BY <1>1, <2>1 DEF SentHeld
<1>6. CASE HoldReturns \/ ConvertPassed  BY <1>6 DEF HoldReturns, ConvertPassed, SentHeld
<1>. QED  BY <1>3, <1>4, <1>5, <1>6 DEF HoldStep

LEMMA HeldKeeps ==
    ASSUME FrameInv, SentHeld, FrameNext, {"input", "reset", "size"} \cap Nested = {}
    PROVE  SentHeld'
<1>1. CASE PatchMakes \/ PatchKeeps \/ PatchReleases  BY <1>1, SameHeld DEF PatchMakes, PatchKeeps, PatchReleases
<1>2. CASE DelStep
  <2>1. fobj' = "del"
    BY <1>2 DEF DelStep, DelRegister, DelProcess, DelAdvances, pdp_del_delay, pdp_del_reset
  <2>. QED  BY <2>1 DEF SentHeld
<1>3. CASE ObjectFree  BY <1>3, HeldAgain DEF ObjectFree
<1>. QED  BY <1>1, <1>2, <1>3, HeldLoop, HeldHold DEF FrameNext

(* A packet in a slot has the reference of the slot. *)
LEMMA HeldAlive ==
    ASSUME FrameInv, SentHeld
    PROVE  OutputAlive
<1> SUFFICES ASSUME frame.phase = "pdp", frame.packet # None PROVE users[frame.packet] > 0
  BY DEF OutputAlive
<1> DEFINE q == frame.packet
<1>1. FrameTypes /\ FramesCounted /\ q \in Frames /\ frame # NoFrame
  BY DEF FrameInv, FrameTypes, MaybeFrames, NoFrame
<1> HIDE DEF q
<1>2. users[q] = Times(x_packet, q) + patch[q] + Passed(q)  BY <1>1 DEF FramesCounted, Kept
<1>3. Times(x_packet, q) \in Nat /\ patch[q] \in Nat /\ Passed(q) \in Nat
  BY <1>1, TimesKept DEF FrameTypes, Passed
<1>4. CASE fobj = "del"
  <2>1. Passed(q) = 1  BY <1>4 DEF Passed, q
  <2>. QED  BY <1>2, <1>3, <2>1 DEF q
<1>5. CASE fobj # "del"
  <2>1. \E i \in Slots(x_order) : x_packet[i] = q  BY <1>1, <1>5 DEF SentHeld, q
  <2>2. Times(x_packet, q) # 0  BY <1>1, <2>1, TimesKept
  <2>. QED  BY <1>2, <1>3, <2>2 DEF q
<1>. QED  BY <1>4, <1>5

-----------------------------------------------------------------------------
LEMMA FrameInitInv == FrameInit => FrameInv /\ SentHeld
<1> SUFFICES ASSUME FrameInit PROVE FrameInv /\ SentHeld  OBVIOUS
<1> DEFINE n == SlotsOf(fobj)
<1>1. n \in Nat \ {0} /\ (fobj = "del" => n = DelSlots)
      /\ fobj \in {"loop", "del", "reg", "snap", "convert"}
  BY FrameAssumption DEF FrameInit, SlotsOf, DelSlots, pdp_loop_realsize
<1>2. x_packet = Empty(n)  BY DEF FrameInit
<1> HIDE DEF n
<1>3. x_packet \in [Slots(n) -> MaybeFrames]  BY <1>2 DEF Empty, MaybeFrames
<1>4. x_order = n /\ x_packet \in [Slots(x_order) -> MaybeFrames]
  <2>1. x_order = n  BY <1>1, <1>3, OneOrder
  <2>. QED  BY <1>3, <2>1
<1>5. x_delay \in Int /\ (fobj = "del" => x_delay \in 0..n - 1)
  BY <1>1, FrameAssumption DEF FrameInit, DelSlots
<1>6. /\ users = [p \in Frames |-> 0] /\ patch = [p \in Frames |-> 0]
      /\ x_play_head = 0 /\ x_record_head = 0 /\ x_recording_frames = 0
      /\ x_head = 0 /\ frame = NoFrame /\ history = <<>> /\ awaiting = FALSE
  BY DEF FrameInit
<1>7. FrameTypes
  <2>1. users \in [Frames -> Int] /\ patch \in [Frames -> {0, 1}]  BY <1>6
  <2>2. frame \in [phase : {"none", "float", "pdp"}, packet : MaybeFrames]  BY <1>6 DEF NoFrame, MaybeFrames
  <2>3. history \in Seq(MaybeFrames) /\ x_order \in Nat \ {0} /\ fobj \in FrameClasses
    BY <1>1, <1>4, <1>6 DEF FrameClasses
  <2>4. x_play_head \in Int /\ x_record_head \in Int /\ x_recording_frames \in Int
        /\ x_head \in Int /\ x_delay \in Int
    BY <1>5, <1>6
  <2>5. awaiting \in BOOLEAN /\ frame = NoFrame  BY <1>6
  <2>. QED  BY <1>4, <2>1, <2>2, <2>3, <2>4, <2>5 DEF FrameTypes
<1>8. FramesCounted
  <2> SUFFICES ASSUME NEW p \in Frames PROVE users[p] = Kept(p) + patch[p] + Passed(p)  BY DEF FramesCounted
  <2>1. p # None  BY DEF Frames, None
  <2>2. Kept(p) = 0  BY <1>1, <1>2, <2>1, TimesEmpty DEF Kept
  <2>3. Passed(p) = 0  BY <1>6, <2>1 DEF Passed, NoFrame
  <2>. QED  BY <1>6, <2>2, <2>3
<1>9. RecordInside  BY <1>6 DEF RecordInside
<1>10. ASSUME fobj = "del", NEW k \in 0..n - 1 PROVE x_packet[(0 + 1 + k) % n] = Delayed(k + 1)
  <2> DEFINE i == 0 + 1 + k
  <2>1. i \in Int  BY <1>1
  <2>2. Delayed(k + 1) = None  BY <1>6 DEF Delayed
  <2> HIDE DEF i
  <2>3. i % n \in Slots(n)  BY <1>1, <2>1, DivMod DEF Slots
  <2>4. x_packet[i % n] = None  BY <1>2, <2>3 DEF Empty
  <2>. QED  BY <2>2, <2>4 DEF i
<1>11. RingOrdered
  <2>1. 0 \in 0..n - 1 /\ Len(history) = 0 /\ 0 <= n  BY <1>1, <1>6
  <2>. QED  BY <1>4, <1>5, <1>6, <1>10, <2>1 DEF RingOrdered
<1>12. DelaySent /\ SentHeld  BY <1>6 DEF DelaySent, SentHeld
<1>. QED  BY <1>7, <1>8, <1>9, <1>11, <1>12 DEF FrameInv

LEMMA FrameStepInv == FrameInv /\ [FrameNext]_frameVars => FrameInv'
<1> SUFFICES ASSUME FrameInv, [FrameNext]_frameVars PROVE FrameInv'  OBVIOUS
<1>1. CASE UNCHANGED frameVars
  <2>1. UNCHANGED <<fobj, users, patch, x_packet, x_play_head, x_record_head, x_recording_frames, delVars, frame>>
    BY <1>1 DEF frameVars, loopVars
  <2>2. FrameTypes /\ FramesCounted /\ \A p \in Frames : Passed(p)' = Passed(p)  BY <2>1 DEF FrameInv, Passed
  <2>3. /\ users' \in [Frames -> Int] /\ x_order' = x_order
        /\ x_packet' \in [Slots(x_order') -> MaybeFrames] /\ FramesCounted'
    BY <2>1, <2>2, SameCounts
  <2>4. FrameTypes'  BY <2>1, <2>2, <2>3 DEF FrameTypes, delVars
  <2>5. RecordInside' /\ RingOrdered' /\ DelaySent'  BY <2>1, SameRing
  <2>. QED  BY <2>3, <2>4, <2>5 DEF FrameInv
<1>2. CASE FrameNext
  BY <1>2, PatchStepKeeps, LoopStepKeeps, DelStepKeeps, HoldStepKeeps, FreeKeeps DEF FrameNext
<1>. QED  BY <1>1, <1>2

LEMMA FrameInvSays == FrameInv => FramesCounted /\ RecordInside /\ DelayExact
<1>1. FrameInv /\ fobj = "del" /\ frame # NoFrame =>
        frame.packet = IF x_delay + 1 \in DOMAIN history THEN history[x_delay + 1] ELSE None
  BY DEF FrameInv, DelaySent, Delayed
<1>. QED  BY <1>1 DEF FrameInv, DelayExact

(* Whatever the patch sends from inside an outlet call, the objects that    *)
(* keep packets own each of them once, pdp_loop records inside its array    *)
(* and pdp_del delays by the registers asked for.                           *)
THEOREM FramesOwned == FrameSpec => [](FramesCounted /\ RecordInside /\ DelayExact)
<1>1. FrameInit => FrameInv  BY FrameInitInv
<1>. QED  BY <1>1, FrameStepInv, FrameInvSays, PTL DEF FrameSpec

(* When the patch sends no input, reset or size message from inside an      *)
(* outlet call, the packet that is sent out is alive too.                   *)
THEOREM FramesSound ==
    ASSUME {"input", "reset", "size"} \cap Nested = {}
    PROVE  FrameSpec => []FrameSound
<1> DEFINE I == FrameInv /\ SentHeld
<1>1. FrameInit => I  BY FrameInitInv
<1>2. I /\ [FrameNext]_frameVars => I'
  <2> SUFFICES ASSUME I, [FrameNext]_frameVars PROVE I'  OBVIOUS
  <2>1. FrameInv'  BY FrameStepInv
  <2>2. CASE FrameNext  BY <2>1, <2>2, HeldKeeps
  <2>3. CASE UNCHANGED frameVars
    <3>1. UNCHANGED <<fobj, x_packet, frame>>  BY <2>3 DEF frameVars
    <3>. QED  BY <2>1, <3>1, SameHeld
  <2>. QED  BY <2>2, <2>3
<1>3. I => FrameSound  BY FrameInvSays, HeldAlive DEF FrameSound
<1>. QED  BY <1>1, <1>2, <1>3, PTL DEF FrameSpec

-----------------------------------------------------------------------------
(* The routing objects.  A packet has passed, or some of its messages are   *)
(* to come.                                                                 *)
AfterFirst == <<"register_rw", "process">>
Phases == {<<>>, Pdp, AfterFirst, <<"process">>, Dpd, <<"accumulate">>}

Stack(s) == \E S : s \in Seq(S)
PhasesInv == phase \in Phases /\ Stack(outer) /\ \A k \in 1..Len(outer) : outer[k].phase \in Phases

(* pdp_route: while no packet has passed inside it, the messages of one     *)
(* that have come left through one outlet.                                  *)
OutletNumbers == 0..x_nb_outlets - 1
LeftWhole ==
    /\ phase \in {Pdp, Dpd} => sent = <<>>
    /\ phase = AfterFirst => sent = <<Event(x_route, "register_ro")>>
    /\ phase = <<"process">> => sent = <<Event(x_route, "register_ro"), Event(x_route, "register_rw")>>
    /\ phase = <<"accumulate">> => sent = Whole(x_route, Dpd)
    /\ phase = <<>> /\ sent # <<>> =>
          sent[Len(sent)].msg = "accumulate" \/ \E o \in OutletNumbers : sent = Whole(o, Pdp)
RouteInv == pobj = "route" =>
    /\ x_route \in OutletNumbers /\ x_route_next \in OutletNumbers
    /\ sole => LeftWhole

LEMMA Pushed ==
    ASSUME NEW s, Stack(s), NEW e
    PROVE  /\ Stack(Append(s, e)) /\ Len(s) \in Nat /\ Len(Append(s, e)) = Len(s) + 1
           /\ Append(s, e)[Len(s) + 1] = e /\ \A k \in 1..Len(s) : Append(s, e)[k] = s[k]
<1>1. PICK S : s \in Seq(S)  BY DEF Stack
<1>2. s \in Seq(S \cup {e}) /\ e \in S \cup {e}  BY <1>1
<1>3. Append(s, e) \in Seq(S \cup {e})  BY <1>2
<1>. QED  BY <1>2, <1>3 DEF Stack

LEMMA Popped ==
    ASSUME NEW s, Stack(s), s # <<>>
    PROVE  LET t == SubSeq(s, 1, Len(s) - 1)
           IN  /\ Stack(t) /\ Len(s) \in Nat \ {0} /\ Len(t) = Len(s) - 1
               /\ \A k \in 1..Len(t) : k \in 1..Len(s) /\ t[k] = s[k]
<1> DEFINE t == SubSeq(s, 1, Len(s) - 1)
<1>1. PICK S : s \in Seq(S)  BY DEF Stack
<1>2. Len(s) \in Nat /\ Len(s) >= 1  BY <1>1
<1>3. ASSUME NEW n \in 0..Len(s)
      PROVE  /\ SubSeq(s, 1, n) \in Seq(S) /\ Len(SubSeq(s, 1, n)) = n
             /\ \A k \in 1..n : SubSeq(s, 1, n)[k] = s[k]
  BY <1>1
<1>4. Len(s) - 1 \in 0..Len(s)  BY <1>2
<1>5. t \in Seq(S) /\ Len(t) = Len(s) - 1 /\ \A k \in 1..Len(s) - 1 : t[k] = s[k]  BY <1>3, <1>4
<1>6. Len(t) = Len(s) - 1 /\ \A k \in 1..Len(t) : k \in 1..Len(s) /\ t[k] = s[k]
  <2>. HIDE DEF t
  <2>. QED  BY <1>2, <1>5
<1>7. Stack(t)  BY <1>5 DEF Stack
<1>. QED  BY <1>2, <1>6, <1>7

LEMMA PhaseFacts ==
    /\ Head(Pdp) = "register_ro" /\ Tail(Pdp) = AfterFirst
    /\ Head(AfterFirst) = "register_rw" /\ Tail(AfterFirst) = <<"process">>
    /\ Head(<<"process">>) = "process" /\ Tail(<<"process">>) = <<>>
    /\ Head(Dpd) = "inspect" /\ Tail(Dpd) = <<"accumulate">>
    /\ Head(<<"accumulate">>) = "accumulate" /\ Tail(<<"accumulate">>) = <<>>
    /\ ToSet(Pdp) = {"register_ro", "register_rw", "process"} /\ ToSet(Dpd) = {"inspect", "accumulate"}
BY DEF Pdp, Dpd, AfterFirst, ToSet

LEMMA PhasesDiffer ==
    /\ Pdp # <<>> /\ Dpd # <<>> /\ AfterFirst # <<>> /\ <<"process">> # <<>> /\ <<"accumulate">> # <<>>
    /\ Pdp # Dpd /\ Pdp # AfterFirst /\ Pdp # <<"process">> /\ Pdp # <<"accumulate">>
    /\ Dpd # AfterFirst /\ Dpd # <<"process">> /\ Dpd # <<"accumulate">>
    /\ AfterFirst # <<"process">> /\ AfterFirst # <<"accumulate">> /\ <<"process">> # <<"accumulate">>
BY DEF Pdp, Dpd, AfterFirst

LEMMA WholeOf ==
    ASSUME NEW o
    PROVE  /\ Whole(o, Pdp) = <<Event(o, "register_ro"), Event(o, "register_rw"), Event(o, "process")>>
           /\ Whole(o, Dpd) = <<Event(o, "inspect"), Event(o, "accumulate")>>
BY DEF Whole, Pdp, Dpd

LEMMA AppendTo ==
    ASSUME NEW a, NEW b, NEW c
    PROVE  Append(<<a>>, b) = <<a, b>> /\ Append(<<a, b>>, c) = <<a, b, c>>
<1>1. Append(<<a>>, b) = <<a, b>>
  <2> DEFINE s == Append(<<a>>, b)
  <2>1. s \in Seq({a, b}) /\ Len(s) = 2 /\ s[1] = a /\ s[2] = b  OBVIOUS
  <2>2. <<a, b>> \in Seq({a, b}) /\ Len(<<a, b>>) = 2 /\ <<a, b>>[1] = a /\ <<a, b>>[2] = b  OBVIOUS
  <2>. HIDE DEF s
  <2>3. s = <<a, b>>  BY <2>1, <2>2, SeqEqual
  <2>. QED  BY <2>3 DEF s
<1>2. Append(<<a, b>>, c) = <<a, b, c>>
  <2> DEFINE s == Append(<<a, b>>, c)
  <2>1. s \in Seq({a, b, c}) /\ Len(s) = 3 /\ s[1] = a /\ s[2] = b /\ s[3] = c  OBVIOUS
  <2>2. /\ <<a, b, c>> \in Seq({a, b, c}) /\ Len(<<a, b, c>>) = 3
        /\ <<a, b, c>>[1] = a /\ <<a, b, c>>[2] = b /\ <<a, b, c>>[3] = c
    OBVIOUS
  <2>. HIDE DEF s
  <2>3. s = <<a, b, c>>  BY <2>1, <2>2, SeqEqual
  <2>. QED  BY <2>3 DEF s
<1>. QED  BY <1>1, <1>2

LEMMA OutletsType == x_nb_outlets \in Nat /\ x_nb_outlets >= 2
BY PatchAssumption DEF x_nb_outlets, PDP_ROUTE_MAX_NB_OUTLETS

LEMMA PhaseInvStep ==
    ASSUME PhasesInv, PatchNext
    PROVE  PhasesInv'
<1>1. CASE Begin
  <2>1. phase' \in Phases  BY <1>1 DEF Begin, Phases
  <2>2. CASE outer' = outer  BY <2>1, <2>2 DEF PhasesInv
  <2>3. CASE phase # <<>> /\ outer' = Append(outer, [phase |-> phase, serving |-> serving, sent |-> sent])
    <3> DEFINE e == [phase |-> phase, serving |-> serving, sent |-> sent]
    <3>1. e.phase \in Phases  BY DEF PhasesInv
    <3>. HIDE DEF e
    <3>2. outer' = Append(outer, e) /\ Stack(outer)  BY <2>3 DEF e, PhasesInv
    <3>3. /\ Stack(outer') /\ Len(outer) \in Nat /\ Len(outer') = Len(outer) + 1
          /\ outer'[Len(outer) + 1] = e /\ \A k \in 1..Len(outer) : outer'[k] = outer[k]
      BY <3>2, Pushed
    <3>4. ASSUME NEW k \in 1..Len(outer') PROVE outer'[k].phase \in Phases
      <4>1. k \in 1..Len(outer) \/ k = Len(outer) + 1  BY <3>3
      <4>. QED  BY <3>1, <3>3, <4>1 DEF PhasesInv
    <3>. QED  BY <2>1, <3>3, <3>4 DEF PhasesInv
  <2>. QED  BY <1>1, <2>2, <2>3 DEF Begin
<1>2. CASE Resumes
  <2>1. outer # <<>> /\ phase' = outer[Len(outer)].phase /\ outer' = SubSeq(outer, 1, Len(outer) - 1) /\ Stack(outer)
    BY <1>2 DEF Resumes, PhasesInv
  <2>2. /\ Stack(outer') /\ Len(outer) \in Nat \ {0}
        /\ \A k \in 1..Len(outer') : k \in 1..Len(outer) /\ outer'[k] = outer[k]
    BY <2>1, Popped
  <2>3. Len(outer) \in 1..Len(outer)  BY <2>2
  <2>. QED  BY <2>1, <2>2, <2>3 DEF PhasesInv
<1>3. CASE pdp_route_input_0 \/ pdp_route_input_0_dpd \/ pdp_inspect_input_0 \/ pdp_description_input
  <2>1. phase # <<>> /\ phase' = Tail(phase) /\ outer' = outer
    BY <1>3 DEF pdp_route_input_0, pdp_route_input_0_dpd, pdp_inspect_input_0, pdp_description_input
  <2>2. phase' \in Phases  BY <2>1, PhaseFacts DEF PhasesInv, Phases
  <2>. QED  BY <2>1, <2>2 DEF PhasesInv
<1>4. CASE pdp_trigger_input_pdp \/ pdp_trigger_input_dpd
  <2>1. phase # <<>> /\ (phase' = Tail(phase) \/ phase' = phase) /\ outer' = outer
    BY <1>4 DEF pdp_trigger_input_pdp, pdp_trigger_input_dpd, TriggerServes
  <2>2. phase' \in Phases  BY <2>1, PhaseFacts DEF PhasesInv, Phases
  <2>. QED  BY <2>1, <2>2 DEF PhasesInv
<1>5. CASE \/ \E f \in -1..x_nb_outlets : pdp_route_route(f)
           \/ metro_perform \/ (\E r \in Rates : metro_fps(r))
           \/ (\E c \in Controls : pdp_control_new(c) \/ pdp_control_free(c))
           \/ pdp_control_notify_drop \/ pdp_control_notify_broadcast \/ DropReturns
  <2>1. phase' = phase /\ outer' = outer
    BY <1>5 DEF pdp_route_route, metro_perform, metro_fps, pdp_control_new, pdp_control_free,
                pdp_control_notify_drop, pdp_control_notify_broadcast, DropReturns, routeVars
  <2>. QED  BY <2>1 DEF PhasesInv
<1>. QED  BY <1>1, <1>2, <1>3, <1>4, <1>5 DEF PatchNext

LEMMA RouteStep ==
    ASSUME phase \in Phases, RouteInv, PatchNext
    PROVE  RouteInv'
<1> SUFFICES ASSUME pobj' = "route" PROVE RouteInv'  BY DEF RouteInv
<1>0. x_nb_outlets \in Nat /\ x_nb_outlets >= 2  BY OutletsType
<1>1. CASE Begin
  BY <1>1, PhasesDiffer DEF Begin, RouteInv, LeftWhole, OutletNumbers
<1>2. CASE Resumes  BY <1>2 DEF Resumes, RouteInv
<1>3. CASE pdp_route_input_0
  <2> DEFINE r == x_route'
  <2>1. /\ pobj = "route" /\ phase # <<>> /\ Head(phase) \in ToSet(Pdp)
        /\ r = (IF Head(phase) = "register_ro" THEN x_route_next ELSE x_route)
        /\ sent' = Append(sent, Event(r, Head(phase))) /\ phase' = Tail(phase)
        /\ x_route_next' = x_route_next /\ sole' = sole
    BY <1>3 DEF pdp_route_input_0
  <2>2. r \in OutletNumbers /\ x_route_next \in OutletNumbers  BY <2>1 DEF RouteInv
  <2>3. phase \in {Pdp, AfterFirst, <<"process">>}
    BY <2>1, PhaseFacts DEF Phases
  <2>4. CASE phase = Pdp /\ sole
    <3>1. sent = <<>> /\ phase' = AfterFirst /\ sent' = Append(<<>>, Event(r, "register_ro"))
      BY <2>1, <2>4, PhaseFacts DEF RouteInv, LeftWhole
    <3>2. sent' = <<Event(r, "register_ro")>>  BY <3>1
    <3>. QED  BY <2>1, <2>2, <3>1, <3>2, PhasesDiffer DEF RouteInv, LeftWhole
  <2>5. CASE phase = AfterFirst /\ sole
    <3>1. sent = <<Event(x_route, "register_ro")>> /\ phase' = <<"process">> /\ r = x_route
          /\ sent' = Append(sent, Event(r, "register_rw"))
      BY <2>1, <2>5, PhaseFacts DEF RouteInv, LeftWhole
    <3>2. sent' = <<Event(r, "register_ro"), Event(r, "register_rw")>>  BY Zenon, <3>1, AppendTo
    <3>. QED  BY <2>1, <2>2, <3>1, <3>2, PhasesDiffer DEF RouteInv, LeftWhole
  <2>6. CASE phase = <<"process">> /\ sole
    <3>1. sent = <<Event(x_route, "register_ro"), Event(x_route, "register_rw")>> /\ phase' = <<>> /\ r = x_route
          /\ sent' = Append(sent, Event(r, "process"))
      BY <2>1, <2>6, PhaseFacts DEF RouteInv, LeftWhole
    <3>2. sent' = <<Event(r, "register_ro"), Event(r, "register_rw"), Event(r, "process")>>
      BY Zenon, <3>1, AppendTo
    <3>3. sent' = Whole(r, Pdp)  BY <3>2, WholeOf
    <3>. QED  BY <2>1, <2>2, <3>1, <3>3, PhasesDiffer DEF RouteInv, LeftWhole
  <2>7. CASE ~sole  BY <2>1, <2>2, <2>7 DEF RouteInv
  <2>. QED  BY <2>3, <2>4, <2>5, <2>6, <2>7
<1>4. CASE pdp_route_input_0_dpd
  <2> DEFINE r == x_route'
  <2>1. /\ pobj = "route" /\ phase # <<>> /\ Head(phase) \in ToSet(Dpd)
        /\ r = (IF Head(phase) = "accumulate" THEN x_route_next ELSE x_route)
        /\ sent' = sent \o Whole(r, Dpd) /\ phase' = Tail(phase)
        /\ x_route_next' = x_route_next /\ sole' = sole
    BY <1>4 DEF pdp_route_input_0_dpd
  <2>2. r \in OutletNumbers /\ x_route_next \in OutletNumbers  BY <2>1 DEF RouteInv
  <2>3. phase \in {Dpd, <<"accumulate">>}
    BY <2>1, PhaseFacts DEF Phases
  <2>4. CASE phase = Dpd /\ sole
    <3>1. sent = <<>> /\ phase' = <<"accumulate">> /\ sent' = <<>> \o Whole(r, Dpd)
      BY <2>1, <2>4, PhaseFacts DEF RouteInv, LeftWhole
    <3>2. sent' = Whole(r, Dpd)  BY <3>1, WholeOf
    <3>. QED  BY <2>1, <2>2, <3>1, <3>2, PhasesDiffer DEF RouteInv, LeftWhole
  <2>5. CASE phase = <<"accumulate">> /\ sole
    <3>1. sent = Whole(x_route, Dpd) /\ phase' = <<>>  BY <2>1, <2>5, PhaseFacts DEF RouteInv, LeftWhole
    <3>2. sent' = <<Event(x_route, "inspect"), Event(x_route, "accumulate")>> \o <<Event(r, "inspect"), Event(r, "accumulate")>>
      BY <2>1, <3>1, WholeOf
    <3>3. Len(sent') = 4 /\ sent'[4] = Event(r, "accumulate")  BY <3>2
    <3>4. sent'[Len(sent')].msg = "accumulate"  BY <3>3 DEF Event
    <3>. QED  BY <2>1, <2>2, <3>1, <3>4, PhasesDiffer DEF RouteInv, LeftWhole
  <2>6. CASE ~sole  BY <2>1, <2>2, <2>6 DEF RouteInv
  <2>. QED  BY <2>3, <2>4, <2>5, <2>6
<1>5. ASSUME NEW f \in -1..x_nb_outlets, pdp_route_route(f) PROVE RouteInv'
  <2>1. x_route_next' \in OutletNumbers  BY <1>0, <1>5 DEF pdp_route_route, OutletNumbers
  <2>. QED  BY <1>5, <2>1 DEF pdp_route_route, RouteInv, LeftWhole
<1>. QED
  BY <1>1, <1>2, <1>3, <1>4, <1>5 DEF PatchNext, pdp_trigger_input_pdp, pdp_trigger_input_dpd, TriggerServes,
     pdp_inspect_input_0, pdp_description_input, metro_perform, metro_fps, pdp_control_new, pdp_control_free,
     pdp_control_notify_drop, pdp_control_notify_broadcast, DropReturns

-----------------------------------------------------------------------------
(* pdp_trigger: when the turn is at an outlet, what has left for the message *)
(* under way is on its right, and nothing has left for those to come.  So it *)
(* is for the packets it was interrupted in.                                 *)
Messages == {"register_ro", "register_rw", "process", "inspect", "accumulate", "bang"}
Replies == [outlet : 1..Len(Trigger), msg : Messages, to : Messages]
InTurn(d, e) == d.outlet > e.outlet \/ (d.outlet = e.outlet /\ d.msg = "inspect" /\ e.msg = "accumulate")
Ordered(s) == \A i, j \in DOMAIN s : i < j /\ s[i].to = s[j].to => InTurn(s[i], s[j])
TurnOk(p, n, s) ==
    /\ n \in 1..Len(Trigger) /\ s \in Seq(Replies) /\ Ordered(s)
    /\ p # <<>> => \A i \in 1..Len(s) : s[i].to = p[1] => s[i].outlet > n
    /\ \A k \in 2..Len(p) : \A i \in 1..Len(s) : s[i].to # p[k]
TriggerInv == pobj = "trigger" =>
    /\ TurnOk(phase, serving, sent)
    /\ \A k \in 1..Len(outer) : TurnOk(outer[k].phase, outer[k].serving, outer[k].sent)

LEMMA PhaseShift ==
    ASSUME NEW p \in Phases, p # <<>>
    PROVE  /\ Head(p) = p[1] /\ Tail(p) \in Seq(Messages) /\ Len(p) \in Nat
           /\ Tail(p) # <<>> => 2 \in 2..Len(p) /\ Tail(p)[1] = p[2]
           /\ \A k \in 2..Len(Tail(p)) : k + 1 \in 2..Len(p) /\ Tail(p)[k] = p[k + 1]
           /\ \A k \in 2..Len(p) : p[1] # p[k]
<1>1. CASE p = Pdp  BY <1>1 DEF Pdp, Messages
<1>2. CASE p = AfterFirst  BY <1>2 DEF AfterFirst, Messages
<1>3. CASE p = <<"process">>  BY <1>3 DEF Messages
<1>4. CASE p = Dpd  BY <1>4 DEF Dpd, Messages
<1>5. CASE p = <<"accumulate">>  BY <1>5 DEF Messages
<1>. QED  BY <1>1, <1>2, <1>3, <1>4, <1>5 DEF Phases

LEMMA AnswerType ==
    ASSUME NEW p \in Phases, p # <<>>, NEW o \in 1..Len(Trigger)
    PROVE  LET a == Answer(o, Head(p))
           IN  /\ a \in Seq(Replies)
               /\ \A i \in 1..Len(a) : a[i].outlet = o /\ a[i].to = Head(p)
               /\ \A i, j \in 1..Len(a) : i < j => InTurn(a[i], a[j])
<1>. DEFINE m == Head(p)
            a == Answer(o, m)
<1>1. m \in Messages  BY PhaseFacts DEF Phases, Messages
<1>. HIDE DEF m
<1>2. \A x \in Messages : /\ Reply(o, x, m) \in Replies /\ Reply(o, x, m).outlet = o
                          /\ Reply(o, x, m).msg = x /\ Reply(o, x, m).to = m
  BY <1>1 DEF Reply, Replies
<1>3. \/ a = <<>> \/ \E x \in Messages : a = <<Reply(o, x, m)>>
      \/ a = <<Reply(o, "inspect", m), Reply(o, "accumulate", m)>>
  <2>1. CASE m = "inspect"  BY <2>1 DEF Answer
  <2>2. CASE m = "accumulate"  BY <2>2 DEF Answer, Messages
  <2>3. CASE m # "inspect" /\ m # "accumulate"  BY <1>1, <2>3 DEF Answer, Messages
  <2>. QED  BY <2>1, <2>2, <2>3
<1>4. "inspect" \in Messages /\ "accumulate" \in Messages  BY DEF Messages
<1>5. CASE a = <<>>
  <2>1. a \in Seq(Replies) /\ Len(a) = 0  BY <1>5
  <2>2. 1..Len(a) = {}  BY <2>1
  <2>. HIDE DEF a
  <2>. QED  BY <2>1, <2>2 DEF a, m
<1>6. ASSUME NEW x \in Messages, a = <<Reply(o, x, m)>>
      PROVE  /\ a \in Seq(Replies) /\ \A i \in 1..Len(a) : a[i].outlet = o /\ a[i].to = m
             /\ \A i, j \in 1..Len(a) : i < j => InTurn(a[i], a[j])
  <2>1. a \in Seq(Replies) /\ Len(a) = 1 /\ a[1] = Reply(o, x, m)  BY <1>2, <1>6
  <2>. HIDE DEF a
  <2>. QED  BY <2>1, <1>2
<1>7. CASE a = <<Reply(o, "inspect", m), Reply(o, "accumulate", m)>>
  <2>1. /\ a \in Seq(Replies) /\ Len(a) = 2
        /\ a[1] = Reply(o, "inspect", m) /\ a[2] = Reply(o, "accumulate", m)
    BY <1>2, <1>4, <1>7
  <2>. HIDE DEF a
  <2>2. \A i \in 1..Len(a) : a[i].outlet = o /\ a[i].to = m  BY <2>1, <1>2, <1>4
  <2>3. InTurn(a[1], a[2])  BY <2>1, <1>2, <1>4 DEF InTurn
  <2>4. \A i, j \in 1..Len(a) : i < j => i = 1 /\ j = 2  BY <2>1
  <2>. QED  BY <2>1, <2>2, <2>3, <2>4 DEF m, a
<1>. QED  BY <1>3, <1>5, <1>6, <1>7 DEF m

(* The turn of one outlet. *)
LEMMA TriggerServesStep ==
    ASSUME phase \in Phases, phase # <<>>, TurnOk(phase, serving, sent), TriggerServes
    PROVE  TurnOk(phase', serving', sent')
<1>. DEFINE a == Answer(serving, Head(phase))
            n == Len(sent)
<1>1. /\ serving \in 1..Len(Trigger) /\ sent \in Seq(Replies) /\ Ordered(sent)
      /\ \A i \in 1..Len(sent) : sent[i].to = phase[1] => sent[i].outlet > serving
      /\ \A k \in 2..Len(phase) : \A i \in 1..Len(sent) : sent[i].to # phase[k]
  BY DEF TurnOk
<1>2. /\ sent' = sent \o a
      /\ \/ serving = 1 /\ serving' = Len(Trigger) /\ phase' = Tail(phase)
         \/ serving # 1 /\ serving' = serving - 1 /\ phase' = phase
  BY DEF TriggerServes
<1>3. /\ a \in Seq(Replies)
      /\ \A i \in 1..Len(a) : a[i].outlet = serving /\ a[i].to = Head(phase)
      /\ \A i, j \in 1..Len(a) : i < j => InTurn(a[i], a[j])
  BY <1>1, AnswerType
<1>4. Head(phase) = phase[1]  BY PhaseShift
<1>5. Len(Trigger) \in Nat /\ Len(Trigger) >= 1
  BY PatchAssumption
<1>6. /\ sent' \in Seq(Replies) /\ n \in Nat /\ Len(a) \in Nat /\ Len(sent') = n + Len(a)
      /\ \A i \in 1..Len(sent') : IF i <= n THEN i \in 1..n /\ sent'[i] = sent[i]
                                  ELSE i - n \in 1..Len(a) /\ sent'[i] = a[i - n]
  <2>. HIDE DEF a
  <2>1. sent \in Seq(Replies) /\ a \in Seq(Replies)  BY <1>1, <1>3
  <2>2. sent \o a \in Seq(Replies) /\ Len(sent \o a) = Len(sent) + Len(a)
        /\ \A i \in 1..Len(sent) + Len(a) : (sent \o a)[i] = IF i <= Len(sent) THEN sent[i] ELSE a[i - Len(sent)]
    BY <2>1, ConcatProperties
  <2>. QED  BY <1>2, <2>1, <2>2
<1>. HIDE DEF a, n
<1>7. DOMAIN sent' = 1..Len(sent') /\ DOMAIN sent = 1..n  BY <1>1, <1>6 DEF n
<1>8. Ordered(sent')
  <2>1. SUFFICES ASSUME NEW i \in DOMAIN sent', NEW j \in DOMAIN sent', i < j, sent'[i].to = sent'[j].to
                 PROVE  InTurn(sent'[i], sent'[j])
    BY Zenon DEF Ordered
  <2>2. CASE j <= n
    <3>1. i \in DOMAIN sent /\ j \in DOMAIN sent /\ sent'[i] = sent[i] /\ sent'[j] = sent[j]
      BY <1>6, <1>7, <2>1, <2>2
    <3>. QED  BY <1>1, <2>1, <3>1 DEF Ordered
  <2>3. CASE j > n /\ i <= n
    <3>1. i \in 1..Len(sent) /\ j - n \in 1..Len(a) /\ sent'[i] = sent[i] /\ sent'[j] = a[j - n]
      BY <1>6, <1>7, <2>1, <2>3 DEF n
    <3>2. sent'[j].to = phase[1] /\ sent'[j].outlet = serving  BY <1>3, <1>4, <3>1
    <3>. QED  BY <1>1, <2>1, <3>1, <3>2 DEF InTurn
  <2>4. CASE i > n
    <3>1. /\ i - n \in 1..Len(a) /\ j - n \in 1..Len(a) /\ i - n < j - n
          /\ sent'[i] = a[i - n] /\ sent'[j] = a[j - n]
      BY <1>6, <1>7, <2>1, <2>4
    <3>. QED  BY <1>3, <3>1
  <2>. QED  BY <1>6, <1>7, <2>2, <2>3, <2>4
<1>9. \A i \in 1..Len(sent') : \/ sent'[i].outlet = serving /\ sent'[i].to = phase[1]
                               \/ i \in 1..Len(sent) /\ sent'[i] = sent[i]
  BY <1>3, <1>4, <1>6 DEF n
<1>10. ASSUME NEW k \in 2..Len(phase), NEW i \in 1..Len(sent') PROVE sent'[i].to # phase[k]
  BY <1>1, <1>9, <1>10, PhaseShift
<1>11. CASE serving # 1
  <2>1. serving' = serving - 1 /\ phase' = phase /\ serving' \in 1..Len(Trigger)  BY <1>1, <1>2, <1>5, <1>11
  <2>2. ASSUME NEW i \in 1..Len(sent') PROVE sent'[i].outlet \in Int
    <3>1. sent'[i] \in Replies  BY <1>6, ElementOfSeq
    <3>. QED  BY <3>1 DEF Replies
  <2>3. ASSUME NEW i \in 1..Len(sent'), sent'[i].to = phase[1] PROVE sent'[i].outlet > serving'
    BY <1>1, <1>9, <2>1, <2>2, <2>3
  <2>. QED  BY <1>6, <1>8, <1>10, <2>1, <2>3 DEF TurnOk
<1>12. CASE serving = 1
  <2>1. serving' = Len(Trigger) /\ phase' = Tail(phase) /\ serving' \in 1..Len(Trigger)  BY <1>2, <1>5, <1>12
  <2>2. phase' # <<>> => \A i \in 1..Len(sent') : sent'[i].to # phase'[1]
    BY <1>10, <2>1, PhaseShift
  <2>3. \A k \in 2..Len(phase') : \A i \in 1..Len(sent') : sent'[i].to # phase'[k]
    BY <1>10, <2>1, PhaseShift
  <2>. QED  BY <1>6, <1>8, <2>1, <2>2, <2>3 DEF TurnOk
<1>. QED  BY <1>11, <1>12

LEMMA TriggerStep ==
    ASSUME PhasesInv, TriggerInv, PatchNext
    PROVE  TriggerInv'
<1> SUFFICES ASSUME pobj' = "trigger" PROVE TriggerInv'  BY DEF TriggerInv
<1>1. CASE Begin
  <2>1. phase' \in {Pdp, Dpd} /\ sent' = <<>> /\ serving' = Len(Trigger) /\ pobj = "trigger"  BY <1>1 DEF Begin
  <2>2. serving' \in 1..Len(Trigger)  BY <2>1, PatchAssumption
  <2>3. sent' \in Seq(Replies) /\ Len(sent') = 0 /\ DOMAIN sent' = {}  BY <2>1
  <2>4. TurnOk(phase', serving', sent')  BY <2>2, <2>3 DEF TurnOk, Ordered
  <2>5. CASE outer' = outer  BY <2>1, <2>4, <2>5 DEF TriggerInv
  <2>6. CASE phase # <<>> /\ outer' = Append(outer, [phase |-> phase, serving |-> serving, sent |-> sent])
    <3> DEFINE e == [phase |-> phase, serving |-> serving, sent |-> sent]
    <3>1. TurnOk(e.phase, e.serving, e.sent)  BY <2>1 DEF TriggerInv
    <3>. HIDE DEF e
    <3>2. outer' = Append(outer, e) /\ Stack(outer)  BY <2>6 DEF e, PhasesInv
    <3>3. /\ Len(outer) \in Nat /\ Len(outer') = Len(outer) + 1
          /\ outer'[Len(outer) + 1] = e /\ \A k \in 1..Len(outer) : outer'[k] = outer[k]
      BY <3>2, Pushed
    <3>4. ASSUME NEW k \in 1..Len(outer') PROVE TurnOk(outer'[k].phase, outer'[k].serving, outer'[k].sent)
      <4>1. k \in 1..Len(outer) \/ k = Len(outer) + 1  BY <3>3
      <4>. QED  BY <2>1, <3>1, <3>3, <4>1 DEF TriggerInv
    <3>. QED  BY <2>4, <3>4 DEF TriggerInv
  <2>. QED  BY <1>1, <2>5, <2>6 DEF Begin
<1>2. CASE Resumes
  <2>1. /\ outer # <<>> /\ phase' = outer[Len(outer)].phase /\ serving' = outer[Len(outer)].serving
        /\ sent' = outer[Len(outer)].sent /\ outer' = SubSeq(outer, 1, Len(outer) - 1) /\ Stack(outer) /\ pobj = "trigger"
    BY <1>2 DEF Resumes, PhasesInv
  <2>2. /\ Len(outer) \in Nat \ {0}
        /\ \A k \in 1..Len(outer') : k \in 1..Len(outer) /\ outer'[k] = outer[k]
    BY <2>1, Popped
  <2>3. Len(outer) \in 1..Len(outer)  BY <2>2
  <2>4. TurnOk(phase', serving', sent')  BY <2>1, <2>3 DEF TriggerInv
  <2>. QED  BY <2>1, <2>2, <2>4 DEF TriggerInv
<1>3. CASE pdp_trigger_input_pdp \/ pdp_trigger_input_dpd
  <2>1. pobj = "trigger" /\ phase # <<>> /\ TriggerServes /\ outer' = outer
    BY <1>3 DEF pdp_trigger_input_pdp, pdp_trigger_input_dpd, TriggerServes
  <2>2. TurnOk(phase', serving', sent')  BY <2>1, TriggerServesStep DEF TriggerInv, PhasesInv
  <2>. QED  BY <2>1, <2>2 DEF TriggerInv
<1>. QED
  BY <1>1, <1>2, <1>3 DEF PatchNext, pdp_route_route, pdp_route_input_0, pdp_route_input_0_dpd, pdp_inspect_input_0,
     pdp_description_input, metro_perform, metro_fps, pdp_control_new, pdp_control_free,
     pdp_control_notify_drop, pdp_control_notify_broadcast, DropReturns
-----------------------------------------------------------------------------
(* pdp_metro~: the invariant is the property and the types it rests on. *)
MetroInv == pobj = "metro" =>
    /\ x_count \in Int /\ fed \in Int /\ bangs \in Int
    /\ x_rate \in [1..2 -> Int] /\ x_rate[1] >= 1 /\ x_rate[2] >= 1
    /\ fed = bangs * SampleRate * x_rate[2] + x_count
    /\ banged => x_count \in 1..SampleRate * x_rate[2]

LEMMA PeriodsLeave ==
    ASSUME NEW period \in Nat \ {0}, NEW n \in Int
    PROVE  /\ Periods(n, period) \in Int
           /\ Periods(n, period) > 0 => n - period * Periods(n, period) \in 1..period
<1>1. CASE n <= period  BY <1>1 DEF Periods
<1>2. CASE n > period
  <2> DEFINE k == (n - 1) \div period
  <2>0. n - 1 \in Int  OBVIOUS
  <2>1. k \in Int /\ (n - 1) % period \in 0..period - 1 /\ n - 1 = period * k + ((n - 1) % period)
    BY <2>0, DivMod
  <2>2. Periods(n, period) = k  BY <1>2 DEF Periods
  <2>3. n - period * k = ((n - 1) % period) + 1
    <3>. HIDE DEF k
    <3>. QED  BY <2>1
  <2>. HIDE DEF k
  <2>. QED  BY <2>1, <2>2, <2>3
<1>. QED  BY <1>1, <1>2

LEMMA Periodic ==
    ASSUME NEW s \in Int, NEW r \in Int, NEW b \in Int, NEW k \in Int
    PROVE  (b + k) * s * r = b * s * r + (s * r) * k
<1>1. (b + k) * s = b * s + k * s /\ b * s \in Int /\ k * s \in Int  OBVIOUS
<1>2. (b * s + k * s) * r = b * s * r + k * s * r  BY <1>1
<1>3. k * s * r = (s * r) * k  OBVIOUS
<1>. QED  BY <1>1, <1>2, <1>3

LEMMA MetroStep ==
    ASSUME MetroInv, PatchNext
    PROVE  MetroInv'
<1> SUFFICES ASSUME pobj' = "metro" PROVE MetroInv'  BY DEF MetroInv
<1>0. SampleRate \in Nat \ {0} /\ BlockSize \in Nat  BY PatchAssumption
<1>1. ASSUME NEW r \in Rates, metro_fps(r) PROVE MetroInv'
  <2>1. r[1] \in Int /\ r[2] \in Int  BY PatchAssumption
  <2>2. /\ pobj = "metro" /\ x_rate' = [i \in 1..2 |-> IF r[i] < 1 THEN 1 ELSE r[i]]
        /\ fed' = x_count /\ bangs' = 0 /\ banged' = FALSE /\ x_count' = x_count
    BY <1>1 DEF metro_fps
  <2>3. x_rate' \in [1..2 -> Int] /\ x_rate'[1] >= 1 /\ x_rate'[2] >= 1  BY <2>1, <2>2
  <2>4. 0 * SampleRate * x_rate'[2] = 0  BY <1>0, <2>3
  <2>. QED  BY <2>2, <2>3, <2>4 DEF MetroInv
<1>2. CASE metro_perform
  <2> DEFINE period == SampleRate * x_rate[2]
             n == x_count + BlockSize * x_rate[1]
             k == Periods(n, period)
  <2>1. /\ pobj = "metro" /\ x_count' = n - period * k /\ banged' = (k > 0) /\ bangs' = bangs + k
        /\ fed' = fed + BlockSize * x_rate[1] /\ x_rate' = x_rate
    BY <1>2 DEF metro_perform
  <2>2. /\ x_count \in Int /\ fed \in Int /\ bangs \in Int
        /\ x_rate \in [1..2 -> Int] /\ x_rate[1] \in Int /\ x_rate[2] \in Int /\ x_rate[2] >= 1 /\ x_rate[1] >= 1
        /\ fed = bangs * SampleRate * x_rate[2] + x_count
    BY <2>1 DEF MetroInv
  <2>3. period \in Nat \ {0} /\ n \in Int  BY <1>0, <2>2
  <2>4. k \in Int /\ (k > 0 => n - period * k \in 1..period)
    <3>. HIDE DEF period, n
    <3>. QED  BY <2>3, PeriodsLeave DEF k
  <2>. HIDE DEF k
  <2>5. (bangs + k) * SampleRate * x_rate[2] = bangs * SampleRate * x_rate[2] + period * k
    BY <1>0, <2>2, <2>4, Periodic
  <2>6. bangs * SampleRate * x_rate[2] \in Int /\ BlockSize * x_rate[1] \in Int  BY <1>0, <2>2
  <2>. HIDE DEF period
  <2>7. period * k \in Int  BY <2>3, <2>4
  <2>8. fed' = bangs' * SampleRate * x_rate[2] + x_count'  BY <2>1, <2>2, <2>5, <2>6, <2>7
  <2>9. banged' => x_count' \in 1..SampleRate * x_rate[2]  BY <2>1, <2>4 DEF period
  <2>10. x_count' \in Int /\ fed' \in Int /\ bangs' \in Int  BY <2>1, <2>2, <2>3, <2>4, <2>6, <2>7
  <2>. QED  BY <2>1, <2>2, <2>8, <2>9, <2>10 DEF MetroInv
<1>3. CASE Resumes  BY <1>3 DEF Resumes, metroVars, MetroInv
<1>. QED
  BY <1>1, <1>2, <1>3 DEF PatchNext, Begin, pdp_route_route, pdp_route_input_0, pdp_route_input_0_dpd,
     pdp_trigger_input_pdp, pdp_trigger_input_dpd, TriggerServes, pdp_inspect_input_0, pdp_description_input,
     pdp_control_new, pdp_control_free, pdp_control_notify_drop, pdp_control_notify_broadcast, DropReturns

-----------------------------------------------------------------------------
(* pdp_control: in every announcement under way, of the objects that were   *)
(* there all along those up to the one that is told have been told once and *)
(* those after it not yet.                                                  *)
Distinct(L) == \A i, j \in 1..Len(L) : L[i] = L[j] => i = j
WalkAt(w, L, p) ==
    L[p] = w.curr /\ \A k \in 1..Len(L) : L[k] \in w.present => w.told[L[k]] = (IF k <= p THEN 1 ELSE 0)
WalkOk(w, L) ==
    /\ DOMAIN w = {"curr", "present", "told"}
    /\ w.curr \in Controls \cup {"none"} /\ w.told \in [Controls -> Int]
    /\ \A c \in w.present : \E i \in 1..Len(L) : L[i] = c
    /\ w.curr # "none" => \E p \in 1..Len(L) : WalkAt(w, L, p)
    /\ w.curr = "none" => \A c \in w.present : w.told[c] = 1
ControlInv == pobj = "control" =>
    /\ pdp_control_list \in Seq(Controls) /\ Distinct(pdp_control_list)
    /\ Stack(walks) /\ \A k \in 1..Len(walks) : WalkOk(walks[k], pdp_control_list)

LEMMA Removed ==
    ASSUME NEW S, NEW s \in Seq(S), NEW i \in 1..Len(s)
    PROVE  /\ RemoveAt(s, i) \in Seq(S) /\ Len(RemoveAt(s, i)) = Len(s) - 1
           /\ \A k \in 1..Len(s) - 1 : /\ k < i => RemoveAt(s, i)[k] = s[k]
                                       /\ k >= i => RemoveAt(s, i)[k] = s[k + 1]
<1>. DEFINE a == SubSeq(s, 1, i - 1)
            b == SubSeq(s, i + 1, Len(s))
<1>1. a \in Seq(S) /\ Len(a) = i - 1 /\ \A k \in 1..i - 1 : a[k] = s[k]  OBVIOUS
<1>2. b \in Seq(S) /\ Len(b) = Len(s) - i /\ \A k \in 1..Len(s) - i : b[k] = s[k + i]  OBVIOUS
<1>3. RemoveAt(s, i) = a \o b  BY DEF RemoveAt
<1>. HIDE DEF a, b
<1>4. /\ a \o b \in Seq(S) /\ Len(a \o b) = Len(a) + Len(b)
      /\ \A k \in 1..Len(a) + Len(b) : (a \o b)[k] = IF k <= Len(a) THEN a[k] ELSE b[k - Len(a)]
  BY <1>1, <1>2, ConcatProperties
<1>5. Len(s) \in Nat /\ Len(a) + Len(b) = Len(s) - 1  BY <1>1, <1>2
<1>6. ASSUME NEW k \in 1..Len(s) - 1 PROVE (k < i => (a \o b)[k] = s[k]) /\ (k >= i => (a \o b)[k] = s[k + 1])
  <2>1. CASE k < i  BY <1>1, <1>4, <1>5, <2>1
  <2>2. CASE k >= i
    <3>1. (a \o b)[k] = b[k - (i - 1)] /\ k - (i - 1) \in 1..Len(s) - i  BY <1>1, <1>4, <1>5, <2>2
    <3>2. b[k - (i - 1)] = s[(k - (i - 1)) + i]  BY <1>2, <3>1
    <3>3. (k - (i - 1)) + i = k + 1  OBVIOUS
    <3>. QED  BY <2>2, <3>1, <3>2, <3>3
  <2>. QED  BY <2>1, <2>2
<1>. QED  BY <1>3, <1>4, <1>5, <1>6

(* An object leaves the list: the others keep their order. *)
LEMMA FreeWalk ==
    ASSUME NEW L \in Seq(Controls), Distinct(L), NEW f \in 1..Len(L)
    PROVE  LET M == RemoveAt(L, f)
           IN  /\ M \in Seq(Controls) /\ Distinct(M)
               /\ \A w : WalkOk(w, L) /\ w.curr # L[f] => WalkOk([w EXCEPT !.present = @ \ {L[f]}], M)
<1>. DEFINE M == RemoveAt(L, f)
            Old(k) == IF k < f THEN k ELSE k + 1
<1>4. Len(L) \in Nat /\ M \in Seq(Controls) /\ Len(M) = Len(L) - 1  BY Removed
<1>5. \A k \in 1..Len(M) : Old(k) \in 1..Len(L) /\ Old(k) # f /\ M[k] = L[Old(k)]
  <2>1. \A k \in 1..Len(L) - 1 : (k < f => M[k] = L[k]) /\ (k >= f => M[k] = L[k + 1])  BY Removed
  <2>. HIDE DEF M
  <2>. QED  BY <1>4, <2>1
<1>6. \A i \in 1..Len(L) : i # f => \E k \in 1..Len(M) : Old(k) = i
  <2>1. ASSUME NEW i \in 1..Len(L), i # f PROVE \E k \in 1..Len(M) : Old(k) = i
    <3>1. CASE i < f
      <4>1. i \in 1..Len(M) /\ Old(i) = i  BY <1>4, <2>1, <3>1
      <4>. QED  BY <4>1
    <3>2. CASE i > f
      <4>1. i - 1 \in 1..Len(M) /\ Old(i - 1) = i  BY <1>4, <2>1, <3>2
      <4>. QED  BY <4>1
    <3>. QED  BY <2>1, <3>1, <3>2
  <2>. QED  BY <2>1
<1>7. \A i, j \in 1..Len(M) : (Old(i) = Old(j) => i = j) /\ (Old(i) <= Old(j) <=> i <= j)  BY <1>4
<1>. HIDE DEF M, Old
<1>8. Distinct(M)
  <2>1. SUFFICES ASSUME NEW i \in 1..Len(M), NEW j \in 1..Len(M), M[i] = M[j] PROVE i = j  BY DEF Distinct
  <2>2. Old(i) \in 1..Len(L) /\ Old(j) \in 1..Len(L) /\ L[Old(i)] = L[Old(j)]  BY <1>5, <2>1
  <2>3. Old(i) = Old(j)  BY <2>2 DEF Distinct
  <2>. QED  BY <1>7, <2>3
<1>9. ASSUME NEW w, WalkOk(w, L), w.curr # L[f] PROVE WalkOk([w EXCEPT !.present = @ \ {L[f]}], M)
  <2> DEFINE v == [w EXCEPT !.present = @ \ {L[f]}]
  <2>1. /\ DOMAIN v = {"curr", "present", "told"} /\ v.curr = w.curr /\ v.told = w.told
        /\ v.present = w.present \ {L[f]}
    BY <1>9 DEF WalkOk
  <2>. HIDE DEF v
  <2>2. ASSUME NEW d \in v.present PROVE \E i \in 1..Len(M) : M[i] = d
    <3>1. PICK i \in 1..Len(L) : L[i] = d  BY <1>9, <2>1 DEF WalkOk
    <3>2. i # f  BY <2>1, <3>1
    <3>3. PICK k \in 1..Len(M) : Old(k) = i  BY <1>6, <3>2
    <3>. QED  BY <1>5, <3>1, <3>3
  <2>3. ASSUME v.curr # "none" PROVE \E p \in 1..Len(M) : WalkAt(v, M, p)
    <3>1. PICK p \in 1..Len(L) : WalkAt(w, L, p)  BY <1>9, <2>1, <2>3 DEF WalkOk
    <3>2. p # f  BY <1>9, <3>1 DEF WalkAt
    <3>3. PICK q \in 1..Len(M) : Old(q) = p  BY <1>6, <3>2
    <3>4. M[q] = v.curr  BY <1>5, <2>1, <3>1, <3>3 DEF WalkAt
    <3>5. ASSUME NEW k \in 1..Len(M), M[k] \in v.present PROVE v.told[M[k]] = (IF k <= q THEN 1 ELSE 0)
      <4>1. Old(k) \in 1..Len(L) /\ M[k] = L[Old(k)] /\ L[Old(k)] \in w.present  BY <1>5, <2>1, <3>5
      <4>2. Old(k) <= p <=> k <= q  BY <1>7, <3>3
      <4>. QED  BY <2>1, <3>1, <4>1, <4>2 DEF WalkAt
    <3>. QED  BY <3>4, <3>5 DEF WalkAt
  <2>4. v.curr = "none" => \A d \in v.present : v.told[d] = 1  BY <1>9, <2>1 DEF WalkOk
  <2>5. v.curr \in Controls \cup {"none"} /\ v.told \in [Controls -> Int]  BY <1>9, <2>1 DEF WalkOk
  <2>6. WalkOk(v, M)  BY <2>1, <2>2, <2>3, <2>4, <2>5 DEF WalkOk
  <2>. QED  BY <2>6 DEF v
<1>. QED  BY <1>4, <1>8, <1>9 DEF M

(* An object enters the list at its front. *)
LEMMA NewWalk ==
    ASSUME NEW L \in Seq(Controls), Distinct(L), NEW c \in Controls, c \notin ToSet(L)
    PROVE  LET M == <<c>> \o L
           IN  M \in Seq(Controls) /\ Distinct(M) /\ \A w : WalkOk(w, L) => WalkOk(w, M)
<1> DEFINE M == <<c>> \o L
<1>3. \A i \in 1..Len(L) : L[i] # c  BY DEF ToSet
<1>4. /\ Len(L) \in Nat /\ M \in Seq(Controls) /\ Len(M) = Len(L) + 1 /\ M[1] = c
      /\ \A k \in 1..Len(L) : M[k + 1] = L[k]
  OBVIOUS
<1>. HIDE DEF M
<1>5. \A k \in 2..Len(M) : k - 1 \in 1..Len(L) /\ M[k] = L[k - 1]
  <2>1. ASSUME NEW k \in 2..Len(M) PROVE k - 1 \in 1..Len(L) /\ M[k] = L[k - 1]
    <3>1. k - 1 \in 1..Len(L) /\ (k - 1) + 1 = k  BY <1>4
    <3>. QED  BY <1>4, <3>1
  <2>. QED  BY <2>1
<1>6. ASSUME NEW i \in 1..Len(M), NEW j \in 1..Len(M), M[i] = M[j] PROVE i = j
  <2>1. CASE i = 1 \/ j = 1  BY <1>3, <1>4, <1>5, <1>6, <2>1
  <2>2. CASE i # 1 /\ j # 1
    <3>1. i \in 2..Len(M) /\ j \in 2..Len(M)  BY <1>4, <2>2
    <3>2. i - 1 \in 1..Len(L) /\ j - 1 \in 1..Len(L) /\ L[i - 1] = L[j - 1]  BY <1>5, <1>6, <3>1
    <3>3. i - 1 = j - 1  BY <3>2 DEF Distinct
    <3>. QED  BY <3>1, <3>3
  <2>. QED  BY <2>1, <2>2
<1>7. ASSUME NEW w, WalkOk(w, L) PROVE WalkOk(w, M)
  <2>1. ASSUME NEW d \in w.present PROVE d # c /\ \E i \in 1..Len(M) : M[i] = d
    <3>1. PICK i \in 1..Len(L) : L[i] = d  BY <1>7 DEF WalkOk
    <3>2. i + 1 \in 1..Len(M) /\ M[i + 1] = d  BY <1>4, <3>1
    <3>. QED  BY <1>3, <3>1, <3>2
  <2>2. ASSUME w.curr # "none" PROVE \E p \in 1..Len(M) : WalkAt(w, M, p)
    <3>1. PICK p \in 1..Len(L) : WalkAt(w, L, p)  BY <1>7, <2>2 DEF WalkOk
    <3> DEFINE q == p + 1
    <3>2. q \in 1..Len(M) /\ M[q] = w.curr  BY <1>4, <3>1 DEF WalkAt
    <3>3. ASSUME NEW k \in 1..Len(M), M[k] \in w.present PROVE w.told[M[k]] = (IF k <= q THEN 1 ELSE 0)
      <4>1. k # 1  BY <1>4, <2>1, <3>3
      <4>2. k \in 2..Len(M)  BY <1>4, <4>1
      <4>3. k - 1 \in 1..Len(L) /\ M[k] = L[k - 1]  BY <1>5, <4>2
      <4>4. w.told[M[k]] = (IF k - 1 <= p THEN 1 ELSE 0)  BY <3>1, <3>3, <4>3 DEF WalkAt
      <4>. QED  BY <4>2, <4>4
    <3>. HIDE DEF q
    <3>. QED  BY <3>2, <3>3 DEF WalkAt
  <2>. QED  BY <1>7, <2>1, <2>2 DEF WalkOk
<1>. QED  BY <1>4, <1>6, <1>7 DEF Distinct, M

(* A drop is announced to the first object, or to none. *)
LEMMA StartWalk ==
    ASSUME NEW L \in Seq(Controls), Distinct(L)
    PROVE  WalkOk(Told([curr |-> "none", present |-> ToSet(L), told |-> [c \in Controls |-> 0]],
                       IF L = <<>> THEN "none" ELSE Head(L)), L)
<1> DEFINE z == [c \in Controls |-> 0]
           n == IF L = <<>> THEN "none" ELSE Head(L)
           v == Told([curr |-> "none", present |-> ToSet(L), told |-> z], n)
<1>1. ToSet(L) = {L[i] : i \in 1..Len(L)} /\ Len(L) \in Nat /\ \A i \in 1..Len(L) : L[i] \in Controls  BY DEF ToSet
<1>2. z \in [Controls -> Int] /\ \A c \in Controls : z[c] = 0  OBVIOUS
<1>9. SUFFICES WalkOk(v, L)  BY Zenon DEF v, n, z
<1>. HIDE DEF z
<1>5. v.told = [d \in Controls |-> z[d] + (IF d = n THEN 1 ELSE 0)]
  <2>. HIDE DEF n
  <2>. QED  BY DEF Told
<1>8. DOMAIN v = {"curr", "present", "told"} /\ v.curr = n /\ v.present = ToSet(L)
  <2>. HIDE DEF n
  <2>. QED  BY DEF Told
<1>6. v.told \in [Controls -> Int] /\ \A d \in Controls : v.told[d] = IF d = n THEN 1 ELSE 0
  <2>. HIDE DEF v, n
  <2>1. ASSUME NEW d \in Controls PROVE v.told[d] = IF d = n THEN 1 ELSE 0
    <3>1. v.told[d] = z[d] + (IF d = n THEN 1 ELSE 0) /\ z[d] = 0  BY <1>2, <1>5
    <3>. QED  BY <3>1
  <2>. QED  BY <1>5, <2>1
<1>. HIDE DEF v
<1>3. CASE L = <<>>
  <2>1. ToSet(L) = {} /\ n = "none"  BY <1>1, <1>3
  <2>. HIDE DEF n
  <2>. QED  BY <1>6, <1>8, <2>1 DEF WalkOk
<1>4. CASE L # <<>>
  <2>1. 1 \in 1..Len(L) /\ n = L[1] /\ L[1] \in Controls /\ L[1] # "none"  BY <1>1, <1>4, PatchAssumption
  <2>. HIDE DEF n
  <2>2. ASSUME NEW k \in 1..Len(L) PROVE v.told[L[k]] = (IF k <= 1 THEN 1 ELSE 0)
    <3>1. L[k] = L[1] <=> k = 1  BY <2>1 DEF Distinct
    <3>2. L[k] \in Controls /\ (k <= 1 <=> k = 1)  BY <1>1
    <3>. QED  BY <1>6, <2>1, <3>1, <3>2
  <2>3. WalkAt(v, L, 1)  BY <1>8, <2>1, <2>2 DEF WalkAt
  <2>4. \A c \in v.present : \E i \in 1..Len(L) : L[i] = c  BY <1>1, <1>8
  <2>. QED  BY <1>6, <1>8, <2>1, <2>3, <2>4 DEF WalkOk
<1>. QED  BY <1>3, <1>4

(* The next object is told. *)
LEMMA NextWalk ==
    ASSUME NEW L \in Seq(Controls), Distinct(L), NEW w, WalkOk(w, L), NEW p \in 1..Len(L), WalkAt(w, L, p)
    PROVE  WalkOk(Told(w, IF p = Len(L) THEN "none" ELSE L[p + 1]), L)
<1> DEFINE n == IF p = Len(L) THEN "none" ELSE L[p + 1]
           v == Told(w, n)
<1>1. /\ Len(L) \in Nat /\ \A i \in 1..Len(L) : L[i] \in Controls /\ L[i] # "none"
      /\ DOMAIN w = {"curr", "present", "told"} /\ w.told \in [Controls -> Int]
      /\ \A c \in w.present : \E i \in 1..Len(L) : L[i] = c
  BY PatchAssumption DEF WalkOk
<1>6. SUFFICES WalkOk(v, L)  BY Zenon DEF v, n
<1>2. v.told = [d \in Controls |-> w.told[d] + (IF d = n THEN 1 ELSE 0)]
  <2>. HIDE DEF n
  <2>. QED  BY DEF Told
<1>7. DOMAIN v = {"curr", "present", "told"} /\ v.curr = n /\ v.present = w.present
  <2>. HIDE DEF n
  <2>. QED  BY DEF Told
<1>3. v.told \in [Controls -> Int] /\ \A d \in Controls : v.told[d] = w.told[d] + (IF d = n THEN 1 ELSE 0)
  <2>. HIDE DEF v, n
  <2>. QED  BY <1>1, <1>2
<1>. HIDE DEF v
<1>4. CASE p = Len(L)
  <2>1. n = "none"  BY <1>4
  <2>. HIDE DEF n
  <2>2. ASSUME NEW d \in w.present PROVE d \in Controls /\ d # "none" /\ w.told[d] = 1
    <3>1. PICK k \in 1..Len(L) : L[k] = d  BY <1>1
    <3>. QED  BY <1>1, <1>4, <3>1 DEF WalkAt
  <2>. QED  BY <1>1, <1>3, <1>7, <2>1, <2>2 DEF WalkOk
<1>5. CASE p # Len(L)
  <2> DEFINE q == p + 1
  <2>1. q \in 1..Len(L) /\ n = L[q]  BY <1>1, <1>5
  <2>2. L[q] \in Controls /\ L[q] # "none"  BY <1>1, <2>1
  <2>. HIDE DEF q, n
  <2>3. ASSUME NEW k \in 1..Len(L), L[k] \in v.present PROVE v.told[L[k]] = (IF k <= q THEN 1 ELSE 0)
    <3>1. w.told[L[k]] = (IF k <= p THEN 1 ELSE 0)  BY <1>7, <2>3 DEF WalkAt
    <3>2. CASE k = q
      <4>1. ~(k <= p)  BY <3>2 DEF q
      <4>. QED  BY <1>3, <2>1, <2>2, <3>1, <3>2, <4>1
    <3>3. CASE k # q
      <4>1. L[k] # L[q] /\ L[k] \in Controls  BY <1>1, <2>1, <3>3 DEF Distinct
      <4>2. k <= p <=> k <= q  BY <3>3 DEF q
      <4>. QED  BY <1>1, <1>3, <2>1, <3>1, <4>1, <4>2
    <3>. QED  BY <3>2, <3>3
  <2>4. WalkAt(v, L, q)  BY <1>7, <2>1, <2>3 DEF WalkAt
  <2>. QED  BY <1>1, <1>3, <1>7, <2>1, <2>2, <2>4 DEF WalkOk
<1>. QED  BY <1>4, <1>5

LEMMA ControlFreeStep ==
    ASSUME ~DeletesTold, NEW c \in Controls, ControlInv, pdp_control_free(c)
    PROVE  ControlInv'
<1> DEFINE L == pdp_control_list
<1>1. L \in Seq(Controls) /\ Distinct(L) /\ Stack(walks) /\ \A k \in 1..Len(walks) : WalkOk(walks[k], L)
  BY DEF pdp_control_free, ControlInv
<1>2. DOMAIN walks = 1..Len(walks) /\ Len(walks) \in Nat  BY <1>1 DEF Stack
<1>3. PICK f \in 1..Len(L) : L[f] = c /\ pdp_control_list' = RemoveAt(L, f)  BY <1>1 DEF pdp_control_free
<1>4. /\ \A k \in 1..Len(walks) : walks[k].curr # c
      /\ walks' = [k \in 1..Len(walks) |-> [walks[k] EXCEPT !.present = @ \ {c}]]
  BY <1>2 DEF pdp_control_free
<1>5. Stack(walks') /\ Len(walks') = Len(walks)
  <2> DEFINE S == {[walks[k] EXCEPT !.present = @ \ {c}] : k \in 1..Len(walks)}
  <2>1. walks' \in [1..Len(walks) -> S]  BY <1>4
  <2>. HIDE DEF S
  <2>2. walks' \in Seq(S) /\ Len(walks') = Len(walks)  BY <1>2, <2>1
  <2>. QED  BY <2>2 DEF Stack
<1>6. /\ pdp_control_list' \in Seq(Controls) /\ Distinct(pdp_control_list')
      /\ \A w : WalkOk(w, L) /\ w.curr # c => WalkOk([w EXCEPT !.present = @ \ {c}], pdp_control_list')
  BY <1>1, <1>3, FreeWalk
<1>7. ASSUME NEW k \in 1..Len(walks') PROVE WalkOk(walks'[k], pdp_control_list')
  BY <1>1, <1>4, <1>5, <1>6
<1>. QED  BY <1>5, <1>6, <1>7 DEF ControlInv

LEMMA ControlNewStep ==
    ASSUME NEW c \in Controls, ControlInv, pdp_control_new(c)
    PROVE  ControlInv'
<1> DEFINE L == pdp_control_list
<1>1. /\ L \in Seq(Controls) /\ Distinct(L) /\ Stack(walks) /\ \A k \in 1..Len(walks) : WalkOk(walks[k], L)
      /\ c \notin ToSet(L) /\ pdp_control_list' = <<c>> \o L /\ walks' = walks
  BY DEF pdp_control_new, ControlInv
<1>2. /\ pdp_control_list' \in Seq(Controls) /\ Distinct(pdp_control_list')
      /\ \A w : WalkOk(w, L) => WalkOk(w, pdp_control_list')
  BY <1>1, NewWalk
<1>. QED  BY <1>1, <1>2 DEF ControlInv

LEMMA NotifyDropStep ==
    ASSUME ControlInv, pdp_control_notify_drop
    PROVE  ControlInv'
<1> DEFINE L == pdp_control_list
           w == Told([curr |-> "none", present |-> ToSet(L), told |-> [c \in Controls |-> 0]],
                     IF L = <<>> THEN "none" ELSE Head(L))
<1>1. /\ L \in Seq(Controls) /\ Distinct(L) /\ Stack(walks) /\ \A k \in 1..Len(walks) : WalkOk(walks[k], L)
      /\ pdp_control_list' = L /\ walks' = Append(walks, w)
  BY DEF pdp_control_notify_drop, ControlInv
<1>2. WalkOk(w, L)  BY <1>1, StartWalk
<1>. HIDE DEF w
<1>3. /\ Stack(walks') /\ Len(walks) \in Nat /\ Len(walks') = Len(walks) + 1
      /\ walks'[Len(walks) + 1] = w /\ \A k \in 1..Len(walks) : walks'[k] = walks[k]
  BY <1>1, Pushed
<1>4. ASSUME NEW k \in 1..Len(walks') PROVE WalkOk(walks'[k], L)
  <2>1. k \in 1..Len(walks) \/ k = Len(walks) + 1  BY <1>3
  <2>. QED  BY <1>1, <1>2, <1>3, <2>1
<1>. QED  BY <1>1, <1>3, <1>4 DEF ControlInv

LEMMA BroadcastStep ==
    ASSUME ControlInv, pdp_control_notify_broadcast
    PROVE  ControlInv'
<1> DEFINE L == pdp_control_list
           m == Len(walks)
           w == walks[m]
<1>1. /\ L \in Seq(Controls) /\ Distinct(L) /\ Stack(walks) /\ \A k \in 1..m : WalkOk(walks[k], L)
      /\ walks # <<>> /\ pdp_control_list' = L /\ w.curr # "none"
  BY DEF pdp_control_notify_broadcast, ControlInv
<1>2. m \in Nat /\ m \in 1..m /\ DOMAIN walks = 1..m  BY <1>1 DEF Stack
<1>3. PICK n \in Nexts(w.curr) : walks' = [walks EXCEPT ![m] = Told(w, n)]
  BY <1>2 DEF pdp_control_notify_broadcast
<1>4. WalkOk(w, L)  BY <1>1, <1>2
<1>5. PICK p \in 1..Len(L) : WalkAt(w, L, p)  BY <1>1, <1>4 DEF WalkOk
<1>6. n = IF p = Len(L) THEN "none" ELSE L[p + 1]
  <2>1. DOMAIN L = 1..Len(L) /\ L[p] = w.curr  BY <1>1, <1>5 DEF WalkAt
  <2>2. w.curr \in ToSet(L)  BY <2>1 DEF ToSet
  <2>3. n = After(w.curr)  BY <1>3, <2>2 DEF Nexts
  <2> DEFINE i == CHOOSE j \in DOMAIN L : L[j] = w.curr
  <2>4. i \in DOMAIN L /\ L[i] = w.curr  BY <2>1
  <2>5. After(w.curr) = IF i = Len(L) THEN "none" ELSE L[i + 1]  BY Zenon DEF After
  <2>. HIDE DEF i
  <2>6. i = p  BY <1>1, <2>1, <2>4 DEF Distinct
  <2>. QED  BY <2>3, <2>5, <2>6
<1>7. WalkOk(Told(w, n), L)  BY <1>1, <1>4, <1>5, <1>6, NextWalk
<1>8. Stack(walks') /\ Len(walks') = m
  <2>1. PICK S : walks \in Seq(S)  BY <1>1 DEF Stack
  <2> DEFINE e == Told(w, n)
  <2>2. walks \in Seq(S \cup {e}) /\ e \in S \cup {e} /\ walks' = [walks EXCEPT ![m] = e]  BY <1>3, <2>1
  <2>. HIDE DEF e
  <2>3. walks' \in Seq(S \cup {e}) /\ Len(walks') = m  BY <1>2, <2>2
  <2>. QED  BY <2>3 DEF Stack
<1>9. ASSUME NEW k \in 1..Len(walks') PROVE WalkOk(walks'[k], L)
  <2>1. CASE k = m  BY <1>2, <1>3, <1>7, <2>1
  <2>2. CASE k # m  BY <1>1, <1>2, <1>3, <1>8, <2>2
  <2>. QED  BY <2>1, <2>2
<1>. QED  BY <1>1, <1>8, <1>9 DEF ControlInv

LEMMA DropReturnsStep ==
    ASSUME ControlInv, DropReturns
    PROVE  ControlInv'
<1>1. /\ Stack(walks) /\ walks # <<>> /\ walks' = SubSeq(walks, 1, Len(walks) - 1)
      /\ pdp_control_list' = pdp_control_list /\ pobj = "control"
  BY DEF DropReturns, ControlInv
<1>2. Stack(walks') /\ \A k \in 1..Len(walks') : k \in 1..Len(walks) /\ walks'[k] = walks[k]  BY <1>1, Popped
<1>. QED  BY <1>1, <1>2 DEF ControlInv

LEMMA ControlStep ==
    ASSUME ~DeletesTold, ControlInv, PatchNext
    PROVE  ControlInv'
<1> SUFFICES ASSUME pobj' = "control" PROVE ControlInv'  BY DEF ControlInv
<1>1. CASE Resumes  BY <1>1 DEF Resumes, controlVars, ControlInv
<1>. QED
  BY <1>1, ControlFreeStep, ControlNewStep, NotifyDropStep, BroadcastStep, DropReturnsStep
  DEF PatchNext, Begin, pdp_route_route, pdp_route_input_0, pdp_route_input_0_dpd,
      pdp_trigger_input_pdp, pdp_trigger_input_dpd, TriggerServes, pdp_inspect_input_0, pdp_description_input,
      metro_fps, metro_perform, ControlInv
-----------------------------------------------------------------------------
PatchInv == PhasesInv /\ RouteInv /\ TriggerInv /\ MetroInv /\ ControlInv

LEMMA PatchInitInv == PatchInit => PatchInv
<1> SUFFICES ASSUME PatchInit PROVE PatchInv  OBVIOUS
<1>. USE DEF PatchInit
<1>0. Stack(<<>>) /\ Len(<<>>) = 0
  <2>1. <<>> \in Seq({})  OBVIOUS
  <2>. QED  BY <2>1 DEF Stack
<1>1. PhasesInv  BY <1>0 DEF PhasesInv, Phases
<1>2. RouteInv
  <2>1. x_nb_outlets \in Nat /\ x_nb_outlets >= 2  BY OutletsType
  <2>. QED  BY <2>1, PhasesDiffer DEF RouteInv, LeftWhole, OutletNumbers
<1>3. TriggerInv
  <2>1. Len(Trigger) \in Nat /\ Len(Trigger) >= 1  BY PatchAssumption
  <2>2. sent \in Seq(Replies) /\ Len(sent) = 0 /\ DOMAIN sent = {} /\ Len(phase) = 0  OBVIOUS
  <2>. QED  BY <1>0, <2>1, <2>2 DEF TriggerInv, TurnOk, Ordered
<1>4. MetroInv
  <2>1. x_rate \in [1..2 -> Int] /\ x_rate[1] = 1 /\ x_rate[2] = 1  OBVIOUS
  <2>2. 0 * SampleRate * 1 + 0 = 0  BY PatchAssumption
  <2>. QED  BY <2>1, <2>2 DEF MetroInv
<1>5. ControlInv
  <2>1. pdp_control_list \in Seq(Controls) /\ Len(pdp_control_list) = 0  OBVIOUS
  <2>. QED  BY <1>0, <2>1 DEF ControlInv, Distinct
<1>. QED  BY <1>1, <1>2, <1>3, <1>4, <1>5 DEF PatchInv

LEMMA PatchNextInv ==
    ASSUME ~DeletesTold, PatchInv, [PatchNext]_patchVars
    PROVE  PatchInv'
<1>1. CASE PatchNext
  BY <1>1, PhaseInvStep, RouteStep, TriggerStep, MetroStep, ControlStep DEF PatchInv, PhasesInv
<1>2. CASE UNCHANGED patchVars
  BY <1>2 DEF patchVars, routeVars, metroVars, controlVars, PatchInv, PhasesInv, RouteInv, LeftWhole, TriggerInv,
              MetroInv, ControlInv
<1>. QED  BY <1>1, <1>2

LEMMA PatchInvSound == PatchInv => PatchSound
<1> SUFFICES ASSUME PatchInv PROVE PatchSound  OBVIOUS
<1>1. ASSUME pobj = "route", IsPdp, sole PROVE \E o \in 0..x_nb_outlets - 1 : sent = Whole(o, Pdp)
  <2>1. phase = <<>> /\ sent # <<>> /\ sent[Len(sent)].msg # "accumulate"
    BY <1>1, PhaseFacts DEF IsPdp
  <2>. QED  BY <1>1, <2>1 DEF PatchInv, RouteInv, LeftWhole, OutletNumbers
<1>2. MessagesWhole  BY <1>1 DEF MessagesWhole, PatchInv, TriggerInv, TurnOk, Ordered, InTurn
<1>3. MetroExact  BY DEF MetroExact, PatchInv, MetroInv
<1>4. ControlsTold
  <2>1. ASSUME pobj = "control" PROVE DOMAIN walks = 1..Len(walks)
    BY <2>1 DEF PatchInv, ControlInv, Stack
  <2>. QED  BY <2>1 DEF ControlsTold, PatchInv, ControlInv, WalkOk
<1>. QED  BY <1>2, <1>3, <1>4 DEF PatchSound

(* PatchSound for every number of outlets and controls, every rate and      *)
(* every depth of messages within messages: a packet inside which no other  *)
(* begins passes a route whole through one outlet (x_route_next becomes     *)
(* x_route with register_ro only); for each message of a packet a trigger   *)
(* serves its outlets from right to left, bangs among them; pdp_metro~      *)
(* accounts for every sample; and pdp_control_notify_broadcast tells every  *)
(* object that stays once of each drop, if the patch deletes none of them   *)
(* while it is told: then x_next is read from freed memory.                 *)
THEOREM PatchesSound ==
    ASSUME ~DeletesTold
    PROVE  PatchSpec => []PatchSound
<1>. QED  BY PatchInitInv, PatchNextInv, PatchInvSound, PTL DEF PatchSpec

-----------------------------------------------------------------------------
(* The displays.  The fields of an object, its window and its image. *)
ViewFields == {"class", "alive", "packet", "open", "autocreate", "connected", "windowlist", "win", "vid",
               "serial", "faults"}
WinFields == {"serial", "init", "width", "lastbut", "events"}
VidFields == {"made", "init", "w", "h", "shm", "shminfo", "xvi", "room", "addr", "serial"}
EventTypes == [type : {"close", "key", "configure", "motion", "press", "release"}, value : Int]
IsVid(v) == DOMAIN v = VidFields /\ v.made \in BOOLEAN /\ v.init \in BOOLEAN /\ v.xvi \in BOOLEAN /\ v.shm \in BOOLEAN
IsWin(w) == DOMAIN w = WinFields /\ w.serial \in Nat /\ w.init \in BOOLEAN /\ w.events \in Seq(EventTypes)
IsView(o) ==
    /\ DOMAIN o = ViewFields /\ o.class \in ViewClasses /\ o.alive \in BOOLEAN /\ o.open \in BOOLEAN
    /\ o.packet \in ViewSizes \cup {NoPacket0} /\ o.autocreate \in 0..Retry /\ o.connected \in BOOLEAN
    /\ o.serial \in Nat /\ IsWin(o.win) /\ IsVid(o.vid)

(* What an operation on the parts leaves alone. *)
PartsOnly(o, r) ==
    /\ r.class = o.class /\ r.alive = o.alive /\ r.packet = o.packet /\ r.autocreate = o.autocreate
    /\ r.serial = o.serial /\ r.faults = o.faults

(* A closed object, an open one, and one in between: a part that is there   *)
(* needs the connection.                                                    *)
Shut(o) ==
    /\ IsView(o) /\ ~o.open /\ ~o.connected /\ o.win = NoWindow /\ o.vid = NoVideo /\ o.windowlist = {}
Opened(o) ==
    /\ IsView(o) /\ o.open /\ o.connected /\ o.win.init /\ o.vid.made /\ o.vid.init
    /\ o.windowlist = {o.win.serial} /\ o.win.serial = o.serial /\ o.serial # 0
Parts(o) ==
    /\ IsView(o)
    /\ o.windowlist = (IF o.win.init THEN {o.win.serial} ELSE {})
    /\ o.win.serial = 0 => o.win = NoWindow
    /\ o.win.init => o.connected
    /\ ~o.vid.made => o.vid = NoVideo
    /\ o.vid.init => o.connected

LEMMA Nothing == IsWin(NoWindow) /\ IsVid(NoVideo) /\ NoWindow.serial = 0 /\ ~NoWindow.init /\ NoWindow.events = <<>>
                 /\ ~NoVideo.made /\ ~NoVideo.init
BY DEF NoWindow, NoVideo, IsWin, IsVid, WinFields, VidFields

LEMMA ShutParts == ASSUME NEW o, Shut(o) \/ Opened(o) PROVE Parts(o)
<1>1. CASE Shut(o)  BY <1>1, Nothing DEF Shut, Parts
<1>2. CASE Opened(o)  BY <1>2 DEF Opened, Parts
<1>. QED  BY <1>1, <1>2

LEMMA WindowFreed ==
    ASSUME NEW o, Parts(o)
    PROVE  LET r == zl_xwindow_free(o)
           IN  /\ Parts(r) /\ PartsOnly(o, r) /\ r.win = NoWindow /\ r.windowlist = {}
               /\ r.vid = o.vid /\ r.connected = o.connected /\ r.open = o.open
<1> DEFINE u == IF o.win.init THEN zl_xdisplay_unregister_window(o) ELSE o
           q == [u EXCEPT !.win.init = FALSE, !.win.events = <<>>]
           r == zl_xwindow_free(o)
<1>1. DOMAIN o = ViewFields /\ IsView(o) /\ DOMAIN o.win = WinFields  BY DEF Parts, IsView, IsWin
<1>2. /\ DOMAIN u = ViewFields /\ u.windowlist = {} /\ PartsOnly(o, u)
      /\ u.win = o.win /\ u.vid = o.vid /\ u.connected = o.connected /\ u.open = o.open
  <2>1. CASE o.win.init
    <3>1. u = [o EXCEPT !.windowlist = @ \ {o.win.serial}]  BY <2>1 DEF zl_xdisplay_unregister_window
    <3>2. o.windowlist = {o.win.serial}  BY <2>1 DEF Parts
    <3>. QED  BY <1>1, <3>1, <3>2 DEF PartsOnly, ViewFields
  <2>2. CASE ~o.win.init
    <3>1. u = o /\ o.windowlist = {}  BY <2>2 DEF Parts
    <3>. QED  BY <1>1, <3>1 DEF PartsOnly
  <2>. QED  BY <2>1, <2>2
<1>. HIDE DEF u
<1>3. /\ DOMAIN q = ViewFields /\ q.windowlist = {} /\ PartsOnly(o, q)
      /\ q.vid = o.vid /\ q.connected = o.connected /\ q.open = o.open
  BY <1>2 DEF PartsOnly, ViewFields
<1>4. ~(o.win.init /\ ~o.connected)  BY DEF Parts
<1>5. zl_xwindow_close(o) = q
  BY <1>4 DEF zl_xwindow_close, Faults, u
<1>. HIDE DEF q
<1>6. r = [q EXCEPT !.win = NoWindow]  BY <1>5 DEF zl_xwindow_free
<1>. HIDE DEF r
<1>7. /\ DOMAIN r = ViewFields /\ r.windowlist = {} /\ PartsOnly(o, r) /\ r.win = NoWindow
      /\ r.vid = o.vid /\ r.connected = o.connected /\ r.open = o.open
  BY <1>3, <1>6 DEF PartsOnly, ViewFields
<1>8. IsView(r)  BY <1>1, <1>7, Nothing DEF IsView, PartsOnly
<1>9. Parts(r)  BY <1>7, <1>8, Nothing DEF Parts
<1>. QED  BY <1>7, <1>9 DEF r

LEMMA VideoFreed ==
    ASSUME NEW o, Parts(o), o.vid.made
    PROVE  LET r == Video(o)
           IN  /\ Parts(r) /\ PartsOnly(o, r) /\ r.vid = NoVideo
               /\ r.win = o.win /\ r.windowlist = o.windowlist /\ r.connected = o.connected /\ r.open = o.open
<1> DEFINE r == Video(o)
<1>1. DOMAIN o = ViewFields /\ IsView(o) /\ ~(o.vid.init /\ ~o.connected)  BY DEF Parts, IsView
<1>2. \E q : /\ r = [q EXCEPT !.vid = NoVideo] /\ DOMAIN q = ViewFields /\ PartsOnly(o, q)
             /\ q.win = o.win /\ q.windowlist = o.windowlist /\ q.connected = o.connected /\ q.open = o.open
  <2>1. CASE o.class = "xv"
    <3> DEFINE v == IF o.vid.xvi THEN [zl_xv_destroy_xvimage(o.vid) EXCEPT !.init = FALSE] ELSE [o.vid EXCEPT !.init = FALSE]
               q == [o EXCEPT !.vid = v]
    <3>1. zl_xv_close(o) = q  BY <1>1 DEF zl_xv_close, Faults
    <3>. HIDE DEF v
    <3>2. /\ DOMAIN q = ViewFields /\ PartsOnly(o, q)
          /\ q.win = o.win /\ q.windowlist = o.windowlist /\ q.connected = o.connected /\ q.open = o.open
      BY <1>1 DEF PartsOnly, ViewFields
    <3>. HIDE DEF q
    <3>3. r = [q EXCEPT !.vid = NoVideo]  BY <2>1, <3>1 DEF Video, zl_xv_free
    <3>. QED  BY <3>2, <3>3
  <2>2. CASE o.class # "xv"
    <3>1. r = [o EXCEPT !.vid = NoVideo]  BY <1>1, <2>2 DEF Video, zl_glx_free, Faults
    <3>. HIDE DEF r
    <3>. QED  BY <1>1, <3>1 DEF PartsOnly
  <2>. QED  BY <2>1, <2>2
<1>. HIDE DEF r
<1>3. /\ DOMAIN r = ViewFields /\ PartsOnly(o, r) /\ r.vid = NoVideo
      /\ r.win = o.win /\ r.windowlist = o.windowlist /\ r.connected = o.connected /\ r.open = o.open
  BY <1>2 DEF PartsOnly, ViewFields
<1>4. IsView(r)  BY <1>1, <1>3, Nothing DEF IsView, PartsOnly
<1>5. Parts(r)  BY <1>3, <1>4, Nothing DEF Parts
<1>. QED  BY <1>3, <1>5 DEF r

(* Whatever parts there are, deleting them in the order of Cleanup leaves   *)
(* none and asks nothing of a connection that is gone.                      *)
LEMMA CleanupShuts ==
    ASSUME NEW o, Parts(o)
    PROVE  Shut(Cleanup(o)) /\ PartsOnly(o, Cleanup(o))
<1> DEFINE w == IF o.win.serial # 0 THEN zl_xwindow_free(o) ELSE o
           v == IF w.vid.made THEN Video(w) ELSE w
           d == IF v.connected THEN zl_xdisplay_free(v) ELSE v
<1>1. Parts(w) /\ PartsOnly(o, w) /\ w.win = NoWindow /\ w.windowlist = {}
  <2>1. CASE o.win.serial # 0  BY <2>1, WindowFreed
  <2>2. CASE o.win.serial = 0
    <3>1. o.win = NoWindow  BY <2>2 DEF Parts
    <3>. QED  BY <2>2, <3>1, Nothing DEF Parts, PartsOnly
  <2>. QED  BY <2>1, <2>2
<1>. HIDE DEF w
<1>2. Parts(v) /\ PartsOnly(w, v) /\ v.win = NoWindow /\ v.windowlist = {} /\ v.vid = NoVideo
  <2>1. CASE w.vid.made  BY <1>1, <2>1, VideoFreed
  <2>2. CASE ~w.vid.made  BY <1>1, <2>2 DEF Parts, PartsOnly
  <2>. QED  BY <2>1, <2>2
<1>. HIDE DEF v
<1>3. DOMAIN v = ViewFields /\ IsView(v)  BY <1>2 DEF Parts, IsView
<1>4. /\ DOMAIN d = ViewFields /\ PartsOnly(v, d) /\ d.win = NoWindow /\ d.windowlist = {} /\ d.vid = NoVideo
      /\ d.connected = FALSE
  <2>1. CASE v.connected
    <3>1. d = [v EXCEPT !.connected = FALSE, !.windowlist = {}]  BY <1>2, <2>1 DEF zl_xdisplay_free, Faults
    <3>. HIDE DEF d
    <3>. QED  BY <1>2, <1>3, <3>1 DEF PartsOnly, ViewFields
  <2>2. CASE ~v.connected  BY <1>2, <1>3, <2>2 DEF PartsOnly, IsView
  <2>. QED  BY <2>1, <2>2
<1>. HIDE DEF d
<1>5. Cleanup(o) = [d EXCEPT !.open = FALSE]  BY DEF Cleanup, d, v, w
<1> DEFINE r == Cleanup(o)
<1>. HIDE DEF r
<1>6. /\ DOMAIN r = ViewFields /\ PartsOnly(d, r) /\ r.win = NoWindow /\ r.windowlist = {} /\ r.vid = NoVideo
      /\ r.connected = FALSE /\ r.open = FALSE
  BY <1>4, <1>5 DEF PartsOnly, ViewFields, r
<1>7. PartsOnly(o, r)  BY <1>1, <1>2, <1>4, <1>6 DEF PartsOnly
<1>8. IsView(r)  BY <1>3, <1>2, <1>4, <1>6, Nothing DEF IsView, PartsOnly
<1>. QED  BY <1>6, <1>7, <1>8 DEF Shut, r

(* The memory of an XvImage has room for its size. *)
RoomFor(v) == v.room = YV12Bytes(<<v.w, v.h>>) /\ (~ImageFails => v.xvi)

LEMMA PrivateMade ==
    ASSUME NEW v, IsVid(v), NEW n \in PrivateImages(v)
    PROVE  IsVid(n) /\ n.made = v.made /\ n.init = v.init /\ n.w = v.w /\ n.h = v.h /\ RoomFor(n)
<1>1. PICK ok \in IF ImageFails THEN BOOLEAN ELSE {TRUE} :
         n = [v EXCEPT !.shm = FALSE, !.room = YV12Bytes(<<v.w, v.h>>), !.xvi = ok]
  BY DEF PrivateImages
<1>2. ok \in BOOLEAN /\ (~ImageFails => ok)  BY <1>1
<1>3. DOMAIN v = VidFields  BY DEF IsVid
<1>. QED  BY <1>1, <1>2, <1>3 DEF IsVid, VidFields, RoomFor

LEMMA ImageMade ==
    ASSUME NEW v, IsVid(v), NEW s, NEW n \in zl_xv_create_xvimage(v, s)
    PROVE  IsVid(n) /\ n.made = v.made /\ n.init = v.init /\ n.w = s[1] /\ n.h = s[2] /\ RoomFor(n)
<1> DEFINE m == [v EXCEPT !.w = s[1], !.h = s[2]]
           Shared == [m EXCEPT !.shminfo = TRUE, !.xvi = TRUE, !.room = YV12Bytes(s)]
           d == zl_xv_destroy_xvimage(m)
<1>1. IsVid(m) /\ m.w = s[1] /\ m.h = s[2] /\ m.made = v.made /\ m.init = v.init
  BY DEF IsVid, VidFields
<1>2. n = Shared \/ n \in PrivateImages(d) \/ n \in PrivateImages(m)  BY DEF zl_xv_create_xvimage
<1>. HIDE DEF m
<1>3. CASE n = Shared
  <2>1. YV12Bytes(s) = YV12Bytes(<<m.w, m.h>>)  BY <1>1 DEF YV12Bytes
  <2>. QED  BY <1>1, <1>3, <2>1 DEF IsVid, VidFields, RoomFor
<1>4. CASE n \in PrivateImages(d)
  <2>1. d = [m EXCEPT !.xvi = FALSE, !.shminfo = FALSE, !.room = 0]  BY DEF zl_xv_destroy_xvimage
  <2>. HIDE DEF d
  <2>2. IsVid(d) /\ d.made = m.made /\ d.init = m.init /\ d.w = m.w /\ d.h = m.h
    BY <1>1, <2>1 DEF IsVid, VidFields
  <2>. QED  BY <1>1, <1>4, <2>2, PrivateMade
<1>5. CASE n \in PrivateImages(m)  BY <1>1, <1>5, PrivateMade
<1>. QED  BY <1>2, <1>3, <1>4, <1>5

(* The image is made anew when the size of the packet is another one. *)
LEMMA ImageData ==
    ASSUME NEW v, IsVid(v), RoomFor(v), NEW s \in ViewSizes, NEW n \in zl_xv_image_data(v, s)
    PROVE  IsVid(n) /\ n.made = v.made /\ n.init = v.init /\ n.room = YV12Bytes(s) /\ RoomFor(n)
<1>0. s = <<s[1], s[2]>>  BY DisplayAssumption
<1>1. CASE <<v.w, v.h>> = s  BY <1>1 DEF zl_xv_image_data, RoomFor
<1>2. CASE <<v.w, v.h>> # s
  <2> DEFINE d == zl_xv_destroy_xvimage(v)
  <2>1. n \in zl_xv_create_xvimage(d, s)  BY <1>2 DEF zl_xv_image_data
  <2>2. d = [v EXCEPT !.xvi = FALSE, !.shminfo = FALSE, !.room = 0]  BY DEF zl_xv_destroy_xvimage
  <2>. HIDE DEF d
  <2>3. IsVid(d) /\ d.made = v.made /\ d.init = v.init  BY <2>2 DEF IsVid, VidFields
  <2>4. IsVid(n) /\ n.made = v.made /\ n.init = v.init /\ n.w = s[1] /\ n.h = s[2] /\ RoomFor(n)
    BY <2>1, <2>3, ImageMade
  <2>. QED  BY <1>0, <2>4 DEF RoomFor
<1>. QED  BY <1>1, <1>2

LEMMA OpenedImage ==
    ASSUME NEW v, IsVid(v), v.made, NEW n \in zl_xv_open_on_display(v)
    PROVE  IsVid(n) /\ n.made /\ n.init /\ RoomFor(n)
<1> DEFINE i == [v EXCEPT !.init = TRUE]
<1>1. n \in zl_xv_create_xvimage(i, <<v.w, v.h>>)  BY DEF zl_xv_open_on_display
<1>2. IsVid(i) /\ i.made = v.made /\ i.init  BY DEF IsVid, VidFields
<1>. HIDE DEF i
<1>. QED  BY <1>1, <1>2, ImageMade

LEMMA BytesType == ASSUME NEW s \in Nat \X Nat PROVE YV12Bytes(s) \in Int
<1>1. s[1] \in Nat /\ s[2] \in Nat  OBVIOUS
<1>2. s[1] \div 2 \in Int /\ s[2] \div 2 \in Int  BY <1>1
<1>3. s[1] * s[2] \in Int /\ (s[1] \div 2) * (s[2] \div 2) \in Int  BY <1>1, <1>2
<1>. QED  BY <1>3 DEF YV12Bytes

-----------------------------------------------------------------------------
(* What an open object has: for pdp_xv an image, for pdp_glx a context that *)
(* belongs to the window.                                                   *)
VideoFor(o) ==
    /\ o.class = "xv" => RoomFor(o.vid)
    /\ o.class = "glx" => o.vid.serial = o.win.serial

(* An object that was made from o: closed, or open with a new window, and   *)
(* in the case of pdp_glx a context at an address malloc may return.        *)
MadeFrom(o, r) ==
    /\ r.class = o.class /\ r.alive = o.alive /\ r.packet = o.packet /\ r.autocreate = o.autocreate
    /\ r.faults = o.faults /\ r.serial \in Nat
    /\ \/ Shut(r)
       \/ /\ Opened(r) /\ VideoFor(r) /\ r.win.serial = o.serial + 1 /\ r.win.events = <<>>
          /\ r.class = "glx" => r.vid.addr \in Addresses

LEMMA KeptMade ==
    ASSUME NEW o, NEW q, NEW r, PartsOnly(q, r), Shut(r), r.serial \in Nat,
           q.class = o.class, q.alive = o.alive, q.packet = o.packet, q.autocreate = o.autocreate, q.faults = o.faults
    PROVE  MadeFrom(o, r)
BY DEF PartsOnly, MadeFrom

(* A window that was made, and one that was configured. *)
LEMMA WindowMade ==
    ASSUME NEW o, IsView(o), o.win = NoWindow, o.windowlist = {}, ~o.open, o.vid.init => o.connected,
           ~o.vid.made => o.vid = NoVideo, NEW b
    PROVE  LET r == zl_xwindow_new(o, b)
           IN  /\ Parts(r) /\ ~r.open /\ r.windowlist = {} /\ r.vid = o.vid /\ r.connected = o.connected
               /\ r.serial = o.serial + 1 /\ r.win.serial = o.serial + 1 /\ r.win.events = <<>> /\ ~r.win.init
               /\ r.class = o.class /\ r.alive = o.alive /\ r.packet = o.packet /\ r.autocreate = o.autocreate
               /\ r.faults = o.faults
<1> DEFINE r == zl_xwindow_new(o, b)
           w == [NoWindow EXCEPT !.serial = o.serial + 1, !.width = 320, !.lastbut = b]
<1>1. IsWin(w) /\ w.serial = o.serial + 1 /\ ~w.init /\ w.events = <<>>
  <2> DEFINE u == NoWindow
  <2>1. o.serial \in Nat  BY DEF IsView
  <2>2. DOMAIN NoWindow = WinFields /\ NoWindow.init = FALSE  BY DEF NoWindow, WinFields
  <2>3. NoWindow.events \in Seq(EventTypes)  BY Nothing DEF IsWin
  <2>4. DOMAIN u = WinFields /\ u.init = FALSE /\ u.events \in Seq(EventTypes) /\ u.events = <<>>
        /\ w = [u EXCEPT !.serial = o.serial + 1, !.width = 320, !.lastbut = b]
    BY <2>2, <2>3, Nothing
  <2>. HIDE DEF u, w
  <2>5. DOMAIN w = WinFields /\ w.serial = o.serial + 1 /\ w.init = FALSE /\ w.events = u.events
    BY <2>4 DEF WinFields
  <2>6. w.serial \in Nat /\ w.init \in BOOLEAN /\ w.events \in Seq(EventTypes) /\ w.events = <<>>
    <3>1. w.serial \in Nat  BY <2>1, <2>5
    <3>2. w.init \in BOOLEAN  BY <2>5
    <3>3. w.events = <<>>  BY Zenon, <2>4, <2>5
    <3>4. w.events \in Seq(EventTypes)  BY Zenon, <2>4, <2>5
    <3>. QED  BY <3>1, <3>2, <3>3, <3>4
  <2>7. IsWin(w)  BY <2>5, <2>6 DEF IsWin
  <2>. QED  BY <2>5, <2>6, <2>7
<1>2. r = [o EXCEPT !.serial = @ + 1, !.win = w]  BY DEF zl_xwindow_new
<1>. HIDE DEF w, r
<1>3. DOMAIN o = ViewFields /\ o.serial \in Nat  BY DEF IsView
<1>4. /\ DOMAIN r = ViewFields /\ r.serial = o.serial + 1 /\ r.win = w
      /\ r.open = o.open /\ r.windowlist = o.windowlist /\ r.vid = o.vid /\ r.connected = o.connected
      /\ r.class = o.class /\ r.alive = o.alive /\ r.packet = o.packet /\ r.autocreate = o.autocreate
      /\ r.faults = o.faults
  BY <1>2, <1>3 DEF ViewFields
<1>5. IsView(r)  BY <1>1, <1>3, <1>4 DEF IsView
<1>6. Parts(r)  BY <1>1, <1>3, <1>4, <1>5 DEF Parts
<1>. QED  BY <1>1, <1>4, <1>6 DEF r

LEMMA WindowConfigured ==
    ASSUME NEW o, Parts(o), ~o.win.init, o.connected, o.vid.init, o.vid.made, o.win.serial = o.serial, o.serial # 0,
           NEW w
    PROVE  LET r == [zl_xwindow_config(o, w) EXCEPT !.open = TRUE]
           IN  /\ Opened(r) /\ r.vid = o.vid /\ r.serial = o.serial /\ r.win.serial = o.win.serial
               /\ r.win.events = o.win.events
               /\ r.class = o.class /\ r.alive = o.alive /\ r.packet = o.packet /\ r.autocreate = o.autocreate
               /\ r.faults = o.faults
<1> DEFINE r == [zl_xwindow_config(o, w) EXCEPT !.open = TRUE]
           q == [o EXCEPT !.win.init = TRUE, !.win.width = w]
           p == [q EXCEPT !.windowlist = @ \cup {q.win.serial}]
<1>1. IsView(o) /\ DOMAIN o = ViewFields /\ IsWin(o.win) /\ DOMAIN o.win = WinFields /\ o.windowlist = {}
  BY DEF Parts, IsView, IsWin
<1>2. /\ DOMAIN q = ViewFields /\ IsWin(q.win) /\ q.win.init /\ q.win.serial = o.win.serial
      /\ q.win.events = o.win.events /\ q.windowlist = {} /\ q.vid = o.vid /\ q.connected = o.connected
      /\ q.serial = o.serial /\ PartsOnly(o, q)
  BY <1>1 DEF IsWin, WinFields, ViewFields, PartsOnly
<1>3. zl_xwindow_config(o, w) = p  BY DEF zl_xwindow_config, zl_xdisplay_register_window
<1>. HIDE DEF q
<1>4. /\ DOMAIN p = ViewFields /\ p.win = q.win /\ p.windowlist = {q.win.serial} /\ p.vid = q.vid
      /\ p.connected = q.connected /\ p.serial = q.serial /\ PartsOnly(q, p)
  BY <1>2 DEF ViewFields, PartsOnly
<1>. HIDE DEF p
<1>5. r = [p EXCEPT !.open = TRUE]  BY <1>3
<1>. HIDE DEF r
<1>6. /\ DOMAIN r = ViewFields /\ r.win = p.win /\ r.windowlist = p.windowlist /\ r.vid = p.vid /\ r.open
      /\ r.connected = p.connected /\ r.serial = p.serial /\ PartsOnly(p, r)
  BY <1>4, <1>5 DEF ViewFields, PartsOnly
<1>7. PartsOnly(o, r)  BY <1>2, <1>4, <1>6 DEF PartsOnly
<1>8. r.open \in BOOLEAN  BY <1>4, <1>5 DEF ViewFields
<1>9. IsView(r)  BY <1>1, <1>2, <1>4, <1>6, <1>7, <1>8 DEF IsView, PartsOnly
<1>10. Opened(r)  BY <1>2, <1>4, <1>6, <1>9 DEF Opened
<1>11. r.vid = o.vid /\ r.serial = o.serial /\ r.win.serial = o.win.serial /\ r.win.events = o.win.events
  BY <1>2, <1>4, <1>6
<1>. QED  BY <1>7, <1>10, <1>11 DEF PartsOnly, r

LEMMA Connected ==
    ASSUME NEW o, Shut(o)
    PROVE  LET c == zl_xdisplay_new(o)
           IN  IsView(c) /\ c.connected /\ c.win = NoWindow /\ c.windowlist = {} /\ ~c.open /\ c.vid = NoVideo /\ PartsOnly(o, c)
<1> DEFINE c == zl_xdisplay_new(o)
<1>1. DOMAIN o = ViewFields /\ IsView(o)  BY DEF Shut, IsView
<1>2. c = [o EXCEPT !.connected = TRUE, !.windowlist = {}]  BY DEF zl_xdisplay_new
<1>. HIDE DEF c
<1>3. /\ DOMAIN c = ViewFields /\ c.connected = TRUE /\ c.win = o.win /\ c.windowlist = {} /\ c.open = o.open
      /\ c.vid = o.vid /\ PartsOnly(o, c)
  BY <1>1, <1>2 DEF ViewFields, PartsOnly
<1>4. IsView(c)  BY <1>1, <1>3 DEF IsView, PartsOnly
<1>. QED  BY <1>3, <1>4 DEF Shut, c

(* An object with another image. *)
LEMMA WithVideo ==
    ASSUME NEW o, IsView(o), NEW v, IsVid(v)
    PROVE  LET r == [o EXCEPT !.vid = v]
           IN  /\ IsView(r) /\ r.vid = v /\ r.connected = o.connected /\ r.win = o.win
               /\ r.windowlist = o.windowlist /\ r.open = o.open /\ PartsOnly(o, r)
<1> DEFINE r == [o EXCEPT !.vid = v]
<1>1. DOMAIN o = ViewFields  BY DEF IsView
<1>2. /\ DOMAIN r = ViewFields /\ r.vid = v /\ r.connected = o.connected /\ r.win = o.win
      /\ r.windowlist = o.windowlist /\ r.open = o.open /\ PartsOnly(o, r)
  BY <1>1 DEF ViewFields, PartsOnly
<1>. HIDE DEF r
<1>3. IsView(r)  BY <1>2 DEF IsView, PartsOnly
<1>. QED  BY <1>2, <1>3 DEF r

LEMMA VideoNew ==
    /\ IsVid(zl_xv_new) /\ zl_xv_new.made /\ ~zl_xv_new.init
    /\ \A a, n : LET g == zl_glx_new(a, n) IN IsVid(g) /\ g.made /\ ~g.init /\ g.addr = a /\ g.serial = n
BY DEF zl_xv_new, zl_glx_new, NoVideo, IsVid, VidFields

LEMMA XvMade ==
    ASSUME NEW o, Shut(o), o.class = "xv", NEW r \in XvCreated(o)
    PROVE  MadeFrom(o, r)
<1> DEFINE c == zl_xdisplay_new(o)
           p == {[c EXCEPT !.vid = v] : v \in zl_xv_open_on_display(zl_xv_new)}
           n == {zl_xwindow_new(q, b) : q \in p, b \in {1, 2}}
<1>1. IsView(c) /\ c.connected /\ c.win = NoWindow /\ c.windowlist = {} /\ ~c.open /\ c.vid = NoVideo /\ PartsOnly(o, c)
  BY Connected
<1>2. \/ r = Cleanup(o) \/ r = Cleanup([c EXCEPT !.vid = zl_xv_new]) \/ \E q \in n : r = Cleanup(q)
      \/ \E q \in n, w \in ViewWidths : r = [zl_xwindow_config(q, w) EXCEPT !.open = TRUE]
  BY DEF XvCreated
<1>. HIDE DEF c
<1>3. CASE r = Cleanup(o)
  <2>1. Shut(r) /\ PartsOnly(o, r) /\ r.serial \in Nat  BY <1>3, ShutParts, CleanupShuts DEF PartsOnly, Shut, IsView
  <2>. QED  BY <2>1, KeptMade
<1>4. CASE r = Cleanup([c EXCEPT !.vid = zl_xv_new])
  <2> DEFINE d == [c EXCEPT !.vid = zl_xv_new]
  <2>1. /\ IsView(d) /\ d.vid = zl_xv_new /\ d.connected = c.connected /\ d.win = c.win /\ d.windowlist = c.windowlist
        /\ PartsOnly(c, d)
    BY <1>1, VideoNew, WithVideo
  <2>. HIDE DEF d
  <2>2. Parts(d)  BY <1>1, <2>1, Nothing, VideoNew DEF Parts
  <2>3. Shut(r) /\ PartsOnly(d, r)  BY <1>4, <2>2, CleanupShuts DEF d
  <2>4. d.class = o.class /\ d.alive = o.alive /\ d.packet = o.packet /\ d.autocreate = o.autocreate
        /\ d.faults = o.faults
    BY <1>1, <2>1 DEF PartsOnly
  <2>5. r.serial \in Nat  BY <2>3 DEF Shut, IsView
  <2>. QED  BY <2>3, <2>4, <2>5, KeptMade
<1>5. ASSUME NEW q \in n
      PROVE  /\ Parts(q) /\ ~q.open /\ ~q.win.init /\ q.connected /\ q.vid.init /\ q.vid.made /\ RoomFor(q.vid)
             /\ q.serial = o.serial + 1 /\ q.win.serial = q.serial /\ q.win.events = <<>>
             /\ q.class = o.class /\ q.alive = o.alive /\ q.packet = o.packet /\ q.autocreate = o.autocreate
             /\ q.faults = o.faults
  <2>1. PICK v \in zl_xv_open_on_display(zl_xv_new), b \in {1, 2} : q = zl_xwindow_new([c EXCEPT !.vid = v], b)
    BY <1>5
  <2> DEFINE d == [c EXCEPT !.vid = v]
  <2>4. IsVid(v) /\ v.made /\ v.init /\ RoomFor(v)  BY VideoNew, OpenedImage
  <2>5. /\ IsView(d) /\ d.vid = v /\ d.connected = c.connected /\ d.win = c.win /\ d.windowlist = c.windowlist
        /\ d.open = c.open /\ PartsOnly(c, d)
    <3>1. IsView(c) /\ IsVid(v)  BY <1>1, <2>4
    <3>. QED  BY <3>1, WithVideo
  <2>. HIDE DEF d
  <2>6. q = zl_xwindow_new(d, b)  BY <2>1 DEF d
  <2>7. /\ Parts(q) /\ ~q.open /\ q.windowlist = {} /\ q.vid = d.vid /\ q.connected = d.connected
        /\ q.serial = d.serial + 1 /\ q.win.serial = d.serial + 1 /\ q.win.events = <<>> /\ ~q.win.init
        /\ q.class = d.class /\ q.alive = d.alive /\ q.packet = d.packet /\ q.autocreate = d.autocreate
        /\ q.faults = d.faults
    <3>1. /\ IsView(d) /\ d.win = NoWindow /\ d.windowlist = {} /\ ~d.open /\ (d.vid.init => d.connected)
          /\ (~d.vid.made => d.vid = NoVideo)
      BY <1>1, <2>4, <2>5
    <3>. QED  BY <3>1, <2>6, WindowMade
  <2>. QED  BY <1>1, <2>4, <2>5, <2>7 DEF PartsOnly
<1>6. ASSUME NEW q \in n, r = Cleanup(q) PROVE MadeFrom(o, r)
  <2>1. Shut(r) /\ PartsOnly(q, r)  BY <1>5, <1>6, CleanupShuts
  <2>2. r.serial \in Nat  BY <2>1 DEF Shut, IsView
  <2>. QED  BY <1>5, <1>6, <2>1, <2>2, KeptMade
<1>7. ASSUME NEW q \in n, NEW w \in ViewWidths, r = [zl_xwindow_config(q, w) EXCEPT !.open = TRUE] PROVE MadeFrom(o, r)
  <2>0. o.serial + 1 # 0 /\ o.serial + 1 \in Nat  BY DEF Shut, IsView
  <2>1. /\ Opened(r) /\ r.vid = q.vid /\ r.serial = q.serial /\ r.win.serial = q.win.serial
        /\ r.win.events = q.win.events
        /\ r.class = q.class /\ r.alive = q.alive /\ r.packet = q.packet /\ r.autocreate = q.autocreate
        /\ r.faults = q.faults
    BY <1>5, <1>7, <2>0, WindowConfigured
  <2>2. VideoFor(r)  BY <1>5, <2>1 DEF VideoFor
  <2>. QED  BY <1>5, <2>0, <2>1, <2>2 DEF MadeFrom
<1>. QED  BY <1>2, <1>3, <1>4, <1>6, <1>7

LEMMA GlxMade ==
    ASSUME NEW o, Shut(o), o.class = "glx", NEW r \in GlxCreated(o)
    PROVE  MadeFrom(o, r)
<1> DEFINE c == zl_xdisplay_new(o)
           n == {zl_xwindow_new(c, b) : b \in {1, 2}}
           g == {[q EXCEPT !.vid = zl_glx_new(a, q.serial)] : q \in n, a \in Addresses}
           p == UNION {{[q EXCEPT !.vid = v] : v \in zl_glx_open_on_display(q.vid)} : q \in g}
           From(q) == q.class = o.class /\ q.alive = o.alive /\ q.packet = o.packet /\ q.autocreate = o.autocreate
                      /\ q.faults = o.faults
           Good(q) == /\ Parts(q) /\ ~q.open /\ ~q.win.init /\ q.connected /\ q.vid.made
                      /\ q.vid.serial = q.serial /\ q.vid.addr \in Addresses
                      /\ q.serial = o.serial + 1 /\ q.win.serial = q.serial /\ q.win.events = <<>> /\ From(q)
<1>1. IsView(c) /\ c.connected /\ c.win = NoWindow /\ c.windowlist = {} /\ ~c.open /\ c.vid = NoVideo /\ PartsOnly(o, c)
  BY Connected
<1>2. \/ r = Cleanup(o) \/ \E q \in g \cup p : r = Cleanup(q)
      \/ \E q \in p, w \in ViewWidths : r = [zl_xwindow_config(q, w) EXCEPT !.open = TRUE]
  <2>1. GlxCreated(o) = {Cleanup(o)} \cup {Cleanup(q) : q \in g \cup p}
                        \cup {[zl_xwindow_config(q, w) EXCEPT !.open = TRUE] : q \in p, w \in ViewWidths}
    BY DEF GlxCreated
  <2>. HIDE DEF c, n, g, p
  <2>. QED  BY <2>1
<1>. HIDE DEF c
<1>3. CASE r = Cleanup(o)
  <2>1. Shut(r) /\ PartsOnly(o, r) /\ r.serial \in Nat  BY <1>3, ShutParts, CleanupShuts DEF PartsOnly, Shut, IsView
  <2>. QED  BY <2>1, KeptMade
<1>4. ASSUME NEW q \in g PROVE Good(q)
  <2>1. PICK b \in {1, 2}, a \in Addresses :
           q = [zl_xwindow_new(c, b) EXCEPT !.vid = zl_glx_new(a, zl_xwindow_new(c, b).serial)]
    BY <1>4
  <2> DEFINE d == zl_xwindow_new(c, b)
             v == zl_glx_new(a, d.serial)
  <2>2. /\ Parts(d) /\ ~d.open /\ d.windowlist = {} /\ d.connected = c.connected
        /\ d.serial = c.serial + 1 /\ d.win.serial = c.serial + 1 /\ d.win.events = <<>> /\ ~d.win.init
        /\ d.class = c.class /\ d.alive = c.alive /\ d.packet = c.packet /\ d.autocreate = c.autocreate
        /\ d.faults = c.faults
    <3>1. /\ IsView(c) /\ c.win = NoWindow /\ c.windowlist = {} /\ ~c.open /\ (c.vid.init => c.connected)
          /\ (~c.vid.made => c.vid = NoVideo)
      BY <1>1, Nothing
    <3>. QED  BY <3>1, WindowMade
  <2>. HIDE DEF d
  <2>3. IsVid(v) /\ v.made /\ ~v.init /\ v.addr = a /\ v.serial = d.serial  BY VideoNew
  <2>. HIDE DEF v
  <2>4. q = [d EXCEPT !.vid = v]  BY <2>1 DEF d, v
  <2>5. IsView(d) /\ (d.win.serial = 0 => d.win = NoWindow)  BY <2>2 DEF Parts
  <2>6. /\ IsView(q) /\ q.vid = v /\ q.connected = d.connected /\ q.win = d.win /\ q.windowlist = d.windowlist
        /\ q.open = d.open /\ PartsOnly(d, q)
    BY <2>3, <2>4, <2>5, WithVideo
  <2>7. Parts(q)  BY <2>2, <2>3, <2>5, <2>6 DEF Parts
  <2>. QED  BY <1>1, <2>2, <2>3, <2>6, <2>7 DEF PartsOnly
<1>5. ASSUME NEW q \in p PROVE Good(q) /\ q.vid.init
  <2>1. PICK d \in g : \E v \in zl_glx_open_on_display(d.vid) : q = [d EXCEPT !.vid = v]  BY <1>5
  <2> DEFINE v == [d.vid EXCEPT !.init = TRUE]
  <2>. HIDE DEF g
  <2>2. q = [d EXCEPT !.vid = v]  BY <2>1 DEF zl_glx_open_on_display
  <2>3. Good(d)  BY <1>4
  <2>4. IsVid(d.vid) /\ IsView(d)  BY <2>3 DEF Parts, IsView
  <2>5. IsVid(v) /\ v.init /\ v.made = d.vid.made /\ v.serial = d.vid.serial /\ v.addr = d.vid.addr
    BY <2>4 DEF IsVid, VidFields
  <2>. HIDE DEF v
  <2>6. /\ IsView(q) /\ q.vid = v /\ q.connected = d.connected /\ q.win = d.win /\ q.windowlist = d.windowlist
        /\ q.open = d.open /\ PartsOnly(d, q)
    BY <2>2, <2>4, <2>5, WithVideo
  <2>7. Parts(q)  BY <2>3, <2>5, <2>6 DEF Parts
  <2>. QED  BY <2>3, <2>5, <2>6, <2>7 DEF PartsOnly
<1>. HIDE DEF g, p
<1>6. ASSUME NEW q \in g \cup p, r = Cleanup(q) PROVE MadeFrom(o, r)
  <2>0. Good(q)  BY <1>4, <1>5
  <2>1. Shut(r) /\ PartsOnly(q, r)  BY <1>6, <2>0, CleanupShuts
  <2>2. r.serial \in Nat  BY <2>1 DEF Shut, IsView
  <2>. QED  BY <2>0, <2>1, <2>2, KeptMade
<1>7. ASSUME NEW q \in p, NEW w \in ViewWidths, r = [zl_xwindow_config(q, w) EXCEPT !.open = TRUE] PROVE MadeFrom(o, r)
  <2>0. o.serial + 1 # 0 /\ o.serial + 1 \in Nat  BY DEF Shut, IsView
  <2>1. Good(q) /\ q.vid.init  BY <1>5
  <2>2. /\ Opened(r) /\ r.vid = q.vid /\ r.serial = q.serial /\ r.win.serial = q.win.serial
        /\ r.win.events = q.win.events
        /\ r.class = q.class /\ r.alive = q.alive /\ r.packet = q.packet /\ r.autocreate = q.autocreate
        /\ r.faults = q.faults
    BY <1>7, <2>0, <2>1, WindowConfigured
  <2>3. VideoFor(r)  BY <2>1, <2>2 DEF VideoFor
  <2>. QED  BY <2>0, <2>1, <2>2, <2>3 DEF MadeFrom
<1>. QED  BY <1>2, <1>3, <1>6, <1>7

-----------------------------------------------------------------------------
(* The inductive invariant of a display.  Three parts of it hold under a    *)
(* condition: no fault while the patch polls open windows only, PollAlive   *)
(* while it closes none from within an event, and ContextOwn while malloc   *)
(* does not return the address freed last.                                  *)
ClosesNone == {"destroy", "display", "free"} \cap ViewNested = {}
Sound(o) == Shut(o) \/ (Opened(o) /\ VideoFor(o))
PartsInv ==
    /\ Sound(view) /\ view.faults \subseteq (IF PollsClosed THEN {"null"} ELSE {})
    /\ ~view.alive => ~view.open
RefsInv ==
    /\ viewRefs = (IF view.packet = NoPacket0 THEN 0 ELSE 1)
    /\ ~view.alive /\ view.class = "glx" => view.packet = NoPacket0
EventsInv ==
    /\ DOMAIN viewEvents = {"posted", "sent", "dropped"}
    /\ viewEvents.posted \in Int /\ viewEvents.sent \in Int /\ viewEvents.dropped \in Int
    /\ viewServer \in Seq(EventTypes) /\ viewHeld \in 0..2 /\ EventsOnce
CopyInv == view.class = "xv" => viewCopy.fits /\ (~ImageFails => viewCopy.put)
LoopTypes == [serial : Nat \ {0}, event : EventTypes \cup {NoEvent}]
PollInv == viewCalls \in Seq(LoopTypes) /\ (ClosesNone => PollAlive)
ContextInv == ~ReusesAddress => ContextOwn
ViewInv == PartsInv /\ RefsInv /\ EventsInv /\ CopyInv /\ PollInv /\ ContextInv

LEMMA SoundView == ASSUME NEW o, Sound(o) PROVE IsView(o) /\ (o.open => Opened(o) /\ VideoFor(o)) /\ (~o.open => Shut(o))
BY DEF Sound, Shut, Opened

LEMMA CreatedMade ==
    ASSUME NEW o, Sound(o), NEW r \in Created(o)
    PROVE  IF o.open THEN r = o ELSE MadeFrom(o, r)
<1>1. CASE o.open  BY <1>1 DEF Created
<1>2. CASE ~o.open
  <2>1. Shut(o) /\ o.class \in {"xv", "glx"}  BY <1>2, SoundView, DisplayAssumption DEF IsView
  <2>2. CASE o.class = "xv"
    <3>1. r \in XvCreated(o)  BY <1>2, <2>2 DEF Created
    <3>. QED  BY <1>2, <2>1, <2>2, <3>1, XvMade
  <2>3. CASE o.class = "glx"
    <3>1. r \in GlxCreated(o)  BY <1>2, <2>3 DEF Created
    <3>. QED  BY <1>2, <2>1, <2>3, <3>1, GlxMade
  <2>. QED  BY <2>1, <2>2, <2>3
<1>. QED  BY <1>1, <1>2

LEMMA MadeSound == ASSUME NEW o, NEW r, MadeFrom(o, r) PROVE Sound(r)
BY DEF MadeFrom, Sound

LEMMA DestroyedShut ==
    ASSUME NEW o, Sound(o)
    PROVE  LET r == Destroyed(o)
           IN  /\ Shut(r) /\ r.class = o.class /\ r.alive = o.alive /\ r.autocreate = o.autocreate
               /\ r.serial = o.serial /\ r.faults = o.faults
               /\ r.packet = (IF Releases(o) THEN NoPacket0 ELSE o.packet)
<1> DEFINE c == IF o.open THEN Cleanup(o) ELSE o
           r == Destroyed(o)
<1>1. Shut(c) /\ PartsOnly(o, c)
  <2>1. CASE o.open  BY <2>1, SoundView, ShutParts, CleanupShuts
  <2>2. CASE ~o.open  BY <2>2, SoundView DEF PartsOnly
  <2>. QED  BY <2>1, <2>2
<1>. HIDE DEF c
<1>2. r = IF Releases(o) THEN [c EXCEPT !.packet = NoPacket0] ELSE c  BY DEF Destroyed, c
<1>. HIDE DEF r
<1>3. CASE Releases(o)
  <2>1. DOMAIN c = ViewFields /\ IsView(c)  BY <1>1 DEF Shut, IsView
  <2>2. /\ DOMAIN r = ViewFields /\ r.packet = NoPacket0 /\ r.class = c.class /\ r.alive = c.alive
        /\ r.autocreate = c.autocreate /\ r.serial = c.serial /\ r.faults = c.faults
        /\ r.open = c.open /\ r.connected = c.connected /\ r.win = c.win /\ r.vid = c.vid /\ r.windowlist = c.windowlist
    BY <1>2, <1>3, <2>1 DEF ViewFields
  <2>3. IsView(r)  BY <2>1, <2>2 DEF IsView
  <2>. QED  BY <1>1, <1>3, <2>2, <2>3 DEF Shut, PartsOnly, r
<1>4. CASE ~Releases(o)  BY <1>1, <1>2, <1>4 DEF PartsOnly, r
<1>. QED  BY <1>3, <1>4

(* An object takes the place of another: an event waits with its window, or *)
(* is dropped with it.                                                      *)
LEMMA GoesEvents ==
    ASSUME EventsInv, viewHeld' = viewHeld, NEW r, Goes(r), IsView(view), IsView(r),
           r.win.serial = view.win.serial => r.win.events = view.win.events,
           r.win.serial # view.win.serial => r.win.events = <<>>
    PROVE  EventsInv' /\ view' = r
<1>1. view' = r  BY DEF Goes
<1>2. Len(view.win.events) \in Nat /\ Len(viewServer) \in Nat  BY DEF IsView, IsWin, EventsInv
<1>3. CASE r.win.serial = view.win.serial
  <2>1. viewServer' = viewServer /\ viewEvents' = viewEvents  BY <1>3 DEF Goes, Drops
  <2>. QED  BY <1>1, <1>3, <2>1 DEF EventsInv, EventsOnce
<1>4. CASE r.win.serial # view.win.serial
  <2>1. viewServer' = <<>> /\ viewEvents' = [viewEvents EXCEPT !.dropped = @ + Len(view.win.events) + Len(viewServer)]
    BY <1>4 DEF Goes, Drops
  <2>2. /\ DOMAIN viewEvents' = {"posted", "sent", "dropped"} /\ viewEvents'.posted = viewEvents.posted
        /\ viewEvents'.sent = viewEvents.sent
        /\ viewEvents'.dropped = viewEvents.dropped + Len(view.win.events) + Len(viewServer)
    BY <2>1 DEF EventsInv
  <2>3. view'.win.events = <<>> /\ viewServer' \in Seq(EventTypes) /\ Len(viewServer') = 0 /\ Len(view'.win.events) = 0
    BY <1>1, <1>4, <2>1
  <2>4. /\ viewEvents.posted \in Int /\ viewEvents.sent \in Int /\ viewEvents.dropped \in Int /\ viewHeld \in 0..2
        /\ viewEvents.posted = viewEvents.sent + viewEvents.dropped + Len(viewServer) + Len(view.win.events)
    BY DEF EventsInv, EventsOnce
  <2>5. EventsOnce'  BY <1>2, <2>2, <2>3, <2>4 DEF EventsOnce
  <2>6. viewEvents'.dropped \in Int  BY <1>2, <2>2, <2>4
  <2>7. viewHeld' \in 0..2  BY <2>4
  <2>. QED  BY <1>1, <2>2, <2>3, <2>4, <2>5, <2>6, <2>7 DEF EventsInv
<1>. QED  BY <1>1, <1>3, <1>4

(* A window is new, or gone. *)
LEMMA NewEvents ==
    ASSUME NEW o, Sound(o), NEW r, Shut(r) \/ MadeFrom(o, r)
    PROVE  /\ r.win.serial = o.win.serial => r.win.events = o.win.events
           /\ r.win.serial # o.win.serial => r.win.events = <<>>
<1>1. o.win.serial = o.serial \/ o.win = NoWindow  BY DEF Sound, Shut, Opened
<1>2. o.serial \in Nat  BY SoundView DEF IsView
<1>3. Shut(r) \/ (r.win.serial = o.serial + 1 /\ r.win.events = <<>>)  BY DEF MadeFrom
<1>4. CASE Shut(r)
  <2>1. r.win = NoWindow /\ r.win.serial = 0 /\ r.win.events = <<>>  BY <1>4, Nothing DEF Shut
  <2>2. o.win.serial = 0 => o.win = NoWindow  BY Nothing DEF Sound, Shut, Opened
  <2>. QED  BY <2>1, <2>2, Nothing
<1>5. CASE r.win.serial = o.serial + 1 /\ r.win.events = <<>>
  BY <1>1, <1>2, <1>5, Nothing
<1>. QED  BY <1>3, <1>4, <1>5

(* The context of a window just made is not taken for the current one. *)
LEMMA NewContext ==
    ASSUME NEW o, NEW r, MadeFrom(o, r), r.open, r.class = "glx", ~ReusesAddress
    PROVE  r.vid.addr # viewGl[1]
<1>1. r.vid.addr \in Addresses  BY DEF MadeFrom, Shut
<1>. QED  BY <1>1 DEF Addresses

(* pdp_xv_create, and every message that replaces the object by one made    *)
(* from it. *)
LEMMA CreateStep ==
    ASSUME ViewInv, pdp_xv_create
    PROVE  ViewInv'
<1>1. PICK r \in Created(view) : Goes(r)  BY DEF pdp_xv_create
<1>2. /\ view.alive /\ viewRefs' = viewRefs /\ viewHeld' = viewHeld /\ viewCalls' = viewCalls
      /\ viewGl' = viewGl /\ viewCopy' = viewCopy /\ view' = r
  BY <1>1 DEF pdp_xv_create, Hears, Goes
<1>3. Sound(view) /\ IsView(view) /\ IF view.open THEN r = view ELSE MadeFrom(view, r)
  BY <1>1, CreatedMade, SoundView DEF ViewInv, PartsInv
<1>4. /\ Sound(r) /\ IsView(r) /\ r.class = view.class /\ r.alive = view.alive /\ r.packet = view.packet
      /\ r.faults = view.faults
  BY <1>3, MadeSound, SoundView DEF MadeFrom
<1>5. PartsInv' /\ RefsInv' /\ CopyInv'
  BY <1>2, <1>4 DEF ViewInv, PartsInv, RefsInv, CopyInv
<1>6. /\ r.win.serial = view.win.serial => r.win.events = view.win.events
      /\ r.win.serial # view.win.serial => r.win.events = <<>>
  BY <1>3, NewEvents
<1>7. EventsInv'  BY <1>1, <1>2, <1>3, <1>4, <1>6, GoesEvents DEF ViewInv
<1>8. PollInv'
  BY <1>2, <1>3 DEF ViewInv, PollInv, PollAlive
<1>9. ContextInv'
  <2>1. CASE view.open  BY <1>2, <1>3, <2>1 DEF ViewInv, ContextInv, ContextOwn
  <2>2. CASE ~view.open
    <3>1. ~ReusesAddress /\ r.class = "glx" /\ r.open => viewGl[1] # r.vid.addr
      BY <1>3, <2>2, NewContext
    <3>. QED  BY <1>2, <3>1 DEF ContextInv, ContextOwn
  <2>. QED  BY <2>1, <2>2
<1>. QED  BY <1>5, <1>7, <1>8, <1>9 DEF ViewInv

(* A message that closes the window does not come from within an event. *)
LEMMA NotNested ==
    ASSUME NEW m \in {"destroy", "display", "free"}, Hears(m), ClosesNone
    PROVE  viewCalls = <<>>
BY DEF Hears, ClosesNone

LEMMA ReleasedRefs ==
    ASSUME ViewInv, viewRefs' = viewRefs - (IF view.packet # NoPacket0 /\ Releases(view) THEN 1 ELSE 0),
           view'.packet = (IF Releases(view) THEN NoPacket0 ELSE view.packet), view'.class = view.class
    PROVE  RefsInv'
<1>1. view.class = "glx" => Releases(view)  BY DEF Releases
<1>. QED  BY <1>1 DEF ViewInv, RefsInv

LEMMA DestroyStep ==
    ASSUME ViewInv, pdp_xv_destroy \/ pdp_xv_free
    PROVE  ViewInv'
<1> DEFINE d == Destroyed(view)
<1>0. Sound(view) /\ IsView(view)  BY SoundView DEF ViewInv, PartsInv
<1>1. /\ Shut(d) /\ d.class = view.class /\ d.serial = view.serial /\ d.faults = view.faults
      /\ d.packet = (IF Releases(view) THEN NoPacket0 ELSE view.packet)
  BY <1>0, DestroyedShut
<1>. HIDE DEF d
<1>2. PICK r : /\ Goes(r) /\ Shut(r) /\ r.class = view.class /\ r.faults = view.faults
               /\ r.packet = (IF Releases(view) THEN NoPacket0 ELSE view.packet)
  <2>1. CASE pdp_xv_destroy
    <3>1. Goes(d)  BY <2>1 DEF pdp_xv_destroy, d
    <3>. QED  BY <1>1, <3>1
  <2>2. CASE pdp_xv_free
    <3> DEFINE r == [d EXCEPT !.alive = FALSE]
    <3>1. Goes(r)  BY <2>2 DEF pdp_xv_free, d
    <3>2. IsView(d) /\ DOMAIN d = ViewFields  BY <1>1 DEF Shut, IsView
    <3>3. /\ DOMAIN r = ViewFields /\ r.alive = FALSE /\ r.open = d.open /\ r.connected = d.connected /\ r.win = d.win
          /\ r.vid = d.vid /\ r.windowlist = d.windowlist /\ r.class = d.class /\ r.faults = d.faults
          /\ r.packet = d.packet /\ r.serial = d.serial /\ r.autocreate = d.autocreate
      BY <3>2 DEF ViewFields
    <3>. HIDE DEF r
    <3>4. IsView(r)  BY <3>2, <3>3 DEF IsView
    <3>5. Shut(r)  BY <1>1, <3>3, <3>4 DEF Shut
    <3>. QED  BY <1>1, <3>1, <3>3, <3>5
  <2>. QED  BY <2>1, <2>2
<1>3. /\ viewRefs' = viewRefs - (IF view.packet # NoPacket0 /\ Releases(view) THEN 1 ELSE 0)
      /\ viewHeld' = viewHeld /\ viewCalls' = viewCalls /\ viewGl' = viewGl /\ viewCopy' = viewCopy
      /\ view' = r /\ (Hears("destroy") \/ Hears("free"))
  BY <1>2 DEF pdp_xv_destroy, pdp_xv_free, Goes
<1>4. Sound(r) /\ ~r.open /\ IsView(r)  BY <1>2 DEF Sound, Shut
<1>5. PartsInv' /\ CopyInv'  BY <1>2, <1>3, <1>4 DEF ViewInv, PartsInv, CopyInv
<1>6. RefsInv'  BY <1>2, <1>3, ReleasedRefs
<1>7. EventsInv'  BY <1>0, <1>2, <1>3, <1>4, NewEvents, GoesEvents DEF ViewInv
<1>8. PollInv'
  <2>1. ClosesNone => viewCalls = <<>>  BY <1>3, NotNested
  <2>. QED  BY <1>3, <2>1 DEF ViewInv, PollInv, PollAlive
<1>9. ContextInv'  BY <1>3, <1>4 DEF ContextInv, ContextOwn
<1>. QED  BY <1>5, <1>6, <1>7, <1>8, <1>9 DEF ViewInv

LEMMA DisplayMessageStep ==
    ASSUME ViewInv, pdp_xv_display
    PROVE  ViewInv'
<1> DEFINE d == Destroyed(view)
<1>0. Sound(view) /\ IsView(view) /\ view.open /\ Releases(view)
  BY SoundView DEF ViewInv, PartsInv, pdp_xv_display, Releases
<1>1. /\ Shut(d) /\ d.class = view.class /\ d.alive = view.alive /\ d.serial = view.serial /\ d.faults = view.faults
      /\ d.packet = NoPacket0
  BY <1>0, DestroyedShut
<1>2. PICK r \in Created(d) : Goes(r)  BY DEF pdp_xv_display
<1>. HIDE DEF d
<1>3. /\ viewRefs' = viewRefs - (IF view.packet # NoPacket0 /\ Releases(view) THEN 1 ELSE 0)
      /\ viewHeld' = viewHeld /\ viewCalls' = viewCalls /\ viewGl' = viewGl /\ viewCopy' = viewCopy
      /\ view' = r /\ Hears("display") /\ view.alive
  BY <1>0, <1>2 DEF pdp_xv_display, Goes, Hears
<1>4. MadeFrom(d, r)  BY <1>1, <1>2, CreatedMade DEF Sound, Shut
<1>5. Sound(r) /\ IsView(r) /\ r.class = view.class /\ r.alive /\ r.faults = view.faults /\ r.packet = NoPacket0
  BY <1>1, <1>3, <1>4, MadeSound, SoundView DEF MadeFrom
<1>6. PartsInv' /\ CopyInv'  BY <1>3, <1>5 DEF ViewInv, PartsInv, CopyInv
<1>7. RefsInv'  BY <1>0, <1>3, <1>5, ReleasedRefs
<1>8. EventsInv'
  <2>1. view.serial \in Nat /\ view.serial # 0 /\ view.win.serial = view.serial
    BY <1>0, SoundView DEF IsView, Opened
  <2>2. /\ r.win.serial = view.win.serial => r.win.events = view.win.events
        /\ r.win.serial # view.win.serial => r.win.events = <<>>
    BY <1>1, <1>4, <2>1, Nothing DEF MadeFrom, Shut
  <2>. QED  BY <1>0, <1>2, <1>3, <1>5, <2>2, GoesEvents DEF ViewInv
<1>9. PollInv'
  <2>1. ClosesNone => viewCalls = <<>>  BY <1>3, NotNested
  <2>. QED  BY <1>3, <2>1 DEF ViewInv, PollInv, PollAlive
<1>10. ContextInv'
  <2>1. ~ReusesAddress /\ r.class = "glx" /\ r.open => viewGl[1] # r.vid.addr
    BY <1>4, NewContext
  <2>. QED  BY <1>3, <2>1 DEF ContextInv, ContextOwn
<1>. QED  BY <1>6, <1>7, <1>8, <1>9, <1>10 DEF ViewInv

(* A change of an object that leaves its parts where they are. *)
LEMMA SameSound ==
    ASSUME NEW o, Sound(o), NEW r, IsView(r), r.open = o.open, r.connected = o.connected,
           r.windowlist = o.windowlist, r.serial = o.serial, r.class = o.class,
           r.win = o.win \/ (o.open /\ r.win.serial = o.win.serial /\ r.win.init = o.win.init),
           r.vid = o.vid \/ (o.open /\ r.vid.made /\ r.vid.init /\ VideoFor(r))
    PROVE  Sound(r)
<1>1. CASE o.open
  <2>1. Opened(o) /\ VideoFor(o)  BY <1>1, SoundView
  <2>2. r.vid.made /\ r.vid.init /\ VideoFor(r)  BY <2>1 DEF Opened, VideoFor
  <2>3. r.win.init /\ r.win.serial = o.win.serial  BY <2>1 DEF Opened
  <2>. QED  BY <1>1, <2>1, <2>2, <2>3 DEF Opened, Sound
<1>2. CASE ~o.open
  <2>1. Shut(o) /\ r.win = o.win /\ r.vid = o.vid  BY <1>2, SoundView
  <2>. QED  BY <1>2, <2>1 DEF Shut, Sound
<1>. QED  BY <1>1, <1>2

LEMMA AutocreateStep ==
    ASSUME ViewInv, pdp_xv_autocreate
    PROVE  ViewInv'
<1>1. PICK n \in {0, Retry} : view' = [view EXCEPT !.autocreate = n]  BY DEF pdp_xv_autocreate
<1>2. UNCHANGED <<viewRefs, viewServer, viewHeld, viewCalls, viewEvents, viewGl, viewCopy>>
  BY DEF pdp_xv_autocreate, viewRest
<1>3. Sound(view) /\ IsView(view) /\ DOMAIN view = ViewFields  BY SoundView DEF ViewInv, PartsInv, IsView
<1>4. n \in 0..Retry  BY <1>1, DisplayAssumption
<1>5. /\ DOMAIN view' = ViewFields /\ view'.autocreate = n /\ view'.alive = view.alive /\ view'.packet = view.packet
      /\ view'.faults = view.faults /\ view'.open = view.open /\ view'.connected = view.connected /\ view'.win = view.win
      /\ view'.vid = view.vid /\ view'.windowlist = view.windowlist /\ view'.class = view.class
      /\ view'.serial = view.serial
  BY <1>1, <1>3 DEF ViewFields
<1>6. IsView(view')  BY <1>3, <1>4, <1>5 DEF IsView
<1>7. Sound(view')  BY <1>3, <1>5, <1>6, SameSound
<1>8. PartsInv' /\ RefsInv' /\ CopyInv'  BY <1>2, <1>5, <1>7 DEF ViewInv, PartsInv, RefsInv, CopyInv
<1>9. EventsInv' /\ PollInv' /\ ContextInv'
  BY <1>2, <1>5 DEF ViewInv, EventsInv, EventsOnce, PollInv, PollAlive, ContextInv, ContextOwn
<1>. QED  BY <1>8, <1>9 DEF ViewInv

LEMMA WindowMessageStep ==
    ASSUME ViewInv, WindowMessage
    PROVE  ViewInv'
<1> DEFINE Resized(r) == \E x : r = [view EXCEPT !.win.width = x]
<1>0. /\ \A w : Resized(zl_xwindow_resize(view, w)) /\ Resized(zl_xwindow_moveresize(view, w))
      /\ \A n : Resized(zl_xwindow_tile(view, n))
      /\ Resized(zl_xwindow_move(view)) /\ Resized(zl_xwindow_fullscreen(view))
  <2>1. ASSUME NEW w PROVE Resized(zl_xwindow_resize(view, w)) /\ Resized(zl_xwindow_moveresize(view, w))
    BY DEF zl_xwindow_resize, zl_xwindow_moveresize
  <2>2. ASSUME NEW n PROVE Resized(zl_xwindow_tile(view, n))  BY DEF zl_xwindow_tile
  <2>. HIDE DEF Resized
  <2>. QED  BY <2>1, <2>2 DEF zl_xwindow_move, zl_xwindow_fullscreen
<1>. HIDE DEF Resized
<1>1. view.open /\ Resized(view')
  <2>1. PICK w \in ViewWidths \cup {0} :
           view' \in {zl_xwindow_resize(view, w), zl_xwindow_moveresize(view, w), zl_xwindow_move(view),
                      zl_xwindow_fullscreen(view), zl_xwindow_tile(view, 1), zl_xwindow_tile(view, 2)}
    BY DEF WindowMessage
  <2>. QED  BY <1>0, <2>1 DEF WindowMessage
<1>2. UNCHANGED <<viewRefs, viewServer, viewHeld, viewCalls, viewEvents, viewGl, viewCopy>>
  BY DEF WindowMessage, viewRest
<1>3. /\ Sound(view) /\ IsView(view) /\ DOMAIN view = ViewFields /\ DOMAIN view.win = WinFields /\ IsWin(view.win)
  BY SoundView DEF ViewInv, PartsInv, IsView, IsWin
<1>5. /\ DOMAIN view' = ViewFields /\ view'.autocreate = view.autocreate /\ view'.alive = view.alive
      /\ view'.packet = view.packet
      /\ view'.faults = view.faults /\ view'.open = view.open /\ view'.connected = view.connected
      /\ view'.vid = view.vid /\ view'.windowlist = view.windowlist /\ view'.class = view.class
      /\ view'.serial = view.serial
      /\ DOMAIN view'.win = WinFields /\ view'.win.serial = view.win.serial /\ view'.win.init = view.win.init
      /\ view'.win.events = view.win.events
  <2>1. PICK x : view' = [view EXCEPT !.win.width = x]  BY <1>1 DEF Resized
  <2>. QED  BY <1>3, <2>1 DEF ViewFields, WinFields
<1>6. IsWin(view'.win)  BY <1>3, <1>5 DEF IsWin
<1>7. IsView(view')  BY <1>3, <1>5, <1>6 DEF IsView
<1>8. Sound(view')  BY <1>1, <1>3, <1>5, <1>7, SameSound
<1>9. PartsInv' /\ RefsInv' /\ CopyInv'  BY <1>2, <1>5, <1>8 DEF ViewInv, PartsInv, RefsInv, CopyInv
<1>10. EventsInv' /\ PollInv' /\ ContextInv'
  BY <1>2, <1>5 DEF ViewInv, EventsInv, EventsOnce, PollInv, PollAlive, ContextInv, ContextOwn
<1>. QED  BY <1>9, <1>10 DEF ViewInv

LEMMA RegisterStep ==
    ASSUME ViewInv, ViewRegisters
    PROVE  ViewInv'
<1>1. CASE view.packet # NoPacket0
  <2>1. UNCHANGED <<view, viewRefs, viewServer, viewHeld, viewCalls, viewEvents, viewGl, viewCopy>>
    BY <1>1 DEF ViewRegisters, viewRest
  <2>. QED  BY <2>1 DEF ViewInv, PartsInv, RefsInv, EventsInv, EventsOnce, CopyInv, PollInv, PollAlive, ContextInv, ContextOwn
<1>2. CASE view.packet = NoPacket0
  <2>1. PICK s \in ViewSizes : view' = [view EXCEPT !.packet = s] /\ viewRefs' = viewRefs + 1
    BY <1>2 DEF ViewRegisters
  <2>2. view.alive /\ UNCHANGED <<viewServer, viewHeld, viewCalls, viewEvents, viewGl, viewCopy>>
    BY DEF ViewRegisters, viewRest, Hears
  <2>3. Sound(view) /\ IsView(view) /\ DOMAIN view = ViewFields  BY SoundView DEF ViewInv, PartsInv, IsView
  <2>4. s # NoPacket0  BY DisplayAssumption DEF NoPacket0
  <2>5. /\ DOMAIN view' = ViewFields /\ view'.autocreate = view.autocreate /\ view'.alive = view.alive
        /\ view'.packet = s
        /\ view'.faults = view.faults /\ view'.open = view.open /\ view'.connected = view.connected
        /\ view'.win = view.win
        /\ view'.vid = view.vid /\ view'.windowlist = view.windowlist /\ view'.class = view.class
        /\ view'.serial = view.serial
    BY <2>1, <2>3 DEF ViewFields
  <2>6. IsView(view')  BY <2>3, <2>5 DEF IsView
  <2>7. Sound(view')  BY <2>3, <2>5, <2>6, SameSound
  <2>8. PartsInv' /\ RefsInv' /\ CopyInv'
    BY <1>2, <2>1, <2>2, <2>4, <2>5, <2>7 DEF ViewInv, PartsInv, RefsInv, CopyInv
  <2>9. EventsInv' /\ PollInv' /\ ContextInv'
    BY <2>2, <2>5 DEF ViewInv, EventsInv, EventsOnce, PollInv, PollAlive, ContextInv, ContextOwn
  <2>. QED  BY <2>8, <2>9 DEF ViewInv
<1>. QED  BY <1>1, <1>2

(* The events of the connection move to the window. *)
LEMMA Routed ==
    ASSUME NEW o, IsView(o), viewServer \in Seq(EventTypes)
    PROVE  LET r == zl_xdisplay_route_events(o)
           IN  /\ IsView(r) /\ r.win.serial = o.win.serial /\ r.win.init = o.win.init
               /\ r.win.events = o.win.events \o viewServer
               /\ Len(r.win.events) = Len(o.win.events) + Len(viewServer)
               /\ r.class = o.class /\ r.alive = o.alive /\ r.packet = o.packet /\ r.faults = o.faults
               /\ r.open = o.open /\ r.connected = o.connected /\ r.windowlist = o.windowlist /\ r.vid = o.vid
               /\ r.serial = o.serial
<1> DEFINE r == zl_xdisplay_route_events(o)
           es == o.win.events \o viewServer
<1>1. PICK b : r = [o EXCEPT !.win.events = @ \o viewServer, !.win.width = b]
  BY DEF zl_xdisplay_route_events
<1>2. IsWin(o.win) /\ DOMAIN o = ViewFields /\ DOMAIN o.win = WinFields  BY DEF IsView, IsWin
<1>3. es \in Seq(EventTypes) /\ Len(es) = Len(o.win.events) + Len(viewServer)
  BY <1>2 DEF IsWin, EventTypes
<1>. HIDE DEF r
<1>4. r = [o EXCEPT !.win.events = es, !.win.width = b]  BY <1>1
<1>. HIDE DEF es
<1>5. /\ DOMAIN r = ViewFields /\ DOMAIN r.win = WinFields
      /\ r.win.serial = o.win.serial /\ r.win.init = o.win.init /\ r.win.events = es
      /\ r.class = o.class /\ r.alive = o.alive /\ r.packet = o.packet /\ r.faults = o.faults
      /\ r.open = o.open /\ r.connected = o.connected /\ r.windowlist = o.windowlist /\ r.vid = o.vid
      /\ r.serial = o.serial /\ r.autocreate = o.autocreate
  BY <1>2, <1>4 DEF ViewFields, WinFields
<1>6. IsWin(r.win)  BY <1>2, <1>3, <1>5 DEF IsWin, EventTypes
<1>7. IsView(r)  BY <1>5, <1>6 DEF IsView
<1>. QED  BY <1>3, <1>5, <1>7 DEF r, es

LEMMA PollsEvents ==
    ASSUME EventsInv, NEW o, IsView(view), Sound(o), o.open, Len(o.win.events) = Len(view.win.events), Polls(o)
    PROVE  /\ EventsInv' /\ Sound(view') /\ IsView(view') /\ viewCalls' = Append(viewCalls, [serial |-> o.win.serial, event |-> NoEvent])
           /\ o.win.serial \in Nat \ {0} /\ view'.win.serial = o.win.serial /\ view'.open = o.open
           /\ view'.class = o.class /\ view'.alive = o.alive /\ view'.packet = o.packet /\ view'.faults = o.faults
           /\ view'.vid = o.vid
<1> DEFINE r == zl_xdisplay_route_events(o)
<1>0. IsView(o) /\ viewServer \in Seq(EventTypes)  BY SoundView DEF EventsInv
<1>1. /\ view' = r /\ viewServer' = <<>> /\ viewCalls' = Append(viewCalls, [serial |-> o.win.serial, event |-> NoEvent])
      /\ viewEvents' = viewEvents /\ viewHeld' = viewHeld
  BY DEF Polls
<1>2. /\ IsView(r) /\ r.win.serial = o.win.serial /\ r.win.init = o.win.init
      /\ Len(r.win.events) = Len(o.win.events) + Len(viewServer) /\ r.win.events = o.win.events \o viewServer
      /\ r.class = o.class /\ r.alive = o.alive /\ r.packet = o.packet /\ r.faults = o.faults
      /\ r.open = o.open /\ r.connected = o.connected /\ r.windowlist = o.windowlist /\ r.vid = o.vid
      /\ r.serial = o.serial
  BY <1>0, Routed
<1>. HIDE DEF r
<1>3. Len(view.win.events) \in Nat /\ Len(viewServer) \in Nat /\ Len(viewServer') = 0 /\ viewServer' \in Seq(EventTypes)
  BY <1>0, <1>1 DEF IsView, IsWin
<1>4. EventsOnce'  BY <1>1, <1>2, <1>3 DEF EventsInv, EventsOnce
<1>5. EventsInv'  BY <1>1, <1>3, <1>4 DEF EventsInv
<1>6. Sound(r)  BY <1>2, SameSound
<1>7. o.win.serial \in Nat \ {0}  BY SoundView DEF Opened, IsView, IsWin
<1>. QED  BY <1>1, <1>2, <1>5, <1>6, <1>7

(* A loop begins in a window that is open, as those around it are. *)
LEMMA LoopBegins ==
    ASSUME PollInv, NEW n \in Nat \ {0}, viewCalls' = Append(viewCalls, [serial |-> n, event |-> NoEvent]),
           view'.open, view'.win.serial = n, ClosesNone => \A i \in DOMAIN viewCalls : viewCalls[i].serial = n
    PROVE  PollInv'
<1> DEFINE c == [serial |-> n, event |-> NoEvent]
<1>1. c \in LoopTypes /\ c.serial = n  BY DEF LoopTypes
<1>. HIDE DEF c
<1>2. viewCalls \in Seq(LoopTypes) /\ viewCalls' = Append(viewCalls, c)  BY DEF PollInv, c
<1>3. viewCalls' \in Seq(LoopTypes)  BY <1>1, <1>2
<1>4. ASSUME ClosesNone, NEW i \in DOMAIN viewCalls' PROVE viewCalls'[i].serial = n
  <2>1. i \in 1..(Len(viewCalls) + 1) /\ Len(viewCalls) \in Nat  BY <1>2, <1>4
  <2>2. CASE i = Len(viewCalls) + 1  BY <1>1, <1>2, <2>2
  <2>3. CASE i # Len(viewCalls) + 1
    <3>1. i \in DOMAIN viewCalls /\ viewCalls'[i] = viewCalls[i]  BY <1>2, <2>1, <2>3
    <3>. QED  BY <1>4, <3>1
  <2>. QED  BY <2>2, <2>3
<1>. QED  BY <1>3, <1>4 DEF PollInv, PollAlive

LEMMA PacketDisplayed ==
    ASSUME NEW o, Sound(o), o.open, o.packet # NoPacket0, NEW d \in display_packet(o),
           NEW e, e = [d EXCEPT !.packet = NoPacket0]
    PROVE  /\ Sound(e) /\ e.open /\ e.packet = NoPacket0 /\ e.class = o.class /\ e.alive = o.alive /\ e.faults = o.faults
           /\ e.win = o.win /\ d.class = o.class /\ e.vid = d.vid
           /\ o.class = "xv" => CopiedBytes(o) <= d.vid.room /\ (~ImageFails => d.vid.xvi)
           /\ o.class = "glx" => d.vid.addr = o.vid.addr /\ d.vid.serial = o.vid.serial
<1>1. /\ Opened(o) /\ VideoFor(o) /\ IsView(o) /\ DOMAIN o = ViewFields /\ IsVid(o.vid) /\ o.class \in {"xv", "glx"}
      /\ o.packet \in ViewSizes /\ o.packet \in Nat \X Nat
  BY SoundView, DisplayAssumption DEF IsView
<1>2. PICK v \in (IF o.class = "xv" THEN zl_xv_image_data(o.vid, o.packet) ELSE zl_glx_image_data(o.vid, o.packet)) :
         d = [o EXCEPT !.vid = v]
  BY DEF display_packet
<1>3. /\ IsVid(v) /\ v.made = o.vid.made /\ v.init = o.vid.init
      /\ o.class = "xv" => CopiedBytes(o) <= v.room /\ RoomFor(v)
      /\ o.class = "glx" => v.addr = o.vid.addr /\ v.serial = o.vid.serial
  <2>1. CASE o.class = "xv"
    <3>1. v \in zl_xv_image_data(o.vid, o.packet) /\ RoomFor(o.vid)  BY <1>1, <1>2, <2>1 DEF VideoFor
    <3>2. IsVid(v) /\ v.made = o.vid.made /\ v.init = o.vid.init /\ v.room = YV12Bytes(o.packet) /\ RoomFor(v)
      BY <1>1, <3>1, ImageData
    <3>3. CopiedBytes(o) = YV12Bytes(o.packet) /\ YV12Bytes(o.packet) \in Int
      BY <1>1, <2>1, BytesType DEF CopiedBytes
    <3>. QED  BY <2>1, <3>2, <3>3
  <2>2. CASE o.class = "glx"
    <3>1. v \in zl_glx_image_data(o.vid, o.packet)  BY <1>2, <2>2
    <3>2. v = o.vid \/ \E w, h, room : v = [o.vid EXCEPT !.w = w, !.h = h, !.room = room]
      BY <3>1 DEF zl_glx_image_data
    <3>. QED  BY <1>1, <2>2, <3>2 DEF IsVid, VidFields
  <2>. QED  BY <1>1, <2>1, <2>2
<1>4. /\ IsView(d) /\ d.vid = v /\ d.connected = o.connected /\ d.win = o.win /\ d.windowlist = o.windowlist
      /\ d.open = o.open /\ PartsOnly(o, d)
  <2>1. IsView(o) /\ IsVid(v) /\ d = [o EXCEPT !.vid = v]  BY <1>1, <1>2, <1>3
  <2>. QED  BY <2>1, WithVideo
<1>5. DOMAIN d = ViewFields  BY <1>4 DEF IsView
<1>6. /\ DOMAIN e = ViewFields /\ e.packet = NoPacket0 /\ e.vid = d.vid /\ e.connected = d.connected /\ e.win = d.win
      /\ e.windowlist = d.windowlist /\ e.open = d.open /\ e.class = d.class /\ e.alive = d.alive /\ e.serial = d.serial
      /\ e.faults = d.faults /\ e.autocreate = d.autocreate
  BY <1>5 DEF ViewFields
<1>7. IsView(e)  BY <1>4, <1>6 DEF IsView
<1>8. VideoFor(e) /\ e.vid.made /\ e.vid.init
  BY <1>1, <1>3, <1>4, <1>6 DEF VideoFor, Opened, PartsOnly
<1>9. Sound(e)  BY <1>4, <1>6, <1>7, <1>8, SameSound DEF PartsOnly
<1>. QED  BY <1>3, <1>4, <1>6, <1>9 DEF PartsOnly, RoomFor

LEMMA ShowsStep ==
    ASSUME ViewInv, NEW o, Sound(o), o.open, o.alive, o.packet # NoPacket0, o.packet = view.packet,
           o.class = view.class, o.faults = view.faults, Len(o.win.events) = Len(view.win.events),
           ~ReusesAddress /\ o.class = "glx" /\ viewGl[1] = o.vid.addr => viewGl[2] = o.vid.serial,
           ClosesNone => \A i \in DOMAIN viewCalls : viewCalls[i].serial = o.win.serial,
           ViewShows(o)
    PROVE  ViewInv'
<1>1. PICK d \in display_packet(o) :
         /\ viewCopy' = [fits |-> CopiedBytes(o) <= d.vid.room, put |-> d.class = "glx" \/ d.vid.xvi]
         /\ viewGl' = (IF o.class = "glx" THEN zl_glx_makecurrent(d.vid) ELSE viewGl)
         /\ viewRefs' = viewRefs - 1 /\ Polls([d EXCEPT !.packet = NoPacket0])
  BY DEF ViewShows
<1> DEFINE e == [d EXCEPT !.packet = NoPacket0]
<1>2. /\ Sound(e) /\ e.open /\ e.packet = NoPacket0 /\ e.class = o.class /\ e.alive = o.alive /\ e.faults = o.faults
      /\ e.win = o.win /\ d.class = o.class /\ e.vid = d.vid
      /\ o.class = "xv" => CopiedBytes(o) <= d.vid.room /\ (~ImageFails => d.vid.xvi)
      /\ o.class = "glx" => d.vid.addr = o.vid.addr /\ d.vid.serial = o.vid.serial
  BY <1>1, PacketDisplayed
<1>3. Polls(e)  BY <1>1
<1>. HIDE DEF e
<1>4. IsView(view) /\ EventsInv  BY SoundView DEF ViewInv, PartsInv
<1>5. /\ EventsInv' /\ Sound(view') /\ IsView(view') /\ viewCalls' = Append(viewCalls, [serial |-> e.win.serial, event |-> NoEvent])
      /\ e.win.serial \in Nat \ {0} /\ view'.win.serial = e.win.serial /\ view'.open = e.open
      /\ view'.class = e.class /\ view'.alive = e.alive /\ view'.packet = e.packet /\ view'.faults = e.faults
      /\ view'.vid = e.vid
  BY <1>2, <1>3, <1>4, PollsEvents
<1>6. PartsInv'  BY <1>2, <1>5 DEF ViewInv, PartsInv
<1>7. RefsInv'  BY <1>1, <1>2, <1>5 DEF ViewInv, RefsInv
<1>8. CopyInv'
  <2>1. viewCopy'.fits = (CopiedBytes(o) <= d.vid.room) /\ viewCopy'.put = (d.class = "glx" \/ d.vid.xvi)  BY <1>1
  <2>. QED  BY <1>2, <1>5, <2>1 DEF CopyInv
<1>9. PollInv'  BY <1>2, <1>5, LoopBegins DEF ViewInv
<1>10. ContextInv'
  <2>1. SUFFICES ASSUME ~ReusesAddress, view'.class = "glx", view'.open, viewGl'[1] = view'.vid.addr
                 PROVE  viewGl'[2] = view'.vid.serial
    BY DEF ContextInv, ContextOwn
  <2>2. o.class = "glx" /\ view'.vid = d.vid  BY <1>2, <1>5, <2>1
  <2>3. viewGl' = IF viewGl[1] = d.vid.addr THEN viewGl ELSE <<d.vid.addr, d.vid.serial>>
    BY <1>1, <2>2 DEF zl_glx_makecurrent
  <2>4. CASE viewGl[1] = d.vid.addr  BY <1>2, <2>1, <2>2, <2>3, <2>4
  <2>5. CASE viewGl[1] # d.vid.addr  BY <2>2, <2>3, <2>5
  <2>. QED  BY <2>4, <2>5
<1>. QED  BY <1>5, <1>6, <1>7, <1>8, <1>9, <1>10 DEF ViewInv

LEMMA TriedToCreate ==
    ASSUME NEW o, Sound(o), ~o.open, NEW r \in try_autocreate(o)
    PROVE  /\ Sound(r) /\ r.class = o.class /\ r.alive = o.alive /\ r.packet = o.packet /\ r.faults = o.faults
           /\ r.win.events = o.win.events
           /\ r.open => MadeFrom(o, r)
<1>1. CASE o.autocreate = 0
  <2>1. r = o  BY <1>1 DEF try_autocreate
  <2>. QED  BY <2>1
<1>2. CASE o.autocreate # 0
  <2>1. PICK c \in Created(o) : r = IF c.open THEN c ELSE [c EXCEPT !.autocreate = @ - 1]
    BY <1>2 DEF try_autocreate
  <2>2. MadeFrom(o, c)  BY CreatedMade
  <2>3. Sound(c) /\ IsView(c)  BY <2>2, MadeSound, SoundView
  <2>4. o.win.events = <<>> /\ c.win.events = <<>>
    BY <2>2, SoundView, Nothing DEF MadeFrom, Shut
  <2>5. CASE c.open  BY <2>1, <2>2, <2>3, <2>4, <2>5 DEF MadeFrom
  <2>6. CASE ~c.open
    <3>1. r = [c EXCEPT !.autocreate = @ - 1] /\ DOMAIN c = ViewFields  BY <2>1, <2>3, <2>6 DEF IsView
    <3>2. /\ DOMAIN r = ViewFields /\ r.autocreate = c.autocreate - 1 /\ r.packet = c.packet /\ r.vid = c.vid
          /\ r.connected = c.connected /\ r.win = c.win
          /\ r.windowlist = c.windowlist /\ r.open = c.open /\ r.class = c.class /\ r.alive = c.alive
          /\ r.serial = c.serial /\ r.faults = c.faults
      BY <3>1 DEF ViewFields
    <3>3. c.autocreate \in 0..Retry /\ c.autocreate # 0 /\ Retry \in Nat
      BY <1>2, <2>2, <2>3, DisplayAssumption DEF MadeFrom, IsView
    <3>4. r.autocreate \in 0..Retry  BY <3>2, <3>3
    <3>5. IsView(r)  BY <2>3, <3>2, <3>4 DEF IsView
    <3>6. Sound(r)  BY <2>3, <3>2, <3>5, SameSound
    <3>. QED  BY <2>2, <2>4, <2>6, <3>2, <3>6 DEF MadeFrom
  <2>. QED  BY <2>5, <2>6
<1>. QED  BY <1>1, <1>2

LEMMA BangStep ==
    ASSUME ViewInv, pdp_xv_bang
    PROVE  ViewInv'
<1>1. Sound(view) /\ IsView(view) /\ view.alive /\ EventsInv  BY SoundView DEF ViewInv, PartsInv, pdp_xv_bang, Hears
<1>2. CASE view.open /\ view.packet # NoPacket0 /\ ViewShows(view)
  <2>1. ~ReusesAddress /\ view.class = "glx" /\ viewGl[1] = view.vid.addr => viewGl[2] = view.vid.serial
    BY <1>2 DEF ViewInv, ContextInv, ContextOwn
  <2>2. ClosesNone => \A i \in DOMAIN viewCalls : viewCalls[i].serial = view.win.serial
    BY DEF ViewInv, PollInv, PollAlive
  <2>. QED  BY <1>1, <1>2, <2>1, <2>2, ShowsStep
<1>3. CASE UNCHANGED viewVars
  BY <1>3 DEF viewVars, viewRest, ViewInv, PartsInv, RefsInv, EventsInv, EventsOnce, CopyInv, PollInv, PollAlive,
              ContextInv, ContextOwn
<1>4. ASSUME ~view.open, NEW r \in try_autocreate(view), r.open, r.packet # NoPacket0, ViewShows(r)
      PROVE  ViewInv'
  <2>1. /\ Sound(r) /\ r.class = view.class /\ r.alive = view.alive /\ r.packet = view.packet /\ r.faults = view.faults
        /\ r.win.events = view.win.events /\ MadeFrom(view, r)
    BY <1>1, <1>4, TriedToCreate
  <2>2. ~ReusesAddress /\ r.class = "glx" => viewGl[1] # r.vid.addr  BY <1>4, <2>1, NewContext
  <2>3. ClosesNone => \A i \in DOMAIN viewCalls : viewCalls[i].serial = r.win.serial
    BY <1>4 DEF ViewInv, PollInv, PollAlive
  <2>. QED  BY <1>1, <1>4, <2>1, <2>2, <2>3, ShowsStep
<1>5. ASSUME ~view.open, NEW r \in try_autocreate(view),
             view' = r /\ UNCHANGED <<viewRefs, viewRest, viewGl, viewCopy>>
      PROVE  ViewInv'
  <2>1. /\ Sound(r) /\ r.class = view.class /\ r.alive = view.alive /\ r.packet = view.packet /\ r.faults = view.faults
        /\ r.win.events = view.win.events /\ (r.open => MadeFrom(view, r))
    BY <1>1, <1>5, TriedToCreate
  <2>2. /\ view' = r /\ viewRefs' = viewRefs /\ viewGl' = viewGl /\ viewCopy' = viewCopy /\ viewServer' = viewServer
        /\ viewEvents' = viewEvents /\ viewHeld' = viewHeld /\ viewCalls' = viewCalls
    BY <1>5 DEF viewRest
  <2>3. PartsInv' /\ RefsInv' /\ CopyInv'  BY <1>1, <2>1, <2>2 DEF ViewInv, PartsInv, RefsInv, CopyInv
  <2>4. EventsInv'  BY <1>1, <2>1, <2>2 DEF EventsInv, EventsOnce
  <2>5. PollInv'  BY <1>5, <2>2 DEF ViewInv, PollInv, PollAlive
  <2>6. ~ReusesAddress /\ r.open /\ r.class = "glx" => viewGl[1] # r.vid.addr  BY <2>1, NewContext
  <2>7. ContextInv'  BY <2>2, <2>6 DEF ContextInv, ContextOwn
  <2>. QED  BY <2>3, <2>4, <2>5, <2>7 DEF ViewInv
<1>. QED  BY <1>2, <1>3, <1>4, <1>5 DEF pdp_xv_bang

LEMMA PollStep ==
    ASSUME ViewInv, pdp_xv_poll
    PROVE  ViewInv'
<1>1. Sound(view) /\ IsView(view) /\ EventsInv  BY SoundView DEF ViewInv, PartsInv
<1>2. UNCHANGED <<viewRefs, viewGl, viewCopy>>  BY DEF pdp_xv_poll
<1>3. CASE view.open /\ Polls(view)
  <2>1. /\ EventsInv' /\ Sound(view') /\ IsView(view') /\ viewCalls' = Append(viewCalls, [serial |-> view.win.serial, event |-> NoEvent])
        /\ view.win.serial \in Nat \ {0} /\ view'.win.serial = view.win.serial /\ view'.open = view.open
        /\ view'.class = view.class /\ view'.alive = view.alive /\ view'.packet = view.packet
        /\ view'.faults = view.faults /\ view'.vid = view.vid
    BY <1>1, <1>3, PollsEvents
  <2>2. view'.win.serial = view.win.serial /\ Opened(view) /\ Opened(view')
    BY <1>1, <1>3, <2>1, SoundView
  <2>3. ContextInv'  BY <1>2, <1>3, <2>1 DEF ViewInv, ContextInv, ContextOwn
  <2>4. PollInv'
    <3>1. PollInv /\ (ClosesNone => \A i \in DOMAIN viewCalls : viewCalls[i].serial = view.win.serial)
      BY DEF ViewInv, PollInv, PollAlive
    <3>. QED  BY <1>3, <2>1, <3>1, LoopBegins
  <2>. QED  BY <1>2, <1>3, <2>1, <2>3, <2>4 DEF ViewInv, PartsInv, RefsInv, CopyInv
<1>4. CASE ~view.open /\ PollsClosed /\ view' = Faults(view, "null", TRUE) /\ UNCHANGED viewRest
  <2>1. view' = [view EXCEPT !.faults = @ \cup {"null"}] /\ DOMAIN view = ViewFields
    BY <1>1, <1>4 DEF Faults, IsView
  <2>2. /\ DOMAIN view' = ViewFields /\ view'.autocreate = view.autocreate /\ view'.alive = view.alive
        /\ view'.packet = view.packet
        /\ view'.faults = view.faults \cup {"null"} /\ view'.open = view.open /\ view'.connected = view.connected
        /\ view'.win = view.win
        /\ view'.vid = view.vid /\ view'.windowlist = view.windowlist /\ view'.class = view.class
        /\ view'.serial = view.serial
    BY <2>1 DEF ViewFields
  <2>3. IsView(view')  BY <1>1, <2>2 DEF IsView
  <2>4. Sound(view')  BY <1>1, <2>2, <2>3, SameSound
  <2>5. PartsInv' /\ RefsInv' /\ CopyInv'
    BY <1>2, <1>4, <2>2, <2>4 DEF ViewInv, PartsInv, RefsInv, CopyInv
  <2>6. EventsInv' /\ PollInv' /\ ContextInv'
    BY <1>2, <1>4, <2>2 DEF viewRest, ViewInv, EventsInv, EventsOnce, PollInv, PollAlive, ContextInv, ContextOwn
  <2>. QED  BY <2>5, <2>6 DEF ViewInv
<1>. QED  BY <1>3, <1>4 DEF pdp_xv_poll

LEMMA AllButLast ==
    ASSUME NEW S, NEW s \in Seq(S), Len(s) >= 1
    PROVE  SubSeq(s, 1, Len(s) - 1) \in Seq(S) /\ Len(SubSeq(s, 1, Len(s) - 1)) = Len(s) - 1
<1>1. ASSUME NEW i \in 1..Len(s) PROVE SubSeq(s, 1, i - 1) \in Seq(S) /\ Len(SubSeq(s, 1, i - 1)) = i - 1
  OBVIOUS
<1>2. Len(s) \in 1..Len(s)  OBVIOUS
<1>. QED  BY <1>1, <1>2

(* The innermost loop takes up an event, or has sent it. *)
LEMMA LoopSends ==
    ASSUME PollInv, viewCalls # <<>>, NEW e \in EventTypes \cup {NoEvent}, Sends(e),
           view'.open = view.open, view'.win.serial = view.win.serial
    PROVE  PollInv'
<1> DEFINE n == Len(viewCalls)
<1>1. /\ viewCalls \in Seq(LoopTypes) /\ n \in DOMAIN viewCalls /\ DOMAIN viewCalls = 1..Len(viewCalls)
      /\ viewCalls[n] \in LoopTypes
  BY DEF PollInv
<1>2. viewCalls' = [viewCalls EXCEPT ![n] = [viewCalls[n] EXCEPT !.event = e]]  BY DEF Sends
<1>. HIDE DEF n
<1>3. /\ [viewCalls[n] EXCEPT !.event = e] \in LoopTypes
      /\ [viewCalls[n] EXCEPT !.event = e].serial = viewCalls[n].serial
  BY <1>1 DEF LoopTypes
<1>4. viewCalls' \in Seq(LoopTypes) /\ DOMAIN viewCalls' = DOMAIN viewCalls  BY <1>1, <1>2, <1>3
<1>5. \A i \in DOMAIN viewCalls' : viewCalls'[i].serial = viewCalls[i].serial  BY <1>1, <1>2, <1>3, <1>4
<1>. QED  BY <1>4, <1>5 DEF PollInv, PollAlive

(* The window of a loop that goes on is open. *)
LEMMA LoopWindow ==
    ASSUME ViewInv, viewCalls # <<>>, view.win.serial = Innermost.serial
    PROVE  view.open /\ Innermost \in LoopTypes
<1>1. Innermost \in LoopTypes  BY DEF ViewInv, PollInv, Innermost
<1>2. view.win.serial # 0  BY <1>1 DEF LoopTypes
<1>3. ~view.open => view.win = NoWindow  BY SoundView DEF ViewInv, PartsInv, Shut
<1>. QED  BY <1>1, <1>2, <1>3, Nothing

(* An event leaves the window for the patch. *)
LEMMA SentStep ==
    ASSUME ViewInv, zl_xwindow_for_parsed_events
    PROVE  ViewInv'
<1> DEFINE s == view.win.events
           e == s[Len(s)]
           n == PopEvent(view.win)
           rest == SubSeq(s, 1, Len(s) - 1)
<1>1. /\ Sound(view) /\ IsView(view) /\ DOMAIN view = ViewFields /\ IsWin(view.win) /\ DOMAIN view.win = WinFields
      /\ EventsInv
  BY SoundView DEF ViewInv, PartsInv, IsView, IsWin
<1>2. /\ view.win.serial = Innermost.serial /\ viewCalls # <<>> /\ s # <<>> /\ Sends(e)
      /\ view' = [view EXCEPT !.win = n] /\ viewEvents' = [viewEvents EXCEPT !.sent = @ + 1]
      /\ UNCHANGED <<viewRefs, viewServer, viewHeld, viewGl, viewCopy>>
  BY DEF zl_xwindow_for_parsed_events
<1>3. s \in Seq(EventTypes) /\ Len(s) \in Nat /\ Len(s) >= 1  BY <1>1, <1>2 DEF IsWin, EventTypes
<1>4. rest \in Seq(EventTypes) /\ Len(rest) = Len(s) - 1  BY <1>3, AllButLast
<1>5. e \in EventTypes  BY <1>3
<1>6. DOMAIN n = WinFields /\ n.serial = view.win.serial /\ n.init = view.win.init /\ n.events = rest
  BY <1>1 DEF PopEvent, WinFields
<1>. HIDE DEF rest, e, s
<1>7. IsWin(n)  BY <1>1, <1>4, <1>6 DEF IsWin, EventTypes
<1>. HIDE DEF n
<1>8. /\ DOMAIN view' = ViewFields /\ view'.autocreate = view.autocreate /\ view'.alive = view.alive
      /\ view'.packet = view.packet /\ view'.faults = view.faults /\ view'.open = view.open
      /\ view'.connected = view.connected /\ view'.win = n /\ view'.vid = view.vid
      /\ view'.windowlist = view.windowlist /\ view'.class = view.class /\ view'.serial = view.serial
  BY <1>1, <1>2 DEF ViewFields
<1>9. IsView(view')  BY <1>1, <1>7, <1>8 DEF IsView
<1>10. view.open  BY <1>2, LoopWindow
<1>11. Sound(view')  BY <1>1, <1>6, <1>8, <1>9, <1>10, SameSound
<1>12. PartsInv' /\ RefsInv' /\ CopyInv'  BY <1>2, <1>8, <1>11 DEF ViewInv, PartsInv, RefsInv, CopyInv
<1>13. PollInv' /\ ContextInv'
  <2>1. PollInv'  BY <1>2, <1>5, <1>6, <1>8, LoopSends DEF ViewInv
  <2>. QED  BY <1>2, <1>6, <1>8, <2>1 DEF ViewInv, ContextInv, ContextOwn
<1>14. EventsInv'
  <2>1. /\ DOMAIN viewEvents' = {"posted", "sent", "dropped"} /\ viewEvents'.posted = viewEvents.posted
        /\ viewEvents'.sent = viewEvents.sent + 1 /\ viewEvents'.dropped = viewEvents.dropped
    BY <1>1, <1>2 DEF EventsInv
  <2>2. Len(view'.win.events) = Len(view.win.events) - 1  BY <1>4, <1>6, <1>8 DEF s
  <2>3. /\ Len(viewServer) \in Nat /\ Len(view.win.events) \in Nat /\ viewEvents.sent \in Int
        /\ viewEvents.posted \in Int /\ viewEvents.dropped \in Int
        /\ viewEvents.posted = viewEvents.sent + viewEvents.dropped + Len(viewServer) + Len(view.win.events)
    BY <1>1, <1>3 DEF EventsInv, EventsOnce, s
  <2>4. EventsOnce'  BY <1>2, <2>1, <2>2, <2>3 DEF EventsOnce
  <2>. QED  BY <1>1, <1>2, <2>1, <2>3, <2>4 DEF EventsInv
<1>. QED  BY <1>12, <1>13, <1>14 DEF ViewInv

(* The patch has answered: the button of a press is kept. *)
LEMMA SendReturnsStep ==
    ASSUME ViewInv, SendReturns
    PROVE  ViewInv'
<1>1. view.open /\ Innermost \in LoopTypes  BY LoopWindow DEF SendReturns
<1>2. /\ Sound(view) /\ IsView(view) /\ DOMAIN view = ViewFields /\ IsWin(view.win) /\ DOMAIN view.win = WinFields
  BY SoundView DEF ViewInv, PartsInv, IsView, IsWin
<1>3. /\ view' = (IF Innermost.event.type \in {"press", "release"}
                  THEN [view EXCEPT !.win.lastbut = Innermost.event.value] ELSE view)
      /\ viewCalls # <<>> /\ Sends(NoEvent) /\ UNCHANGED <<viewRefs, viewServer, viewHeld, viewEvents, viewGl, viewCopy>>
  BY DEF SendReturns
<1>4. /\ DOMAIN view' = ViewFields /\ view'.autocreate = view.autocreate /\ view'.alive = view.alive
      /\ view'.packet = view.packet /\ view'.faults = view.faults /\ view'.open = view.open
      /\ view'.connected = view.connected /\ view'.vid = view.vid
      /\ view'.windowlist = view.windowlist /\ view'.class = view.class /\ view'.serial = view.serial
      /\ DOMAIN view'.win = WinFields /\ view'.win.serial = view.win.serial /\ view'.win.init = view.win.init
      /\ view'.win.events = view.win.events
  BY <1>2, <1>3 DEF ViewFields, WinFields
<1>5. IsWin(view'.win)  BY <1>2, <1>4 DEF IsWin
<1>6. IsView(view')  BY <1>2, <1>4, <1>5 DEF IsView
<1>7. Sound(view')  BY <1>1, <1>2, <1>4, <1>6, SameSound
<1>8. PartsInv' /\ RefsInv' /\ CopyInv'  BY <1>3, <1>4, <1>7 DEF ViewInv, PartsInv, RefsInv, CopyInv
<1>9. PollInv'  BY <1>3, <1>4, LoopSends DEF ViewInv
<1>10. EventsInv' /\ ContextInv'  BY <1>3, <1>4 DEF ViewInv, EventsInv, EventsOnce, ContextInv, ContextOwn
<1>. QED  BY <1>8, <1>9, <1>10 DEF ViewInv

LEMMA PollEndStep ==
    ASSUME ViewInv, PollEnds
    PROVE  ViewInv'
<1> DEFINE rest == SubSeq(viewCalls, 1, Len(viewCalls) - 1)
<1>1. /\ viewCalls # <<>> /\ viewCalls \in Seq(LoopTypes) /\ viewCalls' = rest
      /\ UNCHANGED <<view, viewRefs, viewServer, viewHeld, viewEvents, viewGl, viewCopy>>
  BY DEF PollEnds, ViewInv, PollInv
<1>2. Len(viewCalls) \in Nat /\ Len(viewCalls) >= 1  BY <1>1
<1>3. rest \in Seq(LoopTypes) /\ Len(rest) = Len(viewCalls) - 1  BY <1>1, <1>2, AllButLast
<1>4. \A i \in DOMAIN rest : i \in DOMAIN viewCalls /\ rest[i] = viewCalls[i]
  <2>1. ASSUME NEW i \in 1..(Len(viewCalls) - 1) PROVE i \in DOMAIN viewCalls /\ rest[i] = viewCalls[i]
    BY <1>1, <1>2, <2>1
  <2>2. DOMAIN rest = 1..(Len(viewCalls) - 1)  BY <1>3
  <2>. QED  BY <2>1, <2>2
<1>. HIDE DEF rest
<1>5. PollInv'  BY <1>1, <1>3, <1>4 DEF ViewInv, PollInv, PollAlive
<1>6. PartsInv' /\ RefsInv' /\ EventsInv' /\ CopyInv' /\ ContextInv'
  BY <1>1 DEF ViewInv, PartsInv, RefsInv, EventsInv, EventsOnce, CopyInv, ContextInv, ContextOwn
<1>. QED  BY <1>5, <1>6 DEF ViewInv

LEMMA PostStep ==
    ASSUME ViewInv, ServerPosts
    PROVE  ViewInv'
<1>1. PICK e \in EventTypes :
         /\ viewServer' = Append(viewServer, e) /\ viewHeld' \in 0..2
         /\ viewEvents' = [viewEvents EXCEPT !.posted = @ + 1]
         /\ UNCHANGED <<view, viewRefs, viewCalls, viewGl, viewCopy>>
  <2>1. viewHeld \in 0..2  BY DEF ViewInv, EventsInv
  <2>2. PICK e \in ServerEvents :
          /\ viewServer' = Append(viewServer, e)
          /\ viewHeld' = CASE e.type = "press" -> e.value [] e.type = "release" -> 0 [] OTHER -> viewHeld
    BY DEF ServerPosts
  <2>3. e \in EventTypes /\ (e.type = "press" => e.value \in {1, 2})
    <3>1. CASE e \in [type : {"close", "key"}, value : {0}]  BY <3>1 DEF EventTypes
    <3>2. CASE e \in [type : {"configure"}, value : ViewWidths]  BY <3>2, DisplayAssumption DEF EventTypes
    <3>3. CASE e \in [type : {"motion"}, value : {viewHeld}]  BY <2>1, <3>3 DEF EventTypes
    <3>4. CASE e \in [type : {"press"}, value : {1, 2}]  BY <3>4 DEF EventTypes
    <3>5. CASE e \in [type : {"release"}, value : {viewHeld}]  BY <2>1, <3>5 DEF EventTypes
    <3>. QED  BY <2>2, <3>1, <3>2, <3>3, <3>4, <3>5 DEF ServerEvents
  <2>4. viewHeld' \in 0..2
    <3>1. CASE e.type = "press"
      <4>1. e.value \in {1, 2} /\ viewHeld' = e.value  BY <2>2, <2>3, <3>1
      <4>. QED  BY <4>1
    <3>2. CASE e.type = "release"  BY <2>2, <3>2
    <3>3. CASE e.type # "press" /\ e.type # "release"  BY <2>1, <2>2, <3>3
    <3>. QED  BY <3>1, <3>2, <3>3
  <2>. QED  BY <2>2, <2>3, <2>4 DEF ServerPosts
<1>2. EventsInv'
  <2>1. EventsInv /\ IsView(view)  BY SoundView DEF ViewInv, PartsInv
  <2>2. viewServer' \in Seq(EventTypes) /\ Len(viewServer') = Len(viewServer) + 1  BY <1>1, <2>1 DEF EventsInv
  <2>3. /\ DOMAIN viewEvents' = {"posted", "sent", "dropped"} /\ viewEvents'.posted = viewEvents.posted + 1
        /\ viewEvents'.sent = viewEvents.sent /\ viewEvents'.dropped = viewEvents.dropped
    BY <1>1, <2>1 DEF EventsInv
  <2>4. /\ Len(viewServer) \in Nat /\ Len(view.win.events) \in Nat /\ viewEvents.sent \in Int
        /\ viewEvents.posted \in Int /\ viewEvents.dropped \in Int
        /\ viewEvents.posted = viewEvents.sent + viewEvents.dropped + Len(viewServer) + Len(view.win.events)
    BY <2>1 DEF EventsInv, EventsOnce, IsView, IsWin
  <2>5. EventsOnce'  BY <1>1, <2>2, <2>3, <2>4 DEF EventsOnce
  <2>. QED  BY <1>1, <2>2, <2>3, <2>4, <2>5 DEF EventsInv
<1>3. PartsInv' /\ RefsInv' /\ CopyInv' /\ PollInv' /\ ContextInv'
  BY <1>1 DEF ViewInv, PartsInv, RefsInv, CopyInv, PollInv, PollAlive, ContextInv, ContextOwn
<1>. QED  BY <1>2, <1>3 DEF ViewInv

LEMMA ViewStep ==
    ASSUME ViewInv, ViewNext
    PROVE  ViewInv'
BY CreateStep, DestroyStep, DisplayMessageStep, AutocreateStep, WindowMessageStep, RegisterStep, BangStep, PollStep,
   SentStep, SendReturnsStep, PollEndStep, PostStep DEF ViewNext

-----------------------------------------------------------------------------
(* pdp_sdl.  While no call of SDL fails, the object that is alive owns the  *)
(* library and its surface and overlay are those of the library.            *)
SdlFields == {"alive", "surface", "overlay", "size", "asked"}
IsSdl(o) == DOMAIN o = SdlFields /\ o.alive \in BOOLEAN
IsLib(l) == DOMAIN l = {"up", "surface", "made", "session"} /\ l.up \in BOOLEAN /\ l.made \in Nat
OnSurface(o, l) == o.surface \in {0, l.surface} /\ o.overlay \in {0, l.surface}
SdlOk ==
    /\ DOMAIN sdl = SdlObjects /\ IsLib(sdlSession) /\ sdlRefs = 0
    /\ \A i \in SdlObjects : IsSdl(sdl[i])
    /\ \A i \in SdlObjects : sdl[i].alive => sdlOwner = i /\ sdlSession.up /\ OnSurface(sdl[i], sdlSession)
SdlInv == sdlOwner \in SdlObjects \cup {0} /\ (~SdlFails => SdlOk)

Made(o, p) ==
    /\ IsSdl(p[1]) /\ p[1].alive = o.alive /\ IsLib(p[2]) /\ p[2].up = TRUE
    /\ p[1].overlay = 0 /\ p[1].surface = p[2].surface /\ p[2].surface # 0
LEMMA SurfaceMade ==
    ASSUME ~SdlFails, NEW o, IsSdl(o), NEW l, IsLib(l), l.up = TRUE, NEW w
    PROVE  \A p \in create_surface(o, l, w) : Made(o, p)
<1>0. SUFFICES ASSUME NEW p \in create_surface(o, l, w) PROVE Made(o, p)  OBVIOUS
<1> DEFINE n == l.made + 1
           d == destroy_overlay(o)
           a == [d EXCEPT !.surface = n, !.asked = w]
           b == [l EXCEPT !.surface = n, !.made = n]
<1>1. n \in Nat /\ n # 0  BY DEF IsLib
<1>2. p = <<a, b>>  BY DEF create_surface
<1>3. d = [o EXCEPT !.overlay = 0]  BY DEF destroy_overlay
<1>. HIDE DEF d, n
<1>4. IsSdl(d) /\ d.alive = o.alive /\ d.overlay = 0  BY <1>3 DEF IsSdl, SdlFields
<1>5. IsSdl(a) /\ a.alive = o.alive /\ a.overlay = 0 /\ a.surface = n  BY <1>4 DEF IsSdl, SdlFields
<1>6. IsLib(b) /\ b.up = TRUE /\ b.surface = n  BY <1>1 DEF IsLib
<1>. HIDE DEF a, b
<1>. QED  BY <1>1, <1>2, <1>5, <1>6 DEF Made

LEMMA OverlayChecked ==
    ASSUME ~SdlFails, NEW o, IsSdl(o), NEW l, OnSurface(o, l), NEW s, NEW q \in check_overlay(o, s)
    PROVE  IsSdl(q) /\ q.alive = o.alive /\ OnSurface(q, l) /\ (o.surface # 0 => q.overlay # 0)
<1> DEFINE d == destroy_overlay(o)
<1>0. d = [o EXCEPT !.overlay = 0]  BY DEF destroy_overlay
<1>1. (q = o /\ o.overlay # 0) \/ q \in create_overlay(d, s)  BY DEF check_overlay
<1>. HIDE DEF d
<1>2. IsSdl(d) /\ d.alive = o.alive /\ d.overlay = 0 /\ d.surface = o.surface  BY <1>0 DEF IsSdl, SdlFields
<1>3. CASE q = o /\ o.overlay # 0  BY <1>3
<1>4. CASE q \in create_overlay(d, s)
  <2>1. CASE d.surface = 0
    <3>1. q = d  BY <1>4, <2>1 DEF create_overlay
    <3>. QED  BY <1>2, <2>1, <3>1 DEF OnSurface
  <2>2. CASE d.surface # 0
    <3>1. q = [d EXCEPT !.overlay = d.surface, !.size = s]  BY <1>4, <2>2 DEF create_overlay
    <3>2. IsSdl(q) /\ q.alive = d.alive /\ q.overlay = d.surface /\ q.surface = d.surface
      BY <1>2, <3>1 DEF IsSdl, SdlFields
    <3>. QED  BY <1>2, <2>2, <3>2 DEF OnSurface
  <2>. QED  BY <2>1, <2>2
<1>. QED  BY <1>1, <1>3, <1>4

LEMMA OpenedOwner ==
    ASSUME NEW o, NEW r \in pdp_sdl_open(o)
    PROVE  r[3] \in {sdlOwner, 0}
<1>1. CASE o.overlay # 0  BY <1>1 DEF pdp_sdl_open
<1>2. CASE o.overlay = 0
  <2>0. PICK p \in create_surface(o, sdlSession, 320) :
           \E q \in (IF p[1].surface = 0 THEN {p[1]} ELSE check_overlay(p[1], <<240, 320>>)) :
              r = IF q.overlay = 0 THEN <<SdlDies(q)[1], SdlDies(q)[2], 0>> ELSE <<q, p[2], sdlOwner>>
    BY <1>2 DEF pdp_sdl_open
  <2>1. PICK q \in (IF p[1].surface = 0 THEN {p[1]} ELSE check_overlay(p[1], <<240, 320>>)) :
           r = IF q.overlay = 0 THEN <<SdlDies(q)[1], SdlDies(q)[2], 0>> ELSE <<q, p[2], sdlOwner>>
    BY <2>0
  <2>. QED  BY <2>1
<1>. QED  BY <1>1, <1>2

LEMMA OpenedSdl ==
    ASSUME ~SdlFails, NEW o, IsSdl(o), IsLib(sdlSession), sdlSession.up = TRUE, OnSurface(o, sdlSession),
           NEW r \in pdp_sdl_open(o)
    PROVE  /\ IsSdl(r[1]) /\ r[1].alive = o.alive /\ IsLib(r[2]) /\ r[2].up = TRUE /\ OnSurface(r[1], r[2])
           /\ r[3] = sdlOwner /\ r[1].overlay # 0
<1>1. CASE o.overlay # 0
  <2>1. r = <<o, sdlSession, sdlOwner>>  BY <1>1 DEF pdp_sdl_open
  <2>. QED  BY <1>1, <2>1
<1>2. CASE o.overlay = 0
  <2>0. PICK p \in create_surface(o, sdlSession, 320) :
           \E q \in (IF p[1].surface = 0 THEN {p[1]} ELSE check_overlay(p[1], <<240, 320>>)) :
              r = IF q.overlay = 0 THEN <<SdlDies(q)[1], SdlDies(q)[2], 0>> ELSE <<q, p[2], sdlOwner>>
    BY <1>2 DEF pdp_sdl_open
  <2>1. PICK q \in (IF p[1].surface = 0 THEN {p[1]} ELSE check_overlay(p[1], <<240, 320>>)) :
           r = IF q.overlay = 0 THEN <<SdlDies(q)[1], SdlDies(q)[2], 0>> ELSE <<q, p[2], sdlOwner>>
    BY <2>0
  <2>2. /\ IsSdl(p[1]) /\ p[1].alive = o.alive /\ IsLib(p[2]) /\ p[2].up = TRUE
        /\ p[1].overlay = 0 /\ p[1].surface = p[2].surface /\ p[2].surface # 0
    <3>1. \A x \in create_surface(o, sdlSession, 320) : Made(o, x)  BY SurfaceMade
    <3>2. Made(o, p)  BY <2>0, <3>1
    <3>. QED  BY <3>2 DEF Made
  <2>3. OnSurface(p[1], p[2])  BY <2>2 DEF OnSurface
  <2>4. q \in check_overlay(p[1], <<240, 320>>)  BY <2>1, <2>2
  <2>5. IsSdl(q) /\ q.alive = p[1].alive /\ OnSurface(q, p[2]) /\ q.overlay # 0
    BY <2>2, <2>3, <2>4, OverlayChecked
  <2>6. r = <<q, p[2], sdlOwner>>  BY <2>1, <2>5
  <2>. QED  BY <2>2, <2>5, <2>6
<1>. QED  BY <1>1, <1>2

(* An object in another state: nobody else is alive. *)
LEMMA SdlBecomesOk ==
    ASSUME ~SdlFails, SdlOk, NEW i \in SdlObjects, sdl[i].alive, NEW r, SdlBecomes(i, r), sdlRefs' = 0,
           IsSdl(r[1]), IsLib(r[2]), r[1].alive => r[2].up /\ OnSurface(r[1], r[2]) /\ r[3] = sdlOwner
    PROVE  SdlOk'
<1>1. sdl' = [sdl EXCEPT ![i] = r[1]] /\ sdlSession' = r[2] /\ sdlOwner' = r[3]  BY DEF SdlBecomes
<1>2. DOMAIN sdl = SdlObjects /\ sdlOwner = i /\ \A j \in SdlObjects : IsSdl(sdl[j]) /\ (sdl[j].alive => sdlOwner = j)
  BY DEF SdlOk
<1>3. DOMAIN sdl' = SdlObjects /\ \A j \in SdlObjects : sdl'[j] = (IF j = i THEN r[1] ELSE sdl[j])  BY <1>1, <1>2
<1>4. ASSUME NEW j \in SdlObjects PROVE IsSdl(sdl'[j])  BY <1>2, <1>3
<1>5. ASSUME NEW j \in SdlObjects, sdl'[j].alive
      PROVE  sdlOwner' = j /\ sdlSession'.up /\ OnSurface(sdl'[j], sdlSession')
  <2>1. j = i  BY <1>2, <1>3, <1>5
  <2>. QED  BY <1>1, <1>2, <1>3, <1>5, <2>1
<1>. QED  BY <1>1, <1>3, <1>4, <1>5 DEF SdlOk

LEMMA SdlNewStep ==
    ASSUME SdlInv, NEW i \in SdlObjects, pdp_sdl_new(i)
    PROVE  SdlInv'
<1>1. SUFFICES ASSUME ~SdlFails PROVE SdlOk'  BY DEF SdlInv, pdp_sdl_new
<1> DEFINE o == [alive |-> TRUE, surface |-> 0, overlay |-> 0, size |-> <<0, 0>>, asked |-> 320]
<1>2. /\ sdlOwner = 0 /\ sdlOwner' = i /\ sdl' = [sdl EXCEPT ![i] = o] /\ sdlSession' = [sdlSession EXCEPT !.up = TRUE]
      /\ sdlRefs' = sdlRefs
  BY DEF pdp_sdl_new
<1>3. SdlOk  BY <1>1 DEF SdlInv
<1>4. IsSdl(o) /\ o.surface = 0 /\ o.overlay = 0  BY DEF IsSdl, SdlFields
<1>. HIDE DEF o
<1>5. DOMAIN sdl' = SdlObjects /\ \A j \in SdlObjects : sdl'[j] = (IF j = i THEN o ELSE sdl[j])
  BY <1>2, <1>3 DEF SdlOk
<1>6. IsLib(sdlSession') /\ sdlSession'.up = TRUE  BY <1>2, <1>3 DEF SdlOk, IsLib
<1>7. ASSUME NEW j \in SdlObjects, sdl'[j].alive
      PROVE  sdlOwner' = j /\ sdlSession'.up /\ OnSurface(sdl'[j], sdlSession')
  <2>1. sdl[j].alive => sdlOwner = j  BY <1>3 DEF SdlOk
  <2>2. j = i  BY <1>2, <1>5, <1>7, <2>1, DisplayAssumption
  <2>. QED  BY <1>2, <1>4, <1>5, <1>6, <2>2 DEF OnSurface
<1>8. ASSUME NEW j \in SdlObjects PROVE IsSdl(sdl'[j])  BY <1>3, <1>4, <1>5 DEF SdlOk
<1>. QED  BY <1>2, <1>3, <1>5, <1>6, <1>7, <1>8 DEF SdlOk

LEMMA SdlFreeStep ==
    ASSUME SdlInv, NEW i \in SdlObjects, pdp_sdl_free(i)
    PROVE  SdlInv'
<1> DEFINE o == sdl[i]
           n == [o EXCEPT !.overlay = 0]
           m == [n EXCEPT !.alive = FALSE]
           l == [sdlSession EXCEPT !.up = FALSE, !.surface = 0]
           r == <<m, l, 0>>
<1>1. sdl[i].alive /\ sdlRefs' = sdlRefs /\ SdlBecomes(i, r)  BY DEF pdp_sdl_free, SdlDies
<1>2. sdlOwner' = 0  BY <1>1 DEF SdlBecomes
<1>3. ASSUME ~SdlFails PROVE SdlOk'
  <2>1. SdlOk /\ IsSdl(o) /\ IsLib(sdlSession)  BY <1>3 DEF SdlInv, SdlOk
  <2>. HIDE DEF o
  <2>2. IsSdl(n)  BY <2>1 DEF IsSdl, SdlFields
  <2>. HIDE DEF n
  <2>3. IsSdl(m) /\ m.alive = FALSE  BY <2>2 DEF IsSdl, SdlFields
  <2>4. IsLib(l)  BY <2>1 DEF IsLib
  <2>. HIDE DEF m, l
  <2>5. r[1] = m /\ r[2] = l  OBVIOUS
  <2>6. sdlRefs' = 0  BY <1>1, <2>1 DEF SdlOk
  <2>. HIDE DEF r
  <2>. QED  BY <1>1, <1>3, <2>1, <2>3, <2>4, <2>5, <2>6, SdlBecomesOk
<1>. QED  BY <1>2, <1>3 DEF SdlInv

LEMMA SdlStep ==
    ASSUME SdlInv, SdlNext
    PROVE  SdlInv'
<1>1. PICK i \in SdlObjects : pdp_sdl_new(i) \/ pdp_sdl_free(i) \/ sdl_resize(i) \/ poll_events(i) \/ sdl_input_0(i)
  BY DEF SdlNext
<1>2. CASE pdp_sdl_new(i) \/ pdp_sdl_free(i)  BY <1>2, SdlNewStep, SdlFreeStep
<1>3. ASSUME sdl[i].alive, ~SdlFails
      PROVE  /\ SdlOk /\ IsSdl(sdl[i]) /\ IsLib(sdlSession) /\ sdlSession.up = TRUE /\ OnSurface(sdl[i], sdlSession)
             /\ sdlRefs = 0
  <2>1. SdlOk  BY <1>3 DEF SdlInv
  <2>2. sdlSession.up  BY <1>3, <2>1 DEF SdlOk
  <2>3. sdlSession.up = TRUE  BY <2>1, <2>2, <1>3 DEF SdlOk, IsLib
  <2>. QED  BY <1>3, <2>1, <2>3 DEF SdlOk
<1>4. CASE sdl_resize(i)
  <2>1. PICK w \in ViewWidths : \E p \in create_surface(sdl[i], sdlSession, w) : SdlBecomes(i, <<p[1], p[2], sdlOwner>>)
    BY <1>4 DEF sdl_resize
  <2>2. PICK p \in create_surface(sdl[i], sdlSession, w) : SdlBecomes(i, <<p[1], p[2], sdlOwner>>)  BY <2>1
  <2>3. sdl[i].alive /\ sdlRefs' = sdlRefs  BY <1>4 DEF sdl_resize
  <2> DEFINE r == <<p[1], p[2], sdlOwner>>
  <2>4. sdlOwner' = sdlOwner  BY <2>2 DEF SdlBecomes
  <2>5. ASSUME ~SdlFails PROVE SdlOk'
    <3>1. /\ IsSdl(p[1]) /\ IsLib(p[2]) /\ p[2].up = TRUE
          /\ p[1].overlay = 0 /\ p[1].surface = p[2].surface /\ SdlOk /\ sdlRefs' = 0
      <4>1. IsSdl(sdl[i]) /\ IsLib(sdlSession) /\ sdlSession.up = TRUE /\ SdlOk /\ sdlRefs' = 0  BY <1>3, <2>3, <2>5
      <4>2. \A x \in create_surface(sdl[i], sdlSession, w) : Made(sdl[i], x)  BY <2>5, <4>1, SurfaceMade
      <4>3. Made(sdl[i], p)  BY <2>2, <4>2
      <4>. QED  BY <4>1, <4>3 DEF Made
    <3>2. OnSurface(p[1], p[2])  BY <3>1 DEF OnSurface
    <3>3. r[1] = p[1] /\ r[2] = p[2] /\ r[3] = sdlOwner /\ SdlBecomes(i, r)  BY <2>2
    <3>. HIDE DEF r
    <3>. QED  BY <2>3, <2>5, <3>1, <3>2, <3>3, SdlBecomesOk
  <2>. QED  BY <2>4, <2>5 DEF SdlInv
<1>5. CASE poll_events(i)
  <2>1. PICK s \in pdp_sdl_open(sdl[i]) :
          \/ SdlBecomes(i, s)
          \/ \E w \in ViewWidths : \E p \in create_surface(s[1], s[2], w) : SdlBecomes(i, <<p[1], p[2], s[3]>>)
    BY <1>5 DEF poll_events
  <2>2. sdl[i].alive /\ sdlRefs' = sdlRefs  BY <1>5 DEF poll_events
  <2>3. s[3] \in {sdlOwner, 0}  BY OpenedOwner
  <2>4. sdlOwner' = s[3]  BY <2>1 DEF SdlBecomes
  <2>5. ASSUME ~SdlFails PROVE SdlOk'
    <3>1. /\ IsSdl(s[1]) /\ IsLib(s[2]) /\ s[2].up = TRUE /\ OnSurface(s[1], s[2])
          /\ s[3] = sdlOwner /\ SdlOk /\ sdlRefs' = 0
      BY <1>3, <2>1, <2>2, <2>5, OpenedSdl
    <3>2. CASE SdlBecomes(i, s)  BY <2>2, <2>5, <3>1, <3>2, SdlBecomesOk
    <3>3. ASSUME NEW w \in ViewWidths, NEW p \in create_surface(s[1], s[2], w), SdlBecomes(i, <<p[1], p[2], s[3]>>)
          PROVE  SdlOk'
      <4> DEFINE r == <<p[1], p[2], s[3]>>
      <4>1. IsSdl(p[1]) /\ IsLib(p[2]) /\ p[2].up = TRUE /\ p[1].overlay = 0 /\ p[1].surface = p[2].surface
        <5>1. \A x \in create_surface(s[1], s[2], w) : Made(s[1], x)  BY <2>5, <3>1, SurfaceMade
        <5>2. Made(s[1], p)  BY <3>3, <5>1
        <5>. QED  BY <5>2 DEF Made
      <4>2. OnSurface(p[1], p[2])  BY <4>1 DEF OnSurface
      <4>3. r[1] = p[1] /\ r[2] = p[2] /\ r[3] = sdlOwner /\ SdlBecomes(i, r)  BY <3>1, <3>3
      <4>. HIDE DEF r
      <4>. QED  BY <2>2, <2>5, <3>1, <4>1, <4>2, <4>3, SdlBecomesOk
    <3>. QED  BY <2>1, <3>2, <3>3
  <2>. QED  BY <2>3, <2>4, <2>5 DEF SdlInv
<1>6. CASE sdl_input_0(i)
  <2>1. PICK s \in pdp_sdl_open(sdl[i]), z \in ViewSizes :
          IF s[1].overlay = 0 THEN SdlBecomes(i, s) /\ UNCHANGED sdlRefs
          ELSE \E q \in check_overlay(s[1], z), shown \in IF SdlFails THEN BOOLEAN ELSE {TRUE} :
                  SdlBecomes(i, <<q, s[2], s[3]>>) /\ sdlRefs' = sdlRefs + (IF q.overlay # 0 /\ ~shown /\ sdlRefs = 0 THEN 1 ELSE 0)
    BY <1>6 DEF sdl_input_0
  <2>2. sdl[i].alive  BY <1>6 DEF sdl_input_0
  <2>3. s[3] \in {sdlOwner, 0}  BY OpenedOwner
  <2>4. sdlOwner' = s[3]  BY <2>1 DEF SdlBecomes
  <2>5. ASSUME ~SdlFails PROVE SdlOk'
    <3>1. /\ IsSdl(s[1]) /\ IsLib(s[2]) /\ s[2].up = TRUE /\ OnSurface(s[1], s[2])
          /\ s[3] = sdlOwner /\ SdlOk /\ sdlRefs = 0 /\ s[1].overlay # 0
      BY <1>3, <2>1, <2>2, <2>5, OpenedSdl
    <3>0. PICK q \in check_overlay(s[1], z), shown \in IF SdlFails THEN BOOLEAN ELSE {TRUE} :
            SdlBecomes(i, <<q, s[2], s[3]>>) /\ sdlRefs' = sdlRefs + (IF q.overlay # 0 /\ ~shown /\ sdlRefs = 0 THEN 1 ELSE 0)
      BY <2>1, <3>1
    <3>2. SdlBecomes(i, <<q, s[2], s[3]>>) /\ sdlRefs' = 0
      <4>1. shown = TRUE  BY <2>5, <3>0
      <4>2. sdlRefs' = 0 + 0  BY <3>0, <3>1, <4>1
      <4>. QED  BY <3>0, <4>2
    <3> DEFINE r == <<q, s[2], s[3]>>
    <3>3. IsSdl(q) /\ OnSurface(q, s[2])  BY <2>5, <3>1, <3>2, OverlayChecked
    <3>4. r[1] = q /\ r[2] = s[2] /\ r[3] = sdlOwner /\ SdlBecomes(i, r)  BY <3>1, <3>2
    <3>. HIDE DEF r
    <3>. QED  BY <2>2, <2>5, <3>1, <3>2, <3>3, <3>4, SdlBecomesOk
  <2>. QED  BY <2>3, <2>4, <2>5 DEF SdlInv
<1>. QED  BY <1>1, <1>2, <1>4, <1>5, <1>6

-----------------------------------------------------------------------------
(* Tiles: each is as wide as the screen without n - 1 quotients, so the last *)
(* one ends at the edge, and none leaves a gap before the next.             *)
LEMMA TileShape ==
    ASSUME NEW n \in 1..Screen
    PROVE  \E q \in Nat \ {0} : /\ n * q <= Screen /\ \A i \in 0..(n - 1) : TileLeft(n, i) = i * q
                                /\ TileWidth(n) = Screen - (n - 1) * q
<1> DEFINE q == Screen \div n
<1>0. Screen \in Nat /\ n \in Nat \ {0} /\ n <= Screen  BY DisplayAssumption
<1>1. q \in Int /\ Screen % n \in 0..n - 1 /\ Screen = n * q + (Screen % n)  BY <1>0, DivMod
<1>2. TileWidth(n) = (IF n - 1 # 0 THEN Screen - (n - 1) * q ELSE q) /\ \A i \in 0..(n - 1) : TileLeft(n, i) = i * q
  BY DEF TileWidth, TileLeft
<1>. DEFINE r == Screen % n
<1>3. r \in 0..n - 1 /\ Screen = n * q + r  BY <1>1
<1>. HIDE DEF q, r
<1>4. q \in Int  BY <1>1 DEF q
<1>5. q >= 1
  <2>1. SUFFICES ASSUME q <= 0 PROVE FALSE  BY <1>4
  <2>2. n * q <= 0  BY <1>0, <1>4, <2>1
  <2>. QED  BY <1>0, <1>3, <1>4, <2>2
<1>6. n * q <= Screen  BY <1>0, <1>3, <1>4
<1>7. TileWidth(n) = Screen - (n - 1) * q
  <2>1. CASE n - 1 # 0  BY <1>2, <2>1
  <2>2. CASE n - 1 = 0
    <3>1. n = 1 /\ TileWidth(n) = q /\ (n - 1) * q = 0  BY <1>0, <1>2, <1>4, <2>2
    <3>2. r = 0 /\ Screen = q  BY <1>0, <1>3, <1>4, <3>1
    <3>. QED  BY <1>0, <3>1, <3>2
  <2>. QED  BY <2>1, <2>2
<1>8. q \in Nat \ {0}  BY <1>4, <1>5
<1>9. \A i \in 0..(n - 1) : TileLeft(n, i) = i * q  BY <1>2
<1>. QED  BY <1>6, <1>7, <1>8, <1>9

LEMMA TilesMeet == TilesCover
<1>1. SUFFICES ASSUME NEW n \in 1..Screen
               PROVE  UNION {TileLeft(n, i)..(TileLeft(n, i) + TileWidth(n) - 1) : i \in 0..(n - 1)} = 0..(Screen - 1)
  BY DEF TilesCover
<1>0. Screen \in Nat /\ n \in Nat \ {0} /\ n <= Screen  BY DisplayAssumption
<1>2. PICK q \in Nat \ {0} : /\ n * q <= Screen /\ \A i \in 0..(n - 1) : TileLeft(n, i) = i * q
                             /\ TileWidth(n) = Screen - (n - 1) * q
  BY TileShape
<1> DEFINE Tile(i) == TileLeft(n, i)..(TileLeft(n, i) + TileWidth(n) - 1)
<1>3. \A i \in 0..(n - 1) : Tile(i) = (i * q)..(i * q + (Screen - (n - 1) * q) - 1)  BY <1>2
<1>9. n * q = (n - 1) * q + q  BY <1>0, <1>2
<1>4. ASSUME NEW i \in 0..(n - 1), NEW x \in Tile(i) PROVE x \in 0..(Screen - 1)
  <2>1. x \in (i * q)..(i * q + (Screen - (n - 1) * q) - 1)  BY <1>3, <1>4
  <2>2. 0 <= i * q /\ i * q <= (n - 1) * q
    <3>1. (n - 1) * q = i * q + (n - 1 - i) * q  BY <1>0, <1>2
    <3>2. 0 <= (n - 1 - i) * q /\ 0 <= i * q  BY <1>0, <1>2
    <3>. QED  BY <1>0, <1>2, <3>1, <3>2
  <2> DEFINE a == i * q  b == (n - 1) * q
  <2>3. a \in Int /\ b \in Int  BY <1>0, <1>2
  <2>4. x \in a..(a + (Screen - b) - 1) /\ 0 <= a /\ a <= b  BY <2>1, <2>2
  <2>. HIDE DEF a, b
  <2>. QED  BY <1>0, <2>3, <2>4
<1>5. ASSUME NEW x \in 0..(Screen - 1) PROVE \E i \in 0..(n - 1) : x \in Tile(i)
  <2> DEFINE b == (n - 1) * q
  <2>1. b \in Int /\ b + q <= Screen  BY <1>0, <1>2, <1>9
  <2>2. CASE x < b
    <3> DEFINE j == x \div q  r == x % q
    <3>1. j \in Int /\ r \in 0..q - 1 /\ x = q * j + r  BY <1>2, DivMod
    <3>. HIDE DEF j, r
    <3>2. j >= 0
      <4>1. SUFFICES ASSUME j <= -1 PROVE FALSE  BY <3>1
      <4>2. q * j <= -q  BY <1>2, <3>1, <4>1
      <4>. QED  BY <1>2, <3>1, <4>2
    <3>3. j < n - 1
      <4>1. SUFFICES ASSUME j >= n - 1 PROVE FALSE  BY <1>0, <3>1
      <4>2. q * j >= (n - 1) * q  BY <1>0, <1>2, <3>1, <4>1
      <4>. QED  BY <1>0, <1>2, <2>1, <2>2, <3>1, <4>2
    <3>4. j \in 0..(n - 1)  BY <1>0, <3>1, <3>2, <3>3
    <3>5. Tile(j) = (j * q)..(j * q + (Screen - b) - 1)  BY <1>3, <3>4
    <3>6. q * j = j * q /\ j * q \in Int  BY <1>2, <3>1
    <3>. HIDE DEF b
    <3>7. x \in (j * q)..(j * q + (Screen - b) - 1)  BY <1>0, <1>2, <2>1, <3>1, <3>6
    <3>. QED  BY <3>4, <3>5, <3>7
  <2>3. CASE x >= b
    <3>1. n - 1 \in 0..(n - 1)  BY <1>0
    <3>2. Tile(n - 1) = b..(b + (Screen - b) - 1)  BY <1>3, <3>1
    <3>. HIDE DEF b
    <3>3. x \in b..(b + (Screen - b) - 1)  BY <1>0, <2>1, <2>3
    <3>. QED  BY <3>1, <3>2, <3>3
  <2>. QED  BY <1>0, <2>1, <2>2, <2>3
<1>. HIDE DEF Tile
<1>6. UNION {Tile(i) : i \in 0..(n - 1)} = 0..(Screen - 1)  BY <1>4, <1>5
<1>. QED  BY <1>6 DEF Tile

-----------------------------------------------------------------------------
DisplayInv == ViewInv /\ SdlInv

LEMMA DisplayInitInv ==
    ASSUME DisplayInit
    PROVE  DisplayInv
<1>1. PICK c \in ViewClasses : view = Closed(c)  BY DEF DisplayInit
<1>2. /\ viewRefs = 0 /\ viewServer = <<>> /\ viewHeld = 0 /\ viewCalls = <<>>
      /\ viewEvents = [posted |-> 0, sent |-> 0, dropped |-> 0] /\ viewGl = <<0, 0>>
      /\ viewCopy = [fits |-> TRUE, put |-> TRUE] /\ sdlOwner = 0 /\ sdlRefs = 0
      /\ sdl = [s \in SdlObjects |-> [alive |-> FALSE, surface |-> 0, overlay |-> 0, size |-> <<0, 0>>, asked |-> 0]]
      /\ sdlSession = [up |-> FALSE, surface |-> 0, made |-> 0, session |-> 0]
  BY DEF DisplayInit
<1>3. /\ DOMAIN view = ViewFields /\ view.class = c /\ view.alive = TRUE /\ view.packet = NoPacket0 /\ view.open = FALSE
      /\ view.autocreate = Retry /\ view.connected = FALSE /\ view.windowlist = {} /\ view.win = NoWindow
      /\ view.vid = NoVideo /\ view.serial = 0 /\ view.faults = {}
  BY <1>1 DEF Closed, ViewFields
<1>4. IsView(view)
  <2>1. view.autocreate \in 0..Retry  BY <1>3, DisplayAssumption
  <2>2. IsWin(view.win) /\ IsVid(view.vid)  BY <1>3, Nothing
  <2>3. view.packet \in ViewSizes \cup {NoPacket0}  BY <1>3
  <2>4. view.class \in ViewClasses /\ view.serial \in Nat  BY <1>1, <1>3
  <2>. QED  BY <1>3, <2>1, <2>2, <2>3, <2>4 DEF IsView
<1>5. Shut(view)  BY <1>3, <1>4 DEF Shut
<1>6. PartsInv  BY <1>3, <1>5 DEF PartsInv, Sound
<1>7. RefsInv  BY <1>2, <1>3 DEF RefsInv
<1>8. EventsInv
  <2>1. viewServer \in Seq(EventTypes) /\ Len(viewServer) = 0 /\ Len(view.win.events) = 0  BY <1>2, <1>3, Nothing
  <2>. QED  BY <1>2, <2>1 DEF EventsInv, EventsOnce
<1>9. CopyInv /\ PollInv /\ ContextInv  BY <1>2, <1>3 DEF CopyInv, PollInv, PollAlive, ContextInv, ContextOwn
<1>10. SdlInv
  <2>1. IsLib(sdlSession)  BY <1>2 DEF IsLib
  <2>2. DOMAIN sdl = SdlObjects /\ \A i \in SdlObjects : IsSdl(sdl[i]) /\ sdl[i].alive = FALSE
    BY <1>2 DEF IsSdl, SdlFields
  <2>. QED  BY <1>2, <2>1, <2>2 DEF SdlInv, SdlOk
<1>. QED  BY <1>6, <1>7, <1>8, <1>9, <1>10 DEF DisplayInv, ViewInv

LEMMA ViewSame ==
    ASSUME ViewInv, UNCHANGED viewVars
    PROVE  ViewInv'
<1>1. UNCHANGED <<view, viewRefs, viewServer, viewHeld, viewCalls, viewEvents, viewGl, viewCopy>>  BY DEF viewVars, viewRest
<1>2. PartsInv'  BY <1>1 DEF ViewInv, PartsInv
<1>3. RefsInv'  BY <1>1 DEF ViewInv, RefsInv
<1>4. EventsInv'  BY <1>1 DEF ViewInv, EventsInv, EventsOnce
<1>5. CopyInv' /\ PollInv' /\ ContextInv'  BY <1>1 DEF ViewInv, CopyInv, PollInv, PollAlive, ContextInv, ContextOwn
<1>. QED  BY <1>2, <1>3, <1>4, <1>5 DEF ViewInv

LEMMA SdlSame ==
    ASSUME SdlInv, UNCHANGED sdlVars
    PROVE  SdlInv'
<1>1. UNCHANGED sdl /\ UNCHANGED sdlOwner /\ UNCHANGED sdlSession /\ UNCHANGED sdlRefs  BY DEF sdlVars
<1>. QED  BY <1>1 DEF SdlInv, SdlOk

LEMMA DisplayNextInv ==
    ASSUME DisplayInv, [DisplayNext]_displayVars
    PROVE  DisplayInv'
<1>1. ViewInv /\ SdlInv  BY DEF DisplayInv
<1>2. CASE ViewNext /\ UNCHANGED sdlVars  BY <1>1, <1>2, ViewStep, SdlSame DEF DisplayInv
<1>3. CASE SdlNext /\ UNCHANGED viewVars  BY <1>1, <1>3, SdlStep, ViewSame DEF DisplayInv
<1>4. CASE UNCHANGED displayVars
  <2>1. UNCHANGED viewVars /\ UNCHANGED sdlVars  BY <1>4 DEF displayVars
  <2>. QED  BY <1>1, <2>1, ViewSame, SdlSame DEF DisplayInv
<1>. QED  BY <1>2, <1>3, <1>4 DEF DisplayNext

LEMMA DisplayWhole ==
    ASSUME DisplayInv
    PROVE  DisplayKept
<1>1. PartsInv /\ RefsInv /\ EventsInv /\ sdlOwner \in SdlObjects \cup {0}  BY DEF DisplayInv, ViewInv, SdlInv
<1>2. IsView(view)  BY <1>1, SoundView DEF PartsInv
<1>3. DisplayTypeOK  BY <1>1, <1>2 DEF DisplayTypeOK, IsView, RefsInv, EventsInv
<1>4. Cardinality({view.packet} \ {NoPacket0}) = (IF view.packet = NoPacket0 THEN 0 ELSE 1)
  <2>1. CASE view.packet = NoPacket0
    <3>1. {view.packet} \ {NoPacket0} = {}  BY <2>1
    <3>. QED  BY <2>1, <3>1, FS_EmptySet
  <2>2. CASE view.packet # NoPacket0
    <3>1. {view.packet} \ {NoPacket0} = {view.packet}  BY <2>2
    <3>. QED  BY <2>2, <3>1, FS_Singleton
  <2>. QED  BY <2>1, <2>2
<1>5. ViewReleases  BY <1>1, <1>4 DEF ViewReleases, RefsInv
<1>. QED  BY <1>1, <1>3, <1>5, TilesMeet DEF EventsInv, PartsInv, DisplayKept

LEMMA SdlAlone ==
    ASSUME SdlInv, ~SdlFails
    PROVE  SdlSound
<1> DEFINE S == {i \in SdlObjects : sdl[i].alive}
<1>1. SdlOk  BY DEF SdlInv
<1>2. S \subseteq {sdlOwner}  BY <1>1 DEF SdlOk
<1>3. Cardinality(S) <= 1
  <2>1. S = {} \/ S = {sdlOwner}  BY <1>2
  <2>2. Cardinality({}) = 0 /\ Cardinality({sdlOwner}) = 1  BY FS_EmptySet, FS_Singleton
  <2>3. Cardinality(S) \in {0, 1}  BY <2>1, <2>2
  <2>. QED  BY <2>3
<1>4. \A i \in SdlObjects : sdl[i].alive => sdlOwner = i /\ sdlSession.up /\ sdl[i].overlay \in {0, sdlSession.surface}
  BY <1>1 DEF SdlOk, OnSurface
<1>. QED  BY <1>1, <1>3, <1>4 DEF SdlSound, SdlOk

LEMMA DisplayInvSound ==
    ASSUME DisplayInv, ~PollsClosed, ~ImageFails, ~ReusesAddress, ~SdlFails, ClosesNone
    PROVE  DisplaySound
<1>1. ViewInv /\ SdlInv  BY DEF DisplayInv
<1>2. Sound(view) /\ view.faults = {}  BY <1>1 DEF ViewInv, PartsInv
<1>3. ViewWhole
  <2>1. CASE view.open  BY <1>2, <2>1, SoundView DEF ViewWhole, Opened
  <2>2. CASE ~view.open  BY <1>2, <2>2, SoundView, Nothing DEF ViewWhole, Shut
  <2>. QED  BY <2>1, <2>2
<1>4. ImageFits /\ PollAlive /\ ContextOwn  BY <1>1 DEF ViewInv, CopyInv, PollInv, ContextInv, ImageFits
<1>. QED  BY <1>1, <1>3, <1>4, DisplayWhole, SdlAlone DEF DisplaySound, DisplayKept

(* Whatever fails - a connection, a port, a window, memory for an image -    *)
(* and whatever message the patch sends from within an event, closing the    *)
(* window among them: the object holds one reference while it holds a packet *)
(* and none otherwise, an event of the server is sent once, waits, or goes   *)
(* with its window, no part is deleted after the connection it uses nor the  *)
(* connection before its window, and tiles cover the screen.                 *)
THEOREM DisplaysWhole ==
    DisplaySpec => []DisplayKept
<1>. QED  BY DisplayInitInv, DisplayNextInv, DisplayWhole, PTL DEF DisplaySpec

(* What DisplaySound adds holds while the patch polls open windows only and  *)
(* closes none from within an event, XvCreateImage and SDL do not fail, and  *)
(* malloc does not return the address of the context freed last: without     *)
(* any one of these the code breaks it.                                      *)
THEOREM DisplaysSound ==
    ASSUME ~PollsClosed, ~ImageFails, ~ReusesAddress, ~SdlFails, {"destroy", "display", "free"} \cap ViewNested = {}
    PROVE  DisplaySpec => []DisplaySound
<1>1. ClosesNone  BY DEF ClosesNone
<1>2. ASSUME DisplayInv PROVE DisplaySound  BY <1>1, <1>2, DisplayInvSound
<1>. QED  BY <1>2, DisplayInitInv, DisplayNextInv, PTL DEF DisplaySpec

-----------------------------------------------------------------------------
(* The scanners.  A sum over a function takes one index away at a time.     *)
AnyOf(s) == CHOOSE x \in s : TRUE
PartSum(f, it, s) == IF s = {} THEN 0 ELSE f[AnyOf(s)] + it[s \ {AnyOf(s)}]
Parted(f, D, it) == it = [s \in D |-> PartSum(f, it, s)]
SetsUpTo(S, k) == {s \in SUBSET S : Cardinality(s) <= k}

LEMMA OneLess ==
    ASSUME NEW S, IsFiniteSet(S), NEW s \in SUBSET S, s # {}
    PROVE  /\ AnyOf(s) \in s /\ s \ {AnyOf(s)} \in SUBSET S /\ Cardinality(s) \in Nat /\ Cardinality(s) # 0
           /\ Cardinality(s \ {AnyOf(s)}) = Cardinality(s) - 1
<1>1. IsFiniteSet(s)  BY FS_Subset
<1>2. AnyOf(s) \in s  BY DEF AnyOf
<1>3. Cardinality(s) \in Nat /\ Cardinality(s) # 0  BY <1>1, FS_CardinalityType, FS_EmptySet
<1>4. Cardinality(s \ {AnyOf(s)}) = Cardinality(s) - 1  BY <1>1, <1>2, FS_RemoveElement
<1>. QED  BY <1>2, <1>3, <1>4

LEMMA PartedNext ==
    ASSUME NEW f, NEW S, IsFiniteSet(S), NEW k \in Nat, NEW it, Parted(f, SetsUpTo(S, k), it)
    PROVE  \E jt : Parted(f, SetsUpTo(S, k + 1), jt)
<1> DEFINE D == SetsUpTo(S, k)
           E == SetsUpTo(S, k + 1)
           jt == [s \in E |-> PartSum(f, it, s)]
<1>1. \A s \in D : it[s] = PartSum(f, it, s)  BY DEF Parted
<1>2. ASSUME NEW s \in E, s # {} PROVE s \ {AnyOf(s)} \in D
  <2>1. s \in SUBSET S /\ Cardinality(s) <= k + 1  BY DEF SetsUpTo
  <2>2. s \ {AnyOf(s)} \in SUBSET S /\ Cardinality(s \ {AnyOf(s)}) = Cardinality(s) - 1 /\ Cardinality(s) \in Nat
    BY <1>2, <2>1, OneLess
  <2>. QED  BY <2>1, <2>2 DEF SetsUpTo
<1>3. D \subseteq E
  <2>1. SUFFICES ASSUME NEW s \in D PROVE s \in E  OBVIOUS
  <2>2. s \in SUBSET S /\ Cardinality(s) <= k  BY DEF SetsUpTo
  <2>3. Cardinality(s) \in Nat  BY <2>2, FS_Subset, FS_CardinalityType
  <2>. QED  BY <2>2, <2>3 DEF SetsUpTo
<1>. HIDE DEF D, E
<1>4. \A s \in E : jt[s] = PartSum(f, it, s)  OBVIOUS
<1>. HIDE DEF jt
<1>5. ASSUME NEW s \in E PROVE PartSum(f, it, s) = PartSum(f, jt, s)
  <2>1. CASE s = {}  BY <2>1 DEF PartSum
  <2>2. CASE s # {}
    <3>1. s \ {AnyOf(s)} \in D  BY <1>2, <2>2
    <3>2. jt[s \ {AnyOf(s)}] = it[s \ {AnyOf(s)}]  BY <1>1, <1>3, <1>4, <3>1
    <3>. QED  BY <3>2 DEF PartSum
  <2>. QED  BY <2>1, <2>2
<1>6. jt = [s \in E |-> PartSum(f, jt, s)]  BY <1>5 DEF jt
<1>. QED  BY <1>6 DEF Parted, E

LEMMA PartedExists ==
    ASSUME NEW f, NEW S, IsFiniteSet(S)
    PROVE  \E it : Parted(f, SUBSET S, it)
<1> DEFINE T == {k \in Nat : ~\E it : Parted(f, SetsUpTo(S, k), it)}
<1>1. T = {}
  <2>1. SUFFICES ASSUME T # {} PROVE FALSE  OBVIOUS
  <2>2. T \in SUBSET Nat  OBVIOUS
  <2>. HIDE DEF T
  <2>3. PICK k \in T : \A y \in T : k <= y  BY <2>1, <2>2, Smallest
  <2>4. k \in Nat /\ ~\E it : Parted(f, SetsUpTo(S, k), it)  BY DEF T
  <2>5. CASE k = 0
    <3> DEFINE it == [s \in SetsUpTo(S, 0) |-> 0]
    <3>1. ASSUME NEW s \in SetsUpTo(S, 0) PROVE s = {}
      <4>1. s \in SUBSET S /\ Cardinality(s) <= 0  BY DEF SetsUpTo
      <4>2. IsFiniteSet(s)  BY <4>1, FS_Subset
      <4>3. Cardinality(s) = 0  BY <4>1, <4>2, FS_CardinalityType
      <4>. QED  BY <4>2, <4>3, FS_EmptySet
    <3>2. \A s \in SetsUpTo(S, 0) : PartSum(f, it, s) = 0  BY <3>1 DEF PartSum
    <3>3. it = [s \in SetsUpTo(S, 0) |-> PartSum(f, it, s)]  BY <3>2
    <3>. HIDE DEF it
    <3>. QED  BY <2>4, <2>5, <3>3 DEF Parted
  <2>6. CASE k # 0
    <3>1. k - 1 \in Nat /\ k - 1 \notin T  BY <2>3, <2>4, <2>6
    <3>2. PICK it : Parted(f, SetsUpTo(S, k - 1), it)  BY <3>1 DEF T
    <3>3. \E jt : Parted(f, SetsUpTo(S, (k - 1) + 1), jt)  BY <3>1, <3>2, PartedNext
    <3>4. (k - 1) + 1 = k  BY <2>4
    <3>. QED  BY <2>4, <3>3, <3>4
  <2>. QED  BY <2>5, <2>6
<1>2. Cardinality(S) \in Nat  BY FS_CardinalityType
<1>3. SetsUpTo(S, Cardinality(S)) = SUBSET S
  <2>1. ASSUME NEW s \in SUBSET S PROVE Cardinality(s) <= Cardinality(S)  BY FS_Subset
  <2>. QED  BY <2>1 DEF SetsUpTo
<1>4. Cardinality(S) \notin T  BY <1>1
<1>5. \E it : Parted(f, SetsUpTo(S, Cardinality(S)), it)  BY <1>2, <1>4
<1>. QED  BY <1>3, <1>5

LEMMA SumUnfolds ==
    ASSUME NEW f, IsFiniteSet(DOMAIN f)
    PROVE  \E it : /\ SumFunction(f) = it[DOMAIN f]
                   /\ \A s \in SUBSET DOMAIN f : it[s] = PartSum(f, it, s)
<1> DEFINE Def(it) == it = [s \in SUBSET DOMAIN f |-> IF s = {} THEN 0
                               ELSE f[CHOOSE x \in s : TRUE] + it[s \ {CHOOSE x \in s : TRUE}]]
           sum == CHOOSE it : Def(it)
<1>1. SumFunction(f) = sum[DOMAIN f]
  BY DEF SumFunction, SumFunctionOnSet, FoldFunctionOnSet, MapThenFoldSet
<1>2. \E it : Def(it)
  <2>1. PICK it : Parted(f, SUBSET DOMAIN f, it)  BY PartedExists
  <2>2. Def(it)  BY <2>1 DEF Parted, PartSum, AnyOf
  <2>. QED  BY <2>2
<1>3. Def(sum)  BY <1>2
<1>4. \A s \in SUBSET DOMAIN f : sum[s] = PartSum(f, sum, s)
  <2>. DEFINE t == sum
  <2>1. t = [s \in SUBSET DOMAIN f |-> IF s = {} THEN 0
                               ELSE f[CHOOSE x \in s : TRUE] + t[s \ {CHOOSE x \in s : TRUE}]]  BY <1>3
  <2>. HIDE DEF t
  <2>2. \A s \in SUBSET DOMAIN f : t[s] = PartSum(f, t, s)  BY <2>1 DEF PartSum, AnyOf
  <2>. QED  BY <2>2 DEF t
<1>. HIDE DEF sum
<1>. QED  BY <1>1, <1>4

(* A sum of natural numbers is one, and with the indices as weights it is   *)
(* at most the largest index times the sum.                                 *)
LEMMA SumNat ==
    ASSUME NEW f, IsFiniteSet(DOMAIN f), \A x \in DOMAIN f : f[x] \in Nat
    PROVE  SumFunction(f) \in Nat
<1> DEFINE S == DOMAIN f
<1>1. PICK it : SumFunction(f) = it[S] /\ \A s \in SUBSET S : it[s] = PartSum(f, it, s)  BY SumUnfolds
<1> DEFINE T == {k \in Nat : \E s \in SUBSET S : Cardinality(s) = k /\ it[s] \notin Nat}
<1>2. T = {}
  <2>1. SUFFICES ASSUME T # {} PROVE FALSE  OBVIOUS
  <2>2. PICK k \in T : \A y \in T : k <= y  BY <2>1, Smallest
  <2>3. PICK s \in SUBSET S : Cardinality(s) = k /\ it[s] \notin Nat  BY <2>2
  <2>4. s # {}  BY <1>1, <2>3 DEF PartSum
  <2> DEFINE t == s \ {AnyOf(s)}
  <2>5. /\ AnyOf(s) \in s /\ t \in SUBSET S /\ Cardinality(s) \in Nat /\ Cardinality(s) # 0
        /\ Cardinality(t) = Cardinality(s) - 1
    BY <2>3, <2>4, OneLess
  <2>6. it[s] = f[AnyOf(s)] + it[t] /\ f[AnyOf(s)] \in Nat  BY <1>1, <2>3, <2>4, <2>5 DEF PartSum
  <2>. HIDE DEF t
  <2>7. it[t] \notin Nat  BY <2>3, <2>6
  <2>8. k - 1 \in T  BY <2>3, <2>5, <2>7
  <2>. QED  BY <2>2, <2>3, <2>5, <2>8
<1>3. Cardinality(S) \in Nat  BY FS_CardinalityType
<1>4. S \in SUBSET S /\ Cardinality(S) \notin T  BY <1>2
<1>5. it[S] \in Nat  BY <1>3, <1>4
<1>. QED  BY <1>1, <1>5

LEMMA WeightedSum ==
    ASSUME NEW n \in Nat \ {0}, NEW g, DOMAIN g = 0..n - 1, \A x \in 0..n - 1 : g[x] \in Nat
    PROVE  LET a == SumFunction([x \in 0..n - 1 |-> g[x] * x])
               b == SumFunction(g)
           IN  a \in Nat /\ b \in Nat /\ a <= (n - 1) * b
<1> DEFINE S == 0..n - 1
           f == [x \in S |-> g[x] * x]
<1>1. IsFiniteSet(S)  BY FS_Interval
<1>2. DOMAIN f = S /\ \A x \in S : f[x] = g[x] * x  OBVIOUS
<1>. HIDE DEF f
<1>3. \A x \in S : f[x] \in Nat /\ f[x] <= (n - 1) * g[x]
  <2>1. ASSUME NEW x \in S PROVE f[x] \in Nat /\ f[x] <= (n - 1) * g[x]
    <3>1. x \in Nat /\ g[x] \in Nat /\ n - 1 - x \in Nat /\ n - 1 \in Nat  OBVIOUS
    <3>2. g[x] * x \in Nat /\ g[x] * (n - 1 - x) \in Nat  BY <3>1
    <3>3. (n - 1) * g[x] = g[x] * x + g[x] * (n - 1 - x)  BY <3>1
    <3>. QED  BY <1>2, <3>2, <3>3
  <2>. QED  BY <2>1
<1>4. SumFunction(f) \in Nat /\ SumFunction(g) \in Nat  BY <1>1, <1>2, <1>3, SumNat
<1>5. PICK it : SumFunction(f) = it[S] /\ \A s \in SUBSET S : it[s] = PartSum(f, it, s)  BY <1>1, <1>2, SumUnfolds
<1>6. PICK jt : SumFunction(g) = jt[S] /\ \A s \in SUBSET S : jt[s] = PartSum(g, jt, s)  BY <1>1, SumUnfolds
<1> DEFINE Fine(s) == it[s] \in Int /\ jt[s] \in Int /\ it[s] <= (n - 1) * jt[s]
           T == {k \in Nat : \E s \in SUBSET S : Cardinality(s) = k /\ ~Fine(s)}
<1>7. T = {}
  <2>1. SUFFICES ASSUME T # {} PROVE FALSE  OBVIOUS
  <2>2. PICK k \in T : \A y \in T : k <= y  BY <2>1, Smallest
  <2>3. PICK s \in SUBSET S : Cardinality(s) = k /\ ~Fine(s)  BY <2>2
  <2>4. s # {}
    <3>0. {} \in SUBSET S  OBVIOUS
    <3>1. it[{}] = 0 /\ jt[{}] = 0  BY <1>5, <1>6, <3>0 DEF PartSum
    <3>2. 0 <= (n - 1) * 0  OBVIOUS
    <3>3. Fine({})  BY <3>1, <3>2
    <3>. QED  BY <2>3, <3>3
  <2> DEFINE t == s \ {AnyOf(s)}
             x == AnyOf(s)
  <2>5. x \in s /\ t \in SUBSET S /\ Cardinality(s) \in Nat /\ Cardinality(s) # 0 /\ Cardinality(t) = Cardinality(s) - 1
    <3>1. IsFiniteSet(S) /\ s \in SUBSET S /\ s # {}  BY <1>1, <2>3, <2>4
    <3>. HIDE DEF S
    <3>. QED  BY <3>1, OneLess
  <2>6. it[s] = f[x] + it[t] /\ jt[s] = g[x] + jt[t]  BY <1>5, <1>6, <2>3, <2>4 DEF PartSum
  <2>7. x \in S  BY <2>3, <2>5
  <2>. HIDE DEF t, x
  <2>8. ~Fine(t)
    <3>1. SUFFICES ASSUME Fine(t) PROVE Fine(s)  BY <2>3
    <3>2. f[x] \in Int /\ g[x] \in Int /\ f[x] <= (n - 1) * g[x]  BY <1>3, <2>7
    <3>3. (n - 1) * (g[x] + jt[t]) = (n - 1) * g[x] + (n - 1) * jt[t]  BY <3>1, <3>2
    <3>4. (n - 1) * g[x] \in Int /\ (n - 1) * jt[t] \in Int  BY <3>1, <3>2
    <3> DEFINE p == (n - 1) * g[x]
               q == (n - 1) * jt[t]
               u == (n - 1) * (g[x] + jt[t])
    <3>5. p \in Int /\ q \in Int /\ u = p + q /\ f[x] <= p /\ it[t] <= q  BY <3>1, <3>2, <3>3, <3>4
    <3>6. it[s] \in Int /\ jt[s] \in Int /\ (n - 1) * jt[s] = u  BY <2>6, <3>1, <3>2
    <3>. HIDE DEF p, q, u
    <3>7. it[s] <= u  BY <2>6, <3>1, <3>2, <3>5
    <3>. QED  BY <3>6, <3>7
  <2>9. k - 1 \in T  BY <2>3, <2>5, <2>8
  <2>. QED  BY <2>2, <2>3, <2>5, <2>9
<1>8. Cardinality(S) \in Nat  BY <1>1, FS_CardinalityType
<1>9. S \in SUBSET S /\ Cardinality(S) \notin T  BY <1>7
<1>10. Fine(S)  BY <1>8, <1>9
<1>11. SumFunction(f) <= (n - 1) * SumFunction(g)  BY <1>5, <1>6, <1>10
<1>. QED  BY <1>4, <1>11 DEF f

-----------------------------------------------------------------------------
(* What holds under conditions on the messages and images that arrive: an   *)
(* image before is let go once, all images have one size, no value of an    *)
(* array is the largest, and a scope is not wider than its buffer.          *)
LetsGoOnce == InterpolateArgs \subseteq {1}
OneSize == \A a, b \in ScanSizes : a = b
CutOff == 2^LogLevels \notin ArrayValues
ScopeFits == \A w \in ScopeWidths : w <= RingSize

Scanning == sclass \in {"scan", "scanxy"}
ScanTypes ==
    /\ sclass \in ScanClasses \cup {"freed"}
    /\ spacket0 \in 0..ScanBuffers /\ spacket1 \in 0..ScanBuffers /\ spatch \in 0..ScanBuffers
    /\ susers \in [1..ScanBuffers -> Int] /\ DOMAIN ssize = 1..ScanBuffers
(* The pixels of the packet that the patch has sent. *)
SentData == spatch # NoScan =>
    /\ Scanning => ssize[spatch] \in ScanSizes
    /\ Summing => ssize[spatch] \in SumSizes /\ sdata \in [Pixels2(ssize[spatch]) -> Int]
    /\ sclass = "grey2array" => ssize[spatch] \in ScanSizes /\ sdata \in [Pixels2(ssize[spatch]) -> Int]
    /\ shash # <<>> => spacket0 = spatch
(* Only an image that is still with the patch has a result.                 *)
Results ==
    /\ shash # <<>> => spatch # NoScan /\ sclass = "histo_sample"
    /\ sclass = "cog_thresh" /\ sresult # <<>> => spatch # NoScan /\ spacket0 = spatch /\ CentreInside
    /\ ColumnsCover
    /\ CutOff => ArrayOrdered
One(c) == IF c THEN 1 ELSE 0
HeldOnce(p) == One(spacket0 = p) + One(spacket1 = p /\ sclass # "freed") + One(spatch = p)
HeldInv == LetsGoOnce => \A p \in 1..ScanBuffers : susers[p] >= HeldOnce(p)
(* What is read: with one size every image has it.                          *)
ReadInv == LetsGoOnce /\ OneSize =>
    /\ Scanning => /\ \A p \in {spacket0, spacket1} : p # NoScan => ssize[p] \in ScanSizes
                   /\ \A r \in sread : r[1] \in 1..ScanBuffers /\ ssize[r[1]] \in ScanSizes /\ r[2] \in Pixels2(ssize[r[1]])
    /\ ~Scanning => \A r \in sread : spatch # NoScan /\ r[1] = spatch /\ r[2] \in Pixels2(ssize[r[1]])
(* The ring of a scope: the last RingSize samples, the m-th at m modulo its *)
(* size, and uncleared memory before the first.                             *)
Sample(m) == IF m < 0 THEN Uncleared ELSE m + 1
RingInv ==
    /\ sheard \in Seq(Int) /\ \A k \in 1..Len(sheard) : sheard[k] = k
    /\ sneedle = Len(sheard) % RingSize /\ DOMAIN sring = 0..RingSize - 1
    /\ \A m \in Len(sheard) - RingSize..Len(sheard) - 1 : sring[m % RingSize] = Sample(m)
    /\ ScopeFits => ScopeShowsLast
ScanInv == ScanTypes /\ SentData /\ Results /\ HeldInv /\ ReadInv /\ RingInv

LEMMA PixelsInside ==
    ASSUME NEW w \in Nat \ {0}, NEW h \in Nat \ {0}, NEW x \in 0..w - 1, NEW y \in 0..h - 1
    PROVE  y * w + x \in Pixels2(<<w, h>>)
<1>1. y * w <= (h - 1) * w /\ 0 <= y * w
  <2>1. (h - 1) * w = y * w + (h - 1 - y) * w  OBVIOUS
  <2>2. h - 1 - y \in Nat /\ y \in Nat  OBVIOUS
  <2>3. (h - 1 - y) * w \in Nat /\ y * w \in Nat  BY <2>2
  <2>. QED  BY <2>1, <2>3
<1>2. (h - 1) * w = w * h - w  OBVIOUS
<1>3. y * w \in Int /\ w * h \in Int  OBVIOUS
<1> DEFINE a == y * w
           b == w * h
<1>4. a \in Int /\ b \in Int /\ 0 <= a /\ a <= b - w  BY <1>1, <1>2, <1>3
<1>5. Pixels2(<<w, h>>) = 0..b - 1  BY DEF Pixels2
<1>. HIDE DEF a, b
<1>6. a + x \in 0..b - 1  BY <1>4
<1>. QED  BY <1>5, <1>6 DEF a

(* A fraction below one of a length is an index.                            *)
LEMMA QuotientInside ==
    ASSUME NEW n \in Nat \ {0}, NEW d \in Nat \ {0}, NEW a \in Nat, a < n * d
    PROVE  a \div d \in 0..n - 1
<1> DEFINE q == a \div d
           r == a % d
<1>1. q \in Int /\ r \in 0..d - 1 /\ a = d * q + r  BY DivMod
<1>. HIDE DEF q, r
<1>2. q >= 0
  <2>1. SUFFICES ASSUME q <= -1 PROVE FALSE  BY <1>1
  <2>2. d * q <= -d  BY <1>1, <2>1
  <2>. QED  BY <1>1, <1>1, <2>2
<1>3. q < n
  <2>1. SUFFICES ASSUME q >= n PROVE FALSE  BY <1>1
  <2>2. d * q >= d * n  BY <1>1, <2>1
  <2>3. d * n = n * d /\ d * n \in Int /\ d * q \in Int  BY <1>1
  <2>. QED  BY <1>1, <1>1, <2>2, <2>3
<1>. QED  BY <1>1, <1>2, <1>3 DEF q

LEMMA FractionInside ==
    ASSUME NEW n \in Nat \ {0}, NEW c \in Nat, NEW d \in Nat \ {0}, c < d
    PROVE  (c * n) \div d \in 0..n - 1 /\ (c * (n - 1)) \div d \in 0..n - 1
<1>2. c * n \in Nat /\ c * n < n * d
  <2>1. n * d = c * n + (d - c) * n  OBVIOUS
  <2>2. d - c \in Nat \ {0}  OBVIOUS
  <2>3. (d - c) * n >= n  BY <2>2
  <2>4. c * n \in Nat  OBVIOUS
  <2>. QED  BY <2>1, <2>3, <2>4
<1>3. c * (n - 1) \in Nat /\ c * (n - 1) < n * d
  <2>1. c * (n - 1) = c * n - c  OBVIOUS
  <2>2. n - 1 \in Nat  OBVIOUS
  <2>3. c * (n - 1) \in Nat  BY <2>2
  <2>. QED  BY <1>2, <2>1, <2>3
<1>. QED  BY <1>2, <1>3, QuotientInside

LEMMA OffsetsInside ==
    ASSUME NEW w \in Nat \ {0}, NEW h \in Nat \ {0}, NEW i \in ScanOffsets(<<w, h>>)
    PROVE  i \in Pixels2(<<w, h>>)
<1> DEFINE size == <<w, h>>
<1>0. size[1] = w /\ size[2] = h  OBVIOUS
<1>1. CASE sclass = "scan"
  <2>1. PICK c \in -4..4 : i = scan_offset(size, c)  BY <1>1 DEF ScanOffsets
  <2> DEFINE y == ((8 + c) * (h - 1)) \div 16
             x == ((8 + c) * (w - 1)) \div 16
  <2>2. 8 + c \in Nat /\ 8 + c < 16 /\ 16 \in Nat \ {0}  OBVIOUS
  <2>3. y \in 0..h - 1 /\ x \in 0..w - 1  BY <2>2, FractionInside
  <2>4. i = y * w + x  BY <1>0, <2>1 DEF scan_offset
  <2>. HIDE DEF y, x
  <2>. QED  BY <2>3, <2>4, PixelsInside
<1>2. CASE sclass # "scan"
  <2>1. PICK b \in {-17, -1, 0, 15, 16}, a \in {-1, 0, 15, 31} : i = scanxy_offset(size, b, a)
    BY <1>2 DEF ScanOffsets
  <2> DEFINE y == ((a % 16) * h) \div 16
             x == ((b % 16) * w) \div 16
  <2>2. a % 16 \in Nat /\ a % 16 < 16 /\ b % 16 \in Nat /\ b % 16 < 16 /\ 16 \in Nat \ {0}  OBVIOUS
  <2>3. y \in 0..h - 1 /\ x \in 0..w - 1  BY <2>2, FractionInside
  <2>4. i = y * w + x  BY <1>0, <2>1 DEF scanxy_offset
  <2>. HIDE DEF y, x
  <2>. QED  BY <2>3, <2>4, PixelsInside
<1>. QED  BY <1>1, <1>2

-----------------------------------------------------------------------------
(* References after a packet is let go or taken.                            *)
ScanPackets == 1..ScanBuffers

LEMMA MarkedUsers ==
    ASSUME NEW u, u \in [ScanPackets -> Int], NEW p \in 0..ScanBuffers
    PROVE  /\ pdp_packet_mark_unused(u, p) \in [ScanPackets -> Int]
           /\ \A q \in ScanPackets : pdp_packet_mark_unused(u, p)[q] = u[q] - One(p = q)
<1>1. CASE p = NoScan
  <2>1. \A q \in ScanPackets : p # q  BY <1>1 DEF NoScan, ScanPackets
  <2>. QED  BY <1>1, <2>1 DEF pdp_packet_mark_unused, One
<1>2. CASE p # NoScan
  <2>1. p \in ScanPackets  BY <1>2, ScanAssumption DEF NoScan, ScanPackets
  <2>. QED  BY <1>2, <2>1 DEF pdp_packet_mark_unused, One
<1>. QED  BY <1>1, <1>2

LEMMA CopiedUsers ==
    ASSUME NEW u, u \in [ScanPackets -> Int], NEW p \in ScanPackets
    PROVE  /\ pdp_packet_copy_ro(u, p) \in [ScanPackets -> Int]
           /\ \A q \in ScanPackets : pdp_packet_copy_ro(u, p)[q] = u[q] + One(p = q)
BY DEF pdp_packet_copy_ro, One

(* A packet of the patch takes the place of another.                        *)
LEMMA SwappedUsers ==
    ASSUME NEW u, u \in [ScanPackets -> Int], NEW p \in 0..ScanBuffers, NEW t \in 0..ScanBuffers, t # NoScan
    PROVE  LET v == pdp_packet_copy_ro(pdp_packet_mark_unused(u, p), t)
           IN  /\ t \in ScanPackets /\ v \in [ScanPackets -> Int]
               /\ \A q \in ScanPackets : v[q] = u[q] - One(p = q) + One(t = q)
<1> DEFINE m == pdp_packet_mark_unused(u, p)
<1>1. m \in [ScanPackets -> Int] /\ \A q \in ScanPackets : m[q] = u[q] - One(p = q)  BY MarkedUsers
<1>2. t \in ScanPackets  BY ScanAssumption DEF NoScan, ScanPackets
<1>. HIDE DEF m
<1>3. pdp_packet_copy_ro(m, t) \in [ScanPackets -> Int] /\ \A q \in ScanPackets : pdp_packet_copy_ro(m, t)[q] = m[q] + One(t = q)
  BY <1>1, <1>2, CopiedUsers
<1>. QED  BY <1>1, <1>2, <1>3 DEF m

LEMMA ScanTypesStep ==
    ASSUME ScanTypes, [ScanNext]_scanVars
    PROVE  ScanTypes'
<1>0. susers \in [ScanPackets -> Int]  BY DEF ScanTypes, ScanPackets
<1>. USE ScanAssumption
<1>1. CASE UNCHANGED <<sclass, spacket0, spacket1, spatch, susers, ssize>>  BY <1>1 DEF ScanTypes
<1>2. CASE PatchSends  BY <1>2 DEF PatchSends, ScanTypes
<1>3. CASE PatchDone
  <2>1. susers' \in [ScanPackets -> Int]  BY <1>0, <1>3, MarkedUsers DEF PatchDone, ScanTypes
  <2>2. spatch' = NoScan /\ UNCHANGED <<sclass, spacket0, spacket1>> /\ DOMAIN ssize' = 1..ScanBuffers  BY <1>3 DEF PatchDone
  <2>. QED  BY <2>1, <2>2 DEF ScanTypes, ScanPackets, NoScan
<1>4. CASE pdp_scan_input_0
  <2>1. \/ susers' = pdp_packet_copy_ro(pdp_packet_mark_unused(susers, spacket0), spatch) /\ spacket1' = spacket1
        \/ susers' = pdp_packet_copy_ro(pdp_packet_mark_unused(susers, spacket1), spatch) /\ spacket1' = spacket0
    BY <1>4 DEF pdp_scan_input_0
  <2>2. spatch # NoScan /\ spacket0' = spatch /\ UNCHANGED <<sclass, ssize, spatch>>  BY <1>4 DEF pdp_scan_input_0
  <2>3. susers' \in [ScanPackets -> Int]  BY <1>0, <2>1, <2>2, SwappedUsers DEF ScanTypes
  <2>. QED  BY <2>1, <2>2, <2>3 DEF ScanTypes, ScanPackets
<1>5. CASE pdp_scan_perform
  <2>1. /\ susers' \in {pdp_packet_mark_unused(susers, spacket1), susers} /\ spacket1' \in {NoScan, spacket1}
        /\ UNCHANGED <<sclass, spacket0, ssize, spatch>>
    BY <1>5 DEF pdp_scan_perform
  <2>2. susers' \in [ScanPackets -> Int]  BY <1>0, <2>1, MarkedUsers DEF ScanTypes
  <2>. QED  BY <2>1, <2>2 DEF ScanTypes, ScanPackets, NoScan
<1>6. CASE pdp_scan_interpolate
  <2>1. susers' \in {pdp_packet_mark_unused(susers, spacket1), susers} /\ UNCHANGED <<sclass, spacket0, spacket1, ssize, spatch>>
    BY <1>6 DEF pdp_scan_interpolate
  <2>2. susers' \in [ScanPackets -> Int]  BY <1>0, <2>1, MarkedUsers DEF ScanTypes
  <2>. QED  BY <2>1, <2>2 DEF ScanTypes, ScanPackets
<1>7. CASE Takes
  <2>1. /\ spatch # NoScan /\ susers' = pdp_packet_copy_ro(pdp_packet_mark_unused(susers, spacket0), spatch)
        /\ spacket0' = spatch /\ UNCHANGED <<sclass, spacket1, ssize, spatch>>
    BY <1>7 DEF Takes
  <2>2. susers' \in [ScanPackets -> Int]  BY <1>0, <2>1, SwappedUsers DEF ScanTypes
  <2>. QED  BY <2>1, <2>2 DEF ScanTypes, ScanPackets
<1>8. CASE pdp_array_array  BY <1>8 DEF pdp_array_array, ScanTypes, NoScan
<1>9. CASE get_sampleset \/ ScanFree
  <2>1. /\ susers' = pdp_packet_mark_unused(susers, spacket0) /\ spacket0' = NoScan /\ sclass' \in {sclass, "freed"}
        /\ UNCHANGED <<spacket1, ssize, spatch>>
    BY <1>9 DEF get_sampleset, ScanFree
  <2>2. susers' \in [ScanPackets -> Int]  BY <1>0, <2>1, MarkedUsers DEF ScanTypes
  <2>. QED  BY <2>1, <2>2 DEF ScanTypes, ScanPackets, NoScan
<1>. QED
  BY <1>1, <1>2, <1>3, <1>4, <1>5, <1>6, <1>7, <1>8, <1>9
  DEF ScanNext, scanVars, scanPackets, pdp_cog_perform, pdp_array_input_0, pdp_array_bang, dump_to_array, get_brightest, PlacePoint,
      pdp_scope_perform, pdp_scope_generate

(* The references counted, over every step.                                 *)
LEMMA HeldStep ==
    ASSUME ScanTypes, HeldInv, [ScanNext]_scanVars
    PROVE  HeldInv'
<1>1. SUFFICES ASSUME LetsGoOnce, NEW q \in ScanPackets PROVE susers'[q] >= HeldOnce(q)'  BY DEF HeldInv, ScanPackets
<1>2. susers[q] >= HeldOnce(q) /\ susers[q] \in Int  BY <1>1 DEF HeldInv, ScanPackets, ScanTypes
<1>3. susers \in [ScanPackets -> Int] /\ spacket0 \in 0..ScanBuffers /\ spacket1 \in 0..ScanBuffers /\ spatch \in 0..ScanBuffers
  BY DEF ScanTypes, ScanPackets
<1>4. q # NoScan /\ q \in Int  BY ScanAssumption DEF ScanPackets, NoScan
<1>5. CASE UNCHANGED <<sclass, spacket0, spacket1, spatch, susers>>  BY <1>2, <1>5 DEF HeldOnce
<1>6. CASE PatchSends
  <2>1. PICK p \in ScanPackets : susers[p] = 0 /\ susers' = [susers EXCEPT ![p] = 1] /\ spatch' = p
    BY <1>6 DEF PatchSends, ScanPackets
  <2>2. spatch = NoScan /\ UNCHANGED <<sclass, spacket0, spacket1>>  BY <1>6 DEF PatchSends
  <2>3. CASE q = p
    <3>1. susers'[q] = 1 /\ susers[q] = 0  BY <1>3, <2>1, <2>3
    <3>2. HeldOnce(q) <= 0  BY <1>2, <3>1 DEF HeldOnce, One
    <3>. QED  BY <2>1, <2>2, <2>3, <3>1, <3>2, <1>4 DEF HeldOnce, One
  <2>4. CASE q # p
    <3>1. susers'[q] = susers[q]  BY <1>3, <2>1, <2>4
    <3>. QED  BY <1>2, <1>4, <2>1, <2>2, <2>4, <3>1 DEF HeldOnce, One
  <2>. QED  BY <2>3, <2>4
<1>7. CASE PatchDone
  <2>1. susers'[q] = susers[q] - One(spatch = q)  BY <1>3, <1>7, MarkedUsers DEF PatchDone
  <2>2. spatch' = NoScan /\ UNCHANGED <<sclass, spacket0, spacket1>>  BY <1>7 DEF PatchDone
  <2>. QED  BY <1>2, <1>4, <2>1, <2>2 DEF HeldOnce, One
<1>8. CASE pdp_scan_input_0
  <2>1. \/ susers' = pdp_packet_copy_ro(pdp_packet_mark_unused(susers, spacket0), spatch) /\ spacket1' = spacket1
        \/ susers' = pdp_packet_copy_ro(pdp_packet_mark_unused(susers, spacket1), spatch) /\ spacket1' = spacket0
    BY <1>8 DEF pdp_scan_input_0
  <2>2. spatch # NoScan /\ spacket0' = spatch /\ UNCHANGED <<sclass, spatch>> /\ sclass # "freed"  BY <1>8 DEF pdp_scan_input_0
  <2>3. \/ susers'[q] = susers[q] - One(spacket0 = q) + One(spatch = q) /\ spacket1' = spacket1
        \/ susers'[q] = susers[q] - One(spacket1 = q) + One(spatch = q) /\ spacket1' = spacket0
    BY <1>3, <2>1, <2>2, SwappedUsers
  <2>. QED  BY <1>2, <2>2, <2>3 DEF HeldOnce, One
<1>9. CASE pdp_scan_perform
  <2>1. /\ \/ susers' = pdp_packet_mark_unused(susers, spacket1) /\ spacket1' = NoScan
           \/ susers' = susers /\ spacket1' = spacket1
        /\ UNCHANGED <<sclass, spacket0, spatch>> /\ sclass # "freed"
    BY <1>9 DEF pdp_scan_perform
  <2>2. \/ susers'[q] = susers[q] - One(spacket1 = q) /\ spacket1' = NoScan
        \/ susers'[q] = susers[q] /\ spacket1' = spacket1
    BY <1>3, <2>1, MarkedUsers
  <2>. QED  BY <1>2, <1>4, <2>1, <2>2 DEF HeldOnce, One
<1>10. CASE pdp_scan_interpolate
  <2>1. susers' = susers  BY <1>1, <1>10 DEF pdp_scan_interpolate, LetsGoOnce
  <2>. QED  BY <1>5, <1>10, <2>1 DEF pdp_scan_interpolate
<1>11. CASE Takes
  <2>1. /\ spatch # NoScan /\ susers' = pdp_packet_copy_ro(pdp_packet_mark_unused(susers, spacket0), spatch)
        /\ spacket0' = spatch /\ UNCHANGED <<sclass, spacket1, spatch>>
    BY <1>11 DEF Takes
  <2>2. susers'[q] = susers[q] - One(spacket0 = q) + One(spatch = q)  BY <1>3, <2>1, SwappedUsers
  <2>. QED  BY <1>2, <2>1, <2>2 DEF HeldOnce, One
<1>12. CASE pdp_array_array
  <2>1. spacket0' = NoScan /\ UNCHANGED <<sclass, spacket1, susers, spatch>>  BY <1>12 DEF pdp_array_array
  <2>. QED  BY <1>2, <1>4, <2>1 DEF HeldOnce, One
<1>13. CASE get_sampleset \/ ScanFree
  <2>1. /\ susers' = pdp_packet_mark_unused(susers, spacket0) /\ spacket0' = NoScan
        /\ sclass' \in {sclass, "freed"} /\ UNCHANGED <<spacket1, spatch>>
    BY <1>13 DEF get_sampleset, ScanFree
  <2>2. susers'[q] = susers[q] - One(spacket0 = q)  BY <1>3, <2>1, MarkedUsers
  <2>. QED  BY <1>2, <1>4, <2>1, <2>2 DEF HeldOnce, One
<1>. QED
  BY <1>5, <1>6, <1>7, <1>8, <1>9, <1>10, <1>11, <1>12, <1>13
  DEF ScanNext, scanVars, scanPackets, pdp_cog_perform, pdp_array_input_0, pdp_array_bang, dump_to_array, get_brightest, PlacePoint,
      pdp_scope_perform, pdp_scope_generate

(* What the patch has sent, over every step.                                *)
LEMMA PatchSentStep ==
    ASSUME ScanTypes, SentData, Results, [ScanNext]_scanVars
    PROVE  SentData'
<1>1. CASE UNCHANGED <<sclass, spacket0, spatch, ssize, sdata, shash>>  BY <1>1 DEF SentData, Scanning, Summing
<1>2. CASE PatchSends
  <2>1. PICK size \in IF Summing THEN SumSizes ELSE ScanSizes, p \in ScanPackets :
           /\ \E d \in IF Summing THEN [Pixels2(size) -> IF sclass = "histo_sample" THEN GreyLevels ELSE ScanLevels]
                       ELSE {[i \in Pixels2(size) |-> i]} : sdata' = d
           /\ ssize' = [ssize EXCEPT ![p] = size] /\ spatch' = p
    BY <1>2 DEF PatchSends, ScanPackets
  <2>2. shash' = <<>> /\ UNCHANGED sclass  BY <1>2 DEF PatchSends, ScanIdle
  <2>3. ssize'[spatch'] = size  BY <2>1 DEF ScanTypes, ScanPackets
  <2>4. Pixels2(size) \subseteq Int  BY DEF Pixels2
  <2>5. sdata' \in [Pixels2(size) -> Int]
    <3>1. CASE Summing
      <4>1. sdata' \in [Pixels2(size) -> GreyLevels] \/ sdata' \in [Pixels2(size) -> ScanLevels]  BY <2>1, <3>1
      <4>2. GreyLevels \subseteq Int /\ ScanLevels \subseteq Int  BY ScanAssumption
      <4>. QED  BY <4>1, <4>2
    <3>2. CASE ~Summing  BY <2>1, <2>4, <3>2
    <3>. QED  BY <3>1, <3>2
  <2>6. Summing' = Summing /\ Scanning' = Scanning  BY <2>2 DEF Summing, Scanning
  <2>7. (Scanning => ~Summing) /\ (sclass = "grey2array" => ~Summing)  BY DEF Scanning, Summing
  <2>8. (Summing => size \in SumSizes) /\ (~Summing => size \in ScanSizes)  BY <2>1
  <2>. QED  BY <2>2, <2>3, <2>5, <2>6, <2>7, <2>8 DEF SentData
<1>3. CASE PatchDone  BY <1>3 DEF PatchDone, SentData
<1>4. CASE pdp_scan_input_0
  <2>1. sclass # "histo_sample" /\ UNCHANGED <<sclass, spatch, ssize, sdata, shash>>  BY <1>4 DEF pdp_scan_input_0
  <2>2. shash' = <<>>  BY <2>1 DEF Results
  <2>. QED  BY <2>1, <2>2 DEF SentData, Scanning, Summing
<1>5. CASE Takes
  <2>1. spacket0' = spatch /\ UNCHANGED <<sclass, spatch, ssize, sdata>>  BY <1>5 DEF Takes
  <2>. QED  BY <2>1 DEF SentData, Scanning, Summing
<1>6. CASE pdp_array_array  BY <1>6 DEF pdp_array_array, SentData
<1>7. CASE PlacePoint
  <2>1. shash # <<>>
    <3>1. PICK i \in DOMAIN shash : TRUE  BY <1>7 DEF PlacePoint
    <3>2. DOMAIN <<>> = {}  OBVIOUS
    <3>. QED  BY <3>1, <3>2
  <2>2. UNCHANGED <<sclass, spacket0, spatch, ssize, sdata>>  BY <1>7 DEF PlacePoint, scanPackets
  <2>. QED  BY <2>1, <2>2 DEF SentData, Scanning, Summing
<1>8. CASE get_sampleset
  <2>1. shash' = <<>> /\ UNCHANGED <<sclass, spatch, ssize, sdata>>  BY <1>8 DEF get_sampleset
  <2>. QED  BY <2>1 DEF SentData, Scanning, Summing
<1>9. CASE ScanFree  BY <1>9 DEF ScanFree, ScanIdle, SentData, Scanning, Summing
<1>10. CASE pdp_scan_perform \/ pdp_scan_interpolate
  BY <1>1, <1>10 DEF pdp_scan_perform, pdp_scan_interpolate
<1>11. CASE pdp_array_bang \/ pdp_scope_perform \/ pdp_scope_generate \/ UNCHANGED scanVars
  BY <1>1, <1>11 DEF pdp_array_bang, pdp_scope_perform, pdp_scope_generate, scanVars, scanPackets
<1>12. CASE pdp_cog_perform \/ pdp_array_input_0 \/ dump_to_array \/ get_brightest
  BY <1>5, <1>12 DEF pdp_cog_perform, pdp_array_input_0, dump_to_array, get_brightest
<1>. QED
  BY <1>2, <1>3, <1>4, <1>6, <1>7, <1>8, <1>9, <1>10, <1>11, <1>12 DEF ScanNext

(* Reading by columns takes every pixel once.                               *)
LEMMA ColumnsOnce ==
    ASSUME NEW w \in Nat \ {0}, NEW h \in Nat \ {0}
    PROVE  /\ \A i \in Pixels2(<<w, h>>) : ColumnIndex(i, w, h) \in Pixels2(<<w, h>>)
           /\ \A i, j \in Pixels2(<<w, h>>) : ColumnIndex(i, w, h) = ColumnIndex(j, w, h) => i = j
<1>1. ASSUME NEW i \in Pixels2(<<w, h>>) PROVE i \div h \in 0..w - 1 /\ i % h \in 0..h - 1 /\ i = h * (i \div h) + (i % h)
  <2>1. i \in Nat /\ i < w * h
    <3> DEFINE b == w * h
    <3>1. b \in Int /\ Pixels2(<<w, h>>) = 0..b - 1  BY DEF Pixels2
    <3>2. i \in 0..b - 1  BY <3>1
    <3>. HIDE DEF b
    <3>3. i \in Nat /\ i < b  BY <3>1, <3>2
    <3>. QED  BY <3>3 DEF b
  <2>2. i \div h \in 0..w - 1  BY <2>1, QuotientInside
  <2>3. i \in Int  BY <2>1
  <2>4. i % h \in 0..h - 1 /\ i = h * (i \div h) + (i % h)  BY <2>3, DivMod
  <2>. QED  BY <2>2, <2>4
<1>2. ASSUME NEW i \in Pixels2(<<w, h>>) PROVE ColumnIndex(i, w, h) \in Pixels2(<<w, h>>)
  <2> DEFINE x == i \div h
             r == i % h
             y == h - r - 1
  <2>1. x \in 0..w - 1 /\ r \in 0..h - 1  BY <1>1
  <2>2. y \in 0..h - 1  BY <2>1
  <2>3. ColumnIndex(i, w, h) = x + y * w  BY DEF ColumnIndex
  <2>. HIDE DEF x, y
  <2>0. y * w + x \in Pixels2(<<w, h>>)  BY <2>1, <2>2, PixelsInside
  <2>4. y * w + x \in Pixels2(<<w, h>>) /\ y * w \in Int /\ x \in Int  BY <2>0, <2>1, <2>2
  <2> DEFINE z == y * w
  <2>5. z + x \in Pixels2(<<w, h>>) /\ ColumnIndex(i, w, h) = x + z /\ z \in Int /\ x \in Int  BY <2>3, <2>4
  <2>. HIDE DEF z
  <2>. QED  BY <2>5
<1>3. ASSUME NEW i \in Pixels2(<<w, h>>), NEW j \in Pixels2(<<w, h>>), ColumnIndex(i, w, h) = ColumnIndex(j, w, h) PROVE i = j
  <2> DEFINE x == i \div h
             r == i % h
             v == j \div h
             s == j % h
             y == h - r - 1
             z == h - s - 1
  <2>1. /\ x \in 0..w - 1 /\ r \in 0..h - 1 /\ i = h * x + r
        /\ v \in 0..w - 1 /\ s \in 0..h - 1 /\ j = h * v + s
    BY <1>1
  <2>2. x + y * w = v + z * w  BY <1>3 DEF ColumnIndex
  <2>. HIDE DEF x, r, v, s
  <2>3. y \in Int /\ z \in Int /\ x \in Int /\ v \in Int  BY <2>1
  <2>4. w * y + x = w * z + v
    <3>. HIDE DEF y, z
    <3>. QED  BY <2>2, <2>3
  <2>5. x = v  BY <2>1, <2>3, <2>4, DivisionUnique
  <2>6. y = z
    <3>. HIDE DEF y, z
    <3>1. w * (y - z) = 0  BY <2>3, <2>4, <2>5
    <3>2. CASE y - z >= 1
      <4>1. w * (y - z) >= w  BY <2>3, <3>2
      <4>. QED  BY <3>1, <4>1
    <3>3. CASE z - y >= 1
      <4>1. w * (z - y) >= w  BY <2>3, <3>3
      <4>2. w * (z - y) = 0  BY <2>3, <3>1
      <4>. QED  BY <4>1, <4>2
    <3>. QED  BY <2>3, <3>2, <3>3
  <2>7. r = s  BY <2>1, <2>6
  <2>. QED  BY <2>1, <2>5, <2>7
<1>. QED  BY <1>2, <1>3

LEMMA ColumnsCounted ==
    ASSUME NEW w \in Nat \ {0}, NEW h \in Nat \ {0}, NEW p, NEW T,
           \A t : t \in T <=> \E i \in Pixels2(<<w, h>>) : t = <<p, ColumnIndex(i, w, h)>>
    PROVE  Cardinality(T) = Cardinality(Pixels2(<<w, h>>))
<1> DEFINE S == Pixels2(<<w, h>>)
           f == [i \in S |-> <<p, ColumnIndex(i, w, h)>>]
<1>1. IsFiniteSet(S)
  <2>1. w * h - 1 \in Int  OBVIOUS
  <2>2. S = 0..w * h - 1  BY DEF Pixels2
  <2>. QED  BY <2>1, <2>2, FS_Interval
<1>2. \A i, j \in S : ColumnIndex(i, w, h) = ColumnIndex(j, w, h) => i = j  BY ColumnsOnce
<1>3. \A t : t \in T <=> \E i \in S : t = <<p, ColumnIndex(i, w, h)>>  OBVIOUS
<1>. HIDE DEF S
<1>4. DOMAIN f = S /\ \A i \in S : f[i] = <<p, ColumnIndex(i, w, h)>> /\ f[i] \in T  BY <1>3
<1>5. f \in [S -> T]  BY <1>4
<1>6. \A t \in T : \E i \in S : f[i] = t  BY <1>3, <1>4
<1>7. \A i, j \in S : f[i] = f[j] => i = j  BY <1>2, <1>4
<1>. HIDE DEF f
<1>8. f \in Surjection(S, T)  BY <1>5, <1>6 DEF Surjection
<1>9. f \in Injection(S, T)  BY <1>4, <1>5, <1>7 DEF Injection, IsInjective
<1>10. Cardinality(T) = Cardinality(S)  BY <1>1, <1>8, <1>9, FS_Surjection
<1>. QED  BY <1>10 DEF S

(* A centre of gravity of magnitudes.                                       *)
LEMMA CentreWithin ==
    ASSUME NEW n \in Nat \ {0}, NEW sums, DOMAIN sums = 0..n - 1, \A i \in 0..n - 1 : sums[i] \in Nat,
           NEW c, c = CentreOf(sums, n)
    PROVE  c[2] > 0 /\ c[1] >= 0 /\ c[1] <= (n - 1) * c[2]
<1> DEFINE a == SumFunction([i \in 0..n - 1 |-> sums[i] * i])
           b == SumFunction(sums)
<1>1. a \in Nat /\ b \in Nat /\ a <= (n - 1) * b  BY WeightedSum
<1>2. c[1] = n \div 2 + a /\ c[2] = 1 + b  BY DEF CentreOf
<1>3. n \div 2 \in Nat /\ n \div 2 <= n - 1  OBVIOUS
<1>. HIDE DEF a, b
<1>4. (n - 1) * (1 + b) = (n - 1) + (n - 1) * b /\ (n - 1) * b \in Int  BY <1>1
<1> DEFINE q == (n - 1) * b
<1>5. q \in Int /\ a <= q /\ (n - 1) * c[2] = (n - 1) + q  BY <1>1, <1>2, <1>4
<1>. HIDE DEF q
<1>. QED  BY <1>1, <1>2, <1>3, <1>5

LEMMA CentreOfImage ==
    ASSUME ScanTypes, SentData, pdp_cog_perform
    PROVE  sclass = "cog_thresh" => CentreInside'
<1>0. CASE ~Square(ssize[spatch])
  <2>1. ssize'[spacket0'] = ssize[spatch]  BY DEF pdp_cog_perform, Takes
  <2>. QED  BY <1>0, <2>1 DEF CentreInside, Square
<1>1. SUFFICES ASSUME sclass = "cog_thresh", Square(ssize[spatch]) PROVE CentreInside'  BY <1>0
<1> DEFINE size == ssize[spatch]
           pixel(x, y) == CogPixel(sdata[y * size[1] + x])
           columnsums == [x \in 0..size[1] - 1 |-> SumFunction([y \in 0..size[2] - 1 |-> pixel(x, y)])]
           rowsums == [y \in 0..size[2] - 1 |-> SumFunction([x \in 0..size[1] - 1 |-> pixel(x, y)])]
<1>2. /\ sresult' = [h |-> CentreOf(columnsums, size[1]), v |-> CentreOf(rowsums, size[2])] /\ Takes
  BY <1>1 DEF pdp_cog_perform
<1>3. spatch # NoScan /\ spacket0' = spatch /\ UNCHANGED <<sclass, ssize, spatch>>  BY <1>2 DEF Takes
<1>4. size \in SumSizes /\ sdata \in [Pixels2(size) -> Int]  BY <1>1, <1>3 DEF SentData, Summing
<1>5. PICK w \in Nat \ {0}, h \in Nat \ {0} : size = <<w, h>>  BY <1>4, ScanAssumption
<1>6. size[1] = w /\ size[2] = h /\ sdata \in [Pixels2(<<w, h>>) -> Int]  BY <1>4, <1>5
<1>. HIDE DEF size
<1>7. ASSUME NEW x \in 0..w - 1, NEW y \in 0..h - 1 PROVE pixel(x, y) \in Nat
  <2>1. sdata[y * w + x] \in Int  BY <1>6, PixelsInside
  <2> DEFINE d == sdata[y * w + x]
  <2>2. CogPixel(d) \in Nat
    <3>1. d \in Int  BY <2>1
    <3>. HIDE DEF d
    <3>. QED  BY <1>1, <3>1 DEF CogPixel
  <2>. QED  BY <1>6, <2>2
<1>. HIDE DEF pixel
<1>8. ASSUME NEW x \in 0..w - 1 PROVE columnsums[x] \in Nat
  <2> DEFINE f == [y \in 0..h - 1 |-> pixel(x, y)]
  <2>1. IsFiniteSet(DOMAIN f) /\ \A y \in DOMAIN f : f[y] \in Nat  BY <1>7, FS_Interval
  <2>2. columnsums[x] = SumFunction(f)  BY <1>6
  <2>. HIDE DEF f, columnsums
  <2>. QED  BY <2>1, <2>2, SumNat
<1>9. ASSUME NEW y \in 0..h - 1 PROVE rowsums[y] \in Nat
  <2> DEFINE f == [x \in 0..w - 1 |-> pixel(x, y)]
  <2>1. IsFiniteSet(DOMAIN f) /\ \A x \in DOMAIN f : f[x] \in Nat  BY <1>7, FS_Interval
  <2>2. rowsums[y] = SumFunction(f)  BY <1>6
  <2>. HIDE DEF f, rowsums
  <2>. QED  BY <2>1, <2>2, SumNat
<1>10. DOMAIN columnsums = 0..w - 1 /\ DOMAIN rowsums = 0..h - 1  BY <1>6
<1>. HIDE DEF columnsums, rowsums
<1> DEFINE c == CentreOf(columnsums, w)
           r == CentreOf(rowsums, h)
<1>11. c[2] > 0 /\ c[1] >= 0 /\ c[1] <= (w - 1) * c[2]  BY <1>8, <1>10, CentreWithin
<1>12. r[2] > 0 /\ r[1] >= 0 /\ r[1] <= (h - 1) * r[2]  BY <1>9, <1>10, CentreWithin
<1>13. sresult'.h = c /\ sresult'.v = r  BY <1>2, <1>6
<1>14. ssize'[spacket0'][1] = w /\ ssize'[spacket0'][2] = h  BY <1>3, <1>6 DEF size
<1>. HIDE DEF c, r
<1>. QED  BY <1>11, <1>12, <1>13, <1>14 DEF CentreInside

LEMMA PixelOrdered ==
    ASSUME CutOff, NEW v \in ArrayValues, NEW w \in ArrayValues, v <= w
    PROVE  array_pixel(v) <= array_pixel(w)
<1> DEFINE top == 2^LogLevels
<1>1. top \in Nat \ {0} /\ v \in Int /\ w \in Int /\ v # top /\ w # top  BY ScanAssumption DEF CutOff
<1>2. \A u \in Int : array_pixel(u) = LET l == IF u > top THEN top - 1 ELSE IF u < -top THEN -top ELSE u IN IF l = top THEN -top ELSE l
  BY DEF array_pixel
<1>. HIDE DEF top
<1>. QED  BY <1>1, <1>2

(* The results, over every step.                                            *)
LEMMA ResultsStep ==
    ASSUME ScanTypes, SentData, Results, [ScanNext]_scanVars
    PROVE  Results'
<1> DEFINE Hashed == shash # <<>> => spatch # NoScan /\ sclass = "histo_sample"
           Centred == sclass = "cog_thresh" /\ sresult # <<>> => spatch # NoScan /\ spacket0 = spatch /\ CentreInside
           InOrder == CutOff => ArrayOrdered
<1>0. Hashed /\ Centred /\ ColumnsCover /\ InOrder  BY DEF Results
<1>1. SUFFICES Hashed' /\ Centred' /\ ColumnsCover' /\ InOrder'  BY DEF Results
<1>2. CASE UNCHANGED <<sclass, spacket0, spatch, ssize, shash, sresult, sread>>
  BY <1>0, <1>2 DEF CentreInside, Square, ColumnsCover, ArrayOrdered
<1>3. CASE PatchSends
  <2>1. spatch = NoScan /\ shash' = <<>> /\ UNCHANGED <<sclass, sresult, sread>>  BY <1>3 DEF PatchSends, ScanIdle
  <2>2. sclass # "cog_thresh" \/ sresult = <<>>  BY <1>0, <2>1
  <2>. QED  BY <1>0, <2>1, <2>2 DEF ColumnsCover, ArrayOrdered
<1>4. CASE PatchDone \/ pdp_array_array \/ ScanFree
  <2>1. sresult' = <<>>  BY <1>4 DEF PatchDone, pdp_array_array, ScanFree
  <2>2. Hashed'
    <3>1. CASE PatchDone \/ ScanFree  BY <3>1 DEF PatchDone, ScanFree, ScanIdle
    <3>2. CASE pdp_array_array
      <4>1. UNCHANGED <<sclass, spatch, shash>>  BY <3>2 DEF pdp_array_array
      <4>. QED  BY <1>0, <4>1
    <3>. QED  BY <1>4, <3>1, <3>2
  <2>. QED  BY <2>1, <2>2 DEF ColumnsCover, ArrayOrdered
<1>5. CASE pdp_scan_input_0 \/ pdp_scan_perform \/ pdp_scan_interpolate
  <2>1. sclass \in {"scan", "scanxy"} /\ UNCHANGED <<sclass, spatch, shash>>
    BY <1>5 DEF pdp_scan_input_0, pdp_scan_perform, pdp_scan_interpolate
  <2>. QED  BY <1>0, <2>1 DEF ColumnsCover, ArrayOrdered
<1>6. CASE pdp_cog_perform
  <2>1. sclass \in {"cog", "cog_thresh"} /\ Takes /\ UNCHANGED shash  BY <1>6 DEF pdp_cog_perform
  <2>2. spatch # NoScan /\ spacket0' = spatch /\ UNCHANGED <<sclass, spatch>>  BY <2>1 DEF Takes
  <2>3. sclass = "cog_thresh" => CentreInside'  BY <1>6, CentreOfImage
  <2>. QED  BY <1>0, <2>1, <2>2, <2>3 DEF ColumnsCover, ArrayOrdered
<1>7. CASE pdp_array_input_0
  <2> DEFINE w == ssize[spatch][1]
             h == ssize[spatch][2]
  <2>1. /\ sclass = "grey2array" /\ Takes /\ UNCHANGED shash
        /\ sread' = {<<spatch, ColumnIndex(i, w, h)>> : i \in Pixels2(<<w, h>>)}
        /\ sresult' = [i \in Pixels2(<<w, h>>) |-> sdata[ColumnIndex(i, w, h)]]
    BY <1>7 DEF pdp_array_input_0
  <2>2. spatch # NoScan /\ UNCHANGED <<sclass, spatch>>  BY <2>1 DEF Takes
  <2>3. ssize[spatch] \in (Nat \ {0}) \X (Nat \ {0})  BY <2>1, <2>2, ScanAssumption DEF SentData
  <2>4. w \in Nat \ {0} /\ h \in Nat \ {0}  BY <2>3
  <2>. HIDE DEF w, h
  <2>5. Cardinality(sread') = Cardinality(Pixels2(<<w, h>>))
    <3>1. \A t : t \in sread' <=> \E i \in Pixels2(<<w, h>>) : t = <<spatch, ColumnIndex(i, w, h)>>  BY <2>1
    <3>. QED  BY <2>4, <3>1, ColumnsCounted
  <2>6. DOMAIN sresult' = Pixels2(<<w, h>>)  BY <2>1
  <2>7. ColumnsCover'  BY <2>5, <2>6 DEF ColumnsCover
  <2>. QED  BY <1>0, <2>1, <2>2, <2>7 DEF ArrayOrdered
<1>8. CASE pdp_array_bang
  <2>1. PICK v, w \in ArrayValues : v <= w /\ sresult' = <<array_pixel(v), array_pixel(w)>>  BY <1>8 DEF pdp_array_bang
  <2>2. sclass = "array2grey" /\ UNCHANGED <<sclass, spatch, shash>>  BY <1>8 DEF pdp_array_bang, scanPackets
  <2>3. CutOff => ArrayOrdered'  BY <2>1, PixelOrdered DEF ArrayOrdered
  <2>. QED  BY <1>0, <2>2, <2>3 DEF ColumnsCover, CutOff
<1>9. CASE dump_to_array
  <2>1. sclass = "histo_array" /\ Takes /\ UNCHANGED shash  BY <1>9 DEF dump_to_array
  <2>2. UNCHANGED <<sclass, spatch>>  BY <2>1 DEF Takes
  <2>. QED  BY <1>0, <2>1, <2>2 DEF ColumnsCover, ArrayOrdered
<1>10. CASE get_brightest
  <2>1. sclass = "histo_sample" /\ Takes  BY <1>10 DEF get_brightest
  <2>2. spatch # NoScan /\ UNCHANGED <<sclass, spatch>>  BY <2>1 DEF Takes
  <2>. QED  BY <2>1, <2>2 DEF ColumnsCover, ArrayOrdered
<1>11. CASE PlacePoint
  <2>1. shash # <<>>
    <3>1. PICK i \in DOMAIN shash : TRUE  BY <1>11 DEF PlacePoint
    <3>2. DOMAIN <<>> = {}  OBVIOUS
    <3>. QED  BY <3>1, <3>2
  <2>2. UNCHANGED <<sclass, spatch>>  BY <1>11 DEF PlacePoint, scanPackets
  <2>. QED  BY <1>0, <2>1, <2>2 DEF ColumnsCover, ArrayOrdered
<1>12. CASE get_sampleset
  <2>1. sclass = "histo_sample" /\ shash' = <<>> /\ UNCHANGED sclass  BY <1>12 DEF get_sampleset
  <2>. QED  BY <2>1 DEF ColumnsCover, ArrayOrdered
<1>13. CASE pdp_scope_perform \/ pdp_scope_generate \/ UNCHANGED scanVars
  BY <1>2, <1>13 DEF pdp_scope_perform, pdp_scope_generate, scanVars, scanPackets
<1>. QED
  BY <1>3, <1>4, <1>5, <1>6, <1>7, <1>8, <1>9, <1>10, <1>11, <1>12, <1>13 DEF ScanNext

(* What is read, over every step.                                           *)
ScannerReads ==
    /\ \A p \in {spacket0, spacket1} : p # NoScan => ssize[p] \in ScanSizes
    /\ \A r \in sread : r[1] \in ScanPackets /\ ssize[r[1]] \in ScanSizes /\ r[2] \in Pixels2(ssize[r[1]])
OtherReads == \A r \in sread : spatch # NoScan /\ r[1] = spatch /\ r[2] \in Pixels2(ssize[r[1]])

LEMMA ReadStep ==
    ASSUME ScanTypes, SentData, Results, HeldInv, HeldInv', ScanTypes', ReadInv, [ScanNext]_scanVars
    PROVE  ReadInv'
<1>1. SUFFICES ASSUME LetsGoOnce, OneSize PROVE (Scanning => ScannerReads)' /\ (~Scanning => OtherReads)'
  BY DEF ReadInv, ScannerReads, OtherReads, ScanPackets
<1>2. (Scanning => ScannerReads) /\ (~Scanning => OtherReads)  BY <1>1 DEF ReadInv, ScannerReads, OtherReads, ScanPackets
<1>3. CASE UNCHANGED <<sclass, spacket0, spacket1, spatch, ssize, sread>>  BY <1>2, <1>3 DEF Scanning, ScannerReads, OtherReads
<1>4. CASE PatchSends
  <2>1. PICK size \in IF Summing THEN SumSizes ELSE ScanSizes, p \in ScanPackets :
           susers[p] = 0 /\ ssize' = [ssize EXCEPT ![p] = size] /\ spatch' = p
    BY <1>4 DEF PatchSends, ScanPackets
  <2>2. spatch = NoScan /\ UNCHANGED <<sclass, spacket0, spacket1, sread>>  BY <1>4 DEF PatchSends
  <2>3. ~Scanning => sread = {}  BY <1>2, <2>2 DEF OtherReads
  <2>4. CASE Scanning
    <3>1. size \in ScanSizes  BY <2>1, <2>4 DEF Scanning, Summing
    <3>2. \A q \in ScanPackets : ssize'[q] = IF q = p THEN size ELSE ssize[q]  BY <2>1 DEF ScanTypes, ScanPackets
    <3>3. ASSUME NEW q \in ScanPackets, ssize[q] \in ScanSizes PROVE ssize'[q] = ssize[q] \/ ssize'[q] \in ScanSizes
      BY <3>1, <3>2, <3>3
    <3>4. \A q \in ScanPackets : ssize[q] \in ScanSizes => ssize'[q] \in ScanSizes /\ ssize'[q] = ssize[q]
      BY <1>1, <3>1, <3>2 DEF OneSize
    <3>5. \A q \in {spacket0, spacket1} : q # NoScan => q \in ScanPackets
      BY ScanAssumption DEF ScanTypes, ScanPackets, NoScan
    <3>6. ScannerReads'  BY <1>2, <2>2, <2>4, <3>4, <3>5 DEF ScannerReads
    <3>. QED  BY <2>2, <2>4, <3>6 DEF Scanning
  <2>5. CASE ~Scanning  BY <2>2, <2>3, <2>5 DEF Scanning, OtherReads
  <2>. QED  BY <2>4, <2>5
<1>5. CASE PatchDone
  <2>1. /\ sread' = {} /\ UNCHANGED <<sclass, spacket0, spacket1>>
        /\ ssize' = [p \in 1..ScanBuffers |-> IF susers'[p] = 0 THEN <<0, 0>> ELSE ssize[p]]
    BY <1>5 DEF PatchDone
  <2>2. ASSUME Scanning, NEW q \in {spacket0, spacket1}, q # NoScan PROVE ssize'[q] \in ScanSizes
    <3>1. q \in 1..ScanBuffers  BY <2>2, ScanAssumption DEF ScanTypes, NoScan
    <3>2. susers'[q] >= HeldOnce(q)' /\ susers'[q] \in Int  BY <1>1, <3>1 DEF HeldInv, LetsGoOnce, ScanTypes
    <3>3. HeldOnce(q)' >= 1  BY <2>1, <2>2 DEF HeldOnce, One, Scanning
    <3>4. susers'[q] # 0
      <4>1. HeldOnce(q)' \in Int  BY DEF HeldOnce, One
      <4>. QED  BY <3>2, <3>3, <4>1
    <3>5. ssize'[q] = ssize[q]  BY <2>1, <3>1, <3>4
    <3>. QED  BY <1>2, <2>2, <3>5 DEF ScannerReads
  <2>. QED  BY <2>1, <2>2 DEF Scanning, ScannerReads, OtherReads
<1>6. CASE pdp_scan_input_0
  <2>1. /\ Scanning /\ spatch # NoScan /\ spacket0' = spatch /\ spacket1' \in {spacket0, spacket1}
        /\ sread' = {} /\ UNCHANGED <<sclass, ssize>>
    BY <1>6 DEF pdp_scan_input_0, Scanning
  <2>2. ssize[spatch] \in ScanSizes  BY <2>1 DEF SentData
  <2>. QED  BY <1>2, <2>1, <2>2 DEF Scanning, ScannerReads
<1>7. CASE pdp_scan_perform
  <2>1. /\ Scanning /\ spacket0 # NoScan /\ spacket1' \in {NoScan, spacket1} /\ UNCHANGED <<sclass, spacket0, ssize>>
        /\ \A r \in sread' : \E p \in {spacket0, spacket1}, i \in ScanOffsets(ssize[spacket0]) : p # NoScan /\ r = <<p, i>>
    BY <1>7 DEF pdp_scan_perform, Scanning
  <2>2. ASSUME NEW r \in sread' PROVE r[1] \in ScanPackets /\ ssize[r[1]] \in ScanSizes /\ r[2] \in Pixels2(ssize[r[1]])
    <3>1. PICK p \in {spacket0, spacket1}, i \in ScanOffsets(ssize[spacket0]) : p # NoScan /\ r = <<p, i>>  BY <2>1
    <3>2. r[1] = p /\ r[2] = i  BY <3>1
    <3>3. p \in ScanPackets  BY <3>1, ScanAssumption DEF ScanTypes, ScanPackets, NoScan
    <3>4. ssize[p] \in ScanSizes /\ ssize[spacket0] \in ScanSizes  BY <1>2, <2>1, <3>1 DEF ScannerReads
    <3>5. ssize[p] = ssize[spacket0]  BY <1>1, <3>4 DEF OneSize
    <3>6. PICK w \in Nat \ {0}, h \in Nat \ {0} : ssize[spacket0] = <<w, h>>  BY <3>4, ScanAssumption
    <3>7. i \in Pixels2(<<w, h>>)  BY <3>1, <3>6, OffsetsInside
    <3>. QED  BY <3>2, <3>3, <3>4, <3>5, <3>6, <3>7
  <2>. QED  BY <1>2, <2>1, <2>2 DEF Scanning, ScannerReads
<1>8. CASE pdp_scan_interpolate  BY <1>3, <1>8 DEF pdp_scan_interpolate
<1>9. CASE pdp_cog_perform \/ pdp_array_input_0 \/ dump_to_array \/ get_brightest
  <2>1. Takes /\ ~Scanning  BY <1>9 DEF pdp_cog_perform, pdp_array_input_0, dump_to_array, get_brightest, Scanning
  <2>2. spatch # NoScan /\ UNCHANGED <<sclass, spatch, ssize>>  BY <2>1 DEF Takes
  <2>3. SUFFICES ASSUME NEW r \in sread' PROVE r[1] = spatch /\ r[2] \in Pixels2(ssize[spatch])
    BY <2>1, <2>2 DEF Scanning, OtherReads
  <2>4. CASE pdp_cog_perform  BY <2>4 DEF pdp_cog_perform
  <2>5. CASE pdp_array_input_0
    <3> DEFINE w == ssize[spatch][1]
               h == ssize[spatch][2]
    <3>1. PICK i \in Pixels2(<<w, h>>) : r = <<spatch, ColumnIndex(i, w, h)>>  BY <2>5 DEF pdp_array_input_0
    <3>2. ssize[spatch] \in (Nat \ {0}) \X (Nat \ {0})  BY <2>2, <2>5, ScanAssumption DEF SentData, pdp_array_input_0
    <3>3. w \in Nat \ {0} /\ h \in Nat \ {0} /\ ssize[spatch] = <<w, h>>  BY <3>2
    <3>. HIDE DEF w, h
    <3>4. ColumnIndex(i, w, h) \in Pixels2(<<w, h>>)  BY <3>1, <3>3, ColumnsOnce
    <3>. QED  BY <3>1, <3>3, <3>4
  <2>6. CASE dump_to_array
    <3>1. DOMAIN sdata = Pixels2(ssize[spatch])  BY <2>2, <2>6 DEF dump_to_array, SentData, Summing
    <3>. QED  BY <2>6, <3>1 DEF dump_to_array
  <2>7. CASE get_brightest  BY <2>7 DEF get_brightest
  <2>. QED  BY <1>9, <2>4, <2>5, <2>6, <2>7
<1>10. CASE pdp_array_array \/ ScanFree
  <2>1. sread' = {} /\ ~Scanning'  BY <1>10 DEF pdp_array_array, ScanFree, Scanning
  <2>. QED  BY <2>1 DEF OtherReads
<1>11. CASE get_sampleset
  <2>1. sread' = {<<spacket0, i>> : i \in DOMAIN sdata} /\ shash # <<>> /\ sclass = "histo_sample" /\ UNCHANGED <<sclass, spatch, ssize>>
    BY <1>11 DEF get_sampleset
  <2>2. spatch # NoScan /\ spacket0 = spatch /\ DOMAIN sdata = Pixels2(ssize[spatch])  BY <2>1 DEF Results, SentData, Summing
  <2>. QED  BY <2>1, <2>2 DEF Scanning, OtherReads
<1>12. CASE pdp_array_bang \/ PlacePoint \/ pdp_scope_perform \/ pdp_scope_generate \/ UNCHANGED scanVars
  BY <1>3, <1>12 DEF pdp_array_bang, PlacePoint, pdp_scope_perform, pdp_scope_generate, scanVars, scanPackets
<1>. QED
  BY <1>4, <1>5, <1>6, <1>7, <1>8, <1>9, <1>10, <1>11, <1>12 DEF ScanNext

-----------------------------------------------------------------------------
(* The ring of a scope, over every step.                                    *)
LEMMA RingUnchanged ==
    ASSUME RingInv, UNCHANGED scopeVars
    PROVE  RingInv'
BY DEF RingInv, scopeVars, ScopeShowsLast, ScopeFits, Sample

LEMMA RingDrawn ==
    ASSUME RingInv, pdp_scope_generate
    PROVE  RingInv'
<1> DEFINE L == Len(sheard)
<1>1. PICK w \in ScopeWidths : sdrawn' = [i \in 1..w |-> sring[(sneedle - w + i - 1) % RingSize]]  BY DEF pdp_scope_generate
<1>2. UNCHANGED <<sring, sneedle, sheard>>  BY DEF pdp_scope_generate
<1>3. /\ sheard \in Seq(Int) /\ \A k \in 1..L : sheard[k] = k
      /\ sneedle = L % RingSize /\ \A m \in L - RingSize..L - 1 : sring[m % RingSize] = Sample(m)
  BY DEF RingInv
<1>40. w \in Nat /\ RingSize \in Nat \ {0}  BY ScanAssumption
<1>41. L \in Nat  BY <1>3, LenProperties
<1>. HIDE DEF L
<1>4. w \in Nat /\ RingSize \in Nat \ {0} /\ L \in Nat  BY <1>40, <1>41
<1>5. Len(sdrawn') = w
  <2> DEFINE S == {sring[(sneedle - w + i - 1) % RingSize] : i \in 1..w}
  <2>1. sdrawn' \in [1..w -> S]  BY <1>1
  <2>. HIDE DEF S
  <2>2. sdrawn' \in Seq(S)  BY <1>4, <2>1, SeqDef
  <2>3. DOMAIN sdrawn' = 1..w /\ DOMAIN sdrawn' = 1..Len(sdrawn') /\ Len(sdrawn') \in Nat  BY <2>1, <2>2, LenProperties
  <2>. QED  BY <1>4, <2>3
<1>6. ASSUME ScopeFits, NEW i \in 1..w PROVE L - w + i >= 1 => sdrawn'[i] = sheard[L - w + i]
  <2> DEFINE m == L - w + i - 1
  <2>1. w <= RingSize  BY <1>6 DEF ScopeFits
  <2>2. m \in L - RingSize..L - 1  BY <1>4, <2>1
  <2>3. (sneedle - w + i - 1) % RingSize = m % RingSize
    <3> DEFINE y == i - w - 1
               z == L % RingSize
    <3>1. y \in Int /\ L \in Int  BY <1>4
    <3>2. sneedle = z /\ z \in Int  BY <1>3, <3>1, <1>4
    <3>3. m = L + y  BY <1>4
    <3>4. sneedle - w + i - 1 = z + y
      <4>. HIDE DEF z
      <4>. QED  BY <1>4, <3>2
    <3>. HIDE DEF y, m
    <3>5. (L + y) % RingSize = ((L % RingSize) + y) % RingSize  BY <1>4, <3>1, ModAdd
    <3>. QED  BY <3>3, <3>4, <3>5
  <2>. HIDE DEF m
  <2>4. sdrawn'[i] = Sample(m)  BY <1>1, <1>3, <2>2, <2>3
  <2>5. m + 1 = L - w + i /\ m \in Int  BY <1>4 DEF m
  <2>6. CASE m < 0  BY <1>4, <2>5, <2>6
  <2>7. CASE m >= 0
    <3>1. m + 1 \in 1..L  BY <1>4, <2>2, <2>7
    <3>. QED  BY <1>3, <2>4, <2>5, <2>7, <3>1 DEF Sample
  <2>. QED  BY <2>5, <2>6, <2>7
<1>7. ScopeFits => ScopeShowsLast'
  <2>1. Len(sheard') = L  BY <1>2 DEF L
  <2>. QED  BY <1>2, <1>5, <1>6, <2>1 DEF ScopeShowsLast
<1>. QED  BY <1>2, <1>7 DEF RingInv, ScopeFits, Sample

LEMMA RingHeard ==
    ASSUME RingInv, pdp_scope_perform
    PROVE  RingInv'
<1> DEFINE L == Len(sheard)
           R == RingSize
<1>1. PICK n \in ScopeBlocks :
        /\ sring' = [k \in 0..R - 1 |-> LET late == {i \in 0..n - 1 : (sneedle + i) % R = k} IN IF late = {} THEN sring[k] ELSE L + Max(late) + 1]
        /\ sneedle' = (sneedle + n) % R /\ sheard' = sheard \o [i \in 1..n |-> L + (i - 1) + 1]
        /\ sdrawn' = <<>>
  BY DEF pdp_scope_perform
<1>2. /\ sheard \in Seq(Int) /\ \A k \in 1..L : sheard[k] = k
      /\ sneedle = L % R /\ \A m \in L - R..L - 1 : sring[m % R] = Sample(m)
  BY DEF RingInv
<1>3. n \in Nat /\ R \in Nat \ {0} /\ L \in Nat  BY <1>2, ScanAssumption
<1> DEFINE t == [i \in 1..n |-> L + (i - 1) + 1]
<1>4. t \in Seq(Int) /\ Len(t) = n /\ \A i \in 1..n : t[i] = L + i
  <2>1. \A i \in 1..n : L + (i - 1) + 1 \in Int /\ L + (i - 1) + 1 = L + i  BY <1>3
  <2>. HIDE DEF L
  <2>. QED  BY <1>3, <2>1
<1>5. sheard' = sheard \o t  BY <1>1
<1>. HIDE DEF t
<1>6. /\ sheard' \in Seq(Int) /\ Len(sheard') = L + n
      /\ \A i \in 1..L + n : sheard'[i] = IF i <= L THEN sheard[i] ELSE t[i - L]
  BY <1>2, <1>4, <1>5, ConcatProperties
<1>. HIDE DEF L, R
<1>7. \A k \in 1..Len(sheard') : sheard'[k] = k
  <2>1. ASSUME NEW k \in 1..L + n PROVE sheard'[k] = k
    <3>1. CASE k <= L  BY <1>2, <1>3, <1>6, <3>1
    <3>2. CASE k > L
      <4>1. k - L \in 1..n  BY <1>3, <3>2
      <4>2. t[k - L] = L + (k - L)  BY <1>4, <4>1
      <4>. QED  BY <1>3, <1>6, <3>2, <4>2
    <3>. QED  BY <1>3, <3>1, <3>2
  <2>. QED  BY <1>6, <2>1
<1>8. ASSUME NEW i \in Int PROVE (sneedle + i) % R = (L + i) % R
  <2>1. L \in Int  BY <1>3
  <2>2. (L + i) % R = ((L % R) + i) % R  BY <1>3, <2>1, ModAdd
  <2>. QED  BY <1>2, <2>2
<1>9. sneedle' = Len(sheard') % R
  <2>1. (sneedle + n) % R = (L + n) % R  BY <1>3, <1>8
  <2>. QED  BY <1>1, <1>6, <2>1
<1>10. ASSUME NEW m \in L + n - R..L + n - 1 PROVE sring'[m % R] = Sample(m)
  <2>1. m \in Int /\ m % R \in 0..R - 1  BY <1>3, DivMod
  <2> DEFINE k == m % R
             late == {i \in 0..n - 1 : (sneedle + i) % R = k}
  <2>2. sring'[k] = IF late = {} THEN sring[k] ELSE L + Max(late) + 1  BY <1>1, <2>1
  <2>3. ASSUME NEW i \in late PROVE i \in 0..n - 1 /\ (L + i) % R = m % R  BY <1>3, <1>8
  <2>4. ASSUME NEW i \in late PROVE L + i <= m
    <3>1. i \in 0..n - 1 /\ (L + i) % R = m % R  BY <2>3
    <3>2. L + i \in Int /\ L + i <= m + R - 1  BY <1>3, <3>1, <2>1
    <3>3. SUFFICES ASSUME L + i > m PROVE FALSE  BY <2>1, <3>2
    <3> DEFINE e == L + i
    <3>4. e \in Int /\ m < e /\ e - m < R  BY <1>3, <2>1, <3>2, <3>3
    <3>5. e % R = m % R  BY <3>1
    <3>. HIDE DEF e, k, late
    <3>6. m % R # e % R  BY <1>3, <2>1, <3>4, ModDistinct
    <3>. QED  BY <3>5, <3>6
  <2>5. CASE m >= L
    <3> DEFINE j == m - L
    <3>1. j \in 0..n - 1 /\ L + j = m  BY <1>3, <2>1, <2>5
    <3>2. j \in late  BY <1>8, <3>1
    <3>3. late \subseteq Int  BY <1>3
    <3>. HIDE DEF late, j
    <3>4. \A i \in late : j >= i  BY <1>3, <2>4, <3>1, <3>3
    <3>5. Max(late) = j
      <4>1. Max(late) \in late /\ \A i \in late : Max(late) >= i  BY <3>2, <3>4 DEF Max
      <4> DEFINE z == Max(late)
      <4>2. z \in Int /\ j \in Int /\ z >= j /\ j >= z  BY <3>2, <3>3, <3>4, <4>1
      <4>. HIDE DEF z
      <4>3. z = j  BY <4>2
      <4>. QED  BY <4>3 DEF z
    <3>. QED  BY <1>3, <2>2, <2>5, <3>1, <3>2, <3>5 DEF Sample, k
  <2>6. CASE m < L
    <3>1. late = {}
      <4>1. SUFFICES ASSUME NEW i \in late PROVE FALSE  OBVIOUS
      <4>2. i \in 0..n - 1 /\ L + i <= m  BY <2>3, <2>4
      <4>. QED  BY <1>3, <2>1, <2>6, <4>2
    <3>2. m \in L - R..L - 1  BY <1>3, <2>1, <2>6
    <3>3. sring[m % R] = Sample(m)  BY <1>2, <3>2
    <3>. HIDE DEF late
    <3>. QED  BY <2>2, <3>1, <3>3
  <2>. QED  BY <1>3, <2>1, <2>5, <2>6
<1>11. DOMAIN sring' = 0..R - 1  BY <1>1
<1>12. ScopeShowsLast'
  <2>1. Len(sdrawn') = 0  BY <1>1
  <2>. QED  BY <2>1 DEF ScopeShowsLast
<1>13. ASSUME NEW m \in Len(sheard') - R..Len(sheard') - 1 PROVE sring'[m % R] = Sample(m)
  <2> DEFINE e == Len(sheard')
  <2>1. e = L + n  BY <1>6
  <2>2. m \in e - R..e - 1  OBVIOUS
  <2>. HIDE DEF e
  <2>3. m \in L + n - R..L + n - 1  BY <1>3, <2>1, <2>2
  <2>. QED  BY <1>10, <2>3
<1>. QED  BY <1>6, <1>7, <1>9, <1>11, <1>12, <1>13 DEF RingInv, R, Sample

LEMMA RingStep ==
    ASSUME RingInv, [ScanNext]_scanVars
    PROVE  RingInv'
<1>1. CASE UNCHANGED scopeVars  BY <1>1, RingUnchanged
<1>2. CASE pdp_scope_perform  BY <1>2, RingHeard
<1>3. CASE pdp_scope_generate  BY <1>3, RingDrawn
<1>4. CASE PatchSends \/ PatchDone \/ pdp_scan_input_0 \/ pdp_scan_perform \/ pdp_scan_interpolate
  BY <1>1, <1>4 DEF PatchSends, PatchDone, pdp_scan_input_0, pdp_scan_perform, pdp_scan_interpolate
<1>5. CASE pdp_cog_perform \/ pdp_array_input_0 \/ dump_to_array \/ get_brightest
  BY <1>1, <1>5 DEF pdp_cog_perform, pdp_array_input_0, dump_to_array, get_brightest, Takes
<1>6. CASE pdp_array_array \/ pdp_array_bang \/ PlacePoint \/ get_sampleset \/ ScanFree \/ UNCHANGED scanVars
  BY <1>1, <1>6 DEF pdp_array_array, pdp_array_bang, PlacePoint, get_sampleset, ScanFree, scanVars
<1>. QED  BY <1>2, <1>3, <1>4, <1>5, <1>6 DEF ScanNext

LEMMA ScanInitInv == ScanInit => ScanInv
<1>1. SUFFICES ASSUME ScanInit PROVE ScanInv  OBVIOUS
<1>. USE ScanAssumption
<1>2. ScanTypes  BY <1>1 DEF ScanInit, ScanTypes, NoScan
<1>3. SentData /\ Results  BY <1>1 DEF ScanInit, SentData, Results, ColumnsCover, ArrayOrdered
<1>4. HeldInv  BY <1>1 DEF ScanInit, HeldInv, HeldOnce, One, NoScan
<1>5. ReadInv  BY <1>1 DEF ScanInit, ReadInv
<1>6. RingInv
  <2>1. Len(sheard) = 0 /\ Len(sdrawn) = 0 /\ sheard \in Seq(Int)  BY <1>1 DEF ScanInit
  <2>2. ASSUME NEW m \in Len(sheard) - RingSize..Len(sheard) - 1 PROVE sring[m % RingSize] = Sample(m)
    <3>1. m \in Int /\ m < 0  BY <2>1
    <3>2. m % RingSize \in 0..RingSize - 1  BY <3>1, DivMod
    <3>3. sring[m % RingSize] = Uncleared
      <4> DEFINE k == m % RingSize
      <4>1. k \in 0..RingSize - 1  BY <3>2
      <4>. HIDE DEF k
      <4>2. sring[k] = Uncleared  BY <1>1, <4>1 DEF ScanInit
      <4>. QED  BY <4>2 DEF k
    <3>. QED  BY <3>1, <3>3 DEF Sample
  <2>3. \A k \in 1..Len(sheard) : sheard[k] = k  BY <2>1
  <2>4. sneedle = 0 % RingSize /\ DOMAIN sring = 0..RingSize - 1  BY <1>1 DEF ScanInit
  <2>. QED  BY <2>1, <2>2, <2>3, <2>4 DEF RingInv, ScopeShowsLast
<1>. QED  BY <1>2, <1>3, <1>4, <1>5, <1>6 DEF ScanInv

LEMMA ScanNextInv == ScanInv /\ [ScanNext]_scanVars => ScanInv'
<1>1. SUFFICES ASSUME ScanInv, [ScanNext]_scanVars PROVE ScanInv'  OBVIOUS
<1>2. ScanTypes /\ SentData /\ Results /\ HeldInv /\ ReadInv /\ RingInv  BY <1>1 DEF ScanInv
<1>3. ScanTypes' /\ HeldInv'  BY <1>1, <1>2, ScanTypesStep, HeldStep
<1>4. SentData' /\ Results'  BY <1>1, <1>2, PatchSentStep, ResultsStep
<1>5. ReadInv'  BY <1>1, <1>2, <1>3, ReadStep
<1>6. RingInv'  BY <1>1, <1>2, RingStep
<1>. QED  BY <1>3, <1>4, <1>5, <1>6 DEF ScanInv

(* The fields that hold a packet, counted.                                  *)
LEMMA HeldCounted ==
    ASSUME NEW p
    PROVE  Cardinality({i \in 1..3 : <<spacket0, spacket1, spatch>>[i] = p /\ (i = 2 => sclass # "freed")}) = HeldOnce(p)
<1> DEFINE T(i) == <<spacket0, spacket1, spatch>>[i] = p /\ (i = 2 => sclass # "freed")
           A == IF T(1) THEN {1} ELSE {}
           B == IF T(2) THEN A \cup {2} ELSE A
           C == IF T(3) THEN B \cup {3} ELSE B
<1>1. {i \in 1..3 : T(i)} = C
  <2>1. 1..3 = {1, 2, 3}  OBVIOUS
  <2>. HIDE DEF T
  <2>. QED  BY <2>1
<1>2. T(1) = (spacket0 = p) /\ T(2) = (spacket1 = p /\ sclass # "freed") /\ T(3) = (spatch = p)  OBVIOUS
<1>3. IsFiniteSet(A) /\ Cardinality(A) = One(T(1)) /\ 2 \notin A /\ 3 \notin A
  <2>. HIDE DEF T
  <2>1. CASE T(1)
    <3>1. A = {1}  BY <2>1
    <3>2. IsFiniteSet({1}) /\ Cardinality({1}) = 1  BY FS_Singleton
    <3>. QED  BY <2>1, <3>1, <3>2 DEF One
  <2>2. CASE ~T(1)
    <3>1. A = {}  BY <2>2
    <3>. QED  BY <2>2, <3>1, FS_EmptySet DEF One
  <2>. QED  BY <2>1, <2>2
<1>4. IsFiniteSet(B) /\ Cardinality(B) = Cardinality(A) + One(T(2)) /\ 3 \notin B
  <2>. HIDE DEF T, A
  <2>0. Cardinality(A) \in Nat  BY <1>3, FS_CardinalityType
  <2>1. CASE T(2)  BY <1>3, <2>1, FS_AddElement DEF One
  <2>2. CASE ~T(2)  BY <1>3, <2>0, <2>2 DEF One
  <2>. QED  BY <2>1, <2>2
<1>5. Cardinality(C) = Cardinality(B) + One(T(3))
  <2>. HIDE DEF T, A, B
  <2>0. Cardinality(B) \in Nat  BY <1>4, FS_CardinalityType
  <2>1. CASE T(3)  BY <1>4, <2>1, FS_AddElement DEF One
  <2>2. CASE ~T(3)  BY <1>4, <2>0, <2>2 DEF One
  <2>. QED  BY <2>1, <2>2
<1>. HIDE DEF A, B, C
<1>6. Cardinality({i \in 1..3 : T(i)}) = One(T(1)) + One(T(2)) + One(T(3))  BY <1>1, <1>3, <1>4, <1>5
<1>. QED  BY <1>2, <1>6 DEF HeldOnce

(* For every square image size: the centre of gravity of magnitudes lies    *)
(* inside the image, also for a black image.  Of other images nothing is    *)
(* claimed, as rowsums and columnsums are made with the sides exchanged and *)
(* one of them overflows.  For every size of image: reading it by columns   *)
(* reads every pixel once.                                                  *)
THEOREM ScannersCentre ==
    ScanSpec => [](CentreInside /\ ColumnsCover)
<1>1. ASSUME ScanInv PROVE CentreInside /\ ColumnsCover
  <2>1. Results  BY <1>1 DEF ScanInv
  <2>2. CentreInside  BY <2>1 DEF Results, CentreInside
  <2>. QED  BY <2>1, <2>2 DEF Results
<1>. QED  BY <1>1, ScanInitInv, ScanNextInv, PTL DEF ScanSpec

(* The rest of ScannersSound holds while the image before is let go once    *)
(* (no message turns the interpolation off), all images have one size, no   *)
(* value of the array is the largest that a pixel cannot hold, and a scope  *)
(* is not wider than its buffer: without any one of these the code breaks   *)
(* it.  Of the columns of a scope those with a sample are meant: the others *)
(* show x_buffer as it was allocated.                                       *)
THEOREM ScannersStaySound ==
    ASSUME InterpolateArgs \subseteq {1}, \A a, b \in ScanSizes : a = b,
           2^LogLevels \notin ArrayValues, \A w \in ScopeWidths : w <= RingSize
    PROVE  ScanSpec => []ScannersSound
<1>1. LetsGoOnce /\ OneSize /\ CutOff /\ ScopeFits  BY DEF LetsGoOnce, OneSize, CutOff, ScopeFits
<1>2. ASSUME ScanInv PROVE ScannersSound
  <2>1. ScanTypes /\ Results /\ HeldInv /\ ReadInv /\ RingInv  BY <1>2 DEF ScanInv
  <2>2. ScanHeld
    <3>1. SUFFICES ASSUME NEW p \in 1..ScanBuffers
                   PROVE  susers[p] >= Cardinality({i \in 1..3 : <<spacket0, spacket1, spatch>>[i] = p /\ (i = 2 => sclass # "freed")})
      BY DEF ScanHeld
    <3>2. susers[p] >= HeldOnce(p)  BY <1>1, <2>1 DEF HeldInv
    <3>. QED  BY <3>2, HeldCounted
  <2>3. ReadInside
    <3>1. ASSUME NEW r \in sread PROVE r[2] \in Pixels2(ssize[r[1]])
      <4>1. CASE Scanning  BY <1>1, <2>1, <4>1 DEF ReadInv
      <4>2. CASE ~Scanning  BY <1>1, <2>1, <4>2 DEF ReadInv
      <4>. QED  BY <4>1, <4>2
    <3>. QED  BY <3>1 DEF ReadInside
  <2>4. CentreInside  BY <2>1 DEF Results, CentreInside
  <2>5. ColumnsCover /\ ArrayOrdered  BY <1>1, <2>1 DEF Results
  <2>6. ScopeShowsLast  BY <1>1, <2>1 DEF RingInv
  <2>. QED  BY <2>2, <2>3, <2>4, <2>5, <2>6 DEF ScannersSound
<1>. QED  BY <1>2, ScanInitInv, ScanNextInv, PTL DEF ScanSpec

-----------------------------------------------------------------------------
(* The conversion of raw images between bytes and planes.                   *)

(* A quotient is recognised by any remainder that goes with it.             *)
LEMMA QuotientUnique ==
    ASSUME NEW n \in Nat \ {0}, NEW k \in Int, NEW r \in 0..n - 1, NEW a \in Int, a = n * k + r
    PROVE  a \div n = k /\ a % n = r
<1> DEFINE l == a \div n
           s == a % n
<1>1. l \in Int /\ s \in 0..n - 1 /\ a = n * l + s  BY DivMod
<1>. HIDE DEF l, s
<1>2. n * k + r = n * l + s  BY <1>1
<1>3. r = s  BY <1>1, <1>2, DivisionUnique
<1>4. n * (k - l) = 0  BY <1>1, <1>2, <1>3
<1>5. CASE k - l >= 1
  <2>1. n * (k - l) >= n  BY <1>1, <1>5
  <2>. QED  BY <1>4, <2>1
<1>6. CASE l - k >= 1
  <2>1. n * (l - k) >= n  BY <1>1, <1>6
  <2>2. n * (l - k) = 0  BY <1>1, <1>4
  <2>. QED  BY <2>1, <2>2
<1>7. k = l  BY <1>1, <1>5, <1>6
<1>. QED  BY <1>3, <1>7 DEF l, s

(* The planes of a packet of 2m columns and 2j rows: each has mj pixels of  *)
(* chroma.                                                                  *)
Planes(w, h, m, j) ==
    \E q \in Nat \ {0} :
        /\ q = m * j /\ w * h \in Nat /\ w * h = 4 * q /\ (w * h) \div 4 = q
        /\ \A p \in PacketPixels(w, h) :
              \/ p \in 0..w * h - 1
              \/ \E k \in 0..q - 1 : p = w * h + k \/ p = w * h + q + k
        /\ \A p \in 0..w * h - 1 : p \in PacketPixels(w, h) /\ PlaneOf(w, h, p) = "y"
        /\ \A k \in 0..q - 1 :
              /\ w * h + k \in PacketPixels(w, h) /\ PlaneOf(w, h, w * h + k) = "v" /\ ChromaAt(w, h, w * h + k) = k
              /\ w * h + q + k \in PacketPixels(w, h) /\ PlaneOf(w, h, w * h + q + k) = "u"
              /\ ChromaAt(w, h, w * h + q + k) = k

LEMMA PlanesCut ==
    ASSUME NEW m \in Nat \ {0}, NEW j \in Nat \ {0}, NEW w, w = 2 * m, NEW h, h = 2 * j
    PROVE  Planes(w, h, m, j)
<1> DEFINE q == m * j
           n == w * h
<1>1. q \in Nat \ {0} /\ q = m * j  OBVIOUS
<1>2. n = 4 * q  OBVIOUS
<1>3. w \div 2 = m  OBVIOUS
<1>. HIDE DEF q
<1>4. n \div 4 = q /\ n \div 2 = 2 * q
  <2>. HIDE DEF n
  <2>. QED  BY <1>1, <1>2
<1>5. PacketPixels(w, h) = 0..6 * q - 1
  <2>1. PacketPixels(w, h) = 0..n + n \div 2 - 1  BY DEF PacketPixels
  <2>. HIDE DEF n
  <2>. QED  BY <1>1, <1>2, <1>4, <2>1
<1>6. ASSUME NEW p \in PacketPixels(w, h)
      PROVE  /\ PlaneOf(w, h, p) = IF p < 4 * q THEN "y" ELSE IF p < 5 * q THEN "v" ELSE "u"
             /\ ChromaAt(w, h, p) = (p - 4 * q) % q /\ ChromaAt(w, h, p) \in 0..q - 1
  <2>1. PlaneOf(w, h, p) = IF p < n THEN "y" ELSE IF p < n + n \div 4 THEN "v" ELSE "u"  BY DEF PlaneOf
  <2>2. ChromaAt(w, h, p) = (p - n) % (n \div 4)  BY DEF ChromaAt
  <2>. HIDE DEF n
  <2>3. n + n \div 4 = 5 * q  BY <1>1, <1>2, <1>4
  <2>4. p - 4 * q \in Int  BY <1>1, <1>5
  <2>5. (p - 4 * q) % q \in 0..q - 1  BY <1>1, <2>4, DivMod
  <2>. QED  BY <1>2, <1>4, <2>1, <2>2, <2>3, <2>5
<1>. HIDE DEF n
<1>7. ASSUME NEW p \in PacketPixels(w, h)
      PROVE  p \in 0..n - 1 \/ \E k \in 0..q - 1 : p = n + k \/ p = n + q + k
  <2>1. CASE p < n  BY <1>1, <1>2, <1>5, <1>6, <2>1
  <2>2. CASE p >= n /\ p < n + q
    <3>1. p \in Int  BY <1>1, <1>5
    <3>2. p - n \in Int /\ 0 <= p - n /\ p - n <= q - 1 /\ p = n + (p - n)  BY <1>1, <1>2, <2>2, <3>1
    <3>3. p - n \in 0..q - 1  BY <1>1, <3>2
    <3>. QED  BY <3>2, <3>3
  <2>3. CASE p >= n + q
    <3>1. p \in Int /\ p <= 6 * q - 1  BY <1>1, <1>2, <1>5, <1>6
    <3>2. p - n - q \in Int /\ 0 <= p - n - q /\ p - n - q <= q - 1 /\ p = n + q + (p - n - q)  BY <1>1, <1>2, <1>5, <1>6, <2>3, <3>1
    <3>3. p - n - q \in 0..q - 1  BY <3>2
    <3>. QED  BY <3>2, <3>3
  <2>. QED  BY <1>1, <1>2, <1>5, <1>6, <2>1, <2>2, <2>3
<1>8. ASSUME NEW p \in 0..n - 1 PROVE p \in PacketPixels(w, h) /\ PlaneOf(w, h, p) = "y"
  BY <1>1, <1>2, <1>5, <1>6
<1>9. ASSUME NEW k \in 0..q - 1
      PROVE  /\ n + k \in PacketPixels(w, h) /\ PlaneOf(w, h, n + k) = "v" /\ ChromaAt(w, h, n + k) = k
             /\ n + q + k \in PacketPixels(w, h) /\ PlaneOf(w, h, n + q + k) = "u" /\ ChromaAt(w, h, n + q + k) = k
  <2>1. n + k \in PacketPixels(w, h) /\ n + q + k \in PacketPixels(w, h)  BY <1>1, <1>2, <1>5, <1>6
  <2>2. PlaneOf(w, h, n + k) = "v" /\ PlaneOf(w, h, n + q + k) = "u"  BY <1>1, <1>2, <1>5, <1>6, <2>1
  <2>3. ChromaAt(w, h, n + k) = k % q
    <3> DEFINE p == n + k
    <3>1. p - 4 * q = k /\ p \in PacketPixels(w, h)  BY <1>1, <1>2, <1>5, <1>6, <2>1
    <3>. HIDE DEF p
    <3>2. ChromaAt(w, h, p) = (p - 4 * q) % q  BY <1>1, <1>2, <1>5, <1>6, <3>1
    <3>. QED  BY <3>1, <3>2 DEF p
  <2>4. ChromaAt(w, h, n + q + k) = (k + q * 1) % q
    <3> DEFINE p == n + q + k
    <3>1. p - 4 * q = k + q * 1 /\ p \in PacketPixels(w, h)  BY <1>1, <1>2, <1>5, <1>6, <2>1
    <3>. HIDE DEF p
    <3>2. ChromaAt(w, h, p) = (p - 4 * q) % q  BY <1>1, <1>2, <1>5, <1>6, <3>1
    <3>. QED  BY <3>1, <3>2 DEF p
  <2>5. k \in Int /\ k = q * 0 + k  BY <1>1, <1>2, <1>5, <1>6
  <2>6. k % q = k
    <3>1. \A i \in Int : k = q * i + k => k % q = k  BY <1>1, <2>5, ModUnique
    <3>. QED  BY <2>5, <3>1
  <2>7. (k + q * 1) % q = k % q
    <3>1. \A i \in Int : (k + q * i) % q = k % q  BY <1>1, <2>5, ModShift
    <3>. QED  BY <3>1
  <2>. QED  BY <2>1, <2>2, <2>3, <2>4, <2>6, <2>7
<1>10. n \in Nat  BY <1>1, <1>2
<1>11. /\ q = m * j /\ n \in Nat /\ n = 4 * q /\ n \div 4 = q
       /\ \A p \in PacketPixels(w, h) :
             \/ p \in 0..n - 1
             \/ \E k \in 0..q - 1 : p = n + k \/ p = n + q + k
       /\ \A p \in 0..n - 1 : p \in PacketPixels(w, h) /\ PlaneOf(w, h, p) = "y"
       /\ \A k \in 0..q - 1 :
             /\ n + k \in PacketPixels(w, h) /\ PlaneOf(w, h, n + k) = "v" /\ ChromaAt(w, h, n + k) = k
             /\ n + q + k \in PacketPixels(w, h) /\ PlaneOf(w, h, n + q + k) = "u"
             /\ ChromaAt(w, h, n + q + k) = k
  BY <1>1, <1>2, <1>4, <1>7, <1>8, <1>9, <1>10
<1>12. n = w * h  BY DEF n
<1>. QED  BY ONLY <1>1, <1>11, <1>12 DEF Planes

(* The four pixels of the block of a pixel of chroma.                       *)
BlockIn(w, h, m, j, c) ==
    \A d, e \in 0..1 :
        LET p == BlockOf(w, c) + d * w + e
        IN  p \in 0..w * h - 1 /\ p % w = 2 * (c % m) + e /\ ChromaOf(w, p) = c
            /\ BlockOf(w, c) \in Nat /\ BlockOf(w, c) % 2 = 0

LEMMA BlockInside ==
    ASSUME NEW m \in Nat \ {0}, NEW j \in Nat \ {0}, NEW w, w = 2 * m, NEW h, h = 2 * j,
           NEW c \in 0..m * j - 1
    PROVE  BlockIn(w, h, m, j, c)
<1>. SUFFICES ASSUME NEW d \in 0..1, NEW e \in 0..1
              PROVE  LET p == BlockOf(w, c) + d * w + e
                     IN  p \in 0..w * h - 1 /\ p % w = 2 * (c % m) + e /\ ChromaOf(w, p) = c
                         /\ BlockOf(w, c) \in Nat /\ BlockOf(w, c) % 2 = 0
  BY DEF BlockIn
<1> DEFINE r == c \div m
           x == c % m
<1>1. c \in Nat /\ c < j * m
  <2> DEFINE q == m * j
  <2>1. q \in Int /\ q = j * m  OBVIOUS
  <2>. HIDE DEF q
  <2>. QED  BY <2>1 DEF q
<1>2. r \in 0..j - 1  BY <1>1, QuotientInside
<1>3. x \in 0..m - 1 /\ c = m * r + x  BY <1>1, DivMod
<1>4. w \div 2 = m /\ w \in Nat \ {0}  OBVIOUS
<1>5. BlockOf(w, c) = 2 * w * r + 2 * x  BY <1>4 DEF BlockOf
<1>. HIDE DEF r, x
<1> DEFINE p == BlockOf(w, c) + d * w + e
           s == 2 * r + d
           y == 2 * x + e
<1>6. s \in 0..h - 1 /\ y \in 0..w - 1  BY <1>2, <1>3
<1>7. p = w * s + y
  <2>1. w * s = 2 * w * r + d * w  BY <1>2, <1>4
  <2>. QED  BY <1>5, <2>1, <1>2, <1>3, <1>4
<1>8. p \in Nat /\ p < w * h
  <2>1. w * s <= w * (h - 1) /\ w * s >= 0
    <3>1. w * (h - 1) = w * s + w * (h - 1 - s)  BY <1>4, <1>6
    <3>2. h - 1 - s \in Nat /\ s \in Nat  BY <1>6
    <3>3. w * (h - 1 - s) \in Nat /\ w * s \in Nat  BY <1>4, <3>2
    <3>. QED  BY <3>1, <3>3
  <2>2. w * (h - 1) = w * h - w  BY <1>4
  <2> DEFINE a == w * s
             b == w * h
  <2>3. a \in Int /\ b \in Int /\ 0 <= a /\ a <= b - w /\ p = a + y  BY <1>4, <1>6, <1>7, <2>1, <2>2
  <2>. HIDE DEF a, b, p, y
  <2>4. p \in Nat /\ p < b  BY <1>4, <1>6, <2>3
  <2>. QED  BY <2>4 DEF b
<1>9. p % w = y
  <2>. HIDE DEF p, y, s
  <2>1. s \in Int /\ p \in Int  BY <1>6, <1>8
  <2>. QED  BY <1>4, <1>6, <1>7, <2>1, QuotientUnique
<1>10. p \div (2 * w) = r
  <2> DEFINE z == d * w + y
  <2>1. z \in 0..2 * w - 1 /\ 2 * w \in Nat \ {0}  BY <1>4, <1>6
  <2>2. p = (2 * w) * r + z  BY <1>2, <1>3, <1>4, <1>5
  <2>3. p \in Int /\ r \in Int  BY <1>2, <1>8
  <2>. HIDE DEF p, z
  <2>. QED  BY <2>1, <2>2, <2>3, QuotientUnique
<1>11. ChromaOf(w, p) = c
  <2>1. ChromaOf(w, p) = (p \div (2 * w)) * (w \div 2) + (p % w) \div 2  BY DEF ChromaOf
  <2>. HIDE DEF p
  <2>2. ChromaOf(w, p) = r * m + y \div 2  BY <1>4, <1>9, <1>10, <2>1
  <2>3. y \div 2 = x  BY <1>3
  <2>. HIDE DEF y
  <2>4. r * m = m * r  BY <1>2
  <2>. QED  BY <1>3, <2>2, <2>3, <2>4
<1>12. BlockOf(w, c) \in Nat /\ BlockOf(w, c) % 2 = 0
  <2> DEFINE t == w * r + x
  <2>1. t \in Nat /\ BlockOf(w, c) = 2 * t  BY <1>2, <1>3, <1>4, <1>5
  <2>. HIDE DEF t
  <2>. QED  BY <2>1
<1>13. y = 2 * (c % m) + e  BY DEF x
<1>. HIDE DEF p, y
<1>14. p \in 0..w * h - 1
  <2> DEFINE b == w * h
  <2>1. b \in Int  BY <1>4
  <2>. HIDE DEF b
  <2>. QED  BY <1>8, <2>1 DEF b
<1>. QED  BY <1>9, <1>11, <1>12, <1>13, <1>14 DEF p

(* A pixel of an image lies in the block of its chroma.                     *)
PixelIn(w, h, m, j, p) ==
    ChromaOf(w, p) \in 0..m * j - 1 /\ ChromaOf(w, p) % m = (p % w) \div 2 /\ p % w \in 0..w - 1

LEMMA PixelInside ==
    ASSUME NEW m \in Nat \ {0}, NEW j \in Nat \ {0}, NEW w, w = 2 * m, NEW h, h = 2 * j,
           NEW p \in 0..w * h - 1
    PROVE  PixelIn(w, h, m, j, p)
<1> DEFINE r == p \div (2 * w)
           y == p % w
           x == y \div 2
<1>1. p \in Nat /\ p < j * (2 * w)
  <2> DEFINE b == w * h
  <2>1. b \in Int /\ b = j * (2 * w)  OBVIOUS
  <2>. HIDE DEF b
  <2>. QED  BY <2>1 DEF b
<1>2. w \in Nat \ {0} /\ 2 * w \in Nat \ {0} /\ w \div 2 = m  OBVIOUS
<1>3. r \in 0..j - 1  BY <1>1, <1>2, QuotientInside
<1>4. y \in 0..w - 1  BY <1>1, <1>2, DivMod
<1>5. x \in 0..m - 1  BY <1>4
<1>6. ChromaOf(w, p) = r * m + x  BY <1>2 DEF ChromaOf
<1>. HIDE DEF r, x
<1> DEFINE c == r * m + x
<1>7. c % m = x
  <2>1. c = m * r + x /\ c \in Int /\ r \in Int  BY <1>3, <1>5
  <2>. HIDE DEF c
  <2>. QED  BY <1>5, <2>1, QuotientUnique
<1>8. c \in 0..m * j - 1
  <2>1. m * (j - 1) = r * m + m * (j - 1 - r)  BY <1>3
  <2>2. j - 1 - r \in Nat /\ r \in Nat  BY <1>3
  <2>3. m * (j - 1 - r) \in Nat /\ r * m \in Nat  BY <2>2
  <2>4. m * (j - 1) = m * j - m  OBVIOUS
  <2> DEFINE a == r * m
             b == m * j
  <2>5. a \in Int /\ b \in Int /\ 0 <= a /\ a <= b - m /\ c = a + x  BY <2>1, <2>3, <2>4
  <2>. HIDE DEF a, b, c
  <2>6. c \in 0..b - 1  BY <1>5, <2>5
  <2>. QED  BY <2>6 DEF b
<1>. HIDE DEF c
<1>. QED  BY <1>4, <1>6, <1>7, <1>8 DEF c, x, PixelIn

(* The fixed point of one colour: no value is cut off on the way in, and    *)
(* each component returns within 3 levels.                                  *)
LEMMA ColourLevels ==
    ASSUME NEW c \in Colour
    PROVE  /\ c.r \in Nat /\ c.g \in Nat /\ c.b \in Nat
           /\ c.r <= 255 /\ c.g <= 255 /\ c.b <= 255
           /\ rgb2y(c) = 65 * c.r + 129 * c.g + 25 * c.b + 4096
           /\ rgb2v(c) = 112 * c.r - 94 * c.g - 18 * c.b
           /\ rgb2u(c) = -(37 * c.r) - 74 * c.g + 112 * c.b
<1>1. /\ c.r \in Nat /\ c.g \in Nat /\ c.b \in Nat
      /\ c.r <= 255 /\ c.g <= 255 /\ c.b <= 255
  BY ConvAssumption DEF Colour
<1>2. PICK r \in Nat, g \in Nat, b \in Nat : r = c.r /\ g = c.g /\ b = c.b  BY <1>1
<1>3. rgb2y(c) = 65 * r + 129 * g + 25 * b + 4096
  <2>1. 16 * 256 = 4096  OBVIOUS
  <2>. QED  BY <1>2, <2>1 DEF rgb2y
<1>4. rgb2v(c) = 112 * r - 94 * g - 18 * b  BY <1>2 DEF rgb2v
<1>5. rgb2u(c) = -(37 * r) - 74 * g + 112 * b  BY <1>2 DEF rgb2u
<1>. QED  BY <1>1, <1>2, <1>3, <1>4, <1>5

(* The ranges of the weighted sums.                                         *)
LEMMA ColourRange ==
    ASSUME NEW c \in Colour
    PROVE  /\ rgb2y(c) \in Nat /\ rgb2y(c) <= 65535
           /\ rgb2v(c) \in Int /\ -32767 <= rgb2v(c) /\ rgb2v(c) <= 32767
           /\ rgb2u(c) \in Int /\ -32767 <= rgb2u(c) /\ rgb2u(c) <= 32767
<1>1. PICK r \in Nat, g \in Nat, b \in Nat :
              /\ r = c.r /\ g = c.g /\ b = c.b /\ r <= 255 /\ g <= 255 /\ b <= 255
              /\ rgb2y(c) = 65 * r + 129 * g + 25 * b + 4096
              /\ rgb2v(c) = 112 * r - 94 * g - 18 * b
              /\ rgb2u(c) = -(37 * r) - 74 * g + 112 * b
  <2>1. /\ c.r \in Nat /\ c.g \in Nat /\ c.b \in Nat
        /\ c.r <= 255 /\ c.g <= 255 /\ c.b <= 255
        /\ rgb2y(c) = 65 * c.r + 129 * c.g + 25 * c.b + 4096
        /\ rgb2v(c) = 112 * c.r - 94 * c.g - 18 * c.b
        /\ rgb2u(c) = -(37 * c.r) - 74 * c.g + 112 * c.b
    BY ColourLevels
  <2>2. \A r, g, b \in Nat :
           r = c.r /\ g = c.g /\ b = c.b =>
              /\ rgb2y(c) = 65 * r + 129 * g + 25 * b + 4096
              /\ rgb2v(c) = 112 * r - 94 * g - 18 * b
              /\ rgb2u(c) = -(37 * r) - 74 * g + 112 * b
    BY <2>1
  <2>3. \A r, g, b \in Nat :
           r = c.r /\ g = c.g /\ b = c.b => r <= 255 /\ g <= 255 /\ b <= 255
    BY <2>1
  <2>4. \E r, g, b \in Nat : r = c.r /\ g = c.g /\ b = c.b  BY <2>1
  <2>. QED  BY ONLY <2>2, <2>3, <2>4
<1>2. 65 * r + 129 * g + 25 * b + 4096 \in Nat /\ 65 * r + 129 * g + 25 * b + 4096 <= 65535  BY <1>1
<1>3. /\ 112 * r - 94 * g - 18 * b \in Int
      /\ -32767 <= 112 * r - 94 * g - 18 * b /\ 112 * r - 94 * g - 18 * b <= 32767
  BY <1>1
<1>4. /\ -(37 * r) - 74 * g + 112 * b \in Int
      /\ -32767 <= -(37 * r) - 74 * g + 112 * b /\ -(37 * r) - 74 * g + 112 * b <= 32767
  BY <1>1
<1>. QED  BY <1>1, <1>2, <1>3, <1>4

(* A value of luma is cut to a byte in the same way on both ways.           *)
LEMMA LumaIn ==
    ASSUME NEW x \in Nat, x <= 65535
    PROVE  /\ CLAMP16C(Half(x)) = x \div 2
           /\ CLAMP8(x \div 256) = x \div 256
           /\ pixel_pack_y(x \div 2) = x \div 256
<1>1. PICK y \in Nat : y = x \div 2 /\ y <= 32767 /\ (x = 2 * y \/ x = 2 * y + 1)
  <2>1. x \div 2 \in Nat /\ x \div 2 <= 32767 /\ (x = 2 * (x \div 2) \/ x = 2 * (x \div 2) + 1)  OBVIOUS
  <2>. QED  BY <2>1
<1>2. x \div 256 \in Nat /\ x \div 256 <= 255  OBVIOUS
<1>3. y \div 128 = x \div 256  BY <1>1
<1>4. CLAMP16C(y) = y  BY <1>1 DEF CLAMP16C, Bounded
<1>5. CLAMP8(x \div 256) = x \div 256
  <2> DEFINE z == x \div 256
  <2>. HIDE DEF z
  <2>1. z \in Nat /\ z <= 255  BY <1>2 DEF z
  <2>2. CLAMP8(z) = z  BY <2>1 DEF CLAMP8, Bounded
  <2>. QED  BY <2>2 DEF z
<1>. QED  BY <1>1, <1>3, <1>4, <1>5 DEF Half, pixel_pack_y

(* So is a sum of two values of chroma, and half of it is not rounded.      *)
LEMMA ChromaIn ==
    ASSUME NEW x \in Int, -32767 <= x, x <= 32767
    PROVE  /\ CLAMP16C(Half(x + x)) = x
           /\ CLAMP8((x + x) \div 512 + 128) = x \div 256 + 128
           /\ pixel_pack_uv(x) = x \div 256 + 128
<1> DEFINE z == x \div 256
<1>1. z \in Int /\ -128 <= z /\ z <= 127  OBVIOUS
<1>2. (x + x) \div 2 = x /\ (x + x) \div 512 = z  OBVIOUS
<1>3. ((x + 32768) % 65536) \div 256 = z + 128
  <2>1. (x + 32768) % 65536 = x + 32768  OBVIOUS
  <2>2. (x + 32768) \div 256 = z + 128  OBVIOUS
  <2>. QED  BY <2>1, <2>2
<1>. HIDE DEF z
<1>4. CLAMP16C(x) = x  BY DEF CLAMP16C, Bounded
<1>5. CLAMP8(z + 128) = z + 128  BY <1>1 DEF CLAMP8, Bounded
<1>6. Half(x + x) = x  BY <1>2 DEF Half
<1>7. pixel_pack_uv(x) = z + 128  BY <1>3 DEF pixel_pack_uv
<1>. QED  BY <1>2, <1>4, <1>5, <1>6, <1>7 DEF z

(* The components that come back from luma and chroma.                      *)
Red(y, v) == CLAMP8((408 * v + (297 * (y * 2) - 16 * 256 * 256)) \div 65536)
Green(y, v, u) == CLAMP8((-(208 * v) - 100 * u + (297 * (y * 2) - 16 * 256 * 256)) \div 65536)
Blue(y, u) == CLAMP8((516 * u + (297 * (y * 2) - 16 * 256 * 256)) \div 65536)

(* A component in fixed point that is less than 4 above k.                  *)
LEMMA LevelBack ==
    ASSUME NEW x \in Int, NEW k \in Nat, k <= 255, x >= 65536 * k, x < 65536 * k + 262144
    PROVE  Distance(CLAMP8(x \div 65536), k) <= 3
<1> DEFINE z == x \div 65536
<1>1. z \in Int /\ k <= z /\ z <= k + 3  BY SMT
<1>. HIDE DEF z
<1>. QED  BY SMT, <1>1 DEF Distance, CLAMP8, Bounded, z

(* The way back loses at most 3 levels.                                     *)
LEMMA ColourBack ==
    ASSUME NEW c \in Colour
    PROVE  LET y == rgb2y(c) \div 2 v == rgb2v(c) u == rgb2u(c)
           IN  /\ Distance(Red(y, v), c.r) <= 3
               /\ Distance(Green(y, v, u), c.g) <= 3
               /\ Distance(Blue(y, u), c.b) <= 3
<1> DEFINE y == rgb2y(c) \div 2
           v == rgb2v(c)
           u == rgb2u(c)
<1>1. PICK r \in Nat, g \in Nat, b \in Nat :
              /\ r = c.r /\ g = c.g /\ b = c.b /\ r <= 255 /\ g <= 255 /\ b <= 255
              /\ rgb2y(c) = 65 * r + 129 * g + 25 * b + 4096
              /\ rgb2v(c) = 112 * r - 94 * g - 18 * b
              /\ rgb2u(c) = -(37 * r) - 74 * g + 112 * b
  <2>1. /\ c.r \in Nat /\ c.g \in Nat /\ c.b \in Nat
        /\ c.r <= 255 /\ c.g <= 255 /\ c.b <= 255
        /\ rgb2y(c) = 65 * c.r + 129 * c.g + 25 * c.b + 4096
        /\ rgb2v(c) = 112 * c.r - 94 * c.g - 18 * c.b
        /\ rgb2u(c) = -(37 * c.r) - 74 * c.g + 112 * c.b
    BY ColourLevels
  <2>2. \A r, g, b \in Nat :
           r = c.r /\ g = c.g /\ b = c.b =>
              /\ rgb2y(c) = 65 * r + 129 * g + 25 * b + 4096
              /\ rgb2v(c) = 112 * r - 94 * g - 18 * b
              /\ rgb2u(c) = -(37 * r) - 74 * g + 112 * b
    BY <2>1
  <2>3. \A r, g, b \in Nat :
           r = c.r /\ g = c.g /\ b = c.b => r <= 255 /\ g <= 255 /\ b <= 255
    BY <2>1
  <2>4. \E r, g, b \in Nat : r = c.r /\ g = c.g /\ b = c.b  BY <2>1
  <2>. QED  BY ONLY <2>2, <2>3, <2>4
<1> DEFINE s == 65 * r + 129 * g + 25 * b + 4096
<1>2. s \in Int  BY SMT
<1>3. PICK z \in Int : z = y /\ (2 * z = s \/ 2 * z = s - 1)
  <2>1. y = s \div 2  BY SMT, <1>1
  <2>. HIDE DEF y, s
  <2>2. s \div 2 \in Int /\ (2 * (s \div 2) = s \/ 2 * (s \div 2) = s - 1)  BY SMT, <1>2
  <2>. QED  BY SMT, <2>1, <2>2
<1>4. PICK e \in Nat : e <= 1 /\ 2 * z = 65 * r + 129 * g + 25 * b + 4096 - e
  <2>1. CASE 2 * z = s  BY SMT, <2>1
  <2>2. CASE 2 * z = s - 1  BY SMT, <2>2
  <2>. QED  BY SMT, <1>3, <2>1, <2>2
<1>5. 16 * 256 * 256 = 1048576  BY SMT
<1>. HIDE DEF y, v, u, s
<1>6. Distance(Red(y, v), c.r) <= 3
  <2> DEFINE x == 408 * v + (297 * (y * 2) - 16 * 256 * 256)
  <2>1. x = 408 * (112 * r - 94 * g - 18 * b) + (297 * (z * 2) - 1048576)
    BY SMT, <1>1, <1>3, <1>5 DEF v
  <2>2. 297 * (z * 2) = 297 * (65 * r + 129 * g + 25 * b + 4096 - e)  BY SMT, <1>4
  <2>3. x = 65001 * r - 39 * g + 81 * b + 167936 - 297 * e  BY SMT, <1>4, <2>1, <2>2
  <2>. HIDE DEF x
  <2>4. x \in Int /\ x >= 65536 * r /\ x < 65536 * r + 262144  BY SMT, <1>1, <1>4, <2>3
  <2>5. Distance(CLAMP8(x \div 65536), r) <= 3  BY SMT, <1>1, <2>4, LevelBack
  <2>. QED  BY SMT, <1>1, <2>5 DEF Red, x
<1>7. Distance(Green(y, v, u), c.g) <= 3
  <2> DEFINE x == -(208 * v) - 100 * u + (297 * (y * 2) - 16 * 256 * 256)
  <2>1. x = -(208 * (112 * r - 94 * g - 18 * b)) - 100 * (-(37 * r) - 74 * g + 112 * b) + (297 * (z * 2) - 1048576)
    BY SMT, <1>1, <1>3, <1>5 DEF v, u
  <2>2. 297 * (z * 2) = 297 * (65 * r + 129 * g + 25 * b + 4096 - e)  BY SMT, <1>4
  <2>3. x = -(291 * r) + 65265 * g - 31 * b + 167936 - 297 * e  BY SMT, <1>4, <2>1, <2>2
  <2>. HIDE DEF x
  <2>4. x \in Int /\ x >= 65536 * g /\ x < 65536 * g + 262144  BY SMT, <1>1, <1>4, <2>3
  <2>5. Distance(CLAMP8(x \div 65536), g) <= 3  BY SMT, <1>1, <2>4, LevelBack
  <2>. QED  BY SMT, <1>1, <2>5 DEF Green, x
<1>8. Distance(Blue(y, u), c.b) <= 3
  <2> DEFINE x == 516 * u + (297 * (y * 2) - 16 * 256 * 256)
  <2>1. x = 516 * (-(37 * r) - 74 * g + 112 * b) + (297 * (z * 2) - 1048576)
    BY SMT, <1>1, <1>3, <1>5 DEF u
  <2>2. 297 * (z * 2) = 297 * (65 * r + 129 * g + 25 * b + 4096 - e)  BY SMT, <1>4
  <2>3. x = 213 * r + 129 * g + 65217 * b + 167936 - 297 * e  BY SMT, <1>4, <2>1, <2>2
  <2>. HIDE DEF x
  <2>4. x \in Int /\ x >= 65536 * b /\ x < 65536 * b + 262144  BY SMT, <1>1, <1>4, <2>3
  <2>5. Distance(CLAMP8(x \div 65536), b) <= 3  BY SMT, <1>1, <2>4, LevelBack
  <2>. QED  BY SMT, <1>1, <2>5 DEF Blue, x
<1>. QED  BY SMT, <1>6, <1>7, <1>8 DEF y, v, u

(* The colour a conversion reads at a pixel, whatever the order and the     *)
(* number of its bytes.                                                     *)
Side(w, left, right, x) == IF x < w \div 2 THEN left ELSE right
StrideOf(format) == IF format \in {"RGB", "BGR"} THEN 3 ELSE 4
IndexOf(format) == IF format \in {"RGB", "RGBA"} THEN <<0, 1, 2>> ELSE <<2, 1, 0>>

(* One byte of the image of two colours.                                    *)
LEMMA ByteAt ==
    ASSUME NEW w \in Nat \ {0}, NEW h \in Nat \ {0}, NEW left, NEW right,
           NEW format, NEW q \in 0..w * h - 1, NEW k \in 0..3, k < StrideOf(format)
    PROVE  Bytes(format, w, h, left, right)[q * StrideOf(format) + k] =
              LET order == IF format \in {"RGB", "RGBA"} THEN <<"r", "g", "b", "a">> ELSE <<"b", "g", "r", "a">>
                  name == order[k + 1]
              IN  IF name = "a" THEN 9 ELSE Side(w, left, right, q % w)[name]
<1> DEFINE s == StrideOf(format)
           n == w * h
           i == q * s + k
<1>1. s \in {3, 4} /\ k \in 0..s - 1  BY DEF StrideOf
<1>2. n \in Nat /\ n = w * h  OBVIOUS
<1>3. q \in 0..n - 1  OBVIOUS
<1>. HIDE DEF s, n
<1>4. i \in 0..n * s - 1 /\ i \in Int /\ i = s * q + k
  <2>1. CASE s = 3  BY <1>1, <1>2, <1>3, <2>1
  <2>2. CASE s = 4  BY <1>1, <1>2, <1>3, <2>2
  <2>. QED  BY <1>1, <2>1, <2>2
<1>. HIDE DEF i
<1>5. i \div s = q /\ i % s = k
  <2>1. s \in Nat \ {0} /\ q \in Int  BY <1>1, <1>3
  <2>. QED  BY <1>1, <1>4, <2>1, QuotientUnique
<1>6. i \in 0..w * h * s - 1  BY <1>2, <1>4
<1>7. Bytes(format, w, h, left, right)[i] =
         LET order == IF format \in {"RGB", "RGBA"} THEN <<"r", "g", "b", "a">> ELSE <<"b", "g", "r", "a">>
             name == order[(i % s) + 1]
         IN  IF name = "a" THEN 9 ELSE (IF (i \div s) % w < w \div 2 THEN left ELSE right)[name]
  BY <1>6 DEF Bytes, s, StrideOf
<1>. QED  BY <1>5, <1>7 DEF i, s, Side

(* One pixel of it.                                                         *)
LEMMA PixelColour ==
    ASSUME NEW w \in Nat \ {0}, NEW h \in Nat \ {0}, NEW left \in Colour, NEW right \in Colour,
           NEW format \in {"RGB", "RGBA", "BGR", "BGRA"}, NEW q \in 0..w * h - 1
    PROVE  Component(Bytes(format, w, h, left, right), q * StrideOf(format), IndexOf(format)) = Side(w, left, right, q % w)
<1> DEFINE src == Bytes(format, w, h, left, right)
           at == q * StrideOf(format)
           c == Side(w, left, right, q % w)
<1>1. c \in Colour  BY DEF Side
<1>2. c = [r |-> c.r, g |-> c.g, b |-> c.b]
  <2>. HIDE DEF c
  <2>. QED  BY <1>1 DEF Colour
<1>3. 0 < StrideOf(format) /\ 1 < StrideOf(format) /\ 2 < StrideOf(format)  BY DEF StrideOf
<1>4. ASSUME NEW k \in 0..2
      PROVE  src[at + k] = IF k = 1 THEN c.g ELSE IF k = (IF format \in {"RGB", "RGBA"} THEN 0 ELSE 2) THEN c.r ELSE c.b
  <2>1. k \in 0..3 /\ k < StrideOf(format)  BY <1>3
  <2>2. src[at + k] = LET order == IF format \in {"RGB", "RGBA"} THEN <<"r", "g", "b", "a">> ELSE <<"b", "g", "r", "a">>
                          name == order[k + 1]
                      IN  IF name = "a" THEN 9 ELSE c[name]
    BY <2>1, ByteAt
  <2>. HIDE DEF src, at, c
  <2>3. CASE k = 0  BY <2>2, <2>3
  <2>4. CASE k = 1  BY <2>2, <2>4
  <2>5. CASE k = 2  BY <2>2, <2>5
  <2>. QED  BY <2>3, <2>4, <2>5
<1>5. Component(src, at, IndexOf(format)) = [r |-> c.r, g |-> c.g, b |-> c.b]
  <2>1. src[at + 1] = c.g  BY <1>4
  <2>2. format \in {"RGB", "RGBA"} => src[at + 0] = c.r /\ src[at + 2] = c.b  BY <1>4
  <2>3. format \notin {"RGB", "RGBA"} => src[at + 2] = c.r /\ src[at + 0] = c.b  BY <1>4
  <2>. HIDE DEF src, at, c
  <2>4. CASE format \in {"RGB", "RGBA"}
    <3>1. IndexOf(format) = <<0, 1, 2>>  BY <2>4 DEF IndexOf
    <3>. QED  BY <2>1, <2>2, <2>4, <3>1 DEF Component
  <2>5. CASE format \notin {"RGB", "RGBA"}
    <3>1. IndexOf(format) = <<2, 1, 0>>  BY <2>5 DEF IndexOf
    <3>. QED  BY <2>1, <2>3, <2>5, <3>1 DEF Component
  <2>. QED  BY <2>4, <2>5
<1>. QED  BY <1>2, <1>5

(* The two columns of a block lie in the same half.                         *)
LEMMA SideOfBlock ==
    ASSUME NEW w, w \div 2 \in Nat, (w \div 2) % 2 = 0, NEW left, NEW right, NEW x \in Int
    PROVE  Side(w, left, right, 2 * x + 1) = Side(w, left, right, 2 * x)
<1> DEFINE m == w \div 2
<1>1. m \in Nat /\ m % 2 = 0  OBVIOUS
<1>. HIDE DEF m
<1>2. 2 * x + 1 < m <=> 2 * x < m  BY <1>1
<1>. QED  BY <1>2 DEF Side, m

(* Both halves have a colour.                                               *)
LEMMA SideColour ==
    ASSUME NEW left \in Colour, NEW right \in Colour, NEW w, NEW x
    PROVE  Side(w, left, right, x) \in Colour
BY DEF Side

(* The colours at the lower pixels of a block are the one of its half.      *)
BlockColoured(w, h, m, j, format, left, right, k) ==
    LET at(q) == Component(Bytes(format, w, h, left, right), q * StrideOf(format), IndexOf(format))
        c == Side(w, left, right, 2 * (k % m))
    IN  at(BlockOf(w, k) + w) = c /\ at(BlockOf(w, k) + w + 1) = c

LEMMA BlockColour ==
    ASSUME NEW m \in Nat \ {0}, m % 2 = 0, NEW j \in Nat \ {0}, NEW w, w = 2 * m, NEW h, h = 2 * j,
           NEW left \in Colour, NEW right \in Colour, NEW format \in {"RGB", "RGBA", "BGR", "BGRA"},
           NEW k \in 0..m * j - 1
    PROVE  BlockColoured(w, h, m, j, format, left, right, k)
<1> DEFINE b == BlockOf(w, k)
           c == Side(w, left, right, 2 * (k % m))
<1>1. m \in Nat \ {0} /\ w \in Nat \ {0} /\ h \in Nat \ {0} /\ j \in Nat \ {0} /\ w = 2 * m /\ h = 2 * j  OBVIOUS
<1>2. k % m \in Int
  <2>1. k \in Int  OBVIOUS
  <2>. QED  BY <1>1, <2>1, DivMod
<1>3. ASSUME NEW d \in 0..1, NEW e \in 0..1
      PROVE  b + d * w + e \in 0..w * h - 1 /\ (b + d * w + e) % w = 2 * (k % m) + e /\ b \in Nat
  <2>1. BlockIn(w, h, m, j, k)  BY <1>1, BlockInside
  <2>. QED  BY <2>1 DEF BlockIn
<1>. HIDE DEF b
<1>4. /\ b + 1 * w + 0 \in 0..w * h - 1 /\ (b + 1 * w + 0) % w = 2 * (k % m) + 0 /\ b \in Nat
      /\ b + 1 * w + 1 \in 0..w * h - 1 /\ (b + 1 * w + 1) % w = 2 * (k % m) + 1
  <2>1. 0 \in 0..1 /\ 1 \in 0..1  OBVIOUS
  <2>. QED  BY <1>3, <2>1
<1>5. b + 1 * w + 0 = b + w /\ b + 1 * w + 1 = b + w + 1 /\ 2 * (k % m) + 0 = 2 * (k % m)  BY <1>1, <1>2, <1>4
<1>6. Side(w, left, right, 2 * (k % m) + 1) = c
  <2>1. w \div 2 = m /\ m % 2 = 0  OBVIOUS
  <2>. QED  BY <1>1, <1>2, <2>1, SideOfBlock
<1>7. b + w \in 0..w * h - 1 /\ (b + w) % w = 2 * (k % m)  BY <1>4, <1>5
<1>8. b + w + 1 \in 0..w * h - 1 /\ (b + w + 1) % w = 2 * (k % m) + 1  BY <1>4, <1>5
<1>9. Component(Bytes(format, w, h, left, right), (b + w) * StrideOf(format), IndexOf(format)) = c
  BY <1>1, <1>7, PixelColour
<1>10. Component(Bytes(format, w, h, left, right), (b + w + 1) * StrideOf(format), IndexOf(format)) = c
  BY <1>1, <1>6, <1>8, PixelColour
<1>. QED  BY <1>9, <1>10 DEF b, BlockColoured

(* The planes that an image of two colours gets.                            *)
ImageOf(w, h, m, j, left, right, image) ==
    /\ \A p \in 0..w * h - 1 : image[p] = rgb2y(Side(w, left, right, p % w)) \div 2
    /\ \A k \in 0..m * j - 1 : LET c == Side(w, left, right, 2 * (k % m))
                               IN  image[w * h + k] = rgb2v(c) /\ image[w * h + m * j + k] = rgb2u(c)

LEMMA ImageFromBytes ==
    ASSUME NEW m \in Nat \ {0}, m % 2 = 0, NEW j \in Nat \ {0}, NEW w, w = 2 * m, NEW h, h = 2 * j,
           NEW left \in Colour, NEW right \in Colour, NEW format \in {"RGB", "RGBA", "BGR", "BGRA"}
    PROVE  ImageOf(w, h, m, j, left, right, pdp_llconv(format, "YVU16", Bytes(format, w, h, left, right), w, h))
<1> DEFINE src == Bytes(format, w, h, left, right)
           image == pdp_llconv(format, "YVU16", src, w, h)
           at(x) == Component(src, x * StrideOf(format), IndexOf(format))
           sum(p) == BlockOf(w, ChromaAt(w, h, p)) + w
<1>1. m \in Nat \ {0} /\ w \in Nat \ {0} /\ h \in Nat \ {0} /\ j \in Nat \ {0} /\ w = 2 * m /\ h = 2 * j  OBVIOUS
<1>2. image = rgb2yvu_planar16sub_indexed(src, w, h, IndexOf(format), StrideOf(format))
  <2>. HIDE DEF src
  <2>. QED  BY DEF pdp_llconv, IndexOf, StrideOf
<1>3. ASSUME NEW p \in PacketPixels(w, h)
      PROVE  image[p] = CASE PlaneOf(w, h, p) = "y" -> CLAMP16C(Half(rgb2y(at(p))))
                          [] PlaneOf(w, h, p) = "v" -> CLAMP16C(Half(rgb2v(at(sum(p))) + rgb2v(at(sum(p) + 1))))
                          [] OTHER -> CLAMP16C(Half(rgb2u(at(sum(p))) + rgb2u(at(sum(p) + 1))))
  BY <1>2 DEF rgb2yvu_planar16sub_indexed
<1>4. Planes(w, h, m, j)  BY <1>1, PlanesCut
<1>5. PICK q \in Nat \ {0} :
        /\ q = m * j /\ w * h \in Nat
        /\ \A p \in 0..w * h - 1 : p \in PacketPixels(w, h) /\ PlaneOf(w, h, p) = "y"
        /\ \A k \in 0..q - 1 :
              /\ w * h + k \in PacketPixels(w, h) /\ PlaneOf(w, h, w * h + k) = "v" /\ ChromaAt(w, h, w * h + k) = k
              /\ w * h + q + k \in PacketPixels(w, h) /\ PlaneOf(w, h, w * h + q + k) = "u"
              /\ ChromaAt(w, h, w * h + q + k) = k
  BY <1>4 DEF Planes
<1>6. ASSUME NEW p \in 0..w * h - 1 PROVE image[p] = rgb2y(Side(w, left, right, p % w)) \div 2
  <2>1. at(p) = Side(w, left, right, p % w)  BY <1>1, PixelColour
  <2>2. at(p) \in Colour  BY <2>1, SideColour
  <2>3. image[p] = CLAMP16C(Half(rgb2y(at(p))))  BY <1>3, <1>5
  <2>. HIDE DEF at, image
  <2>4. CLAMP16C(Half(rgb2y(at(p)))) = rgb2y(at(p)) \div 2  BY <2>2, ColourRange, LumaIn
  <2>. QED  BY <2>1, <2>3, <2>4
<1>7. ASSUME NEW k \in 0..q - 1
      PROVE  LET c == Side(w, left, right, 2 * (k % m))
             IN  image[w * h + k] = rgb2v(c) /\ image[w * h + q + k] = rgb2u(c)
  <2> DEFINE c == Side(w, left, right, 2 * (k % m))
             b == BlockOf(w, k) + w
  <2>1. k \in 0..m * j - 1  BY <1>5
  <2>2. BlockColoured(w, h, m, j, format, left, right, k)  BY <2>1, BlockColour
  <2>3. at(b) = c /\ at(b + 1) = c  BY <2>2 DEF BlockColoured
  <2>4. c \in Colour  BY SideColour
  <2>. HIDE DEF c
  <2>5. image[w * h + k] = CLAMP16C(Half(rgb2v(at(b)) + rgb2v(at(b + 1))))
    <3>1. w * h + k \in PacketPixels(w, h) /\ PlaneOf(w, h, w * h + k) = "v" /\ sum(w * h + k) = b  BY <1>5
    <3>. HIDE DEF at, sum, image, b
    <3>. QED  BY <1>3, <3>1
  <2>6. image[w * h + q + k] = CLAMP16C(Half(rgb2u(at(b)) + rgb2u(at(b + 1))))
    <3>1. w * h + q + k \in PacketPixels(w, h) /\ PlaneOf(w, h, w * h + q + k) = "u" /\ sum(w * h + q + k) = b  BY <1>5
    <3>. HIDE DEF at, sum, image, b
    <3>. QED  BY <1>3, <3>1
  <2>. HIDE DEF at, image, b
  <2>7. CLAMP16C(Half(rgb2v(c) + rgb2v(c))) = rgb2v(c) /\ CLAMP16C(Half(rgb2u(c) + rgb2u(c))) = rgb2u(c)
    BY <2>4, ColourRange, ChromaIn
  <2>. QED  BY <2>3, <2>5, <2>6, <2>7 DEF c
<1>. HIDE DEF image
<1>. QED  BY <1>5, <1>6, <1>7 DEF ImageOf, image

(* The 8 bit planes of the same colours are the bytes of these planes.      *)
LEMMA PlanarFromBytes ==
    ASSUME NEW m \in Nat \ {0}, m % 2 = 0, NEW j \in Nat \ {0}, NEW w, w = 2 * m, NEW h, h = 2 * j,
           NEW left \in Colour, NEW right \in Colour, NEW image, ImageOf(w, h, m, j, left, right, image),
           NEW p \in PacketPixels(w, h)
    PROVE  pdp_llconv("RGB", "YVU8", Bytes("RGB", w, h, left, right), w, h)[p]
              = IF p < w * h THEN pixel_pack_y(image[p]) ELSE pixel_pack_uv(image[p])
<1> DEFINE src == Bytes("RGB", w, h, left, right)
           planar == pdp_llconv("RGB", "YVU8", src, w, h)
           at(x) == Component(src, x * 3, <<0, 1, 2>>)
           sum(x) == BlockOf(w, ChromaAt(w, h, x)) + w
<1>1. m \in Nat \ {0} /\ w \in Nat \ {0} /\ h \in Nat \ {0} /\ j \in Nat \ {0} /\ w = 2 * m /\ h = 2 * j  OBVIOUS
<1>2. planar = llconv_rgb2yvu_planar8sub(src, w, h)
  <2>. HIDE DEF src
  <2>. QED  BY DEF pdp_llconv
<1>3. planar[p] = CASE PlaneOf(w, h, p) = "y" -> CLAMP8(rgb2y(at(p)) \div 256)
                    [] PlaneOf(w, h, p) = "v" -> CLAMP8((rgb2v(at(sum(p))) + rgb2v(at(sum(p) + 1))) \div 512 + 128)
                    [] OTHER -> CLAMP8((rgb2u(at(sum(p))) + rgb2u(at(sum(p) + 1))) \div 512 + 128)
  BY <1>2 DEF llconv_rgb2yvu_planar8sub
<1>4. Planes(w, h, m, j)  BY <1>1, PlanesCut
<1>5. PICK q \in Nat \ {0} :
        /\ q = m * j /\ w * h \in Nat
        /\ p \in 0..w * h - 1 \/ \E k \in 0..q - 1 : p = w * h + k \/ p = w * h + q + k
        /\ \A x \in 0..w * h - 1 : x \in PacketPixels(w, h) /\ PlaneOf(w, h, x) = "y"
        /\ \A k \in 0..q - 1 :
              /\ w * h + k \in PacketPixels(w, h) /\ PlaneOf(w, h, w * h + k) = "v" /\ ChromaAt(w, h, w * h + k) = k
              /\ w * h + q + k \in PacketPixels(w, h) /\ PlaneOf(w, h, w * h + q + k) = "u"
              /\ ChromaAt(w, h, w * h + q + k) = k
  BY <1>4 DEF Planes
<1>6. /\ \A x \in 0..w * h - 1 : image[x] = rgb2y(Side(w, left, right, x % w)) \div 2
      /\ \A k \in 0..q - 1 : /\ image[w * h + k] = rgb2v(Side(w, left, right, 2 * (k % m)))
                             /\ image[w * h + q + k] = rgb2u(Side(w, left, right, 2 * (k % m)))
  BY <1>5 DEF ImageOf
<1>7. "RGB" \in {"RGB", "RGBA", "BGR", "BGRA"} /\ StrideOf("RGB") = 3 /\ IndexOf("RGB") = <<0, 1, 2>>
  BY DEF StrideOf, IndexOf
<1>8. CASE p \in 0..w * h - 1
  <2> DEFINE c == Side(w, left, right, p % w)
  <2>1. at(p) = c
    <3>1. Component(Bytes("RGB", w, h, left, right), p * StrideOf("RGB"), IndexOf("RGB")) = c  BY <1>1, <1>7, <1>8, PixelColour
    <3>. HIDE DEF c
    <3>. QED  BY <1>7, <3>1
  <2>2. c \in Colour  BY SideColour
  <2>3. PlaneOf(w, h, p) = "y" /\ image[p] = rgb2y(c) \div 2 /\ p < w * h  BY <1>5, <1>6, <1>8
  <2>. HIDE DEF at, planar, c, sum
  <2>4. CLAMP8(rgb2y(c) \div 256) = pixel_pack_y(rgb2y(c) \div 2)  BY <2>2, ColourRange, LumaIn
  <2>. QED  BY <1>3, <2>1, <2>3, <2>4 DEF planar
<1>9. ASSUME NEW k \in 0..q - 1, p = w * h + k \/ p = w * h + q + k
      PROVE  planar[p] = pixel_pack_uv(image[p]) /\ ~(p < w * h)
  <2> DEFINE c == Side(w, left, right, 2 * (k % m))
             b == BlockOf(w, k) + w
  <2>1. k \in 0..m * j - 1  BY <1>5
  <2>2. BlockColoured(w, h, m, j, "RGB", left, right, k)  BY <1>7, <2>1, BlockColour
  <2>3. at(b) = c /\ at(b + 1) = c  BY <1>7, <2>2 DEF BlockColoured
  <2>4. c \in Colour  BY SideColour
  <2>5. /\ PlaneOf(w, h, w * h + k) = "v" /\ ChromaAt(w, h, w * h + k) = k
         /\ PlaneOf(w, h, w * h + q + k) = "u" /\ ChromaAt(w, h, w * h + q + k) = k
    BY <1>5
  <2>6. image[w * h + k] = rgb2v(c) /\ image[w * h + q + k] = rgb2u(c)
    BY <1>6
  <2>7. ChromaAt(w, h, p) = k  BY ONLY <1>9, <2>5
  <2>8. sum(p) = b  BY <2>7
  <2>9. p = w * h + k => PlaneOf(w, h, p) = "v" /\ image[p] = rgb2v(c)  BY ONLY <2>5, <2>6
  <2>10. p = w * h + q + k => PlaneOf(w, h, p) = "u" /\ image[p] = rgb2u(c)  BY ONLY <2>5, <2>6
  <2>11. ~(p < w * h)
    <3> DEFINE n == w * h
    <3>1. n \in Nat  BY <1>5
    <3>. HIDE DEF n
    <3>2. ~(p < n)  BY <3>1, <1>9 DEF n
    <3>. QED  BY <3>2 DEF n
  <2>. HIDE DEF at, planar, c, sum, b
  <2>12. CLAMP8((rgb2v(c) + rgb2v(c)) \div 512 + 128) = pixel_pack_uv(rgb2v(c))  BY <2>4, ColourRange, ChromaIn
  <2>13. CLAMP8((rgb2u(c) + rgb2u(c)) \div 512 + 128) = pixel_pack_uv(rgb2u(c))  BY <2>4, ColourRange, ChromaIn
  <2>14. CASE p = w * h + k  BY <1>3, <2>3, <2>8, <2>9, <2>11, <2>12, <2>14
  <2>15. CASE p = w * h + q + k  BY <1>3, <2>3, <2>8, <2>10, <2>11, <2>13, <2>15
  <2>. QED  BY <1>9, <2>14, <2>15
<1>. HIDE DEF planar
<1>. QED  BY <1>5, <1>8, <1>9 DEF planar

(* The colour of a pixel of the planes, as it comes back.                   *)
LEMMA ImageToBytes ==
    ASSUME NEW m \in Nat \ {0}, m % 2 = 0, NEW j \in Nat \ {0}, NEW w, w = 2 * m, NEW h, h = 2 * j,
           NEW left \in Colour, NEW right \in Colour, NEW image, ImageOf(w, h, m, j, left, right, image),
           NEW p \in 0..w * h - 1
    PROVE  LET rgb == pdp_llconv("YVU16", "RGB", image, w, h)
               c == Side(w, left, right, p % w)
           IN  /\ Distance(rgb[3 * p], c.r) <= 3
               /\ Distance(rgb[3 * p + 1], c.g) <= 3
               /\ Distance(rgb[3 * p + 2], c.b) <= 3
<1> DEFINE rgb == pdp_llconv("YVU16", "RGB", image, w, h)
           c == Side(w, left, right, p % w)
           k == ChromaOf(w, p)
           n == w * h
<1>1. m \in Nat \ {0} /\ w \in Nat \ {0} /\ h \in Nat \ {0} /\ j \in Nat \ {0} /\ w = 2 * m /\ h = 2 * j  OBVIOUS
<1>2. Planes(w, h, m, j)  BY <1>1, PlanesCut
<1>3. n \in Nat /\ n \div 4 = m * j  BY <1>2 DEF Planes
<1>4. PixelIn(w, h, m, j, p)  BY <1>1, PixelInside
<1>5. k \in 0..m * j - 1 /\ k % m = (p % w) \div 2 /\ p % w \in 0..w - 1  BY <1>4 DEF PixelIn
<1>6. Side(w, left, right, 2 * (k % m)) = c
  <2> DEFINE y == p % w
             x == y \div 2
  <2>1. y \in Int /\ k % m = x  BY <1>5
  <2>. HIDE DEF y
  <2>2. x \in Int /\ (y = 2 * x \/ y = 2 * x + 1)  BY <2>1
  <2>. HIDE DEF x
  <2>3. w \div 2 = m /\ m % 2 = 0  OBVIOUS
  <2>4. Side(w, left, right, 2 * x + 1) = Side(w, left, right, 2 * x)  BY <1>1, <2>2, <2>3, SideOfBlock
  <2>. QED  BY <2>1, <2>2, <2>4 DEF y
<1>7. /\ image[p] = rgb2y(c) \div 2
      /\ image[n + k] = rgb2v(c) /\ image[n + n \div 4 + k] = rgb2u(c)
  <2>1. image[p] = rgb2y(c) \div 2  BY DEF ImageOf
  <2>2. image[n + k] = rgb2v(Side(w, left, right, 2 * (k % m))) /\ image[n + m * j + k] = rgb2u(Side(w, left, right, 2 * (k % m)))
    BY <1>5 DEF ImageOf
  <2>. QED  BY <1>3, <1>6, <2>1, <2>2
<1>8. c \in Colour  BY SideColour
<1>9. ASSUME NEW e \in 0..2
      PROVE  rgb[3 * p + e] = IF e = 0 THEN Red(image[p], image[n + k])
                              ELSE IF e = 1 THEN Green(image[p], image[n + k], image[n + n \div 4 + k])
                              ELSE Blue(image[p], image[n + n \div 4 + k])
  <2> DEFINE b == 3 * p + e
  <2>1. b \in 0..3 * w * h - 1
    <3>1. p \in 0..n - 1 /\ 3 * w * h = 3 * n  BY <1>1
    <3>. HIDE DEF n
    <3>2. 3 * p + e \in 0..3 * n - 1  BY <1>3, <3>1
    <3>. QED  BY <3>1, <3>2
  <2>2. b \div 3 = p /\ b % 3 = e
    <3>1. p \in Int  OBVIOUS
    <3>. QED  BY <3>1
  <2>. HIDE DEF b
  <2>3. rgb[b] = LET v == image[n + k]
                     u == image[n + n \div 4 + k]
                     y1 == 297 * (image[p] * 2) - 16 * 256 * 256
                     chroma == CASE b % 3 = 0 -> 408 * v [] b % 3 = 1 -> -(208 * v) - 100 * u [] OTHER -> 516 * u
                 IN  CLAMP8((chroma + y1) \div 65536)
    BY SMT, <2>1, <2>2 DEF pdp_llconv, llconv_yvu16planar2rgbpacked
  <2>. HIDE DEF rgb, n, k
  <2>4. CASE e = 0  BY SMT, <2>2, <2>3, <2>4 DEF Red, b
  <2>5. CASE e = 1  BY SMT, <2>2, <2>3, <2>5 DEF Green, b
  <2>6. CASE e = 2  BY SMT, <2>2, <2>3, <2>6 DEF Blue, b
  <2>. QED  BY <2>4, <2>5, <2>6
<1>10. /\ Distance(Red(image[p], image[n + k]), c.r) <= 3
       /\ Distance(Green(image[p], image[n + k], image[n + n \div 4 + k]), c.g) <= 3
       /\ Distance(Blue(image[p], image[n + n \div 4 + k]), c.b) <= 3
  <2>. HIDE DEF c, n, k
  <2>. QED  BY <1>7, <1>8, ColourBack
<1>11. rgb[3 * p] = Red(image[p], image[n + k])
  <2>1. 3 * p + 0 = 3 * p /\ 0 \in 0..2  OBVIOUS
  <2>. HIDE DEF rgb, n, k
  <2>2. rgb[3 * p + 0] = Red(image[p], image[n + k])  BY <1>9, <2>1
  <2>. QED  BY <2>1, <2>2
<1>12. rgb[3 * p + 1] = Green(image[p], image[n + k], image[n + n \div 4 + k])
  <2>. HIDE DEF rgb, n, k
  <2>. QED  BY <1>9
<1>13. rgb[3 * p + 2] = Blue(image[p], image[n + n \div 4 + k])
  <2>. HIDE DEF rgb, n, k
  <2>. QED  BY <1>9
<1>. HIDE DEF rgb, n, k, c
<1>. QED  BY <1>10, <1>11, <1>12, <1>13 DEF rgb, c

(* The bytes of planar and packed images.                                   *)
LEMMA BytesBack ==
    ASSUME NEW x \in Nat, x <= 255
    PROVE  /\ pixel_pack_y(pixel_unpack_y(x)) = x /\ pixel_pack_y(x * 128) = x
           /\ pixel_pack_uv(pixel_unpack_uv(x)) = x
           /\ pixel_pack_uv(Short(x * 128 + x * 128 + 32768)) = x
<1>1. (x * 128) \div 128 = x  OBVIOUS
<1>2. CLAMP8(x) = x  BY DEF CLAMP8, Bounded
<1>3. PICK y \in Int : y = Short(x * 256 + 32768) /\ (y = 256 * x - 32768 \/ y = 256 * x + 32768)
  <2>1. (x * 256 + 32768 + 32768) % 65536 = 256 * x  OBVIOUS
  <2>2. Short(x * 256 + 32768) = 256 * x - 32768  BY <2>1 DEF Short
  <2>3. 256 * x - 32768 \in Int  OBVIOUS
  <2>. QED  BY <2>2, <2>3
<1>4. ((y + 32768) % 65536) \div 256 = x
  <2>1. (y + 32768) % 65536 = 256 * x  BY <1>3
  <2>2. (256 * x) \div 256 = x  OBVIOUS
  <2>. QED  BY <2>1, <2>2
<1>5. x * 128 + x * 128 + 32768 = x * 256 + 32768  OBVIOUS
<1>. QED  BY <1>1, <1>2, <1>3, <1>4, <1>5 DEF pixel_pack_y, pixel_unpack_y, pixel_pack_uv, pixel_unpack_uv

(* The luma and the chroma of the test image are bytes.                     *)
LEMMA LumaByte ==
    ASSUME NEW p \in Int
    PROVE  Luma(p) \in Nat /\ Luma(p) <= 255
<1>1. (p * 29) % 256 \in Nat /\ (p * 29) % 256 <= 255  OBVIOUS
<1>. QED  BY <1>1 DEF Luma

LEMMA ChromaByte ==
    ASSUME NEW plane, NEW c \in Int
    PROVE  Chroma(plane, c) \in Nat /\ Chroma(plane, c) <= 255
<1>1. (c * 53 + 7) % 256 \in Nat /\ (c * 53 + 7) % 256 <= 255  OBVIOUS
<1>2. (200 - c * 31) % 256 \in Nat /\ (200 - c * 31) % 256 <= 255  OBVIOUS
<1>. QED  BY <1>1, <1>2 DEF Chroma

(* A packet whose planes are the ones of an 8 bit image, and its bytes.     *)
Faithful(w, h, bytes) ==
    \A p \in PacketPixels(w, h) :
        bytes[p] = IF p < w * h THEN Luma(p)
                   ELSE Chroma(IF p < w * h + (w * h) \div 4 THEN "v" ELSE "u", ChromaAt(w, h, p))

(* It is enough to look at the three planes.                                *)
LEMMA FaithfulPlanes ==
    ASSUME NEW m \in Nat \ {0}, NEW j \in Nat \ {0}, NEW w, w = 2 * m, NEW h, h = 2 * j, NEW bytes,
           \A p \in 0..w * h - 1 : bytes[p] = Luma(p),
           \A k \in 0..m * j - 1 : bytes[w * h + k] = Chroma("v", k) /\ bytes[w * h + m * j + k] = Chroma("u", k)
    PROVE  Faithful(w, h, bytes)
<1> DEFINE n == w * h
<1>1. Planes(w, h, m, j)  BY PlanesCut
<1>2. n = w * h  OBVIOUS
<1>. HIDE DEF n
<1>3. PICK q \in Nat \ {0} :
        /\ q = m * j /\ n \in Nat /\ n = 4 * q /\ n \div 4 = q
        /\ \A p \in PacketPixels(w, h) :
              \/ p \in 0..n - 1
              \/ \E k \in 0..q - 1 : p = n + k \/ p = n + q + k
        /\ \A p \in 0..n - 1 : p \in PacketPixels(w, h) /\ PlaneOf(w, h, p) = "y"
        /\ \A k \in 0..q - 1 :
              /\ n + k \in PacketPixels(w, h) /\ PlaneOf(w, h, n + k) = "v" /\ ChromaAt(w, h, n + k) = k
              /\ n + q + k \in PacketPixels(w, h) /\ PlaneOf(w, h, n + q + k) = "u"
              /\ ChromaAt(w, h, n + q + k) = k
  BY ONLY <1>1, <1>2 DEF Planes
<1>4. /\ \A p \in 0..n - 1 : bytes[p] = Luma(p)
      /\ \A k \in 0..q - 1 : bytes[n + k] = Chroma("v", k) /\ bytes[n + q + k] = Chroma("u", k)
  BY <1>2, <1>3
<1>5. ASSUME NEW p \in PacketPixels(w, h)
      PROVE  bytes[p] = IF p < n THEN Luma(p) ELSE Chroma(IF p < n + q THEN "v" ELSE "u", ChromaAt(w, h, p))
  <2>1. CASE p \in 0..n - 1
    <3>1. p < n  BY ONLY <1>3, <2>1
    <3>2. bytes[p] = Luma(p)  BY ONLY <1>4, <2>1
    <3>. QED  BY ONLY <3>1, <3>2
  <2>2. ASSUME NEW k \in 0..q - 1, p = n + k
        PROVE  ~(p < n) /\ p < n + q /\ bytes[p] = Chroma("v", ChromaAt(w, h, p))
    <3>1. ~(p < n) /\ p < n + q  BY ONLY <1>3, <2>2, k \in 0..q - 1, q \in Nat \ {0}
    <3>2. bytes[n + k] = Chroma("v", k) /\ ChromaAt(w, h, n + k) = k  BY ONLY <1>3, <1>4, k \in 0..q - 1
    <3>. QED  BY ONLY <2>2, <3>1, <3>2
  <2>3. ASSUME NEW k \in 0..q - 1, p = n + q + k
        PROVE  ~(p < n) /\ ~(p < n + q) /\ bytes[p] = Chroma("u", ChromaAt(w, h, p))
    <3>1. ~(p < n) /\ ~(p < n + q)  BY ONLY <1>3, <2>3, k \in 0..q - 1, q \in Nat \ {0}
    <3>2. bytes[n + q + k] = Chroma("u", k) /\ ChromaAt(w, h, n + q + k) = k  BY ONLY <1>3, <1>4, k \in 0..q - 1
    <3>. QED  BY ONLY <2>3, <3>1, <3>2
  <2>4. p \in 0..n - 1 \/ \E k \in 0..q - 1 : p = n + k \/ p = n + q + k  BY <1>3
  <2>. QED  BY ONLY <2>1, <2>2, <2>3, <2>4
<1>. QED  BY ONLY <1>2, <1>3, <1>5 DEF Faithful

(* 16 bit planes that become these bytes.                                   *)
LEMMA PackedBytes ==
    ASSUME NEW m \in Nat \ {0}, NEW j \in Nat \ {0}, NEW w, w = 2 * m, NEW h, h = 2 * j, NEW image,
           DOMAIN image = PacketPixels(w, h),
           \A p \in 0..w * h - 1 : pixel_pack_y(image[p]) = Luma(p),
           \A k \in 0..m * j - 1 : /\ pixel_pack_uv(image[w * h + k]) = Chroma("v", k)
                                   /\ pixel_pack_uv(image[w * h + m * j + k]) = Chroma("u", k)
    PROVE  Faithful(w, h, pdp_llconv("YVU16", "YVU8", image, w, h))
<1> DEFINE n == w * h
           bytes == pdp_llconv("YVU16", "YVU8", image, w, h)
<1>1. Planes(w, h, m, j)  BY PlanesCut
<1>2. n = w * h  OBVIOUS
<1>3. bytes = [p \in PacketPixels(w, h) |-> IF p < n THEN pixel_pack_y(image[p]) ELSE pixel_pack_uv(image[p])]
  BY DEF pdp_llconv, llconv_yvu_planar_s16u8
<1>. HIDE DEF n, bytes
<1>4. PICK q \in Nat \ {0} :
        /\ q = m * j /\ n \in Nat
        /\ \A p \in 0..n - 1 : p \in PacketPixels(w, h)
        /\ \A k \in 0..q - 1 : n + k \in PacketPixels(w, h) /\ n + q + k \in PacketPixels(w, h)
  BY ONLY <1>1, <1>2 DEF Planes
<1>5. ASSUME NEW p \in 0..n - 1 PROVE bytes[p] = Luma(p)
  <2>1. p < n /\ p \in PacketPixels(w, h)  BY <1>4
  <2>2. pixel_pack_y(image[p]) = Luma(p)  BY <1>2
  <2>. QED  BY ONLY <1>3, <2>1, <2>2
<1>6. ASSUME NEW k \in 0..q - 1
      PROVE  bytes[n + k] = Chroma("v", k) /\ bytes[n + q + k] = Chroma("u", k)
  <2>1. ~(n + k < n) /\ ~(n + q + k < n)  BY <1>4
  <2>2. pixel_pack_uv(image[n + k]) = Chroma("v", k) /\ pixel_pack_uv(image[n + q + k]) = Chroma("u", k)  BY <1>2, <1>4
  <2>3. n + k \in PacketPixels(w, h) /\ n + q + k \in PacketPixels(w, h)  BY <1>4
  <2>. QED  BY ONLY <1>3, <2>1, <2>2, <2>3
<1>7. /\ \A p \in 0..w * h - 1 : bytes[p] = Luma(p)
      /\ \A k \in 0..m * j - 1 : bytes[w * h + k] = Chroma("v", k) /\ bytes[w * h + m * j + k] = Chroma("u", k)
  BY <1>2, <1>4, <1>5, <1>6
<1>8. Faithful(w, h, bytes)  BY <1>7, FaithfulPlanes
<1>. QED  BY <1>8 DEF bytes

(* The planes of an 8 bit image, V or U first.                              *)
PlanarImage(w, h, swapped) ==
    [p \in PacketPixels(w, h) |->
        LET n == w * h
            first == IF swapped THEN "u" ELSE "v"
            second == IF swapped THEN "v" ELSE "u"
        IN  IF p < n THEN Luma(p) ELSE Chroma(IF p < n + n \div 4 THEN first ELSE second, ChromaAt(w, h, p))]

(* Planar images come back byte by byte, V or U first.                      *)
LEMMA PlanarComesBack ==
    ASSUME NEW m \in Nat \ {0}, NEW j \in Nat \ {0}, NEW w, w = 2 * m, NEW h, h = 2 * j, NEW swapped \in BOOLEAN
    PROVE  LET image == pdp_llconv(IF swapped THEN "YUV8" ELSE "YVU8", "YVU16", PlanarImage(w, h, swapped), w, h)
           IN  Faithful(w, h, pdp_llconv("YVU16", "YVU8", image, w, h))
<1> DEFINE n == w * h
           src == PlanarImage(w, h, swapped)
           image == pdp_llconv(IF swapped THEN "YUV8" ELSE "YVU8", "YVU16", src, w, h)
<1>1. Planes(w, h, m, j)  BY PlanesCut
<1>2. n = w * h  OBVIOUS
<1>3. DOMAIN src = PacketPixels(w, h)  BY DEF PlanarImage
<1>4. \A p \in PacketPixels(w, h) :
         src[p] = IF p < n THEN Luma(p)
                  ELSE Chroma(IF p < n + n \div 4 THEN (IF swapped THEN "u" ELSE "v") ELSE (IF swapped THEN "v" ELSE "u"),
                              ChromaAt(w, h, p))
  BY DEF PlanarImage
<1>. HIDE DEF src
<1>5. image = [p \in PacketPixels(w, h) |->
                 IF p < n THEN pixel_unpack_y(src[p])
                 ELSE pixel_unpack_uv(src[IF swapped THEN (IF p < n + n \div 4 THEN p + n \div 4 ELSE p - n \div 4) ELSE p])]
  <2>1. CASE swapped  BY <1>3, <2>1 DEF pdp_llconv, llconv_yuv_planar_u8s16
  <2>2. CASE ~swapped  BY <1>3, <2>2 DEF pdp_llconv, llconv_yvu_planar_u8s16
  <2>. QED  BY <2>1, <2>2
<1>. HIDE DEF n, image
<1>6. PICK q \in Nat \ {0} :
        /\ q = m * j /\ n \in Nat /\ n \div 4 = q
        /\ \A p \in 0..n - 1 : p \in PacketPixels(w, h)
        /\ \A k \in 0..q - 1 :
              /\ n + k \in PacketPixels(w, h) /\ ChromaAt(w, h, n + k) = k
              /\ n + q + k \in PacketPixels(w, h) /\ ChromaAt(w, h, n + q + k) = k
  BY ONLY <1>1, <1>2 DEF Planes
<1>7. ASSUME NEW p \in 0..n - 1 PROVE pixel_pack_y(image[p]) = Luma(p)
  <2>1. p < n /\ p \in PacketPixels(w, h) /\ p \in Int  BY <1>6
  <2>2. image[p] = pixel_unpack_y(Luma(p))  BY ONLY <1>4, <1>5, <2>1
  <2>3. pixel_pack_y(pixel_unpack_y(Luma(p))) = Luma(p)  BY <2>1, LumaByte, BytesBack
  <2>. QED  BY <2>2, <2>3
<1>8. ASSUME NEW k \in 0..q - 1
      PROVE  pixel_pack_uv(image[n + k]) = Chroma("v", k) /\ pixel_pack_uv(image[n + q + k]) = Chroma("u", k)
  <2>1. ~(n + k < n) /\ ~(n + q + k < n) /\ n + k < n + q /\ ~(n + q + k < n + q)  BY <1>6
  <2>2. n + k + q = n + q + k /\ n + q + k - q = n + k /\ k \in Int  BY <1>6
  <2>3. /\ n + k \in PacketPixels(w, h) /\ ChromaAt(w, h, n + k) = k
        /\ n + q + k \in PacketPixels(w, h) /\ ChromaAt(w, h, n + q + k) = k
    BY <1>6
  <2> DEFINE p == n + k
             r == n + q + k
  <2>4. ~(p < n) /\ ~(r < n) /\ p < n + q /\ ~(r < n + q) /\ p + q = r /\ r - q = p
    BY <1>6
  <2>5. p \in PacketPixels(w, h) /\ ChromaAt(w, h, p) = k /\ r \in PacketPixels(w, h) /\ ChromaAt(w, h, r) = k
    BY ONLY <2>3
  <2>. HIDE DEF p, r
  <2>6. n \div 4 = q  BY <1>6
  <2>7. image[p] = pixel_unpack_uv(src[IF swapped THEN r ELSE p]) /\ image[r] = pixel_unpack_uv(src[IF swapped THEN p ELSE r])
    BY ONLY <1>5, <2>4, <2>6, <2>5
  <2>8. src[p] = Chroma(IF swapped THEN "u" ELSE "v", k) /\ src[r] = Chroma(IF swapped THEN "v" ELSE "u", k)
    BY ONLY <1>4, <2>4, <2>6, <2>5
  <2>9. image[p] = pixel_unpack_uv(Chroma("v", k)) /\ image[r] = pixel_unpack_uv(Chroma("u", k))
    BY ONLY <2>7, <2>8, swapped \in BOOLEAN
  <2>10. \A plane : pixel_pack_uv(pixel_unpack_uv(Chroma(plane, k))) = Chroma(plane, k)  BY <2>2, ChromaByte, BytesBack
  <2>. QED  BY <2>9, <2>10 DEF p, r
<1>9. /\ DOMAIN image = PacketPixels(w, h)
      /\ \A p \in 0..w * h - 1 : pixel_pack_y(image[p]) = Luma(p)
      /\ \A k \in 0..m * j - 1 : /\ pixel_pack_uv(image[w * h + k]) = Chroma("v", k)
                                 /\ pixel_pack_uv(image[w * h + m * j + k]) = Chroma("u", k)
  BY <1>2, <1>5, <1>6, <1>7, <1>8
<1>10. Faithful(w, h, pdp_llconv("YVU16", "YVU8", image, w, h))  BY <1>9, PackedBytes
<1>. QED  BY <1>10 DEF image, src

(* A packed image: byte y of a pair of pixels is Y, the others are U and V. *)
PackedImage(w, h, y) ==
    [i \in 0..2 * w * h - 1 |->
        LET c == ChromaOf(w, i \div 2)
        IN  IF i % 2 = y THEN Luma(i \div 2) ELSE Chroma(IF i % 4 < 2 THEN "u" ELSE "v", c)]

(* The byte of a pair of pixels: e is the pixel, y the place of the luma.   *)
PairIs(w, h, y, b, e) ==
    PackedImage(w, h, y)[(b \div 2) * 4 + 2 * e + 1 - y] = Chroma(IF e = 0 THEN "u" ELSE "v", ChromaOf(w, b + e))

LEMMA PairByte ==
    ASSUME NEW w \in Nat \ {0}, NEW h \in Nat \ {0},
           NEW y \in 0..1, NEW b \in Nat, b % 2 = 0, NEW e \in 0..1, b + e \in 0..w * h - 1
    PROVE  PairIs(w, h, y, b, e)
<1> DEFINE n == w * h
           i == (b \div 2) * 4 + 2 * e + 1 - y
<1>1. 2 * w * h = 2 * n /\ n \in Int /\ b + e \in 0..n - 1  OBVIOUS
<1>2. PICK s \in Nat : b = 2 * s /\ b \div 2 = s
  <2>1. b \div 2 \in Nat /\ b = 2 * (b \div 2)  OBVIOUS
  <2>. QED  BY <2>1
<1>. HIDE DEF n
<1>3. i = 4 * s + 2 * e + 1 - y /\ i \in Int  BY <1>2
<1>. HIDE DEF i
<1>4. i \div 2 = b + e /\ i % 2 # y /\ (i % 4 < 2 <=> e = 0)
  <2>1. CASE e = 0 /\ y = 0  BY <1>2, <1>3, <2>1
  <2>2. CASE e = 0 /\ y = 1  BY <1>2, <1>3, <2>2
  <2>3. CASE e = 1 /\ y = 0  BY <1>2, <1>3, <2>3
  <2>4. CASE e = 1 /\ y = 1  BY <1>2, <1>3, <2>4
  <2>. QED  BY <2>1, <2>2, <2>3, <2>4
<1>5. i \in 0..2 * n - 1  BY <1>1, <1>2, <1>3
<1>6. i \in 0..2 * w * h - 1  BY <1>1, <1>5
<1>7. PackedImage(w, h, y)[i] = Chroma(IF e = 0 THEN "u" ELSE "v", ChromaOf(w, b + e))
  BY <1>4, <1>6 DEF PackedImage
<1>. QED  BY <1>7 DEF i, PairIs

(* The luma of a packed pixel.                                              *)
LEMMA LumaAt ==
    ASSUME NEW w \in Nat \ {0}, NEW h \in Nat \ {0}, NEW y \in 0..1, NEW p \in 0..w * h - 1
    PROVE  PackedImage(w, h, y)[p * 2 + y] = Luma(p)
<1> DEFINE n == w * h
           i == p * 2 + y
<1>1. 2 * w * h = 2 * n /\ n \in Int /\ p \in 0..n - 1  OBVIOUS
<1>. HIDE DEF n
<1>2. i \in 0..2 * n - 1 /\ i \div 2 = p /\ i % 2 = y  BY <1>1
<1>. HIDE DEF i
<1>3. i \in 0..2 * w * h - 1  BY <1>1, <1>2
<1>4. PackedImage(w, h, y)[i] = Luma(p)  BY <1>2, <1>3 DEF PackedImage
<1>. QED  BY <1>4 DEF i

(* Packed images give the planes of the same image.                         *)
LEMMA PackedComesBack ==
    ASSUME NEW m \in Nat \ {0}, NEW j \in Nat \ {0}, NEW w, w = 2 * m, NEW h, h = 2 * j, NEW format \in {"YUYV", "UYVY"}
    PROVE  LET y == IF format = "YUYV" THEN 0 ELSE 1
               image == pdp_llconv(format, "YVU16", PackedImage(w, h, y), w, h)
           IN  Faithful(w, h, pdp_llconv("YVU16", "YVU8", image, w, h))
<1> DEFINE n == w * h
           y == IF format = "YUYV" THEN 0 ELSE 1
           src == PackedImage(w, h, y)
           image == pdp_llconv(format, "YVU16", src, w, h)
           byte(x, k) == src[(x \div 2) * 4 + k]
           chroma(x, k) == Short(byte(x, k) * 128 + byte(x + w, k) * 128 + 32768)
<1>1. Planes(w, h, m, j)  BY PlanesCut
<1>2. n = w * h /\ w \in Nat \ {0} /\ h \in Nat \ {0} /\ y \in 0..1  OBVIOUS
<1>3. image = Packed422(src, w, h, y, 1 - y, 3 - y)
  <2>. HIDE DEF src
  <2>1. CASE format = "YUYV"  BY <2>1 DEF pdp_llconv, llconv_yuyv_packed_u8s16
  <2>2. CASE format = "UYVY"  BY <2>2 DEF pdp_llconv, llconv_uyvy_packed_u8s16
  <2>. QED  BY <2>1, <2>2
<1>. HIDE DEF src, y
<1>4. image = [p \in PacketPixels(w, h) |->
                 CASE PlaneOf(w, h, p) = "y" -> src[p * 2 + y] * 128
                   [] PlaneOf(w, h, p) = "v" -> chroma(BlockOf(w, ChromaAt(w, h, p)), 3 - y)
                   [] OTHER -> chroma(BlockOf(w, ChromaAt(w, h, p)), 1 - y)]
  BY <1>3 DEF Packed422
<1>. HIDE DEF n, image, chroma
<1>5. PICK q \in Nat \ {0} :
        /\ q = m * j /\ n \in Nat
        /\ \A p \in 0..n - 1 : p \in PacketPixels(w, h) /\ PlaneOf(w, h, p) = "y"
        /\ \A k \in 0..q - 1 :
              /\ n + k \in PacketPixels(w, h) /\ PlaneOf(w, h, n + k) = "v" /\ ChromaAt(w, h, n + k) = k
              /\ n + q + k \in PacketPixels(w, h) /\ PlaneOf(w, h, n + q + k) = "u" /\ ChromaAt(w, h, n + q + k) = k
  BY ONLY <1>1, <1>2 DEF Planes
<1>6. ASSUME NEW p \in 0..n - 1 PROVE pixel_pack_y(image[p]) = Luma(p)
  <2>1. p \in 0..w * h - 1  BY <1>2
  <2>2. src[p * 2 + y] = Luma(p)
    <3>1. PackedImage(w, h, y)[p * 2 + y] = Luma(p)  BY <1>2, <2>1, LumaAt
    <3>. QED  BY <3>1 DEF src
  <2>3. image[p] = Luma(p) * 128  BY ONLY <1>4, <1>5, <2>2, p \in 0..n - 1
  <2>4. p \in Int  BY <1>5
  <2>5. pixel_pack_y(Luma(p) * 128) = Luma(p)  BY <2>4, LumaByte, BytesBack
  <2>. QED  BY <2>3, <2>5
<1>7. ASSUME NEW k \in 0..q - 1
      PROVE  /\ pixel_pack_uv(chroma(BlockOf(w, k), 3 - y)) = Chroma("v", k)
             /\ pixel_pack_uv(chroma(BlockOf(w, k), 1 - y)) = Chroma("u", k)
  <2> DEFINE b == BlockOf(w, k)
  <2>1. k \in 0..m * j - 1  BY <1>5
  <2>2. BlockIn(w, h, m, j, k)  BY <2>1, BlockInside
  <2>3. ASSUME NEW d \in 0..1, NEW e \in 0..1
        PROVE  b + d * w + e \in 0..w * h - 1 /\ ChromaOf(w, b + d * w + e) = k /\ b \in Nat /\ b % 2 = 0
    BY <2>2 DEF BlockIn
  <2>. HIDE DEF b
  <2>4. b \in Nat /\ b % 2 = 0
    <3>1. 0 \in 0..1  OBVIOUS
    <3>. QED  BY <2>3, <3>1
  <2>5. ASSUME NEW e \in 0..1
        PROVE  /\ byte(b, 2 * e + 1 - y) = Chroma(IF e = 0 THEN "u" ELSE "v", k)
               /\ byte(b + w, 2 * e + 1 - y) = Chroma(IF e = 0 THEN "u" ELSE "v", k)
    <3>1. 0 \in 0..1 /\ 1 \in 0..1  OBVIOUS
    <3>2. /\ b + 0 * w + e \in 0..w * h - 1 /\ ChromaOf(w, b + 0 * w + e) = k
          /\ b + 1 * w + e \in 0..w * h - 1 /\ ChromaOf(w, b + 1 * w + e) = k
      BY <2>3, <3>1
    <3>3. b + 0 * w + e = b + e /\ b + 1 * w + e = (b + w) + e  BY <1>2, <2>4
    <3>4. b + w \in Nat /\ (b + w) % 2 = 0  BY <1>2, <2>4
    <3>5. b + e \in 0..w * h - 1 /\ ChromaOf(w, b + e) = k  BY ONLY <3>2, <3>3
    <3>6. (b + w) + e \in 0..w * h - 1 /\ ChromaOf(w, (b + w) + e) = k  BY ONLY <3>2, <3>3
    <3>7. PackedImage(w, h, y)[(b \div 2) * 4 + 2 * e + 1 - y] = Chroma(IF e = 0 THEN "u" ELSE "v", k)
      <4>1. PairIs(w, h, y, b, e)  BY <1>2, <2>4, <3>5, PairByte
      <4>. QED  BY <3>5, <4>1 DEF PairIs
    <3>8. PackedImage(w, h, y)[((b + w) \div 2) * 4 + 2 * e + 1 - y] = Chroma(IF e = 0 THEN "u" ELSE "v", k)
      <4> DEFINE r == b + w
      <4>. HIDE DEF r
      <4>1. r \in Nat /\ r % 2 = 0 /\ r + e \in 0..w * h - 1 /\ ChromaOf(w, r + e) = k  BY <3>4, <3>6 DEF r
      <4>2. PackedImage(w, h, y)[(r \div 2) * 4 + 2 * e + 1 - y] = Chroma(IF e = 0 THEN "u" ELSE "v", k)
        <5>1. PairIs(w, h, y, r, e)  BY <1>2, <4>1, PairByte
        <5>. QED  BY <4>1, <5>1 DEF PairIs
      <4>. QED  BY <4>2 DEF r
    <3>9. ASSUME NEW x \in Int PROVE (x \div 2) * 4 + (2 * e + 1 - y) = (x \div 2) * 4 + 2 * e + 1 - y
      BY <1>2
    <3>. QED  BY <1>2, <2>4, <3>4, <3>7, <3>8, <3>9 DEF src
  <2>6. k \in Int  BY <1>5
  <2>7. \A plane : pixel_pack_uv(Short(Chroma(plane, k) * 128 + Chroma(plane, k) * 128 + 32768)) = Chroma(plane, k)
    BY <2>6, ChromaByte, BytesBack
  <2>8. pixel_pack_uv(chroma(b, 1 - y)) = Chroma("u", k)
    <3>1. 2 * 0 + 1 - y = 1 - y /\ 0 \in 0..1  BY <1>2
    <3>2. byte(b, 2 * 0 + 1 - y) = Chroma("u", k) /\ byte(b + w, 2 * 0 + 1 - y) = Chroma("u", k)  BY <2>5, <3>1
    <3>. HIDE DEF byte
    <3>. QED  BY <2>7, <3>1, <3>2 DEF chroma
  <2>9. pixel_pack_uv(chroma(b, 3 - y)) = Chroma("v", k)
    <3>1. 2 * 1 + 1 - y = 3 - y /\ 1 \in 0..1  BY <1>2
    <3>2. byte(b, 2 * 1 + 1 - y) = Chroma("v", k) /\ byte(b + w, 2 * 1 + 1 - y) = Chroma("v", k)  BY <2>5, <3>1
    <3>. HIDE DEF byte
    <3>. QED  BY <2>7, <3>1, <3>2 DEF chroma
  <2>. QED  BY <2>8, <2>9 DEF b
<1>8. ASSUME NEW k \in 0..q - 1
      PROVE  pixel_pack_uv(image[n + k]) = Chroma("v", k) /\ pixel_pack_uv(image[n + q + k]) = Chroma("u", k)
  <2>1. image[n + k] = chroma(BlockOf(w, k), 3 - y) /\ image[n + q + k] = chroma(BlockOf(w, k), 1 - y)
    BY ONLY <1>4, <1>5, k \in 0..q - 1
  <2>. QED  BY <1>7, <2>1
<1>9. /\ DOMAIN image = PacketPixels(w, h)
      /\ \A p \in 0..w * h - 1 : pixel_pack_y(image[p]) = Luma(p)
      /\ \A k \in 0..m * j - 1 : /\ pixel_pack_uv(image[w * h + k]) = Chroma("v", k)
                                 /\ pixel_pack_uv(image[w * h + m * j + k]) = Chroma("u", k)
  BY <1>2, <1>4, <1>5, <1>6, <1>8
<1>10. Faithful(w, h, pdp_llconv("YVU16", "YVU8", image, w, h))  BY <1>9, PackedBytes
<1>. QED  BY <1>10 DEF image, src, y

(* The sizes of the images.                                                 *)
LEMMA SidesEven ==
    ASSUME NEW w \in Widths, NEW h \in Heights
    PROVE  \E m \in Nat \ {0}, j \in Nat \ {0} : m % 2 = 0 /\ w = 2 * m /\ h = 2 * j
<1>1. w \in Nat \ {0} /\ w % 4 = 0 /\ h \in Nat \ {0} /\ h % 2 = 0  BY ConvAssumption
<1>2. PICK z \in Nat \ {0} : w = 4 * z
  <2>1. w \div 4 \in Nat \ {0} /\ w = 4 * (w \div 4)  BY <1>1
  <2>. QED  BY <2>1
<1>3. PICK j \in Nat \ {0} : h = 2 * j
  <2>1. h \div 2 \in Nat \ {0} /\ h = 2 * (h \div 2)  BY <1>1
  <2>. QED  BY <2>1
<1>4. PICK m \in Nat \ {0} : m % 2 = 0 /\ w = 2 * m
  <2>1. 2 * z \in Nat \ {0} /\ (2 * z) % 2 = 0 /\ w = 2 * (2 * z)  BY <1>2
  <2>. QED  BY <2>1
<1>. QED  BY <1>3, <1>4

(* Each conversion establishes the invariant, whatever came before it.      *)
LEMMA RGBReturns == FromRGB => ColoursSound'
<1>. SUFFICES ASSUME FromRGB PROVE ColoursSound'  OBVIOUS
<1>1. PICK format \in {"RGB", "RGBA", "BGR", "BGRA"}, w \in Widths, h \in Heights, left \in Colour, right \in Colour :
         LET src == Bytes(format, w, h, left, right)
             image == pdp_llconv(format, "YVU16", src, w, h)
         IN convcall' = [op |-> "rgb", args |-> <<format, w, h, left, right>>,
                         out |-> [image |-> image, rgb |-> pdp_llconv("YVU16", "RGB", image, w, h),
                                  planar |-> IF format = "RGB" THEN pdp_llconv("RGB", "YVU8", src, w, h) ELSE <<>>]]
  BY DEF FromRGB
<1> DEFINE image == pdp_llconv(format, "YVU16", Bytes(format, w, h, left, right), w, h)
           rgb == pdp_llconv("YVU16", "RGB", image, w, h)
           planar == pdp_llconv("RGB", "YVU8", Bytes("RGB", w, h, left, right), w, h)
<1>2. PICK m \in Nat \ {0}, j \in Nat \ {0} : m % 2 = 0 /\ w = 2 * m /\ h = 2 * j  BY SidesEven
<1>3. ImageOf(w, h, m, j, left, right, image)  BY <1>2, ImageFromBytes
<1>4. /\ convcall'.op = "rgb" /\ convcall'.args = <<format, w, h, left, right>>
      /\ convcall'.out.image = image /\ convcall'.out.rgb = rgb
      /\ format = "RGB" => convcall'.out.planar = planar
  BY <1>1
<1>. HIDE DEF image, rgb, planar
<1>5. ASSUME NEW p \in 0..w * h - 1
      PROVE  LET c == IF p % w < w \div 2 THEN left ELSE right
             IN  /\ Distance(rgb[3 * p], c.r) <= 3
                 /\ Distance(rgb[3 * p + 1], c.g) <= 3
                 /\ Distance(rgb[3 * p + 2], c.b) <= 3
  BY <1>2, <1>3, ImageToBytes DEF rgb, Side
<1>6. ASSUME NEW p \in PacketPixels(w, h)
      PROVE  planar[p] = IF p < w * h THEN pixel_pack_y(image[p]) ELSE pixel_pack_uv(image[p])
  BY <1>2, <1>3, PlanarFromBytes DEF planar
<1>7. ColourReturns'  BY <1>4, <1>5, <1>6 DEF ColourReturns
<1>8. FormatsAgree'  BY <1>4 DEF FormatsAgree
<1>. QED  BY <1>7, <1>8 DEF ColoursSound

LEMMA PlanarReturns == FromPlanar => ColoursSound'
<1>. SUFFICES ASSUME FromPlanar PROVE ColoursSound'  OBVIOUS
<1>1. PICK w \in Widths, h \in Heights, swapped \in BOOLEAN :
         LET image == pdp_llconv(IF swapped THEN "YUV8" ELSE "YVU8", "YVU16", PlanarImage(w, h, swapped), w, h)
         IN convcall' = [op |-> "planar", args |-> <<w, h>>,
                         out |-> [image |-> image, bytes |-> pdp_llconv("YVU16", "YVU8", image, w, h),
                                  grey |-> pdp_llconv("GREY16", "GREY8", [p \in 0..w * h - 1 |-> image[p]], w, h)]]
  BY DEF FromPlanar, PlanarImage
<1> DEFINE image == pdp_llconv(IF swapped THEN "YUV8" ELSE "YVU8", "YVU16", PlanarImage(w, h, swapped), w, h)
           bytes == pdp_llconv("YVU16", "YVU8", image, w, h)
<1>2. PICK m \in Nat \ {0}, j \in Nat \ {0} : m % 2 = 0 /\ w = 2 * m /\ h = 2 * j  BY SidesEven
<1>3. Faithful(w, h, bytes)  BY <1>2, PlanarComesBack
<1>4. convcall'.op = "planar" /\ convcall'.args = <<w, h>> /\ convcall'.out.bytes = bytes  BY <1>1
<1>. HIDE DEF image, bytes
<1>5. FormatsAgree'  BY <1>3, <1>4 DEF FormatsAgree, Faithful
<1>6. ColourReturns'  BY <1>4 DEF ColourReturns
<1>. QED  BY <1>5, <1>6 DEF ColoursSound

LEMMA PackedReturns == FromPacked => ColoursSound'
<1>. SUFFICES ASSUME FromPacked PROVE ColoursSound'  OBVIOUS
<1>1. PICK w \in Widths, h \in Heights, format \in {"YUYV", "UYVY"} :
         LET y == IF format = "YUYV" THEN 0 ELSE 1
             image == pdp_llconv(format, "YVU16", PackedImage(w, h, y), w, h)
         IN convcall' = [op |-> "planar", args |-> <<w, h>>,
                         out |-> [image |-> image, bytes |-> pdp_llconv("YVU16", "YVU8", image, w, h), grey |-> <<>>]]
  BY DEF FromPacked, PackedImage
<1> DEFINE y == IF format = "YUYV" THEN 0 ELSE 1
           image == pdp_llconv(format, "YVU16", PackedImage(w, h, y), w, h)
           bytes == pdp_llconv("YVU16", "YVU8", image, w, h)
<1>2. PICK m \in Nat \ {0}, j \in Nat \ {0} : m % 2 = 0 /\ w = 2 * m /\ h = 2 * j  BY SidesEven
<1>3. Faithful(w, h, bytes)  BY <1>2, PackedComesBack
<1>4. convcall'.op = "planar" /\ convcall'.args = <<w, h>> /\ convcall'.out.bytes = bytes  BY <1>1
<1>. HIDE DEF image, bytes
<1>5. FormatsAgree'  BY <1>3, <1>4 DEF FormatsAgree, Faithful
<1>6. ColourReturns'  BY <1>4 DEF ColourReturns
<1>. QED  BY <1>5, <1>6 DEF ColoursSound

(* Colours survive the conversions: an image of any even size and any two   *)
(* colours that goes into a packet and back (system/image/pdp_llconv.c) has *)
(* each component within 3 levels at its own pixel, whatever the order and  *)
(* the number of its bytes, its 8 bit planes are the bytes of the 16 bit    *)
(* ones, and the planar and the packed formats of an image give the same    *)
(* planes.                                                                  *)
THEOREM ColoursReturn == ConvSpec => []ColoursSound
<1>1. ConvInit => ColoursSound
  BY DEF ConvInit, ConvIdle, ColoursSound, ColourReturns, FormatsAgree
<1>2. ColoursSound /\ [ConvNext]_convcall => ColoursSound'
  <2>. SUFFICES ASSUME ColoursSound, [ConvNext]_convcall PROVE ColoursSound'  OBVIOUS
  <2>1. CASE UNCHANGED convcall  BY <2>1 DEF ColoursSound, ColourReturns, FormatsAgree
  <2>2. CASE ConvReturn  BY <2>2 DEF ConvReturn, ConvIdle, ColoursSound, ColourReturns, FormatsAgree
  <2>. QED  BY <2>1, <2>2, RGBReturns, PlanarReturns, PackedReturns DEF ConvNext
<1>. QED  BY <1>1, <1>2, PTL DEF ConvSpec
=============================================================================
